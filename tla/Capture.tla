------------------------------ MODULE Capture ------------------------------
(* The data of a snapshot that the command collectinfo writes to its file    *)
(* ascinfo.json, as it is made of the answers of the nodes                   *)
(* (get_controller.py, live_cluster/collectinfo_controller.py).  The answers *)
(* are those to a kind of request, answers[request][node]: [ok, val]; one    *)
(* that is not ok is the exception that stands for it.                       *)
EXTENDS Values, Integers, Sequences, FiniteSets, SequencesExt, TLC

CONSTANT NODES   \* the nodes in the order of the dictionaries

Nothing == <<>>
Falsy(v) == DOMAIN v = {}
Came(answer) == {n \in DOMAIN answer : answer[n].ok}
Truthy(answer) == {n \in Came(answer) : ~Falsy(answer[n].val)}
Only(answer, nodes) == [n \in nodes |-> answer[n].val]
Cleared(answer) == [n \in DOMAIN answer |-> IF answer[n].ok THEN answer[n].val ELSE Nothing]

(* Mutated: the nodes of a key replace one another. *)
FlipKeysOfOne(d) ==
  [k2 \in UNION {DOMAIN d[k1] : k1 \in DOMAIN d} |->
   LET k1 == CHOOSE k \in DOMAIN d : k2 \in DOMAIN d[k] IN k1 :> d[k1][k2]]
(* {key1: {key2: value}} => {key2: {key1: value}} *)
flip_keys(d) ==
  [k2 \in UNION {DOMAIN d[k1] : k1 \in DOMAIN d} |->
   [k1 \in {k \in DOMAIN d : k2 \in DOMAIN d[k]} |-> d[k1][k2]]]

-----------------------------------------------------------------------------
(* What a getter keeps of a node that failed: an empty entry, or none. *)
get_security_config(a) == Cleared(a["security"])
get_service_config(a) == Cleared(a["service"])
get_network_config(a) == Only(a["network"], Came(a["network"]))
get_xdr_config(a) == Only(a["xdr config"], Came(a["xdr config"]))
get_dc_config(a) == Only(a["dc config"], Truthy(a["dc config"]))
get_roster_config(a) == Only(a["roster"], Truthy(a["roster"]))
get_racks_config(a) == Only(a["racks"], Came(a["racks"]))
get_rack_ids_config(a) == Only(a["rack-ids"], Truthy(a["rack-ids"]))
get_service_stats(a) == Cleared(a["statistics"])
get_xdr_stats(a) == Cleared(a["xdr"])
get_dc_stats(a) == Only(a["dc"], Truthy(a["dc"]))
get_set_stats(a) == Only(a["sets"], Truthy(a["sets"]))
get_bin_stats(a) == Only(a["bins"], Truthy(a["bins"]))

(* The namespaces that any node listed, of every node that has them. *)
NamespaceSet(a) == UNION {ToSet(a["namespaces"][n].val) : n \in Came(a["namespaces"])}
OfNamespaceSet(a, request) ==
  LET of == [n \in Came(a[request]) |->
             Restrict(a[request][n].val, NamespaceSet(a) \cap DOMAIN a[request][n].val)]
  IN  Restrict(of, {n \in DOMAIN of : ~Falsy(of[n])})
get_namespace_config(a) == OfNamespaceSet(a, "namespace config")
get_namespace_stats(a) == OfNamespaceSet(a, "namespace")

(* The statistics of an index are asked of every node when one lists it, and *)
(* take what the last node to list it says of it.                            *)
Indexes(a) == UNION {DOMAIN a["sindex"][n].val : n \in Came(a["sindex"])}
Listing(a, key) == {n \in Came(a["sindex"]) : key \in DOMAIN a["sindex"][n].val}
LastOf(nodes) == CHOOSE n \in nodes :
  \A i, j \in DOMAIN NODES : NODES[i] = n /\ NODES[j] \in nodes => j <= i
get_sindex_stats(a) ==
  [n \in Came(a["sindex statistics"]) |->
   [key \in Indexes(a) |-> LET last == LastOf(Listing(a, key))
                           IN  a["sindex"][last].val[key] @@ a["sindex statistics"][n].val[key]]]

-----------------------------------------------------------------------------
(* The answers of a node under its statistics, its configuration and the     *)
(* rest; sets, bins and indexes under the namespaces they are of.            *)
_restructure_ns_section(section) ==
  [n \in DOMAIN section |-> [ns \in DOMAIN section[n] |-> "service" :> section[n][ns]]]
_init_stat_ns_subsection(ns) ==
  ns @@ ("set" :> Nothing) @@ ("bin" :> Nothing) @@ ("sindex" :> Nothing)
Entries(section, n) == IF n \in DOMAIN section THEN section[n] ELSE Nothing
_restructure_set_section(sets, ns) ==
  [name \in {key[2] : key \in {k \in DOMAIN sets : k[1] = ns}} |-> sets[<<ns, name>>]]
_restructure_sindex_section(indexes, ns) ==
  [name \in {key[3] : key \in {k \in DOMAIN indexes : k[1] = ns}} |->
   indexes[CHOOSE key \in DOMAIN indexes : key[1] = ns /\ key[3] = name]]
_restructure_bin_section(bins, ns) == IF ns \in DOMAIN bins THEN bins[ns] ELSE Nothing
Namespaces(a) ==
  LET sections == _restructure_ns_section(get_namespace_stats(a))
  IN  [n \in DOMAIN sections |-> [ns \in DOMAIN sections[n] |->
       ("set" :> _restructure_set_section(Entries(get_set_stats(a), n), ns))
         @@ ("sindex" :> _restructure_sindex_section(Entries(get_sindex_stats(a), n), ns))
         @@ ("bin" :> _restructure_bin_section(Entries(get_bin_stats(a), n), ns))
         @@ _init_stat_ns_subsection(sections[n][ns])]]

GetStatistics(a) ==
  ("service" :> get_service_stats(a)) @@ ("namespace" :> Namespaces(a))
    @@ ("xdr" :> get_xdr_stats(a)) @@ ("dc" :> get_dc_stats(a))
GetConfig(a) ==
  ("security" :> get_security_config(a)) @@ ("service" :> get_service_config(a))
    @@ ("namespace" :> _restructure_ns_section(get_namespace_config(a)))
    @@ ("network" :> get_network_config(a)) @@ ("xdr" :> get_xdr_config(a))
    @@ ("dc" :> get_dc_config(a)) @@ ("roster" :> get_roster_config(a))
    @@ ("racks" :> get_racks_config(a)) @@ ("rack-ids" :> get_rack_ids_config(a))

_get_as_data_json(a) ==
  flip_keys(("statistics" :> flip_keys(GetStatistics(a))) @@ ("config" :> flip_keys(GetConfig(a))))
(* It raises for a node that has a part of a namespace and no namespace; an  *)
(* exception among the statistics of an index can not be written as JSON.    *)
Raises(a) ==
  LET indexed == IF Indexes(a) = {} THEN {} ELSE DOMAIN a["sindex statistics"]
  IN  \/ ~(DOMAIN get_set_stats(a) \cup DOMAIN get_bin_stats(a) \cup indexed
             \subseteq DOMAIN Namespaces(a))
      \/ \E n \in indexed \ Came(a["sindex statistics"]), key \in Indexes(a) :
           key[1] \in DOMAIN Namespaces(a)[n]

_check_for_exception_and_set(answer, n) == Cleared(Restrict(answer, {n} \cap DOMAIN answer))
MetaSections ==
  ("asd_build" :> "build") @@ ("edition" :> "version") @@ ("node_id" :> "node")
    @@ ("endpoints" :> "service-list") @@ ("services" :> "peers") @@ ("udf" :> "udf-list")
    @@ ("health" :> "health-outliers") @@ ("best_practices" :> "best-practices")
(* The jobs of a node are there module by module. *)
get_jobs(a) ==
  flip_keys([module \in {"scan", "query", "sindex-builder"} |->
             Only(a[module], Came(a[module]))])
_get_as_metadata(a) ==
  [n \in DOMAIN a["build"] |->
   [section \in DOMAIN MetaSections |->
      _check_for_exception_and_set(a[MetaSections[section]], n)[n]]
     @@ (IF n \in DOMAIN get_jobs(a) THEN "jobs" :> get_jobs(a)[n] ELSE Nothing)]
Histograms == ("ttl" :> "ttl") @@ ("objsz" :> "objsz") @@ ("object-size" :> "objsz bytes")
_get_as_histograms(a) ==
  [n \in DOMAIN a["ttl"] |->
   [h \in {h \in DOMAIN Histograms : n \in Truthy(a[Histograms[h]])} |-> a[Histograms[h]][n].val]]
_get_as_latency(a) == Cleared(a["latencies"])
_get_as_access_control_list(a) ==
  [n \in DOMAIN a["users"] |->
   ("users" :> Cleared(a["users"])[n]) @@ ("roles" :> Cleared(a["roles"])[n])]

-----------------------------------------------------------------------------
(* The partitions of a node by namespace: those it masters now, and those it *)
(* keeps a copy of or is to master.  A row tells the working master, or with *)
(* an older server where the partition comes from or goes to.                *)
IsMaster(row, node_id) ==
  IF row.working_master # 0 THEN row.working_master = node_id
  ELSE IF row.replica = 0 THEN row.origin = 0 ELSE row.target # 0
IsProle(row, node_id) ==
  /\ ~IsMaster(row, node_id)
  /\ \/ row.replica = 0
     \/ row.state \in {"S", "D"}
_get_pmap_data(rows, node_id) ==
  [ns \in {rows[i].ns : i \in DOMAIN rows} |->
   <<Len(SelectSeq(rows, LAMBDA row : row.ns = ns /\ IsMaster(row, node_id))),
     Len(SelectSeq(rows, LAMBDA row : row.ns = ns /\ IsProle(row, node_id)))>>]
get_pmap(a) ==
  [n \in Came(a["partition-info"]) |->
   _get_pmap_data(a["partition-info"][n].val, IF a["node"][n].ok THEN a["node"][n].val[1] ELSE 0)]

SectionOf(name, sections, n) == IF n \in DOMAIN sections THEN name :> sections[n] ELSE Nothing
_get_collectinfo_data_json(a) ==
  [n \in DOMAIN _get_as_data_json(a) |->
   [as_stat |-> _get_as_data_json(a)[n]
      @@ SectionOf("meta_data", _get_as_metadata(a), n)
      @@ SectionOf("histogram", _get_as_histograms(a), n)
      @@ SectionOf("latency", _get_as_latency(a), n)
      @@ SectionOf("pmap", IF "partition-info" \in DOMAIN a THEN get_pmap(a) ELSE Nothing, n)
      @@ SectionOf("acl", _get_as_access_control_list(a), n),
    sys_stat |-> IF n \in Truthy(a["system"]) THEN a["system"][n].val ELSE Nothing]]
=============================================================================
