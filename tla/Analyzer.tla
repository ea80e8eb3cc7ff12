------------------------------ MODULE Analyzer ------------------------------
(* The collectinfo analyzer: the snapshot it holds and the commands that     *)
(* show it (collectinfo_analyzer/).  What a command shows is a set of        *)
(* tables, <<type, stanza, path>> -> node -> value: the path is the          *)
(* namespace, set, index or datacenter that a table is of.                   *)
EXTENDS CollectinfoLog, Health

CONSTANTS
  Collected,   \* what can be at a path: path -> [place, captures]
  Questions,   \* lines of the user: [op, words]
  MBYTE        \* bytes of a megabyte

VARIABLES
  cinfo_path,           \* where the snapshot was loaded from
  selected_cinfo_logs,  \* LogHandler's: the snapshot, or the error that kept it out
  license_data_usage,   \* LogHandler's
  report,               \* what the last command showed
  health_input          \* HealthChecker.health_input_data, once it was created

cinfoVars == <<cinfo_path, selected_cinfo_logs, license_data_usage, report, health_input>>

held == selected_cinfo_logs.cinfo_data
Blank == [op |-> "", words |-> <<>>, tables |-> Nothing, raised |-> FALSE]

-----------------------------------------------------------------------------
(* LogHandler: what it loads, and what the snapshot has. *)

Refused(error) == [error |-> error, snapshot |-> Nothing, license |-> Nothing]
_add_cinfo_log_files(place) ==
  LET told(read) ==
        IF read.raised THEN Refused("not JSON")
        ELSE IF Falsy(CollectinfoLog_(read.data))
        THEN Refused("Multiple snapshots available without JSON dump.")
        ELSE [error |-> "", snapshot |-> CollectinfoLog_(read.data), license |-> read.license]
  IN  CASE place.is = "none" -> Refused("not specified any collectinfo path")
        [] place.is = "missing" -> Refused("Wrong Collectinfo path.")
        [] place.is \notin {"none", "missing"} /\ _get_all_file_paths(place) = <<>> ->
             Refused("No valid Aerospike collectinfo log available.")
        [] OTHER -> Given(parse_collectinfo_files(_get_all_file_paths(place)), told)

info_getconfig(stanza) == get_data(held, "config", stanza)
info_statistics(stanza) == get_data(held, "statistics", stanza)
info_get_originalconfig(stanza) == get_data(held, "original_config", stanza)
info_meta_data(stanza) == get_data(held, "meta_data", stanza)
info_latency == get_data(held, "latency", "")
info_pmap == get_data(held, "pmap", "")
info_namespaces == get_data(held, "config", "namespace_list")
admin_acl(stanza) == get_data(held, "acl", stanza)

(* The format of a raw histogram is taken from the build of its node: one    *)
(* whose build is not known is read as an old one.  A histogram [1] of the   *)
(* format [2] that can not be read is left out, or read as what it is not.   *)
Misread == <<0, 0>>
parse_raw_histogram(raw, logarithmic, new) ==
  IF new = (raw[2] = 1) THEN raw ELSE IF new \/ logarithmic THEN Nothing ELSE Misread
info_histogram(stanza) ==
  LET of == get_data(held, "histogram", stanza)
      new(n) == n \in DOMAIN get_asd_build(held) /\ is_new_histogram_version(get_asd_build(held)[n])
      read == [n \in DOMAIN of |-> [ns \in DOMAIN of[n] |->
               IF Falsy(of[n][ns]) THEN Nothing
               ELSE parse_raw_histogram(of[n][ns], stanza = "object-size", new(n))]]
  IN  [n \in DOMAIN of |-> Restrict(read[n], {ns \in DOMAIN read[n] : ~Falsy(read[n][ns])})]

(* The principal that the nodes name; nodes are asked up to the first that   *)
(* disagrees, and one without statistics raises.                             *)
get_principal ==
  FoldLeft(LAMBDA p, stats :
             CASE p.over -> p
               [] "cluster_principal" \notin DOMAIN stats -> [p EXCEPT !.raised = TRUE, !.over = TRUE]
               [] Falsy(p.id) -> [p EXCEPT !.id = stats["cluster_principal"]]
               [] OTHER -> [p EXCEPT !.over = stats["cluster_principal"] # p.id],
           [id |-> Nothing, over |-> FALSE, raised |-> FALSE],
           [i \in DOMAIN InOrder(DOMAIN info_statistics("service")) |->
            info_statistics("service")[InOrder(DOMAIN info_statistics("service"))[i]]])
get_node_id_to_ip_mapping ==
  [id \in {info_meta_data("node_id")[n] : n \in DOMAIN info_meta_data("node_id")} |->
   LastOf({n \in DOMAIN info_meta_data("node_id") : info_meta_data("node_id")[n] = id})]
OfPrincipal(of) ==
  IF get_principal.raised \/ get_principal.id \notin DOMAIN get_node_id_to_ip_mapping THEN {}
  ELSE {get_node_id_to_ip_mapping[get_principal.id]} \cap DOMAIN of

(* What the system of the nodes said; the lists of devices become tables by  *)
(* device, in the snapshot itself.                                           *)
get_sys_data(nodes, stanza) ==
  [n \in {n \in DOMAIN nodes : stanza \in DOMAIN nodes[n].sys_stat} |-> nodes[n].sys_stat[stanza]]
restructure_sys_data(content, stanza) ==
  IF stanza \in {"iostat", "interrupts"}
  THEN [n \in DOMAIN content |->
        [device \in {content[n][i][1] : i \in DOMAIN content[n]} |->
         (CHOOSE entry \in ToSet(content[n]) : entry[1] = device)[2]]]
  ELSE content
mbytes_to_bytes(content) == [n \in DOMAIN content |-> <<MBYTE * content[n][1]>>]

-----------------------------------------------------------------------------
(* Tables *)

Show(type, stanza, data) == <<type, stanza, <<>>>> :> data
Each(type, stanza, of) ==
  [t \in {<<type, stanza, <<key>>>> : key \in DOMAIN of} |-> of[t[3][1]]]
Config(stanza) == Show("config", stanza, info_getconfig(stanza))
Statistics(stanza) == Show("statistics", stanza, info_statistics(stanza))
EachConfig(stanza) == Each("config", stanza, flip_keys(info_getconfig(stanza)))
EachStatistics(stanza) == Each("statistics", stanza, flip_keys(info_statistics(stanza)))
filter_list(names, word) == {name \in names : Falsy(word) \/ name = word[1]}
Word_(words, i) == IF i \in DOMAIN words THEN <<words[i]>> ELSE Nothing
Keeping(tables, Keeps(_)) == Restrict(tables, {t \in DOMAIN tables : Keeps(t[3][1])})

(* The nodes of an old and of a new server: XDR was rewritten in 5.0.  A     *)
(* node whose build is not known is neither.                                 *)
Major(n) == get_asd_build(held)[n] \div 10
Old(nodes) == {n \in nodes \cap DOMAIN get_asd_build(held) : Major(n) < 5}
New(nodes) == {n \in nodes \cap DOMAIN get_asd_build(held) : Major(n) >= 5}

(* One node of a new server without its configuration hides all of them. *)
format_xdr5_configs(configs, words) ==
  LET kept(d, word) == Restrict(d, filter_list(DOMAIN d, word))
      dcs(n) == kept(configs[n]["dc_configs"], Word_(words, 1))
      ns(n, dc) == kept(configs[n]["ns_configs"][dc], Word_(words, 2))
      nss(n) == [dc \in DOMAIN kept(configs[n]["ns_configs"], Word_(words, 1)) |-> ns(n, dc)]
  IN  IF \E n \in DOMAIN configs : Falsy(configs[n]) THEN Nothing
      ELSE Show("config", "xdr_configs", [n \in DOMAIN configs |-> configs[n]["xdr_configs"]])
             @@ Each("config", "dc_configs", flip_keys([n \in DOMAIN configs |-> dcs(n)]))
             @@ Each("config", "ns_configs", flip_keys([n \in DOMAIN configs |-> nss(n)]))
OldXdr(type, of) == IF Old(DOMAIN of) = {} THEN Nothing ELSE Show(type, "xdr", Restrict(of, Old(DOMAIN of)))
EachDc(words) ==
  LET of == info_statistics("xdr")
  IN  Keeping(Each("statistics", "xdr", flip_keys(Restrict(of, New(DOMAIN of)))),
              LAMBDA dc : dc \in filter_list({dc}, Word_(words, 1)))
ForOld(tables) == IF Old(DOMAIN held) = {} THEN Nothing ELSE tables

-----------------------------------------------------------------------------
(* show config *)

show_config_security == Config("security")
show_config_service == Config("service")
show_config_network == Config("network")
show_config_namespace == EachConfig("namespace")
show_config ==
  show_config_security @@ show_config_service @@ show_config_network @@ show_config_namespace
show_config_xdr(words) ==
  LET of == info_getconfig("xdr")
  IN  (IF New(DOMAIN of) = {} THEN Nothing
       ELSE format_xdr5_configs(Restrict(of, New(DOMAIN of)), words)) @@ OldXdr("config", of)
show_config_dc == ForOld(EachConfig("dc"))

(* show statistics *)

show_statistics_service == Statistics("service")
show_statistics_namespace(words) ==
  Keeping(EachStatistics("namespace"), LAMBDA ns : ns \in filter_list({ns}, Word_(words, 1)))
show_statistics_sets(words) ==
  Keeping(EachStatistics("set"), LAMBDA key : /\ key[1] \in filter_list({key[1]}, Word_(words, 1))
                                              /\ key[2] \in filter_list({key[2]}, Word_(words, 2)))
show_statistics_bins(words) ==
  Keeping(EachStatistics("bin"), LAMBDA ns : ns \in filter_list({ns}, Word_(words, 1)))
show_statistics(words) ==
  show_statistics_bins(words) @@ show_statistics_sets(words) @@ show_statistics_service
    @@ show_statistics_namespace(words)
show_statistics_xdr(words) == EachDc(words) @@ OldXdr("statistics", info_statistics("xdr"))
show_statistics_dc == ForOld(EachStatistics("dc"))
show_statistics_sindex(words) ==
  Keeping(EachStatistics("sindex"), LAMBDA key : /\ key[1] \in filter_list({key[1]}, Word_(words, 1))
                                                 /\ key[3] \in filter_list({key[3]}, Word_(words, 2)))

(* show distribution; sizes in bytes are shown of servers of one format. *)

_do_distribution(histogram) ==
  IF Falsy(info_histogram(histogram)) THEN Nothing
  ELSE Show("histogram", histogram, info_histogram(histogram))
show_distribution_time_to_live == _do_distribution("ttl")
show_distribution_object_size == _do_distribution("objsz")
show_distribution_eviction == _do_distribution("evict")
show_distribution == show_distribution_time_to_live @@ show_distribution_object_size
get_histogram_units(of) ==
  UNION {{of[n][ns][2] : ns \in DOMAIN of[n]} : n \in DOMAIN of}
MixedUnits == Cardinality(get_histogram_units(info_histogram("object-size"))) > 1
show_distribution_bytes == Show("histogram", "object-size", info_histogram("object-size"))

(* show latencies: histogram by histogram, for the namespaces that are named *)
(* of those a node listed.                                                   *)

show_latencies(words) ==
  LET listed == UNION {DOMAIN info_namespaces[n] : n \in DOMAIN info_namespaces}
      wanted == filter_list(listed, Word_(words, 1))
      of(data) == IF words = <<>> \/ "namespace" \notin DOMAIN data THEN data
                  ELSE [data EXCEPT !["namespace"] = Restrict(@, wanted \cap DOMAIN @)]
  IN  Each("latency", "", flip_keys([n \in DOMAIN info_latency |->
        [histogram \in DOMAIN info_latency[n] |-> of(info_latency[n][histogram])]]))

(* The other tables of show; some are of one node only. *)

show_pmap == IF Falsy(info_pmap) THEN Nothing ELSE Show("pmap", "", info_pmap)
show_roster == Config("roster")
show_best_practices == Show("meta_data", "best_practices", info_meta_data("best_practices"))
_job_helper(module) ==
  LET jobs == flip_keys(info_meta_data("jobs"))
  IN  IF module \notin DOMAIN jobs THEN Nothing
      ELSE <<"meta_data", "jobs", <<module>>>> :> jobs[module]
show_jobs == _job_helper("scan") @@ _job_helper("query") @@ _job_helper("sindex-builder")
FirstNode(of) == IF Falsy(of) THEN of ELSE Restrict(of, {Head(InOrder(DOMAIN of))})
show_users == Show("acl", "users", FirstNode(admin_acl("users")))
UsersLost == \E n \in DOMAIN admin_acl("users") : Falsy(admin_acl("users")[n])
show_roles == Show("acl", "roles", FirstNode(admin_acl("roles")))
AtPrincipal(type, stanza, of) == Show(type, stanza, Restrict(of, OfPrincipal(of)))
show_udfs == AtPrincipal("meta_data", "udf", info_meta_data("udf"))
show_sindex == AtPrincipal("statistics", "sindex", info_statistics("sindex"))
show_racks == AtPrincipal("config", "racks", info_getconfig("racks"))

-----------------------------------------------------------------------------
(* info, features, summary *)

Builds == Show("meta_data", "asd_build", info_meta_data("asd_build"))
Editions == Show("meta_data", "edition", info_meta_data("edition"))
info_network == Statistics("service") @@ Builds @@ Editions
info_namespace_usage == Statistics("namespace")
info_namespace_object == Statistics("namespace") @@ Config("rack-ids")
info_namespace == info_namespace_usage @@ info_namespace_object
info_set == Show("statistics", "set", flip_keys(flip_keys(info_statistics("set"))))
info_xdr(words) == show_statistics_xdr(words)
info_default(words) == info_network @@ info_namespace @@ info_xdr(words)
(* The configuration of a datacenter comes over its statistics. *)
info_dc ==
  LET config == flip_keys(info_getconfig("dc"))
      with(dc, n, stats) ==
        IF dc \in DOMAIN config /\ n \in DOMAIN config[dc] THEN config[dc][n] @@ stats ELSE stats
      stats == flip_keys(info_statistics("dc"))
  IN  ForOld(Each("info", "dc", [dc \in DOMAIN stats |->
                                 [n \in DOMAIN stats[dc] |-> with(dc, n, stats[dc][n])]]))
info_sindex == EachStatistics("sindex")

FeatureInputs ==
  Statistics("service") @@ Statistics("namespace") @@ Statistics("xdr")
    @@ Config("service") @@ Config("namespace")
features == FeatureInputs @@ Config("security")
os_version ==
  LET lsb == get_sys_data(held, "lsb")  kernel == get_sys_data(held, "uname")
  IN  [n \in DOMAIN lsb |-> IF n \in DOMAIN kernel THEN lsb[n] \o kernel[n] ELSE Nothing]
summary ==
  FeatureInputs @@ Builds @@ Editions @@ Show("system", "os_version", os_version)
    @@ Show("license", "", license_data_usage)

-----------------------------------------------------------------------------
(* health: the input of its queries is made once, from everything. *)

statistics_stanzas == {"service", "namespace", "set", "bin", "xdr", "dc", "sindex"}
config_stanzas == {"service", "xdr", "network", "dc", "namespace", "roster", "racks"}
original_config_stanzas == {"service", "xdr", "network", "dc", "namespace"}
cluster_stanzas == {"asd_build", "edition", "node_id"}
metadata_stanzas == {"endpoints", "services", "udf", "health"}
sys_stanzas == {"free-m", "top", "iostat", "meminfo", "dmesg", "lscpu", "sysctlall", "iptables",
                "hdparm", "limits", "interrupts", "df", "lsb", "environment", "scheduler"}

OfSystem(nodes, stanza) ==
  LET content == restructure_sys_data(get_sys_data(nodes, stanza), stanza)
  IN  IF stanza = "free-m" THEN mbytes_to_bytes(content) ELSE content
create_health_input ==
  [k \in {"statistics"} \X statistics_stanzas |-> info_statistics(k[2])]
    @@ [k \in {"config"} \X config_stanzas |-> info_getconfig(k[2])]
    @@ [k \in {"original_config"} \X original_config_stanzas |-> info_get_originalconfig(k[2])]
    @@ [k \in {"meta_data"} \X (cluster_stanzas \cup metadata_stanzas) |-> info_meta_data(k[2])]
    @@ [k \in {"sys_stat"} \X sys_stanzas |-> OfSystem(held, k[2])]
(* Converting the data of the system converts what the snapshot holds. *)
Converted(nodes) ==
  [n \in DOMAIN nodes |-> [nodes[n] EXCEPT !.sys_stat =
     [stanza \in DOMAIN @ |-> IF stanza \in sys_stanzas THEN OfSystem(nodes, stanza)[n] ELSE @[stanza]]]]
(* Mutated: the input is made anew each time, the memory converted in place. *)
HealthCheckAnew ==
  /\ health_input' = create_health_input
  /\ selected_cinfo_logs' = [selected_cinfo_logs EXCEPT !.cinfo_data =
       [n \in DOMAIN @ |-> [@[n] EXCEPT !.sys_stat =
          [stanza \in DOMAIN @ |-> IF stanza = "free-m" THEN OfSystem(held, stanza)[n] ELSE @[stanza]]]]]
HealthCheckController ==
  IF ~Falsy(health_input) THEN UNCHANGED <<selected_cinfo_logs, health_input>>
  ELSE /\ health_input' = create_health_input
       /\ selected_cinfo_logs' = [selected_cinfo_logs EXCEPT !.cinfo_data = Converted(@)]

-----------------------------------------------------------------------------
(* The commands.  One that raises ends with its error, at the prompt. *)

Raises_(op) ==
  CASE op = "show udfs" -> OfPrincipal(info_meta_data("udf")) = {}
    [] op = "show sindex" -> OfPrincipal(info_statistics("sindex")) = {}
    [] op = "show racks" -> OfPrincipal(info_getconfig("racks")) = {}
    [] op = "show users" -> UsersLost
    [] op = "show distribution object_size -b" -> MixedUnits
    [] OTHER -> FALSE

ShowController(op, words) ==
  CASE op = "show config" -> show_config
    [] op = "show config xdr" -> show_config_xdr(words)
    [] op = "show config dc" -> show_config_dc
    [] op = "show statistics" -> show_statistics(words)
    [] op = "show statistics xdr" -> show_statistics_xdr(words)
    [] op = "show statistics dc" -> show_statistics_dc
    [] op = "show statistics sindex" -> show_statistics_sindex(words)
    [] op = "show distribution" -> show_distribution
    [] op = "show distribution eviction" -> show_distribution_eviction
    [] op = "show distribution object_size -b" -> show_distribution_bytes
    [] op = "show latencies" -> show_latencies(words)
    [] op = "show pmap" -> show_pmap
    [] op = "show roster" -> show_roster
    [] op = "show best-practices" -> show_best_practices
    [] op = "show jobs" -> show_jobs
    [] op = "show users" -> show_users
    [] op = "show roles" -> show_roles
    [] op = "show udfs" -> show_udfs
    [] op = "show sindex" -> show_sindex
    [] op = "show racks" -> show_racks
InfoController(op, words) ==
  CASE op = "info" -> info_default(words)
    [] op = "info set" -> info_set
    [] op = "info dc" -> info_dc
    [] op = "info sindex" -> info_sindex
CollectinfoRootController(op, words) ==
  CASE op \in {"info", "info set", "info dc", "info sindex"} -> InfoController(op, words)
    [] op = "features" -> features
    [] op = "summary" -> summary
    [] op = "list" -> Nothing
    [] OTHER -> ShowController(op, words)

CollectinfoLogHandler(path) ==
  /\ cinfo_path = path
  /\ LET log == _add_cinfo_log_files(Collected[path].place)
      IN  /\ selected_cinfo_logs = log.snapshot /\ license_data_usage = log.license
          /\ report = [Blank EXCEPT !.op = IF log.error = "" THEN "" ELSE "exit"]
  /\ health_input = Nothing

Answer(q) ==
  /\ report.op = ""
  /\ IF q.op = "health" THEN HealthCheckController ELSE UNCHANGED <<selected_cinfo_logs, health_input>>
  /\ report' = [op |-> q.op, words |-> q.words, raised |-> Raises_(q.op),
                tables |-> CASE Raises_(q.op) -> Nothing
                             [] q.op = "health" -> Show("health", "", execute(health_input'))
                             [] OTHER -> CollectinfoRootController(q.op, q.words)]
  /\ UNCHANGED <<cinfo_path, license_data_usage>>
Read ==
  /\ report.op \notin {"", "exit"}
  /\ report' = Blank
  /\ UNCHANGED <<cinfo_path, selected_cinfo_logs, license_data_usage, health_input>>

-----------------------------------------------------------------------------
(* Properties *)

(* The request whose answer a table is made of, and where in the answer. *)
Answers_ ==
  ("config" :> ("security" :> "security" @@ "service" :> "service" @@ "network" :> "network"
     @@ "namespace" :> "namespace config" @@ "xdr" :> "xdr config" @@ "dc" :> "dc config"
     @@ "roster" :> "roster" @@ "racks" :> "racks" @@ "rack-ids" :> "rack-ids"
     @@ "xdr_configs" :> "xdr config" @@ "dc_configs" :> "xdr config" @@ "ns_configs" :> "xdr config"))
  @@ ("statistics" :> ("service" :> "statistics" @@ "namespace" :> "namespace" @@ "set" :> "sets"
     @@ "bin" :> "bins" @@ "xdr" :> "xdr" @@ "dc" :> "dc" @@ "sindex" :> "sindex statistics"))
  @@ ("meta_data" :> MetaSections) @@ ("histogram" :> Histograms)
  @@ ("latency" :> ("" :> "latencies")) @@ ("acl" :> ("users" :> "users" @@ "roles" :> "roles"))
RequestOf(t) == IF t[2] = "jobs" THEN t[3][1] ELSE Answers_[t[1]][t[2]]
StepsOf(t) ==
  CASE t[2] = "jobs" -> <<>>
    [] t[2] \in {"xdr_configs", "dc_configs", "ns_configs"} -> <<t[2]>> \o t[3]
    [] OTHER -> t[3]
Raw(a, t, n) ==
  LET answer == a[RequestOf(t)]
  IN  IF n \notin Came(answer) THEN Nothing
      ELSE FoldLeft(LAMBDA v, step : IF step \in DOMAIN v THEN v[step] ELSE Nothing,
                    answer[n].val, StepsOf(t))
Answered(t) == t[1] \in DOMAIN Answers_ /\ (t[2] \in DOMAIN Answers_[t[1]] \/ t[2] = "jobs")
Part(x, y) == \A k \in DOMAIN x : k \in DOMAIN y /\ x[k] = y[k]

(* What a cell says is what the node answered.  An index also has what its   *)
(* listing says; a command may leave namespaces out of a latency.            *)
Says(a, t, n, cell) ==
  LET raw == Raw(a, t, n)
  IN  CASE t[2] = "sindex" -> IF ~Falsy(t[3]) THEN Part(raw, cell)
                              ELSE \A key \in DOMAIN cell : Part(raw[key], cell[key])
        [] t[1] = "latency" -> \A k \in DOMAIN cell : IF k = "namespace" THEN Part(cell[k], raw[k])
                                                      ELSE cell[k] = raw[k]
        [] t[1] = "histogram" ->
             a["build"][n].ok => Part(cell, raw) \/ (t[2] = "object-size" /\ a["build"][n].val[1] < 42)
        [] OTHER -> Part(cell, raw)

(* What a command is to show: tables of a whole stanza, or one for each key. *)
Whole_ ==
  "show config" :> {<<"config", s>> : s \in {"security", "service", "network"}}
    @@ "show config xdr" :> {<<"config", s>> : s \in {"xdr", "xdr_configs"}}
    @@ "show statistics" :> {<<"statistics", "service">>}
    @@ "show statistics xdr" :> {<<"statistics", "xdr">>}
    @@ "show distribution" :> {<<"histogram", s>> : s \in {"ttl", "objsz"}}
    @@ "show roster" :> {<<"config", "roster">>}
    @@ "show best-practices" :> {<<"meta_data", "best_practices">>}
    @@ "info" :> {<<"statistics", "service">>, <<"config", "rack-ids">>, <<"meta_data", "asd_build">>}
    @@ "info set" :> {<<"statistics", "set">>}
    @@ "features" :> {<<"config", s>> : s \in {"service", "security"}}
Each_ ==
  "show config" :> {<<"config", "namespace">>}
    @@ "show config xdr" :> {<<"config", s>> : s \in {"dc_configs", "ns_configs"}}
    @@ "show config dc" :> {<<"config", "dc">>}
    @@ "show statistics" :> {<<"statistics", s>> : s \in {"namespace", "set", "bin"}}
    @@ "show statistics xdr" :> {<<"statistics", "xdr">>}
    @@ "show statistics dc" :> {<<"statistics", "dc">>}
    @@ "show statistics sindex" :> {<<"statistics", "sindex">>}
    @@ "info sindex" :> {<<"statistics", "sindex">>}
    @@ "show latencies" :> {<<"latency", "">>}
Stanzas(of, op) == IF op \in DOMAIN of THEN of[op] ELSE {}

(* A node has a namespace that some node listed and the node answered for. *)
HasNamespace(a, n, ns) ==
  ns \in NamespaceSet(a) \ Faulty /\ n \in Came(a["namespace"]) /\ ns \in DOMAIN a["namespace"][n].val
IsOld(a, n) == a["build"][n].ok /\ a["build"][n].val[1] < 50
IsNew(a, n) == a["build"][n].ok /\ a["build"][n].val[1] >= 50
Knows(a, t, n) ==
  CASE t[2] \in {"namespace", "bin"} -> HasNamespace(a, n, t[3][1])
    [] t[2] = "sindex" \/ (t[2] = "set" /\ ~Falsy(t[3])) -> HasNamespace(a, n, t[3][1][1])
    [] t[2] = "set" -> \A key \in DOMAIN Raw(a, t, n) : HasNamespace(a, n, key[1])
    [] t[2] = "xdr" -> IF Falsy(t[3]) THEN IsOld(a, n) ELSE IsNew(a, n)
    [] t[2] \in {"xdr_configs", "dc_configs", "ns_configs"} ->
         IsNew(a, n) /\ \A m \in DOMAIN a["build"] : IsNew(a, m) => a["xdr config"][m].ok
    [] t[2] = "dc" -> \E m \in DOMAIN a["build"] : IsOld(a, m)
    [] t[1] = "histogram" -> a["build"][n].ok
    [] OTHER -> TRUE
AskedFor(t, words) ==
  \/ Falsy(words) \/ Falsy(t[3]) \/ t[1] = "latency"
  \/ t[1] = "config" /\ t[2] = "namespace"
  \/ CASE t[2] = "set" -> t[3][1][1] = words[1] /\ (Len(words) > 1 => t[3][1][2] = words[2])
       [] t[2] = "sindex" -> t[3][1][1] = words[1] /\ (Len(words) > 1 => t[3][1][3] = words[2])
       [] t[2] = "ns_configs" -> t[3][1] = words[1] /\ Len(words) = 1
       [] OTHER -> t[3][1] = words[1]
Promised(a, t, n) == ~Falsy(Raw(a, t, n)) /\ Knows(a, t, n) /\ AskedFor(t, report.words)
Shows_(a, t, n) ==
  /\ t \in DOMAIN report.tables
  /\ n \in DOMAIN report.tables[t]
  /\ Part(Raw(a, t, n), report.tables[t][n])
     \/ (t[1] = "latency" /\ report.words # <<>>)

(* The report of a command on the newest snapshot at the path says of a node *)
(* what that node answered when the snapshot was taken, and has every node   *)
(* and namespace, set, index or datacenter that was asked for and came, with *)
(* the builds and lists of namespaces that it takes to tell.                 *)
ReportShowsTheDump ==
  report.op \notin {"", "exit"} =>
    \A captures \in {Collected[cinfo_path].captures} :
      \A a \in {captures[Max(DOMAIN captures)]} :
        /\ \A t \in DOMAIN report.tables : Answered(t) =>
             \A n \in DOMAIN report.tables[t] : Says(a, t, n, report.tables[t][n])
        /\ ~report.raised => \A n \in DOMAIN a["build"] :
             /\ \A s \in Stanzas(Whole_, report.op) :
                  Promised(a, s \o <<Nothing>>, n) => Shows_(a, s \o <<Nothing>>, n)
             /\ \A s \in Stanzas(Each_, report.op) : \A key \in DOMAIN Raw(a, s \o <<Nothing>>, n) :
                  Promised(a, s \o <<<<key>>>>, n) => Shows_(a, s \o <<<<key>>>>, n)

(* Whom a check of the health checker is to accuse, by the answers alone,    *)
(* and the answers it takes to say so.                                       *)
Checks ==
  "High system client connections." :> {"service", "statistics"}
    @@ "Different service configurations." :> {"service"}
    @@ "Heartbeat interval is not in expected range (150 <= p <= 250)" :> {"network"}
    @@ "Disparate namespaces." :> {"namespaces", "namespace config"}
    @@ "Different namespace configurations." :> {"namespaces", "namespace config"}
    @@ "High XDR shipping lag (> 10s)." :> {"build", "xdr", "xdr config"}
    @@ "Unstable Cluster." :> {"statistics"}
    @@ "UDF not in sync (file not matching)." :> {"udf-list"}
    @@ "UDF not in sync (not available on all node)." :> {"udf-list"}
Value(a, r, n, key) == a[r][n].val[key][1]
Having(a, r, key) == {n \in Came(a[r]) : key \in DOMAIN a[r][n].val}
KeysOf(a, r) == UNION {DOMAIN a[r][n].val : n \in Came(a[r])}
Differ(values) == \E v, w \in values : v # w
NamespacesOf(a, n) == (DOMAIN a["namespace config"][n].val) \cap (NamespaceSet(a) \ Faulty)
NamespaceKeys(a) ==
  UNION {UNION {{ns} \X DOMAIN a["namespace config"][n].val[ns] : ns \in NamespacesOf(a, n)} :
         n \in Came(a["namespace config"])}
NamespaceValues(a, ns, key) ==
  {a["namespace config"][n].val[ns][key] : n \in {n \in Came(a["namespace config"]) : ns \in NamespacesOf(a, n)}}
Enabled(a) == {n \in Having(a, "xdr config", "enable-xdr") : Value(a, "xdr config", n, "enable-xdr")}
Guilty(msg, a) ==
  CASE msg = "High system client connections." ->
         {<<"C1", n, "fd">> : n \in {n \in Came(a["service"]) \cap Came(a["statistics"]) :
            100 * Value(a, "statistics", n, "client_connections") > 80 * Value(a, "service", n, "proto-fd-max")}}
    [] msg = "Different service configurations." ->
         {<<"C1", key>> : key \in {key \in KeysOf(a, "service") :
            Differ({Value(a, "service", n, key) : n \in Having(a, "service", key)})}}
    [] msg = "Heartbeat interval is not in expected range (150 <= p <= 250)" ->
         {<<"C1", n, "heartbeat.interval">> : n \in {n \in Came(a["network"]) :
            Value(a, "network", n, "heartbeat.interval") \notin 150..250}}
    [] msg = "Disparate namespaces." ->
         {<<"C1", n>> : n \in {n \in Came(a["namespace config"]) :
            NamespacesOf(a, n) \notin {{}, {key[1] : key \in NamespaceKeys(a)}}}}
    [] msg = "Different namespace configurations." ->
         {<<"C1", key[1], key[2]>> : key \in {key \in NamespaceKeys(a) :
            Differ(NamespaceValues(a, key[1], key[2]))}}
    [] msg = "High XDR shipping lag (> 10s)." ->
         {<<"C1", n, "xdr_timelag">> : n \in {n \in Having(a, "xdr", "xdr_timelag") :
            /\ Value(a, "xdr", n, "xdr_timelag") > 10
            /\ Having(a, "xdr config", "enable-xdr") = {} \/ n \in Enabled(a)}}
    [] msg = "Unstable Cluster." ->
         {<<"C1", n, "cluster_size">> : n \in {n \in Came(a["statistics"]) :
            Value(a, "statistics", n, "cluster_size") # Cardinality(Came(a["statistics"]))}}
    [] msg = "UDF not in sync (file not matching)." ->
         {<<file, "hash">> : file \in {file \in KeysOf(a, "udf-list") :
            Differ({a["udf-list"][n].val[file]["hash"] : n \in Having(a, "udf-list", file)})}}
    [] msg = "UDF not in sync (not available on all node)." ->
         {<<"C1", file>> : file \in {file \in KeysOf(a, "udf-list") :
            Having(a, "udf-list", file) # Truthy(a["udf-list"])}}
NamesIn(paths) == {[i \in DOMAIN path |-> path[i][1]] : path \in paths}
CheckApplies(msg, a) ==
  /\ \A r \in Checks[msg], n \in DOMAIN a["build"] : a[r][n].ok
  /\ "xdr" \in Checks[msg] => \E n \in Enabled(a) : IsOld(a, n)
AccusesTheGuilty(h, a) ==
  /\ h.queries = Len(FlattenSeq(QUERIES)) /\ h.queries = h.success + h.skipped + h.exceptions
  /\ Cardinality(DOMAIN h.outputs) <= h.asserts
  /\ \A msg \in DOMAIN Checks :
       IF msg \in DOMAIN h.outputs THEN NamesIn(h.outputs[msg]) = Guilty(msg, a)
       ELSE ~CheckApplies(msg, a)

(* The queries of the health checker are given what the nodes answered, the  *)
(* megabytes of the memory turned into bytes once, however often it is run   *)
(* and whatever was shown in between; and what it tells accuses those of     *)
(* whom the answers tell it, no more and no less: a check that says nothing  *)
(* had not all the answers that it takes.                                    *)
HealthOfTheDump ==
  ~Falsy(health_input) =>
    \A captures \in {Collected[cinfo_path].captures} :
      \A a \in {captures[selected_cinfo_logs.timestamp]}, free \in {health_input[<<"sys_stat", "free-m">>]} :
        /\ \A n \in DOMAIN free : free[n][1] = MBYTE * a["system"][n].val["free-m"][1]
        /\ \A n \in Came(a["system"]) : "free-m" \in DOMAIN a["system"][n].val => n \in DOMAIN free
        /\ \A k \in DOMAIN health_input : Answered(k \o <<Nothing>>) /\ k[2] # "bin" =>
             \A n \in DOMAIN health_input[k] : Says(a, k \o <<Nothing>>, n, health_input[k][n])
        /\ report.op = "health" => AccusesTheGuilty(report.tables[<<"health", "", Nothing>>], a)
=============================================================================
