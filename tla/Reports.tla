-------------------------------- MODULE Reports --------------------------------
(***************************************************************************)
(* The commands that read a cluster and show what they read                *)
(* (show_controller.py, info_controller.py, summary_controller.py,         *)
(* features_controller.py, health_check_controller.py, asinfo_controller.py,*)
(* pager_controller.py, with the getters of get_controller.py).            *)
(*                                                                         *)
(* A report has sections.  Each asks its nodes for some methods, all at    *)
(* once, and has a rule for the nodes of which one failed:                 *)
(*   "kept"   the node is in the table, with nothing or an error,          *)
(*   "omits"  the node is left out,                                        *)
(*   "needs"  the command raises; what it read of the others is not shown, *)
(*   "dated"  the first method is the build: without it the node is left   *)
(*            out; a node of the newer XDR raises, an older one is kept.   *)
(* Nothing is shown before every section is there.                         *)
(***************************************************************************)
EXTENDS Manage, FiniteSets

Section(nodes, rule, methods(_)) == [rule |-> rule, asks |-> [n \in nodes |-> methods(n)]]
Reads(nodes, rule, method(_)) == Section(nodes, rule, LAMBDA n : <<method(n)>>)

AllCame(answers) == \A i \in DOMAIN answers : answers[i].came = "ok"
Fails(section, n, answers) ==
  CASE section.rule = "needs" -> ~AllCame(answers)
    [] section.rule = "dated" -> /\ answers[1].came = "ok" /\ ~AllCame(answers)
                                 /\ AtLeast(n, SERVER_NEW_XDR5_VERSION)
    [] OTHER -> FALSE
Shown(section, n, answers) ==
  CASE section.rule = "omits" -> AllCame(answers)
    [] section.rule = "needs" -> FALSE
    [] section.rule = "dated" -> answers[1].came = "ok"
    [] OTHER -> TRUE

(* gather: the sections' methods for a node follow one another. *)
Gathered(sections, n) ==
  FlattenSeq([i \in DOMAIN sections |->
              IF n \in DOMAIN sections[i].asks THEN sections[i].asks[n] ELSE <<>>])
PartOf(sections, answers, i, n) ==
  LET start == Len(Gathered(SubSeq(sections, 1, i - 1), n))
  IN SubSeq(answers[n], start + 1, start + Len(sections[i].asks[n]))
ReportAfter(warnings, c, asked) == Given(asked, LAMBDA sections :
  LET nodes == UNION {DOMAIN sections[i].asks : i \in DOMAIN sections}
      report(d, answers) ==
        IF \E i \in DOMAIN sections : \E n \in DOMAIN sections[i].asks :
              Fails(sections[i], n, PartOf(sections, answers, i, n))
        THEN End(d, <<Raise>>)
        ELSE End(d, warnings \o [i \in DOMAIN sections |->
                     [Shows("report", {n \in DOMAIN sections[i].asks :
                                         Shown(sections[i], n, PartOf(sections, answers, i, n))})
                      EXCEPT !.about = Mod(d, "like")]])
  IN IF nodes = {} /\ c.nodes # {} THEN report(c, Nobody)
     ELSE CallAll(c, nodes, LAMBDA n : Gathered(sections, n), report))
Report(c, sections) == ReportAfter(<<>>, c, sections)

(* Some sections depend on a read before them. *)
After(c, nodes, method(_), Then(_, _)) ==
  Call(c, nodes, method, LAMBDA d, answers : Then(d, answers))
(* The namespaces are those of every node that could list its own. *)
Listed(answers) == \E n \in DOMAIN answers : LastVal(answers, n) # <<>>

------------------------------------------------------------------------------
(* lib/get_controller.py: configuration *)
get_security(nodes) == Reads(nodes, "kept", LAMBDA n : info_get_config(n, "security"))
get_service(nodes) == Reads(nodes, "kept", LAMBDA n : info_get_config(n, "service"))
get_network(nodes) == Reads(nodes, "omits", LAMBDA n : info_get_config(n, "network"))
get_namespace(nodes) ==
  [i \in DOMAIN Namespaces |->
   Reads(nodes, "omits", LAMBDA n : info_get_config_namespace(Namespaces[i]))]
get_xdr(nodes) == Reads(nodes, "omits", info_XDR_get_config)
get_xdr5(answers) ==
  get_xdr({n \in Came(answers, "ok") : AtLeast(n, SERVER_NEW_XDR5_VERSION)})
get_old_xdr(answers) ==
  get_xdr({n \in Came(answers, "ok") : ~AtLeast(n, SERVER_NEW_XDR5_VERSION)})
get_roster(nodes) == Reads(nodes, "omits", LAMBDA n : info_roster)
get_rack_ids(nodes) == Reads(nodes, "omits", LAMBDA n : info_rack_ids)

(* ... statistics *)
get_service_statistics(nodes) == Reads(nodes, "kept", LAMBDA n : info_statistics)
get_namespace_statistics(nodes) ==
  [i \in DOMAIN Namespaces |->
   Reads(nodes, "omits", LAMBDA n : info_namespace_statistics(Namespaces[i]))]
get_sindex_stats(nodes) ==
  [i \in DOMAIN Sindexes |-> Reads(nodes, "kept", LAMBDA n : info_sindex_statistics(Sindexes[i]))]
get_sets(nodes) == Reads(nodes, "omits", LAMBDA n : info_all_set_statistics)
get_bins(nodes) == Reads(nodes, "omits", LAMBDA n : info_bin_statistics)
get_features_everywhere(nodes) ==
  Section(Node, "kept", LAMBDA n : <<info_statistics, info_get_config(n, "service")>>)
get_features(nodes) ==
  Section(nodes, "kept", LAMBDA n :
    <<info_statistics, info_all_namespace_statistics, info_all_dc_statistics(n),
      info_get_config(n, "service"), info_get_config(n, "namespace"),
      info_get_config(n, "security")>>)
get_pmap(nodes) == Reads(nodes, "omits", LAMBDA n : info_partition)

(* ... jobs: a node that cannot be asked is left out. *)
get_scans(nodes) == Reads(nodes, "omits", info_scan_show)
get_query(nodes) == Reads(nodes, "omits", info_query_show)
get_sindex_builder(nodes) == Reads(nodes, "omits", LAMBDA n : info_jobs("sindex-builder"))

------------------------------------------------------------------------------
(* lib/live_cluster/show_controller.py *)
Leaf(c, modifiers, Body(_)) == pre_command(c, {}, modifiers, Body)

ShowDistributionController(c) ==
  LET modifiers == {"with", "for"}
      do_time_to_live(d) == Reads(d.nodes, "kept", info_histogram)
      do_object_size(d) ==
        Section(d.nodes, "kept", LAMBDA n :
          <<info_histogram(n)>> \o IF check_arg(d, "-b") THEN <<info_build>> ELSE <<>>)
  IN CASE Word(c) = "time_to_live" ->
            Leaf(Popped(c), modifiers, LAMBDA d : Report(d, <<do_time_to_live(d)>>))
       [] Word(c) = "object_size" ->
            Leaf(Popped(c), modifiers, LAMBDA d : Report(d, <<do_object_size(d)>>))
       [] OTHER -> Leaf(c, modifiers, LAMBDA d :
                     Report(d, <<do_time_to_live(d), do_object_size(d)>>))

(* The builds of all nodes decide which of the two commands is used; where both
   are, every node is asked, whatever nodes the command is for. *)
get_latencies_and_latency_nodes(answers) ==
  LET known == Came(answers, "ok")
      new == {n \in known : AtLeast(n, SERVER_NEW_LATENCIES_CMD_FIRST_VERSION)}
  IN [latencies |-> new, latency |-> known \ new]
GetLatenciesController(nodes, builds, verbose, namespaces) ==
  LET by == get_latencies_and_latency_nodes(builds)
      latencies(asked) == Reads(asked, "omits", LAMBDA n : info_latencies(verbose, namespaces))
      latency(asked) == Reads(asked, "omits", LAMBDA n : info_latency)
  IN CASE by.latency = {} -> <<latencies(nodes)>>
       [] by.latency # {} /\ by.latencies = {} -> <<latency(by.latency)>>
       [] OTHER -> <<latency(by.latency), latencies(by.latencies)>>
NamespacesAmong(names) ==
  FlattenSeq([i \in DOMAIN Namespaces |->
              IF Contains(names, Namespaces[i]) THEN <<Namespaces[i]>> ELSE <<>>])
ShowLatenciesController(c) ==
  Leaf(c, {"with", "like", "for"}, LAMBDA d :
    LET show(e, namespaces) ==
          After(e, Node, LAMBDA n : info_build, LAMBDA f, builds :
            LET here == [n \in f.nodes |-> builds[n]]
                report == Report(f, GetLatenciesController(f.nodes, builds, check_arg(f, "-v"), namespaces))
            IN IF get_latencies_and_latency_nodes(here).latency # {} \/ Came(here, "ok") = {}
               THEN First(Warn, report) ELSE report)
    IN IF ~Has(d, "for") THEN show(d, <<>>)
       ELSE After(d, d.nodes, LAMBDA n : info_namespaces, LAMBDA e, answers :
              show(e, IF Listed(answers) THEN NamespacesAmong(Mod(e, "for")) ELSE <<>>)))

(* Namespaces are listed first; without a list there is nothing to ask for. *)
WithNamespaces(c, sections, namespaces(_)) ==
  After(c, c.nodes, LAMBDA n : info_namespaces, LAMBDA d, answers :
    Report(d, sections \o IF Listed(answers) THEN namespaces(d.nodes) ELSE <<>>))
(* Datacenters are shown for the older nodes; the newer are told of xdr. *)
ByVersion(c, methods(_)) ==
  CallAll(c, c.nodes, LAMBDA n : <<info_build>> \o methods(n), LAMBDA d, answers :
    LET known == {n \in d.nodes : answers[n][1].came = "ok"}
        stats == {n \in d.nodes : answers[n][2].came = "ok"}
    IN End(d, (IF \E n \in known : MajorVersion(n) < 5 THEN <<Shows("report", stats)>> ELSE <<>>)
                \o (IF \E n \in known : MajorVersion(n) >= 5 THEN <<Warn>> ELSE <<>>)))

config_leaf(c, Body(_)) == Leaf(c, {"with", "like", "diff", "for"}, Body)
config_security(c) == config_leaf(c, LAMBDA d : Report(d, <<get_security(d.nodes)>>))
config_service(c) == config_leaf(c, LAMBDA d : Report(d, <<get_service(d.nodes)>>))
config_network(c) == config_leaf(c, LAMBDA d : Report(d, <<get_network(d.nodes)>>))
config_namespace(c) == config_leaf(c, LAMBDA d : WithNamespaces(d, <<>>, get_namespace))
config_xdr(c) == config_leaf(c, LAMBDA d :
  After(d, d.nodes, LAMBDA n : info_build, LAMBDA e, builds :
    Report(e, <<get_xdr5(builds), get_old_xdr(builds)>>)))
config_dc(c) == config_leaf(c, LAMBDA d : ByVersion(d, LAMBDA n : <<info_dc_get_config>>))
ShowConfigController(c) ==
  CASE Word(c) = "security"  -> config_security(Popped(c))
    [] Word(c) = "service"   -> config_service(Popped(c))
    [] Word(c) = "network"   -> config_network(Popped(c))
    [] Word(c) = "namespace" -> config_namespace(Popped(c))
    [] Word(c) = "xdr"       -> config_xdr(Popped(c))
    [] Word(c) = "dc"        -> config_dc(Popped(c))
    [] OTHER -> config_leaf(c, LAMBDA d :
         WithNamespaces(d, <<get_security(d.nodes), get_service(d.nodes), get_network(d.nodes)>>,
                        get_namespace))

statistics_leaf(c, Body(_)) == Leaf(c, {"with", "like", "for"}, Body)
statistics_service(c) == statistics_leaf(c, LAMBDA d : Report(d, <<get_service_statistics(d.nodes)>>))
statistics_namespace(c) ==
  statistics_leaf(c, LAMBDA d : WithNamespaces(d, <<>>, get_namespace_statistics))
(* The indexes are listed first, by every node. *)
Sindex(c) ==
  After(c, c.nodes, LAMBDA n : info_sindex, LAMBDA d, answers :
    Report(d, IF Listed(answers) THEN get_sindex_stats(d.nodes) ELSE <<>>))
statistics_sindex(c) == statistics_leaf(c, Sindex)
statistics_sets(c) == statistics_leaf(c, LAMBDA d : Report(d, <<get_sets(d.nodes)>>))
statistics_bins(c) == statistics_leaf(c, LAMBDA d : Report(d, <<get_bins(d.nodes)>>))
statistics_xdr(c) == statistics_leaf(c, LAMBDA d :
  Report(d, <<Section(d.nodes, "dated", LAMBDA n : <<info_build, info_XDR_statistics(n)>>)>>))
statistics_dc(c) ==
  statistics_leaf(c, LAMBDA d : ByVersion(d, LAMBDA n : <<info_all_dc_statistics(n)>>))
ShowStatisticsController(c) ==
  CASE Word(c) = "service"   -> statistics_service(Popped(c))
    [] Word(c) = "namespace" -> statistics_namespace(Popped(c))
    [] Word(c) = "sindex"    -> statistics_sindex(Popped(c))
    [] Word(c) = "sets"      -> statistics_sets(Popped(c))
    [] Word(c) = "bins"      -> statistics_bins(Popped(c))
    [] Word(c) = "xdr"       -> statistics_xdr(Popped(c))
    [] Word(c) = "dc"        -> statistics_dc(Popped(c))
    [] OTHER -> statistics_leaf(c, LAMBDA d :
         WithNamespaces(d, <<get_bins(d.nodes), get_sets(d.nodes), get_service_statistics(d.nodes)>>,
                        get_namespace_statistics))

(* The map of nodes is of the session; nothing is read. *)
ShowMappingController(c) ==
  Leaf(c, {"like"}, LAMBDA d : End(d, <<Shows("report", {})>>))
(* A partition map is for the nodes whose partitions could be read. *)
ShowPmapController(c) ==
  Leaf(c, {}, LAMBDA d :
    After(d, d.nodes, LAMBDA n : info_namespaces, LAMBDA e, answers :
      LET stats == IF Listed(answers) THEN get_namespace_statistics(e.nodes) ELSE <<>>
          others == <<get_service_statistics(e.nodes), Reads(e.nodes, "kept", LAMBDA n : info_node)>>
      IN Report(e, <<get_pmap(e.nodes)>> \o others \o stats)))
AskedOfPrincipal(c, method, modifiers, raises) ==
  Leaf(c, modifiers, LAMBDA d :
    Call(d, {Principal}, LAMBDA n : method, LAMBDA e, answers :
      IF answers[Principal].came = "ok" THEN
        End(e, <<[Shows("report", {Principal}) EXCEPT !.about = Mod(e, "like")]>>)
      ELSE IF raises THEN End(e, <<IF answers[Principal].came = "refused" THEN Complain ELSE Raise>>)
      ELSE End(e, <<Shows("report", {})>>)))
ShowUsersController(c) ==
  AskedOfPrincipal(c, IF c.line = <<>> THEN admin_query_users ELSE admin_query_user(Word(c)), {}, TRUE)
ShowRolesController(c) ==
  AskedOfPrincipal(c, IF c.line = <<>> THEN admin_query_roles ELSE admin_query_role(Word(c)), {}, TRUE)
ShowUdfsController(c) == AskedOfPrincipal(c, info_udf_list, {"like", "for"}, FALSE)
ShowSIndexController(c) == AskedOfPrincipal(c, info_sindex, {"like"}, FALSE)
ShowRacksController(c) == AskedOfPrincipal(c, info_racks, {"with"}, FALSE)
ShowRosterController(c) ==
  Leaf(c, {"for", "with", "diff"}, LAMBDA d : Report(d, <<get_roster(d.nodes)>>))
(* The versions of all nodes are compared: one that failed cannot be. *)
ShowBestPracticesController(c) ==
  Leaf(c, {"with"}, LAMBDA d :
    LET old == \E n \in Node : ~AtLeast(n, SERVER_SHOW_BEST_PRACTICES_FIRST_VERSION)
        versions == Reads(Node, "needs", LAMBDA n : info_build)
        best_practices == Reads(d.nodes, "kept", LAMBDA n : info_best_practices)
    IN ReportAfter(IF old THEN <<Warn>> ELSE <<>>, d, <<versions, best_practices>>))

(* Scans and index builders are asked for if a node of the version has them. *)
_supported(builds, version) == \E n \in Came(builds, "ok") : ~AtLeast(n, version)
ShowJobsController(c) ==
  LET leaf(d, Body(_)) == Leaf(d, {"with", "like", "trid"}, Body)
      scans(b) == _supported(b, SERVER_QUERIES_ABORT_ALL_FIRST_VERSION)
      builders(b) == _supported(b, SERVER_SINDEX_BUILDER_REMOVED_VERSION)
      only(d, supported(_), section(_)) ==
        After(d, d.nodes, LAMBDA n : info_build, LAMBDA e, builds :
          IF supported(builds) THEN Report(e, <<section(e.nodes)>>) ELSE End(e, <<Complain>>))
  IN CASE Word(c) = "queries" -> leaf(Popped(c), LAMBDA d : Report(d, <<get_query(d.nodes)>>))
       [] Word(c) = "scans" -> leaf(Popped(c), LAMBDA d : only(d, scans, get_scans))
       [] Word(c) = "sindex-builder" ->
            leaf(Popped(c), LAMBDA d : only(d, builders, get_sindex_builder))
       [] OTHER -> leaf(c, LAMBDA d :
            After(d, d.nodes, LAMBDA n : info_build, LAMBDA e, b :
              Report(e, <<get_query(e.nodes)>>
                          \o (IF scans(b) THEN <<get_scans(e.nodes)>> ELSE <<>>)
                          \o (IF builders(b) THEN <<get_sindex_builder(e.nodes)>> ELSE <<>>))))

ShowController(c) ==
  LET d == Popped(c) IN
  CASE Word(c) = "distribution" -> ShowDistributionController(d)
    [] Word(c) = "mapping" -> ShowMappingController(d)
    [] Word(c) = "pmap" -> ShowPmapController(d)
    [] Word(c) = "best-practices" -> ShowBestPracticesController(d)
    [] Word(c) = "jobs" -> ShowJobsController(d)
    [] Word(c) = "racks" -> ShowRacksController(d)
    [] Word(c) = "roster" -> ShowRosterController(d)
    [] Word(c) = "roles" -> ShowRolesController(d)
    [] Word(c) = "users" -> ShowUsersController(d)
    [] Word(c) = "udfs" -> ShowUdfsController(d)
    [] Word(c) = "sindex" -> ShowSIndexController(d)
    [] Word(c) = "config" -> ShowConfigController(d)
    [] Word(c) = "latencies" -> ShowLatenciesController(d)
    [] Word(c) = "statistics" -> ShowStatisticsController(d)
    [] OTHER -> execute_help(c)

------------------------------------------------------------------------------
(* lib/live_cluster/info_controller.py *)
InfoNetwork(nodes) ==
  Section(nodes, "kept", LAMBDA n :
    <<info_statistics, Asks("cluster-name"), info_build, info_version>>)
(* Objects are counted in the namespaces that could be listed. *)
InfoUsage(nodes) == Reads(nodes, "kept", LAMBDA n : info_all_namespace_statistics)
InfoObject(nodes, answers) ==
  (IF Listed(answers) THEN get_namespace_statistics(nodes) ELSE <<>>) \o <<get_rack_ids(nodes)>>
InfoXdr(nodes) ==
  Section(nodes, "dated", LAMBDA n :
    <<info_build, info_XDR_statistics(n), WhenLost("ends", info_get_config(n, "xdr"))>>)

InfoNamespaceController(c) ==
  LET leaf(d, Body(_)) == Leaf(d, {"with"}, Body)
      object(d, others) ==
        After(d, d.nodes, LAMBDA n : info_namespaces, LAMBDA e, answers :
          Report(e, others \o InfoObject(e.nodes, answers)))
  IN CASE Word(c) = "usage" -> leaf(Popped(c), LAMBDA d : Report(d, <<InfoUsage(d.nodes)>>))
       [] Word(c) = "object" -> leaf(Popped(c), LAMBDA d : object(d, <<>>))
       [] OTHER -> leaf(c, LAMBDA d : object(d, <<InfoUsage(d.nodes)>>))
(* By default the controller of the namespaces is run with no words: it
   leaves no `with' in the modifiers and is for every node. *)
info_leaf(c, Body(_)) == Leaf(c, {"with", "for"}, Body)
info_network(c) == info_leaf(c, LAMBDA d : Report(d, <<InfoNetwork(d.nodes)>>))
info_set(c) == info_leaf(c, LAMBDA d :
  Report(d, <<Reads(d.nodes, "kept", LAMBDA n : info_all_set_statistics)>>))
info_dc(c) == info_leaf(c, LAMBDA d :
  ByVersion(d, LAMBDA n : <<info_all_dc_statistics(n), info_dc_get_config>>))
info_xdr(c) == info_leaf(c, LAMBDA d : Report(d, <<InfoXdr(d.nodes)>>))
InfoController(c) ==
  CASE Word(c) = "network" -> info_network(Popped(c))
    [] Word(c) = "set"     -> info_set(Popped(c))
    [] Word(c) = "dc"      -> info_dc(Popped(c))
    [] Word(c) = "xdr"     -> info_xdr(Popped(c))
    [] Word(c) = "sindex"  -> info_leaf(Popped(c), Sindex)
    [] Word(c) = "namespace" -> InfoNamespaceController(Popped(c))
    [] OTHER -> info_leaf(c, LAMBDA d :
         Leaf([d EXCEPT !.line = <<>>], {"with"}, LAMBDA e :
           After(e, e.nodes, LAMBDA n : info_namespaces, LAMBDA f, answers :
             Report(f, <<InfoNetwork(d.nodes), InfoUsage(f.nodes), InfoXdr(d.nodes)>>
                         \o InfoObject(f.nodes, answers)))))

------------------------------------------------------------------------------
(* The other reports *)
FeaturesController(c) ==
  Leaf(c, {"with", "like"}, LAMBDA d : Report(d, <<get_features(d.nodes)>>))
SummaryData(n) ==
  <<info_build, info_version, Asks("cluster-name"), info_statistics,
    info_all_namespace_statistics, info_all_dc_statistics(n),
    info_get_config(n, "service"), info_get_config(n, "namespace")>>
SummaryController(c) ==
  Leaf(c, {"with"}, LAMBDA d : Report(d, <<Section(d.nodes, "kept", SummaryData)>>))
ASInfoController(c) ==
  Leaf(c, {"with", "like"}, LAMBDA d :
    LET words == SelectSeq(Mod(d, "line"), LAMBDA w : w \notin {"-l", "--no_node_name"}) IN
    IF Len(words) # 2 \/ Head(words) # "-v" THEN End(d, <<Warn>>)
    ELSE Report(d, <<Reads(d.nodes, "kept", LAMBDA n : Asks(words[2]))>>))

(* Everything a health check knows of a node; what fails is left out.  The
   configuration files it also reads are local. *)
_get_asstat_data(n, stanza) ==
  CASE stanza = "service"   -> info_statistics
    [] stanza = "namespace" -> info_all_namespace_statistics
    [] stanza = "sets"      -> info_all_set_statistics
    [] stanza = "bins"      -> info_bin_statistics
    [] stanza = "xdr"       -> info_XDR_statistics(n)
    [] stanza = "dc"        -> info_all_dc_statistics(n)
    [] stanza = "sindex"    -> info_sindex
    [] stanza = "udf"       -> info_udf_list
    [] stanza = "endpoints" -> info_service_list
    [] stanza = "services"  -> info_peers_flat_list
_get_asconfig_data(n, stanza) ==
  CASE stanza = "xdr"    -> info_XDR_get_config(n)
    [] stanza = "dc"     -> info_dc_get_config
    [] stanza = "roster" -> info_roster
    [] stanza = "racks"  -> info_racks
    [] OTHER -> info_get_config(n, stanza)
_get_as_meta_data(stanza) ==
  CASE stanza = "build"   -> info_build
    [] stanza = "node_id" -> info_node
    [] stanza = "edition" -> Asks("edition")
    [] stanza = "health"  -> info_health_outliers
statistics_stanzas == <<"service", "namespace", "sets", "bins", "xdr", "dc", "sindex">>
config_stanzas ==
  <<"service", "security", "xdr", "network", "dc", "namespace", "roster", "racks">>
cluster_stanzas == <<"build", "edition", "node_id">>
other_stanzas == <<"endpoints", "services", "udf">>
HealthData(n) ==
  LET each(stanzas, data(_)) == [i \in DOMAIN stanzas |-> data(stanzas[i])]
      stats(stanza) == _get_asstat_data(n, stanza)
  IN each(statistics_stanzas, stats)
     \o each(config_stanzas, LAMBDA stanza : _get_asconfig_data(n, stanza))
     \o each(cluster_stanzas, _get_as_meta_data)
     \o each(other_stanzas, stats) \o <<_get_as_meta_data("health")>>
(* What was collected is used again for a minute.  The note of it, of the
   class and so of the session, is kept with the modifiers here. *)
Snapshot == "last_snapshot_count"
HealthCheckController(c) ==
  Leaf(c, {}, LAMBDA d :
    IF Has(d, Snapshot) THEN End(d, <<Shows("report", {})>>)
    ELSE Report([d EXCEPT !.mods = (Snapshot :> <<"1">>) @@ @],
                <<Section(d.nodes, "kept", HealthData)>>))
PagerController(c) ==
  IF Word(c) \in {"on", "off", "scroll"} THEN End(c, <<Tell("pager")>>) ELSE execute_help(c)

===============================================================================
