------------------------------- MODULE Requests -------------------------------
(***************************************************************************)
(* What the methods of a node (lib/live_cluster/client/node.py) ask of its *)
(* server.  A method is the sequence of its requests, each awaited before  *)
(* the next is sent; where the code gathers several at once, their order   *)
(* here is one of those it may have.                                       *)
(*                                                                         *)
(* A request reads or changes one object of the server, named by a tuple,  *)
(* whose value is a sequence of words.  Info requests go through the cache *)
(* of answers, admin requests do not.  How the answers are parsed is left  *)
(* out, except for what a lost one does to the method: an info request     *)
(* that fails does not raise but returns the exception, and each method    *)
(* treats that value in its own way.                                       *)
(***************************************************************************)
EXTENDS Naturals, Sequences, SequencesExt

CONSTANTS Node,        \* the nodes of the cluster, by name
          Build,       \* the version of each: 5060000 is 5.6.0.0
          QueryShow,   \* the nodes that list the feature query-show
          Namespaces, Sindexes, Datacenters  \* what every server has, in order

ASSUME RequestsAssumption ==
  /\ Build \in [Node -> Nat]
  /\ QueryShow \subseteq Node
  /\ {Namespaces, Sindexes, Datacenters} \subseteq Seq(STRING)

(* lib/utils/constants.py *)
SERVER_SINDEX_ON_CDT_FIRST_VERSION       == 6010000
SERVER_QUERIES_ABORT_ALL_FIRST_VERSION   == 6000000
SERVER_SINDEX_BUILDER_REMOVED_VERSION    == 5070000
SERVER_SHOW_BEST_PRACTICES_FIRST_VERSION == 5070000
SERVER_QUOTAS_FIRST_VERSION              == 5060000
SERVER_NEW_LATENCIES_CMD_FIRST_VERSION   == 5010000
SERVER_NEW_XDR5_VERSION                  == 5000000
SERVER_NEW_HISTOGRAM_FIRST_VERSION       == 4020000
SERVER_TRUNCATE_NAMESPACE_CMD_FIRST_VERSIONS ==
  {<<4030111, 4030200>>, <<4040011, 4040100>>, <<4050006, 4050100>>}
SERVER_TRUNCATE_NAMESPACE_CMD_LAST_RANGE == 4050105

(* op: what the request does to its object.  lost: what a lost answer does to
   the method: it "fails", it goes on "without" that part, or it "ends" with
   what it has, as if there were no more.  wants: a listed word must be
   "present" or "absent", or the method refuses without asking further. *)
Info(cmd, obj) == [via |-> "info", op |-> "get", cmd |-> cmd, obj |-> obj,
                   val |-> <<>>, lost |-> "fails", wants |-> "any"]
InfoChange(op, cmd, obj, val) == [Info(cmd, obj) EXCEPT !.op = op, !.val = val]
Admin(obj) == [Info("admin", obj) EXCEPT !.via = "admin"]
AdminChange(op, obj, val) == [InfoChange(op, "admin", obj, val) EXCEPT !.via = "admin"]

Asks(cmd) == <<Info(cmd, <<cmd>>)>>
AsksEach(cmd, names) == [i \in DOMAIN names |-> Info(cmd, <<cmd, names[i]>>)]
WhenLost(what, requests) ==
  [i \in DOMAIN requests |-> [requests[i] EXCEPT !.lost = what]]
Wanting(what, word, requests) ==
  [i \in DOMAIN requests |-> IF i < Len(requests) THEN requests[i]
                             ELSE [requests[i] EXCEPT !.wants = what, !.val = <<word>>]]

(* The value of an object once a request is carried out. *)
Changed(old, request) ==
  CASE request.op = "is"    -> request.val
    [] request.op = "adds"  -> old \o SelectSeq(request.val, LAMBDA v : ~Contains(old, v))
    [] request.op = "drops" -> SelectSeq(old, LAMBDA v : ~Contains(request.val, v))
    [] OTHER -> old
Changes(request) == request.op # "get"

AtLeast(n, version) == Build[n] >= version
(* int((await self.info_build())[0]): versions of one digit before the dot *)
MajorVersion(n) == Build[n] \div 1000000

------------------------------------------------------------------------------
(* Reads *)
info_node == Asks("node")
info_build == Asks("build")
info_version == Asks("version")
info_statistics == Asks("statistics")
(* Without TLS and alternative addresses; a lost list reads as an empty one. *)
_get_info_peers_list_calls == <<"peers-clear-std">>
info_peers_list ==
  WhenLost("ends", FlattenSeq([i \in DOMAIN _get_info_peers_list_calls |->
                               Asks(_get_info_peers_list_calls[i])]))
info_peers_flat_list == info_peers_list
_get_service_info_call == "service-clear-std"
info_service_list == WhenLost("ends", Asks(_get_service_info_call))
info_partition == Asks("partition-info")
(* A lost list of namespaces reads as an empty one. *)
info_namespaces == WhenLost("ends", Asks("namespaces"))
info_namespace_statistics(ns) == AsksEach("namespace", <<ns>>)
info_all_namespace_statistics ==
  info_namespaces \o WhenLost("without", AsksEach("namespace", Namespaces))
info_set_statistics(ns, set) == <<Info("sets", <<"sets", ns, set>>)>>
info_all_set_statistics == WhenLost("ends", Asks("sets"))
info_health_outliers == WhenLost("ends", Asks("health-outliers"))
info_best_practices == Asks("best-practices")
info_bin_statistics == WhenLost("ends", Asks("bins"))
info_logs == Asks("logs")

info_dcs(n) ==
  info_build \o IF MajorVersion(n) >= 5 THEN <<Info("get-config xdr", <<"dc">>)>>
                ELSE WhenLost("ends", <<Info("dcs", <<"dc">>)>>)
info_dc_statistics(n, dc) ==
  info_build \o AsksEach(IF MajorVersion(n) < 5 THEN "dc" ELSE "get-stats xdr", <<dc>>)
info_all_dc_statistics(n) ==
  WhenLost("ends", info_dcs(n))
    \o WhenLost("without", FlattenSeq([i \in DOMAIN Datacenters |->
                                       info_dc_statistics(n, Datacenters[i])]))
info_XDR_statistics(n) ==
  info_build \o IF AtLeast(n, SERVER_NEW_XDR5_VERSION) THEN info_all_dc_statistics(n)
                ELSE Asks("statistics/xdr")

xdr_namespace_config_helper ==
  WhenLost("without", AsksEach("get-config xdr namespace", Namespaces))
xdr_config_helper(dc) == AsksEach("get-config xdr dc", <<dc>>) \o xdr_namespace_config_helper
info_get_config(n, stanza) ==
  CASE stanza = "namespace" ->
         info_namespaces \o WhenLost("without", AsksEach("get-config namespace", Namespaces))
    [] stanza = "xdr" /\ AtLeast(n, SERVER_NEW_XDR5_VERSION) ->
         info_build \o WhenLost("without", Asks("get-config xdr")) \o info_dcs(n)
           \o FlattenSeq([i \in DOMAIN Datacenters |-> xdr_config_helper(Datacenters[i])])
    [] stanza = "xdr" /\ ~AtLeast(n, SERVER_NEW_XDR5_VERSION) ->
         info_build \o Asks("get-config old xdr")
    [] OTHER -> Asks("get-config " \o stanza)
info_get_config_namespace(ns) == AsksEach("get-config namespace", <<ns>>)
info_XDR_get_config(n) == info_get_config(n, "xdr")
(* Two spellings: the second is asked when the first brings nothing. *)
info_dc_get_config ==
  WhenLost("without", Asks("get-dc-config")) \o WhenLost("ends", Asks("get-dc-config:"))

info_latency == Asks("latency")
info_latencies(verbose, namespaces) ==
  Asks("latencies") \o IF verbose THEN AsksEach("latencies hist", namespaces) ELSE <<>>

info_roster_namespace(ns) == <<Info("roster:namespace", <<"roster", ns>>)>>
(* The same answer lists the nodes the server has observed. *)
info_roster_observed(ns) == <<Info("roster:namespace", <<"observed", ns>>)>>
info_roster == Asks("roster:")
info_cluster_stable == Asks("cluster-stable")
info_racks == Asks("racks:")
info_rack_ids == WhenLost("ends", Asks("rack-ids"))

_collect_histogram_data(cmd) ==
  info_namespaces \o WhenLost("without", AsksEach(cmd, Namespaces))
info_histogram(n) ==
  _collect_histogram_data(IF AtLeast(n, SERVER_NEW_HISTOGRAM_FIRST_VERSION)
                          THEN "histogram" ELSE "hist-dump")

info_sindex == WhenLost("ends", <<Info("sindex", <<"sindex">>)>>)
info_sindex_statistics(sindex) == AsksEach("sindex stat", <<sindex>>)
info_udf_list == <<Info("udf-list", <<"udf">>)>>

(* A server without the feature query-show is asked for the jobs of a module. *)
_jobs_helper(n, old, new) == IF n \in QueryShow THEN new ELSE old
info_query_show(n) == <<Info(_jobs_helper(n, "jobs query", "query-show"), <<"query">>)>>
info_scan_show(n) == <<Info(_jobs_helper(n, "jobs scan", "scan-show"), <<"scan">>)>>
info_jobs(module) == <<Info("jobs " \o module, <<module>>)>>

admin_query_users == <<Admin(<<"user">>)>>
admin_query_user(user) == <<Admin(<<"user roles", user>>)>>
admin_query_roles == <<Admin(<<"role">>)>>
admin_query_role(role) == <<Admin(<<"privileges", role>>)>>

------------------------------------------------------------------------------
(* Changes.  An event leaves no value behind: it happened or it did not. *)
Event(cmd, obj) == InfoChange("event", cmd, obj, <<>>)

info_roster_set(ns, nodes) == <<InfoChange("is", "roster-set", <<"roster", ns>>, nodes)>>
info_recluster == <<Event("recluster", <<"recluster">>)>>
info_quiesce == <<InfoChange("is", "quiesce", <<"quiesced">>, <<"yes">>)>>
info_quiesce_undo == <<InfoChange("is", "quiesce-undo", <<"quiesced">>, <<>>)>>
info_revive(ns) == <<Event("revive", <<"revive", ns>>)>>

info_udf_put(udf) == <<InfoChange("adds", "udf-put", <<"udf">>, <<udf>>)>>
info_udf_remove(udf) ==
  Wanting("present", udf, info_udf_list)
    \o <<InfoChange("drops", "udf-remove", <<"udf">>, <<udf>>)>>
info_sindex_create(sindex) ==
  <<InfoChange("adds", "sindex-create", <<"sindex">>, <<sindex>>)>>
info_sindex_delete(sindex) ==
  <<InfoChange("drops", "sindex-delete", <<"sindex">>, <<sindex>>)>>

(* Only a whole namespace has a command of its own, in newer servers. *)
_use_new_truncate_command(n) ==
  \/ AtLeast(n, SERVER_TRUNCATE_NAMESPACE_CMD_LAST_RANGE)
  \/ \E range \in SERVER_TRUNCATE_NAMESPACE_CMD_FIRST_VERSIONS :
        range[1] <= Build[n] /\ Build[n] < range[2]
Truncation(n, ns, set, cmd) ==
  IF set # "" THEN <<Event("truncate" \o cmd, <<"truncate", ns, set>>)>>
  ELSE info_build
         \o <<Event((IF _use_new_truncate_command(n) THEN "truncate-namespace"
                     ELSE "truncate") \o cmd, <<"truncate", ns>>)>>
info_truncate(n, ns, set) == Truncation(n, ns, set, "")
info_truncate_undo(n, ns, set) == Truncation(n, ns, set, "-undo")

(* A parameter is an object of its own. *)
SetParam(context, param, val) ==
  <<InfoChange("is", "set-config", <<"config", context, param>>, <<val>>)>>
info_set_config_logging(param, val) ==
  info_logs \o <<InfoChange("is", "log-set", <<"config", "logging", param>>, <<val>>)>>
info_set_config_service(param, val) == SetParam("service", param, val)
info_set_config_namespace(ns, param, val) == SetParam("namespace " \o ns, param, val)
info_set_config_network(param, val) == SetParam("network", param, val)
info_set_config_security(param, val) == SetParam("security", param, val)
info_set_config_xdr(dc, param, val) ==
  IF dc = "" THEN SetParam("xdr", param, val)
  ELSE info_build \o SetParam("dc " \o dc, param, val)

(* The server is told "dc" or, before version 5, "datacenter". *)
DcChange(n, op, obj, val) ==
  <<InfoChange(op, IF AtLeast(n, SERVER_NEW_XDR5_VERSION) THEN "set-config dc"
                   ELSE "set-config datacenter", obj, val)>>
(* A list that an older node lost reads as an empty one. *)
Known(requests) ==
  [i \in DOMAIN requests |-> IF requests[i].lost # "ends" THEN requests[i]
                             ELSE [requests[i] EXCEPT !.lost = "without"]]
info_set_config_xdr_create_dc(n, dc) ==
  Wanting("absent", dc, Known(info_dcs(n))) \o info_build \o DcChange(n, "adds", <<"dc">>, <<dc>>)
info_set_config_xdr_delete_dc(n, dc) ==
  Wanting("present", dc, Known(info_dcs(n))) \o info_build \o DcChange(n, "drops", <<"dc">>, <<dc>>)
info_set_config_xdr_add_node(n, dc, node) ==
  info_build \o DcChange(n, "adds", <<"dc node", dc>>, <<node>>)
info_set_config_xdr_remove_node(n, dc, node) ==
  info_build \o DcChange(n, "drops", <<"dc node", dc>>, <<node>>)
info_set_config_xdr_add_namespace(n, dc, ns) ==
  info_build \o DcChange(n, "adds", <<"dc namespace", dc>>, <<ns>>)
info_set_config_xdr_remove_namespace(n, dc, ns) ==
  info_build \o DcChange(n, "drops", <<"dc namespace", dc>>, <<ns>>)

(* The server ends a job, or with the commands for all, every one of a kind. *)
info_scan_abort(n, trid) ==
  <<InfoChange("drops", _jobs_helper(n, "jobs scan kill", "scan-abort"), <<"scan">>, <<trid>>)>>
info_query_abort(n, trid) ==
  <<InfoChange("drops", _jobs_helper(n, "jobs query kill", "query-abort"), <<"query">>, <<trid>>)>>
info_jobs_kill(module, trid) ==
  <<InfoChange("drops", "jobs kill", <<module>>, <<trid>>)>>
info_scan_abort_all == <<InfoChange("is", "scan-abort-all", <<"scan">>, <<>>)>>
info_query_abort_all == <<InfoChange("is", "query-abort-all", <<"query">>, <<>>)>>

admin_create_user(user) == <<AdminChange("adds", <<"user">>, <<user>>)>>
admin_delete_user(user) == <<AdminChange("drops", <<"user">>, <<user>>)>>
admin_set_password(user, password) == <<AdminChange("is", <<"password", user>>, <<password>>)>>
admin_change_password(user, new) == <<AdminChange("is", <<"password", user>>, <<new>>)>>
admin_grant_roles(user, roles) == <<AdminChange("adds", <<"user roles", user>>, roles)>>
admin_revoke_roles(user, roles) == <<AdminChange("drops", <<"user roles", user>>, roles)>>
admin_create_role(role) == <<AdminChange("adds", <<"role">>, <<role>>)>>
admin_delete_role(role) == <<AdminChange("drops", <<"role">>, <<role>>)>>
admin_add_privileges(role, privilege) ==
  <<AdminChange("adds", <<"privileges", role>>, <<privilege>>)>>
admin_delete_privileges(role, privilege) ==
  <<AdminChange("drops", <<"privileges", role>>, <<privilege>>)>>
admin_set_whitelist(role, addresses) ==
  <<AdminChange("is", <<"allowlist", role>>, addresses)>>
admin_delete_whitelist(role) == <<AdminChange("is", <<"allowlist", role>>, <<>>)>>
admin_set_quotas(role, quotas) == <<AdminChange("is", <<"quotas", role>>, quotas)>>
===============================================================================
