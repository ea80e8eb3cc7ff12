------------------------------ MODULE Collectinfo ------------------------------
(***************************************************************************)
(* The command that collects everything about a cluster into an archive    *)
(* (lib/live_cluster/collectinfo_controller.py, with the collection of the *)
(* system's own data of lib/utils/common.py).  It reads the cluster into   *)
(* one file, then writes five more, each by a coroutine of its own, and    *)
(* archives them.                                                          *)
(*                                                                         *)
(* What it does to files, and the commands whose output it captures, are   *)
(* requests to the machine it runs on; one that fails there raises.  The   *)
(* commands read the cluster again: of them only that they may raise is    *)
(* kept.  A file is the sequence of what was written to it.                *)
(***************************************************************************)
EXTENDS Reports

CONSTANT Here  \* asadm's own machine
ASSUME CollectinfoAssumption == Here \notin Node

Local(cmd, obj) == [Info(cmd, obj) EXCEPT !.via = "local"]
write_to_file(file, what) ==
  [Local("write", <<"file", file>>) EXCEPT !.op = "adds", !.val = <<what>>]
Attempt(c, requests, Then(_, _)) ==
  Call(c, {Here}, LAMBDA n : requests, LAMBDA d, answers : Then(d, answers[Here].came = "ok"))
_collectinfo_capture_and_write_to_file(file, param) ==
  <<Local("capture", <<param>>), write_to_file(file, param)>>
Captures(file, params) ==
  FlattenSeq([i \in DOMAIN params |-> _collectinfo_capture_and_write_to_file(file, params[i])])
(* What asadm asks the nodes, system commands: nothing raises but the file. *)
Writes(file, params) == [i \in DOMAIN params |-> write_to_file(file, params[i])]

------------------------------------------------------------------------------
(* The data of a snapshot.  A node's sets, bins and indexes are put under its
   namespaces: one that lost all of these but not its sets raises. *)
_get_as_data_json(n) ==
  <<FlattenSeq([i \in DOMAIN Namespaces |->
                WhenLost("without", info_namespace_statistics(Namespaces[i]))]),
    info_all_set_statistics, info_bin_statistics, info_sindex,
    info_statistics, info_XDR_statistics(n), info_all_dc_statistics(n),
    info_get_config(n, "security"), info_get_config(n, "service"),
    info_get_config(n, "namespace"), info_get_config(n, "network"), info_XDR_get_config(n),
    info_dc_get_config, info_roster, info_racks, info_rack_ids>>
_get_as_metadata(n) ==
  <<info_build, info_version, info_node, info_service_list, info_peers_flat_list, info_udf_list,
    info_health_outliers, info_best_practices, info_scan_show(n), info_query_show(n),
    info_jobs("sindex-builder")>>
_get_as_histograms(n) == <<info_histogram(n)>>
_get_as_latency(n) ==
  IF AtLeast(n, SERVER_NEW_LATENCIES_CMD_FIRST_VERSION)
  THEN <<info_latencies(TRUE, Namespaces)>> ELSE <<info_latency>>
_get_as_access_control_list(n) ==
  IF n = Principal THEN <<admin_query_users, admin_query_roles>> ELSE <<>>
_get_collectinfo_data_json(n) ==
  _get_as_data_json(n) \o _get_as_metadata(n) \o _get_as_histograms(n) \o _get_as_latency(n)
    \o _get_as_access_control_list(n) \o <<Asks("cluster-name")>>
(* The nested data of a node: its own sets, without its namespaces. *)
_restructure_set_section(answers) ==
  \E i \in 2..4 : answers[i].came = "ok" /\ Last(answers[i].vals) # <<>>
NoNamespaces(answers) ==
  Namespaces # <<>> /\ \A i \in DOMAIN answers[1].vals : answers[1].vals[i] = <<>>
CannotRestructure(answers) ==
  \E n \in DOMAIN answers : _restructure_set_section(answers[n]) /\ NoNamespaces(answers[n])

(* A second snapshot is like the first. *)
_dump_collectinfo_json(c, snapshots) ==
  LET snapshot(d) ==
        CallAll(d, d.nodes, _get_collectinfo_data_json, LAMBDA e, answers :
          Reached(e, ~CannotRestructure(answers)))
      write(d) == Attempt(d, <<write_to_file("ascinfo.json", "snapshots")>>, Reached)
      again(d, ok) == IF ok /\ snapshots = 2 THEN snapshot(d) ELSE Reached(d, ok)
  IN Joined(Joined(snapshot(c), again), LAMBDA d, ok : IF ok THEN write(d) ELSE Reached(d, FALSE))

------------------------------------------------------------------------------
(* A coroutine: a header, then groups of captures.  The first capture of a
   group that fails ends the group and leaves the error in the file, as the
   last thing here; of a `fatal' group, and where the error cannot be
   written, it raises. *)
Phase(c, file, groups, fatal) ==
  LET raises(d) ==
        Attempt(d, <<write_to_file(file, "error")>>, LAMBDA e, written :
          IF written THEN First(Warn, Reached(e, FALSE)) ELSE Reached(e, FALSE))
      errors(d, failed) ==
        Attempt(d, Writes(file, [i \in DOMAIN failed |-> "error"]), Reached)
      captured(d) ==
        CallAll(d, {Here}, LAMBDA n : groups, LAMBDA e, answers :
          LET failed == SelectSeq(answers[Here], LAMBDA answer : answer.came # "ok") IN
          IF failed = <<>> THEN Reached(e, TRUE)
          ELSE IF fatal THEN Reached(e, FALSE) ELSE errors(e, failed))
      begun(d, ok) == IF ok THEN captured(d) ELSE Reached(d, FALSE)
  IN Joined(Joined(Attempt(c, <<write_to_file(file, "header")>>, Reached), begun),
            LAMBDA d, ok : IF ok THEN Reached(d, TRUE) ELSE raises(d))

InfoParams == <<"network", "namespace", "set", "xdr", "dc", "sindex">>
(* Histograms are asked of the namespaces if every node could list its own. *)
_dump_collectinfo_ascollectinfo(c) ==
  CallAll(c, Node, LAMBDA n : <<info_build, Asks("namespaces")>>, LAMBDA d, answers :
    LET listed == \A n \in DOMAIN answers : answers[n][2].came = "ok"
        file == "ascollectinfo.log"
    IN Phase(d, file,
             <<Captures(file, <<"version">>), Captures(file, InfoParams),
               Captures(file, <<"config", "distribution", "latencies", "statistics">>),
               Captures(file, <<"features">>),
               Writes(file, <<"service", "roster:">> \o IF listed THEN Namespaces ELSE <<>>)>>,
             FALSE))
_dump_collectinfo_summary(c) ==
  Phase(c, "summary.log",
        <<Captures("summary.log", <<"version">>), Captures("summary.log", <<"summary">>),
          Captures("summary.log", InfoParams)>>, FALSE)
_dump_collectinfo_health(c) ==
  Phase(c, "health.log", <<Captures("health.log", <<"health -v">>)>>, TRUE)
(* collect_sys_info: the commands of the system, then seven other sources. *)
_dump_collectinfo_sysinfo(c) ==
  Phase(c, "sysinfo.log",
        <<Writes("sysinfo.log", <<"shell commands">>)>>
          \o [i \in 1..7 |-> Writes("sysinfo.log",
                <<<<"cpuinfo", "aws", "gce", "azure", "lsof", "env", "ip link">>[i]>>)],
        FALSE)
_dump_collectinfo_aerospike_conf(c) ==
  Joined(Attempt(c, <<Local("copy", <<"conf">>), write_to_file("aerospike.conf", "conf")>>, Reached),
    LAMBDA d, copied :
      IF copied THEN Reached(d, TRUE)
      ELSE First(Warn, Attempt(d, <<write_to_file("aerospike.conf", "error")>>, Reached)))

(* What an agent knows of the use of a license. *)
_dump_collectinfo_license_data(c) ==
  LET usage(d) == Attempt(d, <<write_to_file("aslicenseusage.json", "usage")>>, Reached) IN
  Joined(Attempt(c, <<Local("license usage", <<"agent">>)>>, Reached), LAMBDA d, came :
    IF came THEN usage(d)
    ELSE First(Complain, Joined(usage(d), LAMBDA e, written : Reached(e, FALSE))))

(* A part that did not come to its end is the last, unless told to go on. *)
Unless(part, goes_on, Then(_)) ==
  Joined(part, LAMBDA d, ok : IF ok \/ goes_on THEN Then(d) ELSE End(d, <<Complain>>))
(* The coroutines.  The first to raise closes those after it, which raise in
   turn when they are awaited: with `--ignore-errors' this goes unnoticed. *)
AndThen(part, Dump(_)) ==
  Joined(part, LAMBDA d, ok : IF ok THEN Dump(d) ELSE Reached(d, FALSE))
AllFilesButConf(c) ==
  AndThen(AndThen(AndThen(_dump_collectinfo_ascollectinfo(c), _dump_collectinfo_summary),
                  _dump_collectinfo_health), _dump_collectinfo_sysinfo)
AllFiles(c) ==
  AndThen(AndThen(AndThen(AndThen(_dump_collectinfo_ascollectinfo(c), _dump_collectinfo_summary),
                          _dump_collectinfo_health), _dump_collectinfo_sysinfo),
          _dump_collectinfo_aerospike_conf)
archive_log(c) == End(c, <<Tell("archived")>>)
(* The snapshots come before the files, and are not passed over. *)
Collected(c, snapshots, ignore_errors) ==
  Unless(_dump_collectinfo_json(c, snapshots), FALSE, LAMBDA d :
    Attempt(d, <<Local("load", <<"ascinfo.json">>)>>, LAMBDA e, loaded :
      IF loaded THEN Unless(AllFiles(e), ignore_errors, archive_log) ELSE End(e, <<Raise>>)))
_run_collectinfo(c, snapshots, agent, ignore_errors) ==
  Attempt(c, <<Local("mkdir", <<"archive">>)>>, LAMBDA d, made :
    IF ~made THEN End(d, <<Raise>>)
    ELSE Unless(IF agent THEN _dump_collectinfo_license_data(d) ELSE Reached(d, TRUE),
                ignore_errors, LAMBDA e : Collected(e, snapshots, ignore_errors)))

(* What is left of the words is complained of, and then ignored. *)
CollectinfoController(c) ==
  pre_command(c, {}, {"with"}, LAMBDA d :
    LET options == <<"-n", "-t", "--agent-host", "--agent-port", "--ssh-user", "--ssh-pwd",
                     "--ssh-port", "--ssh-key", "--ssh-cf", "--output-prefix", "--asconfig-file">>
        flags == <<"--agent-store", "--enable-ssh", "--ignore-errors">>
        snapshots == CASE fetch_argument(d.line, "-n", "1") = "0" -> 0
                       [] fetch_argument(d.line, "-n", "1") = "1" -> 1
                       [] OTHER -> 2
    IN Given(Dropping(Taking(d, options, d.keys), flags, d.keys), LAMBDA e :
         Telling(e.line # <<>>, Complain,
           IF snapshots = 0 THEN End(e, <<Complain>>)
           ELSE _run_collectinfo(e, snapshots, e.args["--agent-host"] # "",
                                 check_arg(d, "--ignore-errors")))))
===============================================================================
