------------------------------- MODULE Health -------------------------------
(* The health checker: the statements of its queries over what the nodes     *)
(* answered (health/).  A dictionary is a function from the paths of its     *)
(* leaves, sequences of [name, tag], to their values; a single value is at   *)
(* the empty path.  A variable has a set: of the dictionary it holds, or of  *)
(* nothing when the statement that was to make it raised.                    *)
EXTENDS Capture

C1 == <<"C1", "CLUSTER">>
Dictionary(leaves) ==
  [path \in {leaf[1] : leaf \in leaves} |-> (CHOOSE leaf \in leaves : leaf[1] = path)[2]]
HasTag(path, tag) == \E i \in DOMAIN path : path[i][2] = tag
KeyOf(path, tag) == path[CHOOSE i \in DOMAIN path : path[i][2] = tag]
Below(d, prefix) == {path \in DOMAIN d : IsPrefix(prefix, path)}

-----------------------------------------------------------------------------
(* select: the keys that are asked for, of the nodes that are not left out,  *)
(* under the levels of their stanza.                                         *)

Levels(stanza) ==
  CASE stanza = "namespace" -> <<"NAMESPACE">>
    [] stanza = "sindex" -> <<"NAMESPACE", "SET", "SINDEX">>
    [] stanza = "udf" -> <<"FILENAME">>
    [] OTHER -> <<>>
merge_dicts_with_new_tuple_keys(d, levels) ==
  CASE Len(levels) = 0 -> <<>> :> d
    [] Len(levels) = 1 -> [names \in {<<name>> : name \in DOMAIN d} |-> d[names[1]]]
    [] Len(levels) > 1 -> d
PathOf(n, names, levels, key) ==
  <<C1, <<n, "NODE">>>> \o [i \in DOMAIN levels |-> <<names[i], levels[i]>>] \o <<<<key, "KEY">>>>
Selected(key, s) == IF s.keys = {} THEN key \notin s.ignore ELSE key \in s.keys
select_keys_from_dict(s, n, d, levels) ==
  UNION {{<<PathOf(n, names, levels, IF s.as = "" THEN key ELSE s.as), d[names][key]>> :
          key \in {key \in DOMAIN d[names] : Selected(key, s)}} : names \in DOMAIN d}
select_keys(s, input, removed) ==
  LET levels == Levels(s.from[2])
      leaves == UNION {select_keys_from_dict(
                         s, n, merge_dicts_with_new_tuple_keys(input[s.from][n], levels), levels) :
                       n \in DOMAIN input[s.from] \ removed}
  IN  IF leaves = {} THEN {} ELSE {Dictionary(leaves)}

-----------------------------------------------------------------------------
(* group by: the keys of the tags come first, in their order. *)

GroupedPath(path, tags) ==
  [i \in DOMAIN tags |-> KeyOf(path, tags[i])]
    \o SelectSeq(path, LAMBDA key : key[2] \notin ToSet(tags))
do_multiple_group_by(d, tags) ==
  IF Falsy(d) \/ \E path \in DOMAIN d, i \in DOMAIN tags : ~HasTag(path, tags[i]) THEN {}
  ELSE {Dictionary({<<GroupedPath(path, tags), d[path]>> : path \in DOMAIN d})}

(* One value for each group, of all its leaves; COUNT counts what is next    *)
(* below the group.                                                          *)
Upto(path, tag) == SubSeq(path, 1, CHOOSE i \in DOMAIN path : path[i][2] = tag)
Next_(path, prefix) == IF path = prefix THEN path ELSE SubSeq(path, 1, Len(prefix) + 1)
Values_(d, prefix) == {d[path][1] : path \in Below(d, prefix)}
(* Which value the majority has is for what is told of a mismatch only. *)
no_match(d, prefix) == Cardinality(Values_(d, prefix)) > 1
operator_and_function(op, d, prefix) ==
  CASE op = "COUNT" -> Cardinality({Next_(path, prefix) : path \in Below(d, prefix)})
    [] op = "OR" -> TRUE \in Values_(d, prefix)
    [] op = "NO_MATCH" -> no_match(d, prefix)
apply_operator(op, d, tag) ==
  IF \E path \in DOMAIN d : ~HasTag(path, tag) THEN {}
  ELSE {[prefix \in {Upto(path, tag) : path \in DOMAIN d} |->
         <<operator_and_function(op, d, prefix)>>]}
AggOperation(op, d, by) ==
  IF by = <<>> THEN apply_operator(op, d, "CLUSTER")
  ELSE UNION {apply_operator(op, grouped, by[Len(by)]) : grouped \in do_multiple_group_by(d, by)}

-----------------------------------------------------------------------------
(* Of two dictionaries, leaf by leaf: one that ends above the other has its  *)
(* value for all that is below.                                              *)

operators(op, x, y) ==
  CASE op = "==" -> x = y
    [] op = ">" -> x > y
    [] op = "<" -> x < y
    [] op = "||" -> x \/ y
    [] op = "%%" -> (x * y) \div 100
Match(p, q) == IsPrefix(p, q) \/ IsPrefix(q, p)
BinaryOperation(op, d, e, common) ==
  LET pairs == {pair \in (DOMAIN d) \X (DOMAIN e) : Match(pair[1], pair[2])}
      matching == /\ {pair[1] : pair \in pairs} = DOMAIN d
                  /\ {pair[2] : pair \in pairs} = DOMAIN e
      longer(pair) == IF Len(pair[1]) >= Len(pair[2]) THEN pair[1] ELSE pair[2]
  IN  IF ~matching /\ ~common THEN {}
      ELSE {Dictionary({<<longer(pair), <<operators(op, d[pair[1]][1], e[pair[2]][1])>>>> :
                        pair \in pairs})}

-----------------------------------------------------------------------------
(* ASSERT tells the leaves that have another value.  With a condition it is  *)
(* skipped where that holds nowhere, and otherwise has only what the         *)
(* condition has too, and nothing against a leaf where it is false.          *)

Told(msg, d, expected) ==
  IF Falsy(d) THEN Nothing ELSE msg :> {path \in DOMAIN d : d[path] # expected}
AssertDetailOperation(s, d) == Told(s.msg, d, <<s.expected>>)
is_data_true(d) == \E path \in DOMAIN d : d[path][1]
Single(v) == <<>> :> <<v>>
Filtered(s, d, c) ==
  UNION {BinaryOperation("||", met, off, TRUE) :
         met \in BinaryOperation("==", d, Single(s.expected), FALSE),
         off \in BinaryOperation("==", c, Single(FALSE), FALSE)}

(* What a statement does: [raised, told]; one with a condition is handed it. *)
Fine(told) == [raised |-> FALSE, told |-> told]
Raised == [raised |-> TRUE, told |-> Nothing]
do_assert(s, arg, condition) ==
  CASE \E c \in condition : ~is_data_true(c) -> Fine(Nothing)
    [] (\A c \in condition : is_data_true(c)) /\ arg = {} -> Raised
    [] (\A c \in condition : is_data_true(c)) /\ arg # {} ->
         LET d == CHOOSE d \in arg : TRUE
         IN  IF condition = {} THEN Fine(AssertDetailOperation(s, d))
             ELSE Fine(Told(s.msg, CHOOSE f \in Filtered(s, d, CHOOSE c \in condition : TRUE) : TRUE,
                            <<TRUE>>))

-----------------------------------------------------------------------------
(* Statements *)

Statement ==
  [is |-> "", var |-> "", from |-> <<>>, keys |-> {}, ignore |-> {}, as |-> "", op |-> "", args |-> <<>>,
   by |-> <<>>, common |-> FALSE, msg |-> "", expected |-> TRUE, under |-> "", below |-> 0]
Var(name) == [name |-> name, value |-> {}]
Const(v) == [name |-> "", value |-> {Single(v)}]
Select(var, keys, as, from) ==
  [Statement EXCEPT !.is = "select", !.var = var, !.keys = keys, !.as = as, !.from = from]
SelectAll(var, ignore, from) ==
  [Statement EXCEPT !.is = "select", !.var = var, !.ignore = ignore, !.from = from]
GroupBy(var, by) == [Statement EXCEPT !.is = "group", !.var = var, !.args = <<Var(var)>>, !.by = by]
Do(var, x, op, y) == [Statement EXCEPT !.is = "binary", !.var = var, !.op = op, !.args = <<x, y>>]
OnCommon(s) == [s EXCEPT !.common = TRUE]
DoBy(var, by, op, x) ==
  [Statement EXCEPT !.is = "agg", !.var = var, !.op = op, !.args = <<x>>, !.by = by]
ASSERT_(arg, expected, msg) ==
  [Statement EXCEPT !.is = "assert", !.args = <<Var(arg)>>, !.expected = expected, !.msg = msg]
Under(s, condition) == [s EXCEPT !.under = condition]
SetConstraint(below) == [Statement EXCEPT !.is = "constraint", !.below = below]

-----------------------------------------------------------------------------
(* The queries, of every kind of check some. *)

FileDifference(stanza, msg) ==
  <<SelectAll("oc", {}, <<"original_config", stanza>>), SelectAll("c", {}, <<"config", stanza>>),
    OnCommon(Do("r", Var("oc"), "==", Var("c"))), ASSERT_("r", TRUE, msg)>>
FileDifferences ==
  FileDifference("service", "Service configurations different than config file values.")
    \o FileDifference("network", "Network configurations different than config file values.")
    \o FileDifference("namespace", "Namespace configurations different than config file values.")
ClientConnections ==
  <<Select("max", {"proto-fd-max"}, "fd", <<"config", "service">>),
    Select("conn", {"client_connections"}, "fd", <<"statistics", "service">>),
    Do("bound", Const(80), "%%", Var("max")), Do("r", Var("conn"), ">", Var("bound")),
    ASSERT_("r", FALSE, "High system client connections.")>>
ServiceDifference ==
  <<SelectAll("s", {"heartbeat.mtu", "node-id-interface", "node-id", "pidfile"}, <<"config", "service">>),
    DoBy("r", <<"CLUSTER", "KEY">>, "NO_MATCH", Var("s")),
    ASSERT_("r", FALSE, "Different service configurations.")>>
Outside(var, key, low, high, msg) ==
  <<Select(var, {key}, "", <<"config", "network">>),
    Do("r1", Var(var), "<", Const(low)), Do("r2", Var(var), ">", Const(high)),
    Do("r", Var("r1"), "||", Var("r2")), ASSERT_("r", FALSE, msg)>>
Heartbeats ==
  Outside("interval", "heartbeat.interval", 150, 250,
          "Heartbeat interval is not in expected range (150 <= p <= 250)")
    \o Outside("timeout", "heartbeat.timeout", 10, 15,
               "Heartbeat timeout is not in expected range (10 <= p <= 15)")
DisparateNamespaces ==
  <<Select("repl", {"replication-factor", "repl-factor"}, "", <<"config", "namespace">>),
    GroupBy("repl", <<"CLUSTER", "NAMESPACE">>),
    DoBy("ns_count", <<"CLUSTER">>, "COUNT", Var("repl")),
    DoBy("ns_count_per_node", <<"CLUSTER", "NODE">>, "COUNT", Var("repl")),
    Do("r", Var("ns_count_per_node"), "==", Var("ns_count")),
    ASSERT_("r", TRUE, "Disparate namespaces.")>>
ReplicationFactors ==
  <<Select("r", {"replication-factor", "repl-factor"}, "", <<"config", "namespace">>),
    GroupBy("r", <<"CLUSTER", "NAMESPACE">>), Do("r", Var("r"), "==", Const(2)),
    ASSERT_("r", TRUE, "Non-default namespace replication-factor configuration.")>>
NamespaceDifference ==
  <<SelectAll("s", {"rack-id"}, <<"config", "namespace">>),
    DoBy("r", <<"CLUSTER", "NAMESPACE", "KEY">>, "NO_MATCH", Var("s")),
    ASSERT_("r", FALSE, "Different namespace configurations.")>>
XdrEnabled ==
  <<Select("xdr_enabled", {"enable-xdr"}, "", <<"config", "xdr">>),
    DoBy("xdr_enabled", <<"CLUSTER", "NODE">>, "OR", Var("xdr_enabled"))>>
XdrLag ==
  <<Select("s", {"timediff_lastship_cur_secs", "xdr_timelag"}, "", <<"statistics", "xdr">>),
    Do("r", Var("s"), ">", Const(10)),
    Under(ASSERT_("r", FALSE, "High XDR shipping lag (> 10s)."), "xdr_enabled")>>
Integrity ==
  <<Select("r", {"cluster_integrity"}, "", <<"statistics", "service">>),
    Do("r", Var("r"), "==", Const(TRUE)), ASSERT_("r", TRUE, "Cluster integrity fault."),
    Select("r", {"cluster_key"}, "", <<"statistics", "service">>),
    DoBy("r", <<>>, "NO_MATCH", Var("r")), ASSERT_("r", FALSE, "Different Cluster Key.")>>
UnstableCluster ==
  <<Select("u", {"uptime"}, "", <<"statistics", "service">>),
    DoBy("total_nodes", <<"CLUSTER">>, "COUNT", Var("u")),
    Select("r", {"cluster_size"}, "", <<"statistics", "service">>),
    Do("r", Var("r"), "==", Var("total_nodes")), ASSERT_("r", TRUE, "Unstable Cluster.")>>
UdfSync ==
  <<SelectAll("u", {}, <<"meta_data", "udf">>),
    DoBy("r", <<"FILENAME", "KEY">>, "NO_MATCH", Var("u")),
    ASSERT_("r", FALSE, "UDF not in sync (file not matching)."),
    DoBy("total_nodes", <<"CLUSTER">>, "COUNT", Var("u")),
    DoBy("c", <<"CLUSTER", "FILENAME">>, "COUNT", Var("u")),
    Do("r", Var("c"), "==", Var("total_nodes")),
    ASSERT_("r", TRUE, "UDF not in sync (not available on all node).")>>
SindexSync ==
  LET index == <<"CLUSTER", "NAMESPACE", "SET", "SINDEX">>
  IN  <<Select("s", {"sync_state", "state"}, "val", <<"statistics", "sindex">>), GroupBy("s", index),
        Do("r1", Var("s"), "==", Const("synced")), Do("r2", Var("s"), "==", Const("RW")),
        Do("r", Var("r1"), "||", Var("r2")), ASSERT_("r", TRUE, "SINDEX not in sync with primary."),
        Select("u", {"uptime"}, "", <<"statistics", "service">>),
        DoBy("total_nodes", <<"CLUSTER">>, "COUNT", Var("u")), DoBy("c", index, "COUNT", Var("s")),
        Do("r", Var("c"), "==", Var("total_nodes")),
        ASSERT_("r", TRUE, "SINDEX not in sync (not available on all node).")>>
QUERIES ==
  <<<<SetConstraint(0)>>, FileDifferences, ClientConnections, ServiceDifference, Heartbeats,
    DisparateNamespaces, ReplicationFactors, NamespaceDifference,
    <<SetConstraint(50)>>, XdrEnabled, XdrLag,
    <<SetConstraint(0)>>, Integrity, UnstableCluster, UdfSync, SindexSync>>

-----------------------------------------------------------------------------
(* Their execution.  Below a version, the nodes of another are left out, and *)
(* all that follows is skipped when that is every node that told anything of *)
(* itself.  A node whose build is not known is kept.                         *)

Metadata(input, section) ==
  LET of == input[<<"meta_data", section>>] IN {n \in DOMAIN of : ~Falsy(of[n])}
_filter_nodes_to_remove(input, below) ==
  {n \in Metadata(input, "asd_build") : below > 0 /\ input[<<"meta_data", "asd_build">>][n][1] >= below}
_filter_and_set_health_input_data(x, input, s) ==
  LET known == UNION {Metadata(input, section) : section \in {"asd_build", "edition", "node_id"}}
      remove == _filter_nodes_to_remove(input, s.below)
  IN  [x EXCEPT !.no_valid_version = remove # {} /\ remove = known, !.removed = remove, !.success = @ + 1]

Operand(x, arg) ==
  arg.value \cup (IF arg.name \in DOMAIN x.vars THEN x.vars[arg.name] ELSE {})
do_operation(x, input, s) ==
  CASE s.is = "select" -> select_keys(s, input, x.removed)
    [] s.is = "group" -> UNION {do_multiple_group_by(d, s.by) : d \in Operand(x, s.args[1])}
    [] s.is = "agg" -> UNION {AggOperation(s.op, d, s.by) : d \in Operand(x, s.args[1])}
    [] s.is = "binary" -> UNION {BinaryOperation(s.op, d, e, s.common) :
                                 d \in Operand(x, s.args[1]), e \in Operand(x, s.args[2])}
Assigned(x, s, value) ==
  [x EXCEPT !.vars = (s.var :> value) @@ @,
            !.success = IF value = {} THEN @ ELSE @ + 1, !.exceptions = IF value = {} THEN @ + 1 ELSE @]
Asserted(x, done) ==
  [x EXCEPT !.asserts = @ + 1, !.outputs = done.told @@ @,
            !.success = IF done.raised THEN @ ELSE @ + 1, !.exceptions = IF done.raised THEN @ + 1 ELSE @]
_execute_query(x, input, s) ==
  IF s.is # "assert" THEN Assigned(x, s, do_operation(x, input, s))
  ELSE Asserted(x, do_assert(s, Operand(x, s.args[1]), Operand(x, Var(s.under))))
Statement_(x, input, s) ==
  CASE s.is = "constraint" -> _filter_and_set_health_input_data(x, input, s)
    [] s.is # "constraint" /\ x.no_valid_version -> [x EXCEPT !.skipped = @ + 1]
    [] OTHER -> _execute_query(x, input, s)
Query(x, input, statements) ==
  FoldLeft(LAMBDA y, s : Given(y, LAMBDA z : Statement_([z EXCEPT !.queries = @ + 1], input, s)),
           x, statements)
_execute_queries(input) ==
  FoldLeft(LAMBDA x, statements : Given(x, LAMBDA y : Query(y, input, statements)),
           [vars |-> Nothing, removed |-> {}, no_valid_version |-> FALSE, outputs |-> Nothing,
            queries |-> 0, success |-> 0, skipped |-> 0, exceptions |-> 0, asserts |-> 0],
           QUERIES)
(* What is told: the counters, and each assertion with the leaves that fail. *)
execute(input) ==
  Given(_execute_queries(input), LAMBDA x :
    [outputs |-> x.outputs, queries |-> x.queries, success |-> x.success, skipped |-> x.skipped,
     exceptions |-> x.exceptions, asserts |-> x.asserts])
=============================================================================
