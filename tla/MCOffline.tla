----------------------------- MODULE MCOffline -----------------------------
(* Logs of a few lines, of two nodes and a third of the same node; snapshots *)
(* of two servers, of which one or two answers were lost.                    *)
EXTENDS Offline

-----------------------------------------------------------------------------
(* Logs *)

Line(tm, has) == [tm |-> tm, has |-> has, val |-> <<>>, shape |-> 0, writer |-> "w",
                  hist |-> "", ns |-> "", total |-> 0, unit |-> "ms", buckets |-> <<>>]
Valued(tm, has, val) == [Line(tm, has) EXCEPT !.val = val, !.shape = 1]
Dump(tm, ns, total) == [Line(tm, <<"h">>) EXCEPT !.hist = "h", !.ns = ns, !.total = total]
Buckets(tm, b) == [Line(tm, <<>>) EXCEPT !.buckets = b]
Log(lines, node) == [lines |-> lines, node |-> node, is_log |-> TRUE]

Busy == <<Line(0, <<"a">>), Valued(1, <<"a", "b">>, <<1>>), Line(1, <<>>), Line(NoTime, <<"a">>),
          Valued(3, <<"a", "b">>, <<2>>), Line(5, <<"b", "a">>), Valued(9, <<"a", "b">>, <<7>>)>>
Gap == <<Line(1, <<>>), Valued(2, <<"a", "b">>, <<3>>), Line(2, <<>>),
         Valued(9, <<"a", "b">>, <<5>>), Line(10, <<"a">>)>>
Gaps == <<Line(0, <<>>), Line(1, <<>>), Valued(6, <<"a", "b">>, <<3, 4>>), Valued(9, <<"a", "b">>, <<5, 1>>),
          [Valued(9, <<"a", "b">>, <<5, 1>>) EXCEPT !.writer = "x"], Line(14, <<"b">>)>>
Quiet_ == <<Line(3, <<>>), Line(3, <<>>), Line(3, <<>>), Line(4, <<>>), Line(4, <<"b">>), Line(8, <<>>)>>
Reversed == <<Line(0, <<"b", "a">>), Valued(2, <<"a", "b">>, <<1>>), Line(3, <<>>)>>
B(x, y, z) == (0 :> x) @@ (1 :> y) @@ (2 :> z)
Dumps == <<Dump(1, "n", 2), Buckets(1, B(1, 1, 0)), Dump(1, "o", 1), Buckets(1, 0 :> 1),
           Dump(3, "n", 5), Buckets(3, (0 :> 2) @@ (1 :> 2)), Buckets(3, 2 :> 1),
           Dump(3, "o", 3), Buckets(3, B(1, 1, 1)),
           Dump(5, "n", 9), Buckets(5, B(2, 2, 5)), Dump(5, "o", 3), Buckets(5, B(1, 1, 1)), Line(6, <<>>)>>
Restart == <<Dump(2, "n", 6), Buckets(2, B(3, 2, 1)), Dump(4, "n", 1), Buckets(4, 2 :> 1),
             Dump(6, "n", 7), Buckets(6, B(3, 3, 1)), Line(7, <<>>)>>
Micro == <<[Dump(1, "n", 2) EXCEPT !.unit = "us"], Buckets(1, B(1, 1, 0)),
           [Dump(3, "n", 4) EXCEPT !.unit = "us"], Buckets(3, B(1, 2, 1)), Line(3, <<>>)>>
Untimed == <<Line(1, <<"a">>), Line(NoTime, <<>>)>>

(* One log under "a", another under "b"; "c" is of the node of "a".          *)
Contents ==
  {Busy, Gap, Gaps, Dumps} \X {Busy, Gap, Gaps, Dumps}
    \cup {<<Quiet_, Busy>>, <<Reversed, Gaps>>, <<Dumps, Restart>>, <<Restart, Dumps>>, <<Micro, Dumps>>,
          <<Dumps, Micro>>}
MCLogs ==
  {("a" :> Log(x[1], "A")) @@ ("b" :> Log(x[2], "B")) @@ ("c" :> Log(Reversed, "A"))
     @@ ("t" :> Log(Untimed, "T")) @@ ("x" :> [Log(<<>>, "X") EXCEPT !.is_log = FALSE]) : x \in Contents}
Chosen(op) ==
  CASE op = "grep" ->
         {<<>>, "p" :> 2, ("a" :> TRUE) @@ ("v" :> {"c"}), ("d" :> 4) @@ ("f" :> [is |-> "at", tm |-> 5]),
          "f" :> [is |-> "back", tm |-> 3], "f" :> [is |-> "bad", tm |-> 0], "u" :> TRUE, "v" :> {"b"},
          "n" :> <<0>>, "n" :> <<2, 1, 5>>, "word" :> ""}
    [] op = "count" -> {<<>>, "p" :> 2, "d" :> 4, "f" :> [is |-> "at", tm |-> 6], "f" :> [is |-> "back", tm |-> 3]}
    [] op = "diff" ->
         {<<>>, "p" :> 2, "k" :> 2, "l" :> 3, ("d" :> 7) @@ ("p" :> 1), "f" :> [is |-> "at", tm |-> 2]}
    [] op = "histogram" ->
         {<<>>, "e" :> 1, ("e" :> 1) @@ ("N" :> "n") @@ ("o" :> TRUE), ("b" :> 2) @@ ("e" :> 1) @@ ("p" :> 1),
          "b" :> 0, ("d" :> 3) @@ ("e" :> 1)}
Args(op) ==
  CASE op = "grep" -> {("s" :> s) @@ o : s \in {<<"a">>, <<"a", "b">>}, o \in Chosen(op)}
    [] op = "count" -> {("s" :> s) @@ ("t" :> t) @@ o : s \in {<<"a">>, <<"b">>}, t \in {1, 3}, o \in Chosen(op)}
    [] op = "diff" ->
         {("s" :> s) @@ ("t" :> t) @@ o : s \in {<<"b">>, <<"a", "b">>}, t \in {1, 3}, o \in Chosen(op)}
    [] op = "histogram" -> {("h" :> <<"h">>) @@ ("t" :> 2) @@ o : o \in Chosen(op)}
MCCommands == UNION {[op : {op}, args : Args(op) \cup {<<>>}] : op \in {"grep", "count", "diff", "histogram"}}
  \cup [op : {"add"}, paths : {<<"b">>, <<"x">>, <<"b", "c">>, <<"t">>}]
  \cup [op : {"select", "remove"}, indices : {<<1>>, <<0>>, <<2, 9>>}, all : {FALSE}]
  \cup [op : {"select", "remove"}, indices : {<<>>}, all : {TRUE}]
MCKeys == <<"A", "B", "T">>

-----------------------------------------------------------------------------
(* Snapshots: a server answers a request with what tells it and the snapshot *)
(* from the others.                                                          *)

MCNODES == <<"n1", "n2">>
Index(n) == CHOOSE i \in 1..2 : NODES[i] = n
TEST(v) == "test" :> v
Keys(n) == IF n = "n1" THEN {"test", "bar"} ELSE {"test"}
SetKeys(n) == IF n = "n1" THEN {<<"test", "s">>, <<"bar", "s">>} ELSE {<<"test", "s">>, <<"test", "t">>}
Dcs(n) == IF n = "n1" THEN {"DC1"} ELSE {"DC1", "DC2"}
IKEY == {<<"test", "s", "i">>}
Truth(r, n, tag, builds) ==
  LET v == <<10 * tag + Index(n)>>
      b == builds[n]
      fmt == IF b < 42 THEN 0 ELSE 1
      P == "p" :> v
      first == n = "n1"
  IN CASE r = "security" -> P
       [] r = "service" -> P @@ "q" :> <<tag>> @@ "proto-fd-max" :> <<10>>
       [] r = "network" -> P @@ "heartbeat.interval" :> <<IF first THEN 150 ELSE 100>>
       [] r = "namespace config" -> [ns \in Keys(n) |-> P @@ "replication-factor" :> <<2>>]
       [] r \in {"namespace", "bins"} -> [ns \in Keys(n) |-> P]
       [] r = "rack-ids" -> [ns \in Keys(n) |-> v]
       [] r = "xdr config" -> IF b < 50 THEN P @@ "enable-xdr" :> <<first>> ELSE
            ("xdr_configs" :> P) @@ ("dc_configs" :> [dc \in Dcs(n) |-> P])
              @@ ("ns_configs" :> [dc \in Dcs(n) |-> TEST(v)])
       [] r = "xdr" -> IF b < 50 THEN P @@ "xdr_timelag" :> v ELSE [dc \in Dcs(n) |-> P]
       [] r = "dc config" -> IF b < 50 THEN [dc \in Dcs(n) |-> "c" :> v] ELSE Nothing
       [] r = "dc" -> IF b < 50 THEN [dc \in Dcs(n) |-> P] ELSE Nothing
       [] r \in {"roster", "racks"} -> TEST(v)
       [] r = "statistics" -> P @@ "cluster_principal" :> <<1>> @@ "uptime" :> <<tag>>
             @@ "client_connections" :> <<7 + Index(n)>> @@ "cluster_size" :> <<3 - Index(n)>>
             @@ "cluster_key" :> <<tag>> @@ "cluster_integrity" :> <<first>>
       [] r = "sets" -> [k \in SetKeys(n) |-> P]
       [] r = "namespaces" -> IF n = "n1" THEN <<"test", "bar">> ELSE <<"test">>
       [] r = "sindex" -> [k \in IKEY |-> "set" :> <<"s">> @@ "state" :> <<IF first THEN "RW" ELSE "WO">>]
       [] r = "sindex statistics" -> [k \in IKEY |-> P]
       [] r = "build" -> <<b>>
       [] r = "node" -> <<Index(n)>>
       [] r \in {"version", "service-list", "peers", "health-outliers", "best-practices"} -> v
       [] r = "udf-list" -> "f.lua" :> ("hash" :> v) @@ IF first THEN Nothing ELSE "g.lua" :> ("hash" :> v)
       [] r \in {"scan", "query", "sindex-builder"} -> IF r = "scan" \/ n = "n1" THEN "t1" :> v ELSE Nothing
       [] r \in {"ttl", "objsz", "objsz bytes"} -> [ns \in Keys(n) |-> v \o <<fmt>>]
       [] r = "latencies" -> ("write" :> ("total" :> v @@ "namespace" :> TEST(v)))
             @@ (IF n = "n1" THEN "udf" :> ("total" :> v) ELSE Nothing)
       [] r \in {"users", "roles"} -> "admin" :> v
       [] r = "partition-info" -> <<>>
       [] r = "system" -> "free-m" :> v @@ "uname" :> <<n>> @@ "lsb" :> v @@ "iostat" :> <<<<"sda", v>>>>
Reqs == {"security", "service", "network", "namespace config", "namespace", "bins", "rack-ids",
  "xdr config", "xdr", "dc config", "dc", "roster", "racks", "statistics", "sets", "namespaces",
  "sindex", "sindex statistics", "build", "node", "version", "service-list", "peers",
  "health-outliers", "best-practices", "udf-list", "scan", "query", "sindex-builder", "ttl", "objsz",
  "objsz bytes", "latencies", "users", "roles", "system"}
Ans(lost, tag, builds) ==
  [r \in Reqs |-> [n \in IF r \in {"users", "roles"} THEN {"n1"} ELSE {"n1", "n2"} |->
     IF <<r, n>> \in lost \/ (r = "objsz bytes" /\ builds[n] < 42)
     THEN [ok |-> FALSE, val |-> Nothing]
     ELSE [ok |-> TRUE, val |-> Truth(r, n, tag, builds)]]]
New2 == "n1" :> 60 @@ "n2" :> 60
Mixed == "n1" :> 41 @@ "n2" :> 60
Old_ == "n1" :> 41 @@ "n2" :> 49
Json(a, ts) == ts :> ("c" :> _get_collectinfo_data_json(a))
File(a, ts) == IF Raises(a) THEN <<>>
  ELSE <<[is |-> "file", name |-> "ascinfo.json", text |-> "json", json |-> Json(a, ts)]>>
Of(lost, builds) ==
  Given(Ans(lost, 1, builds), LAMBDA a :
    [place |-> [is |-> "dir", files |-> File(a, 2)], captures |-> 2 :> a])
Losts ==
  {{}} \cup {{<<r, n>>} : r \in Reqs \ {"users", "roles"}, n \in {"n1", "n2"}}
    \cup {{<<"users", "n1">>}, {<<"roles", "n1">>}, {<<"namespaces", "n1">>, <<"sets", "n2">>}}

(* Snapshots at other places than one file in a directory. *)
Json_(name, text, json) == [is |-> "file", name |-> name, text |-> text, json |-> json]
Dump2 == File(Ans({}, 1, New2), 2)
Archive(inside) == [is |-> "archive", files |-> inside]
Conf_ == <<Json_(".conf", "json", "service" :> ("p" :> <<7>>))>>
License_ == <<Json_("aslicenseusage.json", "json", "usage" :> <<8>>)>>
Old2 == File(Ans({<<"sets", "n1">>}, 2, Mixed), 1)
Parts_ == [a |-> Ans({}, 1, New2) @@ "partition-info" :> [n \in {"n1", "n2"} |-> [ok |-> TRUE, val |->
             <<[ns |-> "test", working_master |-> 1, replica |-> 0, origin |-> 0,
                target |-> 0, state |-> "S"]>>]]]
Badly == [Ans({}, 1, New2) EXCEPT
  !["namespaces"]["n1"].val = <<"err or">> \o @, !["namespace"]["n1"].val = @ @@ "err or" :> ("p" :> <<0>>),
  !["namespace config"]["n1"].val = @ @@ "err or" :> ("p" :> <<0>>)]
Captures2 == 2 :> Ans({}, 1, New2)
Captures12 == Captures2 @@ 1 :> Ans({<<"sets", "n1">>}, 2, Mixed)
Special ==
  "two" :> [place |-> [is |-> "dir", files |-> Dump2 \o Old2], captures |-> Captures12]
    @@ "older last" :> [place |-> [is |-> "dir", files |-> Old2 \o Dump2 \o Conf_], captures |-> Captures12]
    @@ "archive" :> [place |-> Archive(Old2 \o Dump2 \o License_), captures |-> Captures12]
    @@ "nested" :> [place |-> [is |-> "dir", files |-> Conf_ \o <<Archive(Old2 \o <<Archive(Dump2)>>)>>],
                    captures |-> Captures12]
    @@ "file" :> [place |-> Dump2[1], captures |-> Captures2]
    @@ "pmap" :> [place |-> [is |-> "dir", files |-> File(Parts_.a, 2)], captures |-> 2 :> Parts_.a]
    @@ "faulty" :> [place |-> [is |-> "dir", files |-> File(Badly, 2)], captures |-> 2 :> Badly]
    @@ "invalid" :> [place |-> [is |-> "dir", files |-> <<Json_("ascinfo.json", "json", Nothing)>> \o Dump2],
                     captures |-> Nothing]
    @@ "unreadable" :> [place |-> [is |-> "dir", files |-> Dump2 \o <<Json_("ascinfo.json", "unreadable", Nothing)>>],
                        captures |-> Captures2]
    @@ "garbled" :> [place |-> [is |-> "dir", files |-> Dump2 \o <<Json_("ascinfo.json", "garbled", Nothing)>>],
                     captures |-> Nothing]
    @@ "conf" :> [place |-> [is |-> "dir", files |-> Conf_ \o License_], captures |-> Nothing]
    @@ "old" :> Of({}, Old_) @@ "old, half" :> Of({<<"xdr config", "n2">>}, Old_)
    @@ "old, unknown" :> Of({<<"xdr config", "n1">>, <<"xdr config", "n2">>, <<"build", "n1">>}, Old_)
    @@ "missing" :> [place |-> [is |-> "missing"], captures |-> Nothing]
    @@ "none" :> [place |-> [is |-> "none"], captures |-> Nothing]
MCCollected ==
  Given(Special, LAMBDA special :
    [x \in (Losts \X {"new", "mixed"}) \cup {<<{}, s>> : s \in DOMAIN special} |->
     IF x[2] \in DOMAIN special THEN special[x[2]]
     ELSE Of(x[1], CASE x[2] = "new" -> New2 [] x[2] = "mixed" -> Mixed)])
Ops ==
  {"show config", "show config xdr", "show config dc", "show statistics", "show statistics xdr",
   "show statistics dc", "show statistics sindex", "show distribution", "show distribution eviction",
   "show distribution object_size -b", "show latencies", "show pmap", "show roster", "show best-practices",
   "show jobs", "show users", "show roles", "show udfs", "show sindex", "show racks", "info", "info set",
   "info dc", "info sindex", "features", "summary", "list", "health"}
MCQuestions ==
  {[op |-> o, words |-> <<>>] : o \in Ops}
    \cup {[op |-> "show statistics", words |-> <<"test">>], [op |-> "show statistics", words |-> <<"test", "t">>],
          [op |-> "show statistics xdr", words |-> <<"DC2">>], [op |-> "show config xdr", words |-> <<"DC1", "bar">>],
          [op |-> "show latencies", words |-> <<"bar">>]}
=============================================================================
