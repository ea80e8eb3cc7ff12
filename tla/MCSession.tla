------------------------------- MODULE MCSession -------------------------------
EXTENDS Session

(* Two nodes, an old one and a new one, which is the principal. *)
Nodes2 == {"A", "B"}
Builds == [A |-> 4090000, B |-> 6010000]
New == {"B"}
(* Their addresses, of which one begins like the other, and their names. *)
Addresses == [A |-> "10.1", B |-> "10.12"]
Hosts == [A |-> "h1", B |-> "h2"]
Lookup == [A |-> "A", B |-> "B"] @@ ("10.1:3000" :> "A") @@ ("h1:3000" :> "A")
            @@ ("10.12:3000" :> "B") @@ ("h2:3000" :> "B")
Beginning == [key \in DOMAIN Lookup |-> {key}] @@ ("10.1" :> {"10.1:3000", "10.12:3000"})
               @@ ("10.12" :> {"10.12:3000"}) @@ ("h" :> {"h1:3000", "h2:3000"})
               @@ ("h1" :> {"h1:3000"}) @@ ("h2" :> {"h2:3000"})
Stars == ("10.1*" :> "10.1") @@ ("h*" :> "h")
Spaces == <<"test">>
Indexes == <<"i">>
Dcs == <<"D">>
Files == {"f.lua"}
Epochs == {"1"}
Wholes == {"1", "2", "5"}
Ctx == {"x"}
OfEach(obj, val) == [place \in {<<n>> \o obj : n \in Nodes2} |-> val]
H0 == (<<"roster", "test">> :> <<"N1">>) @@ (<<"observed", "test">> :> <<"N1", "N2">>)
        @@ (<<"udf">> :> <<"u">>) @@ (<<"sindex">> :> <<"i">>) @@ (<<"user">> :> <<"bob">>)
        @@ (<<"user roles", "bob">> :> <<"read">>) @@ (<<"role">> :> <<"r">>)
        @@ OfEach(<<"cluster-stable">>, <<"k">>) @@ OfEach(<<"namespaces">>, <<"test">>)
        @@ OfEach(<<"namespace", "test">>, <<"stats">>) @@ OfEach(<<"sets">>, <<"s">>)
        @@ OfEach(<<"dc">>, <<"D">>) @@ OfEach(<<"query">>, <<"7">>)
        @@ (<<"A", "scan">> :> <<"8">>)
Wants == {[place |-> <<"roster", "test">>, val |-> <<"N1", "N9">>],
          [place |-> <<"B", "cluster-stable">>, val |-> <<"unstable-cluster">>],
          [place |-> <<"A", "cluster-stable">>, val |-> <<"error">>]}

(* Every command of the controllers, with the forms that take another path. *)
RosterCommands == {
  <<"add", "nodes", "N2", "ns", "test">>, <<"add", "nodes", "N3", "ns", "test", "--no-warn">>,
  <<"add", "ns", "test">>, <<"remove", "nodes", "N1", "ns", "test">>,
  <<"stage", "nodes", "N2", "ns", "test">>, <<"stage", "observed", "ns", "test">>, <<"stage">>}
AclCommands == {
  <<"create", "user", "ann", "password", "p", "roles", "read">>, <<"delete", "user", "bob">>,
  <<"set-password", "user", "bob", "password", "p">>,
  <<"change-password", "user", "bob", "old", "o", "new", "n">>,
  <<"grant", "user", "bob", "roles", "write">>, <<"revoke", "user", "bob", "roles", "read">>,
  <<"create", "role", "q", "priv", "read", "ns", "test">>, <<"delete", "role", "r">>,
  <<"create", "role", "q", "priv", "write", "read", "5">>,
  <<"create", "role", "q", "priv", "write", "read", "x">>,
  <<"create", "role", "q", "priv", "write", "set", "s">>,
  <<"grant", "role", "r", "priv", "write", "ns", "test", "set", "s">>,
  <<"grant", "role", "r", "priv", "write", "set", "s">>,
  <<"revoke", "role", "r", "priv", "read">>, <<"allowlist", "role", "r", "allow", "ip">>,
  <<"allowlist", "role", "r", "clear">>, <<"allowlist", "role", "r">>,
  <<"quotas", "role", "r", "read", "1", "write", "2">>, <<"quotas", "role", "r">>,
  <<"quotas", "role", "r", "write", "x">>}
ConfigCommands == {
  <<"logging", "file", "l", "param", "p", "to", "v">>,
  <<"service", "param", "cluster-name", "to", "v", "with", "A">>,
  <<"network", "heartbeat", "param", "p", "to", "v">>, <<"network", "param", "p", "to", "v">>,
  <<"security", "param", "p", "to", "v">>, <<"namespace", "test", "param", "p", "to", "v">>,
  <<"namespace", "test", "set", "s", "param", "p", "to", "v">>,
  <<"xdr", "create", "dc", "D2">>, <<"xdr", "create", "dc", "D">>,
  <<"xdr", "delete", "dc", "D">>, <<"xdr", "dc", "D", "add", "node", "n:1">>,
  <<"xdr", "dc", "D", "add", "namespace", "test", "rewind", "all">>,
  <<"xdr", "dc", "D", "remove", "node", "n:1">>,
  <<"xdr", "dc", "D", "remove", "namespace", "test">>,
  <<"xdr", "dc", "D", "namespace", "test", "param", "p", "to", "v">>,
  <<"xdr", "dc", "D", "param", "p", "to", "v">>, <<"xdr", "param", "p", "to", "v">>}
OtherCommands == {
  <<"udfs", "add", "f", "path", "f.lua">>, <<"udfs", "add", "u", "path", "f.lua">>,
  <<"udfs", "add", "f", "path", "none">>, <<"udfs", "remove", "u">>, <<"udfs", "remove", "f">>,
  <<"sindex", "create", "numeric", "j", "ns", "test", "bin", "b">>,
  <<"sindex", "create", "numeric", "j", "ns", "test", "bin", "b", "ctx", "x">>,
  <<"sindex", "delete", "i", "ns", "test">>, <<"recluster">>, <<"quiesce", "with", "10.1">>,
  <<"quiesce", "undo", "with", "all">>, <<"quiesce">>, <<"revive", "ns", "test">>,
  <<"truncate", "ns", "test">>, <<"truncate", "ns", "test", "set", "s", "before", "1", "unix-epoch">>,
  <<"truncate", "ns", "test", "undo">>, <<"truncate", "ns", "test", "set", "s", "undo">>,
  <<"truncate", "ns", "test", "before", "x", "unix-epoch">>, <<"truncate", "ns", "test", "--no-warn">>,
  <<"jobs", "kill", "trids", "7", "8">>, <<"jobs", "kill", "trids", "9">>,
  <<"jobs", "kill", "all", "queries">>, <<"jobs", "kill", "all", "scans", "with", "A">>, <<"jobs">>}
Under(word, commands) == {<<word>> \o c : c \in commands}
Managing(commands) == Under("manage", commands)
Unusual == Managing(Under("roster", RosterCommands) \union OtherCommands)
Usual == Managing(Under("acl", AclCommands) \union Under("config", ConfigCommands))

ShowCommands == {
  <<"distribution">>, <<"distribution", "object_size", "-b">>, <<"mapping">>, <<"pmap">>,
  <<"best-practices">>, <<"jobs">>, <<"jobs", "scans">>, <<"jobs", "sindex-builder", "with", "B">>,
  <<"racks">>, <<"roster">>, <<"roles">>, <<"users", "bob">>, <<"udfs">>, <<"sindex">>,
  <<"config">>, <<"config", "namespace", "with", "A">>, <<"config", "xdr">>, <<"config", "dc">>,
  <<"latencies", "-v">>, <<"latencies", "for", "test">>, <<"latencies", "with", "A">>,
  <<"best-practices", "with", "B">>, <<"pmap", "with", "A">>, <<"statistics">>,
  <<"statistics", "sindex">>, <<"statistics", "xdr", "with", "B">>, <<"statistics", "dc">>}
InfoCommands == {
  <<>>, <<"with", "A">>, <<"network">>, <<"network", "with", "C">>, <<"network", "with", "10.1*">>, <<"network", "with", "10.12">>,
  <<"set", "with", "A">>, <<"dc">>, <<"xdr">>, <<"sindex">>,
  <<"namespace">>, <<"namespace", "object">>}
Reading == Under("show", ShowCommands) \union Under("info", InfoCommands)
             \union {<<"features", "with", "B">>, <<"summary">>, <<"health">>, <<"pager", "on">>}
Collecting == {
  <<"collectinfo">>, <<"collectinfo", "-n", "0">>,
  <<"collectinfo", "-n", "2", "--agent-host", "h", "--ignore-errors", "with", "A">>}

Once(mode, commands) == {<<mode, c>> : c \in commands}
Changing == Once(<<"enable", "--warn">>, Usual \union Unusual) \union Once(<<"enable">>, Unusual)
Several == {
  <<<<"enable">>, <<"manage", "recluster">>, <<"manage", "recluster">>>>,
  <<<<"health">>, <<"health">>>>, <<<<"manage", "recluster">>, <<"exit">>, <<"summary">>>>,
  <<<<"enable">>, <<"asinfo", "-v", "build">>, <<"disable">>, <<"asinfo", "-v", "build">>>>,
  <<<<"enable", "--warn">>, <<"manage", "quiesce", "with", "h1">>, <<"manage", "recluster">>>>,
  <<<<"enable">>, <<"manage", "quiesce", "with", "A">>, <<"manage", "quiesce", "undo", "with", "A">>,
    <<"manage", "quiesce", "with", "A">>>>,
  <<<<"enable">>, <<"manage", "config", "security", "param", "p", "to", "v", "with", "A">>,
    <<"manage", "config", "security", "param", "p", "to", "w", "with", "A">>>>,
  <<<<"info", "network", "with", "A">>, <<"show", "statistics", "service">>>>,
  <<<<"features", "like", "x">>, <<"show", "pmap">>, <<"info", "set", "with", "B">>>>}
(* Changes at several nodes. *)
AtSeveral == Once(<<"enable">>, Managing({
  <<"quiesce">>, <<"quiesce", "undo">>, <<"revive", "ns", "test">>,
  <<"config", "service", "param", "p", "to", "v">>, <<"config", "xdr", "create", "dc", "D2">>,
  <<"jobs", "kill", "trids", "7", "8">>, <<"jobs", "kill", "all", "queries">>}))
(* Each of them meets two refusals or losses at most, every other line one. *)
AllLines == Changing \union {<<c>> : c \in Reading \union Collecting} \union Several \union AtSeveral
OneOrTwo == [l \in AllLines |-> IF l \in AtSeveral THEN 2 ELSE 1]
(* A script. *)
TwoAdds == {<<<<"enable">>, <<"manage", "roster", "add", "nodes", "N2", "ns", "test">>,
              <<"manage", "roster", "add", "nodes", "N3", "ns", "test">>>>}
NoFaults == [l \in TwoAdds |-> 0]
===============================================================================
