------------------------------- MODULE Cluster -------------------------------
(***************************************************************************)
(* How asadm finds and keeps the nodes of a cluster                        *)
(* (lib/live_cluster/client/cluster.py): commands refresh the cluster      *)
(* first, one crawl at a time; a crawl reconnects the nodes it has, learns *)
(* their service addresses and peers, and registers the peers and the      *)
(* peers' peers, many at the same time.                                    *)
(*                                                                         *)
(* A node is known by its key, the endpoint it is used at.  One connect of *)
(* a node is one step here (NodePool has its steps); other registrations,  *)
(* commands and changes of the servers come between the look-up of an      *)
(* endpoint and the step that connects to it.                              *)
(***************************************************************************)
EXTENDS Naturals, Sequences, FiniteSets, SequencesExt

CONSTANTS Server,      \* servers of the cluster
          Endpoint,    \* addresses, with their ports
          Addrs,       \* each server's service addresses, in order
          Owner,       \* the server behind each endpoint
          Seeds,       \* self._seed_nodes
          Command,     \* commands that can run at the same time
          MaxChanges,  \* bound on the changes of the servers
          NoNode, NoKey

Node == [addrs: SUBSET Endpoint, peers: SUBSET Server, alive: BOOLEAN]

ASSUME ConstantsAssumption ==
  /\ Addrs \in [Server -> Seq(Endpoint)]
  /\ Owner \in [Endpoint -> Server]
  /\ \A s \in Server : \A i \in DOMAIN Addrs[s] : Owner[Addrs[s][i]] = s
  /\ Seeds \subseteq Endpoint
  /\ Server \cap Endpoint = {}
  /\ MaxChanges \in Nat
  /\ NoKey \notin Endpoint
  /\ NoNode \notin Node

VARIABLES
  onlySeed,   \* self.only_connect_seed
  running,    \* servers that run
  broken,     \* endpoints that cannot be reached although their server runs
  refusing,   \* servers that refuse the log-in
  changes,    \* changes of these so far
  nodes,      \* self.nodes
  aliases,    \* self.aliases
  node_lookup, \* self.node_lookup, of ids: the endpoint of the Node they lead to
  due,        \* need_to_refresh_cluster()
  stage,      \* what the crawl does
  toRefresh,  \* keys of the nodes that are still to be refreshed
  found,      \* the aliases this crawl collects while it refreshes
  peersSeen,  \* the peers it collects
  unstarted,  \* registrations of this wave that have not begun
  at,         \* the address a registration connects to: its position, or 0
  services,   \* all_services
  visited,    \* the endpoints in visited
  pc,         \* what a command does
  queue,      \* Cluster.crawl_lock: who has it or is next, then the waiters
  settled     \* nothing changed since the last crawl began, which began from
              \* nodes or without aliases and did not fail

outerVars  == <<onlySeed, running, broken, refusing, changes>>
crawlVars  == <<stage, toRefresh, found, peersSeen>>
waveVars   == <<unstarted, at, services, visited>>
vars == <<outerVars, node_lookup, nodes, aliases, due, crawlVars, waveVars, pc, queue, settled>>

(* What is registered: a peer, which is the tuple of a server's addresses, *)
(* or a single endpoint.                                                   *)
Task == Server \cup Endpoint

Path(t) == IF t \in Server THEN Addrs[t] ELSE <<t>>

Aliases == [Endpoint -> Endpoint \cup {NoKey}]

TypeOK ==
  /\ onlySeed \in BOOLEAN
  /\ running \subseteq Server /\ refusing \subseteq Server
  /\ broken \subseteq Endpoint
  /\ changes \in 0 .. MaxChanges
  /\ nodes \in [Endpoint -> Node \cup {NoNode}]
  /\ aliases \in Aliases /\ found \in Aliases
  /\ node_lookup \in [Server -> Endpoint \cup {NoKey}]
  /\ due \in BOOLEAN /\ settled \in BOOLEAN
  /\ stage \in {"idle", "refresh", "register"}
  /\ toRefresh \subseteq {k \in Endpoint : nodes[k] # NoNode}
  /\ peersSeen \subseteq Server
  /\ unstarted \subseteq Task
  /\ at \in [Task -> Nat]
  /\ \A t \in Task : at[t] <= Len(Path(t))
  /\ services \subseteq Endpoint /\ visited \subseteq Endpoint
  /\ pc \in [Command -> {"idle", "waiting", "crawling", "using"}]
  /\ queue \in Seq(Command)

NoAliases == [e \in Endpoint |-> NoKey]

Init ==
  /\ onlySeed \in BOOLEAN
  /\ running = Server /\ broken = {} /\ refusing = {} /\ changes = 0
  /\ nodes = [k \in Endpoint |-> NoNode]
  /\ aliases = NoAliases
  /\ node_lookup = [s \in Server |-> NoKey]
  /\ due = TRUE
  /\ stage = "idle" /\ toRefresh = {} /\ found = NoAliases /\ peersSeen = {}
  /\ unstarted = {} /\ at = [t \in Task |-> 0] /\ services = {} /\ visited = {}
  /\ pc = [c \in Command |-> "idle"]
  /\ queue = << >>
  /\ settled = FALSE

-----------------------------------------------------------------------------
(* Helpers                                                                 *)

Keys == {k \in Endpoint : nodes[k] # NoNode}
Alive == {k \in Keys : nodes[k].alive}

Reachable(e) == Owner[e] \in running /\ e \notin broken
Refused(e) == Reachable(e) /\ Owner[e] \in refusing

(* "Node is offline... fake a node"                                        *)
FakeNode(e) == [addrs |-> {e}, peers |-> {}, alive |-> FALSE]

(* Node.connect at an endpoint that answers: its service addresses, with   *)
(* the endpoint itself, and the server's peers.                            *)
RealNode(e) == [addrs |-> Range(Addrs[Owner[e]]) \cup {e},
                peers |-> running \ {Owner[e]}, alive |-> TRUE]

Connect(e) == IF Reachable(e) THEN RealNode(e) ELSE FakeNode(e)

Answering(s) == {i \in DOMAIN Addrs[s] : Reachable(Addrs[s][i])}

(* The first of the service addresses that answers, the endpoint last.     *)
KeyOf(e) ==
  LET s == Owner[e]
  IN  IF Reachable(e) /\ Answering(s) # {} THEN Addrs[s][Min(Answering(s))] ELSE e

(* update_aliases(table, endpoints, key), with self.nodes being all.       *)
UpdateAliases(table, endpoints, key, all) ==
  [e \in Endpoint |->
     IF e \in endpoints /\ \/ table[e] = NoKey
                           \/ all[table[e]] # NoNode /\ ~all[table[e]].alive
     THEN key ELSE table[e]]

(* update_node: the id of a live node leads to it from then on, wherever it *)
(* led before.                                                             *)
UpdateNode(key, node) == [nodes EXCEPT ![key] = node]
UpdateLookup(key, node) ==
  IF node.alive THEN [node_lookup EXCEPT ![Owner[key]] = key] ELSE node_lookup

(* Mutant: the peers of a peer are not followed.                           *)
OffersItself(key, node) == IF onlySeed \/ ~node.alive THEN {} ELSE {key}

(* What a live node adds to all_services: the addresses of its peers, one  *)
(* by one, and its own.                                                    *)
Offers(key, node) ==
  IF onlySeed \/ ~node.alive THEN {}
  ELSE {key} \cup UNION {Range(Addrs[s]) : s \in node.peers}

Known(e) == aliases[e] # NoKey /\ nodes[aliases[e]] # NoNode

-----------------------------------------------------------------------------
(* Commands: call_node_method_async and _refresh_cluster                   *)

(* get_nodes: an empty cluster raises IOError.                             *)
Uses(c, all) ==
  pc' = [pc EXCEPT ![c] =
           IF \A k \in Endpoint : all[k] = NoNode THEN "idle" ELSE "using"]

Call(c) ==
  /\ pc[c] = "idle"
  /\ IF due
     THEN queue' = Append(queue, c) /\ pc' = [pc EXCEPT ![c] = "waiting"]
     ELSE Uses(c, nodes) /\ UNCHANGED queue
  /\ UNCHANGED <<outerVars, node_lookup, nodes, aliases, due, crawlVars, waveVars, settled>>

Returns(c) ==
  /\ pc[c] = "using"
  /\ pc' = [pc EXCEPT ![c] = "idle"]
  /\ UNCHANGED <<outerVars, node_lookup, nodes, aliases, due, crawlVars, waveVars, queue, settled>>

HasLock(c) == queue # << >> /\ c = Head(queue)

(* Another command has refreshed the cluster while this one waited.        *)
RefreshedMeanwhile(c) ==
  /\ HasLock(c) /\ pc[c] = "waiting" /\ ~due
  /\ queue' = Tail(queue)
  /\ Uses(c, nodes)
  /\ UNCHANGED <<outerVars, node_lookup, nodes, aliases, due, crawlVars, waveVars, settled>>

(* Mutant: the time of the refresh is taken before the crawl.              *)
DueInCrawlReset == FALSE

(* last_cluster_refresh_time is set when the crawl has ended.              *)
DueInCrawl == due

(* Mutant: the aliases are gone through, not the nodes.                    *)
DueForRefreshAliases == {e \in Endpoint : aliases[e] # NoKey}

DueForRefresh == Keys

(* _crawl begins: find_new_nodes goes through the nodes there are, or      *)
(* yields the seeds.                                                       *)
BeginCrawl(c) ==
  /\ HasLock(c) /\ pc[c] = "waiting" /\ due
  /\ pc' = [pc EXCEPT ![c] = "crawling"]
  /\ due' = DueInCrawl
  /\ settled' = (Keys # {} \/ aliases = NoAliases)
  /\ found' = NoAliases
  /\ peersSeen' = {}
  /\ services' = {}
  /\ toRefresh' = DueForRefresh
  /\ IF Keys = {}
     THEN /\ stage' = "register"
          /\ unstarted' = Seeds
          /\ visited' = Seeds
     ELSE /\ stage' = "refresh"
          /\ unstarted' = {}
          /\ visited' = {}
  /\ UNCHANGED <<outerVars, node_lookup, nodes, aliases, at, queue>>

Crawling(c, s) == pc[c] = "crawling" /\ stage = s

(* The command that crawls has the lock until the crawl is over.           *)
EndCrawl(c, all) ==
  /\ stage' = "idle"
  /\ nodes' = all
  /\ due' = FALSE
  /\ queue' = Tail(queue)
  /\ Uses(c, all)

-----------------------------------------------------------------------------
(* find_new_nodes                                                          *)

(* Mutant: the old key is not popped.                                      *)
RekeyedNoPop(k, key, node) == [nodes EXCEPT ![k] = node, ![key] = node]

(* Mutant: it is popped last, also when the key is the same.               *)
RekeyedPopLast(k, key, node) == [nodes EXCEPT ![key] = node, ![k] = NoNode]

(* "change in service list": the node moves to its new key.                *)
Rekeyed(k, key, node) == [nodes EXCEPT ![k] = NoNode, ![key] = node]

(* refresh_connection of one node; it may come back with another key.      *)
Refresh(c, k) ==
  /\ Crawling(c, "refresh") /\ k \in toRefresh /\ ~Refused(k)
  /\ LET key  == KeyOf(k)
         node == Connect(k)
         all  == Rekeyed(k, key, node)
     IN  /\ nodes' = all
         /\ node_lookup' = IF key # k THEN UpdateLookup(key, node) ELSE node_lookup
         /\ found' = UpdateAliases(found, node.addrs, key, all)
         /\ peersSeen' = IF onlySeed THEN {} ELSE peersSeen \cup node.peers
  /\ toRefresh' = toRefresh \ {k}
  /\ UNCHANGED <<outerVars, aliases, due, stage, waveVars, pc, queue, settled>>

(* A refusal passes find_new_nodes and _refresh_cluster: the command fails *)
(* and the cluster is still due.                                           *)
RefreshRefused(c, k) ==
  /\ Crawling(c, "refresh") /\ k \in toRefresh /\ Refused(k)
  /\ stage' = "idle"
  /\ toRefresh' = {}
  /\ pc' = [pc EXCEPT ![c] = "idle"]
  /\ queue' = Tail(queue)
  /\ settled' = FALSE
  /\ UNCHANGED <<outerVars, node_lookup, nodes, aliases, due, found, peersSeen, waveVars>>

(* Without peers _crawl returns at once.                                   *)
NothingToAdd(c) ==
  /\ Crawling(c, "refresh") /\ toRefresh = {} /\ peersSeen = {}
  /\ aliases' = found
  /\ EndCrawl(c, nodes)
  /\ UNCHANGED <<outerVars, node_lookup, toRefresh, found, peersSeen, waveVars, settled>>

RegisterPeers(c) ==
  /\ Crawling(c, "refresh") /\ toRefresh = {} /\ peersSeen # {}
  /\ aliases' = found
  /\ stage' = "register"
  /\ unstarted' = peersSeen
  /\ UNCHANGED <<outerVars, node_lookup, nodes, due, toRefresh, found, peersSeen, at,
                 services, visited, pc, queue, settled>>

-----------------------------------------------------------------------------
(* _register_node and _create_node                                         *)

(* The registration t yields the node with that key.  A peer's addresses   *)
(* all become aliases of it.                                               *)
Registered(t, key, table, all) ==
  /\ nodes' = all
  /\ aliases' = UpdateAliases(table, IF t \in Server THEN Range(Addrs[t]) ELSE {},
                              key, all)
  /\ at' = [at EXCEPT ![t] = 0]
  /\ visited' = visited \cup {key}
  /\ services' = services \cup Offers(key, all[key])

(* The next address of t, number i: an alias of a node that is there is    *)
(* that node, "No need to check for offline/online"; otherwise connect.    *)
(* After the last address the registration yields no node.                 *)
Try(t, i) ==
  LET e == Path(t)[i]
  IN  IF i > Len(Path(t))
      THEN at' = [at EXCEPT ![t] = 0] /\ UNCHANGED <<nodes, aliases, visited, services>>
      ELSE IF Known(e)
      THEN Registered(t, aliases[e], aliases, nodes)
      ELSE /\ at' = [at EXCEPT ![t] = i]
           /\ UNCHANGED <<nodes, aliases, visited, services>>

(* asyncio.gather starts every registration before any of them resumes.    *)
Begin(t) ==
  /\ stage = "register" /\ t \in unstarted
  /\ unstarted' = unstarted \ {t}
  /\ Try(t, 1)
  /\ UNCHANGED <<outerVars, node_lookup, due, crawlVars, pc, queue, settled>>

Connecting(t) == stage = "register" /\ unstarted = {} /\ at[t] # 0

AtLast(t) == at[t] = Len(Path(t))

(* A new node, a fake one only at the last address.                        *)
NewNode(t) ==
  /\ Connecting(t)
  /\ LET e    == Path(t)[at[t]]
         key  == KeyOf(e)
         node == Connect(e)
         all  == UpdateNode(key, node)
     IN  /\ ~Refused(e) /\ (Reachable(e) \/ AtLast(t))
         /\ Registered(t, key, UpdateAliases(aliases, node.addrs, key, all), all)
         /\ node_lookup' = UpdateLookup(key, node)
  /\ UNCHANGED <<outerVars, due, crawlVars, unstarted, pc, queue, settled>>

(* No node at this address: a refusal, or it does not answer.              *)
NextAddress(t) ==
  /\ Connecting(t)
  /\ LET e == Path(t)[at[t]] IN Refused(e) \/ (~Reachable(e) /\ ~AtLast(t))
  /\ Try(t, at[t] + 1)
  /\ UNCHANGED <<outerVars, node_lookup, due, crawlVars, unstarted, pc, queue, settled>>

-----------------------------------------------------------------------------
(* The waves of _crawl                                                     *)

WaveOver(c) ==
  /\ Crawling(c, "register")
  /\ unstarted = {} /\ \A t \in Task : at[t] = 0

(* Mutant: what was visited is visited again.                              *)
UnvisitedAgain == services

Unvisited == services \ visited

NextWave(c) ==
  /\ WaveOver(c) /\ Unvisited # {}
  /\ unstarted' = Unvisited
  /\ visited' = visited \cup services
  /\ UNCHANGED <<outerVars, node_lookup, nodes, aliases, due, crawlVars, at, services, pc,
                 queue, settled>>

(* clear_node_list: "remove old entries from self.nodes".                  *)
Kept == Keys \cap Range(aliases)

Finish(c) ==
  /\ WaveOver(c) /\ Unvisited = {}
  /\ EndCrawl(c, [k \in Endpoint |-> IF k \in Kept THEN nodes[k] ELSE NoNode])
  /\ UNCHANGED aliases
  /\ UNCHANGED <<outerVars, node_lookup, toRefresh, found, peersSeen, waveVars, settled>>

-----------------------------------------------------------------------------
(* The servers, the network and the clock                                  *)

Changes ==
  /\ changes < MaxChanges
  /\ changes' = changes + 1
  /\ settled' = FALSE
  /\ UNCHANGED <<onlySeed, node_lookup, nodes, aliases, due, crawlVars, waveVars, pc, queue>>

StopsOrStarts(s) ==
  /\ Changes
  /\ running' = IF s \in running THEN running \ {s} ELSE running \cup {s}
  /\ UNCHANGED <<broken, refusing>>

AddressFailsOrRecovers(e) ==
  /\ Changes
  /\ broken' = IF e \in broken THEN broken \ {e} ELSE broken \cup {e}
  /\ UNCHANGED <<running, refusing>>

RefusesOrAccepts(s) ==
  /\ Changes
  /\ refusing' = IF s \in refusing THEN refusing \ {s} ELSE refusing \cup {s}
  /\ UNCHANGED <<running, broken>>

(* CLUSTER_REFRESH_INTERVAL passes.                                        *)
Tick ==
  /\ ~due
  /\ due' = TRUE
  /\ UNCHANGED <<outerVars, node_lookup, nodes, aliases, crawlVars, waveVars, pc, queue, settled>>

(* A request of a command fails, and with it async_return_exceptions       *)
(* clears the node's alive.                                                *)
RequestFails(c, k) ==
  /\ pc[c] = "using" /\ k \in Alive
  /\ nodes' = [nodes EXCEPT ![k].alive = FALSE]
  /\ settled' = FALSE
  /\ UNCHANGED <<outerVars, node_lookup, aliases, due, crawlVars, waveVars, pc, queue>>

-----------------------------------------------------------------------------
CommandStep(c) ==
  \/ RefreshedMeanwhile(c) \/ BeginCrawl(c)
  \/ NothingToAdd(c) \/ RegisterPeers(c) \/ NextWave(c) \/ Finish(c)
  \/ \E k \in Endpoint : Refresh(c, k) \/ RefreshRefused(c, k)

TaskStep(t) == Begin(t) \/ NewNode(t) \/ NextAddress(t)

Environment ==
  \/ \E s \in Server : StopsOrStarts(s) \/ RefusesOrAccepts(s)
  \/ \E e \in Endpoint : AddressFailsOrRecovers(e)
  \/ \E c \in Command, k \in Endpoint : RequestFails(c, k)
  \/ Tick

Next ==
  \/ \E c \in Command : Call(c) \/ Returns(c) \/ CommandStep(c)
  \/ \E t \in Task : TaskStep(t)
  \/ Environment

Spec == Init /\ [][Next]_vars

(* The event loop resumes what can go on, and a connect ends.              *)
FairSpec ==
  Spec /\ (\A c \in Command : WF_vars(CommandStep(c)))
       /\ (\A t \in Task : WF_vars(TaskStep(t)))

-----------------------------------------------------------------------------
(* Properties                                                              *)

(* update_aliases: "Avoid creation of two nodes".  After a crawl during    *)
(* which nothing changed no two live nodes are the same server under       *)
(* different addresses, if the server answers at a service address.  (One  *)
(* that answers only at addresses it does not publish has a node for each.) *)
OneNodePerServer ==
  stage = "idle" /\ settled =>
    \A j, k \in Alive :
      Owner[j] = Owner[k] /\ Answering(Owner[k]) # {} => j = k

Up(s) == s \in running \ refusing /\ \A e \in Endpoint : Owner[e] = s => Reachable(e)

(* After a crawl during which nothing changed every peer of a live node    *)
(* that answers at all its addresses, and publishes one, has a live node.  *)
EveryServerFound ==
  stage = "idle" /\ settled /\ ~onlySeed =>
    \A k \in Alive : \A s \in nodes[k].peers :
      Up(s) /\ Addrs[s] # << >> => \E j \in Alive : Owner[j] = s

(* Node.connect: "might be it's IP is not available, node should try all   *)
(* old service addresses".  EveryServerFound of a peer that answers at one *)
(* of its service addresses.                                               *)
EveryAnsweringServerFound ==
  stage = "idle" /\ settled /\ ~onlySeed =>
    \A k \in Alive : \A s \in nodes[k].peers \ refusing :
      (\E e \in Range(Addrs[s]) : Reachable(e)) => \E j \in Alive : Owner[j] = s

(* "If node 100% matches a known nodes (object) ip, id, or fqdn then        *)
(* return it": every live node is found by its id.                         *)
NodesFoundByIds ==
  stage = "idle" /\ settled => \A k \in Alive : node_lookup[Owner[k]] = k

(* A command that gets its nodes gets them from a finished crawl, not from *)
(* a table that a crawl is rebuilding.                                     *)
CommandsSeeWholeSets ==
  [][\A c \in Command : pc[c] # "using" /\ pc'[c] = "using" => stage' = "idle"]_vars

(* No step of a crawl loses a live node whose server answers: the step     *)
(* leaves a live node for that server.  Of two nodes that stand for it, the *)
(* crawl may keep the one that a failed request has marked.  Nor does the  *)
(* end of a crawl during which nothing changed.  (An address that comes    *)
(* back in the middle of a refresh can leave all aliases of a server with  *)
(* a key that is popped, and clear_node_list then drops the node.)         *)
NoLiveNodeLost ==
  [][/\ \/ \E c \in Command : CommandStep(c)
        \/ \E t \in Task : TaskStep(t)
     /\ settled \/ stage' # "idle"
     => \A k \in Alive :
          LET same == {j \in Endpoint : Owner[j] = Owner[k]} IN
          Up(Owner[k]) /\ (\A j \in same : nodes[j] = NoNode \/ nodes[j].alive) =>
            \E j \in same : nodes'[j] # NoNode /\ nodes'[j].alive]_vars

(* Every command that waits for a refresh goes on or fails.                *)
EveryCommandGoesOn ==
  \A c \in Command : pc[c] \in {"waiting", "crawling"} ~> pc[c] \in {"idle", "using"}
=============================================================================
