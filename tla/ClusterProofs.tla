---------------------------- MODULE ClusterProofs ----------------------------
(***************************************************************************)
(* Proofs about Cluster, for any servers, addresses, seeds and commands.   *)
(*                                                                         *)
(* What a crawl promises it promises only if nothing changed under it, and *)
(* is then true only when it has ended, so the invariants say what is true *)
(* half way.  LockInv: one command crawls, the one that has the lock.      *)
(* OwnersInv: an alias is an address of the server it leads to.  QuietInv: *)
(* the nodes gone through are at the keys that a connect finds, aliases    *)
(* lead to such nodes, and a peer of a live node is yet to be registered,  *)
(* being registered, or has a live node.                                   *)
(***************************************************************************)
EXTENDS Cluster, BasicFacts

(* A registration tries endpoints.                                         *)
LEMMA PathType ==
  ASSUME NEW t \in Task
  PROVE  /\ Path(t) \in Seq(Endpoint)
         /\ Len(Path(t)) \in Nat
         /\ \A i \in 1 .. Len(Path(t)) : Path(t)[i] \in Endpoint
<1>1. Path(t) \in Seq(Endpoint)
  BY ConstantsAssumption DEF Task, Path
<1> QED
  BY <1>1, ElementOfSeq, LenProperties

(* The service addresses of a server are its own, and the first that       *)
(* answers is one of them.                                                 *)
LEMMA AddrsOfServer ==
  ASSUME NEW s \in Server
  PROVE  /\ Range(Addrs[s]) \subseteq Endpoint
         /\ \A e \in Range(Addrs[s]) : Owner[e] = s
         /\ DOMAIN Addrs[s] = 1 .. Len(Addrs[s])
         /\ Answering(s) # {} => /\ Addrs[s][Min(Answering(s))] \in Range(Addrs[s])
                                 /\ Reachable(Addrs[s][Min(Answering(s))])
<1>1. Addrs[s] \in Seq(Endpoint) /\ DOMAIN Addrs[s] = 1 .. Len(Addrs[s]) /\ Len(Addrs[s]) \in Nat
  BY ConstantsAssumption, LenProperties
<1>2. \A i \in DOMAIN Addrs[s] : Addrs[s][i] \in Endpoint
  BY <1>1, ElementOfSeq
<1>3. \A i \in DOMAIN Addrs[s] : Owner[Addrs[s][i]] = s
  BY ConstantsAssumption
<1>4. ASSUME Answering(s) # {}
      PROVE  Min(Answering(s)) \in Answering(s)
  <2>1. Answering(s) \subseteq Nat
    BY <1>1 DEF Answering
  <2> QED
    BY <2>1, <1>4, MinIsLeast
<1> QED
  BY <1>1, <1>2, <1>3, <1>4 DEF Answering, Range

(* A connect ends at an address of the same server; at the same address if *)
(* that does not answer, and at a service address or the same one          *)
(* otherwise.                                                              *)
LEMMA KeyOfEndpoint ==
  ASSUME NEW e \in Endpoint
  PROVE  /\ KeyOf(e) \in Endpoint
         /\ Owner[KeyOf(e)] = Owner[e]
         /\ Reachable(KeyOf(e)) <=> Reachable(e)
         /\ ~Reachable(e) => KeyOf(e) = e
         /\ KeyOf(e) = e \/ (Reachable(e) /\ KeyOf(e) \in Range(Addrs[Owner[e]]))
<1>1. Owner[e] \in Server
  BY ConstantsAssumption
<1> QED
  BY <1>1, AddrsOfServer DEF KeyOf, Reachable

(* Two addresses at which a server answers have the same key, if it        *)
(* answers at a service address: this is why a server has one node.        *)
LEMMA KeyOfServer ==
  ASSUME NEW e \in Endpoint, NEW f \in Endpoint, Owner[e] = Owner[f],
         Reachable(e), Reachable(f), Answering(Owner[e]) # {}
  PROVE  KeyOf(e) = KeyOf(f)
  BY DEF KeyOf

(* A node's key is its own: node.create looks for the first service        *)
(* address, and starting there finds it again.                             *)
LEMMA KeyOfKey ==
  ASSUME NEW e \in Endpoint
  PROVE  KeyOf(KeyOf(e)) = KeyOf(e)
<1>1. CASE Reachable(e) /\ Answering(Owner[e]) # {}
  BY <1>1, KeyOfEndpoint, KeyOfServer
<1>2. CASE ~(Reachable(e) /\ Answering(Owner[e]) # {})
  BY <1>2 DEF KeyOf
<1> QED
  BY <1>1, <1>2

(* The service addresses that a node has learned lead to its key.          *)
LEMMA KeyOfAddress ==
  ASSUME NEW e \in Endpoint, NEW f \in Connect(e).addrs, Reachable(e), Reachable(f)
  PROVE  KeyOf(f) = KeyOf(e)
<1>1. CASE f = e
  BY <1>1
<1>2. CASE f # e
  <2>1. f \in Range(Addrs[Owner[e]]) /\ Owner[e] \in Server
    BY <1>2, ConstantsAssumption DEF Connect, RealNode, FakeNode
  <2>2. f \in Endpoint /\ Owner[f] = Owner[e]
    BY <2>1, AddrsOfServer
  <2>3. Answering(Owner[e]) # {}
    BY <2>1 DEF Answering, Range
  <2> QED
    BY <2>2, <2>3, KeyOfServer
<1> QED
  BY <1>1, <1>2

(* Connecting gives a node, alive if the address answers, with its key     *)
(* among its service addresses, which are the server's own.                *)
LEMMA ConnectType ==
  ASSUME NEW e \in Endpoint, running \subseteq Server
  PROVE  /\ Connect(e) \in Node
         /\ Connect(e) # NoNode
         /\ Connect(e).alive <=> Reachable(e)
         /\ \A f \in Connect(e).addrs : f \in Endpoint /\ Owner[f] = Owner[e]
         /\ KeyOf(e) \in Connect(e).addrs
<1>1. Owner[e] \in Server
  BY ConstantsAssumption
<1>2. Connect(e) \in Node
  BY <1>1, AddrsOfServer DEF Connect, RealNode, FakeNode, Node
<1>3. \A f \in Connect(e).addrs : f \in Endpoint /\ Owner[f] = Owner[e]
  BY <1>1, AddrsOfServer DEF Connect, RealNode, FakeNode
<1>4. KeyOf(e) \in Connect(e).addrs
  BY <1>1, KeyOfEndpoint DEF Connect, RealNode, FakeNode
<1>5. Connect(e).alive <=> Reachable(e)
  BY DEF Connect, RealNode, FakeNode
<1> QED
  BY <1>2, <1>3, <1>4, <1>5, ConstantsAssumption

(* update_aliases changes entries of the endpoints only, to the key.       *)
LEMMA UpdateAliasesType ==
  ASSUME NEW table \in Aliases, NEW endpoints, NEW key \in Endpoint, NEW all
  PROVE  /\ UpdateAliases(table, endpoints, key, all) \in Aliases
         /\ \A e \in Endpoint :
              \/ UpdateAliases(table, endpoints, key, all)[e] = table[e]
              \/ e \in endpoints /\ UpdateAliases(table, endpoints, key, all)[e] = key
  BY DEF UpdateAliases, Aliases

(* The endpoints that a node offers are endpoints.                         *)
LEMMA OffersType ==
  ASSUME NEW key \in Endpoint, NEW node \in Node
  PROVE  Offers(key, node) \subseteq Endpoint
  BY AddrsOfServer DEF Offers, Node

-----------------------------------------------------------------------------
(* One crawl at a time.  The queue holds every waiting command once, and   *)
(* the command that crawls is at its head: Tail of it takes out that one.  *)

(* Commands wait in the queue.                                             *)
QueueTyped ==
  /\ pc \in [Command -> {"idle", "waiting", "crawling", "using"}]
  /\ queue \in Seq(Command)

(* A command that waits or crawls is in the queue, once; others are not.   *)
QueuedOnce ==
  /\ \A i, j \in 1 .. Len(queue) : queue[i] = queue[j] => i = j
  /\ \A i \in 1 .. Len(queue) : pc[queue[i]] \in {"waiting", "crawling"}
  /\ \A c \in Command :
       pc[c] \in {"waiting", "crawling"} => \E i \in 1 .. Len(queue) : queue[i] = c

(* The command that crawls is the first in the queue, and there is one     *)
(* unless the stage is idle.                                               *)
CrawlerHasLock ==
  /\ \A c \in Command : pc[c] = "crawling" => HasLock(c) /\ stage # "idle"
  /\ stage # "idle" => queue # << >> /\ pc[Head(queue)] = "crawling"

(* What the lock of the crawl does for its commands.                       *)
LockInv == QueueTyped /\ QueuedOnce /\ CrawlerHasLock

(* The head of a queue that is not empty is its first command.             *)
LEMMA HeadIsFirst ==
  ASSUME QueueTyped
  PROVE  /\ Len(queue) \in Nat
         /\ queue # << >> => Len(queue) > 0 /\ Head(queue) = queue[1]
  BY EmptySeq, LenProperties, HeadTailProperties DEF QueueTyped

(* A command joins the queue.                                              *)
LEMMA JoinKeepsLock ==
  ASSUME LockInv, NEW c \in Command, pc[c] = "idle",
         queue' = Append(queue, c), pc' = [pc EXCEPT ![c] = "waiting"], stage' = stage
  PROVE  LockInv'
<1>1. /\ QueueTyped' /\ Len(queue') = Len(queue) + 1 /\ Len(queue) \in Nat
      /\ \A i \in 1 .. Len(queue) : queue'[i] = queue[i] /\ queue[i] \in Command
      /\ queue'[Len(queue) + 1] = c /\ queue' # << >>
  BY AppendProperties, ElementOfSeq, HeadIsFirst DEF LockInv, QueueTyped
<1>2. \A i \in 1 .. Len(queue) : queue[i] # c
  BY DEF LockInv, QueuedOnce
<1>3. QueuedOnce'
  BY <1>1, <1>2 DEF LockInv, QueueTyped, QueuedOnce
<1>4. queue # << >> => Head(queue') = Head(queue) /\ Head(queue) \in Command /\ Head(queue) # c
  BY <1>1, <1>2, HeadIsFirst, HeadTailProperties DEF LockInv, QueueTyped
<1>5. CrawlerHasLock'
  BY <1>1, <1>4 DEF LockInv, QueueTyped, CrawlerHasLock, HasLock
<1> QED
  BY <1>1, <1>3, <1>5 DEF LockInv

(* The command at the head leaves the queue, and nobody crawls then.       *)
LEMMA LeaveKeepsLock ==
  ASSUME LockInv, NEW c \in Command, HasLock(c), NEW p \in {"idle", "using"},
         queue' = Tail(queue), pc' = [pc EXCEPT ![c] = p], stage' = "idle"
  PROVE  LockInv'
<1>1. /\ QueueTyped' /\ Len(queue') = Len(queue) - 1 /\ Len(queue) \in Nat
      /\ Len(queue) > 0 /\ queue[1] = c
      /\ \A i \in 1 .. Len(queue') : queue'[i] = queue[i + 1]
      /\ \A i \in 1 .. Len(queue) : queue[i] \in Command
  BY HeadTailProperties, ElementOfSeq, HeadIsFirst DEF LockInv, QueueTyped, HasLock
<1>2. \A i \in 1 .. Len(queue') : queue'[i] # c
  BY <1>1 DEF LockInv, QueuedOnce
<1>3. \A i, j \in 1 .. Len(queue') : queue'[i] = queue'[j] => i = j
  BY <1>1 DEF LockInv, QueuedOnce
<1>4. \A i \in 1 .. Len(queue') : pc'[queue'[i]] \in {"waiting", "crawling"}
  BY <1>1, <1>2 DEF LockInv, QueuedOnce, QueueTyped
<1>5. ASSUME NEW d \in Command, pc'[d] \in {"waiting", "crawling"}
      PROVE  \E i \in 1 .. Len(queue') : queue'[i] = d
  <2>1. d # c /\ pc[d] \in {"waiting", "crawling"}
    BY <1>5 DEF LockInv, QueueTyped
  <2>2. PICK i \in 1 .. Len(queue) : queue[i] = d
    BY <2>1 DEF LockInv, QueuedOnce
  <2>3. i - 1 \in 1 .. Len(queue') /\ queue'[i - 1] = d
    BY <1>1, <2>1, <2>2
  <2> QED
    BY <2>3
<1>6. \A d \in Command : pc'[d] # "crawling"
  <2>1. \A d \in Command : pc[d] = "crawling" => d = c
    BY DEF LockInv, CrawlerHasLock, HasLock
  <2> QED
    BY <2>1 DEF LockInv, QueueTyped
<1> QED
  BY <1>1, <1>3, <1>4, <1>5, <1>6 DEF LockInv, QueuedOnce, CrawlerHasLock

(* The command at the head begins a crawl.                                 *)
LEMMA TakeKeepsLock ==
  ASSUME LockInv, NEW c \in Command, HasLock(c), pc[c] = "waiting",
         queue' = queue, pc' = [pc EXCEPT ![c] = "crawling"], stage' # "idle"
  PROVE  LockInv'
  BY DEF LockInv, QueueTyped, QueuedOnce, CrawlerHasLock, HasLock

(* Every step keeps it.                                                    *)
LEMMA LockStep ==
  ASSUME LockInv, [Next]_vars
  PROVE  LockInv'
<1> USE DEF outerVars, crawlVars, waveVars
<1>1. ASSUME NEW c \in Command, Call(c)
      PROVE  LockInv'
  <2>1. CASE due
    BY <1>1, <2>1, JoinKeepsLock DEF Call
  <2>2. CASE ~due
    BY <1>1, <2>2 DEF Call, Uses, LockInv, QueueTyped, QueuedOnce, CrawlerHasLock, HasLock
  <2> QED
    BY <2>1, <2>2
<1>2. ASSUME NEW c \in Command, Returns(c)
      PROVE  LockInv'
  BY <1>2 DEF Returns, LockInv, QueueTyped, QueuedOnce, CrawlerHasLock, HasLock
<1>3. ASSUME NEW c \in Command, RefreshedMeanwhile(c)
      PROVE  LockInv'
  <2>1. stage = "idle"
    BY <1>3 DEF RefreshedMeanwhile, LockInv, CrawlerHasLock, HasLock
  <2> QED
    BY <1>3, <2>1, LeaveKeepsLock DEF RefreshedMeanwhile, Uses
<1>4. ASSUME NEW c \in Command, BeginCrawl(c)
      PROVE  LockInv'
  BY <1>4, TakeKeepsLock DEF BeginCrawl
<1>5. ASSUME NEW c \in Command, NothingToAdd(c) \/ Finish(c)
      PROVE  LockInv'
  <2>1. HasLock(c)
    BY <1>5 DEF NothingToAdd, Finish, WaveOver, Crawling, LockInv, CrawlerHasLock
  <2> QED
    BY <1>5, <2>1, LeaveKeepsLock DEF NothingToAdd, Finish, EndCrawl, Uses
<1>6. ASSUME NEW c \in Command, NEW k \in Endpoint, RefreshRefused(c, k)
      PROVE  LockInv'
  <2>1. HasLock(c)
    BY <1>6 DEF RefreshRefused, Crawling, LockInv, CrawlerHasLock
  <2> QED
    BY <1>6, <2>1, LeaveKeepsLock DEF RefreshRefused
<1>7. ASSUME UNCHANGED <<pc, queue>>, stage' = stage \/ (stage # "idle" /\ stage' # "idle")
      PROVE  LockInv'
  BY <1>7 DEF LockInv, QueueTyped, QueuedOnce, CrawlerHasLock, HasLock
<1>8. ASSUME NEW c \in Command, RegisterPeers(c) \/ NextWave(c)
      PROVE  LockInv'
  BY <1>7, <1>8 DEF RegisterPeers, NextWave, Crawling
<1>9. ASSUME NEW c \in Command, NEW k \in Endpoint, Refresh(c, k)
      PROVE  LockInv'
  BY <1>7, <1>9 DEF Refresh
<1>10. ASSUME NEW t \in Task, TaskStep(t)
       PROVE  LockInv'
  BY <1>7, <1>10 DEF TaskStep, Begin, NewNode, NextAddress
<1>11. CASE Environment
  BY <1>7, <1>11
  DEF Environment, StopsOrStarts, RefusesOrAccepts, AddressFailsOrRecovers, Changes,
      RequestFails, Tick
<1>12. CASE UNCHANGED vars
  BY <1>7, <1>12 DEF vars
<1> QED
  BY <1>1, <1>2, <1>3, <1>4, <1>5, <1>6, <1>8, <1>9, <1>10, <1>11, <1>12
  DEF Next, CommandStep

(* Of the commands that refresh the cluster one crawls at a time: a second *)
(* one begins when the first is done.                                      *)
OneCrawlAtATime ==
  \A c, d \in Command : pc[c] = "crawling" /\ pc[d] = "crawling" => c = d

(* The lock's invariant holds of every behaviour.                          *)
LEMMA LockCorrect == Spec => []LockInv
<1>1. Init => LockInv
  BY EmptySeq DEF Init, LockInv, QueueTyped, QueuedOnce, CrawlerHasLock
<1> QED
  BY <1>1, LockStep, PTL DEF Spec

(* Two commands never crawl at the same time: _refresh_cluster holds       *)
(* crawl_lock across its awaits, and only that lets it rebuild the tables  *)
(* there.                                                                  *)
THEOREM CrawlsExclude == Spec => []OneCrawlAtATime
<1>1. LockInv => OneCrawlAtATime
  BY DEF LockInv, CrawlerHasLock, HasLock, OneCrawlAtATime
<1> QED
  BY <1>1, LockCorrect, PTL

-----------------------------------------------------------------------------
(* Only the refresh of the old nodes has nodes left to refresh.            *)
RefreshedFirst == stage # "refresh" => toRefresh = {}

(* TypeOK and what it needs of a step that starts the registrations.       *)
Typed == TypeOK /\ RefreshedFirst

(* The types of what a registration writes.                                *)
WaveTyped ==
  /\ nodes \in [Endpoint -> Node \cup {NoNode}]
  /\ aliases \in Aliases
  /\ at \in [Task -> Nat]
  /\ \A t \in Task : at[t] <= Len(Path(t))
  /\ visited \subseteq Endpoint /\ services \subseteq Endpoint

(* The end of a registration keeps the types.                              *)
LEMMA RegisteredTyped ==
  ASSUME TypeOK, NEW t \in Task, NEW key \in Endpoint, NEW table \in Aliases,
         NEW all \in [Endpoint -> Node \cup {NoNode}], all[key] # NoNode,
         Registered(t, key, table, all)
  PROVE  WaveTyped'
<1> USE DEF Registered, WaveTyped
<1>1. (nodes \in [Endpoint -> Node \cup {NoNode}])'
  OBVIOUS
<1>2. (aliases \in Aliases)'
  BY UpdateAliasesType
<1>3. (at \in [Task -> Nat] /\ \A u \in Task : at[u] <= Len(Path(u)))'
  BY PathType DEF TypeOK, Path
<1>4. (visited \subseteq Endpoint /\ services \subseteq Endpoint)'
  BY OffersType DEF TypeOK
<1> QED
  BY <1>1, <1>2, <1>3, <1>4

(* So does a try of an address, which writes no node.                      *)
LEMMA TryTyped ==
  ASSUME TypeOK, NEW t \in Task, NEW i \in Nat \ {0}, Try(t, i)
  PROVE  WaveTyped' /\ UNCHANGED nodes
<1> USE DEF Try
<1>1. WaveTyped /\ Len(Path(t)) \in Nat
  BY PathType DEF TypeOK, WaveTyped
<1>2. CASE i > Len(Path(t))
  BY <1>1, <1>2, PathType DEF WaveTyped, Path
<1>3. CASE ~(i > Len(Path(t))) /\ Known(Path(t)[i])
  <2>1. Path(t)[i] \in Endpoint
    BY <1>1, <1>3, PathType
  <2>2. aliases[Path(t)[i]] \in Endpoint /\ nodes[aliases[Path(t)[i]]] # NoNode
    BY <2>1, <1>3 DEF Known, TypeOK, Aliases
  <2>3. Registered(t, aliases[Path(t)[i]], aliases, nodes)
    BY <1>3
  <2>4. WaveTyped'
    BY <2>2, <2>3, RegisteredTyped DEF TypeOK
  <2> QED
    BY <2>3, <2>4 DEF Registered
<1>4. CASE ~(i > Len(Path(t))) /\ ~Known(Path(t)[i])
  BY <1>1, <1>4 DEF WaveTyped, Path
<1> QED
  BY <1>2, <1>3, <1>4

(* A command that begins, waits, returns or begins a crawl keeps them.     *)
LEMMA CommandKeepsTyped ==
  ASSUME Typed, QueueTyped', NEW c \in Command,
         Call(c) \/ Returns(c) \/ RefreshedMeanwhile(c) \/ BeginCrawl(c)
  PROVE  Typed'
<1> USE DEF QueueTyped, Typed, TypeOK, RefreshedFirst, outerVars, crawlVars, waveVars
<1>1. CASE Call(c)
  BY <1>1 DEF Call, Uses
<1>2. CASE Returns(c)
  BY <1>2 DEF Returns
<1>3. CASE RefreshedMeanwhile(c)
  BY <1>3 DEF RefreshedMeanwhile, HasLock, Uses
<1>4. CASE BeginCrawl(c)
  BY <1>4, ConstantsAssumption
  DEF BeginCrawl, HasLock, DueInCrawl, DueForRefresh, Keys, NoAliases, Aliases, Task
<1> QED
  BY <1>1, <1>2, <1>3, <1>4

(* So does the refresh of a node.                                          *)
LEMMA RefreshKeepsTyped ==
  ASSUME Typed, QueueTyped', NEW c \in Command, NEW k \in Endpoint,
         Refresh(c, k) \/ RefreshRefused(c, k)
  PROVE  Typed'
<1> USE DEF QueueTyped, Typed, TypeOK, RefreshedFirst, outerVars, crawlVars, waveVars
<1>1. CASE Refresh(c, k)
  <2> DEFINE all == Rekeyed(k, KeyOf(k), Connect(k))
  <2>1. /\ KeyOf(k) \in Endpoint /\ Connect(k) \in Node /\ Connect(k) # NoNode
        /\ Owner[KeyOf(k)] \in Server
    BY KeyOfEndpoint, ConnectType, ConstantsAssumption
  <2>2. nodes' = all /\ (nodes \in [Endpoint -> Node \cup {NoNode}])'
    BY <1>1, <2>1 DEF Refresh, Rekeyed
  <2>3. (toRefresh \subseteq {j \in Endpoint : nodes[j] # NoNode})'
    BY <1>1, <2>1, <2>2 DEF Refresh, Rekeyed
  <2>4. (found \in Aliases)'
    BY <1>1, <2>1, UpdateAliasesType DEF Refresh
  <2>5. (peersSeen \subseteq Server)'
    BY <1>1, <2>1 DEF Refresh, Node
  <2>6. (node_lookup \in [Server -> Endpoint \cup {NoKey}])'
    BY <1>1, <2>1 DEF Refresh, UpdateLookup
  <2>7. UNCHANGED <<outerVars, aliases, due, stage, waveVars, pc, queue, settled>> /\ stage = "refresh"
    BY <1>1 DEF Refresh, Crawling
  <2> QED
    BY <2>2, <2>3, <2>4, <2>5, <2>6, <2>7
<1>2. CASE RefreshRefused(c, k)
  BY <1>2 DEF RefreshRefused, Crawling
<1> QED
  BY <1>1, <1>2

(* So do the crawl's own steps after it.                                   *)
LEMMA CrawlKeepsTyped ==
  ASSUME Typed, QueueTyped', NEW c \in Command,
         NothingToAdd(c) \/ RegisterPeers(c) \/ NextWave(c) \/ Finish(c)
  PROVE  Typed'
<1> USE DEF QueueTyped, Typed, TypeOK, RefreshedFirst, outerVars, crawlVars, waveVars, Crawling
<1>1. CASE NothingToAdd(c)
  BY <1>1 DEF NothingToAdd, EndCrawl, Uses
<1>2. CASE RegisterPeers(c)
  BY <1>2 DEF RegisterPeers, Task
<1>3. CASE NextWave(c)
  BY <1>3 DEF NextWave, WaveOver, Unvisited, Task
<1>4. CASE Finish(c)
  BY <1>4 DEF Finish, WaveOver, EndCrawl, Uses, Kept, Keys
<1> QED
  BY <1>1, <1>2, <1>3, <1>4

(* So do the steps of a registration.                                      *)
LEMMA TaskKeepsTyped ==
  ASSUME Typed, QueueTyped', NEW t \in Task, TaskStep(t)
  PROVE  Typed'
<1> USE DEF QueueTyped, Typed, TypeOK, RefreshedFirst, outerVars, crawlVars
<1>1. CASE Begin(t)
  <2>1. WaveTyped' /\ UNCHANGED nodes
    BY <1>1, TryTyped DEF Begin
  <2> QED
    BY <1>1, <2>1 DEF Begin, WaveTyped
<1>2. CASE NewNode(t)
  <2> DEFINE e    == Path(t)[at[t]]
             all  == UpdateNode(KeyOf(e), Connect(e))
             tab  == UpdateAliases(aliases, Connect(e).addrs, KeyOf(e), all)
  <2>1. e \in Endpoint
    BY <1>2, PathType DEF NewNode, Connecting
  <2>2. KeyOf(e) \in Endpoint /\ Connect(e) \in Node /\ Connect(e) # NoNode
    BY <2>1, KeyOfEndpoint, ConnectType
  <2>3. all \in [Endpoint -> Node \cup {NoNode}] /\ all[KeyOf(e)] # NoNode
    BY <2>2 DEF UpdateNode
  <2>4. \A k \in Endpoint : nodes[k] # NoNode => all[k] # NoNode
    BY <2>2 DEF UpdateNode
  <2>5. Registered(t, KeyOf(e), tab, all) /\ node_lookup' = UpdateLookup(KeyOf(e), Connect(e))
    BY <1>2 DEF NewNode
  <2>6. tab \in Aliases
    BY <2>2, UpdateAliasesType
  <2>7. WaveTyped' /\ nodes' = all
    BY <2>2, <2>3, <2>5, <2>6, RegisteredTyped DEF Registered
  <2>8. (node_lookup \in [Server -> Endpoint \cup {NoKey}])'
    BY <2>2, <2>5 DEF UpdateLookup
  <2> QED
    BY <1>2, <2>4, <2>7, <2>8 DEF NewNode, WaveTyped
<1>3. CASE NextAddress(t)
  <2>1. WaveTyped' /\ UNCHANGED nodes
    BY <1>3, TryTyped DEF NextAddress
  <2> QED
    BY <1>3, <2>1 DEF NextAddress, WaveTyped
<1> QED
  BY <1>1, <1>2, <1>3 DEF TaskStep

(* So do the servers, whatever they do.                                    *)
LEMMA EnvironmentKeepsTyped ==
  ASSUME Typed, QueueTyped', Environment
  PROVE  Typed'
<1> USE ConstantsAssumption DEF QueueTyped, Typed, TypeOK, RefreshedFirst, crawlVars, waveVars, Changes
<1>1. ASSUME Changes
      PROVE  (changes \in 0 .. MaxChanges)'
  BY <1>1
<1>2. ASSUME NEW s \in Server, StopsOrStarts(s) \/ RefusesOrAccepts(s)
      PROVE  Typed'
  <2>1. running' \subseteq Server /\ refusing' \subseteq Server /\ broken' \subseteq Endpoint
    BY <1>2 DEF StopsOrStarts, RefusesOrAccepts
  <2> QED
    BY <1>1, <1>2, <2>1 DEF StopsOrStarts, RefusesOrAccepts
<1>3. ASSUME NEW e \in Endpoint, AddressFailsOrRecovers(e)
      PROVE  Typed'
  <2>1. running' \subseteq Server /\ refusing' \subseteq Server /\ broken' \subseteq Endpoint
    BY <1>3 DEF AddressFailsOrRecovers
  <2> QED
    BY <1>1, <1>3, <2>1 DEF AddressFailsOrRecovers
<1>4. CASE \E c \in Command, k \in Endpoint : RequestFails(c, k)
  <2>1. PICK c \in Command, k \in Endpoint : RequestFails(c, k)
    BY <1>4
  <2>2. nodes[k] \in Node
    BY <2>1 DEF RequestFails, Alive, Keys
  <2>3. [nodes[k] EXCEPT !.alive = FALSE] \in Node
    BY <2>2 DEF Node
  <2>4. (nodes \in [Endpoint -> Node \cup {NoNode}])'
    BY <2>1, <2>3 DEF RequestFails
  <2>5. (toRefresh \subseteq {j \in Endpoint : nodes[j] # NoNode})'
    BY <2>1, <2>3 DEF RequestFails
  <2> QED
    BY <2>1, <2>4, <2>5 DEF RequestFails, outerVars
<1>5. CASE Tick
  BY <1>5 DEF Tick, outerVars
<1> QED
  BY <1>2, <1>3, <1>4, <1>5 DEF Environment

(* The types hold of every behaviour.                                      *)
LEMMA TypedCorrect == Spec => []Typed
<1>1. Init => Typed
  <2> SUFFICES ASSUME Init
               PROVE  Typed
    OBVIOUS
  <2>1. \A t \in Task : at[t] <= Len(Path(t))
    BY PathType DEF Init
  <2>2. changes \in 0 .. MaxChanges /\ queue \in Seq(Command)
    BY ConstantsAssumption, EmptySeq DEF Init
  <2>3. aliases \in Aliases /\ found \in Aliases /\ at \in [Task -> Nat]
    BY DEF Init, NoAliases, Aliases
  <2> QED
    BY <2>1, <2>2, <2>3 DEF Init, Typed, TypeOK, RefreshedFirst
<1>2. Typed /\ LockInv' /\ [Next]_vars => Typed'
  <2> SUFFICES ASSUME Typed, QueueTyped', [Next]_vars
               PROVE  Typed'
    BY DEF LockInv
  <2>1. ASSUME NEW c \in Command, Call(c) \/ Returns(c) \/ CommandStep(c)
        PROVE  Typed'
    BY <2>1, CommandKeepsTyped, RefreshKeepsTyped, CrawlKeepsTyped DEF CommandStep
  <2>2. ASSUME NEW t \in Task, TaskStep(t)
        PROVE  Typed'
    BY <2>2, TaskKeepsTyped
  <2>3. CASE Environment
    BY <2>3, EnvironmentKeepsTyped
  <2>4. CASE UNCHANGED vars
    BY <2>4 DEF vars, outerVars, crawlVars, waveVars, Typed, TypeOK, RefreshedFirst
  <2> QED
    BY <2>1, <2>2, <2>3, <2>4 DEF Next
<1> QED
  BY <1>1, <1>2, LockCorrect, PTL DEF Spec

(* Cluster's type invariant: the maps lead from endpoints to nodes and     *)
(* keys, and no registration is past its last address.                     *)
THEOREM TypeCorrect == Spec => []TypeOK
<1>1. Typed => TypeOK
  BY DEF Typed
<1> QED
  BY <1>1, TypedCorrect, PTL

-----------------------------------------------------------------------------
(* The cluster stays due as long as a crawl goes on, so a command that     *)
(* begins meanwhile waits.                                                 *)
DueWhileCrawling == stage # "idle" => due

(* Only the end of a crawl clears due, and then no crawl goes on.          *)
LEMMA DueStep ==
  ASSUME LockInv, DueWhileCrawling, [Next]_vars
  PROVE  DueWhileCrawling'
<1> USE DEF DueWhileCrawling, outerVars, crawlVars, waveVars
<1>1. ASSUME NEW c \in Command, Call(c) \/ Returns(c) \/ RefreshedMeanwhile(c) \/ BeginCrawl(c)
      PROVE  DueWhileCrawling'
  BY <1>1 DEF Call, Returns, RefreshedMeanwhile, BeginCrawl, DueInCrawl
<1>2. ASSUME NEW c \in Command, NothingToAdd(c) \/ RegisterPeers(c) \/ NextWave(c) \/ Finish(c)
      PROVE  DueWhileCrawling'
  BY <1>2 DEF NothingToAdd, RegisterPeers, NextWave, Finish, EndCrawl, Crawling
<1>3. ASSUME NEW c \in Command, NEW k \in Endpoint, Refresh(c, k) \/ RefreshRefused(c, k)
      PROVE  DueWhileCrawling'
  BY <1>3 DEF Refresh, RefreshRefused
<1>4. ASSUME NEW t \in Task, TaskStep(t)
      PROVE  DueWhileCrawling'
  BY <1>4 DEF TaskStep, Begin, NewNode, NextAddress
<1>5. CASE Environment
  BY <1>5
  DEF Environment, StopsOrStarts, RefusesOrAccepts, AddressFailsOrRecovers, Changes,
      RequestFails, Tick
<1>6. CASE UNCHANGED vars
  BY <1>6 DEF vars
<1> QED
  BY <1>1, <1>2, <1>3, <1>4, <1>5, <1>6 DEF Next, CommandStep

(* Hence it holds of every behaviour.                                      *)
LEMMA DueCorrect == Spec => []DueWhileCrawling
<1>1. Init => DueWhileCrawling
  BY DEF Init, DueWhileCrawling
<1> QED
  BY <1>1, DueStep, LockCorrect, PTL DEF Spec

(* A command goes on to its nodes only when no crawl is rebuilding them:   *)
(* neither RefreshedMeanwhile nor the end of a crawl lets a command        *)
(* through while another crawls.                                           *)
THEOREM WholeSetsSeen == Spec => CommandsSeeWholeSets
<1>1. ASSUME LockInv, DueWhileCrawling, [Next]_vars, NEW c \in Command,
             pc[c] # "using", pc'[c] = "using"
      PROVE  stage' = "idle"
  <2> USE <1>1 DEF outerVars, crawlVars, waveVars, LockInv, QueueTyped, DueWhileCrawling
  <2>1. ASSUME NEW d \in Command, Call(d) \/ Returns(d) \/ RefreshedMeanwhile(d) \/ BeginCrawl(d)
        PROVE  stage' = "idle"
    BY <2>1 DEF Call, Returns, RefreshedMeanwhile, BeginCrawl, Uses
  <2>2. ASSUME NEW d \in Command, NothingToAdd(d) \/ RegisterPeers(d) \/ NextWave(d) \/ Finish(d)
        PROVE  stage' = "idle"
    BY <2>2 DEF NothingToAdd, RegisterPeers, NextWave, Finish, EndCrawl
  <2>3. ASSUME NEW d \in Command, NEW k \in Endpoint, Refresh(d, k) \/ RefreshRefused(d, k)
        PROVE  stage' = "idle"
    BY <2>3 DEF Refresh, RefreshRefused
  <2>4. ASSUME NEW t \in Task, TaskStep(t)
        PROVE  stage' = "idle"
    BY <2>4 DEF TaskStep, Begin, NewNode, NextAddress
  <2>5. CASE Environment
    BY <2>5
    DEF Environment, StopsOrStarts, RefusesOrAccepts, AddressFailsOrRecovers, Changes,
        RequestFails, Tick
  <2>6. CASE UNCHANGED vars
    BY <2>6 DEF vars
  <2> QED
    BY <2>1, <2>2, <2>3, <2>4, <2>5, <2>6 DEF Next, CommandStep
<1>2. LockInv /\ DueWhileCrawling /\ [Next]_vars
        => [\A c \in Command : pc[c] # "using" /\ pc'[c] = "using" => stage' = "idle"]_vars
  BY <1>1
<1> QED
  BY <1>2, LockCorrect, DueCorrect, PTL DEF Spec, CommandsSeeWholeSets

-----------------------------------------------------------------------------
(* An alias leads to a key of the server that it is an address of.         *)
OwnAliases(table) ==
  \A e \in Endpoint : table[e] # NoKey => Owner[table[e]] = Owner[e]

(* It is so of the table of the cluster and of the table that a refresh    *)
(* fills.                                                                  *)
OwnersInv == OwnAliases(aliases) /\ OwnAliases(found)

(* update_aliases keeps it, for endpoints of the key's server.             *)
LEMMA UpdateKeepsOwners ==
  ASSUME NEW table \in Aliases, OwnAliases(table), NEW key \in Endpoint, NEW all,
         NEW endpoints, \A e \in endpoints : Owner[e] = Owner[key]
  PROVE  OwnAliases(UpdateAliases(table, endpoints, key, all))
  BY UpdateAliasesType DEF OwnAliases

(* The path of a server is its own addresses.                              *)
LEMMA PathOwner ==
  ASSUME NEW t \in Server, NEW i \in 1 .. Len(Path(t))
  PROVE  Owner[Path(t)[i]] = t
  BY AddrsOfServer, ConstantsAssumption DEF Path

(* The end of a registration keeps it.                                     *)
LEMMA RegisteredKeepsOwners ==
  ASSUME NEW t \in Task, NEW key \in Endpoint, t \in Server => Owner[key] = t,
         NEW table \in Aliases, OwnAliases(table), NEW all, Registered(t, key, table, all)
  PROVE  OwnAliases(aliases)'
<1> DEFINE endpoints == IF t \in Server THEN Range(Addrs[t]) ELSE {}
<1>1. \A e \in endpoints : Owner[e] = Owner[key]
  BY AddrsOfServer
<1>2. OwnAliases(UpdateAliases(table, endpoints, key, all))
  BY <1>1, UpdateKeepsOwners
<1> QED
  BY <1>2 DEF Registered, OwnAliases

(* So does a try of an address.                                            *)
LEMMA TryKeepsOwners ==
  ASSUME Typed, OwnAliases(aliases), NEW t \in Task, NEW i \in Nat \ {0}, Try(t, i)
  PROVE  OwnAliases(aliases)'
<1>1. CASE ~(i > Len(Path(t))) /\ Known(Path(t)[i])
  <2> DEFINE e == Path(t)[i]
  <2>1. e \in Endpoint /\ i \in 1 .. Len(Path(t))
    BY <1>1, PathType
  <2>2. aliases[e] \in Endpoint /\ Owner[aliases[e]] = Owner[e]
    BY <1>1, <2>1 DEF Known, Typed, TypeOK, Aliases, OwnAliases
  <2>3. t \in Server => Owner[e] = t
    BY <2>1, PathOwner
  <2>4. Registered(t, aliases[e], aliases, nodes) /\ aliases \in Aliases
    BY <1>1 DEF Try, Typed, TypeOK
  <2> QED
    BY <2>2, <2>3, <2>4, RegisteredKeepsOwners
<1>2. CASE i > Len(Path(t)) \/ ~Known(Path(t)[i])
  BY <1>2 DEF Try, OwnAliases
<1> QED
  BY <1>1, <1>2

(* Every step keeps it.                                                    *)
LEMMA OwnersStep ==
  ASSUME Typed, OwnersInv, [Next]_vars
  PROVE  OwnersInv'
<1> USE DEF outerVars, crawlVars, waveVars
<1>1. ASSUME UNCHANGED <<aliases, found>>
      PROVE  OwnersInv'
  BY <1>1 DEF OwnersInv, OwnAliases
<1>2. ASSUME NEW c \in Command, Call(c) \/ Returns(c) \/ RefreshedMeanwhile(c)
      PROVE  OwnersInv'
  BY <1>1, <1>2 DEF Call, Returns, RefreshedMeanwhile
<1>3. ASSUME NEW c \in Command, BeginCrawl(c)
      PROVE  OwnersInv'
  BY <1>3 DEF BeginCrawl, OwnersInv, OwnAliases, NoAliases
<1>4. ASSUME NEW c \in Command, NothingToAdd(c) \/ RegisterPeers(c) \/ NextWave(c) \/ Finish(c)
      PROVE  OwnersInv'
  BY <1>4 DEF NothingToAdd, RegisterPeers, NextWave, Finish, OwnersInv, OwnAliases
<1>5. ASSUME NEW c \in Command, NEW k \in Endpoint, Refresh(c, k)
      PROVE  OwnersInv'
  <2>1. /\ KeyOf(k) \in Endpoint
        /\ \A e \in Connect(k).addrs : Owner[e] = Owner[KeyOf(k)]
    BY KeyOfEndpoint, ConnectType DEF Typed, TypeOK
  <2>2. OwnAliases(UpdateAliases(found, Connect(k).addrs, KeyOf(k),
                                 Rekeyed(k, KeyOf(k), Connect(k))))
    BY <2>1, UpdateKeepsOwners DEF Typed, TypeOK, OwnersInv
  <2> QED
    BY <1>5, <2>2 DEF Refresh, OwnersInv, OwnAliases
<1>6. ASSUME NEW c \in Command, NEW k \in Endpoint, RefreshRefused(c, k)
      PROVE  OwnersInv'
  BY <1>1, <1>6 DEF RefreshRefused
<1>7. ASSUME NEW t \in Task, Begin(t) \/ NextAddress(t)
      PROVE  OwnersInv'
  <2>1. PICK i \in Nat \ {0} : Try(t, i)
    BY <1>7 DEF Begin, NextAddress, Typed, TypeOK
  <2>2. OwnAliases(aliases)'
    BY <2>1, TryKeepsOwners DEF OwnersInv
  <2> QED
    BY <1>7, <2>2 DEF Begin, NextAddress, OwnersInv, OwnAliases
<1>8. ASSUME NEW t \in Task, NewNode(t)
      PROVE  OwnersInv'
  <2> DEFINE e    == Path(t)[at[t]]
             all  == UpdateNode(KeyOf(e), Connect(e))
             tab  == UpdateAliases(aliases, Connect(e).addrs, KeyOf(e), all)
  <2>1. at[t] \in 1 .. Len(Path(t)) /\ e \in Endpoint
    BY <1>8, PathType DEF NewNode, Connecting, Typed, TypeOK
  <2>2. /\ KeyOf(e) \in Endpoint /\ Owner[KeyOf(e)] = Owner[e]
        /\ \A f \in Connect(e).addrs : Owner[f] = Owner[KeyOf(e)]
    BY <2>1, KeyOfEndpoint, ConnectType DEF Typed, TypeOK
  <2>3. OwnAliases(tab) /\ tab \in Aliases
    BY <2>2, UpdateKeepsOwners, UpdateAliasesType DEF Typed, TypeOK, OwnersInv
  <2>4. t \in Server => Owner[KeyOf(e)] = t
    BY <2>1, <2>2, PathOwner
  <2>5. Registered(t, KeyOf(e), tab, all)
    BY <1>8 DEF NewNode
  <2>6. OwnAliases(aliases)'
    BY <2>2, <2>3, <2>4, <2>5, RegisteredKeepsOwners
  <2> QED
    BY <1>8, <2>6 DEF NewNode, OwnersInv, OwnAliases
<1>9. CASE Environment
  BY <1>1, <1>9
  DEF Environment, StopsOrStarts, RefusesOrAccepts, AddressFailsOrRecovers, Changes,
      RequestFails, Tick
<1>10. CASE UNCHANGED vars
  BY <1>1, <1>10 DEF vars
<1> QED
  BY <1>2, <1>3, <1>4, <1>5, <1>6, <1>7, <1>8, <1>9, <1>10 DEF Next, CommandStep, TaskStep

(* An alias never leads to another server's node.                          *)
LEMMA OwnersCorrect == Spec => []OwnersInv
<1>1. Init => OwnersInv
  BY DEF Init, OwnersInv, OwnAliases, NoAliases
<1> QED
  BY <1>1, OwnersStep, TypedCorrect, PTL DEF Spec

-----------------------------------------------------------------------------
(* What is true of a crawl as long as nothing changes under it.            *)

(* k is the key of its server, and its node is alive if it answers.        *)
Placed(k, all) ==
  /\ all[k] # NoNode
  /\ KeyOf(k) = k
  /\ all[k].alive <=> Reachable(k)

(* Aliases lead to nodes that are there, at the key that a connect to the  *)
(* alias would find; the live nodes of fresh are found by their keys.      *)
Sound(table, all, fresh) ==
  /\ \A e \in Endpoint : table[e] # NoKey =>
       Placed(table[e], all) /\ (Reachable(e) /\ Reachable(table[e]) => table[e] = KeyOf(e))
  /\ \A k \in fresh : all[k] # NoNode /\ all[k].alive => table[k] = k

(* update_aliases keeps aliases sound when it enters a node that is        *)
(* placed, under addresses that lead to its key; and it makes that node    *)
(* found by its key if its key is among them.                              *)
LEMMA SoundUpdate ==
  ASSUME NEW table \in Aliases, NEW all, NEW fresh, NEW endpoints,
         NEW key \in Endpoint, Placed(key, all), Sound(table, all, fresh),
         \A e \in endpoints : Reachable(e) /\ Reachable(key) => KeyOf(e) = key
  PROVE  /\ Sound(UpdateAliases(table, endpoints, key, all), all, fresh \cap Endpoint)
         /\ key \in endpoints =>
              Sound(UpdateAliases(table, endpoints, key, all), all,
                    (fresh \cap Endpoint) \cup {key})
<1> DEFINE new == UpdateAliases(table, endpoints, key, all)
<1>1. ASSUME NEW e \in Endpoint, new[e] # NoKey
      PROVE  /\ Placed(new[e], all)
             /\ Reachable(e) /\ Reachable(new[e]) => new[e] = KeyOf(e)
  <2>1. new[e] = table[e] \/ (e \in endpoints /\ new[e] = key)
    BY UpdateAliasesType
  <2> QED
    BY <1>1, <2>1 DEF Sound
<1>2. ASSUME NEW k \in fresh \cap Endpoint, all[k] # NoNode, all[k].alive
      PROVE  new[k] = k
  BY <1>2, ConstantsAssumption DEF Sound, UpdateAliases
<1>3. ASSUME key \in endpoints, all[key].alive
      PROVE  new[key] = key
  <2>1. CASE table[key] = NoKey
    BY <1>3, <2>1 DEF UpdateAliases
  <2>2. CASE table[key] # NoKey
    <3>1. Placed(table[key], all)
      BY <2>2 DEF Sound
    <3>2. CASE ~all[table[key]].alive
      BY <1>3, <3>1, <3>2 DEF UpdateAliases, Placed
    <3>3. CASE all[table[key]].alive
      <4>1. Reachable(key) /\ Reachable(table[key]) /\ KeyOf(key) = key
        BY <1>3, <3>1, <3>3 DEF Placed
      <4>2. table[key] = key
        BY <2>2, <4>1 DEF Sound
      <4> QED
        BY <4>2 DEF UpdateAliases
    <3> QED
      BY <3>2, <3>3
  <2> QED
    BY <2>1, <2>2
<1> HIDE DEF new
<1> QED
  BY <1>1, <1>2, <1>3 DEF Sound, new

(* A node that a connect has just made is placed.                          *)
LEMMA PlacedConnect ==
  ASSUME Typed, NEW e \in Endpoint, NEW all, all[KeyOf(e)] = Connect(e)
  PROVE  Placed(KeyOf(e), all)
  BY ConnectType, KeyOfEndpoint, KeyOfKey DEF Placed, Typed, TypeOK

(* Entering it under its service addresses, as the refresh does and as     *)
(* NextAddress does, keeps the aliases sound.                              *)
LEMMA SoundConnect ==
  ASSUME Typed, NEW e \in Endpoint, NEW all, all[KeyOf(e)] = Connect(e),
         NEW table \in Aliases, NEW fresh, Sound(table, all, fresh)
  PROVE  Sound(UpdateAliases(table, Connect(e).addrs, KeyOf(e), all), all,
               (fresh \cap Endpoint) \cup {KeyOf(e)})
<1>1. Placed(KeyOf(e), all)
  BY PlacedConnect
<1>2. KeyOf(e) \in Endpoint /\ KeyOf(e) \in Connect(e).addrs
  BY KeyOfEndpoint, ConnectType DEF Typed, TypeOK
<1>3. \A f \in Connect(e).addrs : Reachable(f) /\ Reachable(KeyOf(e)) => KeyOf(f) = KeyOf(e)
  BY KeyOfAddress, KeyOfEndpoint
<1> QED
  BY <1>1, <1>2, <1>3, SoundUpdate

(* So does _register_node's last step, which enters the server's           *)
(* addresses, whether the node is new or was known.                        *)
LEMMA SoundRegistered ==
  ASSUME NEW t \in Task, NEW key \in Endpoint, t \in Server => Owner[key] = t,
         NEW table \in Aliases, NEW all, Placed(key, all), Sound(table, all, Endpoint),
         Registered(t, key, table, all)
  PROVE  Sound(aliases', all, Endpoint)
<1> DEFINE endpoints == IF t \in Server THEN Range(Addrs[t]) ELSE {}
<1>1. ASSUME NEW e \in endpoints, Reachable(e), Reachable(key)
      PROVE  KeyOf(e) = key
  <2>1. t \in Server /\ e \in Range(Addrs[t]) /\ Owner[key] = t
    BY <1>1
  <2>2. e \in Endpoint /\ Owner[e] = t
    BY <2>1, AddrsOfServer
  <2>3. Answering(t) # {}
    BY <1>1, <2>1 DEF Answering, Range
  <2>4. KeyOf(e) = KeyOf(key)
    BY <1>1, <2>1, <2>2, <2>3, KeyOfServer
  <2> QED
    BY <2>4 DEF Placed
<1>2. aliases' = UpdateAliases(table, endpoints, key, all)
  BY DEF Registered
<1>3. Sound(aliases', all, Endpoint \cap Endpoint)
  BY <1>1, <1>2, SoundUpdate
<1> QED
  BY <1>3

(* The server has a node that is alive.                                    *)
Live(s) == \E j \in Alive : Owner[j] = s

(* The registration has not ended.                                         *)
Pending(t) == t \in unstarted \/ at[t] # 0

(* The server that a registration leads to: of a peer, itself.             *)
ServerOf(t) == IF t \in Server THEN t ELSE Owner[t]

(* The server answers everywhere and there is an address to try.           *)
Wanted(t) == Up(ServerOf(t)) /\ Path(t) # << >>

(* The nodes that a refresh has been through are as a connect leaves them. *)
NodesPlaced == \A k \in Keys \ toRefresh : Placed(k, nodes)

(* The refresh fills found, the registrations fill aliases.                *)
AliasesSound ==
  /\ stage = "refresh" => Sound(found, nodes, Endpoint \ toRefresh)
  /\ stage = "register" => Sound(aliases, nodes, Endpoint)

(* The peers of the live nodes are registered, or offered address by       *)
(* address.                                                                *)
PeersFollowed ==
  ~onlySeed => \A k \in Alive \ toRefresh : \A s \in nodes[k].peers :
    /\ stage = "refresh" => s \in peersSeen
    /\ stage = "register" => s \in peersSeen \/ Range(Addrs[s]) \subseteq services

(* A registration of a server that answers goes on or has led to it.       *)
TriedFound ==
  /\ stage = "refresh" => visited = {}
  /\ stage = "register" =>
       \A t \in peersSeen \cup visited :
         Wanted(t) => Pending(t) \/ Live(ServerOf(t))

(* As long as nothing has changed since the crawl began.                   *)
QuietInv ==
  settled => /\ NodesPlaced
             /\ AliasesSound
             /\ PeersFollowed
             /\ TriedFound
             /\ EveryServerFound

(* What servers are and answer decides the keys.                           *)
LEMMA SameServers ==
  ASSUME UNCHANGED outerVars
  PROVE  /\ \A e \in Endpoint : KeyOf(e)' = KeyOf(e) /\ (Reachable(e)' <=> Reachable(e))
         /\ \A s \in Server : Up(s)' <=> Up(s)
         /\ \A t \in Task : Wanted(t)' <=> Wanted(t)
<1>1. \A e \in Endpoint : Reachable(e)' <=> Reachable(e)
  BY DEF Reachable, outerVars
<1>2. \A e \in Endpoint : KeyOf(e)' = KeyOf(e)
  BY DEF KeyOf, Answering, Reachable, outerVars
<1>3. \A s : Up(s)' <=> Up(s)
  BY <1>1 DEF Up, outerVars
<1>4. \A t \in Task : Wanted(t)' <=> Wanted(t)
  BY <1>3 DEF Wanted, ServerOf, Path
<1> QED
  BY <1>1, <1>2, <1>3, <1>4

(* A step that leaves the crawl and its tables alone keeps it.             *)
LEMMA QuietSame ==
  ASSUME Typed, QuietInv,
         UNCHANGED <<outerVars, nodes, aliases, crawlVars, waveVars, settled>>
  PROVE  QuietInv'
<1> SUFFICES ASSUME settled
             PROVE  QuietInv'
  BY DEF QuietInv
<1> USE SameServers DEF QuietInv, Typed, TypeOK, crawlVars, waveVars
<1>1. NodesPlaced'
  BY DEF NodesPlaced, Placed, Keys
<1>2. AliasesSound'
  BY DEF AliasesSound, Sound, Placed, Aliases
<1>3. PeersFollowed'
  BY DEF PeersFollowed, Alive, Keys, outerVars
<1>4. TriedFound'
  <2>1. peersSeen \cup visited \subseteq Task
    BY DEF Task
  <2> QED
    BY <2>1 DEF TriedFound, Pending, Live, Alive, Keys
<1>5. EveryServerFound'
  BY DEF EveryServerFound, Alive, Keys, outerVars, Node
<1> QED
  BY <1>1, <1>2, <1>3, <1>4, <1>5

(* A crawl begins with every node still to refresh, or from seeds, quiet   *)
(* only if there are no aliases either.                                    *)
LEMMA BeginCrawlQuiet ==
  ASSUME Typed, Typed', NEW c \in Command, BeginCrawl(c)
  PROVE  QuietInv'
<1> SUFFICES ASSUME settled'
             PROVE  QuietInv'
  BY DEF QuietInv
<1> USE DEF Typed, TypeOK, BeginCrawl, outerVars
<1>1. UNCHANGED <<outerVars, nodes, aliases>> /\ toRefresh' = Keys /\ found' = NoAliases
  BY DEF DueForRefresh
<1>2. NodesPlaced'
  BY <1>1 DEF NodesPlaced, Keys
<1>3. AliasesSound'
  <2>1. CASE Keys = {}
    <3>1. aliases' = NoAliases /\ stage' = "register" /\ \A k \in Endpoint : nodes'[k] = NoNode
      BY <1>1, <2>1 DEF Keys
    <3> QED
      BY <3>1 DEF AliasesSound, Sound, NoAliases
  <2>2. CASE Keys # {}
    <3>1. /\ stage' = "refresh"
          /\ \A k \in Endpoint \ toRefresh' : nodes'[k] = NoNode
      BY <1>1, <2>2 DEF Keys
    <3> QED
      BY <1>1, <3>1 DEF AliasesSound, Sound, NoAliases
  <2> QED
    BY <2>1, <2>2
<1>4. PeersFollowed'
  BY <1>1 DEF PeersFollowed, Alive, Keys
<1>5. TriedFound'
  BY <1>1 DEF TriedFound, Pending
<1>6. EveryServerFound'
  BY DEF EveryServerFound
<1> QED
  BY <1>2, <1>3, <1>4, <1>5, <1>6 DEF QuietInv

(* The refresh of a node puts it at its key and offers its peers.          *)
LEMMA RefreshQuiet ==
  ASSUME Typed, Typed', QuietInv, NEW c \in Command, NEW k \in Endpoint, Refresh(c, k)
  PROVE  QuietInv'
<1> SUFFICES ASSUME settled
             PROVE  QuietInv'
  BY DEF QuietInv, Refresh
<1> DEFINE key  == KeyOf(k)
           node == Connect(k)
           all  == Rekeyed(k, key, node)
           tab  == UpdateAliases(found, node.addrs, key, all)
           fresh == Endpoint \ toRefresh
<1>1. /\ stage = "refresh" /\ stage' = "refresh" /\ UNCHANGED outerVars
      /\ nodes' = all /\ found' = tab /\ toRefresh' = toRefresh \ {k}
      /\ visited' = visited /\ onlySeed' = onlySeed /\ k \in toRefresh
      /\ peersSeen' = IF onlySeed THEN {} ELSE peersSeen \cup node.peers
  BY DEF Refresh, Crawling, waveVars, outerVars
<1>2. /\ key \in Endpoint /\ KeyOf(key) = key /\ node \in Node /\ node # NoNode
  BY KeyOfEndpoint, KeyOfKey, ConnectType DEF Typed, TypeOK
<1>3. /\ all[key] = node
      /\ k # key => all[k] = NoNode
      /\ \A j \in Endpoint \ {k, key} : all[j] = nodes[j]
  BY <1>2 DEF Rekeyed, Typed, TypeOK
<1>4. Placed(key, all)
  BY <1>3, PlacedConnect
<1>5. Sound(found, all, fresh \ {key})
  <2>1. Sound(found, nodes, fresh)
    BY <1>1 DEF QuietInv, AliasesSound
  <2>2. \A e \in Endpoint : found[e] # NoKey => found[e] \in Endpoint /\ (found[e] = k => k = key)
    BY <2>1 DEF Sound, Placed, Typed, TypeOK, Aliases
  <2>3. \A e \in Endpoint : found[e] # NoKey => Placed(found[e], all)
    BY <1>3, <1>4, <2>1, <2>2 DEF Sound, Placed
  <2>4. \A j \in fresh \ {key} : all[j] # NoNode /\ all[j].alive => found[j] = j
    BY <1>1, <1>3, <2>1 DEF Sound
  <2> QED
    BY <2>1, <2>3, <2>4 DEF Sound
<1>6. Sound(tab, all, Endpoint \ toRefresh')
  <2>1. Sound(tab, all, ((fresh \ {key}) \cap Endpoint) \cup {key})
    BY <1>3, <1>5, SoundConnect DEF Typed, TypeOK
  <2>2. \A j \in Endpoint \ toRefresh' : j \in fresh \ {key} \/ j = key \/ all[j] = NoNode
    BY <1>1, <1>3
  <2> QED
    BY <2>1, <2>2 DEF Sound
<1>7. NodesPlaced'
  <2>1. ASSUME NEW j \in Endpoint, all[j] # NoNode, j \notin toRefresh'
        PROVE  Placed(j, all)
    <3>1. CASE j = key
      BY <1>4, <3>1
    <3>2. CASE j # key
      <4>1. j # k /\ j \notin toRefresh /\ all[j] = nodes[j]
        BY <1>1, <1>3, <2>1, <3>2
      <4> QED
        BY <2>1, <4>1 DEF QuietInv, NodesPlaced, Keys, Placed
    <3> QED
      BY <3>1, <3>2
  <2> QED
    BY <1>1, <2>1, SameServers DEF NodesPlaced, Placed, Keys
<1>8. AliasesSound'
  BY <1>1, <1>6, SameServers DEF AliasesSound, Sound, Placed, Typed, TypeOK, Aliases
<1>9. PeersFollowed'
  <2>1. ASSUME ~onlySeed, NEW j \in Endpoint, all[j] # NoNode, all[j].alive, j \notin toRefresh'
        PROVE  all[j].peers \subseteq peersSeen'
    <3>1. CASE j = key
      BY <1>1, <1>3, <2>1, <3>1
    <3>2. CASE j # key
      <4>1. j # k /\ j \notin toRefresh /\ all[j] = nodes[j]
        BY <1>1, <1>3, <2>1, <3>2
      <4>2. nodes[j].peers \subseteq peersSeen
        BY <1>1, <2>1, <4>1 DEF QuietInv, PeersFollowed, Alive, Keys
      <4> QED
        BY <1>1, <2>1, <4>1, <4>2
    <3> QED
      BY <3>1, <3>2
  <2> QED
    BY <1>1, <2>1 DEF PeersFollowed, Alive, Keys
<1>10. TriedFound'
  BY <1>1 DEF QuietInv, TriedFound
<1>11. EveryServerFound'
  BY <1>1 DEF EveryServerFound
<1> QED
  BY <1>7, <1>8, <1>9, <1>10, <1>11 DEF QuietInv

(* When the old nodes are refreshed what they found becomes the cluster's  *)
(* aliases, and the registrations of the peers start.                      *)
LEMMA RegisterPeersQuiet ==
  ASSUME Typed, Typed', QuietInv, NEW c \in Command, RegisterPeers(c)
  PROVE  QuietInv'
<1> SUFFICES ASSUME settled
             PROVE  QuietInv'
  BY DEF QuietInv, RegisterPeers
<1>1. /\ stage = "refresh" /\ stage' = "register" /\ toRefresh = {} /\ aliases' = found
      /\ UNCHANGED <<outerVars, nodes, toRefresh, peersSeen, visited, services>>
      /\ unstarted' = peersSeen /\ onlySeed' = onlySeed
  BY DEF RegisterPeers, Crawling, outerVars
<1>2. NodesPlaced'
  BY <1>1, SameServers DEF QuietInv, NodesPlaced, Placed, Keys
<1>3. AliasesSound'
  BY <1>1, SameServers DEF QuietInv, AliasesSound, Sound, Placed, Typed, TypeOK, Aliases
<1>4. PeersFollowed'
  BY <1>1 DEF QuietInv, PeersFollowed, Alive, Keys
<1>5. TriedFound'
  BY <1>1 DEF QuietInv, TriedFound, Pending
<1>6. EveryServerFound'
  BY <1>1 DEF EveryServerFound
<1> QED
  BY <1>2, <1>3, <1>4, <1>5, <1>6 DEF QuietInv

(* When the nodes name no peers the crawl ends: there is nobody to follow. *)
LEMMA NothingToAddQuiet ==
  ASSUME Typed, Typed', QuietInv, NEW c \in Command, NothingToAdd(c)
  PROVE  QuietInv'
<1> SUFFICES ASSUME settled
             PROVE  QuietInv'
  BY DEF QuietInv, NothingToAdd
<1>1. /\ stage = "refresh" /\ stage' = "idle" /\ toRefresh = {} /\ peersSeen = {}
      /\ UNCHANGED <<outerVars, nodes, toRefresh>> /\ onlySeed' = onlySeed
  BY DEF NothingToAdd, EndCrawl, Crawling, outerVars
<1>2. NodesPlaced'
  BY <1>1, SameServers DEF QuietInv, NodesPlaced, Placed, Keys
<1>3. AliasesSound' /\ PeersFollowed' /\ TriedFound'
  BY <1>1 DEF AliasesSound, PeersFollowed, TriedFound
<1>4. EveryServerFound'
  <2>1. ~onlySeed => \A k \in Alive : nodes[k].peers = {}
    BY <1>1 DEF QuietInv, PeersFollowed
  <2> QED
    BY <1>1, <2>1 DEF EveryServerFound, Alive, Keys
<1> QED
  BY <1>2, <1>3, <1>4 DEF QuietInv

(* A registration that yields a node, new or known.                        *)
LEMMA RegisteredQuiet ==
  ASSUME Typed, Typed', QuietInv, settled, settled', stage = "register", stage' = stage,
         NEW t \in Task, NEW key \in Endpoint, Owner[key] = ServerOf(t),
         NEW table \in Aliases, NEW all \in [Endpoint -> Node \cup {NoNode}],
         Placed(key, all), Sound(table, all, Endpoint),
         \A k \in Endpoint \ {key} : all[k] = nodes[k],
         Registered(t, key, table, all),
         UNCHANGED <<outerVars, crawlVars>>, unstarted \ {t} \subseteq unstarted'
  PROVE  QuietInv'
<1>1. /\ nodes' = all /\ toRefresh = {} /\ toRefresh' = {} /\ onlySeed' = onlySeed
      /\ peersSeen' = peersSeen /\ visited' = visited \cup {key}
      /\ services' = services \cup Offers(key, all[key])
      /\ at' = [at EXCEPT ![t] = 0]
  BY DEF Registered, Typed, RefreshedFirst, outerVars, crawlVars
<1>2. NodesPlaced'
  <2>1. \A k \in Endpoint : all[k] # NoNode => Placed(k, all)
    BY <1>1 DEF QuietInv, NodesPlaced, Keys, Placed
  <2> QED
    BY <1>1, <2>1, SameServers DEF NodesPlaced, Placed, Keys
<1>3. AliasesSound'
  <2>1. Sound(aliases', all, Endpoint)
    BY SoundRegistered DEF ServerOf
  <2> QED
    BY <1>1, <2>1, SameServers DEF AliasesSound, Sound, Placed, Typed, TypeOK, Aliases
<1>4. PeersFollowed'
  <2>1. ASSUME ~onlySeed, NEW k \in Endpoint, all[k] # NoNode, all[k].alive,
               NEW s \in all[k].peers
        PROVE  s \in peersSeen \/ Range(Addrs[s]) \subseteq services'
    <3>1. CASE k = key
      BY <1>1, <2>1, <3>1 DEF Offers
    <3>2. CASE k # key
      BY <1>1, <2>1, <3>2 DEF QuietInv, PeersFollowed, Alive, Keys
    <3> QED
      BY <3>1, <3>2
  <2> QED
    BY <1>1, <2>1 DEF PeersFollowed, Alive, Keys
<1>5. ASSUME NEW s \in Server, Up(s), Live(s) \/ Owner[key] = s
      PROVE  Live(s)'
  <2>1. CASE Owner[key] = s
    <3>1. Reachable(key)
      BY <1>5, <2>1 DEF Up
    <3>2. all[key] # NoNode /\ all[key].alive
      BY <3>1 DEF Placed
    <3> QED
      BY <1>1, <2>1, <3>2 DEF Live, Alive, Keys
  <2>2. CASE Owner[key] # s
    <3>1. PICK j \in Endpoint : nodes[j] # NoNode /\ nodes[j].alive /\ Owner[j] = s
      BY <1>5, <2>2 DEF Live, Alive, Keys
    <3>2. all[j] = nodes[j]
      BY <2>2, <3>1
    <3> QED
      BY <1>1, <3>1, <3>2 DEF Live, Alive, Keys
  <2> QED
    BY <2>1, <2>2
<1>6. TriedFound'
  <2> SUFFICES ASSUME NEW u \in peersSeen \cup visited \cup {key}, Wanted(u)'
               PROVE  (Pending(u) \/ Live(ServerOf(u)))'
    BY <1>1 DEF TriedFound
  <2>1. u \in Task /\ ServerOf(u) \in Server /\ (ServerOf(u))' = ServerOf(u)
    BY ConstantsAssumption DEF Typed, TypeOK, Task, ServerOf
  <2>2. Wanted(u) /\ Up(ServerOf(u))
    BY <2>1, SameServers DEF Wanted
  <2>3. CASE u = t \/ u = key
    <3>1. Owner[key] = ServerOf(u)
      BY <2>3, ConstantsAssumption DEF ServerOf
    <3> QED
      BY <1>5, <2>1, <2>2, <3>1
  <2>4. CASE u # t /\ u \in peersSeen \cup visited
    <3>1. Pending(u) \/ Live(ServerOf(u))
      BY <2>2, <2>4 DEF QuietInv, TriedFound
    <3>2. Pending(u) => Pending(u)'
      BY <1>1, <2>1, <2>4 DEF Pending, Typed, TypeOK
    <3> QED
      BY <1>5, <2>1, <2>2, <3>1, <3>2
  <2> QED
    BY <2>3, <2>4
<1>7. EveryServerFound'
  BY DEF EveryServerFound
<1> QED
  BY <1>2, <1>3, <1>4, <1>6, <1>7 DEF QuietInv

(* The path of a registration leads to its server.                         *)
LEMMA PathServer ==
  ASSUME NEW t \in Task, NEW i \in 1 .. Len(Path(t))
  PROVE  Path(t)[i] \in Endpoint /\ Owner[Path(t)[i]] = ServerOf(t)
<1>1. CASE t \in Server
  BY <1>1, PathType, PathOwner DEF ServerOf
<1>2. CASE t \notin Server
  BY <1>2 DEF Task, Path, ServerOf
<1> QED
  BY <1>1, <1>2

(* A try of the next address, and the end of the path of a server that     *)
(* does not answer everywhere.                                             *)
LEMMA TryQuiet ==
  ASSUME Typed, Typed', OwnersInv, QuietInv, settled, settled', stage = "register", stage' = stage,
         NEW t \in Task, NEW i \in Nat \ {0}, Try(t, i),
         i > Len(Path(t)) => ~Wanted(t),
         UNCHANGED <<outerVars, crawlVars>>, unstarted \ {t} \subseteq unstarted'
  PROVE  QuietInv'
<1>1. CASE ~(i > Len(Path(t))) /\ Known(Path(t)[i])
  <2> DEFINE e == Path(t)[i]
  <2>1. e \in Endpoint /\ Owner[e] = ServerOf(t)
    BY <1>1, PathServer, PathType
  <2>2. aliases[e] \in Endpoint /\ Sound(aliases, nodes, Endpoint)
    BY <1>1, <2>1 DEF Known, Typed, TypeOK, Aliases, QuietInv, AliasesSound
  <2>3. Placed(aliases[e], nodes)
    BY <1>1, <2>1, <2>2 DEF Known, Sound
  <2>4. Registered(t, aliases[e], aliases, nodes)
    BY <1>1 DEF Try
  <2>5. Owner[aliases[e]] = ServerOf(t)
    BY <1>1, <2>1 DEF Known, OwnersInv, OwnAliases
  <2> QED
    BY <2>2, <2>3, <2>4, <2>5, RegisteredQuiet DEF Typed, TypeOK
<1>2. CASE i > Len(Path(t)) \/ ~Known(Path(t)[i])
  <2>1. /\ UNCHANGED <<nodes, aliases, visited, services>>
        /\ at' = [at EXCEPT ![t] = IF i > Len(Path(t)) THEN 0 ELSE i]
    BY <1>2 DEF Try
  <2>2. toRefresh = {} /\ toRefresh' = {} /\ onlySeed' = onlySeed /\ peersSeen' = peersSeen
    BY DEF Typed, RefreshedFirst, outerVars, crawlVars
  <2>3. NodesPlaced'
    BY <2>1, <2>2, SameServers DEF QuietInv, NodesPlaced, Placed, Keys
  <2>4. AliasesSound'
    BY <2>1, <2>2, SameServers
    DEF QuietInv, AliasesSound, Sound, Placed, Typed, TypeOK, Aliases
  <2>5. PeersFollowed'
    BY <2>1, <2>2 DEF QuietInv, PeersFollowed, Alive, Keys
  <2>6. TriedFound'
    <3> SUFFICES ASSUME NEW u \in peersSeen \cup visited, Wanted(u)'
                 PROVE  (Pending(u) \/ Live(ServerOf(u)))'
      BY <2>1, <2>2 DEF TriedFound
    <3>1. u \in Task /\ Wanted(u)
      BY SameServers DEF Typed, TypeOK, Task
    <3>2. Pending(u) \/ Live(ServerOf(u))
      BY <3>1 DEF QuietInv, TriedFound
    <3>3. CASE u = t
      BY <2>1, <3>1, <3>3 DEF Pending, Typed, TypeOK
    <3>4. CASE u # t
      BY <2>1, <3>1, <3>2, <3>4 DEF Pending, Live, Alive, Keys, ServerOf, Typed, TypeOK
    <3> QED
      BY <3>3, <3>4
  <2>7. EveryServerFound'
    BY DEF EveryServerFound
  <2> QED
    BY <2>3, <2>4, <2>5, <2>6, <2>7 DEF QuietInv
<1> QED
  BY <1>1, <1>2

(* The steps of a registration.                                            *)
LEMMA TaskQuiet ==
  ASSUME Typed, Typed', OwnersInv, QuietInv, NEW t \in Task, TaskStep(t)
  PROVE  QuietInv'
<1> SUFFICES ASSUME settled, settled'
             PROVE  QuietInv'
  BY DEF QuietInv, TaskStep, Begin, NewNode, NextAddress
<1>1. CASE Begin(t)
  <2>1. /\ stage = "register" /\ stage' = stage /\ UNCHANGED <<outerVars, crawlVars>>
        /\ unstarted \ {t} \subseteq unstarted' /\ Try(t, 1)
    BY <1>1 DEF Begin, crawlVars
  <2>2. 1 > Len(Path(t)) => ~Wanted(t)
    BY PathType, EmptySeq DEF Wanted
  <2> QED
    BY <2>1, <2>2, TryQuiet
<1>2. CASE NextAddress(t)
  <2> DEFINE e == Path(t)[at[t]]
  <2>1. /\ stage = "register" /\ stage' = stage /\ UNCHANGED <<outerVars, crawlVars>>
        /\ unstarted \ {t} \subseteq unstarted' /\ Try(t, at[t] + 1)
        /\ at[t] \in 1 .. Len(Path(t)) /\ at[t] + 1 \in Nat \ {0}
        /\ Refused(e) \/ ~Reachable(e)
    BY <1>2 DEF NextAddress, Connecting, crawlVars, Typed, TypeOK
  <2>2. e \in Endpoint /\ Owner[e] = ServerOf(t)
    BY <2>1, PathServer
  <2>3. ~Wanted(t)
    BY <2>1, <2>2 DEF Wanted, Up, Refused
  <2> QED
    BY <2>1, <2>3, TryQuiet
<1>3. CASE NewNode(t)
  <2> DEFINE e    == Path(t)[at[t]]
             key  == KeyOf(e)
             all  == UpdateNode(key, Connect(e))
             tab  == UpdateAliases(aliases, Connect(e).addrs, key, all)
  <2>1. /\ stage = "register" /\ stage' = stage /\ UNCHANGED <<outerVars, crawlVars>>
        /\ unstarted \ {t} \subseteq unstarted'
        /\ at[t] \in 1 .. Len(Path(t)) /\ Registered(t, key, tab, all)
    BY <1>3 DEF NewNode, Connecting, crawlVars, Typed, TypeOK
  <2>2. e \in Endpoint /\ Owner[e] = ServerOf(t)
    BY <2>1, PathServer
  <2>3. /\ key \in Endpoint /\ Owner[key] = ServerOf(t) /\ KeyOf(key) = key
        /\ Connect(e) \in Node
    BY <2>2, KeyOfEndpoint, KeyOfKey, ConnectType DEF Typed, TypeOK
  <2>4. /\ all \in [Endpoint -> Node \cup {NoNode}] /\ all[key] = Connect(e)
        /\ \A k \in Endpoint \ {key} : all[k] = nodes[k]
    BY <2>3 DEF UpdateNode, Typed, TypeOK
  <2>5. Placed(key, all)
    BY <2>2, <2>4, PlacedConnect
  <2>6. Sound(aliases, all, Endpoint \ {key})
    <3>1. Sound(aliases, nodes, Endpoint)
      BY <2>1 DEF QuietInv, AliasesSound
    <3>2. \A f \in Endpoint : aliases[f] # NoKey => aliases[f] \in Endpoint
      BY DEF Typed, TypeOK, Aliases
    <3>3. \A f \in Endpoint : aliases[f] # NoKey => Placed(aliases[f], all)
      BY <2>4, <2>5, <3>1, <3>2 DEF Sound, Placed
    <3> QED
      BY <2>4, <3>1, <3>3 DEF Sound
  <2>7. Sound(tab, all, Endpoint) /\ tab \in Aliases
    <3>1. Sound(tab, all, ((Endpoint \ {key}) \cap Endpoint) \cup {key})
      BY <2>2, <2>4, <2>6, SoundConnect DEF Typed, TypeOK
    <3>2. ((Endpoint \ {key}) \cap Endpoint) \cup {key} = Endpoint
      BY <2>3
    <3> QED
      BY <2>3, <3>1, <3>2, UpdateAliasesType DEF Typed, TypeOK
  <2> QED
    BY <2>1, <2>3, <2>4, <2>5, <2>7, RegisteredQuiet
<1> QED
  BY <1>1, <1>2, <1>3 DEF TaskStep

(* A wave starts with the peers that the last one found.                   *)
LEMMA NextWaveQuiet ==
  ASSUME Typed, Typed', QuietInv, NEW c \in Command, NextWave(c)
  PROVE  QuietInv'
<1> SUFFICES ASSUME settled
             PROVE  QuietInv'
  BY DEF QuietInv, NextWave
<1>1. /\ stage = "register" /\ stage' = "register" /\ UNCHANGED outerVars
      /\ UNCHANGED <<nodes, aliases, toRefresh, peersSeen, services, onlySeed>>
      /\ unstarted = {} /\ (\A t \in Task : at[t] = 0)
      /\ unstarted' = services \ visited /\ visited' = visited \cup services
  BY DEF NextWave, WaveOver, Unvisited, Crawling, crawlVars, outerVars
<1>2. NodesPlaced'
  BY <1>1, SameServers DEF QuietInv, NodesPlaced, Placed, Keys
<1>3. AliasesSound'
  BY <1>1, SameServers DEF QuietInv, AliasesSound, Sound, Placed, Typed, TypeOK, Aliases
<1>4. PeersFollowed'
  BY <1>1 DEF QuietInv, PeersFollowed, Alive, Keys
<1>5. TriedFound'
  <2> SUFFICES ASSUME NEW u \in peersSeen \cup visited \cup services, Wanted(u)'
               PROVE  (Pending(u) \/ Live(ServerOf(u)))'
    BY <1>1 DEF TriedFound
  <2>1. u \in Task /\ Wanted(u)
    BY <1>1, SameServers DEF Typed, TypeOK, Task
  <2>2. CASE u \in peersSeen \cup visited
    BY <1>1, <2>1, <2>2 DEF QuietInv, TriedFound, Pending, Live, Alive, Keys, ServerOf
  <2>3. CASE u \in services \ visited
    BY <1>1, <2>3 DEF Pending
  <2> QED
    BY <2>2, <2>3
<1>6. EveryServerFound'
  BY <1>1 DEF EveryServerFound
<1> QED
  BY <1>2, <1>3, <1>4, <1>5, <1>6 DEF QuietInv

(* The end of a crawl under which nothing changed drops no live node.      *)
LEMMA LiveNodesKept ==
  ASSUME Typed, QuietInv, settled, NEW c \in Command, Finish(c), NEW k \in Alive
  PROVE  nodes'[k] = nodes[k]
<1>1. stage = "register" /\ k \in Keys /\ k \in Endpoint /\ nodes[k].alive
  BY DEF Finish, WaveOver, Crawling, Alive, Keys
<1>2. aliases[k] = k
  BY <1>1 DEF QuietInv, AliasesSound, Sound, Keys
<1>3. k \in Kept
  BY <1>1, <1>2 DEF Kept, Range, Typed, TypeOK, Aliases
<1> QED
  BY <1>1, <1>3 DEF Finish, EndCrawl

(* The end of a crawl: what TriedFound says of the peers, with no          *)
(* registration left, is EveryServerFound.                                 *)
LEMMA FinishQuiet ==
  ASSUME Typed, Typed', QuietInv, NEW c \in Command, Finish(c)
  PROVE  QuietInv'
<1> SUFFICES ASSUME settled
             PROVE  QuietInv'
  BY DEF QuietInv, Finish
<1>1. /\ stage = "register" /\ stage' = "idle" /\ UNCHANGED outerVars
      /\ toRefresh = {} /\ toRefresh' = {} /\ onlySeed' = onlySeed
      /\ unstarted = {} /\ (\A t \in Task : at[t] = 0) /\ services \subseteq visited
      /\ \A k \in Endpoint : nodes'[k] = nodes[k] \/ nodes'[k] = NoNode
  BY DEF Finish, WaveOver, Unvisited, Crawling, EndCrawl, outerVars, Typed, RefreshedFirst
<1>2. NodesPlaced'
  BY <1>1, SameServers DEF QuietInv, NodesPlaced, Placed, Keys
<1>3. AliasesSound' /\ PeersFollowed' /\ TriedFound'
  BY <1>1 DEF AliasesSound, PeersFollowed, TriedFound
<1>4. \A s : Live(s) => Live(s)'
  BY <1>1, LiveNodesKept DEF Live, Alive, Keys
<1>5. EveryServerFound'
  <2> SUFFICES ASSUME ~onlySeed, NEW k \in Alive, NEW s \in nodes[k].peers, s \in Server,
                      Up(s), Addrs[s] # << >>
               PROVE  Live(s)
    <3>1. \A k \in Endpoint : nodes'[k] # NoNode => nodes'[k] = nodes[k] /\ nodes[k] \in Node
      BY <1>1 DEF Typed, TypeOK
    <3> QED
      BY <1>1, <1>4, <3>1, SameServers DEF EveryServerFound, Alive, Keys, Live, Node
  <2>1. s \in peersSeen \/ Range(Addrs[s]) \subseteq services
    BY <1>1 DEF QuietInv, PeersFollowed
  <2>2. CASE s \in peersSeen
    <3>1. Wanted(s) /\ ServerOf(s) = s /\ ~Pending(s)
      BY <1>1 DEF Wanted, ServerOf, Path, Pending, Task
    <3> QED
      BY <1>1, <2>2, <3>1 DEF QuietInv, TriedFound
  <2>3. CASE Range(Addrs[s]) \subseteq services
    <3>1. PICK e \in Range(Addrs[s]) : TRUE
      BY AddrsOfServer, EmptySeq, ConstantsAssumption DEF Range
    <3>2. e \in Endpoint /\ Owner[e] = s /\ e \in visited
      BY <1>1, <2>3, <3>1, AddrsOfServer
    <3>3. Wanted(e) /\ ServerOf(e) = s /\ ~Pending(e)
      BY <1>1, <3>2, ConstantsAssumption DEF Wanted, ServerOf, Path, Pending, Task
    <3> QED
      BY <1>1, <3>2, <3>3 DEF QuietInv, TriedFound
  <2> QED
    BY <2>1, <2>2, <2>3
<1> QED
  BY <1>2, <1>3, <1>5 DEF QuietInv

(* Every step keeps the quiet invariant.                                   *)
LEMMA QuietStep ==
  ASSUME Typed, Typed', OwnersInv, QuietInv, [Next]_vars
  PROVE  QuietInv'
<1> USE DEF outerVars, crawlVars, waveVars
<1>1. ASSUME NEW c \in Command, Call(c) \/ Returns(c) \/ RefreshedMeanwhile(c)
      PROVE  QuietInv'
  BY <1>1, QuietSame DEF Call, Returns, RefreshedMeanwhile
<1>2. ASSUME NEW c \in Command, CommandStep(c), ~RefreshedMeanwhile(c)
      PROVE  QuietInv'
  <2>1. ASSUME NEW k \in Endpoint, RefreshRefused(c, k)
        PROVE  QuietInv'
    BY <2>1 DEF RefreshRefused, QuietInv
  <2> QED
    BY <1>2, <2>1, BeginCrawlQuiet, RefreshQuiet, NothingToAddQuiet, RegisterPeersQuiet,
       NextWaveQuiet, FinishQuiet DEF CommandStep
<1>3. ASSUME NEW t \in Task, TaskStep(t)
      PROVE  QuietInv'
  BY <1>3, TaskQuiet
<1>4. CASE Tick
  BY <1>4, QuietSame DEF Tick
<1>5. CASE Environment /\ ~Tick
  BY <1>5
  DEF Environment, StopsOrStarts, RefusesOrAccepts, AddressFailsOrRecovers, Changes,
      RequestFails, QuietInv
<1>6. CASE UNCHANGED vars
  BY <1>6, QuietSame DEF vars
<1> QED
  BY <1>1, <1>2, <1>3, <1>4, <1>5, <1>6 DEF Next

(* It holds of every behaviour.                                            *)
LEMMA QuietCorrect == Spec => []QuietInv
<1>1. Init => QuietInv
  BY DEF Init, QuietInv
<1> QED
  BY <1>1, QuietStep, TypedCorrect, OwnersCorrect, PTL DEF Spec

(* OneNodePerServer: after a crawl under which nothing changed no server   *)
(* has two live nodes under different keys, which would run every command  *)
(* on it twice.                                                            *)
THEOREM NodesAreServers == Spec => []OneNodePerServer
<1>1. Typed /\ QuietInv => OneNodePerServer
  <2> SUFFICES ASSUME Typed, QuietInv, settled, stage = "idle",
                      NEW j \in Alive, NEW k \in Alive, Owner[j] = Owner[k],
                      Answering(Owner[k]) # {}
               PROVE  j = k
    BY DEF OneNodePerServer
  <2>1. j \in Endpoint /\ k \in Endpoint /\ Placed(j, nodes) /\ Placed(k, nodes)
    BY DEF QuietInv, NodesPlaced, Typed, RefreshedFirst, Alive, Keys
  <2>2. Reachable(j) /\ Reachable(k)
    BY <2>1 DEF Placed, Alive
  <2> QED
    BY <2>1, <2>2, KeyOfServer DEF Placed
<1> QED
  BY <1>1, QuietCorrect, TypedCorrect, PTL

(* EveryServerFound: such a crawl, unless only the seeds are to be used,   *)
(* has found the peers that its live nodes name, in whatever order the     *)
(* registrations ended.                                                    *)
THEOREM ServersFound == Spec => []EveryServerFound
<1>1. QuietInv => EveryServerFound
  BY DEF QuietInv, EveryServerFound
<1> QED
  BY <1>1, QuietCorrect, PTL

(* No server whose nodes are all alive, and that answers everywhere, has   *)
(* lost its live node.                                                     *)
LostNone ==
  \A k \in Alive :
    LET same == {j \in Endpoint : Owner[j] = Owner[k]} IN
    Up(Owner[k]) /\ (\A j \in same : nodes[j] = NoNode \/ nodes[j].alive) =>
      \E j \in same : nodes'[j] # NoNode /\ nodes'[j].alive

(* A step that puts a new node at its key, and changes other nodes of that *)
(* server only, loses none: of a server that answers the new one is alive. *)
LEMMA ConnectLosesNone ==
  ASSUME Typed, NEW e \in Endpoint, nodes'[KeyOf(e)] = Connect(e),
         \A j \in Endpoint : Owner[j] # Owner[e] => nodes'[j] = nodes[j]
  PROVE  LostNone
<1> SUFFICES ASSUME NEW k \in Endpoint, nodes[k] # NoNode, nodes[k].alive, Up(Owner[k])
             PROVE  \E j \in Endpoint : /\ Owner[j] = Owner[k]
                                        /\ nodes'[j] # NoNode /\ nodes'[j].alive
  BY DEF LostNone, Alive, Keys
<1>1. CASE Owner[e] = Owner[k]
  BY <1>1, KeyOfEndpoint, ConnectType DEF Up, Typed, TypeOK
<1>2. CASE Owner[e] # Owner[k]
  BY <1>2
<1> QED
  BY <1>1, <1>2

(* NoLiveNodeLost: no step of a crawl, and no end of a crawl under which   *)
(* nothing changed, leaves a server that answers without a live node.      *)
THEOREM LiveNodesStay == Spec => NoLiveNodeLost
<1>1. ASSUME UNCHANGED nodes
      PROVE  LostNone
  BY <1>1 DEF LostNone, Alive, Keys
<1>2. ASSUME Typed, NEW c \in Command, NEW k \in Endpoint, Refresh(c, k)
      PROVE  LostNone
  <2>1. nodes' = Rekeyed(k, KeyOf(k), Connect(k))
    BY <1>2 DEF Refresh
  <2>2. KeyOf(k) \in Endpoint /\ Owner[KeyOf(k)] = Owner[k]
    BY KeyOfEndpoint
  <2> QED
    BY <1>2, <2>1, <2>2, ConnectLosesNone DEF Rekeyed, Typed, TypeOK
<1>3. ASSUME Typed, NEW t \in Task, NewNode(t)
      PROVE  LostNone
  <2> DEFINE e == Path(t)[at[t]]
  <2>1. nodes' = UpdateNode(KeyOf(e), Connect(e)) /\ at[t] \in 1 .. Len(Path(t))
    BY <1>3 DEF NewNode, Registered, Connecting, Typed, TypeOK
  <2>2. e \in Endpoint
    BY <2>1, PathServer
  <2>3. KeyOf(e) \in Endpoint /\ Owner[KeyOf(e)] = Owner[e]
    BY <2>2, KeyOfEndpoint
  <2> QED
    BY <1>3, <2>1, <2>2, <2>3, ConnectLosesNone DEF UpdateNode, Typed, TypeOK
<1>4. ASSUME Typed, NEW t \in Task, Begin(t) \/ NextAddress(t)
      PROVE  LostNone
  <2>1. PICK i \in Nat \ {0} : Try(t, i)
    BY <1>4 DEF Begin, NextAddress, Typed, TypeOK
  <2> QED
    BY <1>1, <1>4, <2>1, TryTyped DEF Typed
<1>5. ASSUME Typed, QuietInv, settled, NEW c \in Command, Finish(c)
      PROVE  LostNone
  BY <1>5, LiveNodesKept DEF LostNone, Alive, Keys
<1>6. ASSUME Typed, QuietInv, NEW c \in Command, CommandStep(c), settled \/ stage' # "idle"
      PROVE  LostNone
  <2>1. ASSUME Finish(c)
        PROVE  settled
    BY <1>6, <2>1 DEF Finish, EndCrawl
  <2>2. ASSUME NEW k \in Endpoint, RefreshRefused(c, k)
        PROVE  LostNone
    BY <1>1, <2>2 DEF RefreshRefused
  <2>3. ASSUME RefreshedMeanwhile(c) \/ BeginCrawl(c) \/ NothingToAdd(c) \/ RegisterPeers(c)
               \/ NextWave(c)
        PROVE  LostNone
    BY <1>1, <2>3
    DEF RefreshedMeanwhile, BeginCrawl, NothingToAdd, RegisterPeers, NextWave, EndCrawl
  <2> QED
    BY <1>2, <1>5, <1>6, <2>1, <2>2, <2>3 DEF CommandStep
<1>7. ASSUME Typed, QuietInv, NEW t \in Task, TaskStep(t)
      PROVE  LostNone
  BY <1>3, <1>4, <1>7 DEF TaskStep
<1>8. Typed /\ QuietInv /\ [Next]_vars =>
        [/\ \/ \E c \in Command : CommandStep(c)
            \/ \E t \in Task : TaskStep(t)
         /\ settled \/ stage' # "idle"
         => LostNone]_vars
  BY <1>6, <1>7
<1> QED
  BY <1>8, QuietCorrect, TypedCorrect, PTL DEF Spec, NoLiveNodeLost, LostNone
=============================================================================
