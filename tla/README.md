# A TLA+ model of asadm

asadm is the administration shell of an Aerospike cluster: a Python program on
one asyncio event loop that discovers the nodes of a cluster, keeps connections
to them, sends them info and admin requests, and presents what they answer.
This directory holds TLA+ modules that model its stateful parts and the
algorithms over what it collects, TLC configurations that check them on small
instances, and proofs that hold for every instance. Paths below are relative to
`src/`.

## 1. The system

| component | where | state | operations |
|---|---|---|---|
| shell | `asadm.py` | prompt, privileged mode, queue of lines | `precmd`, `cmdloop`, enable/disable, exit |
| command dispatch | `lib/base_controller.py`, `lib/live_cluster/live_cluster_root_controller.py` | tree of controllers, modifiers of the line (`mods`) | `execute`, `_find_method`, `parse_modifiers` |
| cluster | `lib/live_cluster/client/cluster.py` | `nodes`, `aliases`, `node_lookup`, `_live_nodes`, time of the last crawl | `_crawl`, `_register_node`, `call_node_method_async` |
| node | `lib/live_cluster/client/node.py`, `assocket.py` | socket pool, session token, port, `alive` | `connect`, `login`, `_get_connection`, `_info_cinfo`, `_admin_cadmin`, `close` |
| request cache | `lib/utils/util.py` (`async_cached`) | one entry per request, with an end of life | `__call__`, `__await__` |
| wire protocol | `lib/live_cluster/client/info.py` | none | framing, log-in, authentication, admin commands |
| management commands | `lib/live_cluster/manage_controller.py` | what was read before the user confirmed | users, roles, roster, jobs, truncate, quiesce, config |
| getters, show, info, summary, health | `lib/get_controller.py`, `lib/live_cluster/*_controller.py` | none | concurrent requests, aggregation |
| collectinfo | `lib/live_cluster/collectinfo_controller.py` | debug handler, output directory, failed commands | the phases of a capture |
| log analyzer | `lib/log_analyzer/` | file positions, merge heap of iterators | index, slices, merge, latency |
| health checker | `lib/health/` | query variables, keyed vectors | parser, vector operations |
| lookup dict, config schemas | `lib/utils/`, `client/config_handler.py` | dictionary; schema | prefix lookup; validation |
| collectinfo analyzer, views, parsers of system commands, conf files | `lib/collectinfo_analyzer/`, `lib/view/`, `sys_cmd_parser.py`, `lib/utils/conf*.py` | files read, tables laid out | sequential text processing |

How they interact. A line typed by the user becomes commands; a command asks
the cluster to call a method on a set of nodes; the cluster refreshes itself
first when its last crawl is older than three seconds (`_refresh_cluster`, under
one lock), and then awaits the method on all nodes at once. A node method sends
one or several info requests through the cache, which share a request that is
under way and reuse an answer for half a second; a request takes a socket from
the node's pool or opens and authenticates one, and puts it back. A failing
request marks the node as not alive; a crawl reconnects each node, follows its
service addresses, and registers its peers.

What is hard. Everything runs on one thread, but coroutines interleave at each
`await`, so state that is read before an await is stale after it: the pool that
a refresh replaces, the session another request renewed, the alias table another
registration fills, the roster that was read before the user confirmed. Servers
restart, refuse, turn security on, drop connections; addresses go away and come
back. What makes each part correct:

* node: a socket carries one conversation, is authenticated before use, and is
  never forgotten; an error means that nothing was applied; requests end;
* cache: one request per run, bounded staleness, no failure from before the call, nobody stuck;
* cluster: one node per server, commands see complete node sets, every reachable
  server is found, crawls end;
* management: what is written is what was read and confirmed;
* shell: privileged commands only in privileged mode, every command of a line runs;
* collectinfo, log analyzer, health: what is merged, sliced and aggregated is
  what the files and nodes hold.

## 2. The modules

| module | models | composed with |
|---|---|---|
| `NodePool` | the connections and the log-in session of one node | stands alone: its callers are the requests of `AsyncCached` and the refreshes of `Cluster` |
| `NodePoolProofs` | proofs about `NodePool`: its sockets, how large a pool gets, and a node whose server keeps connections and sessions | extends it |
| `StaleReads` | what a cache with a time to live promises | the abstract specification of `AsyncCached` |
| `AsyncCached` | the request cache of a node, for one key | implements `StaleReads` by the mapping `Promise` |
| `AsyncCachedProofs` | proofs about `AsyncCached`, the refinement among them | extends it |
| `Cluster` | crawls, registrations, aliases, and the commands that wait for them | takes a whole `connect` of `NodePool` as one step |
| `ClusterProofs` | proofs about `Cluster` | extends it |
| `Requests` | what every method of a node asks of its server | the vocabulary of the commands |
| `Commands` | words, modifiers, arguments, and the plan of a command | extends `Requests` |
| `Manage` | every command that changes the cluster | extends `Commands` |
| `Reports` | every command that reads the cluster and shows it | extends `Manage` |
| `Collectinfo` | the command that captures the cluster into files | extends `Reports` |
| `Session` | the shell, the calls, the cache of answers, the servers, another administrator | extends `Collectinfo`: any command line runs in it |
| `ManageProofs` | proofs about the plans of the commands that change the cluster | extends `Collectinfo` |
| `ReportProofs` | proofs about the plans of all other commands | extends `ManageProofs` |
| `SessionProofs` | proofs about `Session` | extends `ReportProofs` and `Session` |
| `LogFile` | one server log: its index by hours, the window and the blocks of a search | |
| `LogStreams` | the rows that grep, count, diff and histogram make of a log | extends `LogFile` |
| `LogMerge` | the merge of the rows of several logs into pages | extends `LogStreams` |
| `LogAnalyzer` | the lists of logs and the commands over them | extends `LogMerge` |
| `LogMergeProofs` | proofs about what counts and differences read, their rows, the merge and the pages | extends `LogAnalyzer` |
| `Capture` | the data of a snapshot, made of the answers of the nodes | |
| `CollectinfoLog` | what the analyzer loads of the files at a path | extends `Capture` |
| `Health` | the query engine of the health checker and a part of its queries | extends `Capture` |
| `Analyzer` | every command of the collectinfo analyzer | extends `CollectinfoLog` and `Health` |
| `Offline` | asadm without a cluster, as one of the two analyzers | extends `LogAnalyzer` and `Analyzer` |
| `Values` | one operator: compute a value once | |
| `BasicFacts` | lemmas: the least of some numbers, induction up to a number, sequences | extended by three of the modules with proofs |
| `MC...` | instances for TLC | extend the module they are named after |

There are three compositions. The *connection* modules (`NodePool`,
`AsyncCached`, `Cluster`) each interleave coroutines of one part of the client.
`Session` puts the commands above them: a request there is one step, answered,
refused or lost, and a cache entry is there or not, which is what the three
modules below it leave of a request. `Offline` has no cluster; `Capture`, the data
that the capture writes, is the beginning of what its analyzer reads.

### NodePool

One `Node` object, used with a user name. State: `port`, `pool`/`poolPort` (the
one entry of `socket_pool`), `alive`, `performLogin`, `token`, `expired` are
attributes of the node; `open`, `up`, `authed`, `secure` are what the network
and the server make of its sockets; `pc`, `conn`, `lconn`, `at`, `applied`,
`out` are the local state of each coroutine; `stage`, `home`, `todo`, `wanted`,
`part` that of the one `connect` that can run (the crawl's lock allows no second).

An action runs from one `await` to the next, so two coroutines interleave
exactly where asyncio switches between them:

| code | actions |
|---|---|
| `_get_connection` | `StartRequest`, `ProbeAnswered`, `ProbeFailed`, `Discarded`, `Dialled`, `DialFailed`, `Authenticated`, `LoginAgain`, `AuthRefused`, `AuthRaised` |
| `login` | `LoginDialled`, `LoginDialFailed`, `LoggedIn`, `LoginNoPool`, `LoginRefused`, `LoginRaised` |
| `_info_cinfo`, `_admin_cadmin` | `InfoReplied`, `InfoEmpty`, `AdminReplied`, `AdminRefused`, `RequestBroken` |
| `connect`, `refresh_connection`, `close` | `StartConnect`, `Drain`, `Reinitialize`, `NextAddress`, `AddressAnswered`, `Connected`, `FakeNode`, `RaiseRefusal`, `CloseNode` |
| the `gather` in `connect` (node.py:330) | `TryAddress`, `BeginGathered`, `GatherEnded`, `Unresolved` |
| `_receive_data` | `Spin` |
| outside | `Executed`, `ConnectionDrops`, `ServerRestarts`, `SessionExpires`, `SessionRevoked`, `Collect` |

At each service address but the one in use `connect` gathers `info_node()`,
`_update_IP()` and `info_peers_list()`. The requests among them run at the same
time, each with a socket of its own and each able to log in, so they are calls of
their own (`wanted`, `part`): they take the place of idle members of `Call`, and
count wherever calls are counted. `Peers` is what `info_peers_list` asks; with
alumni it is a second request, which then has a place too. When the address does
not resolve, `_update_IP` raises, `gather` with it, and the requests go on without
anybody waiting for them (`Unresolved`); the node's id stays what it was. The first
address, which is the one in use, is taken to resolve.

A `KeyError` for a port that has no pool is modelled where the code meets it: it
reads as an empty pool in `_get_connection`, closes the socket in
`_info_cinfo`, fails the call in `_admin_cadmin`, and abandons the sockets in
`login`.

### AsyncCached and StaleReads

The cache for one key; entries of different keys share nothing, and a call with
`disable_cache` does not touch it. `entry` and `eol` are the dictionary's entry;
a run is a `_CacheableCoroutine` with its `state`, its result `got` and the
`queue` of its `asyncio.Lock` (first in, first out). `Hit` and `Miss` are
`__call__` and the beginning of `__await__`; `Finish` is the return of the
request in the call that made it; `Woken` is a waiter that gets the lock. A
request brings a value, raises, or *returns* an exception (a node that is not
authenticated does, info.py:325, 339, and so do other answers the server
refuses). The last is stored as the result of its run; whoever awaits the run
after that is raised it, the first one is returned it, and only when it was raised
does the entry stop being usable (`refusal`, `Outcome`, `Reraise`). The value a
request brings, or the refusal, is the number of the server's write that it saw, so
that "older" means something. `made`, `late`, `asked`, `floor`, `newest` are history
variables: no action's guard reads them. No call is cancelled: asadm runs
commands with `asyncio.run`/`await` only, and an interrupt ends the loop.

`StaleReads` says what a user of the cache may rely on: an answer, be it a value or
the server's refusal, was current at the server less than `TTL` before the call was
made, or later; the failure of a request (a lost connection, a timeout) is one that
occurred while the call waited; which calls share a request is left open. A refusal
is thus not fresher than a value: a call that comes after the user has logged in can
still be raised the refusal of before.

### Cluster

`nodes` maps the endpoint a node is used at to what the last connect learnt,
`aliases` the other endpoints to that key. A command (`Call`) that finds the
cluster `due` queues for `crawl_lock`; the first crawls: `BeginCrawl`, one
`Refresh` per node (`find_new_nodes`), then waves of registrations. A
registration looks an endpoint up (`Begin`, `Try`), awaits a connect, and adds
the node in the step that ends the await (`NewNode`, `NextAddress`), so that two
registrations of a wave can connect to the same server at once. `Finish` is the
end of `_crawl` with `clear_node_list`. Two `Node` objects that are created for
the same key within a wave are one entry here, as they are in the dictionary.

`node_lookup` is the part of the look-up dictionary that ids lead through: it is
written when a node is registered and when a refresh changed its key
(`UpdateLookup`). Names of the other kinds are looked up in `Commands`
(`get_node`), over a dictionary that does not change.

A connect to an endpoint ends at `KeyOf` of it: the first service address of its
server that answers (`Answering`), or the endpoint itself when none does or when
nothing is there.

Servers stop and start, addresses fail and recover, and servers refuse and
accept log-ins, at any time, `MaxChanges` times. `settled` is a history variable:
nothing changed since the last crawl began, which did not fail, and which began
with nodes or without aliases (see the findings for the crawls that did not).

### Session, with Requests, Commands, Manage, Reports and Collectinfo

A live session. A command is a sequence of words. `Planned` dispatches it as
`BaseController.execute` does and returns a *plan*: the steps it takes for the
answers there are, up to the first call that has none. So each controller is one
operator that reads like its `_do_default`: it parses its modifiers
(`pre_command`), calls (`Call`), asks (`Confirm`), tells (`Tell`, `Shows`), and
goes on with the answers. When a call is over, the plan is made again. A method
that finds nothing to ask is over at once (`Pending`). What the code computes in
a loop over words is a fold here, so that the plans can be proved about.

| code | here |
|---|---|
| a method of `node.py` | an operator of `Requests`: a sequence of requests, each with what its loss does to the method |
| a controller of `manage_controller.py`, `show_controller.py`, `info_controller.py`, ... | an operator of `Manage` or `Reports` of the same name |
| a getter of `get_controller.py` | a section of a report: the methods it asks of each node and what becomes of a node that fails |
| `_run_collectinfo` and its phases | `Collectinfo`; files and captured commands are requests to the machine `Here` |
| `precmd`, `cmdloop` | `Begin`, `End_`, and `Say`, which ends a script at an error |
| `do_enable`, `do_disable` | `Enable` |
| `prompt_challenge` | `AnswerPrompt`: the user confirms or the command ends |
| `call_node_method_async`, gathered tasks | `BeginCall`, `EndCall` |
| the answers of a server | `AnswerFromCache`, `Answered`, `Refused`, `Lost`, of one request of one node |
| outside | `Expire` (the oldest answer is kept no longer), `OtherAdministrator` |

State: `line` is the commands to run, `todo` the plan of the first and `pc` how
far it is; `seen` the answers of its calls, `left` and `got` the call under way;
`mods` the one dictionary of modifiers that all controllers share; `privileged`,
`warn` the shell's modes; `cache` the kept answers; `held` what the servers hold. Answers
are kept from one command to the next: `Expire` lets the oldest go, between two
commands or while the user is asked, or does not. `sent`, `earlier`, `moved`,
`failing` are history variables. A request's value is a sequence
of words, its object a tuple; what a server does with a change is `Changed` (set,
add, remove). `Numbers` are the words that are whole numbers: a quota that is none
ends its command before the user is asked. The stability of the cluster, which the
commands for the roster look at, has the three outcomes that the code goes through
the answers with: stable, unstable, or an exception.

### Offline: LogFile, LogStreams, LogMerge, LogAnalyzer

A log is a sequence of lines: a time or none, the words that a search may look
for, numbers next to them, or a piece of a histogram's dump.

| code | here |
|---|---|
| `LogReader.generate_server_log_indices` (leaps and binary search) | `generate_server_log_indices`, `Leap` |
| `ServerLog.set_start_and_end_tms`, `set_file_stream`, `next_line`, the blocks of `read_latency` | the operators of `LogFile` of these names, `Wanted`, `Beyond` |
| `ServerLog.show`/`count`/`diff`, `LogLatency.compute_latency` | `LogStreams`: the sequence of rows a generator yields |
| `LogHandler._server_log_output_merger` | `LogMerge`: a record of iterators; a round takes the rows of the smallest time |
| `add`, `select`, `remove`, `grep`, `count`, `diff`, `histogram` | `Command`, then `MergeStep` until a page's loop ends, then `Prompt` |

The last row of a difference is the dictionaries of its last slice once more, not
cleared, with the flag `diff_end` added (server_log.py:692-701): when that slice has
been yielded it is repeated as totals. When the slice began a page, the page's
dictionaries are those very ones, and they get what else is put on that page, and
lose the flag when the view shows it (`Shared`, `Shown_`); what the last page shows of
them is therefore computed from the page. What else the view writes into the
dictionaries it is given (names of rows) is left out.

A command's generators run lazily in the code; no file changes under way here, so
what they will yield is computed when the command begins, and the merge takes it
round by round. The merger relies on what its streams are like, `FitToMerge`: the
rows of a log follow each other in time, its totals come last and show its last
slice again or no slice, and all rows have the same columns. Counts and differences are like that (section 4; `CountsAddUp`
and `DiffsAddUp` also check it of every finished search).

### Offline: Capture, CollectinfoLog, Health, Analyzer

`Capture` turns the answers of nodes, any of which may be an exception, into the
dictionary `_get_collectinfo_data_json` writes. `CollectinfoLog` looks for files in
directories and archives, merges what it parses and keeps the newest snapshot.
`Analyzer` answers a command line from it: `Answer` is one whole command, with the
tables it shows; `Read` goes back to the prompt.

`Health` is the engine below `health`. A keyed vector is a function from paths,
sequences of (name, tag), to values; `select_keys`, `do_multiple_group_by`,
`AggOperation`, `BinaryOperation`, `do_assert` transform them, and
`_execute_queries` folds `QUERIES`, a list of statements, over the variables. A
statement that raises keeps the old value of its variable and counts an
exception, as the code does.

## 3. What is checked

| run | question | result |
|---|---|---|
| `pool_faults` | are sockets exclusive, authenticated and accounted for when connections drop, servers restart with or without security, and sessions expire or are revoked? how far can the pool exceed its maximum? | yes; by two log-ins of each concurrent call but one |
| `pool_moved` | are sockets accounted for when the service port is not the port the node was reached at, and a connect has two requests at an address at once? | yes |
| `pool_calm` | with a stable server: is no socket lost, the pool within its maximum, an admin error a sign that nothing was applied; do requests and refreshes end? | yes |
| `pool_admin_error` | "Returns: 0 on success, ASProtocolError on fail": does an admin error mean failure after the port moved? | no, see findings |
| `pool_hang` | does a request give up when its connection ends in the middle of a reply? | no, see findings |
| `cache` | one request per run, bounded staleness of values and refusals, no failure from before the call, monotonic answers, all calls answered? | yes |
| `cluster_pair` | one node per server, every peer found, no live node lost by a crawl, commands see finished node sets, no command stuck? | yes |
| `cluster_ids` | "If node 100% matches a known nodes (object) ip, id, or fqdn then return it": does the id of every live node lead to it? | no, see findings |
| `cluster_address` | "node should try all old service addresses": is a server found that answers at one of its addresses? | no, see findings |
| `session` | every command in one or several lines, with answers kept between them, a refusal or a loss at any request (two in changes at several nodes) and another administrator: are changes confirmed first, do they reach no node but those named, is their outcome told and true, are reports of the nodes that were named, is a capture complete or told to be not, is no command of a line passed over? | yes |
| `script` | "'manage roster add' is used to add node(s)": does a second add keep what the first added? | no, see findings |
| `offline` | do searches show the lines of their window once and in order, are the pages of several logs tables that lose no row, do counts, differences and shares add up, do reports show what the snapshot's nodes answered, does the health checker accuse exactly the guilty, do searches end? | yes |

`CHECK_DEADLOCK FALSE` is set for `NodePool` and `Offline`: a node that was closed,
whose first connect failed, or whose coroutine spins does stop, and so does an
analyzer that could not load anything or whose log is read for ever.

Some properties hold only under a condition, which is part of them:
`NeverBackwards` needs every request to be answered before its entry expires
(`~late`): a request that takes longer than the half second is replaced, and its
older answer may arrive after the newer one. `OneNodePerServer` and
`EveryServerFound` speak of crawls during which nothing changed (`settled`): an
address that fails between the two registrations of a load-balanced server
leaves two live nodes until the next crawl; when a request to one of the two then
fails, that crawl may keep it and drop the other (`NoLiveNodeLost` excepts this).
`OneNodePerServer` speaks of servers that answer at an address they publish,
`EveryServerFound` of peers that publish one, `NoLiveNodeLost` of every step
within a crawl and of the end of a crawl that is `settled`.
`RosterAddKeeps` allows for what another administrator put in after the roster was
read: nothing locks it between the read and the write. `SuccessMeansDone` allows a
change to be told as done that was not sent, when a command before it in the line has
carried out the same change and its answer is still kept: that is what the code
does. `ReportOfSelected` names the reports that show other nodes than the command
does (`OfEveryNode`: parts of `info with`, `show latencies` in a cluster of mixed
versions, `show pmap`, which ignores `with`); of all others, after whatever commands,
it wants the nodes named. `PagesAlike` lets the last page of a difference repeat
times of the page before it, with the same cells, and no other. `GrepShowsTheLines` excepts
the log that is sought past (`SoughtPast`, below), `SharesOfAll` servers that
restarted.
`ReportShowsTheDump` promises a node's data when the builds and lists that it
takes to tell came too (`Knows`); `AccusesTheGuilty` requires a verdict of a check
when all its answers came (`CheckApplies`), and wherever there is one requires it
to be right.

### Bounds

* `NodePool`: two calls are enough for every pair of coroutines to interleave, a
  third only waits for the same pool; with a pool of one socket it is full,
  empty and overfull; two calls hold at most two sockets each, `pool_faults` and
  `pool_calm` have one for each, and that many are past the maximum by more than
  the log-ins, so that an add without a limit is found. `pool_moved` has three
  calls, for a connect and its two gathered requests, and three sockets. Two ports
  give the node one service address that is the seed and one that is not. `PoolWithinMaxAndLogins`
  is checked with one port, where nothing is gathered: with two ports and sockets
  enough to break it no run ends in time. For those it is proved.
* `AsyncCached`: two calls share or do not share a run; three runs are an expired
  one under way, its successor and a fresh one; one write separates old from
  new; two ticks let an entry of life time one expire twice.
* `Cluster`: the pair has a server with two addresses and one that is reached
  through an endpoint that is not among its service addresses. It begins with two
  seeds that are endpoints of one server and register in the same wave; the other
  server is found through its peer. Two changes are a
  failure and a recovery, or two failures, `cluster_address` needs one. Two
  commands are the one that crawls and one that waits.
* `Session`: two nodes, of the versions before and after most of the version
  tests of the code, the newer one the principal, with addresses of which one is
  the beginning of the other; one namespace, index,
  datacenter. Every controller has a line, with a form for each of its paths;
  lines with several commands show what one leaves to the next (modes, modifiers,
  cache, snapshot): the same change again, an undo between two changes, a report after
  a filter, a second health check. One fault can hit every request of every command
  (`MaxFaults` is a bound for each line), and two any two requests of the changes that
  go to several nodes, where one node can refuse and another's answer be lost in one
  call. One change of the other administrator, at any
  moment of a command. Requests of a call that only reads are answered in one
  order: nobody can tell another.
* `Offline`: logs of at most 14 lines over several hours of four ticks, blocks of
  two lines with one in two required, so that a search leaps, meets empty hours
  and passes over blocks; two logs merged, a third that replaces one. A snapshot
  has two nodes of the same or of different server generations (before 4.2,
  before 5.0, after), each request lost at each node, some pairs of them, and
  every kind of place it can be in.

Symmetry is used for the safety runs of `NodePool` only, over calls and sockets,
which no constant and no action tells apart.

### Fairness

`NodePool` (weak fairness of `CallStep`): asyncio resumes a coroutine whose await
is over; a server that holds a connection answers. Users, drops, restarts and
sessions owe nothing. `EveryConnectEnds` assumes in addition that requests do
not come for ever, since `close()` pops until the pool is empty.
`AsyncCached` (weak fairness of each call's step and of each run's `Read`): the
same, seen from the cache. Nothing makes a call, a write or a tick happen.
`Cluster` (weak fairness of a command's and of a registration's steps): the event
loop, and connects that end, which `pool_calm` shows of a stable server.
`Session` assumes none and claims no liveness: a request of it is answered or fails
only if that of `NodePool` ends, and `pool_hang` shows one that does not.
`Offline` (weak fairness of `MergeStep`): the loop of a generator goes on.

### Findings

* `pool_admin_error`: `connect` creates the pool for the port the node was
  reached at and then moves `self.port` to the service port. From then on
  `_admin_cadmin` raises `KeyError` at `socket_pool[port]` when the server has
  already executed the command. `_info_cinfo` expects the error and closes the
  socket.
* `pool_hang`: `_receive_data` does not look for the end of the stream; when the
  connection closes in the middle of a reply it loops without ever suspending.
* `script`: `manage roster add` reads the roster through the cache of answers and
  writes back what it read with the new nodes. A second one within half a second,
  as in a script, reads the roster of before the first and removes what that
  added. Everywhere else (`session`, with one roster command to a line) the property
  holds.
* `cluster_address`: a node whose address stops answering is replaced by a fake
  node with that address alone, and the fake node then stands for its server.
* `cluster_ids`: an id is entered for look-up when a node is registered alive or
  its key changes. A node that was down when it was registered and recovers at
  the same address is live but not found by its id; when it is the one with the
  greatest id, every command for the principal fails.

Not among the runs: `login` adds its socket to the pool without looking at the
maximum, so `PoolWithinMax` holds in `pool_calm`, where no session ends, and
only `PoolWithinMaxAndLogins` in `pool_faults`. One log-in for each other call was
our first bound; its proof failed, and with three calls and three ports TLC found
the pool larger: log-ins come twice, when a connect tries the pool's port among
the service addresses, and again when it gives up and goes back to the port it
began at. The bound is two for each other call, where the requests that a connect
gathers are such calls.

### Behaviours met while modelling

The modules take these paths as the code does; no document of the repository says
otherwise, so no run is about them.

Crawls. The first three came up as steps of a proof that could not be taken, and
TLC found each of them:

* Nodes have all gone while aliases are left (a refused crawl has emptied `nodes`,
  or every node was closed): a crawl that begins with the seeds does not empty
  `self.aliases`. A seed that is an alias of a key without a node is passed over,
  or its node is closed as a duplicate, until the old key answers.
* A server has two nodes, and an address of it recovers under the refresh:
  `find_new_nodes` moves the first node to the key of the second, with all aliases,
  and then the second one on to the recovered address. `update_aliases` swallows
  the `KeyError` of the key that is gone now and leaves the aliases there, so
  `clear_node_list` closes the live node. The next crawl finds it again.
* A server that answers at endpoints it does not publish only has a node for each.

Commands:

* `collectinfo --ignore-errors`: the first file that fails closes the coroutines
  of the later ones, so the archive ends there; the JSON dump looks at another
  flag than the rest.
* `manage truncate ... --no-warn` is always refused: the word is not taken out of
  the line it is then validated in (manage_controller.py:2266).
* The modifiers of an earlier command stay in the shared dictionary: after `show
  config service like x` the users that `show users` shows are filtered by x
  (show_controller.py:986), and the roles of `show roles` as well.
* `info with A` shows the namespaces of all nodes; `latencies` ignores `with` in a
  cluster of mixed versions, `show pmap` always; one failing node ends `show best-practices`, XDR
  statistics, truncate and indexes with a context for all.
* `jobs kill trids` passes over ids it does not know and looks for an id in the
  first module that has it only.
* A name that is an id or an address with its port is looked up as a prefix too:
  it selects every node whose id or address begins with it. Without reverse name
  resolution the name of a host is its address, which then counts as two matches,
  so that `with <address>` finds nobody. What was entered for look-up stays when
  the node moves or goes.
* A change that is repeated within the cache's life is not sent again, and told as a
  success by the kept answer; it is not in effect when what undid it came between.
* A word of the shell itself in a `;` list drops the rest of the list.
* A live health check uses a snapshot of less than a minute ago.

Log analyzer:

* A search that begins in an hour without lines, followed by lines of the last
  hour only, is sought to the end and shows nothing (`SoughtPast`).
* A log whose last line has no time is read for ever when it is added
  (`read_line` at the end of the file).
* `-u` raises for every line; `diff -t 0` divides by zero; `count -t 0` never ends
  (left out of the instance).
* Two files of one node replace each other.
* `diff`: a log whose first matching line has the strings in another order is
  dropped; a slice with the key and no value resets the difference; the last slice
  is shown again on the last page when a page ended with it.
* `histogram`: the dump at the end of a log is lost; after a restart of the server
  shares are clamped; units that differ are an error that is swallowed.
* An index of 0 or below counts from the end; of times that can not be parsed
  only `grep` tells.

Collectinfo analyzer and health checker:

* A node of the newer XDR whose XDR configuration was lost hides that of all.
* A node whose build was lost has its histograms read in the old format.
* `show udfs`, `sindex` and `racks` raise when any node's service statistics were
  lost or the principal is not among the nodes.
* An invalid `ascinfo.json` ends the parsing of all files, a garbled one raises;
  only the first faulty namespace name is corrected.
* One node that fails the statistics of an index makes the whole dump fail.
* A statement over two variables without `on common` raises when one node lacks
  one of them, and all checks after it with it; a variable that failed keeps the
  value of the check before.
* query.py:1507 and 1532 lack the `;` after their version constraint, which so
  swallows the statement after it.
* The state of an index of the last node that lists it overwrites the others, so
  "SINDEX not in sync with primary" accuses all nodes or none; "UDF not in sync
  (not available on all node)" does not count nodes without any UDF.

## 4. What is proved

For all values of the constants (`ConstantsAssumption` of each module says what
is assumed: a pool maximum and a life time of at least one, and markers that are
not elements of the sets they are markers for). `SessionAssumption` says that lines
are sequences of words and the bounds numbers, `CommandsAssumption` that names
lead to nodes, an own name among them, and that the principal is a node.
`LogAnalyzerAssumption` says that a log has at least one line and times that are
numbers, that slices take time (`-t 0` is left out, section 3), and that a start
counted from the end of a log is not before time 0.

`NodePoolProofs`: `TypeOK`, `ExclusiveSockets`, `AuthenticatedUse` and
`SocketsAccountedFor`. None of the last three is inductive: a step that pops a
socket must know that no call has it, and a step that sends must know what was
authenticated when. The invariant `IInv` adds which sockets a call has at each
await and whether they are open (`CallSockets`: a connect that gathers has none, its
requests have their own), that one connect runs at a time and where it is
(`OneConnect`), that an abandoned socket is in no pool and no
call (`LostIsNobodys`), and that what a call can pick up without authenticating
it is authenticated (`PooledAuthenticated`). One lemma for each action shows
that it keeps `IInv`, one step for each conjunct.

`AsyncCachedProofs`: `TypeOK`, `AwaitedOnce`, `NeverBackwards` and
`KeepsPromise`, the refinement of `StaleReads`. The invariant ties the request
under way to the head of its run's lock queue (`OneInside`, `QueuedOnce`), an
entry's end of life to the time its run was made (`EntryMade`), what a run has
read to that time (`ReadSinceMade`), and a waiting call to the youth of the run
it joined (`JoinedYoung`): together they bound the age of an answer by `TTL`. That a
returned exception belongs to a run that ended with a result (`RefusalEnded`) makes
its age that of a value.
`Order` relates the answers to each other: while no entry expired under way only
the entry's request is, and its answer is the newest of all. The simulation has
a lemma for each action: a hit answers or asks, a miss asks, a finished request
answers its call or fails all that wait, a woken call takes its share, the
server's read is a stutter.

In `NodePoolProofs`, `PoolWithinMaxAndLogins`, for finitely many calls, gathered
requests among them, and any ports. Returned sockets look at the size of the pool, sockets of log-ins do not,
so the invariant `SizeWithin` counts the pool together with the log-ins that can
still come (`Late`: calls that will dial at the port of the pool), and `HomePort`
says how often a connect can set the node back to that port: once on its way
through the service addresses, once at their end. Steps of one call change both
counts by at most one, a step that empties the pool restarts the count.

Also there, `NoSocketLost`, `PoolWithinMax` and `AdminErrorMeansUnapplied`
of a node without drops, restarts and ended sessions and with one port, the
hypothesis `CalmServer`, which is what `MCNodePool_calm.cfg` sets. The invariant
`Calm` says why nothing fails there: sockets that are open are up (`AllUp`), who
has logged in has a session (`SessionHeld`), nobody but the first connect logs in,
before anybody else has the node (`FirstLogin`), and every request goes to the
port of the pool (`OnePort`). `NoFailures` then excludes fourteen of the actions.

`ClusterProofs`: `TypeOK`, `CommandsSeeWholeSets`, `OneNodePerServer`,
`EveryServerFound` and `NoLiveNodeLost`, for any servers, addresses and graph of
peers, and that crawls exclude each other (`CrawlsExclude`). `LockInv` ties the
crawl to the head of the queue for the lock; while one runs the cluster is due
(`DueWhileCrawling`), so that nobody goes on past it. `OwnersInv` says that an
alias is an address of the server that it leads to. What a crawl promises of its
result has to be said of each of its moments, which is `QuietInv`: nodes that
were gone through are at the key that a connect finds (`NodesPlaced`), aliases lead
to such keys (`AliasesSound`), and a peer of a live node has a live node, or a
registration that has yet to come or is under way (`PeersFollowed`, `TriedFound`).
It is kept by every step as long as nothing changes, in whatever order the
registrations of a wave end; that the first answering service address is the key
of all addresses of a server (`KeyOfServer`) makes two registrations of one server
meet. `Min` is a `CHOOSE`, and `MinIsLeast` (`BasicFacts`) shows that it chooses.

`LogMergeProofs`: `PagesAlike` and `EveryRowShown`, for any logs, commands and sizes
of a page. They are theorems of `LogSpec`, which is what `Offline` does in the mode
of the log analyzer, without the other mode, from any path that exists.
The proof has three parts. *The logs*: those listed can be read to their end, and
those selected are listed (`Listed`), after any adding, selecting and removing.
*The rows*: whatever blocks a search passes over, the lines it reads are lines of
the log (`BlocksRead`), those asked for have times (`AskedTimes`), a search starts at
a number (`StartsAtTime`), and so the rows of a count begin one slice after the
other (`CountFits`). Those of a difference are written as lines go by and slices are
jumped; `DiffInv` says that the slice under way is later than all rows, or was the
last (`DiffFits`). The last row repeats the row before it or none. Hence what the streams of a command yield always has `FitToMerge`
(`RowsFitTogether`). What a recursive function computes is here shown with
`InductionUpTo`, for one number and one set of numbers at a time: first that the
function exists, then that each of its values keeps an invariant. *The merge*: its
invariant, `MergeInv`, says of the middle of it what the properties say
of its end: the page under way has the same columns and times for every log, or
nothing (`PageAlike`); a log that waits, waits with a row later than all that is on
a page (`Cursors`, `TimesPassed`), so that a round adds one new time to all of them;
every row before it is on a page, or kept for the last one if it is the totals
(`RowsKept`, `Ends`). The totals of a difference that show a slice again are those of
dictionaries which a page may share (`Sharing`): whatever is added to them is on a
page as well (`TotalsShown`). For a count nothing is shared, and no page but the last
has a cell without a time (`PlainPages`). A log without rows has the default wherever it has a cell
(`NoRowsNoCells`), so that its made-up totals change nothing. No round meets wrong columns (`OneSetOfColumns`), hence none
raises. The last page adds the totals, those of a log without any being made up
(`BalancedTotals`). The totals of a count are at no time and in the same places for
every log; those of a difference can be at the time of its last slice, where the
last page then shows the cell that an earlier page has.

`SessionProofs`: `TypeOK` and `ConfirmedFirst` of a live session, for any nodes and
versions, any lines, whatever the nodes answer, whatever is refused or lost, and
whatever another administrator does. The plan of a command is made anew after each
of its calls, so the proof has two halves: what the plans of all commands are like,
and what a session does with one.

*The plans.* With more answers a plan goes on as it began: the steps it had are the
same, and only what follows them is new (`Grows`). Where the user is to be
warned, nothing is sent that changes a cluster before a step that asks
(`AskFirst`), but for what is never asked: reclustering and new functions.
`ManageProofs` proves both of every controller of `manage`, one lemma for each,
from lemmas about the few ways they put plans together: a first step and the rest,
a call and what is made of its answers, a confirmation, modifiers taken from the
line. `ManageControllerBehaves` is their sum. `ReportProofs` proves of each of the
other controllers that its plan is `Quiet`: it only calls, only reads, and shows
(`ShowControllerQuiet`, `InfoControllerQuiet`, `CollectinfoControllerQuiet`; the
latter writes files, which are requests to `Here`). It also proves that
what modifiers are parsed into are lists of words again (`GroupsAreLists`), which
the names given to nodes and the arguments of changes depend on. `RootLawful`, in
`SessionProofs`, joins them: whatever the words of a line, the plan asks for no
change unless it is of `manage` and has the privilege, and asks the user first.
These lemmas are about operators and contexts, so they hold of any answers, those
that no run of TLC gives included.

*The session.* `ConfirmedFirst` says what was sent, and is not inductive: a step
that sends must know that what is left of a call may be sent (`LeftAllowed`), and a
step that begins a call, that what is left of the plan is a tail of the plan that
the answers so far determine (`OnPlan`). That the plan asks first then means that
the user *was* asked only if every question that was passed was answered with yes,
which is `Unasked`: without a confirmation there is no question among the steps
taken. When the last answer of a call comes the plan is replaced, and `Grows` says
that the part already taken stays what it was. `SentAllowed` carries the property,
`NotToggling` that a command that takes the privilege away sends nothing, and
`Recorded` that answers are of nodes. The conjunction is `IInv`. TLC also found it
invariant in both instances of `Session` before it was proved.

Model-checked only:

* the liveness properties (`EveryRequestEnds`, `EveryConnectEnds`,
  `EveryCallAnswered`, `EveryCommandGoesOn`, `Settles` of `Offline`), since the
  prover does not handle `ENABLED`;
* `Session`: `OutcomeTold`, `SuccessMeansDone`, `ReportOfSelected` and
  `CollectedOrTold` relate what was told to the answers that were given, so they need
  of each command what each of its answers makes it say, where `ConfirmedFirst`
  needs only what it asks. `NonePassedOver` needs the same of the steps that tell
  an error. `ChangedWhereNamed` is about the lines of the instance: a
  command that goes to the principal whatever it is told, like `manage recluster
  with A`, breaks it for arbitrary `Lines`. `RosterAddKeeps` is violated in one
  of the two instances (`script`);
* `Offline`: that `grep` shows the lines of a log and that counts, differences and
  shares add up relates the whole of a recursion to what is counted or summed over
  the log, with folds and `SelectSeq`, whose parameters no prover instantiates.
  `CollectinfoLog` has a recursive operator (archives in archives), so that what
  extends it stays with TLC too.

## 5. What is not modelled

Within the modelled parts:

* `NodePool`: the content of info responses, TLS and the address resolution of a
  node; a request is of the kind `info` or `admin`. `AsyncCached`: independent
  keys. `Cluster`: the names of nodes that are not ids; `_live_nodes`, which is read
  only after the first crawl; the dead node that `_create_node` closes without
  awaiting it (cluster.py:584).
* `Session`: abbreviations of commands, the line editor, completion, history and
  colours; the parsing of answers, except for what a lost one does to it. The
  "random" node of truncate is the principal. The reads that `--no-warn` starts
  without awaiting them are awaited; the killing of jobs is one gathered call;
  jobs are read before the prompt. The commands whose output collectinfo captures
  can fail, but what they read is not asked again; two snapshots within a second
  overwrite each other's directory in the code. Health checks also read local
  files and the nodes' operating systems by ssh, which are no requests here.
* `Offline`: patterns and case of search strings, system grep, statistics relative
  to the first slice, the words of a wrong option. Percentages and rates are whole
  numbers, byte offsets are lines. Features and the summary are the tables they
  are computed from; the percentiles of histograms, the pager and the list of
  files are left out.
* `Health`: the lexer and the grammar, patterns in names, the values saved to be
  printed with a failed check, the operations `/`, AVG, FIRST, EQUAL,
  VALUE_UNIFORM, DIFF, SD_ANOMALY, APPLY, SPLIT, UNIQUE, MAX, SUM and the queries
  that use them. The live health check uses the same engine on data that `Reports`
  collects; only the offline one is composed with it.

Not modelled at all:

* The framing and packing of the wire protocol, views and sheets, templates,
  configuration files, TLS contexts, parsers of operating-system tools, `asinfo`:
  sequential text processing without a protocol to get wrong.
* Suffixes and shortest unique prefixes of `LookupDict`, which shorten names in
  tables, and the schemas of dynamic configuration, a dictionary that is read to
  complete words: no state of their own.
* `lib/utils/timeout.py` is used by nothing.
