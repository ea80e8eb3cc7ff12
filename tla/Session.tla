-------------------------------- MODULE Session --------------------------------
(***************************************************************************)
(* A session of asadm with a cluster: the shell takes a line of commands   *)
(* and runs them one after another (asadm.py); each takes the steps of its *)
(* plan (Manage, Reports).  The requests of a call go to their nodes at    *)
(* once, each node's one after another, through the cache of answers.      *)
(* Meanwhile another administrator may change the cluster, servers may     *)
(* refuse a change, and answers get lost.                                  *)
(***************************************************************************)
EXTENDS Collectinfo

CONSTANTS Lines,       \* the lines the user may type
          Held0,       \* what the servers hold: places and their values
          OthersWants, \* changes of another administrator: places and values
          MaxFaults,   \* bounds the refusals and losses of a behaviour, by its line
          MaxOthers    \* bounds the changes of the other administrator

ASSUME SessionAssumption ==
  /\ Lines \subseteq Seq(Seq(STRING))
  /\ MaxFaults \in [Lines -> Nat] /\ MaxOthers \in Nat

VARIABLES
  line,        \* the commands to run, the first perhaps begun
  execute_only_mode, \* the line came with the option -e
  privileged, warn, mods, \* as `enable' and the commands before left them
  running,     \* the first command has begun
  pc,          \* how many steps it has taken
  todo,        \* its plan: the steps to take, and the modifiers it leaves
  seen,        \* the answers of its calls that are over
  left,        \* what the nodes of the current call are still to be asked
  got,         \* what they have answered
  said,        \* what the command has told the user
  confirmed,   \* what the user has confirmed
  cache,       \* the answers that are kept, oldest first
  held,        \* what the servers hold
  sent,        \* history: the changes the command sent, and what came of them
  earlier,     \* history: the changes that commands before it had carried out
  moved,       \* history: places others changed since the command read them
  failing,     \* history: nodes that failed to answer the command
  faults,      \* refusals and losses there can still be
  others       \* changes of the other administrator there were
session == <<line, execute_only_mode, privileged, warn, mods, running, pc, todo, seen, left, got,
             said, confirmed>>
vars == <<session, cache, held, sent, earlier, moved, failing, faults, others>>

(* Changes, and requests written by the user, need the privilege.  The
   command `enable' is told by its options whether to ask before a change. *)
create_disabled_controller(c, controller) == IF c.privileged THEN controller ELSE End(c, <<Complain>>)
do_enable(c) == End(c, <<Enter(IF check_arg(c, "--warn") THEN "enable --warn" ELSE "enable")>>)
do_disable(c) == End(c, <<Enter("disable")>>)
LiveClusterRootController(c) ==
  LET d == Popped(c) IN
  CASE Word(c) = "manage" -> create_disabled_controller(d, ManageController(d))
    [] Word(c) = "asinfo" -> create_disabled_controller(d, ASInfoController(d))
    [] Word(c) = "show" -> ShowController(d)
    [] Word(c) = "info" -> InfoController(d)
    [] Word(c) = "features" -> FeaturesController(d)
    [] Word(c) = "summary" -> SummaryController(d)
    [] Word(c) = "health" -> HealthCheckController(d)
    [] Word(c) = "collectinfo" -> CollectinfoController(d)
    [] Word(c) = "pager" -> PagerController(d)
    [] Word(c) = "enable" -> do_enable(d)
    [] Word(c) = "disable" -> do_disable(d)
    [] OTHER -> execute_help(c)

(* Users, roles, indexes and rosters are of the cluster, the rest of a node. *)
ClusterWide == {"user", "password", "user roles", "role", "privileges", "allowlist", "quotas",
                "udf", "sindex", "roster", "observed", "recluster", "truncate", "file"}
Place(n, obj) == IF obj[1] \in ClusterWide THEN obj ELSE <<n>> \o obj
Held(place) == IF place \in DOMAIN held THEN held[place] ELSE <<>>

(* The plan of a command for the answers it has. *)
Planned(taken, words, mods_, answers) ==
  Given(LiveClusterRootController(Context(words, mods_, privileged, warn, answers)), LAMBDA plan :
    [plan EXCEPT !.steps = SubSeq(@, taken + 1, Len(@))])
NoPlan == End([mods |-> [word \in {} |-> <<>>]], <<>>)
Calling == left # Nobody
Next_(does) == /\ running /\ ~Calling
               /\ todo.steps # <<>> /\ Head(todo.steps).does = does
TheStep == Head(todo.steps)
Step == pc' = pc + 1 /\ todo' = [todo EXCEPT !.steps = Tail(@)]
Fresh == [n \in {} |-> [came |-> "ok", vals |-> <<>>]]

Init ==
  /\ line \in Lines
  /\ execute_only_mode \in BOOLEAN
  /\ privileged = FALSE /\ warn = FALSE
  /\ mods = [word \in {} |-> <<>>]
  /\ running = FALSE /\ pc = 0 /\ todo = NoPlan /\ seen = <<>> /\ left = Nobody /\ got = Fresh
  /\ said = <<>> /\ confirmed = <<>>
  /\ cache = <<>> /\ held = Held0
  /\ sent = {} /\ earlier = {} /\ moved = {} /\ failing = {}
  /\ faults = MaxFaults[line] /\ others = 0

------------------------------------------------------------------------------
(* The shell *)
(* A word of the shell itself ends the line, whatever follows it.  What a
   health check collected is used for a minute, which may have passed, and
   then no answer is kept any more. *)
ShellWord(word) == word \in {"exit", "EOF", "cake"}

Begin ==
  /\ line # <<>> /\ ~running
  /\ earlier' = earlier \union {<<s.node, s.request>> : s \in {t \in sent : t.fate = "ok"}}
  /\ sent' = {} /\ moved' = {} /\ failing' = {} /\ said' = <<>> /\ confirmed' = <<>>
  /\ \/ UNCHANGED <<mods, cache>>
     \/ mods' = [word \in DOMAIN mods \ {Snapshot} |-> mods[word]] /\ cache' = <<>>
  /\ IF ShellWord(Head(Head(line)))
     THEN line' = <<>> /\ UNCHANGED <<running, todo>>
     ELSE /\ running' = TRUE /\ UNCHANGED line
          /\ todo' = Planned(0, Head(line), mods', <<>>)
  /\ UNCHANGED <<execute_only_mode, privileged, warn, pc, seen, left, got, held,
                 faults, others>>

(* What the command leaves: its modifiers, and perhaps a mode. *)
FinishKeepsCount(rest) ==
  line' = rest /\ running' = FALSE /\ todo' = NoPlan /\ seen' = <<>> /\ mods' = todo.mods
  /\ UNCHANGED pc
Finish(rest) ==
  /\ line' = rest
  /\ running' = FALSE /\ pc' = 0 /\ todo' = NoPlan /\ seen' = <<>>
  /\ mods' = todo.mods

EndDropsRest ==
  /\ running /\ ~Calling /\ todo.steps = <<>>
  /\ Finish(<<>>)
  /\ UNCHANGED <<execute_only_mode, privileged, warn, left, got, said, confirmed, cache, held,
                 sent, earlier, moved, failing, faults, others>>
End_ ==
  /\ running /\ ~Calling /\ todo.steps = <<>>
  /\ Finish(Tail(line))
  /\ UNCHANGED <<execute_only_mode, privileged, warn, left, got, said, confirmed, cache, held,
                 sent, earlier, moved, failing, faults, others>>

(* An error is logged; of a script it is the end. *)
Say ==
  /\ Next_("tell")
  /\ said' = Append(said, TheStep)
  /\ IF execute_only_mode /\ TheStep.says \in {"error", "failure"}
     THEN Finish(<<>>)
     ELSE Step /\ UNCHANGED <<line, running, seen, mods>>
  /\ UNCHANGED <<execute_only_mode, privileged, warn, left, got, confirmed, cache, held,
                 sent, earlier, moved, failing, faults, others>>

(* do_enable, do_disable.  The choice to be warned outlives the privilege. *)
Enable ==
  /\ Next_("enable")
  /\ privileged' = (TheStep.says # "disable")
  /\ warn' = IF TheStep.says = "disable" THEN warn ELSE TheStep.says = "enable --warn"
  /\ Step
  /\ UNCHANGED <<line, execute_only_mode, mods, running, seen, left, got, said, confirmed,
                 cache, held, sent, earlier, moved, failing, faults, others>>

AtPrompt == Next_("ask")
(* prompt_challenge *)
AnswerPrompt ==
  /\ AtPrompt
  /\ \/ /\ confirmed' = Append(confirmed, TheStep.about)
        /\ Step
        /\ UNCHANGED <<line, mods, running, seen>>
     \/ Finish(Tail(line)) /\ UNCHANGED confirmed
  /\ UNCHANGED <<execute_only_mode, privileged, warn, left, got, said, cache, held, sent,
                 earlier, moved, failing, faults, others>>

------------------------------------------------------------------------------
(* Calls *)
(* A method that has nothing to ask of its node is over at once. *)
Pending(methods) ==
  Given(SelectInSeq(methods, LAMBDA requests : requests # <<>>), LAMBDA i :
    IF i = 0 THEN <<>> ELSE SubSeq(methods, i, Len(methods)))
BeginCall ==
  /\ Next_("call")
  /\ left' = [n \in DOMAIN TheStep.asks |-> Pending(TheStep.asks[n])]
  /\ got' = [n \in DOMAIN TheStep.asks |->
               [i \in DOMAIN TheStep.asks[n] |-> [came |-> "ok", vals |-> <<>>]]]
  /\ UNCHANGED <<line, execute_only_mode, privileged, warn, mods, running, pc, todo, seen, said,
                 confirmed, cache, held, sent, earlier, moved, failing, faults, others>>

EndCall ==
  /\ Calling /\ \A n \in DOMAIN left : left[n] = <<>>
  /\ left' = Nobody /\ got' = Fresh
  /\ seen' = Append(seen, got) /\ pc' = pc + 1
  /\ todo' = Planned(pc', Head(line), mods, seen')
  /\ UNCHANGED <<line, execute_only_mode, privileged, warn, mods, running, said, confirmed,
                 cache, held, sent, earlier, moved, failing, faults, others>>

(* Requests that change nothing can be answered in any order: one is enough. *)
ReadsOnly == \A n \in DOMAIN left : \A i \in DOMAIN left[n] : \A j \in DOMAIN left[n][i] :
               ~Changes(left[n][i][j])
Asking(n) ==
  /\ Calling /\ n \in DOMAIN left /\ left[n] # <<>>
  /\ ReadsOnly => n = CHOOSE m \in DOMAIN left : left[m] # <<>>
Request(n) == Head(Head(left[n]))

(* The cache knows a request by its node and its text. *)
KeyOfMethod(n, q) == <<n, q.cmd>> \o q.obj
Key(n, q) == <<n, q.cmd>> \o q.obj \o (IF Changes(q) THEN q.val ELSE <<>>)
Kept(n, q) == SelectInSeq(cache, LAMBDA entry : entry.key = Key(n, q))
Hit(n) == Request(n).via = "info" /\ Kept(n, Request(n)) # 0

(* The method of node n goes on with an answer, or is over and the next
   begins; a word it wanted or did not want to find makes it give up. *)
Unwanted(q, val) ==
  \/ q.wants = "present" /\ ~Contains(val, q.val[1])
  \/ q.wants = "absent" /\ Contains(val, q.val[1])
Receive(n, q, came, val) ==
  LET gives_up == (came = "ok" \/ q.lost = "without") /\ ~Changes(q) /\ Unwanted(q, val)
      goes_on == ~gives_up /\ (came = "ok" \/ q.lost = "without") /\ Len(Head(left[n])) > 1
      method == Len(got[n]) - Len(left[n]) + 1
      how == CASE gives_up -> "refused"
               [] came # "ok" /\ q.lost = "fails" -> came
               [] OTHER -> got[n][method].came
  IN /\ got' = [got EXCEPT ![n][method] = [came |-> how,
                                           vals |-> Append(@.vals, IF gives_up THEN <<>> ELSE val)]]
     /\ left' = [left EXCEPT ![n] = IF goes_on THEN <<Tail(Head(@))>> \o Tail(@)
                                    ELSE Pending(Tail(@))]
Record(n, q, fate) ==
  sent' = IF Changes(q) /\ n # Here THEN sent \union {[node |-> n, request |-> q, fate |-> fate]} ELSE sent

AnswerFromCache(n) ==
  /\ Asking(n) /\ Hit(n)
  /\ LET q == Request(n)  entry == cache[Kept(n, q)] IN
     Receive(n, q, entry.came, entry.val) /\ Record(n, q, "cached")
  /\ UNCHANGED <<line, execute_only_mode, privileged, warn, mods, running, pc, todo, seen, said,
                 confirmed, cache, held, earlier, moved, failing, faults, others>>

(* An answer of the server, an error too, is kept; what fails on the way is not. *)
Keep(n, q, came, val) ==
  cache' = IF q.via = "info" THEN Append(cache, [key |-> Key(n, q), came |-> came, val |-> val])
           ELSE cache
CarryOut(n, q) ==
  held' = IF Changes(q) THEN (Place(n, q.obj) :> Changed(Held(Place(n, q.obj)), q)) @@ held
          ELSE held
Answered(n) ==
  /\ Asking(n) /\ ~Hit(n)
  /\ LET q == Request(n)  place == Place(n, q.obj)  val == Held(place) IN
     /\ Receive(n, q, "ok", val) /\ Keep(n, q, "ok", val) /\ CarryOut(n, q)
     /\ Record(n, q, "ok")
     /\ moved' = IF Changes(q) THEN moved ELSE moved \ {place}
  /\ UNCHANGED <<line, execute_only_mode, privileged, warn, mods, running, pc, todo, seen, said,
                 confirmed, earlier, failing, faults, others>>
Refused(n) ==
  /\ Asking(n) /\ n # Here /\ ~Hit(n) /\ Changes(Request(n)) /\ faults > 0
  /\ LET q == Request(n) IN
     Receive(n, q, "refused", <<>>) /\ Keep(n, q, "refused", <<>>) /\ Record(n, q, "refused")
  /\ failing' = failing \union {n} /\ faults' = faults - 1
  /\ UNCHANGED <<line, execute_only_mode, privileged, warn, mods, running, pc, todo, seen, said,
                 confirmed, held, earlier, moved, others>>
(* Lost: on the way there, or on the way back. *)
Lost(n) ==
  /\ Asking(n) /\ ~Hit(n) /\ faults > 0
  /\ LET q == Request(n) IN
     /\ Receive(n, q, "lost", <<>>) /\ Record(n, q, "lost")
     /\ UNCHANGED held \/ (Changes(q) /\ CarryOut(n, q))
  /\ failing' = failing \union {n} /\ faults' = faults - 1
  /\ UNCHANGED <<line, execute_only_mode, privileged, warn, mods, running, pc, todo, seen, said,
                 confirmed, cache, earlier, moved, others>>

(* An answer is kept for half a second: here it may go while the user is
   asked and between commands. *)
Expire ==
  /\ cache # <<>> /\ line # <<>> /\ (~running \/ AtPrompt)
  /\ cache' = Tail(cache)
  /\ UNCHANGED <<session, held, sent, earlier, moved, failing, faults, others>>

OtherAdministrator ==
  /\ running /\ Head(Head(line)) = "manage" /\ others < MaxOthers
  /\ \E want \in OthersWants :
       /\ Held(want.place) # want.val
       /\ held' = (want.place :> want.val) @@ held
       /\ moved' = moved \union {want.place}
  /\ others' = others + 1
  /\ UNCHANGED <<session, cache, sent, earlier, failing, faults>>

(* Nothing is left to run. *)
Done == line = <<>>
Stay == Done /\ UNCHANGED vars

Nodes == \E n \in Node \union {Here} : AnswerFromCache(n) \/ Answered(n) \/ Refused(n) \/ Lost(n)
Next ==
  \/ Begin \/ End_ \/ Say \/ Enable \/ AnswerPrompt
  \/ BeginCall \/ EndCall \/ Nodes
  \/ Expire \/ OtherAdministrator \/ Stay

Spec == Init /\ [][Next]_vars
------------------------------------------------------------------------------
Tells(what) == \E i \in DOMAIN said : said[i].says = what

(* What can be left of a line. *)
Rests == UNION {{SubSeq(l, i, Len(l)) : i \in 1..Len(l)} : l \in Lines}
TypeOK ==
  /\ line = <<>> \/ line \in Rests
  /\ {execute_only_mode, privileged, warn, running} \subseteq BOOLEAN
  /\ DOMAIN left = DOMAIN got /\ DOMAIN left \subseteq Node \union {Here}
  /\ pc \in Nat /\ (running \/ pc = 0)
  /\ \A n \in DOMAIN got : \A i \in DOMAIN got[n] : got[n][i].came \in {"ok", "refused", "lost"}
  /\ \A s \in sent : s.node \in Node /\ s.fate \in {"ok", "refused", "lost", "cached"}
  /\ moved \subseteq {want.place : want \in OthersWants} /\ failing \subseteq Node \union {Here}
  /\ faults \in Nat /\ others \in 0..MaxOthers

(* No change is sent without the privilege.  Whoever asked to be warned has
   confirmed it first, except for what is never asked: reclustering, a new
   function, and what was told not to. *)
NeverAsked(request) == request.cmd \in {"recluster", "udf-put"}
ConfirmedFirst ==
  running /\ sent # {} =>
    /\ privileged
    /\ \/ ~warn \/ confirmed # <<>> \/ Contains(Head(line), "--no-warn")
       \/ \A s \in sent : NeverAsked(s.request)

(* A change that the server refused, or whose answer was lost, does not go
   unnoticed: the user is told of an error, or finds the node missing from
   the table of those that succeeded. *)
OutcomeTold ==
  ~running => \A s \in sent : s.fate \in {"refused", "lost"} =>
    \/ Tells("error") \/ Tells("failure")
    \/ \E i \in DOMAIN said : said[i].says = "table" /\ s.node \notin said[i].nodes

(* What the user was told has succeeded is so: it was asked of a server, and
   what the servers hold shows it, unless somebody changed it again; or it is
   a change that a command before it in the line had carried out, of which
   the answer is still in the cache: this one is not sent again. *)
InEffect(s) ==
  LET place == Place(s.node, s.request.obj)
  IN s.fate = "ok" /\ (place \in moved \/ Changed(Held(place), s.request) = Held(place))
Repeated(s) == s.fate = "cached" /\ <<s.node, s.request>> \in earlier
DoneAt(changes) == changes # {} /\ \A s \in changes : InEffect(s) \/ Repeated(s)
SuccessMeansDone ==
  ~running => \A i \in DOMAIN said :
    /\ said[i].says = "success" => DoneAt(sent)
    /\ said[i].says = "table" => \A n \in said[i].nodes : DoneAt({s \in sent : s.node = n})

(* `roster add' only adds: every node that is in the roster when it is
   written stays, unless another administrator put it there after this
   command had read the roster. *)
RosterAddKeeps ==
  [][running /\ IsPrefix(<<"manage", "roster", "add">>, Head(line)) =>
       \A place \in DOMAIN held : place[1] = "roster" /\ place \notin moved /\ others' = others =>
         ToSet(held[place]) \subseteq ToSet(held'[place])]_vars

(* What a word names: all nodes, the nodes with a key that begins with it if
   it ends with "*", or the one whose id, address or name it is. *)
Named(word) ==
  IF word = "all" THEN Node
  ELSE IF word \in DOMAIN Starred
  THEN {n \in Node : \E key \in KeysFrom[Starred[word]] : node_lookup[key] = n}
  ELSE {n \in Node : word \in {Ip[n], Fqdn[n]}
                       \/ \E key \in DOMAIN node_lookup : key = word /\ node_lookup[key] = n}

(* A change is sent to no node but those the command names: the dictionary of
   modifiers that commands share, and names that begin like others, make it
   reach no other. *)
ChangedWhereNamed ==
  running /\ Contains(Head(line), "with") =>
    LET words == Head(line) IN
    \A s \in sent : \E j \in (SelectInSeq(words, LAMBDA w : w = "with") + 1)..Len(words) :
      s.node \in Named(words[j])

(* A report has every node that the command names, or each of all, unless it
   failed to answer, and has no other: whatever nodes the commands before it
   named, and whichever of the requests for it fails.  Three commands may show
   others: `info' has the namespaces of every node between the network and XDR
   of those it names, `show latencies' is of every node in a cluster that
   knows both commands for it, and `show pmap' has no `with'. *)
AboutPrincipal == {"users", "roles", "udfs", "sindex", "racks"}
Selected(words) ==
  LET i == SelectInSeq(words, LAMBDA w : w = "with") IN
  CASE \E w \in AboutPrincipal : IsPrefix(<<"show", w>>, words) -> {Principal}
    [] IsPrefix(<<"show", "mapping">>, words) \/ (words = <<"health">> /\ Snapshot \in DOMAIN mods) -> {}
    [] i = 0 -> Node
    [] OTHER -> UNION {Named(words[j]) : j \in (i + 1)..Len(words)}
OfEveryNode(words, i) ==
  \/ IsPrefix(<<"info", "with">>, words) /\ i \notin {1, 3}
  \/ IsPrefix(<<"show", "pmap">>, words)
  \/ /\ IsPrefix(<<"show", "latencies">>, words)
     /\ {AtLeast(n, SERVER_NEW_LATENCIES_CMD_FIRST_VERSION) : n \in Node} = BOOLEAN
ReportOfSelected ==
  Tells("report") /\ running =>
    LET words == Head(line)
        reports == {i \in DOMAIN said : said[i].says = "report"}
    IN /\ \A i \in reports : said[i].nodes \subseteq Selected(words) \/ OfEveryNode(words, i)
       /\ todo.steps = <<>> => Selected(words) \ failing \subseteq UNION {said[i].nodes : i \in reports}

(* `collectinfo' either has begun every file of its archive or tells of an
   error, whatever fails while it runs, unless it was told to ignore errors. *)
AtEnd == running /\ ~Calling /\ todo.steps = <<>>
ArchiveFiles == {"ascinfo.json", "ascollectinfo.log", "summary.log", "health.log", "sysinfo.log",
                 "aerospike.conf"}
Missing == {file \in ArchiveFiles : Held(<<"file", file>>) = <<>>}
CollectedOrTold ==
  AtEnd /\ Head(Head(line)) = "collectinfo" =>
    IF Tells("archived") THEN Missing = {} \/ Contains(Head(line), "--ignore-errors")
    ELSE Tells("error") \/ Tells("failure")

(* No command of a line is passed over, unless the shell was told to quit or
   an error ended a script: a command that fails or is declined does not take
   the rest of the line with it. *)
NonePassedOver ==
  [][\/ line' = line
     \/ running /\ line' = Tail(line)
     \/ ~running /\ ShellWord(Head(Head(line)))
     \/ /\ execute_only_mode /\ said' # said
        /\ Last(said').says \in {"error", "failure"}]_vars
===============================================================================
