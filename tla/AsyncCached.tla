----------------------------- MODULE AsyncCached -----------------------------
(***************************************************************************)
(* async_cached and _CacheableCoroutine (lib/utils/util.py), the cache in  *)
(* front of every info request of a node, for one key (the arguments of    *)
(* the call).  Entries of different keys share nothing.                    *)
(*                                                                         *)
(* A run is a _CacheableCoroutine: it is awaited by every call that found  *)
(* it in the cache, but the request inside is made once, by the call that  *)
(* gets the run's lock first.  The value a request brings is the number    *)
(* of the write at the server that it saw.                                 *)
(***************************************************************************)
EXTENDS Naturals, Sequences

CONSTANTS Call,       \* calls that can wait at the same time
          Run,        \* _CacheableCoroutine objects
          NoRun,
          TTL,        \* self.ttl, in ticks
          MaxTime,    \* bound on the clock
          MaxWrites   \* bound on the writes at the server

ASSUME ConstantsAssumption ==
  /\ NoRun \notin Run
  /\ TTL \in Nat \ {0} /\ MaxTime \in Nat /\ MaxWrites \in Nat

VARIABLES
  now,      \* time()
  written,  \* when each write at the server was made
  entry,    \* the run in self.cache, NoRun when there is none
  eol,      \* its end of life
  made,     \* when a run was put into the cache
  late,     \* an entry expired before its request was answered, once or more
  state,    \* whether a run's request is made, answered, done, or failed
  got,      \* what a run's request read
  refusal,  \* what became of an exception a run's request returned, if it did
  queue,    \* a run's asyncio.Lock: who has it or is next, then the waiters
  run,      \* the run a call awaits, NoRun when it awaits none
  inside,   \* calls that await the request itself
  asked,    \* when a waiting call was made
  floor,    \* what newest was then
  newest,   \* the newest value any call was given
  reply     \* the last answer, a value or the server's refusal, and the
            \* call's floor; or the error of a request that raised

cacheVars == <<entry, eol, made, late>>
runVars   == <<state, got, refusal, queue>>
callVars  == <<run, inside, asked, floor, newest, reply>>
vars == <<now, written, cacheVars, runVars, callVars>>

TypeOK ==
  /\ now \in 0 .. MaxTime
  /\ written \in Seq(0 .. MaxTime) /\ Len(written) <= MaxWrites
  /\ entry \in Run \cup {NoRun}
  /\ eol \in Nat
  /\ made \in [Run -> 0 .. MaxTime]
  /\ late \in BOOLEAN
  /\ state \in [Run -> {"new", "asking", "read", "result", "raised"}]
  /\ got \in [Run -> 0 .. MaxWrites]
  /\ refusal \in [Run -> {"none", "returned", "raised"}]
  /\ queue \in [Run -> Seq(Call)]
  /\ run \in [Call -> Run \cup {NoRun}]
  /\ \A r \in Run : \A i \in DOMAIN queue[r] : run[queue[r][i]] = r
  /\ inside \subseteq Call
  /\ asked \in [Call -> 0 .. MaxTime]
  /\ floor \in [Call -> 0 .. MaxWrites]
  /\ newest \in 0 .. MaxWrites
  /\ reply \in [how: {"none", "value", "refused", "error"},
                value: 0 .. MaxWrites, floor: 0 .. MaxWrites]

Init ==
  /\ now = 0
  /\ written = << >>
  /\ entry = NoRun
  /\ eol = 0
  /\ made = [r \in Run |-> 0]
  /\ late = FALSE
  /\ state = [r \in Run |-> "new"]
  /\ got = [r \in Run |-> 0]
  /\ refusal = [r \in Run |-> "none"]
  /\ queue = [r \in Run |-> << >>]
  /\ run = [c \in Call |-> NoRun]
  /\ inside = {}
  /\ asked = [c \in Call |-> 0]
  /\ floor = [c \in Call |-> 0]
  /\ newest = 0
  /\ reply = [how |-> "none", value |-> 0, floor |-> 0]

-----------------------------------------------------------------------------
(* A new _CacheableCoroutine: one nothing refers to any more.              *)
Fresh == {r \in Run : r # entry /\ \A c \in Call : run[c] # r}

Done(r) == state[r] \in {"result", "raised"}

(* raised(): the request raised, or a later await raised what it returned. *)
Raised(r) == state[r] = "raised" \/ refusal[r] = "raised"

(* Mutants of Usable: the entry of a failed request is served again; an    *)
(* entry is served for as long again as it may be; a request that is under *)
(* way is not shared.                                                      *)
UsableWhenRaised == entry # NoRun /\ eol > now
UsableTwiceAsLong == entry # NoRun /\ ~Raised(entry) /\ eol + TTL > now
UsableWhenDone ==
  entry # NoRun /\ state[entry] = "result" /\ ~Raised(entry) /\ eol > now

(* __getitem__: "This effectively clear the key if the coroutine raises".  *)
(* An exception that the request RETURNED clears nothing yet: its entry is *)
(* served to a later call as a value's is.                                 *)
Usable == entry # NoRun /\ ~Raised(entry) /\ eol > now

(* A call whose floor is f is given an answer that is v old, or an error.  *)
Reply(how, v, f) ==
  IF how \in {"value", "refused"}
  THEN /\ reply' = [how |-> how, value |-> v, floor |-> f]
       /\ newest' = IF v > newest THEN v ELSE newest
  ELSE /\ reply' = [how |-> "error", value |-> 0, floor |-> 0]
       /\ UNCHANGED newest

(* Mutant: __await__ does not take the lock.                               *)
MayEnterUnlocked(r) == TRUE

(* asyncio.Lock.acquire returns at once when nobody has the lock or waits. *)
MayEnter(r) == queue[r] = << >>

(* What the await of a run in state st that has ended yields: an exception *)
(* that its request returned (the server's refusal) is raised.             *)
Outcome(r, st) ==
  CASE st = "raised" -> "error"
    [] st # "raised" /\ refusal[r] = "none" -> "value"
    [] OTHER -> "refused"

(* Raising it goes through the except clause, which sets _raised.          *)
Reraise(r) ==
  refusal' = [refusal EXCEPT ![r] = IF @ = "none" THEN "none" ELSE "raised"]

(* The call c awaits the run r, which is in state st.  It begins the       *)
(* request of a run that has none yet, and suspends unless the run is done.*)
Await(c, r, st) ==
  /\ run[c] = NoRun
  /\ IF MayEnter(r) /\ st \in {"result", "raised"}
     THEN /\ Reply(Outcome(r, st), got[r], newest)
          /\ Reraise(r)
          /\ UNCHANGED <<state, got, queue, run, inside, asked, floor>>
     ELSE /\ queue' = [queue EXCEPT ![r] = Append(@, c)]
          /\ run' = [run EXCEPT ![c] = r]
          /\ asked' = [asked EXCEPT ![c] = now]
          /\ floor' = [floor EXCEPT ![c] = newest]
          /\ IF MayEnter(r)
             THEN /\ state' = [state EXCEPT ![r] = "asking"]
                  /\ refusal' = [refusal EXCEPT ![r] = "none"]
                  /\ inside' = inside \cup {c}
             ELSE UNCHANGED <<state, refusal, inside>>
          /\ UNCHANGED <<got, newest, reply>>
  /\ UNCHANGED <<now, written>>

(* __call__ and await: the cached run.                                     *)
Hit(c) ==
  /\ Usable
  /\ Await(c, entry, state[entry])
  /\ UNCHANGED cacheVars

(* __call__ and await: a new run, which is the entry from now on.          *)
Miss(c) ==
  /\ ~Usable /\ Fresh # {}
  /\ LET r == CHOOSE x \in Fresh : TRUE
     IN  /\ entry' = r
         /\ made' = [made EXCEPT ![r] = now]
         /\ Await(c, r, "new")
  /\ eol' = now + TTL
  /\ late' = (late \/ (entry # NoRun /\ eol <= now /\ ~Done(entry)))

(* The call leaves its run with the run's result, or its exception.        *)
Leaves(c, how) ==
  /\ run' = [run EXCEPT ![c] = NoRun]
  /\ asked' = [asked EXCEPT ![c] = 0]
  /\ floor' = [floor EXCEPT ![c] = 0]
  /\ Reply(how, got[run[c]], floor[c])
  /\ UNCHANGED <<now, written, cacheVars, got>>

(* Mutant: an exception leaves the lock locked.                            *)
ReleaseOnSuccess(r) ==
  queue' = [queue EXCEPT ![r] = IF state'[r] = "raised" THEN @ ELSE Tail(@)]

(* The finally clause: the lock goes to the call that waits longest.       *)
Release(r) == queue' = [queue EXCEPT ![r] = Tail(@)]

(* The request comes back, or raises, in the call that made it.  The       *)
(* exception it comes back with when the server refuses is a result.       *)
Finish(c, how) ==
  /\ c \in inside
  /\ state[run[c]] = "read" \/ how = "error"
  /\ state' = [state EXCEPT ![run[c]] = IF how = "error" THEN "raised" ELSE "result"]
  /\ refusal' = [refusal EXCEPT ![run[c]] =
                    IF how = "refused" THEN "returned" ELSE "none"]
  /\ inside' = inside \ {c}
  /\ Release(run[c])
  /\ Leaves(c, how)

(* The next owner finds the run done, takes its outcome and passes on.     *)
Woken(c) ==
  /\ run[c] # NoRun /\ c \notin inside
  /\ queue[run[c]] # << >> /\ c = Head(queue[run[c]]) /\ Done(run[c])
  /\ UNCHANGED <<state, inside>>
  /\ Reraise(run[c])
  /\ Release(run[c])
  /\ Leaves(c, Outcome(run[c], state[run[c]]))

-----------------------------------------------------------------------------
(* The server and the clock                                                *)

Read(r) ==
  /\ state[r] = "asking"
  /\ state' = [state EXCEPT ![r] = "read"]
  /\ got' = [got EXCEPT ![r] = Len(written)]
  /\ UNCHANGED <<now, written, cacheVars, refusal, queue, callVars>>

Write ==
  /\ Len(written) < MaxWrites
  /\ written' = Append(written, now)
  /\ UNCHANGED <<now, cacheVars, runVars, callVars>>

Tick ==
  /\ now < MaxTime
  /\ now' = now + 1
  /\ UNCHANGED <<written, cacheVars, runVars, callVars>>

-----------------------------------------------------------------------------
CallStep(c) ==
  Woken(c) \/ \E how \in {"value", "refused", "error"} : Finish(c, how)

Next ==
  \/ \E c \in Call : Hit(c) \/ Miss(c) \/ CallStep(c)
  \/ \E r \in Run : Read(r)
  \/ Write \/ Tick

Spec == Init /\ [][Next]_vars

(* The event loop resumes a coroutine that can go on, and every request    *)
(* ends: the server answers or the connection fails.                       *)
FairSpec ==
  Spec /\ (\A c \in Call : WF_vars(CallStep(c))) /\ \A r \in Run : WF_vars(Read(r))

-----------------------------------------------------------------------------
(* Properties                                                              *)

(* "The lock makes sure multiple methods do not call await on the          *)
(* coroutine": a run's request is awaited by one call at most, and never   *)
(* again once it has ended.                                                *)
AwaitedOnce ==
  \A c \in inside :
    /\ ~Done(run[c])
    /\ \A d \in inside : run[d] = run[c] => d = c

(* Time does not run backwards for the cache's users: as long as requests  *)
(* are answered before their entries expire, no call gets an answer (a     *)
(* value or a refusal) older than one that was given to any call before it *)
(* was made.                                                               *)
NeverBackwards ==
  ~late /\ reply.how \in {"value", "refused"} => reply.value >= reply.floor

(* Every call is answered, or is given the exception.                      *)
EveryCallAnswered == \A c \in Call : run[c] # NoRun ~> run[c] = NoRun

(* Answers, refusals among them, are at most TTL older than the call they  *)
(* are for, and the error of a request that raised is one that occurred    *)
(* after the call was made: the cache implements StaleReads.               *)
Promise ==
  INSTANCE StaleReads WITH
    waiting <- {c \in Call : run[c] # NoRun},
    failing <- {c \in Call : run[c] # NoRun /\ state[run[c]] = "raised"},
    reply   <- [how |-> reply.how, value |-> reply.value]

KeepsPromise == Promise!Spec
=============================================================================
