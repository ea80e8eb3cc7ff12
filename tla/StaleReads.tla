----------------------------- MODULE StaleReads -----------------------------
(***************************************************************************)
(* What a cache with a time to live promises its callers: a call is        *)
(* answered with what the server said (a value, or that it refuses) at     *)
(* most TTL before the call, and it fails only for a failure that happens  *)
(* while it is waiting.  So a refusal may be older than the call, a lost   *)
(* connection may not.  How requests are shared is left open.  AsyncCached *)
(* implements this.                                                        *)
(***************************************************************************)
EXTENDS Naturals, Sequences

CONSTANTS Call,   \* calls that can wait at the same time
          TTL     \* how stale an answer may be

VARIABLES now,      \* the clock
          written,  \* when each change of the server's value was made
          waiting,  \* calls that have no answer yet
          asked,    \* when each of them was made, 0 for the others
          failing,  \* waiting calls that a failure has reached
          reply     \* the last answer a call was given, or an error

vars == <<now, written, waiting, asked, failing, reply>>

(* What the server answers.                                                *)
Answers == {"value", "refused"}

(* Value v was replaced less than TTL before time t, or not at all.        *)
Recent(v, t) ==
  /\ v \in 0 .. Len(written)
  /\ v < Len(written) => written[v + 1] + TTL > t

Init ==
  /\ now = 0
  /\ written = << >>
  /\ waiting = {}
  /\ asked = [c \in Call |-> 0]
  /\ failing = {}
  /\ reply = [how |-> "none", value |-> 0]

Tick ==
  /\ now' = now + 1
  /\ UNCHANGED <<written, waiting, asked, failing, reply>>

Write ==
  /\ written' = Append(written, now)
  /\ UNCHANGED <<now, waiting, asked, failing, reply>>

Ask(c) ==
  /\ c \notin waiting
  /\ waiting' = waiting \cup {c}
  /\ asked' = [asked EXCEPT ![c] = now]
  /\ UNCHANGED <<now, written, failing, reply>>

(* A call that is answered at once.                                        *)
AskAnswered(c, how, v) ==
  /\ c \notin waiting
  /\ Recent(v, now)
  /\ reply' = [how |-> how, value |-> v]
  /\ UNCHANGED <<now, written, waiting, asked, failing>>

Leaves(c) ==
  /\ waiting' = waiting \ {c}
  /\ asked' = [asked EXCEPT ![c] = 0]

Answer(c, how, v) ==
  /\ c \in waiting \ failing
  /\ Recent(v, asked[c])
  /\ Leaves(c)
  /\ reply' = [how |-> how, value |-> v]
  /\ UNCHANGED <<now, written, failing>>

(* A request fails: one call reports it now, others that wait will.        *)
Fail(c) ==
  /\ c \in waiting \ failing
  /\ \E others \in SUBSET (waiting \ {c}) : failing' = failing \cup others
  /\ Leaves(c)
  /\ reply' = [how |-> "error", value |-> 0]
  /\ UNCHANGED <<now, written>>

ReportFailure(c) ==
  /\ c \in failing
  /\ failing' = failing \ {c}
  /\ Leaves(c)
  /\ reply' = [how |-> "error", value |-> 0]
  /\ UNCHANGED <<now, written>>

Next ==
  \/ Tick \/ Write
  \/ \E c \in Call :
       \/ Ask(c) \/ Fail(c) \/ ReportFailure(c)
       \/ \E how \in Answers, v \in 0 .. Len(written) :
            AskAnswered(c, how, v) \/ Answer(c, how, v)

Spec == Init /\ [][Next]_vars
=============================================================================
