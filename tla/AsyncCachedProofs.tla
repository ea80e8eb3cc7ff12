-------------------------- MODULE AsyncCachedProofs --------------------------
(***************************************************************************)
(* Proofs about AsyncCached for any number of calls and runs, any life     *)
(* time and any number of writes: it implements StaleReads, a request is   *)
(* awaited once, and answers do not run backwards.                         *)
(*                                                                         *)
(* What makes the invariants inductive: the call inside a request is the   *)
(* owner of the run's lock, no call is queued twice, an entry's end of     *)
(* life is TTL after its run was made, what a run has read was current     *)
(* when the run was made or later, and a call only joins a run that is     *)
(* younger than TTL.                                                       *)
(***************************************************************************)
EXTENDS AsyncCached, TLAPS, SequenceTheorems

(* A request is under way in the call that has the lock of its run.        *)
OneInside ==
  /\ \A c \in inside :
       /\ run[c] \in Run
       /\ state[run[c]] \in {"asking", "read"}
       /\ queue[run[c]] # << >>
       /\ c = Head(queue[run[c]])
  /\ \A r \in Run : state[r] \in {"asking", "read"} =>
       \E c \in inside : run[c] = r

(* Only a run that has ended with one keeps an exception for later calls.  *)
RefusalEnded == \A r \in Run : refusal[r] # "none" => state[r] = "result"

QueuedOnce ==
  \A r \in Run : \A i, j \in DOMAIN queue[r] : queue[r][i] = queue[r][j] => i = j

(* Nothing that was written is to come.                                    *)
WrittenBefore == \A i \in DOMAIN written : written[i] <= now

EntryMade == entry \in Run => state[entry] # "new" /\ eol = made[entry] + TTL

(* Nothing that was read is older than its run.                            *)
ReadSinceMade ==
  \A r \in Run :
    /\ made[r] <= now
    /\ got[r] <= Len(written)
    /\ state[r] \in {"read", "result"} =>
         \A i \in DOMAIN written : i > got[r] => written[i] >= made[r]

(* No call joined a run that was TTL old.                                  *)
JoinedYoung ==
  \A c \in Call : run[c] # NoRun =>
    state[run[c]] # "new" /\ asked[c] < made[run[c]] + TTL

GivenWasWritten ==
  newest <= Len(written) /\ \A c \in Call : floor[c] <= Len(written)

(* As long as requests are answered in time only the entry's is under way, *)
(* and its answer is the newest of all.                                    *)
OneUnderWay == ~late => \A r \in Run : state[r] \in {"asking", "read"} => r = entry

EntryNewest ==
  ~late /\ entry \in Run /\ state[entry] \in {"read", "result"} =>
    /\ newest <= got[entry]
    /\ \A r \in Run : state[r] = "result" => got[r] <= got[entry]

AboveFloor ==
  ~late => \A c \in Call :
    run[c] # NoRun /\ state[run[c]] \in {"read", "result"} => floor[c] <= got[run[c]]

Order == GivenWasWritten /\ OneUnderWay /\ EntryNewest /\ AboveFloor

IInv == /\ TypeOK
        /\ OneInside /\ RefusalEnded
        /\ QueuedOnce
        /\ WrittenBefore /\ EntryMade /\ ReadSinceMade /\ JoinedYoung
        /\ Order
        /\ NeverBackwards

-----------------------------------------------------------------------------
(* A lock's queue                                                          *)

(* A call that joins the queue comes last.                                 *)
LEMMA Joined ==
  ASSUME NEW q \in Seq(Call), NEW c \in Call
  PROVE  /\ Append(q, c) \in Seq(Call)
         /\ Append(q, c) # << >>
         /\ DOMAIN Append(q, c) = DOMAIN q \cup {Len(q) + 1}
         /\ \A i \in DOMAIN q : Append(q, c)[i] = q[i]
         /\ Len(q) + 1 \notin DOMAIN q
         /\ Append(q, c)[Len(q) + 1] = c
         /\ Head(Append(q, c)) = IF q = << >> THEN c ELSE Head(q)
  OBVIOUS

(* The head leaves, the others stay in their order.                        *)
LEMMA Left ==
  ASSUME NEW q \in Seq(Call), q # << >>
  PROVE  /\ Head(q) \in Call
         /\ 1 \in DOMAIN q /\ q[1] = Head(q)
         /\ Tail(q) \in Seq(Call)
         /\ \A i \in DOMAIN Tail(q) :
              /\ i \in Nat \ {0}
              /\ i + 1 \in DOMAIN q
              /\ Tail(q)[i] = q[i + 1]
  BY HeadTailProperties, LenProperties

(* Who waits in the queue of a run waits for that run.                     *)
LEMMA Queued ==
  ASSUME TypeOK, NEW r \in Run, NEW i \in DOMAIN queue[r]
  PROVE  queue[r][i] \in Call /\ run[queue[r][i]] = r
<1>1. queue[r] \in Seq(Call)
  BY DEF TypeOK
<1>2. queue[r][i] \in Call
  BY <1>1, ElementOfSeq, LenProperties
<1>3. QED BY <1>2 DEF TypeOK

-----------------------------------------------------------------------------
(* An ended run that did not raise yields its answer, which an exception   *)
(* that its request returned is too.                                       *)
LEMMA Outcomes ==
  ASSUME NEW r \in Run
  PROVE  /\ Outcome(r, "result") \in {"value", "refused"}
         /\ Outcome(r, "raised") = "error"
  BY DEF Outcome

LEMMA ReraiseKeeps ==
  ASSUME TypeOK, RefusalEnded, NEW r \in Run, Reraise(r), state' = state
  PROVE  /\ refusal' \in [Run -> {"none", "returned", "raised"}]
         /\ RefusalEnded'
  BY DEF TypeOK, Reraise, RefusalEnded

-----------------------------------------------------------------------------
(* What a hit and a miss do when IInv holds                                *)

HitAnswered(c) ==
  /\ Usable /\ run[c] = NoRun /\ state[entry] = "result"
  /\ Reply(Outcome(entry, "result"), got[entry], newest)
  /\ Reraise(entry)
  /\ UNCHANGED <<now, written, cacheVars, state, got, queue, run, inside, asked,
                 floor>>

Joins(c, r) ==
  /\ run[c] = NoRun
  /\ queue' = [queue EXCEPT ![r] = Append(@, c)]
  /\ run' = [run EXCEPT ![c] = r]
  /\ asked' = [asked EXCEPT ![c] = now]
  /\ floor' = [floor EXCEPT ![c] = newest]
  /\ UNCHANGED <<now, written, got, newest, reply>>

HitJoins(c) ==
  /\ Usable /\ queue[entry] # << >>
  /\ Joins(c, entry)
  /\ UNCHANGED <<state, refusal, inside, cacheVars>>

MissAsks(c, r) ==
  /\ ~Usable /\ r \in Fresh /\ queue[r] = << >>
  /\ Joins(c, r)
  /\ state' = [state EXCEPT ![r] = "asking"]
  /\ refusal' = [refusal EXCEPT ![r] = "none"]
  /\ inside' = inside \cup {c}
  /\ entry' = r
  /\ made' = [made EXCEPT ![r] = now]
  /\ eol' = now + TTL
  /\ late' = (late \/ (entry # NoRun /\ eol <= now /\ ~Done(entry)))

(* A call that finds an entry takes its result or queues for it: only the  *)
(* call that made the run begins its request.                              *)
LEMMA HitCases ==
  ASSUME IInv, NEW c \in Call, Hit(c)
  PROVE  HitAnswered(c) \/ HitJoins(c)
<1> USE DEF IInv, Hit, Await, HitAnswered, HitJoins, Joins, Usable, Raised
<1>1. /\ entry \in Run
      /\ state[entry] \in {"asking", "read", "result"}
  BY DEF TypeOK, EntryMade
<1>2. CASE MayEnter(entry)
  <2>1. state[entry] = "result"
    BY <1>1, <1>2 DEF OneInside, MayEnter
  <2>2. QED BY <1>2, <2>1 DEF callVars
<1>3. CASE ~MayEnter(entry)
  BY <1>3 DEF MayEnter, runVars, callVars
<1>4. QED BY <1>2, <1>3

(* A new run's queue is empty, and its first call begins the request.      *)
LEMMA MissCases ==
  ASSUME IInv, NEW c \in Call, Miss(c)
  PROVE  \E r \in Run : MissAsks(c, r)
<1> DEFINE r == CHOOSE x \in Fresh : TRUE
<1>1. r \in Fresh /\ r \in Run /\ \A d \in Call : run[d] # r
  BY DEF Miss, Fresh
<1> HIDE DEF r
<1>2. queue[r] = << >>
  <2>1. queue[r] \in Seq(Call)
    BY <1>1 DEF IInv, TypeOK
  <2>2. ASSUME queue[r] # << >> PROVE FALSE
    BY <1>1, <2>1, <2>2, Left DEF IInv, TypeOK
  <2>3. QED BY <2>2
<1>3. Await(c, r, "new")
  BY DEF Miss, r
<1>4. MissAsks(c, r)
  BY <1>1, <1>2, <1>3 DEF Miss, Await, MissAsks, Joins, MayEnter, r
<1>5. QED BY <1>1, <1>4

-----------------------------------------------------------------------------
(* Every action keeps IInv                                                 *)

(* At first nothing is cached and nobody waits.                            *)
LEMMA InitIInv == Init => IInv
<1> SUFFICES ASSUME Init PROVE IInv
  OBVIOUS
<1> USE ConstantsAssumption DEF Init
<1>1. TypeOK
  <2>1. << >> \in Seq(0 .. MaxTime) /\ << >> \in Seq(Call) /\ DOMAIN << >> = {}
        /\ Len(<< >>) = 0
    OBVIOUS
  <2>2. 0 \in 0 .. MaxTime /\ 0 \in 0 .. MaxWrites
    OBVIOUS
  <2>3. /\ written \in Seq(0 .. MaxTime) /\ Len(written) <= MaxWrites
        /\ queue \in [Run -> Seq(Call)]
        /\ \A r \in Run : \A i \in DOMAIN queue[r] : run[queue[r][i]] = r
    BY <2>1
  <2>4. /\ made \in [Run -> 0 .. MaxTime] /\ got \in [Run -> 0 .. MaxWrites]
        /\ asked \in [Call -> 0 .. MaxTime] /\ floor \in [Call -> 0 .. MaxWrites]
    BY <2>2
  <2>5. reply \in [how: {"none", "value", "refused", "error"}, value: 0 .. MaxWrites,
                   floor: 0 .. MaxWrites]
    BY <2>2
  <2>6. QED BY <2>2, <2>3, <2>4, <2>5 DEF TypeOK
<1>2. OneInside /\ RefusalEnded /\ QueuedOnce
  BY DEF OneInside, RefusalEnded, QueuedOnce
<1>3. WrittenBefore /\ EntryMade /\ ReadSinceMade /\ JoinedYoung
  BY DEF WrittenBefore, EntryMade, ReadSinceMade, JoinedYoung
<1>4. Order /\ NeverBackwards
  BY DEF Order, GivenWasWritten, OneUnderWay, EntryNewest, AboveFloor,
         NeverBackwards
<1>5. QED BY <1>1, <1>2, <1>3, <1>4 DEF IInv

(* A call is answered from the cache at once.                              *)
LEMMA HitAnsweredKeepsIInv ==
  ASSUME IInv, NEW c \in Call, HitAnswered(c)
  PROVE  IInv'
<1> DEFINE how == Outcome(entry, "result")
<1> USE ConstantsAssumption DEF IInv, HitAnswered, cacheVars, runVars, Reply
<1>1. /\ entry \in Run /\ how \in {"value", "refused"}
      /\ reply' = [how |-> how, value |-> got[entry], floor |-> newest]
      /\ newest' = IF got[entry] > newest THEN got[entry] ELSE newest
  BY Outcomes DEF TypeOK, Usable
<1> HIDE DEF how, Reply
<1>2. TypeOK'
  <2>1. got[entry] \in 0 .. MaxWrites /\ newest \in 0 .. MaxWrites
    BY <1>1 DEF TypeOK
  <2>2. /\ newest' \in 0 .. MaxWrites
        /\ reply' \in [how: {"none", "value", "refused", "error"}, value: 0 .. MaxWrites,
                       floor: 0 .. MaxWrites]
    BY <1>1, <2>1
  <2>3. refusal' \in [Run -> {"none", "returned", "raised"}]
    BY <1>1, ReraiseKeeps
  <2>4. QED BY <2>2, <2>3 DEF TypeOK
<1>3. OneInside' /\ RefusalEnded' /\ QueuedOnce'
  BY <1>1, ReraiseKeeps DEF OneInside, QueuedOnce
<1>4. WrittenBefore' /\ EntryMade' /\ ReadSinceMade' /\ JoinedYoung'
  BY DEF WrittenBefore, EntryMade, ReadSinceMade, JoinedYoung
<1>5. GivenWasWritten'
  BY <1>1 DEF TypeOK, Order, GivenWasWritten, ReadSinceMade
<1>6. EntryNewest'
  BY <1>1 DEF TypeOK, Order, EntryNewest
<1>7. OneUnderWay' /\ AboveFloor'
  BY DEF Order, OneUnderWay, AboveFloor
<1>8. NeverBackwards'
  BY <1>1 DEF TypeOK, Order, EntryNewest, NeverBackwards
<1>9. QED BY <1>2, <1>3, <1>4, <1>5, <1>6, <1>7, <1>8 DEF Order

(* A call queues for the entry.                                            *)
LEMMA HitJoinsKeepsIInv ==
  ASSUME IInv, NEW c \in Call, HitJoins(c)
  PROVE  IInv'
<1> USE ConstantsAssumption DEF IInv, HitJoins, Joins, cacheVars
<1>1. /\ entry \in Run /\ queue[entry] \in Seq(Call) /\ queue[entry] # << >>
      /\ eol > now
  BY DEF TypeOK, Usable
<1> DEFINE q == queue[entry]
<1>2. /\ queue'[entry] \in Seq(Call)
      /\ queue'[entry] # << >>
      /\ DOMAIN queue'[entry] = DOMAIN q \cup {Len(q) + 1}
      /\ \A i \in DOMAIN q : queue'[entry][i] = q[i]
      /\ Len(q) + 1 \notin DOMAIN q
      /\ queue'[entry][Len(q) + 1] = c
      /\ Head(queue'[entry]) = Head(q)
  <2>1. queue'[entry] = Append(q, c)
    BY <1>1 DEF TypeOK
  <2>2. QED BY <1>1, <2>1, Joined
<1>3. \A i \in DOMAIN q : q[i] \in Call /\ q[i] # c /\ run[q[i]] = entry
  BY <1>1, Queued, ConstantsAssumption DEF IInv
<1>4. /\ queue' \in [Run -> Seq(Call)]
      /\ \A r \in Run : r # entry => queue'[r] = queue[r]
  BY <1>1, <1>2 DEF TypeOK
<1>5. TypeOK'
  <2>1. \A r \in Run : \A i \in DOMAIN queue'[r] : run'[queue'[r][i]] = r
    <3>1. ASSUME NEW i \in DOMAIN queue'[entry]
          PROVE  run'[queue'[entry][i]] = entry
      <4>1. CASE i \in DOMAIN q
        <5>1. queue'[entry][i] = q[i]
          BY <1>2, <4>1
        <5>2. QED BY <1>3, <4>1, <5>1 DEF TypeOK
      <4>2. CASE i = Len(q) + 1
        <5>1. queue'[entry][i] = c
          BY <1>2, <4>2
        <5>2. run'[c] = entry
          BY DEF TypeOK
        <5>3. QED BY <5>1, <5>2
      <4>3. QED BY <1>2, <4>1, <4>2
    <3>2. ASSUME NEW r \in Run, r # entry, NEW i \in DOMAIN queue'[r]
          PROVE  run'[queue'[r][i]] = r
      <4>1. queue'[r] = queue[r] /\ queue[r][i] \in Call /\ run[queue[r][i]] = r
        BY <1>4, <3>2, Queued
      <4>2. queue[r][i] # c
        BY <4>1
      <4>3. QED BY <4>1, <4>2 DEF TypeOK
    <3>3. QED BY <3>1, <3>2
  <2> HIDE DEF q
  <2>2. QED BY <1>1, <1>4, <2>1 DEF TypeOK
<1>6. OneInside'
  <2>1. ASSUME NEW d \in inside' PROVE d # c /\ run'[d] = run[d]
    BY ConstantsAssumption DEF OneInside, TypeOK
  <2>2. ASSUME NEW d \in inside'
        PROVE  queue'[run[d]] # << >> /\ d = Head(queue'[run[d]])
    <3>1. CASE run[d] = entry
      BY <1>2, <3>1 DEF OneInside
    <3>2. CASE run[d] # entry
      BY <1>4, <3>2 DEF OneInside
    <3>3. QED BY <3>1, <3>2
  <2>3. QED BY <2>1, <2>2 DEF OneInside
<1>7. QueuedOnce'
  <2>1. \A i, j \in DOMAIN queue'[entry] :
          queue'[entry][i] = queue'[entry][j] => i = j
    BY <1>1, <1>2, <1>3 DEF QueuedOnce
  <2>2. QED BY <1>4, <2>1 DEF QueuedOnce
<1>8. WrittenBefore' /\ EntryMade' /\ ReadSinceMade'
  BY DEF WrittenBefore, EntryMade, ReadSinceMade
<1>9. JoinedYoung'
  BY <1>1 DEF JoinedYoung, EntryMade, TypeOK
<1>10. GivenWasWritten' /\ OneUnderWay' /\ EntryNewest'
  BY DEF Order, GivenWasWritten, OneUnderWay, EntryNewest, TypeOK
<1>11. AboveFloor'
  BY <1>1 DEF Order, EntryNewest, AboveFloor, TypeOK
<1>12. NeverBackwards' /\ RefusalEnded'
  BY DEF NeverBackwards, RefusalEnded
<1>13. QED BY <1>5, <1>6, <1>7, <1>8, <1>9, <1>10, <1>11, <1>12 DEF Order

(* A call makes a run and begins its request.                              *)
LEMMA MissAsksKeepsIInv ==
  ASSUME IInv, NEW c \in Call, NEW r \in Run, MissAsks(c, r)
  PROVE  IInv'
<1> USE ConstantsAssumption DEF IInv, MissAsks, Joins
<1>1. /\ \A d \in Call : run[d] # r
      /\ r # entry
  BY DEF Fresh
<1>2. /\ queue' \in [Run -> Seq(Call)]
      /\ queue'[r] # << >>
      /\ DOMAIN queue'[r] = {1}
      /\ queue'[r][1] = c
      /\ Head(queue'[r]) = c
      /\ \A o \in Run : o # r => queue'[o] = queue[o]
  <2>1. queue'[r] = Append(<< >>, c)
    BY DEF TypeOK
  <2>2. << >> \in Seq(Call) /\ DOMAIN << >> = {} /\ Len(<< >>) = 0
    OBVIOUS
  <2>3. /\ Append(<< >>, c) \in Seq(Call)
        /\ Append(<< >>, c) # << >>
        /\ DOMAIN Append(<< >>, c) = {1}
        /\ Append(<< >>, c)[1] = c
        /\ Head(Append(<< >>, c)) = c
    BY <2>2, Joined
  <2>4. QED BY <2>1, <2>3 DEF TypeOK
<1>3. TypeOK'
  <2>1. \A o \in Run : \A i \in DOMAIN queue'[o] : run'[queue'[o][i]] = o
    <3>1. ASSUME NEW o \in Run, o # r, NEW i \in DOMAIN queue'[o]
          PROVE  run'[queue'[o][i]] = o
      <4>1. queue[o][i] \in Call /\ run[queue[o][i]] = o
        BY <1>2, <3>1, Queued
      <4>2. queue[o][i] # c /\ queue'[o] = queue[o]
        BY <1>2, <3>1, <4>1
      <4>3. QED BY <4>1, <4>2 DEF TypeOK
    <3>2. run'[c] = r
      BY DEF TypeOK
    <3>3. QED BY <1>2, <3>1, <3>2
  <2>2. eol' \in Nat /\ late' \in BOOLEAN
    BY DEF TypeOK
  <2>3. QED BY <1>2, <2>1, <2>2 DEF TypeOK
<1>4. OneInside'
  <2>1. ASSUME NEW d \in inside', d # c
        PROVE  /\ d \in inside
               /\ run'[d] = run[d] /\ run[d] \in Run /\ run[d] # r
               /\ state'[run[d]] = state[run[d]]
               /\ queue'[run[d]] = queue[run[d]]
    <3>1. d \in inside /\ d \in Call /\ run[d] \in Run
      BY <2>1 DEF OneInside, TypeOK
    <3>2. run[d] # r
      BY <1>1, <3>1
    <3>3. run'[d] = run[d]
      BY <2>1, <3>1 DEF TypeOK
    <3>4. state'[run[d]] = state[run[d]]
      BY <3>1, <3>2 DEF TypeOK
    <3>5. QED BY <1>2, <3>1, <3>2, <3>3, <3>4
  <2>2. run'[c] = r /\ state'[r] = "asking"
    BY DEF TypeOK
  <2>3. ASSUME NEW o \in Run, o # r, state'[o] \in {"asking", "read"}
        PROVE  \E d \in inside' : run'[d] = o
    <3>1. PICK d \in inside : run[d] = o
      BY <2>3 DEF OneInside, TypeOK
    <3>2. d # c
      BY <3>1
    <3>3. QED BY <3>1, <3>2 DEF TypeOK
  <2>4. QED BY <1>2, <2>1, <2>2, <2>3 DEF OneInside
<1>5. QueuedOnce'
  BY <1>2 DEF QueuedOnce
<1>6. WrittenBefore' /\ EntryMade'
  BY DEF WrittenBefore, EntryMade, TypeOK
<1>7. ReadSinceMade'
  <2>1. made'[r] = now /\ state'[r] = "asking" /\ now \in Nat
    BY DEF TypeOK
  <2>2. \A o \in Run : o # r => made'[o] = made[o] /\ state'[o] = state[o]
    BY DEF TypeOK
  <2>3. QED BY <2>1, <2>2 DEF ReadSinceMade
<1>8. JoinedYoung'
  <2>1. ASSUME NEW d \in Call, run'[d] # NoRun
        PROVE  state'[run'[d]] # "new" /\ asked'[d] < made'[run'[d]] + TTL
    <3>1. CASE d = c
      <4>1. run'[d] = r /\ state'[r] = "asking" /\ made'[r] = now /\ asked'[d] = now
        BY <3>1 DEF TypeOK
      <4>2. now \in Nat
        BY DEF TypeOK
      <4>3. QED BY <4>1, <4>2
    <3>2. CASE d # c
      <4>1. run'[d] = run[d] /\ run[d] \in Run /\ run[d] # r /\ asked'[d] = asked[d]
        BY <1>1, <2>1, <3>2 DEF TypeOK
      <4>2. state'[run[d]] = state[run[d]] /\ made'[run[d]] = made[run[d]]
        BY <4>1 DEF TypeOK
      <4>3. QED BY <2>1, <4>1, <4>2 DEF JoinedYoung
    <3>3. QED BY <3>1, <3>2
  <2>2. QED BY <2>1 DEF JoinedYoung
<1>9. GivenWasWritten' /\ EntryNewest'
  BY <1>1 DEF Order, GivenWasWritten, EntryNewest, TypeOK
<1>10. OneUnderWay'
  <2>1. SUFFICES ASSUME ~late' PROVE \A o \in Run : state[o] \notin {"asking", "read"}
    BY DEF OneUnderWay, TypeOK
  <2>2. entry \in Run => state[entry] \notin {"asking", "read"}
    <3>1. SUFFICES ASSUME entry \in Run, ~Done(entry) PROVE FALSE
      BY DEF Done
    <3>2. ~(eol <= now)
      BY <2>1, <3>1
    <3>3. eol > now
      BY <3>2 DEF TypeOK
    <3>4. refusal[entry] # "raised" /\ state[entry] # "raised"
      BY <3>1 DEF Done, RefusalEnded
    <3>5. QED BY <3>1, <3>3, <3>4 DEF Usable, Raised
  <2>3. QED BY <2>1, <2>2 DEF Order, OneUnderWay
<1>11. AboveFloor'
  BY <1>1 DEF Order, AboveFloor, TypeOK
<1>12. NeverBackwards' /\ RefusalEnded'
  BY DEF NeverBackwards, RefusalEnded, TypeOK
<1>13. QED BY <1>3, <1>4, <1>5, <1>6, <1>7, <1>8, <1>9, <1>10, <1>11, <1>12
       DEF Order

(* What the call at the head of a queue leaves behind.                     *)
LEMMA QueueBehind ==
  ASSUME IInv, NEW c \in Call, NEW r \in Run, run[c] = r,
         queue[r] # << >>, c = Head(queue[r]), Release(r),
         run' = [run EXCEPT ![c] = NoRun]
  PROVE  /\ queue' \in [Run -> Seq(Call)]
         /\ \A o \in Run : o # r => queue'[o] = queue[o]
         /\ \A o \in Run : \A i \in DOMAIN queue'[o] : run'[queue'[o][i]] = o
         /\ QueuedOnce'
<1> DEFINE q == queue[r]
<1>1. queue[r] \in Seq(Call)
  BY DEF IInv, TypeOK
<1>2. /\ 1 \in DOMAIN q /\ q[1] = c
      /\ Tail(q) \in Seq(Call)
      /\ \A i \in DOMAIN Tail(q) :
           i \in Nat \ {0} /\ i + 1 \in DOMAIN q /\ Tail(q)[i] = q[i + 1]
  BY <1>1, Left
<1>3. /\ queue' \in [Run -> Seq(Call)]
      /\ queue'[r] = Tail(q)
      /\ \A o \in Run : o # r => queue'[o] = queue[o]
  BY <1>2 DEF IInv, TypeOK, Release
<1>4. \A i, j \in DOMAIN q : q[i] = q[j] => i = j
  BY DEF IInv, QueuedOnce
<1>5. \A i \in DOMAIN Tail(q) : q[i + 1] \in Call /\ q[i + 1] # c /\ run[q[i + 1]] = r
  <2>1. SUFFICES ASSUME NEW i \in DOMAIN Tail(q)
                 PROVE  q[i + 1] \in Call /\ q[i + 1] # c /\ run[q[i + 1]] = r
    OBVIOUS
  <2>2. i + 1 \in DOMAIN q /\ i + 1 # 1
    BY <1>2
  <2>3. q[i + 1] # c
    BY <1>2, <1>4, <2>2
  <2>4. QED BY <2>2, <2>3, Queued DEF IInv
<1> HIDE DEF q
<1>6. \A i \in DOMAIN queue'[r] : run'[queue'[r][i]] = r
  BY <1>2, <1>3, <1>5 DEF IInv, TypeOK
<1>7. ASSUME NEW o \in Run, o # r, NEW i \in DOMAIN queue'[o]
      PROVE  run'[queue'[o][i]] = o
  <2>1. queue'[o] = queue[o] /\ queue[o][i] \in Call /\ run[queue[o][i]] = o
    BY <1>3, <1>7, Queued DEF IInv
  <2>2. QED BY <1>7, <2>1 DEF IInv, TypeOK
<1>8. QueuedOnce'
  <2>1. \A i, j \in DOMAIN queue'[r] : queue'[r][i] = queue'[r][j] => i = j
    <3>1. SUFFICES ASSUME NEW i \in DOMAIN Tail(q), NEW j \in DOMAIN Tail(q),
                          q[i + 1] = q[j + 1]
                   PROVE  i = j
      BY <1>2, <1>3
    <3>2. i + 1 = j + 1
      BY <1>2, <1>4, <3>1
    <3>3. QED BY <1>2, <3>1, <3>2
  <2>2. ASSUME NEW o \in Run, o # r
        PROVE  \A i, j \in DOMAIN queue'[o] : queue'[o][i] = queue'[o][j] => i = j
    <3>1. \A i, j \in DOMAIN queue[o] : queue[o][i] = queue[o][j] => i = j
      BY DEF IInv, QueuedOnce
    <3>2. queue'[o] = queue[o]
      BY <1>3, <2>2
    <3>3. QED BY <3>1, <3>2
  <2>3. QED BY <2>1, <2>2 DEF QueuedOnce
<1>9. QED BY <1>3, <1>6, <1>7, <1>8

(* The call inside a request, and no other, ends it.                       *)
LEMMA FinishKeepsIInv ==
  ASSUME IInv, NEW c \in Call, NEW how \in {"value", "refused", "error"}, Finish(c, how)
  PROVE  IInv'
<1> DEFINE r == run[c]
<1>1. /\ c \in inside /\ run[c] \in Run
      /\ state[run[c]] \in {"asking", "read"}
      /\ how \in {"value", "refused"} => state[run[c]] = "read"
      /\ queue[run[c]] # << >> /\ c = Head(queue[run[c]])
  BY DEF Finish, IInv, OneInside
<1>2. /\ inside' = inside \ {c}
      /\ run' = [run EXCEPT ![c] = NoRun]
      /\ asked' = [asked EXCEPT ![c] = 0]
      /\ floor' = [floor EXCEPT ![c] = 0]
      /\ Reply(how, got[r], floor[c])
      /\ UNCHANGED <<now, written, cacheVars, got>>
  BY DEF Finish, Leaves
<1>3. /\ state' \in [Run -> {"new", "asking", "read", "result", "raised"}]
      /\ state'[r] = IF how = "error" THEN "raised" ELSE "result"
      /\ \A o \in Run : o # r => state'[o] = state[o]
  BY <1>1 DEF Finish, IInv, TypeOK
<1>4. /\ queue' \in [Run -> Seq(Call)]
      /\ \A o \in Run : o # r => queue'[o] = queue[o]
      /\ \A o \in Run : \A i \in DOMAIN queue'[o] : run'[queue'[o][i]] = o
      /\ QueuedOnce'
  BY <1>1, QueueBehind DEF Finish, Leaves
<1>5. \A d \in Call : d # c =>
        /\ run'[d] = run[d] /\ asked'[d] = asked[d] /\ floor'[d] = floor[d]
  BY <1>2 DEF IInv, TypeOK
<1>6. run'[c] = NoRun /\ floor'[c] = 0
  BY <1>2 DEF IInv, TypeOK
<1>7. got[r] \in 0 .. MaxWrites /\ floor[c] \in 0 .. MaxWrites
      /\ newest \in 0 .. MaxWrites
  BY <1>1 DEF IInv, TypeOK
<1>8. IF how \in {"value", "refused"}
      THEN /\ reply' = [how |-> how, value |-> got[r], floor |-> floor[c]]
           /\ newest' = IF got[r] > newest THEN got[r] ELSE newest
      ELSE /\ reply' = [how |-> "error", value |-> 0, floor |-> 0]
           /\ newest' = newest
  BY <1>2 DEF Reply
<1>9. 0 \in 0 .. MaxWrites /\ 0 \in 0 .. MaxTime
  BY ConstantsAssumption
<1> HIDE DEF r
<1>10. TypeOK'
  <2>1. /\ run' \in [Call -> Run \cup {NoRun}]
        /\ asked' \in [Call -> 0 .. MaxTime] /\ floor' \in [Call -> 0 .. MaxWrites]
    BY <1>2, <1>9 DEF IInv, TypeOK
  <2>2. /\ reply' \in [how: {"none", "value", "refused", "error"}, value: 0 .. MaxWrites,
                       floor: 0 .. MaxWrites]
        /\ newest' \in 0 .. MaxWrites
    BY <1>7, <1>8, <1>9
  <2>3. inside' \subseteq Call
    BY <1>2 DEF IInv, TypeOK
  <2>4. refusal' \in [Run -> {"none", "returned", "raised"}]
    BY DEF Finish, IInv, TypeOK
  <2>5. QED BY <1>2, <1>3, <1>4, <2>1, <2>2, <2>3, <2>4 DEF IInv, TypeOK, cacheVars
<1>11. OneInside'
  <2>1. ASSUME NEW d \in inside'
        PROVE  /\ d \in inside /\ d # c /\ run'[d] = run[d]
               /\ run[d] \in Run /\ run[d] # r
    <3>1. d \in inside /\ d \in Call /\ d # c /\ run[d] \in Run
          /\ d = Head(queue[run[d]])
      BY <1>2, <2>1 DEF IInv, OneInside, TypeOK
    <3>2. run[d] # r
      BY <1>1, <3>1 DEF r
    <3>3. QED BY <1>5, <3>1, <3>2
  <2>2. ASSUME NEW o \in Run, state'[o] \in {"asking", "read"}
        PROVE  \E d \in inside' : run'[d] = o
    <3>1. o # r /\ state[o] \in {"asking", "read"}
      BY <1>3, <2>2
    <3>2. PICK d \in inside : run[d] = o
      BY <3>1 DEF IInv, OneInside
    <3>3. d # c /\ d \in Call
      BY <3>1, <3>2 DEF r, IInv, TypeOK
    <3>4. QED BY <1>2, <1>5, <3>2, <3>3
  <2>3. QED BY <1>3, <1>4, <2>1, <2>2 DEF IInv, OneInside
<1>12. WrittenBefore' /\ EntryMade' /\ RefusalEnded'
  <2>1. RefusalEnded'
    BY <1>1, <1>3 DEF Finish, IInv, TypeOK, RefusalEnded, r
  <2>2. QED BY <1>1, <1>2, <1>3, <2>1 DEF IInv, WrittenBefore, EntryMade, cacheVars
<1>13. ReadSinceMade'
  <2>1. \A o \in Run : state'[o] \in {"read", "result"} =>
          state[o] \in {"read", "result"}
    BY <1>1, <1>3 DEF r
  <2>2. QED BY <1>2, <2>1 DEF IInv, ReadSinceMade, cacheVars
<1>14. JoinedYoung'
  <2>1. ASSUME NEW d \in Call, run'[d] # NoRun
        PROVE  state'[run'[d]] # "new" /\ asked'[d] < made'[run'[d]] + TTL
    <3>1. d # c
      BY <1>6, <2>1
    <3>2. run'[d] = run[d] /\ asked'[d] = asked[d] /\ run[d] \in Run
      BY <1>5, <2>1, <3>1 DEF IInv, TypeOK
    <3>3. state[run[d]] # "new" /\ asked[d] < made[run[d]] + TTL
      BY <2>1, <3>2 DEF IInv, JoinedYoung
    <3>4. QED BY <1>2, <1>3, <3>2, <3>3 DEF cacheVars
  <2>2. QED BY <2>1 DEF JoinedYoung
<1>15. GivenWasWritten'
  <2>1. got[r] <= Len(written) /\ Len(written) \in Nat
    BY <1>1 DEF r, IInv, TypeOK, ReadSinceMade
  <2>2. newest' <= Len(written)
    BY <1>7, <1>8, <2>1 DEF IInv, Order, GivenWasWritten
  <2>3. \A d \in Call : floor'[d] <= Len(written)
    BY <1>5, <1>6, <2>1 DEF IInv, Order, GivenWasWritten
  <2>4. QED BY <1>2, <2>2, <2>3 DEF GivenWasWritten
<1>16. OneUnderWay'
  BY <1>2, <1>3 DEF IInv, Order, OneUnderWay, cacheVars
<1>17. EntryNewest'
  <2>1. SUFFICES ASSUME ~late, entry \in Run, state'[entry] \in {"read", "result"}
                 PROVE  /\ newest' <= got[entry]
                        /\ \A o \in Run : state'[o] = "result" => got[o] <= got[entry]
    BY <1>2 DEF EntryNewest, cacheVars
  <2>2. r = entry /\ r \in Run
    BY <1>1, <2>1 DEF r, IInv, Order, OneUnderWay
  <2>3. how \in {"value", "refused"} /\ state[entry] = "read"
    BY <1>1, <1>3, <2>1, <2>2 DEF r
  <2>4. newest <= got[entry] /\ \A o \in Run : state[o] = "result" => got[o] <= got[entry]
    BY <2>1, <2>3 DEF IInv, Order, EntryNewest
  <2>5. newest' <= got[entry]
    BY <1>7, <1>8, <2>2, <2>3, <2>4
  <2>6. QED BY <1>3, <1>7, <2>2, <2>4, <2>5
<1>18. AboveFloor'
  <2>1. SUFFICES ASSUME ~late, NEW d \in Call, run'[d] # NoRun,
                        state'[run'[d]] \in {"read", "result"}
                 PROVE  floor'[d] <= got[run'[d]]
    BY <1>2 DEF AboveFloor, cacheVars
  <2>2. d # c /\ run'[d] = run[d] /\ floor'[d] = floor[d] /\ run[d] \in Run
    BY <1>5, <1>6, <2>1 DEF IInv, TypeOK
  <2>3. state[run[d]] \in {"read", "result"}
    BY <1>1, <1>3, <2>1, <2>2 DEF r
  <2>4. QED BY <2>1, <2>2, <2>3 DEF IInv, Order, AboveFloor
<1>19. NeverBackwards'
  <2>1. SUFFICES ASSUME ~late, how \in {"value", "refused"} PROVE got[r] >= floor[c]
    BY <1>2, <1>8 DEF NeverBackwards, cacheVars
  <2>2. run[c] # NoRun /\ state[run[c]] = "read"
    BY <1>1, <2>1, ConstantsAssumption
  <2>3. floor[c] <= got[r]
    BY <2>1, <2>2 DEF IInv, Order, AboveFloor, r
  <2>4. QED BY <1>7, <2>3
<1>20. QED BY <1>4, <1>10, <1>11, <1>12, <1>13, <1>14, <1>15, <1>16, <1>17, <1>18,
          <1>19 DEF IInv, Order

(* A call that waited is given the outcome of a run that has ended.        *)
LEMMA WokenKeepsIInv ==
  ASSUME IInv, NEW c \in Call, Woken(c)
  PROVE  IInv'
<1> DEFINE r == run[c]
           how == Outcome(run[c], state[run[c]])
<1>1. /\ c \notin inside /\ run[c] \in Run /\ Done(run[c])
      /\ queue[run[c]] # << >> /\ c = Head(queue[run[c]])
  BY DEF Woken, IInv, TypeOK
<1>2. /\ UNCHANGED <<state, inside, now, written, cacheVars, got>>
      /\ run' = [run EXCEPT ![c] = NoRun]
      /\ asked' = [asked EXCEPT ![c] = 0]
      /\ floor' = [floor EXCEPT ![c] = 0]
      /\ Reply(how, got[r], floor[c])
  BY DEF Woken, Leaves
<1>3. /\ how \in {"value", "refused", "error"}
      /\ how \in {"value", "refused"} => state[run[c]] = "result"
  BY <1>1, Outcomes DEF Done
<1>4. /\ queue' \in [Run -> Seq(Call)]
      /\ \A o \in Run : o # r => queue'[o] = queue[o]
      /\ \A o \in Run : \A i \in DOMAIN queue'[o] : run'[queue'[o][i]] = o
      /\ QueuedOnce'
  BY <1>1, QueueBehind DEF Woken, Leaves
<1>5. \A d \in Call : d # c =>
        /\ run'[d] = run[d] /\ asked'[d] = asked[d] /\ floor'[d] = floor[d]
  BY <1>2 DEF IInv, TypeOK
<1>6. run'[c] = NoRun /\ floor'[c] = 0
  BY <1>2 DEF IInv, TypeOK
<1>7. got[r] \in 0 .. MaxWrites /\ floor[c] \in 0 .. MaxWrites
      /\ newest \in 0 .. MaxWrites
  BY <1>1 DEF IInv, TypeOK
<1> HIDE DEF how
<1>8. IF how \in {"value", "refused"}
      THEN /\ reply' = [how |-> how, value |-> got[r], floor |-> floor[c]]
           /\ newest' = IF got[r] > newest THEN got[r] ELSE newest
      ELSE /\ reply' = [how |-> "error", value |-> 0, floor |-> 0]
           /\ newest' = newest
  BY <1>2 DEF Reply
<1>9. 0 \in 0 .. MaxWrites /\ 0 \in 0 .. MaxTime
  BY ConstantsAssumption
<1> HIDE DEF r
<1>10. TypeOK'
  <2>1. /\ run' \in [Call -> Run \cup {NoRun}]
        /\ asked' \in [Call -> 0 .. MaxTime] /\ floor' \in [Call -> 0 .. MaxWrites]
    BY <1>2, <1>9 DEF IInv, TypeOK
  <2>2. /\ reply' \in [how: {"none", "value", "refused", "error"}, value: 0 .. MaxWrites,
                       floor: 0 .. MaxWrites]
        /\ newest' \in 0 .. MaxWrites
    BY <1>7, <1>8, <1>9
  <2>3. refusal' \in [Run -> {"none", "returned", "raised"}]
    BY <1>1, <1>2, ReraiseKeeps DEF Woken, IInv
  <2>4. QED BY <1>2, <1>4, <2>1, <2>2, <2>3 DEF IInv, TypeOK, cacheVars
<1>11. OneInside'
  <2>1. ASSUME NEW d \in inside
        PROVE  run'[d] = run[d] /\ run[d] \in Run /\ run[d] # r
    <3>1. d \in Call /\ run[d] \in Run /\ state[run[d]] \in {"asking", "read"}
      BY DEF IInv, OneInside, TypeOK
    <3>2. run[d] # r /\ d # c
      BY <1>1, <3>1 DEF r, Done
    <3>3. QED BY <1>5, <3>1, <3>2
  <2>2. inside' = inside /\ state' = state
    BY <1>2
  <2>3. ASSUME NEW d \in inside'
        PROVE  /\ run'[d] \in Run /\ state'[run'[d]] \in {"asking", "read"}
               /\ queue'[run'[d]] # << >> /\ d = Head(queue'[run'[d]])
    BY <1>4, <2>1, <2>2 DEF IInv, OneInside
  <2>4. ASSUME NEW o \in Run, state'[o] \in {"asking", "read"}
        PROVE  \E d \in inside' : run'[d] = o
    BY <2>1, <2>2, <2>4 DEF IInv, OneInside
  <2>5. QED BY <2>3, <2>4 DEF OneInside
<1>12. WrittenBefore' /\ EntryMade' /\ ReadSinceMade' /\ RefusalEnded'
  <2>1. RefusalEnded'
    BY <1>1, <1>2, ReraiseKeeps DEF Woken, IInv
  <2>2. QED BY <1>2, <2>1 DEF IInv, WrittenBefore, EntryMade, ReadSinceMade, cacheVars
<1>13. JoinedYoung'
  <2>1. ASSUME NEW d \in Call, run'[d] # NoRun
        PROVE  state'[run'[d]] # "new" /\ asked'[d] < made'[run'[d]] + TTL
    <3>1. d # c
      BY <1>6, <2>1
    <3>2. QED BY <1>2, <1>5, <2>1, <3>1 DEF IInv, JoinedYoung, cacheVars
  <2>2. QED BY <2>1 DEF JoinedYoung
<1>14. GivenWasWritten'
  <2>1. got[r] <= Len(written) /\ Len(written) \in Nat
    BY <1>1 DEF r, IInv, TypeOK, ReadSinceMade
  <2>2. newest' <= Len(written)
    BY <1>7, <1>8, <2>1 DEF IInv, Order, GivenWasWritten
  <2>3. \A d \in Call : floor'[d] <= Len(written)
    BY <1>5, <1>6, <2>1 DEF IInv, Order, GivenWasWritten
  <2>4. QED BY <1>2, <2>2, <2>3 DEF GivenWasWritten
<1>15. OneUnderWay'
  BY <1>2 DEF IInv, Order, OneUnderWay, cacheVars
<1>16. EntryNewest'
  <2>1. SUFFICES ASSUME ~late, entry \in Run, state[entry] \in {"read", "result"}
                 PROVE  /\ newest' <= got[entry]
                        /\ \A o \in Run : state[o] = "result" => got[o] <= got[entry]
    BY <1>2 DEF EntryNewest, cacheVars
  <2>2. newest <= got[entry] /\ \A o \in Run : state[o] = "result" => got[o] <= got[entry]
    BY <2>1 DEF IInv, Order, EntryNewest
  <2>3. how \in {"value", "refused"} => got[r] <= got[entry]
    BY <1>1, <1>3, <2>2 DEF r
  <2>4. QED BY <1>7, <1>8, <2>2, <2>3
<1>17. AboveFloor'
  <2>1. SUFFICES ASSUME ~late, NEW d \in Call, run'[d] # NoRun,
                        state[run'[d]] \in {"read", "result"}
                 PROVE  floor'[d] <= got[run'[d]]
    BY <1>2 DEF AboveFloor, cacheVars
  <2>2. d # c
    BY <1>6, <2>1
  <2>3. QED BY <1>5, <2>1, <2>2 DEF IInv, Order, AboveFloor
<1>18. NeverBackwards'
  <2>1. SUFFICES ASSUME ~late, how \in {"value", "refused"} PROVE got[r] >= floor[c]
    BY <1>2, <1>8 DEF NeverBackwards, cacheVars
  <2>2. run[c] # NoRun /\ state[run[c]] = "result"
    BY <1>1, <1>3, <2>1, ConstantsAssumption
  <2>3. floor[c] <= got[r]
    BY <2>1, <2>2 DEF IInv, Order, AboveFloor, r
  <2>4. QED BY <1>7, <2>3
<1>19. QED BY <1>4, <1>10, <1>11, <1>12, <1>13, <1>14, <1>15, <1>16, <1>17, <1>18
       DEF IInv, Order

(* The server's answer to a request is its newest value.                   *)
LEMMA ReadKeepsIInv ==
  ASSUME IInv, NEW r \in Run, Read(r)
  PROVE  IInv'
<1> USE ConstantsAssumption DEF IInv, Read, cacheVars, callVars
<1>1. /\ state[r] = "asking"
      /\ state'[r] = "read" /\ got'[r] = Len(written)
      /\ \A o \in Run : o # r => state'[o] = state[o] /\ got'[o] = got[o]
  BY DEF TypeOK
<1>2. Len(written) \in 0 .. MaxWrites
  BY DEF TypeOK
<1>3. TypeOK'
  BY <1>2 DEF TypeOK
<1>4. OneInside' /\ QueuedOnce'
  BY <1>1 DEF OneInside, QueuedOnce
<1>5. WrittenBefore' /\ EntryMade' /\ JoinedYoung'
  <2>1. \A o \in Run : state[o] # "new" => state'[o] # "new"
    BY <1>1
  <2>2. QED BY <2>1 DEF WrittenBefore, EntryMade, JoinedYoung, TypeOK
<1>6. ReadSinceMade'
  <2>1. \A i \in DOMAIN written : ~(i > Len(written))
    BY LenProperties DEF TypeOK
  <2>2. QED BY <1>1, <1>2, <2>1 DEF ReadSinceMade
<1>7. GivenWasWritten' /\ OneUnderWay'
  BY <1>1 DEF Order, GivenWasWritten, OneUnderWay
<1>8. EntryNewest'
  <2>1. ~late => r = entry
    BY <1>1 DEF Order, OneUnderWay
  <2>2. QED BY <1>1, <1>2, <2>1
        DEF Order, EntryNewest, GivenWasWritten, ReadSinceMade
<1>9. AboveFloor'
  BY <1>1 DEF Order, AboveFloor, GivenWasWritten, TypeOK
<1>10. NeverBackwards' /\ RefusalEnded'
  BY <1>1 DEF NeverBackwards, RefusalEnded
<1>11. QED BY <1>3, <1>4, <1>5, <1>6, <1>7, <1>8, <1>9, <1>10 DEF Order

(* The server's value changes.                                             *)
LEMMA WriteKeepsIInv ==
  ASSUME IInv, Write
  PROVE  IInv'
<1> USE ConstantsAssumption DEF IInv, Write, cacheVars, runVars, callVars
<1>1. /\ written' \in Seq(0 .. MaxTime)
      /\ Len(written') = Len(written) + 1 /\ Len(written) \in Nat
      /\ \A i \in DOMAIN written' :
           written'[i] = now \/ (i \in DOMAIN written /\ written'[i] = written[i])
  <2>1. written \in Seq(0 .. MaxTime) /\ now \in 0 .. MaxTime
    BY DEF TypeOK
  <2>2. DOMAIN written = 1 .. Len(written) /\ DOMAIN written' = 1 .. Len(written')
    BY <2>1, AppendProperties, LenProperties
  <2>3. QED BY <2>1, <2>2, AppendProperties, LenProperties
<1>2. now \in Nat /\ \A r \in Run : made[r] \in Nat /\ got[r] \in Nat
  BY DEF TypeOK
<1>3. TypeOK'
  <2>1. Len(written') <= MaxWrites
    BY <1>1 DEF TypeOK
  <2>2. QED BY <1>1, <2>1 DEF TypeOK
<1>4. OneInside' /\ QueuedOnce' /\ EntryMade' /\ JoinedYoung'
  BY DEF OneInside, QueuedOnce, EntryMade, JoinedYoung
<1>5. WrittenBefore'
  BY <1>1, <1>2 DEF WrittenBefore
<1>6. ReadSinceMade'
  BY <1>1, <1>2 DEF ReadSinceMade
<1>7. GivenWasWritten'
  BY <1>1 DEF Order, GivenWasWritten, TypeOK
<1>8. OneUnderWay' /\ EntryNewest' /\ AboveFloor'
  BY DEF Order, OneUnderWay, EntryNewest, AboveFloor
<1>9. NeverBackwards' /\ RefusalEnded'
  BY DEF NeverBackwards, RefusalEnded
<1>10. QED BY <1>3, <1>4, <1>5, <1>6, <1>7, <1>8, <1>9 DEF Order

(* Time passes.                                                            *)
LEMMA TickKeepsIInv ==
  ASSUME IInv, Tick
  PROVE  IInv'
<1> USE ConstantsAssumption DEF IInv, Tick, cacheVars, runVars, callVars
<1>1. now \in Nat /\ \A r \in Run : made[r] \in Nat
  BY DEF TypeOK
<1>2. TypeOK'
  BY DEF TypeOK
<1>3. OneInside' /\ QueuedOnce' /\ EntryMade' /\ JoinedYoung'
  BY DEF OneInside, QueuedOnce, EntryMade, JoinedYoung
<1>4. WrittenBefore'
  <2>1. \A i \in DOMAIN written : written[i] \in Nat
    BY ElementOfSeq, LenProperties DEF TypeOK
  <2>2. QED BY <1>1, <2>1 DEF WrittenBefore
<1>5. ReadSinceMade'
  BY <1>1 DEF ReadSinceMade
<1>6. Order'
  BY DEF Order, GivenWasWritten, OneUnderWay, EntryNewest, AboveFloor
<1>7. NeverBackwards' /\ RefusalEnded'
  BY DEF NeverBackwards, RefusalEnded
<1>8. QED BY <1>2, <1>3, <1>4, <1>5, <1>6, <1>7

(* So does every step.                                                     *)
LEMMA NextIInv == IInv /\ [Next]_vars => IInv'
<1> SUFFICES ASSUME IInv, [Next]_vars PROVE IInv'
  OBVIOUS
<1>1. ASSUME NEW c \in Call, Hit(c) PROVE IInv'
  BY <1>1, HitCases, HitAnsweredKeepsIInv, HitJoinsKeepsIInv
<1>2. ASSUME NEW c \in Call, Miss(c) PROVE IInv'
  BY <1>2, MissCases, MissAsksKeepsIInv
<1>3. ASSUME NEW c \in Call, CallStep(c) PROVE IInv'
  BY <1>3, FinishKeepsIInv, WokenKeepsIInv DEF CallStep
<1>4. ASSUME NEW r \in Run, Read(r) PROVE IInv'
  BY <1>4, ReadKeepsIInv
<1>5. CASE Write
  BY <1>5, WriteKeepsIInv
<1>6. CASE Tick
  BY <1>6, TickKeepsIInv
<1>7. CASE UNCHANGED vars
  BY <1>7 DEF vars, cacheVars, runVars, callVars, IInv, TypeOK, OneInside,
     RefusalEnded, QueuedOnce, WrittenBefore, EntryMade, ReadSinceMade, JoinedYoung, Order,
     GivenWasWritten, OneUnderWay, EntryNewest, AboveFloor, NeverBackwards
<1>8. QED BY <1>1, <1>2, <1>3, <1>4, <1>5, <1>6, <1>7 DEF Next

(* The invariant holds of every behaviour of the cache.                    *)
LEMMA SpecIInv == Spec => []IInv
  BY InitIInv, NextIInv, PTL DEF Spec

-----------------------------------------------------------------------------
(* The cache implements StaleReads                                         *)

Waiting == {c \in Call : run[c] # NoRun}
Failing == {c \in Call : run[c] # NoRun /\ state[run[c]] = "raised"}
Given == [how |-> reply.how, value |-> reply.value]

(* What a run has read was current when the run was made, or later.        *)
LEMMA ReadIsRecent ==
  ASSUME IInv, NEW r \in Run, state[r] \in {"read", "result"},
         NEW t \in 0 .. MaxTime, t < made[r] + TTL
  PROVE  Promise!Recent(got[r], t)
<1>1. /\ got[r] \in Nat /\ got[r] <= Len(written) /\ Len(written) \in Nat
      /\ made[r] \in Nat /\ TTL \in Nat /\ t \in Nat
  BY ConstantsAssumption DEF IInv, TypeOK, ReadSinceMade
<1>2. \A i \in DOMAIN written : i > got[r] => written[i] >= made[r] /\ written[i] \in Nat
  <2>1. written \in Seq(0 .. MaxTime) /\ MaxTime \in Nat
    BY ConstantsAssumption DEF IInv, TypeOK
  <2>2. \A i \in DOMAIN written : written[i] \in Nat
    BY <2>1, ElementOfSeq, LenProperties
  <2>3. QED BY <2>2 DEF IInv, ReadSinceMade
<1>3. got[r] < Len(written) => got[r] + 1 \in DOMAIN written
  BY <1>1, LenProperties DEF IInv, TypeOK
<1>4. QED BY <1>1, <1>2, <1>3 DEF Promise!Recent

(* A call that is answered from the cache.                                 *)
LEMMA HitAnsweredSimulates ==
  ASSUME IInv, NEW c \in Call, HitAnswered(c)
  PROVE  Promise!Next
<1> DEFINE how == Outcome(entry, "result")
<1> USE DEF HitAnswered, cacheVars, runVars
<1>1. entry \in Run /\ state[entry] = "result" /\ eol = made[entry] + TTL
      /\ now \in 0 .. MaxTime /\ now < made[entry] + TTL
  <2>1. entry \in Run /\ state[entry] = "result" /\ eol = made[entry] + TTL
    BY DEF IInv, TypeOK, Usable, EntryMade
  <2>2. now \in 0 .. MaxTime /\ made[entry] \in 0 .. MaxTime
    BY <2>1 DEF IInv, TypeOK
  <2>3. eol > now
    BY DEF Usable
  <2>4. QED BY <2>1, <2>2, <2>3, ConstantsAssumption
<1>2. Promise!Recent(got[entry], now)
  BY <1>1, ReadIsRecent
<1>3. Waiting' = Waiting /\ Failing' = Failing
  BY DEF Waiting, Failing
<1>4. how \in {"value", "refused"} /\ Given' = [how |-> how, value |-> got[entry]]
  BY <1>1, Outcomes DEF Given, Reply
<1> HIDE DEF how
<1>5. Promise!AskAnswered(c, how, got[entry])
  BY <1>2, <1>3, <1>4 DEF Promise!AskAnswered, Waiting, Failing, Given
<1>6. got[entry] \in 0 .. Len(written)
  BY <1>2 DEF Promise!Recent
<1>7. QED BY <1>4, <1>5, <1>6 DEF Promise!Next, Promise!Answers

(* A call that waits for the entry's request.                              *)
LEMMA HitJoinsSimulates ==
  ASSUME IInv, NEW c \in Call, HitJoins(c)
  PROVE  Promise!Next
<1> USE ConstantsAssumption DEF HitJoins, Joins, cacheVars
<1>1. entry \in Run /\ state[entry] # "raised"
  BY DEF IInv, TypeOK, Usable, Raised
<1>2. run'[c] = entry /\ \A d \in Call : d # c => run'[d] = run[d]
  BY DEF IInv, TypeOK
<1>3. Waiting' = Waiting \cup {c} /\ Failing' = Failing
  <2>1. Waiting' = Waiting \cup {c}
    BY <1>1, <1>2 DEF Waiting
  <2>2. ASSUME NEW d \in Call
        PROVE  (run'[d] # NoRun /\ state'[run'[d]] = "raised")
               <=> (run[d] # NoRun /\ state[run[d]] = "raised")
    BY <1>1, <1>2
  <2>3. QED BY <2>1, <2>2 DEF Failing
<1>4. Promise!Ask(c)
  BY <1>3 DEF Promise!Ask, Waiting, Failing
<1>5. QED BY <1>4 DEF Promise!Next

(* A call that makes a request.                                            *)
LEMMA MissAsksSimulates ==
  ASSUME IInv, NEW c \in Call, NEW r \in Run, MissAsks(c, r)
  PROVE  Promise!Next
<1> USE ConstantsAssumption DEF MissAsks, Joins
<1>1. \A d \in Call : run[d] # r
  BY DEF Fresh
<1>2. /\ run'[c] = r /\ state'[r] = "asking"
      /\ \A d \in Call : d # c => run'[d] = run[d]
      /\ \A o \in Run : o # r => state'[o] = state[o]
  BY DEF IInv, TypeOK
<1>3. Waiting' = Waiting \cup {c}
  BY <1>2 DEF Waiting
<1>4. Failing' = Failing
  <2>1. ASSUME NEW d \in Call
        PROVE  (run'[d] # NoRun /\ state'[run'[d]] = "raised")
               <=> (run[d] # NoRun /\ state[run[d]] = "raised")
    <3>1. CASE d = c
      BY <1>2, <3>1
    <3>2. CASE d # c
      BY <1>1, <1>2, <3>2 DEF IInv, TypeOK
    <3>3. QED BY <3>1, <3>2
  <2>2. QED BY <2>1 DEF Failing
<1>5. Promise!Ask(c)
  BY <1>3, <1>4 DEF Promise!Ask, Waiting, Failing
<1>6. QED BY <1>5 DEF Promise!Next

(* A request that ends answers one call, or fails all that wait for it.    *)
LEMMA FinishSimulates ==
  ASSUME IInv, NEW c \in Call, NEW how \in {"value", "refused", "error"}, Finish(c, how)
  PROVE  Promise!Next
<1> DEFINE r == run[c]
<1> USE ConstantsAssumption
<1>1. /\ r \in Run /\ state[r] \in {"asking", "read"}
      /\ how \in {"value", "refused"} => state[r] = "read"
  BY DEF Finish, IInv, OneInside
<1>2. /\ run' = [run EXCEPT ![c] = NoRun]
      /\ asked' = [asked EXCEPT ![c] = 0]
      /\ Reply(how, got[r], floor[c])
      /\ now' = now /\ written' = written
  BY DEF Finish, Leaves
<1>3. /\ run'[c] = NoRun
      /\ \A d \in Call : d # c => run'[d] = run[d]
      /\ state'[r] = IF how = "error" THEN "raised" ELSE "result"
      /\ \A o \in Run : o # r => state'[o] = state[o]
  BY <1>1, <1>2 DEF Finish, IInv, TypeOK
<1>4. Waiting' = Waiting \ {c}
  BY <1>3 DEF Waiting
<1>5. c \in Waiting \ Failing
  BY <1>1 DEF Waiting, Failing
<1>6. CASE how \in {"value", "refused"}
  <2>1. Given' = [how |-> how, value |-> got[r]]
    BY <1>2, <1>6 DEF Given, Reply
  <2>2. asked[c] \in 0 .. MaxTime /\ asked[c] < made[r] + TTL
    BY <1>1 DEF IInv, TypeOK, JoinedYoung
  <2>3. Promise!Recent(got[r], asked[c])
    BY <1>1, <1>6, <2>2, ReadIsRecent
  <2>4. Failing' = Failing
    <3>1. ASSUME NEW d \in Call
          PROVE  (run'[d] # NoRun /\ state'[run'[d]] = "raised")
                 <=> (run[d] # NoRun /\ state[run[d]] = "raised")
      <4>1. CASE d = c
        BY <1>1, <1>3, <4>1
      <4>2. CASE d # c /\ run[d] = r
        BY <1>1, <1>3, <1>6, <4>2
      <4>3. CASE d # c /\ run[d] # r
        <5>1. run'[d] = run[d] /\ (run[d] # NoRun => run[d] \in Run)
          BY <1>3, <4>3 DEF IInv, TypeOK
        <5>2. run[d] # NoRun => state'[run[d]] = state[run[d]]
          BY <1>3, <4>3, <5>1
        <5>3. QED BY <4>3, <5>1, <5>2
      <4>4. QED BY <4>1, <4>2, <4>3
    <3>2. QED BY <3>1 DEF Failing
  <2>5. Promise!Answer(c, how, got[r])
    BY <1>2, <1>4, <1>5, <2>1, <2>3, <2>4
    DEF Promise!Answer, Promise!Leaves, Waiting, Failing, Given
  <2>6. got[r] \in 0 .. Len(written)
    BY <2>3 DEF Promise!Recent
  <2>7. QED BY <1>6, <2>5, <2>6 DEF Promise!Next, Promise!Answers
<1>7. CASE how = "error"
  <2> DEFINE others == {d \in Call \ {c} : run[d] = r}
  <2>1. Given' = [how |-> "error", value |-> 0]
    BY <1>2, <1>7 DEF Given, Reply
  <2>2. others \in SUBSET (Waiting \ {c})
    BY <1>1 DEF Waiting
  <2>3. Failing' = Failing \cup others
    <3>1. ASSUME NEW d \in Call
          PROVE  (run'[d] # NoRun /\ state'[run'[d]] = "raised")
                 <=> ((run[d] # NoRun /\ state[run[d]] = "raised") \/ d \in others)
      <4>1. CASE d = c
        BY <1>1, <1>3, <4>1
      <4>2. CASE d # c /\ run[d] = r
        BY <1>1, <1>3, <1>7, <4>2
      <4>3. CASE d # c /\ run[d] # r
        <5>1. run'[d] = run[d] /\ (run[d] # NoRun => run[d] \in Run)
          BY <1>3, <4>3 DEF IInv, TypeOK
        <5>2. run[d] # NoRun => state'[run[d]] = state[run[d]]
          BY <1>3, <4>3, <5>1
        <5>3. QED BY <4>3, <5>1, <5>2
      <4>4. QED BY <4>1, <4>2, <4>3
    <3>2. QED BY <3>1 DEF Failing
  <2> HIDE DEF others
  <2>4. Promise!Fail(c)
    BY <1>2, <1>4, <1>5, <2>1, <2>2, <2>3
    DEF Promise!Fail, Promise!Leaves, Waiting, Failing, Given
  <2>5. QED BY <2>4 DEF Promise!Next
<1>8. QED BY <1>6, <1>7

(* A call that is woken takes the outcome.                                 *)
LEMMA WokenSimulates ==
  ASSUME IInv, NEW c \in Call, Woken(c)
  PROVE  Promise!Next
<1> DEFINE r == run[c]
           how == Outcome(run[c], state[run[c]])
<1> USE ConstantsAssumption
<1>1. r \in Run /\ state[r] \in {"result", "raised"}
  BY DEF Woken, Done, IInv, TypeOK
<1>2. /\ run' = [run EXCEPT ![c] = NoRun]
      /\ asked' = [asked EXCEPT ![c] = 0]
      /\ Reply(how, got[r], floor[c])
      /\ now' = now /\ written' = written /\ state' = state
  BY DEF Woken, Leaves
<1>3. run'[c] = NoRun /\ \A d \in Call : d # c => run'[d] = run[d]
  BY <1>2 DEF IInv, TypeOK
<1>4. Waiting' = Waiting \ {c} /\ c \in Waiting
  BY <1>1, <1>3 DEF Waiting
<1>5. Failing' = Failing \ {c}
  BY <1>2, <1>3 DEF Failing
<1>6. CASE state[r] = "result"
  <2>1. how \in {"value", "refused"} /\ Given' = [how |-> how, value |-> got[r]]
    BY <1>1, <1>2, <1>6, Outcomes DEF Given, Reply
  <2> HIDE DEF how
  <2>2. asked[c] \in 0 .. MaxTime /\ asked[c] < made[r] + TTL
    BY <1>1 DEF IInv, TypeOK, JoinedYoung
  <2>3. Promise!Recent(got[r], asked[c])
    BY <1>1, <1>6, <2>2, ReadIsRecent
  <2>4. c \notin Failing /\ Failing' = Failing
    BY <1>5, <1>6 DEF Failing
  <2>5. Promise!Answer(c, how, got[r])
    BY <1>2, <1>4, <2>1, <2>3, <2>4
    DEF Promise!Answer, Promise!Leaves, Waiting, Failing, Given
  <2>6. got[r] \in 0 .. Len(written)
    BY <2>3 DEF Promise!Recent
  <2>7. QED BY <2>1, <2>5, <2>6 DEF Promise!Next, Promise!Answers
<1>7. CASE state[r] = "raised"
  <2>1. Given' = [how |-> "error", value |-> 0]
    BY <1>1, <1>2, <1>7, Outcomes DEF Given, Reply
  <2>2. c \in Failing
    BY <1>1, <1>7 DEF Failing
  <2>3. Promise!ReportFailure(c)
    BY <1>2, <1>4, <1>5, <2>1, <2>2
    DEF Promise!ReportFailure, Promise!Leaves, Waiting, Failing, Given
  <2>4. QED BY <2>3 DEF Promise!Next
<1>8. QED BY <1>1, <1>6, <1>7

(* The server's answer is not seen by the callers yet.                     *)
LEMMA ReadSimulates ==
  ASSUME IInv, NEW r \in Run, Read(r)
  PROVE  UNCHANGED Promise!vars
<1>1. /\ run' = run /\ asked' = asked /\ reply' = reply
      /\ now' = now /\ written' = written
      /\ state[r] = "asking" /\ state'[r] = "read"
      /\ \A o \in Run : o # r => state'[o] = state[o]
  BY DEF Read, callVars, IInv, TypeOK
<1>2. \A d \in Call : run[d] # NoRun =>
        (state'[run[d]] = "raised" <=> state[run[d]] = "raised")
  BY <1>1 DEF IInv, TypeOK
<1>3. Waiting' = Waiting /\ Failing' = Failing /\ Given' = Given
  BY <1>1, <1>2 DEF Waiting, Failing, Given
<1>4. QED BY <1>1, <1>3 DEF Promise!vars, Waiting, Failing, Given

(* A write, the clock and a step of something else.                        *)
LEMMA OutsideSimulates ==
  ASSUME Write \/ Tick \/ UNCHANGED vars
  PROVE  [Promise!Next]_(Promise!vars)
<1>1. CASE Write
  BY <1>1 DEF Write, cacheVars, runVars, callVars, Promise!Next, Promise!Write
<1>2. CASE Tick
  BY <1>2 DEF Tick, cacheVars, runVars, callVars, Promise!Next, Promise!Tick
<1>3. CASE UNCHANGED vars
  BY <1>3 DEF vars, cacheVars, runVars, callVars, Promise!vars
<1>4. QED BY <1>1, <1>2, <1>3

-----------------------------------------------------------------------------
(* Theorems                                                                *)

(* The variables of the cache keep their types.                            *)
THEOREM SpecTypeOK == Spec => []TypeOK
<1>1. IInv => TypeOK
  BY DEF IInv
<1>2. QED BY <1>1, SpecIInv, PTL

(* "The lock makes sure multiple methods do not call await on the          *)
(* coroutine": however many calls share a run, its request is made once.   *)
THEOREM SpecAwaitedOnce == Spec => []AwaitedOnce
<1>1. IInv => AwaitedOnce
  BY DEF IInv, OneInside, AwaitedOnce, Done
<1>2. QED BY <1>1, SpecIInv, PTL

(* While requests are answered within the life of their entries, no call   *)
(* gets an older value than one that was given before the call was made.   *)
THEOREM SpecNeverBackwards == Spec => []NeverBackwards
<1>1. IInv => NeverBackwards
  BY DEF IInv
<1>2. QED BY <1>1, SpecIInv, PTL

(* The cache implements StaleReads: an answer is at most TTL older than    *)
(* the call, and a call only fails for an error that occurred while it     *)
(* waited.                                                                 *)
THEOREM SpecKeepsPromise == Spec => KeepsPromise
<1>1. Init => Promise!Init
  <2>1. SUFFICES ASSUME Init PROVE Promise!Init
    OBVIOUS
  <2>2. Waiting = {} /\ Failing = {} /\ Given = [how |-> "none", value |-> 0]
    BY <2>1 DEF Init, Waiting, Failing, Given
  <2>3. QED BY <2>1, <2>2 DEF Init, Promise!Init, Waiting, Failing, Given
<1>2. IInv /\ [Next]_vars => [Promise!Next]_(Promise!vars)
  <2>1. SUFFICES ASSUME IInv, [Next]_vars PROVE [Promise!Next]_(Promise!vars)
    OBVIOUS
  <2>2. ASSUME NEW c \in Call, Hit(c) PROVE Promise!Next
    BY <2>1, <2>2, HitCases, HitAnsweredSimulates, HitJoinsSimulates
  <2>3. ASSUME NEW c \in Call, Miss(c) PROVE Promise!Next
    BY <2>1, <2>3, MissCases, MissAsksSimulates
  <2>4. ASSUME NEW c \in Call, CallStep(c) PROVE Promise!Next
    BY <2>1, <2>4, FinishSimulates, WokenSimulates DEF CallStep
  <2>5. ASSUME NEW r \in Run, Read(r) PROVE UNCHANGED Promise!vars
    BY <2>1, <2>5, ReadSimulates
  <2>6. ASSUME Write \/ Tick \/ UNCHANGED vars PROVE [Promise!Next]_(Promise!vars)
    BY <2>6, OutsideSimulates
  <2>7. QED BY <2>1, <2>2, <2>3, <2>4, <2>5, <2>6 DEF Next
<1>3. QED BY <1>1, <1>2, SpecIInv, PTL DEF Spec, KeepsPromise, Promise!Spec
=============================================================================
