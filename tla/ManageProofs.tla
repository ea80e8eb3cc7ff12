---------------------------- MODULE ManageProofs ----------------------------
(***************************************************************************)
(* The plans of manage, for all nodes, lines and answers.  A plan is what  *)
(* a controller would do with the answers it has.  Two facts about it      *)
(* carry the theorems about a session: with more answers a plan only goes  *)
(* on (Grows), so that what was done was planned; and when the context     *)
(* warns, every request that a user is to confirm has the question before  *)
(* it (AskFirst).                                                          *)
(* A lemma for each controller states both (Heeds with the warning of its  *)
(* context, Behaves with that of the line it was given), each from those   *)
(* of the controllers it hands its line to.                                *)
(***************************************************************************)
EXTENDS Collectinfo, BasicFacts

-----------------------------------------------------------------------------
(* Contexts, plans and their steps.                                        *)

IsContext(c) ==
  c = [line |-> c.line, mods |-> c.mods, keys |-> c.keys, args |-> c.args,
       nodes |-> c.nodes, privileged |-> c.privileged, warn |-> c.warn, seen |-> c.seen]
GoodContext(c) == IsContext(c) /\ IsSeq(c.seen) /\ c.nodes \subseteq Node

IsPlan(p) ==
  p = [mods |-> p.mods, steps |-> p.steps, reached |-> p.reached] /\ IsSeq(p.steps)
WellAsked(asks) ==
  /\ DOMAIN asks \subseteq Node \union {Here}
  /\ \A n \in DOMAIN asks \ {Here} :
       IsSeq(asks[n]) /\ \A i \in 1 .. Len(asks[n]) : IsSeq(asks[n][i])
Silent(step) == step.does \notin {"call", "enable"}
WellFormed(p) ==
  /\ IsPlan(p)
  /\ \A i \in 1 .. Len(p.steps) :
       Silent(p.steps[i]) \/ (p.steps[i].does = "call" /\ WellAsked(p.steps[i].asks))

Wants(request) == Changes(request) /\ request.cmd \notin {"recluster", "udf-put"}
Sends(step) ==
  /\ step.does = "call"
  /\ \E n \in DOMAIN step.asks \ {Here} :
       \E i \in 1 .. Len(step.asks[n]) : \E j \in 1 .. Len(step.asks[n][i]) :
         Wants(step.asks[n][i][j])
AskFirst(p) ==
  \A i \in 1 .. Len(p.steps) :
    Sends(p.steps[i]) => \E j \in 1 .. (i - 1) : p.steps[j].does = "ask"

(* Nothing that was planned changes when more is known.                    *)
Grows(p, q) ==
  Len(p.steps) <= Len(q.steps) /\ \A i \in 1 .. Len(p.steps) : q.steps[i] = p.steps[i]
Grown(p, q) == WellFormed(p) /\ WellFormed(q) /\ Grows(p, q)

(* e has the answers of c, and perhaps more.                               *)
Further(c, e) ==
  GoodContext(c) /\ GoodContext(e) /\ \E t : IsSeq(t) /\ e = [c EXCEPT !.seen = c.seen \o t]

Warned(c) == c.warn /\ ~Contains(c.line, "--no-warn")
Behaves(c, p, q) == Grown(p, q) /\ (Warned(c) => AskFirst(p))

-----------------------------------------------------------------------------

(* A context has its own answers.                                          *)
LEMMA FurtherRefl ==
  ASSUME NEW c, GoodContext(c)
  PROVE  Further(c, c)
<1>1. c.seen \o <<>> = c.seen
  BY DEF GoodContext, IsSeq
<1>2. IsSeq(<<>>)
  BY SeqOne
<1>3. c = [c EXCEPT !.seen = c.seen \o <<>>]
  BY <1>1 DEF GoodContext, IsContext
<1> QED
  BY <1>2, <1>3 DEF Further

(* More answers change nothing else of a context.                          *)
LEMMA FurtherSame ==
  ASSUME NEW c, NEW e, Further(c, e)
  PROVE  /\ GoodContext(c) /\ GoodContext(e)
         /\ e.line = c.line /\ e.mods = c.mods /\ e.keys = c.keys /\ e.args = c.args
         /\ e.nodes = c.nodes /\ e.privileged = c.privileged /\ e.warn = c.warn
  BY DEF Further, GoodContext, IsContext

Rest(c) == [c EXCEPT !.seen = Tail(@)]

(* Who has more answers has the first one too, and more after it.          *)
LEMMA FurtherRest ==
  ASSUME NEW c, NEW e, Further(c, e), c.seen # <<>>
  PROVE  Further(Rest(c), Rest(e)) /\ Head(e.seen) = Head(c.seen) /\ e.seen # <<>>
<1>1. PICK t : IsSeq(t) /\ e = [c EXCEPT !.seen = c.seen \o t]
  BY DEF Further
<1>2. e.seen = c.seen \o t /\ IsSeq(c.seen) /\ IsSeq(e.seen)
  BY <1>1 DEF Further, GoodContext, IsContext
<1>3. /\ Tail(e.seen) = Tail(c.seen) \o t /\ Head(e.seen) = Head(c.seen) /\ e.seen # <<>>
  <2> DEFINE S == ToSet(c.seen) \union ToSet(t)
  <2>1. c.seen \in Seq(S) /\ t \in Seq(S)
    BY <1>1, <1>2 DEF IsSeq
  <2> HIDE DEF S
  <2>2. e.seen \in Seq(S) /\ Len(e.seen) = Len(c.seen) + Len(t) /\ e.seen # <<>> /\ Len(c.seen) >= 1
    BY <1>2, <2>1
  <2>3. Head(e.seen) = Head(c.seen)
    BY <1>2, <2>1, <2>2
  <2>4. Tail(e.seen) = Tail(c.seen) \o t
    <3> DEFINE m == Len(c.seen)  k == Len(t)  u == Tail(c.seen)  v == Tail(e.seen)  w == u \o t
    <3>1. /\ IsSeq(u) /\ Len(u) = m - 1
          /\ \A i \in 1 .. (m - 1) : u[i] = c.seen[i + 1]
      BY <1>2, SeqTail
    <3>2. /\ IsSeq(v) /\ Len(v) = m + k - 1
          /\ \A i \in 1 .. (m + k - 1) : v[i] = e.seen[i + 1]
      <4>1. /\ IsSeq(v) /\ Len(v) = Len(e.seen) - 1
            /\ \A i \in 1 .. (Len(e.seen) - 1) : v[i] = e.seen[i + 1]
        BY <1>2, <2>2, SeqTail
      <4>2. Len(e.seen) = m + k
        BY <2>2
      <4> QED
        BY <4>1, <4>2
    <3>3. /\ \A i \in 1 .. m : e.seen[i] = c.seen[i]
          /\ \A i \in 1 .. k : e.seen[m + i] = t[i]
      BY <1>1, <1>2, SeqJoined
    <3>4. /\ IsSeq(w) /\ Len(w) = Len(u) + k
          /\ \A i \in 1 .. Len(u) : w[i] = u[i]
          /\ \A i \in 1 .. k : w[Len(u) + i] = t[i]
      BY <1>1, <3>1, SeqJoined
    <3>5. m \in Nat /\ k \in Nat /\ m >= 1
      BY <1>1, <1>2, <2>2, SeqLen
    <3> HIDE DEF m, k, u, v, w
    <3>6. ASSUME NEW i \in 1 .. Len(v) PROVE v[i] = w[i]
      <4>1. CASE i <= m - 1
        <5>1. i \in 1 .. (m - 1) /\ i + 1 \in 1 .. m /\ i \in 1 .. (m + k - 1) /\ i \in 1 .. Len(u)
          BY <4>1, <3>1, <3>2, <3>5
        <5> QED
          BY <5>1, <3>1, <3>2, <3>3, <3>4
      <4>2. CASE i > m - 1
        <5>1. PICK x \in 1 .. k : i = Len(u) + x /\ i + 1 = m + x
          <6>1. i - (m - 1) \in 1 .. k /\ i = Len(u) + (i - (m - 1)) /\ i + 1 = m + (i - (m - 1))
            BY <4>2, <3>1, <3>2, <3>5
          <6> QED
            BY <6>1
        <5>2. v[i] = e.seen[i + 1]
          BY <3>2
        <5>3. e.seen[m + x] = t[x] /\ w[Len(u) + x] = t[x]
          BY <3>3, <3>4
        <5> QED
          BY <5>1, <5>2, <5>3
      <4> QED
        BY <4>1, <4>2, <3>2, <3>5
    <3>7. Len(v) = Len(w)
      BY <3>1, <3>2, <3>4, <3>5
    <3>8. v = w
      <4>1. IsSeq(v) /\ IsSeq(w)
        BY <3>2, <3>4
      <4>2. \A i \in 1 .. Len(v) : v[i] = w[i]
        BY <3>6
      <4> QED
        BY <4>1, <4>2, <3>7, SeqAlike, SMTT(20)
    <3> QED
      BY <3>8 DEF u, v, w
  <2> QED
    BY <2>2, <2>3, <2>4
<1>4. IsSeq(Tail(c.seen)) /\ IsSeq(Tail(e.seen))
  BY <1>2, <1>3, SeqTail
<1>5. /\ GoodContext(Rest(c)) /\ GoodContext(Rest(e))
      /\ Rest(c).seen = Tail(c.seen)
  <2>1. ASSUME NEW x, GoodContext(x), IsSeq(Tail(x.seen))
        PROVE  GoodContext(Rest(x)) /\ Rest(x).seen = Tail(x.seen)
    <3> DEFINE s == Tail(x.seen)
    <3>1. IsSeq(s)
      BY <2>1
    <3>2. Rest(x) = [x EXCEPT !.seen = s]
      BY DEF Rest
    <3> HIDE DEF s
    <3>3. GoodContext([x EXCEPT !.seen = s]) /\ [x EXCEPT !.seen = s].seen = s
      BY <2>1, <3>1 DEF GoodContext, IsContext
    <3> QED
      BY <3>2, <3>3 DEF s
  <2> QED
    BY <2>1, <1>4 DEF Further
<1>6. Rest(e) = [Rest(c) EXCEPT !.seen = Rest(c).seen \o t]
  BY <1>1, <1>3, <1>5 DEF Further, GoodContext, IsContext, Rest
<1> QED
  BY <1>1, <1>3, <1>5, <1>6 DEF Further

(* After its first answers are taken a context is one still.               *)
LEMMA GoodRest ==
  ASSUME NEW c, GoodContext(c), c.seen # <<>>
  PROVE  GoodContext(Rest(c))
  BY FurtherRest, FurtherRefl DEF Further

-----------------------------------------------------------------------------

(* The steps a controller is built from but a call say or ask something; a *)
(* call has the requests it was made with.                                 *)
LEMMA StepKinds ==
  /\ \A says : Silent(Tell(says)) /\ ~Sends(Tell(says))
  /\ Silent(Complain) /\ Silent(Raise) /\ Silent(Warn)
  /\ \A says, nodes : Silent(Shows(says, nodes))
  /\ \A says, nodes, x : Silent([Shows(says, nodes) EXCEPT !.about = x])
  /\ \A about : Silent(AskUser(about)) /\ AskUser(about).does = "ask"
  /\ \A asks : CallStep(asks).does = "call" /\ CallStep(asks).asks = asks
  BY DEF Silent, Sends, Tell, Complain, Raise, Warn, Shows, AskUser, CallStep

SilentSteps(steps) == IsSeq(steps) /\ \A i \in 1 .. Len(steps) : Silent(steps[i])

(* Up to two silent steps are a list of silent steps.                      *)
LEMMA SilentStep ==
  /\ SilentSteps(<<>>)
  /\ \A x : Silent(x) => SilentSteps(<<x>>)
  /\ \A x, y : Silent(x) /\ Silent(y) => SilentSteps(<<x, y>>)
<1>1. SilentSteps(<<>>)
  <2>1. IsSeq(<<>>) /\ Len(<<>>) = 0
    BY SeqOne
  <2> QED
    BY <2>1 DEF SilentSteps
<1>2. ASSUME NEW x, Silent(x) PROVE SilentSteps(<<x>>)
  BY <1>2, SeqOne DEF SilentSteps
<1>3. ASSUME NEW x, NEW y, Silent(x), Silent(y) PROVE SilentSteps(<<x, y>>)
  <2>1. IsSeq(<<x, y>>)
    <3>1. <<x, y>> \in Seq({x, y})
      OBVIOUS
    <3> QED
      BY <3>1, SeqIs
  <2> QED
    BY <1>3, <2>1 DEF SilentSteps
<1> QED
  BY <1>1, <1>2, <1>3

(* Silent steps after silent steps are silent.                             *)
LEMMA SilentJoined ==
  ASSUME NEW s, NEW t, SilentSteps(s), SilentSteps(t)
  PROVE  SilentSteps(s \o t)
<1>1. /\ IsSeq(s \o t) /\ Len(s \o t) = Len(s) + Len(t)
      /\ \A i \in 1 .. Len(s) : (s \o t)[i] = s[i]
      /\ \A i \in 1 .. Len(t) : (s \o t)[Len(s) + i] = t[i]
  BY SeqJoined DEF SilentSteps
<1>2. ASSUME NEW i \in 1 .. Len(s \o t) PROVE Silent((s \o t)[i])
  <2>1. Len(s) \in Nat /\ Len(t) \in Nat
    BY SeqLen DEF SilentSteps
  <2>2. CASE i \in 1 .. Len(s)
    BY <2>2, <1>1 DEF SilentSteps
  <2>3. CASE i \notin 1 .. Len(s)
    <3>1. i - Len(s) \in 1 .. Len(t) /\ i = Len(s) + (i - Len(s))
      BY <2>1, <2>3, <1>1
    <3> QED
      BY <3>1, <1>1 DEF SilentSteps
  <2> QED
    BY <2>2, <2>3
<1> QED
  BY <1>1, <1>2 DEF SilentSteps

(* A plan that ends in silence is well formed and needs no question.       *)
LEMMA EndWellFormed ==
  ASSUME NEW c, NEW steps, SilentSteps(steps)
  PROVE  WellFormed(End(c, steps)) /\ AskFirst(End(c, steps)) /\ End(c, steps).steps = steps
  BY DEF End, WellFormed, AskFirst, IsPlan, SilentSteps, Silent, Sends

(* A plan that ends in silence ends so with more answers too.              *)
LEMMA EndGrown ==
  ASSUME NEW c, NEW e, NEW steps, SilentSteps(steps)
  PROVE  Grown(End(c, steps), End(e, steps)) /\ AskFirst(End(c, steps))
  BY EndWellFormed, SeqLen DEF Grown, Grows, SilentSteps

(* First puts its step before all the others.                              *)
LEMMA FirstSteps ==
  ASSUME NEW x, NEW p, IsPlan(p)
  PROVE  /\ IsPlan(First(x, p))
         /\ Len(p.steps) \in Nat /\ Len(First(x, p).steps) = 1 + Len(p.steps)
         /\ First(x, p).steps[1] = x
         /\ \A i \in 1 .. Len(p.steps) : First(x, p).steps[i + 1] = p.steps[i]
<1>1. /\ First(x, p).steps = <<x>> \o p.steps
      /\ First(x, p) = [mods |-> p.mods, steps |-> <<x>> \o p.steps, reached |-> p.reached]
  <2>1. p = [mods |-> p.mods, steps |-> p.steps, reached |-> p.reached]
    BY DEF IsPlan
  <2>2. First(x, p) = [p EXCEPT !.steps = <<x>> \o p.steps]
    BY DEF First
  <2> HIDE DEF IsPlan
  <2> DEFINE s == <<x>> \o p.steps
  <2>3. First(x, p) = [p EXCEPT !.steps = s]
    BY <2>2
  <2> HIDE DEF s
  <2>4. First(x, p) = [mods |-> p.mods, steps |-> s, reached |-> p.reached]
    BY <2>1, <2>3
  <2> QED
    BY <2>4 DEF s
<1>2. IsSeq(<<x>>) /\ IsSeq(p.steps) /\ Len(<<x>>) = 1 /\ <<x>>[1] = x /\ Len(p.steps) \in Nat
  BY SeqOne, SeqLen DEF IsPlan
<1> DEFINE s == <<x>>
<1>3. /\ IsSeq(s \o p.steps) /\ Len(s \o p.steps) = Len(s) + Len(p.steps)
      /\ \A i \in 1 .. Len(s) : (s \o p.steps)[i] = s[i]
      /\ \A i \in 1 .. Len(p.steps) : (s \o p.steps)[Len(s) + i] = p.steps[i]
  BY <1>2, SeqJoined
<1> QED
  BY <1>1, <1>2, <1>3 DEF IsPlan

(* A silent step before both plans changes nothing about them; a question  *)
(* before a plan is the question it needs.                                 *)
LEMMA FirstSilent ==
  ASSUME NEW x, Silent(x), NEW p, NEW q, Grown(p, q)
  PROVE  /\ Grown(First(x, p), First(x, q))
         /\ AskFirst(p) => AskFirst(First(x, p))
         /\ x.does = "ask" => AskFirst(First(x, p))
<1> DEFINE P == First(x, p)  Q == First(x, q)
<1>1. /\ IsPlan(P) /\ Len(p.steps) \in Nat /\ Len(P.steps) = 1 + Len(p.steps) /\ P.steps[1] = x
      /\ \A i \in 1 .. Len(p.steps) : P.steps[i + 1] = p.steps[i]
  BY FirstSteps DEF Grown, WellFormed
<1>2. /\ IsPlan(Q) /\ Len(q.steps) \in Nat /\ Len(Q.steps) = 1 + Len(q.steps) /\ Q.steps[1] = x
      /\ \A i \in 1 .. Len(q.steps) : Q.steps[i + 1] = q.steps[i]
  BY FirstSteps DEF Grown, WellFormed
<1> HIDE DEF P, Q
<1>3. ASSUME NEW i \in 1 .. Len(P.steps) PROVE i = 1 \/ (i - 1 \in 1 .. Len(p.steps) /\ P.steps[i] = p.steps[i - 1])
  <2>1. i = 1 \/ (i - 1 \in 1 .. Len(p.steps) /\ i = (i - 1) + 1)
    BY <1>1
  <2> QED
    BY <2>1, <1>1
<1>4. ASSUME NEW i \in 1 .. Len(Q.steps) PROVE i = 1 \/ (i - 1 \in 1 .. Len(q.steps) /\ Q.steps[i] = q.steps[i - 1])
  <2>1. i = 1 \/ (i - 1 \in 1 .. Len(q.steps) /\ i = (i - 1) + 1)
    BY <1>2
  <2> QED
    BY <2>1, <1>2
<1>5. WellFormed(P)
  <2>1. ASSUME NEW i \in 1 .. Len(P.steps)
        PROVE  Silent(P.steps[i]) \/ (P.steps[i].does = "call" /\ WellAsked(P.steps[i].asks))
    <3>1. CASE i = 1
      BY <1>1, <3>1
    <3>2. CASE i # 1
      <4>1. i - 1 \in 1 .. Len(p.steps) /\ P.steps[i] = p.steps[i - 1]
        BY <1>3, <3>2
      <4> QED
        BY <4>1 DEF Grown, WellFormed
    <3> QED
      BY <3>1, <3>2
  <2> QED
    BY <1>1, <2>1 DEF WellFormed
<1>6. WellFormed(Q)
  <2>1. ASSUME NEW i \in 1 .. Len(Q.steps)
        PROVE  Silent(Q.steps[i]) \/ (Q.steps[i].does = "call" /\ WellAsked(Q.steps[i].asks))
    <3>1. CASE i = 1
      BY <1>2, <3>1
    <3>2. CASE i # 1
      <4>1. i - 1 \in 1 .. Len(q.steps) /\ Q.steps[i] = q.steps[i - 1]
        BY <1>4, <3>2
      <4> QED
        BY <4>1 DEF Grown, WellFormed
    <3> QED
      BY <3>1, <3>2
  <2> QED
    BY <1>2, <2>1 DEF WellFormed
<1>7. Grows(P, Q)
  <2>1. Len(P.steps) <= Len(Q.steps)
    BY <1>1, <1>2 DEF Grown, Grows
  <2>2. ASSUME NEW i \in 1 .. Len(P.steps) PROVE Q.steps[i] = P.steps[i]
    <3>1. i \in 1 .. Len(Q.steps)
      BY <2>1, <1>1, <1>2
    <3> QED
      BY <3>1, <1>1, <1>2, <1>3, <1>4 DEF Grown, Grows
  <2> QED
    BY <2>1, <2>2 DEF Grows
<1>8. ASSUME AskFirst(p) PROVE AskFirst(P)
  <2> SUFFICES ASSUME NEW i \in 1 .. Len(P.steps), Sends(P.steps[i])
               PROVE  \E j \in 1 .. (i - 1) : P.steps[j].does = "ask"
    BY DEF AskFirst
  <2>1. i # 1
    BY <1>1 DEF Sends, Silent
  <2>2. PICK j \in 1 .. (i - 2) : p.steps[j].does = "ask"
    BY <1>1, <1>3, <1>8, <2>1 DEF AskFirst
  <2>3. j + 1 \in 1 .. (i - 1) /\ j \in 1 .. Len(p.steps)
    BY <1>1
  <2> QED
    BY <1>1, <2>2, <2>3
<1>9. ASSUME x.does = "ask" PROVE AskFirst(P)
  <2> SUFFICES ASSUME NEW i \in 1 .. Len(P.steps), Sends(P.steps[i])
               PROVE  \E j \in 1 .. (i - 1) : P.steps[j].does = "ask"
    BY DEF AskFirst
  <2>1. i # 1
    BY <1>1 DEF Sends, Silent
  <2>2. 1 \in 1 .. (i - 1)
    BY <2>1, <1>1
  <2> QED
    BY <1>1, <1>9, <2>2
<1> QED
  BY <1>5, <1>6, <1>7, <1>8, <1>9 DEF Grown, P, Q

CallPlan(c, asks, rest) == First(CallStep(asks), IF c.seen = <<>> THEN End(c, <<>>) ELSE rest)
Firsts(answers) == [n \in DOMAIN answers |-> answers[n][1]]

(* What is asked of each node: one method of requests.                     *)
Methods(ms) == /\ DOMAIN ms \subseteq Node \union {Here}
               /\ \A n \in DOMAIN ms : IsSeq(ms[n])
ReadsOnlyOf(m) == \A i \in 1 .. Len(m) : ~Wants(m[i])
Each(ms) == [n \in DOMAIN ms |-> <<ms[n]>>]

(* One method at each node is well asked, and sends no change if each      *)
(* method only reads.                                                      *)
LEMMA EachAsked ==
  ASSUME NEW ms, Methods(ms)
  PROVE  /\ WellAsked(Each(ms))
         /\ (\A n \in DOMAIN ms : ReadsOnlyOf(ms[n])) => ~Sends(CallStep(Each(ms)))
<1>1. ASSUME NEW n \in DOMAIN ms
      PROVE  IsSeq(Each(ms)[n]) /\ Len(Each(ms)[n]) = 1 /\ Each(ms)[n][1] = ms[n]
  <2>1. Each(ms)[n] = <<ms[n]>>
    BY DEF Each
  <2> QED
    BY <2>1, SeqOne
<1>2. DOMAIN Each(ms) = DOMAIN ms
  BY DEF Each
<1>3. WellAsked(Each(ms))
  BY <1>1, <1>2 DEF WellAsked, Methods
<1>4. ASSUME \A n \in DOMAIN ms : ReadsOnlyOf(ms[n]), Sends(CallStep(Each(ms))) PROVE FALSE
  <2>1. PICK n \in DOMAIN Each(ms) : \E i \in 1 .. Len(Each(ms)[n]) :
          \E j \in 1 .. Len(Each(ms)[n][i]) : Wants(Each(ms)[n][i][j])
    BY <1>4, StepKinds DEF Sends
  <2>2. \E j \in 1 .. Len(ms[n]) : Wants(ms[n][j])
    BY <2>1, <1>1, <1>2
  <2> QED
    BY <2>2, <1>4, <1>2 DEF ReadsOnlyOf
<1> QED
  BY <1>3, <1>4

(* A call and what comes after it: with more answers it goes on where it   *)
(* stopped.                                                                *)
LEMMA CallGrown ==
  ASSUME NEW c, NEW e, Further(c, e), NEW asks, WellAsked(asks), NEW p, NEW q,
         c.seen # <<>> => Grown(p, q),
         e.seen # <<>> => WellFormed(q)
  PROVE  /\ Grown(CallPlan(c, asks, p), CallPlan(e, asks, q))
         /\ ~Sends(CallStep(asks)) /\ (c.seen # <<>> => AskFirst(p))
              => AskFirst(CallPlan(c, asks, p))
<1> DEFINE x == CallStep(asks)
           P == IF c.seen = <<>> THEN End(c, <<>>) ELSE p
           Q == IF e.seen = <<>> THEN End(e, <<>>) ELSE q
<1>1. x.does = "call" /\ x.asks = asks
  BY StepKinds
<1>2. WellFormed(P) /\ WellFormed(Q) /\ Grows(P, Q)
  <2>1. WellFormed(End(c, <<>>)) /\ WellFormed(End(e, <<>>)) /\ End(c, <<>>).steps = <<>>
    BY EndWellFormed, SilentStep
  <2>2. WellFormed(P) /\ WellFormed(Q)
    BY <2>1 DEF Grown
  <2>3. CASE c.seen = <<>>
    <3>1. Len(P.steps) = 0 /\ Len(Q.steps) \in Nat
      BY <2>1, <2>2, <2>3, SeqLen DEF WellFormed, IsPlan
    <3> QED
      BY <3>1, <2>2 DEF Grows
  <2>4. CASE c.seen # <<>>
    BY <2>4, <2>2, FurtherRest DEF Grown
  <2> QED
    BY <2>2, <2>3, <2>4
<1>3. (c.seen # <<>> => AskFirst(p)) => AskFirst(P)
  BY EndWellFormed, SilentStep
<1> HIDE DEF P, Q, x
<1> DEFINE A == First(x, P)  B == First(x, Q)
<1>4. /\ IsPlan(A) /\ Len(P.steps) \in Nat /\ Len(A.steps) = 1 + Len(P.steps) /\ A.steps[1] = x
      /\ \A i \in 1 .. Len(P.steps) : A.steps[i + 1] = P.steps[i]
  BY <1>2, FirstSteps DEF WellFormed
<1>5. /\ IsPlan(B) /\ Len(Q.steps) \in Nat /\ Len(B.steps) = 1 + Len(Q.steps) /\ B.steps[1] = x
      /\ \A i \in 1 .. Len(Q.steps) : B.steps[i + 1] = Q.steps[i]
  BY <1>2, FirstSteps DEF WellFormed
<1> HIDE DEF A, B
<1>6. ASSUME NEW i \in 1 .. Len(A.steps)
      PROVE  i = 1 \/ (i - 1 \in 1 .. Len(P.steps) /\ A.steps[i] = P.steps[i - 1])
  <2>1. i = 1 \/ (i - 1 \in 1 .. Len(P.steps) /\ i = (i - 1) + 1)
    BY <1>4
  <2> QED
    BY <2>1, <1>4
<1>7. ASSUME NEW i \in 1 .. Len(B.steps)
      PROVE  i = 1 \/ (i - 1 \in 1 .. Len(Q.steps) /\ B.steps[i] = Q.steps[i - 1])
  <2>1. i = 1 \/ (i - 1 \in 1 .. Len(Q.steps) /\ i = (i - 1) + 1)
    BY <1>5
  <2> QED
    BY <2>1, <1>5
<1>8. WellFormed(A)
  <2>1. ASSUME NEW i \in 1 .. Len(A.steps)
        PROVE  Silent(A.steps[i]) \/ (A.steps[i].does = "call" /\ WellAsked(A.steps[i].asks))
    <3>1. CASE i = 1
      BY <3>1, <1>1, <1>4
    <3>2. CASE i - 1 \in 1 .. Len(P.steps) /\ A.steps[i] = P.steps[i - 1]
      BY <3>2, <1>2 DEF WellFormed
    <3> QED
      BY <3>1, <3>2, <1>6
  <2> QED
    BY <2>1, <1>4 DEF WellFormed
<1>9. WellFormed(B)
  <2>1. ASSUME NEW i \in 1 .. Len(B.steps)
        PROVE  Silent(B.steps[i]) \/ (B.steps[i].does = "call" /\ WellAsked(B.steps[i].asks))
    <3>1. CASE i = 1
      BY <3>1, <1>1, <1>5
    <3>2. CASE i - 1 \in 1 .. Len(Q.steps) /\ B.steps[i] = Q.steps[i - 1]
      BY <3>2, <1>2 DEF WellFormed
    <3> QED
      BY <3>1, <3>2, <1>7
  <2> QED
    BY <2>1, <1>5 DEF WellFormed
<1>10. Grows(A, B)
  <2>1. Len(A.steps) <= Len(B.steps)
    BY <1>2, <1>4, <1>5 DEF Grows
  <2>2. ASSUME NEW i \in 1 .. Len(A.steps) PROVE B.steps[i] = A.steps[i]
    <3>1. i \in 1 .. Len(B.steps)
      BY <2>1, <1>4, <1>5
    <3> QED
      BY <3>1, <1>2, <1>4, <1>5, <1>6, <1>7 DEF Grows
  <2> QED
    BY <2>1, <2>2 DEF Grows
<1>11. ASSUME ~Sends(x), AskFirst(P) PROVE AskFirst(A)
  <2> SUFFICES ASSUME NEW i \in 1 .. Len(A.steps), Sends(A.steps[i])
               PROVE  \E j \in 1 .. (i - 1) : A.steps[j].does = "ask"
    BY DEF AskFirst
  <2>1. i # 1
    BY <1>4, <1>11
  <2>2. i - 1 \in 1 .. Len(P.steps) /\ Sends(P.steps[i - 1])
    BY <1>6, <2>1
  <2>3. PICK j \in 1 .. ((i - 1) - 1) : P.steps[j].does = "ask"
    BY <2>2, <1>11 DEF AskFirst
  <2>4. j + 1 \in 1 .. (i - 1) /\ j \in 1 .. Len(P.steps)
    BY <1>4
  <2> QED
    BY <1>4, <2>3, <2>4
<1> QED
  BY <1>3, <1>8, <1>9, <1>10, <1>11 DEF Grown, A, B, P, Q, x, CallPlan

(* The principal is a node.                                                *)
LEMMA PrincipalIsNode == Principal \in Node
  BY CommandsAssumption

(* Who has further answers is a context, and so is who has fewer.          *)
LEMMA GoodContexts ==
  ASSUME NEW c, NEW e, Further(c, e)
  PROVE  GoodContext(c) /\ GoodContext(e)
  BY Zenon DEF Further

(* A request at the principal is a call and what each answer leads to.     *)
LEMMA AtPrincipalUnfolds ==
  ASSUME NEW c, NEW request, NEW done
  PROVE  AtPrincipal(c, request, done) =
           CallPlan(c, Each([n \in {Principal} |-> request]),
             CASE Firsts(Head(c.seen))[Principal].came = "ok" -> End(Rest(c), done)
               [] Firsts(Head(c.seen))[Principal].came = "refused" -> End(Rest(c), <<Complain>>)
               [] OTHER -> End(Rest(c), <<Raise>>))
  BY DEF AtPrincipal, Call, CallAll, Given, CallPlan, Each, Firsts, Rest

(* A request at the principal is one of the methods of the nodes.          *)
LEMMA PrincipalAsked ==
  ASSUME NEW request, IsSeq(request)
  PROVE  Methods([n \in {Principal} |-> request])
  BY PrincipalIsNode DEF Methods

(* AtPrincipal: more answers only add steps, and a method that only reads  *)
(* needs no question.                                                      *)
LEMMA AtPrincipalGrown ==
  ASSUME NEW c, NEW e, Further(c, e), NEW request, IsSeq(request), NEW done, SilentSteps(done)
  PROVE  /\ Grown(AtPrincipal(c, request, done), AtPrincipal(e, request, done))
         /\ ReadsOnlyOf(request) => AskFirst(AtPrincipal(c, request, done))
<1> DEFINE after(x) ==
             CASE Firsts(Head(x.seen))[Principal].came = "ok" -> End(Rest(x), done)
               [] Firsts(Head(x.seen))[Principal].came = "refused" -> End(Rest(x), <<Complain>>)
               [] OTHER -> End(Rest(x), <<Raise>>)
           ms == [n \in {Principal} |-> request]
<1>1. AtPrincipal(c, request, done) = CallPlan(c, Each(ms), after(c))
  BY AtPrincipalUnfolds
<1>2. AtPrincipal(e, request, done) = CallPlan(e, Each(ms), after(e))
  BY AtPrincipalUnfolds
<1>3. \A x : WellFormed(after(x)) /\ AskFirst(after(x))
  BY EndWellFormed, SilentStep, StepKinds
<1>4. ASSUME c.seen # <<>> PROVE Grown(after(c), after(e))
  <2>1. Head(e.seen) = Head(c.seen)
    BY <1>4, FurtherRest
  <2> QED
    BY <2>1, EndGrown, SilentStep, StepKinds
<1> HIDE DEF after
<1>5. WellAsked(Each(ms)) /\ (ReadsOnlyOf(request) => ~Sends(CallStep(Each(ms))))
  BY PrincipalAsked, EachAsked
<1> HIDE DEF ms
<1> QED
  BY <1>1, <1>2, <1>3, <1>4, <1>5, CallGrown

(* AtPrincipalOrRaise: more answers only add steps.                        *)
LEMMA AtPrincipalOrRaiseGrown ==
  ASSUME NEW c, NEW e, Further(c, e), NEW request, IsSeq(request)
  PROVE  Grown(AtPrincipalOrRaise(c, request), AtPrincipalOrRaise(e, request))
<1> DEFINE after(x) ==
             IF Firsts(Head(x.seen))[Principal].came = "ok"
             THEN End(Rest(x), <<Tell("success")>>) ELSE End(Rest(x), <<Raise>>)
           ms == [n \in {Principal} |-> request]
<1>1. \A x : AtPrincipalOrRaise(x, request) = CallPlan(x, Each(ms), after(x))
  BY DEF AtPrincipalOrRaise, Call, CallAll, Given, CallPlan, Each, Firsts, Rest
<1>3. \A x : WellFormed(after(x))
  BY EndWellFormed, SilentStep, StepKinds
<1>4. ASSUME c.seen # <<>> PROVE Grown(after(c), after(e))
  <2>1. Head(e.seen) = Head(c.seen)
    BY <1>4, FurtherRest
  <2> QED
    BY <2>1, EndGrown, SilentStep, StepKinds
<1> HIDE DEF after
<1>5. WellAsked(Each(ms))
  BY PrincipalAsked, EachAsked
<1> HIDE DEF ms
<1> QED
  BY <1>1, <1>3, <1>4, <1>5, CallGrown

(* AtNodes: more answers only add steps.                                   *)
LEMMA AtNodesGrown ==
  ASSUME NEW c, NEW e, Further(c, e), NEW requests, NEW hint, SilentSteps(hint),
         DOMAIN requests = c.nodes, \A n \in c.nodes : IsSeq(requests[n])
  PROVE  Grown(AtNodes(c, requests, hint), AtNodes(e, requests, hint))
<1> DEFINE after(x) ==
             End(Rest(x), <<Shows("table", Came(Firsts(Head(x.seen)), "ok"))>> \o hint)
           ms == [n \in c.nodes |-> requests[n]]
<1>1. ASSUME NEW x
      PROVE  AtNodes(x, requests, hint) =
               IF x.nodes = {} THEN End(x, <<Raise>>)
               ELSE CallPlan(x, Each([n \in x.nodes |-> requests[n]]), after(x))
  <2>1. CASE x.nodes = {}
    BY <2>1 DEF AtNodes, Call, CallAll
  <2>2. CASE x.nodes # {}
    <3> DEFINE ask == [n \in x.nodes |-> <<requests[n]>>]
               d == [x EXCEPT !.seen = Tail(@)]
               first == [n \in DOMAIN Head(x.seen) |-> Head(x.seen)[n][1]]
               then == End(d, <<Shows("table", Came(first, "ok"))>> \o hint)
    <3>1. AtNodes(x, requests, hint) = First(CallStep(ask), IF x.seen = <<>> THEN End(x, <<>>) ELSE then)
      BY <2>2 DEF AtNodes, Call, CallAll, Given
    <3>2. d = Rest(x) /\ first = Firsts(Head(x.seen)) /\ then = after(x)
      BY DEF Rest, Firsts
    <3>3. Each([n \in x.nodes |-> requests[n]]) = ask
      BY DEF Each
    <3> HIDE DEF ask, d, first, then
    <3>4. AtNodes(x, requests, hint) = CallPlan(x, Each([n \in x.nodes |-> requests[n]]), after(x))
      BY <3>1, <3>2, <3>3 DEF CallPlan
    <3> QED
      BY <3>4, <2>2
  <2> QED
    BY <2>1, <2>2
<1>2. e.nodes = c.nodes /\ c.nodes \subseteq Node
  BY FurtherSame DEF GoodContext
<1>3. \A x : WellFormed(after(x))
  BY EndWellFormed, SilentStep, StepKinds, SilentJoined
<1>4. ASSUME c.seen # <<>> PROVE Grown(after(c), after(e))
  <2>1. Head(e.seen) = Head(c.seen)
    BY <1>4, FurtherRest
  <2> QED
    BY <2>1, EndGrown, SilentStep, StepKinds, SilentJoined
<1> HIDE DEF after
<1>5. WellAsked(Each(ms))
  <2>1. Methods(ms)
    BY <1>2 DEF Methods
  <2> QED
    BY <2>1, EachAsked
<1>6. CASE c.nodes = {}
  <2>1. AtNodes(c, requests, hint) = End(c, <<Raise>>) /\ AtNodes(e, requests, hint) = End(e, <<Raise>>)
    BY <1>1, <1>2, <1>6
  <2> QED
    BY <2>1, EndGrown, SilentStep, StepKinds
<1>7. CASE c.nodes # {}
  <2>1. /\ AtNodes(c, requests, hint) = CallPlan(c, Each(ms), after(c))
        /\ AtNodes(e, requests, hint) = CallPlan(e, Each(ms), after(e))
    BY <1>1, <1>2, <1>7
  <2> HIDE DEF ms
  <2> QED
    BY <2>1, <1>3, <1>4, <1>5, CallGrown
<1> QED
  BY <1>6, <1>7

(* Confirm puts a question before a plan when it is told to, whatever the  *)
(* context.                                                                *)
LEMMA ConfirmGrown ==
  ASSUME NEW p, NEW q, Grown(p, q), NEW asked, NEW about
  PROVE  /\ Grown(Confirm(0, asked, about, p), Confirm(0, asked, about, q))
         /\ asked \/ AskFirst(p) => AskFirst(Confirm(0, asked, about, p))
         /\ \A c : Confirm(c, asked, about, p) = Confirm(0, asked, about, p)
         /\ \A c : Confirm(c, asked, about, q) = Confirm(0, asked, about, q)
<1>1. \A c : \A plan : Confirm(c, asked, about, plan) = IF asked THEN First(AskUser(about), plan) ELSE plan
  BY DEF Confirm, Telling
<1> QED
  BY <1>1, FirstSilent, StepKinds

-----------------------------------------------------------------------------

(* get_nodes finds nodes only.                                             *)
LEMMA NodesFound == \A names : get_nodes(names) \subseteq Node
<1>1. ASSUME NEW w PROVE get_key(w) \subseteq DOMAIN node_lookup
  <2>1. CASE w \in DOMAIN KeysFrom
    <3>1. KeysFrom[w] \in SUBSET DOMAIN node_lookup
      BY <2>1, CommandsAssumption
    <3> QED
      BY <2>1, <3>1 DEF get_key
  <2>2. CASE w \notin DOMAIN KeysFrom
    BY <2>2 DEF get_key
  <2> QED
    BY <2>1, <2>2
<1>2. \A key \in DOMAIN node_lookup : node_lookup[key] \in Node
  BY CommandsAssumption
<1>3. \A w : get_node(w) \subseteq Node
  <2>1. \A w : get_node_by_prefix(w) \subseteq Node
    BY <1>1, <1>2 DEF get_node_by_prefix, Looked_up
  <2> QED
    BY <1>1, <1>2, <2>1 DEF get_node
<1> QED
  BY <1>3 DEF get_nodes

(* To take the modifiers keeps who has more answers ahead, and the rest of *)
(* the context as it was.                                                  *)
LEMMA GroupedFurther ==
  ASSUME NEW c, NEW e, Further(c, e), NEW required, NEW modifiers, NEW groups
  PROVE  /\ Further(Grouped(c, required, modifiers, groups), Grouped(e, required, modifiers, groups))
         /\ Grouped(c, required, modifiers, groups).warn = c.warn
         /\ Grouped(c, required, modifiers, groups).line = c.line
<1> DEFINE ns == IF "with" \in required \union modifiers THEN get_nodes(groups["with"]) ELSE Node
           m == Replaced(c.mods, groups)
<1>1. ns \subseteq Node
  BY NodesFound
<1>2. e.mods = c.mods
  BY FurtherSame
<1>3. /\ Grouped(c, required, modifiers, groups) = [c EXCEPT !.mods = m, !.keys = modifiers, !.nodes = ns]
      /\ Grouped(e, required, modifiers, groups) = [e EXCEPT !.mods = m, !.keys = modifiers, !.nodes = ns]
  BY <1>2 DEF Grouped
<1> HIDE DEF ns, m
<1> DEFINE x == [c EXCEPT !.mods = m, !.keys = modifiers, !.nodes = ns]
           y == [e EXCEPT !.mods = m, !.keys = modifiers, !.nodes = ns]
<1>0. ASSUME NEW u, GoodContext(u)
      PROVE  /\ GoodContext([u EXCEPT !.mods = m, !.keys = modifiers, !.nodes = ns])
             /\ [u EXCEPT !.mods = m, !.keys = modifiers, !.nodes = ns].seen = u.seen
             /\ [u EXCEPT !.mods = m, !.keys = modifiers, !.nodes = ns].warn = u.warn
             /\ [u EXCEPT !.mods = m, !.keys = modifiers, !.nodes = ns].line = u.line
  <2> DEFINE v == [u EXCEPT !.mods = m, !.keys = modifiers, !.nodes = ns]
  <2>0. DOMAIN u = {"line", "mods", "keys", "args", "nodes", "privileged", "warn", "seen"}
    BY <1>0 DEF GoodContext, IsContext
  <2>1. DOMAIN v = DOMAIN u /\ v = [f \in DOMAIN u |-> v[f]]
    OBVIOUS
  <2>4. v.line = u.line /\ v.mods = m /\ v.keys = modifiers /\ v.args = u.args
    BY <2>0
  <2>5. v.nodes = ns /\ v.privileged = u.privileged /\ v.warn = u.warn /\ v.seen = u.seen
    BY <2>0
  <2> HIDE DEF v
  <2>2. IsContext(v)
    BY <2>0, <2>1 DEF IsContext
  <2>3. GoodContext(v)
    BY <1>0, <1>1, <2>2, <2>5 DEF GoodContext
  <2> QED
    BY <2>3, <2>4, <2>5 DEF v
<1>4. GoodContext(x) /\ GoodContext(y) /\ x.seen = c.seen /\ x.warn = c.warn /\ x.line = c.line
  BY <1>0, GoodContexts
<1>5. PICK t : IsSeq(t) /\ e = [c EXCEPT !.seen = c.seen \o t]
  BY DEF Further
<1>6. y = [x EXCEPT !.seen = x.seen \o t]
  <2> DEFINE s == c.seen \o t
  <2>1. e = [c EXCEPT !.seen = s] /\ x.seen \o t = s
    BY <1>4, <1>5
  <2> HIDE DEF s
  <2>2. y = [x EXCEPT !.seen = s]
    BY <2>1 DEF Further, GoodContext, IsContext
  <2> QED
    BY <2>1, <2>2
<1> QED
  BY <1>3, <1>4, <1>5, <1>6 DEF Further

(* A context of which the line, the modifiers and the arguments are new.   *)
Taken(c, l, m, a) == [c EXCEPT !.line = l, !.mods = m, !.args = a]

(* To take words, modifiers and arguments keeps who has more answers       *)
(* ahead.                                                                  *)
LEMMA TakenFurther ==
  ASSUME NEW c, NEW e, Further(c, e), NEW l, NEW m, NEW a
  PROVE  /\ Further(Taken(c, l, m, a), Taken(e, l, m, a))
         /\ Taken(c, l, m, a).warn = c.warn /\ Taken(c, l, m, a).nodes = c.nodes
         /\ Taken(c, l, m, a).line = l
<1> DEFINE x == Taken(c, l, m, a)
           y == Taken(e, l, m, a)
<1>0. ASSUME NEW u, GoodContext(u)
      PROVE  /\ GoodContext(Taken(u, l, m, a)) /\ Taken(u, l, m, a).seen = u.seen
             /\ Taken(u, l, m, a).warn = u.warn /\ Taken(u, l, m, a).nodes = u.nodes
             /\ Taken(u, l, m, a).line = l
  <2> DEFINE v == Taken(u, l, m, a)
  <2>0. DOMAIN u = {"line", "mods", "keys", "args", "nodes", "privileged", "warn", "seen"}
    BY <1>0 DEF GoodContext, IsContext
  <2>1. DOMAIN v = DOMAIN u /\ v = [f \in DOMAIN u |-> v[f]]
    BY DEF Taken
  <2>4. v.line = l /\ v.mods = m /\ v.keys = u.keys /\ v.args = a
    BY <2>0 DEF Taken
  <2>5. v.nodes = u.nodes /\ v.privileged = u.privileged /\ v.warn = u.warn /\ v.seen = u.seen
    BY <2>0 DEF Taken
  <2> HIDE DEF v
  <2>2. IsContext(v)
    BY <2>0, <2>1 DEF IsContext
  <2>3. GoodContext(v)
    BY <1>0, <2>2, <2>5 DEF GoodContext
  <2> QED
    BY <2>3, <2>4, <2>5 DEF v
<1>4. /\ GoodContext(x) /\ GoodContext(y) /\ x.seen = c.seen /\ x.warn = c.warn /\ x.line = l
      /\ x.nodes = c.nodes
  BY <1>0, GoodContexts
<1>5. PICK t : IsSeq(t) /\ e = [c EXCEPT !.seen = c.seen \o t]
  BY DEF Further
<1>6. y = [x EXCEPT !.seen = x.seen \o t]
  <2> DEFINE s == c.seen \o t
  <2>1. e = [c EXCEPT !.seen = s] /\ x.seen \o t = s
    BY <1>4, <1>5
  <2> HIDE DEF s
  <2>2. y = [x EXCEPT !.seen = s]
    BY <2>1 DEF Further, GoodContext, IsContext, Taken
  <2> QED
    BY <2>1, <2>2
<1> QED
  BY <1>4, <1>5, <1>6 DEF Further

(* get_arg_and_delete_from_mods and check_arg_and_delete_from_mods look at *)
(* the line, the modifiers and the arguments, never at the answers.        *)
LEMMA TakesAlike ==
  ASSUME NEW c, NEW e, Further(c, e)
  PROVE  /\ \A arg, keys : Further(get_arg_and_delete_from_mods(c, arg, keys),
                                   get_arg_and_delete_from_mods(e, arg, keys))
                           /\ get_arg_and_delete_from_mods(c, arg, keys).warn = c.warn
                           /\ get_arg_and_delete_from_mods(c, arg, keys).nodes = c.nodes
         /\ \A arg, keys : Further(check_arg_and_delete_from_mods(c, arg, keys),
                                   check_arg_and_delete_from_mods(e, arg, keys))
                           /\ check_arg_and_delete_from_mods(c, arg, keys).warn = c.warn
                           /\ check_arg_and_delete_from_mods(c, arg, keys).nodes = c.nodes
         /\ \A args, keys : Further(Taking(c, args, keys), Taking(e, args, keys))
                            /\ Taking(c, args, keys).warn = c.warn
                            /\ Taking(c, args, keys).nodes = c.nodes
<1>1. ASSUME NEW arg, NEW keys
      PROVE  /\ Further(get_arg_and_delete_from_mods(c, arg, keys),
                        get_arg_and_delete_from_mods(e, arg, keys))
             /\ get_arg_and_delete_from_mods(c, arg, keys).warn = c.warn
             /\ get_arg_and_delete_from_mods(c, arg, keys).nodes = c.nodes
  <2>1. \E l, m, a : /\ get_arg_and_delete_from_mods(c, arg, keys) = Taken(c, l, m, a)
                     /\ get_arg_and_delete_from_mods(e, arg, keys) = Taken(e, l, m, a)
    <3> DEFINE val == fetch_argument(c.line, arg, "")
               l == RemoveFirst(RemoveFirst(c.line, arg), val)
               m == IF val = "" THEN c.mods
                    ELSE clear_val_from_list_in_dict(keys, clear_val_from_list_in_dict(keys, c.mods, arg), val)
               a == (arg :> val) @@ c.args
    <3>1. \A x : x.line = c.line /\ x.mods = c.mods /\ x.args = c.args =>
            get_arg_and_delete_from_mods(x, arg, keys) = [x EXCEPT !.args = a, !.line = l, !.mods = m]
      BY DEF get_arg_and_delete_from_mods, Given
    <3>2. \A x : IsContext(x) => [x EXCEPT !.args = a, !.line = l, !.mods = m] = Taken(x, l, m, a)
      <4> HIDE DEF a, l, m
      <4> QED
        BY DEF IsContext, Taken
    <3>3. IsContext(c) /\ IsContext(e)
      BY DEF Further, GoodContext
    <3>4. /\ get_arg_and_delete_from_mods(c, arg, keys) = Taken(c, l, m, a)
          /\ get_arg_and_delete_from_mods(e, arg, keys) = Taken(e, l, m, a)
      <4>1. e.line = c.line /\ e.mods = c.mods /\ e.args = c.args
        BY FurtherSame
      <4> HIDE DEF a, l, m
      <4>2. /\ get_arg_and_delete_from_mods(c, arg, keys) = [c EXCEPT !.args = a, !.line = l, !.mods = m]
            /\ get_arg_and_delete_from_mods(e, arg, keys) = [e EXCEPT !.args = a, !.line = l, !.mods = m]
        BY <3>1, <4>1
      <4> QED
        BY <3>2, <3>3, <4>2
    <3> HIDE DEF a, l, m
    <3> QED
      BY <3>4
  <2> QED
    BY <2>1, TakenFurther
<1>2. ASSUME NEW arg, NEW keys
      PROVE  /\ Further(check_arg_and_delete_from_mods(c, arg, keys),
                        check_arg_and_delete_from_mods(e, arg, keys))
             /\ check_arg_and_delete_from_mods(c, arg, keys).warn = c.warn
             /\ check_arg_and_delete_from_mods(c, arg, keys).nodes = c.nodes
  <2>1. CASE ~check_arg(c, arg)
    BY <2>1, FurtherSame DEF check_arg_and_delete_from_mods, check_arg
  <2>2. CASE check_arg(c, arg)
    <3> DEFINE l == RemoveFirst(c.line, arg)
               m == clear_val_from_list_in_dict(keys, c.mods, arg)
    <3>1. \A x : x.line = c.line /\ x.mods = c.mods =>
            check_arg_and_delete_from_mods(x, arg, keys) = [x EXCEPT !.line = l, !.mods = m]
      BY <2>2 DEF check_arg_and_delete_from_mods, check_arg
    <3>2. \A x : IsContext(x) => [x EXCEPT !.line = l, !.mods = m] = Taken(x, l, m, x.args)
      <4> HIDE DEF l, m
      <4> QED
        BY DEF IsContext, Taken
    <3>3. IsContext(c) /\ IsContext(e)
      BY DEF Further, GoodContext
    <3> HIDE DEF l, m
    <3>5. c.line = e.line /\ c.mods = e.mods /\ c.args = e.args
      BY FurtherSame
    <3>4. /\ check_arg_and_delete_from_mods(c, arg, keys) = Taken(c, l, m, c.args)
          /\ check_arg_and_delete_from_mods(e, arg, keys) = Taken(e, l, m, c.args)
      BY <3>1, <3>2, <3>3, <3>5
    <3> QED
      BY <3>4, TakenFurther
  <2> QED
    BY <2>1, <2>2
<1>3. ASSUME NEW args, NEW keys
      PROVE  /\ Further(Taking(c, args, keys), Taking(e, args, keys))
             /\ Taking(c, args, keys).warn = c.warn
             /\ Taking(c, args, keys).nodes = c.nodes
  <2>1. \E l, m, a : /\ Taking(c, args, keys) = Taken(c, l, m, a)
                     /\ Taking(e, args, keys) = Taken(e, l, m, a)
    <3> DEFINE left(x) == FoldLeft(LAMBDA before, arg : Given(before, LAMBDA z :
                                     get_arg_and_delete_from_mods(z, arg, keys)),
                                   [line |-> x.line, mods |-> x.mods, args |-> x.args], args)
    <3>1. \A x : Taking(x, args, keys) = Taken(x, left(x).line, left(x).mods, left(x).args)
      BY DEF Taking, Folded, Given, Taken
    <3>2. left(e) = left(c)
      BY FurtherSame
    <3> HIDE DEF left
    <3> QED
      BY <3>1, <3>2
  <2> QED
    BY <2>1, TakenFurther
<1> QED
  BY <1>1, <1>2, <1>3

-----------------------------------------------------------------------------
(* Sequences joined, and the methods that only read.                      *)

(* Of FlattenSeq: a sequence, and of the elements of its parts.            *)
Flat(s, n) == CHOOSE f : f = [i \in 1 .. n |-> IF i = 1 THEN s[i] ELSE f[i - 1] \o s[i]]
IsFlat(f, s, n) == f = [i \in 1 .. n |-> IF i = 1 THEN s[i] ELSE f[i - 1] \o s[i]]

(* The recursive function that joins the sequences of s exists: were there *)
(* a least n without it, n - 1 would have it, and so n.                    *)
LEMMA FlatExists ==
  ASSUME NEW s, NEW n \in Nat, n >= 1
  PROVE  IsFlat(Flat(s, n), s, n)
<1> DEFINE Bad == {k \in 1 .. n : ~\E f : IsFlat(f, s, k)}
<1>1. Bad = {}
  <2> SUFFICES ASSUME Bad # {} PROVE FALSE
    OBVIOUS
  <2>1. Bad \subseteq Nat
    OBVIOUS
  <2> DEFINE k == Min(Bad)
  <2>2. k \in Bad /\ \A y \in Bad : k <= y
    BY <2>1, MinIsLeast
  <2> HIDE DEF k
  <2>3. CASE k = 1
    <3>1. IsFlat([i \in 1 .. 1 |-> s[1]], s, 1)
      BY DEF IsFlat
    <3> QED
      BY <3>1, <2>2, <2>3
  <2>4. CASE k # 1
    <3>1. k - 1 \in 1 .. n /\ k - 1 \notin Bad
      BY <2>2, <2>4
    <3>2. PICK f : IsFlat(f, s, k - 1)
      BY <3>1
    <3> DEFINE g == [i \in 1 .. k |-> IF i = k THEN f[k - 1] \o s[k] ELSE f[i]]
    <3>3. ASSUME NEW i \in 1 .. k PROVE g[i] = IF i = 1 THEN s[i] ELSE g[i - 1] \o s[i]
      <4>1. CASE i = k
        <5>1. k - 1 \in 1 .. k /\ k - 1 # k /\ k \in 1 .. k
          BY <2>2, <2>4
        <5>2. g[k - 1] = f[k - 1] /\ g[k] = f[k - 1] \o s[k]
          BY <5>1
        <5> HIDE DEF g
        <5> QED
          BY <4>1, <5>2, <2>4
      <4>2. CASE i # k
        <5>1. i \in 1 .. (k - 1) /\ (i # 1 => i - 1 \in 1 .. k /\ i - 1 # k)
          BY <4>2, <2>2
        <5>2. f[i] = IF i = 1 THEN s[i] ELSE f[i - 1] \o s[i]
          BY <5>1, <3>2 DEF IsFlat
        <5> QED
          BY <5>1, <5>2, <4>2
      <4> QED
        BY <4>1, <4>2
    <3>4. g = [i \in 1 .. k |-> g[i]]
      OBVIOUS
    <3> HIDE DEF g
    <3>5. IsFlat(g, s, k)
      BY <3>3, <3>4 DEF IsFlat
    <3> QED
      BY <3>5, <2>2
  <2> QED
    BY <2>3, <2>4
<1>2. \E f : IsFlat(f, s, n)
  BY <1>1
<1> QED
  BY <1>2 DEF Flat, IsFlat

(* FlattenSeq yields a sequence, of elements of its parts.                 *)
LEMMA Flattened ==
  ASSUME NEW s, IsSeq(s), \A i \in 1 .. Len(s) : IsSeq(s[i])
  PROVE  /\ IsSeq(FlattenSeq(s))
         /\ \A x \in ToSet(FlattenSeq(s)) : \E i \in 1 .. Len(s) : x \in ToSet(s[i])
<1> DEFINE n == Len(s)
<1>0. n \in Nat
  BY SeqLen
<1>1. CASE n = 0
  <2>1. FlattenSeq(s) = s
    BY <1>1 DEF FlattenSeq
  <2>2. ToSet(s) = {}
    BY <1>1, SeqElems
  <2> QED
    BY <2>1, <2>2
<1>2. CASE n # 0
  <2> DEFINE f == Flat(s, n)
             Good(k) == /\ IsSeq(f[k])
                        /\ \A x \in ToSet(f[k]) : \E i \in 1 .. n : x \in ToSet(s[i])
             Bad == {k \in 1 .. n : ~Good(k)}
  <2>1. FlattenSeq(s) = f[n]
    BY <1>2 DEF FlattenSeq, Flat
  <2>2. \A i \in 1 .. n : f[i] = IF i = 1 THEN s[i] ELSE f[i - 1] \o s[i]
    <3>1. IsFlat(f, s, n)
      BY FlatExists, <1>0, <1>2
    <3> HIDE DEF f
    <3> QED
      BY <3>1 DEF IsFlat
  <2> HIDE DEF f
  <2>3. Bad = {}
    <3> SUFFICES ASSUME Bad # {} PROVE FALSE
      OBVIOUS
    <3>1. Bad \subseteq Nat
      BY <1>0
    <3> DEFINE k == Min(Bad)
    <3>2. k \in Bad /\ \A y \in Bad : k <= y
      BY <3>1, MinIsLeast
    <3> HIDE DEF k
    <3>3. CASE k = 1
      BY <3>2, <3>3, <2>2, <1>0
    <3>4. CASE k # 1
      <4>1. k - 1 \in 1 .. n /\ k - 1 \notin Bad /\ k \in 1 .. n
        BY <3>2, <3>4, <1>0
      <4>2. Good(k - 1) /\ f[k] = f[k - 1] \o s[k] /\ IsSeq(s[k])
        BY <4>1, <3>4, <2>2
      <4>3. Good(k)
        BY <4>1, <4>2, SeqJoinedElems
      <4> QED
        BY <4>3, <3>2
    <3> QED
      BY <3>3, <3>4
  <2>4. Good(n)
    BY <2>3, <1>0, <1>2
  <2> QED
    BY <2>1, <2>4
<1> QED
  BY <1>1, <1>2

-----------------------------------------------------------------------------
IsRead(request) == "op" \in DOMAIN request /\ request.op = "get"
Reading(m) == IsSeq(m) /\ \A request \in ToSet(m) : IsRead(request)

(* A method that only reads is a list of requests none of which wants a    *)
(* change.                                                                 *)
LEMMA ReadingReads ==
  ASSUME NEW m, Reading(m)
  PROVE  IsSeq(m) /\ ReadsOnlyOf(m)
  BY SeqElems DEF Reading, ReadsOnlyOf, Wants, Changes, IsRead

(* Two methods that only read, one after the other, only read.             *)
LEMMA ReadingJoined ==
  \A s, t : Reading(s) /\ Reading(t) => Reading(s \o t)
  BY SeqJoinedElems DEF Reading

(* One read only reads, and no request does.                               *)
LEMMA ReadingOne ==
  /\ \A x : IsRead(x) => Reading(<<x>>)
  /\ Reading(<<>>)
  BY SeqOneElems DEF Reading

(* An info get and an admin query read.                                    *)
LEMMA InfoReads ==
  /\ \A cmd, obj : IsRead(Info(cmd, obj))
  /\ \A obj : IsRead(Admin(obj))
  BY DEF IsRead, Info, Admin

(* Methods of one request that reads only read.                            *)
LEMMA AsksReads ==
  /\ \A cmd : Reading(Asks(cmd))
  /\ \A cmd, obj : Reading(<<Info(cmd, obj)>>)
  /\ \A obj : Reading(<<Admin(obj)>>)
  BY ReadingOne, InfoReads DEF Asks

(* To ask something of each name only reads.                               *)
LEMMA AsksEachReads ==
  /\ \A cmd, x : Reading(AsksEach(cmd, <<x>>))
  /\ \A cmd, names : IsSeq(names) => Reading(AsksEach(cmd, names))
<1>1. ASSUME NEW cmd, NEW names, IsSeq(names) PROVE Reading(AsksEach(cmd, names))
  <2> DEFINE t == AsksEach(cmd, names)
  <2>1. t = [i \in DOMAIN names |-> t[i]] /\ \A i \in DOMAIN names : IsRead(t[i])
    BY InfoReads DEF AsksEach
  <2> HIDE DEF t
  <2>2. IsSeq(t) /\ DOMAIN t = DOMAIN names
    BY <1>1, <2>1, SeqMapped
  <2> QED
    BY <2>1, <2>2 DEF Reading, ToSet, t
<1> QED
  BY <1>1, SeqOne

(* What a lost connection becomes does not change what is asked.           *)
LEMMA WhenLostReads ==
  \A what, m : Reading(m) => Reading(WhenLost(what, m))
<1>1. ASSUME NEW what, NEW m, Reading(m) PROVE Reading(WhenLost(what, m))
  <2> DEFINE t == WhenLost(what, m)
  <2>1. t = [i \in DOMAIN m |-> t[i]]
    BY DEF WhenLost
  <2>2. ASSUME NEW i \in DOMAIN m PROVE IsRead(t[i])
    <3>1. IsRead(m[i])
      BY <1>1 DEF Reading, ToSet
    <3>2. t[i] = [m[i] EXCEPT !.lost = what]
      BY DEF WhenLost
    <3> QED
      BY <3>1, <3>2 DEF IsRead
  <2> HIDE DEF t
  <2>3. IsSeq(t) /\ DOMAIN t = DOMAIN m
    BY <1>1, <2>1, SeqMapped DEF Reading
  <2> QED
    BY <2>2, <2>3 DEF Reading, ToSet, t
<1> QED
  BY <1>1

(* A method with its unknown answers known asks for something still.       *)
LEMMA KnownIs ==
  \A m : IsSeq(m) => IsSeq(Known(m))
<1>1. ASSUME NEW m, IsSeq(m) PROVE IsSeq(Known(m))
  <2> DEFINE t == Known(m)
  <2>1. t = [i \in DOMAIN m |-> t[i]]
    BY DEF Known
  <2> HIDE DEF t
  <2> QED
    BY <1>1, <2>1, SeqMapped DEF t
<1> QED
  BY <1>1

(* A method that wants a word of its answer asks for something still.      *)
LEMMA WantingIs ==
  \A what, word, m : IsSeq(m) => IsSeq(Wanting(what, word, m))
<1>1. ASSUME NEW what, NEW word, NEW m, IsSeq(m) PROVE IsSeq(Wanting(what, word, m))
  <2> DEFINE t == Wanting(what, word, m)
  <2>1. t = [i \in DOMAIN m |-> t[i]]
    BY DEF Wanting
  <2> HIDE DEF t
  <2> QED
    BY <1>1, <2>1, SeqMapped DEF t
<1> QED
  BY <1>1

(* Methods that only read, joined, only read.                              *)
LEMMA FlattenReads ==
  ASSUME NEW s, IsSeq(s), \A i \in DOMAIN s : Reading(s[i])
  PROVE  Reading(FlattenSeq(s))
<1>1. DOMAIN s = 1 .. Len(s)
  BY SeqLen
<1> QED
  BY <1>1, Flattened DEF Reading

(* The names of namespaces, indexes and datacenters are lists.             *)
LEMMA NamesAre == IsSeq(Namespaces) /\ IsSeq(Sindexes) /\ IsSeq(Datacenters)
  BY RequestsAssumption, SeqIs

(* The methods of a node that ask one thing only read.                     *)
LEMMA ReadsSimple ==
  /\ Reading(info_node) /\ Reading(info_build) /\ Reading(info_version) /\ Reading(info_statistics)
  /\ Reading(info_partition) /\ Reading(info_best_practices) /\ Reading(info_logs)
  /\ Reading(info_latency) /\ Reading(info_roster) /\ Reading(info_cluster_stable)
  /\ Reading(info_racks) /\ Reading(info_udf_list)
  /\ Reading(admin_query_users) /\ Reading(admin_query_roles)
  /\ \A x : Reading(admin_query_user(x)) /\ Reading(admin_query_role(x))
  BY AsksReads DEF info_node, info_build, info_version, info_statistics, info_partition,
       info_best_practices, info_logs, info_latency, info_roster, info_cluster_stable, info_racks,
       info_udf_list, admin_query_users, admin_query_roles, admin_query_user, admin_query_role

(* The methods of a node that ask for a list only read.                    *)
LEMMA ReadsListed ==
  /\ Reading(info_service_list) /\ Reading(info_namespaces) /\ Reading(info_all_set_statistics)
  /\ Reading(info_health_outliers) /\ Reading(info_bin_statistics) /\ Reading(info_rack_ids)
  /\ Reading(info_sindex)
  BY AsksReads, WhenLostReads DEF info_service_list, info_namespaces, info_all_set_statistics,
       info_health_outliers, info_bin_statistics, info_rack_ids, info_sindex

(* The methods that ask for the peers only read.                           *)
LEMMA ReadsPeers == Reading(info_peers_list) /\ Reading(info_peers_flat_list)
<1> DEFINE s == [i \in DOMAIN _get_info_peers_list_calls |-> Asks(_get_info_peers_list_calls[i])]
<1>1. IsSeq(_get_info_peers_list_calls)
  BY SeqOne DEF _get_info_peers_list_calls
<1>2. s = [i \in DOMAIN _get_info_peers_list_calls |-> s[i]]
  OBVIOUS
<1>3. IsSeq(s) /\ DOMAIN s = DOMAIN _get_info_peers_list_calls
  BY <1>1, <1>2, SeqMapped
<1>4. \A i \in DOMAIN s : Reading(s[i])
  BY AsksReads
<1>5. info_peers_list = WhenLost("ends", FlattenSeq(s))
  BY DEF info_peers_list
<1> HIDE DEF s
<1>6. Reading(FlattenSeq(s))
  BY <1>3, <1>4, FlattenReads
<1> QED
  BY <1>5, <1>6, WhenLostReads DEF info_peers_flat_list

(* The methods of a node that ask about something named only read.         *)
LEMMA ReadsOf ==
  /\ \A ns : Reading(info_namespace_statistics(ns)) /\ Reading(info_get_config_namespace(ns))
  /\ \A ns, set : Reading(info_set_statistics(ns, set))
  /\ \A ns : Reading(info_roster_namespace(ns)) /\ Reading(info_roster_observed(ns))
  /\ \A sindex : Reading(info_sindex_statistics(sindex))
  /\ \A n : Reading(info_query_show(n)) /\ Reading(info_scan_show(n))
  /\ \A module : Reading(info_jobs(module))
  BY AsksReads, AsksEachReads DEF info_namespace_statistics, info_get_config_namespace,
       info_set_statistics, info_roster_namespace, info_roster_observed, info_sindex_statistics,
       info_query_show, info_scan_show, info_jobs

(* The methods of a node that go through the namespaces or the datacenters *)
(* only read.                                                              *)
LEMMA ReadsAll ==
  /\ Reading(info_all_namespace_statistics) /\ Reading(xdr_namespace_config_helper)
  /\ \A dc : Reading(xdr_config_helper(dc))
  /\ Reading(info_dc_get_config)
  /\ \A n : Reading(info_histogram(n))
  /\ \A cmd : Reading(_collect_histogram_data(cmd))
  /\ \A n : Reading(info_dcs(n))
  /\ \A n, dc : Reading(info_dc_statistics(n, dc))
  /\ \A v, names : IsSeq(names) => Reading(info_latencies(v, names))
<1> USE ReadingJoined, WhenLostReads, ReadsSimple, ReadsListed, AsksReads, AsksEachReads, NamesAre, ReadingOne
<1>1. Reading(info_all_namespace_statistics)
  BY DEF info_all_namespace_statistics
<1>2. Reading(xdr_namespace_config_helper)
  BY DEF xdr_namespace_config_helper
<1>3. \A dc : Reading(xdr_config_helper(dc))
  BY <1>2 DEF xdr_config_helper
<1>4. Reading(info_dc_get_config)
  BY DEF info_dc_get_config
<1>5. \A cmd : Reading(_collect_histogram_data(cmd))
  BY DEF _collect_histogram_data
<1>6. \A n : Reading(info_histogram(n))
  BY <1>5 DEF info_histogram
<1>7. \A n : Reading(info_dcs(n))
  BY DEF info_dcs
<1>8. \A n, dc : Reading(info_dc_statistics(n, dc))
  BY DEF info_dc_statistics
<1>9. \A v, names : IsSeq(names) => Reading(info_latencies(v, names))
  BY DEF info_latencies
<1> QED
  BY <1>1, <1>2, <1>3, <1>4, <1>5, <1>6, <1>7, <1>8, <1>9

(* The methods of a node that depend on its version of XDR only read.      *)
LEMMA ReadsXdr ==
  /\ \A n : Reading(info_all_dc_statistics(n)) /\ Reading(info_XDR_statistics(n))
  /\ \A n, stanza : Reading(info_get_config(n, stanza))
  /\ \A n : Reading(info_XDR_get_config(n))
<1>1. ASSUME NEW n PROVE Reading(info_all_dc_statistics(n))
  <2> DEFINE s == [i \in DOMAIN Datacenters |-> info_dc_statistics(n, Datacenters[i])]
  <2>1. s = [i \in DOMAIN Datacenters |-> s[i]] /\ \A i \in DOMAIN s : Reading(s[i])
    BY ReadsAll
  <2>2. info_all_dc_statistics(n) = WhenLost("ends", info_dcs(n)) \o WhenLost("without", FlattenSeq(s))
    BY DEF info_all_dc_statistics
  <2> HIDE DEF s
  <2>3. Reading(FlattenSeq(s))
    BY <2>1, NamesAre, SeqMapped, FlattenReads
  <2> QED
    BY <2>2, <2>3, WhenLostReads, ReadingJoined, ReadsAll
<1>2. \A n : Reading(info_XDR_statistics(n))
  BY <1>1, ReadsSimple, AsksReads, ReadingJoined DEF info_XDR_statistics
<1>3. Reading(FlattenSeq([i \in DOMAIN Datacenters |-> xdr_config_helper(Datacenters[i])]))
  <2> DEFINE s == [i \in DOMAIN Datacenters |-> xdr_config_helper(Datacenters[i])]
  <2>1. s = [i \in DOMAIN Datacenters |-> s[i]] /\ \A i \in DOMAIN s : Reading(s[i])
    BY ReadsAll
  <2> HIDE DEF s
  <2>3. Reading(FlattenSeq(s))
    BY <2>1, NamesAre, SeqMapped, FlattenReads
  <2> QED
    BY <2>3 DEF s
<1>4. ASSUME NEW n, NEW stanza PROVE Reading(info_get_config(n, stanza))
  <2> DEFINE f == FlattenSeq([i \in DOMAIN Datacenters |-> xdr_config_helper(Datacenters[i])])
             a == AsksEach("get-config namespace", Namespaces)
  <2>1. \/ info_get_config(n, stanza) = info_namespaces \o WhenLost("without", a)
        \/ info_get_config(n, stanza) = info_build \o WhenLost("without", Asks("get-config xdr")) \o info_dcs(n) \o f
        \/ info_get_config(n, stanza) = info_build \o Asks("get-config old xdr")
        \/ info_get_config(n, stanza) = Asks("get-config " \o stanza)
    BY DEF info_get_config
  <2>2. Reading(f) /\ Reading(a)
    BY <1>3, AsksEachReads, NamesAre
  <2> HIDE DEF f, a
  <2> QED
    BY <2>1, <2>2, ReadsListed, ReadsSimple, ReadsAll, AsksReads, ReadingJoined, WhenLostReads
<1>5. \A n : Reading(info_XDR_get_config(n))
  BY <1>4 DEF info_XDR_get_config
<1> QED
  BY <1>1, <1>2, <1>4, <1>5

-----------------------------------------------------------------------------

(* Two sequences joined are a sequence.                                    *)
LEMMA IsSeqJoined == \A s, t : IsSeq(s) /\ IsSeq(t) => IsSeq(s \o t)
  BY SeqJoined

(* The methods that change the cluster are lists of requests: roster,      *)
(* recluster, quiesce, revive, modules and indexes.                        *)
LEMMA ChangesAsk1 ==
  /\ \A ns, nodes : IsSeq(info_roster_set(ns, nodes))
  /\ IsSeq(info_recluster) /\ IsSeq(info_quiesce) /\ IsSeq(info_quiesce_undo)
  /\ \A ns : IsSeq(info_revive(ns))
  /\ \A x : IsSeq(info_udf_put(x)) /\ IsSeq(info_sindex_create(x)) /\ IsSeq(info_sindex_delete(x))
  /\ \A n, x : IsSeq(info_scan_abort(n, x)) /\ IsSeq(info_query_abort(n, x)) /\ IsSeq(info_jobs_kill(n, x))
  /\ IsSeq(info_scan_abort_all) /\ IsSeq(info_query_abort_all)
  BY SeqOne DEF info_roster_set, info_recluster, info_quiesce, info_quiesce_undo, info_revive,
       info_udf_put, info_sindex_create, info_sindex_delete, info_scan_abort, info_query_abort,
       info_jobs_kill, info_scan_abort_all, info_query_abort_all

(* The methods that change the cluster are lists of requests: users and    *)
(* roles.                                                                  *)
LEMMA ChangesAsk2 ==
  /\ \A x : /\ IsSeq(admin_create_user(x)) /\ IsSeq(admin_delete_user(x)) /\ IsSeq(admin_create_role(x))
            /\ IsSeq(admin_delete_role(x)) /\ IsSeq(admin_delete_whitelist(x))
  /\ \A x, y : /\ IsSeq(admin_set_password(x, y)) /\ IsSeq(admin_change_password(x, y))
               /\ IsSeq(admin_grant_roles(x, y)) /\ IsSeq(admin_revoke_roles(x, y))
               /\ IsSeq(admin_add_privileges(x, y)) /\ IsSeq(admin_delete_privileges(x, y))
               /\ IsSeq(admin_set_whitelist(x, y)) /\ IsSeq(admin_set_quotas(x, y))
  BY SeqOne DEF admin_create_user, admin_delete_user, admin_create_role, admin_delete_role,
       admin_delete_whitelist, admin_set_password, admin_change_password, admin_grant_roles,
       admin_revoke_roles, admin_add_privileges, admin_delete_privileges, admin_set_whitelist,
       admin_set_quotas

(* A method that only reads is a list of requests.                         *)
LEMMA ReadingIs == \A m : Reading(m) => IsSeq(m)
  BY DEF Reading

(* The methods that change the cluster are lists of requests: truncation,  *)
(* parameters, datacenters and jobs.                                       *)
LEMMA ChangesAsk3 ==
  /\ \A udf : IsSeq(info_udf_remove(udf))
  /\ \A n, ns, set : IsSeq(info_truncate(n, ns, set)) /\ IsSeq(info_truncate_undo(n, ns, set))
  /\ \A x, y, z : IsSeq(SetParam(x, y, z))
  /\ \A x, y : /\ IsSeq(info_set_config_logging(x, y)) /\ IsSeq(info_set_config_service(x, y))
               /\ IsSeq(info_set_config_network(x, y)) /\ IsSeq(info_set_config_security(x, y))
  /\ \A x, y, z : IsSeq(info_set_config_namespace(x, y, z)) /\ IsSeq(info_set_config_xdr(x, y, z))
  /\ \A n, x : IsSeq(info_set_config_xdr_create_dc(n, x)) /\ IsSeq(info_set_config_xdr_delete_dc(n, x))
  /\ \A n, x, y : /\ IsSeq(info_set_config_xdr_add_node(n, x, y))
                  /\ IsSeq(info_set_config_xdr_remove_node(n, x, y))
                  /\ IsSeq(info_set_config_xdr_add_namespace(n, x, y))
                  /\ IsSeq(info_set_config_xdr_remove_namespace(n, x, y))
<1> USE IsSeqJoined, ReadingIs, ReadsSimple, ReadsAll, WantingIs, KnownIs, SeqOne
<1>1. \A udf : IsSeq(info_udf_remove(udf))
  BY DEF info_udf_remove
<1>2. \A n, ns, set : IsSeq(info_truncate(n, ns, set)) /\ IsSeq(info_truncate_undo(n, ns, set))
  <2>1. \A n, ns, set, cmd : IsSeq(Truncation(n, ns, set, cmd))
    BY DEF Truncation
  <2> QED
    BY <2>1 DEF info_truncate, info_truncate_undo
<1>3. \A x, y, z : IsSeq(SetParam(x, y, z))
  BY DEF SetParam
<1>4. \A x, y : /\ IsSeq(info_set_config_logging(x, y)) /\ IsSeq(info_set_config_service(x, y))
               /\ IsSeq(info_set_config_network(x, y)) /\ IsSeq(info_set_config_security(x, y))
  BY <1>3 DEF info_set_config_logging, info_set_config_service, info_set_config_network, info_set_config_security
<1>5. \A x, y, z : IsSeq(info_set_config_namespace(x, y, z)) /\ IsSeq(info_set_config_xdr(x, y, z))
  BY <1>3 DEF info_set_config_namespace, info_set_config_xdr
<1>6. \A n, op, obj, val : IsSeq(DcChange(n, op, obj, val))
  BY DEF DcChange
<1>7. \A n, x : IsSeq(info_set_config_xdr_create_dc(n, x)) /\ IsSeq(info_set_config_xdr_delete_dc(n, x))
  BY <1>6 DEF info_set_config_xdr_create_dc, info_set_config_xdr_delete_dc
<1>8. \A n, x, y : /\ IsSeq(info_set_config_xdr_add_node(n, x, y))
                  /\ IsSeq(info_set_config_xdr_remove_node(n, x, y))
                  /\ IsSeq(info_set_config_xdr_add_namespace(n, x, y))
                  /\ IsSeq(info_set_config_xdr_remove_namespace(n, x, y))
  BY <1>6 DEF info_set_config_xdr_add_node, info_set_config_xdr_remove_node,
              info_set_config_xdr_add_namespace, info_set_config_xdr_remove_namespace
<1> QED
  BY <1>1, <1>2, <1>3, <1>4, <1>5, <1>7, <1>8

-----------------------------------------------------------------------------
(* Commands that change something at the principal.                        *)

Heeds(w, p, q) == Grown(p, q) /\ (w => AskFirst(p))

(* A plan that heeds the warning of its context behaves, whatever the line *)
(* says.                                                                   *)
LEMMA HeedsBehaves ==
  ASSUME NEW c, NEW p, NEW q, Heeds(c.warn, p, q)
  PROVE  Behaves(c, p, q)
  BY DEF Heeds, Behaves, Warned

(* A plan that ends in silence heeds a warning.                            *)
LEMMA EndHeeds ==
  ASSUME NEW c, NEW e, NEW w, NEW steps, SilentSteps(steps)
  PROVE  Heeds(w, End(c, steps), End(e, steps))
  BY EndGrown DEF Heeds

(* The ways in which a command says help, success or failure are silent.   *)
LEMMA Helps ==
  /\ SilentSteps(<<>>)
  /\ SilentSteps(<<Tell("help"), Raise>>) /\ SilentSteps(<<Tell("help"), Complain>>)
  /\ SilentSteps(<<Tell("help")>>) /\ SilentSteps(<<Raise>>) /\ SilentSteps(<<Complain>>)
  /\ SilentSteps(Success) /\ SilentSteps(Recluster) /\ SilentSteps(Success \o Recluster)
  /\ Silent(Warn) /\ Silent(Complain)
  /\ \A nodes : Silent(Shows("table", nodes))
  BY SilentStep, SilentJoined, StepKinds DEF Success, Recluster

(* After its first answers are taken a context warns as before, about the  *)
(* same nodes.                                                             *)
LEMMA RestKeeps == \A c : GoodContext(c) => Rest(c).warn = c.warn /\ Rest(c).nodes = c.nodes
  BY DEF GoodContext, IsContext, Rest

(* What a command does with its modifiers: p if none is missing.           *)
Commands_(x, required, modifiers, g, p) ==
  IF \E word \in required : g[word] = <<>>
  THEN End(Grouped(x, required, modifiers, g), <<Tell("help"), Raise>>) ELSE p

(* A command that misses a modifier says so and raises; else it heeds as   *)
(* its plan does.                                                          *)
LEMMA Commanded ==
  ASSUME NEW c, NEW e, Further(c, e), NEW required, NEW modifiers, NEW g, NEW p, NEW q,
         Heeds(c.warn, p, q)
  PROVE  Heeds(c.warn, Commands_(c, required, modifiers, g, p), Commands_(e, required, modifiers, g, q))
<1>1. CASE \E word \in required : g[word] = <<>>
  <2>1. Heeds(c.warn, End(Grouped(c, required, modifiers, g), <<Tell("help"), Raise>>),
                      End(Grouped(e, required, modifiers, g), <<Tell("help"), Raise>>))
    BY EndHeeds, Helps
  <2> QED
    BY <1>1, <2>1 DEF Commands_
<1>2. CASE ~\E word \in required : g[word] = <<>>
  BY <1>2 DEF Commands_
<1> QED
  BY <1>1, <1>2

(* A change at the principal, asked about when it is to be.                *)
LEMMA AskedHeeds ==
  ASSUME NEW c, NEW e, Further(c, e), NEW asked, NEW about, NEW request, IsSeq(request),
         NEW done, SilentSteps(done)
  PROVE  Heeds(asked, Confirm(c, asked, about, AtPrincipal(c, request, done)),
                      Confirm(e, asked, about, AtPrincipal(e, request, done)))
<1> DEFINE p == AtPrincipal(c, request, done)  q == AtPrincipal(e, request, done)
<1>1. Grown(p, q)
  BY AtPrincipalGrown
<1> HIDE DEF p, q
<1>2. Heeds(asked, Confirm(c, asked, about, p), Confirm(e, asked, about, q))
  BY <1>1, ConfirmGrown DEF Heeds
<1> QED
  BY <1>2 DEF p, q

(* To pop a word keeps who has more answers ahead.                         *)
LEMMA PoppedFurther ==
  ASSUME NEW c, NEW e, Further(c, e)
  PROVE  Further(Popped(c), Popped(e)) /\ Popped(c).warn = c.warn /\ Popped(e).warn = e.warn
         /\ Popped(c).line = Tail(c.line)
<1>1. \A x : IsContext(x) => Popped(x) = Taken(x, Tail(x.line), x.mods, x.args)
  BY DEF Popped, Taken, IsContext
<1>2. Popped(c) = Taken(c, Tail(c.line), c.mods, c.args) /\ Popped(e) = Taken(e, Tail(c.line), c.mods, c.args)
  <2>1. Popped(e) = Taken(e, Tail(e.line), e.mods, e.args)
    BY <1>1 DEF Further, GoodContext
  <2>2. Popped(c) = Taken(c, Tail(c.line), c.mods, c.args)
    BY <1>1 DEF Further, GoodContext
  <2> QED
    BY <2>1, <2>2, FurtherSame
<1> QED
  BY <1>2, TakenFurther, FurtherSame

(* More answers change no word and no modifier.                            *)
LEMMA WordSame ==
  ASSUME NEW c, NEW e, Further(c, e)
  PROVE  Word(e) = Word(c) /\ \A m : Mod(e, m) = Mod(c, m) /\ Has(e, m) = Has(c, m) /\ OneOf(e, m) = OneOf(c, m)
  BY FurtherSame DEF Word, Mod, Has, OneOf

(* An argument with its value is taken with more answers as with fewer.    *)
LEMMA GotFurther ==
  ASSUME NEW c, NEW e, Further(c, e), NEW arg, NEW keys
  PROVE  /\ Further(get_arg_and_delete_from_mods(c, arg, keys), get_arg_and_delete_from_mods(e, arg, keys))
         /\ get_arg_and_delete_from_mods(c, arg, keys).warn = c.warn
         /\ get_arg_and_delete_from_mods(e, arg, keys).warn = c.warn
  BY TakesAlike, FurtherSame

(* A flag is taken with more answers as with fewer.                        *)
LEMMA DroppedFurther ==
  ASSUME NEW c, NEW e, Further(c, e), NEW arg, NEW keys
  PROVE  /\ Further(check_arg_and_delete_from_mods(c, arg, keys), check_arg_and_delete_from_mods(e, arg, keys))
         /\ check_arg_and_delete_from_mods(c, arg, keys).warn = c.warn
         /\ check_arg_and_delete_from_mods(e, arg, keys).warn = c.warn
  BY TakesAlike, FurtherSame

(* Several arguments are taken with more answers as with fewer.            *)
LEMMA TakingFurther ==
  ASSUME NEW c, NEW e, Further(c, e), NEW args, NEW keys
  PROVE  /\ Further(Taking(c, args, keys), Taking(e, args, keys))
         /\ Taking(c, args, keys).warn = c.warn
         /\ Taking(e, args, keys).warn = c.warn
         /\ Taking(c, args, keys).nodes = c.nodes
  BY TakesAlike, FurtherSame

(* manage acl delete user: asks first when it warns; more answers only add *)
(* steps.                                                                  *)
LEMMA ManageACLDeleteUserControllerHeeds ==
  ASSUME NEW c, NEW e, Further(c, e)
  PROVE  Heeds(c.warn, ManageACLDeleteUserController(c), ManageACLDeleteUserController(e))
<1> DEFINE req == {"line"}  mod == {}
           g == parse_modifiers(c.line, req \union mod)
           B(d) == Confirm(d, d.warn, <<>>, AtPrincipal(d, admin_delete_user(Word(d)), Success))
<1>1. \A x : x.line = c.line =>
        ManageACLDeleteUserController(x) = Commands_(x, req, mod, g, B(Grouped(x, req, mod, g)))
  BY DEF ManageACLDeleteUserController, pre_command, WithGroups, Given, Commands_
<1>2. ASSUME NEW d, NEW f, Further(d, f) PROVE Heeds(d.warn, B(d), B(f))
  <2>1. Word(f) = Word(d) /\ Mod(f, "roles") = Mod(d, "roles") /\ f.warn = d.warn
    BY <1>2, WordSame, FurtherSame
  <2> QED
    BY <1>2, <2>1, AskedHeeds, ChangesAsk1, ChangesAsk2, ChangesAsk3, Helps
<1> HIDE DEF B, g
<1>3. Heeds(c.warn, B(Grouped(c, req, mod, g)), B(Grouped(e, req, mod, g)))
  BY <1>2, GroupedFurther
<1>4. e.line = c.line
  BY FurtherSame
<1> HIDE DEF req, mod
<1> QED
  BY <1>1, <1>3, <1>4, Commanded

(* manage acl grant user: asks first when it warns; more answers only add  *)
(* steps.                                                                  *)
LEMMA ManageACLGrantUserControllerHeeds ==
  ASSUME NEW c, NEW e, Further(c, e)
  PROVE  Heeds(c.warn, ManageACLGrantUserController(c), ManageACLGrantUserController(e))
<1> DEFINE req == {"line", "roles"}  mod == {}
           g == parse_modifiers(c.line, req \union mod)
           B(d) == Confirm(d, d.warn, <<>>, AtPrincipal(d, admin_grant_roles(Word(d), Mod(d, "roles")), Success))
<1>1. \A x : x.line = c.line =>
        ManageACLGrantUserController(x) = Commands_(x, req, mod, g, B(Grouped(x, req, mod, g)))
  BY DEF ManageACLGrantUserController, pre_command, WithGroups, Given, Commands_
<1>2. ASSUME NEW d, NEW f, Further(d, f) PROVE Heeds(d.warn, B(d), B(f))
  <2>1. Word(f) = Word(d) /\ Mod(f, "roles") = Mod(d, "roles") /\ f.warn = d.warn
    BY <1>2, WordSame, FurtherSame
  <2> QED
    BY <1>2, <2>1, AskedHeeds, ChangesAsk1, ChangesAsk2, ChangesAsk3, Helps
<1> HIDE DEF B, g
<1>3. Heeds(c.warn, B(Grouped(c, req, mod, g)), B(Grouped(e, req, mod, g)))
  BY <1>2, GroupedFurther
<1>4. e.line = c.line
  BY FurtherSame
<1> HIDE DEF req, mod
<1> QED
  BY <1>1, <1>3, <1>4, Commanded

(* manage acl revoke user: asks first when it warns; more answers only add *)
(* steps.                                                                  *)
LEMMA ManageACLRevokeUserControllerHeeds ==
  ASSUME NEW c, NEW e, Further(c, e)
  PROVE  Heeds(c.warn, ManageACLRevokeUserController(c), ManageACLRevokeUserController(e))
<1> DEFINE req == {"line", "roles"}  mod == {}
           g == parse_modifiers(c.line, req \union mod)
           B(d) == Confirm(d, d.warn, <<>>, AtPrincipal(d, admin_revoke_roles(Word(d), Mod(d, "roles")), Success))
<1>1. \A x : x.line = c.line =>
        ManageACLRevokeUserController(x) = Commands_(x, req, mod, g, B(Grouped(x, req, mod, g)))
  BY DEF ManageACLRevokeUserController, pre_command, WithGroups, Given, Commands_
<1>2. ASSUME NEW d, NEW f, Further(d, f) PROVE Heeds(d.warn, B(d), B(f))
  <2>1. Word(f) = Word(d) /\ Mod(f, "roles") = Mod(d, "roles") /\ f.warn = d.warn
    BY <1>2, WordSame, FurtherSame
  <2> QED
    BY <1>2, <2>1, AskedHeeds, ChangesAsk1, ChangesAsk2, ChangesAsk3, Helps
<1> HIDE DEF B, g
<1>3. Heeds(c.warn, B(Grouped(c, req, mod, g)), B(Grouped(e, req, mod, g)))
  BY <1>2, GroupedFurther
<1>4. e.line = c.line
  BY FurtherSame
<1> HIDE DEF req, mod
<1> QED
  BY <1>1, <1>3, <1>4, Commanded

(* manage acl delete role: asks first when it warns; more answers only add *)
(* steps.                                                                  *)
LEMMA ManageACLDeleteRoleControllerHeeds ==
  ASSUME NEW c, NEW e, Further(c, e)
  PROVE  Heeds(c.warn, ManageACLDeleteRoleController(c), ManageACLDeleteRoleController(e))
<1> DEFINE req == {"line"}  mod == {}
           g == parse_modifiers(c.line, req \union mod)
           B(d) == Confirm(d, d.warn, <<>>, AtPrincipal(d, admin_delete_role(Word(d)), Success))
<1>1. \A x : x.line = c.line =>
        ManageACLDeleteRoleController(x) = Commands_(x, req, mod, g, B(Grouped(x, req, mod, g)))
  BY DEF ManageACLDeleteRoleController, pre_command, WithGroups, Given, Commands_
<1>2. ASSUME NEW d, NEW f, Further(d, f) PROVE Heeds(d.warn, B(d), B(f))
  <2>1. Word(f) = Word(d) /\ Mod(f, "roles") = Mod(d, "roles") /\ f.warn = d.warn
    BY <1>2, WordSame, FurtherSame
  <2> QED
    BY <1>2, <2>1, AskedHeeds, ChangesAsk1, ChangesAsk2, ChangesAsk3, Helps
<1> HIDE DEF B, g
<1>3. Heeds(c.warn, B(Grouped(c, req, mod, g)), B(Grouped(e, req, mod, g)))
  BY <1>2, GroupedFurther
<1>4. e.line = c.line
  BY FurtherSame
<1> HIDE DEF req, mod
<1> QED
  BY <1>1, <1>3, <1>4, Commanded

(* manage udfs remove: asks first when it warns; more answers only add     *)
(* steps.                                                                  *)
LEMMA ManageUdfsRemoveControllerHeeds ==
  ASSUME NEW c, NEW e, Further(c, e)
  PROVE  Heeds(c.warn, ManageUdfsRemoveController(c), ManageUdfsRemoveController(e))
<1> DEFINE req == {"line"}  mod == {}
           g == parse_modifiers(c.line, req \union mod)
           B(d) == Confirm(d, d.warn, <<>>, AtPrincipal(d, info_udf_remove(Word(d)), Success))
<1>1. \A x : x.line = c.line =>
        ManageUdfsRemoveController(x) = Commands_(x, req, mod, g, B(Grouped(x, req, mod, g)))
  BY DEF ManageUdfsRemoveController, pre_command, WithGroups, Given, Commands_
<1>2. ASSUME NEW d, NEW f, Further(d, f) PROVE Heeds(d.warn, B(d), B(f))
  <2>1. Word(f) = Word(d) /\ Mod(f, "roles") = Mod(d, "roles") /\ f.warn = d.warn
    BY <1>2, WordSame, FurtherSame
  <2> QED
    BY <1>2, <2>1, AskedHeeds, ChangesAsk1, ChangesAsk2, ChangesAsk3, Helps
<1> HIDE DEF B, g
<1>3. Heeds(c.warn, B(Grouped(c, req, mod, g)), B(Grouped(e, req, mod, g)))
  BY <1>2, GroupedFurther
<1>4. e.line = c.line
  BY FurtherSame
<1> HIDE DEF req, mod
<1> QED
  BY <1>1, <1>3, <1>4, Commanded

(* manage acl create user: asks first when it warns; more answers only add *)
(* steps.                                                                  *)
LEMMA ManageACLCreateUserControllerHeeds ==
  ASSUME NEW c, NEW e, Further(c, e)
  PROVE  Heeds(c.warn, ManageACLCreateUserController(c), ManageACLCreateUserController(e))
<1> DEFINE req == {"line"}  mod == {"password", "roles"}
           g == parse_modifiers(c.line, req \union mod)
           T(d) == get_arg_and_delete_from_mods(Popped(d), "password", d.keys)
           B(d) == Confirm(T(d), T(d).warn, <<>>, AtPrincipal(T(d), admin_create_user(Word(d)), Success))
<1>1. \A x : x.line = c.line =>
        ManageACLCreateUserController(x) = Commands_(x, req, mod, g, B(Grouped(x, req, mod, g)))
  BY DEF ManageACLCreateUserController, pre_command, WithGroups, Given, Commands_
<1>2. ASSUME NEW d, NEW f, Further(d, f) PROVE Heeds(d.warn, B(d), B(f))
  <2>1. Further(T(d), T(f)) /\ T(d).warn = d.warn /\ T(f).warn = d.warn
    BY <1>2, GotFurther, PoppedFurther, FurtherSame
  <2> HIDE DEF T
  <2>2. Word(f) = Word(d)
    BY <1>2, <2>1, WordSame, FurtherSame DEF PasswordOf
  <2> QED
    BY <2>1, <2>2, AskedHeeds, ChangesAsk2, Helps
<1> HIDE DEF B, g
<1>3. Heeds(c.warn, B(Grouped(c, req, mod, g)), B(Grouped(e, req, mod, g)))
  BY <1>2, GroupedFurther
<1>4. e.line = c.line
  BY FurtherSame
<1> HIDE DEF req, mod
<1> QED
  BY <1>1, <1>3, <1>4, Commanded

(* manage acl set password user: asks first when it warns; more answers    *)
(* only add steps.                                                         *)
LEMMA ManageACLSetPasswordUserControllerHeeds ==
  ASSUME NEW c, NEW e, Further(c, e)
  PROVE  Heeds(c.warn, ManageACLSetPasswordUserController(c), ManageACLSetPasswordUserController(e))
<1> DEFINE req == {"line"}  mod == {"password"}
           g == parse_modifiers(c.line, req \union mod)
           T(d) == get_arg_and_delete_from_mods(d, "user", {"line"})
           B(d) == Confirm(T(d), T(d).warn, <<>>,
             AtPrincipal(T(d), admin_set_password(T(d).args["user"], PasswordOf(T(d), "password")), Success))
<1>1. \A x : x.line = c.line =>
        ManageACLSetPasswordUserController(x) = Commands_(x, req, mod, g, B(Grouped(x, req, mod, g)))
  BY DEF ManageACLSetPasswordUserController, pre_command, WithGroups, Given, Commands_
<1>2. ASSUME NEW d, NEW f, Further(d, f) PROVE Heeds(d.warn, B(d), B(f))
  <2>1. Further(T(d), T(f)) /\ T(d).warn = d.warn /\ T(f).warn = d.warn
    BY <1>2, GotFurther, PoppedFurther, FurtherSame
  <2> HIDE DEF T
  <2>2. T(f).args = T(d).args /\ PasswordOf(T(f), "password") = PasswordOf(T(d), "password")
    BY <1>2, <2>1, WordSame, FurtherSame DEF PasswordOf
  <2> QED
    BY <2>1, <2>2, AskedHeeds, ChangesAsk2, Helps
<1> HIDE DEF B, g
<1>3. Heeds(c.warn, B(Grouped(c, req, mod, g)), B(Grouped(e, req, mod, g)))
  BY <1>2, GroupedFurther
<1>4. e.line = c.line
  BY FurtherSame
<1> HIDE DEF req, mod
<1> QED
  BY <1>1, <1>3, <1>4, Commanded

(* manage acl change password user: asks first when it warns; more answers *)
(* only add steps.                                                         *)
LEMMA ManageACLChangePasswordUserControllerHeeds ==
  ASSUME NEW c, NEW e, Further(c, e)
  PROVE  Heeds(c.warn, ManageACLChangePasswordUserController(c), ManageACLChangePasswordUserController(e))
<1> DEFINE req == {"user"}  mod == {"old", "new"}
           g == parse_modifiers(c.line, req \union mod)
           T(d) == get_arg_and_delete_from_mods(d, "user", {"user"})
           B(d) == Confirm(T(d), T(d).warn, <<>>,
             AtPrincipal(T(d), admin_change_password(T(d).args["user"], PasswordOf(T(d), "new")), Success))
<1>1. \A x : x.line = c.line =>
        ManageACLChangePasswordUserController(x) = Commands_(x, req, mod, g, B(Grouped(x, req, mod, g)))
  BY DEF ManageACLChangePasswordUserController, pre_command, WithGroups, Given, Commands_
<1>2. ASSUME NEW d, NEW f, Further(d, f) PROVE Heeds(d.warn, B(d), B(f))
  <2>1. Further(T(d), T(f)) /\ T(d).warn = d.warn /\ T(f).warn = d.warn
    BY <1>2, GotFurther, PoppedFurther, FurtherSame
  <2> HIDE DEF T
  <2>2. T(f).args = T(d).args /\ PasswordOf(T(f), "new") = PasswordOf(T(d), "new")
    BY <1>2, <2>1, WordSame, FurtherSame DEF PasswordOf
  <2> QED
    BY <2>1, <2>2, AskedHeeds, ChangesAsk2, Helps
<1> HIDE DEF B, g
<1>3. Heeds(c.warn, B(Grouped(c, req, mod, g)), B(Grouped(e, req, mod, g)))
  BY <1>2, GroupedFurther
<1>4. e.line = c.line
  BY FurtherSame
<1> HIDE DEF req, mod
<1> QED
  BY <1>1, <1>3, <1>4, Commanded

(* manage acl grant role: asks first when it warns; more answers only add  *)
(* steps.                                                                  *)
LEMMA ManageACLGrantRoleControllerHeeds ==
  ASSUME NEW c, NEW e, Further(c, e)
  PROVE  Heeds(c.warn, ManageACLGrantRoleController(c), ManageACLGrantRoleController(e))
<1> DEFINE req == {"line", "priv"}  mod == {"ns", "set"}
           g == parse_modifiers(c.line, req \union mod)
           B(d) == IF SetWithoutNamespace(d) THEN End(d, <<Tell("help"), Complain>>)
                   ELSE Confirm(d, d.warn, <<>>, AtPrincipal(d, admin_add_privileges(Word(d), Privilege(d)), Success))
<1>1. \A x : x.line = c.line =>
        ManageACLGrantRoleController(x) = Commands_(x, req, mod, g, B(Grouped(x, req, mod, g)))
  BY DEF ManageACLGrantRoleController, pre_command, WithGroups, Given, Commands_, PrivilegeChange
<1>2. ASSUME NEW d, NEW f, Further(d, f) PROVE Heeds(d.warn, B(d), B(f))
  <2>1. /\ Word(f) = Word(d) /\ Privilege(f) = Privilege(d) /\ f.warn = d.warn
        /\ SetWithoutNamespace(f) <=> SetWithoutNamespace(d)
    <3>1. Word(f) = Word(d) /\ f.warn = d.warn
      BY <1>2, WordSame, FurtherSame
    <3>2. /\ Has(f, "ns") = Has(d, "ns") /\ Has(f, "set") = Has(d, "set")
          /\ OneOf(f, "priv") = OneOf(d, "priv") /\ OneOf(f, "ns") = OneOf(d, "ns")
          /\ OneOf(f, "set") = OneOf(d, "set")
      BY <1>2, WordSame
    <3>3. Privilege(f) = Privilege(d)
      BY <3>2, Zenon DEF Privilege
    <3>4. SetWithoutNamespace(f) <=> SetWithoutNamespace(d)
      BY <3>2, Zenon DEF SetWithoutNamespace
    <3> QED
      BY <3>1, <3>3, <3>4
  <2>2. Heeds(d.warn, End(d, <<Tell("help"), Complain>>), End(f, <<Tell("help"), Complain>>))
    BY EndHeeds, Helps
  <2>3. Heeds(d.warn, Confirm(d, d.warn, <<>>, AtPrincipal(d, admin_add_privileges(Word(d), Privilege(d)), Success)),
                      Confirm(f, d.warn, <<>>, AtPrincipal(f, admin_add_privileges(Word(d), Privilege(d)), Success)))
    BY <1>2, AskedHeeds, ChangesAsk2, Helps
  <2> QED
    BY <2>1, <2>2, <2>3
<1> HIDE DEF B, g
<1>3. Heeds(c.warn, B(Grouped(c, req, mod, g)), B(Grouped(e, req, mod, g)))
  BY <1>2, GroupedFurther
<1>4. e.line = c.line
  BY FurtherSame
<1> HIDE DEF req, mod
<1> QED
  BY <1>1, <1>3, <1>4, Commanded

(* manage acl revoke role: asks first when it warns; more answers only add *)
(* steps.                                                                  *)
LEMMA ManageACLRevokeRoleControllerHeeds ==
  ASSUME NEW c, NEW e, Further(c, e)
  PROVE  Heeds(c.warn, ManageACLRevokeRoleController(c), ManageACLRevokeRoleController(e))
<1> DEFINE req == {"line", "priv"}  mod == {"ns", "set"}
           g == parse_modifiers(c.line, req \union mod)
           B(d) == IF SetWithoutNamespace(d) THEN End(d, <<Tell("help"), Complain>>)
                   ELSE Confirm(d, d.warn, <<>>,
                     AtPrincipal(d, admin_delete_privileges(Word(d), Privilege(d)), Success))
<1>1. \A x : x.line = c.line =>
        ManageACLRevokeRoleController(x) = Commands_(x, req, mod, g, B(Grouped(x, req, mod, g)))
  BY DEF ManageACLRevokeRoleController, pre_command, WithGroups, Given, Commands_, PrivilegeChange
<1>2. ASSUME NEW d, NEW f, Further(d, f) PROVE Heeds(d.warn, B(d), B(f))
  <2>1. /\ Word(f) = Word(d) /\ Privilege(f) = Privilege(d) /\ f.warn = d.warn
        /\ SetWithoutNamespace(f) <=> SetWithoutNamespace(d)
    <3>1. Word(f) = Word(d) /\ f.warn = d.warn
      BY <1>2, WordSame, FurtherSame
    <3>2. /\ Has(f, "ns") = Has(d, "ns") /\ Has(f, "set") = Has(d, "set")
          /\ OneOf(f, "priv") = OneOf(d, "priv") /\ OneOf(f, "ns") = OneOf(d, "ns")
          /\ OneOf(f, "set") = OneOf(d, "set")
      BY <1>2, WordSame
    <3>3. Privilege(f) = Privilege(d)
      BY <3>2, Zenon DEF Privilege
    <3>4. SetWithoutNamespace(f) <=> SetWithoutNamespace(d)
      BY <3>2, Zenon DEF SetWithoutNamespace
    <3> QED
      BY <3>1, <3>3, <3>4
  <2>2. Heeds(d.warn, End(d, <<Tell("help"), Complain>>), End(f, <<Tell("help"), Complain>>))
    BY EndHeeds, Helps
  <2>3. Heeds(d.warn, Confirm(d, d.warn, <<>>,
          AtPrincipal(d, admin_delete_privileges(Word(d), Privilege(d)), Success)),
                      Confirm(f, d.warn, <<>>, AtPrincipal(f, admin_delete_privileges(Word(d), Privilege(d)),
                        Success)))
    BY <1>2, AskedHeeds, ChangesAsk2, Helps
  <2> QED
    BY <2>1, <2>2, <2>3
<1> HIDE DEF B, g
<1>3. Heeds(c.warn, B(Grouped(c, req, mod, g)), B(Grouped(e, req, mod, g)))
  BY <1>2, GroupedFurther
<1>4. e.line = c.line
  BY FurtherSame
<1> HIDE DEF req, mod
<1> QED
  BY <1>1, <1>3, <1>4, Commanded

(* A plan that heeds is well formed.                                       *)
LEMMA HeedsWell ==
  ASSUME NEW w, NEW p, NEW q, Heeds(w, p, q)
  PROVE  WellFormed(p) /\ WellFormed(q)
  BY DEF Heeds, Grown

(* A silent step before a plan leaves it heeding.                          *)
LEMMA FirstHeeds ==
  ASSUME NEW w, NEW p, NEW q, Heeds(w, p, q), NEW x, Silent(x)
  PROVE  Heeds(w, First(x, p), First(x, q))
  BY FirstSilent DEF Heeds

(* A question, or a plan that needs none, heeds a warning.                 *)
LEMMA ConfirmHeeds ==
  ASSUME NEW c, NEW e, NEW w, NEW asked, NEW about, NEW p, NEW q, Grown(p, q),
         w => asked \/ AskFirst(p)
  PROVE  Heeds(w, Confirm(c, asked, about, p), Confirm(e, asked, about, q))
  BY ConfirmGrown DEF Heeds

(* A read, and what depends on its answers: the plan heeds if what comes   *)
(* after does.                                                             *)
LEMMA ReadOn ==
  ASSUME NEW c, NEW e, Further(c, e), NEW ms, Methods(ms),
         \A n \in DOMAIN ms : ReadsOnlyOf(ms[n]), NEW p, NEW q,
         c.seen # <<>> /\ Further(Rest(c), Rest(e)) /\ Head(e.seen) = Head(c.seen)
           /\ Rest(c).warn = c.warn /\ Rest(c).nodes = c.nodes
           => Heeds(c.warn, p, q),
         e.seen # <<>> /\ Further(Rest(e), Rest(e)) => WellFormed(q)
  PROVE  Heeds(c.warn, CallPlan(c, Each(ms), p), CallPlan(e, Each(ms), q))
<1>1. c.seen # <<>> => Heeds(c.warn, p, q)
  BY FurtherRest, RestKeeps, GoodContexts
<1>2. e.seen # <<>> => WellFormed(q)
  BY GoodContexts, GoodRest, FurtherRefl
<1>3. WellAsked(Each(ms)) /\ ~Sends(CallStep(Each(ms)))
  BY EachAsked
<1>4. CASE c.warn
  <2>1. c.seen # <<>> => Grown(p, q) /\ AskFirst(p)
    BY <1>1, <1>4 DEF Heeds
  <2> QED
    BY <2>1, <1>2, <1>3, CallGrown DEF Heeds
<1>5. CASE ~c.warn
  <2>1. c.seen # <<>> => Grown(p, q)
    BY <1>1 DEF Heeds
  <2> QED
    BY <1>5, <2>1, <1>2, <1>3, CallGrown DEF Heeds
<1> QED
  BY <1>4, <1>5

(* A method that only reads, at the principal, only reads.                 *)
LEMMA OneRead ==
  ASSUME NEW m, Reading(m)
  PROVE  LET ms == [n \in {Principal} |-> m] IN Methods(ms) /\ \A n \in DOMAIN ms : ReadsOnlyOf(ms[n])
  BY PrincipalAsked, ReadingReads

(* manage acl allow list role: asks first when it warns; more answers only *)
(* add steps.                                                              *)
LEMMA ManageACLAllowListRoleControllerHeeds ==
  ASSUME NEW c, NEW e, Further(c, e)
  PROVE  Heeds(c.warn, ManageACLAllowListRoleController(c), ManageACLAllowListRoleController(e))
<1> DEFINE req == {"role"}  mod == {"clear", "allow"}
           g == parse_modifiers(c.line, req \union mod)
           T(d) == get_arg_and_delete_from_mods(d, "role", {"role"})
           U(x) == check_arg_and_delete_from_mods(x, "clear", x.keys)
           R(x, y) == IF check_arg(x, "clear") THEN admin_delete_whitelist(x.args["role"])
                      ELSE admin_set_whitelist(x.args["role"], Mod(y, "allow"))
           C(x, y) == IF ~check_arg(x, "clear") /\ ~Has(y, "allow") THEN End(y, <<Tell("help"), Complain>>)
                      ELSE Confirm(y, y.warn, <<>>, AtPrincipal(y, R(x, y), Success))
           B(d) == C(T(d), U(T(d)))
<1>1. \A x : x.line = c.line =>
        ManageACLAllowListRoleController(x) = Commands_(x, req, mod, g, B(Grouped(x, req, mod, g)))
  BY DEF ManageACLAllowListRoleController, pre_command, WithGroups, Given, Commands_
<1>2. ASSUME NEW d, NEW f, Further(d, f) PROVE Heeds(d.warn, B(d), B(f))
  <2>1. Further(T(d), T(f)) /\ T(d).warn = d.warn /\ T(f).warn = d.warn
    BY <1>2, GotFurther
  <2> HIDE DEF T
  <2>2. Further(U(T(d)), U(T(f))) /\ U(T(d)).warn = d.warn /\ U(T(f)).warn = d.warn
    BY <2>1, DroppedFurther, FurtherSame
  <2> HIDE DEF U
  <2>3. ASSUME NEW x, NEW y, NEW u, NEW v, Further(x, u), Further(y, v), y.warn = d.warn
        PROVE  Heeds(d.warn, C(x, y), C(u, v))
    <3>1. /\ check_arg(u, "clear") <=> check_arg(x, "clear")
          /\ Has(v, "allow") = Has(y, "allow") /\ v.warn = d.warn
          /\ R(u, v) = R(x, y) /\ IsSeq(R(x, y))
      BY <2>3, WordSame, FurtherSame, ChangesAsk2 DEF check_arg
    <3> HIDE DEF R
    <3>2. Heeds(d.warn, End(y, <<Tell("help"), Complain>>), End(v, <<Tell("help"), Complain>>))
      BY EndHeeds, Helps
    <3>3. Heeds(d.warn, Confirm(y, d.warn, <<>>, AtPrincipal(y, R(x, y), Success)),
                        Confirm(v, d.warn, <<>>, AtPrincipal(v, R(x, y), Success)))
      BY <2>3, <3>1, AskedHeeds, Helps
    <3> QED
      BY <2>3, <3>1, <3>2, <3>3
  <2> QED
    BY <2>1, <2>2, <2>3
<1> HIDE DEF B, g
<1>3. Heeds(c.warn, B(Grouped(c, req, mod, g)), B(Grouped(e, req, mod, g)))
  BY <1>2, GroupedFurther
<1>4. e.line = c.line
  BY FurtherSame
<1> HIDE DEF req, mod
<1> QED
  BY <1>1, <1>3, <1>4, Commanded

(* manage acl create role: asks first when it warns; more answers only add *)
(* steps.                                                                  *)
LEMMA ManageACLCreateRoleControllerHeeds ==
  ASSUME NEW c, NEW e, Further(c, e)
  PROVE  Heeds(c.warn, ManageACLCreateRoleController(c), ManageACLCreateRoleController(e))
<1> DEFINE req == {"line", "priv"}  mod == {"ns", "set", "allow", "read", "write"}
           g == parse_modifiers_of(c.line, req \union mod, "priv")
           C(d) == IF ~WholeNumbers(<<OneOf(d, "read"), OneOf(d, "write")>>) \/ SetWithoutNamespace(d)
                   THEN End(d, <<Complain>>)
                   ELSE Confirm(d, d.warn, <<>>, AtPrincipal(d, admin_create_role(Word(d)), Success))
           A(d, a) == IF Firsts(a)[Principal].came # "ok" THEN End(d, <<Raise>>)
                      ELSE IF AtLeast(Principal, SERVER_QUOTAS_FIRST_VERSION) THEN C(d) ELSE First(Warn, C(d))
           ms == [n \in {Principal} |-> info_build]
           B(d) == IF ~Has(d, "read") /\ ~Has(d, "write") THEN C(d)
                   ELSE CallPlan(d, Each(ms), A(Rest(d), Head(d.seen)))
           B0(d) == IF ~Has(d, "read") /\ ~Has(d, "write") THEN C(d)
                    ELSE _supports_quotas(d, LAMBDA x, supported :
                           IF supported THEN C(x) ELSE First(Warn, C(x)))
<1>7. \A x : x.line = c.line =>
        ManageACLCreateRoleController(x) = Commands_(x, req, mod, g, B0(Grouped(x, req, mod, g)))
  <2>1. ASSUME NEW x, x.line = c.line
        PROVE  ManageACLCreateRoleController(x) = WithGroups(x, req, mod, g, B0)
    BY <2>1 DEF ManageACLCreateRoleController
  <2> HIDE DEF B0, g, req, mod
  <2>2. \A x : WithGroups(x, req, mod, g, B0) = Commands_(x, req, mod, g, B0(Grouped(x, req, mod, g)))
    BY DEF WithGroups, Given, Commands_
  <2> QED
    BY <2>1, <2>2
<1>8. ASSUME NEW d PROVE B0(d) = B(d)
  <2> HIDE DEF C
  <2>1. _supports_quotas(d, LAMBDA x, supported : IF supported THEN C(x) ELSE First(Warn, C(x)))
          = CallPlan(d, Each(ms), A(Rest(d), Head(d.seen)))
    BY DEF _supports_quotas, Call, CallAll, CallPlan, Each, Firsts, Rest, Given
  <2> QED
    BY <2>1
<1>1. \A x : x.line = c.line =>
        ManageACLCreateRoleController(x) = Commands_(x, req, mod, g, B(Grouped(x, req, mod, g)))
  <2> HIDE DEF B0, B, g, req, mod
  <2> QED
    BY <1>7, <1>8
<1>2. ASSUME NEW d, NEW f, Further(d, f) PROVE Heeds(d.warn, C(d), C(f))
  <2>1. /\ Word(f) = Word(d) /\ f.warn = d.warn
        /\ SetWithoutNamespace(f) <=> SetWithoutNamespace(d)
        /\ OneOf(f, "read") = OneOf(d, "read") /\ OneOf(f, "write") = OneOf(d, "write")
    BY <1>2, WordSame, FurtherSame DEF SetWithoutNamespace
  <2>2. Heeds(d.warn, End(d, <<Complain>>), End(f, <<Complain>>))
    BY EndHeeds, Helps
  <2>3. Heeds(d.warn, Confirm(d, d.warn, <<>>, AtPrincipal(d, admin_create_role(Word(d)), Success)),
                      Confirm(f, d.warn, <<>>, AtPrincipal(f, admin_create_role(Word(d)), Success)))
    BY <1>2, AskedHeeds, ChangesAsk2, Helps
  <2> QED
    BY <2>1, <2>2, <2>3
<1> HIDE DEF C
<1>3. ASSUME NEW d, NEW f, NEW a, Further(d, f) PROVE Heeds(d.warn, A(d, a), A(f, a))
  BY <1>2, <1>3, EndHeeds, FirstHeeds, Helps
<1> HIDE DEF A
<1>5. ASSUME NEW d, NEW f, Further(d, f) PROVE Heeds(d.warn, B(d), B(f))
  <2>1. Has(f, "read") = Has(d, "read") /\ Has(f, "write") = Has(d, "write")
    BY <1>5, WordSame
  <2>2. Methods(ms) /\ \A n \in DOMAIN ms : ReadsOnlyOf(ms[n])
    BY OneRead, ReadsSimple
  <2> HIDE DEF ms
  <2>3. f.seen # <<>> /\ Further(Rest(f), Rest(f)) => WellFormed(A(Rest(f), Head(f.seen)))
    BY <1>3, HeedsWell
  <2>5. d.seen # <<>> /\ Further(Rest(d), Rest(f)) /\ Head(f.seen) = Head(d.seen)
        /\ Rest(d).warn = d.warn /\ Rest(d).nodes = d.nodes
          => Heeds(d.warn, A(Rest(d), Head(d.seen)), A(Rest(f), Head(f.seen)))
    <3> SUFFICES ASSUME Further(Rest(d), Rest(f)), Head(f.seen) = Head(d.seen), Rest(d).warn = d.warn
                 PROVE  Heeds(d.warn, A(Rest(d), Head(d.seen)), A(Rest(f), Head(f.seen)))
      OBVIOUS
    <3>1. Heeds(Rest(d).warn, A(Rest(d), Head(d.seen)), A(Rest(f), Head(d.seen)))
      BY <1>3
    <3> QED
      BY <3>1
  <2>4. Heeds(d.warn, CallPlan(d, Each(ms), A(Rest(d), Head(d.seen))),
                      CallPlan(f, Each(ms), A(Rest(f), Head(f.seen))))
    BY <1>5, <2>2, <2>3, <2>5, ReadOn
  <2> QED
    BY <1>2, <1>5, <2>1, <2>4
<1> HIDE DEF B, g
<1>6. Heeds(c.warn, B(Grouped(c, req, mod, g)), B(Grouped(e, req, mod, g)))
  BY <1>5, GroupedFurther
<1>4. e.line = c.line
  BY FurtherSame
<1> HIDE DEF req, mod
<1> QED
  BY <1>1, <1>6, <1>4, Commanded

(* A read of some nodes that may be none.                                  *)
ReadPlan(c, nodes, ms, p) == IF nodes = {} THEN End(c, <<Raise>>) ELSE CallPlan(c, Each(ms), p)

(* A read at some nodes, and what depends on its answers.                  *)
LEMMA ReadOnAt ==
  ASSUME NEW c, NEW e, Further(c, e), NEW nodes, nodes \subseteq Node, NEW ms, DOMAIN ms = nodes,
         \A n \in DOMAIN ms : Reading(ms[n]), NEW p, NEW q,
         c.seen # <<>> /\ Further(Rest(c), Rest(e)) /\ Head(e.seen) = Head(c.seen)
           /\ Rest(c).warn = c.warn /\ Rest(c).nodes = c.nodes
           => Heeds(c.warn, p, q),
         e.seen # <<>> /\ Further(Rest(e), Rest(e)) => WellFormed(q)
  PROVE  Heeds(c.warn, ReadPlan(c, nodes, ms, p), ReadPlan(e, nodes, ms, q))
<1>1. CASE nodes = {}
  BY <1>1, EndHeeds, Helps DEF ReadPlan
<1>2. CASE nodes # {}
  <2>1. Methods(ms) /\ \A n \in DOMAIN ms : ReadsOnlyOf(ms[n])
    BY ReadingReads DEF Methods
  <2>2. Heeds(c.warn, CallPlan(c, Each(ms), p), CallPlan(e, Each(ms), q))
    BY <2>1, ReadOn
  <2> QED
    BY <1>2, <2>2 DEF ReadPlan
<1> QED
  BY <1>1, <1>2

(* A change at the principal that raises when it fails, asked about when   *)
(* it is to be.                                                            *)
LEMMA AskedOrRaiseHeeds ==
  ASSUME NEW c, NEW e, Further(c, e), NEW asked, NEW about, NEW request, IsSeq(request)
  PROVE  Heeds(asked, Confirm(c, asked, about, AtPrincipalOrRaise(c, request)),
                      Confirm(e, asked, about, AtPrincipalOrRaise(e, request)))
<1> DEFINE p == AtPrincipalOrRaise(c, request)  q == AtPrincipalOrRaise(e, request)
<1>1. Grown(p, q)
  BY AtPrincipalOrRaiseGrown
<1> HIDE DEF p, q
<1>2. Heeds(asked, Confirm(c, asked, about, p), Confirm(e, asked, about, q))
  BY <1>1, ConfirmGrown DEF Heeds
<1> QED
  BY <1>2 DEF p, q

(* A change at the nodes of a command, asked about when it is to be.       *)
LEMMA AskedNodesHeeds ==
  ASSUME NEW c, NEW e, Further(c, e), NEW asked, NEW about, NEW requests,
         NEW hint, SilentSteps(hint),
         DOMAIN requests = c.nodes, \A n \in c.nodes : IsSeq(requests[n])
  PROVE  Heeds(asked, Confirm(c, asked, about, AtNodes(c, requests, hint)),
                      Confirm(e, asked, about, AtNodes(e, requests, hint)))
<1> DEFINE p == AtNodes(c, requests, hint)  q == AtNodes(e, requests, hint)
<1>1. Grown(p, q)
  BY AtNodesGrown
<1> HIDE DEF p, q
<1>2. Heeds(asked, Confirm(c, asked, about, p), Confirm(e, asked, about, q))
  BY <1>1, ConfirmGrown DEF Heeds
<1> QED
  BY <1>2 DEF p, q

(* manage acl quotas role: asks first when it warns; more answers only add *)
(* steps.                                                                  *)
LEMMA ManageACLQuotasRoleControllerHeeds ==
  ASSUME NEW c, NEW e, Further(c, e)
  PROVE  Heeds(c.warn, ManageACLQuotasRoleController(c), ManageACLQuotasRoleController(e))
<1> DEFINE req == {"role"}  mod == {"read", "write"}
           g == parse_modifiers_of(c.line, req \union mod, "role")
           T(d) == get_arg_and_delete_from_mods(d, "role", req)
           U(d) == Taking(d, <<"read", "write">>, mod)
           S(d) == IF \/ <<d.args["read"], d.args["write"]>> = <<"", "">>
                      \/ ~WholeNumbers(<<d.args["read"], d.args["write"]>>) THEN End(d, <<Complain>>)
                   ELSE Confirm(d, d.warn, <<>>, AtPrincipal(d,
                          admin_set_quotas(d.args["role"], <<d.args["read"], d.args["write"]>>), Success))
           C(d) == S(U(T(d)))
           A(d, a) == IF Firsts(a)[Principal].came # "ok" THEN End(d, <<Raise>>)
                      ELSE IF AtLeast(Principal, SERVER_QUOTAS_FIRST_VERSION) THEN C(d) ELSE End(d, <<Complain>>)
           ms == [n \in {Principal} |-> info_build]
           B(d) == CallPlan(d, Each(ms), A(Rest(d), Head(d.seen)))
           C0(d) == Given(get_arg_and_delete_from_mods(d, "role", req), LAMBDA x :
                      Given(Taking(x, <<"read", "write">>, mod), S))
           B0(d) == _supports_quotas(d, LAMBDA x, supported :
                      IF supported THEN C0(x) ELSE End(x, <<Complain>>))
<1>3. \A x : x.line = c.line =>
        ManageACLQuotasRoleController(x) = Commands_(x, req, mod, g, B0(Grouped(x, req, mod, g)))
  BY DEF ManageACLQuotasRoleController, WithGroups, Given, Commands_
<1>4. ASSUME NEW d PROVE B0(d) = B(d)
  <2>1. \A x : C0(x) = C(x)
    BY DEF Given
  <2>2. B0(d) = CallPlan(d, Each(ms), IF Firsts(Head(d.seen))[Principal].came # "ok" THEN End(Rest(d), <<Raise>>)
                 ELSE IF AtLeast(Principal, SERVER_QUOTAS_FIRST_VERSION) THEN C0(Rest(d))
                   ELSE End(Rest(d), <<Complain>>))
    <3> HIDE DEF C0
    <3> QED
      BY DEF _supports_quotas, Call, CallAll, CallPlan, Each, Firsts, Rest, Given
  <2> HIDE DEF C0, C, B0
  <2> QED
    BY <2>1, <2>2
<1>1. \A x : x.line = c.line =>
        ManageACLQuotasRoleController(x) = Commands_(x, req, mod, g, B(Grouped(x, req, mod, g)))
  <2> HIDE DEF B0, B, g, req, mod
  <2> QED
    BY <1>3, <1>4
<1>5. ASSUME NEW d, NEW f, Further(d, f) PROVE Heeds(d.warn, S(d), S(f))
  <2>1. f.args = d.args /\ f.warn = d.warn
    BY <1>5, FurtherSame
  <2> DEFINE r == admin_set_quotas(d.args["role"], <<d.args["read"], d.args["write"]>>)
  <2>2. Heeds(d.warn, End(d, <<Complain>>), End(f, <<Complain>>))
    BY EndHeeds, Helps
  <2>3. Heeds(d.warn, Confirm(d, d.warn, <<>>, AtPrincipal(d, r, Success)),
                      Confirm(f, d.warn, <<>>, AtPrincipal(f, r, Success)))
    BY <1>5, AskedHeeds, ChangesAsk2, Helps
  <2> QED
    BY <2>1, <2>2, <2>3
<1> HIDE DEF S
<1>6. ASSUME NEW d, NEW f, Further(d, f) PROVE Heeds(d.warn, C(d), C(f))
  <2>1. Further(T(d), T(f)) /\ T(d).warn = d.warn
    BY <1>6, GotFurther
  <2> HIDE DEF T
  <2>2. Further(U(T(d)), U(T(f))) /\ U(T(d)).warn = d.warn
    BY <2>1, TakingFurther
  <2> HIDE DEF U
  <2> QED
    BY <2>2, <1>5
<1> HIDE DEF C
<1>7. ASSUME NEW d, NEW f, NEW a, Further(d, f) PROVE Heeds(d.warn, A(d, a), A(f, a))
  BY <1>6, <1>7, EndHeeds, Helps
<1> HIDE DEF A
<1>2. ASSUME NEW d, NEW f, Further(d, f) PROVE Heeds(d.warn, B(d), B(f))
  <2>2. Methods(ms) /\ \A n \in DOMAIN ms : ReadsOnlyOf(ms[n])
    BY OneRead, ReadsSimple
  <2> HIDE DEF ms
  <2>3. f.seen # <<>> /\ Further(Rest(f), Rest(f)) => WellFormed(A(Rest(f), Head(f.seen)))
    BY <1>7, HeedsWell
  <2>5. d.seen # <<>> /\ Further(Rest(d), Rest(f)) /\ Head(f.seen) = Head(d.seen)
        /\ Rest(d).warn = d.warn /\ Rest(d).nodes = d.nodes
          => Heeds(d.warn, A(Rest(d), Head(d.seen)), A(Rest(f), Head(f.seen)))
    BY <1>7
  <2> QED
    BY <1>2, <2>2, <2>3, <2>5, ReadOn
<1> HIDE DEF B, g
<1>8. Heeds(c.warn, B(Grouped(c, req, mod, g)), B(Grouped(e, req, mod, g)))
  BY <1>2, GroupedFurther
<1>9. e.line = c.line
  BY FurtherSame
<1> HIDE DEF req, mod
<1> QED
  BY <1>1, <1>8, <1>9, Commanded

(* manage udfs add: asks first when it warns; more answers only add steps. *)
LEMMA ManageUdfsAddControllerHeeds ==
  ASSUME NEW c, NEW e, Further(c, e)
  PROVE  Heeds(c.warn, ManageUdfsAddController(c), ManageUdfsAddController(e))
<1> DEFINE req == {"line", "path"}  mod == {}
           g == parse_modifiers(c.line, req \union mod)
           P(d) == AtPrincipal(d, info_udf_put(Word(d)), Success)
           A(d, a, r) == IF Firsts(a)[Principal].came # "ok" THEN End(d, <<Raise>>)
                         ELSE Confirm(d, Contains(LastVal(Firsts(a), Principal), r), <<>>,
                           AtPrincipal(d, info_udf_put(r), Success))
           ms == [n \in {Principal} |-> info_udf_list]
           B(d) == IF OneOf(d, "path") \notin UdfFiles THEN End(d, <<Complain>>)
                   ELSE IF ~d.warn THEN P(d)
                   ELSE CallPlan(d, Each(ms), A(Rest(d), Head(d.seen), Word(d)))
           C(d) == Call(d, {Principal}, LAMBDA n : info_udf_list, LAMBDA x, answers :
                     IF answers[Principal].came # "ok" THEN End(x, <<Raise>>)
                     ELSE Confirm(x, Contains(LastVal(answers, Principal), Word(d)), <<>>,
                                  AtPrincipal(x, info_udf_put(Word(d)), Success)))
           B0(d) == IF OneOf(d, "path") \notin UdfFiles THEN End(d, <<Complain>>)
                    ELSE IF ~d.warn THEN P(d) ELSE C(d)
           G(x) == parse_modifiers(x.line, req \union mod)
<1>3. ASSUME NEW x
      PROVE  ManageUdfsAddController(x) = Commands_(x, req, mod, G(x), B0(Grouped(x, req, mod, G(x))))
  <2>1. ManageUdfsAddController(x) = pre_command(x, req, mod, B0)
    BY DEF ManageUdfsAddController
  <2> HIDE DEF B0
  <2> QED
    BY <2>1 DEF pre_command, WithGroups, Given, Commands_
<1>4. ASSUME NEW d PROVE B0(d) = B(d)
  <2>1. C(d) = CallPlan(d, Each(ms), A(Rest(d), Head(d.seen), Word(d)))
    BY DEF Call, CallAll, CallPlan, Each, Firsts, Rest, Given
  <2> HIDE DEF C
  <2> QED
    BY <2>1
<1>1. \A x : x.line = c.line =>
        ManageUdfsAddController(x) = Commands_(x, req, mod, g, B(Grouped(x, req, mod, g)))
  <2>1. \A x : x.line = c.line => G(x) = g
    OBVIOUS
  <2> HIDE DEF B0, B, G, g, req, mod
  <2> QED
    BY <1>3, <1>4, <2>1
<1>5. ASSUME NEW d, NEW f, Further(d, f), NEW r
      PROVE  Heeds(d.warn, AtPrincipal(d, info_udf_put(r), Success), AtPrincipal(f, info_udf_put(r), Success))
  <2>1. ReadsOnlyOf(info_udf_put(r))
    <3> DEFINE q == InfoChange("adds", "udf-put", <<"udf">>, <<r>>)
    <3>1. q.cmd = "udf-put"
      BY DEF InfoChange, Info
    <3> HIDE DEF q
    <3>2. info_udf_put(r) = <<q>>
      BY DEF info_udf_put, q
    <3>3. ~Wants(q)
      BY <3>1 DEF Wants
    <3> QED
      BY <3>2, <3>3, SeqOne DEF ReadsOnlyOf
  <2> QED
    BY <1>5, <2>1, AtPrincipalGrown, ChangesAsk1, Helps DEF Heeds
<1>7. ASSUME NEW d, NEW f, NEW a, NEW r, Further(d, f) PROVE Heeds(d.warn, A(d, a, r), A(f, a, r))
  <2> DEFINE asked == Contains(LastVal(Firsts(a), Principal), r)
             p == AtPrincipal(d, info_udf_put(r), Success)  q == AtPrincipal(f, info_udf_put(r), Success)
  <2>1. Heeds(d.warn, p, q)
    BY <1>5, <1>7
  <2> HIDE DEF asked, p, q
  <2>2. Heeds(d.warn, Confirm(d, asked, <<>>, p), Confirm(f, asked, <<>>, q))
    BY <2>1, ConfirmHeeds DEF Heeds
  <2>3. Heeds(d.warn, End(d, <<Raise>>), End(f, <<Raise>>))
    BY EndHeeds, Helps
  <2> QED
    BY <2>2, <2>3 DEF asked, p, q
<1> HIDE DEF A
<1>2. ASSUME NEW d, NEW f, Further(d, f) PROVE Heeds(d.warn, B(d), B(f))
  <2>2. Methods(ms) /\ \A n \in DOMAIN ms : ReadsOnlyOf(ms[n])
    BY OneRead, ReadsSimple
  <2> HIDE DEF ms
  <2>6. OneOf(f, "path") = OneOf(d, "path") /\ f.warn = d.warn /\ Word(f) = Word(d)
    BY <1>2, WordSame, FurtherSame
  <2> DEFINE r == Word(d)
  <2> HIDE DEF r
  <2>3. f.seen # <<>> /\ Further(Rest(f), Rest(f)) => WellFormed(A(Rest(f), Head(f.seen), r))
    BY <1>7, HeedsWell
  <2>5. d.seen # <<>> /\ Further(Rest(d), Rest(f)) /\ Head(f.seen) = Head(d.seen)
        /\ Rest(d).warn = d.warn /\ Rest(d).nodes = d.nodes
          => Heeds(d.warn, A(Rest(d), Head(d.seen), r), A(Rest(f), Head(f.seen), r))
    BY <1>7
  <2>7. Heeds(d.warn, CallPlan(d, Each(ms), A(Rest(d), Head(d.seen), r)),
          CallPlan(f, Each(ms), A(Rest(f), Head(f.seen), r)))
    BY <1>2, <2>2, <2>3, <2>5, ReadOn
  <2>8. Heeds(d.warn, P(d), P(f))
    BY <1>2, <1>5, <2>6
  <2>9. Heeds(d.warn, End(d, <<Complain>>), End(f, <<Complain>>))
    BY EndHeeds, Helps
  <2> HIDE DEF P
  <2> QED
    BY <2>6, <2>7, <2>8, <2>9 DEF r
<1> HIDE DEF B, g
<1>8. Heeds(c.warn, B(Grouped(c, req, mod, g)), B(Grouped(e, req, mod, g)))
  BY <1>2, GroupedFurther
<1>9. e.line = c.line
  BY FurtherSame
<1> HIDE DEF req, mod
<1> QED
  BY <1>1, <1>8, <1>9, Commanded

-----------------------------------------------------------------------------
(* Commands that change the configuration.                                 *)

(* A parameter is changed at the nodes of the command, after a question if *)
(* the context warns.                                                      *)
LEMMA ChangedAtNodes ==
  ASSUME NEW c, NEW e, Further(c, e), NEW r, DOMAIN r = c.nodes, \A n \in c.nodes : IsSeq(r[n]),
         NEW s, s = r, NEW hint, SilentSteps(hint)
  PROVE  Heeds(c.warn, Confirm(c, c.warn, SetToSeq(c.nodes), AtNodes(c, r, hint)),
                       Confirm(e, e.warn, SetToSeq(e.nodes), AtNodes(e, s, hint)))
<1>1. e.warn = c.warn /\ e.nodes = c.nodes
  BY FurtherSame
<1> DEFINE about == SetToSeq(c.nodes)
<1> HIDE DEF about
<1>2. Heeds(c.warn, Confirm(c, c.warn, about, AtNodes(c, r, hint)), Confirm(e, c.warn, about, AtNodes(e, r, hint)))
  BY AskedNodesHeeds
<1> QED
  BY <1>1, <1>2 DEF about

(* manage config logging: asks first when it warns; more answers only add  *)
(* steps.                                                                  *)
LEMMA ManageConfigLoggingControllerHeeds ==
  ASSUME NEW c, NEW e, Further(c, e)
  PROVE  Heeds(c.warn, ManageConfigLoggingController(c), ManageConfigLoggingController(e))
<1> DEFINE req == ParamTo \union {"file"}  ex == {}  mod == {"with"} \union ex
           g == parse_modifiers(c.line, req \union mod)
           H(x) == <<>>
           R(x, n) == info_set_config_logging(Param(x), Value(x))
           Q(x, h) == Confirm(x, x.warn, SetToSeq(x.nodes), AtNodes(x, [n \in x.nodes |-> R(x, n)], h))
           T(x) == Taking(x, SetToSeq(req \union ex), req)
           B0(x, h) == Given(T(x), LAMBDA y : Q(y, h))
           B(x) == Q(T(x), H(c))
<1>1. ASSUME NEW x, x.line = c.line
      PROVE  ManageConfigLoggingController(x) = Commands_(x, req, mod, g, B(Grouped(x, req, mod, g)))
  <2>1. ManageConfigLoggingController(x) = pre_command(x, req, mod, LAMBDA d : B0(d, H(x)))
    BY DEF ManageConfigLoggingController, ConfigLeaf
  <2>2. \A d, h : B0(d, h) = Q(T(d), h)
    BY DEF Given
  <2>3. H(x) = H(c)
    BY <1>1
  <2> HIDE DEF B0, Q, T, H
  <2>4. ManageConfigLoggingController(x) = Commands_(x, req, mod, g, B0(Grouped(x, req, mod, g), H(x)))
    BY <2>1, <1>1 DEF pre_command, WithGroups, Given, Commands_
  <2> QED
    BY <2>2, <2>3, <2>4
<1>2. ASSUME NEW d, NEW f, Further(d, f) PROVE Heeds(d.warn, B(d), B(f))
  <2>1. Further(T(d), T(f)) /\ T(d).warn = d.warn
    BY <1>2, TakingFurther
  <2>2. SilentSteps(H(c))
    BY Helps
  <2> HIDE DEF T, H
  <2>3. ASSUME NEW x, NEW y, NEW h, Further(x, y), SilentSteps(h) PROVE Heeds(x.warn, Q(x, h), Q(y, h))
    <3>1. y.nodes = x.nodes /\ \A n : R(y, n) = R(x, n)
      BY <2>3, WordSame, FurtherSame DEF Param, Value, Subcontext
    <3>2. \A n : IsSeq(R(x, n))
      BY ChangesAsk1, ChangesAsk2, ChangesAsk3
    <3> HIDE DEF R
    <3>3. [n \in y.nodes |-> R(y, n)] = [n \in x.nodes |-> R(x, n)]
      BY <3>1
    <3> QED
      BY <2>3, <3>2, <3>3, ChangedAtNodes
  <2> HIDE DEF Q
  <2> QED
    BY <2>1, <2>2, <2>3
<1> HIDE DEF B, g
<1>8. Heeds(c.warn, B(Grouped(c, req, mod, g)), B(Grouped(e, req, mod, g)))
  BY <1>2, GroupedFurther
<1>9. e.line = c.line
  BY FurtherSame
<1> HIDE DEF req, mod
<1> QED
  BY <1>1, <1>8, <1>9, Commanded

(* manage config service: asks first when it warns; more answers only add  *)
(* steps.                                                                  *)
LEMMA ManageConfigServiceControllerHeeds ==
  ASSUME NEW c, NEW e, Further(c, e)
  PROVE  Heeds(c.warn, ManageConfigServiceController(c), ManageConfigServiceController(e))
<1> DEFINE req == ParamTo  ex == {}  mod == {"with"} \union ex
           g == parse_modifiers(c.line, req \union mod)
           H(x) == IF fetch_argument(x.line, "param", "") = "cluster-name" THEN Recluster ELSE <<>>
           R(x, n) == info_set_config_service(Param(x), Value(x))
           Q(x, h) == Confirm(x, x.warn, SetToSeq(x.nodes), AtNodes(x, [n \in x.nodes |-> R(x, n)], h))
           T(x) == Taking(x, SetToSeq(req \union ex), req)
           B0(x, h) == Given(T(x), LAMBDA y : Q(y, h))
           B(x) == Q(T(x), H(c))
<1>1. ASSUME NEW x, x.line = c.line
      PROVE  ManageConfigServiceController(x) = Commands_(x, req, mod, g, B(Grouped(x, req, mod, g)))
  <2>1. ManageConfigServiceController(x) = pre_command(x, req, mod, LAMBDA d : B0(d, H(x)))
    BY DEF ManageConfigServiceController, ConfigLeaf
  <2>2. \A d, h : B0(d, h) = Q(T(d), h)
    BY DEF Given
  <2>3. H(x) = H(c)
    BY <1>1
  <2> HIDE DEF B0, Q, T, H
  <2>4. ManageConfigServiceController(x) = Commands_(x, req, mod, g, B0(Grouped(x, req, mod, g), H(x)))
    BY <2>1, <1>1 DEF pre_command, WithGroups, Given, Commands_
  <2> QED
    BY <2>2, <2>3, <2>4
<1>2. ASSUME NEW d, NEW f, Further(d, f) PROVE Heeds(d.warn, B(d), B(f))
  <2>1. Further(T(d), T(f)) /\ T(d).warn = d.warn
    BY <1>2, TakingFurther
  <2>2. SilentSteps(H(c))
    BY Helps
  <2> HIDE DEF T, H
  <2>3. ASSUME NEW x, NEW y, NEW h, Further(x, y), SilentSteps(h) PROVE Heeds(x.warn, Q(x, h), Q(y, h))
    <3>1. y.nodes = x.nodes /\ \A n : R(y, n) = R(x, n)
      BY <2>3, WordSame, FurtherSame DEF Param, Value, Subcontext
    <3>2. \A n : IsSeq(R(x, n))
      BY ChangesAsk1, ChangesAsk2, ChangesAsk3
    <3> HIDE DEF R
    <3>3. [n \in y.nodes |-> R(y, n)] = [n \in x.nodes |-> R(x, n)]
      BY <3>1
    <3> QED
      BY <2>3, <3>2, <3>3, ChangedAtNodes
  <2> HIDE DEF Q
  <2> QED
    BY <2>1, <2>2, <2>3
<1> HIDE DEF B, g
<1>8. Heeds(c.warn, B(Grouped(c, req, mod, g)), B(Grouped(e, req, mod, g)))
  BY <1>2, GroupedFurther
<1>9. e.line = c.line
  BY FurtherSame
<1> HIDE DEF req, mod
<1> QED
  BY <1>1, <1>8, <1>9, Commanded

(* manage config security: asks first when it warns; more answers only add *)
(* steps.                                                                  *)
LEMMA ManageConfigSecurityControllerHeeds ==
  ASSUME NEW c, NEW e, Further(c, e)
  PROVE  Heeds(c.warn, ManageConfigSecurityController(c), ManageConfigSecurityController(e))
<1> DEFINE req == ParamTo  ex == {}  mod == {"with"} \union ex
           g == parse_modifiers(c.line, req \union mod)
           H(x) == <<>>
           R(x, n) == info_set_config_security(Subcontext(x) \o Param(x), Value(x))
           Q(x, h) == Confirm(x, x.warn, SetToSeq(x.nodes), AtNodes(x, [n \in x.nodes |-> R(x, n)], h))
           T(x) == Taking(x, SetToSeq(req \union ex), req)
           B0(x, h) == Given(T(x), LAMBDA y : Q(y, h))
           B(x) == Q(T(x), H(c))
<1>1. ASSUME NEW x, x.line = c.line
      PROVE  ManageConfigSecurityController(x) = Commands_(x, req, mod, g, B(Grouped(x, req, mod, g)))
  <2>1. ManageConfigSecurityController(x) = pre_command(x, req, mod, LAMBDA d : B0(d, H(x)))
    BY DEF ManageConfigSecurityController, ConfigLeaf
  <2>2. \A d, h : B0(d, h) = Q(T(d), h)
    BY DEF Given
  <2>3. H(x) = H(c)
    BY <1>1
  <2> HIDE DEF B0, Q, T, H
  <2>4. ManageConfigSecurityController(x) = Commands_(x, req, mod, g, B0(Grouped(x, req, mod, g), H(x)))
    BY <2>1, <1>1 DEF pre_command, WithGroups, Given, Commands_
  <2> QED
    BY <2>2, <2>3, <2>4
<1>2. ASSUME NEW d, NEW f, Further(d, f) PROVE Heeds(d.warn, B(d), B(f))
  <2>1. Further(T(d), T(f)) /\ T(d).warn = d.warn
    BY <1>2, TakingFurther
  <2>2. SilentSteps(H(c))
    BY Helps
  <2> HIDE DEF T, H
  <2>3. ASSUME NEW x, NEW y, NEW h, Further(x, y), SilentSteps(h) PROVE Heeds(x.warn, Q(x, h), Q(y, h))
    <3>1. y.nodes = x.nodes /\ \A n : R(y, n) = R(x, n)
      BY <2>3, WordSame, FurtherSame DEF Param, Value, Subcontext
    <3>2. \A n : IsSeq(R(x, n))
      BY ChangesAsk1, ChangesAsk2, ChangesAsk3
    <3> HIDE DEF R
    <3>3. [n \in y.nodes |-> R(y, n)] = [n \in x.nodes |-> R(x, n)]
      BY <3>1
    <3> QED
      BY <2>3, <3>2, <3>3, ChangedAtNodes
  <2> HIDE DEF Q
  <2> QED
    BY <2>1, <2>2, <2>3
<1> HIDE DEF B, g
<1>8. Heeds(c.warn, B(Grouped(c, req, mod, g)), B(Grouped(e, req, mod, g)))
  BY <1>2, GroupedFurther
<1>9. e.line = c.line
  BY FurtherSame
<1> HIDE DEF req, mod
<1> QED
  BY <1>1, <1>8, <1>9, Commanded

NamespaceSetLeaf(x) == ConfigLeaf(x, ParamTo, {}, LAMBDA e, n :
  info_set_config_namespace(OneOf(e, "namespace") \o " " \o OneOf(e, "set"), Param(e), Value(e)), <<>>)

(* manage config namespace ... set: asks first when it warns; more answers *)
(* only add steps.                                                         *)
LEMMA NamespaceSetLeafHeeds ==
  ASSUME NEW c, NEW e, Further(c, e)
  PROVE  Heeds(c.warn, NamespaceSetLeaf(c), NamespaceSetLeaf(e))
<1> DEFINE req == ParamTo  ex == {}  mod == {"with"} \union ex
           g == parse_modifiers(c.line, req \union mod)
           H(x) == <<>>
           R(x, n) == info_set_config_namespace(OneOf(x, "namespace") \o " " \o OneOf(x, "set"), Param(x), Value(x))
           Q(x, h) == Confirm(x, x.warn, SetToSeq(x.nodes), AtNodes(x, [n \in x.nodes |-> R(x, n)], h))
           T(x) == Taking(x, SetToSeq(req \union ex), req)
           B0(x, h) == Given(T(x), LAMBDA y : Q(y, h))
           B(x) == Q(T(x), H(c))
<1>1. ASSUME NEW x, x.line = c.line
      PROVE  NamespaceSetLeaf(x) = Commands_(x, req, mod, g, B(Grouped(x, req, mod, g)))
  <2>1. NamespaceSetLeaf(x) = pre_command(x, req, mod, LAMBDA d : B0(d, H(x)))
    BY DEF NamespaceSetLeaf, ConfigLeaf
  <2>2. \A d, h : B0(d, h) = Q(T(d), h)
    BY DEF Given
  <2>3. H(x) = H(c)
    BY <1>1
  <2> HIDE DEF B0, Q, T, H
  <2>4. NamespaceSetLeaf(x) = Commands_(x, req, mod, g, B0(Grouped(x, req, mod, g), H(x)))
    BY <2>1, <1>1 DEF pre_command, WithGroups, Given, Commands_
  <2> QED
    BY <2>2, <2>3, <2>4
<1>2. ASSUME NEW d, NEW f, Further(d, f) PROVE Heeds(d.warn, B(d), B(f))
  <2>1. Further(T(d), T(f)) /\ T(d).warn = d.warn
    BY <1>2, TakingFurther
  <2>2. SilentSteps(H(c))
    BY Helps
  <2> HIDE DEF T, H
  <2>3. ASSUME NEW x, NEW y, NEW h, Further(x, y), SilentSteps(h) PROVE Heeds(x.warn, Q(x, h), Q(y, h))
    <3>1. y.nodes = x.nodes /\ \A n : R(y, n) = R(x, n)
      BY <2>3, WordSame, FurtherSame DEF Param, Value, Subcontext
    <3>2. \A n : IsSeq(R(x, n))
      BY ChangesAsk1, ChangesAsk2, ChangesAsk3
    <3> HIDE DEF R
    <3>3. [n \in y.nodes |-> R(y, n)] = [n \in x.nodes |-> R(x, n)]
      BY <3>1
    <3> QED
      BY <2>3, <3>2, <3>3, ChangedAtNodes
  <2> HIDE DEF Q
  <2> QED
    BY <2>1, <2>2, <2>3
<1> HIDE DEF B, g
<1>8. Heeds(c.warn, B(Grouped(c, req, mod, g)), B(Grouped(e, req, mod, g)))
  BY <1>2, GroupedFurther
<1>9. e.line = c.line
  BY FurtherSame
<1> HIDE DEF req, mod
<1> QED
  BY <1>1, <1>8, <1>9, Commanded

NamespaceLeaf(x) == ConfigLeaf(x, ParamTo, {}, LAMBDA e, n :
  info_set_config_namespace(OneOf(e, "namespace"), Subcontext(e) \o Param(e), Value(e)),
  IF fetch_argument(x.line, "param", "") \in {"prefer-uniform-balance", "rack-id"} THEN Recluster ELSE <<>>)

(* manage config namespace: asks first when it warns; more answers only    *)
(* add steps.                                                              *)
LEMMA NamespaceLeafHeeds ==
  ASSUME NEW c, NEW e, Further(c, e)
  PROVE  Heeds(c.warn, NamespaceLeaf(c), NamespaceLeaf(e))
<1> DEFINE req == ParamTo  ex == {}  mod == {"with"} \union ex
           g == parse_modifiers(c.line, req \union mod)
           H(x) == IF fetch_argument(x.line, "param", "") \in {"prefer-uniform-balance", "rack-id"}
             THEN Recluster ELSE <<>>
           R(x, n) == info_set_config_namespace(OneOf(x, "namespace"), Subcontext(x) \o Param(x), Value(x))
           Q(x, h) == Confirm(x, x.warn, SetToSeq(x.nodes), AtNodes(x, [n \in x.nodes |-> R(x, n)], h))
           T(x) == Taking(x, SetToSeq(req \union ex), req)
           B0(x, h) == Given(T(x), LAMBDA y : Q(y, h))
           B(x) == Q(T(x), H(c))
<1>1. ASSUME NEW x, x.line = c.line
      PROVE  NamespaceLeaf(x) = Commands_(x, req, mod, g, B(Grouped(x, req, mod, g)))
  <2>1. NamespaceLeaf(x) = pre_command(x, req, mod, LAMBDA d : B0(d, H(x)))
    BY DEF NamespaceLeaf, ConfigLeaf
  <2>2. \A d, h : B0(d, h) = Q(T(d), h)
    BY DEF Given
  <2>3. H(x) = H(c)
    BY <1>1
  <2> HIDE DEF B0, Q, T, H
  <2>4. NamespaceLeaf(x) = Commands_(x, req, mod, g, B0(Grouped(x, req, mod, g), H(x)))
    BY <2>1, <1>1 DEF pre_command, WithGroups, Given, Commands_
  <2> QED
    BY <2>2, <2>3, <2>4
<1>2. ASSUME NEW d, NEW f, Further(d, f) PROVE Heeds(d.warn, B(d), B(f))
  <2>1. Further(T(d), T(f)) /\ T(d).warn = d.warn
    BY <1>2, TakingFurther
  <2>2. SilentSteps(H(c))
    BY Helps
  <2> HIDE DEF T, H
  <2>3. ASSUME NEW x, NEW y, NEW h, Further(x, y), SilentSteps(h) PROVE Heeds(x.warn, Q(x, h), Q(y, h))
    <3>1. y.nodes = x.nodes /\ \A n : R(y, n) = R(x, n)
      BY <2>3, WordSame, FurtherSame DEF Param, Value, Subcontext
    <3>2. \A n : IsSeq(R(x, n))
      BY ChangesAsk1, ChangesAsk2, ChangesAsk3
    <3> HIDE DEF R
    <3>3. [n \in y.nodes |-> R(y, n)] = [n \in x.nodes |-> R(x, n)]
      BY <3>1
    <3> QED
      BY <2>3, <3>2, <3>3, ChangedAtNodes
  <2> HIDE DEF Q
  <2> QED
    BY <2>1, <2>2, <2>3
<1> HIDE DEF B, g
<1>8. Heeds(c.warn, B(Grouped(c, req, mod, g)), B(Grouped(e, req, mod, g)))
  BY <1>2, GroupedFurther
<1>9. e.line = c.line
  BY FurtherSame
<1> HIDE DEF req, mod
<1> QED
  BY <1>1, <1>8, <1>9, Commanded

(* manage config xdr create: asks first when it warns; more answers only   *)
(* add steps.                                                              *)
LEMMA ManageConfigXDRCreateControllerHeeds ==
  ASSUME NEW c, NEW e, Further(c, e)
  PROVE  Heeds(c.warn, ManageConfigXDRCreateController(c), ManageConfigXDRCreateController(e))
<1> DEFINE req == {"dc"}  ex == {}  mod == {"with"} \union ex
           g == parse_modifiers(c.line, req \union mod)
           H(x) == <<>>
           R(x, n) == info_set_config_xdr_create_dc(n, x.args["dc"])
           Q(x, h) == Confirm(x, x.warn, SetToSeq(x.nodes), AtNodes(x, [n \in x.nodes |-> R(x, n)], h))
           T(x) == Taking(x, SetToSeq(req \union ex), req)
           B0(x, h) == Given(T(x), LAMBDA y : Q(y, h))
           B(x) == Q(T(x), H(c))
<1>1. ASSUME NEW x, x.line = c.line
      PROVE  ManageConfigXDRCreateController(x) = Commands_(x, req, mod, g, B(Grouped(x, req, mod, g)))
  <2>1. ManageConfigXDRCreateController(x) = pre_command(x, req, mod, LAMBDA d : B0(d, H(x)))
    BY DEF ManageConfigXDRCreateController, ConfigLeaf
  <2>2. \A d, h : B0(d, h) = Q(T(d), h)
    BY DEF Given
  <2>3. H(x) = H(c)
    BY <1>1
  <2> HIDE DEF B0, Q, T, H
  <2>4. ManageConfigXDRCreateController(x) = Commands_(x, req, mod, g, B0(Grouped(x, req, mod, g), H(x)))
    BY <2>1, <1>1 DEF pre_command, WithGroups, Given, Commands_
  <2> QED
    BY <2>2, <2>3, <2>4
<1>2. ASSUME NEW d, NEW f, Further(d, f) PROVE Heeds(d.warn, B(d), B(f))
  <2>1. Further(T(d), T(f)) /\ T(d).warn = d.warn
    BY <1>2, TakingFurther
  <2>2. SilentSteps(H(c))
    BY Helps
  <2> HIDE DEF T, H
  <2>3. ASSUME NEW x, NEW y, NEW h, Further(x, y), SilentSteps(h) PROVE Heeds(x.warn, Q(x, h), Q(y, h))
    <3>1. y.nodes = x.nodes /\ \A n : R(y, n) = R(x, n)
      BY <2>3, WordSame, FurtherSame DEF Param, Value, Subcontext
    <3>2. \A n : IsSeq(R(x, n))
      BY ChangesAsk1, ChangesAsk2, ChangesAsk3
    <3> HIDE DEF R
    <3>3. [n \in y.nodes |-> R(y, n)] = [n \in x.nodes |-> R(x, n)]
      BY <3>1
    <3> QED
      BY <2>3, <3>2, <3>3, ChangedAtNodes
  <2> HIDE DEF Q
  <2> QED
    BY <2>1, <2>2, <2>3
<1> HIDE DEF B, g
<1>8. Heeds(c.warn, B(Grouped(c, req, mod, g)), B(Grouped(e, req, mod, g)))
  BY <1>2, GroupedFurther
<1>9. e.line = c.line
  BY FurtherSame
<1> HIDE DEF req, mod
<1> QED
  BY <1>1, <1>8, <1>9, Commanded

(* manage config xdr delete: asks first when it warns; more answers only   *)
(* add steps.                                                              *)
LEMMA ManageConfigXDRDeleteControllerHeeds ==
  ASSUME NEW c, NEW e, Further(c, e)
  PROVE  Heeds(c.warn, ManageConfigXDRDeleteController(c), ManageConfigXDRDeleteController(e))
<1> DEFINE req == {"dc"}  ex == {}  mod == {"with"} \union ex
           g == parse_modifiers(c.line, req \union mod)
           H(x) == <<>>
           R(x, n) == info_set_config_xdr_delete_dc(n, x.args["dc"])
           Q(x, h) == Confirm(x, x.warn, SetToSeq(x.nodes), AtNodes(x, [n \in x.nodes |-> R(x, n)], h))
           T(x) == Taking(x, SetToSeq(req \union ex), req)
           B0(x, h) == Given(T(x), LAMBDA y : Q(y, h))
           B(x) == Q(T(x), H(c))
<1>1. ASSUME NEW x, x.line = c.line
      PROVE  ManageConfigXDRDeleteController(x) = Commands_(x, req, mod, g, B(Grouped(x, req, mod, g)))
  <2>1. ManageConfigXDRDeleteController(x) = pre_command(x, req, mod, LAMBDA d : B0(d, H(x)))
    BY DEF ManageConfigXDRDeleteController, ConfigLeaf
  <2>2. \A d, h : B0(d, h) = Q(T(d), h)
    BY DEF Given
  <2>3. H(x) = H(c)
    BY <1>1
  <2> HIDE DEF B0, Q, T, H
  <2>4. ManageConfigXDRDeleteController(x) = Commands_(x, req, mod, g, B0(Grouped(x, req, mod, g), H(x)))
    BY <2>1, <1>1 DEF pre_command, WithGroups, Given, Commands_
  <2> QED
    BY <2>2, <2>3, <2>4
<1>2. ASSUME NEW d, NEW f, Further(d, f) PROVE Heeds(d.warn, B(d), B(f))
  <2>1. Further(T(d), T(f)) /\ T(d).warn = d.warn
    BY <1>2, TakingFurther
  <2>2. SilentSteps(H(c))
    BY Helps
  <2> HIDE DEF T, H
  <2>3. ASSUME NEW x, NEW y, NEW h, Further(x, y), SilentSteps(h) PROVE Heeds(x.warn, Q(x, h), Q(y, h))
    <3>1. y.nodes = x.nodes /\ \A n : R(y, n) = R(x, n)
      BY <2>3, WordSame, FurtherSame DEF Param, Value, Subcontext
    <3>2. \A n : IsSeq(R(x, n))
      BY ChangesAsk1, ChangesAsk2, ChangesAsk3
    <3> HIDE DEF R
    <3>3. [n \in y.nodes |-> R(y, n)] = [n \in x.nodes |-> R(x, n)]
      BY <3>1
    <3> QED
      BY <2>3, <3>2, <3>3, ChangedAtNodes
  <2> HIDE DEF Q
  <2> QED
    BY <2>1, <2>2, <2>3
<1> HIDE DEF B, g
<1>8. Heeds(c.warn, B(Grouped(c, req, mod, g)), B(Grouped(e, req, mod, g)))
  BY <1>2, GroupedFurther
<1>9. e.line = c.line
  BY FurtherSame
<1> HIDE DEF req, mod
<1> QED
  BY <1>1, <1>8, <1>9, Commanded

AddNodeLeaf(x) == ConfigLeaf(x, {}, {}, LAMBDA e, n :
  info_set_config_xdr_add_node(n, OneOf(e, "dc"), OneOf(e, "node")), <<>>)

(* manage config xdr dc ... add node: asks first when it warns; more       *)
(* answers only add steps.                                                 *)
LEMMA AddNodeLeafHeeds ==
  ASSUME NEW c, NEW e, Further(c, e)
  PROVE  Heeds(c.warn, AddNodeLeaf(c), AddNodeLeaf(e))
<1> DEFINE req == {}  ex == {}  mod == {"with"} \union ex
           g == parse_modifiers(c.line, req \union mod)
           H(x) == <<>>
           R(x, n) == info_set_config_xdr_add_node(n, OneOf(x, "dc"), OneOf(x, "node"))
           Q(x, h) == Confirm(x, x.warn, SetToSeq(x.nodes), AtNodes(x, [n \in x.nodes |-> R(x, n)], h))
           T(x) == Taking(x, SetToSeq(req \union ex), req)
           B0(x, h) == Given(T(x), LAMBDA y : Q(y, h))
           B(x) == Q(T(x), H(c))
<1>1. ASSUME NEW x, x.line = c.line
      PROVE  AddNodeLeaf(x) = Commands_(x, req, mod, g, B(Grouped(x, req, mod, g)))
  <2>1. AddNodeLeaf(x) = pre_command(x, req, mod, LAMBDA d : B0(d, H(x)))
    BY DEF AddNodeLeaf, ConfigLeaf
  <2>2. \A d, h : B0(d, h) = Q(T(d), h)
    BY DEF Given
  <2>3. H(x) = H(c)
    BY <1>1
  <2> HIDE DEF B0, Q, T, H
  <2>4. AddNodeLeaf(x) = Commands_(x, req, mod, g, B0(Grouped(x, req, mod, g), H(x)))
    BY <2>1, <1>1 DEF pre_command, WithGroups, Given, Commands_
  <2> QED
    BY <2>2, <2>3, <2>4
<1>2. ASSUME NEW d, NEW f, Further(d, f) PROVE Heeds(d.warn, B(d), B(f))
  <2>1. Further(T(d), T(f)) /\ T(d).warn = d.warn
    BY <1>2, TakingFurther
  <2>2. SilentSteps(H(c))
    BY Helps
  <2> HIDE DEF T, H
  <2>3. ASSUME NEW x, NEW y, NEW h, Further(x, y), SilentSteps(h) PROVE Heeds(x.warn, Q(x, h), Q(y, h))
    <3>1. y.nodes = x.nodes /\ \A n : R(y, n) = R(x, n)
      BY <2>3, WordSame, FurtherSame DEF Param, Value, Subcontext
    <3>2. \A n : IsSeq(R(x, n))
      BY ChangesAsk1, ChangesAsk2, ChangesAsk3
    <3> HIDE DEF R
    <3>3. [n \in y.nodes |-> R(y, n)] = [n \in x.nodes |-> R(x, n)]
      BY <3>1
    <3> QED
      BY <2>3, <3>2, <3>3, ChangedAtNodes
  <2> HIDE DEF Q
  <2> QED
    BY <2>1, <2>2, <2>3
<1> HIDE DEF B, g
<1>8. Heeds(c.warn, B(Grouped(c, req, mod, g)), B(Grouped(e, req, mod, g)))
  BY <1>2, GroupedFurther
<1>9. e.line = c.line
  BY FurtherSame
<1> HIDE DEF req, mod
<1> QED
  BY <1>1, <1>8, <1>9, Commanded

AddNamespaceLeaf(x) == ConfigLeaf(x, {}, {"rewind"}, LAMBDA e, n :
  info_set_config_xdr_add_namespace(n, OneOf(e, "dc"), OneOf(e, "namespace")), <<>>)

(* manage config xdr dc ... add namespace: asks first when it warns; more  *)
(* answers only add steps.                                                 *)
LEMMA AddNamespaceLeafHeeds ==
  ASSUME NEW c, NEW e, Further(c, e)
  PROVE  Heeds(c.warn, AddNamespaceLeaf(c), AddNamespaceLeaf(e))
<1> DEFINE req == {}  ex == {"rewind"}  mod == {"with"} \union ex
           g == parse_modifiers(c.line, req \union mod)
           H(x) == <<>>
           R(x, n) == info_set_config_xdr_add_namespace(n, OneOf(x, "dc"), OneOf(x, "namespace"))
           Q(x, h) == Confirm(x, x.warn, SetToSeq(x.nodes), AtNodes(x, [n \in x.nodes |-> R(x, n)], h))
           T(x) == Taking(x, SetToSeq(req \union ex), req)
           B0(x, h) == Given(T(x), LAMBDA y : Q(y, h))
           B(x) == Q(T(x), H(c))
<1>1. ASSUME NEW x, x.line = c.line
      PROVE  AddNamespaceLeaf(x) = Commands_(x, req, mod, g, B(Grouped(x, req, mod, g)))
  <2>1. AddNamespaceLeaf(x) = pre_command(x, req, mod, LAMBDA d : B0(d, H(x)))
    BY DEF AddNamespaceLeaf, ConfigLeaf
  <2>2. \A d, h : B0(d, h) = Q(T(d), h)
    BY DEF Given
  <2>3. H(x) = H(c)
    BY <1>1
  <2> HIDE DEF B0, Q, T, H
  <2>4. AddNamespaceLeaf(x) = Commands_(x, req, mod, g, B0(Grouped(x, req, mod, g), H(x)))
    BY <2>1, <1>1 DEF pre_command, WithGroups, Given, Commands_
  <2> QED
    BY <2>2, <2>3, <2>4
<1>2. ASSUME NEW d, NEW f, Further(d, f) PROVE Heeds(d.warn, B(d), B(f))
  <2>1. Further(T(d), T(f)) /\ T(d).warn = d.warn
    BY <1>2, TakingFurther
  <2>2. SilentSteps(H(c))
    BY Helps
  <2> HIDE DEF T, H
  <2>3. ASSUME NEW x, NEW y, NEW h, Further(x, y), SilentSteps(h) PROVE Heeds(x.warn, Q(x, h), Q(y, h))
    <3>1. y.nodes = x.nodes /\ \A n : R(y, n) = R(x, n)
      BY <2>3, WordSame, FurtherSame DEF Param, Value, Subcontext
    <3>2. \A n : IsSeq(R(x, n))
      BY ChangesAsk1, ChangesAsk2, ChangesAsk3
    <3> HIDE DEF R
    <3>3. [n \in y.nodes |-> R(y, n)] = [n \in x.nodes |-> R(x, n)]
      BY <3>1
    <3> QED
      BY <2>3, <3>2, <3>3, ChangedAtNodes
  <2> HIDE DEF Q
  <2> QED
    BY <2>1, <2>2, <2>3
<1> HIDE DEF B, g
<1>8. Heeds(c.warn, B(Grouped(c, req, mod, g)), B(Grouped(e, req, mod, g)))
  BY <1>2, GroupedFurther
<1>9. e.line = c.line
  BY FurtherSame
<1> HIDE DEF req, mod
<1> QED
  BY <1>1, <1>8, <1>9, Commanded

RemoveNodeLeaf(x) == ConfigLeaf(x, {}, {}, LAMBDA e, n :
  info_set_config_xdr_remove_node(n, OneOf(e, "dc"), OneOf(e, "node")), <<>>)

(* manage config xdr dc ... remove node: asks first when it warns; more    *)
(* answers only add steps.                                                 *)
LEMMA RemoveNodeLeafHeeds ==
  ASSUME NEW c, NEW e, Further(c, e)
  PROVE  Heeds(c.warn, RemoveNodeLeaf(c), RemoveNodeLeaf(e))
<1> DEFINE req == {}  ex == {}  mod == {"with"} \union ex
           g == parse_modifiers(c.line, req \union mod)
           H(x) == <<>>
           R(x, n) == info_set_config_xdr_remove_node(n, OneOf(x, "dc"), OneOf(x, "node"))
           Q(x, h) == Confirm(x, x.warn, SetToSeq(x.nodes), AtNodes(x, [n \in x.nodes |-> R(x, n)], h))
           T(x) == Taking(x, SetToSeq(req \union ex), req)
           B0(x, h) == Given(T(x), LAMBDA y : Q(y, h))
           B(x) == Q(T(x), H(c))
<1>1. ASSUME NEW x, x.line = c.line
      PROVE  RemoveNodeLeaf(x) = Commands_(x, req, mod, g, B(Grouped(x, req, mod, g)))
  <2>1. RemoveNodeLeaf(x) = pre_command(x, req, mod, LAMBDA d : B0(d, H(x)))
    BY DEF RemoveNodeLeaf, ConfigLeaf
  <2>2. \A d, h : B0(d, h) = Q(T(d), h)
    BY DEF Given
  <2>3. H(x) = H(c)
    BY <1>1
  <2> HIDE DEF B0, Q, T, H
  <2>4. RemoveNodeLeaf(x) = Commands_(x, req, mod, g, B0(Grouped(x, req, mod, g), H(x)))
    BY <2>1, <1>1 DEF pre_command, WithGroups, Given, Commands_
  <2> QED
    BY <2>2, <2>3, <2>4
<1>2. ASSUME NEW d, NEW f, Further(d, f) PROVE Heeds(d.warn, B(d), B(f))
  <2>1. Further(T(d), T(f)) /\ T(d).warn = d.warn
    BY <1>2, TakingFurther
  <2>2. SilentSteps(H(c))
    BY Helps
  <2> HIDE DEF T, H
  <2>3. ASSUME NEW x, NEW y, NEW h, Further(x, y), SilentSteps(h) PROVE Heeds(x.warn, Q(x, h), Q(y, h))
    <3>1. y.nodes = x.nodes /\ \A n : R(y, n) = R(x, n)
      BY <2>3, WordSame, FurtherSame DEF Param, Value, Subcontext
    <3>2. \A n : IsSeq(R(x, n))
      BY ChangesAsk1, ChangesAsk2, ChangesAsk3
    <3> HIDE DEF R
    <3>3. [n \in y.nodes |-> R(y, n)] = [n \in x.nodes |-> R(x, n)]
      BY <3>1
    <3> QED
      BY <2>3, <3>2, <3>3, ChangedAtNodes
  <2> HIDE DEF Q
  <2> QED
    BY <2>1, <2>2, <2>3
<1> HIDE DEF B, g
<1>8. Heeds(c.warn, B(Grouped(c, req, mod, g)), B(Grouped(e, req, mod, g)))
  BY <1>2, GroupedFurther
<1>9. e.line = c.line
  BY FurtherSame
<1> HIDE DEF req, mod
<1> QED
  BY <1>1, <1>8, <1>9, Commanded

RemoveNamespaceLeaf(x) == ConfigLeaf(x, {}, {}, LAMBDA e, n :
  info_set_config_xdr_remove_namespace(n, OneOf(e, "dc"), OneOf(e, "namespace")), <<>>)

(* manage config xdr dc ... remove namespace: asks first when it warns;    *)
(* more answers only add steps.                                            *)
LEMMA RemoveNamespaceLeafHeeds ==
  ASSUME NEW c, NEW e, Further(c, e)
  PROVE  Heeds(c.warn, RemoveNamespaceLeaf(c), RemoveNamespaceLeaf(e))
<1> DEFINE req == {}  ex == {}  mod == {"with"} \union ex
           g == parse_modifiers(c.line, req \union mod)
           H(x) == <<>>
           R(x, n) == info_set_config_xdr_remove_namespace(n, OneOf(x, "dc"), OneOf(x, "namespace"))
           Q(x, h) == Confirm(x, x.warn, SetToSeq(x.nodes), AtNodes(x, [n \in x.nodes |-> R(x, n)], h))
           T(x) == Taking(x, SetToSeq(req \union ex), req)
           B0(x, h) == Given(T(x), LAMBDA y : Q(y, h))
           B(x) == Q(T(x), H(c))
<1>1. ASSUME NEW x, x.line = c.line
      PROVE  RemoveNamespaceLeaf(x) = Commands_(x, req, mod, g, B(Grouped(x, req, mod, g)))
  <2>1. RemoveNamespaceLeaf(x) = pre_command(x, req, mod, LAMBDA d : B0(d, H(x)))
    BY DEF RemoveNamespaceLeaf, ConfigLeaf
  <2>2. \A d, h : B0(d, h) = Q(T(d), h)
    BY DEF Given
  <2>3. H(x) = H(c)
    BY <1>1
  <2> HIDE DEF B0, Q, T, H
  <2>4. RemoveNamespaceLeaf(x) = Commands_(x, req, mod, g, B0(Grouped(x, req, mod, g), H(x)))
    BY <2>1, <1>1 DEF pre_command, WithGroups, Given, Commands_
  <2> QED
    BY <2>2, <2>3, <2>4
<1>2. ASSUME NEW d, NEW f, Further(d, f) PROVE Heeds(d.warn, B(d), B(f))
  <2>1. Further(T(d), T(f)) /\ T(d).warn = d.warn
    BY <1>2, TakingFurther
  <2>2. SilentSteps(H(c))
    BY Helps
  <2> HIDE DEF T, H
  <2>3. ASSUME NEW x, NEW y, NEW h, Further(x, y), SilentSteps(h) PROVE Heeds(x.warn, Q(x, h), Q(y, h))
    <3>1. y.nodes = x.nodes /\ \A n : R(y, n) = R(x, n)
      BY <2>3, WordSame, FurtherSame DEF Param, Value, Subcontext
    <3>2. \A n : IsSeq(R(x, n))
      BY ChangesAsk1, ChangesAsk2, ChangesAsk3
    <3> HIDE DEF R
    <3>3. [n \in y.nodes |-> R(y, n)] = [n \in x.nodes |-> R(x, n)]
      BY <3>1
    <3> QED
      BY <2>3, <3>2, <3>3, ChangedAtNodes
  <2> HIDE DEF Q
  <2> QED
    BY <2>1, <2>2, <2>3
<1> HIDE DEF B, g
<1>8. Heeds(c.warn, B(Grouped(c, req, mod, g)), B(Grouped(e, req, mod, g)))
  BY <1>2, GroupedFurther
<1>9. e.line = c.line
  BY FurtherSame
<1> HIDE DEF req, mod
<1> QED
  BY <1>1, <1>8, <1>9, Commanded

DCNamespaceLeaf(x) == ConfigLeaf(x, ParamTo, {}, LAMBDA e, n :
  info_set_config_xdr(OneOf(e, "dc") \o " " \o OneOf(e, "namespace"), Param(e), Value(e)), <<>>)

(* manage config xdr dc ... namespace: asks first when it warns; more      *)
(* answers only add steps.                                                 *)
LEMMA DCNamespaceLeafHeeds ==
  ASSUME NEW c, NEW e, Further(c, e)
  PROVE  Heeds(c.warn, DCNamespaceLeaf(c), DCNamespaceLeaf(e))
<1> DEFINE req == ParamTo  ex == {}  mod == {"with"} \union ex
           g == parse_modifiers(c.line, req \union mod)
           H(x) == <<>>
           R(x, n) == info_set_config_xdr(OneOf(x, "dc") \o " " \o OneOf(x, "namespace"), Param(x), Value(x))
           Q(x, h) == Confirm(x, x.warn, SetToSeq(x.nodes), AtNodes(x, [n \in x.nodes |-> R(x, n)], h))
           T(x) == Taking(x, SetToSeq(req \union ex), req)
           B0(x, h) == Given(T(x), LAMBDA y : Q(y, h))
           B(x) == Q(T(x), H(c))
<1>1. ASSUME NEW x, x.line = c.line
      PROVE  DCNamespaceLeaf(x) = Commands_(x, req, mod, g, B(Grouped(x, req, mod, g)))
  <2>1. DCNamespaceLeaf(x) = pre_command(x, req, mod, LAMBDA d : B0(d, H(x)))
    BY DEF DCNamespaceLeaf, ConfigLeaf
  <2>2. \A d, h : B0(d, h) = Q(T(d), h)
    BY DEF Given
  <2>3. H(x) = H(c)
    BY <1>1
  <2> HIDE DEF B0, Q, T, H
  <2>4. DCNamespaceLeaf(x) = Commands_(x, req, mod, g, B0(Grouped(x, req, mod, g), H(x)))
    BY <2>1, <1>1 DEF pre_command, WithGroups, Given, Commands_
  <2> QED
    BY <2>2, <2>3, <2>4
<1>2. ASSUME NEW d, NEW f, Further(d, f) PROVE Heeds(d.warn, B(d), B(f))
  <2>1. Further(T(d), T(f)) /\ T(d).warn = d.warn
    BY <1>2, TakingFurther
  <2>2. SilentSteps(H(c))
    BY Helps
  <2> HIDE DEF T, H
  <2>3. ASSUME NEW x, NEW y, NEW h, Further(x, y), SilentSteps(h) PROVE Heeds(x.warn, Q(x, h), Q(y, h))
    <3>1. y.nodes = x.nodes /\ \A n : R(y, n) = R(x, n)
      BY <2>3, WordSame, FurtherSame DEF Param, Value, Subcontext
    <3>2. \A n : IsSeq(R(x, n))
      BY ChangesAsk1, ChangesAsk2, ChangesAsk3
    <3> HIDE DEF R
    <3>3. [n \in y.nodes |-> R(y, n)] = [n \in x.nodes |-> R(x, n)]
      BY <3>1
    <3> QED
      BY <2>3, <3>2, <3>3, ChangedAtNodes
  <2> HIDE DEF Q
  <2> QED
    BY <2>1, <2>2, <2>3
<1> HIDE DEF B, g
<1>8. Heeds(c.warn, B(Grouped(c, req, mod, g)), B(Grouped(e, req, mod, g)))
  BY <1>2, GroupedFurther
<1>9. e.line = c.line
  BY FurtherSame
<1> HIDE DEF req, mod
<1> QED
  BY <1>1, <1>8, <1>9, Commanded

DCLeaf(x) == ConfigLeaf(x, ParamTo, {}, LAMBDA e, n :
  info_set_config_xdr(OneOf(e, "dc"), Param(e), Value(e)), <<>>)

(* manage config xdr dc: asks first when it warns; more answers only add   *)
(* steps.                                                                  *)
LEMMA DCLeafHeeds ==
  ASSUME NEW c, NEW e, Further(c, e)
  PROVE  Heeds(c.warn, DCLeaf(c), DCLeaf(e))
<1> DEFINE req == ParamTo  ex == {}  mod == {"with"} \union ex
           g == parse_modifiers(c.line, req \union mod)
           H(x) == <<>>
           R(x, n) == info_set_config_xdr(OneOf(x, "dc"), Param(x), Value(x))
           Q(x, h) == Confirm(x, x.warn, SetToSeq(x.nodes), AtNodes(x, [n \in x.nodes |-> R(x, n)], h))
           T(x) == Taking(x, SetToSeq(req \union ex), req)
           B0(x, h) == Given(T(x), LAMBDA y : Q(y, h))
           B(x) == Q(T(x), H(c))
<1>1. ASSUME NEW x, x.line = c.line
      PROVE  DCLeaf(x) = Commands_(x, req, mod, g, B(Grouped(x, req, mod, g)))
  <2>1. DCLeaf(x) = pre_command(x, req, mod, LAMBDA d : B0(d, H(x)))
    BY DEF DCLeaf, ConfigLeaf
  <2>2. \A d, h : B0(d, h) = Q(T(d), h)
    BY DEF Given
  <2>3. H(x) = H(c)
    BY <1>1
  <2> HIDE DEF B0, Q, T, H
  <2>4. DCLeaf(x) = Commands_(x, req, mod, g, B0(Grouped(x, req, mod, g), H(x)))
    BY <2>1, <1>1 DEF pre_command, WithGroups, Given, Commands_
  <2> QED
    BY <2>2, <2>3, <2>4
<1>2. ASSUME NEW d, NEW f, Further(d, f) PROVE Heeds(d.warn, B(d), B(f))
  <2>1. Further(T(d), T(f)) /\ T(d).warn = d.warn
    BY <1>2, TakingFurther
  <2>2. SilentSteps(H(c))
    BY Helps
  <2> HIDE DEF T, H
  <2>3. ASSUME NEW x, NEW y, NEW h, Further(x, y), SilentSteps(h) PROVE Heeds(x.warn, Q(x, h), Q(y, h))
    <3>1. y.nodes = x.nodes /\ \A n : R(y, n) = R(x, n)
      BY <2>3, WordSame, FurtherSame DEF Param, Value, Subcontext
    <3>2. \A n : IsSeq(R(x, n))
      BY ChangesAsk1, ChangesAsk2, ChangesAsk3
    <3> HIDE DEF R
    <3>3. [n \in y.nodes |-> R(y, n)] = [n \in x.nodes |-> R(x, n)]
      BY <3>1
    <3> QED
      BY <2>3, <3>2, <3>3, ChangedAtNodes
  <2> HIDE DEF Q
  <2> QED
    BY <2>1, <2>2, <2>3
<1> HIDE DEF B, g
<1>8. Heeds(c.warn, B(Grouped(c, req, mod, g)), B(Grouped(e, req, mod, g)))
  BY <1>2, GroupedFurther
<1>9. e.line = c.line
  BY FurtherSame
<1> HIDE DEF req, mod
<1> QED
  BY <1>1, <1>8, <1>9, Commanded

XDRLeaf(x) == ConfigLeaf(x, ParamTo, {}, LAMBDA e, n : info_set_config_xdr("", Param(e), Value(e)), <<>>)

(* manage config xdr: asks first when it warns; more answers only add      *)
(* steps.                                                                  *)
LEMMA XDRLeafHeeds ==
  ASSUME NEW c, NEW e, Further(c, e)
  PROVE  Heeds(c.warn, XDRLeaf(c), XDRLeaf(e))
<1> DEFINE req == ParamTo  ex == {}  mod == {"with"} \union ex
           g == parse_modifiers(c.line, req \union mod)
           H(x) == <<>>
           R(x, n) == info_set_config_xdr("", Param(x), Value(x))
           Q(x, h) == Confirm(x, x.warn, SetToSeq(x.nodes), AtNodes(x, [n \in x.nodes |-> R(x, n)], h))
           T(x) == Taking(x, SetToSeq(req \union ex), req)
           B0(x, h) == Given(T(x), LAMBDA y : Q(y, h))
           B(x) == Q(T(x), H(c))
<1>1. ASSUME NEW x, x.line = c.line
      PROVE  XDRLeaf(x) = Commands_(x, req, mod, g, B(Grouped(x, req, mod, g)))
  <2>1. XDRLeaf(x) = pre_command(x, req, mod, LAMBDA d : B0(d, H(x)))
    BY DEF XDRLeaf, ConfigLeaf
  <2>2. \A d, h : B0(d, h) = Q(T(d), h)
    BY DEF Given
  <2>3. H(x) = H(c)
    BY <1>1
  <2> HIDE DEF B0, Q, T, H
  <2>4. XDRLeaf(x) = Commands_(x, req, mod, g, B0(Grouped(x, req, mod, g), H(x)))
    BY <2>1, <1>1 DEF pre_command, WithGroups, Given, Commands_
  <2> QED
    BY <2>2, <2>3, <2>4
<1>2. ASSUME NEW d, NEW f, Further(d, f) PROVE Heeds(d.warn, B(d), B(f))
  <2>1. Further(T(d), T(f)) /\ T(d).warn = d.warn
    BY <1>2, TakingFurther
  <2>2. SilentSteps(H(c))
    BY Helps
  <2> HIDE DEF T, H
  <2>3. ASSUME NEW x, NEW y, NEW h, Further(x, y), SilentSteps(h) PROVE Heeds(x.warn, Q(x, h), Q(y, h))
    <3>1. y.nodes = x.nodes /\ \A n : R(y, n) = R(x, n)
      BY <2>3, WordSame, FurtherSame DEF Param, Value, Subcontext
    <3>2. \A n : IsSeq(R(x, n))
      BY ChangesAsk1, ChangesAsk2, ChangesAsk3
    <3> HIDE DEF R
    <3>3. [n \in y.nodes |-> R(y, n)] = [n \in x.nodes |-> R(x, n)]
      BY <3>1
    <3> QED
      BY <2>3, <3>2, <3>3, ChangedAtNodes
  <2> HIDE DEF Q
  <2> QED
    BY <2>1, <2>2, <2>3
<1> HIDE DEF B, g
<1>8. Heeds(c.warn, B(Grouped(c, req, mod, g)), B(Grouped(e, req, mod, g)))
  BY <1>2, GroupedFurther
<1>9. e.line = c.line
  BY FurtherSame
<1> HIDE DEF req, mod
<1> QED
  BY <1>1, <1>8, <1>9, Commanded

(* manage config network: asks first when it warns; more answers only add  *)
(* steps.                                                                  *)
LEMMA ManageConfigNetworkControllerHeeds ==
  ASSUME NEW c, NEW e, Further(c, e)
  PROVE  Heeds(c.warn, ManageConfigNetworkController(c), ManageConfigNetworkController(e))
<1> DEFINE req == ParamTo  mod == {"with"}
           g == parse_modifiers(c.line, req \union mod)
           R(x) == info_set_config_network(Subcontext(x) \o "." \o Param(x), Value(x))
           Q(x) == IF Subcontext(x) = "" THEN End(x, <<Tell("help"), Complain>>)
                   ELSE Confirm(x, x.warn, SetToSeq(x.nodes), AtNodes(x, [n \in x.nodes |-> R(x)], <<>>))
           T(x) == Taking(x, <<"param", "to">>, ParamTo)
           B0(x) == Given(T(x), Q)
           B(x) == Q(T(x))
<1>1. ASSUME NEW x, x.line = c.line
      PROVE  ManageConfigNetworkController(x) = Commands_(x, req, mod, g, B(Grouped(x, req, mod, g)))
  <2>1. ManageConfigNetworkController(x) = pre_command(x, req, mod, B0)
    BY DEF ManageConfigNetworkController
  <2>2. \A d : B0(d) = Q(T(d))
    BY DEF Given
  <2> HIDE DEF B0, Q, T
  <2>4. ManageConfigNetworkController(x) = Commands_(x, req, mod, g, B0(Grouped(x, req, mod, g)))
    BY <2>1, <1>1 DEF pre_command, WithGroups, Given, Commands_
  <2> QED
    BY <2>2, <2>4
<1>2. ASSUME NEW d, NEW f, Further(d, f) PROVE Heeds(d.warn, B(d), B(f))
  <2>1. Further(T(d), T(f)) /\ T(d).warn = d.warn
    BY <1>2, TakingFurther
  <2> HIDE DEF T
  <2>3. ASSUME NEW x, NEW y, Further(x, y) PROVE Heeds(x.warn, Q(x), Q(y))
    <3>1. y.nodes = x.nodes /\ R(y) = R(x) /\ Subcontext(y) = Subcontext(x)
      BY <2>3, WordSame, FurtherSame DEF Param, Value, Subcontext
    <3>2. IsSeq(R(x))
      BY ChangesAsk3
    <3> HIDE DEF R
    <3>3. [n \in y.nodes |-> R(y)] = [n \in x.nodes |-> R(x)]
      BY <3>1
    <3> DEFINE r == [n \in x.nodes |-> R(x)]
    <3>4. DOMAIN r = x.nodes /\ \A n \in x.nodes : IsSeq(r[n])
      BY <3>2
    <3> HIDE DEF r
    <3>5. Heeds(x.warn, Confirm(x, x.warn, SetToSeq(x.nodes), AtNodes(x, r, <<>>)),
                        Confirm(y, y.warn, SetToSeq(y.nodes), AtNodes(y, r, <<>>)))
      BY <2>3, <3>4, ChangedAtNodes, Helps
    <3>6. Heeds(x.warn, End(x, <<Tell("help"), Complain>>), End(y, <<Tell("help"), Complain>>))
      BY EndHeeds, Helps
    <3> QED
      BY <3>1, <3>3, <3>5, <3>6 DEF r
  <2> HIDE DEF Q
  <2> QED
    BY <2>1, <2>3
<1> HIDE DEF B, g
<1>8. Heeds(c.warn, B(Grouped(c, req, mod, g)), B(Grouped(e, req, mod, g)))
  BY <1>2, GroupedFurther
<1>9. e.line = c.line
  BY FurtherSame
<1> HIDE DEF req, mod
<1> QED
  BY <1>1, <1>8, <1>9, Commanded

-----------------------------------------------------------------------------
(* Indexes, truncation, the roster, and jobs.                              *)

(* manage recluster: asks first when it warns; more answers only add       *)
(* steps.                                                                  *)
LEMMA ManageReclusterControllerHeeds ==
  ASSUME NEW c, NEW e, Further(c, e)
  PROVE  Heeds(c.warn, ManageReclusterController(c), ManageReclusterController(e))
<1> DEFINE req == {}  mod == {}
           g == parse_modifiers(c.line, req \union mod)
           B(d) == AtPrincipal(d, info_recluster, Success)
           B0(d) == B(d)
<1>1. ASSUME NEW x, x.line = c.line
      PROVE  ManageReclusterController(x) = Commands_(x, req, mod, g, B(Grouped(x, req, mod, g)))
  <2>1. ManageReclusterController(x) = pre_command(x, req, mod, B0)
    BY DEF ManageReclusterController
  <2>2. \A d : B0(d) = B(d)
    OBVIOUS
  <2> HIDE DEF B0, B
  <2>4. ManageReclusterController(x) = Commands_(x, req, mod, g, B0(Grouped(x, req, mod, g)))
    BY <2>1, <1>1 DEF pre_command, WithGroups, Given, Commands_
  <2> QED
    BY <2>2, <2>4
<1>2. ASSUME NEW d, NEW f, Further(d, f) PROVE Heeds(d.warn, B(d), B(f))
  <2>1. ReadsOnlyOf(info_recluster)
    <3> DEFINE q == Event("recluster", <<"recluster">>)
    <3>1. q.cmd = "recluster"
      BY DEF Event, InfoChange, Info
    <3> HIDE DEF q
    <3>2. info_recluster = <<q>>
      BY DEF info_recluster, q
    <3>3. ~Wants(q)
      BY <3>1 DEF Wants
    <3> QED
      BY <3>2, <3>3, SeqOne DEF ReadsOnlyOf
  <2> QED
    BY <1>2, <2>1, AtPrincipalGrown, ChangesAsk1, Helps DEF Heeds
<1> HIDE DEF B, g
<1>8. Heeds(c.warn, B(Grouped(c, req, mod, g)), B(Grouped(e, req, mod, g)))
  BY <1>2, GroupedFurther
<1>9. e.line = c.line
  BY FurtherSame
<1> HIDE DEF req, mod
<1> QED
  BY <1>1, <1>8, <1>9, Commanded

(* manage quiesce: asks first when it warns; more answers only add steps.  *)
LEMMA ManageQuiesceControllerHeeds ==
  ASSUME NEW c, NEW e, Further(c, e)
  PROVE  Heeds(c.warn, ManageQuiesceController(c), ManageQuiesceController(e))
<1> DEFINE req == {"with"}  mod == {"undo"}
           g == parse_modifiers(c.line, req \union mod)
           R(d) == IF check_arg(d, "undo") THEN info_quiesce_undo ELSE info_quiesce
           T(d) == check_arg_and_delete_from_mods(d, "undo", d.keys)
           Q(d, x) == Confirm(x, x.warn, <<>>, AtNodes(x, [n \in x.nodes |-> R(d)], Recluster))
           B(d) == Q(d, T(d))
           B0(d) == Given(T(d), LAMBDA x : Q(d, x))
<1>1. ASSUME NEW x, x.line = c.line
      PROVE  ManageQuiesceController(x) = Commands_(x, req, mod, g, B(Grouped(x, req, mod, g)))
  <2>1. ManageQuiesceController(x) = pre_command(x, req, mod, B0)
    BY DEF ManageQuiesceController
  <2>2. \A d : B0(d) = B(d)
    BY DEF Given
  <2> HIDE DEF B0, B
  <2>4. ManageQuiesceController(x) = Commands_(x, req, mod, g, B0(Grouped(x, req, mod, g)))
    BY <2>1, <1>1 DEF pre_command, WithGroups, Given, Commands_
  <2> QED
    BY <2>2, <2>4
<1>2. ASSUME NEW d, NEW f, Further(d, f) PROVE Heeds(d.warn, B(d), B(f))
  <2>1. /\ Further(T(d), T(f)) /\ T(d).warn = d.warn /\ T(f).warn = d.warn
        /\ T(f).nodes = T(d).nodes
    BY <1>2, DroppedFurther, FurtherSame
  <2> HIDE DEF T
  <2>2. R(f) = R(d) /\ IsSeq(R(d))
    BY <1>2, FurtherSame, ChangesAsk1 DEF check_arg
  <2> HIDE DEF R
  <2> DEFINE r == [n \in T(d).nodes |-> R(d)]
  <2>3. DOMAIN r = T(d).nodes /\ (\A n \in T(d).nodes : IsSeq(r[n])) /\ [n \in T(f).nodes |-> R(f)] = r
    BY <2>1, <2>2
  <2> HIDE DEF r
  <2>4. Heeds(d.warn, Confirm(T(d), d.warn, <<>>, AtNodes(T(d), r, Recluster)),
                      Confirm(T(f), d.warn, <<>>, AtNodes(T(f), r, Recluster)))
    BY <2>1, <2>3, AskedNodesHeeds, Helps
  <2> QED
    BY <2>1, <2>3, <2>4 DEF r
<1> HIDE DEF B, g
<1>8. Heeds(c.warn, B(Grouped(c, req, mod, g)), B(Grouped(e, req, mod, g)))
  BY <1>2, GroupedFurther
<1>9. e.line = c.line
  BY FurtherSame
<1> HIDE DEF req, mod
<1> QED
  BY <1>1, <1>8, <1>9, Commanded

(* manage revive: asks first when it warns; more answers only add steps.   *)
LEMMA ManageReviveControllerHeeds ==
  ASSUME NEW c, NEW e, Further(c, e)
  PROVE  Heeds(c.warn, ManageReviveController(c), ManageReviveController(e))
<1> DEFINE req == {"ns"}  mod == {"with"}
           g == parse_modifiers(c.line, req \union mod)
           R(d) == info_revive(OneOf(d, "ns"))
           B(d) == Confirm(d, d.warn, <<>>, AtNodes(d, [n \in d.nodes |-> R(d)], Recluster))
           B0(d) == B(d)
<1>1. ASSUME NEW x, x.line = c.line
      PROVE  ManageReviveController(x) = Commands_(x, req, mod, g, B(Grouped(x, req, mod, g)))
  <2>1. ManageReviveController(x) = pre_command(x, req, mod, B0)
    BY DEF ManageReviveController
  <2>2. \A d : B0(d) = B(d)
    OBVIOUS
  <2> HIDE DEF B0, B
  <2>4. ManageReviveController(x) = Commands_(x, req, mod, g, B0(Grouped(x, req, mod, g)))
    BY <2>1, <1>1 DEF pre_command, WithGroups, Given, Commands_
  <2> QED
    BY <2>2, <2>4
<1>2. ASSUME NEW d, NEW f, Further(d, f) PROVE Heeds(d.warn, B(d), B(f))
  <2>1. f.nodes = d.nodes /\ f.warn = d.warn
    BY <1>2, FurtherSame
  <2>2. R(f) = R(d) /\ IsSeq(R(d))
    BY <1>2, WordSame, ChangesAsk1
  <2> HIDE DEF R
  <2> DEFINE r == [n \in d.nodes |-> R(d)]
  <2>3. DOMAIN r = d.nodes /\ (\A n \in d.nodes : IsSeq(r[n])) /\ [n \in f.nodes |-> R(f)] = r
    BY <2>1, <2>2
  <2> HIDE DEF r
  <2>4. Heeds(d.warn, Confirm(d, d.warn, <<>>, AtNodes(d, r, Recluster)),
                      Confirm(f, d.warn, <<>>, AtNodes(f, r, Recluster)))
    BY <1>2, <2>3, AskedNodesHeeds, Helps
  <2> QED
    BY <2>1, <2>3, <2>4 DEF r
<1> HIDE DEF B, g
<1>8. Heeds(c.warn, B(Grouped(c, req, mod, g)), B(Grouped(e, req, mod, g)))
  BY <1>2, GroupedFurther
<1>9. e.line = c.line
  BY FurtherSame
<1> HIDE DEF req, mod
<1> QED
  BY <1>1, <1>8, <1>9, Commanded

SIndexCreateLeaf(x) ==
  pre_command(x, {"line", "ns", "bin"}, {"set", "in", "ctx"}, LAMBDA d :
    IF ~Has(d, "ctx") THEN Confirm(d, d.warn, <<>>, AtPrincipalOrRaise(d, info_sindex_create(Word(d))))
    ELSE Call(d, d.nodes, LAMBDA n : info_build, LAMBDA e, answers :
           IF /\ Came(answers, "ok") = DOMAIN answers
              /\ \A n \in e.nodes : AtLeast(n, SERVER_SINDEX_ON_CDT_FIRST_VERSION)
              /\ _list_to_cdt_ctx(Mod(e, "ctx"))
           THEN Confirm(e, e.warn, <<>>, AtPrincipalOrRaise(e, info_sindex_create(Word(e))))
           ELSE End(e, <<Raise>>)))

(* manage sindex create of one type: asks first when it warns; more        *)
(* answers only add steps.                                                 *)
LEMMA SIndexCreateLeafHeeds ==
  ASSUME NEW c, NEW e, Further(c, e)
  PROVE  Heeds(c.warn, SIndexCreateLeaf(c), SIndexCreateLeaf(e))
<1> DEFINE req == {"line", "ns", "bin"}  mod == {"set", "in", "ctx"}
           g == parse_modifiers(c.line, req \union mod)
           C(d) == Confirm(d, d.warn, <<>>, AtPrincipalOrRaise(d, info_sindex_create(Word(d))))
           A(d, a) == IF /\ Came(Firsts(a), "ok") = DOMAIN Firsts(a)
                         /\ \A n \in d.nodes : AtLeast(n, SERVER_SINDEX_ON_CDT_FIRST_VERSION)
                         /\ _list_to_cdt_ctx(Mod(d, "ctx"))
                      THEN C(d) ELSE End(d, <<Raise>>)
           ms(d) == [n \in d.nodes |-> info_build]
           B(d) == IF ~Has(d, "ctx") THEN C(d) ELSE ReadPlan(d, d.nodes, ms(d), A(Rest(d), Head(d.seen)))
           B0(d) == IF ~Has(d, "ctx") THEN C(d)
                    ELSE Call(d, d.nodes, LAMBDA n : info_build, LAMBDA e_, answers :
                           IF /\ Came(answers, "ok") = DOMAIN answers
                              /\ \A n \in e_.nodes : AtLeast(n, SERVER_SINDEX_ON_CDT_FIRST_VERSION)
                              /\ _list_to_cdt_ctx(Mod(e_, "ctx"))
                           THEN C(e_) ELSE End(e_, <<Raise>>))
<1>1. ASSUME NEW x, x.line = c.line
      PROVE  SIndexCreateLeaf(x) = Commands_(x, req, mod, g, B(Grouped(x, req, mod, g)))
  <2>1. SIndexCreateLeaf(x) = pre_command(x, req, mod, B0)
    BY DEF SIndexCreateLeaf
  <2>2. \A d : B0(d) = B(d)
    <3> HIDE DEF C
    <3>1. ASSUME NEW d PROVE B0(d) = B(d)
      <4>1. CASE ~Has(d, "ctx")
        BY <4>1
      <4>2. CASE Has(d, "ctx") /\ d.nodes = {}
        BY <4>2 DEF Call, CallAll, ReadPlan
      <4>3. CASE Has(d, "ctx") /\ d.nodes # {}
        <5> DEFINE S == [d EXCEPT !.seen = Tail(@)]  F == [n \in DOMAIN Head(d.seen) |-> Head(d.seen)[n][1]]
                   Z == IF /\ Came(F, "ok") = DOMAIN F
                           /\ \A n \in S.nodes : AtLeast(n, SERVER_SINDEX_ON_CDT_FIRST_VERSION)
                           /\ _list_to_cdt_ctx(Mod(S, "ctx"))
                        THEN C(S) ELSE End(S, <<Raise>>)
                   k == [n \in d.nodes |-> <<info_build>>]
        <5>1. B0(d) = First(CallStep(k), IF d.seen = <<>> THEN End(d, <<>>) ELSE Z)
          BY <4>3 DEF Call, CallAll, Given
        <5>2. Z = A(Rest(d), Head(d.seen)) /\ k = Each(ms(d))
          BY DEF Rest, Firsts, Each
        <5> HIDE DEF Z, A, k, ms, B0
        <5> QED
          BY <5>1, <5>2, <4>3 DEF ReadPlan, CallPlan
      <4> QED
        BY <4>1, <4>2, <4>3
    <3> QED
      BY <3>1
  <2> HIDE DEF B0, B
  <2>4. SIndexCreateLeaf(x) = Commands_(x, req, mod, g, B0(Grouped(x, req, mod, g)))
    BY <2>1, <1>1 DEF pre_command, WithGroups, Given, Commands_
  <2> QED
    BY <2>2, <2>4
<1>6. ASSUME NEW d, NEW f, Further(d, f) PROVE Heeds(d.warn, C(d), C(f))
  <2>1. Word(f) = Word(d) /\ f.warn = d.warn
    BY <1>6, WordSame, FurtherSame
  <2> QED
    BY <1>6, <2>1, AskedOrRaiseHeeds, ChangesAsk1
<1>7. ASSUME NEW d, NEW f, NEW a, Further(d, f) PROVE Heeds(d.warn, A(d, a), A(f, a))
  <2>1. f.nodes = d.nodes /\ Mod(f, "ctx") = Mod(d, "ctx")
    BY <1>7, WordSame, FurtherSame
  <2>2. Heeds(d.warn, C(d), C(f)) /\ Heeds(d.warn, End(d, <<Raise>>), End(f, <<Raise>>))
    BY <1>6, <1>7, EndHeeds, Helps
  <2> HIDE DEF C
  <2> QED
    BY <2>1, <2>2
<1> HIDE DEF A
<1>2. ASSUME NEW d, NEW f, Further(d, f) PROVE Heeds(d.warn, B(d), B(f))
  <2>1. f.nodes = d.nodes /\ f.warn = d.warn /\ Has(f, "ctx") = Has(d, "ctx")
    BY <1>2, FurtherSame, WordSame
  <2>2. DOMAIN ms(d) = d.nodes /\ d.nodes \subseteq Node /\ (\A n \in DOMAIN ms(d) : Reading(ms(d)[n])) /\ ms(f) = ms(d)
    BY <1>2, <2>1, ReadsSimple, GoodContexts DEF GoodContext
  <2>3. f.seen # <<>> /\ Further(Rest(f), Rest(f)) => WellFormed(A(Rest(f), Head(f.seen)))
    BY <1>7, HeedsWell
  <2>5. d.seen # <<>> /\ Further(Rest(d), Rest(f)) /\ Head(f.seen) = Head(d.seen)
        /\ Rest(d).warn = d.warn /\ Rest(d).nodes = d.nodes
          => Heeds(d.warn, A(Rest(d), Head(d.seen)), A(Rest(f), Head(f.seen)))
    BY <1>7
  <2>6. Heeds(d.warn, ReadPlan(d, d.nodes, ms(d), A(Rest(d), Head(d.seen))),
                      ReadPlan(f, d.nodes, ms(d), A(Rest(f), Head(f.seen))))
    <3> HIDE DEF ms
    <3> QED
      BY <1>2, <2>2, <2>3, <2>5, ReadOnAt
  <2>7. Heeds(d.warn, C(d), C(f))
    BY <1>2, <1>6
  <2> HIDE DEF ms, C, A
  <2> QED
    BY <2>1, <2>2, <2>6, <2>7
<1> HIDE DEF B, g
<1>8. Heeds(c.warn, B(Grouped(c, req, mod, g)), B(Grouped(e, req, mod, g)))
  BY <1>2, GroupedFurther
<1>9. e.line = c.line
  BY FurtherSame
<1> HIDE DEF req, mod
<1> QED
  BY <1>1, <1>8, <1>9, Commanded

(* manage sindex delete: asks first when it warns; more answers only add   *)
(* steps.                                                                  *)
LEMMA ManageSIndexDeleteControllerHeeds ==
  ASSUME NEW c, NEW e, Further(c, e)
  PROVE  Heeds(c.warn, ManageSIndexDeleteController(c), ManageSIndexDeleteController(e))
<1> DEFINE req == {"line", "ns"}  mod == {"set"}
           g == parse_modifiers(c.line, req \union mod)
           C(d) == AtPrincipalOrRaise(d, info_sindex_delete(Word(d)))
           A(d, a) == IF Came(Firsts(a), "ok") # DOMAIN Firsts(a) THEN End(d, <<Raise>>)
                      ELSE Confirm(d, TRUE, <<>>, C(d))
           ms(d) == [n \in d.nodes |-> WhenLost("without", info_sindex_statistics(Word(d))) \o info_build]
           B(d) == IF ~d.warn THEN C(d) ELSE ReadPlan(d, d.nodes, ms(d), A(Rest(d), Head(d.seen)))
           B0(d) == IF ~d.warn THEN C(d)
                    ELSE Call(d, d.nodes,
                              LAMBDA n : WhenLost("without", info_sindex_statistics(Word(d))) \o info_build,
                              LAMBDA e_, answers :
                                IF Came(answers, "ok") # DOMAIN answers THEN End(e_, <<Raise>>)
                                ELSE Confirm(e_, TRUE, <<>>, C(e_)))
<1>1. ASSUME NEW x, x.line = c.line
      PROVE  ManageSIndexDeleteController(x) = Commands_(x, req, mod, g, B(Grouped(x, req, mod, g)))
  <2>1. ManageSIndexDeleteController(x) = pre_command(x, req, mod, B0)
    BY DEF ManageSIndexDeleteController
  <2>2. \A d : B0(d) = B(d)
    <3> HIDE DEF C
    <3>1. ASSUME NEW d PROVE B0(d) = B(d)
      <4>1. CASE ~d.warn
        BY <4>1
      <4>2. CASE d.warn /\ d.nodes = {}
        BY <4>2 DEF Call, CallAll, ReadPlan
      <4>3. CASE d.warn /\ d.nodes # {}
        <5> DEFINE S == [d EXCEPT !.seen = Tail(@)]  F == [n \in DOMAIN Head(d.seen) |-> Head(d.seen)[n][1]]
                   Z == IF Came(F, "ok") # DOMAIN F THEN End(S, <<Raise>>) ELSE Confirm(S, TRUE, <<>>, C(S))
                   k == [n \in d.nodes |-> <<WhenLost("without", info_sindex_statistics(Word(d))) \o info_build>>]
        <5>1. B0(d) = First(CallStep(k), IF d.seen = <<>> THEN End(d, <<>>) ELSE Z)
          BY <4>3 DEF Call, CallAll, Given
        <5>2. Z = A(Rest(d), Head(d.seen)) /\ k = Each(ms(d))
          BY DEF Rest, Firsts, Each
        <5> HIDE DEF Z, A, k, ms, B0
        <5> QED
          BY <5>1, <5>2, <4>3 DEF ReadPlan, CallPlan
      <4> QED
        BY <4>1, <4>2, <4>3
    <3> QED
      BY <3>1
  <2> HIDE DEF B0, B
  <2>4. ManageSIndexDeleteController(x) = Commands_(x, req, mod, g, B0(Grouped(x, req, mod, g)))
    BY <2>1, <1>1 DEF pre_command, WithGroups, Given, Commands_
  <2> QED
    BY <2>2, <2>4
<1>6. ASSUME NEW d, NEW f, Further(d, f) PROVE Grown(C(d), C(f))
  BY <1>6, WordSame, AtPrincipalOrRaiseGrown, ChangesAsk1
<1>7. ASSUME NEW d, NEW f, NEW a, Further(d, f) PROVE Heeds(d.warn, A(d, a), A(f, a))
  <2>1. Grown(C(d), C(f)) /\ Heeds(d.warn, End(d, <<Raise>>), End(f, <<Raise>>))
    BY <1>6, <1>7, EndHeeds, Helps
  <2> HIDE DEF C
  <2>2. Heeds(d.warn, Confirm(d, TRUE, <<>>, C(d)), Confirm(f, TRUE, <<>>, C(f)))
    BY <2>1, ConfirmHeeds
  <2> QED
    BY <2>1, <2>2
<1> HIDE DEF A
<1>2. ASSUME NEW d, NEW f, Further(d, f) PROVE Heeds(d.warn, B(d), B(f))
  <2>1. f.nodes = d.nodes /\ f.warn = d.warn /\ Word(f) = Word(d)
    BY <1>2, FurtherSame, WordSame
  <2>2. DOMAIN ms(d) = d.nodes /\ d.nodes \subseteq Node /\ (\A n \in DOMAIN ms(d) : Reading(ms(d)[n])) /\ ms(f) = ms(d)
    BY <1>2, <2>1, ReadsSimple, ReadsOf, WhenLostReads, ReadingJoined, GoodContexts DEF GoodContext
  <2>3. f.seen # <<>> /\ Further(Rest(f), Rest(f)) => WellFormed(A(Rest(f), Head(f.seen)))
    BY <1>7, HeedsWell
  <2>5. d.seen # <<>> /\ Further(Rest(d), Rest(f)) /\ Head(f.seen) = Head(d.seen)
        /\ Rest(d).warn = d.warn /\ Rest(d).nodes = d.nodes
          => Heeds(d.warn, A(Rest(d), Head(d.seen)), A(Rest(f), Head(f.seen)))
    BY <1>7
  <2>6. Heeds(d.warn, ReadPlan(d, d.nodes, ms(d), A(Rest(d), Head(d.seen))),
                      ReadPlan(f, d.nodes, ms(d), A(Rest(f), Head(f.seen))))
    <3> HIDE DEF ms
    <3> QED
      BY <1>2, <2>2, <2>3, <2>5, ReadOnAt
  <2>7. Grown(C(d), C(f))
    BY <1>2, <1>6
  <2> HIDE DEF ms, C, A
  <2> QED
    BY <2>1, <2>2, <2>6, <2>7 DEF Heeds
<1> HIDE DEF B, g
<1>8. Heeds(c.warn, B(Grouped(c, req, mod, g)), B(Grouped(e, req, mod, g)))
  BY <1>2, GroupedFurther
<1>9. e.line = c.line
  BY FurtherSame
<1> HIDE DEF req, mod
<1> QED
  BY <1>1, <1>8, <1>9, Commanded

(* A call that sends no change, and what depends on its answers.           *)
LEMMA CallHeeds ==
  ASSUME NEW c, NEW e, Further(c, e), NEW w, NEW asks, WellAsked(asks), ~Sends(CallStep(asks)),
         NEW p, NEW q,
         c.seen # <<>> /\ Further(Rest(c), Rest(e)) /\ Head(e.seen) = Head(c.seen)
           => Heeds(w, p, q),
         e.seen # <<>> /\ Further(Rest(e), Rest(e)) => WellFormed(q)
  PROVE  Heeds(w, CallPlan(c, asks, p), CallPlan(e, asks, q))
<1>1. c.seen # <<>> => Heeds(w, p, q)
  BY FurtherRest
<1>2. e.seen # <<>> => WellFormed(q)
  BY GoodContexts, GoodRest, FurtherRefl
<1>3. Grown(CallPlan(c, asks, p), CallPlan(e, asks, q))
  <2>1. c.seen # <<>> => Grown(p, q)
    BY <1>1 DEF Heeds
  <2> QED
    BY <2>1, <1>2, CallGrown
<1>4. ASSUME w PROVE AskFirst(CallPlan(c, asks, p))
  <2>1. c.seen # <<>> => Grown(p, q) /\ AskFirst(p)
    BY <1>1, <1>4 DEF Heeds
  <2> QED
    BY <2>1, <1>2, CallGrown
<1> QED
  BY <1>3, <1>4 DEF Heeds

(* Methods that only read, at nodes or here, are well asked and send no    *)
(* change.                                                                 *)
LEMMA ReadsAsked ==
  ASSUME NEW ms, DOMAIN ms \subseteq Node \union {Here}, \A n \in DOMAIN ms : Reading(ms[n])
  PROVE  WellAsked(Each(ms)) /\ ~Sends(CallStep(Each(ms)))
<1>1. Methods(ms) /\ \A n \in DOMAIN ms : ReadsOnlyOf(ms[n])
  BY ReadingReads DEF Methods
<1> QED
  BY <1>1, EachAsked

(* A command that misses a modifier says so and raises; else it heeds a    *)
(* warning as its plan does.                                               *)
LEMMA CommandedAs ==
  ASSUME NEW c, NEW e, Further(c, e), NEW w, NEW required, NEW modifiers, NEW g, NEW p, NEW q,
         Heeds(w, p, q)
  PROVE  Heeds(w, Commands_(c, required, modifiers, g, p), Commands_(e, required, modifiers, g, q))
<1>1. Heeds(w, End(Grouped(c, required, modifiers, g), <<Tell("help"), Raise>>),
               End(Grouped(e, required, modifiers, g), <<Tell("help"), Raise>>))
  BY EndHeeds, Helps
<1> QED
  BY <1>1 DEF Commands_

(* A plan that nothing comes before is itself.                             *)
LEMMA JoinedPlain ==
  ASSUME NEW c, NEW p, IsPlan(p)
  PROVE  [p EXCEPT !.steps = <<>> \o @] = p
<1> DEFINE s == p.steps  u == <<>> \o p.steps
<1>1. u = s
  BY DEF IsPlan, IsSeq
<1> HIDE DEF u, s
<1>2. [p EXCEPT !.steps = u] = [p EXCEPT !.steps = s]
  BY <1>1
<1>3. [p EXCEPT !.steps = s] = p
  BY DEF IsPlan, s
<1> QED
  BY <1>2, <1>3 DEF u

(* manage truncate: asks first when it warns; more answers only add steps. *)
LEMMA ManageTruncateControllerHeeds ==
  ASSUME NEW c, NEW e, Further(c, e)
  PROVE  Behaves(c, ManageTruncateController(c), ManageTruncateController(e))
<1> DEFINE req == {"ns"}  mod == {"set", "before", "undo"}
           g == parse_modifiers(c.line, req \union mod)
           w == ~check_arg(c, "--no-warn")
           N(f) == OneOf(f, "ns")  T(f) == f.args["set"]  U(f) == check_arg(f, "undo")
           r(f) == IF U(f) THEN info_truncate_undo(Principal, N(f), T(f))
                   ELSE info_truncate(Principal, N(f), T(f))
           S(f, h, v) == Confirm(h, v, <<>>, AtPrincipal(h, r(f), Success))
           ms(f) == [n \in Node |-> (IF T(f) = "" THEN info_namespace_statistics(N(f))
                                     ELSE info_set_statistics(N(f), T(f)))
                      \o IF T(f) # "" /\ n = Principal THEN info_namespace_statistics(N(f)) ELSE <<>>]
           A(f, h, a, v) == IF Came(Firsts(a), "ok") = Node THEN S(f, h, v) ELSE End(h, <<Raise>>)
           C(f, v) == IF v /\ ~U(f) THEN CallPlan(f, Each(ms(f)), A(f, Rest(f), Head(f.seen), v))
                      ELSE S(f, f, v)
           D(f, v) == IF U(f) /\ Has(f, "before") THEN End(f, <<Tell("help"), Complain>>)
                      ELSE IF ~_parse_lut(f) THEN End(f, <<Raise>>) ELSE C(f, v)
           C0(f, v) == Joined(IF v /\ ~U(f) THEN Counted(f, N(f), T(f)) ELSE Reached(f, TRUE),
                              LAMBDA h, ok : S(f, h, v))
           D0(f, v) == IF U(f) /\ Has(f, "before") THEN End(f, <<Tell("help"), Complain>>)
                       ELSE IF ~_parse_lut(f) THEN End(f, <<Raise>>) ELSE C0(f, v)
           K(d) == check_arg_and_delete_from_mods(d, "--no-warn", d.keys)
           L(f) == get_arg_and_delete_from_mods(f, "set", {"ns"})
           E(f, v) == IF Unrecognized(f) THEN End(f, <<Complain>>) ELSE D(L(f), v)
           B(d) == E(K(d), ~check_arg(d, "--no-warn"))
           B0(d) == Given(K(d), LAMBDA f :
                      IF Unrecognized(f) THEN End(f, <<Complain>>)
                      ELSE Given(L(f), LAMBDA h : D0(h, ~check_arg(d, "--no-warn"))))
<1>20. ASSUME NEW f, NEW h, NEW v PROVE IsPlan(S(f, h, v))
  <2>1. IsSeq(r(f))
    BY ChangesAsk3
  <2> HIDE DEF r
  <2> DEFINE x == [h EXCEPT !.seen = Tail(@)]
  <2> DEFINE p == AtPrincipal(h, r(f), Success)
  <2>2. IsPlan(p)
    <3> DEFINE z == CASE Firsts(Head(h.seen))[Principal].came = "ok" -> End(Rest(h), Success)
                      [] Firsts(Head(h.seen))[Principal].came = "refused" -> End(Rest(h), <<Complain>>)
                      [] OTHER -> End(Rest(h), <<Raise>>)
               y == IF h.seen = <<>> THEN End(h, <<>>) ELSE z
    <3>1. p = First(CallStep(Each([n \in {Principal} |-> r(f)])), y)
      BY AtPrincipalUnfolds DEF CallPlan
    <3>2. WellFormed(z) /\ WellFormed(End(h, <<>>))
      BY EndWellFormed, Helps
    <3> HIDE DEF z, p
    <3>3. IsPlan(y)
      BY <3>2 DEF WellFormed
    <3> HIDE DEF y
    <3> QED
      BY <3>1, <3>3, FirstSteps
  <2> HIDE DEF p
  <2>3. S(f, h, v) = IF v THEN First(AskUser(<<>>), p) ELSE p
    BY DEF Confirm, Telling, p
  <2> QED
    BY <2>2, <2>3, FirstSteps
<1>1. ASSUME NEW x, x.line = c.line
      PROVE  ManageTruncateController(x) = Commands_(x, req, mod, g, B(Grouped(x, req, mod, g)))
  <2>1. ManageTruncateController(x) = pre_command(x, req, mod, B0)
    BY DEF ManageTruncateController
  <2>2. ASSUME NEW d PROVE B0(d) = B(d)
    <3>1. B0(d) = IF Unrecognized(K(d)) THEN End(K(d), <<Complain>>) ELSE D0(L(K(d)), ~check_arg(d, "--no-warn"))
      <4> HIDE DEF D0, K, L
      <4> QED
        BY DEF Given
    <3>2. ASSUME NEW f, NEW v PROVE C0(f, v) = C(f, v)
      <4>1. CASE ~(v /\ ~U(f))
        <5> DEFINE p == S(f, f, v)
        <5>1. C0(f, v) = Joined(Reached(f, TRUE), LAMBDA h, ok : S(f, h, v))
          BY <4>1
        <5>2. Joined(Reached(f, TRUE), LAMBDA h, ok : S(f, h, v)) = [p EXCEPT !.steps = <<>> \o @]
          <6> HIDE DEF S
          <6> DEFINE y == Reached(f, TRUE)
                     W(t) == IF t.reached = <<>> THEN t
                             ELSE [S(f, t.reached[1], v) EXCEPT !.steps = t.steps \o @]
          <6>1. Joined(y, LAMBDA h, ok : S(f, h, v)) = Given(y, W)
            BY DEF Joined
          <6>2. Given(y, W) = W(y)
            <7> HIDE DEF W, y
            <7> QED
              BY DEF Given
          <6>3. y.reached = <<f, TRUE>> /\ y.steps = <<>>
            BY DEF Reached, End
          <6>4. W(y) = [S(f, f, v) EXCEPT !.steps = <<>> \o @]
            <7> HIDE DEF y
            <7> QED
              BY <6>3
          <6> QED
            BY <6>1, <6>2, <6>4
        <5>3. IsPlan(p)
          BY <1>20
        <5> HIDE DEF p, C0
        <5>4. C0(f, v) = p
          BY <5>1, <5>2, <5>3, JoinedPlain
        <5> QED
          BY <5>4, <4>1 DEF p
      <4>2. CASE v /\ ~U(f)
        <5> DEFINE h == Rest(f)  a == Head(f.seen)  p == S(f, h, v)
                   Z == IF Came(Firsts(a), "ok") = Node THEN Reached(h, TRUE) ELSE End(h, <<Raise>>)
                   q == CallPlan(f, Each(ms(f)), Z)
        <5>1. C0(f, v) = Joined(q, LAMBDA h_, ok : S(f, h_, v))
          <6>1. Counted(f, N(f), T(f)) = q
            <7> HIDE DEF N, T
            <7>0. Node # {}
              BY PrincipalIsNode
            <7> DEFINE S_ == [f EXCEPT !.seen = Tail(@)]  F == [n \in DOMAIN Head(f.seen) |-> Head(f.seen)[n][1]]
                       Y == IF Came(F, "ok") = Node THEN Reached(S_, TRUE) ELSE End(S_, <<Raise>>)
                       k == [n \in Node |-> <<(IF T(f) = "" THEN info_namespace_statistics(N(f))
                                     ELSE info_set_statistics(N(f), T(f)))
                      \o IF T(f) # "" /\ n = Principal THEN info_namespace_statistics(N(f)) ELSE <<>> >>]
            <7>1. Counted(f, N(f), T(f)) = First(CallStep(k), IF f.seen = <<>> THEN End(f, <<>>) ELSE Y)
              BY <7>0 DEF Counted, Call, CallAll, Given
            <7>2. Y = Z /\ k = Each(ms(f))
              BY DEF Rest, Firsts, Each
            <7> HIDE DEF Y, k, Z, ms
            <7> QED
              BY <7>1, <7>2 DEF CallPlan
          <6> HIDE DEF q, S, U, N, T
          <6> QED
            BY <4>2, <6>1
        <5> DEFINE W(t) == IF t.reached = <<>> THEN t
                           ELSE [S(f, t.reached[1], v) EXCEPT !.steps = t.steps \o @]
        <5>9. Joined(q, LAMBDA h_, ok : S(f, h_, v)) = W(q)
          <6> HIDE DEF q, S
          <6>1. Joined(q, LAMBDA h_, ok : S(f, h_, v)) = Given(q, W)
            BY DEF Joined
          <6> HIDE DEF W
          <6> QED
            BY <6>1 DEF Given
        <5>2. q.reached = IF f.seen = <<>> THEN <<>> ELSE Z.reached
          <6>1. \A x_, y : DOMAIN y = {"mods", "steps", "reached"} => First(x_, y).reached = y.reached
            BY DEF First
          <6>2. DOMAIN Z = {"mods", "steps", "reached"} /\ DOMAIN End(f, <<>>) = {"mods", "steps", "reached"}
                /\ End(f, <<>>).reached = <<>>
            BY DEF Reached, End
          <6> HIDE DEF Z
          <6> QED
            BY <6>1, <6>2 DEF CallPlan
        <5>3. CASE f.seen = <<>> \/ Came(Firsts(a), "ok") # Node
          <6>1. q.reached = <<>>
            <7>1. f.seen # <<>> => Z.reached = <<>>
              BY <5>3 DEF End
            <7> HIDE DEF q, Z
            <7> QED
              BY <5>2, <7>1
          <6>2. C0(f, v) = q
            <7> HIDE DEF q, C0, S
            <7> QED
              BY <5>1, <5>9, <6>1
          <6>3. f.seen # <<>> => Z = A(f, h, a, v)
            BY <5>3
          <6>4. q = CallPlan(f, Each(ms(f)), A(f, Rest(f), Head(f.seen), v))
            <7> HIDE DEF Z, A, ms
            <7> QED
              BY <6>3 DEF CallPlan
          <6> HIDE DEF q, C0
          <6>5. C(f, v) = CallPlan(f, Each(ms(f)), A(f, Rest(f), Head(f.seen), v))
            BY <4>2
          <6> QED
            BY <6>2, <6>4, <6>5
        <5>4. CASE f.seen # <<>> /\ Came(Firsts(a), "ok") = Node
          <6> DEFINE x_ == CallStep(Each(ms(f)))
          <6>1. q.reached = <<h, TRUE>> /\ q.steps = <<x_>> \o <<>>
            <7>1. Z = Reached(h, TRUE)
              BY <5>4
            <7>2. q = First(x_, Reached(h, TRUE))
              BY <5>4, <7>1 DEF CallPlan
            <7> HIDE DEF q, x_
            <7> QED
              BY <7>2 DEF First, Reached, End
          <6>2. C0(f, v) = [p EXCEPT !.steps = (<<x_>> \o <<>>) \o @]
            <7> HIDE DEF q, C0, S, x_
            <7>1. Joined(q, LAMBDA h_, ok : S(f, h_, v)) = [S(f, q.reached[1], v) EXCEPT !.steps = q.steps \o @]
              <8>1. q.reached # <<>>
                BY <6>1
              <8>2. W(q) = [S(f, q.reached[1], v) EXCEPT !.steps = q.steps \o @]
                BY <8>1
              <8> HIDE DEF W
              <8> QED
                BY <8>2, <5>9
            <7>2. q.reached[1] = h /\ q.steps = <<x_>> \o <<>>
              BY <6>1
            <7>3. [S(f, q.reached[1], v) EXCEPT !.steps = q.steps \o @] = [p EXCEPT !.steps = (<<x_>> \o <<>>) \o @]
              BY <7>2
            <7> QED
              BY <5>1, <7>1, <7>3
          <6>3. (<<x_>> \o <<>>) = <<x_>>
            OBVIOUS
          <6>4. C0(f, v) = First(x_, p)
            <7> HIDE DEF x_, p, C0
            <7> QED
              BY <6>2, <6>3 DEF First
          <6>5. A(f, h, a, v) = p
            BY <5>4
          <6>6. C(f, v) = First(x_, A(f, h, a, v))
            <7>1. C(f, v) = CallPlan(f, Each(ms(f)), A(f, Rest(f), Head(f.seen), v))
              BY <4>2
            <7> HIDE DEF A, C, ms
            <7> QED
              BY <7>1, <5>4 DEF CallPlan
          <6> HIDE DEF C0, C, A, p
          <6> QED
            BY <6>4, <6>5, <6>6
        <5> HIDE DEF C0, C, h, a
        <5> QED
          BY <5>3, <5>4
      <4> HIDE DEF C0, C
      <4> QED
        BY <4>1, <4>2
    <3>3. \A f, v : D0(f, v) = D(f, v)
      <4> HIDE DEF C0, C
      <4> QED
        BY <3>2
    <3> HIDE DEF D0, D, K, L
    <3> QED
      BY <3>1, <3>3
  <2> HIDE DEF B0, B
  <2>4. ManageTruncateController(x) = Commands_(x, req, mod, g, B0(Grouped(x, req, mod, g)))
    BY <2>1, <1>1 DEF pre_command, WithGroups, Given, Commands_
  <2> QED
    BY <2>2, <2>4
<1>3. ASSUME NEW f, NEW k, Further(f, k), NEW h, NEW m, Further(h, m), NEW v
      PROVE  Heeds(v, S(f, h, v), S(k, m, v)) /\ r(k) = r(f)
  <2>1. r(k) = r(f) /\ IsSeq(r(f))
    <3>1. N(k) = N(f) /\ T(k) = T(f) /\ (U(k) <=> U(f))
      BY <1>3, WordSame, FurtherSame DEF check_arg
    <3>2. IsSeq(r(f))
      BY ChangesAsk3
    <3> HIDE DEF N, T, U
    <3> QED
      BY <3>1, <3>2
  <2> HIDE DEF r
  <2> QED
    BY <1>3, <2>1, AskedHeeds, Helps
<1> HIDE DEF r, S
<1>4. ASSUME NEW f, NEW k, Further(f, k), NEW h, NEW m, Further(h, m), NEW a, NEW v
      PROVE  Heeds(v, A(f, h, a, v), A(k, m, a, v))
  <2>1. Heeds(v, S(f, h, v), S(k, m, v))
    BY <1>3, <1>4
  <2>2. Heeds(v, End(h, <<Raise>>), End(m, <<Raise>>))
    BY EndHeeds, Helps
  <2> QED
    BY <2>1, <2>2
<1> HIDE DEF A
<1>5. ASSUME NEW f, NEW k, Further(f, k), NEW v
      PROVE  Heeds(v, C(f, v), C(k, v))
  <2>1. (U(k) <=> U(f)) /\ N(k) = N(f) /\ T(k) = T(f)
    BY <1>5, WordSame, FurtherSame DEF check_arg
  <2> HIDE DEF U, N, T
  <2>2. ms(k) = ms(f) /\ DOMAIN ms(f) = Node /\ \A n \in DOMAIN ms(f) : Reading(ms(f)[n])
    BY <2>1, ReadsOf, ReadingJoined, ReadingOne
  <2> HIDE DEF ms
  <2>3. WellAsked(Each(ms(f))) /\ ~Sends(CallStep(Each(ms(f))))
    BY <2>2, ReadsAsked
  <2> DEFINE p == A(f, Rest(f), Head(f.seen), v)  q == A(k, Rest(k), Head(k.seen), v)
  <2>4. f.seen # <<>> /\ Further(Rest(f), Rest(k)) /\ Head(k.seen) = Head(f.seen) => Heeds(v, p, q)
    BY <1>4, <1>5
  <2>5. k.seen # <<>> /\ Further(Rest(k), Rest(k)) => WellFormed(q)
    <3>1. Further(k, k)
      BY <1>5, FurtherRefl, GoodContexts
    <3> QED
      BY <3>1, <1>4, HeedsWell
  <2> HIDE DEF p, q
  <2>6. Heeds(v, CallPlan(f, Each(ms(f)), p), CallPlan(k, Each(ms(f)), q))
    BY <1>5, <2>3, <2>4, <2>5, CallHeeds
  <2>7. Heeds(v, S(f, f, v), S(k, k, v))
    BY <1>3, <1>5
  <2> QED
    BY <2>1, <2>2, <2>6, <2>7 DEF p, q
<1> HIDE DEF C
<1>6. ASSUME NEW f, NEW k, Further(f, k), NEW v
      PROVE  Heeds(v, D(f, v), D(k, v))
  <2>1. (U(k) <=> U(f)) /\ Has(k, "before") = Has(f, "before") /\ (_parse_lut(k) <=> _parse_lut(f))
    BY <1>6, WordSame, FurtherSame DEF check_arg, _parse_lut
  <2>2. Heeds(v, End(f, <<Tell("help"), Complain>>), End(k, <<Tell("help"), Complain>>))
        /\ Heeds(v, End(f, <<Raise>>), End(k, <<Raise>>))
    BY EndHeeds, Helps
  <2> HIDE DEF U
  <2> QED
    BY <1>5, <1>6, <2>1, <2>2
<1> HIDE DEF D
<1>7. ASSUME NEW f, NEW k, Further(f, k), NEW v
      PROVE  Heeds(v, E(f, v), E(k, v))
  <2>1. Unrecognized(k) <=> Unrecognized(f)
    BY <1>7, WordSame, FurtherSame DEF Unrecognized
  <2>2. Further(L(f), L(k))
    BY <1>7, GotFurther
  <2>3. Heeds(v, End(f, <<Complain>>), End(k, <<Complain>>))
    BY EndHeeds, Helps
  <2> HIDE DEF L
  <2> QED
    BY <1>6, <2>1, <2>2, <2>3
<1> HIDE DEF E
<1>2. ASSUME NEW d, NEW f, Further(d, f), d.line = c.line PROVE Heeds(w, B(d), B(f))
  <2>1. Further(K(d), K(f))
    BY <1>2, DroppedFurther, FurtherSame
  <2> HIDE DEF K
  <2>2. (check_arg(d, "--no-warn") <=> check_arg(c, "--no-warn"))
        /\ (check_arg(f, "--no-warn") <=> check_arg(c, "--no-warn"))
    BY <1>2, FurtherSame DEF check_arg
  <2>3. Heeds(w, E(K(d), w), E(K(f), w))
    BY <2>1, <1>7
  <2>4. (~check_arg(d, "--no-warn")) = w /\ (~check_arg(f, "--no-warn")) = w
    BY <2>2 DEF check_arg
  <2> QED
    BY <2>3, <2>4
<1> HIDE DEF B, g, w
<1>8. Heeds(w, B(Grouped(c, req, mod, g)), B(Grouped(e, req, mod, g)))
  BY <1>2, GroupedFurther
<1>9. e.line = c.line
  BY FurtherSame
<1> HIDE DEF req, mod
<1>10. Heeds(w, ManageTruncateController(c), ManageTruncateController(e))
  BY <1>1, <1>8, <1>9, CommandedAs
<1>11. Warned(c) => w
  BY DEF Warned, w, check_arg
<1> QED
  BY <1>10, <1>11 DEF Heeds, Behaves

RosterAsks(c, roster) ==
  [n \in c.nodes |-> (IF n = Principal THEN <<roster>> ELSE <<>>)
                       \o <<WhenLost("without", info_cluster_stable)>>]
RosterPlan(c, roster, p) ==
  IF c.nodes = {} THEN End(c, <<Raise>>) ELSE CallPlan(c, RosterAsks(c, roster), p)

(* To read a roster, and what is staged of it, sends no change.            *)
LEMMA RosterAsked ==
  ASSUME NEW c, GoodContext(c), NEW roster, Reading(roster)
  PROVE  WellAsked(RosterAsks(c, roster)) /\ ~Sends(CallStep(RosterAsks(c, roster)))
<1> DEFINE k == RosterAsks(c, roster)
           s == WhenLost("without", info_cluster_stable)
<1>1. Reading(s)
  BY ReadsSimple, WhenLostReads
<1> HIDE DEF s
<1>2. ASSUME NEW n \in DOMAIN k
      PROVE  IsSeq(k[n]) /\ \A i \in 1 .. Len(k[n]) : Reading(k[n][i])
  <2>1. k[n] = (IF n = Principal THEN <<roster>> ELSE <<>>) \o <<s>>
    BY DEF RosterAsks, s
  <2> DEFINE x == IF n = Principal THEN <<roster>> ELSE <<>>
  <2>2. IsSeq(x) /\ ToSet(x) \subseteq {roster}
    BY SeqOneElems
  <2>3. IsSeq(<<s>>) /\ ToSet(<<s>>) = {s}
    BY SeqOneElems
  <2>4. k[n] = x \o <<s>>
    BY <2>1
  <2> DEFINE y == <<s>>  t == k[n]
  <2>5. IsSeq(t) /\ ToSet(t) \subseteq {roster, s}
    <3> HIDE DEF x
    <3>1. IsSeq(y) /\ ToSet(y) = {s} /\ t = x \o y
      BY <2>3, <2>4
    <3> HIDE DEF y, t
    <3>2. IsSeq(x \o y) /\ ToSet(x \o y) = ToSet(x) \union ToSet(y)
      BY <2>2, <3>1, SeqJoinedElems
    <3> QED
      BY <2>2, <3>1, <3>2
  <2> HIDE DEF t
  <2>6. \A i \in 1 .. Len(t) : t[i] \in {roster, s}
    BY <2>5, SeqElems
  <2>7. IsSeq(t) /\ \A i \in 1 .. Len(t) : Reading(t[i])
    BY <2>5, <2>6, <1>1
  <2> QED
    BY <2>7 DEF t
<1>3. DOMAIN k \subseteq Node
  BY DEF RosterAsks, GoodContext
<1> HIDE DEF k
<1>4. WellAsked(k)
  BY <1>2, <1>3, ReadingIs DEF WellAsked
<1>5. ASSUME Sends(CallStep(k)) PROVE FALSE
  <2>1. PICK n \in DOMAIN k : \E i \in 1 .. Len(k[n]) : \E j \in 1 .. Len(k[n][i]) : Wants(k[n][i][j])
    BY <1>5, StepKinds DEF Sends
  <2>2. PICK i \in 1 .. Len(k[n]) : \E j \in 1 .. Len(k[n][i]) : Wants(k[n][i][j])
    BY <2>1
  <2>3. ReadsOnlyOf(k[n][i])
    BY <1>2, ReadingReads
  <2> QED
    BY <2>2, <2>3 DEF ReadsOnlyOf
<1> QED
  BY <1>4, <1>5 DEF k

(* A roster is read before it is edited: the plan heeds if what comes      *)
(* after does.                                                             *)
LEMMA RosterHeeds ==
  ASSUME NEW c, NEW e, Further(c, e), NEW w, NEW roster, Reading(roster), NEW p, NEW q,
         c.seen # <<>> /\ Further(Rest(c), Rest(e)) /\ Head(e.seen) = Head(c.seen)
           => Heeds(w, p, q),
         e.seen # <<>> /\ Further(Rest(e), Rest(e)) => WellFormed(q)
  PROVE  Heeds(w, RosterPlan(c, roster, p), RosterPlan(e, roster, q))
<1>1. e.nodes = c.nodes /\ RosterAsks(e, roster) = RosterAsks(c, roster)
  BY FurtherSame DEF RosterAsks
<1>2. CASE c.nodes = {}
  BY <1>1, <1>2, EndHeeds, Helps DEF RosterPlan
<1>3. CASE c.nodes # {}
  <2> DEFINE k == RosterAsks(c, roster)
  <2>1. WellAsked(k) /\ ~Sends(CallStep(k))
    BY RosterAsked, GoodContexts
  <2>2. RosterPlan(c, roster, p) = CallPlan(c, k, p) /\ RosterPlan(e, roster, q) = CallPlan(e, k, q)
    BY <1>1, <1>3 DEF RosterPlan
  <2> HIDE DEF k
  <2> QED
    BY <2>1, <2>2, CallHeeds
<1> QED
  BY <1>2, <1>3

(* SetRoster asks first when it is to.                                     *)
LEMMA SetRosterHeeds ==
  ASSUME NEW c, NEW e, Further(c, e), NEW asked, NEW roster, NEW w, w => asked
  PROVE  Heeds(w, SetRoster(c, asked, roster), SetRoster(e, asked, roster))
<1>1. OneOf(e, "ns") = OneOf(c, "ns")
  BY WordSame
<1> DEFINE r == info_roster_set(OneOf(c, "ns"), roster)
           p == AtPrincipal(c, r, Success \o Recluster)  q == AtPrincipal(e, r, Success \o Recluster)
<1>2. IsSeq(r) /\ SilentSteps(Success \o Recluster)
  BY ChangesAsk1, Helps
<1>3. /\ SetRoster(c, asked, roster) = Confirm(c, asked, roster, p)
      /\ SetRoster(e, asked, roster) = Confirm(e, asked, roster, q)
  BY <1>1 DEF SetRoster
<1> HIDE DEF r
<1>4. Grown(p, q)
  BY <1>2, AtPrincipalGrown
<1> HIDE DEF p, q
<1> QED
  BY <1>3, <1>4, ConfirmHeeds

(* What is warned of before a plan leaves it heeding.                      *)
LEMMA WarningsHeed ==
  ASSUME NEW w, NEW p, NEW q, Heeds(w, p, q), NEW warn, NEW fine
  PROVE  Heeds(w, Warnings(warn, fine, p), Warnings(warn, fine, q))
  BY FirstHeeds, Helps DEF Warnings

(* What is read of a roster only reads.                                    *)
LEMMA RosterReads == \A c : Reading(Roster(c))
  BY ReadsOf, ReadingJoined DEF Roster

(* manage roster add: asks first when it warns; more answers only add      *)
(* steps.                                                                  *)
LEMMA ManageRosterAddControllerHeeds ==
  ASSUME NEW c, NEW e, Further(c, e)
  PROVE  Behaves(c, ManageRosterAddController(c), ManageRosterAddController(e))
<1> DEFINE req == {"nodes", "ns"}  mod == {}
           g == parse_modifiers(c.line, req \union mod)
           w == ~check_arg(c, "--no-warn")
           A(f, a, v) == IF (a[Principal][1].came # "ok" \/ (v /\ _check_and_log_cluster_stable(a) = "raises")) THEN End(f, <<Raise>>)
                         ELSE Warnings(v, (_check_and_log_cluster_stable(a) = "stable") /\ _check_and_log_nodes_in_observed(a[Principal][1].vals[2], Mod(f, "nodes")), SetRoster(f, v, a[Principal][1].vals[1] \o Mod(f, "nodes")))
           P(f, v) == RosterPlan(f, Roster(f), A(Rest(f), Head(f.seen), v))
           R(f, v) == ReadRoster(f, Roster(f), v,
             LAMBDA h, read, stable : Warnings(v,
             stable /\ _check_and_log_nodes_in_observed(read[2], Mod(h, "nodes")),
             SetRoster(h, v, read[1] \o Mod(h, "nodes"))))
           K(d) == check_arg_and_delete_from_mods(d, "--no-warn", d.keys)
           B(d) == P(K(d), ~check_arg(d, "--no-warn"))
           B0(d) == Given(K(d), LAMBDA f : R(f, ~check_arg(d, "--no-warn")))
<1>1. ASSUME NEW x, x.line = c.line
      PROVE  ManageRosterAddController(x) = Commands_(x, req, mod, g, B(Grouped(x, req, mod, g)))
  <2>1. ManageRosterAddController(x) = pre_command(x, req, mod, B0)
    BY DEF ManageRosterAddController
  <2>2. \A d : B0(d) = B(d)
    <3>1. ASSUME NEW f, NEW v PROVE R(f, v) = RosterPlan(f, Roster(f), A(Rest(f), Head(f.seen), v))
      <4>1. CASE f.nodes = {}
        BY <4>1 DEF ReadRoster, CallAll, RosterPlan
      <4>2. CASE f.nodes # {}
        <5> DEFINE S == [f EXCEPT !.seen = Tail(@)]  a == Head(f.seen)
                   Z == IF (a[Principal][1].came # "ok" \/ (v /\ _check_and_log_cluster_stable(a) = "raises")) THEN End(S, <<Raise>>)
                        ELSE Warnings(v, (_check_and_log_cluster_stable(a) = "stable") /\ _check_and_log_nodes_in_observed(a[Principal][1].vals[2], Mod(S, "nodes")), SetRoster(S, v, a[Principal][1].vals[1] \o Mod(S, "nodes")))
                   k == [n \in f.nodes |-> (IF n = Principal THEN <<Roster(f)>> ELSE <<>>)
                           \o <<WhenLost("without", info_cluster_stable)>>]
                   T(h, read, stable) == Warnings(v,
                     stable /\ _check_and_log_nodes_in_observed(read[2], Mod(h, "nodes")),
                     SetRoster(h, v, read[1] \o Mod(h, "nodes")))
                   Y == IF (a[Principal][1].came # "ok" \/ (v /\ _check_and_log_cluster_stable(a) = "raises")) THEN End(S, <<Raise>>)
                        ELSE T(S, a[Principal][1].vals, (_check_and_log_cluster_stable(a) = "stable"))
        <5>3. R(f, v) = ReadRoster(f, Roster(f), v, T)
          OBVIOUS
        <5>4. ReadRoster(f, Roster(f), v, T) = First(CallStep(k), IF f.seen = <<>> THEN End(f, <<>>) ELSE Y)
          <6> HIDE DEF T
          <6> DEFINE M(n) == (IF n = Principal THEN <<Roster(f)>> ELSE <<>>)
                                \o <<WhenLost("without", info_cluster_stable)>>
                     V(d, answers) == IF (answers[Principal][1].came # "ok" \/ (v /\ _check_and_log_cluster_stable(answers) = "raises")) THEN End(d, <<Raise>>)
                                      ELSE T(d, answers[Principal][1].vals, (_check_and_log_cluster_stable(answers) = "stable"))
                     l == [n \in f.nodes |-> M(n)]
                     z == V(S, a)
          <6>1. ReadRoster(f, Roster(f), v, T) = CallAll(f, f.nodes, M, V)
            BY DEF ReadRoster
          <6>2. CallAll(f, f.nodes, M, V) = First(CallStep(l), IF f.seen = <<>> THEN End(f, <<>>) ELSE z)
            <7> HIDE DEF M, V
            <7> QED
              BY <4>2 DEF CallAll, Given
          <6>3. z = Y /\ l = k
            OBVIOUS
          <6> HIDE DEF z, Y, l, k, M, V
          <6> QED
            BY <6>1, <6>2, <6>3
        <5>5. Y = Z
          OBVIOUS
        <5>1. R(f, v) = First(CallStep(k), IF f.seen = <<>> THEN End(f, <<>>) ELSE Z)
          <6> HIDE DEF T, Y, Z, R, k
          <6> QED
            BY <5>3, <5>4, <5>5
        <5>2. Z = A(Rest(f), a, v) /\ k = RosterAsks(f, Roster(f))
          BY DEF Rest, RosterAsks
        <5> HIDE DEF Z, A, k, R
        <5> QED
          BY <5>1, <5>2, <4>2 DEF RosterPlan, CallPlan
      <4> QED
        BY <4>1, <4>2
    <3> HIDE DEF P, R
    <3>2. \A f, v : R(f, v) = P(f, v)
      BY <3>1 DEF P
    <3>3. \A d : B0(d) = R(K(d), ~check_arg(d, "--no-warn"))
      <4> HIDE DEF K
      <4> QED
        BY DEF Given
    <3> HIDE DEF B0, K, A
    <3> QED
      BY <3>2, <3>3
  <2> HIDE DEF B0, B
  <2>4. ManageRosterAddController(x) = Commands_(x, req, mod, g, B0(Grouped(x, req, mod, g)))
    BY <2>1, <1>1 DEF pre_command, WithGroups, Given, Commands_
  <2> QED
    BY <2>2, <2>4
<1>3. ASSUME NEW f, NEW k, Further(f, k), NEW a, NEW v PROVE Heeds(v, A(f, a, v), A(k, a, v))
  <2>1. Mod(k, "nodes") = Mod(f, "nodes")
    BY <1>3, WordSame
  <2>2. Heeds(v, End(f, <<Raise>>), End(k, <<Raise>>))
    BY EndHeeds, Helps
  <2> DEFINE y(h) == a[Principal][1].vals[1] \o Mod(h, "nodes")
             x(h) == (_check_and_log_cluster_stable(a) = "stable") /\ _check_and_log_nodes_in_observed(a[Principal][1].vals[2], Mod(h, "nodes"))
             s(h) == SetRoster(h, v, y(h))
  <2>3. y(k) = y(f) /\ (x(k) <=> x(f))
    BY <2>1
  <2>8. A(f, a, v) = IF (a[Principal][1].came # "ok" \/ (v /\ _check_and_log_cluster_stable(a) = "raises")) THEN End(f, <<Raise>>) ELSE Warnings(v, x(f), s(f))
    OBVIOUS
  <2>9. A(k, a, v) = IF (a[Principal][1].came # "ok" \/ (v /\ _check_and_log_cluster_stable(a) = "raises")) THEN End(k, <<Raise>>) ELSE Warnings(v, x(k), s(k))
    OBVIOUS
  <2> HIDE DEF A, x, y
  <2>4. Heeds(v, s(f), s(k))
    BY <1>3, <2>3, SetRosterHeeds
  <2> HIDE DEF s
  <2>5. Heeds(v, Warnings(v, x(f), s(f)), Warnings(v, x(f), s(k)))
    BY <2>4, WarningsHeed
  <2>6. Warnings(v, x(k), s(k)) = Warnings(v, x(f), s(k))
    BY <2>3 DEF Warnings
  <2> QED
    BY <2>2, <2>5, <2>6, <2>8, <2>9
<1> HIDE DEF A
<1>4. ASSUME NEW f, NEW k, Further(f, k), NEW v PROVE Heeds(v, P(f, v), P(k, v))
  <2>1. Roster(k) = Roster(f) /\ Reading(Roster(f))
    BY <1>4, WordSame, RosterReads DEF Roster
  <2> DEFINE p == A(Rest(f), Head(f.seen), v)  q == A(Rest(k), Head(k.seen), v)
  <2>4. f.seen # <<>> /\ Further(Rest(f), Rest(k)) /\ Head(k.seen) = Head(f.seen) => Heeds(v, p, q)
    BY <1>3
  <2>5. k.seen # <<>> /\ Further(Rest(k), Rest(k)) => WellFormed(q)
    BY <1>3, HeedsWell
  <2> HIDE DEF p, q
  <2>6. Heeds(v, RosterPlan(f, Roster(f), p), RosterPlan(k, Roster(f), q))
    BY <1>4, <2>1, <2>4, <2>5, RosterHeeds
  <2> QED
    BY <2>1, <2>6 DEF p, q
<1> HIDE DEF P
<1>2. ASSUME NEW d, NEW f, Further(d, f), d.line = c.line PROVE Heeds(w, B(d), B(f))
  <2>1. Further(K(d), K(f))
    BY <1>2, DroppedFurther, FurtherSame
  <2> HIDE DEF K
  <2>2. (check_arg(d, "--no-warn") <=> check_arg(c, "--no-warn"))
        /\ (check_arg(f, "--no-warn") <=> check_arg(c, "--no-warn"))
    BY <1>2, FurtherSame DEF check_arg
  <2>3. Heeds(w, P(K(d), w), P(K(f), w))
    BY <2>1, <1>4
  <2>4. (~check_arg(d, "--no-warn")) = w /\ (~check_arg(f, "--no-warn")) = w
    BY <2>2 DEF check_arg
  <2> QED
    BY <2>3, <2>4
<1> HIDE DEF B, g, w
<1>8. Heeds(w, B(Grouped(c, req, mod, g)), B(Grouped(e, req, mod, g)))
  BY <1>2, GroupedFurther
<1>9. e.line = c.line
  BY FurtherSame
<1> HIDE DEF req, mod
<1>10. Heeds(w, ManageRosterAddController(c), ManageRosterAddController(e))
  BY <1>1, <1>8, <1>9, CommandedAs
<1>11. Warned(c) => w
  BY DEF Warned, w, check_arg
<1> QED
  BY <1>10, <1>11 DEF Heeds, Behaves

(* manage roster remove: asks first when it warns; more answers only add   *)
(* steps.                                                                  *)
LEMMA ManageRosterRemoveControllerHeeds ==
  ASSUME NEW c, NEW e, Further(c, e)
  PROVE  Behaves(c, ManageRosterRemoveController(c), ManageRosterRemoveController(e))
<1> DEFINE req == {"nodes", "ns"}  mod == {}
           g == parse_modifiers(c.line, req \union mod)
           w == ~check_arg(c, "--no-warn")
           A(f, a, v) == IF (a[Principal][1].came # "ok" \/ (v /\ _check_and_log_cluster_stable(a) = "raises")) THEN End(f, <<Raise>>)
                         ELSE Warnings(v, (_check_and_log_cluster_stable(a) = "stable") /\ ToSet(Mod(f,
                           "nodes")) \subseteq ToSet(a[Principal][1].vals[1]),
                           SetRoster(f, v, FoldLeft(RemoveFirst, a[Principal][1].vals[1], Mod(f, "nodes"))))
           P(f, v) == RosterPlan(f, Roster(f), A(Rest(f), Head(f.seen), v))
           R(f, v) == ReadRoster(f, Roster(f), v,
             LAMBDA h, read, stable : Warnings(v, stable /\ ToSet(Mod(h, "nodes")) \subseteq ToSet(read[1]),
             SetRoster(h, v, FoldLeft(RemoveFirst, read[1], Mod(h, "nodes")))))
           K(d) == check_arg_and_delete_from_mods(d, "--no-warn", d.keys)
           B(d) == P(K(d), ~check_arg(d, "--no-warn"))
           B0(d) == Given(K(d), LAMBDA f : R(f, ~check_arg(d, "--no-warn")))
<1>1. ASSUME NEW x, x.line = c.line
      PROVE  ManageRosterRemoveController(x) = Commands_(x, req, mod, g, B(Grouped(x, req, mod, g)))
  <2>1. ManageRosterRemoveController(x) = pre_command(x, req, mod, B0)
    BY DEF ManageRosterRemoveController
  <2>2. \A d : B0(d) = B(d)
    <3>1. ASSUME NEW f, NEW v PROVE R(f, v) = RosterPlan(f, Roster(f), A(Rest(f), Head(f.seen), v))
      <4>1. CASE f.nodes = {}
        BY <4>1 DEF ReadRoster, CallAll, RosterPlan
      <4>2. CASE f.nodes # {}
        <5> DEFINE S == [f EXCEPT !.seen = Tail(@)]  a == Head(f.seen)
                   Z == IF (a[Principal][1].came # "ok" \/ (v /\ _check_and_log_cluster_stable(a) = "raises")) THEN End(S, <<Raise>>)
                        ELSE Warnings(v, (_check_and_log_cluster_stable(a) = "stable") /\ ToSet(Mod(S,
                          "nodes")) \subseteq ToSet(a[Principal][1].vals[1]),
                          SetRoster(S, v, FoldLeft(RemoveFirst, a[Principal][1].vals[1], Mod(S, "nodes"))))
                   k == [n \in f.nodes |-> (IF n = Principal THEN <<Roster(f)>> ELSE <<>>)
                           \o <<WhenLost("without", info_cluster_stable)>>]
                   T(h, read, stable) == Warnings(v, stable /\ ToSet(Mod(h, "nodes")) \subseteq ToSet(read[1]),
                     SetRoster(h, v, FoldLeft(RemoveFirst, read[1], Mod(h, "nodes"))))
                   Y == IF (a[Principal][1].came # "ok" \/ (v /\ _check_and_log_cluster_stable(a) = "raises")) THEN End(S, <<Raise>>)
                        ELSE T(S, a[Principal][1].vals, (_check_and_log_cluster_stable(a) = "stable"))
        <5>3. R(f, v) = ReadRoster(f, Roster(f), v, T)
          OBVIOUS
        <5>4. ReadRoster(f, Roster(f), v, T) = First(CallStep(k), IF f.seen = <<>> THEN End(f, <<>>) ELSE Y)
          <6> HIDE DEF T
          <6> DEFINE M(n) == (IF n = Principal THEN <<Roster(f)>> ELSE <<>>)
                                \o <<WhenLost("without", info_cluster_stable)>>
                     V(d, answers) == IF (answers[Principal][1].came # "ok" \/ (v /\ _check_and_log_cluster_stable(answers) = "raises")) THEN End(d, <<Raise>>)
                                      ELSE T(d, answers[Principal][1].vals, (_check_and_log_cluster_stable(answers) = "stable"))
                     l == [n \in f.nodes |-> M(n)]
                     z == V(S, a)
          <6>1. ReadRoster(f, Roster(f), v, T) = CallAll(f, f.nodes, M, V)
            BY DEF ReadRoster
          <6>2. CallAll(f, f.nodes, M, V) = First(CallStep(l), IF f.seen = <<>> THEN End(f, <<>>) ELSE z)
            <7> HIDE DEF M, V
            <7> QED
              BY <4>2 DEF CallAll, Given
          <6>3. z = Y /\ l = k
            OBVIOUS
          <6> HIDE DEF z, Y, l, k, M, V
          <6> QED
            BY <6>1, <6>2, <6>3
        <5>5. Y = Z
          OBVIOUS
        <5>1. R(f, v) = First(CallStep(k), IF f.seen = <<>> THEN End(f, <<>>) ELSE Z)
          <6> HIDE DEF T, Y, Z, R, k
          <6> QED
            BY <5>3, <5>4, <5>5
        <5>2. Z = A(Rest(f), a, v) /\ k = RosterAsks(f, Roster(f))
          BY DEF Rest, RosterAsks
        <5> HIDE DEF Z, A, k, R
        <5> QED
          BY <5>1, <5>2, <4>2 DEF RosterPlan, CallPlan
      <4> QED
        BY <4>1, <4>2
    <3> HIDE DEF P, R
    <3>2. \A f, v : R(f, v) = P(f, v)
      BY <3>1 DEF P
    <3>3. \A d : B0(d) = R(K(d), ~check_arg(d, "--no-warn"))
      <4> HIDE DEF K
      <4> QED
        BY DEF Given
    <3> HIDE DEF B0, K, A
    <3> QED
      BY <3>2, <3>3
  <2> HIDE DEF B0, B
  <2>4. ManageRosterRemoveController(x) = Commands_(x, req, mod, g, B0(Grouped(x, req, mod, g)))
    BY <2>1, <1>1 DEF pre_command, WithGroups, Given, Commands_
  <2> QED
    BY <2>2, <2>4
<1>3. ASSUME NEW f, NEW k, Further(f, k), NEW a, NEW v PROVE Heeds(v, A(f, a, v), A(k, a, v))
  <2>1. Mod(k, "nodes") = Mod(f, "nodes")
    BY <1>3, WordSame
  <2>2. Heeds(v, End(f, <<Raise>>), End(k, <<Raise>>))
    BY EndHeeds, Helps
  <2> DEFINE y(h) == FoldLeft(RemoveFirst, a[Principal][1].vals[1], Mod(h, "nodes"))
             x(h) == (_check_and_log_cluster_stable(a) = "stable") /\ ToSet(Mod(h,
               "nodes")) \subseteq ToSet(a[Principal][1].vals[1])
             s(h) == SetRoster(h, v, y(h))
  <2>3. y(k) = y(f) /\ (x(k) <=> x(f))
    BY <2>1
  <2>8. A(f, a, v) = IF (a[Principal][1].came # "ok" \/ (v /\ _check_and_log_cluster_stable(a) = "raises")) THEN End(f, <<Raise>>) ELSE Warnings(v, x(f), s(f))
    OBVIOUS
  <2>9. A(k, a, v) = IF (a[Principal][1].came # "ok" \/ (v /\ _check_and_log_cluster_stable(a) = "raises")) THEN End(k, <<Raise>>) ELSE Warnings(v, x(k), s(k))
    OBVIOUS
  <2> HIDE DEF A, x, y
  <2>4. Heeds(v, s(f), s(k))
    BY <1>3, <2>3, SetRosterHeeds
  <2> HIDE DEF s
  <2>5. Heeds(v, Warnings(v, x(f), s(f)), Warnings(v, x(f), s(k)))
    BY <2>4, WarningsHeed
  <2>6. Warnings(v, x(k), s(k)) = Warnings(v, x(f), s(k))
    BY <2>3 DEF Warnings
  <2> QED
    BY <2>2, <2>5, <2>6, <2>8, <2>9
<1> HIDE DEF A
<1>4. ASSUME NEW f, NEW k, Further(f, k), NEW v PROVE Heeds(v, P(f, v), P(k, v))
  <2>1. Roster(k) = Roster(f) /\ Reading(Roster(f))
    BY <1>4, WordSame, RosterReads DEF Roster
  <2> DEFINE p == A(Rest(f), Head(f.seen), v)  q == A(Rest(k), Head(k.seen), v)
  <2>4. f.seen # <<>> /\ Further(Rest(f), Rest(k)) /\ Head(k.seen) = Head(f.seen) => Heeds(v, p, q)
    BY <1>3
  <2>5. k.seen # <<>> /\ Further(Rest(k), Rest(k)) => WellFormed(q)
    BY <1>3, HeedsWell
  <2> HIDE DEF p, q
  <2>6. Heeds(v, RosterPlan(f, Roster(f), p), RosterPlan(k, Roster(f), q))
    BY <1>4, <2>1, <2>4, <2>5, RosterHeeds
  <2> QED
    BY <2>1, <2>6 DEF p, q
<1> HIDE DEF P
<1>2. ASSUME NEW d, NEW f, Further(d, f), d.line = c.line PROVE Heeds(w, B(d), B(f))
  <2>1. Further(K(d), K(f))
    BY <1>2, DroppedFurther, FurtherSame
  <2> HIDE DEF K
  <2>2. (check_arg(d, "--no-warn") <=> check_arg(c, "--no-warn"))
        /\ (check_arg(f, "--no-warn") <=> check_arg(c, "--no-warn"))
    BY <1>2, FurtherSame DEF check_arg
  <2>3. Heeds(w, P(K(d), w), P(K(f), w))
    BY <2>1, <1>4
  <2>4. (~check_arg(d, "--no-warn")) = w /\ (~check_arg(f, "--no-warn")) = w
    BY <2>2 DEF check_arg
  <2> QED
    BY <2>3, <2>4
<1> HIDE DEF B, g, w
<1>8. Heeds(w, B(Grouped(c, req, mod, g)), B(Grouped(e, req, mod, g)))
  BY <1>2, GroupedFurther
<1>9. e.line = c.line
  BY FurtherSame
<1> HIDE DEF req, mod
<1>10. Heeds(w, ManageRosterRemoveController(c), ManageRosterRemoveController(e))
  BY <1>1, <1>8, <1>9, CommandedAs
<1>11. Warned(c) => w
  BY DEF Warned, w, check_arg
<1> QED
  BY <1>10, <1>11 DEF Heeds, Behaves

(* manage roster stage nodes: asks first when it warns; more answers only  *)
(* add steps.                                                              *)
LEMMA ManageRosterStageNodesControllerHeeds ==
  ASSUME NEW c, NEW e, Further(c, e)
  PROVE  Behaves(c, ManageRosterStageNodesController(c), ManageRosterStageNodesController(e))
<1> DEFINE req == {"line", "ns"}  mod == {}
           g == parse_modifiers(c.line, req \union mod)
           w == ~check_arg(c, "--no-warn")
           A(f, a, v) == IF (a[Principal][1].came # "ok" \/ (TRUE /\ _check_and_log_cluster_stable(a) = "raises")) THEN End(f, <<Raise>>)
                         ELSE Warnings(TRUE, (_check_and_log_cluster_stable(a) = "stable") /\ _check_and_log_nodes_in_observed(a[Principal][1].vals[2], Mod(f, "line")), SetRoster(f, TRUE, Mod(f, "line")))
           P(f, v) == RosterPlan(f, Roster(f), A(Rest(f), Head(f.seen), v))
           R(f, v) == ReadRoster(f, Roster(f), TRUE,
             LAMBDA h, read, stable : Warnings(TRUE,
             stable /\ _check_and_log_nodes_in_observed(read[2], Mod(h, "line")), SetRoster(h, TRUE, Mod(h, "line"))))
           Q(f, v) == IF ~v THEN SetRoster(f, FALSE, Mod(f, "line")) ELSE P(f, v)
           Q0(f, v) == IF ~v THEN SetRoster(f, FALSE, Mod(f, "line")) ELSE R(f, v)
           K(d) == check_arg_and_delete_from_mods(d, "--no-warn", d.keys)
           B(d) == Q(K(d), ~check_arg(d, "--no-warn"))
           B0(d) == Given(K(d), LAMBDA f : Q0(f, ~check_arg(d, "--no-warn")))
<1>1. ASSUME NEW x, x.line = c.line
      PROVE  ManageRosterStageNodesController(x) = Commands_(x, req, mod, g, B(Grouped(x, req, mod, g)))
  <2>1. ManageRosterStageNodesController(x) = pre_command(x, req, mod, B0)
    BY DEF ManageRosterStageNodesController
  <2>2. \A d : B0(d) = B(d)
    <3>1. ASSUME NEW f, NEW v PROVE R(f, v) = RosterPlan(f, Roster(f), A(Rest(f), Head(f.seen), v))
      <4>1. CASE f.nodes = {}
        BY <4>1 DEF ReadRoster, CallAll, RosterPlan
      <4>2. CASE f.nodes # {}
        <5> DEFINE S == [f EXCEPT !.seen = Tail(@)]  a == Head(f.seen)
                   Z == IF (a[Principal][1].came # "ok" \/ (TRUE /\ _check_and_log_cluster_stable(a) = "raises")) THEN End(S, <<Raise>>)
                        ELSE Warnings(TRUE, (_check_and_log_cluster_stable(a) = "stable") /\ _check_and_log_nodes_in_observed(a[Principal][1].vals[2], Mod(S, "line")), SetRoster(S, TRUE, Mod(S, "line")))
                   k == [n \in f.nodes |-> (IF n = Principal THEN <<Roster(f)>> ELSE <<>>)
                           \o <<WhenLost("without", info_cluster_stable)>>]
                   T(h, read, stable) == Warnings(TRUE,
                     stable /\ _check_and_log_nodes_in_observed(read[2], Mod(h, "line")),
                     SetRoster(h, TRUE, Mod(h, "line")))
                   Y == IF (a[Principal][1].came # "ok" \/ (TRUE /\ _check_and_log_cluster_stable(a) = "raises")) THEN End(S, <<Raise>>)
                        ELSE T(S, a[Principal][1].vals, (_check_and_log_cluster_stable(a) = "stable"))
        <5>3. R(f, v) = ReadRoster(f, Roster(f), TRUE, T)
          OBVIOUS
        <5>4. ReadRoster(f, Roster(f), TRUE, T) = First(CallStep(k), IF f.seen = <<>> THEN End(f, <<>>) ELSE Y)
          <6> HIDE DEF T
          <6> DEFINE M(n) == (IF n = Principal THEN <<Roster(f)>> ELSE <<>>)
                                \o <<WhenLost("without", info_cluster_stable)>>
                     V(d, answers) == IF (answers[Principal][1].came # "ok" \/ (TRUE /\ _check_and_log_cluster_stable(answers) = "raises")) THEN End(d, <<Raise>>)
                                      ELSE T(d, answers[Principal][1].vals, (_check_and_log_cluster_stable(answers) = "stable"))
                     l == [n \in f.nodes |-> M(n)]
                     z == V(S, a)
          <6>1. ReadRoster(f, Roster(f), TRUE, T) = CallAll(f, f.nodes, M, V)
            BY DEF ReadRoster
          <6>2. CallAll(f, f.nodes, M, V) = First(CallStep(l), IF f.seen = <<>> THEN End(f, <<>>) ELSE z)
            <7> HIDE DEF M, V
            <7> QED
              BY <4>2 DEF CallAll, Given
          <6>3. z = Y /\ l = k
            OBVIOUS
          <6> HIDE DEF z, Y, l, k, M, V
          <6> QED
            BY <6>1, <6>2, <6>3
        <5>5. Y = Z
          OBVIOUS
        <5>1. R(f, v) = First(CallStep(k), IF f.seen = <<>> THEN End(f, <<>>) ELSE Z)
          <6> HIDE DEF T, Y, Z, R, k
          <6> QED
            BY <5>3, <5>4, <5>5
        <5>2. Z = A(Rest(f), a, v) /\ k = RosterAsks(f, Roster(f))
          BY DEF Rest, RosterAsks
        <5> HIDE DEF Z, A, k, R
        <5> QED
          BY <5>1, <5>2, <4>2 DEF RosterPlan, CallPlan
      <4> QED
        BY <4>1, <4>2
    <3> HIDE DEF P, R
    <3>2. \A f, v : R(f, v) = P(f, v)
      BY <3>1 DEF P
    <3>3. \A d : B0(d) = Q0(K(d), ~check_arg(d, "--no-warn"))
      <4> HIDE DEF K, Q0
      <4> QED
        BY DEF Given
    <3>4. \A f, v : Q0(f, v) = Q(f, v)
      BY <3>2
    <3> HIDE DEF B0, K, A, Q, Q0
    <3> QED
      BY <3>3, <3>4
  <2> HIDE DEF B0, B
  <2>4. ManageRosterStageNodesController(x) = Commands_(x, req, mod, g, B0(Grouped(x, req, mod, g)))
    BY <2>1, <1>1 DEF pre_command, WithGroups, Given, Commands_
  <2> QED
    BY <2>2, <2>4
<1>3. ASSUME NEW f, NEW k, Further(f, k), NEW a, NEW v PROVE Heeds(v, A(f, a, v), A(k, a, v))
  <2>1. Mod(k, "line") = Mod(f, "line")
    BY <1>3, WordSame
  <2>2. Heeds(v, End(f, <<Raise>>), End(k, <<Raise>>))
    BY EndHeeds, Helps
  <2> DEFINE y(h) == Mod(h, "line")
             x(h) == (_check_and_log_cluster_stable(a) = "stable") /\ _check_and_log_nodes_in_observed(a[Principal][1].vals[2], Mod(h, "line"))
             s(h) == SetRoster(h, TRUE, y(h))
  <2>3. y(k) = y(f) /\ (x(k) <=> x(f))
    BY <2>1
  <2>8. A(f, a, v) = IF (a[Principal][1].came # "ok" \/ (TRUE /\ _check_and_log_cluster_stable(a) = "raises")) THEN End(f, <<Raise>>) ELSE Warnings(TRUE, x(f), s(f))
    OBVIOUS
  <2>9. A(k, a, v) = IF (a[Principal][1].came # "ok" \/ (TRUE /\ _check_and_log_cluster_stable(a) = "raises")) THEN End(k, <<Raise>>) ELSE Warnings(TRUE, x(k), s(k))
    OBVIOUS
  <2> HIDE DEF A, x, y
  <2>4. Heeds(v, s(f), s(k))
    BY <1>3, <2>3, SetRosterHeeds
  <2> HIDE DEF s
  <2>5. Heeds(v, Warnings(TRUE, x(f), s(f)), Warnings(TRUE, x(f), s(k)))
    BY <2>4, WarningsHeed
  <2>6. Warnings(TRUE, x(k), s(k)) = Warnings(TRUE, x(f), s(k))
    BY <2>3 DEF Warnings
  <2> QED
    BY <2>2, <2>5, <2>6, <2>8, <2>9
<1> HIDE DEF A
<1>4. ASSUME NEW f, NEW k, Further(f, k), NEW v PROVE Heeds(v, P(f, v), P(k, v))
  <2>1. Roster(k) = Roster(f) /\ Reading(Roster(f))
    BY <1>4, WordSame, RosterReads DEF Roster
  <2> DEFINE p == A(Rest(f), Head(f.seen), v)  q == A(Rest(k), Head(k.seen), v)
  <2>4. f.seen # <<>> /\ Further(Rest(f), Rest(k)) /\ Head(k.seen) = Head(f.seen) => Heeds(v, p, q)
    BY <1>3
  <2>5. k.seen # <<>> /\ Further(Rest(k), Rest(k)) => WellFormed(q)
    BY <1>3, HeedsWell
  <2> HIDE DEF p, q
  <2>6. Heeds(v, RosterPlan(f, Roster(f), p), RosterPlan(k, Roster(f), q))
    BY <1>4, <2>1, <2>4, <2>5, RosterHeeds
  <2> QED
    BY <2>1, <2>6 DEF p, q
<1> HIDE DEF P
<1>5. ASSUME NEW f, NEW k, Further(f, k), NEW v PROVE Heeds(v, Q(f, v), Q(k, v))
  <2>1. Mod(k, "line") = Mod(f, "line")
    BY <1>5, WordSame
  <2>2. ~v => Heeds(v, SetRoster(f, FALSE, Mod(f, "line")), SetRoster(k, FALSE, Mod(f, "line")))
    BY <1>5, SetRosterHeeds
  <2>3. Heeds(v, P(f, v), P(k, v))
    BY <1>4, <1>5
  <2> QED
    BY <2>1, <2>2, <2>3
<1> HIDE DEF Q
<1>2. ASSUME NEW d, NEW f, Further(d, f), d.line = c.line PROVE Heeds(w, B(d), B(f))
  <2>1. Further(K(d), K(f))
    BY <1>2, DroppedFurther, FurtherSame
  <2> HIDE DEF K
  <2>2. (check_arg(d, "--no-warn") <=> check_arg(c, "--no-warn"))
        /\ (check_arg(f, "--no-warn") <=> check_arg(c, "--no-warn"))
    BY <1>2, FurtherSame DEF check_arg
  <2>3. Heeds(w, Q(K(d), w), Q(K(f), w))
    BY <2>1, <1>5
  <2>4. (~check_arg(d, "--no-warn")) = w /\ (~check_arg(f, "--no-warn")) = w
    BY <2>2 DEF check_arg
  <2> QED
    BY <2>3, <2>4
<1> HIDE DEF B, g, w
<1>8. Heeds(w, B(Grouped(c, req, mod, g)), B(Grouped(e, req, mod, g)))
  BY <1>2, GroupedFurther
<1>9. e.line = c.line
  BY FurtherSame
<1> HIDE DEF req, mod
<1>10. Heeds(w, ManageRosterStageNodesController(c), ManageRosterStageNodesController(e))
  BY <1>1, <1>8, <1>9, CommandedAs
<1>11. Warned(c) => w
  BY DEF Warned, w, check_arg
<1> QED
  BY <1>10, <1>11 DEF Heeds, Behaves

(* manage roster stage observed: asks first when it warns; more answers    *)
(* only add steps.                                                         *)
LEMMA ManageRosterStageObservedControllerHeeds ==
  ASSUME NEW c, NEW e, Further(c, e)
  PROVE  Behaves(c, ManageRosterStageObservedController(c), ManageRosterStageObservedController(e))
<1> DEFINE req == {"ns"}  mod == {}
           g == parse_modifiers(c.line, req \union mod)
           w == c.warn
           A(f, a, v) == IF (a[Principal][1].came # "ok" \/ (TRUE /\ _check_and_log_cluster_stable(a) = "raises")) THEN End(f, <<Raise>>)
                         ELSE Warnings(TRUE, (_check_and_log_cluster_stable(a) = "stable"),
                                SetRoster(f, ~(_check_and_log_cluster_stable(a) = "stable") \/ f.warn, a[Principal][1].vals[2]))
           P(f, v) == RosterPlan(f, Roster(f), A(Rest(f), Head(f.seen), v))
           R(f, v) == ReadRoster(f, Roster(f), TRUE, LAMBDA h, read, stable :
                        Warnings(TRUE, stable, SetRoster(h, ~stable \/ h.warn, read[2])))
           B(d) == P(d, 0)
           B0(d) == R(d, 0)
<1>1. ASSUME NEW x, x.line = c.line
      PROVE  ManageRosterStageObservedController(x) = Commands_(x, req, mod, g, B(Grouped(x, req, mod, g)))
  <2>1. ManageRosterStageObservedController(x) = pre_command(x, req, mod, B0)
    BY DEF ManageRosterStageObservedController
  <2>2. \A d : B0(d) = B(d)
    <3>1. ASSUME NEW f, NEW v PROVE R(f, v) = RosterPlan(f, Roster(f), A(Rest(f), Head(f.seen), v))
      <4>1. CASE f.nodes = {}
        BY <4>1 DEF ReadRoster, CallAll, RosterPlan
      <4>2. CASE f.nodes # {}
        <5> DEFINE S == [f EXCEPT !.seen = Tail(@)]  a == Head(f.seen)
                   Z == IF (a[Principal][1].came # "ok" \/ (TRUE /\ _check_and_log_cluster_stable(a) = "raises")) THEN End(S, <<Raise>>)
                        ELSE Warnings(TRUE, (_check_and_log_cluster_stable(a) = "stable"),
                                SetRoster(S, ~(_check_and_log_cluster_stable(a) = "stable") \/ S.warn, a[Principal][1].vals[2]))
                   k == [n \in f.nodes |-> (IF n = Principal THEN <<Roster(f)>> ELSE <<>>)
                           \o <<WhenLost("without", info_cluster_stable)>>]
                   T(h, read, stable) == Warnings(TRUE, stable, SetRoster(h, ~stable \/ h.warn, read[2]))
                   Y == IF (a[Principal][1].came # "ok" \/ (TRUE /\ _check_and_log_cluster_stable(a) = "raises")) THEN End(S, <<Raise>>)
                        ELSE T(S, a[Principal][1].vals, (_check_and_log_cluster_stable(a) = "stable"))
        <5>3. R(f, v) = ReadRoster(f, Roster(f), TRUE, T)
          OBVIOUS
        <5>4. ReadRoster(f, Roster(f), TRUE, T) = First(CallStep(k), IF f.seen = <<>> THEN End(f, <<>>) ELSE Y)
          <6> HIDE DEF T
          <6> DEFINE M(n) == (IF n = Principal THEN <<Roster(f)>> ELSE <<>>)
                                \o <<WhenLost("without", info_cluster_stable)>>
                     V(d, answers) == IF (answers[Principal][1].came # "ok" \/ (TRUE /\ _check_and_log_cluster_stable(answers) = "raises")) THEN End(d, <<Raise>>)
                                      ELSE T(d, answers[Principal][1].vals, (_check_and_log_cluster_stable(answers) = "stable"))
                     l == [n \in f.nodes |-> M(n)]
                     z == V(S, a)
          <6>1. ReadRoster(f, Roster(f), TRUE, T) = CallAll(f, f.nodes, M, V)
            BY DEF ReadRoster
          <6>2. CallAll(f, f.nodes, M, V) = First(CallStep(l), IF f.seen = <<>> THEN End(f, <<>>) ELSE z)
            <7> HIDE DEF M, V
            <7> QED
              BY <4>2 DEF CallAll, Given
          <6>3. z = Y /\ l = k
            OBVIOUS
          <6> HIDE DEF z, Y, l, k, M, V
          <6> QED
            BY <6>1, <6>2, <6>3
        <5>5. Y = Z
          OBVIOUS
        <5>1. R(f, v) = First(CallStep(k), IF f.seen = <<>> THEN End(f, <<>>) ELSE Z)
          <6> HIDE DEF T, Y, Z, R, k
          <6> QED
            BY <5>3, <5>4, <5>5
        <5>2. Z = A(Rest(f), a, v) /\ k = RosterAsks(f, Roster(f))
          BY DEF Rest, RosterAsks
        <5> HIDE DEF Z, A, k, R
        <5> QED
          BY <5>1, <5>2, <4>2 DEF RosterPlan, CallPlan
      <4> QED
        BY <4>1, <4>2
    <3> HIDE DEF P, R
    <3> QED
      BY <3>1 DEF P
  <2> HIDE DEF B0, B
  <2>4. ManageRosterStageObservedController(x) = Commands_(x, req, mod, g, B0(Grouped(x, req, mod, g)))
    BY <2>1, <1>1 DEF pre_command, WithGroups, Given, Commands_
  <2> QED
    BY <2>2, <2>4
<1>3. ASSUME NEW f, NEW k, Further(f, k), NEW a, NEW v PROVE Heeds(f.warn, A(f, a, v), A(k, a, v))
  <2>2. Heeds(f.warn, End(f, <<Raise>>), End(k, <<Raise>>))
    BY EndHeeds, Helps
  <2> DEFINE x == (_check_and_log_cluster_stable(a) = "stable")
             y == a[Principal][1].vals[2]
             s(h) == SetRoster(h, ~x \/ h.warn, y)
  <2>8. A(f, a, v) = IF (a[Principal][1].came # "ok" \/ (TRUE /\ _check_and_log_cluster_stable(a) = "raises")) THEN End(f, <<Raise>>) ELSE Warnings(TRUE, x, s(f))
    OBVIOUS
  <2>9. A(k, a, v) = IF (a[Principal][1].came # "ok" \/ (TRUE /\ _check_and_log_cluster_stable(a) = "raises")) THEN End(k, <<Raise>>) ELSE Warnings(TRUE, x, s(k))
    OBVIOUS
  <2> HIDE DEF A, x, y
  <2>4. Heeds(f.warn, s(f), s(k))
    <3>1. k.warn = f.warn
      BY <1>3, FurtherSame
    <3>2. Heeds(f.warn, SetRoster(f, ~x \/ f.warn, y), SetRoster(k, ~x \/ f.warn, y))
      BY <1>3, SetRosterHeeds
    <3> QED
      BY <3>1, <3>2
  <2> HIDE DEF s
  <2>5. Heeds(f.warn, Warnings(TRUE, x, s(f)), Warnings(TRUE, x, s(k)))
    BY <2>4, WarningsHeed
  <2> QED
    BY <2>2, <2>5, <2>8, <2>9
<1> HIDE DEF A
<1>4. ASSUME NEW f, NEW k, Further(f, k), NEW v PROVE Heeds(f.warn, P(f, v), P(k, v))
  <2>1. Roster(k) = Roster(f) /\ Reading(Roster(f))
    BY <1>4, WordSame, RosterReads DEF Roster
  <2> DEFINE p == A(Rest(f), Head(f.seen), v)  q == A(Rest(k), Head(k.seen), v)
  <2>4. f.seen # <<>> /\ Further(Rest(f), Rest(k)) /\ Head(k.seen) = Head(f.seen) => Heeds(f.warn, p, q)
    BY <1>3, <1>4, RestKeeps, GoodContexts
  <2>5. k.seen # <<>> /\ Further(Rest(k), Rest(k)) => WellFormed(q)
    BY <1>3, HeedsWell
  <2> HIDE DEF p, q
  <2>6. Heeds(f.warn, RosterPlan(f, Roster(f), p), RosterPlan(k, Roster(f), q))
    BY <1>4, <2>1, <2>4, <2>5, RosterHeeds
  <2> QED
    BY <2>1, <2>6 DEF p, q
<1> HIDE DEF P
<1>2. ASSUME NEW d, NEW f, Further(d, f) PROVE Heeds(d.warn, B(d), B(f))
  BY <1>2, <1>4
<1> HIDE DEF B, g
<1>8. Heeds(c.warn, B(Grouped(c, req, mod, g)), B(Grouped(e, req, mod, g)))
  BY <1>2, GroupedFurther
<1>9. e.line = c.line
  BY FurtherSame
<1> HIDE DEF req, mod
<1>10. Heeds(c.warn, ManageRosterStageObservedController(c), ManageRosterStageObservedController(e))
  BY <1>1, <1>8, <1>9, CommandedAs
<1> QED
  BY <1>10, HeedsBehaves

(* What parse_modifiers makes of a line: for every modifier, and for the   *)
(* line itself, a list of words.                                           *)
LEMMA GroupsAreLists ==
  ASSUME NEW line, IsSeq(line), NEW keys
  PROVE  LET g == parse_modifiers(line, keys)
         IN DOMAIN g = keys \union {"line"} /\ \A w \in DOMAIN g : IsSeq(g[w])
<1> DEFINE words == keys \union {"line"}
           Put1(parsed, word) ==
             IF word = "," THEN parsed
             ELSE IF word \in keys
             THEN [mod |-> word,
                   groups |-> IF word # "diff" THEN parsed.groups
                              ELSE [parsed.groups EXCEPT !["diff"] = Append(@, "True")]]
             ELSE IF Contains(parsed.groups[parsed.mod], word) THEN parsed
             ELSE [parsed EXCEPT !.groups[parsed.mod] = Append(@, word)]
           Put(before, word) == Given(before, LAMBDA parsed : Put1(parsed, word))
           start == [mod |-> "line", groups |-> [w \in keys \union {"line"} |-> <<>>]]
           Fin(groups) == IF "with" \in keys /\ Contains(groups["with"], "all")
                          THEN [groups EXCEPT !["with"] = <<"all">>] ELSE groups
           Lists(g) == g = [w \in words |-> g[w]] /\ \A w \in words : IsSeq(g[w])
           Inv(b) == /\ b = [mod |-> b.mod, groups |-> b.groups]
                     /\ b.mod \in words /\ Lists(b.groups)
           n == Len(line)
           IsIter(h, m) == h = [s \in SUBSET (1 .. m) |->
                                  IF s = {} THEN start ELSE Put(h[s \ {Max(s)}], line[Max(s)])]
           H == CHOOSE h : h = [s \in SUBSET DOMAIN line |->
                                  IF s = {} THEN start ELSE Put(h[s \ {Max(s)}], line[Max(s)])]
<1>1. parse_modifiers(line, keys) = Given(FoldLeft(Put, start, line).groups, Fin)
  BY DEF parse_modifiers
<1>2. FoldLeft(Put, start, line) = H[DOMAIN line]
  <2> HIDE DEF Put, start
  <2> QED
    BY DEF FoldLeft, MapThenFoldSet
<1>3. \A g : Given(g, Fin) = Fin(g)
  <2> HIDE DEF Fin
  <2> QED
    BY DEF Given
<1>4. ASSUME NEW b, NEW word PROVE Put(b, word) = Put1(b, word)
  <2> HIDE DEF Put1
  <2> QED
    BY DEF Given
<1>5. ASSUME NEW b, NEW word, Inv(b) PROVE Inv(Put1(b, word))
  <2>1. ASSUME NEW g, Lists(g), NEW u \in words, NEW x PROVE Lists([g EXCEPT ![u] = Append(@, x)])
    <3> DEFINE a == Append(g[u], x)  f == [g EXCEPT ![u] = a]
    <3>1. IsSeq(a)
      BY <2>1, SeqAppended
    <3> HIDE DEF a, words
    <3>2. f = [w \in words |-> f[w]] /\ \A w \in words : f[w] = IF w = u THEN a ELSE g[w]
      BY <2>1
    <3>3. Lists(f)
      BY <2>1, <3>1, <3>2
    <3> QED
      BY <3>3 DEF a
  <2>2. Inv(b) /\ Lists(b.groups) /\ b.mod \in words
    BY <1>5
  <2>3. CASE word = ","
    BY <2>3, <1>5
  <2>4. CASE word # "," /\ word \in keys
    <3> DEFINE G == IF word # "diff" THEN b.groups ELSE [b.groups EXCEPT !["diff"] = Append(@, "True")]
    <3>1. Lists(G)
      <4>1. word = "diff" => "diff" \in words
        BY <2>4
      <4> HIDE DEF Lists, words
      <4> QED
        BY <2>1, <2>2, <4>1
    <3>2. Put1(b, word) = [mod |-> word, groups |-> G]
      BY <2>4
    <3> HIDE DEF G, Lists
    <3> QED
      BY <2>4, <3>1, <3>2
  <2>5. CASE word # "," /\ word \notin keys
    <3> DEFINE G == [b.groups EXCEPT ![b.mod] = Append(@, word)]
    <3>1. Lists(G)
      <4> HIDE DEF Lists, words
      <4> QED
        BY <2>1, <2>2
    <3>2. [b EXCEPT !.groups[b.mod] = Append(@, word)] = [mod |-> b.mod, groups |-> G]
      <4> DEFINE A == Append(b.groups[b.mod], word)
      <4>1. [b EXCEPT !.groups[b.mod] = A] = [b EXCEPT !.groups = [b.groups EXCEPT ![b.mod] = A]]
        <5> HIDE DEF A
        <5> QED
          BY <2>2
      <4>2. G = [b.groups EXCEPT ![b.mod] = A]
        OBVIOUS
      <4>3. [b EXCEPT !.groups = G] = [mod |-> b.mod, groups |-> G]
        <5> HIDE DEF G
        <5> QED
          BY <1>5
      <4> QED
        BY <4>1, <4>2, <4>3
    <3>3. Put1(b, word) = b \/ Put1(b, word) = [mod |-> b.mod, groups |-> G]
      <4> DEFINE Z == [b EXCEPT !.groups[b.mod] = Append(@, word)]
      <4>1. Put1(b, word) = IF Contains(b.groups[b.mod], word) THEN b ELSE Z
        BY <2>5
      <4> HIDE DEF Z, Put1
      <4>2. Z = [mod |-> b.mod, groups |-> G]
        BY <3>2 DEF Z
      <4> QED
        BY <4>1, <4>2
    <3> HIDE DEF G, Lists, Put1
    <3> QED
      BY <2>2, <3>1, <3>3
  <2> QED
    BY <2>3, <2>4, <2>5
<1>6. Inv(start)
  <2>1. IsSeq(<<>>)
    BY SeqOne
  <2> QED
    BY <2>1
<1>7. n \in Nat /\ DOMAIN line = 1 .. n
  BY SeqLen
<1> HIDE DEF Put1, start, Inv, n
<1> HIDE DEF Put
<1>8. ASSUME NEW m \in 0 .. n PROVE \E h : IsIter(h, m)
  <2> DEFINE Bad == {k \in 0 .. n : ~ \E h : IsIter(h, k)}
  <2> SUFFICES ASSUME Bad # {} PROVE FALSE
    OBVIOUS
  <2> DEFINE k == Min(Bad)
  <2>1. k \in Bad /\ \A y \in Bad : k <= y
    <3>2. Bad \subseteq 0 .. n
      OBVIOUS
    <3> HIDE DEF Bad
    <3>1. Bad \subseteq Nat
      BY <1>7, <3>2
    <3> QED
      BY <3>1, MinIsLeast
  <2> HIDE DEF k
  <2>2. k # 0
    <3> SUFFICES ASSUME k = 0 PROVE FALSE
      OBVIOUS
    <3> DEFINE h == [s \in SUBSET (1 .. 0) |-> start]
    <3>1. \A s \in SUBSET (1 .. 0) : s = {}
      OBVIOUS
    <3>2. IsIter(h, 0)
      BY <3>1
    <3> HIDE DEF h
    <3> QED
      BY <2>1, <3>2
  <2>7. k \in 0 .. n
    BY <2>1
  <2>8. k - 1 \in 0 .. n /\ ~(k <= k - 1)
    BY <1>7, <2>2, <2>7
  <2>3. k - 1 \in 0 .. n /\ k \in 0 .. n /\ k - 1 \notin Bad
    <3> HIDE DEF Bad
    <3> QED
      BY <2>1, <2>7, <2>8
  <2>4. PICK h : IsIter(h, k - 1)
    BY <2>3
  <2> DEFINE h2 == [s \in SUBSET (1 .. k) |-> IF s \subseteq 1 .. (k - 1) THEN h[s]
                                              ELSE Put(h[s \ {k}], line[k])]
  <2>5. ASSUME NEW s \in SUBSET (1 .. k)
        PROVE  h2[s] = IF s = {} THEN start ELSE Put(h2[s \ {Max(s)}], line[Max(s)])
    <3> HIDE DEF Put
    <3>1. CASE s \subseteq 1 .. (k - 1)
      <4>1. s \in SUBSET (1 .. (k - 1)) /\ s \ {Max(s)} \in SUBSET (1 .. (k - 1)) /\ s \ {Max(s)} \in SUBSET (1 .. k)
        BY <3>1
      <4>2. h2[s] = h[s] /\ h2[s \ {Max(s)}] = h[s \ {Max(s)}]
        BY <4>1
      <4> HIDE DEF h2
      <4> QED
        BY <2>4, <4>1, <4>2
    <3>2. CASE ~(s \subseteq 1 .. (k - 1))
      <4>1. k \in s /\ s \ {k} \subseteq 1 .. (k - 1) /\ s \ {k} \in SUBSET (1 .. k)
        BY <3>2, <2>3, <1>7
      <4>2. Max(s) = k
        <5>1. k \in s /\ \A y \in s : k >= y
          BY <4>1, <2>3, <1>7
        <5>2. s \subseteq Int
          BY <2>3, <1>7
        <5>3. \A x, z \in s : x >= z /\ z >= x => x = z
          BY <5>2
        <5>4. Max(s) \in s /\ \A y \in s : Max(s) >= y
          BY <5>1 DEF Max
        <5> QED
          BY <5>1, <5>3, <5>4
      <4>3. h2[s] = Put(h[s \ {k}], line[k]) /\ h2[s \ {k}] = h[s \ {k}]
        BY <3>2, <4>1
      <4> HIDE DEF h2
      <4> QED
        BY <4>1, <4>2, <4>3
    <3> QED
      BY <3>1, <3>2
  <2>6. IsIter(h2, k)
    <3>1. h2 = [s \in SUBSET (1 .. k) |-> h2[s]]
      OBVIOUS
    <3> HIDE DEF h2
    <3> QED
      BY <2>5, <3>1
  <2> HIDE DEF h2
  <2> QED
    BY <2>1, <2>6
<1>9. IsIter(H, n)
  <2>2. n \in 0 .. n
    BY <1>7
  <2>1. \E h : IsIter(h, n)
    BY <2>2, <1>8
  <2> QED
    BY <2>1, <1>7
<1>10. ASSUME NEW m \in 0 .. n PROVE Inv(H[1 .. m])
  <2> DEFINE Bad == {k \in 0 .. n : ~Inv(H[1 .. k])}
  <2> SUFFICES ASSUME Bad # {} PROVE FALSE
    OBVIOUS
  <2> DEFINE k == Min(Bad)
  <2>1. k \in Bad /\ \A y \in Bad : k <= y
    <3>2. Bad \subseteq 0 .. n
      OBVIOUS
    <3> HIDE DEF Bad
    <3>1. Bad \subseteq Nat
      BY <1>7, <3>2
    <3> QED
      BY <3>1, MinIsLeast
  <2> HIDE DEF k, H
  <2>2. k # 0
    <3>1. 1 .. 0 = {} /\ 1 .. 0 \in SUBSET (1 .. n)
      BY <1>7
    <3>2. H[1 .. 0] = start
      BY <1>9, <3>1
    <3> QED
      BY <3>2, <1>6, <2>1
  <2>9. k \in 0 .. n
    BY <2>1
  <2>8. k - 1 \in 0 .. n /\ ~(k <= k - 1) /\ k \in 1 .. n
    BY <1>7, <2>2, <2>9
  <2>3. k - 1 \in 0 .. n /\ k - 1 \notin Bad /\ k \in 1 .. n
    <3> HIDE DEF Bad
    <3> QED
      BY <2>1, <2>8
  <2>4. Inv(H[1 .. (k - 1)])
    BY <2>3
  <2>5. 1 .. k \in SUBSET (1 .. n) /\ 1 .. k # {} /\ Max(1 .. k) = k /\ (1 .. k) \ {k} = 1 .. (k - 1)
    <3>1. 1 .. k \in SUBSET (1 .. n) /\ 1 .. k # {} /\ (1 .. k) \ {k} = 1 .. (k - 1)
      <4>1. n \in Nat /\ k \in 1 .. n
        BY <2>8, <1>7
      <4>2. \A x \in 1 .. k : x \in 1 .. n
        BY <4>1
      <4>3. \A x : x \in (1 .. k) \ {k} <=> x \in 1 .. (k - 1)
        BY <4>1
      <4>4. k \in 1 .. k
        BY <4>1
      <4> QED
        BY <4>2, <4>3, <4>4, Zenon
    <3>2. k \in 1 .. k /\ \A y \in 1 .. k : k >= y
      BY <2>8, <1>7
    <3>3. Max(1 .. k) \in 1 .. k /\ \A y \in 1 .. k : Max(1 .. k) >= y
      BY <3>2 DEF Max
    <3>4. Max(1 .. k) >= k /\ k >= Max(1 .. k) /\ Max(1 .. k) \in Int /\ k \in Int
      BY <3>2, <3>3, <2>3, <1>7
    <3>5. Max(1 .. k) = k
      BY <3>4
    <3> QED
      BY <3>1, <3>5
  <2>6. H[1 .. k] = Put(H[1 .. (k - 1)], line[k])
    <3> HIDE DEF Put
    <3> QED
      BY <1>9, <2>5
  <2>7. Inv(H[1 .. k])
    BY <1>4, <1>5, <2>4, <2>6
  <2> QED
    BY <2>1, <2>7
<1>11. Lists(H[1 .. n].groups)
  <2>2. n \in 0 .. n
    BY <1>7
  <2>1. Inv(H[1 .. n])
    BY <2>2, <1>10
  <2> HIDE DEF H
  <2> QED
    BY <2>1 DEF Inv
<1> DEFINE G == H[1 .. n].groups
<1>12. parse_modifiers(line, keys) = Fin(G)
  <2> HIDE DEF H, Fin
  <2> QED
    BY <1>1, <1>2, <1>3, <1>7
<1> HIDE DEF G, H
<1>13. Lists(Fin(G))
  <2>1. IsSeq(<<"all">>)
    BY SeqOne
  <2>2. Lists(G)
    BY <1>11 DEF G
  <2>3. CASE "with" \in keys /\ Contains(G["with"], "all")
    <3> DEFINE a == <<"all">>  f == [G EXCEPT !["with"] = a]
    <3>1. Fin(G) = f /\ IsSeq(a)
      BY <2>1, <2>3
    <3>2. "with" \in words
      BY <2>3
    <3> HIDE DEF a, words, Fin
    <3>3. f = [w \in words |-> f[w]] /\ \A w \in words : f[w] = IF w = "with" THEN a ELSE G[w]
      BY <2>2, <3>2
    <3> QED
      BY <2>2, <3>1, <3>3
  <2>4. CASE ~("with" \in keys /\ Contains(G["with"], "all"))
    BY <2>2, <2>4
  <2> QED
    BY <2>3, <2>4
<1> HIDE DEF Fin
<1>14. DOMAIN Fin(G) = words
  BY <1>13
<1> QED
  BY <1>12, <1>13, <1>14

(* manage jobs kill all scans: asks first when it warns; more answers only *)
(* add steps.                                                              *)
LEMMA ManageJobsKillAllScansControllerHeeds ==
  ASSUME NEW c, NEW e, Further(c, e)
  PROVE  Heeds(c.warn, ManageJobsKillAllScansController(c), ManageJobsKillAllScansController(e))
<1> DEFINE req == {}  mod == {"with"}
           g == parse_modifiers(c.line, req \union mod)
           C(d) == Confirm(d, d.warn, <<>>, AtNodes(d, [n \in d.nodes |-> info_scan_abort_all], <<>>))
           A(d, a) == IF \E n \in Came(Firsts(a), "ok") : AtLeast(n, SERVER_QUERIES_ABORT_ALL_FIRST_VERSION)
             THEN End(d, <<Complain>>) ELSE C(d)
           ms(d) == [n \in d.nodes |-> info_build]
           B(d) == ReadPlan(d, d.nodes, ms(d), A(Rest(d), Head(d.seen)))
           B0(d) == _queries_supported(d, LAMBDA e_, supported :
                      IF supported THEN End(e_, <<Complain>>) ELSE C(e_))
<1>1. ASSUME NEW x, x.line = c.line
      PROVE  ManageJobsKillAllScansController(x) = Commands_(x, req, mod, g, B(Grouped(x, req, mod, g)))
  <2>1. ManageJobsKillAllScansController(x) = pre_command(x, req, mod, B0)
    BY DEF ManageJobsKillAllScansController
  <2>2. \A d : B0(d) = B(d)
    <3> HIDE DEF C
    <3>1. ASSUME NEW d PROVE B0(d) = B(d)
      <4>2. CASE d.nodes = {}
        BY <4>2 DEF _queries_supported, Call, CallAll, ReadPlan
      <4>3. CASE d.nodes # {}
        <5> DEFINE S == [d EXCEPT !.seen = Tail(@)]  F == [n \in DOMAIN Head(d.seen) |-> Head(d.seen)[n][1]]
                   Z == IF \E n \in Came(F, "ok") : AtLeast(n, SERVER_QUERIES_ABORT_ALL_FIRST_VERSION)
                     THEN End(S, <<Complain>>) ELSE C(S)
                   k == [n \in d.nodes |-> <<info_build>>]
                   T(y, supported) == IF supported THEN End(y, <<Complain>>) ELSE C(y)
                   V(y, answers) == T(y, \E n \in Came(answers, "ok") : AtLeast(n,
                     SERVER_QUERIES_ABORT_ALL_FIRST_VERSION))
                   M(n) == info_build
        <5>1. B0(d) = First(CallStep(k), IF d.seen = <<>> THEN End(d, <<>>) ELSE Z)
          <6>1. B0(d) = Call(d, d.nodes, M, V)
            BY DEF _queries_supported
          <6>2. Call(d, d.nodes, M, V) = First(CallStep(k), IF d.seen = <<>> THEN End(d, <<>>) ELSE V(S, F))
            <7> HIDE DEF V
            <7> QED
              BY <4>3 DEF Call, CallAll, Given
          <6>3. V(S, F) = Z
            OBVIOUS
          <6> HIDE DEF V, Z, k, B0, M
          <6> QED
            BY <6>1, <6>2, <6>3
        <5>2. Z = A(Rest(d), Head(d.seen)) /\ k = Each(ms(d))
          BY DEF Rest, Firsts, Each
        <5> HIDE DEF Z, A, k, ms, B0
        <5> QED
          BY <5>1, <5>2, <4>3 DEF ReadPlan, CallPlan
      <4> QED
        BY <4>2, <4>3
    <3> QED
      BY <3>1
  <2> HIDE DEF B0, B
  <2>4. ManageJobsKillAllScansController(x) = Commands_(x, req, mod, g, B0(Grouped(x, req, mod, g)))
    BY <2>1, <1>1 DEF pre_command, WithGroups, Given, Commands_
  <2> QED
    BY <2>2, <2>4
<1>6. ASSUME NEW d, NEW f, Further(d, f) PROVE Heeds(d.warn, C(d), C(f))
  <2>1. f.nodes = d.nodes /\ f.warn = d.warn
    BY <1>6, FurtherSame
  <2> DEFINE r == [n \in d.nodes |-> info_scan_abort_all]
  <2>3. DOMAIN r = d.nodes /\ (\A n \in d.nodes : IsSeq(r[n])) /\ [n \in f.nodes |-> info_scan_abort_all] = r
    BY <2>1, ChangesAsk1
  <2> HIDE DEF r
  <2>4. Heeds(d.warn, Confirm(d, d.warn, <<>>, AtNodes(d, r, <<>>)),
                      Confirm(f, d.warn, <<>>, AtNodes(f, r, <<>>)))
    BY <1>6, <2>3, AskedNodesHeeds, Helps
  <2> QED
    BY <2>1, <2>3, <2>4 DEF r
<1> HIDE DEF C
<1>7. ASSUME NEW d, NEW f, NEW a, Further(d, f) PROVE Heeds(d.warn, A(d, a), A(f, a))
  <2>1. Heeds(d.warn, C(d), C(f)) /\ Heeds(d.warn, End(d, <<Complain>>), End(f, <<Complain>>))
    BY <1>6, <1>7, EndHeeds, Helps
  <2> QED
    BY <2>1
<1> HIDE DEF A
<1>2. ASSUME NEW d, NEW f, Further(d, f) PROVE Heeds(d.warn, B(d), B(f))
  <2>1. f.nodes = d.nodes /\ f.warn = d.warn
    BY <1>2, FurtherSame
  <2>2. DOMAIN ms(d) = d.nodes /\ d.nodes \subseteq Node /\ (\A n \in DOMAIN ms(d) : Reading(ms(d)[n])) /\ ms(f) = ms(d)
    BY <1>2, <2>1, ReadsSimple, GoodContexts DEF GoodContext
  <2>3. f.seen # <<>> /\ Further(Rest(f), Rest(f)) => WellFormed(A(Rest(f), Head(f.seen)))
    BY <1>7, HeedsWell
  <2>5. d.seen # <<>> /\ Further(Rest(d), Rest(f)) /\ Head(f.seen) = Head(d.seen)
        /\ Rest(d).warn = d.warn /\ Rest(d).nodes = d.nodes
          => Heeds(d.warn, A(Rest(d), Head(d.seen)), A(Rest(f), Head(f.seen)))
    BY <1>7
  <2>6. Heeds(d.warn, ReadPlan(d, d.nodes, ms(d), A(Rest(d), Head(d.seen))),
                      ReadPlan(f, d.nodes, ms(d), A(Rest(f), Head(f.seen))))
    <3> HIDE DEF ms
    <3> QED
      BY <1>2, <2>2, <2>3, <2>5, ReadOnAt
  <2> HIDE DEF ms, A
  <2> QED
    BY <2>1, <2>2, <2>6
<1> HIDE DEF B, g
<1>8. Heeds(c.warn, B(Grouped(c, req, mod, g)), B(Grouped(e, req, mod, g)))
  BY <1>2, GroupedFurther
<1>9. e.line = c.line
  BY FurtherSame
<1> HIDE DEF req, mod
<1> QED
  BY <1>1, <1>8, <1>9, Commanded

(* manage jobs kill all queries: asks first when it warns; more answers    *)
(* only add steps.                                                         *)
LEMMA ManageJobsKillAllQueriesControllerHeeds ==
  ASSUME NEW c, NEW e, Further(c, e)
  PROVE  Heeds(c.warn, ManageJobsKillAllQueriesController(c), ManageJobsKillAllQueriesController(e))
<1> DEFINE req == {}  mod == {"with"}
           g == parse_modifiers(c.line, req \union mod)
           C(d) == Confirm(d, d.warn, <<>>, AtNodes(d, [n \in d.nodes |-> info_query_abort_all], <<>>))
           A(d, a) == IF ~(\E n \in Came(Firsts(a), "ok") : AtLeast(n, SERVER_QUERIES_ABORT_ALL_FIRST_VERSION))
             THEN End(d, <<Complain>>) ELSE C(d)
           ms(d) == [n \in d.nodes |-> info_build]
           B(d) == ReadPlan(d, d.nodes, ms(d), A(Rest(d), Head(d.seen)))
           B0(d) == _queries_supported(d, LAMBDA e_, supported :
                      IF ~supported THEN End(e_, <<Complain>>) ELSE C(e_))
<1>1. ASSUME NEW x, x.line = c.line
      PROVE  ManageJobsKillAllQueriesController(x) = Commands_(x, req, mod, g, B(Grouped(x, req, mod, g)))
  <2>1. ManageJobsKillAllQueriesController(x) = pre_command(x, req, mod, B0)
    BY DEF ManageJobsKillAllQueriesController
  <2>2. \A d : B0(d) = B(d)
    <3> HIDE DEF C
    <3>1. ASSUME NEW d PROVE B0(d) = B(d)
      <4>2. CASE d.nodes = {}
        BY <4>2 DEF _queries_supported, Call, CallAll, ReadPlan
      <4>3. CASE d.nodes # {}
        <5> DEFINE S == [d EXCEPT !.seen = Tail(@)]  F == [n \in DOMAIN Head(d.seen) |-> Head(d.seen)[n][1]]
                   Z == IF ~(\E n \in Came(F, "ok") : AtLeast(n, SERVER_QUERIES_ABORT_ALL_FIRST_VERSION))
                     THEN End(S, <<Complain>>) ELSE C(S)
                   k == [n \in d.nodes |-> <<info_build>>]
                   T(y, supported) == IF ~supported THEN End(y, <<Complain>>) ELSE C(y)
                   V(y, answers) == T(y, \E n \in Came(answers, "ok") : AtLeast(n,
                     SERVER_QUERIES_ABORT_ALL_FIRST_VERSION))
                   M(n) == info_build
        <5>1. B0(d) = First(CallStep(k), IF d.seen = <<>> THEN End(d, <<>>) ELSE Z)
          <6>1. B0(d) = Call(d, d.nodes, M, V)
            BY DEF _queries_supported
          <6>2. Call(d, d.nodes, M, V) = First(CallStep(k), IF d.seen = <<>> THEN End(d, <<>>) ELSE V(S, F))
            <7> HIDE DEF V
            <7> QED
              BY <4>3 DEF Call, CallAll, Given
          <6>3. V(S, F) = Z
            OBVIOUS
          <6> HIDE DEF V, Z, k, B0, M
          <6> QED
            BY <6>1, <6>2, <6>3
        <5>2. Z = A(Rest(d), Head(d.seen)) /\ k = Each(ms(d))
          BY DEF Rest, Firsts, Each
        <5> HIDE DEF Z, A, k, ms, B0
        <5> QED
          BY <5>1, <5>2, <4>3 DEF ReadPlan, CallPlan
      <4> QED
        BY <4>2, <4>3
    <3> QED
      BY <3>1
  <2> HIDE DEF B0, B
  <2>4. ManageJobsKillAllQueriesController(x) = Commands_(x, req, mod, g, B0(Grouped(x, req, mod, g)))
    BY <2>1, <1>1 DEF pre_command, WithGroups, Given, Commands_
  <2> QED
    BY <2>2, <2>4
<1>6. ASSUME NEW d, NEW f, Further(d, f) PROVE Heeds(d.warn, C(d), C(f))
  <2>1. f.nodes = d.nodes /\ f.warn = d.warn
    BY <1>6, FurtherSame
  <2> DEFINE r == [n \in d.nodes |-> info_query_abort_all]
  <2>3. DOMAIN r = d.nodes /\ (\A n \in d.nodes : IsSeq(r[n])) /\ [n \in f.nodes |-> info_query_abort_all] = r
    BY <2>1, ChangesAsk1
  <2> HIDE DEF r
  <2>4. Heeds(d.warn, Confirm(d, d.warn, <<>>, AtNodes(d, r, <<>>)),
                      Confirm(f, d.warn, <<>>, AtNodes(f, r, <<>>)))
    BY <1>6, <2>3, AskedNodesHeeds, Helps
  <2> QED
    BY <2>1, <2>3, <2>4 DEF r
<1> HIDE DEF C
<1>7. ASSUME NEW d, NEW f, NEW a, Further(d, f) PROVE Heeds(d.warn, A(d, a), A(f, a))
  <2>1. Heeds(d.warn, C(d), C(f)) /\ Heeds(d.warn, End(d, <<Complain>>), End(f, <<Complain>>))
    BY <1>6, <1>7, EndHeeds, Helps
  <2> QED
    BY <2>1
<1> HIDE DEF A
<1>2. ASSUME NEW d, NEW f, Further(d, f) PROVE Heeds(d.warn, B(d), B(f))
  <2>1. f.nodes = d.nodes /\ f.warn = d.warn
    BY <1>2, FurtherSame
  <2>2. DOMAIN ms(d) = d.nodes /\ d.nodes \subseteq Node /\ (\A n \in DOMAIN ms(d) : Reading(ms(d)[n])) /\ ms(f) = ms(d)
    BY <1>2, <2>1, ReadsSimple, GoodContexts DEF GoodContext
  <2>3. f.seen # <<>> /\ Further(Rest(f), Rest(f)) => WellFormed(A(Rest(f), Head(f.seen)))
    BY <1>7, HeedsWell
  <2>5. d.seen # <<>> /\ Further(Rest(d), Rest(f)) /\ Head(f.seen) = Head(d.seen)
        /\ Rest(d).warn = d.warn /\ Rest(d).nodes = d.nodes
          => Heeds(d.warn, A(Rest(d), Head(d.seen)), A(Rest(f), Head(f.seen)))
    BY <1>7
  <2>6. Heeds(d.warn, ReadPlan(d, d.nodes, ms(d), A(Rest(d), Head(d.seen))),
                      ReadPlan(f, d.nodes, ms(d), A(Rest(f), Head(f.seen))))
    <3> HIDE DEF ms
    <3> QED
      BY <1>2, <2>2, <2>3, <2>5, ReadOnAt
  <2> HIDE DEF ms, A
  <2> QED
    BY <2>1, <2>2, <2>6
<1> HIDE DEF B, g
<1>8. Heeds(c.warn, B(Grouped(c, req, mod, g)), B(Grouped(e, req, mod, g)))
  BY <1>2, GroupedFurther
<1>9. e.line = c.line
  BY FurtherSame
<1> HIDE DEF req, mod
<1> QED
  BY <1>1, <1>8, <1>9, Commanded

(* The jobs that are killed at a node are a list of methods, whatever its  *)
(* answers were.                                                           *)
LEMMA KillsAreMethods ==
  ASSUME NEW n, NEW trids, IsSeq(trids), NEW answers
  PROVE  IsSeq(KillsAt(n, trids, answers))
         /\ \A i \in 1 .. Len(KillsAt(n, trids, answers)) : IsSeq(KillsAt(n, trids, answers)[i])
<1> DEFINE runs(t, m, j) == Contains(answers[m].vals[j], t)
           first(t) == SelectInSeq(<<1, 2, 3>>, LAMBDA j : \E m \in Node : runs(t, m, j))
           part(t) == IF first(t) # 0 /\ runs(t, n, first(t))
                      THEN <<_kill_trid(n, JobModules[first(t)], t)>> ELSE <<>>
           s == [i \in DOMAIN trids |-> part(trids[i])]
<1>1. KillsAt(n, trids, answers) = FlattenSeq(s)
  BY DEF KillsAt
<1>2. ASSUME NEW t PROVE IsSeq(part(t)) /\ \A x \in ToSet(part(t)) : IsSeq(x)
  <2> DEFINE k == _kill_trid(n, JobModules[first(t)], t)
  <2>1. IsSeq(k)
    BY ChangesAsk1 DEF _kill_trid
  <2>2. part(t) = <<k>> \/ part(t) = <<>>
    OBVIOUS
  <2> HIDE DEF k, part
  <2> QED
    BY <2>1, <2>2, SeqOneElems
<1> HIDE DEF part
<1>3. IsSeq(s) /\ Len(s) = Len(trids) /\ DOMAIN s = DOMAIN trids
  BY SeqMapped
<1>4. \A i \in 1 .. Len(s) : s[i] = part(trids[i])
  BY <1>3, SeqLen
<1> HIDE DEF s
<1>5. \A i \in 1 .. Len(s) : IsSeq(s[i])
  BY <1>2, <1>4
<1>6. /\ IsSeq(FlattenSeq(s))
      /\ \A x \in ToSet(FlattenSeq(s)) : \E i \in 1 .. Len(s) : x \in ToSet(s[i])
  BY <1>3, <1>5, Flattened
<1>7. \A x \in ToSet(FlattenSeq(s)) : IsSeq(x)
  BY <1>2, <1>4, <1>6
<1> QED
  BY <1>1, <1>6, <1>7, SeqElems

(* manage jobs kill trid: asks first when it warns; more answers only add  *)
(* steps.                                                                  *)
LEMMA ManageJobsKillTridControllerHeeds ==
  ASSUME NEW c, NEW e, Further(c, e), IsSeq(c.line)
  PROVE  Heeds(c.warn, ManageJobsKillTridController(c), ManageJobsKillTridController(e))
<1> DEFINE req == {"line"}  mod == {}
           g == parse_modifiers(c.line, req \union mod)
           at(d, a) == {n \in Node : KillsAt(n, Mod(d, "line"), Firsts(a)) # <<>>}
           ka(d, a) == [n \in at(d, a) |-> KillsAt(n, Mod(d, "line"), Firsts(a))]
           E(d, kills, ns) == End(d, <<Shows("table",
             {n \in ns : \A i \in DOMAIN kills[n] : kills[n][i].came = "ok"})>>)
           A(d, a) == IF at(d, a) = {} THEN End(d, <<Complain, Shows("table", {})>>)
                      ELSE CallPlan(d, ka(d, a), E(Rest(d), Head(d.seen), at(d, a)))
           ms == [n \in Node |-> GetJobs(n)]
           P(d) == CallPlan(d, Each(ms), A(Rest(d), Head(d.seen)))
           B(d) == Confirm(d, d.warn, <<>>, P(d))
           V(e_, answers) ==
             LET trids == Mod(e_, "line")
                 at_ == {n \in Node : KillsAt(n, trids, answers) # <<>>}
             IN IF at_ = {} THEN End(e_, <<Complain, Shows("table", {})>>)
                ELSE CallAll(e_, at_, LAMBDA n : KillsAt(n, trids, answers), LAMBDA f, kills :
                       End(f, <<Shows("table", {n \in at_ : \A i \in DOMAIN kills[n] :
                                                  kills[n][i].came = "ok"})>>))
           B0(d) == Confirm(d, d.warn, <<>>, Call(d, Node, GetJobs, V))
<1>1. ASSUME NEW x, x.line = c.line
      PROVE  ManageJobsKillTridController(x) = Commands_(x, req, mod, g, B(Grouped(x, req, mod, g)))
  <2>1. ManageJobsKillTridController(x) = pre_command(x, req, mod, B0)
    BY DEF ManageJobsKillTridController
  <2>2. \A d : B0(d) = B(d)
    <3>1. ASSUME NEW d, NEW a PROVE V(d, Firsts(a)) = A(d, a)
      <4>1. CASE at(d, a) = {}
        BY <4>1
      <4>2. CASE at(d, a) # {}
        <5> DEFINE S == [d EXCEPT !.seen = Tail(@)]
                   N == at(d, a)
                   D(f, kills) == E(f, kills, N)
                   L(n) == KillsAt(n, Mod(d, "line"), Firsts(a))
                   l == [n \in N |-> L(n)]
        <5>1. V(d, Firsts(a)) = CallAll(d, N, L, D)
          BY <4>2
        <5>2. CallAll(d, N, L, D) = First(CallStep(l), IF d.seen = <<>> THEN End(d, <<>>) ELSE D(S, Head(d.seen)))
          <6>1. N # {}
            BY <4>2
          <6> HIDE DEF D, L, N
          <6> QED
            BY <6>1 DEF CallAll, Given
        <5>3. l = ka(d, a) /\ D(S, Head(d.seen)) = E(Rest(d), Head(d.seen), at(d, a))
          BY DEF Rest
        <5>4. A(d, a) = CallPlan(d, ka(d, a), E(Rest(d), Head(d.seen), at(d, a)))
          BY <4>2
        <5> HIDE DEF V, l, ka, D, E, A, N, L, at
        <5> QED
          BY <5>1, <5>2, <5>3, <5>4 DEF CallPlan
      <4> QED
        BY <4>1, <4>2
    <3>2. ASSUME NEW d PROVE Call(d, Node, GetJobs, V) = P(d)
      <4> DEFINE S == [d EXCEPT !.seen = Tail(@)]  F == [n \in DOMAIN Head(d.seen) |-> Head(d.seen)[n][1]]
                 k == [n \in Node |-> <<GetJobs(n)>>]  z == V(S, F)
      <4>0. Node # {}
        BY PrincipalIsNode
      <4>1. Call(d, Node, GetJobs, V) = First(CallStep(k), IF d.seen = <<>> THEN End(d, <<>>) ELSE z)
        <5> HIDE DEF V
        <5> QED
          BY <4>0 DEF Call, CallAll, Given
      <4>2. F = Firsts(Head(d.seen)) /\ S = Rest(d) /\ k = Each(ms)
        BY DEF Rest, Firsts, Each
      <4> HIDE DEF V, A, k, ms
      <4>3. z = A(Rest(d), Head(d.seen))
        <5> HIDE DEF F, S
        <5> QED
          BY <3>1, <4>2
      <4> HIDE DEF z, F, S
      <4> QED
        BY <4>1, <4>2, <4>3 DEF CallPlan
    <3> DEFINE C(d) == Call(d, Node, GetJobs, V)
    <3>3. \A d : B0(d) = Confirm(d, d.warn, <<>>, C(d))
      OBVIOUS
    <3>4. \A d : C(d) = P(d)
      BY <3>2
    <3> HIDE DEF C, P, B0
    <3> QED
      BY <3>3, <3>4
  <2> HIDE DEF B0, B
  <2>4. ManageJobsKillTridController(x) = Commands_(x, req, mod, g, B0(Grouped(x, req, mod, g)))
    BY <2>1, <1>1 DEF pre_command, WithGroups, Given, Commands_
  <2> QED
    BY <2>2, <2>4
<1>3. ASSUME NEW d, NEW f, Further(d, f), NEW a, IsSeq(Mod(d, "line")) PROVE Grown(A(d, a), A(f, a))
  <2>1. Mod(f, "line") = Mod(d, "line")
    BY <1>3, WordSame
  <2> DEFINE N == at(d, a)  k == ka(d, a)
  <2>2. at(f, a) = N /\ ka(f, a) = k /\ N \subseteq Node
    BY <2>1
  <2>3. WellAsked(k)
    <3>1. DOMAIN k = N /\ \A n \in N : k[n] = KillsAt(n, Mod(d, "line"), Firsts(a))
      OBVIOUS
    <3> HIDE DEF k, N
    <3> QED
      BY <1>3, <2>2, <3>1, KillsAreMethods DEF WellAsked
  <2>4. SilentSteps(<<Complain, Shows("table", {})>>)
    BY SilentStep, Helps
  <2>5. Grown(End(d, <<Complain, Shows("table", {})>>), End(f, <<Complain, Shows("table", {})>>))
    BY <2>4, EndGrown
  <2>6. \A x, y, kills : Grown(E(x, kills, N), E(y, kills, N))
    <3> SUFFICES ASSUME NEW x, NEW y, NEW kills PROVE Grown(E(x, kills, N), E(y, kills, N))
      OBVIOUS
    <3> DEFINE t == {n \in N : \A i \in DOMAIN kills[n] : kills[n][i].came = "ok"}
    <3> HIDE DEF t
    <3>1. Grown(End(x, <<Shows("table", t)>>), End(y, <<Shows("table", t)>>))
      BY EndGrown, Helps, SilentStep
    <3> QED
      BY <3>1 DEF t
  <2>7. /\ A(d, a) = IF N = {} THEN End(d, <<Complain, Shows("table", {})>>)
                     ELSE CallPlan(d, k, E(Rest(d), Head(d.seen), N))
        /\ A(f, a) = IF N = {} THEN End(f, <<Complain, Shows("table", {})>>)
                     ELSE CallPlan(f, k, E(Rest(f), Head(f.seen), N))
    <3>1. A(d, a) = IF N = {} THEN End(d, <<Complain, Shows("table", {})>>)
                    ELSE CallPlan(d, k, E(Rest(d), Head(d.seen), N))
      OBVIOUS
    <3>2. A(f, a) = IF at(f, a) = {} THEN End(f, <<Complain, Shows("table", {})>>)
                    ELSE CallPlan(f, ka(f, a), E(Rest(f), Head(f.seen), at(f, a)))
      OBVIOUS
    <3> HIDE DEF N, k, at, ka, A, E
    <3> QED
      BY <2>2, <3>1, <3>2
  <2> HIDE DEF N, k, A, E, at, ka
  <2> DEFINE p == E(Rest(d), Head(d.seen), N)  q == E(Rest(f), Head(f.seen), N)
  <2>8. d.seen # <<>> => Grown(p, q)
    BY <1>3, <2>6, FurtherRest
  <2>9. WellFormed(q)
    BY <2>6 DEF Grown
  <2> HIDE DEF p, q
  <2>10. Grown(CallPlan(d, k, p), CallPlan(f, k, q))
    BY <1>3, <2>3, <2>8, <2>9, CallGrown
  <2> QED
    BY <2>5, <2>7, <2>10 DEF p, q
<1> HIDE DEF A
<1>2. ASSUME NEW d, NEW f, Further(d, f), IsSeq(Mod(d, "line")) PROVE Heeds(d.warn, B(d), B(f))
  <2>1. WellAsked(Each(ms))
    <3>1. \A n \in Node : Reading(GetJobs(n))
      BY ReadsOf, ReadingJoined, WhenLostReads DEF GetJobs
    <3>2. DOMAIN ms \subseteq Node \union {Here} /\ \A n \in DOMAIN ms : Reading(ms[n])
      BY <3>1
    <3> HIDE DEF ms
    <3> QED
      BY <3>2, ReadsAsked
  <2> HIDE DEF ms
  <2>2. \A x : GoodContext(x) => Mod(Rest(x), "line") = Mod(x, "line")
    BY DEF GoodContext, IsContext, Rest, Mod
  <2>3. Mod(f, "line") = Mod(d, "line") /\ GoodContext(d) /\ GoodContext(f) /\ f.warn = d.warn
    BY <1>2, WordSame, FurtherSame
  <2> DEFINE p == A(Rest(d), Head(d.seen))  q == A(Rest(f), Head(f.seen))
  <2>4. d.seen # <<>> => Grown(p, q)
    BY <1>2, <1>3, <2>2, <2>3, FurtherRest
  <2>5. f.seen # <<>> => WellFormed(q)
    <3>1. f.seen # <<>> => Grown(q, q)
      BY <1>2, <1>3, <2>2, <2>3, GoodRest, FurtherRefl
    <3> QED
      BY <3>1 DEF Grown
  <2>6. Grown(P(d), P(f))
    <3> HIDE DEF p, q
    <3>1. Grown(CallPlan(d, Each(ms), p), CallPlan(f, Each(ms), q))
      BY <1>2, <2>1, <2>4, <2>5, CallGrown
    <3> QED
      BY <3>1 DEF p, q
  <2> HIDE DEF P
  <2>7. Heeds(d.warn, Confirm(d, d.warn, <<>>, P(d)), Confirm(f, d.warn, <<>>, P(f)))
    BY <2>6, ConfirmHeeds
  <2> QED
    BY <2>3, <2>7
<1>4. IsSeq(Mod(Grouped(c, req, mod, g), "line"))
  <2>1. DOMAIN g = {"line"} /\ IsSeq(g["line"])
    BY GroupsAreLists
  <2> HIDE DEF g
  <2> DEFINE m == Replaced(c.mods, g)
             v == IF "with" \in req \union mod THEN get_nodes(g["with"]) ELSE Node
             x == [c EXCEPT !.mods = m, !.keys = mod, !.nodes = v]
  <2>3. "line" \in DOMAIN m /\ m["line"] = g["line"]
    BY <2>1 DEF Replaced
  <2>4. Grouped(c, req, mod, g) = x
    BY DEF Grouped
  <2>5. DOMAIN c = {"line", "mods", "keys", "args", "nodes", "privileged", "warn", "seen"}
    BY GoodContexts DEF GoodContext, IsContext
  <2> HIDE DEF m, v, mod, req
  <2>6. x.mods = m
    BY <2>5
  <2> HIDE DEF x
  <2> QED
    BY <2>1, <2>3, <2>4, <2>6 DEF Mod
<1> HIDE DEF B, g
<1>8. Heeds(c.warn, B(Grouped(c, req, mod, g)), B(Grouped(e, req, mod, g)))
  BY <1>2, <1>4, GroupedFurther
<1>9. e.line = c.line
  BY FurtherSame
<1> HIDE DEF req, mod
<1> QED
  BY <1>1, <1>8, <1>9, Commanded

-----------------------------------------------------------------------------
(* The tree of manage: each controller behaves as those it hands its line  *)
(* to.                                                                     *)

Routed(c, e) == Further(c, e) /\ IsSeq(c.line)
(* The context of a command whose first word is an argument.               *)
Argued(c, context) ==
  LET old == IF Contains(Mod(c, context), context) THEN Mod(c, context) ELSE <<>>
  IN [c EXCEPT !.line = Tail(@), !.mods = (context :> Append(old, Head(c.line))) @@ @]
ArguedOr(c, modifiers, p) ==
  IF c.line = <<>> \/ (c.line # <<>> /\ Head(c.line) \in modifiers) THEN End(c, <<Raise>>) ELSE p

(* What holds of a plan with the warning of the words that are left holds  *)
(* with that of all of them.                                               *)
LEMMA TailBehaves ==
  ASSUME NEW c, IsSeq(c.line), c.line # <<>>, NEW d, d.line = Tail(c.line), d.warn = c.warn,
         NEW p, NEW q, Behaves(d, p, q)
  PROVE  Behaves(c, p, q)
<1> DEFINE s == c.line  t == Tail(c.line)
<1>1. IsSeq(s) /\ s # <<>>
  OBVIOUS
<1>2. Contains(t, "--no-warn") => Contains(s, "--no-warn")
  <2> HIDE DEF s
  <2>1. Len(Tail(s)) = Len(s) - 1 /\ Len(s) >= 1 /\ Len(s) \in Nat
        /\ \A i \in 1 .. (Len(s) - 1) : Tail(s)[i] = s[i + 1]
    BY <1>1, SeqTail, SeqLen
  <2>2. ASSUME NEW i \in 1 .. Len(Tail(s)), Tail(s)[i] = "--no-warn" PROVE Contains(s, "--no-warn")
    <3>1. i + 1 \in 1 .. Len(s) /\ s[i + 1] = "--no-warn"
      BY <2>1, <2>2
    <3> QED
      BY <3>1 DEF Contains
  <2>3. Contains(Tail(s), "--no-warn") => Contains(s, "--no-warn")
    BY <2>2 DEF Contains
  <2> QED
    BY <2>3 DEF s
<1>3. Warned(c) => Warned(d)
  BY <1>2 DEF Warned
<1> QED
  BY <1>3 DEF Behaves

(* A controller hands its line on without the word it has looked at.       *)
LEMMA PoppedRouted ==
  ASSUME NEW c, NEW e, Routed(c, e), Word(c) # ""
  PROVE  /\ Routed(Popped(c), Popped(e)) /\ Further(Popped(c), Popped(e)) /\ IsSeq(Popped(c).line)
         /\ Popped(c).line = Tail(c.line) /\ Popped(c).warn = c.warn
         /\ c.line # <<>> /\ IsSeq(c.line)
<1>1. c.line # <<>> /\ IsSeq(c.line)
  BY DEF Word, Routed
<1>2. IsSeq(Tail(c.line))
  BY <1>1, SeqTail
<1>3. Further(Popped(c), Popped(e)) /\ Popped(c).warn = c.warn /\ Popped(c).line = Tail(c.line)
  BY PoppedFurther DEF Routed
<1> QED
  BY <1>1, <1>2, <1>3 DEF Routed

(* A plan made from the rest of the line behaves as one of the whole line. *)
LEMMA PoppedBehaves ==
  ASSUME NEW c, NEW e, Routed(c, e), Word(c) # "", NEW p, NEW q, Behaves(Popped(c), p, q)
  PROVE  Behaves(c, p, q)
  BY PoppedRouted, TailBehaves

(* A plan that heeds the warning of the rest of the line behaves as one of *)
(* the whole line.                                                         *)
LEMMA PoppedHeeds ==
  ASSUME NEW c, NEW e, Routed(c, e), Word(c) # "", NEW p, NEW q, Heeds(Popped(c).warn, p, q)
  PROVE  Behaves(c, p, q)
  BY PoppedBehaves, HeedsBehaves

(* Help is silent.                                                         *)
LEMMA HelpBehaves ==
  ASSUME NEW c, NEW e
  PROVE  Behaves(c, execute_help(c), execute_help(e))
  BY EndHeeds, HeedsBehaves, Helps DEF execute_help

(* A controller that keeps its word as an argument hands the line on       *)
(* without it.                                                             *)
LEMMA ArguedRouted ==
  ASSUME NEW c, NEW e, Routed(c, e), NEW context, c.line # <<>>
  PROVE  /\ Routed(Argued(c, context), Argued(e, context))
         /\ Further(Argued(c, context), Argued(e, context))
         /\ Argued(c, context).line = Tail(c.line) /\ Argued(c, context).warn = c.warn
<1> DEFINE m == (context :> Append(IF Contains(Mod(c, context), context) THEN Mod(c, context) ELSE <<>>,
                                   Head(c.line))) @@ c.mods
<1>1. Mod(e, context) = Mod(c, context) /\ e.line = c.line /\ e.mods = c.mods /\ e.args = c.args
  BY WordSame, FurtherSame DEF Routed
<1>2. /\ Argued(c, context) = [c EXCEPT !.line = Tail(c.line), !.mods = m]
      /\ Argued(e, context) = [e EXCEPT !.line = Tail(c.line), !.mods = m]
  BY <1>1 DEF Argued
<1> HIDE DEF m
<1>3. \A x : IsContext(x) => [x EXCEPT !.line = Tail(c.line), !.mods = m] = Taken(x, Tail(c.line), m, x.args)
  BY DEF IsContext, Taken
<1>4. IsContext(c) /\ IsContext(e)
  BY DEF Routed, Further, GoodContext
<1>5. Argued(c, context) = Taken(c, Tail(c.line), m, c.args) /\ Argued(e, context) = Taken(e, Tail(c.line), m, c.args)
  BY <1>1, <1>2, <1>3, <1>4
<1>6. IsSeq(Tail(c.line))
  BY SeqTail DEF Routed
<1> QED
  BY <1>5, <1>6, TakenFurther DEF Routed

(* A controller that keeps a word behaves as what it hands the line to,    *)
(* and raises when no word is left.                                        *)
LEMMA ArguedBehaves ==
  ASSUME NEW c, NEW e, Routed(c, e), NEW context, NEW modifiers, NEW p, NEW q,
         c.line # <<>> => Behaves(Argued(c, context), p, q)
  PROVE  Behaves(c, ArguedOr(c, modifiers, p), ArguedOr(e, modifiers, q))
<1>1. Behaves(c, End(c, <<Raise>>), End(e, <<Raise>>))
  BY EndHeeds, HeedsBehaves, Helps
<1>2. e.line = c.line
  BY FurtherSame DEF Routed
<1>3. CASE c.line = <<>> \/ (c.line # <<>> /\ Head(c.line) \in modifiers)
  BY <1>1, <1>2, <1>3 DEF ArguedOr
<1>4. CASE ~(c.line = <<>> \/ (c.line # <<>> /\ Head(c.line) \in modifiers))
  <2>1. Behaves(c, p, q)
    <3>1. c.line # <<>> /\ IsSeq(c.line)
      BY <1>4 DEF Routed
    <3>2. Argued(c, context).line = Tail(c.line) /\ Argued(c, context).warn = c.warn
      BY <3>1, ArguedRouted
    <3> QED
      BY <3>1, <3>2, TailBehaves
  <2> QED
    BY <1>2, <1>4, <2>1 DEF ArguedOr
<1> QED
  BY <1>3, <1>4

(* manage acl create: behaves, whatever the line.                          *)
LEMMA ManageACLCreateControllerBehaves ==
  ASSUME NEW c, NEW e, Routed(c, e)
  PROVE  Behaves(c, ManageACLCreateController(c), ManageACLCreateController(e))
<1> DEFINE p1 == ManageACLCreateUserController(Popped(c))  q1 == ManageACLCreateUserController(Popped(e))
           p2 == ManageACLCreateRoleController(Popped(c))  q2 == ManageACLCreateRoleController(Popped(e))
           p0 == execute_help(c)  q0 == execute_help(e)
<1>1. Word(c) = "user" => Behaves(c, p1, q1)
  <2>1. SUFFICES ASSUME Word(c) = "user" PROVE Behaves(c, p1, q1)
    OBVIOUS
  <2>2. Word(c) # ""
    BY <2>1
  <2>3. Further(Popped(c), Popped(e)) /\ Routed(Popped(c), Popped(e)) /\ IsSeq(Popped(c).line)
    BY <2>2, PoppedRouted
  <2> QED
    BY <2>2, <2>3, ManageACLCreateUserControllerHeeds, PoppedHeeds
<1>2. Word(c) = "role" => Behaves(c, p2, q2)
  <2>1. SUFFICES ASSUME Word(c) = "role" PROVE Behaves(c, p2, q2)
    OBVIOUS
  <2>2. Word(c) # ""
    BY <2>1
  <2>3. Further(Popped(c), Popped(e)) /\ Routed(Popped(c), Popped(e)) /\ IsSeq(Popped(c).line)
    BY <2>2, PoppedRouted
  <2> QED
    BY <2>2, <2>3, ManageACLCreateRoleControllerHeeds, PoppedHeeds
<1>3. Behaves(c, p0, q0)
  BY HelpBehaves
<1>4. Word(e) = Word(c)
  BY WordSame DEF Routed
<1>5. ManageACLCreateController(c) =
    CASE Word(c) = "user" -> p1
      [] Word(c) = "role" -> p2
      [] OTHER -> p0
  BY DEF ManageACLCreateController
<1>6. ManageACLCreateController(e) =
    CASE Word(e) = "user" -> q1
      [] Word(e) = "role" -> q2
      [] OTHER -> q0
  BY DEF ManageACLCreateController
<1> HIDE DEF p0, q0, p1, q1, p2, q2
<1> QED
  BY <1>1, <1>2, <1>3, <1>4, <1>5, <1>6

(* manage acl delete: behaves, whatever the line.                          *)
LEMMA ManageACLDeleteControllerBehaves ==
  ASSUME NEW c, NEW e, Routed(c, e)
  PROVE  Behaves(c, ManageACLDeleteController(c), ManageACLDeleteController(e))
<1> DEFINE p1 == ManageACLDeleteUserController(Popped(c))  q1 == ManageACLDeleteUserController(Popped(e))
           p2 == ManageACLDeleteRoleController(Popped(c))  q2 == ManageACLDeleteRoleController(Popped(e))
           p0 == execute_help(c)  q0 == execute_help(e)
<1>1. Word(c) = "user" => Behaves(c, p1, q1)
  <2>1. SUFFICES ASSUME Word(c) = "user" PROVE Behaves(c, p1, q1)
    OBVIOUS
  <2>2. Word(c) # ""
    BY <2>1
  <2>3. Further(Popped(c), Popped(e)) /\ Routed(Popped(c), Popped(e)) /\ IsSeq(Popped(c).line)
    BY <2>2, PoppedRouted
  <2> QED
    BY <2>2, <2>3, ManageACLDeleteUserControllerHeeds, PoppedHeeds
<1>2. Word(c) = "role" => Behaves(c, p2, q2)
  <2>1. SUFFICES ASSUME Word(c) = "role" PROVE Behaves(c, p2, q2)
    OBVIOUS
  <2>2. Word(c) # ""
    BY <2>1
  <2>3. Further(Popped(c), Popped(e)) /\ Routed(Popped(c), Popped(e)) /\ IsSeq(Popped(c).line)
    BY <2>2, PoppedRouted
  <2> QED
    BY <2>2, <2>3, ManageACLDeleteRoleControllerHeeds, PoppedHeeds
<1>3. Behaves(c, p0, q0)
  BY HelpBehaves
<1>4. Word(e) = Word(c)
  BY WordSame DEF Routed
<1>5. ManageACLDeleteController(c) =
    CASE Word(c) = "user" -> p1
      [] Word(c) = "role" -> p2
      [] OTHER -> p0
  BY DEF ManageACLDeleteController
<1>6. ManageACLDeleteController(e) =
    CASE Word(e) = "user" -> q1
      [] Word(e) = "role" -> q2
      [] OTHER -> q0
  BY DEF ManageACLDeleteController
<1> HIDE DEF p0, q0, p1, q1, p2, q2
<1> QED
  BY <1>1, <1>2, <1>3, <1>4, <1>5, <1>6

(* manage acl grant: behaves, whatever the line.                           *)
LEMMA ManageACLGrantControllerBehaves ==
  ASSUME NEW c, NEW e, Routed(c, e)
  PROVE  Behaves(c, ManageACLGrantController(c), ManageACLGrantController(e))
<1> DEFINE p1 == ManageACLGrantUserController(Popped(c))  q1 == ManageACLGrantUserController(Popped(e))
           p2 == ManageACLGrantRoleController(Popped(c))  q2 == ManageACLGrantRoleController(Popped(e))
           p0 == execute_help(c)  q0 == execute_help(e)
<1>1. Word(c) = "user" => Behaves(c, p1, q1)
  <2>1. SUFFICES ASSUME Word(c) = "user" PROVE Behaves(c, p1, q1)
    OBVIOUS
  <2>2. Word(c) # ""
    BY <2>1
  <2>3. Further(Popped(c), Popped(e)) /\ Routed(Popped(c), Popped(e)) /\ IsSeq(Popped(c).line)
    BY <2>2, PoppedRouted
  <2> QED
    BY <2>2, <2>3, ManageACLGrantUserControllerHeeds, PoppedHeeds
<1>2. Word(c) = "role" => Behaves(c, p2, q2)
  <2>1. SUFFICES ASSUME Word(c) = "role" PROVE Behaves(c, p2, q2)
    OBVIOUS
  <2>2. Word(c) # ""
    BY <2>1
  <2>3. Further(Popped(c), Popped(e)) /\ Routed(Popped(c), Popped(e)) /\ IsSeq(Popped(c).line)
    BY <2>2, PoppedRouted
  <2> QED
    BY <2>2, <2>3, ManageACLGrantRoleControllerHeeds, PoppedHeeds
<1>3. Behaves(c, p0, q0)
  BY HelpBehaves
<1>4. Word(e) = Word(c)
  BY WordSame DEF Routed
<1>5. ManageACLGrantController(c) =
    CASE Word(c) = "user" -> p1
      [] Word(c) = "role" -> p2
      [] OTHER -> p0
  BY DEF ManageACLGrantController
<1>6. ManageACLGrantController(e) =
    CASE Word(e) = "user" -> q1
      [] Word(e) = "role" -> q2
      [] OTHER -> q0
  BY DEF ManageACLGrantController
<1> HIDE DEF p0, q0, p1, q1, p2, q2
<1> QED
  BY <1>1, <1>2, <1>3, <1>4, <1>5, <1>6

(* manage acl revoke: behaves, whatever the line.                          *)
LEMMA ManageACLRevokeControllerBehaves ==
  ASSUME NEW c, NEW e, Routed(c, e)
  PROVE  Behaves(c, ManageACLRevokeController(c), ManageACLRevokeController(e))
<1> DEFINE p1 == ManageACLRevokeUserController(Popped(c))  q1 == ManageACLRevokeUserController(Popped(e))
           p2 == ManageACLRevokeRoleController(Popped(c))  q2 == ManageACLRevokeRoleController(Popped(e))
           p0 == execute_help(c)  q0 == execute_help(e)
<1>1. Word(c) = "user" => Behaves(c, p1, q1)
  <2>1. SUFFICES ASSUME Word(c) = "user" PROVE Behaves(c, p1, q1)
    OBVIOUS
  <2>2. Word(c) # ""
    BY <2>1
  <2>3. Further(Popped(c), Popped(e)) /\ Routed(Popped(c), Popped(e)) /\ IsSeq(Popped(c).line)
    BY <2>2, PoppedRouted
  <2> QED
    BY <2>2, <2>3, ManageACLRevokeUserControllerHeeds, PoppedHeeds
<1>2. Word(c) = "role" => Behaves(c, p2, q2)
  <2>1. SUFFICES ASSUME Word(c) = "role" PROVE Behaves(c, p2, q2)
    OBVIOUS
  <2>2. Word(c) # ""
    BY <2>1
  <2>3. Further(Popped(c), Popped(e)) /\ Routed(Popped(c), Popped(e)) /\ IsSeq(Popped(c).line)
    BY <2>2, PoppedRouted
  <2> QED
    BY <2>2, <2>3, ManageACLRevokeRoleControllerHeeds, PoppedHeeds
<1>3. Behaves(c, p0, q0)
  BY HelpBehaves
<1>4. Word(e) = Word(c)
  BY WordSame DEF Routed
<1>5. ManageACLRevokeController(c) =
    CASE Word(c) = "user" -> p1
      [] Word(c) = "role" -> p2
      [] OTHER -> p0
  BY DEF ManageACLRevokeController
<1>6. ManageACLRevokeController(e) =
    CASE Word(e) = "user" -> q1
      [] Word(e) = "role" -> q2
      [] OTHER -> q0
  BY DEF ManageACLRevokeController
<1> HIDE DEF p0, q0, p1, q1, p2, q2
<1> QED
  BY <1>1, <1>2, <1>3, <1>4, <1>5, <1>6

(* manage acl: behaves, whatever the line.                                 *)
LEMMA ManageACLControllerBehaves ==
  ASSUME NEW c, NEW e, Routed(c, e)
  PROVE  Behaves(c, ManageACLController(c), ManageACLController(e))
<1> DEFINE p1 == ManageACLCreateController(Popped(c))  q1 == ManageACLCreateController(Popped(e))
           p2 == ManageACLDeleteController(Popped(c))  q2 == ManageACLDeleteController(Popped(e))
           p3 == ManageACLGrantController(Popped(c))  q3 == ManageACLGrantController(Popped(e))
           p4 == ManageACLRevokeController(Popped(c))  q4 == ManageACLRevokeController(Popped(e))
           p5 == ManageACLSetPasswordUserController(Popped(c))  q5 == ManageACLSetPasswordUserController(Popped(e))
           p6 == ManageACLChangePasswordUserController(Popped(c))  q6 == ManageACLChangePasswordUserController(Popped(e))
           p7 == ManageACLAllowListRoleController(Popped(c))  q7 == ManageACLAllowListRoleController(Popped(e))
           p8 == ManageACLQuotasRoleController(Popped(c))  q8 == ManageACLQuotasRoleController(Popped(e))
           p0 == execute_help(c)  q0 == execute_help(e)
<1>1. Word(c) = "create" => Behaves(c, p1, q1)
  <2>1. SUFFICES ASSUME Word(c) = "create" PROVE Behaves(c, p1, q1)
    OBVIOUS
  <2>2. Word(c) # ""
    BY <2>1
  <2>3. Further(Popped(c), Popped(e)) /\ Routed(Popped(c), Popped(e)) /\ IsSeq(Popped(c).line)
    BY <2>2, PoppedRouted
  <2> QED
    BY <2>2, <2>3, ManageACLCreateControllerBehaves, PoppedBehaves
<1>2. Word(c) = "delete" => Behaves(c, p2, q2)
  <2>1. SUFFICES ASSUME Word(c) = "delete" PROVE Behaves(c, p2, q2)
    OBVIOUS
  <2>2. Word(c) # ""
    BY <2>1
  <2>3. Further(Popped(c), Popped(e)) /\ Routed(Popped(c), Popped(e)) /\ IsSeq(Popped(c).line)
    BY <2>2, PoppedRouted
  <2> QED
    BY <2>2, <2>3, ManageACLDeleteControllerBehaves, PoppedBehaves
<1>3. Word(c) = "grant" => Behaves(c, p3, q3)
  <2>1. SUFFICES ASSUME Word(c) = "grant" PROVE Behaves(c, p3, q3)
    OBVIOUS
  <2>2. Word(c) # ""
    BY <2>1
  <2>3. Further(Popped(c), Popped(e)) /\ Routed(Popped(c), Popped(e)) /\ IsSeq(Popped(c).line)
    BY <2>2, PoppedRouted
  <2> QED
    BY <2>2, <2>3, ManageACLGrantControllerBehaves, PoppedBehaves
<1>4. Word(c) = "revoke" => Behaves(c, p4, q4)
  <2>1. SUFFICES ASSUME Word(c) = "revoke" PROVE Behaves(c, p4, q4)
    OBVIOUS
  <2>2. Word(c) # ""
    BY <2>1
  <2>3. Further(Popped(c), Popped(e)) /\ Routed(Popped(c), Popped(e)) /\ IsSeq(Popped(c).line)
    BY <2>2, PoppedRouted
  <2> QED
    BY <2>2, <2>3, ManageACLRevokeControllerBehaves, PoppedBehaves
<1>5. Word(c) = "set-password" => Behaves(c, p5, q5)
  <2>1. SUFFICES ASSUME Word(c) = "set-password" PROVE Behaves(c, p5, q5)
    OBVIOUS
  <2>2. Word(c) # ""
    BY <2>1
  <2>3. Further(Popped(c), Popped(e)) /\ Routed(Popped(c), Popped(e)) /\ IsSeq(Popped(c).line)
    BY <2>2, PoppedRouted
  <2> QED
    BY <2>2, <2>3, ManageACLSetPasswordUserControllerHeeds, PoppedHeeds
<1>6. Word(c) = "change-password" => Behaves(c, p6, q6)
  <2>1. SUFFICES ASSUME Word(c) = "change-password" PROVE Behaves(c, p6, q6)
    OBVIOUS
  <2>2. Word(c) # ""
    BY <2>1
  <2>3. Further(Popped(c), Popped(e)) /\ Routed(Popped(c), Popped(e)) /\ IsSeq(Popped(c).line)
    BY <2>2, PoppedRouted
  <2> QED
    BY <2>2, <2>3, ManageACLChangePasswordUserControllerHeeds, PoppedHeeds
<1>7. Word(c) = "allowlist" => Behaves(c, p7, q7)
  <2>1. SUFFICES ASSUME Word(c) = "allowlist" PROVE Behaves(c, p7, q7)
    OBVIOUS
  <2>2. Word(c) # ""
    BY <2>1
  <2>3. Further(Popped(c), Popped(e)) /\ Routed(Popped(c), Popped(e)) /\ IsSeq(Popped(c).line)
    BY <2>2, PoppedRouted
  <2> QED
    BY <2>2, <2>3, ManageACLAllowListRoleControllerHeeds, PoppedHeeds
<1>8. Word(c) = "quotas" => Behaves(c, p8, q8)
  <2>1. SUFFICES ASSUME Word(c) = "quotas" PROVE Behaves(c, p8, q8)
    OBVIOUS
  <2>2. Word(c) # ""
    BY <2>1
  <2>3. Further(Popped(c), Popped(e)) /\ Routed(Popped(c), Popped(e)) /\ IsSeq(Popped(c).line)
    BY <2>2, PoppedRouted
  <2> QED
    BY <2>2, <2>3, ManageACLQuotasRoleControllerHeeds, PoppedHeeds
<1>9. Behaves(c, p0, q0)
  BY HelpBehaves
<1>10. Word(e) = Word(c)
  BY WordSame DEF Routed
<1>11. ManageACLController(c) =
    CASE Word(c) = "create" -> p1
      [] Word(c) = "delete" -> p2
      [] Word(c) = "grant" -> p3
      [] Word(c) = "revoke" -> p4
      [] Word(c) = "set-password" -> p5
      [] Word(c) = "change-password" -> p6
      [] Word(c) = "allowlist" -> p7
      [] Word(c) = "quotas" -> p8
      [] OTHER -> p0
  BY DEF ManageACLController
<1>12. ManageACLController(e) =
    CASE Word(e) = "create" -> q1
      [] Word(e) = "delete" -> q2
      [] Word(e) = "grant" -> q3
      [] Word(e) = "revoke" -> q4
      [] Word(e) = "set-password" -> q5
      [] Word(e) = "change-password" -> q6
      [] Word(e) = "allowlist" -> q7
      [] Word(e) = "quotas" -> q8
      [] OTHER -> q0
  BY DEF ManageACLController
<1> HIDE DEF p0, q0, p1, q1, p2, q2, p3, q3, p4, q4, p5, q5, p6, q6, p7, q7, p8, q8
<1> QED
  BY <1>1, <1>2, <1>3, <1>4, <1>5, <1>6, <1>7, <1>8, <1>9, <1>10, <1>11, <1>12

(* manage udfs: behaves, whatever the line.                                *)
LEMMA ManageUdfsControllerBehaves ==
  ASSUME NEW c, NEW e, Routed(c, e)
  PROVE  Behaves(c, ManageUdfsController(c), ManageUdfsController(e))
<1> DEFINE p1 == ManageUdfsAddController(Popped(c))  q1 == ManageUdfsAddController(Popped(e))
           p2 == ManageUdfsRemoveController(Popped(c))  q2 == ManageUdfsRemoveController(Popped(e))
           p0 == execute_help(c)  q0 == execute_help(e)
<1>1. Word(c) = "add" => Behaves(c, p1, q1)
  <2>1. SUFFICES ASSUME Word(c) = "add" PROVE Behaves(c, p1, q1)
    OBVIOUS
  <2>2. Word(c) # ""
    BY <2>1
  <2>3. Further(Popped(c), Popped(e)) /\ Routed(Popped(c), Popped(e)) /\ IsSeq(Popped(c).line)
    BY <2>2, PoppedRouted
  <2> QED
    BY <2>2, <2>3, ManageUdfsAddControllerHeeds, PoppedHeeds
<1>2. Word(c) = "remove" => Behaves(c, p2, q2)
  <2>1. SUFFICES ASSUME Word(c) = "remove" PROVE Behaves(c, p2, q2)
    OBVIOUS
  <2>2. Word(c) # ""
    BY <2>1
  <2>3. Further(Popped(c), Popped(e)) /\ Routed(Popped(c), Popped(e)) /\ IsSeq(Popped(c).line)
    BY <2>2, PoppedRouted
  <2> QED
    BY <2>2, <2>3, ManageUdfsRemoveControllerHeeds, PoppedHeeds
<1>3. Behaves(c, p0, q0)
  BY HelpBehaves
<1>4. Word(e) = Word(c)
  BY WordSame DEF Routed
<1>5. ManageUdfsController(c) =
    CASE Word(c) = "add" -> p1
      [] Word(c) = "remove" -> p2
      [] OTHER -> p0
  BY DEF ManageUdfsController
<1>6. ManageUdfsController(e) =
    CASE Word(e) = "add" -> q1
      [] Word(e) = "remove" -> q2
      [] OTHER -> q0
  BY DEF ManageUdfsController
<1> HIDE DEF p0, q0, p1, q1, p2, q2
<1> QED
  BY <1>1, <1>2, <1>3, <1>4, <1>5, <1>6

(* manage sindex create: behaves, whatever the line.                       *)
LEMMA ManageSIndexCreateControllerBehaves ==
  ASSUME NEW c, NEW e, Routed(c, e)
  PROVE  Behaves(c, ManageSIndexCreateController(c), ManageSIndexCreateController(e))
<1> DEFINE p == SIndexCreateLeaf(Popped(c))  q == SIndexCreateLeaf(Popped(e))
           T == {"numeric", "string", "geo2dsphere"}
<1>1. ManageSIndexCreateController(c) = IF Word(c) \notin T THEN execute_help(c) ELSE p
  BY DEF ManageSIndexCreateController, SIndexCreateLeaf
<1>2. ManageSIndexCreateController(e) = IF Word(e) \notin T THEN execute_help(e) ELSE q
  BY DEF ManageSIndexCreateController, SIndexCreateLeaf
<1>3. Word(e) = Word(c)
  BY WordSame DEF Routed
<1>4. Behaves(c, execute_help(c), execute_help(e))
  BY HelpBehaves
<1>5. ASSUME Word(c) \in T PROVE Behaves(c, p, q)
  <2>1. Word(c) # ""
    BY <1>5
  <2>2. Further(Popped(c), Popped(e))
    BY <2>1, PoppedRouted
  <2> QED
    BY <2>1, <2>2, SIndexCreateLeafHeeds, PoppedHeeds
<1> HIDE DEF p, q, T
<1> QED
  BY <1>1, <1>2, <1>3, <1>4, <1>5

(* manage sindex: behaves, whatever the line.                              *)
LEMMA ManageSIndexControllerBehaves ==
  ASSUME NEW c, NEW e, Routed(c, e)
  PROVE  Behaves(c, ManageSIndexController(c), ManageSIndexController(e))
<1> DEFINE p1 == ManageSIndexCreateController(Popped(c))  q1 == ManageSIndexCreateController(Popped(e))
           p2 == ManageSIndexDeleteController(Popped(c))  q2 == ManageSIndexDeleteController(Popped(e))
           p0 == execute_help(c)  q0 == execute_help(e)
<1>1. Word(c) = "create" => Behaves(c, p1, q1)
  <2>1. SUFFICES ASSUME Word(c) = "create" PROVE Behaves(c, p1, q1)
    OBVIOUS
  <2>2. Word(c) # ""
    BY <2>1
  <2>3. Further(Popped(c), Popped(e)) /\ Routed(Popped(c), Popped(e)) /\ IsSeq(Popped(c).line)
    BY <2>2, PoppedRouted
  <2> QED
    BY <2>2, <2>3, ManageSIndexCreateControllerBehaves, PoppedBehaves
<1>2. Word(c) = "delete" => Behaves(c, p2, q2)
  <2>1. SUFFICES ASSUME Word(c) = "delete" PROVE Behaves(c, p2, q2)
    OBVIOUS
  <2>2. Word(c) # ""
    BY <2>1
  <2>3. Further(Popped(c), Popped(e)) /\ Routed(Popped(c), Popped(e)) /\ IsSeq(Popped(c).line)
    BY <2>2, PoppedRouted
  <2> QED
    BY <2>2, <2>3, ManageSIndexDeleteControllerHeeds, PoppedHeeds
<1>3. Behaves(c, p0, q0)
  BY HelpBehaves
<1>4. Word(e) = Word(c)
  BY WordSame DEF Routed
<1>5. ManageSIndexController(c) =
    CASE Word(c) = "create" -> p1
      [] Word(c) = "delete" -> p2
      [] OTHER -> p0
  BY DEF ManageSIndexController
<1>6. ManageSIndexController(e) =
    CASE Word(e) = "create" -> q1
      [] Word(e) = "delete" -> q2
      [] OTHER -> q0
  BY DEF ManageSIndexController
<1> HIDE DEF p0, q0, p1, q1, p2, q2
<1> QED
  BY <1>1, <1>2, <1>3, <1>4, <1>5, <1>6

(* manage config namespace set: behaves, whatever the line.                *)
LEMMA ManageConfigNamespaceSetControllerBehaves ==
  ASSUME NEW c, NEW e, Routed(c, e)
  PROVE  Behaves(c, ManageConfigNamespaceSetController(c), ManageConfigNamespaceSetController(e))
<1> DEFINE mod == ParamTo \union {"with"}
           B0(d) == ConfigLeaf(d, ParamTo, {},
             LAMBDA e_, n : info_set_config_namespace(OneOf(e_, "namespace") \o " " \o OneOf(e_, "set"),
             Param(e_), Value(e_)), <<>>)
           B(d) == NamespaceSetLeaf(d)
<1>1. ASSUME NEW x PROVE ManageConfigNamespaceSetController(x) = ArguedOr(x, mod, B(Argued(x, "set")))
  <2>1. ManageConfigNamespaceSetController(x) = pre_controller(x, "set", mod, B0)
    BY DEF ManageConfigNamespaceSetController
  <2>2. \A d : B0(d) = B(d)
    BY DEF NamespaceSetLeaf
  <2> HIDE DEF B0, B, mod
  <2>3. pre_controller(x, "set", mod, B0) = ArguedOr(x, mod, B0(Argued(x, "set")))
    BY DEF pre_controller, Given, ArguedOr, Argued
  <2> QED
    BY <2>1, <2>2, <2>3
<1>2. ASSUME NEW d, NEW f, Routed(d, f) PROVE Behaves(d, B(d), B(f))
  BY <1>2, NamespaceSetLeafHeeds, HeedsBehaves DEF Routed
<1> HIDE DEF B, mod
<1>3. c.line # <<>> => Behaves(Argued(c, "set"), B(Argued(c, "set")), B(Argued(e, "set")))
  BY <1>2, ArguedRouted
<1> QED
  BY <1>1, <1>3, ArguedBehaves

(* manage config namespace: behaves, whatever the line.                    *)
LEMMA ManageConfigNamespaceControllerBehaves ==
  ASSUME NEW c, NEW e, Routed(c, e)
  PROVE  Behaves(c, ManageConfigNamespaceController(c), ManageConfigNamespaceController(e))
<1> DEFINE mod == ParamTo \union {"with"}
           B0(d) == IF Word(d) = "set" THEN ManageConfigNamespaceSetController(Popped(d))
             ELSE ConfigLeaf(d, ParamTo, {},
             LAMBDA e_, n : info_set_config_namespace(OneOf(e_, "namespace"), Subcontext(e_) \o Param(e_),
             Value(e_)), IF fetch_argument(d.line, "param", "") \in {"prefer-uniform-balance", "rack-id"}
             THEN Recluster ELSE <<>>)
           B(d) == IF Word(d) = "set" THEN ManageConfigNamespaceSetController(Popped(d)) ELSE NamespaceLeaf(d)
<1>1. ASSUME NEW x PROVE ManageConfigNamespaceController(x) = ArguedOr(x, mod, B(Argued(x, "namespace")))
  <2>1. ManageConfigNamespaceController(x) = pre_controller(x, "namespace", mod, B0)
    BY DEF ManageConfigNamespaceController
  <2>2. \A d : B0(d) = B(d)
    BY DEF NamespaceLeaf
  <2> HIDE DEF B0, B, mod
  <2>3. pre_controller(x, "namespace", mod, B0) = ArguedOr(x, mod, B0(Argued(x, "namespace")))
    BY DEF pre_controller, Given, ArguedOr, Argued
  <2> QED
    BY <2>1, <2>2, <2>3
<1>2. ASSUME NEW d, NEW f, Routed(d, f) PROVE Behaves(d, B(d), B(f))
  <2> USE <1>2
  <2> DEFINE p1 == ManageConfigNamespaceSetController(Popped(d))  q1 == ManageConfigNamespaceSetController(Popped(f))
             p0 == NamespaceLeaf(d)  q0 == NamespaceLeaf(f)
  <2>1. Word(d) = "set" => Behaves(d, p1, q1)
    <3>1. SUFFICES ASSUME Word(d) = "set" PROVE Behaves(d, p1, q1)
      OBVIOUS
    <3>2. Word(d) # ""
      BY <3>1
    <3>3. Further(Popped(d), Popped(f)) /\ Routed(Popped(d), Popped(f)) /\ IsSeq(Popped(d).line)
      BY <3>2, PoppedRouted
    <3> QED
      BY <3>2, <3>3, ManageConfigNamespaceSetControllerBehaves, PoppedBehaves
  <2>2. Behaves(d, p0, q0)
    BY NamespaceLeafHeeds, HeedsBehaves DEF Routed
  <2>3. Word(f) = Word(d)
    BY WordSame DEF Routed
  <2>4. B(d) =
      IF Word(d) = "set" THEN p1 ELSE p0
    OBVIOUS
  <2>5. B(f) =
      IF Word(f) = "set" THEN q1 ELSE q0
    OBVIOUS
  <2> HIDE DEF p0, q0, p1, q1, B, B0
  <2> QED
    BY <2>1, <2>2, <2>3, <2>4, <2>5
<1> HIDE DEF B, mod
<1>3. c.line # <<>> => Behaves(Argued(c, "namespace"), B(Argued(c, "namespace")), B(Argued(e, "namespace")))
  BY <1>2, ArguedRouted
<1> QED
  BY <1>1, <1>3, ArguedBehaves

(* manage config xdr dc add node: behaves, whatever the line.              *)
LEMMA ManageConfigXDRDCAddNodeControllerBehaves ==
  ASSUME NEW c, NEW e, Routed(c, e)
  PROVE  Behaves(c, ManageConfigXDRDCAddNodeController(c), ManageConfigXDRDCAddNodeController(e))
<1> DEFINE mod == {"with"}
           B0(d) == ConfigLeaf(d, {}, {},
             LAMBDA e_, n : info_set_config_xdr_add_node(n, OneOf(e_, "dc"), OneOf(e_, "node")), <<>>)
           B(d) == AddNodeLeaf(d)
<1>1. ASSUME NEW x PROVE ManageConfigXDRDCAddNodeController(x) = ArguedOr(x, mod, B(Argued(x, "node")))
  <2>1. ManageConfigXDRDCAddNodeController(x) = pre_controller(x, "node", mod, B0)
    BY DEF ManageConfigXDRDCAddNodeController
  <2>2. \A d : B0(d) = B(d)
    BY DEF AddNodeLeaf
  <2> HIDE DEF B0, B, mod
  <2>3. pre_controller(x, "node", mod, B0) = ArguedOr(x, mod, B0(Argued(x, "node")))
    BY DEF pre_controller, Given, ArguedOr, Argued
  <2> QED
    BY <2>1, <2>2, <2>3
<1>2. ASSUME NEW d, NEW f, Routed(d, f) PROVE Behaves(d, B(d), B(f))
  BY <1>2, AddNodeLeafHeeds, HeedsBehaves DEF Routed
<1> HIDE DEF B, mod
<1>3. c.line # <<>> => Behaves(Argued(c, "node"), B(Argued(c, "node")), B(Argued(e, "node")))
  BY <1>2, ArguedRouted
<1> QED
  BY <1>1, <1>3, ArguedBehaves

(* manage config xdr dc remove node: behaves, whatever the line.           *)
LEMMA ManageConfigXDRDCRemoveNodeControllerBehaves ==
  ASSUME NEW c, NEW e, Routed(c, e)
  PROVE  Behaves(c, ManageConfigXDRDCRemoveNodeController(c), ManageConfigXDRDCRemoveNodeController(e))
<1> DEFINE mod == {"with"}
           B0(d) == ConfigLeaf(d, {}, {},
             LAMBDA e_, n : info_set_config_xdr_remove_node(n, OneOf(e_, "dc"), OneOf(e_, "node")), <<>>)
           B(d) == RemoveNodeLeaf(d)
<1>1. ASSUME NEW x PROVE ManageConfigXDRDCRemoveNodeController(x) = ArguedOr(x, mod, B(Argued(x, "node")))
  <2>1. ManageConfigXDRDCRemoveNodeController(x) = pre_controller(x, "node", mod, B0)
    BY DEF ManageConfigXDRDCRemoveNodeController
  <2>2. \A d : B0(d) = B(d)
    BY DEF RemoveNodeLeaf
  <2> HIDE DEF B0, B, mod
  <2>3. pre_controller(x, "node", mod, B0) = ArguedOr(x, mod, B0(Argued(x, "node")))
    BY DEF pre_controller, Given, ArguedOr, Argued
  <2> QED
    BY <2>1, <2>2, <2>3
<1>2. ASSUME NEW d, NEW f, Routed(d, f) PROVE Behaves(d, B(d), B(f))
  BY <1>2, RemoveNodeLeafHeeds, HeedsBehaves DEF Routed
<1> HIDE DEF B, mod
<1>3. c.line # <<>> => Behaves(Argued(c, "node"), B(Argued(c, "node")), B(Argued(e, "node")))
  BY <1>2, ArguedRouted
<1> QED
  BY <1>1, <1>3, ArguedBehaves

(* manage config xdr dc remove namespace: behaves, whatever the line.      *)
LEMMA ManageConfigXDRDCRemoveNamespaceControllerBehaves ==
  ASSUME NEW c, NEW e, Routed(c, e)
  PROVE  Behaves(c, ManageConfigXDRDCRemoveNamespaceController(c), ManageConfigXDRDCRemoveNamespaceController(e))
<1> DEFINE mod == {"with"}
           B0(d) == ConfigLeaf(d, {}, {},
             LAMBDA e_, n : info_set_config_xdr_remove_namespace(n, OneOf(e_, "dc"), OneOf(e_, "namespace")), <<>>)
           B(d) == RemoveNamespaceLeaf(d)
<1>1. ASSUME NEW x PROVE ManageConfigXDRDCRemoveNamespaceController(x) = ArguedOr(x, mod, B(Argued(x, "namespace")))
  <2>1. ManageConfigXDRDCRemoveNamespaceController(x) = pre_controller(x, "namespace", mod, B0)
    BY DEF ManageConfigXDRDCRemoveNamespaceController
  <2>2. \A d : B0(d) = B(d)
    BY DEF RemoveNamespaceLeaf
  <2> HIDE DEF B0, B, mod
  <2>3. pre_controller(x, "namespace", mod, B0) = ArguedOr(x, mod, B0(Argued(x, "namespace")))
    BY DEF pre_controller, Given, ArguedOr, Argued
  <2> QED
    BY <2>1, <2>2, <2>3
<1>2. ASSUME NEW d, NEW f, Routed(d, f) PROVE Behaves(d, B(d), B(f))
  BY <1>2, RemoveNamespaceLeafHeeds, HeedsBehaves DEF Routed
<1> HIDE DEF B, mod
<1>3. c.line # <<>> => Behaves(Argued(c, "namespace"), B(Argued(c, "namespace")), B(Argued(e, "namespace")))
  BY <1>2, ArguedRouted
<1> QED
  BY <1>1, <1>3, ArguedBehaves

(* manage config xdr dc add namespace: behaves, whatever the line.         *)
LEMMA ManageConfigXDRDCAddNamespaceControllerBehaves ==
  ASSUME NEW c, NEW e, Routed(c, e)
  PROVE  Behaves(c, ManageConfigXDRDCAddNamespaceController(c), ManageConfigXDRDCAddNamespaceController(e))
<1> DEFINE mod == {"with", "rewind"}
           B0(d) == LET add == ConfigLeaf(d, {}, {"rewind"},
             LAMBDA e_, n : info_set_config_xdr_add_namespace(n, OneOf(e_, "dc"), OneOf(e_, "namespace")), <<>>)
                    IN Confirm(d, d.warn /\ fetch_argument(d.line, "rewind", "") # "", <<>>, add)
           B(d) == Confirm(d, d.warn /\ fetch_argument(d.line, "rewind", "") # "", <<>>, AddNamespaceLeaf(d))
<1>1. ASSUME NEW x PROVE ManageConfigXDRDCAddNamespaceController(x) = ArguedOr(x, mod, B(Argued(x, "namespace")))
  <2>1. ManageConfigXDRDCAddNamespaceController(x) = pre_controller(x, "namespace", mod, B0)
    BY DEF ManageConfigXDRDCAddNamespaceController
  <2>2. \A d : B0(d) = B(d)
    BY DEF AddNamespaceLeaf
  <2> HIDE DEF B0, B, mod
  <2>3. pre_controller(x, "namespace", mod, B0) = ArguedOr(x, mod, B0(Argued(x, "namespace")))
    BY DEF pre_controller, Given, ArguedOr, Argued
  <2> QED
    BY <2>1, <2>2, <2>3
<1>2. ASSUME NEW d, NEW f, Routed(d, f) PROVE Behaves(d, B(d), B(f))
  <2> DEFINE p == AddNamespaceLeaf(d)  q == AddNamespaceLeaf(f)
             asked == d.warn /\ fetch_argument(d.line, "rewind", "") # ""
  <2>1. Heeds(d.warn, p, q)
    BY <1>2, AddNamespaceLeafHeeds DEF Routed
  <2>2. f.warn = d.warn /\ f.line = d.line
    BY <1>2, FurtherSame DEF Routed
  <2>3. B(d) = Confirm(d, asked, <<>>, p) /\ B(f) = Confirm(f, asked, <<>>, q)
    BY <2>2
  <2> HIDE DEF p, q, asked, B
  <2>4. Heeds(d.warn, Confirm(d, asked, <<>>, p), Confirm(f, asked, <<>>, q))
    BY <2>1, ConfirmHeeds DEF Heeds
  <2> QED
    BY <2>3, <2>4, HeedsBehaves
<1> HIDE DEF B, mod
<1>3. c.line # <<>> => Behaves(Argued(c, "namespace"), B(Argued(c, "namespace")), B(Argued(e, "namespace")))
  BY <1>2, ArguedRouted
<1> QED
  BY <1>1, <1>3, ArguedBehaves

(* manage config xdr dc add: behaves, whatever the line.                   *)
LEMMA ManageConfigXDRDCAddControllerBehaves ==
  ASSUME NEW c, NEW e, Routed(c, e)
  PROVE  Behaves(c, ManageConfigXDRDCAddController(c), ManageConfigXDRDCAddController(e))
<1> DEFINE p1 == ManageConfigXDRDCAddNodeController(Popped(c))  q1 == ManageConfigXDRDCAddNodeController(Popped(e))
           p2 == ManageConfigXDRDCAddNamespaceController(Popped(c))  q2 == ManageConfigXDRDCAddNamespaceController(Popped(e))
           p0 == execute_help(c)  q0 == execute_help(e)
<1>1. Word(c) = "node" => Behaves(c, p1, q1)
  <2>1. SUFFICES ASSUME Word(c) = "node" PROVE Behaves(c, p1, q1)
    OBVIOUS
  <2>2. Word(c) # ""
    BY <2>1
  <2>3. Further(Popped(c), Popped(e)) /\ Routed(Popped(c), Popped(e)) /\ IsSeq(Popped(c).line)
    BY <2>2, PoppedRouted
  <2> QED
    BY <2>2, <2>3, ManageConfigXDRDCAddNodeControllerBehaves, PoppedBehaves
<1>2. Word(c) = "namespace" => Behaves(c, p2, q2)
  <2>1. SUFFICES ASSUME Word(c) = "namespace" PROVE Behaves(c, p2, q2)
    OBVIOUS
  <2>2. Word(c) # ""
    BY <2>1
  <2>3. Further(Popped(c), Popped(e)) /\ Routed(Popped(c), Popped(e)) /\ IsSeq(Popped(c).line)
    BY <2>2, PoppedRouted
  <2> QED
    BY <2>2, <2>3, ManageConfigXDRDCAddNamespaceControllerBehaves, PoppedBehaves
<1>3. Behaves(c, p0, q0)
  BY HelpBehaves
<1>4. Word(e) = Word(c)
  BY WordSame DEF Routed
<1>5. ManageConfigXDRDCAddController(c) =
    CASE Word(c) = "node" -> p1
      [] Word(c) = "namespace" -> p2
      [] OTHER -> p0
  BY DEF ManageConfigXDRDCAddController
<1>6. ManageConfigXDRDCAddController(e) =
    CASE Word(e) = "node" -> q1
      [] Word(e) = "namespace" -> q2
      [] OTHER -> q0
  BY DEF ManageConfigXDRDCAddController
<1> HIDE DEF p0, q0, p1, q1, p2, q2
<1> QED
  BY <1>1, <1>2, <1>3, <1>4, <1>5, <1>6

(* manage config xdr dc remove: behaves, whatever the line.                *)
LEMMA ManageConfigXDRDCRemoveControllerBehaves ==
  ASSUME NEW c, NEW e, Routed(c, e)
  PROVE  Behaves(c, ManageConfigXDRDCRemoveController(c), ManageConfigXDRDCRemoveController(e))
<1> DEFINE p1 == ManageConfigXDRDCRemoveNodeController(Popped(c))  q1 == ManageConfigXDRDCRemoveNodeController(Popped(e))
           p2 == ManageConfigXDRDCRemoveNamespaceController(Popped(c))  q2 == ManageConfigXDRDCRemoveNamespaceController(Popped(e))
           p0 == execute_help(c)  q0 == execute_help(e)
<1>1. Word(c) = "node" => Behaves(c, p1, q1)
  <2>1. SUFFICES ASSUME Word(c) = "node" PROVE Behaves(c, p1, q1)
    OBVIOUS
  <2>2. Word(c) # ""
    BY <2>1
  <2>3. Further(Popped(c), Popped(e)) /\ Routed(Popped(c), Popped(e)) /\ IsSeq(Popped(c).line)
    BY <2>2, PoppedRouted
  <2> QED
    BY <2>2, <2>3, ManageConfigXDRDCRemoveNodeControllerBehaves, PoppedBehaves
<1>2. Word(c) = "namespace" => Behaves(c, p2, q2)
  <2>1. SUFFICES ASSUME Word(c) = "namespace" PROVE Behaves(c, p2, q2)
    OBVIOUS
  <2>2. Word(c) # ""
    BY <2>1
  <2>3. Further(Popped(c), Popped(e)) /\ Routed(Popped(c), Popped(e)) /\ IsSeq(Popped(c).line)
    BY <2>2, PoppedRouted
  <2> QED
    BY <2>2, <2>3, ManageConfigXDRDCRemoveNamespaceControllerBehaves, PoppedBehaves
<1>3. Behaves(c, p0, q0)
  BY HelpBehaves
<1>4. Word(e) = Word(c)
  BY WordSame DEF Routed
<1>5. ManageConfigXDRDCRemoveController(c) =
    CASE Word(c) = "node" -> p1
      [] Word(c) = "namespace" -> p2
      [] OTHER -> p0
  BY DEF ManageConfigXDRDCRemoveController
<1>6. ManageConfigXDRDCRemoveController(e) =
    CASE Word(e) = "node" -> q1
      [] Word(e) = "namespace" -> q2
      [] OTHER -> q0
  BY DEF ManageConfigXDRDCRemoveController
<1> HIDE DEF p0, q0, p1, q1, p2, q2
<1> QED
  BY <1>1, <1>2, <1>3, <1>4, <1>5, <1>6

(* manage config xdr dc namespace: behaves, whatever the line.             *)
LEMMA ManageConfigXDRDCNamespaceControllerBehaves ==
  ASSUME NEW c, NEW e, Routed(c, e)
  PROVE  Behaves(c, ManageConfigXDRDCNamespaceController(c), ManageConfigXDRDCNamespaceController(e))
<1> DEFINE mod == ParamTo \union {"with"}
           B0(d) == ConfigLeaf(d, ParamTo, {},
             LAMBDA e_, n : info_set_config_xdr(OneOf(e_, "dc") \o " " \o OneOf(e_, "namespace"), Param(e_),
             Value(e_)), <<>>)
           B(d) == DCNamespaceLeaf(d)
<1>1. ASSUME NEW x PROVE ManageConfigXDRDCNamespaceController(x) = ArguedOr(x, mod, B(Argued(x, "namespace")))
  <2>1. ManageConfigXDRDCNamespaceController(x) = pre_controller(x, "namespace", mod, B0)
    BY DEF ManageConfigXDRDCNamespaceController
  <2>2. \A d : B0(d) = B(d)
    BY DEF DCNamespaceLeaf
  <2> HIDE DEF B0, B, mod
  <2>3. pre_controller(x, "namespace", mod, B0) = ArguedOr(x, mod, B0(Argued(x, "namespace")))
    BY DEF pre_controller, Given, ArguedOr, Argued
  <2> QED
    BY <2>1, <2>2, <2>3
<1>2. ASSUME NEW d, NEW f, Routed(d, f) PROVE Behaves(d, B(d), B(f))
  BY <1>2, DCNamespaceLeafHeeds, HeedsBehaves DEF Routed
<1> HIDE DEF B, mod
<1>3. c.line # <<>> => Behaves(Argued(c, "namespace"), B(Argued(c, "namespace")), B(Argued(e, "namespace")))
  BY <1>2, ArguedRouted
<1> QED
  BY <1>1, <1>3, ArguedBehaves

(* manage config xdr dc: behaves, whatever the line.                       *)
LEMMA ManageConfigXDRDCControllerBehaves ==
  ASSUME NEW c, NEW e, Routed(c, e)
  PROVE  Behaves(c, ManageConfigXDRDCController(c), ManageConfigXDRDCController(e))
<1> DEFINE mod == ParamTo \union {"with"}
           B0(d) == CASE Word(d) = "namespace" -> ManageConfigXDRDCNamespaceController(Popped(d))
                      [] Word(d) = "add"       -> ManageConfigXDRDCAddController(Popped(d))
                      [] Word(d) = "remove"    -> ManageConfigXDRDCRemoveController(Popped(d))
                      [] OTHER -> ConfigLeaf(d, ParamTo, {},
                        LAMBDA e_, n : info_set_config_xdr(OneOf(e_, "dc"), Param(e_), Value(e_)), <<>>)
           B(d) == CASE Word(d) = "namespace" -> ManageConfigXDRDCNamespaceController(Popped(d))
                 [] Word(d) = "add" -> ManageConfigXDRDCAddController(Popped(d))
                 [] Word(d) = "remove" -> ManageConfigXDRDCRemoveController(Popped(d))
                 [] OTHER -> DCLeaf(d)
<1>1. ASSUME NEW x PROVE ManageConfigXDRDCController(x) = ArguedOr(x, mod, B(Argued(x, "dc")))
  <2>1. ManageConfigXDRDCController(x) = pre_controller(x, "dc", mod, B0)
    BY DEF ManageConfigXDRDCController
  <2>2. \A d : B0(d) = B(d)
    BY DEF DCLeaf
  <2> HIDE DEF B0, B, mod
  <2>3. pre_controller(x, "dc", mod, B0) = ArguedOr(x, mod, B0(Argued(x, "dc")))
    BY DEF pre_controller, Given, ArguedOr, Argued
  <2> QED
    BY <2>1, <2>2, <2>3
<1>2. ASSUME NEW d, NEW f, Routed(d, f) PROVE Behaves(d, B(d), B(f))
  <2> USE <1>2
  <2> DEFINE p1 == ManageConfigXDRDCNamespaceController(Popped(d))  q1 == ManageConfigXDRDCNamespaceController(Popped(f))
             p2 == ManageConfigXDRDCAddController(Popped(d))  q2 == ManageConfigXDRDCAddController(Popped(f))
             p3 == ManageConfigXDRDCRemoveController(Popped(d))  q3 == ManageConfigXDRDCRemoveController(Popped(f))
             p0 == DCLeaf(d)  q0 == DCLeaf(f)
  <2>1. Word(d) = "namespace" => Behaves(d, p1, q1)
    <3>1. SUFFICES ASSUME Word(d) = "namespace" PROVE Behaves(d, p1, q1)
      OBVIOUS
    <3>2. Word(d) # ""
      BY <3>1
    <3>3. Further(Popped(d), Popped(f)) /\ Routed(Popped(d), Popped(f)) /\ IsSeq(Popped(d).line)
      BY <3>2, PoppedRouted
    <3> QED
      BY <3>2, <3>3, ManageConfigXDRDCNamespaceControllerBehaves, PoppedBehaves
  <2>2. Word(d) = "add" => Behaves(d, p2, q2)
    <3>1. SUFFICES ASSUME Word(d) = "add" PROVE Behaves(d, p2, q2)
      OBVIOUS
    <3>2. Word(d) # ""
      BY <3>1
    <3>3. Further(Popped(d), Popped(f)) /\ Routed(Popped(d), Popped(f)) /\ IsSeq(Popped(d).line)
      BY <3>2, PoppedRouted
    <3> QED
      BY <3>2, <3>3, ManageConfigXDRDCAddControllerBehaves, PoppedBehaves
  <2>3. Word(d) = "remove" => Behaves(d, p3, q3)
    <3>1. SUFFICES ASSUME Word(d) = "remove" PROVE Behaves(d, p3, q3)
      OBVIOUS
    <3>2. Word(d) # ""
      BY <3>1
    <3>3. Further(Popped(d), Popped(f)) /\ Routed(Popped(d), Popped(f)) /\ IsSeq(Popped(d).line)
      BY <3>2, PoppedRouted
    <3> QED
      BY <3>2, <3>3, ManageConfigXDRDCRemoveControllerBehaves, PoppedBehaves
  <2>4. Behaves(d, p0, q0)
    BY DCLeafHeeds, HeedsBehaves DEF Routed
  <2>5. Word(f) = Word(d)
    BY WordSame DEF Routed
  <2>6. B(d) =
      CASE Word(d) = "namespace" -> p1
        [] Word(d) = "add" -> p2
        [] Word(d) = "remove" -> p3
        [] OTHER -> p0
    OBVIOUS
  <2>7. B(f) =
      CASE Word(f) = "namespace" -> q1
        [] Word(f) = "add" -> q2
        [] Word(f) = "remove" -> q3
        [] OTHER -> q0
    OBVIOUS
  <2> HIDE DEF p0, q0, p1, q1, p2, q2, p3, q3, B, B0
  <2> QED
    BY <2>1, <2>2, <2>3, <2>4, <2>5, <2>6, <2>7
<1> HIDE DEF B, mod
<1>3. c.line # <<>> => Behaves(Argued(c, "dc"), B(Argued(c, "dc")), B(Argued(e, "dc")))
  BY <1>2, ArguedRouted
<1> QED
  BY <1>1, <1>3, ArguedBehaves

(* manage config xdr: behaves, whatever the line.                          *)
LEMMA ManageConfigXDRControllerBehaves ==
  ASSUME NEW c, NEW e, Routed(c, e)
  PROVE  Behaves(c, ManageConfigXDRController(c), ManageConfigXDRController(e))
<1> DEFINE p1 == ManageConfigXDRDCController(Popped(c))  q1 == ManageConfigXDRDCController(Popped(e))
           p2 == ManageConfigXDRCreateController(Popped(c))  q2 == ManageConfigXDRCreateController(Popped(e))
           p3 == ManageConfigXDRDeleteController(Popped(c))  q3 == ManageConfigXDRDeleteController(Popped(e))
           p0 == XDRLeaf(c)  q0 == XDRLeaf(e)
<1>1. Word(c) = "dc" => Behaves(c, p1, q1)
  <2>1. SUFFICES ASSUME Word(c) = "dc" PROVE Behaves(c, p1, q1)
    OBVIOUS
  <2>2. Word(c) # ""
    BY <2>1
  <2>3. Further(Popped(c), Popped(e)) /\ Routed(Popped(c), Popped(e)) /\ IsSeq(Popped(c).line)
    BY <2>2, PoppedRouted
  <2> QED
    BY <2>2, <2>3, ManageConfigXDRDCControllerBehaves, PoppedBehaves
<1>2. Word(c) = "create" => Behaves(c, p2, q2)
  <2>1. SUFFICES ASSUME Word(c) = "create" PROVE Behaves(c, p2, q2)
    OBVIOUS
  <2>2. Word(c) # ""
    BY <2>1
  <2>3. Further(Popped(c), Popped(e)) /\ Routed(Popped(c), Popped(e)) /\ IsSeq(Popped(c).line)
    BY <2>2, PoppedRouted
  <2> QED
    BY <2>2, <2>3, ManageConfigXDRCreateControllerHeeds, PoppedHeeds
<1>3. Word(c) = "delete" => Behaves(c, p3, q3)
  <2>1. SUFFICES ASSUME Word(c) = "delete" PROVE Behaves(c, p3, q3)
    OBVIOUS
  <2>2. Word(c) # ""
    BY <2>1
  <2>3. Further(Popped(c), Popped(e)) /\ Routed(Popped(c), Popped(e)) /\ IsSeq(Popped(c).line)
    BY <2>2, PoppedRouted
  <2> QED
    BY <2>2, <2>3, ManageConfigXDRDeleteControllerHeeds, PoppedHeeds
<1>4. Behaves(c, p0, q0)
  BY XDRLeafHeeds, HeedsBehaves DEF Routed
<1>5. Word(e) = Word(c)
  BY WordSame DEF Routed
<1>6. ManageConfigXDRController(c) =
    CASE Word(c) = "dc" -> p1
      [] Word(c) = "create" -> p2
      [] Word(c) = "delete" -> p3
      [] OTHER -> p0
  BY DEF ManageConfigXDRController, XDRLeaf
<1>7. ManageConfigXDRController(e) =
    CASE Word(e) = "dc" -> q1
      [] Word(e) = "create" -> q2
      [] Word(e) = "delete" -> q3
      [] OTHER -> q0
  BY DEF ManageConfigXDRController, XDRLeaf
<1> HIDE DEF p0, q0, p1, q1, p2, q2, p3, q3
<1> QED
  BY <1>1, <1>2, <1>3, <1>4, <1>5, <1>6, <1>7

(* manage config: behaves, whatever the line.                              *)
LEMMA ManageConfigControllerBehaves ==
  ASSUME NEW c, NEW e, Routed(c, e)
  PROVE  Behaves(c, ManageConfigController(c), ManageConfigController(e))
<1> DEFINE p1 == ManageConfigLoggingController(Popped(c))  q1 == ManageConfigLoggingController(Popped(e))
           p2 == ManageConfigServiceController(Popped(c))  q2 == ManageConfigServiceController(Popped(e))
           p3 == ManageConfigNetworkController(Popped(c))  q3 == ManageConfigNetworkController(Popped(e))
           p4 == ManageConfigSecurityController(Popped(c))  q4 == ManageConfigSecurityController(Popped(e))
           p5 == ManageConfigNamespaceController(Popped(c))  q5 == ManageConfigNamespaceController(Popped(e))
           p6 == ManageConfigXDRController(Popped(c))  q6 == ManageConfigXDRController(Popped(e))
           p0 == execute_help(c)  q0 == execute_help(e)
<1>1. Word(c) = "logging" => Behaves(c, p1, q1)
  <2>1. SUFFICES ASSUME Word(c) = "logging" PROVE Behaves(c, p1, q1)
    OBVIOUS
  <2>2. Word(c) # ""
    BY <2>1
  <2>3. Further(Popped(c), Popped(e)) /\ Routed(Popped(c), Popped(e)) /\ IsSeq(Popped(c).line)
    BY <2>2, PoppedRouted
  <2> QED
    BY <2>2, <2>3, ManageConfigLoggingControllerHeeds, PoppedHeeds
<1>2. Word(c) = "service" => Behaves(c, p2, q2)
  <2>1. SUFFICES ASSUME Word(c) = "service" PROVE Behaves(c, p2, q2)
    OBVIOUS
  <2>2. Word(c) # ""
    BY <2>1
  <2>3. Further(Popped(c), Popped(e)) /\ Routed(Popped(c), Popped(e)) /\ IsSeq(Popped(c).line)
    BY <2>2, PoppedRouted
  <2> QED
    BY <2>2, <2>3, ManageConfigServiceControllerHeeds, PoppedHeeds
<1>3. Word(c) = "network" => Behaves(c, p3, q3)
  <2>1. SUFFICES ASSUME Word(c) = "network" PROVE Behaves(c, p3, q3)
    OBVIOUS
  <2>2. Word(c) # ""
    BY <2>1
  <2>3. Further(Popped(c), Popped(e)) /\ Routed(Popped(c), Popped(e)) /\ IsSeq(Popped(c).line)
    BY <2>2, PoppedRouted
  <2> QED
    BY <2>2, <2>3, ManageConfigNetworkControllerHeeds, PoppedHeeds
<1>4. Word(c) = "security" => Behaves(c, p4, q4)
  <2>1. SUFFICES ASSUME Word(c) = "security" PROVE Behaves(c, p4, q4)
    OBVIOUS
  <2>2. Word(c) # ""
    BY <2>1
  <2>3. Further(Popped(c), Popped(e)) /\ Routed(Popped(c), Popped(e)) /\ IsSeq(Popped(c).line)
    BY <2>2, PoppedRouted
  <2> QED
    BY <2>2, <2>3, ManageConfigSecurityControllerHeeds, PoppedHeeds
<1>5. Word(c) = "namespace" => Behaves(c, p5, q5)
  <2>1. SUFFICES ASSUME Word(c) = "namespace" PROVE Behaves(c, p5, q5)
    OBVIOUS
  <2>2. Word(c) # ""
    BY <2>1
  <2>3. Further(Popped(c), Popped(e)) /\ Routed(Popped(c), Popped(e)) /\ IsSeq(Popped(c).line)
    BY <2>2, PoppedRouted
  <2> QED
    BY <2>2, <2>3, ManageConfigNamespaceControllerBehaves, PoppedBehaves
<1>6. Word(c) = "xdr" => Behaves(c, p6, q6)
  <2>1. SUFFICES ASSUME Word(c) = "xdr" PROVE Behaves(c, p6, q6)
    OBVIOUS
  <2>2. Word(c) # ""
    BY <2>1
  <2>3. Further(Popped(c), Popped(e)) /\ Routed(Popped(c), Popped(e)) /\ IsSeq(Popped(c).line)
    BY <2>2, PoppedRouted
  <2> QED
    BY <2>2, <2>3, ManageConfigXDRControllerBehaves, PoppedBehaves
<1>7. Behaves(c, p0, q0)
  BY HelpBehaves
<1>8. Word(e) = Word(c)
  BY WordSame DEF Routed
<1>9. ManageConfigController(c) =
    CASE Word(c) = "logging" -> p1
      [] Word(c) = "service" -> p2
      [] Word(c) = "network" -> p3
      [] Word(c) = "security" -> p4
      [] Word(c) = "namespace" -> p5
      [] Word(c) = "xdr" -> p6
      [] OTHER -> p0
  BY DEF ManageConfigController
<1>10. ManageConfigController(e) =
    CASE Word(e) = "logging" -> q1
      [] Word(e) = "service" -> q2
      [] Word(e) = "network" -> q3
      [] Word(e) = "security" -> q4
      [] Word(e) = "namespace" -> q5
      [] Word(e) = "xdr" -> q6
      [] OTHER -> q0
  BY DEF ManageConfigController
<1> HIDE DEF p0, q0, p1, q1, p2, q2, p3, q3, p4, q4, p5, q5, p6, q6
<1> QED
  BY <1>1, <1>2, <1>3, <1>4, <1>5, <1>6, <1>7, <1>8, <1>9, <1>10

(* manage roster stage: behaves, whatever the line.                        *)
LEMMA ManageRosterStageControllerBehaves ==
  ASSUME NEW c, NEW e, Routed(c, e)
  PROVE  Behaves(c, ManageRosterStageController(c), ManageRosterStageController(e))
<1> DEFINE p1 == ManageRosterStageNodesController(Popped(c))  q1 == ManageRosterStageNodesController(Popped(e))
           p2 == ManageRosterStageObservedController(Popped(c))  q2 == ManageRosterStageObservedController(Popped(e))
           p0 == End(c, <<Raise>>)  q0 == End(e, <<Raise>>)
<1>1. Word(c) = "nodes" => Behaves(c, p1, q1)
  <2>1. SUFFICES ASSUME Word(c) = "nodes" PROVE Behaves(c, p1, q1)
    OBVIOUS
  <2>2. Word(c) # ""
    BY <2>1
  <2>3. Further(Popped(c), Popped(e)) /\ Routed(Popped(c), Popped(e)) /\ IsSeq(Popped(c).line)
    BY <2>2, PoppedRouted
  <2> QED
    BY <2>2, <2>3, ManageRosterStageNodesControllerHeeds, PoppedBehaves
<1>2. Word(c) = "observed" => Behaves(c, p2, q2)
  <2>1. SUFFICES ASSUME Word(c) = "observed" PROVE Behaves(c, p2, q2)
    OBVIOUS
  <2>2. Word(c) # ""
    BY <2>1
  <2>3. Further(Popped(c), Popped(e)) /\ Routed(Popped(c), Popped(e)) /\ IsSeq(Popped(c).line)
    BY <2>2, PoppedRouted
  <2> QED
    BY <2>2, <2>3, ManageRosterStageObservedControllerHeeds, PoppedBehaves
<1>3. Behaves(c, p0, q0)
  BY EndHeeds, HeedsBehaves, Helps
<1>4. Word(e) = Word(c)
  BY WordSame DEF Routed
<1>5. ManageRosterStageController(c) =
    CASE Word(c) = "nodes" -> p1
      [] Word(c) = "observed" -> p2
      [] OTHER -> p0
  BY DEF ManageRosterStageController
<1>6. ManageRosterStageController(e) =
    CASE Word(e) = "nodes" -> q1
      [] Word(e) = "observed" -> q2
      [] OTHER -> q0
  BY DEF ManageRosterStageController
<1> HIDE DEF p0, q0, p1, q1, p2, q2
<1> QED
  BY <1>1, <1>2, <1>3, <1>4, <1>5, <1>6

(* manage roster: behaves, whatever the line.                              *)
LEMMA ManageRosterControllerBehaves ==
  ASSUME NEW c, NEW e, Routed(c, e)
  PROVE  Behaves(c, ManageRosterController(c), ManageRosterController(e))
<1> DEFINE p1 == ManageRosterAddController(Popped(c))  q1 == ManageRosterAddController(Popped(e))
           p2 == ManageRosterRemoveController(Popped(c))  q2 == ManageRosterRemoveController(Popped(e))
           p3 == ManageRosterStageController(Popped(c))  q3 == ManageRosterStageController(Popped(e))
           p0 == execute_help(c)  q0 == execute_help(e)
<1>1. Word(c) = "add" => Behaves(c, p1, q1)
  <2>1. SUFFICES ASSUME Word(c) = "add" PROVE Behaves(c, p1, q1)
    OBVIOUS
  <2>2. Word(c) # ""
    BY <2>1
  <2>3. Further(Popped(c), Popped(e)) /\ Routed(Popped(c), Popped(e)) /\ IsSeq(Popped(c).line)
    BY <2>2, PoppedRouted
  <2> QED
    BY <2>2, <2>3, ManageRosterAddControllerHeeds, PoppedBehaves
<1>2. Word(c) = "remove" => Behaves(c, p2, q2)
  <2>1. SUFFICES ASSUME Word(c) = "remove" PROVE Behaves(c, p2, q2)
    OBVIOUS
  <2>2. Word(c) # ""
    BY <2>1
  <2>3. Further(Popped(c), Popped(e)) /\ Routed(Popped(c), Popped(e)) /\ IsSeq(Popped(c).line)
    BY <2>2, PoppedRouted
  <2> QED
    BY <2>2, <2>3, ManageRosterRemoveControllerHeeds, PoppedBehaves
<1>3. Word(c) = "stage" => Behaves(c, p3, q3)
  <2>1. SUFFICES ASSUME Word(c) = "stage" PROVE Behaves(c, p3, q3)
    OBVIOUS
  <2>2. Word(c) # ""
    BY <2>1
  <2>3. Further(Popped(c), Popped(e)) /\ Routed(Popped(c), Popped(e)) /\ IsSeq(Popped(c).line)
    BY <2>2, PoppedRouted
  <2> QED
    BY <2>2, <2>3, ManageRosterStageControllerBehaves, PoppedBehaves
<1>4. Behaves(c, p0, q0)
  BY HelpBehaves
<1>5. Word(e) = Word(c)
  BY WordSame DEF Routed
<1>6. ManageRosterController(c) =
    CASE Word(c) = "add" -> p1
      [] Word(c) = "remove" -> p2
      [] Word(c) = "stage" -> p3
      [] OTHER -> p0
  BY DEF ManageRosterController
<1>7. ManageRosterController(e) =
    CASE Word(e) = "add" -> q1
      [] Word(e) = "remove" -> q2
      [] Word(e) = "stage" -> q3
      [] OTHER -> q0
  BY DEF ManageRosterController
<1> HIDE DEF p0, q0, p1, q1, p2, q2, p3, q3
<1> QED
  BY <1>1, <1>2, <1>3, <1>4, <1>5, <1>6, <1>7

(* manage jobs kill all: behaves, whatever the line.                       *)
LEMMA ManageJobsKillAllControllerBehaves ==
  ASSUME NEW c, NEW e, Routed(c, e)
  PROVE  Behaves(c, ManageJobsKillAllController(c), ManageJobsKillAllController(e))
<1> DEFINE p1 == ManageJobsKillAllQueriesController(Popped(c))  q1 == ManageJobsKillAllQueriesController(Popped(e))
           p2 == ManageJobsKillAllScansController(Popped(c))  q2 == ManageJobsKillAllScansController(Popped(e))
           p0 == execute_help(c)  q0 == execute_help(e)
<1>1. Word(c) = "queries" => Behaves(c, p1, q1)
  <2>1. SUFFICES ASSUME Word(c) = "queries" PROVE Behaves(c, p1, q1)
    OBVIOUS
  <2>2. Word(c) # ""
    BY <2>1
  <2>3. Further(Popped(c), Popped(e)) /\ Routed(Popped(c), Popped(e)) /\ IsSeq(Popped(c).line)
    BY <2>2, PoppedRouted
  <2> QED
    BY <2>2, <2>3, ManageJobsKillAllQueriesControllerHeeds, PoppedHeeds
<1>2. Word(c) = "scans" => Behaves(c, p2, q2)
  <2>1. SUFFICES ASSUME Word(c) = "scans" PROVE Behaves(c, p2, q2)
    OBVIOUS
  <2>2. Word(c) # ""
    BY <2>1
  <2>3. Further(Popped(c), Popped(e)) /\ Routed(Popped(c), Popped(e)) /\ IsSeq(Popped(c).line)
    BY <2>2, PoppedRouted
  <2> QED
    BY <2>2, <2>3, ManageJobsKillAllScansControllerHeeds, PoppedHeeds
<1>3. Behaves(c, p0, q0)
  BY HelpBehaves
<1>4. Word(e) = Word(c)
  BY WordSame DEF Routed
<1>5. ManageJobsKillAllController(c) =
    CASE Word(c) = "queries" -> p1
      [] Word(c) = "scans" -> p2
      [] OTHER -> p0
  BY DEF ManageJobsKillAllController
<1>6. ManageJobsKillAllController(e) =
    CASE Word(e) = "queries" -> q1
      [] Word(e) = "scans" -> q2
      [] OTHER -> q0
  BY DEF ManageJobsKillAllController
<1> HIDE DEF p0, q0, p1, q1, p2, q2
<1> QED
  BY <1>1, <1>2, <1>3, <1>4, <1>5, <1>6

(* manage jobs kill: behaves, whatever the line.                           *)
LEMMA ManageJobsKillControllerBehaves ==
  ASSUME NEW c, NEW e, Routed(c, e)
  PROVE  Behaves(c, ManageJobsKillController(c), ManageJobsKillController(e))
<1> DEFINE p1 == ManageJobsKillTridController(Popped(c))  q1 == ManageJobsKillTridController(Popped(e))
           p2 == ManageJobsKillAllController(Popped(c))  q2 == ManageJobsKillAllController(Popped(e))
           p0 == execute_help(c)  q0 == execute_help(e)
<1>1. Word(c) = "trids" => Behaves(c, p1, q1)
  <2>1. SUFFICES ASSUME Word(c) = "trids" PROVE Behaves(c, p1, q1)
    OBVIOUS
  <2>2. Word(c) # ""
    BY <2>1
  <2>3. Further(Popped(c), Popped(e)) /\ Routed(Popped(c), Popped(e)) /\ IsSeq(Popped(c).line)
    BY <2>2, PoppedRouted
  <2> QED
    BY <2>2, <2>3, ManageJobsKillTridControllerHeeds, PoppedHeeds
<1>2. Word(c) = "all" => Behaves(c, p2, q2)
  <2>1. SUFFICES ASSUME Word(c) = "all" PROVE Behaves(c, p2, q2)
    OBVIOUS
  <2>2. Word(c) # ""
    BY <2>1
  <2>3. Further(Popped(c), Popped(e)) /\ Routed(Popped(c), Popped(e)) /\ IsSeq(Popped(c).line)
    BY <2>2, PoppedRouted
  <2> QED
    BY <2>2, <2>3, ManageJobsKillAllControllerBehaves, PoppedBehaves
<1>3. Behaves(c, p0, q0)
  BY HelpBehaves
<1>4. Word(e) = Word(c)
  BY WordSame DEF Routed
<1>5. ManageJobsKillController(c) =
    CASE Word(c) = "trids" -> p1
      [] Word(c) = "all" -> p2
      [] OTHER -> p0
  BY DEF ManageJobsKillController
<1>6. ManageJobsKillController(e) =
    CASE Word(e) = "trids" -> q1
      [] Word(e) = "all" -> q2
      [] OTHER -> q0
  BY DEF ManageJobsKillController
<1> HIDE DEF p0, q0, p1, q1, p2, q2
<1> QED
  BY <1>1, <1>2, <1>3, <1>4, <1>5, <1>6

(* manage jobs: behaves, whatever the line.                                *)
LEMMA ManageJobsControllerBehaves ==
  ASSUME NEW c, NEW e, Routed(c, e)
  PROVE  Behaves(c, ManageJobsController(c), ManageJobsController(e))
<1> DEFINE p1 == ManageJobsKillController(Popped(c))  q1 == ManageJobsKillController(Popped(e))
           p0 == execute_help(c)  q0 == execute_help(e)
<1>1. Word(c) = "kill" => Behaves(c, p1, q1)
  <2>1. SUFFICES ASSUME Word(c) = "kill" PROVE Behaves(c, p1, q1)
    OBVIOUS
  <2>2. Word(c) # ""
    BY <2>1
  <2>3. Further(Popped(c), Popped(e)) /\ Routed(Popped(c), Popped(e)) /\ IsSeq(Popped(c).line)
    BY <2>2, PoppedRouted
  <2> QED
    BY <2>2, <2>3, ManageJobsKillControllerBehaves, PoppedBehaves
<1>2. Behaves(c, p0, q0)
  BY HelpBehaves
<1>3. Word(e) = Word(c)
  BY WordSame DEF Routed
<1>4. ManageJobsController(c) =
    IF Word(c) = "kill" THEN p1 ELSE p0
  BY DEF ManageJobsController
<1>5. ManageJobsController(e) =
    IF Word(e) = "kill" THEN q1 ELSE q0
  BY DEF ManageJobsController
<1> HIDE DEF p0, q0, p1, q1
<1> QED
  BY <1>1, <1>2, <1>3, <1>4, <1>5

(* manage: whatever the line, no request that a user is to confirm is      *)
(* planned before the question when the context warns and the line has no  *)
(* --no-warn, and with more answers the plan only goes on.                 *)
LEMMA ManageControllerBehaves ==
  ASSUME NEW c, NEW e, Routed(c, e)
  PROVE  Behaves(c, ManageController(c), ManageController(e))
<1> DEFINE p1 == ManageJobsController(Popped(c))  q1 == ManageJobsController(Popped(e))
           p2 == ManageReclusterController(Popped(c))  q2 == ManageReclusterController(Popped(e))
           p3 == ManageQuiesceController(Popped(c))  q3 == ManageQuiesceController(Popped(e))
           p4 == ManageReviveController(Popped(c))  q4 == ManageReviveController(Popped(e))
           p5 == ManageRosterController(Popped(c))  q5 == ManageRosterController(Popped(e))
           p6 == ManageTruncateController(Popped(c))  q6 == ManageTruncateController(Popped(e))
           p7 == ManageUdfsController(Popped(c))  q7 == ManageUdfsController(Popped(e))
           p8 == ManageSIndexController(Popped(c))  q8 == ManageSIndexController(Popped(e))
           p9 == ManageConfigController(Popped(c))  q9 == ManageConfigController(Popped(e))
           p10 == ManageACLController(Popped(c))  q10 == ManageACLController(Popped(e))
           p0 == execute_help(c)  q0 == execute_help(e)
<1>1. Word(c) = "jobs" => Behaves(c, p1, q1)
  <2>1. SUFFICES ASSUME Word(c) = "jobs" PROVE Behaves(c, p1, q1)
    OBVIOUS
  <2>2. Word(c) # ""
    BY <2>1
  <2>3. Further(Popped(c), Popped(e)) /\ Routed(Popped(c), Popped(e)) /\ IsSeq(Popped(c).line)
    BY <2>2, PoppedRouted
  <2> QED
    BY <2>2, <2>3, ManageJobsControllerBehaves, PoppedBehaves
<1>2. Word(c) = "recluster" => Behaves(c, p2, q2)
  <2>1. SUFFICES ASSUME Word(c) = "recluster" PROVE Behaves(c, p2, q2)
    OBVIOUS
  <2>2. Word(c) # ""
    BY <2>1
  <2>3. Further(Popped(c), Popped(e)) /\ Routed(Popped(c), Popped(e)) /\ IsSeq(Popped(c).line)
    BY <2>2, PoppedRouted
  <2> QED
    BY <2>2, <2>3, ManageReclusterControllerHeeds, PoppedHeeds
<1>3. Word(c) = "quiesce" => Behaves(c, p3, q3)
  <2>1. SUFFICES ASSUME Word(c) = "quiesce" PROVE Behaves(c, p3, q3)
    OBVIOUS
  <2>2. Word(c) # ""
    BY <2>1
  <2>3. Further(Popped(c), Popped(e)) /\ Routed(Popped(c), Popped(e)) /\ IsSeq(Popped(c).line)
    BY <2>2, PoppedRouted
  <2> QED
    BY <2>2, <2>3, ManageQuiesceControllerHeeds, PoppedHeeds
<1>4. Word(c) = "revive" => Behaves(c, p4, q4)
  <2>1. SUFFICES ASSUME Word(c) = "revive" PROVE Behaves(c, p4, q4)
    OBVIOUS
  <2>2. Word(c) # ""
    BY <2>1
  <2>3. Further(Popped(c), Popped(e)) /\ Routed(Popped(c), Popped(e)) /\ IsSeq(Popped(c).line)
    BY <2>2, PoppedRouted
  <2> QED
    BY <2>2, <2>3, ManageReviveControllerHeeds, PoppedHeeds
<1>5. Word(c) = "roster" => Behaves(c, p5, q5)
  <2>1. SUFFICES ASSUME Word(c) = "roster" PROVE Behaves(c, p5, q5)
    OBVIOUS
  <2>2. Word(c) # ""
    BY <2>1
  <2>3. Further(Popped(c), Popped(e)) /\ Routed(Popped(c), Popped(e)) /\ IsSeq(Popped(c).line)
    BY <2>2, PoppedRouted
  <2> QED
    BY <2>2, <2>3, ManageRosterControllerBehaves, PoppedBehaves
<1>6. Word(c) = "truncate" => Behaves(c, p6, q6)
  <2>1. SUFFICES ASSUME Word(c) = "truncate" PROVE Behaves(c, p6, q6)
    OBVIOUS
  <2>2. Word(c) # ""
    BY <2>1
  <2>3. Further(Popped(c), Popped(e)) /\ Routed(Popped(c), Popped(e)) /\ IsSeq(Popped(c).line)
    BY <2>2, PoppedRouted
  <2> QED
    BY <2>2, <2>3, ManageTruncateControllerHeeds, PoppedBehaves
<1>7. Word(c) = "udfs" => Behaves(c, p7, q7)
  <2>1. SUFFICES ASSUME Word(c) = "udfs" PROVE Behaves(c, p7, q7)
    OBVIOUS
  <2>2. Word(c) # ""
    BY <2>1
  <2>3. Further(Popped(c), Popped(e)) /\ Routed(Popped(c), Popped(e)) /\ IsSeq(Popped(c).line)
    BY <2>2, PoppedRouted
  <2> QED
    BY <2>2, <2>3, ManageUdfsControllerBehaves, PoppedBehaves
<1>8. Word(c) = "sindex" => Behaves(c, p8, q8)
  <2>1. SUFFICES ASSUME Word(c) = "sindex" PROVE Behaves(c, p8, q8)
    OBVIOUS
  <2>2. Word(c) # ""
    BY <2>1
  <2>3. Further(Popped(c), Popped(e)) /\ Routed(Popped(c), Popped(e)) /\ IsSeq(Popped(c).line)
    BY <2>2, PoppedRouted
  <2> QED
    BY <2>2, <2>3, ManageSIndexControllerBehaves, PoppedBehaves
<1>9. Word(c) = "config" => Behaves(c, p9, q9)
  <2>1. SUFFICES ASSUME Word(c) = "config" PROVE Behaves(c, p9, q9)
    OBVIOUS
  <2>2. Word(c) # ""
    BY <2>1
  <2>3. Further(Popped(c), Popped(e)) /\ Routed(Popped(c), Popped(e)) /\ IsSeq(Popped(c).line)
    BY <2>2, PoppedRouted
  <2> QED
    BY <2>2, <2>3, ManageConfigControllerBehaves, PoppedBehaves
<1>10. Word(c) = "acl" => Behaves(c, p10, q10)
  <2>1. SUFFICES ASSUME Word(c) = "acl" PROVE Behaves(c, p10, q10)
    OBVIOUS
  <2>2. Word(c) # ""
    BY <2>1
  <2>3. Further(Popped(c), Popped(e)) /\ Routed(Popped(c), Popped(e)) /\ IsSeq(Popped(c).line)
    BY <2>2, PoppedRouted
  <2> QED
    BY <2>2, <2>3, ManageACLControllerBehaves, PoppedBehaves
<1>11. Behaves(c, p0, q0)
  BY HelpBehaves
<1>12. Word(e) = Word(c)
  BY WordSame DEF Routed
<1>13. ManageController(c) =
    CASE Word(c) = "jobs" -> p1
      [] Word(c) = "recluster" -> p2
      [] Word(c) = "quiesce" -> p3
      [] Word(c) = "revive" -> p4
      [] Word(c) = "roster" -> p5
      [] Word(c) = "truncate" -> p6
      [] Word(c) = "udfs" -> p7
      [] Word(c) = "sindex" -> p8
      [] Word(c) = "config" -> p9
      [] Word(c) = "acl" -> p10
      [] OTHER -> p0
  BY DEF ManageController
<1>14. ManageController(e) =
    CASE Word(e) = "jobs" -> q1
      [] Word(e) = "recluster" -> q2
      [] Word(e) = "quiesce" -> q3
      [] Word(e) = "revive" -> q4
      [] Word(e) = "roster" -> q5
      [] Word(e) = "truncate" -> q6
      [] Word(e) = "udfs" -> q7
      [] Word(e) = "sindex" -> q8
      [] Word(e) = "config" -> q9
      [] Word(e) = "acl" -> q10
      [] OTHER -> q0
  BY DEF ManageController
<1> HIDE DEF p0, q0, p1, q1, p2, q2, p3, q3, p4, q4, p5, q5, p6, q6, p7, q7, p8, q8, p9, q9, p10, q10
<1> QED
  BY <1>1, <1>2, <1>3, <1>4, <1>5, <1>6, <1>7, <1>8, <1>9, <1>10, <1>11, <1>12, <1>13, <1>14
=============================================================================
