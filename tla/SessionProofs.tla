--------------------------- MODULE SessionProofs ----------------------------
(***************************************************************************)
(* What a session does, for all nodes, scripts and versions, whatever the  *)
(* nodes answer and whatever is lost: its type, and that nothing is        *)
(* changed before it was confirmed.                                        *)
(* The plan of a command is lawful (RootLawful); the session does its      *)
(* steps one by one, and while a call runs the plan stays as it is.  IInv  *)
(* says where in its plan a session is, and that whatever is still to be   *)
(* asked, or was sent, is what the command may do.                         *)
(***************************************************************************)
EXTENDS ReportProofs, Session

-----------------------------------------------------------------------------
(* What the plan of a command may do.                                      *)

Toggles(c) == Word(c) \in {"enable", "disable"}
Manages(c) == Word(c) = "manage" /\ c.privileged
(* What a step of a plan may be: it changes the privilege when that was asked,
   and the cluster when the privilege is there.                            *)
ReadsAlone(asks) ==
  \A n \in DOMAIN asks \ {Here} :
    \A i \in 1 .. Len(asks[n]) : \A j \in 1 .. Len(asks[n][i]) : ~Changes(asks[n][i][j])
MayTake(c, step) ==
  \/ Silent(step)
  \/ step.does = "enable" /\ Toggles(c)
  \/ /\ step.does = "call" /\ ~Toggles(c)
     /\ WellAsked(step.asks) /\ (Manages(c) \/ ReadsAlone(step.asks))
Lawful(c, p) ==
  /\ IsPlan(p) /\ \A i \in 1 .. Len(p.steps) : MayTake(c, p.steps[i])
  /\ Manages(c) /\ Warned(c) => AskFirst(p)

(* The fields of the context a command begins with.                        *)
LEMMA ContextFields ==
  ASSUME NEW ws, NEW ms, NEW pr, NEW wa, NEW an
  PROVE  /\ Context(ws, ms, pr, wa, an).line = ws
         /\ Context(ws, ms, pr, wa, an).mods = ms
         /\ Context(ws, ms, pr, wa, an).privileged = pr
         /\ Context(ws, ms, pr, wa, an).warn = wa
         /\ Context(ws, ms, pr, wa, an).seen = an
         /\ Context(ws, ms, pr, wa, an).nodes = Node
         /\ IsContext(Context(ws, ms, pr, wa, an))
  BY DEF Context, IsContext

(* The context a command begins with is fit if its answers came from nodes *)
(* or from here.                                                           *)
LEMMA ContextFit ==
  ASSUME NEW ws, NEW ms, NEW pr, NEW wa, NEW an,
         IsSeq(an), \A answers \in ToSet(an) : DOMAIN answers \subseteq Machines
  PROVE  Fit(Context(ws, ms, pr, wa, an))
<1> DEFINE c == Context(ws, ms, pr, wa, an)
<1>1. IsContext(c) /\ c.seen = an /\ c.nodes = Node
  BY ContextFields
<1> HIDE DEF c
<1>2. Fit(c)
  BY <1>1 DEF Fit, GoodContext
<1> QED
  BY <1>2 DEF c

(* The context of a command after one more answer has further answers.     *)
LEMMA ContextFurther ==
  ASSUME NEW ws, NEW ms, NEW pr, NEW wa, NEW an, NEW x, IsSeq(an)
  PROVE  Further(Context(ws, ms, pr, wa, an), Context(ws, ms, pr, wa, Append(an, x)))
<1> DEFINE c == Context(ws, ms, pr, wa, an)
           b == Append(an, x)
           e == Context(ws, ms, pr, wa, b)
           t == <<x>>
<1>1. IsContext(c) /\ c.seen = an /\ c.nodes = Node
  BY ContextFields
<1>2. IsContext(e) /\ e.seen = b /\ e.nodes = Node
  <2> HIDE DEF b
  <2> QED
    BY ContextFields
<1>3. IsSeq(b) /\ IsSeq(t)
  BY SeqAppended, SeqOne
<1>4. b = an \o t
  BY SeqAppended, SeqOne, SeqJoined DEF IsSeq
<1>5. e = [c EXCEPT !.seen = b]
  <2> HIDE DEF b
  <2> DEFINE no == [arg \in {} |-> ""]
  <2>1. /\ c = [line |-> ws, mods |-> ms, keys |-> {}, args |-> no,
                nodes |-> Node, privileged |-> pr, warn |-> wa, seen |-> an]
        /\ e = [line |-> ws, mods |-> ms, keys |-> {}, args |-> no,
                nodes |-> Node, privileged |-> pr, warn |-> wa, seen |-> b]
    BY DEF Context
  <2> HIDE DEF c, e, no
  <2> QED
    BY <2>1
<1>6. GoodContext(c) /\ GoodContext(e)
  <2> HIDE DEF c, e
  <2> QED
    BY <1>1, <1>2, <1>3 DEF GoodContext
<1>7. e = [c EXCEPT !.seen = c.seen \o t]
  <2> HIDE DEF c, e, b, t
  <2> QED
    BY <1>1, <1>4, <1>5
<1> HIDE DEF c, e, b, t
<1>8. Further(c, e)
  BY <1>3, <1>6, <1>7 DEF Further
<1> QED
  BY <1>8 DEF c, e, b

-----------------------------------------------------------------------------

(* Who only reads asks well and alone of reads.                            *)
LEMMA QuietReads ==
  ASSUME NEW asks, ReadAsked(asks)
  PROVE  WellAsked(asks) /\ ReadsAlone(asks)
<1>1. ASSUME NEW n \in DOMAIN asks \ {Here}
      PROVE  /\ IsSeq(asks[n])
             /\ \A i \in 1 .. Len(asks[n]) :
                  IsSeq(asks[n][i]) /\ \A j \in 1 .. Len(asks[n][i]) : ~Changes(asks[n][i][j])
  <2>1. Asked(asks[n])
    BY DEF ReadAsked
  <2>2. ASSUME NEW i \in 1 .. Len(asks[n])
        PROVE  IsSeq(asks[n][i]) /\ \A j \in 1 .. Len(asks[n][i]) : ~Changes(asks[n][i][j])
    <3>1. Reading(asks[n][i])
      BY <2>1 DEF Asked
    <3> QED
      BY <3>1, SeqElems DEF Reading, IsRead, Changes
  <2> QED
    BY <2>1, <2>2 DEF Asked
<1> QED
  BY <1>1 DEF ReadAsked, WellAsked, ReadsAlone, Machines

(* A plan that only reads is lawful for every command that neither manages *)
(* nor toggles.                                                            *)
LEMMA QuietLawful ==
  ASSUME NEW c, NEW p, Quiet(p), ~Toggles(c), ~Manages(c)
  PROVE  Lawful(c, p)
  BY QuietReads DEF Quiet, Lawful, MayTake

(* A plan that behaves is lawful for manage.                               *)
LEMMA BehavesLawful ==
  ASSUME NEW c, NEW p, NEW q, Behaves(c, p, q), Manages(c)
  PROVE  Lawful(c, p)
<1>1. ~Toggles(c)
  BY DEF Manages, Toggles
<1> QED
  BY <1>1 DEF Behaves, Grown, WellFormed, Lawful, MayTake

(* Every command but enable, disable and a privileged manage only reads.   *)
LEMMA RootReads ==
  ASSUME NEW c, Fit(c), ~Toggles(c), ~Manages(c)
  PROVE  Quiet(LiveClusterRootController(c))
<1> DEFINE d == Popped(c)
           p1 == create_disabled_controller(d, ManageController(d))
           p2 == create_disabled_controller(d, ASInfoController(d))
           p3 == ShowController(d)  p4 == InfoController(d)  p5 == FeaturesController(d)
           p6 == SummaryController(d)  p7 == HealthCheckController(d)
           p8 == CollectinfoController(d)  p9 == PagerController(d)
           p10 == do_enable(d)  p11 == do_disable(d)  p0 == execute_help(c)
<1>1. Fit(d)
  BY PoppedGood
<1>2. Word(c) = "manage" => Quiet(p1)
  <2>1. d.privileged = c.privileged
    BY DEF Popped, Fit, GoodContext, IsContext
  <2>2. Quiet(End(d, <<Complain>>))
    BY EndsQuiet
  <2> QED
    BY <2>1, <2>2 DEF create_disabled_controller, Manages
<1>3. Quiet(p2)
  <2> HIDE DEF d
  <2>1. Quiet(End(d, <<Complain>>)) /\ Quiet(ASInfoController(d))
    BY <1>1, EndsQuiet, ASInfoControllerQuiet
  <2> QED
    BY <2>1 DEF create_disabled_controller
<1>4. Quiet(p3) /\ Quiet(p4) /\ Quiet(p5) /\ Quiet(p6) /\ Quiet(p7) /\ Quiet(p8) /\ Quiet(p9)
  <2> HIDE DEF d
  <2> QED
    BY <1>1, ShowControllerQuiet, InfoControllerQuiet, FeaturesControllerQuiet, SummaryControllerQuiet,
       HealthCheckControllerQuiet, CollectinfoControllerQuiet, PagerControllerQuiet
<1>5. Quiet(p0)
  BY HelpQuiet
<1>6. LiveClusterRootController(c) =
        CASE Word(c) = "manage" -> p1
          [] Word(c) = "asinfo" -> p2
          [] Word(c) = "show" -> p3
          [] Word(c) = "info" -> p4
          [] Word(c) = "features" -> p5
          [] Word(c) = "summary" -> p6
          [] Word(c) = "health" -> p7
          [] Word(c) = "collectinfo" -> p8
          [] Word(c) = "pager" -> p9
          [] Word(c) = "enable" -> p10
          [] Word(c) = "disable" -> p11
          [] OTHER -> p0
  BY DEF LiveClusterRootController
<1> HIDE DEF p0, p1, p2, p3, p4, p5, p6, p7, p8, p9, p10, p11
<1> QED
  BY <1>2, <1>3, <1>4, <1>5, <1>6 DEF Toggles

(* A privileged manage behaves.                                            *)
LEMMA RootManages ==
  ASSUME NEW c, NEW e, Routed(c, e), Manages(c)
  PROVE  Behaves(c, LiveClusterRootController(c), LiveClusterRootController(e))
<1> DEFINE d == Popped(c)  f == Popped(e)
<1>1. Word(c) = "manage" /\ Word(e) = "manage" /\ Word(c) # ""
  BY WordSame DEF Manages, Routed
<1>2. Routed(d, f)
  BY <1>1, PoppedRouted
<1>3. Behaves(c, ManageController(d), ManageController(f))
  BY <1>1, <1>2, ManageControllerBehaves, PoppedBehaves
<1>4. d.privileged /\ f.privileged
  <2>1. d.privileged = c.privileged /\ f.privileged = e.privileged /\ e.privileged = c.privileged
    BY FurtherSame DEF Popped, Routed, Further, GoodContext, IsContext
  <2> QED
    BY <2>1 DEF Manages
<1>5. /\ LiveClusterRootController(c) = create_disabled_controller(d, ManageController(d))
      /\ LiveClusterRootController(e) = create_disabled_controller(f, ManageController(f))
  BY <1>1 DEF LiveClusterRootController
<1>6. /\ LiveClusterRootController(c) = ManageController(d)
      /\ LiveClusterRootController(e) = ManageController(f)
  BY <1>4, <1>5 DEF create_disabled_controller
<1> QED
  BY <1>3, <1>6

(* enable and disable do not look at the privilege that they change, and   *)
(* are lawful.                                                             *)
LEMMA RootToggles ==
  ASSUME NEW ws, NEW ms, NEW pr, NEW wa, NEW an, NEW pr2, NEW wa2,
         Toggles(Context(ws, ms, pr, wa, an))
  PROVE  /\ LiveClusterRootController(Context(ws, ms, pr, wa, an)) =
              LiveClusterRootController(Context(ws, ms, pr2, wa2, an))
         /\ Lawful(Context(ws, ms, pr, wa, an), LiveClusterRootController(Context(ws, ms, pr, wa, an)))
<1> DEFINE c == Context(ws, ms, pr, wa, an)  e == Context(ws, ms, pr2, wa2, an)
<1>1. /\ IsContext(c) /\ IsContext(e) /\ c.line = ws /\ e.line = ws /\ c.mods = ms /\ e.mods = ms
  BY ContextFields
<1>2. Toggles(c)
  OBVIOUS
<1> HIDE DEF c, e
<1>3. Word(e) = Word(c) /\ Word(c) \in {"enable", "disable"}
  BY <1>1, <1>2 DEF Word, Toggles
<1>4. /\ Popped(c).line = Popped(e).line
      /\ Popped(c).mods = Popped(e).mods
  BY <1>1 DEF Popped, IsContext
<1>5. \A steps : End(Popped(c), steps) = End(Popped(e), steps)
  BY <1>4 DEF End
<1>6. do_enable(Popped(c)) = do_enable(Popped(e)) /\ do_disable(Popped(c)) = do_disable(Popped(e))
  <2>1. check_arg(Popped(c), "--warn") = check_arg(Popped(e), "--warn")
    BY <1>4 DEF check_arg
  <2>2. do_enable(Popped(c)) = do_enable(Popped(e))
    <3>1. CASE check_arg(Popped(c), "--warn")
      BY <2>1, <3>1, <1>5 DEF do_enable
    <3>2. CASE ~check_arg(Popped(c), "--warn")
      BY <2>1, <3>2, <1>5 DEF do_enable
    <3> QED
      BY <3>1, <3>2
  <2>3. do_disable(Popped(c)) = do_disable(Popped(e))
    BY <1>5 DEF do_disable
  <2> QED
    BY <2>2, <2>3
<1>7. /\ Word(c) = "enable" => LiveClusterRootController(c) = do_enable(Popped(c))
                               /\ LiveClusterRootController(e) = do_enable(Popped(e))
      /\ Word(c) = "disable" => LiveClusterRootController(c) = do_disable(Popped(c))
                               /\ LiveClusterRootController(e) = do_disable(Popped(e))
  BY <1>3 DEF LiveClusterRootController
<1>8. ASSUME NEW x, NEW p, p = End(Popped(c), <<Enter(x)>>) PROVE Lawful(c, p)
  <2>1. p.steps = <<Enter(x)>> /\ IsPlan(p)
    BY <1>8, SeqOne DEF End, IsPlan
  <2>2. Enter(x).does = "enable"
    BY DEF Enter, Tell, CallStep
  <2>3. \A i \in 1 .. Len(p.steps) : MayTake(c, p.steps[i])
    BY <2>1, <2>2, <1>2 DEF MayTake
  <2> QED
    BY <2>1, <2>3, <1>3 DEF Lawful, Manages
<1>9. Lawful(c, do_enable(Popped(c))) /\ Lawful(c, do_disable(Popped(c)))
  BY <1>8 DEF do_enable, do_disable
<1>10. LiveClusterRootController(c) = LiveClusterRootController(e) /\ Lawful(c, LiveClusterRootController(c))
  BY <1>3, <1>6, <1>7, <1>9
<1> QED
  BY <1>10 DEF c, e

(* Whatever the line and whatever was answered, the plan of a command is   *)
(* lawful: what changes the cluster was typed after manage by a privileged *)
(* user, and is asked about first when it is to be.                        *)
LEMMA RootLawful ==
  ASSUME NEW ws, NEW ms, NEW pr, NEW wa, NEW an, IsSeq(ws),
         IsSeq(an), \A answers \in ToSet(an) : DOMAIN answers \subseteq Machines
  PROVE  Lawful(Context(ws, ms, pr, wa, an), LiveClusterRootController(Context(ws, ms, pr, wa, an)))
<1> DEFINE c == Context(ws, ms, pr, wa, an)
<1>1. Fit(c) /\ IsSeq(c.line)
  BY ContextFit, ContextFields
<1>2. CASE Toggles(c)
  BY <1>2, RootToggles
<1> HIDE DEF c
<1>3. CASE Manages(c)
  <2>1. Routed(c, c)
    BY <1>1, FurtherRefl DEF Fit, Routed
  <2> QED
    BY <2>1, <1>3, RootManages, BehavesLawful DEF c
<1>4. CASE ~Toggles(c) /\ ~Manages(c)
  BY <1>1, <1>4, RootReads, QuietLawful DEF c
<1> QED
  BY <1>2, <1>3, <1>4

(* The plan of manage with one more answer only goes on: what was done     *)
(* stays as it was planned.                                                *)
LEMMA RootGrows ==
  ASSUME NEW ws, NEW ms, NEW pr, NEW wa, NEW an, NEW x, IsSeq(ws), IsSeq(an),
         Manages(Context(ws, ms, pr, wa, an))
  PROVE  Grows(LiveClusterRootController(Context(ws, ms, pr, wa, an)),
               LiveClusterRootController(Context(ws, ms, pr, wa, Append(an, x))))
<1> DEFINE c == Context(ws, ms, pr, wa, an)  e == Context(ws, ms, pr, wa, Append(an, x))
<1>1. Further(c, e) /\ c.line = ws
  BY ContextFurther, ContextFields
<1> HIDE DEF c, e
<1>2. Routed(c, e)
  BY <1>1 DEF Routed
<1>3. Manages(c)
  BY DEF c
<1>4. Grows(LiveClusterRootController(c), LiveClusterRootController(e))
  BY <1>2, <1>3, RootManages DEF Behaves, Grown
<1> QED
  BY <1>4 DEF c, e

-----------------------------------------------------------------------------
(* The place of a session in its plan.                                     *)

(* What is left of a list after k + 1 is the tail of what is left after k. *)
LEMMA CutTail ==
  ASSUME NEW s, IsSeq(s), NEW k \in Nat, SubSeq(s, k + 1, Len(s)) # <<>>
  PROVE  /\ k + 1 \in 1 .. Len(s)
         /\ Head(SubSeq(s, k + 1, Len(s))) = s[k + 1]
         /\ Tail(SubSeq(s, k + 1, Len(s))) = SubSeq(s, (k + 1) + 1, Len(s))
<1> DEFINE S == ToSet(s)
           t == SubSeq(s, k + 1, Len(s))
           u == SubSeq(s, (k + 1) + 1, Len(s))
<1>1. s \in Seq(S) /\ Len(s) \in Nat
  BY SeqLen DEF IsSeq
<1>2. k + 1 \in 1 .. Len(s)
  <2> HIDE DEF S
  <2>1. CASE k + 1 > Len(s)
    BY <1>1, <2>1
  <2>2. CASE k + 1 <= Len(s)
    BY <1>1, <2>2
  <2> QED
    BY <1>1, <2>1, <2>2
<1>3. /\ IsSeq(t) /\ Len(t) = Len(s) - (k + 1) + 1
      /\ \A i \in 1 .. (Len(s) - (k + 1) + 1) : t[i] = s[(k + 1) + i - 1]
  BY <1>1, <1>2, SeqCut
<1>4. /\ IsSeq(u) /\ Len(u) = Len(s) - ((k + 1) + 1) + 1
      /\ \A i \in 1 .. (Len(s) - ((k + 1) + 1) + 1) : u[i] = s[((k + 1) + 1) + i - 1]
  <2>1. (k + 1) + 1 \in 1 .. Len(s) + 1
    BY <1>1, <1>2
  <2> QED
    BY <2>1, SeqCut
<1>5. t # <<>>
  OBVIOUS
<1> HIDE DEF t, u
<1>6. /\ IsSeq(Tail(t)) /\ Len(Tail(t)) = Len(t) - 1 /\ Head(t) = t[1]
      /\ \A i \in 1 .. (Len(t) - 1) : Tail(t)[i] = t[i + 1]
  BY <1>3, <1>5, SeqTail
<1>7. t[1] = s[k + 1]
  <2>1. 1 \in 1 .. (Len(s) - (k + 1) + 1) /\ (k + 1) + 1 - 1 = k + 1
    BY <1>1, <1>2
  <2> QED
    BY <2>1, <1>3
<1>8. ASSUME NEW i \in 1 .. Len(Tail(t)) PROVE Tail(t)[i] = u[i]
  <2>1. /\ i \in 1 .. (Len(t) - 1) /\ i + 1 \in 1 .. (Len(s) - (k + 1) + 1)
        /\ i \in 1 .. (Len(s) - ((k + 1) + 1) + 1)
        /\ (k + 1) + (i + 1) - 1 = ((k + 1) + 1) + i - 1
    <3> DEFINE L == Len(s)  M == Len(t)
    <3>1. L \in Nat /\ k + 1 \in 1 .. L /\ M = L - (k + 1) + 1 /\ i \in 1 .. (M - 1)
      BY <1>1, <1>2, <1>3, <1>6
    <3> HIDE DEF L, M
    <3>2. /\ i \in 1 .. (M - 1) /\ i + 1 \in 1 .. (L - (k + 1) + 1)
          /\ i \in 1 .. (L - ((k + 1) + 1) + 1)
          /\ (k + 1) + (i + 1) - 1 = ((k + 1) + 1) + i - 1
      BY <3>1
    <3> QED
      BY <3>2 DEF L, M
  <2> QED
    BY <2>1, <1>3, <1>4, <1>6
<1>9. Len(Tail(t)) = Len(u)
  BY <1>1, <1>2, <1>3, <1>4, <1>6
<1>10. Tail(t) = u
  BY <1>4, <1>6, <1>8, <1>9, SeqAlike
<1> QED
  BY <1>2, <1>6, <1>7, <1>10 DEF t, u

(* The plan of a command for its answers, k steps taken.                   *)
PlanOf(ws, ms, pr, wa, an) == LiveClusterRootController(Context(ws, ms, pr, wa, an))
Left(k, p) == [p EXCEPT !.steps = SubSeq(@, k + 1, Len(@))]
AnswersFit(an) == IsSeq(an) /\ \A answers \in ToSet(an) : DOMAIN answers \subseteq Machines

(* What the session plans is what is left of the plan after k steps.       *)
LEMMA PlannedIs ==
  ASSUME NEW k, NEW ws, NEW ms, NEW an
  PROVE  Planned(k, ws, ms, an) = Left(k, PlanOf(ws, ms, privileged, warn, an))
<1> DEFINE v == PlanOf(ws, ms, privileged, warn, an)
           R(plan) == [plan EXCEPT !.steps = SubSeq(@, k + 1, Len(@))]
<1>1. Planned(k, ws, ms, an) = Given(v, R)
  BY DEF Planned, PlanOf
<1>2. Left(k, v) = R(v)
  BY DEF Left
<1> HIDE DEF v, R
<1>3. Given(v, R) = R(v)
  BY DEF Given
<1>4. Planned(k, ws, ms, an) = Left(k, v)
  BY <1>1, <1>2, <1>3
<1> QED
  BY <1>4 DEF v

(* The first step that is left is the next one of the plan.                *)
LEMMA LeftSteps ==
  ASSUME NEW p, IsPlan(p), NEW k \in Nat
  PROVE  /\ Left(k, p).steps = SubSeq(p.steps, k + 1, Len(p.steps))
         /\ Left(k, p).steps # <<>> =>
              /\ k + 1 \in 1 .. Len(p.steps) /\ Head(Left(k, p).steps) = p.steps[k + 1]
              /\ [Left(k, p) EXCEPT !.steps = Tail(@)] = Left(k + 1, p)
<1> DEFINE s == SubSeq(p.steps, k + 1, Len(p.steps))
           t == SubSeq(p.steps, (k + 1) + 1, Len(p.steps))
<1>0. p = [mods |-> p.mods, steps |-> p.steps, reached |-> p.reached] /\ IsSeq(p.steps)
  BY DEF IsPlan
<1>1. Left(k, p) = [p EXCEPT !.steps = s] /\ Left(k + 1, p) = [p EXCEPT !.steps = t]
  BY DEF Left
<1>2. s # <<>> => k + 1 \in 1 .. Len(p.steps) /\ Head(s) = p.steps[k + 1] /\ Tail(s) = t
  BY <1>0, CutTail
<1> HIDE DEF s, t
<1>3. /\ Left(k, p) = [mods |-> p.mods, steps |-> s, reached |-> p.reached]
      /\ Left(k + 1, p) = [mods |-> p.mods, steps |-> t, reached |-> p.reached]
  BY <1>0, <1>1
<1>4. Left(k, p).steps = s
  BY <1>3
<1>5. [Left(k, p) EXCEPT !.steps = Tail(@)] = [mods |-> p.mods, steps |-> Tail(s), reached |-> p.reached]
  <2> DEFINE u == Tail(s)
  <2>1. [Left(k, p) EXCEPT !.steps = Tail(@)] = [Left(k, p) EXCEPT !.steps = u]
    BY <1>4
  <2> HIDE DEF u
  <2>2. [Left(k, p) EXCEPT !.steps = u] = [mods |-> p.mods, steps |-> u, reached |-> p.reached]
    BY <1>3
  <2> QED
    BY <2>1, <2>2 DEF u
<1> QED
  BY <1>2, <1>3, <1>4, <1>5 DEF s

-----------------------------------------------------------------------------

(* What is left of a script has a line, and is a rest again after it.      *)
LEMMA RestsShape ==
  ASSUME NEW l, l \in Rests
  PROVE  /\ l # <<>> /\ IsSeq(Head(l))
         /\ Tail(l) = <<>> \/ Tail(l) \in Rests
<1>0. PICK a \in Lines : l \in {SubSeq(a, i, Len(a)) : i \in 1 .. Len(a)}
  BY DEF Rests
<1>1. PICK i \in 1 .. Len(a) : l = SubSeq(a, i, Len(a))
  BY <1>0
<1>2. a \in Seq(Seq(STRING)) /\ Len(a) \in Nat
  BY SessionAssumption
<1>3. IsSeq(a)
  BY <1>2, SeqIs
<1>4. l # <<>> /\ Len(l) = Len(a) - i + 1 /\ IsSeq(l)
  <2>1. i \in 1 .. Len(a) + 1
    BY <1>2
  <2>2. Len(l) = Len(a) - i + 1 /\ IsSeq(l)
    BY <1>1, <1>3, <2>1, SeqCut
  <2>3. Len(l) > 0 /\ Len(<<>>) = 0
    BY <1>2, <2>2
  <2> QED
    BY <2>2, <2>3
<1> DEFINE k == i - 1
<1>5. k \in Nat /\ i = k + 1
  BY <1>2
<1> HIDE DEF k
<1>6. /\ Head(l) = a[i]
      /\ Tail(l) = SubSeq(a, i + 1, Len(a))
  BY <1>1, <1>3, <1>4, <1>5, CutTail
<1>7. a[i] \in Seq(STRING)
  BY <1>2
<1>8. IsSeq(Head(l))
  BY <1>6, <1>7, SeqIs
<1>9. CASE i = Len(a)
  <2>1. SubSeq(a, i + 1, Len(a)) = <<>>
    BY <1>2, <1>9
  <2> QED
    BY <1>4, <1>6, <1>8, <2>1
<1>10. CASE i # Len(a)
  <2>1. i + 1 \in 1 .. Len(a)
    BY <1>2, <1>10
  <2>2. SubSeq(a, i + 1, Len(a)) \in {SubSeq(a, j, Len(a)) : j \in 1 .. Len(a)}
    BY <2>1
  <2>3. Tail(l) \in Rests
    <3> DEFINE A == {SubSeq(a, j, Len(a)) : j \in 1 .. Len(a)}
    <3>1. A \in {{SubSeq(b, j, Len(b)) : j \in 1 .. Len(b)} : b \in Lines}
      OBVIOUS
    <3>2. Tail(l) \in A
      BY <1>6, <2>2
    <3> HIDE DEF A
    <3> QED
      BY <3>1, <3>2 DEF Rests
  <2> QED
    BY <1>4, <1>8, <2>3
<1> QED
  BY <1>9, <1>10

(* A script is empty, or all of it is left.                                *)
LEMMA LinesShape ==
  ASSUME NEW l, l \in Lines
  PROVE  l = <<>> \/ l \in Rests
<1>1. l \in Seq(Seq(STRING)) /\ Len(l) \in Nat
  BY SessionAssumption
<1>2. l = SubSeq(l, 1, Len(l))
  BY <1>1
<1>3. l = <<>> \/ 1 \in 1 .. Len(l)
  BY <1>1
<1> QED
  BY <1>2, <1>3 DEF Rests

-----------------------------------------------------------------------------
(* What a node is still to be asked.                                       *)
Shaped(ms) ==
  /\ IsSeq(ms) /\ \A i \in 1 .. Len(ms) : IsSeq(ms[i])
  /\ ms # <<>> => ms[1] # <<>>
Within(new, old) ==
  \A i \in 1 .. Len(new) : \A j \in 1 .. Len(new[i]) :
    \E k \in 1 .. Len(old) : \E m \in 1 .. Len(old[k]) : new[i][j] = old[k][m]

(* What is to be asked is not empty anywhere, and is in what was asked     *)
(* for.                                                                    *)
LEMMA PendingShaped ==
  ASSUME NEW ms, IsSeq(ms), \A i \in 1 .. Len(ms) : IsSeq(ms[i])
  PROVE  Shaped(Pending(ms)) /\ Within(Pending(ms), ms)
<1> DEFINE Test(requests) == requests # <<>>
           I == {i \in 1 .. Len(ms) : Test(ms[i])}
           v == SelectInSeq(ms, Test)
           R(i) == IF i = 0 THEN <<>> ELSE SubSeq(ms, i, Len(ms))
<1>1. Pending(ms) = Given(v, R)
  BY DEF Pending
<1>2. v = IF I # {} THEN Min(I) ELSE 0
  BY DEF SelectInSeq
<1>3. Given(v, R) = R(v)
  <2> HIDE DEF v, R
  <2> QED
    BY DEF Given
<1>4. Len(ms) \in Nat
  BY SeqLen
<1>5. CASE I = {}
  <2>1. Pending(ms) = <<>>
    BY <1>1, <1>2, <1>3, <1>5
  <2>2. IsSeq(<<>>) /\ Len(<<>>) = 0
    BY SeqOne
  <2> QED
    BY <2>1, <2>2 DEF Shaped, Within
<1>6. CASE I # {}
  <2>1. I \subseteq Nat
    BY <1>4
  <2>2. Min(I) \in I
    BY <1>6, <2>1, MinIsLeast
  <2>3. v \in 1 .. Len(ms) /\ ms[v] # <<>>
    BY <1>2, <1>6, <2>2
  <2>4. Pending(ms) = SubSeq(ms, v, Len(ms))
    <3>1. v # 0
      BY <1>4, <2>3
    <3>2. R(v) = SubSeq(ms, v, Len(ms))
      <4> HIDE DEF v
      <4> QED
        BY <3>1
    <3> HIDE DEF v, R
    <3> QED
      BY <3>2, <1>1, <1>3
  <2> HIDE DEF v
  <2> DEFINE p == SubSeq(ms, v, Len(ms))
  <2>5. /\ IsSeq(p) /\ Len(p) = Len(ms) - v + 1
        /\ \A i \in 1 .. (Len(ms) - v + 1) : p[i] = ms[v + i - 1]
    <3>1. v \in 1 .. Len(ms) + 1
      BY <1>4, <2>3
    <3> QED
      BY <3>1, SeqCut
  <2> HIDE DEF p
  <2>6. \A i \in 1 .. Len(p) : \E k \in 1 .. Len(ms) : p[i] = ms[k]
    <3>1. ASSUME NEW i \in 1 .. Len(p) PROVE \E k \in 1 .. Len(ms) : p[i] = ms[k]
      <4>1. v + i - 1 \in 1 .. Len(ms)
        BY <1>4, <2>3, <2>5
      <4> QED
        BY <4>1, <2>5
    <3> QED
      BY <3>1
  <2>7. p[1] = ms[v]
    BY <1>4, <2>3, <2>5
  <2>8. Shaped(p) /\ Within(p, ms)
    <3>1. Shaped(p)
      BY <2>3, <2>5, <2>6, <2>7 DEF Shaped
    <3>2. Within(p, ms)
      BY <2>6 DEF Within
    <3> QED
      BY <3>1, <3>2
  <2> QED
    BY <2>4, <2>8 DEF p
<1> QED
  BY <1>5, <1>6

(* After a request or a method is done, what is to be asked is so still.   *)
LEMMA TailShaped ==
  ASSUME NEW ms, Shaped(ms), ms # <<>>
  PROVE  /\ Shaped(Pending(Tail(ms))) /\ Within(Pending(Tail(ms)), ms)
         /\ Len(Head(ms)) > 1 =>
              /\ Shaped(<<Tail(Head(ms))>> \o Tail(ms))
              /\ Within(<<Tail(Head(ms))>> \o Tail(ms), ms)
         /\ 1 \in 1 .. Len(ms) /\ 1 \in 1 .. Len(ms[1]) /\ Head(Head(ms)) = ms[1][1]
<1> DEFINE t == Tail(ms)  h == Head(ms)
<1>1. /\ IsSeq(t) /\ Len(t) = Len(ms) - 1 /\ h = ms[1] /\ Len(ms) >= 1 /\ Len(ms) \in Nat
      /\ \A i \in 1 .. (Len(ms) - 1) : t[i] = ms[i + 1]
  BY SeqTail, SeqLen DEF Shaped
<1> HIDE DEF t, h
<1>2. 1 \in 1 .. Len(ms)
  BY <1>1
<1>3. IsSeq(h) /\ h # <<>>
  BY <1>1, <1>2 DEF Shaped
<1>4. /\ Len(h) \in Nat /\ Len(h) >= 1 /\ Head(h) = h[1]
      /\ IsSeq(Tail(h)) /\ Len(Tail(h)) = Len(h) - 1
      /\ \A i \in 1 .. (Len(h) - 1) : Tail(h)[i] = h[i + 1]
  BY <1>3, SeqTail, SeqLen
<1>5. ASSUME NEW i \in 1 .. Len(t)
      PROVE  IsSeq(t[i]) /\ i + 1 \in 1 .. Len(ms) /\ t[i] = ms[i + 1]
  <2>1. i \in 1 .. (Len(ms) - 1) /\ i + 1 \in 1 .. Len(ms)
    BY <1>1
  <2> QED
    BY <2>1, <1>1 DEF Shaped
<1>6. Shaped(Pending(t)) /\ Within(Pending(t), ms)
  <2>1. Shaped(Pending(t)) /\ Within(Pending(t), t)
    BY <1>1, <1>5, PendingShaped
  <2>2. Within(t, ms)
    BY <1>5 DEF Within
  <2> DEFINE p == Pending(t)
  <2>3. Within(p, t)
    BY <2>1
  <2> HIDE DEF p
  <2>4. Within(p, ms)
    <3>1. ASSUME NEW i \in 1 .. Len(p), NEW j \in 1 .. Len(p[i])
          PROVE  \E k \in 1 .. Len(ms) : \E m \in 1 .. Len(ms[k]) : p[i][j] = ms[k][m]
      <4>1. PICK k \in 1 .. Len(t) : \E m \in 1 .. Len(t[k]) : p[i][j] = t[k][m]
        BY <2>3 DEF Within
      <4> QED
        BY <4>1, <1>5
    <3> QED
      BY <3>1 DEF Within
  <2> QED
    BY <2>1, <2>4 DEF p
<1>7. ASSUME Len(h) > 1 PROVE Shaped(<<Tail(h)>> \o t) /\ Within(<<Tail(h)>> \o t, ms)
  <2> DEFINE u == Tail(h)  w == <<u>>  s == w \o t
  <2>1. IsSeq(u) /\ Len(u) = Len(h) - 1 /\ u # <<>> /\ \A i \in 1 .. (Len(h) - 1) : u[i] = h[i + 1]
    <3>1. IsSeq(u) /\ Len(u) = Len(h) - 1 /\ \A i \in 1 .. (Len(h) - 1) : u[i] = h[i + 1]
      BY <1>4
    <3> HIDE DEF u
    <3>2. Len(u) >= 1 /\ Len(<<>>) = 0
      BY <3>1, <1>4, <1>7
    <3>3. u # <<>>
      BY <3>2
    <3> QED
      BY <3>1, <3>3
  <2>2. IsSeq(w) /\ Len(w) = 1 /\ w[1] = u
    <3> HIDE DEF u
    <3> QED
      BY SeqOne
  <2> HIDE DEF u, w
  <2>3. /\ IsSeq(s) /\ Len(s) = Len(w) + Len(t)
        /\ \A i \in 1 .. Len(w) : s[i] = w[i]
        /\ \A i \in 1 .. Len(t) : s[Len(w) + i] = t[i]
    <3>1. IsSeq(w) /\ IsSeq(t)
      BY <1>1, <2>2
    <3> QED
      BY <3>1, SeqJoined
  <2> HIDE DEF s
  <2>4. s[1] = u
    BY <2>2, <2>3
  <2>5. ASSUME NEW i \in 1 .. Len(s)
        PROVE  i = 1 \/ (i \in 1 .. Len(ms) /\ s[i] = ms[i] /\ IsSeq(s[i]))
    <3>1. CASE i # 1
      <4>1. i - 1 \in 1 .. Len(t) /\ i = 1 + (i - 1) /\ (i - 1) + 1 = i
        BY <1>1, <2>2, <2>3, <3>1
      <4>2. s[i] = t[i - 1]
        BY <4>1, <2>2, <2>3
      <4>3. IsSeq(t[i - 1]) /\ (i - 1) + 1 \in 1 .. Len(ms) /\ t[i - 1] = ms[(i - 1) + 1]
        BY <4>1, <1>5
      <4> QED
        BY <4>1, <4>2, <4>3
    <3> QED
      BY <3>1
  <2>6. Shaped(s)
    BY <2>1, <2>3, <2>4, <2>5 DEF Shaped
  <2>7. Within(s, ms)
    <3>1. ASSUME NEW i \in 1 .. Len(s), NEW j \in 1 .. Len(s[i])
          PROVE  \E k \in 1 .. Len(ms) : \E m \in 1 .. Len(ms[k]) : s[i][j] = ms[k][m]
      <4>1. CASE i = 1
        <5>1. j \in 1 .. (Len(h) - 1) /\ j + 1 \in 1 .. Len(h)
          BY <4>1, <2>1, <2>4, <1>4
        <5>2. s[i][j] = h[j + 1]
          BY <4>1, <5>1, <2>1, <2>4
        <5> QED
          BY <5>1, <5>2, <1>1, <1>2
      <4>2. CASE i # 1
        <5>1. i \in 1 .. Len(ms) /\ s[i] = ms[i]
          BY <4>2, <2>5
        <5> QED
          BY <5>1
      <4> QED
        BY <4>1, <4>2
    <3> QED
      BY <3>1 DEF Within
  <2> QED
    BY <2>6, <2>7 DEF s, w, u
<1>8. 1 \in 1 .. Len(h) /\ Head(h) = ms[1][1]
  BY <1>1, <1>4
<1> QED
  BY <1>1, <1>2, <1>6, <1>7, <1>8 DEF t, h

-----------------------------------------------------------------------------
(* The inductive invariant.                                                *)

Outcomes == {"ok", "refused", "lost"}
TheContext == Context(Head(line), mods, privileged, warn, seen)
ThePlan == PlanOf(Head(line), mods, privileged, warn, seen)
Allowed(request) ==
  /\ privileged
  /\ NeverAsked(request) \/ ~warn \/ confirmed # <<>> \/ Contains(Head(line), "--no-warn")

Recorded ==
  /\ AnswersFit(seen) /\ IsSeq(confirmed)
  /\ IsSeq(cache) /\ \A i \in 1 .. Len(cache) : cache[i].came \in Outcomes
OnPlan ==
  /\ running => line # <<>> /\ todo = Left(pc, ThePlan)
  /\ ~running => seen = <<>>
  /\ Calling => running /\ todo.steps # <<>> /\ TheStep.does = "call"
Unasked ==
  running /\ Manages(TheContext) /\ confirmed = <<>> =>
    \A i \in 1 .. pc : i <= Len(ThePlan.steps) => ThePlan.steps[i].does # "ask"
LeftAllowed ==
  \A n \in DOMAIN left \ {Here} :
    /\ Shaped(left[n])
    /\ \A i \in 1 .. Len(left[n]) : \A j \in 1 .. Len(left[n][i]) :
         Changes(left[n][i][j]) => Allowed(left[n][i][j])
SentAllowed == running => \A s \in sent : Allowed(s.request)
NotToggling == running /\ (Calling \/ sent # {}) => ~Toggles(TheContext)
IInv ==
  /\ TypeOK /\ Recorded /\ OnPlan /\ Unasked
  /\ LeftAllowed /\ SentAllowed /\ NotToggling

-----------------------------------------------------------------------------

(* With nobody to ask nobody is left and nothing was answered.             *)
LEMMA NobodyLeft ==
  DOMAIN Nobody = {} /\ DOMAIN Fresh = {} /\ AnswersFit(<<>>)
<1>1. DOMAIN Nobody = {} /\ DOMAIN Fresh = {}
  BY DEF Nobody, Fresh
<1>2. IsSeq(<<>>) /\ ToSet(<<>>) = {}
  <2>1. DOMAIN <<>> = {}
    OBVIOUS
  <2> QED
    BY <2>1, SeqOne DEF ToSet
<1> QED
  BY <1>1, <1>2 DEF AnswersFit

(* At a step of a command: the step is the next of its plan, and the plan  *)
(* is lawful.                                                              *)
LEMMA AtStep ==
  ASSUME IInv, running
  PROVE  /\ line \in Rests /\ line # <<>> /\ IsSeq(Head(line)) /\ pc \in Nat
         /\ Lawful(TheContext, ThePlan) /\ IsPlan(ThePlan)
         /\ todo = Left(pc, ThePlan) /\ AnswersFit(seen)
         /\ todo.steps # <<>> =>
              /\ pc + 1 \in 1 .. Len(ThePlan.steps) /\ TheStep = ThePlan.steps[pc + 1]
              /\ MayTake(TheContext, TheStep)
              /\ [todo EXCEPT !.steps = Tail(@)] = Left(pc + 1, ThePlan)
<1>1. line \in Rests /\ line # <<>> /\ pc \in Nat /\ todo = Left(pc, ThePlan) /\ AnswersFit(seen)
  BY DEF IInv, TypeOK, Recorded, OnPlan
<1>2. IsSeq(Head(line))
  BY <1>1, RestsShape
<1>3. Lawful(TheContext, ThePlan)
  <2>1. IsSeq(seen) /\ \A answers \in ToSet(seen) : DOMAIN answers \subseteq Machines
    BY <1>1 DEF AnswersFit
  <2> QED
    BY <1>2, <2>1, RootLawful DEF TheContext, ThePlan, PlanOf
<1>4. IsPlan(ThePlan)
  BY <1>3 DEF Lawful
<1> HIDE DEF ThePlan
<1>5. todo.steps # <<>> =>
         /\ pc + 1 \in 1 .. Len(ThePlan.steps) /\ TheStep = ThePlan.steps[pc + 1]
         /\ [todo EXCEPT !.steps = Tail(@)] = Left(pc + 1, ThePlan)
  BY <1>1, <1>4, LeftSteps DEF TheStep
<1>6. todo.steps # <<>> => MayTake(TheContext, TheStep)
  BY <1>3, <1>5 DEF Lawful
<1> QED
  BY <1>1, <1>2, <1>3, <1>4, <1>5, <1>6

-----------------------------------------------------------------------------

(* The session begins in IInv.                                             *)
LEMMA InitIInv ==
  ASSUME Init
  PROVE  IInv
<1>1. line = <<>> \/ line \in Rests
  BY LinesShape DEF Init
<1>2. left = Nobody /\ got = Fresh /\ DOMAIN left = {} /\ DOMAIN got = {} /\ ~running
  BY NobodyLeft DEF Init
<1>3. TypeOK
  <2>1. /\ {execute_only_mode, privileged, warn, running} \subseteq BOOLEAN
        /\ pc = 0 /\ sent = {} /\ moved = {} /\ failing = {} /\ faults = MaxFaults[line] /\ others = 0
    BY DEF Init
  <2>2. faults \in Nat /\ 0 \in 0 .. MaxOthers
    <3>1. line \in Lines /\ faults = MaxFaults[line]
      BY DEF Init
    <3> QED
      BY <3>1, SessionAssumption
  <2> QED
    BY <1>1, <1>2, <2>1, <2>2 DEF TypeOK
<1>4. Recorded
  <2>1. AnswersFit(<<>>) /\ IsSeq(<<>>) /\ Len(<<>>) = 0
    BY NobodyLeft, SeqOne
  <2> QED
    BY <2>1 DEF Init, Recorded
<1>5. OnPlan
  BY <1>2 DEF Init, OnPlan, Calling
<1>6. Unasked /\ LeftAllowed /\ SentAllowed /\ NotToggling
  BY <1>2 DEF Unasked, LeftAllowed, SentAllowed, NotToggling
<1> QED
  BY <1>3, <1>4, <1>5, <1>6 DEF IInv

(* The end of a command keeps IInv: the next one plans nothing yet.        *)
LEMMA FinishIInv ==
  ASSUME IInv, ~Calling, NEW rest, Finish(rest), rest = <<>> \/ rest \in Rests, IsSeq(confirmed'),
         UNCHANGED <<execute_only_mode, privileged, warn, left, got, cache, sent, moved, failing,
                     faults, others>>
  PROVE  IInv'
<1>1. /\ line' = rest /\ running' = FALSE /\ pc' = 0 /\ seen' = <<>> /\ left' = Nobody
      /\ DOMAIN left' = {}
  BY NobodyLeft DEF Finish, Calling
<1>2. TypeOK'
  BY <1>1 DEF IInv, TypeOK
<1>3. Recorded'
  BY <1>1, NobodyLeft DEF IInv, Recorded
<1>4. OnPlan'
  BY <1>1 DEF OnPlan, Calling
<1>5. Unasked' /\ LeftAllowed' /\ SentAllowed' /\ NotToggling'
  BY <1>1 DEF Unasked, LeftAllowed, SentAllowed, NotToggling
<1> QED
  BY <1>2, <1>3, <1>4, <1>5 DEF IInv

(* The begin of a command keeps IInv.                                      *)
LEMMA BeginIInv ==
  ASSUME IInv, Begin
  PROVE  IInv'
<1>1. /\ line # <<>> /\ ~running /\ sent' = {} /\ moved' = {} /\ failing' = {} /\ confirmed' = <<>>
      /\ cache' = cache \/ cache' = <<>>
      /\ UNCHANGED <<execute_only_mode, privileged, warn, pc, seen, left, got, held, faults, others>>
  BY DEF Begin
<1>2. pc = 0 /\ seen = <<>> /\ left = Nobody /\ line \in Rests
  BY <1>1 DEF IInv, TypeOK, OnPlan, Calling
<1>3. \/ line' = <<>> /\ UNCHANGED <<running, todo>>
      \/ running' = TRUE /\ line' = line /\ todo' = Planned(0, Head(line), mods', <<>>)
  BY DEF Begin
<1>4. DOMAIN left' = {} /\ left' = Nobody
  BY <1>1, <1>2, NobodyLeft
<1>5. TypeOK'
  BY <1>1, <1>2, <1>3 DEF IInv, TypeOK
<1>6. Recorded'
  <2>1. IsSeq(<<>>) /\ Len(<<>>) = 0
    BY SeqOne
  <2> QED
    BY <1>1, <2>1 DEF IInv, Recorded
<1>7. OnPlan'
  <2>1. CASE line' = <<>> /\ UNCHANGED <<running, todo>>
    BY <1>1, <1>2, <1>4, <2>1 DEF OnPlan, Calling
  <2>2. CASE running' = TRUE /\ line' = line /\ todo' = Planned(0, Head(line), mods', <<>>)
    <3>1. Planned(0, Head(line), mods', <<>>) = Left(0, PlanOf(Head(line), mods', privileged, warn, <<>>))
      BY PlannedIs
    <3>2. todo' = Left(pc', ThePlan')
      BY <1>1, <1>2, <2>2, <3>1 DEF ThePlan
    <3> QED
      BY <1>1, <1>2, <1>4, <2>2, <3>2 DEF OnPlan, Calling
  <2> QED
    BY <1>3, <2>1, <2>2
<1>8. Unasked'
  BY <1>1, <1>2 DEF Unasked
<1>9. LeftAllowed' /\ SentAllowed' /\ NotToggling'
  BY <1>1, <1>4 DEF LeftAllowed, SentAllowed, NotToggling, Calling
<1> QED
  BY <1>5, <1>6, <1>7, <1>8, <1>9 DEF IInv

(* The end of a plan keeps IInv.                                           *)
LEMMA EndIInv ==
  ASSUME IInv, End_
  PROVE  IInv'
<1>1. running /\ ~Calling /\ Finish(Tail(line))
  BY DEF End_
<1>2. Tail(line) = <<>> \/ Tail(line) \in Rests
  BY <1>1, AtStep, RestsShape
<1>3. IsSeq(confirmed')
  BY DEF End_, IInv, Recorded
<1> QED
  BY <1>1, <1>2, <1>3, FinishIInv DEF End_

(* A step that says something keeps IInv.                                  *)
LEMMA SayIInv ==
  ASSUME IInv, Say
  PROVE  IInv'
<1>1. /\ running /\ ~Calling /\ todo.steps # <<>> /\ TheStep.does = "tell"
      /\ UNCHANGED <<execute_only_mode, privileged, warn, left, got, confirmed, cache, held,
                     sent, moved, failing, faults, others>>
  BY DEF Say, Next_, TheStep
<1>2. IsSeq(confirmed')
  BY <1>1 DEF IInv, Recorded
<1>3. CASE Finish(<<>>)
  BY <1>1, <1>2, <1>3, FinishIInv
<1>4. CASE Step /\ UNCHANGED <<line, running, seen, mods>>
  <2>1. pc' = pc + 1 /\ todo' = Left(pc + 1, ThePlan) /\ pc \in Nat /\ line # <<>> /\ TheStep = ThePlan.steps[pc + 1]
    BY <1>1, <1>4, AtStep DEF Step
  <2>2. ThePlan' = ThePlan /\ TheContext' = TheContext
    BY <1>1, <1>4 DEF ThePlan, TheContext
  <2>3. TypeOK'
    BY <1>1, <1>4, <2>1 DEF IInv, TypeOK
  <2>4. Recorded' /\ LeftAllowed' /\ SentAllowed' /\ NotToggling'
    BY <1>1, <1>4, <2>2 DEF IInv, Recorded, LeftAllowed, SentAllowed, NotToggling, Calling, Allowed
  <2>5. OnPlan'
    BY <1>1, <1>4, <2>1, <2>2 DEF OnPlan, Calling
  <2>6. Unasked'
    <3>1. \A i \in 1 .. pc' : i \in 1 .. pc \/ i = pc + 1
      BY <2>1
    <3> QED
      BY <1>1, <1>4, <2>1, <2>2, <3>1 DEF IInv, Unasked
  <2> QED
    BY <2>3, <2>4, <2>5, <2>6 DEF IInv
<1> QED
  BY <1>3, <1>4 DEF Say

(* enable and disable keep IInv: they change the privilege, and their own  *)
(* plan does not look at it.                                               *)
LEMMA EnableIInv ==
  ASSUME IInv, Enable
  PROVE  IInv'
<1>1. /\ running /\ ~Calling /\ todo.steps # <<>> /\ TheStep.does = "enable" /\ Step
      /\ UNCHANGED <<line, execute_only_mode, mods, running, seen, left, got, said, confirmed,
                     cache, held, sent, moved, failing, faults, others>>
      /\ privileged' = (TheStep.says # "disable")
      /\ warn' = IF TheStep.says = "disable" THEN warn ELSE TheStep.says = "enable --warn"
  BY DEF Enable, Next_, TheStep
<1>2. /\ pc' = pc + 1 /\ todo' = Left(pc + 1, ThePlan) /\ pc \in Nat /\ line # <<>>
      /\ MayTake(TheContext, TheStep)
  BY <1>1, AtStep DEF Step
<1>3. Toggles(TheContext)
  BY <1>1, <1>2 DEF MayTake, Silent
<1>4. ThePlan' = ThePlan
  <2>1. PlanOf(Head(line), mods, privileged, warn, seen) = PlanOf(Head(line), mods, privileged', warn', seen)
    BY <1>3, RootToggles DEF PlanOf, TheContext
  <2> QED
    BY <1>1, <2>1 DEF ThePlan
<1>5. left' = Nobody /\ sent' = {}
  BY <1>1, <1>3 DEF IInv, NotToggling, Calling
<1>6. Word(TheContext') = Word(TheContext)
  <2>1. TheContext'.line = TheContext.line
    <3>1. TheContext.line = Head(line)
      BY ContextFields DEF TheContext
    <3>2. TheContext'.line = Head(line')
      BY ContextFields DEF TheContext
    <3> QED
      BY <1>1, <3>1, <3>2
  <2> QED
    BY <2>1 DEF Word
<1>7. TypeOK'
  <2>1. {privileged', warn'} \subseteq BOOLEAN
    BY <1>1 DEF IInv, TypeOK
  <2>2. {execute_only_mode', running'} \subseteq BOOLEAN /\ line' = line /\ running' /\ pc' \in Nat
    <3>1. pc' = pc + 1 /\ pc \in Nat
      BY <1>2
    <3>2. execute_only_mode' = execute_only_mode /\ running' = running /\ running /\ line' = line
      BY <1>1
    <3>3. {execute_only_mode, running} \subseteq BOOLEAN
      BY DEF IInv, TypeOK
    <3>4. pc' \in Nat
      BY <3>1
    <3>5. {execute_only_mode', running'} \subseteq BOOLEAN
      BY <3>2, <3>3
    <3> QED
      BY <3>2, <3>4, <3>5
  <2>3. left' = left /\ got' = got /\ sent' = sent /\ moved' = moved /\ failing' = failing
        /\ faults' = faults /\ others' = others
    BY <1>1
  <2> QED
    BY <2>1, <2>2, <2>3 DEF IInv, TypeOK
<1>8. Recorded'
  BY <1>1 DEF IInv, Recorded
<1>9. OnPlan'
  BY <1>1, <1>2, <1>4, <1>5 DEF OnPlan, Calling
<1>10. Unasked'
  BY <1>3, <1>6 DEF Unasked, Manages, Toggles
<1>11. LeftAllowed' /\ SentAllowed' /\ NotToggling'
  BY <1>5, NobodyLeft DEF LeftAllowed, SentAllowed, NotToggling, Calling
<1> QED
  BY <1>7, <1>8, <1>9, <1>10, <1>11 DEF IInv

(* The answer to a question keeps IInv.                                    *)
LEMMA AnswerPromptIInv ==
  ASSUME IInv, AnswerPrompt
  PROVE  IInv'
<1>1. /\ running /\ ~Calling /\ todo.steps # <<>>
      /\ UNCHANGED <<execute_only_mode, privileged, warn, left, got, said, cache, held, sent,
                     moved, failing, faults, others>>
  BY DEF AnswerPrompt, AtPrompt, Next_
<1>2. IsSeq(confirmed)
  BY DEF IInv, Recorded
<1>3. CASE Finish(Tail(line)) /\ UNCHANGED confirmed
  <2>1. Tail(line) = <<>> \/ Tail(line) \in Rests
    BY <1>1, AtStep, RestsShape
  <2> QED
    BY <1>1, <1>2, <1>3, <2>1, FinishIInv
<1>4. CASE confirmed' = Append(confirmed, TheStep.about) /\ Step /\ UNCHANGED <<line, mods, running, seen>>
  <2>1. pc' = pc + 1 /\ todo' = Left(pc + 1, ThePlan) /\ pc \in Nat /\ line # <<>>
    BY <1>1, <1>4, AtStep DEF Step
  <2>2. ThePlan' = ThePlan /\ TheContext' = TheContext
    BY <1>1, <1>4 DEF ThePlan, TheContext
  <2>3. IsSeq(confirmed') /\ confirmed' # <<>>
    BY <1>2, <1>4, SeqAppended
  <2>4. TypeOK'
    BY <1>1, <1>4, <2>1 DEF IInv, TypeOK
  <2>5. Recorded'
    BY <1>1, <1>4, <2>3 DEF IInv, Recorded
  <2>6. OnPlan'
    BY <1>1, <1>4, <2>1, <2>2 DEF OnPlan, Calling
  <2>7. Unasked'
    BY <2>3 DEF Unasked
  <2>8. \A request : Allowed(request) => Allowed(request)'
    BY <1>1, <1>4, <2>3 DEF Allowed
  <2>9. LeftAllowed' /\ SentAllowed' /\ NotToggling'
    BY <1>1, <1>4, <2>2, <2>8 DEF IInv, LeftAllowed, SentAllowed, NotToggling, Calling
  <2> QED
    BY <2>4, <2>5, <2>6, <2>7, <2>9 DEF IInv
<1> QED
  BY <1>3, <1>4 DEF AnswerPrompt

-----------------------------------------------------------------------------
(* Calls.                                                                  *)

(* Every change of a call is one that its command may make: were it not    *)
(* confirmed, the question before it would still be to come.               *)
LEMMA AsksAllowed ==
  ASSUME IInv, running, todo.steps # <<>>, TheStep.does = "call",
         NEW n \in DOMAIN TheStep.asks \ {Here},
         NEW i \in 1 .. Len(TheStep.asks[n]), NEW j \in 1 .. Len(TheStep.asks[n][i]),
         Changes(TheStep.asks[n][i][j])
  PROVE  Allowed(TheStep.asks[n][i][j])
<1> DEFINE c == TheContext  p == ThePlan  x == TheStep  q == x.asks[n][i][j]
<1>1. /\ Lawful(c, p) /\ pc \in Nat /\ pc + 1 \in 1 .. Len(p.steps) /\ x = p.steps[pc + 1]
      /\ MayTake(c, x)
  BY AtStep
<1>2. c.line = Head(line) /\ c.privileged = privileged /\ c.warn = warn
  BY ContextFields DEF TheContext
<1> HIDE DEF c, p, x
<1>3. Manages(c)
  <2>1. ~ReadsAlone(x.asks)
    BY DEF ReadsAlone, x
  <2> QED
    BY <1>1, <2>1 DEF MayTake, Silent, x
<1>4. privileged
  BY <1>2, <1>3 DEF Manages
<1>5. ASSUME ~NeverAsked(q), warn, ~Contains(Head(line), "--no-warn"), confirmed = <<>> PROVE FALSE
  <2>1. Warned(c)
    BY <1>2, <1>5 DEF Warned
  <2>2. AskFirst(p)
    BY <1>1, <1>3, <2>1 DEF Lawful
  <2>3. Sends(x)
    BY <1>5 DEF Sends, Wants, NeverAsked, x
  <2>4. PICK k \in 1 .. ((pc + 1) - 1) : p.steps[k].does = "ask"
    BY <1>1, <2>2, <2>3 DEF AskFirst
  <2>5. k \in 1 .. pc /\ k <= Len(p.steps)
    <3>1. \A m : m \in 1 .. Len(p.steps) => m <= Len(p.steps)
      BY <1>1, SeqLen DEF Lawful, IsPlan
    <3>2. Len(p.steps) \in Nat
      BY <1>1, SeqLen DEF Lawful, IsPlan
    <3> QED
      BY <1>1, <2>4, <3>1, <3>2
  <2> QED
    BY <1>3, <1>5, <2>4, <2>5 DEF IInv, Unasked, c, p
<1> QED
  BY <1>4, <1>5 DEF Allowed, q, x

(* The begin of a call keeps IInv.                                         *)
LEMMA BeginCallIInv ==
  ASSUME IInv, BeginCall
  PROVE  IInv'
<1> DEFINE asks == TheStep.asks
<1>1. /\ running /\ ~Calling /\ todo.steps # <<>> /\ TheStep.does = "call"
      /\ left' = [n \in DOMAIN asks |-> Pending(asks[n])]
      /\ got' = [n \in DOMAIN asks |-> [i \in DOMAIN asks[n] |-> [came |-> "ok", vals |-> <<>>]]]
      /\ UNCHANGED <<line, execute_only_mode, privileged, warn, mods, running, pc, todo, seen, said,
                     confirmed, cache, held, sent, moved, failing, faults, others>>
  BY DEF BeginCall, Next_, TheStep
<1>2. MayTake(TheContext, TheStep)
  BY <1>1, AtStep
<1>3. WellAsked(asks) /\ ~Toggles(TheContext)
  BY <1>1, <1>2 DEF MayTake, Silent
<1>4. \A n \in DOMAIN asks \ {Here} : \A i \in 1 .. Len(asks[n]) : \A j \in 1 .. Len(asks[n][i]) :
        Changes(asks[n][i][j]) => Allowed(asks[n][i][j])
  BY <1>1, AsksAllowed
<1> HIDE DEF asks
<1>5. ThePlan' = ThePlan /\ TheContext' = TheContext /\ TheStep' = TheStep
  BY <1>1 DEF ThePlan, TheContext, TheStep
<1>6. \A request : Allowed(request)' = Allowed(request)
  BY <1>1 DEF Allowed
<1>7. TypeOK'
  <2>1. DOMAIN left' = DOMAIN asks /\ DOMAIN got' = DOMAIN asks /\ DOMAIN asks \subseteq Node \union {Here}
    BY <1>1, <1>3 DEF WellAsked
  <2>2. \A n \in DOMAIN got' : \A i \in DOMAIN got'[n] : got'[n][i].came = "ok"
    BY <1>1
  <2> QED
    BY <1>1, <2>1, <2>2 DEF IInv, TypeOK
<1>8. Recorded' /\ Unasked' /\ SentAllowed' /\ NotToggling'
  BY <1>1, <1>3, <1>5, <1>6 DEF IInv, Recorded, Unasked, SentAllowed, NotToggling
<1>9. OnPlan'
  BY <1>1, <1>5 DEF IInv, OnPlan
<1>10. LeftAllowed'
  <2>1. ASSUME NEW n \in DOMAIN left' \ {Here}
        PROVE  /\ Shaped(left'[n])
               /\ \A i \in 1 .. Len(left'[n]) : \A j \in 1 .. Len(left'[n][i]) :
                    Changes(left'[n][i][j]) => Allowed(left'[n][i][j])
    <3>1. n \in DOMAIN asks \ {Here} /\ left'[n] = Pending(asks[n])
      BY <1>1
    <3>2. IsSeq(asks[n]) /\ \A i \in 1 .. Len(asks[n]) : IsSeq(asks[n][i])
      BY <1>3, <3>1 DEF WellAsked
    <3>3. Shaped(left'[n]) /\ Within(left'[n], asks[n])
      BY <3>1, <3>2, PendingShaped
    <3> DEFINE ms == left'[n]
    <3>4. Shaped(ms) /\ Within(ms, asks[n])
      BY <3>3
    <3> HIDE DEF ms
    <3>5. ASSUME NEW i \in 1 .. Len(ms), NEW j \in 1 .. Len(ms[i]), Changes(ms[i][j])
          PROVE  Allowed(ms[i][j])
      <4>1. PICK k \in 1 .. Len(asks[n]) : \E m \in 1 .. Len(asks[n][k]) : ms[i][j] = asks[n][k][m]
        BY <3>4 DEF Within
      <4>2. PICK m \in 1 .. Len(asks[n][k]) : ms[i][j] = asks[n][k][m]
        BY <4>1
      <4> QED
        BY <3>1, <3>5, <4>2, <1>4
    <3> QED
      BY <3>4, <3>5 DEF ms
  <2> QED
    BY <2>1, <1>6 DEF LeftAllowed
<1> QED
  BY <1>7, <1>8, <1>9, <1>10 DEF IInv

(* The end of a call keeps IInv: with its answers the plan only goes on.   *)
LEMMA EndCallIInv ==
  ASSUME IInv, EndCall
  PROVE  IInv'
<1>1. /\ Calling /\ left' = Nobody /\ got' = Fresh /\ seen' = Append(seen, got) /\ pc' = pc + 1
      /\ todo' = Planned(pc', Head(line), mods, seen')
      /\ UNCHANGED <<line, execute_only_mode, privileged, warn, mods, running, said, confirmed,
                     cache, held, sent, moved, failing, faults, others>>
  BY DEF EndCall
<1>2. running /\ todo.steps # <<>> /\ TheStep.does = "call"
  BY <1>1 DEF IInv, OnPlan
<1>3. /\ line \in Rests /\ line # <<>> /\ IsSeq(Head(line)) /\ pc \in Nat /\ IsPlan(ThePlan)
      /\ AnswersFit(seen) /\ pc + 1 \in 1 .. Len(ThePlan.steps) /\ TheStep = ThePlan.steps[pc + 1]
  BY <1>2, AtStep
<1>4. AnswersFit(seen')
  <2>1. IsSeq(seen) /\ \A answers \in ToSet(seen) : DOMAIN answers \subseteq Machines
    BY <1>3 DEF AnswersFit
  <2>2. DOMAIN got \subseteq Machines
    BY DEF IInv, TypeOK, Machines
  <2>3. /\ IsSeq(seen') /\ Len(seen') = Len(seen) + 1 /\ DOMAIN seen' = 1 .. Len(seen')
        /\ \A i \in 1 .. Len(seen) : seen'[i] = seen[i]
        /\ seen'[Len(seen) + 1] = got /\ DOMAIN seen = 1 .. Len(seen) /\ Len(seen) \in Nat
    BY <1>1, <2>1, SeqAppended, SeqLen
  <2>4. ASSUME NEW i \in 1 .. Len(seen') PROVE DOMAIN seen'[i] \subseteq Machines
    <3>1. CASE i \in 1 .. Len(seen)
      <4>1. seen[i] \in ToSet(seen)
        BY <2>3, <3>1 DEF ToSet
      <4> QED
        BY <2>1, <2>3, <3>1, <4>1
    <3>2. CASE i \notin 1 .. Len(seen)
      <4>1. i = Len(seen) + 1
        BY <2>3, <3>2
      <4> QED
        BY <2>2, <2>3, <4>1
    <3> QED
      BY <3>1, <3>2
  <2> QED
    BY <2>3, <2>4 DEF AnswersFit, ToSet
<1>5. DOMAIN left' = {} /\ DOMAIN got' = {}
  BY <1>1, NobodyLeft
<1>6. TypeOK'
  BY <1>1, <1>2, <1>3, <1>5 DEF IInv, TypeOK
<1>7. Recorded'
  BY <1>1, <1>4 DEF IInv, Recorded
<1>8. todo' = Left(pc', ThePlan')
  <2>1. Planned(pc', Head(line), mods, seen') = Left(pc', PlanOf(Head(line), mods, privileged, warn, seen'))
    BY PlannedIs
  <2> QED
    BY <1>1, <2>1 DEF ThePlan
<1>9. OnPlan'
  BY <1>1, <1>2, <1>3, <1>8 DEF OnPlan, Calling
<1>10. LeftAllowed'
  BY <1>5 DEF LeftAllowed
<1>11. SentAllowed'
  BY <1>1, <1>2 DEF IInv, SentAllowed, Allowed
<1>12. /\ TheContext.line = Head(line) /\ TheContext'.line = Head(line)
       /\ TheContext.privileged = privileged /\ TheContext'.privileged = privileged
  <2>1. TheContext.line = Head(line) /\ TheContext.privileged = privileged
    BY ContextFields DEF TheContext
  <2>2. TheContext'.line = Head(line') /\ TheContext'.privileged = privileged'
    BY ContextFields DEF TheContext
  <2> QED
    BY <1>1, <2>1, <2>2
<1>13. Word(TheContext') = Word(TheContext)
  BY <1>12 DEF Word
<1>14. NotToggling'
  BY <1>1, <1>2, <1>13 DEF IInv, NotToggling, Toggles
<1>15. Unasked'
  <2>1. SUFFICES ASSUME Manages(TheContext'), confirmed = <<>>,
                        NEW i \in 1 .. pc', i <= Len(ThePlan'.steps)
                 PROVE  ThePlan'.steps[i].does # "ask"
    BY <1>1 DEF Unasked
  <2>2. Manages(TheContext)
    BY <2>1, <1>12, <1>13 DEF Manages
  <2>3. Grows(ThePlan, ThePlan')
    <3>1. Grows(PlanOf(Head(line), mods, privileged, warn, seen),
                PlanOf(Head(line), mods, privileged, warn, Append(seen, got)))
      BY <1>3, <2>2, RootGrows DEF TheContext, PlanOf, AnswersFit
    <3> QED
      BY <1>1, <3>1 DEF ThePlan
  <2>4. i \in 1 .. Len(ThePlan.steps) /\ (i \in 1 .. pc \/ i = pc + 1) /\ i <= Len(ThePlan.steps)
    <3>1. Len(ThePlan.steps) \in Nat
      BY <1>3, SeqLen DEF IsPlan
    <3> QED
      BY <1>1, <1>3, <2>1, <3>1
  <2>5. ThePlan'.steps[i] = ThePlan.steps[i]
    BY <2>3, <2>4 DEF Grows
  <2>6. CASE i \in 1 .. pc
    BY <1>2, <2>1, <2>2, <2>4, <2>5, <2>6 DEF IInv, Unasked
  <2>7. CASE i = pc + 1
    BY <1>2, <1>3, <2>5, <2>7
  <2> QED
    BY <2>4, <2>6, <2>7
<1> QED
  BY <1>6, <1>7, <1>9, <1>10, <1>11, <1>14, <1>15 DEF IInv

-----------------------------------------------------------------------------

(* What a node answers: nothing that it is still to be asked is new.       *)
LEMMA ReceiveIInv ==
  ASSUME IInv, NEW n \in Machines, Asking(n), NEW came \in Outcomes, NEW val,
         Receive(n, Request(n), came, val),
         UNCHANGED <<line, execute_only_mode, privileged, warn, mods, running, pc, todo, seen, said,
                     confirmed>>
  PROVE  /\ DOMAIN left' = DOMAIN got' /\ DOMAIN left' \subseteq Machines
         /\ \A m \in DOMAIN got' : \A i \in DOMAIN got'[m] : got'[m][i].came \in Outcomes
         /\ OnPlan' /\ Unasked' /\ LeftAllowed'
         /\ running /\ ~Toggles(TheContext) /\ ThePlan' = ThePlan /\ TheContext' = TheContext
         /\ \A request : Allowed(request)' = Allowed(request)
         /\ n # Here /\ Changes(Request(n)) => Allowed(Request(n))
<1> DEFINE ms == left[n]
<1>1. Calling /\ n \in DOMAIN left /\ ms # <<>>
  BY DEF Asking
<1>2. running /\ todo.steps # <<>> /\ TheStep.does = "call" /\ line # <<>> /\ todo = Left(pc, ThePlan)
  BY <1>1 DEF IInv, OnPlan
<1>3. ThePlan' = ThePlan /\ TheContext' = TheContext /\ TheStep' = TheStep
  BY DEF ThePlan, TheContext, TheStep
<1>4. \A request : Allowed(request)' = Allowed(request)
  BY DEF Allowed
<1>5. ~Toggles(TheContext)
  BY <1>1, <1>2 DEF IInv, NotToggling
<1>6. OnPlan' /\ Unasked'
  BY <1>2, <1>3 DEF IInv, OnPlan, Unasked
<1>7. DOMAIN left = DOMAIN got /\ DOMAIN left \subseteq Machines
      /\ \A m \in DOMAIN got : \A i \in DOMAIN got[m] : got[m][i].came \in Outcomes
  BY DEF IInv, TypeOK, Machines, Outcomes
<1>8. PICK on \in BOOLEAN :
        /\ on => Len(Head(left[n])) > 1
        /\ left' = [left EXCEPT ![n] = IF on THEN <<Tail(Head(@))>> \o Tail(@) ELSE Pending(Tail(@))]
        /\ \E method, how, vals :
             /\ how \in Outcomes \/ how = got[n][method].came
             /\ got' = [got EXCEPT ![n][method] = [came |-> how, vals |-> vals]]
  BY DEF Receive, Outcomes
<1>9. PICK method, how, vals :
        /\ how \in Outcomes \/ how = got[n][method].came
        /\ got' = [got EXCEPT ![n][method] = [came |-> how, vals |-> vals]]
  BY <1>8
<1>10. DOMAIN left' = DOMAIN left /\ DOMAIN got' = DOMAIN got
  BY <1>8, <1>9
<1>11. \A m \in DOMAIN got' : \A i \in DOMAIN got'[m] : got'[m][i].came \in Outcomes
  BY <1>7, <1>9
<1>12. \A m \in DOMAIN left : m # n => left'[m] = left[m]
  BY <1>8
<1>13. ASSUME n # Here
       PROVE  /\ Shaped(left'[n])
              /\ \A i \in 1 .. Len(left'[n]) : \A j \in 1 .. Len(left'[n][i]) :
                   Changes(left'[n][i][j]) => Allowed(left'[n][i][j])
              /\ Changes(Request(n)) => Allowed(Request(n))
  <2> DEFINE new == IF on THEN <<Tail(Head(ms))>> \o Tail(ms) ELSE Pending(Tail(ms))
  <2>1. left'[n] = new
    BY <1>1, <1>8
  <2>2. /\ Shaped(ms)
        /\ \A i \in 1 .. Len(ms) : \A j \in 1 .. Len(ms[i]) : Changes(ms[i][j]) => Allowed(ms[i][j])
    BY <1>1, <1>13 DEF IInv, LeftAllowed
  <2>3. on => Len(Head(ms)) > 1
    BY <1>8
  <2>4. Request(n) = Head(Head(ms))
    BY DEF Request
  <2> HIDE DEF ms
  <2>5. /\ Shaped(Pending(Tail(ms))) /\ Within(Pending(Tail(ms)), ms)
        /\ Len(Head(ms)) > 1 =>
             /\ Shaped(<<Tail(Head(ms))>> \o Tail(ms))
             /\ Within(<<Tail(Head(ms))>> \o Tail(ms), ms)
        /\ 1 \in 1 .. Len(ms) /\ 1 \in 1 .. Len(ms[1]) /\ Head(Head(ms)) = ms[1][1]
    BY <1>1, <2>2, TailShaped
  <2>6. Shaped(new) /\ Within(new, ms)
    BY <2>3, <2>5
  <2> HIDE DEF new
  <2>7. ASSUME NEW i \in 1 .. Len(new), NEW j \in 1 .. Len(new[i]), Changes(new[i][j])
        PROVE  Allowed(new[i][j])
    <3>1. PICK k \in 1 .. Len(ms) : \E m \in 1 .. Len(ms[k]) : new[i][j] = ms[k][m]
      BY <2>6 DEF Within
    <3>2. PICK m \in 1 .. Len(ms[k]) : new[i][j] = ms[k][m]
      BY <3>1
    <3> QED
      BY <2>2, <2>7, <3>2
  <2> QED
    BY <2>1, <2>2, <2>4, <2>5, <2>6, <2>7
<1>14. LeftAllowed'
  <2>1. ASSUME NEW m \in DOMAIN left' \ {Here}
        PROVE  /\ Shaped(left'[m])
               /\ \A i \in 1 .. Len(left'[m]) : \A j \in 1 .. Len(left'[m][i]) :
                    Changes(left'[m][i][j]) => Allowed(left'[m][i][j])
    <3>1. CASE m = n
      BY <1>13, <3>1
    <3>2. CASE m # n
      <4>1. left'[m] = left[m] /\ m \in DOMAIN left \ {Here}
        BY <1>10, <1>12, <3>2
      <4> QED
        BY <4>1 DEF IInv, LeftAllowed
    <3> QED
      BY <3>1, <3>2
  <2> QED
    BY <2>1, <1>4 DEF LeftAllowed
<1> QED
  BY <1>2, <1>3, <1>4, <1>5, <1>6, <1>7, <1>10, <1>11, <1>13, <1>14

-----------------------------------------------------------------------------
(* Answers.                                                                *)

(* What came of a request of a node is recorded, and IInv kept.            *)
LEMMA AnsweredIInv ==
  ASSUME IInv, NEW n \in Machines, Asking(n), NEW came \in Outcomes, NEW val,
         Receive(n, Request(n), came, val),
         NEW fate \in Outcomes \union {"cached"}, Record(n, Request(n), fate),
         IsSeq(cache'), \A i \in 1 .. Len(cache') : cache'[i].came \in Outcomes,
         moved' \subseteq {want.place : want \in OthersWants}, failing' \subseteq Machines,
         faults' \in Nat,
         UNCHANGED <<line, execute_only_mode, privileged, warn, mods, running, pc, todo, seen, said,
                     confirmed, others>>
  PROVE  IInv'
<1>1. /\ DOMAIN left' = DOMAIN got' /\ DOMAIN left' \subseteq Machines
      /\ \A m \in DOMAIN got' : \A i \in DOMAIN got'[m] : got'[m][i].came \in Outcomes
      /\ OnPlan' /\ Unasked' /\ LeftAllowed'
      /\ running /\ ~Toggles(TheContext) /\ ThePlan' = ThePlan /\ TheContext' = TheContext
      /\ \A request : Allowed(request)' = Allowed(request)
      /\ n # Here /\ Changes(Request(n)) => Allowed(Request(n))
  BY ReceiveIInv
<1>2. ASSUME NEW s \in sent'
      PROVE  /\ s.node \in Node /\ s.fate \in {"ok", "refused", "lost", "cached"}
             /\ Allowed(s.request)
  <2>1. CASE s \in sent
    BY <1>1, <2>1 DEF IInv, TypeOK, SentAllowed
  <2>2. CASE s \notin sent
    <3>1. /\ Changes(Request(n)) /\ n # Here
          /\ s = [node |-> n, request |-> Request(n), fate |-> fate]
      BY <2>2 DEF Record
    <3> QED
      BY <1>1, <3>1 DEF Machines, Outcomes
  <2> QED
    BY <2>1, <2>2
<1>3. TypeOK'
  <2>1. /\ line' = line /\ pc' = pc /\ running' = running /\ others' = others
        /\ {execute_only_mode', privileged', warn', running'} \subseteq BOOLEAN
    BY DEF IInv, TypeOK
  <2>2. (line = <<>> \/ line \in Rests) /\ pc \in Nat /\ others \in 0 .. MaxOthers
    BY DEF IInv, TypeOK
  <2>3. /\ DOMAIN left' = DOMAIN got' /\ DOMAIN left' \subseteq Node \union {Here}
        /\ \A m \in DOMAIN got' : \A i \in DOMAIN got'[m] : got'[m][i].came \in {"ok", "refused", "lost"}
        /\ failing' \subseteq Node \union {Here}
    BY <1>1 DEF Machines, Outcomes
  <2> QED
    BY <1>1, <1>2, <2>1, <2>2, <2>3 DEF TypeOK
<1>4. Recorded'
  BY DEF IInv, Recorded
<1>5. SentAllowed'
  BY <1>1, <1>2 DEF SentAllowed
<1>6. NotToggling'
  BY <1>1 DEF NotToggling
<1> QED
  BY <1>1, <1>3, <1>4, <1>5, <1>6 DEF IInv

(* What is kept in the cache is an outcome.                                *)
LEMMA CacheKept ==
  ASSUME IInv, NEW n, NEW q, NEW came \in Outcomes, NEW val,
         Keep(n, q, came, val) \/ UNCHANGED cache
  PROVE  IsSeq(cache') /\ \A i \in 1 .. Len(cache') : cache'[i].came \in Outcomes
<1>1. IsSeq(cache) /\ \A i \in 1 .. Len(cache) : cache[i].came \in Outcomes
  BY DEF IInv, Recorded
<1>2. CASE cache' = cache
  BY <1>1, <1>2
<1> DEFINE entry == [key |-> Key(n, q), came |-> came, val |-> val]
<1>3. CASE cache' = Append(cache, entry)
  <2>1. entry.came = came
    OBVIOUS
  <2> HIDE DEF entry
  <2>2. /\ IsSeq(cache') /\ Len(cache') = Len(cache) + 1 /\ Len(cache) \in Nat
        /\ \A i \in 1 .. Len(cache) : cache'[i] = cache[i]
        /\ cache'[Len(cache) + 1] = entry
    BY <1>1, <1>3, SeqAppended, SeqLen
  <2>3. \A i \in 1 .. Len(cache') : i \in 1 .. Len(cache) \/ i = Len(cache) + 1
    BY <2>2
  <2> QED
    BY <1>1, <2>1, <2>2, <2>3
<1> QED
  BY <1>2, <1>3 DEF Keep

(* What was found in the cache is at one of its places.                    *)
LEMMA KeptWhere ==
  ASSUME NEW n, NEW q, IsSeq(cache), Kept(n, q) # 0
  PROVE  Kept(n, q) \in 1 .. Len(cache)
<1> DEFINE Test(entry) == entry.key = Key(n, q)
           I == {i \in 1 .. Len(cache) : Test(cache[i])}
<1>1. Kept(n, q) = SelectInSeq(cache, Test)
  BY DEF Kept
<1>2. Kept(n, q) = IF I # {} THEN Min(I) ELSE 0
  BY <1>1 DEF SelectInSeq
<1>3. I # {} /\ I \subseteq Nat /\ I \subseteq 1 .. Len(cache)
  BY <1>2, SeqLen
<1> HIDE DEF I
<1>4. Min(I) \in I
  BY <1>3, MinIsLeast
<1> QED
  BY <1>2, <1>3, <1>4

(* An answer from the cache keeps IInv.                                    *)
LEMMA AnswerFromCacheIInv ==
  ASSUME IInv, NEW n \in Machines, AnswerFromCache(n)
  PROVE  IInv'
<1> DEFINE q == Request(n)  entry == cache[Kept(n, q)]
<1>1. /\ Asking(n) /\ Hit(n)
      /\ Receive(n, q, entry.came, entry.val) /\ Record(n, q, "cached")
      /\ UNCHANGED <<line, execute_only_mode, privileged, warn, mods, running, pc, todo, seen, said,
                     confirmed, cache, held, moved, failing, faults, others>>
  BY DEF AnswerFromCache
<1>2. IsSeq(cache) /\ \A i \in 1 .. Len(cache) : cache[i].came \in Outcomes
  BY DEF IInv, Recorded
<1>3. Kept(n, q) \in 1 .. Len(cache)
  BY <1>1, <1>2, KeptWhere DEF Hit
<1>4. entry.came \in Outcomes
  BY <1>2, <1>3
<1>5. moved \subseteq {want.place : want \in OthersWants} /\ failing \subseteq Machines
      /\ faults \in Nat
  BY DEF IInv, TypeOK, Machines
<1> DEFINE came == entry.came  val == entry.val
<1>6. came \in Outcomes /\ Receive(n, Request(n), came, val) /\ Record(n, Request(n), "cached")
  BY <1>1, <1>4
<1>7. "cached" \in Outcomes \union {"cached"}
  OBVIOUS
<1> HIDE DEF came, val
<1> QED
  BY <1>1, <1>2, <1>5, <1>6, <1>7, AnsweredIInv

(* The answer, the refusal and the loss of a request keep IInv.            *)
LEMMA ServerIInv ==
  ASSUME IInv, NEW n \in Machines, Answered(n) \/ Refused(n) \/ Lost(n)
  PROVE  IInv'
<1> DEFINE q == Request(n)
<1>1. moved \subseteq {want.place : want \in OthersWants} /\ failing \subseteq Machines
      /\ faults \in Nat
  BY SessionAssumption DEF IInv, TypeOK, Machines
<1>2. {"ok", "refused", "lost"} \subseteq Outcomes /\ Outcomes \subseteq Outcomes \union {"cached"}
  BY DEF Outcomes
<1>3. CASE Answered(n)
  <2> DEFINE val == Held(Place(n, q.obj))
  <2>1. /\ Asking(n) /\ Receive(n, Request(n), "ok", val) /\ Keep(n, q, "ok", val)
        /\ Record(n, Request(n), "ok")
        /\ moved' \subseteq moved
        /\ UNCHANGED <<line, execute_only_mode, privileged, warn, mods, running, pc, todo, seen, said,
                       confirmed, failing, faults, others>>
    BY <1>3 DEF Answered
  <2> HIDE DEF val
  <2>2. IsSeq(cache') /\ \A i \in 1 .. Len(cache') : cache'[i].came \in Outcomes
    BY <1>2, <2>1, CacheKept
  <2>3. moved' \subseteq {want.place : want \in OthersWants} /\ failing' \subseteq Machines
        /\ faults' \in Nat
    BY <1>1, <2>1
  <2> QED
    BY <1>2, <2>1, <2>2, <2>3, AnsweredIInv
<1>4. ASSUME failing' = failing \union {n}, faults' = faults - 1, faults > 0
      PROVE  failing' \subseteq Machines /\ faults' \in Nat
  BY <1>1, <1>4
<1>5. CASE Refused(n)
  <2>1. /\ Asking(n) /\ Receive(n, Request(n), "refused", <<>>) /\ Keep(n, q, "refused", <<>>)
        /\ Record(n, Request(n), "refused")
        /\ failing' = failing \union {n} /\ faults' = faults - 1 /\ faults > 0
        /\ UNCHANGED <<line, execute_only_mode, privileged, warn, mods, running, pc, todo, seen, said,
                       confirmed, held, moved, others>>
    BY <1>5 DEF Refused
  <2>2. IsSeq(cache') /\ \A i \in 1 .. Len(cache') : cache'[i].came \in Outcomes
    BY <1>2, <2>1, CacheKept
  <2>3. moved' \subseteq {want.place : want \in OthersWants} /\ failing' \subseteq Machines
        /\ faults' \in Nat
    BY <1>1, <1>4, <2>1
  <2> QED
    BY <1>2, <2>1, <2>2, <2>3, AnsweredIInv
<1>6. CASE Lost(n)
  <2>1. /\ Asking(n) /\ Receive(n, Request(n), "lost", <<>>)
        /\ Record(n, Request(n), "lost")
        /\ failing' = failing \union {n} /\ faults' = faults - 1 /\ faults > 0
        /\ UNCHANGED <<line, execute_only_mode, privileged, warn, mods, running, pc, todo, seen, said,
                       confirmed, cache, moved, others>>
    BY <1>6 DEF Lost
  <2>2. IsSeq(cache') /\ \A i \in 1 .. Len(cache') : cache'[i].came \in Outcomes
    BY <1>2, <2>1, CacheKept
  <2>3. moved' \subseteq {want.place : want \in OthersWants} /\ failing' \subseteq Machines
        /\ faults' \in Nat
    BY <1>1, <1>4, <2>1
  <2> QED
    BY <1>2, <2>1, <2>2, <2>3, AnsweredIInv
<1> QED
  BY <1>3, <1>5, <1>6

(* What happens aside of the session keeps IInv.                           *)
LEMMA AsideIInv ==
  ASSUME IInv, UNCHANGED <<session, sent, failing, faults>>,
         IsSeq(cache'), \A i \in 1 .. Len(cache') : cache'[i].came \in Outcomes,
         moved' \subseteq {want.place : want \in OthersWants}, others' \in 0 .. MaxOthers
  PROVE  IInv'
<1>1. UNCHANGED <<line, execute_only_mode, privileged, warn, mods, running, pc, todo, seen, left, got,
                  said, confirmed>>
  BY DEF session
<1>2. ThePlan' = ThePlan /\ TheContext' = TheContext /\ TheStep' = TheStep
  BY <1>1 DEF ThePlan, TheContext, TheStep
<1>3. TypeOK'
  BY <1>1 DEF IInv, TypeOK
<1>4. Recorded'
  BY <1>1 DEF IInv, Recorded
<1>5. OnPlan' /\ Unasked'
  BY <1>1, <1>2 DEF IInv, OnPlan, Unasked, Calling
<1>6. \A request : Allowed(request)' = Allowed(request)
  BY <1>1 DEF Allowed
<1>7. LeftAllowed' /\ SentAllowed' /\ NotToggling'
  BY <1>1, <1>2, <1>6 DEF IInv, LeftAllowed, SentAllowed, NotToggling, Calling
<1> QED
  BY <1>3, <1>4, <1>5, <1>7 DEF IInv

(* The end of an entry of the cache, another administrator and a stutter   *)
(* keep IInv.                                                              *)
LEMMA OthersIInv ==
  ASSUME IInv, Expire \/ OtherAdministrator \/ UNCHANGED vars
  PROVE  IInv'
<1>1. IsSeq(cache) /\ \A i \in 1 .. Len(cache) : cache[i].came \in Outcomes
  BY DEF IInv, Recorded
<1>2. moved \subseteq {want.place : want \in OthersWants} /\ others \in 0 .. MaxOthers /\ MaxOthers \in Nat
  BY SessionAssumption DEF IInv, TypeOK
<1>3. CASE Expire
  <2>1. /\ cache # <<>> /\ cache' = Tail(cache)
        /\ UNCHANGED <<session, held, sent, moved, failing, faults, others>>
    BY <1>3 DEF Expire
  <2>2. /\ IsSeq(cache') /\ Len(cache') = Len(cache) - 1 /\ Len(cache) \in Nat
        /\ \A i \in 1 .. (Len(cache) - 1) : cache'[i] = cache[i + 1]
    BY <1>1, <2>1, SeqTail, SeqLen
  <2>3. \A i \in 1 .. Len(cache') : cache'[i].came \in Outcomes
    <3>1. ASSUME NEW i \in 1 .. Len(cache') PROVE cache'[i].came \in Outcomes
      <4>1. i \in 1 .. (Len(cache) - 1) /\ i + 1 \in 1 .. Len(cache)
        BY <2>2
      <4> QED
        BY <1>1, <2>2, <4>1
    <3> QED
      BY <3>1
  <2> QED
    BY <1>2, <2>1, <2>2, <2>3, AsideIInv
<1>4. CASE OtherAdministrator
  <2>1. /\ UNCHANGED <<session, cache, sent, failing, faults>>
        /\ others < MaxOthers /\ others' = others + 1
        /\ \E want \in OthersWants : moved' = moved \union {want.place}
    BY <1>4 DEF OtherAdministrator
  <2>2. moved' \subseteq {want.place : want \in OthersWants} /\ others' \in 0 .. MaxOthers
    BY <1>2, <2>1
  <2> QED
    BY <1>1, <2>1, <2>2, AsideIInv
<1>5. CASE UNCHANGED vars
  BY <1>1, <1>2, <1>5, AsideIInv DEF vars
<1> QED
  BY <1>3, <1>4, <1>5

(* Every step of the session keeps IInv.                                   *)
THEOREM StepIInv ==
  ASSUME IInv, [Next]_vars
  PROVE  IInv'
<1>1. CASE Begin
  BY <1>1, BeginIInv
<1>2. CASE End_
  BY <1>2, EndIInv
<1>3. CASE Say
  BY <1>3, SayIInv
<1>4. CASE Enable
  BY <1>4, EnableIInv
<1>5. CASE AnswerPrompt
  BY <1>5, AnswerPromptIInv
<1>6. CASE BeginCall
  BY <1>6, BeginCallIInv
<1>7. CASE EndCall
  BY <1>7, EndCallIInv
<1>8. CASE Nodes
  <2>1. PICK n \in Machines : AnswerFromCache(n) \/ Answered(n) \/ Refused(n) \/ Lost(n)
    BY <1>8 DEF Nodes, Machines
  <2> QED
    BY <2>1, AnswerFromCacheIInv, ServerIInv
<1>9. CASE Expire \/ OtherAdministrator \/ Stay \/ UNCHANGED vars
  BY <1>9, OthersIInv DEF Stay
<1> QED
  BY <1>1, <1>2, <1>3, <1>4, <1>5, <1>6, <1>7, <1>8, <1>9 DEF Next

(* The session stays in its type, for all nodes, lines and versions.       *)
THEOREM SpecTypeOK == Spec => []TypeOK
<1>1. IInv => TypeOK
  BY DEF IInv
<1> QED
  BY <1>1, InitIInv, StepIInv, PTL DEF Spec

(* Nothing is changed in a cluster before the user has confirmed it, if    *)
(* the session warns and the line has no --no-warn, and never by a command *)
(* that is not privileged: for all nodes, whatever the nodes answer,       *)
(* whatever is lost, and whatever the line.                                *)
THEOREM SpecConfirmedFirst == Spec => []ConfirmedFirst
<1>1. IInv => ConfirmedFirst
  <2>1. SUFFICES ASSUME IInv, running, sent # {}
                 PROVE  /\ privileged
                        /\ \/ ~warn \/ confirmed # <<>> \/ Contains(Head(line), "--no-warn")
                           \/ \A s \in sent : NeverAsked(s.request)
    BY DEF ConfirmedFirst
  <2>2. \A s \in sent : Allowed(s.request)
    BY <2>1 DEF IInv, SentAllowed
  <2> QED
    BY <2>1, <2>2 DEF Allowed
<1> QED
  BY <1>1, InitIInv, StepIInv, PTL DEF Spec
=============================================================================
