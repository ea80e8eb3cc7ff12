---------------------------- MODULE ReportProofs ----------------------------
(***************************************************************************)
(* The plans of every other command, for all nodes, lines and answers:     *)
(* show, info, features, summary, asinfo, health and collectinfo only      *)
(* read.  A plan is Quiet when each of its steps says something or asks    *)
(* only what reads; a lemma for each getter and each controller states it. *)
(***************************************************************************)
EXTENDS ManageProofs

-----------------------------------------------------------------------------
(* Plans that only read.                                                   *)

(* A command may only ask what the answers before it came from.            *)
Machines == Node \union {Here}
Fit(c) == GoodContext(c) /\ \A answers \in ToSet(c.seen) : DOMAIN answers \subseteq Machines

(* What only reads: each of its methods does, at the nodes.                *)
Asked(ms) == IsSeq(ms) /\ \A i \in 1 .. Len(ms) : Reading(ms[i])
ReadAsked(asks) ==
  DOMAIN asks \subseteq Machines /\ \A n \in DOMAIN asks \ {Here} : Asked(asks[n])
Quiet(p) ==
  /\ IsPlan(p)
  /\ \A i \in 1 .. Len(p.steps) :
       Silent(p.steps[i]) \/ (p.steps[i].does = "call" /\ ReadAsked(p.steps[i].asks))
  /\ p.reached = <<>> \/ Fit(p.reached[1])

(* A plan that ends in silence only reads.                                 *)
LEMMA EndQuiet ==
  ASSUME NEW c, NEW steps, SilentSteps(steps)
  PROVE  Quiet(End(c, steps))
  BY EndWellFormed DEF Quiet, End, SilentSteps, IsPlan

(* A silent step, or a call that only reads, before a plan that only       *)
(* reads.                                                                  *)
LEMMA FirstQuiet ==
  ASSUME NEW x, NEW p, Quiet(p), Silent(x) \/ (x.does = "call" /\ ReadAsked(x.asks))
  PROVE  Quiet(First(x, p))
<1> DEFINE P == First(x, p)
<1>1. /\ IsPlan(P) /\ Len(p.steps) \in Nat /\ Len(P.steps) = 1 + Len(p.steps) /\ P.steps[1] = x
      /\ \A i \in 1 .. Len(p.steps) : P.steps[i + 1] = p.steps[i]
  BY FirstSteps DEF Quiet
<1>2. P.reached = p.reached
  BY DEF First, Quiet, IsPlan
<1> HIDE DEF P
<1>3. ASSUME NEW i \in 1 .. Len(P.steps)
      PROVE  Silent(P.steps[i]) \/ (P.steps[i].does = "call" /\ ReadAsked(P.steps[i].asks))
  <2>1. CASE i = 1
    BY <1>1, <2>1
  <2>2. CASE i # 1
    <3>1. i - 1 \in 1 .. Len(p.steps) /\ i = (i - 1) + 1
      BY <1>1, <2>2
    <3>2. P.steps[i] = p.steps[i - 1]
      BY <1>1, <3>1
    <3> QED
      BY <3>1, <3>2 DEF Quiet
  <2> QED
    BY <2>1, <2>2
<1>4. P.reached = <<>> \/ Fit(P.reached[1])
  BY <1>2 DEF Quiet
<1>5. Quiet(P)
  BY <1>1, <1>3, <1>4 DEF Quiet
<1> QED
  BY <1>5 DEF P

(* A call that only reads, and then a plan that does.                      *)
LEMMA CallQuiet ==
  ASSUME NEW c, NEW asks, ReadAsked(asks), NEW p, c.seen # <<>> => Quiet(p)
  PROVE  Quiet(CallPlan(c, asks, p))
<1>1. Quiet(End(c, <<>>))
  BY EndQuiet, SilentStep
<1>2. CallStep(asks).does = "call" /\ CallStep(asks).asks = asks
  BY StepKinds
<1> QED
  BY <1>1, <1>2, FirstQuiet DEF CallPlan

(* One method that only reads, or none.                                    *)
LEMMA AskedOne ==
  /\ \A m : Reading(m) => Asked(<<m>>)
  /\ Asked(<<>>)
<1>1. ASSUME NEW m, Reading(m) PROVE Asked(<<m>>)
  BY <1>1, SeqOne DEF Asked
<1>2. IsSeq(<<>>) /\ Len(<<>>) = 0
  BY SeqOne
<1>3. Asked(<<>>)
  BY <1>2 DEF Asked
<1> QED
  BY <1>1, <1>3

(* One method at each node, each of which only reads.                      *)
LEMMA EachReads ==
  ASSUME NEW ms, DOMAIN ms \subseteq Machines, \A n \in DOMAIN ms : Reading(ms[n])
  PROVE  ReadAsked(Each(ms))
<1>1. DOMAIN Each(ms) = DOMAIN ms /\ \A n \in DOMAIN ms : Each(ms)[n] = <<ms[n]>>
  BY DEF Each
<1> QED
  BY <1>1, AskedOne DEF ReadAsked

(* A read at some nodes, and then a plan that only reads.                  *)
LEMMA ReadQuiet ==
  ASSUME NEW c, NEW nodes, nodes \subseteq Machines, NEW ms, DOMAIN ms = nodes,
         \A n \in nodes : Reading(ms[n]), NEW p, c.seen # <<>> => Quiet(p)
  PROVE  Quiet(ReadPlan(c, nodes, ms, p))
<1>1. Quiet(End(c, <<Raise>>))
  BY EndQuiet, Helps
<1>2. Quiet(CallPlan(c, Each(ms), p))
  BY EachReads, CallQuiet
<1> QED
  BY <1>1, <1>2 DEF ReadPlan

-----------------------------------------------------------------------------
(* Reports.                                                                *)
IsSection(s) == DOMAIN s.asks \subseteq Machines /\ \A n \in DOMAIN s.asks : Asked(s.asks[n])
IsReport(sections) == IsSeq(sections) /\ \A x \in ToSet(sections) : IsSection(x)

(* A section is a report, and so is nothing.                               *)
LEMMA ReportOne ==
  /\ IsReport(<<>>)
  /\ \A x : IsSection(x) => IsReport(<<x>>)
  BY SeqOneElems DEF IsReport

(* A report after a report is one.                                         *)
LEMMA ReportJoined ==
  \A s, t : IsReport(s) /\ IsReport(t) => IsReport(s \o t)
  BY SeqJoinedElems DEF IsReport

(* Two sections are a report, and so are three.                            *)
LEMMA ReportPair ==
  /\ \A x, y : IsSection(x) /\ IsSection(y) => IsReport(<<x, y>>)
  /\ \A x, y, z : IsSection(x) /\ IsSection(y) /\ IsSection(z) => IsReport(<<x, y, z>>)
<1>1. \A x, y : <<x, y>> \in Seq({x, y}) /\ ToSet(<<x, y>>) = {x, y}
  BY DEF ToSet
<1>2. \A x, y, z : <<x, y, z>> \in Seq({x, y, z}) /\ ToSet(<<x, y, z>>) = {x, y, z}
  BY DEF ToSet
<1>3. \A x, y : IsSeq(<<x, y>>)
  BY <1>1 DEF IsSeq
<1>4. \A x, y, z : IsSeq(<<x, y, z>>)
  BY <1>2 DEF IsSeq
<1> QED
  BY <1>1, <1>2, <1>3, <1>4 DEF IsReport

(* Lists of methods that only read, joined, only read.                     *)
LEMMA AskedJoined ==
  ASSUME NEW s, IsSeq(s), \A i \in 1 .. Len(s) : Asked(s[i])
  PROVE  Asked(FlattenSeq(s))
<1>1. \A i \in 1 .. Len(s) : IsSeq(s[i])
  BY DEF Asked
<1>2. /\ IsSeq(FlattenSeq(s))
      /\ \A x \in ToSet(FlattenSeq(s)) : \E i \in 1 .. Len(s) : x \in ToSet(s[i])
  BY <1>1, Flattened
<1>3. ASSUME NEW i \in 1 .. Len(s) PROVE \A x \in ToSet(s[i]) : Reading(x)
  BY SeqElems DEF Asked
<1>4. \A x \in ToSet(FlattenSeq(s)) : Reading(x)
  BY <1>2, <1>3
<1> QED
  BY <1>2, <1>4, SeqElems DEF Asked

(* What the sections of a report ask of a node only reads.                 *)
LEMMA GatheredReads ==
  ASSUME NEW sections, IsReport(sections), NEW n
  PROVE  Asked(Gathered(sections, n))
<1> DEFINE s == [i \in DOMAIN sections |->
                 IF n \in DOMAIN sections[i].asks THEN sections[i].asks[n] ELSE <<>>]
<1>1. IsSeq(s) /\ Len(s) = Len(sections) /\ DOMAIN s = DOMAIN sections
  BY SeqMapped DEF IsReport
<1>2. ASSUME NEW i \in 1 .. Len(s) PROVE Asked(s[i])
  <2>1. i \in DOMAIN sections /\ IsSection(sections[i])
    BY <1>1, SeqLen, SeqElems DEF IsReport
  <2>2. s[i] = IF n \in DOMAIN sections[i].asks THEN sections[i].asks[n] ELSE <<>>
    BY <2>1
  <2> HIDE DEF s
  <2> QED
    BY <2>1, <2>2, AskedOne DEF IsSection
<1>3. Gathered(sections, n) = FlattenSeq(s)
  BY DEF Gathered
<1> HIDE DEF s
<1> QED
  BY <1>1, <1>2, <1>3, AskedJoined

(* A report only reads, whatever it warns of before.                       *)
LEMMA ReportAfterQuiet ==
  ASSUME NEW c, NEW sections, IsReport(sections), NEW more, SilentSteps(more)
  PROVE  Quiet(ReportAfter(more, c, sections))
<1> DEFINE nodes == UNION {DOMAIN sections[i].asks : i \in DOMAIN sections}
           report(d, answers) ==
             IF \E i \in DOMAIN sections : \E n \in DOMAIN sections[i].asks :
                   Fails(sections[i], n, PartOf(sections, answers, i, n))
             THEN End(d, <<Raise>>)
             ELSE End(d, more \o [i \in DOMAIN sections |->
                     [Shows("report", {n \in DOMAIN sections[i].asks :
                                         Shown(sections[i], n, PartOf(sections, answers, i, n))})
                      EXCEPT !.about = Mod(d, "like")]])
           G(n) == Gathered(sections, n)
           l == [n \in nodes |-> G(n)]
           S == [c EXCEPT !.seen = Tail(@)]
<1>1. ReportAfter(more, c, sections) =
        IF nodes = {} /\ c.nodes # {} THEN report(c, Nobody) ELSE CallAll(c, nodes, G, report)
  <2> DEFINE R(x) ==
        LET nodes_ == UNION {DOMAIN x[i].asks : i \in DOMAIN x}
            report_(d, answers) ==
              IF \E i \in DOMAIN x : \E n \in DOMAIN x[i].asks :
                    Fails(x[i], n, PartOf(x, answers, i, n))
              THEN End(d, <<Raise>>)
              ELSE End(d, more \o [i \in DOMAIN x |->
                     [Shows("report", {n \in DOMAIN x[i].asks :
                                         Shown(x[i], n, PartOf(x, answers, i, n))})
                      EXCEPT !.about = Mod(d, "like")]])
        IN IF nodes_ = {} /\ c.nodes # {} THEN report_(c, Nobody)
           ELSE CallAll(c, nodes_, LAMBDA n : Gathered(x, n), report_)
  <2>1. ReportAfter(more, c, sections) = Given(sections, R)
    BY DEF ReportAfter
  <2>2. Given(sections, R) = R(sections)
    <3> HIDE DEF R
    <3> QED
      BY DEF Given
  <2>3. R(sections) = IF nodes = {} /\ c.nodes # {} THEN report(c, Nobody) ELSE CallAll(c, nodes, G, report)
    OBVIOUS
  <2> HIDE DEF R, nodes, report, G
  <2> QED
    BY <2>1, <2>2, <2>3
<1>2. ASSUME NEW d, NEW answers PROVE Quiet(report(d, answers))
  <2> DEFINE s == [i \in DOMAIN sections |->
                     [Shows("report", {n \in DOMAIN sections[i].asks :
                                         Shown(sections[i], n, PartOf(sections, answers, i, n))})
                      EXCEPT !.about = Mod(d, "like")]]
  <2>1. IsSeq(s) /\ Len(s) = Len(sections) /\ DOMAIN s = DOMAIN sections
    BY SeqMapped DEF IsReport
  <2>2. \A i \in DOMAIN sections : Silent(s[i])
    BY StepKinds
  <2>3. report(d, answers) = End(d, <<Raise>>) \/ report(d, answers) = End(d, more \o s)
    OBVIOUS
  <2> HIDE DEF s, report
  <2>4. SilentSteps(s)
    BY <2>1, <2>2, SeqLen DEF SilentSteps
  <2>5. SilentSteps(more \o s)
    BY <2>4, SilentJoined
  <2>6. Quiet(End(d, <<Raise>>)) /\ Quiet(End(d, more \o s))
    BY <2>5, EndQuiet, Helps
  <2> QED
    BY <2>3, <2>6
<1>3. nodes \subseteq Machines
  <2>1. \A i \in DOMAIN sections : IsSection(sections[i])
    BY SeqLen, SeqElems DEF IsReport
  <2> QED
    BY <2>1 DEF IsSection
<1>4. ReadAsked(l)
  <2>1. DOMAIN l = nodes /\ \A n \in nodes : l[n] = Gathered(sections, n)
    OBVIOUS
  <2> HIDE DEF l, nodes
  <2> QED
    BY <2>1, <1>3, GatheredReads DEF ReadAsked
<1>5. CallAll(c, nodes, G, report) =
        IF nodes = {} THEN End(c, <<Raise>>)
        ELSE First(CallStep(l), IF c.seen = <<>> THEN End(c, <<>>) ELSE report(S, Head(c.seen)))
  <2> HIDE DEF report, nodes, G
  <2> QED
    BY DEF CallAll, Given
<1> DEFINE p == report(S, Head(c.seen))
<1>6. Quiet(p)
  <2> HIDE DEF report
  <2> QED
    BY <1>2
<1>7. CallAll(c, nodes, G, report) = IF nodes = {} THEN End(c, <<Raise>>) ELSE CallPlan(c, l, p)
  <2> HIDE DEF report, l, nodes, G, S
  <2> QED
    BY <1>5 DEF CallPlan
<1> HIDE DEF p, l
<1>8. Quiet(CallPlan(c, l, p)) /\ Quiet(End(c, <<Raise>>))
  BY <1>4, <1>6, CallQuiet, EndQuiet, Helps
<1>9. Quiet(CallAll(c, nodes, G, report))
  BY <1>7, <1>8
<1> HIDE DEF report, nodes, G
<1> QED
  BY <1>1, <1>2, <1>9

(* A report only reads.                                                    *)
LEMMA ReportQuiet ==
  ASSUME NEW c, NEW sections, IsReport(sections)
  PROVE  Quiet(Report(c, sections))
  BY ReportAfterQuiet, Helps DEF Report

-----------------------------------------------------------------------------

(* After its first answers are taken a context is fit still, and they came *)
(* from nodes or from here.                                                *)
LEMMA FitRest ==
  ASSUME NEW c, Fit(c), c.seen # <<>>
  PROVE  Fit(Rest(c)) /\ DOMAIN Head(c.seen) \subseteq Machines
<1>1. GoodContext(Rest(c))
  BY GoodRest DEF Fit
<1>2. Rest(c).seen = Tail(c.seen)
  BY DEF Rest, Fit, GoodContext, IsContext
<1>3. c.seen \in Seq(ToSet(c.seen))
  BY DEF Fit, GoodContext, IsSeq
<1>4. ToSet(Tail(c.seen)) \subseteq ToSet(c.seen) /\ Head(c.seen) \in ToSet(c.seen)
  <2> DEFINE s == c.seen
  <2>1. s \in Seq(ToSet(s)) /\ s # <<>>
    BY <1>3
  <2> HIDE DEF s
  <2>2. Tail(s) \in Seq(ToSet(s)) /\ Head(s) \in ToSet(s)
    BY <2>1
  <2>3. ToSet(Tail(s)) \subseteq ToSet(s)
    <3> DEFINE t == Tail(s)  S == ToSet(s)
    <3>1. t \in Seq(S)
      BY <2>2
    <3> HIDE DEF t, S
    <3>2. ToSet(t) \subseteq S
      BY <3>1 DEF ToSet
    <3> QED
      BY <3>2 DEF t, S
  <2> QED
    BY <2>2, <2>3 DEF s
<1> QED
  BY <1>1, <1>2, <1>4 DEF Fit

(* A context with the same answers is as fit.                              *)
LEMMA FitLike ==
  ASSUME NEW c, NEW d, Fit(c), GoodContext(d), d.seen = c.seen
  PROVE  Fit(d)
  BY DEF Fit

(* The nodes of a context can be asked.                                    *)
LEMMA FitNodes ==
  ASSUME NEW c, Fit(c)
  PROVE  c.nodes \in SUBSET Machines
  BY DEF Fit, GoodContext, Machines

(* To take words, modifiers and arguments keeps a context fit.             *)
LEMMA TakenGood ==
  ASSUME NEW c, Fit(c), NEW l, NEW m, NEW a
  PROVE  Fit(Taken(c, l, m, a))
<1>1. GoodContext(Taken(c, l, m, a))
  BY FurtherRefl, TakenFurther, GoodContexts DEF Fit
<1>2. Taken(c, l, m, a).seen = c.seen
  BY DEF Fit, GoodContext, IsContext, Taken
<1> QED
  BY <1>1, <1>2, FitLike

(* To pop a word keeps a context fit.                                      *)
LEMMA PoppedGood ==
  ASSUME NEW c, Fit(c)
  PROVE  Fit(Popped(c))
<1>1. GoodContext(Popped(c))
  BY FurtherRefl, PoppedFurther, GoodContexts DEF Fit
<1>2. Popped(c).seen = c.seen
  BY DEF Fit, GoodContext, IsContext, Popped
<1> QED
  BY <1>1, <1>2, FitLike

(* To take the modifiers keeps a context fit.                              *)
LEMMA GroupedGood ==
  ASSUME NEW c, Fit(c), NEW required, NEW modifiers, NEW groups
  PROVE  Fit(Grouped(c, required, modifiers, groups))
<1>1. GoodContext(Grouped(c, required, modifiers, groups))
  BY FurtherRefl, GroupedFurther, GoodContexts DEF Fit
<1>2. Grouped(c, required, modifiers, groups).seen = c.seen
  BY DEF Fit, GoodContext, IsContext, Grouped
<1> QED
  BY <1>1, <1>2, FitLike

(* Help only says something.                                               *)
LEMMA HelpQuiet ==
  ASSUME NEW c
  PROVE  Quiet(execute_help(c))
  BY EndQuiet, Helps DEF execute_help

-----------------------------------------------------------------------------
(* What the getters ask.                                                   *)

(* A list of methods that only read only reads.                            *)
LEMMA AskedOf ==
  ASSUME NEW S, NEW s \in Seq(S), \A m \in S : Reading(m)
  PROVE  Asked(s)
  BY SeqIs DEF Asked

(* Up to six methods that only read only read.                             *)
LEMMA AskedMany ==
  /\ \A a, b : Reading(a) /\ Reading(b) => Asked(<<a, b>>)
  /\ \A a, b, c : Reading(a) /\ Reading(b) /\ Reading(c) => Asked(<<a, b, c>>)
  /\ \A a, b, c, d : Reading(a) /\ Reading(b) /\ Reading(c) /\ Reading(d) => Asked(<<a, b, c, d>>)
<1>1. ASSUME NEW a, NEW b, Reading(a), Reading(b) PROVE Asked(<<a, b>>)
  <2> DEFINE s == <<a, b>>  S == {a, b}
  <2>1. s \in Seq(S) /\ \A m \in S : Reading(m)
    BY <1>1
  <2> HIDE DEF s, S
  <2>2. Asked(s)
    BY <2>1, AskedOf
  <2> QED
    BY <2>2 DEF s
<1>2. ASSUME NEW a, NEW b, NEW c, Reading(a), Reading(b), Reading(c) PROVE Asked(<<a, b, c>>)
  <2> DEFINE s == <<a, b, c>>  S == {a, b, c}
  <2>1. s \in Seq(S) /\ \A m \in S : Reading(m)
    BY <1>2
  <2> HIDE DEF s, S
  <2>2. Asked(s)
    BY <2>1, AskedOf
  <2> QED
    BY <2>2 DEF s
<1>3. ASSUME NEW a, NEW b, NEW c, NEW d, Reading(a), Reading(b), Reading(c), Reading(d)
      PROVE  Asked(<<a, b, c, d>>)
  <2> DEFINE s == <<a, b, c, d>>  S == {a, b, c, d}
  <2>1. s \in Seq(S) /\ \A m \in S : Reading(m)
    BY <1>3
  <2> HIDE DEF s, S
  <2>2. Asked(s)
    BY <2>1, AskedOf
  <2> QED
    BY <2>2 DEF s
<1> QED
  BY <1>1, <1>2, <1>3

(* Two lists of methods that only read, joined, only read.                 *)
LEMMA AskedBoth ==
  \A s, t : Asked(s) /\ Asked(t) => Asked(s \o t)
<1>1. \A s : Asked(s) <=> IsSeq(s) /\ \A m \in ToSet(s) : Reading(m)
  <2>1. ASSUME NEW s PROVE Asked(s) <=> (IsSeq(s) /\ \A m \in ToSet(s) : Reading(m))
    <3>1. Asked(s) => IsSeq(s) /\ \A m \in ToSet(s) : Reading(m)
      BY SeqElems DEF Asked
    <3>2. IsSeq(s) /\ (\A m \in ToSet(s) : Reading(m)) => Asked(s)
      BY SeqElems DEF Asked
    <3> QED
      BY <3>1, <3>2
  <2> QED
    BY <2>1
<1> QED
  BY <1>1, SeqJoinedElems

(* Methods that only read, at each node, are a section.                    *)
LEMMA SectionIs ==
  ASSUME NEW nodes \in SUBSET Machines, NEW k, DOMAIN k = nodes, \A n \in nodes : Asked(k[n]), NEW rule
  PROVE  IsSection([rule |-> rule, asks |-> k])
  BY DEF IsSection

(* A section for each name is a report.                                    *)
LEMMA ReportEach ==
  ASSUME NEW names, IsSeq(names), NEW s, s = [i \in DOMAIN names |-> s[i]],
         \A i \in DOMAIN names : IsSection(s[i])
  PROVE  IsReport(s)
<1>1. IsSeq(s) /\ DOMAIN s = DOMAIN names
  BY SeqMapped
<1> QED
  BY <1>1 DEF IsReport, ToSet

(* What the health checker asks of a node only reads.                      *)
LEMMA HealthReads ==
  ASSUME NEW n
  PROVE  Asked(HealthData(n))
<1> USE ReadsSimple, ReadsListed, ReadsPeers, ReadsOf, ReadsAll, ReadsXdr, AsksReads
<1> DEFINE st(x) == _get_asstat_data(n, x)  cf(x) == _get_asconfig_data(n, x)
           a == [i \in DOMAIN statistics_stanzas |-> st(statistics_stanzas[i])]
           b == [i \in DOMAIN config_stanzas |-> cf(config_stanzas[i])]
           m == [i \in DOMAIN cluster_stanzas |-> _get_as_meta_data(cluster_stanzas[i])]
           o == [i \in DOMAIN other_stanzas |-> st(other_stanzas[i])]
           z == <<_get_as_meta_data("health")>>
<1>1. \A x \in {"service", "namespace", "sets", "bins", "xdr", "dc", "sindex", "udf", "endpoints", "services"} :
        Reading(st(x))
  <2>1. /\ st("service") = info_statistics /\ st("namespace") = info_all_namespace_statistics
        /\ st("sets") = info_all_set_statistics /\ st("bins") = info_bin_statistics
        /\ st("xdr") = info_XDR_statistics(n) /\ st("dc") = info_all_dc_statistics(n)
        /\ st("sindex") = info_sindex /\ st("udf") = info_udf_list
        /\ st("endpoints") = info_service_list /\ st("services") = info_peers_flat_list
    BY DEF _get_asstat_data
  <2> HIDE DEF st
  <2> QED
    BY <2>1
<1>2. \A x : Reading(cf(x))
  <2>1. ASSUME NEW x PROVE Reading(cf(x))
    <3>1. cf(x) \in {info_XDR_get_config(n), info_dc_get_config, info_roster, info_racks, info_get_config(n, x)}
      BY DEF _get_asconfig_data
    <3> HIDE DEF cf
    <3> QED
      BY <3>1
  <2> QED
    BY <2>1
<1>3. \A x \in {"build", "node_id", "edition", "health"} : Reading(_get_as_meta_data(x))
  <2>1. /\ _get_as_meta_data("build") = info_build /\ _get_as_meta_data("node_id") = info_node
        /\ _get_as_meta_data("edition") = Asks("edition") /\ _get_as_meta_data("health") = info_health_outliers
    BY DEF _get_as_meta_data
  <2> QED
    BY <2>1
<1> HIDE DEF st, cf
<1>4. /\ IsSeq(statistics_stanzas) /\ IsSeq(config_stanzas) /\ IsSeq(cluster_stanzas) /\ IsSeq(other_stanzas)
      /\ \A i \in DOMAIN statistics_stanzas : statistics_stanzas[i] \in {"service", "namespace", "sets",
        "bins", "xdr", "dc", "sindex"}
      /\ \A i \in DOMAIN cluster_stanzas : cluster_stanzas[i] \in {"build", "node_id", "edition"}
      /\ \A i \in DOMAIN other_stanzas : other_stanzas[i] \in {"endpoints", "services", "udf"}
  <2>1. /\ IsSeq(statistics_stanzas) /\ IsSeq(config_stanzas)
        /\ IsSeq(cluster_stanzas) /\ IsSeq(other_stanzas)
    <3>1. statistics_stanzas \in Seq({"service", "namespace", "sets", "bins", "xdr", "dc", "sindex"})
      BY DEF statistics_stanzas
    <3>2. config_stanzas \in Seq({"service", "security", "xdr", "network", "dc", "namespace", "roster", "racks"})
      BY DEF config_stanzas
    <3>3. cluster_stanzas \in Seq({"build", "edition", "node_id"})
      BY DEF cluster_stanzas
    <3>4. other_stanzas \in Seq({"endpoints", "services", "udf"})
      BY DEF other_stanzas
    <3> QED
      BY <3>1, <3>2, <3>3, <3>4, SeqIs
  <2>2. \A i \in DOMAIN statistics_stanzas : statistics_stanzas[i] \in {"service", "namespace", "sets", "bins",
          "xdr", "dc", "sindex"}
    BY DEF statistics_stanzas
  <2>3. \A i \in DOMAIN cluster_stanzas : cluster_stanzas[i] \in {"build", "node_id", "edition"}
    BY DEF cluster_stanzas
  <2>4. \A i \in DOMAIN other_stanzas : other_stanzas[i] \in {"endpoints", "services", "udf"}
    BY DEF other_stanzas
  <2> QED
    BY <2>1, <2>2, <2>3, <2>4
<1>5. ASSUME NEW names, IsSeq(names), NEW s, s = [i \in DOMAIN names |-> s[i]],
             \A i \in DOMAIN names : Reading(s[i])
      PROVE  Asked(s)
  <2>1. IsSeq(s) /\ DOMAIN s = DOMAIN names
    BY <1>5, SeqMapped
  <2> QED
    BY <1>5, <2>1, SeqLen DEF Asked
<1>6. Asked(a)
  <2>1. a = [i \in DOMAIN statistics_stanzas |-> a[i]] /\ \A i \in DOMAIN statistics_stanzas : Reading(a[i])
    BY <1>1, <1>4
  <2> HIDE DEF a
  <2> QED
    BY <2>1, <1>4, <1>5
<1>7. Asked(b)
  <2>1. b = [i \in DOMAIN config_stanzas |-> b[i]] /\ \A i \in DOMAIN config_stanzas : Reading(b[i])
    BY <1>2, <1>4
  <2> HIDE DEF b
  <2> QED
    BY <2>1, <1>4, <1>5
<1>8. Asked(m)
  <2>1. m = [i \in DOMAIN cluster_stanzas |-> m[i]] /\ \A i \in DOMAIN cluster_stanzas : Reading(m[i])
    BY <1>3, <1>4
  <2> HIDE DEF m
  <2> QED
    BY <2>1, <1>4, <1>5
<1>9. Asked(o)
  <2>1. o = [i \in DOMAIN other_stanzas |-> o[i]] /\ \A i \in DOMAIN other_stanzas : Reading(o[i])
    BY <1>1, <1>4
  <2> HIDE DEF o
  <2> QED
    BY <2>1, <1>4, <1>5
<1>10. Asked(z)
  BY <1>3, AskedOne
<1>11. HealthData(n) = a \o b \o m \o o \o z
  BY DEF HealthData, st, cf
<1> HIDE DEF a, b, m, o, z
<1> QED
  BY <1>6, <1>7, <1>8, <1>9, <1>10, <1>11, AskedBoth

(* What the summary asks of a node only reads.                             *)
LEMMA SummaryReads ==
  ASSUME NEW n
  PROVE  Asked(SummaryData(n))
<1> USE ReadsSimple, ReadsListed, ReadsPeers, ReadsOf, ReadsAll, ReadsXdr, AsksReads
<1> DEFINE S == {info_build, info_version, Asks("cluster-name"), info_statistics,
                 info_all_namespace_statistics, info_all_dc_statistics(n),
                 info_get_config(n, "service"), info_get_config(n, "namespace")}
<1>1. SummaryData(n) \in Seq(S)
  BY DEF SummaryData
<1>2. \A m \in S : Reading(m)
  OBVIOUS
<1> HIDE DEF S
<1> QED
  BY <1>1, <1>2, AskedOf

(* What the features are found from only reads.                            *)
LEMMA FeatureReads ==
  ASSUME NEW n
  PROVE  Asked(<<info_statistics, info_all_namespace_statistics, info_all_dc_statistics(n),
                 info_get_config(n, "service"), info_get_config(n, "namespace"),
                 info_get_config(n, "security")>>)
<1> USE ReadsSimple, ReadsListed, ReadsPeers, ReadsOf, ReadsAll, ReadsXdr, AsksReads
<1> DEFINE S == {info_statistics, info_all_namespace_statistics, info_all_dc_statistics(n),
                 info_get_config(n, "service"), info_get_config(n, "namespace"),
                 info_get_config(n, "security")}
           s == <<info_statistics, info_all_namespace_statistics, info_all_dc_statistics(n),
                 info_get_config(n, "service"), info_get_config(n, "namespace"),
                 info_get_config(n, "security")>>
<1>1. s \in Seq(S)
  OBVIOUS
<1>2. \A m \in S : Reading(m)
  OBVIOUS
<1> HIDE DEF S, s
<1>3. Asked(s)
  BY <1>1, <1>2, AskedOf
<1> QED
  BY <1>3 DEF s

Histograms_(nodes) == Reads(nodes, "kept", info_histogram)
Builds_(nodes) == Reads(nodes, "needs", LAMBDA n : info_build)
Practices_(nodes) == Reads(nodes, "kept", LAMBDA n : info_best_practices)
NodeIds_(nodes) == Reads(nodes, "kept", LAMBDA n : info_node)
SetsKept_(nodes) == Reads(nodes, "kept", LAMBDA n : info_all_set_statistics)
XdrDated_(nodes) == Section(nodes, "dated", LAMBDA n : <<info_build, info_XDR_statistics(n)>>)
Summaries_(nodes) == Section(nodes, "kept", SummaryData)
Healths_(nodes) == Section(nodes, "kept", HealthData)
Latency_(nodes) == Reads(nodes, "omits", LAMBDA n : info_latency)

(* The getters, and the sections made of methods, only read.               *)
LEMMA SectionsRead ==
  \A nodes \in SUBSET Machines :
    /\ IsSection(get_security(nodes))
    /\ IsSection(get_service(nodes))
    /\ IsSection(get_network(nodes))
    /\ IsSection(get_xdr(nodes))
    /\ IsSection(get_roster(nodes))
    /\ IsSection(get_rack_ids(nodes))
    /\ IsSection(get_service_statistics(nodes))
    /\ IsSection(get_sets(nodes))
    /\ IsSection(get_bins(nodes))
    /\ IsSection(get_features(nodes))
    /\ IsSection(get_pmap(nodes))
    /\ IsSection(get_scans(nodes))
    /\ IsSection(get_query(nodes))
    /\ IsSection(get_sindex_builder(nodes))
    /\ IsSection(InfoNetwork(nodes))
    /\ IsSection(InfoUsage(nodes))
    /\ IsSection(InfoXdr(nodes))
    /\ IsSection(Histograms_(nodes))
    /\ IsSection(Builds_(nodes))
    /\ IsSection(Practices_(nodes))
    /\ IsSection(NodeIds_(nodes))
    /\ IsSection(SetsKept_(nodes))
    /\ IsSection(XdrDated_(nodes))
    /\ IsSection(Summaries_(nodes))
    /\ IsSection(Healths_(nodes))
    /\ IsSection(Latency_(nodes))
<1> SUFFICES ASSUME NEW nodes \in SUBSET Machines
             PROVE /\ IsSection(get_security(nodes))
                   /\ IsSection(get_service(nodes))
                   /\ IsSection(get_network(nodes))
                   /\ IsSection(get_xdr(nodes))
                   /\ IsSection(get_roster(nodes))
                   /\ IsSection(get_rack_ids(nodes))
                   /\ IsSection(get_service_statistics(nodes))
                   /\ IsSection(get_sets(nodes))
                   /\ IsSection(get_bins(nodes))
                   /\ IsSection(get_features(nodes))
                   /\ IsSection(get_pmap(nodes))
                   /\ IsSection(get_scans(nodes))
                   /\ IsSection(get_query(nodes))
                   /\ IsSection(get_sindex_builder(nodes))
                   /\ IsSection(InfoNetwork(nodes))
                   /\ IsSection(InfoUsage(nodes))
                   /\ IsSection(InfoXdr(nodes))
                   /\ IsSection(Histograms_(nodes))
                   /\ IsSection(Builds_(nodes))
                   /\ IsSection(Practices_(nodes))
                   /\ IsSection(NodeIds_(nodes))
                   /\ IsSection(SetsKept_(nodes))
                   /\ IsSection(XdrDated_(nodes))
                   /\ IsSection(Summaries_(nodes))
                   /\ IsSection(Healths_(nodes))
                   /\ IsSection(Latency_(nodes))
  OBVIOUS
<1> USE ReadsSimple, ReadsListed, ReadsPeers, ReadsOf, ReadsAll, ReadsXdr, AsksReads, AskedOne, AskedMany
<1>1. IsSection(get_security(nodes))
  <2> DEFINE k == [n \in nodes |-> <<info_get_config(n, "security")>>]
  <2>1. get_security(nodes) = [rule |-> "kept", asks |-> k]
    BY DEF get_security, Reads, Section
  <2>2. DOMAIN k = nodes
    OBVIOUS
  <2>3. ASSUME NEW n \in nodes PROVE Asked(k[n])
    <3>1. k[n] = <<info_get_config(n, "security")>>
      OBVIOUS
    <3> HIDE DEF k
    <3> QED
      BY <3>1
  <2> HIDE DEF k
  <2> QED
    BY <2>1, <2>2, <2>3, SectionIs
<1>2. IsSection(get_service(nodes))
  <2> DEFINE k == [n \in nodes |-> <<info_get_config(n, "service")>>]
  <2>1. get_service(nodes) = [rule |-> "kept", asks |-> k]
    BY DEF get_service, Reads, Section
  <2>2. DOMAIN k = nodes
    OBVIOUS
  <2>3. ASSUME NEW n \in nodes PROVE Asked(k[n])
    <3>1. k[n] = <<info_get_config(n, "service")>>
      OBVIOUS
    <3> HIDE DEF k
    <3> QED
      BY <3>1
  <2> HIDE DEF k
  <2> QED
    BY <2>1, <2>2, <2>3, SectionIs
<1>3. IsSection(get_network(nodes))
  <2> DEFINE k == [n \in nodes |-> <<info_get_config(n, "network")>>]
  <2>1. get_network(nodes) = [rule |-> "omits", asks |-> k]
    BY DEF get_network, Reads, Section
  <2>2. DOMAIN k = nodes
    OBVIOUS
  <2>3. ASSUME NEW n \in nodes PROVE Asked(k[n])
    <3>1. k[n] = <<info_get_config(n, "network")>>
      OBVIOUS
    <3> HIDE DEF k
    <3> QED
      BY <3>1
  <2> HIDE DEF k
  <2> QED
    BY <2>1, <2>2, <2>3, SectionIs
<1>4. IsSection(get_xdr(nodes))
  <2> DEFINE k == [n \in nodes |-> <<info_XDR_get_config(n)>>]
  <2>1. get_xdr(nodes) = [rule |-> "omits", asks |-> k]
    BY DEF get_xdr, Reads, Section
  <2>2. DOMAIN k = nodes
    OBVIOUS
  <2>3. ASSUME NEW n \in nodes PROVE Asked(k[n])
    <3>1. k[n] = <<info_XDR_get_config(n)>>
      OBVIOUS
    <3> HIDE DEF k
    <3> QED
      BY <3>1
  <2> HIDE DEF k
  <2> QED
    BY <2>1, <2>2, <2>3, SectionIs
<1>5. IsSection(get_roster(nodes))
  <2> DEFINE k == [n \in nodes |-> <<info_roster>>]
  <2>1. get_roster(nodes) = [rule |-> "omits", asks |-> k]
    BY DEF get_roster, Reads, Section
  <2>2. DOMAIN k = nodes
    OBVIOUS
  <2>3. ASSUME NEW n \in nodes PROVE Asked(k[n])
    <3>1. k[n] = <<info_roster>>
      OBVIOUS
    <3> HIDE DEF k
    <3> QED
      BY <3>1
  <2> HIDE DEF k
  <2> QED
    BY <2>1, <2>2, <2>3, SectionIs
<1>6. IsSection(get_rack_ids(nodes))
  <2> DEFINE k == [n \in nodes |-> <<info_rack_ids>>]
  <2>1. get_rack_ids(nodes) = [rule |-> "omits", asks |-> k]
    BY DEF get_rack_ids, Reads, Section
  <2>2. DOMAIN k = nodes
    OBVIOUS
  <2>3. ASSUME NEW n \in nodes PROVE Asked(k[n])
    <3>1. k[n] = <<info_rack_ids>>
      OBVIOUS
    <3> HIDE DEF k
    <3> QED
      BY <3>1
  <2> HIDE DEF k
  <2> QED
    BY <2>1, <2>2, <2>3, SectionIs
<1>7. IsSection(get_service_statistics(nodes))
  <2> DEFINE k == [n \in nodes |-> <<info_statistics>>]
  <2>1. get_service_statistics(nodes) = [rule |-> "kept", asks |-> k]
    BY DEF get_service_statistics, Reads, Section
  <2>2. DOMAIN k = nodes
    OBVIOUS
  <2>3. ASSUME NEW n \in nodes PROVE Asked(k[n])
    <3>1. k[n] = <<info_statistics>>
      OBVIOUS
    <3> HIDE DEF k
    <3> QED
      BY <3>1
  <2> HIDE DEF k
  <2> QED
    BY <2>1, <2>2, <2>3, SectionIs
<1>8. IsSection(get_sets(nodes))
  <2> DEFINE k == [n \in nodes |-> <<info_all_set_statistics>>]
  <2>1. get_sets(nodes) = [rule |-> "omits", asks |-> k]
    BY DEF get_sets, Reads, Section
  <2>2. DOMAIN k = nodes
    OBVIOUS
  <2>3. ASSUME NEW n \in nodes PROVE Asked(k[n])
    <3>1. k[n] = <<info_all_set_statistics>>
      OBVIOUS
    <3> HIDE DEF k
    <3> QED
      BY <3>1
  <2> HIDE DEF k
  <2> QED
    BY <2>1, <2>2, <2>3, SectionIs
<1>9. IsSection(get_bins(nodes))
  <2> DEFINE k == [n \in nodes |-> <<info_bin_statistics>>]
  <2>1. get_bins(nodes) = [rule |-> "omits", asks |-> k]
    BY DEF get_bins, Reads, Section
  <2>2. DOMAIN k = nodes
    OBVIOUS
  <2>3. ASSUME NEW n \in nodes PROVE Asked(k[n])
    <3>1. k[n] = <<info_bin_statistics>>
      OBVIOUS
    <3> HIDE DEF k
    <3> QED
      BY <3>1
  <2> HIDE DEF k
  <2> QED
    BY <2>1, <2>2, <2>3, SectionIs
<1>10. IsSection(get_features(nodes))
  <2> DEFINE k == [n \in nodes |-> <<info_statistics, info_all_namespace_statistics, info_all_dc_statistics(n),
                 info_get_config(n, "service"), info_get_config(n, "namespace"),
                 info_get_config(n, "security")>>]
  <2>1. get_features(nodes) = [rule |-> "kept", asks |-> k]
    BY DEF get_features, Section
  <2>2. DOMAIN k = nodes
    OBVIOUS
  <2>3. ASSUME NEW n \in nodes PROVE Asked(k[n])
    <3>1. k[n] = <<info_statistics, info_all_namespace_statistics, info_all_dc_statistics(n),
                 info_get_config(n, "service"), info_get_config(n, "namespace"),
                 info_get_config(n, "security")>>
      OBVIOUS
    <3> HIDE DEF k
    <3> QED
      BY <3>1, FeatureReads
  <2> HIDE DEF k
  <2> QED
    BY <2>1, <2>2, <2>3, SectionIs
<1>11. IsSection(get_pmap(nodes))
  <2> DEFINE k == [n \in nodes |-> <<info_partition>>]
  <2>1. get_pmap(nodes) = [rule |-> "omits", asks |-> k]
    BY DEF get_pmap, Reads, Section
  <2>2. DOMAIN k = nodes
    OBVIOUS
  <2>3. ASSUME NEW n \in nodes PROVE Asked(k[n])
    <3>1. k[n] = <<info_partition>>
      OBVIOUS
    <3> HIDE DEF k
    <3> QED
      BY <3>1
  <2> HIDE DEF k
  <2> QED
    BY <2>1, <2>2, <2>3, SectionIs
<1>12. IsSection(get_scans(nodes))
  <2> DEFINE k == [n \in nodes |-> <<info_scan_show(n)>>]
  <2>1. get_scans(nodes) = [rule |-> "omits", asks |-> k]
    BY DEF get_scans, Reads, Section
  <2>2. DOMAIN k = nodes
    OBVIOUS
  <2>3. ASSUME NEW n \in nodes PROVE Asked(k[n])
    <3>1. k[n] = <<info_scan_show(n)>>
      OBVIOUS
    <3> HIDE DEF k
    <3> QED
      BY <3>1
  <2> HIDE DEF k
  <2> QED
    BY <2>1, <2>2, <2>3, SectionIs
<1>13. IsSection(get_query(nodes))
  <2> DEFINE k == [n \in nodes |-> <<info_query_show(n)>>]
  <2>1. get_query(nodes) = [rule |-> "omits", asks |-> k]
    BY DEF get_query, Reads, Section
  <2>2. DOMAIN k = nodes
    OBVIOUS
  <2>3. ASSUME NEW n \in nodes PROVE Asked(k[n])
    <3>1. k[n] = <<info_query_show(n)>>
      OBVIOUS
    <3> HIDE DEF k
    <3> QED
      BY <3>1
  <2> HIDE DEF k
  <2> QED
    BY <2>1, <2>2, <2>3, SectionIs
<1>14. IsSection(get_sindex_builder(nodes))
  <2> DEFINE k == [n \in nodes |-> <<info_jobs("sindex-builder")>>]
  <2>1. get_sindex_builder(nodes) = [rule |-> "omits", asks |-> k]
    BY DEF get_sindex_builder, Reads, Section
  <2>2. DOMAIN k = nodes
    OBVIOUS
  <2>3. ASSUME NEW n \in nodes PROVE Asked(k[n])
    <3>1. k[n] = <<info_jobs("sindex-builder")>>
      OBVIOUS
    <3> HIDE DEF k
    <3> QED
      BY <3>1
  <2> HIDE DEF k
  <2> QED
    BY <2>1, <2>2, <2>3, SectionIs
<1>15. IsSection(InfoNetwork(nodes))
  <2> DEFINE k == [n \in nodes |-> <<info_statistics, Asks("cluster-name"), info_build, info_version>>]
  <2>1. InfoNetwork(nodes) = [rule |-> "kept", asks |-> k]
    BY DEF InfoNetwork, Section
  <2>2. DOMAIN k = nodes
    OBVIOUS
  <2>3. ASSUME NEW n \in nodes PROVE Asked(k[n])
    <3>1. k[n] = <<info_statistics, Asks("cluster-name"), info_build, info_version>>
      OBVIOUS
    <3> HIDE DEF k
    <3> QED
      BY <3>1
  <2> HIDE DEF k
  <2> QED
    BY <2>1, <2>2, <2>3, SectionIs
<1>16. IsSection(InfoUsage(nodes))
  <2> DEFINE k == [n \in nodes |-> <<info_all_namespace_statistics>>]
  <2>1. InfoUsage(nodes) = [rule |-> "kept", asks |-> k]
    BY DEF InfoUsage, Reads, Section
  <2>2. DOMAIN k = nodes
    OBVIOUS
  <2>3. ASSUME NEW n \in nodes PROVE Asked(k[n])
    <3>1. k[n] = <<info_all_namespace_statistics>>
      OBVIOUS
    <3> HIDE DEF k
    <3> QED
      BY <3>1
  <2> HIDE DEF k
  <2> QED
    BY <2>1, <2>2, <2>3, SectionIs
<1>17. IsSection(InfoXdr(nodes))
  <2> DEFINE k == [n \in nodes |-> <<info_build, info_XDR_statistics(n),
               WhenLost("ends", info_get_config(n, "xdr"))>>]
  <2>1. InfoXdr(nodes) = [rule |-> "dated", asks |-> k]
    BY DEF InfoXdr, Section
  <2>2. DOMAIN k = nodes
    OBVIOUS
  <2>3. ASSUME NEW n \in nodes PROVE Asked(k[n])
    <3>1. k[n] = <<info_build, info_XDR_statistics(n), WhenLost("ends", info_get_config(n, "xdr"))>>
      OBVIOUS
    <3> HIDE DEF k
    <3> QED
      BY <3>1, WhenLostReads
  <2> HIDE DEF k
  <2> QED
    BY <2>1, <2>2, <2>3, SectionIs
<1>18. IsSection(Histograms_(nodes))
  <2> DEFINE k == [n \in nodes |-> <<info_histogram(n)>>]
  <2>1. Histograms_(nodes) = [rule |-> "kept", asks |-> k]
    BY DEF Histograms_, Reads, Section
  <2>2. DOMAIN k = nodes
    OBVIOUS
  <2>3. ASSUME NEW n \in nodes PROVE Asked(k[n])
    <3>1. k[n] = <<info_histogram(n)>>
      OBVIOUS
    <3> HIDE DEF k
    <3> QED
      BY <3>1
  <2> HIDE DEF k
  <2> QED
    BY <2>1, <2>2, <2>3, SectionIs
<1>19. IsSection(Builds_(nodes))
  <2> DEFINE k == [n \in nodes |-> <<info_build>>]
  <2>1. Builds_(nodes) = [rule |-> "needs", asks |-> k]
    BY DEF Builds_, Reads, Section
  <2>2. DOMAIN k = nodes
    OBVIOUS
  <2>3. ASSUME NEW n \in nodes PROVE Asked(k[n])
    <3>1. k[n] = <<info_build>>
      OBVIOUS
    <3> HIDE DEF k
    <3> QED
      BY <3>1
  <2> HIDE DEF k
  <2> QED
    BY <2>1, <2>2, <2>3, SectionIs
<1>20. IsSection(Practices_(nodes))
  <2> DEFINE k == [n \in nodes |-> <<info_best_practices>>]
  <2>1. Practices_(nodes) = [rule |-> "kept", asks |-> k]
    BY DEF Practices_, Reads, Section
  <2>2. DOMAIN k = nodes
    OBVIOUS
  <2>3. ASSUME NEW n \in nodes PROVE Asked(k[n])
    <3>1. k[n] = <<info_best_practices>>
      OBVIOUS
    <3> HIDE DEF k
    <3> QED
      BY <3>1
  <2> HIDE DEF k
  <2> QED
    BY <2>1, <2>2, <2>3, SectionIs
<1>21. IsSection(NodeIds_(nodes))
  <2> DEFINE k == [n \in nodes |-> <<info_node>>]
  <2>1. NodeIds_(nodes) = [rule |-> "kept", asks |-> k]
    BY DEF NodeIds_, Reads, Section
  <2>2. DOMAIN k = nodes
    OBVIOUS
  <2>3. ASSUME NEW n \in nodes PROVE Asked(k[n])
    <3>1. k[n] = <<info_node>>
      OBVIOUS
    <3> HIDE DEF k
    <3> QED
      BY <3>1
  <2> HIDE DEF k
  <2> QED
    BY <2>1, <2>2, <2>3, SectionIs
<1>22. IsSection(SetsKept_(nodes))
  <2> DEFINE k == [n \in nodes |-> <<info_all_set_statistics>>]
  <2>1. SetsKept_(nodes) = [rule |-> "kept", asks |-> k]
    BY DEF SetsKept_, Reads, Section
  <2>2. DOMAIN k = nodes
    OBVIOUS
  <2>3. ASSUME NEW n \in nodes PROVE Asked(k[n])
    <3>1. k[n] = <<info_all_set_statistics>>
      OBVIOUS
    <3> HIDE DEF k
    <3> QED
      BY <3>1
  <2> HIDE DEF k
  <2> QED
    BY <2>1, <2>2, <2>3, SectionIs
<1>23. IsSection(XdrDated_(nodes))
  <2> DEFINE k == [n \in nodes |-> <<info_build, info_XDR_statistics(n)>>]
  <2>1. XdrDated_(nodes) = [rule |-> "dated", asks |-> k]
    BY DEF XdrDated_, Section
  <2>2. DOMAIN k = nodes
    OBVIOUS
  <2>3. ASSUME NEW n \in nodes PROVE Asked(k[n])
    <3>1. k[n] = <<info_build, info_XDR_statistics(n)>>
      OBVIOUS
    <3> HIDE DEF k
    <3> QED
      BY <3>1
  <2> HIDE DEF k
  <2> QED
    BY <2>1, <2>2, <2>3, SectionIs
<1>24. IsSection(Summaries_(nodes))
  <2> DEFINE k == [n \in nodes |-> SummaryData(n)]
  <2>1. Summaries_(nodes) = [rule |-> "kept", asks |-> k]
    BY DEF Summaries_, Section
  <2>2. DOMAIN k = nodes
    OBVIOUS
  <2>3. ASSUME NEW n \in nodes PROVE Asked(k[n])
    <3>1. k[n] = SummaryData(n)
      OBVIOUS
    <3> HIDE DEF k
    <3> QED
      BY <3>1, SummaryReads
  <2> HIDE DEF k
  <2> QED
    BY <2>1, <2>2, <2>3, SectionIs
<1>25. IsSection(Healths_(nodes))
  <2> DEFINE k == [n \in nodes |-> HealthData(n)]
  <2>1. Healths_(nodes) = [rule |-> "kept", asks |-> k]
    BY DEF Healths_, Section
  <2>2. DOMAIN k = nodes
    OBVIOUS
  <2>3. ASSUME NEW n \in nodes PROVE Asked(k[n])
    <3>1. k[n] = HealthData(n)
      OBVIOUS
    <3> HIDE DEF k
    <3> QED
      BY <3>1, HealthReads
  <2> HIDE DEF k
  <2> QED
    BY <2>1, <2>2, <2>3, SectionIs
<1>26. IsSection(Latency_(nodes))
  <2> DEFINE k == [n \in nodes |-> <<info_latency>>]
  <2>1. Latency_(nodes) = [rule |-> "omits", asks |-> k]
    BY DEF Latency_, Reads, Section
  <2>2. DOMAIN k = nodes
    OBVIOUS
  <2>3. ASSUME NEW n \in nodes PROVE Asked(k[n])
    <3>1. k[n] = <<info_latency>>
      OBVIOUS
    <3> HIDE DEF k
    <3> QED
      BY <3>1
  <2> HIDE DEF k
  <2> QED
    BY <2>1, <2>2, <2>3, SectionIs
<1> QED
  BY <1>1, <1>2, <1>3, <1>4, <1>5, <1>6, <1>7, <1>8, <1>9, <1>10, <1>11, <1>12, <1>13, <1>14, <1>15, <1>16,
    <1>17, <1>18, <1>19, <1>20, <1>21, <1>22, <1>23, <1>24, <1>25, <1>26

(* get_namespace only reads.                                               *)
LEMMA get_namespaceRead ==
  ASSUME NEW nodes \in SUBSET Machines
  PROVE  IsReport(get_namespace(nodes))
<1> DEFINE s == get_namespace(nodes)  x(i) == Reads(nodes, "omits",
             LAMBDA n : info_get_config_namespace(Namespaces[i]))
<1>1. s = [i \in DOMAIN Namespaces |-> x(i)]
  BY DEF get_namespace
<1>2. ASSUME NEW i PROVE IsSection(x(i))
  <2> DEFINE k == [n \in nodes |-> <<info_get_config_namespace(Namespaces[i])>>]
  <2>1. x(i) = [rule |-> "omits", asks |-> k]
    BY DEF Reads, Section
  <2>2. DOMAIN k = nodes /\ \A n \in nodes : Asked(k[n])
    BY ReadsOf, AskedOne
  <2> HIDE DEF k, x
  <2> QED
    BY <2>1, <2>2, SectionIs
<1> HIDE DEF x, s
<1>3. s = [i \in DOMAIN Namespaces |-> s[i]] /\ \A i \in DOMAIN Namespaces : IsSection(s[i])
  BY <1>1, <1>2
<1>4. IsReport(s)
  BY <1>3, NamesAre, ReportEach
<1> QED
  BY <1>4 DEF s

(* get_namespace_statistics only reads.                                    *)
LEMMA get_namespace_statisticsRead ==
  ASSUME NEW nodes \in SUBSET Machines
  PROVE  IsReport(get_namespace_statistics(nodes))
<1> DEFINE s == get_namespace_statistics(nodes)  x(i) == Reads(nodes, "omits",
             LAMBDA n : info_namespace_statistics(Namespaces[i]))
<1>1. s = [i \in DOMAIN Namespaces |-> x(i)]
  BY DEF get_namespace_statistics
<1>2. ASSUME NEW i PROVE IsSection(x(i))
  <2> DEFINE k == [n \in nodes |-> <<info_namespace_statistics(Namespaces[i])>>]
  <2>1. x(i) = [rule |-> "omits", asks |-> k]
    BY DEF Reads, Section
  <2>2. DOMAIN k = nodes /\ \A n \in nodes : Asked(k[n])
    BY ReadsOf, AskedOne
  <2> HIDE DEF k, x
  <2> QED
    BY <2>1, <2>2, SectionIs
<1> HIDE DEF x, s
<1>3. s = [i \in DOMAIN Namespaces |-> s[i]] /\ \A i \in DOMAIN Namespaces : IsSection(s[i])
  BY <1>1, <1>2
<1>4. IsReport(s)
  BY <1>3, NamesAre, ReportEach
<1> QED
  BY <1>4 DEF s

(* get_sindex_stats only reads.                                            *)
LEMMA get_sindex_statsRead ==
  ASSUME NEW nodes \in SUBSET Machines
  PROVE  IsReport(get_sindex_stats(nodes))
<1> DEFINE s == get_sindex_stats(nodes)  x(i) == Reads(nodes, "kept", LAMBDA n : info_sindex_statistics(Sindexes[i]))
<1>1. s = [i \in DOMAIN Sindexes |-> x(i)]
  BY DEF get_sindex_stats
<1>2. ASSUME NEW i PROVE IsSection(x(i))
  <2> DEFINE k == [n \in nodes |-> <<info_sindex_statistics(Sindexes[i])>>]
  <2>1. x(i) = [rule |-> "kept", asks |-> k]
    BY DEF Reads, Section
  <2>2. DOMAIN k = nodes /\ \A n \in nodes : Asked(k[n])
    BY ReadsOf, AskedOne
  <2> HIDE DEF k, x
  <2> QED
    BY <2>1, <2>2, SectionIs
<1> HIDE DEF x, s
<1>3. s = [i \in DOMAIN Sindexes |-> s[i]] /\ \A i \in DOMAIN Sindexes : IsSection(s[i])
  BY <1>1, <1>2
<1>4. IsReport(s)
  BY <1>3, NamesAre, ReportEach
<1> QED
  BY <1>4 DEF s

-----------------------------------------------------------------------------
(* show.                                                                   *)

(* A context with another line or other modifiers is as fit.               *)
LEMMA EditedGood ==
  ASSUME NEW d, Fit(d), NEW x
  PROVE  Fit([d EXCEPT !.line = x]) /\ Fit([d EXCEPT !.mods = x])
<1>1. [d EXCEPT !.line = x] = Taken(d, x, d.mods, d.args)
  BY DEF Fit, GoodContext, IsContext, Taken
<1>2. [d EXCEPT !.mods = x] = Taken(d, d.line, x, d.args)
  BY DEF Fit, GoodContext, IsContext, Taken
<1> QED
  BY <1>1, <1>2, TakenGood

(* The ways in which a report ends are silent.                             *)
LEMMA EndsQuiet ==
  /\ \A c : Quiet(End(c, <<>>)) /\ Quiet(End(c, <<Raise>>)) /\ Quiet(End(c, <<Warn>>))
  /\ \A c : Quiet(End(c, <<Complain>>))
  /\ \A c, w, nodes : Quiet(End(c, <<Shows(w, nodes)>>))
  /\ \A c, w, nodes, x : Quiet(End(c, <<[Shows(w, nodes) EXCEPT !.about = x]>>))
  BY EndQuiet, StepKinds, SilentStep, Helps

(* The configuration of XDR, old or new, is only read, at the nodes whose  *)
(* builds answered.                                                        *)
LEMMA XdrRead ==
  ASSUME NEW a, DOMAIN a \subseteq Machines
  PROVE  IsSection(get_xdr5(a)) /\ IsSection(get_old_xdr(a))
<1>1. /\ {n \in Came(a, "ok") : AtLeast(n, SERVER_NEW_XDR5_VERSION)} \in SUBSET Machines
      /\ {n \in Came(a, "ok") : ~AtLeast(n, SERVER_NEW_XDR5_VERSION)} \in SUBSET Machines
  BY DEF Came
<1> QED
  BY <1>1, SectionsRead DEF get_xdr5, get_old_xdr

Sizes_(nodes, b) == Section(nodes, "kept", LAMBDA n : <<info_histogram(n)>> \o IF b THEN <<info_build>> ELSE <<>>)

(* The object sizes are only read.                                         *)
LEMMA SizesRead ==
  ASSUME NEW nodes \in SUBSET Machines, NEW b
  PROVE  IsSection(Sizes_(nodes, b))
<1> DEFINE k == [n \in nodes |-> <<info_histogram(n)>> \o IF b THEN <<info_build>> ELSE <<>>]
           r == Sizes_(nodes, b)
<1>1. r = [rule |-> "kept", asks |-> k]
  BY DEF Section, Sizes_
<1>2. ASSUME NEW n \in nodes PROVE Asked(k[n])
  <2>1. Asked(<<info_histogram(n)>>) /\ Asked(IF b THEN <<info_build>> ELSE <<>>)
    BY ReadsAll, ReadsSimple, AskedOne
  <2>2. k[n] = <<info_histogram(n)>> \o IF b THEN <<info_build>> ELSE <<>>
    OBVIOUS
  <2> HIDE DEF k
  <2> QED
    BY <2>1, <2>2, AskedBoth
<1>3. DOMAIN k = nodes
  OBVIOUS
<1> HIDE DEF k, r
<1>4. IsSection(r)
  BY <1>1, <1>2, <1>3, SectionIs
<1> QED
  BY <1>4 DEF r
DistributionTime(x) == Leaf(x, {"with", "for"}, LAMBDA d : Report(d, <<Reads(d.nodes, "kept", info_histogram)>>))

(* show distribution time_to_live only reads.                              *)
LEMMA DistributionTimeQuiet ==
  ASSUME NEW c, Fit(c)
  PROVE  Quiet(DistributionTime(c))
<1> DEFINE mod == {"with", "for"}  g == parse_modifiers(c.line, {} \union mod)
           B0(d) == Report(d, <<Histograms_(d.nodes)>>)
<1>1. DistributionTime(c) = pre_command(c, {}, mod, B0)
  BY DEF DistributionTime, Leaf, Histograms_
<1>2. pre_command(c, {}, mod, B0) = B0(Grouped(c, {}, mod, g))
  <2> HIDE DEF B0, mod
  <2> QED
    BY DEF pre_command, WithGroups, Given
<1>3. ASSUME NEW d, Fit(d) PROVE Quiet(B0(d))
  <2>0. d.nodes \in SUBSET Machines
    BY <1>3, FitNodes
  <2> DEFINE s == <<Histograms_(d.nodes)>>
  <2>1. IsReport(s)
    BY <2>0, SectionsRead, ReportOne, ReportPair, ReportJoined, get_namespaceRead,
      get_namespace_statisticsRead, get_sindex_statsRead
  <2> HIDE DEF s
  <2>2. Quiet(Report(d, s))
    BY <2>1, ReportQuiet
  <2> QED
    BY <2>2 DEF s
<1> HIDE DEF B0, mod, g
<1>4. Quiet(B0(Grouped(c, {}, mod, g)))
  BY <1>3, GroupedGood
<1> QED
  BY <1>1, <1>2, <1>4

DistributionSize(x) == Leaf(x, {"with", "for"},
  LAMBDA d : Report(d, <<Section(d.nodes, "kept", LAMBDA n : <<info_histogram(n)>> \o IF check_arg(d, "-b")
  THEN <<info_build>> ELSE <<>>)>>))

(* show distribution object_size only reads.                               *)
LEMMA DistributionSizeQuiet ==
  ASSUME NEW c, Fit(c)
  PROVE  Quiet(DistributionSize(c))
<1> DEFINE mod == {"with", "for"}  g == parse_modifiers(c.line, {} \union mod)
           B0(d) == Report(d, <<Sizes_(d.nodes, check_arg(d, "-b"))>>)
<1>1. DistributionSize(c) = pre_command(c, {}, mod, B0)
  BY DEF DistributionSize, Leaf, Sizes_
<1>2. pre_command(c, {}, mod, B0) = B0(Grouped(c, {}, mod, g))
  <2> HIDE DEF B0, mod
  <2> QED
    BY DEF pre_command, WithGroups, Given
<1>3. ASSUME NEW d, Fit(d) PROVE Quiet(B0(d))
  <2>0. d.nodes \in SUBSET Machines
    BY <1>3, FitNodes
  <2> DEFINE s == <<Sizes_(d.nodes, check_arg(d, "-b"))>>
  <2>1. IsReport(s)
    BY <2>0, SizesRead, SectionsRead, ReportOne, ReportPair, ReportJoined, get_namespaceRead,
      get_namespace_statisticsRead, get_sindex_statsRead
  <2> HIDE DEF s
  <2>2. Quiet(Report(d, s))
    BY <2>1, ReportQuiet
  <2> QED
    BY <2>2 DEF s
<1> HIDE DEF B0, mod, g
<1>4. Quiet(B0(Grouped(c, {}, mod, g)))
  BY <1>3, GroupedGood
<1> QED
  BY <1>1, <1>2, <1>4

DistributionAll(x) == Leaf(x, {"with", "for"},
  LAMBDA d : Report(d, <<Reads(d.nodes, "kept", info_histogram),
  Section(d.nodes, "kept", LAMBDA n : <<info_histogram(n)>> \o IF check_arg(d, "-b") THEN <<info_build>>
  ELSE <<>>)>>))

(* show distribution only reads.                                           *)
LEMMA DistributionAllQuiet ==
  ASSUME NEW c, Fit(c)
  PROVE  Quiet(DistributionAll(c))
<1> DEFINE mod == {"with", "for"}  g == parse_modifiers(c.line, {} \union mod)
           B0(d) == Report(d, <<Histograms_(d.nodes), Sizes_(d.nodes, check_arg(d, "-b"))>>)
<1>1. DistributionAll(c) = pre_command(c, {}, mod, B0)
  BY DEF DistributionAll, Leaf, Sizes_, Histograms_
<1>2. pre_command(c, {}, mod, B0) = B0(Grouped(c, {}, mod, g))
  <2> HIDE DEF B0, mod
  <2> QED
    BY DEF pre_command, WithGroups, Given
<1>3. ASSUME NEW d, Fit(d) PROVE Quiet(B0(d))
  <2>0. d.nodes \in SUBSET Machines
    BY <1>3, FitNodes
  <2> DEFINE s == <<Histograms_(d.nodes), Sizes_(d.nodes, check_arg(d, "-b"))>>
  <2>1. IsReport(s)
    BY <2>0, SizesRead, SectionsRead, ReportOne, ReportPair, ReportJoined, get_namespaceRead,
      get_namespace_statisticsRead, get_sindex_statsRead
  <2> HIDE DEF s
  <2>2. Quiet(Report(d, s))
    BY <2>1, ReportQuiet
  <2> QED
    BY <2>2 DEF s
<1> HIDE DEF B0, mod, g
<1>4. Quiet(B0(Grouped(c, {}, mod, g)))
  BY <1>3, GroupedGood
<1> QED
  BY <1>1, <1>2, <1>4

(* show distribution only reads.                                           *)
LEMMA ShowDistributionControllerQuiet ==
  ASSUME NEW c, Fit(c)
  PROVE  Quiet(ShowDistributionController(c))
<1> DEFINE p1 == DistributionTime(Popped(c))
           p2 == DistributionSize(Popped(c))
           p0 == DistributionAll(c)
<1>1. Quiet(p1) /\ Quiet(p2)
  BY PoppedGood, DistributionTimeQuiet, DistributionSizeQuiet
<1>2. Quiet(p0)
  BY DistributionAllQuiet
<1>3. ShowDistributionController(c) =
    CASE Word(c) = "time_to_live" -> p1
      [] Word(c) = "object_size" -> p2
      [] OTHER -> p0
  BY DEF ShowDistributionController, DistributionTime, DistributionSize, DistributionAll
<1> HIDE DEF p0, p1, p2
<1> QED
  BY <1>1, <1>2, <1>3

(* show config security only reads.                                        *)
LEMMA config_securityQuiet ==
  ASSUME NEW c, Fit(c)
  PROVE  Quiet(config_security(c))
<1> DEFINE mod == {"with", "like", "diff", "for"}  g == parse_modifiers(c.line, {} \union mod)
           B0(d) == Report(d, <<get_security(d.nodes)>>)
<1>1. config_security(c) = pre_command(c, {}, mod, B0)
  BY DEF config_security, Leaf, config_leaf
<1>2. pre_command(c, {}, mod, B0) = B0(Grouped(c, {}, mod, g))
  <2> HIDE DEF B0, mod
  <2> QED
    BY DEF pre_command, WithGroups, Given
<1>3. ASSUME NEW d, Fit(d) PROVE Quiet(B0(d))
  <2>0. d.nodes \in SUBSET Machines
    BY <1>3, FitNodes
  <2> DEFINE s == <<get_security(d.nodes)>>
  <2>1. IsReport(s)
    BY <2>0, SectionsRead, ReportOne, ReportPair, ReportJoined, get_namespaceRead,
      get_namespace_statisticsRead, get_sindex_statsRead
  <2> HIDE DEF s
  <2>2. Quiet(Report(d, s))
    BY <2>1, ReportQuiet
  <2> QED
    BY <2>2 DEF s
<1> HIDE DEF B0, mod, g
<1>4. Quiet(B0(Grouped(c, {}, mod, g)))
  BY <1>3, GroupedGood
<1> QED
  BY <1>1, <1>2, <1>4

(* show config service only reads.                                         *)
LEMMA config_serviceQuiet ==
  ASSUME NEW c, Fit(c)
  PROVE  Quiet(config_service(c))
<1> DEFINE mod == {"with", "like", "diff", "for"}  g == parse_modifiers(c.line, {} \union mod)
           B0(d) == Report(d, <<get_service(d.nodes)>>)
<1>1. config_service(c) = pre_command(c, {}, mod, B0)
  BY DEF config_service, Leaf, config_leaf
<1>2. pre_command(c, {}, mod, B0) = B0(Grouped(c, {}, mod, g))
  <2> HIDE DEF B0, mod
  <2> QED
    BY DEF pre_command, WithGroups, Given
<1>3. ASSUME NEW d, Fit(d) PROVE Quiet(B0(d))
  <2>0. d.nodes \in SUBSET Machines
    BY <1>3, FitNodes
  <2> DEFINE s == <<get_service(d.nodes)>>
  <2>1. IsReport(s)
    BY <2>0, SectionsRead, ReportOne, ReportPair, ReportJoined, get_namespaceRead,
      get_namespace_statisticsRead, get_sindex_statsRead
  <2> HIDE DEF s
  <2>2. Quiet(Report(d, s))
    BY <2>1, ReportQuiet
  <2> QED
    BY <2>2 DEF s
<1> HIDE DEF B0, mod, g
<1>4. Quiet(B0(Grouped(c, {}, mod, g)))
  BY <1>3, GroupedGood
<1> QED
  BY <1>1, <1>2, <1>4

(* show config network only reads.                                         *)
LEMMA config_networkQuiet ==
  ASSUME NEW c, Fit(c)
  PROVE  Quiet(config_network(c))
<1> DEFINE mod == {"with", "like", "diff", "for"}  g == parse_modifiers(c.line, {} \union mod)
           B0(d) == Report(d, <<get_network(d.nodes)>>)
<1>1. config_network(c) = pre_command(c, {}, mod, B0)
  BY DEF config_network, Leaf, config_leaf
<1>2. pre_command(c, {}, mod, B0) = B0(Grouped(c, {}, mod, g))
  <2> HIDE DEF B0, mod
  <2> QED
    BY DEF pre_command, WithGroups, Given
<1>3. ASSUME NEW d, Fit(d) PROVE Quiet(B0(d))
  <2>0. d.nodes \in SUBSET Machines
    BY <1>3, FitNodes
  <2> DEFINE s == <<get_network(d.nodes)>>
  <2>1. IsReport(s)
    BY <2>0, SectionsRead, ReportOne, ReportPair, ReportJoined, get_namespaceRead,
      get_namespace_statisticsRead, get_sindex_statsRead
  <2> HIDE DEF s
  <2>2. Quiet(Report(d, s))
    BY <2>1, ReportQuiet
  <2> QED
    BY <2>2 DEF s
<1> HIDE DEF B0, mod, g
<1>4. Quiet(B0(Grouped(c, {}, mod, g)))
  BY <1>3, GroupedGood
<1> QED
  BY <1>1, <1>2, <1>4

(* show config namespace only reads.                                       *)
LEMMA config_namespaceQuiet ==
  ASSUME NEW c, Fit(c)
  PROVE  Quiet(config_namespace(c))
<1> DEFINE mod == {"with", "like", "diff", "for"}  g == parse_modifiers(c.line, {} \union mod)
           B0(d) == WithNamespaces(d, <<>>, get_namespace)
<1>1. config_namespace(c) = pre_command(c, {}, mod, B0)
  BY DEF config_namespace, Leaf, config_leaf
<1>2. pre_command(c, {}, mod, B0) = B0(Grouped(c, {}, mod, g))
  <2> HIDE DEF B0, mod
  <2> QED
    BY DEF pre_command, WithGroups, Given
<1>3. ASSUME NEW d, Fit(d) PROVE Quiet(B0(d))
  <2>0. d.nodes \in SUBSET Machines
    BY <1>3, FitNodes
  <2>3. IsReport(<<>>)
    BY <2>0, SectionsRead, ReportOne, ReportPair, ReportJoined, get_namespaceRead,
      get_namespace_statisticsRead, get_sindex_statsRead
  <2> QED
    <3> DEFINE T(e, answers) == Report(e, <<>> \o (IF Listed(answers) THEN get_namespace(e.nodes) ELSE <<>>))
    <3>1. ASSUME NEW e, Fit(e), NEW answers, DOMAIN answers \subseteq Machines PROVE Quiet(T(e, answers))
      <4>0. e.nodes \in SUBSET Machines
        BY <3>1, FitNodes
      <4> DEFINE s == <<>> \o (IF Listed(answers) THEN get_namespace(e.nodes) ELSE <<>>)
      <4>1. IsReport(s)
        BY <2>3, <2>0, <4>0, SectionsRead, ReportOne, ReportPair, ReportJoined, get_namespaceRead,
          get_namespace_statisticsRead, get_sindex_statsRead
      <4> HIDE DEF s
      <4>2. Quiet(Report(e, s))
        BY <4>1, ReportQuiet
      <4> QED
        BY <4>2 DEF s
    <3> DEFINE M(n) == info_namespaces
               N == d.nodes
               MM(n) == <<M(n)>>
               T1(x, y) == Given([n \in DOMAIN y |-> y[n][1]], LAMBDA first : T(x, first))
    <3> DEFINE S == [d EXCEPT !.seen = Tail(@)]
               H == Head(d.seen)
               F == [n \in DOMAIN H |-> H[n][1]]
               k == [n \in N |-> MM(n)]
               z == T1(S, H)
    <3>2. B0(d) = Call(d, N, M, T)
      BY DEF After, WithNamespaces
    <3>3. Call(d, N, M, T) = CallAll(d, N, MM, T1)
      BY DEF Call
    <3>4. CallAll(d, N, MM, T1) =
           IF N = {} THEN End(d, <<Raise>>)
           ELSE First(CallStep(k), IF d.seen = <<>> THEN End(d, <<>>) ELSE T1(S, H))
      <4> HIDE DEF T1, MM, N
      <4> QED
        BY DEF CallAll, Given
    <3>5. d.seen # <<>> => Quiet(z)
      <4>1. z = T(S, F)
        <5> HIDE DEF T, S, H
        <5> QED
          BY DEF Given
      <4>2. DOMAIN F = DOMAIN H
        OBVIOUS
      <4>3. d.seen # <<>> => Fit(S) /\ DOMAIN H \subseteq Machines
        BY <1>3, FitRest DEF Rest
      <4> HIDE DEF z, T, S, F, H
      <4> QED
        BY <3>1, <4>1, <4>3, <4>2
    <3>6. ASSUME NEW n \in N PROVE Asked(MM(n))
      BY ReadsSimple, ReadsListed, ReadsOf, ReadsAll, ReadsXdr, AskedOne
    <3>7. N \in SUBSET Machines
      BY <2>0
    <3>8. DOMAIN k = N /\ \A n \in N : k[n] = MM(n)
      OBVIOUS
    <3> HIDE DEF k, z, T1, T, MM, N, S, H, F, M
    <3>9. ReadAsked(k)
      BY <3>6, <3>7, <3>8 DEF ReadAsked
    <3>10. Quiet(CallPlan(d, k, z))
      BY <3>5, <3>9, CallQuiet
    <3>11. CallAll(d, N, MM, T1) = IF N = {} THEN End(d, <<Raise>>) ELSE CallPlan(d, k, z)
      BY <3>4 DEF CallPlan, z
    <3>12. Quiet(B0(d))
      BY <3>2, <3>3, <3>10, <3>11, EndsQuiet
    <3> QED
      BY <3>12
<1> HIDE DEF B0, mod, g
<1>4. Quiet(B0(Grouped(c, {}, mod, g)))
  BY <1>3, GroupedGood
<1> QED
  BY <1>1, <1>2, <1>4

(* show config xdr only reads.                                             *)
LEMMA config_xdrQuiet ==
  ASSUME NEW c, Fit(c)
  PROVE  Quiet(config_xdr(c))
<1> DEFINE mod == {"with", "like", "diff", "for"}  g == parse_modifiers(c.line, {} \union mod)
           B0(d) == After(d, d.nodes, LAMBDA n : info_build,
             LAMBDA e, answers : Report(e, <<get_xdr5(answers), get_old_xdr(answers)>>))
<1>1. config_xdr(c) = pre_command(c, {}, mod, B0)
  BY DEF config_xdr, Leaf, config_leaf
<1>2. pre_command(c, {}, mod, B0) = B0(Grouped(c, {}, mod, g))
  <2> HIDE DEF B0, mod
  <2> QED
    BY DEF pre_command, WithGroups, Given
<1>3. ASSUME NEW d, Fit(d) PROVE Quiet(B0(d))
  <2>0. d.nodes \in SUBSET Machines
    BY <1>3, FitNodes
  <2> QED
    <3> DEFINE T(e, answers) == Report(e, <<get_xdr5(answers), get_old_xdr(answers)>>)
    <3>1. ASSUME NEW e, Fit(e), NEW answers, DOMAIN answers \subseteq Machines PROVE Quiet(T(e, answers))
      <4>0. e.nodes \in SUBSET Machines
        BY <3>1, FitNodes
      <4> DEFINE s == <<get_xdr5(answers), get_old_xdr(answers)>>
      <4>1. IsReport(s)
        BY <3>1, <4>0, XdrRead, SectionsRead, ReportOne, ReportPair, ReportJoined, get_namespaceRead,
          get_namespace_statisticsRead, get_sindex_statsRead
      <4> HIDE DEF s
      <4>2. Quiet(Report(e, s))
        BY <4>1, ReportQuiet
      <4> QED
        BY <4>2 DEF s
    <3> DEFINE M(n) == info_build
               N == d.nodes
               MM(n) == <<M(n)>>
               T1(x, y) == Given([n \in DOMAIN y |-> y[n][1]], LAMBDA first : T(x, first))
    <3> DEFINE S == [d EXCEPT !.seen = Tail(@)]
               H == Head(d.seen)
               F == [n \in DOMAIN H |-> H[n][1]]
               k == [n \in N |-> MM(n)]
               z == T1(S, H)
    <3>2. B0(d) = Call(d, N, M, T)
      BY DEF After
    <3>3. Call(d, N, M, T) = CallAll(d, N, MM, T1)
      BY DEF Call
    <3>4. CallAll(d, N, MM, T1) =
           IF N = {} THEN End(d, <<Raise>>)
           ELSE First(CallStep(k), IF d.seen = <<>> THEN End(d, <<>>) ELSE T1(S, H))
      <4> HIDE DEF T1, MM, N
      <4> QED
        BY DEF CallAll, Given
    <3>5. d.seen # <<>> => Quiet(z)
      <4>1. z = T(S, F)
        <5> HIDE DEF T, S, H
        <5> QED
          BY DEF Given
      <4>2. DOMAIN F = DOMAIN H
        OBVIOUS
      <4>3. d.seen # <<>> => Fit(S) /\ DOMAIN H \subseteq Machines
        BY <1>3, FitRest DEF Rest
      <4> HIDE DEF z, T, S, F, H
      <4> QED
        BY <3>1, <4>1, <4>3, <4>2
    <3>6. ASSUME NEW n \in N PROVE Asked(MM(n))
      BY ReadsSimple, ReadsListed, ReadsOf, ReadsAll, ReadsXdr, AskedOne
    <3>7. N \in SUBSET Machines
      BY <2>0
    <3>8. DOMAIN k = N /\ \A n \in N : k[n] = MM(n)
      OBVIOUS
    <3> HIDE DEF k, z, T1, T, MM, N, S, H, F, M
    <3>9. ReadAsked(k)
      BY <3>6, <3>7, <3>8 DEF ReadAsked
    <3>10. Quiet(CallPlan(d, k, z))
      BY <3>5, <3>9, CallQuiet
    <3>11. CallAll(d, N, MM, T1) = IF N = {} THEN End(d, <<Raise>>) ELSE CallPlan(d, k, z)
      BY <3>4 DEF CallPlan, z
    <3>12. Quiet(B0(d))
      BY <3>2, <3>3, <3>10, <3>11, EndsQuiet
    <3> QED
      BY <3>12
<1> HIDE DEF B0, mod, g
<1>4. Quiet(B0(Grouped(c, {}, mod, g)))
  BY <1>3, GroupedGood
<1> QED
  BY <1>1, <1>2, <1>4

(* show config dc only reads.                                              *)
LEMMA config_dcQuiet ==
  ASSUME NEW c, Fit(c)
  PROVE  Quiet(config_dc(c))
<1> DEFINE mod == {"with", "like", "diff", "for"}  g == parse_modifiers(c.line, {} \union mod)
           B0(d) == ByVersion(d, LAMBDA n : <<info_dc_get_config>>)
<1>1. config_dc(c) = pre_command(c, {}, mod, B0)
  BY DEF config_dc, Leaf, config_leaf
<1>2. pre_command(c, {}, mod, B0) = B0(Grouped(c, {}, mod, g))
  <2> HIDE DEF B0, mod
  <2> QED
    BY DEF pre_command, WithGroups, Given
<1>3. ASSUME NEW d, Fit(d) PROVE Quiet(B0(d))
  <2>0. d.nodes \in SUBSET Machines
    BY <1>3, FitNodes
  <2> QED
    <3> DEFINE T(e, answers) == LET known == {n \in e.nodes : answers[n][1].came = "ok"}
                       stats == {n \in e.nodes : answers[n][2].came = "ok"}
                   IN End(e, (IF \E n \in known : MajorVersion(n) < 5 THEN <<Shows("report", stats)>> ELSE <<>>)
                               \o (IF \E n \in known : MajorVersion(n) >= 5 THEN <<Warn>> ELSE <<>>))
    <3>1. ASSUME NEW e, Fit(e), NEW answers, DOMAIN answers \subseteq Machines PROVE Quiet(T(e, answers))
      <4>0. e.nodes \in SUBSET Machines
        BY <3>1, FitNodes
      <4> DEFINE stats == {n \in e.nodes : answers[n][2].came = "ok"}
                 known == {n \in e.nodes : answers[n][1].came = "ok"}
                 u == IF \E n \in known : MajorVersion(n) < 5 THEN <<Shows("report", stats)>> ELSE <<>>
                 v == IF \E n \in known : MajorVersion(n) >= 5 THEN <<Warn>> ELSE <<>>
      <4>1. SilentSteps(u) /\ SilentSteps(v)
        <5> HIDE DEF stats, known
        <5> QED
          BY SilentStep, Helps, StepKinds
      <4>2. T(e, answers) = End(e, u \o v)
        OBVIOUS
      <4> HIDE DEF u, v, T
      <4> QED
        BY <4>1, <4>2, SilentJoined, EndQuiet
    <3> DEFINE N == d.nodes
               MM(n) == <<info_build>> \o <<info_dc_get_config>>
               T1(x, y) == T(x, y)
    <3> DEFINE S == [d EXCEPT !.seen = Tail(@)]
               H == Head(d.seen)
               F == [n \in DOMAIN H |-> H[n][1]]
               k == [n \in N |-> MM(n)]
               z == T1(S, H)
    <3>2. B0(d) = CallAll(d, N, MM, T1)
      BY DEF ByVersion
    <3>3. B0(d) = CallAll(d, N, MM, T1)
      BY <3>2
    <3>4. CallAll(d, N, MM, T1) =
           IF N = {} THEN End(d, <<Raise>>)
           ELSE First(CallStep(k), IF d.seen = <<>> THEN End(d, <<>>) ELSE T1(S, H))
      <4> HIDE DEF T1, MM, N
      <4> QED
        BY DEF CallAll, Given
    <3>5. d.seen # <<>> => Quiet(z)
      <4>1. z = T(S, H)
        OBVIOUS
      <4>3. d.seen # <<>> => Fit(S) /\ DOMAIN H \subseteq Machines
        BY <1>3, FitRest DEF Rest
      <4> HIDE DEF z, T, S, F, H
      <4> QED
        BY <3>1, <4>1, <4>3
    <3>6. ASSUME NEW n \in N PROVE Asked(MM(n))
      <4>1. Asked(<<info_build>>) /\ Asked(<<info_dc_get_config>>)
        BY ReadsSimple, ReadsListed, ReadsOf, ReadsAll, ReadsXdr, AskedOne, AskedMany
      <4> QED
        BY <4>1, AskedBoth
    <3>7. N \in SUBSET Machines
      BY <2>0
    <3>8. DOMAIN k = N /\ \A n \in N : k[n] = MM(n)
      OBVIOUS
    <3> HIDE DEF k, z, T1, T, MM, N, S, H, F
    <3>9. ReadAsked(k)
      BY <3>6, <3>7, <3>8 DEF ReadAsked
    <3>10. Quiet(CallPlan(d, k, z))
      BY <3>5, <3>9, CallQuiet
    <3>11. CallAll(d, N, MM, T1) = IF N = {} THEN End(d, <<Raise>>) ELSE CallPlan(d, k, z)
      BY <3>4 DEF CallPlan, z
    <3>12. Quiet(B0(d))
      BY <3>2, <3>3, <3>10, <3>11, EndsQuiet
    <3> QED
      BY <3>12
<1> HIDE DEF B0, mod, g
<1>4. Quiet(B0(Grouped(c, {}, mod, g)))
  BY <1>3, GroupedGood
<1> QED
  BY <1>1, <1>2, <1>4

ConfigAll(x) == config_leaf(x,
  LAMBDA d : WithNamespaces(d, <<get_security(d.nodes), get_service(d.nodes), get_network(d.nodes)>>, get_namespace))

(* show config only reads.                                                 *)
LEMMA ConfigAllQuiet ==
  ASSUME NEW c, Fit(c)
  PROVE  Quiet(ConfigAll(c))
<1> DEFINE mod == {"with", "like", "diff", "for"}  g == parse_modifiers(c.line, {} \union mod)
           B0(d) == WithNamespaces(d, <<get_security(d.nodes), get_service(d.nodes), get_network(d.nodes)>>,
             get_namespace)
<1>1. ConfigAll(c) = pre_command(c, {}, mod, B0)
  BY DEF ConfigAll, Leaf, config_leaf
<1>2. pre_command(c, {}, mod, B0) = B0(Grouped(c, {}, mod, g))
  <2> HIDE DEF B0, mod
  <2> QED
    BY DEF pre_command, WithGroups, Given
<1>3. ASSUME NEW d, Fit(d) PROVE Quiet(B0(d))
  <2>0. d.nodes \in SUBSET Machines
    BY <1>3, FitNodes
  <2>3. IsReport(<<get_security(d.nodes), get_service(d.nodes), get_network(d.nodes)>>)
    BY <2>0, SectionsRead, ReportOne, ReportPair, ReportJoined, get_namespaceRead,
      get_namespace_statisticsRead, get_sindex_statsRead
  <2> QED
    <3> DEFINE T(e, answers) == Report(e, <<get_security(d.nodes), get_service(d.nodes), get_network(d.nodes)>>
                 \o (IF Listed(answers) THEN get_namespace(e.nodes) ELSE <<>>))
    <3>1. ASSUME NEW e, Fit(e), NEW answers, DOMAIN answers \subseteq Machines PROVE Quiet(T(e, answers))
      <4>0. e.nodes \in SUBSET Machines
        BY <3>1, FitNodes
      <4> DEFINE s == <<get_security(d.nodes), get_service(d.nodes), get_network(d.nodes)>>
                   \o (IF Listed(answers) THEN get_namespace(e.nodes) ELSE <<>>)
      <4>1. IsReport(s)
        BY <2>3, <2>0, <4>0, SectionsRead, ReportOne, ReportPair, ReportJoined, get_namespaceRead,
          get_namespace_statisticsRead, get_sindex_statsRead
      <4> HIDE DEF s
      <4>2. Quiet(Report(e, s))
        BY <4>1, ReportQuiet
      <4> QED
        BY <4>2 DEF s
    <3> DEFINE M(n) == info_namespaces
               N == d.nodes
               MM(n) == <<M(n)>>
               T1(x, y) == Given([n \in DOMAIN y |-> y[n][1]], LAMBDA first : T(x, first))
    <3> DEFINE S == [d EXCEPT !.seen = Tail(@)]
               H == Head(d.seen)
               F == [n \in DOMAIN H |-> H[n][1]]
               k == [n \in N |-> MM(n)]
               z == T1(S, H)
    <3>2. B0(d) = Call(d, N, M, T)
      BY DEF After, WithNamespaces
    <3>3. Call(d, N, M, T) = CallAll(d, N, MM, T1)
      BY DEF Call
    <3>4. CallAll(d, N, MM, T1) =
           IF N = {} THEN End(d, <<Raise>>)
           ELSE First(CallStep(k), IF d.seen = <<>> THEN End(d, <<>>) ELSE T1(S, H))
      <4> HIDE DEF T1, MM, N
      <4> QED
        BY DEF CallAll, Given
    <3>5. d.seen # <<>> => Quiet(z)
      <4>1. z = T(S, F)
        <5> HIDE DEF T, S, H
        <5> QED
          BY DEF Given
      <4>2. DOMAIN F = DOMAIN H
        OBVIOUS
      <4>3. d.seen # <<>> => Fit(S) /\ DOMAIN H \subseteq Machines
        BY <1>3, FitRest DEF Rest
      <4> HIDE DEF z, T, S, F, H
      <4> QED
        BY <3>1, <4>1, <4>3, <4>2
    <3>6. ASSUME NEW n \in N PROVE Asked(MM(n))
      BY ReadsSimple, ReadsListed, ReadsOf, ReadsAll, ReadsXdr, AskedOne
    <3>7. N \in SUBSET Machines
      BY <2>0
    <3>8. DOMAIN k = N /\ \A n \in N : k[n] = MM(n)
      OBVIOUS
    <3> HIDE DEF k, z, T1, T, MM, N, S, H, F, M
    <3>9. ReadAsked(k)
      BY <3>6, <3>7, <3>8 DEF ReadAsked
    <3>10. Quiet(CallPlan(d, k, z))
      BY <3>5, <3>9, CallQuiet
    <3>11. CallAll(d, N, MM, T1) = IF N = {} THEN End(d, <<Raise>>) ELSE CallPlan(d, k, z)
      BY <3>4 DEF CallPlan, z
    <3>12. Quiet(B0(d))
      BY <3>2, <3>3, <3>10, <3>11, EndsQuiet
    <3> QED
      BY <3>12
<1> HIDE DEF B0, mod, g
<1>4. Quiet(B0(Grouped(c, {}, mod, g)))
  BY <1>3, GroupedGood
<1> QED
  BY <1>1, <1>2, <1>4

(* show config only reads.                                                 *)
LEMMA ShowConfigControllerQuiet ==
  ASSUME NEW c, Fit(c)
  PROVE  Quiet(ShowConfigController(c))
<1> DEFINE p1 == config_security(Popped(c))
           p2 == config_service(Popped(c))
           p3 == config_network(Popped(c))
           p4 == config_namespace(Popped(c))
           p5 == config_xdr(Popped(c))
           p6 == config_dc(Popped(c))
           p0 == ConfigAll(c)
<1>1. Quiet(p1) /\ Quiet(p2) /\ Quiet(p3) /\ Quiet(p4) /\ Quiet(p5) /\ Quiet(p6)
  BY PoppedGood, config_securityQuiet, config_serviceQuiet, config_networkQuiet, config_namespaceQuiet,
    config_xdrQuiet, config_dcQuiet
<1>2. Quiet(p0)
  BY ConfigAllQuiet
<1>3. ShowConfigController(c) =
    CASE Word(c) = "security" -> p1
      [] Word(c) = "service" -> p2
      [] Word(c) = "network" -> p3
      [] Word(c) = "namespace" -> p4
      [] Word(c) = "xdr" -> p5
      [] Word(c) = "dc" -> p6
      [] OTHER -> p0
  BY DEF ShowConfigController, ConfigAll
<1> HIDE DEF p0, p1, p2, p3, p4, p5, p6
<1> QED
  BY <1>1, <1>2, <1>3

(* show statistics service only reads.                                     *)
LEMMA statistics_serviceQuiet ==
  ASSUME NEW c, Fit(c)
  PROVE  Quiet(statistics_service(c))
<1> DEFINE mod == {"with", "like", "for"}  g == parse_modifiers(c.line, {} \union mod)
           B0(d) == Report(d, <<get_service_statistics(d.nodes)>>)
<1>1. statistics_service(c) = pre_command(c, {}, mod, B0)
  BY DEF statistics_service, Leaf, statistics_leaf
<1>2. pre_command(c, {}, mod, B0) = B0(Grouped(c, {}, mod, g))
  <2> HIDE DEF B0, mod
  <2> QED
    BY DEF pre_command, WithGroups, Given
<1>3. ASSUME NEW d, Fit(d) PROVE Quiet(B0(d))
  <2>0. d.nodes \in SUBSET Machines
    BY <1>3, FitNodes
  <2> DEFINE s == <<get_service_statistics(d.nodes)>>
  <2>1. IsReport(s)
    BY <2>0, SectionsRead, ReportOne, ReportPair, ReportJoined, get_namespaceRead,
      get_namespace_statisticsRead, get_sindex_statsRead
  <2> HIDE DEF s
  <2>2. Quiet(Report(d, s))
    BY <2>1, ReportQuiet
  <2> QED
    BY <2>2 DEF s
<1> HIDE DEF B0, mod, g
<1>4. Quiet(B0(Grouped(c, {}, mod, g)))
  BY <1>3, GroupedGood
<1> QED
  BY <1>1, <1>2, <1>4

(* show statistics namespace only reads.                                   *)
LEMMA statistics_namespaceQuiet ==
  ASSUME NEW c, Fit(c)
  PROVE  Quiet(statistics_namespace(c))
<1> DEFINE mod == {"with", "like", "for"}  g == parse_modifiers(c.line, {} \union mod)
           B0(d) == WithNamespaces(d, <<>>, get_namespace_statistics)
<1>1. statistics_namespace(c) = pre_command(c, {}, mod, B0)
  BY DEF statistics_namespace, Leaf, statistics_leaf
<1>2. pre_command(c, {}, mod, B0) = B0(Grouped(c, {}, mod, g))
  <2> HIDE DEF B0, mod
  <2> QED
    BY DEF pre_command, WithGroups, Given
<1>3. ASSUME NEW d, Fit(d) PROVE Quiet(B0(d))
  <2>0. d.nodes \in SUBSET Machines
    BY <1>3, FitNodes
  <2>3. IsReport(<<>>)
BY <2>0, SectionsRead, ReportOne, ReportPair, ReportJoined, get_namespaceRead, get_namespace_statisticsRead,
  get_sindex_statsRead
  <2> QED
    <3> DEFINE T(e, answers) == Report(e, <<>>
                 \o (IF Listed(answers) THEN get_namespace_statistics(e.nodes) ELSE <<>>))
    <3>1. ASSUME NEW e, Fit(e), NEW answers, DOMAIN answers \subseteq Machines PROVE Quiet(T(e, answers))
      <4>0. e.nodes \in SUBSET Machines
        BY <3>1, FitNodes
      <4> DEFINE s == <<>> \o (IF Listed(answers) THEN get_namespace_statistics(e.nodes) ELSE <<>>)
      <4>1. IsReport(s)
        BY <2>3, <2>0, <4>0, SectionsRead, ReportOne, ReportPair, ReportJoined, get_namespaceRead,
          get_namespace_statisticsRead, get_sindex_statsRead
      <4> HIDE DEF s
      <4>2. Quiet(Report(e, s))
        BY <4>1, ReportQuiet
      <4> QED
        BY <4>2 DEF s
    <3> DEFINE M(n) == info_namespaces
               N == d.nodes
               MM(n) == <<M(n)>>
               T1(x, y) == Given([n \in DOMAIN y |-> y[n][1]], LAMBDA first : T(x, first))
    <3> DEFINE S == [d EXCEPT !.seen = Tail(@)]
               H == Head(d.seen)
               F == [n \in DOMAIN H |-> H[n][1]]
               k == [n \in N |-> MM(n)]
               z == T1(S, H)
    <3>2. B0(d) = Call(d, N, M, T)
      BY DEF After, WithNamespaces
    <3>3. Call(d, N, M, T) = CallAll(d, N, MM, T1)
      BY DEF Call
    <3>4. CallAll(d, N, MM, T1) =
           IF N = {} THEN End(d, <<Raise>>)
           ELSE First(CallStep(k), IF d.seen = <<>> THEN End(d, <<>>) ELSE T1(S, H))
      <4> HIDE DEF T1, MM, N
      <4> QED
        BY DEF CallAll, Given
    <3>5. d.seen # <<>> => Quiet(z)
      <4>1. z = T(S, F)
        <5> HIDE DEF T, S, H
        <5> QED
          BY DEF Given
      <4>2. DOMAIN F = DOMAIN H
        OBVIOUS
      <4>3. d.seen # <<>> => Fit(S) /\ DOMAIN H \subseteq Machines
        BY <1>3, FitRest DEF Rest
      <4> HIDE DEF z, T, S, F, H
      <4> QED
        BY <3>1, <4>1, <4>3, <4>2
    <3>6. ASSUME NEW n \in N PROVE Asked(MM(n))
      BY ReadsSimple, ReadsListed, ReadsOf, ReadsAll, ReadsXdr, AskedOne
    <3>7. N \in SUBSET Machines
      BY <2>0
    <3>8. DOMAIN k = N /\ \A n \in N : k[n] = MM(n)
      OBVIOUS
    <3> HIDE DEF k, z, T1, T, MM, N, S, H, F, M
    <3>9. ReadAsked(k)
      BY <3>6, <3>7, <3>8 DEF ReadAsked
    <3>10. Quiet(CallPlan(d, k, z))
      BY <3>5, <3>9, CallQuiet
    <3>11. CallAll(d, N, MM, T1) = IF N = {} THEN End(d, <<Raise>>) ELSE CallPlan(d, k, z)
      BY <3>4 DEF CallPlan, z
    <3>12. Quiet(B0(d))
      BY <3>2, <3>3, <3>10, <3>11, EndsQuiet
    <3> QED
      BY <3>12
<1> HIDE DEF B0, mod, g
<1>4. Quiet(B0(Grouped(c, {}, mod, g)))
  BY <1>3, GroupedGood
<1> QED
  BY <1>1, <1>2, <1>4

(* The statistics of the indexes only read.                                *)
LEMMA SindexQuiet ==
  ASSUME NEW d, Fit(d)
  PROVE  Quiet(Sindex(d))
<1>0. d.nodes \in SUBSET Machines
  BY FitNodes
<1>1. Fit(d)
  OBVIOUS
<1> QED
  <2> DEFINE T(e, answers) == Report(e, IF Listed(answers) THEN get_sindex_stats(e.nodes) ELSE <<>>)
  <2>1. ASSUME NEW e, Fit(e), NEW answers, DOMAIN answers \subseteq Machines PROVE Quiet(T(e, answers))
    <3>0. e.nodes \in SUBSET Machines
      BY <2>1, FitNodes
    <3> DEFINE s == IF Listed(answers) THEN get_sindex_stats(e.nodes) ELSE <<>>
    <3>1. IsReport(s)
      BY <2>1, <3>0, SectionsRead, ReportOne, ReportPair, ReportJoined, get_namespaceRead,
        get_namespace_statisticsRead, get_sindex_statsRead
    <3> HIDE DEF s
    <3>2. Quiet(Report(e, s))
      BY <3>1, ReportQuiet
    <3> QED
      BY <3>2 DEF s
  <2> DEFINE M(n) == info_sindex
             N == d.nodes
             MM(n) == <<M(n)>>
             T1(x, y) == Given([n \in DOMAIN y |-> y[n][1]], LAMBDA first : T(x, first))
  <2> DEFINE S == [d EXCEPT !.seen = Tail(@)]
             H == Head(d.seen)
             F == [n \in DOMAIN H |-> H[n][1]]
             k == [n \in N |-> MM(n)]
             z == T1(S, H)
  <2>2. Sindex(d) = Call(d, N, M, T)
    BY DEF After, Sindex
  <2>3. Call(d, N, M, T) = CallAll(d, N, MM, T1)
    BY DEF Call
  <2>4. CallAll(d, N, MM, T1) =
         IF N = {} THEN End(d, <<Raise>>)
         ELSE First(CallStep(k), IF d.seen = <<>> THEN End(d, <<>>) ELSE T1(S, H))
    <3> HIDE DEF T1, MM, N
    <3> QED
      BY DEF CallAll, Given
  <2>5. d.seen # <<>> => Quiet(z)
    <3>1. z = T(S, F)
      <4> HIDE DEF T, S, H
      <4> QED
        BY DEF Given
    <3>2. DOMAIN F = DOMAIN H
      OBVIOUS
    <3>3. d.seen # <<>> => Fit(S) /\ DOMAIN H \subseteq Machines
      BY <1>1, FitRest DEF Rest
    <3> HIDE DEF z, T, S, F, H
    <3> QED
      BY <2>1, <3>1, <3>3, <3>2
  <2>6. ASSUME NEW n \in N PROVE Asked(MM(n))
    BY ReadsSimple, ReadsListed, ReadsOf, ReadsAll, ReadsXdr, AskedOne
  <2>7. N \in SUBSET Machines
    BY <1>0
  <2>8. DOMAIN k = N /\ \A n \in N : k[n] = MM(n)
    OBVIOUS
  <2> HIDE DEF k, z, T1, T, MM, N, S, H, F, M
  <2>9. ReadAsked(k)
    BY <2>6, <2>7, <2>8 DEF ReadAsked
  <2>10. Quiet(CallPlan(d, k, z))
    BY <2>5, <2>9, CallQuiet
  <2>11. CallAll(d, N, MM, T1) = IF N = {} THEN End(d, <<Raise>>) ELSE CallPlan(d, k, z)
    BY <2>4 DEF CallPlan, z
  <2>12. Quiet(Sindex(d))
    BY <2>2, <2>3, <2>10, <2>11, EndsQuiet
  <2> QED
    BY <2>12

(* show statistics sindex only reads.                                      *)
LEMMA statistics_sindexQuiet ==
  ASSUME NEW c, Fit(c)
  PROVE  Quiet(statistics_sindex(c))
<1> DEFINE mod == {"with", "like", "for"}  g == parse_modifiers(c.line, {} \union mod)
<1>1. statistics_sindex(c) = pre_command(c, {}, mod, Sindex)
  BY DEF statistics_sindex, Leaf, statistics_leaf
<1>2. pre_command(c, {}, mod, Sindex) = Sindex(Grouped(c, {}, mod, g))
  <2> HIDE DEF mod
  <2> QED
    BY DEF pre_command, WithGroups, Given
<1> HIDE DEF mod, g
<1> QED
  BY <1>1, <1>2, GroupedGood, SindexQuiet

(* show statistics sets only reads.                                        *)
LEMMA statistics_setsQuiet ==
  ASSUME NEW c, Fit(c)
  PROVE  Quiet(statistics_sets(c))
<1> DEFINE mod == {"with", "like", "for"}  g == parse_modifiers(c.line, {} \union mod)
           B0(d) == Report(d, <<get_sets(d.nodes)>>)
<1>1. statistics_sets(c) = pre_command(c, {}, mod, B0)
  BY DEF statistics_sets, Leaf, statistics_leaf
<1>2. pre_command(c, {}, mod, B0) = B0(Grouped(c, {}, mod, g))
  <2> HIDE DEF B0, mod
  <2> QED
    BY DEF pre_command, WithGroups, Given
<1>3. ASSUME NEW d, Fit(d) PROVE Quiet(B0(d))
  <2>0. d.nodes \in SUBSET Machines
    BY <1>3, FitNodes
  <2> DEFINE s == <<get_sets(d.nodes)>>
  <2>1. IsReport(s)
    BY <2>0, SectionsRead, ReportOne, ReportPair, ReportJoined, get_namespaceRead,
      get_namespace_statisticsRead, get_sindex_statsRead
  <2> HIDE DEF s
  <2>2. Quiet(Report(d, s))
    BY <2>1, ReportQuiet
  <2> QED
    BY <2>2 DEF s
<1> HIDE DEF B0, mod, g
<1>4. Quiet(B0(Grouped(c, {}, mod, g)))
  BY <1>3, GroupedGood
<1> QED
  BY <1>1, <1>2, <1>4

(* show statistics bins only reads.                                        *)
LEMMA statistics_binsQuiet ==
  ASSUME NEW c, Fit(c)
  PROVE  Quiet(statistics_bins(c))
<1> DEFINE mod == {"with", "like", "for"}  g == parse_modifiers(c.line, {} \union mod)
           B0(d) == Report(d, <<get_bins(d.nodes)>>)
<1>1. statistics_bins(c) = pre_command(c, {}, mod, B0)
  BY DEF statistics_bins, Leaf, statistics_leaf
<1>2. pre_command(c, {}, mod, B0) = B0(Grouped(c, {}, mod, g))
  <2> HIDE DEF B0, mod
  <2> QED
    BY DEF pre_command, WithGroups, Given
<1>3. ASSUME NEW d, Fit(d) PROVE Quiet(B0(d))
  <2>0. d.nodes \in SUBSET Machines
    BY <1>3, FitNodes
  <2> DEFINE s == <<get_bins(d.nodes)>>
  <2>1. IsReport(s)
    BY <2>0, SectionsRead, ReportOne, ReportPair, ReportJoined, get_namespaceRead,
      get_namespace_statisticsRead, get_sindex_statsRead
  <2> HIDE DEF s
  <2>2. Quiet(Report(d, s))
    BY <2>1, ReportQuiet
  <2> QED
    BY <2>2 DEF s
<1> HIDE DEF B0, mod, g
<1>4. Quiet(B0(Grouped(c, {}, mod, g)))
  BY <1>3, GroupedGood
<1> QED
  BY <1>1, <1>2, <1>4

(* show statistics xdr only reads.                                         *)
LEMMA statistics_xdrQuiet ==
  ASSUME NEW c, Fit(c)
  PROVE  Quiet(statistics_xdr(c))
<1> DEFINE mod == {"with", "like", "for"}  g == parse_modifiers(c.line, {} \union mod)
           B0(d) == Report(d, <<XdrDated_(d.nodes)>>)
<1>1. statistics_xdr(c) = pre_command(c, {}, mod, B0)
  BY DEF statistics_xdr, Leaf, statistics_leaf, XdrDated_
<1>2. pre_command(c, {}, mod, B0) = B0(Grouped(c, {}, mod, g))
  <2> HIDE DEF B0, mod
  <2> QED
    BY DEF pre_command, WithGroups, Given
<1>3. ASSUME NEW d, Fit(d) PROVE Quiet(B0(d))
  <2>0. d.nodes \in SUBSET Machines
    BY <1>3, FitNodes
  <2> DEFINE s == <<XdrDated_(d.nodes)>>
  <2>1. IsReport(s)
    BY <2>0, SectionsRead, ReportOne, ReportPair, ReportJoined, get_namespaceRead,
      get_namespace_statisticsRead, get_sindex_statsRead
  <2> HIDE DEF s
  <2>2. Quiet(Report(d, s))
    BY <2>1, ReportQuiet
  <2> QED
    BY <2>2 DEF s
<1> HIDE DEF B0, mod, g
<1>4. Quiet(B0(Grouped(c, {}, mod, g)))
  BY <1>3, GroupedGood
<1> QED
  BY <1>1, <1>2, <1>4

(* show statistics dc only reads.                                          *)
LEMMA statistics_dcQuiet ==
  ASSUME NEW c, Fit(c)
  PROVE  Quiet(statistics_dc(c))
<1> DEFINE mod == {"with", "like", "for"}  g == parse_modifiers(c.line, {} \union mod)
           B0(d) == ByVersion(d, LAMBDA n : <<info_all_dc_statistics(n)>>)
<1>1. statistics_dc(c) = pre_command(c, {}, mod, B0)
  BY DEF statistics_dc, Leaf, statistics_leaf
<1>2. pre_command(c, {}, mod, B0) = B0(Grouped(c, {}, mod, g))
  <2> HIDE DEF B0, mod
  <2> QED
    BY DEF pre_command, WithGroups, Given
<1>3. ASSUME NEW d, Fit(d) PROVE Quiet(B0(d))
  <2>0. d.nodes \in SUBSET Machines
    BY <1>3, FitNodes
  <2> QED
    <3> DEFINE T(e, answers) == LET known == {n \in e.nodes : answers[n][1].came = "ok"}
                   stats == {n \in e.nodes : answers[n][2].came = "ok"}
               IN End(e, (IF \E n \in known : MajorVersion(n) < 5 THEN <<Shows("report", stats)>> ELSE <<>>)
                           \o (IF \E n \in known : MajorVersion(n) >= 5 THEN <<Warn>> ELSE <<>>))
    <3>1. ASSUME NEW e, Fit(e), NEW answers, DOMAIN answers \subseteq Machines PROVE Quiet(T(e, answers))
      <4>0. e.nodes \in SUBSET Machines
        BY <3>1, FitNodes
      <4> DEFINE stats == {n \in e.nodes : answers[n][2].came = "ok"}
             known == {n \in e.nodes : answers[n][1].came = "ok"}
             u == IF \E n \in known : MajorVersion(n) < 5 THEN <<Shows("report", stats)>> ELSE <<>>
             v == IF \E n \in known : MajorVersion(n) >= 5 THEN <<Warn>> ELSE <<>>
      <4>1. SilentSteps(u) /\ SilentSteps(v)
        <5> HIDE DEF stats, known
        <5> QED
      BY SilentStep, Helps, StepKinds
      <4>2. T(e, answers) = End(e, u \o v)
        OBVIOUS
      <4> HIDE DEF u, v, T
      <4> QED
        BY <4>1, <4>2, SilentJoined, EndQuiet
    <3> DEFINE N == d.nodes
               MM(n) == <<info_build>> \o <<info_all_dc_statistics(n)>>
               T1(x, y) == T(x, y)
    <3> DEFINE S == [d EXCEPT !.seen = Tail(@)]
               H == Head(d.seen)
               F == [n \in DOMAIN H |-> H[n][1]]
               k == [n \in N |-> MM(n)]
               z == T1(S, H)
    <3>2. B0(d) = CallAll(d, N, MM, T1)
      BY DEF ByVersion
    <3>3. B0(d) = CallAll(d, N, MM, T1)
      BY <3>2
    <3>4. CallAll(d, N, MM, T1) =
           IF N = {} THEN End(d, <<Raise>>)
           ELSE First(CallStep(k), IF d.seen = <<>> THEN End(d, <<>>) ELSE T1(S, H))
      <4> HIDE DEF T1, MM, N
      <4> QED
        BY DEF CallAll, Given
    <3>5. d.seen # <<>> => Quiet(z)
      <4>1. z = T(S, H)
        OBVIOUS
      <4>3. d.seen # <<>> => Fit(S) /\ DOMAIN H \subseteq Machines
        BY <1>3, FitRest DEF Rest
      <4> HIDE DEF z, T, S, F, H
      <4> QED
        BY <3>1, <4>1, <4>3
    <3>6. ASSUME NEW n \in N PROVE Asked(MM(n))
      <4>1. Asked(<<info_build>>) /\ Asked(<<info_all_dc_statistics(n)>>)
        BY ReadsSimple, ReadsListed, ReadsOf, ReadsAll, ReadsXdr, AskedOne, AskedMany
      <4> QED
        BY <4>1, AskedBoth
    <3>7. N \in SUBSET Machines
      BY <2>0
    <3>8. DOMAIN k = N /\ \A n \in N : k[n] = MM(n)
      OBVIOUS
    <3> HIDE DEF k, z, T1, T, MM, N, S, H, F
    <3>9. ReadAsked(k)
      BY <3>6, <3>7, <3>8 DEF ReadAsked
    <3>10. Quiet(CallPlan(d, k, z))
      BY <3>5, <3>9, CallQuiet
    <3>11. CallAll(d, N, MM, T1) = IF N = {} THEN End(d, <<Raise>>) ELSE CallPlan(d, k, z)
      BY <3>4 DEF CallPlan, z
    <3>12. Quiet(B0(d))
      BY <3>2, <3>3, <3>10, <3>11, EndsQuiet
    <3> QED
      BY <3>12
<1> HIDE DEF B0, mod, g
<1>4. Quiet(B0(Grouped(c, {}, mod, g)))
  BY <1>3, GroupedGood
<1> QED
  BY <1>1, <1>2, <1>4

StatisticsAll(x) == statistics_leaf(x,
  LAMBDA d : WithNamespaces(d, <<get_bins(d.nodes), get_sets(d.nodes), get_service_statistics(d.nodes)>>,
  get_namespace_statistics))

(* show statistics only reads.                                             *)
LEMMA StatisticsAllQuiet ==
  ASSUME NEW c, Fit(c)
  PROVE  Quiet(StatisticsAll(c))
<1> DEFINE mod == {"with", "like", "for"}  g == parse_modifiers(c.line, {} \union mod)
           B0(d) == WithNamespaces(d, <<get_bins(d.nodes), get_sets(d.nodes),
             get_service_statistics(d.nodes)>>, get_namespace_statistics)
<1>1. StatisticsAll(c) = pre_command(c, {}, mod, B0)
  BY DEF StatisticsAll, Leaf, statistics_leaf
<1>2. pre_command(c, {}, mod, B0) = B0(Grouped(c, {}, mod, g))
  <2> HIDE DEF B0, mod
  <2> QED
    BY DEF pre_command, WithGroups, Given
<1>3. ASSUME NEW d, Fit(d) PROVE Quiet(B0(d))
  <2>0. d.nodes \in SUBSET Machines
    BY <1>3, FitNodes
  <2>3. IsReport(<<get_bins(d.nodes), get_sets(d.nodes), get_service_statistics(d.nodes)>>)
BY <2>0, SectionsRead, ReportOne, ReportPair, ReportJoined, get_namespaceRead, get_namespace_statisticsRead,
  get_sindex_statsRead
  <2> QED
    <3> DEFINE T(e, answers) == Report(e, <<get_bins(d.nodes), get_sets(d.nodes),
                 get_service_statistics(d.nodes)>>
                 \o (IF Listed(answers) THEN get_namespace_statistics(e.nodes) ELSE <<>>))
    <3>1. ASSUME NEW e, Fit(e), NEW answers, DOMAIN answers \subseteq Machines PROVE Quiet(T(e, answers))
      <4>0. e.nodes \in SUBSET Machines
        BY <3>1, FitNodes
      <4> DEFINE s == <<get_bins(d.nodes), get_sets(d.nodes), get_service_statistics(d.nodes)>>
                   \o (IF Listed(answers) THEN get_namespace_statistics(e.nodes) ELSE <<>>)
      <4>1. IsReport(s)
        BY <2>3, <2>0, <4>0, SectionsRead, ReportOne, ReportPair, ReportJoined, get_namespaceRead,
          get_namespace_statisticsRead, get_sindex_statsRead
      <4> HIDE DEF s
      <4>2. Quiet(Report(e, s))
        BY <4>1, ReportQuiet
      <4> QED
        BY <4>2 DEF s
    <3> DEFINE M(n) == info_namespaces
               N == d.nodes
               MM(n) == <<M(n)>>
               T1(x, y) == Given([n \in DOMAIN y |-> y[n][1]], LAMBDA first : T(x, first))
    <3> DEFINE S == [d EXCEPT !.seen = Tail(@)]
               H == Head(d.seen)
               F == [n \in DOMAIN H |-> H[n][1]]
               k == [n \in N |-> MM(n)]
               z == T1(S, H)
    <3>2. B0(d) = Call(d, N, M, T)
      BY DEF After, WithNamespaces
    <3>3. Call(d, N, M, T) = CallAll(d, N, MM, T1)
      BY DEF Call
    <3>4. CallAll(d, N, MM, T1) =
           IF N = {} THEN End(d, <<Raise>>)
           ELSE First(CallStep(k), IF d.seen = <<>> THEN End(d, <<>>) ELSE T1(S, H))
      <4> HIDE DEF T1, MM, N
      <4> QED
        BY DEF CallAll, Given
    <3>5. d.seen # <<>> => Quiet(z)
      <4>1. z = T(S, F)
        <5> HIDE DEF T, S, H
        <5> QED
          BY DEF Given
      <4>2. DOMAIN F = DOMAIN H
        OBVIOUS
      <4>3. d.seen # <<>> => Fit(S) /\ DOMAIN H \subseteq Machines
        BY <1>3, FitRest DEF Rest
      <4> HIDE DEF z, T, S, F, H
      <4> QED
        BY <3>1, <4>1, <4>3, <4>2
    <3>6. ASSUME NEW n \in N PROVE Asked(MM(n))
      BY ReadsSimple, ReadsListed, ReadsOf, ReadsAll, ReadsXdr, AskedOne
    <3>7. N \in SUBSET Machines
      BY <2>0
    <3>8. DOMAIN k = N /\ \A n \in N : k[n] = MM(n)
      OBVIOUS
    <3> HIDE DEF k, z, T1, T, MM, N, S, H, F, M
    <3>9. ReadAsked(k)
      BY <3>6, <3>7, <3>8 DEF ReadAsked
    <3>10. Quiet(CallPlan(d, k, z))
      BY <3>5, <3>9, CallQuiet
    <3>11. CallAll(d, N, MM, T1) = IF N = {} THEN End(d, <<Raise>>) ELSE CallPlan(d, k, z)
      BY <3>4 DEF CallPlan, z
    <3>12. Quiet(B0(d))
      BY <3>2, <3>3, <3>10, <3>11, EndsQuiet
    <3> QED
      BY <3>12
<1> HIDE DEF B0, mod, g
<1>4. Quiet(B0(Grouped(c, {}, mod, g)))
  BY <1>3, GroupedGood
<1> QED
  BY <1>1, <1>2, <1>4

(* show statistics only reads.                                             *)
LEMMA ShowStatisticsControllerQuiet ==
  ASSUME NEW c, Fit(c)
  PROVE  Quiet(ShowStatisticsController(c))
<1> DEFINE p1 == statistics_service(Popped(c))
           p2 == statistics_namespace(Popped(c))
           p3 == statistics_sindex(Popped(c))
           p4 == statistics_sets(Popped(c))
           p5 == statistics_bins(Popped(c))
           p6 == statistics_xdr(Popped(c))
           p7 == statistics_dc(Popped(c))
           p0 == StatisticsAll(c)
<1>1. Quiet(p1) /\ Quiet(p2) /\ Quiet(p3) /\ Quiet(p4) /\ Quiet(p5) /\ Quiet(p6) /\ Quiet(p7)
  BY PoppedGood, statistics_serviceQuiet, statistics_namespaceQuiet, statistics_sindexQuiet,
    statistics_setsQuiet, statistics_binsQuiet, statistics_xdrQuiet, statistics_dcQuiet
<1>2. Quiet(p0)
  BY StatisticsAllQuiet
<1>3. ShowStatisticsController(c) =
    CASE Word(c) = "service" -> p1
      [] Word(c) = "namespace" -> p2
      [] Word(c) = "sindex" -> p3
      [] Word(c) = "sets" -> p4
      [] Word(c) = "bins" -> p5
      [] Word(c) = "xdr" -> p6
      [] Word(c) = "dc" -> p7
      [] OTHER -> p0
  BY DEF ShowStatisticsController, StatisticsAll
<1> HIDE DEF p0, p1, p2, p3, p4, p5, p6, p7
<1> QED
  BY <1>1, <1>2, <1>3

(* show mapping only reads.                                                *)
LEMMA ShowMappingControllerQuiet ==
  ASSUME NEW c, Fit(c)
  PROVE  Quiet(ShowMappingController(c))
<1> DEFINE mod == {"like"}  g == parse_modifiers(c.line, {} \union mod)
           B0(d) == End(d, <<Shows("report", {})>>)
<1>1. ShowMappingController(c) = pre_command(c, {}, mod, B0)
  BY DEF ShowMappingController, Leaf
<1>2. pre_command(c, {}, mod, B0) = B0(Grouped(c, {}, mod, g))
  <2> HIDE DEF B0, mod
  <2> QED
    BY DEF pre_command, WithGroups, Given
<1>3. ASSUME NEW d, Fit(d) PROVE Quiet(B0(d))
  <2>0. d.nodes \in SUBSET Machines
    BY <1>3, FitNodes
  <2> QED
    BY EndsQuiet
<1> HIDE DEF B0, mod, g
<1>4. Quiet(B0(Grouped(c, {}, mod, g)))
  BY <1>3, GroupedGood
<1> QED
  BY <1>1, <1>2, <1>4

(* show pmap only reads.                                                   *)
LEMMA ShowPmapControllerQuiet ==
  ASSUME NEW c, Fit(c)
  PROVE  Quiet(ShowPmapController(c))
<1> DEFINE mod == {}  g == parse_modifiers(c.line, {} \union mod)
           B0(d) == After(d, d.nodes, LAMBDA n : info_namespaces,
             LAMBDA e, answers : Report(e, <<get_pmap(e.nodes)>>
             \o <<get_service_statistics(e.nodes), NodeIds_(e.nodes)>>
             \o (IF Listed(answers) THEN get_namespace_statistics(e.nodes) ELSE <<>>)))
<1>1. ShowPmapController(c) = pre_command(c, {}, mod, B0)
  BY DEF ShowPmapController, Leaf, NodeIds_
<1>2. pre_command(c, {}, mod, B0) = B0(Grouped(c, {}, mod, g))
  <2> HIDE DEF B0, mod
  <2> QED
    BY DEF pre_command, WithGroups, Given
<1>3. ASSUME NEW d, Fit(d) PROVE Quiet(B0(d))
  <2>0. d.nodes \in SUBSET Machines
    BY <1>3, FitNodes
  <2> QED
    <3> DEFINE T(e, answers) == Report(e, <<get_pmap(e.nodes)>>
                 \o <<get_service_statistics(e.nodes), NodeIds_(e.nodes)>>
                 \o (IF Listed(answers) THEN get_namespace_statistics(e.nodes) ELSE <<>>))
    <3>1. ASSUME NEW e, Fit(e), NEW answers, DOMAIN answers \subseteq Machines PROVE Quiet(T(e, answers))
      <4>0. e.nodes \in SUBSET Machines
        BY <3>1, FitNodes
      <4> DEFINE s == <<get_pmap(e.nodes)>> \o <<get_service_statistics(e.nodes), NodeIds_(e.nodes)>>
                   \o (IF Listed(answers) THEN get_namespace_statistics(e.nodes) ELSE <<>>)
      <4>1. IsReport(s)
        BY <3>1, <4>0, SectionsRead, ReportOne, ReportPair, ReportJoined, get_namespaceRead,
          get_namespace_statisticsRead, get_sindex_statsRead
      <4> HIDE DEF s
      <4>2. Quiet(Report(e, s))
        BY <4>1, ReportQuiet
      <4> QED
        BY <4>2 DEF s
    <3> DEFINE M(n) == info_namespaces
               N == d.nodes
               MM(n) == <<M(n)>>
               T1(x, y) == Given([n \in DOMAIN y |-> y[n][1]], LAMBDA first : T(x, first))
    <3> DEFINE S == [d EXCEPT !.seen = Tail(@)]
               H == Head(d.seen)
               F == [n \in DOMAIN H |-> H[n][1]]
               k == [n \in N |-> MM(n)]
               z == T1(S, H)
    <3>2. B0(d) = Call(d, N, M, T)
      BY DEF After
    <3>3. Call(d, N, M, T) = CallAll(d, N, MM, T1)
      BY DEF Call
    <3>4. CallAll(d, N, MM, T1) =
           IF N = {} THEN End(d, <<Raise>>)
           ELSE First(CallStep(k), IF d.seen = <<>> THEN End(d, <<>>) ELSE T1(S, H))
      <4> HIDE DEF T1, MM, N
      <4> QED
        BY DEF CallAll, Given
    <3>5. d.seen # <<>> => Quiet(z)
      <4>1. z = T(S, F)
        <5> HIDE DEF T, S, H
        <5> QED
          BY DEF Given
      <4>2. DOMAIN F = DOMAIN H
        OBVIOUS
      <4>3. d.seen # <<>> => Fit(S) /\ DOMAIN H \subseteq Machines
        BY <1>3, FitRest DEF Rest
      <4> HIDE DEF z, T, S, F, H
      <4> QED
        BY <3>1, <4>1, <4>3, <4>2
    <3>6. ASSUME NEW n \in N PROVE Asked(MM(n))
      BY ReadsSimple, ReadsListed, ReadsOf, ReadsAll, ReadsXdr, AskedOne
    <3>7. N \in SUBSET Machines
      BY <2>0
    <3>8. DOMAIN k = N /\ \A n \in N : k[n] = MM(n)
      OBVIOUS
    <3> HIDE DEF k, z, T1, T, MM, N, S, H, F, M
    <3>9. ReadAsked(k)
      BY <3>6, <3>7, <3>8 DEF ReadAsked
    <3>10. Quiet(CallPlan(d, k, z))
      BY <3>5, <3>9, CallQuiet
    <3>11. CallAll(d, N, MM, T1) = IF N = {} THEN End(d, <<Raise>>) ELSE CallPlan(d, k, z)
      BY <3>4 DEF CallPlan, z
    <3>12. Quiet(B0(d))
      BY <3>2, <3>3, <3>10, <3>11, EndsQuiet
    <3> QED
      BY <3>12
<1> HIDE DEF B0, mod, g
<1>4. Quiet(B0(Grouped(c, {}, mod, g)))
  BY <1>3, GroupedGood
<1> QED
  BY <1>1, <1>2, <1>4

(* A report of what the principal answers only reads.                      *)
LEMMA AskedOfPrincipalQuiet ==
  ASSUME NEW c, Fit(c), NEW method, Reading(method), NEW modifiers, NEW raises
  PROVE  Quiet(AskedOfPrincipal(c, method, modifiers, raises))
<1> DEFINE mod == modifiers  g == parse_modifiers(c.line, {} \union mod)
           B0(d) == Call(d, {Principal}, LAMBDA n : method, LAMBDA e, answers : IF answers[Principal].came = "ok" THEN
                 End(e, <<[Shows("report", {Principal}) EXCEPT !.about = Mod(e, "like")]>>)
               ELSE IF raises THEN End(e, <<IF answers[Principal].came = "refused" THEN Complain ELSE Raise>>)
               ELSE End(e, <<Shows("report", {})>>))
<1>0. Reading(method)
  OBVIOUS
<1>1. AskedOfPrincipal(c, method, modifiers, raises) = pre_command(c, {}, mod, B0)
  BY DEF AskedOfPrincipal, Leaf
<1>2. pre_command(c, {}, mod, B0) = B0(Grouped(c, {}, mod, g))
  <2> HIDE DEF B0, mod
  <2> QED
    BY DEF pre_command, WithGroups, Given
<1>3. ASSUME NEW d, Fit(d) PROVE Quiet(B0(d))
  <2>0. d.nodes \in SUBSET Machines
    BY <1>3, FitNodes
  <2> QED
    <3> DEFINE T(e, answers) == IF answers[Principal].came = "ok" THEN
                     End(e, <<[Shows("report", {Principal}) EXCEPT !.about = Mod(e, "like")]>>)
                   ELSE IF raises THEN End(e, <<IF answers[Principal].came = "refused" THEN Complain ELSE Raise>>)
                   ELSE End(e, <<Shows("report", {})>>)
    <3>1. ASSUME NEW e, Fit(e), NEW answers, DOMAIN answers \subseteq Machines PROVE Quiet(T(e, answers))
      <4>0. e.nodes \in SUBSET Machines
        BY <3>1, FitNodes
      <4> DEFINE x1 == End(e, <<[Shows("report", {Principal}) EXCEPT !.about = Mod(e, "like")]>>)
                 x2 == End(e, <<Complain>>)  x3 == End(e, <<Raise>>)  x4 == End(e, <<Shows("report", {})>>)
      <4>1. Quiet(x1) /\ Quiet(x2) /\ Quiet(x3) /\ Quiet(x4)
        BY EndsQuiet
      <4>2. T(e, answers) \in {x1, x2, x3, x4}
        OBVIOUS
      <4> HIDE DEF x1, x2, x3, x4, T
      <4> QED
        BY <4>1, <4>2
    <3> DEFINE M(n) == method
               N == {Principal}
               MM(n) == <<M(n)>>
               T1(x, y) == Given([n \in DOMAIN y |-> y[n][1]], LAMBDA first : T(x, first))
    <3> DEFINE S == [d EXCEPT !.seen = Tail(@)]
               H == Head(d.seen)
               F == [n \in DOMAIN H |-> H[n][1]]
               k == [n \in N |-> MM(n)]
               z == T1(S, H)
    <3>2. B0(d) = Call(d, N, M, T)
      OBVIOUS
    <3>3. Call(d, N, M, T) = CallAll(d, N, MM, T1)
      BY DEF Call
    <3>4. CallAll(d, N, MM, T1) =
           IF N = {} THEN End(d, <<Raise>>)
           ELSE First(CallStep(k), IF d.seen = <<>> THEN End(d, <<>>) ELSE T1(S, H))
      <4> HIDE DEF T1, MM, N
      <4> QED
        BY DEF CallAll, Given
    <3>5. d.seen # <<>> => Quiet(z)
      <4>1. z = T(S, F)
        <5> HIDE DEF T, S, H
        <5> QED
          BY DEF Given
      <4>2. DOMAIN F = DOMAIN H
        OBVIOUS
      <4>3. d.seen # <<>> => Fit(S) /\ DOMAIN H \subseteq Machines
        BY <1>3, FitRest DEF Rest
      <4> HIDE DEF z, T, S, F, H
      <4> QED
        BY <3>1, <4>1, <4>3, <4>2
    <3>6. ASSUME NEW n \in N PROVE Asked(MM(n))
      BY <1>0, AskedOne
    <3>7. N \in SUBSET Machines
      BY PrincipalIsNode DEF Machines
    <3>8. DOMAIN k = N /\ \A n \in N : k[n] = MM(n)
      OBVIOUS
    <3> HIDE DEF k, z, T1, T, MM, N, S, H, F, M
    <3>9. ReadAsked(k)
      BY <3>6, <3>7, <3>8 DEF ReadAsked
    <3>10. Quiet(CallPlan(d, k, z))
      BY <3>5, <3>9, CallQuiet
    <3>11. CallAll(d, N, MM, T1) = IF N = {} THEN End(d, <<Raise>>) ELSE CallPlan(d, k, z)
      BY <3>4 DEF CallPlan, z
    <3>12. Quiet(B0(d))
      BY <3>2, <3>3, <3>10, <3>11, EndsQuiet
    <3> QED
      BY <3>12
<1> HIDE DEF B0, mod, g
<1>4. Quiet(B0(Grouped(c, {}, mod, g)))
  BY <1>3, GroupedGood
<1> QED
  BY <1>1, <1>2, <1>4

(* show users only reads.                                                  *)
LEMMA ShowUsersControllerQuiet ==
  ASSUME NEW c, Fit(c)
  PROVE  Quiet(ShowUsersController(c))
<1> DEFINE m == IF c.line = <<>> THEN admin_query_users ELSE admin_query_user(Word(c))
<1>1. Reading(m)
  BY ReadsSimple, ReadsListed
<1>2. ShowUsersController(c) = AskedOfPrincipal(c, m, {}, TRUE)
  BY DEF ShowUsersController
<1> HIDE DEF m
<1> QED
  BY <1>1, <1>2, AskedOfPrincipalQuiet

(* show roles only reads.                                                  *)
LEMMA ShowRolesControllerQuiet ==
  ASSUME NEW c, Fit(c)
  PROVE  Quiet(ShowRolesController(c))
<1> DEFINE m == IF c.line = <<>> THEN admin_query_roles ELSE admin_query_role(Word(c))
<1>1. Reading(m)
  BY ReadsSimple, ReadsListed
<1>2. ShowRolesController(c) = AskedOfPrincipal(c, m, {}, TRUE)
  BY DEF ShowRolesController
<1> HIDE DEF m
<1> QED
  BY <1>1, <1>2, AskedOfPrincipalQuiet

(* show udfs only reads.                                                   *)
LEMMA ShowUdfsControllerQuiet ==
  ASSUME NEW c, Fit(c)
  PROVE  Quiet(ShowUdfsController(c))
<1> DEFINE m == info_udf_list
<1>1. Reading(m)
  BY ReadsSimple, ReadsListed
<1>2. ShowUdfsController(c) = AskedOfPrincipal(c, m, {"like", "for"}, FALSE)
  BY DEF ShowUdfsController
<1> HIDE DEF m
<1> QED
  BY <1>1, <1>2, AskedOfPrincipalQuiet

(* show sindex only reads.                                                 *)
LEMMA ShowSIndexControllerQuiet ==
  ASSUME NEW c, Fit(c)
  PROVE  Quiet(ShowSIndexController(c))
<1> DEFINE m == info_sindex
<1>1. Reading(m)
  BY ReadsSimple, ReadsListed
<1>2. ShowSIndexController(c) = AskedOfPrincipal(c, m, {"like"}, FALSE)
  BY DEF ShowSIndexController
<1> HIDE DEF m
<1> QED
  BY <1>1, <1>2, AskedOfPrincipalQuiet

(* show racks only reads.                                                  *)
LEMMA ShowRacksControllerQuiet ==
  ASSUME NEW c, Fit(c)
  PROVE  Quiet(ShowRacksController(c))
<1> DEFINE m == info_racks
<1>1. Reading(m)
  BY ReadsSimple, ReadsListed
<1>2. ShowRacksController(c) = AskedOfPrincipal(c, m, {"with"}, FALSE)
  BY DEF ShowRacksController
<1> HIDE DEF m
<1> QED
  BY <1>1, <1>2, AskedOfPrincipalQuiet

(* show roster only reads.                                                 *)
LEMMA ShowRosterControllerQuiet ==
  ASSUME NEW c, Fit(c)
  PROVE  Quiet(ShowRosterController(c))
<1> DEFINE mod == {"for", "with", "diff"}  g == parse_modifiers(c.line, {} \union mod)
           B0(d) == Report(d, <<get_roster(d.nodes)>>)
<1>1. ShowRosterController(c) = pre_command(c, {}, mod, B0)
  BY DEF ShowRosterController, Leaf
<1>2. pre_command(c, {}, mod, B0) = B0(Grouped(c, {}, mod, g))
  <2> HIDE DEF B0, mod
  <2> QED
    BY DEF pre_command, WithGroups, Given
<1>3. ASSUME NEW d, Fit(d) PROVE Quiet(B0(d))
  <2>0. d.nodes \in SUBSET Machines
    BY <1>3, FitNodes
  <2> DEFINE s == <<get_roster(d.nodes)>>
  <2>1. IsReport(s)
    BY <2>0, SectionsRead, ReportOne, ReportPair, ReportJoined, get_namespaceRead,
      get_namespace_statisticsRead, get_sindex_statsRead
  <2> HIDE DEF s
  <2>2. Quiet(Report(d, s))
    BY <2>1, ReportQuiet
  <2> QED
    BY <2>2 DEF s
<1> HIDE DEF B0, mod, g
<1>4. Quiet(B0(Grouped(c, {}, mod, g)))
  BY <1>3, GroupedGood
<1> QED
  BY <1>1, <1>2, <1>4

(* show best practices only reads.                                         *)
LEMMA ShowBestPracticesControllerQuiet ==
  ASSUME NEW c, Fit(c)
  PROVE  Quiet(ShowBestPracticesController(c))
<1> DEFINE mod == {"with"}  g == parse_modifiers(c.line, {} \union mod)
           B0(d) == ReportAfter(IF \E n \in Node : ~AtLeast(n, SERVER_SHOW_BEST_PRACTICES_FIRST_VERSION) THEN <<Warn>> ELSE <<>>,
             d, <<Builds_(Node), Practices_(d.nodes)>>)
<1>1. ShowBestPracticesController(c) = pre_command(c, {}, mod, B0)
  BY DEF ShowBestPracticesController, Leaf, Builds_, Practices_
<1>2. pre_command(c, {}, mod, B0) = B0(Grouped(c, {}, mod, g))
  <2> HIDE DEF B0, mod
  <2> QED
    BY DEF pre_command, WithGroups, Given
<1>3. ASSUME NEW d, Fit(d) PROVE Quiet(B0(d))
  <2>0. d.nodes \in SUBSET Machines
    BY <1>3, FitNodes
  <2> DEFINE s == <<Builds_(Node), Practices_(d.nodes)>>
             u == IF \E n \in Node : ~AtLeast(n, SERVER_SHOW_BEST_PRACTICES_FIRST_VERSION) THEN <<Warn>> ELSE <<>>
  <2>1. Node \in SUBSET Machines
    BY DEF Machines
  <2>2. IsReport(s)
    BY <2>0, <2>1, SectionsRead, ReportOne, ReportPair, ReportJoined, get_namespaceRead,
      get_namespace_statisticsRead, get_sindex_statsRead
  <2>3. SilentSteps(u)
    BY SilentStep, Helps, StepKinds
  <2> HIDE DEF s, u
  <2>4. Quiet(ReportAfter(u, d, s))
    BY <2>2, <2>3, ReportAfterQuiet
  <2> QED
    BY <2>4 DEF s, u
<1> HIDE DEF B0, mod, g
<1>4. Quiet(B0(Grouped(c, {}, mod, g)))
  BY <1>3, GroupedGood
<1> QED
  BY <1>1, <1>2, <1>4

JobsQueries(x) == Leaf(x, {"with", "like", "trid"}, LAMBDA d : Report(d, <<get_query(d.nodes)>>))

(* show jobs queries only reads.                                           *)
LEMMA JobsQueriesQuiet ==
  ASSUME NEW c, Fit(c)
  PROVE  Quiet(JobsQueries(c))
<1> DEFINE mod == {"with", "like", "trid"}  g == parse_modifiers(c.line, {} \union mod)
           B0(d) == Report(d, <<get_query(d.nodes)>>)
<1>1. JobsQueries(c) = pre_command(c, {}, mod, B0)
  BY DEF JobsQueries, Leaf
<1>2. pre_command(c, {}, mod, B0) = B0(Grouped(c, {}, mod, g))
  <2> HIDE DEF B0, mod
  <2> QED
    BY DEF pre_command, WithGroups, Given
<1>3. ASSUME NEW d, Fit(d) PROVE Quiet(B0(d))
  <2>0. d.nodes \in SUBSET Machines
    BY <1>3, FitNodes
  <2> DEFINE s == <<get_query(d.nodes)>>
  <2>1. IsReport(s)
    BY <2>0, SectionsRead, ReportOne, ReportPair, ReportJoined, get_namespaceRead,
      get_namespace_statisticsRead, get_sindex_statsRead
  <2> HIDE DEF s
  <2>2. Quiet(Report(d, s))
    BY <2>1, ReportQuiet
  <2> QED
    BY <2>2 DEF s
<1> HIDE DEF B0, mod, g
<1>4. Quiet(B0(Grouped(c, {}, mod, g)))
  BY <1>3, GroupedGood
<1> QED
  BY <1>1, <1>2, <1>4

JobsScans(x) == Leaf(x, {"with", "like", "trid"},
  LAMBDA d : After(d, d.nodes, LAMBDA n : info_build,
  LAMBDA e, answers : IF _supported(answers, SERVER_QUERIES_ABORT_ALL_FIRST_VERSION)
  THEN Report(e, <<get_scans(e.nodes)>>) ELSE End(e, <<Complain>>)))

(* show jobs scans only reads.                                             *)
LEMMA JobsScansQuiet ==
  ASSUME NEW c, Fit(c)
  PROVE  Quiet(JobsScans(c))
<1> DEFINE mod == {"with", "like", "trid"}  g == parse_modifiers(c.line, {} \union mod)
           B0(d) == After(d, d.nodes, LAMBDA n : info_build,
             LAMBDA e, answers : IF _supported(answers, SERVER_QUERIES_ABORT_ALL_FIRST_VERSION)
             THEN Report(e, <<get_scans(e.nodes)>>) ELSE End(e, <<Complain>>))
<1>1. JobsScans(c) = pre_command(c, {}, mod, B0)
  BY DEF JobsScans, Leaf
<1>2. pre_command(c, {}, mod, B0) = B0(Grouped(c, {}, mod, g))
  <2> HIDE DEF B0, mod
  <2> QED
    BY DEF pre_command, WithGroups, Given
<1>3. ASSUME NEW d, Fit(d) PROVE Quiet(B0(d))
  <2>0. d.nodes \in SUBSET Machines
    BY <1>3, FitNodes
  <2> QED
    <3> DEFINE T(e, answers) == IF _supported(answers, SERVER_QUERIES_ABORT_ALL_FIRST_VERSION)
                 THEN Report(e, <<get_scans(e.nodes)>>) ELSE End(e, <<Complain>>)
    <3>1. ASSUME NEW e, Fit(e), NEW answers, DOMAIN answers \subseteq Machines PROVE Quiet(T(e, answers))
      <4>0. e.nodes \in SUBSET Machines
        BY <3>1, FitNodes
      <4>1. Quiet(Report(e, <<get_scans(e.nodes)>>))
        <5> DEFINE s == <<get_scans(e.nodes)>>
        <5>1. IsReport(s)
          BY <4>0, SectionsRead, ReportOne, ReportPair, ReportJoined, get_namespaceRead,
            get_namespace_statisticsRead, get_sindex_statsRead
        <5> HIDE DEF s
        <5>2. Quiet(Report(e, s))
          BY <5>1, ReportQuiet
        <5> QED
          BY <5>2 DEF s
      <4> QED
        BY <4>1, EndsQuiet
    <3> DEFINE M(n) == info_build
               N == d.nodes
               MM(n) == <<M(n)>>
               T1(x, y) == Given([n \in DOMAIN y |-> y[n][1]], LAMBDA first : T(x, first))
    <3> DEFINE S == [d EXCEPT !.seen = Tail(@)]
               H == Head(d.seen)
               F == [n \in DOMAIN H |-> H[n][1]]
               k == [n \in N |-> MM(n)]
               z == T1(S, H)
    <3>2. B0(d) = Call(d, N, M, T)
      BY DEF After
    <3>3. Call(d, N, M, T) = CallAll(d, N, MM, T1)
      BY DEF Call
    <3>4. CallAll(d, N, MM, T1) =
           IF N = {} THEN End(d, <<Raise>>)
           ELSE First(CallStep(k), IF d.seen = <<>> THEN End(d, <<>>) ELSE T1(S, H))
      <4> HIDE DEF T1, MM, N
      <4> QED
        BY DEF CallAll, Given
    <3>5. d.seen # <<>> => Quiet(z)
      <4>1. z = T(S, F)
        <5> HIDE DEF T, S, H
        <5> QED
          BY DEF Given
      <4>2. DOMAIN F = DOMAIN H
        OBVIOUS
      <4>3. d.seen # <<>> => Fit(S) /\ DOMAIN H \subseteq Machines
        BY <1>3, FitRest DEF Rest
      <4> HIDE DEF z, T, S, F, H
      <4> QED
        BY <3>1, <4>1, <4>3, <4>2
    <3>6. ASSUME NEW n \in N PROVE Asked(MM(n))
      BY ReadsSimple, ReadsListed, ReadsOf, ReadsAll, ReadsXdr, AskedOne
    <3>7. N \in SUBSET Machines
      BY <2>0
    <3>8. DOMAIN k = N /\ \A n \in N : k[n] = MM(n)
      OBVIOUS
    <3> HIDE DEF k, z, T1, T, MM, N, S, H, F, M
    <3>9. ReadAsked(k)
      BY <3>6, <3>7, <3>8 DEF ReadAsked
    <3>10. Quiet(CallPlan(d, k, z))
      BY <3>5, <3>9, CallQuiet
    <3>11. CallAll(d, N, MM, T1) = IF N = {} THEN End(d, <<Raise>>) ELSE CallPlan(d, k, z)
      BY <3>4 DEF CallPlan, z
    <3>12. Quiet(B0(d))
      BY <3>2, <3>3, <3>10, <3>11, EndsQuiet
    <3> QED
      BY <3>12
<1> HIDE DEF B0, mod, g
<1>4. Quiet(B0(Grouped(c, {}, mod, g)))
  BY <1>3, GroupedGood
<1> QED
  BY <1>1, <1>2, <1>4

JobsBuilders(x) == Leaf(x, {"with", "like", "trid"},
  LAMBDA d : After(d, d.nodes, LAMBDA n : info_build,
  LAMBDA e, answers : IF _supported(answers, SERVER_SINDEX_BUILDER_REMOVED_VERSION)
  THEN Report(e, <<get_sindex_builder(e.nodes)>>) ELSE End(e, <<Complain>>)))

(* show jobs sindex-builder only reads.                                    *)
LEMMA JobsBuildersQuiet ==
  ASSUME NEW c, Fit(c)
  PROVE  Quiet(JobsBuilders(c))
<1> DEFINE mod == {"with", "like", "trid"}  g == parse_modifiers(c.line, {} \union mod)
           B0(d) == After(d, d.nodes, LAMBDA n : info_build,
             LAMBDA e, answers : IF _supported(answers, SERVER_SINDEX_BUILDER_REMOVED_VERSION)
             THEN Report(e, <<get_sindex_builder(e.nodes)>>) ELSE End(e, <<Complain>>))
<1>1. JobsBuilders(c) = pre_command(c, {}, mod, B0)
  BY DEF JobsBuilders, Leaf
<1>2. pre_command(c, {}, mod, B0) = B0(Grouped(c, {}, mod, g))
  <2> HIDE DEF B0, mod
  <2> QED
    BY DEF pre_command, WithGroups, Given
<1>3. ASSUME NEW d, Fit(d) PROVE Quiet(B0(d))
  <2>0. d.nodes \in SUBSET Machines
    BY <1>3, FitNodes
  <2> QED
    <3> DEFINE T(e, answers) == IF _supported(answers, SERVER_SINDEX_BUILDER_REMOVED_VERSION)
                 THEN Report(e, <<get_sindex_builder(e.nodes)>>) ELSE End(e, <<Complain>>)
    <3>1. ASSUME NEW e, Fit(e), NEW answers, DOMAIN answers \subseteq Machines PROVE Quiet(T(e, answers))
      <4>0. e.nodes \in SUBSET Machines
        BY <3>1, FitNodes
      <4>1. Quiet(Report(e, <<get_sindex_builder(e.nodes)>>))
        <5> DEFINE s == <<get_sindex_builder(e.nodes)>>
        <5>1. IsReport(s)
          BY <4>0, SectionsRead, ReportOne, ReportPair, ReportJoined, get_namespaceRead,
            get_namespace_statisticsRead, get_sindex_statsRead
        <5> HIDE DEF s
        <5>2. Quiet(Report(e, s))
          BY <5>1, ReportQuiet
        <5> QED
          BY <5>2 DEF s
      <4> QED
        BY <4>1, EndsQuiet
    <3> DEFINE M(n) == info_build
               N == d.nodes
               MM(n) == <<M(n)>>
               T1(x, y) == Given([n \in DOMAIN y |-> y[n][1]], LAMBDA first : T(x, first))
    <3> DEFINE S == [d EXCEPT !.seen = Tail(@)]
               H == Head(d.seen)
               F == [n \in DOMAIN H |-> H[n][1]]
               k == [n \in N |-> MM(n)]
               z == T1(S, H)
    <3>2. B0(d) = Call(d, N, M, T)
      BY DEF After
    <3>3. Call(d, N, M, T) = CallAll(d, N, MM, T1)
      BY DEF Call
    <3>4. CallAll(d, N, MM, T1) =
           IF N = {} THEN End(d, <<Raise>>)
           ELSE First(CallStep(k), IF d.seen = <<>> THEN End(d, <<>>) ELSE T1(S, H))
      <4> HIDE DEF T1, MM, N
      <4> QED
        BY DEF CallAll, Given
    <3>5. d.seen # <<>> => Quiet(z)
      <4>1. z = T(S, F)
        <5> HIDE DEF T, S, H
        <5> QED
          BY DEF Given
      <4>2. DOMAIN F = DOMAIN H
        OBVIOUS
      <4>3. d.seen # <<>> => Fit(S) /\ DOMAIN H \subseteq Machines
        BY <1>3, FitRest DEF Rest
      <4> HIDE DEF z, T, S, F, H
      <4> QED
        BY <3>1, <4>1, <4>3, <4>2
    <3>6. ASSUME NEW n \in N PROVE Asked(MM(n))
      BY ReadsSimple, ReadsListed, ReadsOf, ReadsAll, ReadsXdr, AskedOne
    <3>7. N \in SUBSET Machines
      BY <2>0
    <3>8. DOMAIN k = N /\ \A n \in N : k[n] = MM(n)
      OBVIOUS
    <3> HIDE DEF k, z, T1, T, MM, N, S, H, F, M
    <3>9. ReadAsked(k)
      BY <3>6, <3>7, <3>8 DEF ReadAsked
    <3>10. Quiet(CallPlan(d, k, z))
      BY <3>5, <3>9, CallQuiet
    <3>11. CallAll(d, N, MM, T1) = IF N = {} THEN End(d, <<Raise>>) ELSE CallPlan(d, k, z)
      BY <3>4 DEF CallPlan, z
    <3>12. Quiet(B0(d))
      BY <3>2, <3>3, <3>10, <3>11, EndsQuiet
    <3> QED
      BY <3>12
<1> HIDE DEF B0, mod, g
<1>4. Quiet(B0(Grouped(c, {}, mod, g)))
  BY <1>3, GroupedGood
<1> QED
  BY <1>1, <1>2, <1>4

JobsAll(x) == Leaf(x, {"with", "like", "trid"},
  LAMBDA d : After(d, d.nodes, LAMBDA n : info_build, LAMBDA e, answers : Report(e, <<get_query(e.nodes)>>
                          \o (IF _supported(answers, SERVER_QUERIES_ABORT_ALL_FIRST_VERSION)
                            THEN <<get_scans(e.nodes)>> ELSE <<>>)
                          \o (IF _supported(answers, SERVER_SINDEX_BUILDER_REMOVED_VERSION)
                            THEN <<get_sindex_builder(e.nodes)>> ELSE <<>>))))

(* show jobs only reads.                                                   *)
LEMMA JobsAllQuiet ==
  ASSUME NEW c, Fit(c)
  PROVE  Quiet(JobsAll(c))
<1> DEFINE mod == {"with", "like", "trid"}  g == parse_modifiers(c.line, {} \union mod)
           B0(d) == After(d, d.nodes, LAMBDA n : info_build, LAMBDA e, answers : Report(e, <<get_query(e.nodes)>>
                          \o (IF _supported(answers, SERVER_QUERIES_ABORT_ALL_FIRST_VERSION)
                            THEN <<get_scans(e.nodes)>> ELSE <<>>)
                          \o (IF _supported(answers, SERVER_SINDEX_BUILDER_REMOVED_VERSION)
                            THEN <<get_sindex_builder(e.nodes)>> ELSE <<>>)))
<1>1. JobsAll(c) = pre_command(c, {}, mod, B0)
  BY DEF JobsAll, Leaf
<1>2. pre_command(c, {}, mod, B0) = B0(Grouped(c, {}, mod, g))
  <2> HIDE DEF B0, mod
  <2> QED
    BY DEF pre_command, WithGroups, Given
<1>3. ASSUME NEW d, Fit(d) PROVE Quiet(B0(d))
  <2>0. d.nodes \in SUBSET Machines
    BY <1>3, FitNodes
  <2> QED
    <3> DEFINE T(e, answers) == Report(e, <<get_query(e.nodes)>>
                              \o (IF _supported(answers, SERVER_QUERIES_ABORT_ALL_FIRST_VERSION)
                                THEN <<get_scans(e.nodes)>> ELSE <<>>)
                              \o (IF _supported(answers, SERVER_SINDEX_BUILDER_REMOVED_VERSION)
                                THEN <<get_sindex_builder(e.nodes)>> ELSE <<>>))
    <3>1. ASSUME NEW e, Fit(e), NEW answers, DOMAIN answers \subseteq Machines PROVE Quiet(T(e, answers))
      <4>0. e.nodes \in SUBSET Machines
        BY <3>1, FitNodes
      <4> DEFINE s == <<get_query(e.nodes)>>
                                \o (IF _supported(answers, SERVER_QUERIES_ABORT_ALL_FIRST_VERSION)
                                  THEN <<get_scans(e.nodes)>> ELSE <<>>)
                                \o (IF _supported(answers, SERVER_SINDEX_BUILDER_REMOVED_VERSION)
                                  THEN <<get_sindex_builder(e.nodes)>> ELSE <<>>)
      <4>1. IsReport(s)
        BY <3>1, <4>0, SectionsRead, ReportOne, ReportPair, ReportJoined, get_namespaceRead,
          get_namespace_statisticsRead, get_sindex_statsRead
      <4> HIDE DEF s
      <4>2. Quiet(Report(e, s))
        BY <4>1, ReportQuiet
      <4> QED
        BY <4>2 DEF s
    <3> DEFINE M(n) == info_build
               N == d.nodes
               MM(n) == <<M(n)>>
               T1(x, y) == Given([n \in DOMAIN y |-> y[n][1]], LAMBDA first : T(x, first))
    <3> DEFINE S == [d EXCEPT !.seen = Tail(@)]
               H == Head(d.seen)
               F == [n \in DOMAIN H |-> H[n][1]]
               k == [n \in N |-> MM(n)]
               z == T1(S, H)
    <3>2. B0(d) = Call(d, N, M, T)
      BY DEF After
    <3>3. Call(d, N, M, T) = CallAll(d, N, MM, T1)
      BY DEF Call
    <3>4. CallAll(d, N, MM, T1) =
           IF N = {} THEN End(d, <<Raise>>)
           ELSE First(CallStep(k), IF d.seen = <<>> THEN End(d, <<>>) ELSE T1(S, H))
      <4> HIDE DEF T1, MM, N
      <4> QED
        BY DEF CallAll, Given
    <3>5. d.seen # <<>> => Quiet(z)
      <4>1. z = T(S, F)
        <5> HIDE DEF T, S, H
        <5> QED
          BY DEF Given
      <4>2. DOMAIN F = DOMAIN H
        OBVIOUS
      <4>3. d.seen # <<>> => Fit(S) /\ DOMAIN H \subseteq Machines
        BY <1>3, FitRest DEF Rest
      <4> HIDE DEF z, T, S, F, H
      <4> QED
        BY <3>1, <4>1, <4>3, <4>2
    <3>6. ASSUME NEW n \in N PROVE Asked(MM(n))
      BY ReadsSimple, ReadsListed, ReadsOf, ReadsAll, ReadsXdr, AskedOne
    <3>7. N \in SUBSET Machines
      BY <2>0
    <3>8. DOMAIN k = N /\ \A n \in N : k[n] = MM(n)
      OBVIOUS
    <3> HIDE DEF k, z, T1, T, MM, N, S, H, F, M
    <3>9. ReadAsked(k)
      BY <3>6, <3>7, <3>8 DEF ReadAsked
    <3>10. Quiet(CallPlan(d, k, z))
      BY <3>5, <3>9, CallQuiet
    <3>11. CallAll(d, N, MM, T1) = IF N = {} THEN End(d, <<Raise>>) ELSE CallPlan(d, k, z)
      BY <3>4 DEF CallPlan, z
    <3>12. Quiet(B0(d))
      BY <3>2, <3>3, <3>10, <3>11, EndsQuiet
    <3> QED
      BY <3>12
<1> HIDE DEF B0, mod, g
<1>4. Quiet(B0(Grouped(c, {}, mod, g)))
  BY <1>3, GroupedGood
<1> QED
  BY <1>1, <1>2, <1>4

(* show jobs only reads.                                                   *)
LEMMA ShowJobsControllerQuiet ==
  ASSUME NEW c, Fit(c)
  PROVE  Quiet(ShowJobsController(c))
<1> DEFINE p1 == JobsQueries(Popped(c))
           p2 == JobsScans(Popped(c))
           p3 == JobsBuilders(Popped(c))
           p0 == JobsAll(c)
<1>1. Quiet(p1) /\ Quiet(p2) /\ Quiet(p3)
  BY PoppedGood, JobsQueriesQuiet, JobsScansQuiet, JobsBuildersQuiet
<1>2. Quiet(p0)
  BY JobsAllQuiet
<1>3. ShowJobsController(c) =
    CASE Word(c) = "queries" -> p1
      [] Word(c) = "scans" -> p2
      [] Word(c) = "sindex-builder" -> p3
      [] OTHER -> p0
  BY DEF ShowJobsController, JobsQueries, JobsScans, JobsBuilders, JobsAll
<1> HIDE DEF p0, p1, p2, p3
<1> QED
  BY <1>1, <1>2, <1>3

-----------------------------------------------------------------------------
(* show latencies, info, and the commands of one word.                     *)

(* The namespaces among the names of a line are a list.                    *)
LEMMA AmongRead ==
  ASSUME NEW names
  PROVE  IsSeq(NamespacesAmong(names))
<1> DEFINE s == [i \in DOMAIN Namespaces |->
                 IF Contains(names, Namespaces[i]) THEN <<Namespaces[i]>> ELSE <<>>]
<1>1. IsSeq(s)
  BY NamesAre, SeqMapped
<1>2. ASSUME NEW i \in 1 .. Len(s) PROVE IsSeq(s[i])
  <2>1. DOMAIN s = DOMAIN Namespaces /\ i \in DOMAIN s
    BY <1>1, SeqLen
  <2>2. s[i] = <<Namespaces[i]>> \/ s[i] = <<>>
    BY <2>1
  <2> HIDE DEF s
  <2> QED
    BY <2>2, SeqOne
<1>3. NamespacesAmong(names) = FlattenSeq(s)
  BY DEF NamespacesAmong
<1> HIDE DEF s
<1> QED
  BY <1>1, <1>2, <1>3, Flattened
LatencyOf_(nodes, verbose, namespaces) ==
  Reads(nodes, "omits", LAMBDA n : info_latencies(verbose, namespaces))

(* The latencies of one form are only read.                                *)
LEMMA LatencyOfRead ==
  ASSUME NEW nodes \in SUBSET Machines, NEW verbose, NEW namespaces, IsSeq(namespaces)
  PROVE  IsSection(LatencyOf_(nodes, verbose, namespaces))
<1> DEFINE k == [n \in nodes |-> <<info_latencies(verbose, namespaces)>>]
<1>1. LatencyOf_(nodes, verbose, namespaces) = [rule |-> "omits", asks |-> k]
  BY DEF LatencyOf_, Reads, Section
<1>2. DOMAIN k = nodes /\ \A n \in nodes : Asked(k[n])
  BY ReadsAll, AskedOne
<1> HIDE DEF k
<1> QED
  BY <1>1, <1>2, SectionIs

(* The latencies are only read, by whichever command the builds of the     *)
(* nodes have.                                                             *)
LEMMA LatencyReport ==
  ASSUME NEW nodes \in SUBSET Machines, NEW builds, DOMAIN builds \subseteq Machines, NEW verbose,
         NEW namespaces, IsSeq(namespaces)
  PROVE  IsReport(GetLatenciesController(nodes, builds, verbose, namespaces))
<1> DEFINE by == get_latencies_and_latency_nodes(builds)
           x == LatencyOf_(nodes, verbose, namespaces)  y == Latency_(by.latency)
           z == LatencyOf_(by.latencies, verbose, namespaces)
<1>1. by.latency \in SUBSET Machines /\ by.latencies \in SUBSET Machines
  BY DEF get_latencies_and_latency_nodes, Came
<1>2. GetLatenciesController(nodes, builds, verbose, namespaces) \in {<<x>>, <<y>>, <<y, z>>}
  BY DEF GetLatenciesController, LatencyOf_, Latency_
<1> HIDE DEF by
<1>3. IsSection(x) /\ IsSection(z)
  BY <1>1, LatencyOfRead
<1>4. IsSection(y)
  BY <1>1, SectionsRead
<1> HIDE DEF x, y, z
<1> QED
  BY <1>2, <1>3, <1>4, ReportOne, ReportPair

ShowLatency_(x, namespaces) ==
  After(x, Node, LAMBDA n : info_build, LAMBDA e, answers :
               LET here == [n \in e.nodes |-> answers[n]]
                   report == Report(e, GetLatenciesController(e.nodes, answers, check_arg(e, "-v"), namespaces))
               IN IF get_latencies_and_latency_nodes(here).latency # {} \/ Came(here, "ok") = {}
                  THEN First(Warn, report) ELSE report)

(* The latencies are read, by whichever command the builds have.           *)
LEMMA ShowLatencyQuiet ==
  ASSUME NEW d, Fit(d), NEW namespaces, IsSeq(namespaces)
  PROVE  Quiet(ShowLatency_(d, namespaces))
<1>0. Node \in SUBSET Machines
  BY DEF Machines
<1>1. Fit(d)
  OBVIOUS
<1> QED
  <2> DEFINE T(e, answers) == LET here == [n \in e.nodes |-> answers[n]]
                     report == Report(e, GetLatenciesController(e.nodes, answers, check_arg(e, "-v"), namespaces))
                 IN IF get_latencies_and_latency_nodes(here).latency # {} \/ Came(here, "ok") = {}
                    THEN First(Warn, report) ELSE report
  <2>1. ASSUME NEW e, Fit(e), NEW answers, DOMAIN answers \subseteq Machines PROVE Quiet(T(e, answers))
    <3>0. e.nodes \in SUBSET Machines
      BY <2>1, FitNodes
    <3> DEFINE s == GetLatenciesController(e.nodes, answers, check_arg(e, "-v"), namespaces)
               r == Report(e, s)
    <3>1. IsReport(s)
      BY <2>1, <3>0, LatencyReport
    <3> HIDE DEF s
    <3>2. Quiet(r)
      BY <3>1, ReportQuiet
    <3>3. T(e, answers) = First(Warn, r) \/ T(e, answers) = r
      BY DEF s
    <3> HIDE DEF r, T
    <3>4. Quiet(First(Warn, r))
      BY <3>2, FirstQuiet, StepKinds
    <3> QED
      BY <3>2, <3>3, <3>4
  <2> DEFINE M(n) == info_build
             N == Node
             MM(n) == <<M(n)>>
             T1(x, y) == Given([n \in DOMAIN y |-> y[n][1]], LAMBDA first : T(x, first))
  <2> DEFINE S == [d EXCEPT !.seen = Tail(@)]
             H == Head(d.seen)
             F == [n \in DOMAIN H |-> H[n][1]]
             k == [n \in N |-> MM(n)]
             z == T1(S, H)
  <2>2. ShowLatency_(d, namespaces) = Call(d, N, M, T)
    BY DEF After, ShowLatency_
  <2>3. Call(d, N, M, T) = CallAll(d, N, MM, T1)
    BY DEF Call
  <2>4. CallAll(d, N, MM, T1) =
         IF N = {} THEN End(d, <<Raise>>)
         ELSE First(CallStep(k), IF d.seen = <<>> THEN End(d, <<>>) ELSE T1(S, H))
    <3> HIDE DEF T1, MM, N
    <3> QED
      BY DEF CallAll, Given
  <2>5. d.seen # <<>> => Quiet(z)
    <3>1. z = T(S, F)
      <4> HIDE DEF T, S, H
      <4> QED
        BY DEF Given
    <3>2. DOMAIN F = DOMAIN H
      OBVIOUS
    <3>3. d.seen # <<>> => Fit(S) /\ DOMAIN H \subseteq Machines
      BY <1>1, FitRest DEF Rest
    <3> HIDE DEF z, T, S, F, H
    <3> QED
      BY <2>1, <3>1, <3>3, <3>2
  <2>6. ASSUME NEW n \in N PROVE Asked(MM(n))
    BY ReadsSimple, ReadsListed, ReadsOf, ReadsAll, ReadsXdr, AskedOne
  <2>7. N \in SUBSET Machines
    BY <1>0
  <2>8. DOMAIN k = N /\ \A n \in N : k[n] = MM(n)
    OBVIOUS
  <2> HIDE DEF k, z, T1, T, MM, N, S, H, F, M
  <2>9. ReadAsked(k)
    BY <2>6, <2>7, <2>8 DEF ReadAsked
  <2>10. Quiet(CallPlan(d, k, z))
    BY <2>5, <2>9, CallQuiet
  <2>11. CallAll(d, N, MM, T1) = IF N = {} THEN End(d, <<Raise>>) ELSE CallPlan(d, k, z)
    BY <2>4 DEF CallPlan, z
  <2>12. Quiet(ShowLatency_(d, namespaces))
    BY <2>2, <2>3, <2>10, <2>11, EndsQuiet
  <2> QED
    BY <2>12

(* show latencies only reads.                                              *)
LEMMA ShowLatenciesControllerQuiet ==
  ASSUME NEW c, Fit(c)
  PROVE  Quiet(ShowLatenciesController(c))
<1> DEFINE mod == {"with", "like", "for"}  g == parse_modifiers(c.line, {} \union mod)
           B0(d) == IF ~Has(d, "for") THEN ShowLatency_(d, <<>>)
             ELSE After(d, d.nodes, LAMBDA n : info_namespaces,
             LAMBDA e, answers : ShowLatency_(e, IF Listed(answers) THEN NamespacesAmong(Mod(e, "for")) ELSE <<>>))
<1>1. ShowLatenciesController(c) = pre_command(c, {}, mod, B0)
  BY DEF ShowLatenciesController, Leaf, ShowLatency_
<1>2. pre_command(c, {}, mod, B0) = B0(Grouped(c, {}, mod, g))
  <2> HIDE DEF B0, mod
  <2> QED
    BY DEF pre_command, WithGroups, Given
<1>3. ASSUME NEW d, Fit(d) PROVE Quiet(B0(d))
  <2>0. d.nodes \in SUBSET Machines
    BY <1>3, FitNodes
  <2> DEFINE W == After(d, d.nodes, LAMBDA n : info_namespaces,
               LAMBDA e, answers : ShowLatency_(e, IF Listed(answers) THEN NamespacesAmong(Mod(e, "for")) ELSE <<>>))
             V == ShowLatency_(d, <<>>)
  <2>1. Quiet(V)
    BY <1>3, SeqOne, ShowLatencyQuiet
  <2>2. Quiet(W)
    <3> QED
      <4> DEFINE T(e, answers) == ShowLatency_(e, IF Listed(answers) THEN NamespacesAmong(Mod(e, "for")) ELSE <<>>)
      <4>1. ASSUME NEW e, Fit(e), NEW answers, DOMAIN answers \subseteq Machines PROVE Quiet(T(e, answers))
        <5>0. e.nodes \in SUBSET Machines
          BY <4>1, FitNodes
        <5> DEFINE s == IF Listed(answers) THEN NamespacesAmong(Mod(e, "for")) ELSE <<>>
        <5>1. IsSeq(s)
          BY AmongRead, SeqOne
        <5> HIDE DEF s
        <5>2. Quiet(ShowLatency_(e, s))
          BY <4>1, <5>1, ShowLatencyQuiet
        <5> QED
          BY <5>2 DEF s
      <4> DEFINE M(n) == info_namespaces
                 N == d.nodes
                 MM(n) == <<M(n)>>
                 T1(x, y) == Given([n \in DOMAIN y |-> y[n][1]], LAMBDA first : T(x, first))
      <4> DEFINE S == [d EXCEPT !.seen = Tail(@)]
                 H == Head(d.seen)
                 F == [n \in DOMAIN H |-> H[n][1]]
                 k == [n \in N |-> MM(n)]
                 z == T1(S, H)
      <4>2. W = Call(d, N, M, T)
        BY DEF After
      <4>3. Call(d, N, M, T) = CallAll(d, N, MM, T1)
        BY DEF Call
      <4>4. CallAll(d, N, MM, T1) =
             IF N = {} THEN End(d, <<Raise>>)
             ELSE First(CallStep(k), IF d.seen = <<>> THEN End(d, <<>>) ELSE T1(S, H))
        <5> HIDE DEF T1, MM, N
        <5> QED
          BY DEF CallAll, Given
      <4>5. d.seen # <<>> => Quiet(z)
        <5>1. z = T(S, F)
          <6> HIDE DEF T, S, H
          <6> QED
            BY DEF Given
        <5>2. DOMAIN F = DOMAIN H
          OBVIOUS
        <5>3. d.seen # <<>> => Fit(S) /\ DOMAIN H \subseteq Machines
          BY <1>3, FitRest DEF Rest
        <5> HIDE DEF z, T, S, F, H
        <5> QED
          BY <4>1, <5>1, <5>3, <5>2
      <4>6. ASSUME NEW n \in N PROVE Asked(MM(n))
        BY ReadsSimple, ReadsListed, ReadsOf, ReadsAll, ReadsXdr, AskedOne
      <4>7. N \in SUBSET Machines
        BY <2>0
      <4>8. DOMAIN k = N /\ \A n \in N : k[n] = MM(n)
        OBVIOUS
      <4> HIDE DEF k, z, T1, T, MM, N, S, H, F, M
      <4>9. ReadAsked(k)
        BY <4>6, <4>7, <4>8 DEF ReadAsked
      <4>10. Quiet(CallPlan(d, k, z))
        BY <4>5, <4>9, CallQuiet
      <4>11. CallAll(d, N, MM, T1) = IF N = {} THEN End(d, <<Raise>>) ELSE CallPlan(d, k, z)
        BY <4>4 DEF CallPlan, z
      <4>12. Quiet(W)
        BY <4>2, <4>3, <4>10, <4>11, EndsQuiet
      <4> QED
        BY <4>12
  <2>3. B0(d) = IF ~Has(d, "for") THEN V ELSE W
    OBVIOUS
  <2> HIDE DEF B0, V, W
  <2> QED
    BY <2>1, <2>2, <2>3
<1> HIDE DEF B0, mod, g
<1>4. Quiet(B0(Grouped(c, {}, mod, g)))
  BY <1>3, GroupedGood
<1> QED
  BY <1>1, <1>2, <1>4

(* show: whatever the line and whatever was answered, every request only   *)
(* reads.                                                                  *)
LEMMA ShowControllerQuiet ==
  ASSUME NEW c, Fit(c)
  PROVE  Quiet(ShowController(c))
<1> DEFINE p1 == ShowDistributionController(Popped(c))
           p2 == ShowMappingController(Popped(c))
           p3 == ShowPmapController(Popped(c))
           p4 == ShowBestPracticesController(Popped(c))
           p5 == ShowJobsController(Popped(c))
           p6 == ShowRacksController(Popped(c))
           p7 == ShowRosterController(Popped(c))
           p8 == ShowRolesController(Popped(c))
           p9 == ShowUsersController(Popped(c))
           p10 == ShowUdfsController(Popped(c))
           p11 == ShowSIndexController(Popped(c))
           p12 == ShowConfigController(Popped(c))
           p13 == ShowLatenciesController(Popped(c))
           p14 == ShowStatisticsController(Popped(c))
           p0 == execute_help(c)
<1>1. Quiet(p1) /\ Quiet(p2) /\ Quiet(p3) /\ Quiet(p4) /\ Quiet(p5) /\ Quiet(p6) /\ Quiet(p7) /\ Quiet(p8) /\ Quiet(p9) /\ Quiet(p10) /\ Quiet(p11) /\ Quiet(p12) /\ Quiet(p13) /\ Quiet(p14)
  BY PoppedGood, ShowDistributionControllerQuiet, ShowMappingControllerQuiet, ShowPmapControllerQuiet,
    ShowBestPracticesControllerQuiet, ShowJobsControllerQuiet, ShowRacksControllerQuiet,
    ShowRosterControllerQuiet, ShowRolesControllerQuiet, ShowUsersControllerQuiet, ShowUdfsControllerQuiet,
    ShowSIndexControllerQuiet, ShowConfigControllerQuiet, ShowLatenciesControllerQuiet, ShowStatisticsControllerQuiet
<1>2. Quiet(p0)
  BY HelpQuiet
<1>3. ShowController(c) =
    CASE Word(c) = "distribution" -> p1
      [] Word(c) = "mapping" -> p2
      [] Word(c) = "pmap" -> p3
      [] Word(c) = "best-practices" -> p4
      [] Word(c) = "jobs" -> p5
      [] Word(c) = "racks" -> p6
      [] Word(c) = "roster" -> p7
      [] Word(c) = "roles" -> p8
      [] Word(c) = "users" -> p9
      [] Word(c) = "udfs" -> p10
      [] Word(c) = "sindex" -> p11
      [] Word(c) = "config" -> p12
      [] Word(c) = "latencies" -> p13
      [] Word(c) = "statistics" -> p14
      [] OTHER -> p0
  BY DEF ShowController
<1> HIDE DEF p0, p1, p2, p3, p4, p5, p6, p7, p8, p9, p10, p11, p12, p13, p14
<1> QED
  BY <1>1, <1>2, <1>3

NamespaceUsage(x) == Leaf(x, {"with"}, LAMBDA d : Report(d, <<InfoUsage(d.nodes)>>))

(* info namespace usage only reads.                                        *)
LEMMA NamespaceUsageQuiet ==
  ASSUME NEW c, Fit(c)
  PROVE  Quiet(NamespaceUsage(c))
<1> DEFINE mod == {"with"}  g == parse_modifiers(c.line, {} \union mod)
           B0(d) == Report(d, <<InfoUsage(d.nodes)>>)
<1>1. NamespaceUsage(c) = pre_command(c, {}, mod, B0)
  BY DEF NamespaceUsage, Leaf
<1>2. pre_command(c, {}, mod, B0) = B0(Grouped(c, {}, mod, g))
  <2> HIDE DEF B0, mod
  <2> QED
    BY DEF pre_command, WithGroups, Given
<1>3. ASSUME NEW d, Fit(d) PROVE Quiet(B0(d))
  <2>0. d.nodes \in SUBSET Machines
    BY <1>3, FitNodes
  <2> DEFINE s == <<InfoUsage(d.nodes)>>
  <2>1. IsReport(s)
    BY <2>0, SectionsRead, ReportOne, ReportPair, ReportJoined, get_namespaceRead,
      get_namespace_statisticsRead, get_sindex_statsRead
  <2> HIDE DEF s
  <2>2. Quiet(Report(d, s))
    BY <2>1, ReportQuiet
  <2> QED
    BY <2>2 DEF s
<1> HIDE DEF B0, mod, g
<1>4. Quiet(B0(Grouped(c, {}, mod, g)))
  BY <1>3, GroupedGood
<1> QED
  BY <1>1, <1>2, <1>4

NamespaceObject(x) == Leaf(x, {"with"},
  LAMBDA d : After(d, d.nodes, LAMBDA n : info_namespaces,
  LAMBDA e, answers : Report(e, <<>> \o InfoObject(e.nodes, answers))))

(* info namespace object only reads.                                       *)
LEMMA NamespaceObjectQuiet ==
  ASSUME NEW c, Fit(c)
  PROVE  Quiet(NamespaceObject(c))
<1> DEFINE mod == {"with"}  g == parse_modifiers(c.line, {} \union mod)
           B0(d) == After(d, d.nodes, LAMBDA n : info_namespaces,
             LAMBDA e, answers : Report(e, <<>> \o InfoObject(e.nodes, answers)))
<1>1. NamespaceObject(c) = pre_command(c, {}, mod, B0)
  BY DEF NamespaceObject, Leaf
<1>2. pre_command(c, {}, mod, B0) = B0(Grouped(c, {}, mod, g))
  <2> HIDE DEF B0, mod
  <2> QED
    BY DEF pre_command, WithGroups, Given
<1>3. ASSUME NEW d, Fit(d) PROVE Quiet(B0(d))
  <2>0. d.nodes \in SUBSET Machines
    BY <1>3, FitNodes
  <2> QED
    <3> DEFINE T(e, answers) == Report(e, <<>> \o InfoObject(e.nodes, answers))
    <3>1. ASSUME NEW e, Fit(e), NEW answers, DOMAIN answers \subseteq Machines PROVE Quiet(T(e, answers))
      <4>0. e.nodes \in SUBSET Machines
        BY <3>1, FitNodes
      <4> DEFINE b == <<>>  x == get_namespace_statistics(e.nodes)  y == <<get_rack_ids(e.nodes)>>
                 s == <<>> \o InfoObject(e.nodes, answers)
      <4>1. IsReport(b) /\ IsReport(x) /\ IsReport(y) /\ IsReport(<<>>)
        BY <2>0, <4>0, SectionsRead, ReportOne, ReportPair, ReportJoined, get_namespaceRead,
          get_namespace_statisticsRead, get_sindex_statsRead
      <4>2. s = b \o ((IF Listed(answers) THEN x ELSE <<>>) \o y)
        BY DEF InfoObject
      <4> HIDE DEF b, x, y, s
      <4>3. IsReport(s)
        BY <4>1, <4>2, ReportJoined
      <4>4. Quiet(Report(e, s))
        BY <4>3, ReportQuiet
      <4> QED
        BY <4>4 DEF s
    <3> DEFINE M(n) == info_namespaces
               N == d.nodes
               MM(n) == <<M(n)>>
               T1(x, y) == Given([n \in DOMAIN y |-> y[n][1]], LAMBDA first : T(x, first))
    <3> DEFINE S == [d EXCEPT !.seen = Tail(@)]
               H == Head(d.seen)
               F == [n \in DOMAIN H |-> H[n][1]]
               k == [n \in N |-> MM(n)]
               z == T1(S, H)
    <3>2. B0(d) = Call(d, N, M, T)
      BY DEF After
    <3>3. Call(d, N, M, T) = CallAll(d, N, MM, T1)
      BY DEF Call
    <3>4. CallAll(d, N, MM, T1) =
           IF N = {} THEN End(d, <<Raise>>)
           ELSE First(CallStep(k), IF d.seen = <<>> THEN End(d, <<>>) ELSE T1(S, H))
      <4> HIDE DEF T1, MM, N
      <4> QED
        BY DEF CallAll, Given
    <3>5. d.seen # <<>> => Quiet(z)
      <4>1. z = T(S, F)
        <5> HIDE DEF T, S, H
        <5> QED
          BY DEF Given
      <4>2. DOMAIN F = DOMAIN H
        OBVIOUS
      <4>3. d.seen # <<>> => Fit(S) /\ DOMAIN H \subseteq Machines
        BY <1>3, FitRest DEF Rest
      <4> HIDE DEF z, T, S, F, H
      <4> QED
        BY <3>1, <4>1, <4>3, <4>2
    <3>6. ASSUME NEW n \in N PROVE Asked(MM(n))
      BY ReadsSimple, ReadsListed, ReadsOf, ReadsAll, ReadsXdr, AskedOne
    <3>7. N \in SUBSET Machines
      BY <2>0
    <3>8. DOMAIN k = N /\ \A n \in N : k[n] = MM(n)
      OBVIOUS
    <3> HIDE DEF k, z, T1, T, MM, N, S, H, F, M
    <3>9. ReadAsked(k)
      BY <3>6, <3>7, <3>8 DEF ReadAsked
    <3>10. Quiet(CallPlan(d, k, z))
      BY <3>5, <3>9, CallQuiet
    <3>11. CallAll(d, N, MM, T1) = IF N = {} THEN End(d, <<Raise>>) ELSE CallPlan(d, k, z)
      BY <3>4 DEF CallPlan, z
    <3>12. Quiet(B0(d))
      BY <3>2, <3>3, <3>10, <3>11, EndsQuiet
    <3> QED
      BY <3>12
<1> HIDE DEF B0, mod, g
<1>4. Quiet(B0(Grouped(c, {}, mod, g)))
  BY <1>3, GroupedGood
<1> QED
  BY <1>1, <1>2, <1>4

NamespaceAll(x) == Leaf(x, {"with"},
  LAMBDA d : After(d, d.nodes, LAMBDA n : info_namespaces,
  LAMBDA e, answers : Report(e, <<InfoUsage(d.nodes)>> \o InfoObject(e.nodes, answers))))

(* info namespace only reads.                                              *)
LEMMA NamespaceAllQuiet ==
  ASSUME NEW c, Fit(c)
  PROVE  Quiet(NamespaceAll(c))
<1> DEFINE mod == {"with"}  g == parse_modifiers(c.line, {} \union mod)
           B0(d) == After(d, d.nodes, LAMBDA n : info_namespaces,
             LAMBDA e, answers : Report(e, <<InfoUsage(d.nodes)>> \o InfoObject(e.nodes, answers)))
<1>1. NamespaceAll(c) = pre_command(c, {}, mod, B0)
  BY DEF NamespaceAll, Leaf
<1>2. pre_command(c, {}, mod, B0) = B0(Grouped(c, {}, mod, g))
  <2> HIDE DEF B0, mod
  <2> QED
    BY DEF pre_command, WithGroups, Given
<1>3. ASSUME NEW d, Fit(d) PROVE Quiet(B0(d))
  <2>0. d.nodes \in SUBSET Machines
    BY <1>3, FitNodes
  <2> QED
    <3> DEFINE T(e, answers) == Report(e, <<InfoUsage(d.nodes)>> \o InfoObject(e.nodes, answers))
    <3>1. ASSUME NEW e, Fit(e), NEW answers, DOMAIN answers \subseteq Machines PROVE Quiet(T(e, answers))
      <4>0. e.nodes \in SUBSET Machines
        BY <3>1, FitNodes
      <4> DEFINE b == <<InfoUsage(d.nodes)>>  x == get_namespace_statistics(e.nodes)  y == <<get_rack_ids(e.nodes)>>
                 s == <<InfoUsage(d.nodes)>> \o InfoObject(e.nodes, answers)
      <4>1. IsReport(b) /\ IsReport(x) /\ IsReport(y) /\ IsReport(<<>>)
        BY <2>0, <4>0, SectionsRead, ReportOne, ReportPair, ReportJoined, get_namespaceRead,
          get_namespace_statisticsRead, get_sindex_statsRead
      <4>2. s = b \o ((IF Listed(answers) THEN x ELSE <<>>) \o y)
        BY DEF InfoObject
      <4> HIDE DEF b, x, y, s
      <4>3. IsReport(s)
        BY <4>1, <4>2, ReportJoined
      <4>4. Quiet(Report(e, s))
        BY <4>3, ReportQuiet
      <4> QED
        BY <4>4 DEF s
    <3> DEFINE M(n) == info_namespaces
               N == d.nodes
               MM(n) == <<M(n)>>
               T1(x, y) == Given([n \in DOMAIN y |-> y[n][1]], LAMBDA first : T(x, first))
    <3> DEFINE S == [d EXCEPT !.seen = Tail(@)]
               H == Head(d.seen)
               F == [n \in DOMAIN H |-> H[n][1]]
               k == [n \in N |-> MM(n)]
               z == T1(S, H)
    <3>2. B0(d) = Call(d, N, M, T)
      BY DEF After
    <3>3. Call(d, N, M, T) = CallAll(d, N, MM, T1)
      BY DEF Call
    <3>4. CallAll(d, N, MM, T1) =
           IF N = {} THEN End(d, <<Raise>>)
           ELSE First(CallStep(k), IF d.seen = <<>> THEN End(d, <<>>) ELSE T1(S, H))
      <4> HIDE DEF T1, MM, N
      <4> QED
        BY DEF CallAll, Given
    <3>5. d.seen # <<>> => Quiet(z)
      <4>1. z = T(S, F)
        <5> HIDE DEF T, S, H
        <5> QED
          BY DEF Given
      <4>2. DOMAIN F = DOMAIN H
        OBVIOUS
      <4>3. d.seen # <<>> => Fit(S) /\ DOMAIN H \subseteq Machines
        BY <1>3, FitRest DEF Rest
      <4> HIDE DEF z, T, S, F, H
      <4> QED
        BY <3>1, <4>1, <4>3, <4>2
    <3>6. ASSUME NEW n \in N PROVE Asked(MM(n))
      BY ReadsSimple, ReadsListed, ReadsOf, ReadsAll, ReadsXdr, AskedOne
    <3>7. N \in SUBSET Machines
      BY <2>0
    <3>8. DOMAIN k = N /\ \A n \in N : k[n] = MM(n)
      OBVIOUS
    <3> HIDE DEF k, z, T1, T, MM, N, S, H, F, M
    <3>9. ReadAsked(k)
      BY <3>6, <3>7, <3>8 DEF ReadAsked
    <3>10. Quiet(CallPlan(d, k, z))
      BY <3>5, <3>9, CallQuiet
    <3>11. CallAll(d, N, MM, T1) = IF N = {} THEN End(d, <<Raise>>) ELSE CallPlan(d, k, z)
      BY <3>4 DEF CallPlan, z
    <3>12. Quiet(B0(d))
      BY <3>2, <3>3, <3>10, <3>11, EndsQuiet
    <3> QED
      BY <3>12
<1> HIDE DEF B0, mod, g
<1>4. Quiet(B0(Grouped(c, {}, mod, g)))
  BY <1>3, GroupedGood
<1> QED
  BY <1>1, <1>2, <1>4

(* info namespace only reads.                                              *)
LEMMA InfoNamespaceControllerQuiet ==
  ASSUME NEW c, Fit(c)
  PROVE  Quiet(InfoNamespaceController(c))
<1> DEFINE p1 == NamespaceUsage(Popped(c))
           p2 == NamespaceObject(Popped(c))
           p0 == NamespaceAll(c)
<1>1. Quiet(p1) /\ Quiet(p2)
  BY PoppedGood, NamespaceUsageQuiet, NamespaceObjectQuiet
<1>2. Quiet(p0)
  BY NamespaceAllQuiet
<1>3. InfoNamespaceController(c) =
    CASE Word(c) = "usage" -> p1
      [] Word(c) = "object" -> p2
      [] OTHER -> p0
  BY DEF InfoNamespaceController, NamespaceUsage, NamespaceObject, NamespaceAll
<1> HIDE DEF p0, p1, p2
<1> QED
  BY <1>1, <1>2, <1>3

(* info network only reads.                                                *)
LEMMA info_networkQuiet ==
  ASSUME NEW c, Fit(c)
  PROVE  Quiet(info_network(c))
<1> DEFINE mod == {"with", "for"}  g == parse_modifiers(c.line, {} \union mod)
           B0(d) == Report(d, <<InfoNetwork(d.nodes)>>)
<1>1. info_network(c) = pre_command(c, {}, mod, B0)
  BY DEF info_network, Leaf, info_leaf
<1>2. pre_command(c, {}, mod, B0) = B0(Grouped(c, {}, mod, g))
  <2> HIDE DEF B0, mod
  <2> QED
    BY DEF pre_command, WithGroups, Given
<1>3. ASSUME NEW d, Fit(d) PROVE Quiet(B0(d))
  <2>0. d.nodes \in SUBSET Machines
    BY <1>3, FitNodes
  <2> DEFINE s == <<InfoNetwork(d.nodes)>>
  <2>1. IsReport(s)
    BY <2>0, SectionsRead, ReportOne, ReportPair, ReportJoined, get_namespaceRead,
      get_namespace_statisticsRead, get_sindex_statsRead
  <2> HIDE DEF s
  <2>2. Quiet(Report(d, s))
    BY <2>1, ReportQuiet
  <2> QED
    BY <2>2 DEF s
<1> HIDE DEF B0, mod, g
<1>4. Quiet(B0(Grouped(c, {}, mod, g)))
  BY <1>3, GroupedGood
<1> QED
  BY <1>1, <1>2, <1>4

(* info set only reads.                                                    *)
LEMMA info_setQuiet ==
  ASSUME NEW c, Fit(c)
  PROVE  Quiet(info_set(c))
<1> DEFINE mod == {"with", "for"}  g == parse_modifiers(c.line, {} \union mod)
           B0(d) == Report(d, <<SetsKept_(d.nodes)>>)
<1>1. info_set(c) = pre_command(c, {}, mod, B0)
  BY DEF info_set, Leaf, info_leaf, SetsKept_
<1>2. pre_command(c, {}, mod, B0) = B0(Grouped(c, {}, mod, g))
  <2> HIDE DEF B0, mod
  <2> QED
    BY DEF pre_command, WithGroups, Given
<1>3. ASSUME NEW d, Fit(d) PROVE Quiet(B0(d))
  <2>0. d.nodes \in SUBSET Machines
    BY <1>3, FitNodes
  <2> DEFINE s == <<SetsKept_(d.nodes)>>
  <2>1. IsReport(s)
    BY <2>0, SectionsRead, ReportOne, ReportPair, ReportJoined, get_namespaceRead,
      get_namespace_statisticsRead, get_sindex_statsRead
  <2> HIDE DEF s
  <2>2. Quiet(Report(d, s))
    BY <2>1, ReportQuiet
  <2> QED
    BY <2>2 DEF s
<1> HIDE DEF B0, mod, g
<1>4. Quiet(B0(Grouped(c, {}, mod, g)))
  BY <1>3, GroupedGood
<1> QED
  BY <1>1, <1>2, <1>4

(* info dc only reads.                                                     *)
LEMMA info_dcQuiet ==
  ASSUME NEW c, Fit(c)
  PROVE  Quiet(info_dc(c))
<1> DEFINE mod == {"with", "for"}  g == parse_modifiers(c.line, {} \union mod)
           B0(d) == ByVersion(d, LAMBDA n : <<info_all_dc_statistics(n), info_dc_get_config>>)
<1>1. info_dc(c) = pre_command(c, {}, mod, B0)
  BY DEF info_dc, Leaf, info_leaf
<1>2. pre_command(c, {}, mod, B0) = B0(Grouped(c, {}, mod, g))
  <2> HIDE DEF B0, mod
  <2> QED
    BY DEF pre_command, WithGroups, Given
<1>3. ASSUME NEW d, Fit(d) PROVE Quiet(B0(d))
  <2>0. d.nodes \in SUBSET Machines
    BY <1>3, FitNodes
  <2> QED
    <3> DEFINE T(e, answers) == LET known == {n \in e.nodes : answers[n][1].came = "ok"}
                   stats == {n \in e.nodes : answers[n][2].came = "ok"}
               IN End(e, (IF \E n \in known : MajorVersion(n) < 5 THEN <<Shows("report", stats)>> ELSE <<>>)
                           \o (IF \E n \in known : MajorVersion(n) >= 5 THEN <<Warn>> ELSE <<>>))
    <3>1. ASSUME NEW e, Fit(e), NEW answers, DOMAIN answers \subseteq Machines PROVE Quiet(T(e, answers))
      <4>0. e.nodes \in SUBSET Machines
        BY <3>1, FitNodes
      <4> DEFINE stats == {n \in e.nodes : answers[n][2].came = "ok"}
             known == {n \in e.nodes : answers[n][1].came = "ok"}
             u == IF \E n \in known : MajorVersion(n) < 5 THEN <<Shows("report", stats)>> ELSE <<>>
             v == IF \E n \in known : MajorVersion(n) >= 5 THEN <<Warn>> ELSE <<>>
      <4>1. SilentSteps(u) /\ SilentSteps(v)
        <5> HIDE DEF stats, known
        <5> QED
      BY SilentStep, Helps, StepKinds
      <4>2. T(e, answers) = End(e, u \o v)
        OBVIOUS
      <4> HIDE DEF u, v, T
      <4> QED
        BY <4>1, <4>2, SilentJoined, EndQuiet
    <3> DEFINE N == d.nodes
               MM(n) == <<info_build>> \o <<info_all_dc_statistics(n), info_dc_get_config>>
               T1(x, y) == T(x, y)
    <3> DEFINE S == [d EXCEPT !.seen = Tail(@)]
               H == Head(d.seen)
               F == [n \in DOMAIN H |-> H[n][1]]
               k == [n \in N |-> MM(n)]
               z == T1(S, H)
    <3>2. B0(d) = CallAll(d, N, MM, T1)
      BY DEF ByVersion
    <3>3. B0(d) = CallAll(d, N, MM, T1)
      BY <3>2
    <3>4. CallAll(d, N, MM, T1) =
           IF N = {} THEN End(d, <<Raise>>)
           ELSE First(CallStep(k), IF d.seen = <<>> THEN End(d, <<>>) ELSE T1(S, H))
      <4> HIDE DEF T1, MM, N
      <4> QED
        BY DEF CallAll, Given
    <3>5. d.seen # <<>> => Quiet(z)
      <4>1. z = T(S, H)
        OBVIOUS
      <4>3. d.seen # <<>> => Fit(S) /\ DOMAIN H \subseteq Machines
        BY <1>3, FitRest DEF Rest
      <4> HIDE DEF z, T, S, F, H
      <4> QED
        BY <3>1, <4>1, <4>3
    <3>6. ASSUME NEW n \in N PROVE Asked(MM(n))
      <4>1. Asked(<<info_build>>) /\ Asked(<<info_all_dc_statistics(n), info_dc_get_config>>)
        BY ReadsSimple, ReadsListed, ReadsOf, ReadsAll, ReadsXdr, AskedOne, AskedMany
      <4> QED
        BY <4>1, AskedBoth
    <3>7. N \in SUBSET Machines
      BY <2>0
    <3>8. DOMAIN k = N /\ \A n \in N : k[n] = MM(n)
      OBVIOUS
    <3> HIDE DEF k, z, T1, T, MM, N, S, H, F
    <3>9. ReadAsked(k)
      BY <3>6, <3>7, <3>8 DEF ReadAsked
    <3>10. Quiet(CallPlan(d, k, z))
      BY <3>5, <3>9, CallQuiet
    <3>11. CallAll(d, N, MM, T1) = IF N = {} THEN End(d, <<Raise>>) ELSE CallPlan(d, k, z)
      BY <3>4 DEF CallPlan, z
    <3>12. Quiet(B0(d))
      BY <3>2, <3>3, <3>10, <3>11, EndsQuiet
    <3> QED
      BY <3>12
<1> HIDE DEF B0, mod, g
<1>4. Quiet(B0(Grouped(c, {}, mod, g)))
  BY <1>3, GroupedGood
<1> QED
  BY <1>1, <1>2, <1>4

(* info xdr only reads.                                                    *)
LEMMA info_xdrQuiet ==
  ASSUME NEW c, Fit(c)
  PROVE  Quiet(info_xdr(c))
<1> DEFINE mod == {"with", "for"}  g == parse_modifiers(c.line, {} \union mod)
           B0(d) == Report(d, <<InfoXdr(d.nodes)>>)
<1>1. info_xdr(c) = pre_command(c, {}, mod, B0)
  BY DEF info_xdr, Leaf, info_leaf
<1>2. pre_command(c, {}, mod, B0) = B0(Grouped(c, {}, mod, g))
  <2> HIDE DEF B0, mod
  <2> QED
    BY DEF pre_command, WithGroups, Given
<1>3. ASSUME NEW d, Fit(d) PROVE Quiet(B0(d))
  <2>0. d.nodes \in SUBSET Machines
    BY <1>3, FitNodes
  <2> DEFINE s == <<InfoXdr(d.nodes)>>
  <2>1. IsReport(s)
    BY <2>0, SectionsRead, ReportOne, ReportPair, ReportJoined, get_namespaceRead,
      get_namespace_statisticsRead, get_sindex_statsRead
  <2> HIDE DEF s
  <2>2. Quiet(Report(d, s))
    BY <2>1, ReportQuiet
  <2> QED
    BY <2>2 DEF s
<1> HIDE DEF B0, mod, g
<1>4. Quiet(B0(Grouped(c, {}, mod, g)))
  BY <1>3, GroupedGood
<1> QED
  BY <1>1, <1>2, <1>4

InfoSindex(x) == info_leaf(x, Sindex)

(* info sindex only reads.                                                 *)
LEMMA InfoSindexQuiet ==
  ASSUME NEW c, Fit(c)
  PROVE  Quiet(InfoSindex(c))
<1> DEFINE mod == {"with", "for"}  g == parse_modifiers(c.line, {} \union mod)
<1>1. InfoSindex(c) = pre_command(c, {}, mod, Sindex)
  BY DEF InfoSindex, Leaf, info_leaf
<1>2. pre_command(c, {}, mod, Sindex) = Sindex(Grouped(c, {}, mod, g))
  <2> HIDE DEF mod
  <2> QED
    BY DEF pre_command, WithGroups, Given
<1> HIDE DEF mod, g
<1> QED
  BY <1>1, <1>2, GroupedGood, SindexQuiet

InfoAll(x) == info_leaf(x, LAMBDA d : Leaf([d EXCEPT !.line = <<>>], {"with"},
  LAMBDA e : After(e, e.nodes, LAMBDA n : info_namespaces,
  LAMBDA f, answers : Report(f, <<InfoNetwork(d.nodes), InfoUsage(f.nodes), InfoXdr(d.nodes)>>
  \o InfoObject(f.nodes, answers)))))

(* info only reads.                                                        *)
LEMMA InfoAllQuiet ==
  ASSUME NEW c, Fit(c)
  PROVE  Quiet(InfoAll(c))
<1> DEFINE mod == {"with", "for"}  g == parse_modifiers(c.line, {} \union mod)
           B0(d) == Leaf([d EXCEPT !.line = <<>>], {"with"},
             LAMBDA e : After(e, e.nodes, LAMBDA n : info_namespaces,
             LAMBDA f, answers : Report(f, <<InfoNetwork(d.nodes), InfoUsage(f.nodes), InfoXdr(d.nodes)>>
             \o InfoObject(f.nodes, answers))))
<1>1. InfoAll(c) = pre_command(c, {}, mod, B0)
  BY DEF InfoAll, Leaf, info_leaf
<1>2. pre_command(c, {}, mod, B0) = B0(Grouped(c, {}, mod, g))
  <2> HIDE DEF B0, mod
  <2> QED
    BY DEF pre_command, WithGroups, Given
<1>3. ASSUME NEW d, Fit(d) PROVE Quiet(B0(d))
  <2>0. d.nodes \in SUBSET Machines
    BY <1>3, FitNodes
  <2> DEFINE x == [d EXCEPT !.line = <<>>]  m == {"with"}  h == parse_modifiers(x.line, {} \union m)
             C(e) == After(e, e.nodes, LAMBDA n : info_namespaces,
               LAMBDA f, answers : Report(f, <<InfoNetwork(d.nodes), InfoUsage(f.nodes), InfoXdr(d.nodes)>>
               \o InfoObject(f.nodes, answers)))
  <2>1. B0(d) = pre_command(x, {}, m, C)
    BY DEF Leaf
  <2>2. pre_command(x, {}, m, C) = C(Grouped(x, {}, m, h))
    <3> HIDE DEF C, m, x
    <3> QED
      BY DEF pre_command, WithGroups, Given
  <2>3. ASSUME NEW e, Fit(e) PROVE Quiet(C(e))
    <3>0. e.nodes \in SUBSET Machines
      BY <2>3, FitNodes
    <3> QED
      <4> DEFINE T(f, answers) == Report(f, <<InfoNetwork(d.nodes), InfoUsage(f.nodes), InfoXdr(d.nodes)>>
                   \o InfoObject(f.nodes, answers))
      <4>1. ASSUME NEW f, Fit(f), NEW answers, DOMAIN answers \subseteq Machines PROVE Quiet(T(f, answers))
        <5>0. f.nodes \in SUBSET Machines
          BY <4>1, FitNodes
        <5> DEFINE b == <<InfoNetwork(d.nodes), InfoUsage(f.nodes),
                     InfoXdr(d.nodes)>>  xs == get_namespace_statistics(f.nodes)  ys == <<get_rack_ids(f.nodes)>>
                   s == <<InfoNetwork(d.nodes), InfoUsage(f.nodes), InfoXdr(d.nodes)>> \o InfoObject(f.nodes, answers)
        <5>1. IsReport(b) /\ IsReport(xs) /\ IsReport(ys) /\ IsReport(<<>>)
          BY <2>0, <5>0, SectionsRead, ReportOne, ReportPair, ReportJoined, get_namespaceRead,
            get_namespace_statisticsRead, get_sindex_statsRead
        <5>2. s = b \o ((IF Listed(answers) THEN xs ELSE <<>>) \o ys)
          BY DEF InfoObject
        <5> HIDE DEF b, xs, ys, s
        <5>3. IsReport(s)
          BY <5>1, <5>2, ReportJoined
        <5>4. Quiet(Report(f, s))
          BY <5>3, ReportQuiet
        <5> QED
          BY <5>4 DEF s
      <4> DEFINE M(n) == info_namespaces
                 N == e.nodes
                 MM(n) == <<M(n)>>
                 T1(e2, w) == Given([n \in DOMAIN w |-> w[n][1]], LAMBDA first : T(e2, first))
      <4> DEFINE S == [e EXCEPT !.seen = Tail(@)]
                 H == Head(e.seen)
                 F == [n \in DOMAIN H |-> H[n][1]]
                 k == [n \in N |-> MM(n)]
                 z == T1(S, H)
      <4>2. C(e) = Call(e, N, M, T)
        BY DEF After
      <4>3. Call(e, N, M, T) = CallAll(e, N, MM, T1)
        BY DEF Call
      <4>4. CallAll(e, N, MM, T1) =
             IF N = {} THEN End(e, <<Raise>>)
             ELSE First(CallStep(k), IF e.seen = <<>> THEN End(e, <<>>) ELSE T1(S, H))
        <5> HIDE DEF T1, MM, N
        <5> QED
          BY DEF CallAll, Given
      <4>5. e.seen # <<>> => Quiet(z)
        <5>1. z = T(S, F)
          <6> HIDE DEF T, S, H
          <6> QED
            BY DEF Given
        <5>2. DOMAIN F = DOMAIN H
          OBVIOUS
        <5>3. e.seen # <<>> => Fit(S) /\ DOMAIN H \subseteq Machines
          BY <2>3, FitRest DEF Rest
        <5> HIDE DEF z, T, S, F, H
        <5> QED
          BY <4>1, <5>1, <5>3, <5>2
      <4>6. ASSUME NEW n \in N PROVE Asked(MM(n))
        BY ReadsSimple, ReadsListed, ReadsOf, ReadsAll, ReadsXdr, AskedOne
      <4>7. N \in SUBSET Machines
        BY <3>0
      <4>8. DOMAIN k = N /\ \A n \in N : k[n] = MM(n)
        OBVIOUS
      <4> HIDE DEF k, z, T1, T, MM, N, S, H, F, M
      <4>9. ReadAsked(k)
        BY <4>6, <4>7, <4>8 DEF ReadAsked
      <4>10. Quiet(CallPlan(e, k, z))
        BY <4>5, <4>9, CallQuiet
      <4>11. CallAll(e, N, MM, T1) = IF N = {} THEN End(e, <<Raise>>) ELSE CallPlan(e, k, z)
        BY <4>4 DEF CallPlan, z
      <4>12. Quiet(C(e))
        BY <4>2, <4>3, <4>10, <4>11, EndsQuiet
      <4> QED
        BY <4>12
  <2>4. Fit(x)
    BY <1>3, EditedGood
  <2> HIDE DEF C, x, m, h
  <2>5. Quiet(C(Grouped(x, {}, m, h)))
    BY <2>3, <2>4, GroupedGood
  <2> QED
    BY <2>1, <2>2, <2>5
<1> HIDE DEF B0, mod, g
<1>4. Quiet(B0(Grouped(c, {}, mod, g)))
  BY <1>3, GroupedGood
<1> QED
  BY <1>1, <1>2, <1>4

(* info: whatever the line and whatever was answered, every request only   *)
(* reads.                                                                  *)
LEMMA InfoControllerQuiet ==
  ASSUME NEW c, Fit(c)
  PROVE  Quiet(InfoController(c))
<1> DEFINE p1 == info_network(Popped(c))
           p2 == info_set(Popped(c))
           p3 == info_dc(Popped(c))
           p4 == info_xdr(Popped(c))
           p5 == InfoSindex(Popped(c))
           p6 == InfoNamespaceController(Popped(c))
           p0 == InfoAll(c)
<1>1. Quiet(p1) /\ Quiet(p2) /\ Quiet(p3) /\ Quiet(p4) /\ Quiet(p5) /\ Quiet(p6)
  BY PoppedGood, info_networkQuiet, info_setQuiet, info_dcQuiet, info_xdrQuiet, InfoSindexQuiet,
    InfoNamespaceControllerQuiet
<1>2. Quiet(p0)
  BY InfoAllQuiet
<1>3. InfoController(c) =
    CASE Word(c) = "network" -> p1
      [] Word(c) = "set" -> p2
      [] Word(c) = "dc" -> p3
      [] Word(c) = "xdr" -> p4
      [] Word(c) = "sindex" -> p5
      [] Word(c) = "namespace" -> p6
      [] OTHER -> p0
  BY DEF InfoController, InfoSindex, InfoAll
<1> HIDE DEF p0, p1, p2, p3, p4, p5, p6
<1> QED
  BY <1>1, <1>2, <1>3

(* features only reads.                                                    *)
LEMMA FeaturesControllerQuiet ==
  ASSUME NEW c, Fit(c)
  PROVE  Quiet(FeaturesController(c))
<1> DEFINE mod == {"with", "like"}  g == parse_modifiers(c.line, {} \union mod)
           B0(d) == Report(d, <<get_features(d.nodes)>>)
<1>1. FeaturesController(c) = pre_command(c, {}, mod, B0)
  BY DEF FeaturesController, Leaf
<1>2. pre_command(c, {}, mod, B0) = B0(Grouped(c, {}, mod, g))
  <2> HIDE DEF B0, mod
  <2> QED
    BY DEF pre_command, WithGroups, Given
<1>3. ASSUME NEW d, Fit(d) PROVE Quiet(B0(d))
  <2>0. d.nodes \in SUBSET Machines
    BY <1>3, FitNodes
  <2> DEFINE s == <<get_features(d.nodes)>>
  <2>1. IsReport(s)
    BY <2>0, SectionsRead, ReportOne, ReportPair, ReportJoined, get_namespaceRead,
      get_namespace_statisticsRead, get_sindex_statsRead
  <2> HIDE DEF s
  <2>2. Quiet(Report(d, s))
    BY <2>1, ReportQuiet
  <2> QED
    BY <2>2 DEF s
<1> HIDE DEF B0, mod, g
<1>4. Quiet(B0(Grouped(c, {}, mod, g)))
  BY <1>3, GroupedGood
<1> QED
  BY <1>1, <1>2, <1>4

(* summary only reads.                                                     *)
LEMMA SummaryControllerQuiet ==
  ASSUME NEW c, Fit(c)
  PROVE  Quiet(SummaryController(c))
<1> DEFINE mod == {"with"}  g == parse_modifiers(c.line, {} \union mod)
           B0(d) == Report(d, <<Summaries_(d.nodes)>>)
<1>1. SummaryController(c) = pre_command(c, {}, mod, B0)
  BY DEF SummaryController, Leaf, Summaries_
<1>2. pre_command(c, {}, mod, B0) = B0(Grouped(c, {}, mod, g))
  <2> HIDE DEF B0, mod
  <2> QED
    BY DEF pre_command, WithGroups, Given
<1>3. ASSUME NEW d, Fit(d) PROVE Quiet(B0(d))
  <2>0. d.nodes \in SUBSET Machines
    BY <1>3, FitNodes
  <2> DEFINE s == <<Summaries_(d.nodes)>>
  <2>1. IsReport(s)
    BY <2>0, SectionsRead, ReportOne, ReportPair, ReportJoined, get_namespaceRead,
      get_namespace_statisticsRead, get_sindex_statsRead
  <2> HIDE DEF s
  <2>2. Quiet(Report(d, s))
    BY <2>1, ReportQuiet
  <2> QED
    BY <2>2 DEF s
<1> HIDE DEF B0, mod, g
<1>4. Quiet(B0(Grouped(c, {}, mod, g)))
  BY <1>3, GroupedGood
<1> QED
  BY <1>1, <1>2, <1>4

Word_(nodes, word) == Reads(nodes, "kept", LAMBDA n : Asks(word))

(* asinfo: a word sent with the get form is only read. What the word does  *)
(* is up to the user.                                                      *)
LEMMA WordRead ==
  ASSUME NEW nodes \in SUBSET Machines, NEW word
  PROVE  IsSection(Word_(nodes, word))
<1> DEFINE k == [n \in nodes |-> <<Asks(word)>>]
           r == Word_(nodes, word)
<1>1. r = [rule |-> "kept", asks |-> k]
  BY DEF Reads, Section, Word_
<1>2. DOMAIN k = nodes /\ \A n \in nodes : Asked(k[n])
  BY AsksReads, AskedOne
<1> HIDE DEF k, r
<1>3. IsSection(r)
  BY <1>1, <1>2, SectionIs
<1> QED
  BY <1>3 DEF r

(* asinfo sends the word it was given as a get, to the nodes of the        *)
(* command.                                                                *)
LEMMA ASInfoControllerQuiet ==
  ASSUME NEW c, Fit(c)
  PROVE  Quiet(ASInfoController(c))
<1> DEFINE mod == {"with", "like"}  g == parse_modifiers(c.line, {} \union mod)
           B0(d) == LET words == SelectSeq(Mod(d, "line"), LAMBDA w : w \notin {"-l", "--no_node_name"}) IN
    IF Len(words) # 2 \/ Head(words) # "-v" THEN End(d, <<Warn>>)
    ELSE Report(d, <<Word_(d.nodes, words[2])>>)
<1>1. ASInfoController(c) = pre_command(c, {}, mod, B0)
  BY DEF ASInfoController, Leaf, Word_
<1>2. pre_command(c, {}, mod, B0) = B0(Grouped(c, {}, mod, g))
  <2> HIDE DEF B0, mod
  <2> QED
    BY DEF pre_command, WithGroups, Given
<1>3. ASSUME NEW d, Fit(d) PROVE Quiet(B0(d))
  <2>0. d.nodes \in SUBSET Machines
    BY <1>3, FitNodes
  <2> DEFINE words == SelectSeq(Mod(d, "line"), LAMBDA w : w \notin {"-l", "--no_node_name"})
             r == Report(d, <<Word_(d.nodes, words[2])>>)
  <2>1. Quiet(r)
    <3> HIDE DEF words
    <3> DEFINE s == <<Word_(d.nodes, words[2])>>
    <3>1. IsReport(s)
      BY <2>0, WordRead, ReportOne
    <3> HIDE DEF s
    <3>2. Quiet(Report(d, s))
      BY <3>1, ReportQuiet
    <3> QED
      BY <3>2 DEF s
  <2>2. B0(d) = IF Len(words) # 2 \/ Head(words) # "-v" THEN End(d, <<Warn>>) ELSE r
    OBVIOUS
  <2> HIDE DEF B0, r, words
  <2> QED
    BY <2>1, <2>2, EndsQuiet
<1> HIDE DEF B0, mod, g
<1>4. Quiet(B0(Grouped(c, {}, mod, g)))
  BY <1>3, GroupedGood
<1> QED
  BY <1>1, <1>2, <1>4

(* health only reads.                                                      *)
LEMMA HealthCheckControllerQuiet ==
  ASSUME NEW c, Fit(c)
  PROVE  Quiet(HealthCheckController(c))
<1> DEFINE mod == {}  g == parse_modifiers(c.line, {} \union mod)
           B0(d) == IF Has(d, Snapshot) THEN End(d, <<Shows("report", {})>>)
    ELSE Report([d EXCEPT !.mods = (Snapshot :> <<"1">>) @@ @], <<Healths_(d.nodes)>>)
<1>1. HealthCheckController(c) = pre_command(c, {}, mod, B0)
  BY DEF HealthCheckController, Leaf, Healths_
<1>2. pre_command(c, {}, mod, B0) = B0(Grouped(c, {}, mod, g))
  <2> HIDE DEF B0, mod
  <2> QED
    BY DEF pre_command, WithGroups, Given
<1>3. ASSUME NEW d, Fit(d) PROVE Quiet(B0(d))
  <2>0. d.nodes \in SUBSET Machines
    BY <1>3, FitNodes
  <2> DEFINE m == (Snapshot :> <<"1">>) @@ d.mods  x == [d EXCEPT !.mods = m]  s == <<Healths_(d.nodes)>>
             r == Report(x, s)  e == End(d, <<Shows("report", {})>>)
  <2>1. B0(d) = IF Has(d, Snapshot) THEN e ELSE r
    OBVIOUS
  <2>2. IsReport(s)
    BY <2>0, SectionsRead, ReportOne
  <2> HIDE DEF s, x, m
  <2>3. Quiet(r)
    BY <2>2, ReportQuiet
  <2>4. Quiet(e)
    BY EndsQuiet
  <2> HIDE DEF r, e, B0
  <2> QED
    BY <2>1, <2>3, <2>4
<1> HIDE DEF B0, mod, g
<1>4. Quiet(B0(Grouped(c, {}, mod, g)))
  BY <1>3, GroupedGood
<1> QED
  BY <1>1, <1>2, <1>4

(* pager asks nothing.                                                     *)
LEMMA PagerControllerQuiet ==
  ASSUME NEW c
  PROVE  Quiet(PagerController(c))
<1>1. Quiet(End(c, <<Tell("pager")>>))
  BY EndQuiet, StepKinds, SilentStep
<1> QED
  BY <1>1, HelpQuiet DEF PagerController

-----------------------------------------------------------------------------
(* collectinfo.                                                            *)

(* To take or to drop several arguments keeps a context fit.               *)
LEMMA FoldsGood ==
  ASSUME NEW c, Fit(c), NEW args, NEW keys
  PROVE  Fit(Taking(c, args, keys)) /\ Fit(Dropping(c, args, keys))
<1>1. \E l, m, a : Taking(c, args, keys) = Taken(c, l, m, a)
  <2> DEFINE left(x) == FoldLeft(LAMBDA before, arg : Given(before, LAMBDA z :
                                   get_arg_and_delete_from_mods(z, arg, keys)),
                                 [line |-> x.line, mods |-> x.mods, args |-> x.args], args)
  <2>1. \A x : Taking(x, args, keys) = Taken(x, left(x).line, left(x).mods, left(x).args)
    BY DEF Taking, Folded, Given, Taken
  <2> HIDE DEF left
  <2> QED
    BY <2>1
<1>2. \E l, m, a : Dropping(c, args, keys) = Taken(c, l, m, a)
  <2> DEFINE left(x) == FoldLeft(LAMBDA before, arg : Given(before, LAMBDA z :
                                   check_arg_and_delete_from_mods(z, arg, keys)),
                                 [line |-> x.line, mods |-> x.mods, args |-> x.args], args)
  <2>1. \A x : Dropping(x, args, keys) = Taken(x, left(x).line, left(x).mods, left(x).args)
    BY DEF Dropping, Folded, Given, Taken
  <2> HIDE DEF left
  <2> QED
    BY <2>1
<1> QED
  BY <1>1, <1>2, TakenGood

Prefixed(p, q) == [q EXCEPT !.steps = p.steps \o @]

(* To have reached a point of the capture asks nothing.                    *)
LEMMA ReachedQuiet ==
  ASSUME NEW c, Fit(c), NEW ok
  PROVE  Quiet(Reached(c, ok))
<1>1. Quiet(End(c, <<>>)) /\ IsPlan(End(c, <<>>))
  BY EndsQuiet DEF Quiet
<1> DEFINE p == Reached(c, ok)  e == End(c, <<>>)
<1>2. p = [e EXCEPT !.reached = <<c, ok>>]
  BY DEF Reached
<1> HIDE DEF e
<1>3. p.mods = e.mods /\ p.steps = e.steps /\ p.reached = <<c, ok>> /\ IsPlan(p)
  <2>1. e = [mods |-> e.mods, steps |-> e.steps, reached |-> e.reached] /\ IsSeq(e.steps)
    BY <1>1 DEF IsPlan, e
  <2>2. p = [mods |-> e.mods, steps |-> e.steps, reached |-> <<c, ok>>]
    BY <1>2, <2>1
  <2> HIDE DEF p
  <2> QED
    BY <2>1, <2>2 DEF IsPlan
<1> HIDE DEF p
<1>4. Quiet(e) /\ p.reached[1] = c
  BY <1>1, <1>3 DEF e
<1>5. Quiet(p)
  BY <1>3, <1>4 DEF Quiet
<1> QED
  BY <1>5 DEF p

(* Steps that only read before a plan that only reads.                     *)
LEMMA PrefixedQuiet ==
  ASSUME NEW p, Quiet(p), NEW q, Quiet(q)
  PROVE  Quiet(Prefixed(p, q))
<1> DEFINE P == Prefixed(p, q)  s == p.steps \o q.steps
<1>1. q = [mods |-> q.mods, steps |-> q.steps, reached |-> q.reached]
      /\ IsSeq(q.steps) /\ IsSeq(p.steps)
  BY DEF Quiet, IsPlan
<1>2. P = [mods |-> q.mods, steps |-> s, reached |-> q.reached]
  <2>1. P = [q EXCEPT !.steps = s]
    BY DEF Prefixed
  <2> HIDE DEF P, s
  <2> QED
    BY <1>1, <2>1
<1>3. IsSeq(s) /\ \A x \in ToSet(s) : x \in ToSet(p.steps) \/ x \in ToSet(q.steps)
  BY <1>1, SeqJoinedElems
<1> HIDE DEF s, P
<1>4. P.steps = s /\ P.reached = q.reached /\ IsPlan(P)
  BY <1>2, <1>3 DEF IsPlan
<1>5. ASSUME NEW i \in 1 .. Len(s)
      PROVE  Silent(s[i]) \/ (s[i].does = "call" /\ ReadAsked(s[i].asks))
  <2>1. s[i] \in ToSet(s)
    BY <1>3, SeqElems
  <2>2. \A x \in ToSet(p.steps) : Silent(x) \/ (x.does = "call" /\ ReadAsked(x.asks))
    BY <1>1, SeqElems DEF Quiet
  <2>3. \A x \in ToSet(q.steps) : Silent(x) \/ (x.does = "call" /\ ReadAsked(x.asks))
    BY <1>1, SeqElems DEF Quiet
  <2> QED
    BY <1>3, <2>1, <2>2, <2>3
<1>6. Quiet(P)
  <2>1. q.reached = <<>> \/ Fit(q.reached[1])
    BY DEF Quiet
  <2> QED
    BY <1>4, <1>5, <2>1 DEF Quiet
<1> QED
  BY <1>6 DEF P

(* An attempt at files only reads, and says whether it came about.         *)
LEMMA AttemptReached ==
  ASSUME NEW c, Fit(c), NEW requests
  PROVE  Quiet(Attempt(c, requests, Reached))
<1>0. Fit(c)
  OBVIOUS
<1> QED
  <2> DEFINE T(e, answers) == Reached(e, answers[Here].came = "ok")
  <2>1. ASSUME NEW e, Fit(e), NEW answers, DOMAIN answers \subseteq Machines PROVE Quiet(T(e, answers))
    <3>0. e.nodes \in SUBSET Machines
      BY <2>1, FitNodes
    <3> QED
      BY <2>1, ReachedQuiet
  <2> DEFINE M(n) == requests
             N == {Here}
             MM(n) == <<M(n)>>
             T1(x, y) == Given([n \in DOMAIN y |-> y[n][1]], LAMBDA first : T(x, first))
  <2> DEFINE S == [c EXCEPT !.seen = Tail(@)]
             H == Head(c.seen)
             F == [n \in DOMAIN H |-> H[n][1]]
             k == [n \in N |-> MM(n)]
             z == T1(S, H)
  <2>2. Attempt(c, requests, Reached) = Call(c, N, M, T)
    BY DEF Attempt
  <2>3. Call(c, N, M, T) = CallAll(c, N, MM, T1)
    BY DEF Call
  <2>4. CallAll(c, N, MM, T1) =
         IF N = {} THEN End(c, <<Raise>>)
         ELSE First(CallStep(k), IF c.seen = <<>> THEN End(c, <<>>) ELSE T1(S, H))
    <3> HIDE DEF T1, MM, N
    <3> QED
      BY DEF CallAll, Given
  <2>5. c.seen # <<>> => Quiet(z)
    <3>1. z = T(S, F)
      <4> HIDE DEF T, S, H
      <4> QED
        BY DEF Given
    <3>2. DOMAIN F = DOMAIN H
      OBVIOUS
    <3>3. c.seen # <<>> => Fit(S) /\ DOMAIN H \subseteq Machines
      BY <1>0, FitRest DEF Rest
    <3> HIDE DEF z, T, S, F, H
    <3> QED
      BY <2>1, <3>1, <3>3, <3>2
  <2>7. N \in SUBSET Machines
    BY DEF Machines
  <2>8. DOMAIN k = N /\ \A n \in N : k[n] = MM(n)
    OBVIOUS
  <2> HIDE DEF k, z, T1, T, MM, N, S, H, F, M
  <2>9. ReadAsked(k)
    BY <2>7, <2>8 DEF ReadAsked, N
  <2>10. Quiet(CallPlan(c, k, z))
    BY <2>5, <2>9, CallQuiet
  <2>11. CallAll(c, N, MM, T1) = IF N = {} THEN End(c, <<Raise>>) ELSE CallPlan(c, k, z)
    BY <2>4 DEF CallPlan, z
  <2>12. Quiet(Attempt(c, requests, Reached))
    BY <2>2, <2>3, <2>10, <2>11, EndsQuiet
  <2> QED
    BY <2>12

Snapshot_(d) ==
  CallAll(d, d.nodes, _get_collectinfo_data_json, LAMBDA e, answers :
    Reached(e, ~CannotRestructure(answers)))

(* What the snapshot asks of a node only reads.                            *)
LEMMA SnapshotReads ==
  ASSUME NEW n
  PROVE  Asked(_get_collectinfo_data_json(n))
<1> USE ReadsSimple, ReadsListed, ReadsPeers, ReadsOf, ReadsAll, ReadsXdr, AsksReads
<1> DEFINE a == _get_as_data_json(n)  b == _get_as_metadata(n)  h == _get_as_histograms(n)
           l == _get_as_latency(n)  u == _get_as_access_control_list(n)  z == <<Asks("cluster-name")>>
           q == [i \in DOMAIN Namespaces |-> WhenLost("without", info_namespace_statistics(Namespaces[i]))]
           f == FlattenSeq(q)
<1>1. Asked(a)
  <2>1. Reading(f)
    <3>1. q = [i \in DOMAIN Namespaces |-> q[i]] /\ \A i \in DOMAIN q : Reading(q[i])
      BY WhenLostReads
    <3> HIDE DEF q
    <3> QED
      BY <3>1, NamesAre, SeqMapped, FlattenReads
  <2> DEFINE S == {f, info_all_set_statistics, info_bin_statistics, info_sindex,
    info_statistics, info_XDR_statistics(n), info_all_dc_statistics(n),
    info_get_config(n, "security"), info_get_config(n, "service"),
    info_get_config(n, "namespace"), info_get_config(n, "network"), info_XDR_get_config(n),
    info_dc_get_config, info_roster, info_racks, info_rack_ids}
  <2>2. a \in Seq(S)
    <3> HIDE DEF f
    <3>1. a = <<f, info_all_set_statistics, info_bin_statistics, info_sindex,
    info_statistics, info_XDR_statistics(n), info_all_dc_statistics(n),
    info_get_config(n, "security"), info_get_config(n, "service"),
    info_get_config(n, "namespace"), info_get_config(n, "network"), info_XDR_get_config(n),
    info_dc_get_config, info_roster, info_racks, info_rack_ids>>
      BY DEF _get_as_data_json, f
    <3> HIDE DEF a
    <3> QED
      BY <3>1
  <2>3. \A m \in S : Reading(m)
    <3> HIDE DEF f
    <3> QED
      BY <2>1
  <2> HIDE DEF S, a
  <2> QED
    BY <2>2, <2>3, AskedOf
<1>2. Asked(b)
  <2> DEFINE S == {info_build, info_version, info_node, info_service_list, info_peers_flat_list, info_udf_list,
    info_health_outliers, info_best_practices, info_scan_show(n), info_query_show(n),
    info_jobs("sindex-builder")}
  <2>2. b \in Seq(S)
    BY DEF _get_as_metadata
  <2>3. \A m \in S : Reading(m)
    OBVIOUS
  <2> HIDE DEF S, b
  <2> QED
    BY <2>2, <2>3, AskedOf
<1>3. Asked(h)
  BY AskedOne DEF _get_as_histograms
<1>4. Asked(l)
  BY NamesAre, AskedOne DEF _get_as_latency
<1>5. Asked(u)
  BY AskedOne, AskedMany DEF _get_as_access_control_list
<1>6. Asked(z)
  BY AskedOne
<1>7. _get_collectinfo_data_json(n) = a \o b \o h \o l \o u \o z
  BY DEF _get_collectinfo_data_json
<1> HIDE DEF a, b, h, l, u, z
<1> QED
  BY <1>1, <1>2, <1>3, <1>4, <1>5, <1>6, <1>7, AskedBoth

(* A snapshot of the cluster only reads.                                   *)
LEMMA SnapshotQuiet ==
  ASSUME NEW d, Fit(d)
  PROVE  Quiet(Snapshot_(d))
<1>0. Fit(d) /\ d.nodes \in SUBSET Machines
  BY FitNodes
<1> QED
  <2> DEFINE T(e, answers) == Reached(e, ~CannotRestructure(answers))
  <2>1. ASSUME NEW e, Fit(e), NEW answers, DOMAIN answers \subseteq Machines PROVE Quiet(T(e, answers))
    <3>0. e.nodes \in SUBSET Machines
      BY <2>1, FitNodes
    <3> QED
      BY <2>1, ReachedQuiet
  <2> DEFINE N == d.nodes
             MM(n) == _get_collectinfo_data_json(n)
             T1(x, y) == T(x, y)
  <2> DEFINE S == [d EXCEPT !.seen = Tail(@)]
             H == Head(d.seen)
             F == [n \in DOMAIN H |-> H[n][1]]
             k == [n \in N |-> MM(n)]
             z == T1(S, H)
  <2>2. Snapshot_(d) = CallAll(d, N, MM, T1)
    BY DEF Snapshot_, CallAll
  <2>3. Snapshot_(d) = CallAll(d, N, MM, T1)
    BY <2>2
  <2>4. CallAll(d, N, MM, T1) =
         IF N = {} THEN End(d, <<Raise>>)
         ELSE First(CallStep(k), IF d.seen = <<>> THEN End(d, <<>>) ELSE T1(S, H))
    <3> HIDE DEF T1, MM, N
    <3> QED
      BY DEF CallAll, Given
  <2>5. d.seen # <<>> => Quiet(z)
    <3>1. z = T(S, H)
      OBVIOUS
    <3>3. d.seen # <<>> => Fit(S) /\ DOMAIN H \subseteq Machines
      BY <1>0, FitRest DEF Rest
    <3> HIDE DEF z, T, S, F, H
    <3> QED
      BY <2>1, <3>1, <3>3
  <2>6. ASSUME NEW n \in N PROVE Asked(MM(n))
    <3> QED
      BY SnapshotReads
  <2>7. N \in SUBSET Machines
    BY <1>0
  <2>8. DOMAIN k = N /\ \A n \in N : k[n] = MM(n)
    OBVIOUS
  <2> HIDE DEF k, z, T1, T, MM, N, S, H, F
  <2>9. ReadAsked(k)
    BY <2>6, <2>7, <2>8 DEF ReadAsked
  <2>10. Quiet(CallPlan(d, k, z))
    BY <2>5, <2>9, CallQuiet
  <2>11. CallAll(d, N, MM, T1) = IF N = {} THEN End(d, <<Raise>>) ELSE CallPlan(d, k, z)
    BY <2>4 DEF CallPlan, z
  <2>12. Quiet(Snapshot_(d))
    BY <2>2, <2>3, <2>10, <2>11, EndsQuiet
  <2> QED
    BY <2>12

(* collectinfo: the snapshots, _dump_collectinfo_json, only read.          *)
LEMMA _dump_collectinfo_jsonQuiet ==
  ASSUME NEW c, Fit(c), NEW snapshots
  PROVE  Quiet(_dump_collectinfo_json(c, snapshots))
<1> DEFINE again(d, ok) == IF ok /\ snapshots = 2 THEN Snapshot_(d) ELSE Reached(d, ok)
           Y == Joined(Snapshot_(c), again)
           wr(d) == Attempt(d, <<write_to_file("ascinfo.json", "snapshots")>>, Reached)
           fin(d, ok) == IF ok THEN wr(d) ELSE Reached(d, FALSE)
<1>1. Quiet(Snapshot_(c))
  BY SnapshotQuiet
<1>2. _dump_collectinfo_json(c, snapshots) = Joined(Y, fin)
  BY DEF _dump_collectinfo_json, Snapshot_
<1>3. Quiet(Y)
  <2> DEFINE X == Snapshot_(c)
             Th(d, ok) == IF ok /\ snapshots = 2 THEN Snapshot_(d) ELSE Reached(d, ok)
             J(p) == IF p.reached = <<>> THEN p ELSE [Th(p.reached[1], p.reached[2]) EXCEPT !.steps = p.steps \o @]
  <2>1. Y = Given(X, J)
    BY DEF Joined
  <2>2. Given(X, J) = J(X)
    <3> HIDE DEF J, X
    <3> QED
      BY DEF Given
  <2>3. ASSUME NEW d, Fit(d), NEW ok PROVE Quiet(Th(d, ok))
    BY <2>3, ReachedQuiet, SnapshotQuiet
  <2>4. Quiet(X)
    BY <1>1
  <2> HIDE DEF Th, X
  <2>5. Quiet(J(X))
    <3>1. CASE X.reached = <<>>
      BY <2>4, <3>1
    <3>2. CASE X.reached # <<>>
      <4>1. Quiet(Th(X.reached[1], X.reached[2]))
        BY <2>3, <2>4, <3>2 DEF Quiet
      <4>2. J(X) = Prefixed(X, Th(X.reached[1], X.reached[2]))
        BY <3>2 DEF Prefixed
      <4> QED
        BY <2>4, <4>1, <4>2, PrefixedQuiet
    <3> QED
      BY <3>1, <3>2
  <2> HIDE DEF J
  <2>6. Quiet(Y)
    BY <2>1, <2>2, <2>5
  <2> QED
    BY <2>6
<1>4. ASSUME NEW d, Fit(d), NEW ok PROVE Quiet(fin(d, ok))
  BY <1>4, AttemptReached, ReachedQuiet
<1>5. Quiet(Joined(Y, fin))
  <2> HIDE DEF Y
  <2> QED
    <3> DEFINE X == Y
               Th(d, ok) == fin(d, ok)
               J(p) == IF p.reached = <<>> THEN p ELSE [Th(p.reached[1], p.reached[2]) EXCEPT !.steps = p.steps \o @]
    <3>1. Joined(Y, fin) = Given(X, J)
      BY DEF Joined
    <3>2. Given(X, J) = J(X)
      <4> HIDE DEF J, X
      <4> QED
        BY DEF Given
    <3>3. ASSUME NEW d, Fit(d), NEW ok PROVE Quiet(Th(d, ok))
      BY <3>3, <1>4
    <3>4. Quiet(X)
      BY <1>3
    <3> HIDE DEF Th, X, fin
    <3>5. Quiet(J(X))
      <4>1. CASE X.reached = <<>>
        BY <3>4, <4>1
      <4>2. CASE X.reached # <<>>
        <5>1. Quiet(Th(X.reached[1], X.reached[2]))
          BY <3>3, <3>4, <4>2 DEF Quiet
        <5>2. J(X) = Prefixed(X, Th(X.reached[1], X.reached[2]))
          BY <4>2 DEF Prefixed
        <5> QED
          BY <3>4, <5>1, <5>2, PrefixedQuiet
      <4> QED
        BY <4>1, <4>2
    <3> HIDE DEF J
    <3>6. Quiet(Joined(Y, fin))
      BY <3>1, <3>2, <3>5
    <3> QED
      BY <3>6
<1> HIDE DEF Y, fin
<1> QED
  BY <1>2, <1>5

Raises_(d, file) ==
  Attempt(d, <<write_to_file(file, "error")>>, LAMBDA e, written :
    IF written THEN First(Warn, Reached(e, FALSE)) ELSE Reached(e, FALSE))

(* A file that cannot be written ends the capture without a request.       *)
LEMMA RaisesQuiet ==
  ASSUME NEW d, Fit(d), NEW file
  PROVE  Quiet(Raises_(d, file))
<1>0. Fit(d)
  OBVIOUS
<1> QED
  <2> DEFINE T(e, answers) == IF answers[Here].came = "ok" THEN First(Warn, Reached(e, FALSE)) ELSE Reached(e, FALSE)
  <2>1. ASSUME NEW e, Fit(e), NEW answers, DOMAIN answers \subseteq Machines PROVE Quiet(T(e, answers))
    <3>0. e.nodes \in SUBSET Machines
      BY <2>1, FitNodes
    <3> DEFINE r == Reached(e, FALSE)
    <3>1. Quiet(r) /\ Quiet(First(Warn, r))
      BY <2>1, ReachedQuiet, FirstQuiet, StepKinds
    <3>2. T(e, answers) = First(Warn, r) \/ T(e, answers) = r
      OBVIOUS
    <3> HIDE DEF r, T
    <3> QED
      BY <3>1, <3>2
  <2> DEFINE M(n) == <<write_to_file(file, "error")>>
             N == {Here}
             MM(n) == <<M(n)>>
             T1(x, y) == Given([n \in DOMAIN y |-> y[n][1]], LAMBDA first : T(x, first))
  <2> DEFINE S == [d EXCEPT !.seen = Tail(@)]
             H == Head(d.seen)
             F == [n \in DOMAIN H |-> H[n][1]]
             k == [n \in N |-> MM(n)]
             z == T1(S, H)
  <2>2. Raises_(d, file) = Call(d, N, M, T)
    BY DEF Raises_, Attempt
  <2>3. Call(d, N, M, T) = CallAll(d, N, MM, T1)
    BY DEF Call
  <2>4. CallAll(d, N, MM, T1) =
         IF N = {} THEN End(d, <<Raise>>)
         ELSE First(CallStep(k), IF d.seen = <<>> THEN End(d, <<>>) ELSE T1(S, H))
    <3> HIDE DEF T1, MM, N
    <3> QED
      BY DEF CallAll, Given
  <2>5. d.seen # <<>> => Quiet(z)
    <3>1. z = T(S, F)
      <4> HIDE DEF T, S, H
      <4> QED
        BY DEF Given
    <3>2. DOMAIN F = DOMAIN H
      OBVIOUS
    <3>3. d.seen # <<>> => Fit(S) /\ DOMAIN H \subseteq Machines
      BY <1>0, FitRest DEF Rest
    <3> HIDE DEF z, T, S, F, H
    <3> QED
      BY <2>1, <3>1, <3>3, <3>2
  <2>7. N \in SUBSET Machines
    BY DEF Machines
  <2>8. DOMAIN k = N /\ \A n \in N : k[n] = MM(n)
    OBVIOUS
  <2> HIDE DEF k, z, T1, T, MM, N, S, H, F, M
  <2>9. ReadAsked(k)
    BY <2>7, <2>8 DEF ReadAsked, N
  <2>10. Quiet(CallPlan(d, k, z))
    BY <2>5, <2>9, CallQuiet
  <2>11. CallAll(d, N, MM, T1) = IF N = {} THEN End(d, <<Raise>>) ELSE CallPlan(d, k, z)
    BY <2>4 DEF CallPlan, z
  <2>12. Quiet(Raises_(d, file))
    BY <2>2, <2>3, <2>10, <2>11, EndsQuiet
  <2> QED
    BY <2>12

Captured_(d, file, groups, fatal) ==
  CallAll(d, {Here}, LAMBDA n : groups, LAMBDA e, answers :
          LET failed == SelectSeq(answers[Here], LAMBDA answer : answer.came # "ok") IN
          IF failed = <<>> THEN Reached(e, TRUE)
          ELSE IF fatal THEN Reached(e, FALSE)
          ELSE Attempt(e, Writes(file, [i \in DOMAIN failed |-> "error"]), Reached))

(* To run a group of commands and to keep what they show only reads.       *)
LEMMA CapturedQuiet ==
  ASSUME NEW d, Fit(d), NEW file, NEW groups, NEW fatal
  PROVE  Quiet(Captured_(d, file, groups, fatal))
<1>0. Fit(d)
  OBVIOUS
<1> QED
  <2> DEFINE T(e, answers) == LET failed == SelectSeq(answers[Here], LAMBDA answer : answer.came # "ok") IN
            IF failed = <<>> THEN Reached(e, TRUE)
            ELSE IF fatal THEN Reached(e, FALSE)
            ELSE Attempt(e, Writes(file, [i \in DOMAIN failed |-> "error"]), Reached)
  <2>1. ASSUME NEW e, Fit(e), NEW answers, DOMAIN answers \subseteq Machines PROVE Quiet(T(e, answers))
    <3>0. e.nodes \in SUBSET Machines
      BY <2>1, FitNodes
    <3> DEFINE failed == SelectSeq(answers[Here], LAMBDA answer : answer.came # "ok")
               w == Attempt(e, Writes(file, [i \in DOMAIN failed |-> "error"]), Reached)
    <3>1. Quiet(Reached(e, TRUE)) /\ Quiet(Reached(e, FALSE))
      BY <2>1, ReachedQuiet
    <3>2. Quiet(w)
      <4> DEFINE q == Writes(file, [i \in DOMAIN failed |-> "error"])
      <4> HIDE DEF q
      <4>1. Quiet(Attempt(e, q, Reached))
        BY <2>1, AttemptReached
      <4> QED
        BY <4>1 DEF q
    <3>3. T(e, answers) \in {Reached(e, TRUE), Reached(e, FALSE), w}
      OBVIOUS
    <3> HIDE DEF w, T
    <3> QED
      BY <3>1, <3>2, <3>3
  <2> DEFINE N == {Here}
             MM(n) == groups
             T1(x, y) == T(x, y)
  <2> DEFINE S == [d EXCEPT !.seen = Tail(@)]
             H == Head(d.seen)
             F == [n \in DOMAIN H |-> H[n][1]]
             k == [n \in N |-> MM(n)]
             z == T1(S, H)
  <2>2. Captured_(d, file, groups, fatal) = CallAll(d, N, MM, T1)
    BY DEF Captured_
  <2>3. Captured_(d, file, groups, fatal) = CallAll(d, N, MM, T1)
    BY <2>2
  <2>4. CallAll(d, N, MM, T1) =
         IF N = {} THEN End(d, <<Raise>>)
         ELSE First(CallStep(k), IF d.seen = <<>> THEN End(d, <<>>) ELSE T1(S, H))
    <3> HIDE DEF T1, MM, N
    <3> QED
      BY DEF CallAll, Given
  <2>5. d.seen # <<>> => Quiet(z)
    <3>1. z = T(S, H)
      OBVIOUS
    <3>3. d.seen # <<>> => Fit(S) /\ DOMAIN H \subseteq Machines
      BY <1>0, FitRest DEF Rest
    <3> HIDE DEF z, T, S, F, H
    <3> QED
      BY <2>1, <3>1, <3>3
  <2>7. N \in SUBSET Machines
    BY DEF Machines
  <2>8. DOMAIN k = N /\ \A n \in N : k[n] = MM(n)
    OBVIOUS
  <2> HIDE DEF k, z, T1, T, MM, N, S, H, F
  <2>9. ReadAsked(k)
    BY <2>7, <2>8 DEF ReadAsked, N
  <2>10. Quiet(CallPlan(d, k, z))
    BY <2>5, <2>9, CallQuiet
  <2>11. CallAll(d, N, MM, T1) = IF N = {} THEN End(d, <<Raise>>) ELSE CallPlan(d, k, z)
    BY <2>4 DEF CallPlan, z
  <2>12. Quiet(Captured_(d, file, groups, fatal))
    BY <2>2, <2>3, <2>10, <2>11, EndsQuiet
  <2> QED
    BY <2>12

(* A phase of the capture only reads, whether or not it comes about.       *)
LEMMA PhaseQuiet ==
  ASSUME NEW c, Fit(c), NEW file, NEW groups, NEW fatal
  PROVE  Quiet(Phase(c, file, groups, fatal))
<1> DEFINE begun(d, ok) == IF ok THEN Captured_(d, file, groups, fatal) ELSE Reached(d, FALSE)
           A == Attempt(c, <<write_to_file(file, "header")>>, Reached)
           Y == Joined(A, begun)
           fin(d, ok) == IF ok THEN Reached(d, TRUE) ELSE Raises_(d, file)
<1>1. Quiet(A)
  BY AttemptReached
<1>2. Phase(c, file, groups, fatal) = Joined(Y, fin)
  BY DEF Phase, Captured_, Raises_
<1>3. Quiet(Y)
  <2> HIDE DEF A
  <2> QED
    <3> DEFINE X == A
               Th(d, ok) == IF ok THEN Captured_(d, file, groups, fatal) ELSE Reached(d, FALSE)
               J(p) == IF p.reached = <<>> THEN p ELSE [Th(p.reached[1], p.reached[2]) EXCEPT !.steps = p.steps \o @]
    <3>1. Y = Given(X, J)
      BY DEF Joined
    <3>2. Given(X, J) = J(X)
      <4> HIDE DEF J, X
      <4> QED
        BY DEF Given
    <3>3. ASSUME NEW d, Fit(d), NEW ok PROVE Quiet(Th(d, ok))
      BY <3>3, ReachedQuiet, CapturedQuiet
    <3>4. Quiet(X)
      BY <1>1
    <3> HIDE DEF Th, X
    <3>5. Quiet(J(X))
      <4>1. CASE X.reached = <<>>
        BY <3>4, <4>1
      <4>2. CASE X.reached # <<>>
        <5>1. Quiet(Th(X.reached[1], X.reached[2]))
          BY <3>3, <3>4, <4>2 DEF Quiet
        <5>2. J(X) = Prefixed(X, Th(X.reached[1], X.reached[2]))
          BY <4>2 DEF Prefixed
        <5> QED
          BY <3>4, <5>1, <5>2, PrefixedQuiet
      <4> QED
        BY <4>1, <4>2
    <3> HIDE DEF J
    <3>6. Quiet(Y)
      BY <3>1, <3>2, <3>5
    <3> QED
      BY <3>6
<1>4. ASSUME NEW d, Fit(d), NEW ok PROVE Quiet(fin(d, ok))
  BY <1>4, RaisesQuiet, ReachedQuiet
<1>5. Quiet(Joined(Y, fin))
  <2> HIDE DEF Y
  <2> QED
    <3> DEFINE X == Y
               Th(d, ok) == fin(d, ok)
               J(p) == IF p.reached = <<>> THEN p ELSE [Th(p.reached[1], p.reached[2]) EXCEPT !.steps = p.steps \o @]
    <3>1. Joined(Y, fin) = Given(X, J)
      BY DEF Joined
    <3>2. Given(X, J) = J(X)
      <4> HIDE DEF J, X
      <4> QED
        BY DEF Given
    <3>3. ASSUME NEW d, Fit(d), NEW ok PROVE Quiet(Th(d, ok))
      BY <3>3, <1>4
    <3>4. Quiet(X)
      BY <1>3
    <3> HIDE DEF Th, X, fin
    <3>5. Quiet(J(X))
      <4>1. CASE X.reached = <<>>
        BY <3>4, <4>1
      <4>2. CASE X.reached # <<>>
        <5>1. Quiet(Th(X.reached[1], X.reached[2]))
          BY <3>3, <3>4, <4>2 DEF Quiet
        <5>2. J(X) = Prefixed(X, Th(X.reached[1], X.reached[2]))
          BY <4>2 DEF Prefixed
        <5> QED
          BY <3>4, <5>1, <5>2, PrefixedQuiet
      <4> QED
        BY <4>1, <4>2
    <3> HIDE DEF J
    <3>6. Quiet(Joined(Y, fin))
      BY <3>1, <3>2, <3>5
    <3> QED
      BY <3>6
<1> HIDE DEF Y, fin
<1> QED
  BY <1>2, <1>5

(* collectinfo: _dump_collectinfo_ascollectinfo only reads.                *)
LEMMA _dump_collectinfo_ascollectinfoQuiet ==
  ASSUME NEW c, Fit(c)
  PROVE  Quiet(_dump_collectinfo_ascollectinfo(c))
<1>0. Fit(c)
  OBVIOUS
<1> QED
  <2> DEFINE T(e, answers) == LET listed == \A n \in DOMAIN answers : answers[n][2].came = "ok"
                     file == "ascollectinfo.log"
                 IN Phase(e, file,
                     <<Captures(file, <<"version">>), Captures(file, InfoParams),
                       Captures(file, <<"config", "distribution", "latencies", "statistics">>),
                       Captures(file, <<"features">>),
                       Writes(file, <<"service", "roster:">> \o IF listed THEN Namespaces ELSE <<>>)>>, FALSE)
  <2>1. ASSUME NEW e, Fit(e), NEW answers, DOMAIN answers \subseteq Machines PROVE Quiet(T(e, answers))
    <3>0. e.nodes \in SUBSET Machines
      BY <2>1, FitNodes
    <3> DEFINE listed == \A n \in DOMAIN answers : answers[n][2].came = "ok"
               file == "ascollectinfo.log"
               gr == <<Captures(file, <<"version">>), Captures(file, InfoParams),
                         Captures(file, <<"config", "distribution", "latencies", "statistics">>),
                         Captures(file, <<"features">>),
                         Writes(file, <<"service", "roster:">> \o IF listed THEN Namespaces ELSE <<>>)>>
    <3>1. T(e, answers) = Phase(e, file, gr, FALSE)
      OBVIOUS
    <3> HIDE DEF gr, file, T
    <3> QED
      BY <3>1, <2>1, PhaseQuiet
  <2> DEFINE N == Node
             MM(n) == <<info_build, Asks("namespaces")>>
             T1(x, y) == T(x, y)
  <2> DEFINE S == [c EXCEPT !.seen = Tail(@)]
             H == Head(c.seen)
             F == [n \in DOMAIN H |-> H[n][1]]
             k == [n \in N |-> MM(n)]
             z == T1(S, H)
  <2>2. _dump_collectinfo_ascollectinfo(c) = CallAll(c, N, MM, T1)
    BY DEF _dump_collectinfo_ascollectinfo
  <2>3. _dump_collectinfo_ascollectinfo(c) = CallAll(c, N, MM, T1)
    BY <2>2
  <2>4. CallAll(c, N, MM, T1) =
         IF N = {} THEN End(c, <<Raise>>)
         ELSE First(CallStep(k), IF c.seen = <<>> THEN End(c, <<>>) ELSE T1(S, H))
    <3> HIDE DEF T1, MM, N
    <3> QED
      BY DEF CallAll, Given
  <2>5. c.seen # <<>> => Quiet(z)
    <3>1. z = T(S, H)
      OBVIOUS
    <3>3. c.seen # <<>> => Fit(S) /\ DOMAIN H \subseteq Machines
      BY <1>0, FitRest DEF Rest
    <3> HIDE DEF z, T, S, F, H
    <3> QED
      BY <2>1, <3>1, <3>3
  <2>6. ASSUME NEW n \in N PROVE Asked(MM(n))
    BY ReadsSimple, AsksReads, AskedMany, AskedOne
  <2>7. N \in SUBSET Machines
    BY DEF Machines
  <2>8. DOMAIN k = N /\ \A n \in N : k[n] = MM(n)
    OBVIOUS
  <2> HIDE DEF k, z, T1, T, MM, N, S, H, F
  <2>9. ReadAsked(k)
    BY <2>6, <2>7, <2>8 DEF ReadAsked
  <2>10. Quiet(CallPlan(c, k, z))
    BY <2>5, <2>9, CallQuiet
  <2>11. CallAll(c, N, MM, T1) = IF N = {} THEN End(c, <<Raise>>) ELSE CallPlan(c, k, z)
    BY <2>4 DEF CallPlan, z
  <2>12. Quiet(_dump_collectinfo_ascollectinfo(c))
    BY <2>2, <2>3, <2>10, <2>11, EndsQuiet
  <2> QED
    BY <2>12

(* collectinfo: _dump_collectinfo_summary only reads.                      *)
LEMMA _dump_collectinfo_summaryQuiet ==
  ASSUME NEW c, Fit(c)
  PROVE  Quiet(_dump_collectinfo_summary(c))
<1>1. \E file, groups, fatal : _dump_collectinfo_summary(c) = Phase(c, file, groups, fatal)
  BY DEF _dump_collectinfo_summary
<1> QED
  BY <1>1, PhaseQuiet

(* collectinfo: _dump_collectinfo_health only reads.                       *)
LEMMA _dump_collectinfo_healthQuiet ==
  ASSUME NEW c, Fit(c)
  PROVE  Quiet(_dump_collectinfo_health(c))
<1>1. \E file, groups, fatal : _dump_collectinfo_health(c) = Phase(c, file, groups, fatal)
  BY DEF _dump_collectinfo_health
<1> QED
  BY <1>1, PhaseQuiet

(* collectinfo: _dump_collectinfo_sysinfo only reads.                      *)
LEMMA _dump_collectinfo_sysinfoQuiet ==
  ASSUME NEW c, Fit(c)
  PROVE  Quiet(_dump_collectinfo_sysinfo(c))
<1>1. \E file, groups, fatal : _dump_collectinfo_sysinfo(c) = Phase(c, file, groups, fatal)
  BY DEF _dump_collectinfo_sysinfo
<1> QED
  BY <1>1, PhaseQuiet

(* collectinfo: _dump_collectinfo_aerospike_conf only reads.               *)
LEMMA _dump_collectinfo_aerospike_confQuiet ==
  ASSUME NEW c, Fit(c)
  PROVE  Quiet(_dump_collectinfo_aerospike_conf(c))
<1> DEFINE A == Attempt(c, <<Local("copy", <<"conf">>), write_to_file("aerospike.conf", "conf")>>, Reached)
<1>1. Quiet(A)
  BY AttemptReached
<1> QED
  <2> DEFINE X == A
             Th(d, copied) == IF copied THEN Reached(d, TRUE)
        ELSE First(Warn, Attempt(d, <<write_to_file("aerospike.conf", "error")>>, Reached))
             J(p) == IF p.reached = <<>> THEN p ELSE [Th(p.reached[1], p.reached[2]) EXCEPT !.steps = p.steps \o @]
  <2>1. _dump_collectinfo_aerospike_conf(c) = Given(X, J)
    BY DEF Joined, _dump_collectinfo_aerospike_conf
  <2>2. Given(X, J) = J(X)
    <3> HIDE DEF J, X
    <3> QED
      BY DEF Given
  <2>3. ASSUME NEW d, Fit(d), NEW copied PROVE Quiet(Th(d, copied))
    <3> DEFINE a == Attempt(d, <<write_to_file("aerospike.conf", "error")>>, Reached)
               r == Reached(d, TRUE)
    <3>1. Quiet(a) /\ Quiet(r) /\ Quiet(First(Warn, a))
      BY <2>3, AttemptReached, ReachedQuiet, FirstQuiet, StepKinds
    <3>2. Th(d, copied) = r \/ Th(d, copied) = First(Warn, a)
      OBVIOUS
    <3> HIDE DEF a, r, Th
    <3> QED
      BY <3>1, <3>2
  <2>4. Quiet(X)
    BY <1>1
  <2> HIDE DEF Th, X, A
  <2>5. Quiet(J(X))
    <3>1. CASE X.reached = <<>>
      BY <2>4, <3>1
    <3>2. CASE X.reached # <<>>
      <4>1. Quiet(Th(X.reached[1], X.reached[2]))
        BY <2>3, <2>4, <3>2 DEF Quiet
      <4>2. J(X) = Prefixed(X, Th(X.reached[1], X.reached[2]))
        BY <3>2 DEF Prefixed
      <4> QED
        BY <2>4, <4>1, <4>2, PrefixedQuiet
    <3> QED
      BY <3>1, <3>2
  <2> HIDE DEF J
  <2>6. Quiet(_dump_collectinfo_aerospike_conf(c))
    BY <2>1, <2>2, <2>5
  <2> QED
    BY <2>6

(* collectinfo: _dump_collectinfo_license_data only reads.                 *)
LEMMA _dump_collectinfo_license_dataQuiet ==
  ASSUME NEW c, Fit(c)
  PROVE  Quiet(_dump_collectinfo_license_data(c))
<1> DEFINE A == Attempt(c, <<Local("license usage", <<"agent">>)>>, Reached)
<1>1. Quiet(A)
  BY AttemptReached
<1> QED
  <2> DEFINE X == A
             Th(d, came) == IF came THEN Attempt(d, <<write_to_file("aslicenseusage.json", "usage")>>, Reached)
        ELSE First(Complain, Joined(Attempt(d, <<write_to_file("aslicenseusage.json", "usage")>>, Reached),
          LAMBDA e, written : Reached(e, FALSE)))
             J(p) == IF p.reached = <<>> THEN p ELSE [Th(p.reached[1], p.reached[2]) EXCEPT !.steps = p.steps \o @]
  <2>1. _dump_collectinfo_license_data(c) = Given(X, J)
    BY DEF Joined, _dump_collectinfo_license_data
  <2>2. Given(X, J) = J(X)
    <3> HIDE DEF J, X
    <3> QED
      BY DEF Given
  <2>3. ASSUME NEW d, Fit(d), NEW came PROVE Quiet(Th(d, came))
    <3> DEFINE a == Attempt(d, <<write_to_file("aslicenseusage.json", "usage")>>, Reached)
               q == Joined(a, LAMBDA e, written : Reached(e, FALSE))
    <3>1. Quiet(a)
      BY <2>3, AttemptReached
    <3>2. Quiet(q)
      <4> HIDE DEF a
      <4> QED
        <5> DEFINE Y == a
                   Tw(e, written) == Reached(e, FALSE)
                   K(p) == IF p.reached = <<>> THEN p
                     ELSE [Tw(p.reached[1], p.reached[2]) EXCEPT !.steps = p.steps \o @]
        <5>1. q = Given(Y, K)
          BY DEF Joined
        <5>2. Given(Y, K) = K(Y)
          <6> HIDE DEF K, Y
          <6> QED
            BY DEF Given
        <5>3. ASSUME NEW e, Fit(e), NEW written PROVE Quiet(Tw(e, written))
          BY <5>3, ReachedQuiet
        <5>4. Quiet(Y)
          BY <3>1
        <5> HIDE DEF Tw, Y
        <5>5. Quiet(K(Y))
          <6>1. CASE Y.reached = <<>>
            BY <5>4, <6>1
          <6>2. CASE Y.reached # <<>>
            <7>1. Quiet(Tw(Y.reached[1], Y.reached[2]))
              BY <5>3, <5>4, <6>2 DEF Quiet
            <7>2. K(Y) = Prefixed(Y, Tw(Y.reached[1], Y.reached[2]))
              BY <6>2 DEF Prefixed
            <7> QED
              BY <5>4, <7>1, <7>2, PrefixedQuiet
          <6> QED
            BY <6>1, <6>2
        <5> HIDE DEF K
        <5>6. Quiet(q)
          BY <5>1, <5>2, <5>5
        <5> QED
          BY <5>6
    <3>3. Th(d, came) = a \/ Th(d, came) = First(Complain, q)
      OBVIOUS
    <3> HIDE DEF a, q, Th
    <3>4. Quiet(First(Complain, q))
      BY <3>2, FirstQuiet, StepKinds
    <3> QED
      BY <3>1, <3>3, <3>4
  <2>4. Quiet(X)
    BY <1>1
  <2> HIDE DEF Th, X, A
  <2>5. Quiet(J(X))
    <3>1. CASE X.reached = <<>>
      BY <2>4, <3>1
    <3>2. CASE X.reached # <<>>
      <4>1. Quiet(Th(X.reached[1], X.reached[2]))
        BY <2>3, <2>4, <3>2 DEF Quiet
      <4>2. J(X) = Prefixed(X, Th(X.reached[1], X.reached[2]))
        BY <3>2 DEF Prefixed
      <4> QED
        BY <2>4, <4>1, <4>2, PrefixedQuiet
    <3> QED
      BY <3>1, <3>2
  <2> HIDE DEF J
  <2>6. Quiet(_dump_collectinfo_license_data(c))
    BY <2>1, <2>2, <2>5
  <2> QED
    BY <2>6

(* The summary after a part that only reads only reads.                    *)
LEMMA summaryAfter ==
  ASSUME NEW part, Quiet(part)
  PROVE  Quiet(AndThen(part, _dump_collectinfo_summary))
<1>1. Quiet(part)
  OBVIOUS
<1> QED
  <2> DEFINE X == part
             Th(d, ok) == IF ok THEN _dump_collectinfo_summary(d) ELSE Reached(d, FALSE)
             J(p) == IF p.reached = <<>> THEN p ELSE [Th(p.reached[1], p.reached[2]) EXCEPT !.steps = p.steps \o @]
  <2>1. AndThen(part, _dump_collectinfo_summary) = Given(X, J)
    BY DEF Joined, AndThen
  <2>2. Given(X, J) = J(X)
    <3> HIDE DEF J, X
    <3> QED
      BY DEF Given
  <2>3. ASSUME NEW d, Fit(d), NEW ok PROVE Quiet(Th(d, ok))
    BY <2>3, ReachedQuiet, _dump_collectinfo_summaryQuiet
  <2>4. Quiet(X)
    BY <1>1
  <2> HIDE DEF Th, X
  <2>5. Quiet(J(X))
    <3>1. CASE X.reached = <<>>
      BY <2>4, <3>1
    <3>2. CASE X.reached # <<>>
      <4>1. Quiet(Th(X.reached[1], X.reached[2]))
        BY <2>3, <2>4, <3>2 DEF Quiet
      <4>2. J(X) = Prefixed(X, Th(X.reached[1], X.reached[2]))
        BY <3>2 DEF Prefixed
      <4> QED
        BY <2>4, <4>1, <4>2, PrefixedQuiet
    <3> QED
      BY <3>1, <3>2
  <2> HIDE DEF J
  <2>6. Quiet(AndThen(part, _dump_collectinfo_summary))
    BY <2>1, <2>2, <2>5
  <2> QED
    BY <2>6

(* The health report after a part that only reads only reads.              *)
LEMMA healthAfter ==
  ASSUME NEW part, Quiet(part)
  PROVE  Quiet(AndThen(part, _dump_collectinfo_health))
<1>1. Quiet(part)
  OBVIOUS
<1> QED
  <2> DEFINE X == part
             Th(d, ok) == IF ok THEN _dump_collectinfo_health(d) ELSE Reached(d, FALSE)
             J(p) == IF p.reached = <<>> THEN p ELSE [Th(p.reached[1], p.reached[2]) EXCEPT !.steps = p.steps \o @]
  <2>1. AndThen(part, _dump_collectinfo_health) = Given(X, J)
    BY DEF Joined, AndThen
  <2>2. Given(X, J) = J(X)
    <3> HIDE DEF J, X
    <3> QED
      BY DEF Given
  <2>3. ASSUME NEW d, Fit(d), NEW ok PROVE Quiet(Th(d, ok))
    BY <2>3, ReachedQuiet, _dump_collectinfo_healthQuiet
  <2>4. Quiet(X)
    BY <1>1
  <2> HIDE DEF Th, X
  <2>5. Quiet(J(X))
    <3>1. CASE X.reached = <<>>
      BY <2>4, <3>1
    <3>2. CASE X.reached # <<>>
      <4>1. Quiet(Th(X.reached[1], X.reached[2]))
        BY <2>3, <2>4, <3>2 DEF Quiet
      <4>2. J(X) = Prefixed(X, Th(X.reached[1], X.reached[2]))
        BY <3>2 DEF Prefixed
      <4> QED
        BY <2>4, <4>1, <4>2, PrefixedQuiet
    <3> QED
      BY <3>1, <3>2
  <2> HIDE DEF J
  <2>6. Quiet(AndThen(part, _dump_collectinfo_health))
    BY <2>1, <2>2, <2>5
  <2> QED
    BY <2>6

(* The system information after a part that only reads only reads.         *)
LEMMA sysinfoAfter ==
  ASSUME NEW part, Quiet(part)
  PROVE  Quiet(AndThen(part, _dump_collectinfo_sysinfo))
<1>1. Quiet(part)
  OBVIOUS
<1> QED
  <2> DEFINE X == part
             Th(d, ok) == IF ok THEN _dump_collectinfo_sysinfo(d) ELSE Reached(d, FALSE)
             J(p) == IF p.reached = <<>> THEN p ELSE [Th(p.reached[1], p.reached[2]) EXCEPT !.steps = p.steps \o @]
  <2>1. AndThen(part, _dump_collectinfo_sysinfo) = Given(X, J)
    BY DEF Joined, AndThen
  <2>2. Given(X, J) = J(X)
    <3> HIDE DEF J, X
    <3> QED
      BY DEF Given
  <2>3. ASSUME NEW d, Fit(d), NEW ok PROVE Quiet(Th(d, ok))
    BY <2>3, ReachedQuiet, _dump_collectinfo_sysinfoQuiet
  <2>4. Quiet(X)
    BY <1>1
  <2> HIDE DEF Th, X
  <2>5. Quiet(J(X))
    <3>1. CASE X.reached = <<>>
      BY <2>4, <3>1
    <3>2. CASE X.reached # <<>>
      <4>1. Quiet(Th(X.reached[1], X.reached[2]))
        BY <2>3, <2>4, <3>2 DEF Quiet
      <4>2. J(X) = Prefixed(X, Th(X.reached[1], X.reached[2]))
        BY <3>2 DEF Prefixed
      <4> QED
        BY <2>4, <4>1, <4>2, PrefixedQuiet
    <3> QED
      BY <3>1, <3>2
  <2> HIDE DEF J
  <2>6. Quiet(AndThen(part, _dump_collectinfo_sysinfo))
    BY <2>1, <2>2, <2>5
  <2> QED
    BY <2>6

(* The configuration file after a part that only reads only reads.         *)
LEMMA aerospike_confAfter ==
  ASSUME NEW part, Quiet(part)
  PROVE  Quiet(AndThen(part, _dump_collectinfo_aerospike_conf))
<1>1. Quiet(part)
  OBVIOUS
<1> QED
  <2> DEFINE X == part
             Th(d, ok) == IF ok THEN _dump_collectinfo_aerospike_conf(d) ELSE Reached(d, FALSE)
             J(p) == IF p.reached = <<>> THEN p ELSE [Th(p.reached[1], p.reached[2]) EXCEPT !.steps = p.steps \o @]
  <2>1. AndThen(part, _dump_collectinfo_aerospike_conf) = Given(X, J)
    BY DEF Joined, AndThen
  <2>2. Given(X, J) = J(X)
    <3> HIDE DEF J, X
    <3> QED
      BY DEF Given
  <2>3. ASSUME NEW d, Fit(d), NEW ok PROVE Quiet(Th(d, ok))
    BY <2>3, ReachedQuiet, _dump_collectinfo_aerospike_confQuiet
  <2>4. Quiet(X)
    BY <1>1
  <2> HIDE DEF Th, X
  <2>5. Quiet(J(X))
    <3>1. CASE X.reached = <<>>
      BY <2>4, <3>1
    <3>2. CASE X.reached # <<>>
      <4>1. Quiet(Th(X.reached[1], X.reached[2]))
        BY <2>3, <2>4, <3>2 DEF Quiet
      <4>2. J(X) = Prefixed(X, Th(X.reached[1], X.reached[2]))
        BY <3>2 DEF Prefixed
      <4> QED
        BY <2>4, <4>1, <4>2, PrefixedQuiet
    <3> QED
      BY <3>1, <3>2
  <2> HIDE DEF J
  <2>6. Quiet(AndThen(part, _dump_collectinfo_aerospike_conf))
    BY <2>1, <2>2, <2>5
  <2> QED
    BY <2>6

(* All files of a capture, one after the other, only read.                 *)
LEMMA AllFilesQuiet ==
  ASSUME NEW c, Fit(c)
  PROVE  Quiet(AllFiles(c))
<1> DEFINE a == _dump_collectinfo_ascollectinfo(c)
           b == AndThen(a, _dump_collectinfo_summary)
           h == AndThen(b, _dump_collectinfo_health)
           s == AndThen(h, _dump_collectinfo_sysinfo)
           f == AndThen(s, _dump_collectinfo_aerospike_conf)
<1>1. Quiet(a)
  BY _dump_collectinfo_ascollectinfoQuiet
<1>2. Quiet(b)
  <2> HIDE DEF a
  <2> QED
    BY <1>1, summaryAfter
<1>3. Quiet(h)
  <2> HIDE DEF b
  <2> QED
    BY <1>2, healthAfter
<1>4. Quiet(s)
  <2> HIDE DEF h
  <2> QED
    BY <1>3, sysinfoAfter
<1>5. Quiet(f)
  <2> HIDE DEF s
  <2> QED
    BY <1>4, aerospike_confAfter
<1>6. AllFiles(c) = f
  BY DEF AllFiles
<1> HIDE DEF f
<1> QED
  BY <1>5, <1>6

(* To archive the files asks nothing.                                      *)
LEMMA ArchivedQuiet ==
  ASSUME NEW c, Fit(c), NEW ignore
  PROVE  Quiet(Unless(AllFiles(c), ignore, archive_log))
<1> DEFINE A == AllFiles(c)
<1>1. Quiet(A)
  BY AllFilesQuiet
<1>2. \A d : Quiet(archive_log(d))
  BY EndQuiet, StepKinds, SilentStep DEF archive_log
<1> QED
  <2> DEFINE X == A
             Th(d, ok) == IF ok \/ ignore THEN archive_log(d) ELSE End(d, <<Complain>>)
             J(p) == IF p.reached = <<>> THEN p ELSE [Th(p.reached[1], p.reached[2]) EXCEPT !.steps = p.steps \o @]
  <2>1. Unless(AllFiles(c), ignore, archive_log) = Given(X, J)
    BY DEF Joined, Unless
  <2>2. Given(X, J) = J(X)
    <3> HIDE DEF J, X
    <3> QED
      BY DEF Given
  <2>3. ASSUME NEW d, Fit(d), NEW ok PROVE Quiet(Th(d, ok))
    BY <1>2, EndsQuiet
  <2>4. Quiet(X)
    BY <1>1
  <2> HIDE DEF Th, X, A
  <2>5. Quiet(J(X))
    <3>1. CASE X.reached = <<>>
      BY <2>4, <3>1
    <3>2. CASE X.reached # <<>>
      <4>1. Quiet(Th(X.reached[1], X.reached[2]))
        BY <2>3, <2>4, <3>2 DEF Quiet
      <4>2. J(X) = Prefixed(X, Th(X.reached[1], X.reached[2]))
        BY <3>2 DEF Prefixed
      <4> QED
        BY <2>4, <4>1, <4>2, PrefixedQuiet
    <3> QED
      BY <3>1, <3>2
  <2> HIDE DEF J
  <2>6. Quiet(Unless(AllFiles(c), ignore, archive_log))
    BY <2>1, <2>2, <2>5
  <2> QED
    BY <2>6

Loaded_(d, ignore) ==
  Attempt(d, <<Local("load", <<"ascinfo.json">>)>>, LAMBDA e, loaded :
    IF loaded THEN Unless(AllFiles(e), ignore, archive_log) ELSE End(e, <<Raise>>))

(* A capture, loaded, only reads.                                          *)
LEMMA LoadedQuiet ==
  ASSUME NEW c, Fit(c), NEW ignore
  PROVE  Quiet(Loaded_(c, ignore))
<1>0. Fit(c)
  OBVIOUS
<1> QED
  <2> DEFINE T(e, answers) == IF answers[Here].came = "ok" THEN Unless(AllFiles(e), ignore, archive_log)
               ELSE End(e, <<Raise>>)
  <2>1. ASSUME NEW e, Fit(e), NEW answers, DOMAIN answers \subseteq Machines PROVE Quiet(T(e, answers))
    <3>0. e.nodes \in SUBSET Machines
      BY <2>1, FitNodes
    <3> DEFINE u == Unless(AllFiles(e), ignore, archive_log)
    <3>1. Quiet(u)
      BY <2>1, ArchivedQuiet
    <3>2. T(e, answers) = u \/ T(e, answers) = End(e, <<Raise>>)
      OBVIOUS
    <3> HIDE DEF u, T
    <3> QED
      BY <3>1, <3>2, EndsQuiet
  <2> DEFINE M(n) == <<Local("load", <<"ascinfo.json">>)>>
             N == {Here}
             MM(n) == <<M(n)>>
             T1(x, y) == Given([n \in DOMAIN y |-> y[n][1]], LAMBDA first : T(x, first))
  <2> DEFINE S == [c EXCEPT !.seen = Tail(@)]
             H == Head(c.seen)
             F == [n \in DOMAIN H |-> H[n][1]]
             k == [n \in N |-> MM(n)]
             z == T1(S, H)
  <2>2. Loaded_(c, ignore) = Call(c, N, M, T)
    BY DEF Loaded_, Attempt
  <2>3. Call(c, N, M, T) = CallAll(c, N, MM, T1)
    BY DEF Call
  <2>4. CallAll(c, N, MM, T1) =
         IF N = {} THEN End(c, <<Raise>>)
         ELSE First(CallStep(k), IF c.seen = <<>> THEN End(c, <<>>) ELSE T1(S, H))
    <3> HIDE DEF T1, MM, N
    <3> QED
      BY DEF CallAll, Given
  <2>5. c.seen # <<>> => Quiet(z)
    <3>1. z = T(S, F)
      <4> HIDE DEF T, S, H
      <4> QED
        BY DEF Given
    <3>2. DOMAIN F = DOMAIN H
      OBVIOUS
    <3>3. c.seen # <<>> => Fit(S) /\ DOMAIN H \subseteq Machines
      BY <1>0, FitRest DEF Rest
    <3> HIDE DEF z, T, S, F, H
    <3> QED
      BY <2>1, <3>1, <3>3, <3>2
  <2>7. N \in SUBSET Machines
    BY DEF Machines
  <2>8. DOMAIN k = N /\ \A n \in N : k[n] = MM(n)
    OBVIOUS
  <2> HIDE DEF k, z, T1, T, MM, N, S, H, F, M
  <2>9. ReadAsked(k)
    BY <2>7, <2>8 DEF ReadAsked, N
  <2>10. Quiet(CallPlan(c, k, z))
    BY <2>5, <2>9, CallQuiet
  <2>11. CallAll(c, N, MM, T1) = IF N = {} THEN End(c, <<Raise>>) ELSE CallPlan(c, k, z)
    BY <2>4 DEF CallPlan, z
  <2>12. Quiet(Loaded_(c, ignore))
    BY <2>2, <2>3, <2>10, <2>11, EndsQuiet
  <2> QED
    BY <2>12

(* A capture under its limits only reads.                                  *)
LEMMA CollectedQuiet ==
  ASSUME NEW c, Fit(c), NEW snapshots, NEW ignore
  PROVE  Quiet(Collected(c, snapshots, ignore))
<1> DEFINE A == _dump_collectinfo_json(c, snapshots)
<1>1. Quiet(A)
  BY _dump_collectinfo_jsonQuiet
<1> QED
  <2> DEFINE X == A
             Th(d, ok) == IF ok \/ FALSE THEN Loaded_(d, ignore) ELSE End(d, <<Complain>>)
             J(p) == IF p.reached = <<>> THEN p ELSE [Th(p.reached[1], p.reached[2]) EXCEPT !.steps = p.steps \o @]
  <2>1. Collected(c, snapshots, ignore) = Given(X, J)
    BY DEF Joined, Unless, Collected, Loaded_
  <2>2. Given(X, J) = J(X)
    <3> HIDE DEF J, X
    <3> QED
      BY DEF Given
  <2>3. ASSUME NEW d, Fit(d), NEW ok PROVE Quiet(Th(d, ok))
    BY <2>3, LoadedQuiet, EndsQuiet
  <2>4. Quiet(X)
    BY <1>1
  <2> HIDE DEF Th, X, A
  <2>5. Quiet(J(X))
    <3>1. CASE X.reached = <<>>
      BY <2>4, <3>1
    <3>2. CASE X.reached # <<>>
      <4>1. Quiet(Th(X.reached[1], X.reached[2]))
        BY <2>3, <2>4, <3>2 DEF Quiet
      <4>2. J(X) = Prefixed(X, Th(X.reached[1], X.reached[2]))
        BY <3>2 DEF Prefixed
      <4> QED
        BY <2>4, <4>1, <4>2, PrefixedQuiet
    <3> QED
      BY <3>1, <3>2
  <2> HIDE DEF J
  <2>6. Quiet(Collected(c, snapshots, ignore))
    BY <2>1, <2>2, <2>5
  <2> QED
    BY <2>6

Filled_(d, snapshots, agent, ignore) ==
  Unless(IF agent THEN _dump_collectinfo_license_data(d) ELSE Reached(d, TRUE), ignore,
    LAMBDA e : Collected(e, snapshots, ignore))

(* A capture with its arguments only reads.                                *)
LEMMA FilledQuiet ==
  ASSUME NEW c, Fit(c), NEW snapshots, NEW agent, NEW ignore
  PROVE  Quiet(Filled_(c, snapshots, agent, ignore))
<1> DEFINE A == IF agent THEN _dump_collectinfo_license_data(c) ELSE Reached(c, TRUE)
<1>1. Quiet(A)
  BY _dump_collectinfo_license_dataQuiet, ReachedQuiet
<1> QED
  <2> DEFINE X == A
             Th(d, ok) == IF ok \/ ignore THEN Collected(d, snapshots, ignore) ELSE End(d, <<Complain>>)
             J(p) == IF p.reached = <<>> THEN p ELSE [Th(p.reached[1], p.reached[2]) EXCEPT !.steps = p.steps \o @]
  <2>1. Filled_(c, snapshots, agent, ignore) = Given(X, J)
    BY DEF Joined, Unless, Filled_
  <2>2. Given(X, J) = J(X)
    <3> HIDE DEF J, X
    <3> QED
      BY DEF Given
  <2>3. ASSUME NEW d, Fit(d), NEW ok PROVE Quiet(Th(d, ok))
    BY <2>3, CollectedQuiet, EndsQuiet
  <2>4. Quiet(X)
    BY <1>1
  <2> HIDE DEF Th, X, A
  <2>5. Quiet(J(X))
    <3>1. CASE X.reached = <<>>
      BY <2>4, <3>1
    <3>2. CASE X.reached # <<>>
      <4>1. Quiet(Th(X.reached[1], X.reached[2]))
        BY <2>3, <2>4, <3>2 DEF Quiet
      <4>2. J(X) = Prefixed(X, Th(X.reached[1], X.reached[2]))
        BY <3>2 DEF Prefixed
      <4> QED
        BY <2>4, <4>1, <4>2, PrefixedQuiet
    <3> QED
      BY <3>1, <3>2
  <2> HIDE DEF J
  <2>6. Quiet(Filled_(c, snapshots, agent, ignore))
    BY <2>1, <2>2, <2>5
  <2> QED
    BY <2>6

(* collectinfo: _run_collectinfo only reads.                               *)
LEMMA _run_collectinfoQuiet ==
  ASSUME NEW c, Fit(c), NEW snapshots, NEW agent, NEW ignore
  PROVE  Quiet(_run_collectinfo(c, snapshots, agent, ignore))
<1>0. Fit(c)
  OBVIOUS
<1> QED
  <2> DEFINE T(e, answers) == IF ~(answers[Here].came = "ok") THEN End(e, <<Raise>>)
               ELSE Filled_(e, snapshots, agent, ignore)
  <2>1. ASSUME NEW e, Fit(e), NEW answers, DOMAIN answers \subseteq Machines PROVE Quiet(T(e, answers))
    <3>0. e.nodes \in SUBSET Machines
      BY <2>1, FitNodes
    <3> DEFINE u == Filled_(e, snapshots, agent, ignore)
    <3>1. Quiet(u)
      BY <2>1, FilledQuiet
    <3>2. T(e, answers) = u \/ T(e, answers) = End(e, <<Raise>>)
      OBVIOUS
    <3> HIDE DEF u, T
    <3> QED
      BY <3>1, <3>2, EndsQuiet
  <2> DEFINE M(n) == <<Local("mkdir", <<"archive">>)>>
             N == {Here}
             MM(n) == <<M(n)>>
             T1(x, y) == Given([n \in DOMAIN y |-> y[n][1]], LAMBDA first : T(x, first))
  <2> DEFINE S == [c EXCEPT !.seen = Tail(@)]
             H == Head(c.seen)
             F == [n \in DOMAIN H |-> H[n][1]]
             k == [n \in N |-> MM(n)]
             z == T1(S, H)
  <2>2. _run_collectinfo(c, snapshots, agent, ignore) = Call(c, N, M, T)
    BY DEF _run_collectinfo, Attempt, Filled_
  <2>3. Call(c, N, M, T) = CallAll(c, N, MM, T1)
    BY DEF Call
  <2>4. CallAll(c, N, MM, T1) =
         IF N = {} THEN End(c, <<Raise>>)
         ELSE First(CallStep(k), IF c.seen = <<>> THEN End(c, <<>>) ELSE T1(S, H))
    <3> HIDE DEF T1, MM, N
    <3> QED
      BY DEF CallAll, Given
  <2>5. c.seen # <<>> => Quiet(z)
    <3>1. z = T(S, F)
      <4> HIDE DEF T, S, H
      <4> QED
        BY DEF Given
    <3>2. DOMAIN F = DOMAIN H
      OBVIOUS
    <3>3. c.seen # <<>> => Fit(S) /\ DOMAIN H \subseteq Machines
      BY <1>0, FitRest DEF Rest
    <3> HIDE DEF z, T, S, F, H
    <3> QED
      BY <2>1, <3>1, <3>3, <3>2
  <2>7. N \in SUBSET Machines
    BY DEF Machines
  <2>8. DOMAIN k = N /\ \A n \in N : k[n] = MM(n)
    OBVIOUS
  <2> HIDE DEF k, z, T1, T, MM, N, S, H, F, M
  <2>9. ReadAsked(k)
    BY <2>7, <2>8 DEF ReadAsked, N
  <2>10. Quiet(CallPlan(c, k, z))
    BY <2>5, <2>9, CallQuiet
  <2>11. CallAll(c, N, MM, T1) = IF N = {} THEN End(c, <<Raise>>) ELSE CallPlan(c, k, z)
    BY <2>4 DEF CallPlan, z
  <2>12. Quiet(_run_collectinfo(c, snapshots, agent, ignore))
    BY <2>2, <2>3, <2>10, <2>11, EndsQuiet
  <2> QED
    BY <2>12

(* collectinfo: whatever the line, whatever was answered and whichever     *)
(* file could be written, every request only reads.                        *)
LEMMA CollectinfoControllerQuiet ==
  ASSUME NEW c, Fit(c)
  PROVE  Quiet(CollectinfoController(c))
<1> DEFINE mod == {"with"}  g == parse_modifiers(c.line, {} \union mod)
           B0(d) == LET options == <<"-n", "-t", "--agent-host", "--agent-port", "--ssh-user", "--ssh-pwd",
                     "--ssh-port", "--ssh-key", "--ssh-cf", "--output-prefix", "--asconfig-file">>
        flags == <<"--agent-store", "--enable-ssh", "--ignore-errors">>
        snapshots == CASE fetch_argument(d.line, "-n", "1") = "0" -> 0
                       [] fetch_argument(d.line, "-n", "1") = "1" -> 1
                       [] OTHER -> 2
    IN Given(Dropping(Taking(d, options, d.keys), flags, d.keys), LAMBDA e :
         Telling(e.line # <<>>, Complain,
           IF snapshots = 0 THEN End(e, <<Complain>>)
           ELSE _run_collectinfo(e, snapshots, e.args["--agent-host"] # "",
                                 check_arg(d, "--ignore-errors"))))
<1>1. CollectinfoController(c) = pre_command(c, {}, mod, B0)
  BY DEF CollectinfoController, Leaf
<1>2. pre_command(c, {}, mod, B0) = B0(Grouped(c, {}, mod, g))
  <2> HIDE DEF B0, mod
  <2> QED
    BY DEF pre_command, WithGroups, Given
<1>3. ASSUME NEW d, Fit(d) PROVE Quiet(B0(d))
  <2>0. d.nodes \in SUBSET Machines
    BY <1>3, FitNodes
  <2> DEFINE options == <<"-n", "-t", "--agent-host", "--agent-port", "--ssh-user", "--ssh-pwd",
                          "--ssh-port", "--ssh-key", "--ssh-cf", "--output-prefix", "--asconfig-file">>
             flags == <<"--agent-store", "--enable-ssh", "--ignore-errors">>
             snapshots == CASE fetch_argument(d.line, "-n", "1") = "0" -> 0
                            [] fetch_argument(d.line, "-n", "1") = "1" -> 1
                            [] OTHER -> 2
             ignore == check_arg(d, "--ignore-errors")
             v == Dropping(Taking(d, options, d.keys), flags, d.keys)
             q(e) == IF snapshots = 0 THEN End(e, <<Complain>>)
                     ELSE _run_collectinfo(e, snapshots, e.args["--agent-host"] # "", ignore)
             R(e) == Telling(e.line # <<>>, Complain, q(e))
  <2>1. B0(d) = Given(v, R)
    OBVIOUS
  <2>2. Given(v, R) = R(v)
    <3> HIDE DEF R, v
    <3> QED
      BY DEF Given
  <2>3. Fit(v)
    <3> HIDE DEF options, flags
    <3> QED
      BY <1>3, FoldsGood
  <2> HIDE DEF v, snapshots, ignore
  <2>4. Quiet(q(v))
    <3> DEFINE a == v.args["--agent-host"] # ""
    <3> HIDE DEF a
    <3>1. Quiet(_run_collectinfo(v, snapshots, a, ignore))
      BY <2>3, _run_collectinfoQuiet
    <3> QED
      BY <3>1, EndsQuiet DEF a
  <2> HIDE DEF q
  <2>5. Quiet(R(v))
    BY <2>4, FirstQuiet, StepKinds DEF Telling
  <2> HIDE DEF R, B0
  <2> QED
    BY <2>1, <2>2, <2>5
<1> HIDE DEF B0, mod, g
<1>4. Quiet(B0(Grouped(c, {}, mod, g)))
  BY <1>3, GroupedGood
<1> QED
  BY <1>1, <1>2, <1>4
=============================================================================
