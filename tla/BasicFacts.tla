----------------------------- MODULE BasicFacts -----------------------------
(***************************************************************************)
(* Facts about numbers and sequences that the proofs share.  Min is a      *)
(* CHOOSE: that it chooses is the well-foundedness of the numbers, here    *)
(* that of the sets 1 .. n.  Induction is over a set of numbers, as no     *)
(* prover can take a formula for a parameter.                              *)
(***************************************************************************)
EXTENDS SequencesExt, TLAPS, FiniteSetTheorems, SequenceTheorems

(* The least of some numbers is one of them and not above any.               *)
LEMMA MinIsLeast ==
  ASSUME NEW S, S \subseteq Nat, S # {}
  PROVE  Min(S) \in S /\ \A y \in S : Min(S) <= y
<1> DEFINE T == {1 .. n : n \in S}
<1>1. T # {}
  OBVIOUS
<1>2. T \subseteq FiniteSubsetsOf(Nat)
  <2>1. \A n \in S : 1 .. n \subseteq Nat
    OBVIOUS
  <2>2. \A n \in S : IsFiniteSet(1 .. n)
    BY FS_Interval
  <2> QED
    BY <2>1, <2>2 DEF FiniteSubsetsOf
<1>3. PICK t \in T : \A u \in T : <<u, t>> \notin StrictSubsetOrdering(Nat)
  BY <1>1, <1>2, WFMin, FS_StrictSubsetOrderingWellFounded, Zenon
<1>4. PICK x \in S : t = 1 .. x
  OBVIOUS
<1>5. ASSUME NEW y \in S PROVE x <= y
  <2>1. <<1 .. y, 1 .. x>> \notin StrictSubsetOrdering(Nat)
    BY <1>3, <1>4
  <2>2. CASE y < x
    <3>1. 1 .. y \subseteq 1 .. x /\ x \in 1 .. x /\ x \notin 1 .. y
      BY <2>2
    <3> QED
      BY <3>1, <2>1 DEF StrictSubsetOrdering
  <2> QED
    BY <2>2
<1> QED
  BY <1>5 DEF Min

(* A set of numbers that has 0, and every number after one that it has, has *)
(* all of them.                                                            *)
LEMMA InductionUpTo ==
  ASSUME NEW n \in Nat, NEW G, 0 \in G,
         \A k \in 1 .. n : k - 1 \in G => k \in G
  PROVE  \A k \in 0 .. n : k \in G
<1> DEFINE Bad == {k \in 0 .. n : k \notin G}
<1> SUFFICES ASSUME Bad # {} PROVE FALSE
  OBVIOUS
<1>1. Bad \subseteq Nat
  OBVIOUS
<1>2. PICK k \in Bad : \A y \in Bad : k <= y
  BY <1>1, MinIsLeast
<1>3. k # 0 /\ k \in 1 .. n /\ k - 1 \in 0 .. n /\ ~(k <= k - 1)
  BY <1>2
<1>4. k - 1 \in G
  BY <1>2, <1>3
<1> QED
  BY <1>2, <1>3, <1>4

-----------------------------------------------------------------------------
(* Sequences.                                                              *)

IsSeq(s) == s \in Seq(ToSet(s))

(* A member of Seq(S), for whatever S, is a sequence.                      *)
LEMMA SeqIs ==
  ASSUME NEW S, NEW s \in Seq(S)
  PROVE  IsSeq(s)
<1>1. \A i \in 1 .. Len(s) : s[i] \in ToSet(s)
  BY DEF ToSet
<1> QED
  BY <1>1 DEF IsSeq

(* A sequence has a length, and its domain is 1 .. that length.            *)
LEMMA SeqLen ==
  ASSUME NEW s, IsSeq(s)
  PROVE  Len(s) \in Nat /\ DOMAIN s = 1 .. Len(s)
  BY DEF IsSeq

(* A function on 1 .. n is a sequence of length n.                         *)
LEMMA SeqMade ==
  ASSUME NEW n \in Nat, NEW s, DOMAIN s = 1 .. n, s = [i \in 1 .. n |-> s[i]]
  PROVE  IsSeq(s) /\ Len(s) = n
<1>1. s \in [1 .. n -> ToSet(s)]
  BY DEF ToSet
<1> QED
  BY <1>1 DEF IsSeq

(* One element is a sequence, and none is.                                 *)
LEMMA SeqOne ==
  ASSUME NEW x
  PROVE  IsSeq(<<x>>) /\ IsSeq(<<>>)
<1>1. <<x>> \in Seq({x}) /\ <<>> \in Seq({x})
  OBVIOUS
<1> QED
  BY <1>1, SeqIs

(* What \o yields: a sequence, its length, and its elements.               *)
LEMMA SeqJoined ==
  ASSUME NEW s, NEW t, IsSeq(s), IsSeq(t)
  PROVE  /\ IsSeq(s \o t) /\ Len(s \o t) = Len(s) + Len(t)
         /\ \A i \in 1 .. Len(s) : (s \o t)[i] = s[i]
         /\ \A i \in 1 .. Len(t) : (s \o t)[Len(s) + i] = t[i]
<1> DEFINE S == ToSet(s) \union ToSet(t)
<1>1. s \in Seq(S) /\ t \in Seq(S)
  BY DEF IsSeq
<1> HIDE DEF S
<1>2. s \o t \in Seq(S) /\ Len(s \o t) = Len(s) + Len(t)
  BY <1>1
<1>3. \A i \in 1 .. Len(s) : (s \o t)[i] = s[i]
  BY <1>1
<1>4. \A i \in 1 .. Len(t) : (s \o t)[Len(s) + i] = t[i]
  BY <1>1
<1> QED
  BY <1>2, <1>3, <1>4, SeqIs

(* What Tail yields: a sequence one shorter, its elements moved up by one. *)
LEMMA SeqTail ==
  ASSUME NEW s, IsSeq(s), s # <<>>
  PROVE  /\ IsSeq(Tail(s)) /\ Len(Tail(s)) = Len(s) - 1
         /\ \A i \in 1 .. (Len(s) - 1) : Tail(s)[i] = s[i + 1]
         /\ Head(s) = s[1] /\ Len(s) >= 1
<1> DEFINE S == ToSet(s)
<1>1. s \in Seq(S)
  BY DEF IsSeq
<1> HIDE DEF S
<1>2. Tail(s) \in Seq(S) /\ Len(Tail(s)) = Len(s) - 1 /\ Len(s) >= 1 /\ Head(s) = s[1]
  BY <1>1
<1>3. \A i \in 1 .. (Len(s) - 1) : Tail(s)[i] = s[i + 1]
  BY <1>1
<1> QED
  BY <1>2, <1>3, SeqIs

(* What Append yields: a sequence one longer, with the element at its end. *)
LEMMA SeqAppended ==
  ASSUME NEW s, NEW x, IsSeq(s)
  PROVE  /\ IsSeq(Append(s, x)) /\ Len(Append(s, x)) = Len(s) + 1
         /\ Append(s, x) # <<>>
         /\ \A i \in 1 .. Len(s) : Append(s, x)[i] = s[i]
         /\ Append(s, x)[Len(s) + 1] = x
<1> DEFINE S == ToSet(s) \union {x}
<1>1. s \in Seq(S) /\ x \in S
  BY DEF IsSeq
<1> HIDE DEF S
<1>2. /\ Append(s, x) \in Seq(S) /\ Len(Append(s, x)) = Len(s) + 1
      /\ Append(s, x)[Len(s) + 1] = x
  BY <1>1
<1>3. \A i \in 1 .. Len(s) : Append(s, x)[i] = s[i]
  BY <1>1
<1>4. Append(s, x) # <<>>
  BY <1>1, <1>2
<1> QED
  BY <1>2, <1>3, <1>4, SeqIs

(* What SubSeq up to the end yields: a sequence of the elements from m on. *)
LEMMA SeqCut ==
  ASSUME NEW s, IsSeq(s), NEW m \in 1 .. Len(s) + 1
  PROVE  /\ IsSeq(SubSeq(s, m, Len(s))) /\ Len(SubSeq(s, m, Len(s))) = Len(s) - m + 1
         /\ \A i \in 1 .. (Len(s) - m + 1) : SubSeq(s, m, Len(s))[i] = s[m + i - 1]
<1> DEFINE S == ToSet(s)
<1>1. s \in Seq(S)
  BY DEF IsSeq
<1> HIDE DEF S
<1>2. SubSeq(s, m, Len(s)) \in Seq(S) /\ Len(SubSeq(s, m, Len(s))) = Len(s) - m + 1
  BY <1>1
<1>3. \A i \in 1 .. (Len(s) - m + 1) : SubSeq(s, m, Len(s))[i] = s[m + i - 1]
  BY <1>1, <1>2
<1> QED
  BY <1>2, <1>3, SeqIs

(* Sequences of one length with the same elements are equal.               *)
LEMMA SeqAlike ==
  ASSUME NEW s, NEW t, IsSeq(s), IsSeq(t), Len(s) = Len(t),
         \A i \in 1 .. Len(s) : s[i] = t[i]
  PROVE  s = t
<1> DEFINE S == ToSet(s) \union ToSet(t)
<1>1. s \in Seq(S) /\ t \in Seq(S)
  BY DEF IsSeq
<1> HIDE DEF S
<1> QED
  BY <1>1

(* The elements of a sequence are what it has at its places.               *)
LEMMA SeqElems ==
  ASSUME NEW s, IsSeq(s)
  PROVE  /\ \A x : x \in ToSet(s) <=> \E i \in 1 .. Len(s) : s[i] = x
         /\ \A i \in 1 .. Len(s) : s[i] \in ToSet(s)
  BY SeqLen DEF ToSet

(* The elements of s \o t are those of s and those of t.                   *)
LEMMA SeqJoinedElems ==
  ASSUME NEW s, NEW t, IsSeq(s), IsSeq(t)
  PROVE  IsSeq(s \o t) /\ ToSet(s \o t) = ToSet(s) \union ToSet(t)
<1>1. /\ IsSeq(s \o t) /\ Len(s \o t) = Len(s) + Len(t)
      /\ \A i \in 1 .. Len(s) : (s \o t)[i] = s[i]
      /\ \A i \in 1 .. Len(t) : (s \o t)[Len(s) + i] = t[i]
  BY SeqJoined
<1>2. Len(s) \in Nat /\ Len(t) \in Nat
  BY SeqLen
<1>3. ASSUME NEW x \in ToSet(s \o t) PROVE x \in ToSet(s) \union ToSet(t)
  <2>1. PICK i \in 1 .. Len(s \o t) : (s \o t)[i] = x
    BY <1>1, SeqElems
  <2>2. CASE i \in 1 .. Len(s)
    BY <2>1, <2>2, <1>1, SeqElems
  <2>3. CASE i \notin 1 .. Len(s)
    <3>1. i - Len(s) \in 1 .. Len(t) /\ i = Len(s) + (i - Len(s))
      BY <1>1, <1>2, <2>3
    <3> QED
      BY <3>1, <2>1, <1>1, SeqElems
  <2> QED
    BY <2>2, <2>3
<1>4. ASSUME NEW x \in ToSet(s) PROVE x \in ToSet(s \o t)
  <2>1. PICK i \in 1 .. Len(s) : s[i] = x
    BY SeqElems
  <2>2. i \in 1 .. Len(s \o t)
    BY <1>1, <1>2
  <2> QED
    BY <2>1, <2>2, <1>1, SeqElems
<1>5. ASSUME NEW x \in ToSet(t) PROVE x \in ToSet(s \o t)
  <2>1. PICK i \in 1 .. Len(t) : t[i] = x
    BY SeqElems
  <2>2. Len(s) + i \in 1 .. Len(s \o t)
    BY <1>1, <1>2
  <2> QED
    BY <2>1, <2>2, <1>1, SeqElems
<1> QED
  BY <1>1, <1>3, <1>4, <1>5

(* The elements of one element, and of none.                               *)
LEMMA SeqOneElems ==
  ASSUME NEW x
  PROVE  IsSeq(<<x>>) /\ ToSet(<<x>>) = {x} /\ IsSeq(<<>>) /\ ToSet(<<>>) = {}
  BY SeqOne DEF ToSet

(* A sequence made of another, element by element, is as long as it.       *)
LEMMA SeqMapped ==
  ASSUME NEW s, IsSeq(s), NEW t, t = [i \in DOMAIN s |-> t[i]]
  PROVE  IsSeq(t) /\ Len(t) = Len(s) /\ DOMAIN t = DOMAIN s
<1>1. Len(s) \in Nat /\ DOMAIN s = 1 .. Len(s)
  BY SeqLen, Zenon
<1> QED
  BY <1>1, SeqMade
=============================================================================
