--------------------------- MODULE LogMergeProofs ---------------------------
(***************************************************************************)
(* Proofs about the counts and differences of several logs, for any logs,  *)
(* options and sizes of a page: the rows that the logs yield fit together  *)
(* (FitToMerge), what the user sees is one table, and it has it all.       *)
(***************************************************************************)
EXTENDS LogAnalyzer, BasicFacts

(* A merger has these fields.                                              *)
IsMerger(m) ==
  DOMAIN m = {"streams", "order", "text", "default", "page_size", "n", "pages", "raised",
              "page", "pending", "ended", "shares", "first_end", "columns"}

(* It merges cells of logs that have names, and has met no wrong columns.  *)
Merges(m) ==
  IsMerger(m) /\ ~m.text /\ ~m.raised /\ DOMAIN m.streams \subseteq ToSet(m.order)

(* A log that is not at its end waits with a row that is not its totals.   *)
Cursors(m) ==
  \A k \in DOMAIN m.pending :
    /\ k \in DOMAIN m.streams
    /\ m.pending[k] \in DOMAIN m.streams[k]
    /\ RowAt(m, k).tm # END

(* The columns are those of all rows, unless there never was a row.        *)
OneSetOfColumns(m) ==
  \/ DOMAIN m.pending = {} /\ \A k \in DOMAIN m.page : m.page[k] = Empty
  \/ \A k \in DOMAIN m.streams : \A i \in DOMAIN m.streams[k] :
       DOMAIN m.streams[k][i].cells = m.columns

(* The page under way is empty or has all columns for all logs, and the    *)
(* same times.                                                             *)
PageAlike(m) ==
  /\ DOMAIN m.page = DOMAIN m.streams
  /\ \/ \A k \in DOMAIN m.page : m.page[k] = Empty
     \/ m.columns # {} /\ \A k \in DOMAIN m.page : DOMAIN m.page[k] = m.columns
  /\ HaveTimes(m.page, Times(m.page))

(* So have the pages before, and all their times are passed.               *)
PagesBefore(m) ==
  /\ m.pages \in Seq(ToSet(m.pages))
  /\ \A i \in DOMAIN m.pages :
       DOMAIN m.pages[i] = DOMAIN m.streams /\ HaveTimes(m.pages[i], Times(m.pages[i]))
  /\ \A i, j \in DOMAIN m.pages :
       i < j => \A x \in Times(m.pages[i]), y \in Times(m.pages[j]) : x < y
TimesPassed(m) ==
  /\ \A k \in DOMAIN m.pending : \A x \in Times(m.page) : x < RowAt(m, k).tm
  /\ \A i \in DOMAIN m.pages : \A x \in Times(m.pages[i]) :
       /\ \A y \in Times(m.page) : x < y
       /\ \A k \in DOMAIN m.pending : x < RowAt(m, k).tm

(* Totals are kept for the last page.  They can be the page under way.     *)
Ends(m) ==
  /\ \A k \in DOMAIN m.ended :
       /\ k \in DOMAIN m.streams \ DOMAIN m.pending
       /\ \E i \in DOMAIN m.streams[k] :
            /\ m.streams[k][i].tm = END /\ DOMAIN m.ended[k] = DOMAIN m.streams[k][i].cells
            /\ NoneRepeats(m) => m.ended[k] = m.streams[k][i].cells
  /\ DOMAIN m.ended = {} => m.first_end = Empty
  /\ DOMAIN m.ended # {} => m.first_end # Empty /\ m.first_end[1] \in DOMAIN m.ended
Sharing(m) ==
  \A k \in m.shares : k \in DOMAIN m.ended /\ m.ended[k] = m.page[k]

(* When no totals show a row again, only they are at no time, and none are *)
(* on a page yet.                                                          *)
PlainCells(page) == \A k \in DOMAIN page : \A c \in DOMAIN page[k] : DOMAIN page[k][c] \subseteq Nat
PlainPages(m) ==
  NoneRepeats(m) =>
    m.shares = {} /\ PlainCells(m.page) /\ \A i \in DOMAIN m.pages : PlainCells(m.pages[i])

(* A time that totals have is on a page, with the same cell.               *)
CellIs(page, k, c, tm, value) ==
  c \in DOMAIN page[k] /\ tm \in DOMAIN page[k][c] /\ page[k][c][tm] = value
IsShown(m, k, c, tm, value) ==
  CellIs(m.page, k, c, tm, value) \/ \E n \in DOMAIN m.pages : CellIs(m.pages[n], k, c, tm, value)
TotalsShown(m) ==
  \A k \in DOMAIN m.ended : \A c \in DOMAIN m.ended[k] : \A tm \in DOMAIN m.ended[k][c] \cap Nat :
    IsShown(m, k, c, tm, m.ended[k][c][tm])

(* A log without rows has the default everywhere.                          *)
Defaults(m, page, k) ==
  \A c \in DOMAIN page[k] : \A tm \in DOMAIN page[k][c] : page[k][c][tm] = m.default
NoRowsNoCells(m) ==
  \A k \in DOMAIN m.streams : m.streams[k] = <<>> =>
    Defaults(m, m.page, k) /\ \A n \in DOMAIN m.pages : Defaults(m, m.pages[n], k)

(* Every row that was read is on a page.                                   *)
WasRead(m, k, i) == k \in DOMAIN m.pending => i < m.pending[k]
OnPages(m, k, row) == \E n \in DOMAIN m.pages : Shows(m.pages[n], k, row)
IsKept(m, k, row) ==
  IF row.tm = END
  THEN k \in DOMAIN m.ended /\ (Shows(m.ended, k, row) \/ OnPages(m, k, row))
  ELSE Shows(m.page, k, row) \/ OnPages(m, k, row)
RowsKept(m) ==
  \A k \in DOMAIN m.streams : \A i \in DOMAIN m.streams[k] :
    WasRead(m, k, i) => IsKept(m, k, m.streams[k][i])

MergeInv(m) ==
  /\ Merges(m) /\ Cursors(m) /\ OneSetOfColumns(m) /\ PageAlike(m)
  /\ PagesBefore(m) /\ TimesPassed(m) /\ Ends(m) /\ Sharing(m) /\ PlainPages(m)
  /\ TotalsShown(m) /\ NoRowsNoCells(m) /\ RowsKept(m)
-----------------------------------------------------------------------------
(* The first of some names is one of them.                                 *)
LEMMA FirstIsOne ==
  ASSUME NEW S, NEW keys \in Seq(S), NEW among, among # {}, among \subseteq ToSet(keys)
  PROVE  First(keys, among) \in among
<1> DEFINE I == {i \in 1 .. Len(keys) : keys[i] \in among}
<1>1. DOMAIN keys = 1 .. Len(keys) /\ Len(keys) \in Nat
  BY LenProperties
<1>2. I # {} /\ I \subseteq Nat
  BY <1>1 DEF ToSet
<1>3. Min(I) \in I
  BY <1>2, MinIsLeast
<1>4. First(keys, among) = keys[Min(I)]
  BY <1>2 DEF First, SelectInSeq
<1> QED
  BY <1>3, <1>4

(* A row that waits has cells of its own time, which is a number.          *)
LEMMA RowsFit ==
  ASSUME NEW m, FitToMerge(m), Cursors(m), NEW k \in DOMAIN m.pending
  PROVE  /\ m.streams[k] \in Seq(ToSet(m.streams[k]))
         /\ m.pending[k] \in 1 .. Len(m.streams[k]) /\ Len(m.streams[k]) \in Nat
         /\ RowAt(m, k).tm \in Nat
         /\ \A c \in DOMAIN RowAt(m, k).cells : DOMAIN RowAt(m, k).cells[c] = {RowAt(m, k).tm}
<1>1. m.streams[k] \in Seq(ToSet(m.streams[k])) /\ RowsFollow(m.streams[k])
  BY DEF FitToMerge, Cursors
<1>2. DOMAIN m.streams[k] = 1 .. Len(m.streams[k]) /\ Len(m.streams[k]) \in Nat
  BY <1>1, LenProperties
<1> QED
  BY <1>1, <1>2 DEF Cursors, RowsFollow, RowAt

(* A round takes the rows of the least time.                               *)
LEMMA LeastTime ==
  ASSUME NEW m, FitToMerge(m), Cursors(m), DOMAIN m.pending # {}
  PROVE  /\ Now(m) \in Nat
         /\ \A k \in DOMAIN m.pending : Now(m) <= RowAt(m, k).tm
         /\ \A k \in DOMAIN m.pending : k \notin AtMin(m) => Now(m) < RowAt(m, k).tm
         /\ \A k \in AtMin(m) : k \in DOMAIN m.pending /\ RowAt(m, k).tm = Now(m)
         /\ AtMin(m) # {}
<1> DEFINE S == {RowAt(m, k).tm : k \in DOMAIN m.pending}
<1>1. S \subseteq Nat /\ S # {}
  BY RowsFit
<1>2. Min(S) \in S /\ \A y \in S : Min(S) <= y
  BY <1>1, MinIsLeast
<1>3. Now(m) \in Nat /\ \A k \in DOMAIN m.pending : Now(m) <= RowAt(m, k).tm
  BY <1>1, <1>2 DEF Now
<1>4. \A k \in AtMin(m) : k \in DOMAIN m.pending /\ RowAt(m, k).tm = Now(m)
  BY DEF AtMin
<1>5. \A k \in DOMAIN m.pending : k \notin AtMin(m) => Now(m) < RowAt(m, k).tm
  <2> SUFFICES ASSUME NEW k \in DOMAIN m.pending, k \notin AtMin(m)
               PROVE  Now(m) < RowAt(m, k).tm
    OBVIOUS
  <2>1. RowAt(m, k).tm # Now(m)
    BY DEF AtMin
  <2> QED
    BY <2>1, <1>3, RowsFit
<1>6. AtMin(m) # {}
  BY <1>2 DEF AtMin, Now
<1> QED
  BY <1>3, <1>4, <1>5, <1>6

(* A sequence of one.                                                      *)
LEMMA SingletonIs ==
  ASSUME NEW x
  PROVE  <<x>> # <<>> /\ <<x>>[1] = x
  OBVIOUS

(* An empty page has no columns.                                           *)
LEMMA EmptyIs == DOMAIN Empty = {}
  BY DEF Empty

(* The columns in a round are those of every row, and there are some.      *)
LEMMA ColumnsIn ==
  ASSUME NEW m, FitToMerge(m), Cursors(m), OneSetOfColumns(m), DOMAIN m.pending # {}
  PROVE  /\ m.columns # {}
         /\ \A k \in DOMAIN m.streams : \A i \in DOMAIN m.streams[k] :
              DOMAIN m.streams[k][i].cells = m.columns
         /\ \A k \in DOMAIN m.pending : DOMAIN RowAt(m, k).cells = m.columns
<1>1. \A k \in DOMAIN m.streams : \A i \in DOMAIN m.streams[k] :
        DOMAIN m.streams[k][i].cells = m.columns
  BY DEF OneSetOfColumns
<1>2. PICK k \in DOMAIN m.pending : TRUE
  OBVIOUS
<1>3. m.columns # {}
  <2>1. k \in DOMAIN m.streams /\ m.pending[k] \in DOMAIN m.streams[k]
    BY DEF Cursors
  <2>2. DOMAIN m.streams[k][m.pending[k]].cells # {}
    BY <2>1 DEF FitToMerge
  <2> QED
    BY <1>1, <2>1, <2>2
<1> QED
  BY <1>1, <1>3 DEF Cursors, RowAt

-----------------------------------------------------------------------------
(* The cells after a round: the times of before and the one of the round,  *)
(* the row of every log that has one then, the rest unchanged.             *)
LEMMA RoundCells ==
  ASSUME NEW m, FitToMerge(m), MergeInv(m), DOMAIN m.pending # {},
         NEW page, page = WithCells(m)
  PROVE  /\ DOMAIN page = DOMAIN m.streams
         /\ \A k \in DOMAIN page : DOMAIN page[k] = m.columns
         /\ \A k \in DOMAIN page : \A c \in m.columns :
              /\ DOMAIN page[k][c] = DOMAIN Cell(m.page[k], c) \cup {Now(m)}
              /\ k \in AtMin(m) => page[k][c][Now(m)] = RowAt(m, k).cells[c][Now(m)]
              /\ k \notin AtMin(m) => page[k][c][Now(m)] = m.default
              /\ \A tm \in DOMAIN Cell(m.page[k], c) :
                   tm # Now(m) => page[k][c][tm] = Cell(m.page[k], c)[tm]
<1> USE DEF MergeInv
<1>1. DOMAIN page = DOMAIN m.streams
  BY DEF WithCells, PageAlike
<1>2. ASSUME NEW k \in DOMAIN page
      PROVE  /\ DOMAIN page[k] = m.columns
             /\ \A c \in m.columns :
                  /\ DOMAIN page[k][c] = DOMAIN Cell(m.page[k], c) \cup {Now(m)}
                  /\ k \in AtMin(m) => page[k][c][Now(m)] = RowAt(m, k).cells[c][Now(m)]
                  /\ k \notin AtMin(m) => page[k][c][Now(m)] = m.default
                  /\ \A tm \in DOMAIN Cell(m.page[k], c) :
                       tm # Now(m) => page[k][c][tm] = Cell(m.page[k], c)[tm]
  <2>1. k \in DOMAIN m.page /\ (m.page[k] = Empty \/ DOMAIN m.page[k] = m.columns)
    BY <1>1 DEF PageAlike
  <2>2. m.columns # {}
    BY ColumnsIn
  <2>3. CASE k \notin AtMin(m)
    <3>1. page[k] = [c \in DOMAIN m.page[k] \cup m.columns |->
                       IF c \in m.columns
                       THEN Over([tm \in {Now(m)} |-> m.default], Cell(m.page[k], c))
                       ELSE m.page[k][c]]
      BY <2>1, <2>3 DEF WithCells
    <3>2. DOMAIN page[k] = m.columns
      BY <2>1, <3>1, EmptyIs
    <3>3. ASSUME NEW c \in m.columns
          PROVE  /\ DOMAIN page[k][c] = DOMAIN Cell(m.page[k], c) \cup {Now(m)}
                 /\ page[k][c][Now(m)] = m.default
                 /\ \A tm \in DOMAIN Cell(m.page[k], c) :
                      tm # Now(m) => page[k][c][tm] = Cell(m.page[k], c)[tm]
      <4>1. page[k][c] = Over([tm \in {Now(m)} |-> m.default], Cell(m.page[k], c))
        BY <3>1
      <4> QED
        BY <4>1 DEF Over
    <3>4. ~(k \in AtMin(m))
      BY <2>3
    <3> QED
      BY <3>2, <3>3, <3>4
  <2>4. CASE k \in AtMin(m)
    <3>1. /\ k \in DOMAIN m.pending /\ RowAt(m, k).tm = Now(m)
          /\ DOMAIN RowAt(m, k).cells = m.columns
          /\ \A c \in m.columns : DOMAIN RowAt(m, k).cells[c] = {Now(m)}
      BY <2>4, LeastTime, ColumnsIn, RowsFit
    <3>2. CASE m.page[k] = Empty
      <4>1. page[k] = RowAt(m, k).cells
        BY <2>1, <2>4, <3>2 DEF WithCells
      <4>2. \A c \in m.columns : DOMAIN Cell(m.page[k], c) = {}
        BY <3>2, EmptyIs DEF Cell
      <4> QED
        BY <2>4, <3>1, <4>1, <4>2
    <3>3. CASE m.page[k] # Empty
      <4>1. DOMAIN m.page[k] = m.columns
        BY <2>1, <3>3
      <4>2. page[k] = [c \in DOMAIN m.page[k] |->
                         IF c \in m.columns THEN Over(RowAt(m, k).cells[c], m.page[k][c])
                         ELSE m.page[k][c]]
        BY <2>1, <2>4, <3>3 DEF WithCells
      <4>3. ASSUME NEW c \in m.columns
            PROVE  /\ DOMAIN page[k][c] = DOMAIN Cell(m.page[k], c) \cup {Now(m)}
                   /\ page[k][c][Now(m)] = RowAt(m, k).cells[c][Now(m)]
                   /\ \A tm \in DOMAIN Cell(m.page[k], c) :
                        tm # Now(m) => page[k][c][tm] = Cell(m.page[k], c)[tm]
        <5>1. page[k][c] = Over(RowAt(m, k).cells[c], m.page[k][c])
          BY <4>1, <4>2
        <5>2. Cell(m.page[k], c) = m.page[k][c]
          BY <4>1 DEF Cell
        <5> QED
          BY <3>1, <5>1, <5>2 DEF Over
      <4> QED
        BY <2>4, <4>1, <4>2, <4>3
    <3> QED
      BY <3>2, <3>3
  <2> QED
    BY <2>3, <2>4
<1> QED
  BY <1>1, <1>2

(* The logs that have no row after the one a round takes, and those of     *)
(* them that have totals.                                                  *)
Done_(m) == {k \in AtMin(m) : Head_(m.streams[k], m.pending[k] + 1) = END}
Totalled(m) == {k \in Done_(m) : EndsWell(m.streams[k], m.pending[k] + 1)}

(* The totals of a log are its next row.                                   *)
LEMMA TotalledIs ==
  ASSUME NEW m, FitToMerge(m), Cursors(m), NEW k \in Totalled(m)
  PROVE  /\ k \in Done_(m) /\ k \in AtMin(m) /\ k \in DOMAIN m.pending /\ k \in DOMAIN m.streams
         /\ m.pending[k] + 1 \in DOMAIN m.streams[k]
         /\ m.streams[k][m.pending[k] + 1].tm = END
         /\ ~Repeats(Totals_(m, k)) \/ Again(Totals_(m, k), RowAt(m, k))
<1>1. /\ k \in Done_(m) /\ k \in AtMin(m) /\ k \in DOMAIN m.pending /\ k \in DOMAIN m.streams
      /\ m.pending[k] + 1 \in DOMAIN m.streams[k]
      /\ m.streams[k][m.pending[k] + 1].tm = END
  BY DEF Totalled, Done_, AtMin, EndsWell, Cursors
<1>2. RowsFollow(m.streams[k]) /\ m.pending[k] \in Nat
  <2>1. RowsFollow(m.streams[k])
    BY <1>1 DEF FitToMerge
  <2>2. m.pending[k] \in 1 .. Len(m.streams[k]) /\ Len(m.streams[k]) \in Nat
    BY <1>1, RowsFit
  <2> QED
    BY <2>1, <2>2
<1>3. ~Repeats(Totals_(m, k)) \/ Again(Totals_(m, k), RowAt(m, k))
  <2> DEFINE i == m.pending[k] + 1
  <2>1. i - 1 = m.pending[k]
    BY <1>2
  <2>2. ~Repeats(m.streams[k][i]) \/ Again(m.streams[k][i], m.streams[k][i - 1])
    BY <1>1, <1>2 DEF RowsFollow
  <2> QED
    BY <2>1, <2>2 DEF Totals_, RowAt
<1> QED
  BY <1>1, <1>3

(* Totals that are the page's dictionaries show the row of the round.      *)
LEMMA SharedAre ==
  ASSUME NEW m, FitToMerge(m), MergeInv(m), NEW k \in Shared(m)
  PROVE  /\ k \in AtMin(m) /\ k \in Totalled(m) /\ m.page[k] = Empty
         /\ DOMAIN Totals_(m, k).cells = m.columns
         /\ Again(Totals_(m, k), RowAt(m, k)) /\ ~NoneRepeats(m)
<1> USE DEF MergeInv
<1>1. /\ k \in AtMin(m) /\ EndsWell(m.streams[k], m.pending[k] + 1)
      /\ Repeats(Totals_(m, k)) /\ m.page[k] = Empty
  BY DEF Shared
<1>2. k \in Totalled(m)
  BY <1>1 DEF Totalled, Done_, EndsWell, Head_
<1>3. k \in DOMAIN m.streams /\ m.pending[k] + 1 \in DOMAIN m.streams[k] /\ k \in DOMAIN m.pending
      /\ m.streams[k][m.pending[k] + 1].tm = END
  BY <1>2, TotalledIs
<1>4. DOMAIN Totals_(m, k).cells = m.columns
  BY <1>3, ColumnsIn DEF Totals_
<1>5. ~NoneRepeats(m)
  BY <1>1, <1>3 DEF NoneRepeats, Totals_
<1> QED
  BY <1>1, <1>2, <1>4, <1>5, TotalledIs

(* The page after a round: also the flags of totals that it shares.        *)
LEMMA RoundPage ==
  ASSUME NEW m, FitToMerge(m), MergeInv(m), DOMAIN m.pending # {},
         NEW page, page = WithShared(m)
  PROVE  /\ DOMAIN page = DOMAIN m.streams
         /\ \A k \in DOMAIN page : DOMAIN page[k] = m.columns
         /\ \A k \in DOMAIN page : \A c \in m.columns :
              /\ DOMAIN Cell(m.page[k], c) \cup {Now(m)} \subseteq DOMAIN page[k][c]
              /\ DOMAIN page[k][c] \cap Nat \subseteq DOMAIN Cell(m.page[k], c) \cup {Now(m)}
              /\ k \notin Shared(m) => DOMAIN page[k][c] = DOMAIN Cell(m.page[k], c) \cup {Now(m)}
              /\ k \in AtMin(m) => page[k][c][Now(m)] = RowAt(m, k).cells[c][Now(m)]
              /\ k \notin AtMin(m) => page[k][c][Now(m)] = m.default
              /\ \A tm \in DOMAIN Cell(m.page[k], c) :
                   tm # Now(m) => page[k][c][tm] = Cell(m.page[k], c)[tm]
         /\ \A k \in Shared(m) : Shows(page, k, Totals_(m, k))
<1> DEFINE cells == WithCells(m)
<1>1. /\ DOMAIN cells = DOMAIN m.streams
      /\ \A k \in DOMAIN cells : DOMAIN cells[k] = m.columns
      /\ \A k \in DOMAIN cells : \A c \in m.columns :
           /\ DOMAIN cells[k][c] = DOMAIN Cell(m.page[k], c) \cup {Now(m)}
           /\ k \in AtMin(m) => cells[k][c][Now(m)] = RowAt(m, k).cells[c][Now(m)]
           /\ k \notin AtMin(m) => cells[k][c][Now(m)] = m.default
           /\ \A tm \in DOMAIN Cell(m.page[k], c) :
                tm # Now(m) => cells[k][c][tm] = Cell(m.page[k], c)[tm]
  BY RoundCells
<1>2. DOMAIN m.page = DOMAIN m.streams
  BY DEF MergeInv, PageAlike
<1>3. page = [k \in DOMAIN m.page |->
                IF k \notin Shared(m) THEN cells[k]
                ELSE [c \in DOMAIN cells[k] |->
                        Over(Cell(Totals_(m, k).cells, c), cells[k][c])]]
  BY DEF WithShared
<1>4. DOMAIN page = DOMAIN m.streams
  BY <1>2, <1>3
<1> HIDE DEF cells
<1>5. ASSUME NEW k \in DOMAIN page, k \notin Shared(m)
      PROVE  page[k] = cells[k] /\ k \in DOMAIN cells
  BY <1>1, <1>3, <1>4, <1>5
<1>6. ASSUME NEW k \in DOMAIN page, k \in Shared(m)
      PROVE  /\ DOMAIN page[k] = m.columns
             /\ Shows(page, k, Totals_(m, k))
             /\ \A c \in m.columns :
                  /\ DOMAIN Cell(m.page[k], c) = {}
                  /\ Now(m) \in DOMAIN page[k][c]
                  /\ DOMAIN page[k][c] \cap Nat \subseteq {Now(m)}
                  /\ page[k][c][Now(m)] = RowAt(m, k).cells[c][Now(m)]
  <2> DEFINE totals == Totals_(m, k).cells
  <2>1. /\ k \in AtMin(m) /\ m.page[k] = Empty /\ DOMAIN totals = m.columns
        /\ Again(Totals_(m, k), RowAt(m, k))
    BY <1>6, SharedAre
  <2>2. k \in DOMAIN cells /\ DOMAIN cells[k] = m.columns
    BY <1>1, <1>4
  <2>3. page[k] = [c \in m.columns |-> Over(Cell(totals, c), cells[k][c])]
    BY <1>2, <1>3, <1>4, <1>6, <2>2
  <2>4. Now(m) \in Nat /\ RowAt(m, k).tm = Now(m)
    BY <2>1, LeastTime DEF MergeInv
  <2>5. ASSUME NEW c \in m.columns
        PROVE  /\ page[k][c] = Over(totals[c], cells[k][c])
               /\ DOMAIN Cell(m.page[k], c) = {} /\ DOMAIN cells[k][c] = {Now(m)}
               /\ cells[k][c][Now(m)] = RowAt(m, k).cells[c][Now(m)]
               /\ \A tm \in DOMAIN totals[c] \cap Nat :
                    tm = Now(m) /\ totals[c][tm] = RowAt(m, k).cells[c][tm]
    <3>1. DOMAIN Cell(m.page[k], c) = {}
      BY <2>1, EmptyIs DEF Cell
    <3>2. Cell(totals, c) = totals[c]
      BY <2>1 DEF Cell
    <3> QED
      BY <1>1, <2>1, <2>2, <2>3, <2>4, <3>1, <3>2 DEF Again
  <2> HIDE DEF totals
  <2>8. ASSUME NEW c \in m.columns
        PROVE  /\ DOMAIN page[k][c] = DOMAIN totals[c] \cup {Now(m)}
               /\ \A tm \in DOMAIN totals[c] : page[k][c][tm] = totals[c][tm]
               /\ page[k][c][Now(m)] = RowAt(m, k).cells[c][Now(m)]
    <3>1. /\ page[k][c] = Over(totals[c], cells[k][c]) /\ DOMAIN cells[k][c] = {Now(m)}
          /\ cells[k][c][Now(m)] = RowAt(m, k).cells[c][Now(m)]
      BY <2>5
    <3>2. page[k][c] = [x \in DOMAIN totals[c] \cup {Now(m)} |->
                          IF x \in DOMAIN totals[c] THEN totals[c][x] ELSE cells[k][c][x]]
      BY <3>1 DEF Over
    <3>3. CASE Now(m) \in DOMAIN totals[c]
      <4>1. totals[c][Now(m)] = RowAt(m, k).cells[c][Now(m)]
        BY <2>4, <2>5, <3>3
      <4> QED
        BY <3>2, <3>3, <4>1
    <3>4. CASE Now(m) \notin DOMAIN totals[c]
      BY <3>1, <3>2, <3>4
    <3> QED
      BY <3>2, <3>3, <3>4
  <2>6. Shows(page, k, Totals_(m, k))
    <3>1. DOMAIN page[k] = m.columns /\ DOMAIN Totals_(m, k).cells = m.columns
      BY <2>1, <2>3 DEF totals
    <3> QED
      BY <2>8, <3>1 DEF Shows, totals
  <2>7. ASSUME NEW c \in m.columns
        PROVE  /\ Now(m) \in DOMAIN page[k][c]
               /\ DOMAIN page[k][c] \cap Nat \subseteq {Now(m)}
               /\ page[k][c][Now(m)] = RowAt(m, k).cells[c][Now(m)]
    <3>1. \A tm \in DOMAIN totals[c] \cap Nat : tm = Now(m)
      BY <2>5
    <3> QED
      BY <2>8, <3>1
  <2> QED
    BY <2>3, <2>5, <2>6, <2>7
<1>7. \A k \in Shared(m) : k \in DOMAIN page
  BY <1>4, SharedAre, TotalledIs DEF MergeInv
<1>8. ASSUME NEW k \in DOMAIN page
      PROVE  DOMAIN page[k] = m.columns
  BY <1>1, <1>5, <1>6
<1>9. ASSUME NEW k \in DOMAIN page, NEW c \in m.columns
      PROVE  /\ DOMAIN Cell(m.page[k], c) \cup {Now(m)} \subseteq DOMAIN page[k][c]
             /\ DOMAIN page[k][c] \cap Nat \subseteq DOMAIN Cell(m.page[k], c) \cup {Now(m)}
             /\ k \notin Shared(m) => DOMAIN page[k][c] = DOMAIN Cell(m.page[k], c) \cup {Now(m)}
             /\ k \in AtMin(m) => page[k][c][Now(m)] = RowAt(m, k).cells[c][Now(m)]
             /\ k \notin AtMin(m) => page[k][c][Now(m)] = m.default
             /\ \A tm \in DOMAIN Cell(m.page[k], c) :
                  tm # Now(m) => page[k][c][tm] = Cell(m.page[k], c)[tm]
  <2>1. CASE k \notin Shared(m)
    BY <1>1, <1>5, <2>1
  <2>2. CASE k \in Shared(m)
    BY <1>6, <2>2, SharedAre
  <2> QED
    BY <2>1, <2>2
<1> QED
  BY <1>4, <1>6, <1>7, <1>8, <1>9

(* A time of a page is one of a cell.                                      *)
LEMMA TimesAre ==
  ASSUME NEW page
  PROVE  /\ Times(page) \subseteq Nat
         /\ \A x \in Times(page) :
              x \in Nat /\ \E k \in DOMAIN page : \E c \in DOMAIN page[k] : x \in DOMAIN page[k][c]
         /\ \A k \in DOMAIN page : \A c \in DOMAIN page[k] : DOMAIN page[k][c] \cap Nat \subseteq Times(page)
<1> DEFINE all(k) == UNION {DOMAIN page[k][c] : c \in DOMAIN page[k]}
           every == UNION {all(k) : k \in DOMAIN page}
<1>3. Times(page) = Nat \cap every
  BY DEF Times
<1>4. \A x : x \in every <=> \E k \in DOMAIN page : x \in all(k)
  BY Zenon
<1>1. \A x : x \in Times(page) <=> x \in Nat /\ \E k \in DOMAIN page : x \in all(k)
  BY <1>3, <1>4
<1>2. \A k, x : x \in all(k) <=> \E c \in DOMAIN page[k] : x \in DOMAIN page[k][c]
  BY Zenon
<1> HIDE DEF all, every
<1> QED
  BY <1>1, <1>2

(* Its times are those of before and that of the round, and all logs have  *)
(* cells at all of them.                                                   *)
LEMMA RoundTimes ==
  ASSUME NEW m, FitToMerge(m), MergeInv(m), DOMAIN m.pending # {},
         NEW page, page = WithShared(m)
  PROVE  /\ HaveTimes(page, Times(page))
         /\ Times(page) \subseteq Times(m.page) \cup {Now(m)}
<1> USE DEF MergeInv
<1>1. /\ DOMAIN page = DOMAIN m.streams /\ DOMAIN page = DOMAIN m.page
      /\ \A k \in DOMAIN page : DOMAIN page[k] = m.columns
      /\ \A k \in DOMAIN page : \A c \in m.columns :
           /\ DOMAIN Cell(m.page[k], c) \cup {Now(m)} \subseteq DOMAIN page[k][c]
           /\ DOMAIN page[k][c] \cap Nat \subseteq DOMAIN Cell(m.page[k], c) \cup {Now(m)}
  BY RoundPage DEF PageAlike
<1>2. ASSUME NEW x \in Times(page), x # Now(m)
      PROVE  /\ x \in Times(m.page)
             /\ \A l \in DOMAIN page : \A c \in m.columns : x \in DOMAIN page[l][c]
  <2>1. x \in Nat /\ \E k \in DOMAIN page : \E c \in DOMAIN page[k] : x \in DOMAIN page[k][c]
    BY TimesAre
  <2>2. PICK k \in DOMAIN page : \E c \in m.columns : x \in DOMAIN page[k][c]
    BY <1>1, <2>1
  <2>3. PICK c \in m.columns : x \in DOMAIN page[k][c]
    BY <2>2
  <2>4. x \in DOMAIN Cell(m.page[k], c)
    BY <1>1, <1>2, <2>1, <2>3
  <2>5. c \in DOMAIN m.page[k] /\ x \in DOMAIN m.page[k][c] /\ k \in DOMAIN m.page
    BY <1>1, <2>4, EmptyIs DEF Cell
  <2>6. x \in Times(m.page)
    BY <2>1, <2>5, TimesAre
  <2>7. ASSUME NEW l \in DOMAIN page, NEW d \in m.columns PROVE x \in DOMAIN page[l][d]
    <3>1. \A j \in DOMAIN m.page : DOMAIN m.page[j] = m.columns
      BY <2>5, EmptyIs DEF PageAlike
    <3>2. d \in DOMAIN m.page[l] /\ x \in DOMAIN m.page[l][d]
      BY <1>1, <2>6, <3>1 DEF PageAlike, HaveTimes
    <3>3. Cell(m.page[l], d) = m.page[l][d]
      BY <3>2 DEF Cell
    <3> QED
      BY <1>1, <3>2, <3>3
  <2> QED
    BY <2>6, <2>7
<1>3. ASSUME NEW k \in DOMAIN page, NEW c \in m.columns, NEW x \in Times(page)
      PROVE  x \in DOMAIN page[k][c]
  <2>1. CASE x = Now(m)
    BY <1>1, <2>1
  <2>2. CASE x # Now(m)
    BY <1>2, <2>2
  <2> QED
    BY <2>1, <2>2
<1>4. HaveTimes(page, Times(page))
  BY <1>1, <1>3 DEF HaveTimes
<1> QED
  BY <1>2, <1>4

(* Totals that were the page, and that the view may have taken flags from. *)
Part(some, all) ==
  /\ DOMAIN some = DOMAIN all
  /\ \A c \in DOMAIN some : /\ DOMAIN some[c] \subseteq DOMAIN all[c]
                            /\ \A tm \in DOMAIN some[c] : some[c][tm] = all[c][tm]
LEMMA PartShown ==
  ASSUME NEW m, NEW page, NEW cells
  PROVE  /\ Part(Shown_(m, page, cells), cells)
         /\ m.n + 1 # m.page_size => Shown_(m, page, cells) = cells
<1> DEFINE part == [cells EXCEPT !.value = Restrict(cells.value, DOMAIN cells.value \ {END})]
<1>1. Part(cells, cells)
  BY DEF Part
<1>2. Part(part, cells)
  <2>1. /\ DOMAIN part = DOMAIN cells
        /\ \A c \in DOMAIN cells :
             part[c] = IF c = "value" THEN Restrict(cells["value"], DOMAIN cells["value"] \ {END})
                       ELSE cells[c]
    OBVIOUS
  <2> HIDE DEF part
  <2>2. ASSUME NEW c \in DOMAIN cells
        PROVE  /\ DOMAIN part[c] \subseteq DOMAIN cells[c]
               /\ \A tm \in DOMAIN part[c] : part[c][tm] = cells[c][tm]
    <3>1. CASE c = "value"
      BY <2>1, <3>1 DEF Restrict
    <3>2. CASE c # "value"
      BY <2>1, <3>2
    <3> QED
      BY <3>1, <3>2
  <2> QED
    BY <2>1, <2>2 DEF Part
<1>3. Shown_(m, page, cells) \in {cells, part}
  BY DEF Shown_, show_grep_diff
<1>4. m.n + 1 # m.page_size => Shown_(m, page, cells) = cells
  BY DEF Shown_
<1> HIDE DEF part
<1> QED
  BY <1>1, <1>2, <1>3, <1>4

(* What a round does to the merger.                                        *)
RoundMade(m, n) ==
  /\ Merges(n)
  /\ n.streams = m.streams /\ n.order = m.order /\ n.columns = m.columns
  /\ n.default = m.default
  /\ n.pending = [k \in DOMAIN m.pending \ Done_(m) |->
                    IF k \in AtMin(m) THEN m.pending[k] + 1 ELSE m.pending[k]]
  /\ DOMAIN n.ended = Totalled(m) \cup DOMAIN m.ended
  /\ \A k \in DOMAIN n.ended :
       IF k \in m.shares \cup Shared(m)
       THEN /\ Part(n.ended[k], WithShared(m)[k])
            /\ k \in n.shares => n.ended[k] = WithShared(m)[k]
       ELSE n.ended[k] = IF k \in Totalled(m) THEN Totals_(m, k).cells ELSE m.ended[k]
  /\ n.first_end = IF Totalled(m) = {} \/ m.first_end # Empty THEN m.first_end
                   ELSE <<First(KEYS, Totalled(m))>>
  /\ \/ /\ n.page = [k \in DOMAIN m.streams |-> Empty] /\ n.shares = {}
        /\ n.pages = Append(m.pages, WithShared(m))
     \/ /\ n.page = WithShared(m) /\ n.pages = m.pages
        /\ n.shares = m.shares \cup Shared(m)
LEMMA RoundWhole ==
  ASSUME NEW m, FitToMerge(m), MergeInv(m), MoreToMerge(m), NEW n, n = MergeRound(m)
  PROVE  RoundMade(m, n)
<1> USE DEF MergeInv
<1>1. ~WrongColumns(m)
  <2> SUFFICES ASSUME NEW k \in AtMin(m), m.page[k] # Empty
               PROVE  m.columns \subseteq DOMAIN m.page[k] \cap DOMAIN RowAt(m, k).cells
    BY DEF WrongColumns
  <2>1. k \in DOMAIN m.pending /\ DOMAIN m.pending # {}
    BY DEF AtMin
  <2>2. DOMAIN RowAt(m, k).cells = m.columns
    BY <2>1, ColumnsIn
  <2>3. k \in DOMAIN m.page
    BY <2>1 DEF Cursors, PageAlike
  <2>4. DOMAIN m.page[k] = m.columns
    BY <2>3 DEF PageAlike
  <2> QED
    BY <2>2, <2>4
<1>2. ~m.text
  BY DEF Merges
<1> DEFINE page == WithShared(m)
           full == m.n + 1 = m.page_size
           shares == m.shares \cup Shared(m)
           new == Over([k \in Totalled(m) |-> Totals_(m, k).cells], m.ended)
           ended == [k \in DOMAIN new |->
                       IF k \in shares THEN Shown_(m, page, page[k]) ELSE new[k]]
           pending == [k \in DOMAIN m.pending \ Done_(m) |->
                         IF k \in AtMin(m) THEN m.pending[k] + 1 ELSE m.pending[k]]
           first_end == IF Totalled(m) = {} \/ m.first_end # Empty THEN m.first_end
                        ELSE <<First(KEYS, Totalled(m))>>
           a == [m EXCEPT !.pending = pending, !.ended = new, !.first_end = first_end]
<1>3. Advance(m) = a
  BY Zenon DEF Advance, Done_, Totalled, Totals_
<1>4. /\ a.n = m.n /\ a.ended = new /\ a.pages = m.pages /\ IsMerger(a)
      /\ a.pending = pending /\ a.first_end = first_end /\ a.streams = m.streams
      /\ a.order = m.order /\ a.columns = m.columns /\ a.default = m.default
      /\ a.text = m.text /\ a.raised = m.raised
  <2>1. IsMerger(m)
    BY DEF Merges
  <2> HIDE DEF pending, new, first_end, MergeInv
  <2> QED
    BY <2>1 DEF IsMerger
<1>5. n = [a EXCEPT !.n = IF full THEN 0 ELSE m.n + 1,
             !.page = IF full THEN NewPage(m.text, m.streams) ELSE page,
             !.pages = IF full THEN Append(a.pages, page) ELSE a.pages,
             !.ended = [k \in DOMAIN a.ended |->
                          IF k \in shares THEN Shown_(m, page, page[k]) ELSE a.ended[k]],
             !.shares = IF full THEN {} ELSE shares]
  BY <1>1, <1>2, <1>3, Zenon DEF MergeRound
<1> HIDE DEF a, new, pending, first_end, page, shares
<1>6. /\ IsMerger(n) /\ n.ended = ended /\ n.streams = m.streams /\ n.order = m.order
      /\ n.columns = m.columns /\ n.default = m.default /\ n.text = m.text
      /\ n.raised = m.raised /\ n.pending = pending /\ n.first_end = first_end
      /\ n.page = IF full THEN [k \in DOMAIN m.streams |-> Empty] ELSE page
      /\ n.pages = IF full THEN Append(m.pages, page) ELSE m.pages
      /\ n.shares = IF full THEN {} ELSE shares
  <2>1. NewPage(m.text, m.streams) = [k \in DOMAIN m.streams |-> Empty]
    BY <1>2 DEF NewPage
  <2> DEFINE e == [k \in DOMAIN a.ended |->
                     IF k \in shares THEN Shown_(m, page, page[k]) ELSE a.ended[k]]
             p == IF full THEN NewPage(m.text, m.streams) ELSE page
             q == IF full THEN Append(a.pages, page) ELSE a.pages
             s == IF full THEN {} ELSE shares
             r == IF full THEN 0 ELSE m.n + 1
  <2>2. e = ended
    BY <1>4
  <2>3. n = [a EXCEPT !.n = r, !.page = p, !.pages = q, !.ended = e, !.shares = s]
    BY <1>5
  <2>4. p = (IF full THEN [k \in DOMAIN m.streams |-> Empty] ELSE page)
        /\ q = (IF full THEN Append(m.pages, page) ELSE m.pages)
    BY <1>4, <2>1
  <2> HIDE DEF e, p, q, r, s, full
  <2>5. /\ IsMerger(n) /\ n.ended = e /\ n.page = p /\ n.pages = q /\ n.shares = s
        /\ n.streams = a.streams /\ n.order = a.order /\ n.columns = a.columns
        /\ n.default = a.default /\ n.text = a.text /\ n.raised = a.raised
        /\ n.pending = a.pending /\ n.first_end = a.first_end
    BY <1>4, <2>3 DEF IsMerger
  <2> QED
    BY <1>4, <2>2, <2>4, <2>5 DEF s
<1>7. Merges(n)
  BY <1>6 DEF Merges
<1>8. DOMAIN new = Totalled(m) \cup DOMAIN m.ended
      /\ \A k \in DOMAIN new : new[k] = IF k \in Totalled(m) THEN Totals_(m, k).cells ELSE m.ended[k]
  BY DEF new, Over
<1>9. \A k \in DOMAIN n.ended :
        IF k \in shares
        THEN Part(n.ended[k], page[k]) /\ (k \in n.shares => n.ended[k] = page[k])
        ELSE n.ended[k] = IF k \in Totalled(m) THEN Totals_(m, k).cells ELSE m.ended[k]
  BY <1>6, <1>8, PartShown
<1> QED
  BY <1>6, <1>7, <1>8, <1>9 DEF page, shares, pending, first_end, RoundMade

LEMMA RoundIs ==
  ASSUME NEW m, FitToMerge(m), MergeInv(m), MoreToMerge(m), NEW n, n = MergeRound(m)
  PROVE  /\ Merges(n) /\ DOMAIN m.pending # {}
         /\ n.streams = m.streams /\ n.order = m.order /\ n.columns = m.columns
         /\ n.default = m.default
         /\ n.pending = [k \in DOMAIN m.pending \ Done_(m) |->
                           IF k \in AtMin(m) THEN m.pending[k] + 1 ELSE m.pending[k]]
         /\ \/ n.page = [k \in DOMAIN m.streams |-> Empty] /\ n.pages = Append(m.pages, WithShared(m))
            \/ n.page = WithShared(m) /\ n.pages = m.pages
         /\ FitToMerge(n) /\ (NoneRepeats(n) <=> NoneRepeats(m))
<1>0. RoundMade(m, n)
  BY RoundWhole
<1>1. n.streams = m.streams /\ n.order = m.order
  BY <1>0 DEF RoundMade
<1>2. NoneRepeats(n) <=> NoneRepeats(m)
  BY <1>1 DEF NoneRepeats
<1>3. FitToMerge(n)
  BY <1>1, <1>2 DEF FitToMerge
<1>4. DOMAIN m.pending # {}
  BY DEF MoreToMerge
<1> QED
  BY <1>0, <1>2, <1>3, <1>4 DEF RoundMade

LEMMA RoundEnded ==
  ASSUME NEW m, FitToMerge(m), MergeInv(m), MoreToMerge(m), NEW n, n = MergeRound(m)
  PROVE  /\ DOMAIN n.ended = Totalled(m) \cup DOMAIN m.ended
         /\ \A k \in DOMAIN n.ended :
              IF k \in m.shares \cup Shared(m)
              THEN /\ Part(n.ended[k], WithShared(m)[k])
                   /\ k \in n.shares => n.ended[k] = WithShared(m)[k]
              ELSE n.ended[k] = IF k \in Totalled(m) THEN Totals_(m, k).cells ELSE m.ended[k]
         /\ n.first_end = IF Totalled(m) = {} \/ m.first_end # Empty THEN m.first_end
                          ELSE <<First(KEYS, Totalled(m))>>
         /\ \/ /\ n.page = [k \in DOMAIN m.streams |-> Empty] /\ n.shares = {}
               /\ n.pages = Append(m.pages, WithShared(m))
            \/ /\ n.page = WithShared(m) /\ n.pages = m.pages
               /\ n.shares = m.shares \cup Shared(m)
<1>0. RoundMade(m, n)
  BY RoundWhole
<1> QED
  BY <1>0 DEF RoundMade
-----------------------------------------------------------------------------
(* What a round keeps. *)

(* The next row of a log is there, and later.                              *)
LEMMA RoundCursors ==
  ASSUME NEW m, FitToMerge(m), MergeInv(m), MoreToMerge(m), NEW n, n = MergeRound(m)
  PROVE  Cursors(n) /\ \A k \in DOMAIN n.pending : Now(m) < RowAt(n, k).tm
<1> USE DEF MergeInv
<1> SUFFICES ASSUME NEW k \in DOMAIN n.pending
             PROVE  /\ k \in DOMAIN n.streams
                    /\ n.pending[k] \in DOMAIN n.streams[k]
                    /\ RowAt(n, k).tm # END
                    /\ Now(m) < RowAt(n, k).tm
  BY DEF Cursors
<1>1. n.streams = m.streams /\ k \in DOMAIN m.pending /\ DOMAIN m.pending # {}
      /\ k \in DOMAIN m.streams
  BY RoundIs DEF Cursors, MoreToMerge
<1>0. n.pending = [j \in DOMAIN m.pending \ Done_(m) |->
                     IF j \in AtMin(m) THEN m.pending[j] + 1 ELSE m.pending[j]]
  BY RoundIs
<1>2. CASE k \notin AtMin(m)
  <2>1. n.pending[k] = m.pending[k]
    BY <1>0, <1>2
  <2> QED
    BY <1>1, <1>2, <2>1, LeastTime DEF Cursors, RowAt
<1>3. CASE k \in AtMin(m)
  <2>1. n.pending[k] = m.pending[k] + 1 /\ Head_(m.streams[k], m.pending[k] + 1) # END
    BY <1>0, <1>3 DEF Done_
  <2>2. m.pending[k] + 1 \in DOMAIN m.streams[k] /\ m.streams[k][m.pending[k] + 1].tm # END
    BY <2>1 DEF Head_
  <2>3. RowsFollow(m.streams[k])
    BY <1>1 DEF FitToMerge
  <2>4. m.pending[k] \in Nat /\ m.pending[k] >= 1
    BY <1>1, RowsFit
  <2>5. m.streams[k][m.pending[k]].tm < m.streams[k][m.pending[k] + 1].tm
    <3>1. m.pending[k] \in 1 .. (m.pending[k] + 1) - 1
      BY <2>4
    <3> QED
      BY <2>2, <2>3, <3>1 DEF RowsFollow
  <2>6. m.streams[k][m.pending[k]].tm = Now(m)
    BY <1>1, <1>3, LeastTime DEF RowAt
  <2> QED
    BY <1>1, <2>1, <2>2, <2>5, <2>6 DEF RowAt
<1> QED
  BY <1>2, <1>3

(* A page that is empty has no times.                                      *)
LEMMA EmptyTimes ==
  ASSUME NEW S
  PROVE  Times([k \in S |-> Empty]) = {}
<1> DEFINE page == [k \in S |-> Empty]
<1>1. \A k \in DOMAIN page : DOMAIN page[k] = {}
  BY EmptyIs
<1> HIDE DEF page
<1>2. Times(page) = {}
  BY <1>1, TimesAre
<1> QED
  BY <1>2 DEF page

(* The page under way and the columns.                                     *)
LEMMA RoundAlike ==
  ASSUME NEW m, FitToMerge(m), MergeInv(m), MoreToMerge(m), NEW n, n = MergeRound(m)
  PROVE  OneSetOfColumns(n) /\ PageAlike(n)
<1> USE DEF MergeInv
<1>1. DOMAIN m.pending # {} /\ n.streams = m.streams /\ n.columns = m.columns
  BY RoundIs DEF MoreToMerge
<1>2. m.columns # {} /\ \A k \in DOMAIN m.streams : \A i \in DOMAIN m.streams[k] :
        DOMAIN m.streams[k][i].cells = m.columns
  BY <1>1, ColumnsIn
<1>3. OneSetOfColumns(n)
  BY <1>1, <1>2 DEF OneSetOfColumns
<1>4. CASE n.page = [k \in DOMAIN m.streams |-> Empty]
  BY <1>1, <1>3, <1>4, EmptyIs, EmptyTimes DEF PageAlike, HaveTimes
<1>5. CASE n.page = WithShared(m)
  BY <1>1, <1>2, <1>3, <1>5, RoundPage, RoundTimes DEF PageAlike
<1>6. n.page = [k \in DOMAIN m.streams |-> Empty] \/ n.page = WithShared(m)
  BY RoundIs
<1> QED
  BY <1>3, <1>4, <1>5, <1>6

(* The pages after one more.                                               *)
LEMMA AppendedPage ==
  ASSUME NEW pages, pages \in Seq(ToSet(pages)), NEW page
  PROVE  LET new == Append(pages, page)
         IN  /\ new \in Seq(ToSet(new))
             /\ Len(pages) \in Nat /\ DOMAIN pages = 1 .. Len(pages)
             /\ DOMAIN new = 1 .. Len(pages) + 1 /\ new[Len(pages) + 1] = page
             /\ \A i \in DOMAIN pages : i \in DOMAIN new /\ new[i] = pages[i]
<1> DEFINE S == ToSet(pages) \cup {page}
           new == Append(pages, page)
<1>1. pages \in Seq(S) /\ page \in S
  BY SeqMonotonic
<1>2. /\ new \in Seq(S) /\ Len(pages) \in Nat
      /\ DOMAIN pages = 1 .. Len(pages) /\ DOMAIN new = 1 .. Len(pages) + 1
      /\ new[Len(pages) + 1] = page /\ \A i \in DOMAIN pages : new[i] = pages[i]
  BY <1>1, AppendProperties
<1>3. new \in Seq(ToSet(new))
  BY <1>2 DEF ToSet
<1> QED
  BY <1>2, <1>3

(* All that is on a page came before what is yet to come.                  *)
LEMMA RoundPasses ==
  ASSUME NEW m, FitToMerge(m), MergeInv(m), MoreToMerge(m), NEW n, n = MergeRound(m)
  PROVE  PagesBefore(n) /\ TimesPassed(n)
<1>0. TimesPassed(m) /\ PagesBefore(m) /\ Cursors(m)
  BY DEF MergeInv
<1> DEFINE page == WithShared(m)
<1>1. DOMAIN m.pending # {}
  BY RoundIs
<1>2. PICK first \in DOMAIN m.pending : RowAt(m, first).tm = Now(m)
  BY <1>0, <1>1, LeastTime
<1>3. /\ HaveTimes(page, Times(page)) /\ DOMAIN page = DOMAIN m.streams
      /\ Times(page) \subseteq Times(m.page) \cup {Now(m)} /\ n.streams = m.streams
  BY <1>1, RoundTimes, RoundPage, RoundIs
<1>4. Now(m) \in Nat /\ Times(page) \subseteq Nat /\ Times(m.page) \subseteq Nat
  BY <1>0, <1>1, LeastTime, TimesAre
<1>5. \A x \in Times(page) : x <= Now(m)
  BY <1>0, <1>2, <1>3, <1>4 DEF TimesPassed
<1>6. \A k \in DOMAIN n.pending : Now(m) < RowAt(n, k).tm /\ RowAt(n, k).tm \in Nat
  <2>1. n.streams = m.streams /\ n.order = m.order
    BY RoundIs
  <2>2. FitToMerge(n)
    BY RoundIs
  <2> QED
    BY <2>2, RoundCursors, RowsFit
<1>7. \A i \in DOMAIN m.pages : \A x \in Times(m.pages[i]) :
        x \in Nat /\ x < Now(m) /\ \A y \in Times(page) : x < y
  <2> SUFFICES ASSUME NEW i \in DOMAIN m.pages, NEW x \in Times(m.pages[i])
               PROVE  x \in Nat /\ x < Now(m) /\ \A y \in Times(page) : x < y
    OBVIOUS
  <2>1. x < Now(m) /\ \A y \in Times(m.page) : x < y
    BY <1>0, <1>2 DEF TimesPassed
  <2> QED
    BY <1>3, <2>1, TimesAre
<1>8. CASE n.page = page /\ n.pages = m.pages
  <2>1. PagesBefore(n)
    BY <1>0, <1>3, <1>8 DEF PagesBefore
  <2>2. \A k \in DOMAIN n.pending : \A x \in Times(n.page) : x < RowAt(n, k).tm
    BY <1>4, <1>5, <1>6, <1>8
  <2>3. \A i \in DOMAIN n.pages : \A x \in Times(n.pages[i]) :
          /\ \A y \in Times(n.page) : x < y
          /\ \A k \in DOMAIN n.pending : x < RowAt(n, k).tm
    BY <1>4, <1>6, <1>7, <1>8
  <2> QED
    BY <1>4, <1>8, <2>1, <2>2, <2>3 DEF TimesPassed
<1>9. CASE n.page = [k \in DOMAIN m.streams |-> Empty] /\ n.pages = Append(m.pages, page)
  <2> DEFINE last == Len(m.pages) + 1
  <2>1. m.pages \in Seq(ToSet(m.pages))
    BY <1>0 DEF PagesBefore
  <2>2. /\ n.pages \in Seq(ToSet(n.pages)) /\ Len(m.pages) \in Nat
        /\ DOMAIN m.pages = 1 .. Len(m.pages) /\ DOMAIN n.pages = 1 .. last
        /\ n.pages[last] = page /\ \A i \in DOMAIN m.pages : n.pages[i] = m.pages[i]
    BY <1>9, <2>1, AppendedPage
  <2>4. \A i \in DOMAIN n.pages : i = last \/ i \in DOMAIN m.pages
    BY <2>2
  <2>5. \A i \in DOMAIN n.pages :
          DOMAIN n.pages[i] = DOMAIN n.streams /\ HaveTimes(n.pages[i], Times(n.pages[i]))
    BY <1>0, <1>3, <1>4, <2>2, <2>4 DEF PagesBefore
  <2>6. \A i, j \in DOMAIN n.pages :
          i < j => \A x \in Times(n.pages[i]), y \in Times(n.pages[j]) : x < y
    <3> SUFFICES ASSUME NEW i \in DOMAIN n.pages, NEW j \in DOMAIN n.pages, i < j,
                        NEW x \in Times(n.pages[i]), NEW y \in Times(n.pages[j])
                 PROVE  x < y
      OBVIOUS
    <3>1. i \in DOMAIN m.pages /\ n.pages[i] = m.pages[i]
      BY <2>2, <2>4
    <3>2. CASE j = last
      BY <1>7, <2>2, <3>1, <3>2
    <3>3. CASE j \in DOMAIN m.pages
      BY <1>0, <2>2, <3>1, <3>3 DEF PagesBefore
    <3> QED
      BY <2>4, <3>2, <3>3
  <2>7. PagesBefore(n)
    BY <2>2, <2>5, <2>6 DEF PagesBefore
  <2>8. Times(n.page) = {}
    BY <1>9, EmptyTimes
  <2>9. \A i \in DOMAIN n.pages : \A x \in Times(n.pages[i]) : x \in Nat /\ x <= Now(m)
    <3> SUFFICES ASSUME NEW i \in DOMAIN n.pages, NEW x \in Times(n.pages[i])
                 PROVE  x \in Nat /\ x <= Now(m)
      OBVIOUS
    <3>1. CASE i = last
      BY <1>4, <1>5, <2>2, <3>1
    <3>2. CASE i \in DOMAIN m.pages
      <4>1. n.pages[i] = m.pages[i]
        BY <2>2, <3>2
      <4> QED
        BY <1>4, <1>7, <3>2, <4>1
    <3> QED
      BY <2>4, <3>1, <3>2
  <2>10. \A i \in DOMAIN n.pages : \A x \in Times(n.pages[i]) :
           \A k \in DOMAIN n.pending : x < RowAt(n, k).tm
    BY <1>4, <1>6, <2>9
  <2> QED
    BY <2>7, <2>8, <2>10 DEF TimesPassed
<1>10. \/ n.page = page /\ n.pages = m.pages
       \/ n.page = [k \in DOMAIN m.streams |-> Empty] /\ n.pages = Append(m.pages, page)
  <2>1. RoundMade(m, n)
    BY RoundWhole
  <2> QED
    BY <2>1 DEF RoundMade
<1> QED
  BY <1>8, <1>9, <1>10

(* Logs have names.                                                        *)
LEMMA LogsNamed ==
  ASSUME NEW m, FitToMerge(m), Merges(m)
  PROVE  DOMAIN m.streams \subseteq ToSet(KEYS)
<1>1. m.order \in Seq(ToSet(KEYS))
  BY DEF FitToMerge
<1>2. \A i \in DOMAIN m.order : m.order[i] \in ToSet(KEYS)
  BY <1>1, ElementOfSeq, LenProperties
<1>3. ToSet(m.order) \subseteq ToSet(KEYS)
  BY <1>2 DEF ToSet
<1> QED
  BY <1>3 DEF Merges

(* A log that came to its end before a round takes no part in it.          *)
LEMMA EndedBefore ==
  ASSUME NEW m, FitToMerge(m), MergeInv(m), NEW k \in DOMAIN m.ended
  PROVE  k \notin AtMin(m) /\ k \notin Totalled(m) /\ k \notin Shared(m) /\ k \in DOMAIN m.streams
<1>1. k \in DOMAIN m.streams /\ k \notin DOMAIN m.pending
  BY DEF MergeInv, Ends
<1> QED
  BY <1>1 DEF AtMin, Totalled, Done_, Shared

(* The totals that were met, or those of before.  Shared ones can be less  *)
(* than the page.                                                          *)
TotalsMade(m, n, k) ==
  \/ /\ k \in m.shares \cup Shared(m) /\ Part(n.ended[k], WithShared(m)[k])
     /\ DOMAIN n.ended[k] = m.columns /\ k \in DOMAIN WithShared(m)
     /\ ~NoneRepeats(m)
     /\ n.page # [j \in DOMAIN m.streams |-> Empty] => n.ended[k] = WithShared(m)[k]
  \/ k \in Totalled(m) /\ k \notin Shared(m) /\ n.ended[k] = Totals_(m, k).cells
  \/ k \in DOMAIN m.ended /\ k \notin m.shares /\ n.ended[k] = m.ended[k]
LEMMA RoundTotals ==
  ASSUME NEW m, FitToMerge(m), MergeInv(m), MoreToMerge(m), NEW n, n = MergeRound(m),
         NEW k \in DOMAIN n.ended
  PROVE  TotalsMade(m, n, k)
<1>1. RoundMade(m, n) /\ DOMAIN m.pending # {}
  BY RoundWhole, RoundIs
<1>2. k \in Totalled(m) \/ k \in DOMAIN m.ended
  BY <1>1 DEF RoundMade
<1>3. /\ DOMAIN WithShared(m) = DOMAIN m.streams
      /\ \A j \in DOMAIN WithShared(m) : DOMAIN WithShared(m)[j] = m.columns
  BY <1>1, RoundPage
<1>4. CASE k \in m.shares \cup Shared(m)
  <2>1. /\ Part(n.ended[k], WithShared(m)[k])
        /\ k \in n.shares => n.ended[k] = WithShared(m)[k]
    BY <1>1, <1>4 DEF RoundMade
  <2>2. k \in DOMAIN WithShared(m)
    BY <1>2, <1>3, EndedBefore, TotalledIs DEF MergeInv
  <2>3. DOMAIN n.ended[k] = m.columns
    BY <1>3, <2>1, <2>2 DEF Part
  <2>4. n.page # [j \in DOMAIN m.streams |-> Empty] => k \in n.shares
    BY <1>1, <1>4 DEF RoundMade
  <2>5. ~NoneRepeats(m)
    BY <1>4, SharedAre DEF MergeInv, PlainPages
  <2> QED
    BY <1>4, <2>1, <2>2, <2>3, <2>4, <2>5 DEF TotalsMade
<1>5. CASE k \notin m.shares \cup Shared(m)
  <2>1. n.ended[k] = IF k \in Totalled(m) THEN Totals_(m, k).cells ELSE m.ended[k]
    BY <1>1, <1>5 DEF RoundMade
  <2> QED
    BY <1>2, <1>5, <2>1 DEF TotalsMade
<1> QED
  BY <1>4, <1>5

LEMMA RoundEnds ==
  ASSUME NEW m, FitToMerge(m), MergeInv(m), MoreToMerge(m), NEW n, n = MergeRound(m)
  PROVE  Ends(n) /\ Sharing(n)
<1>0. RoundMade(m, n) /\ DOMAIN m.pending # {} /\ (NoneRepeats(n) <=> NoneRepeats(m))
  BY RoundWhole, RoundIs
<1>a. Ends(m) /\ Sharing(m) /\ Cursors(m) /\ OneSetOfColumns(m) /\ Merges(m)
  BY DEF MergeInv
<1>1. /\ n.streams = m.streams
      /\ DOMAIN n.pending = DOMAIN m.pending \ Done_(m)
      /\ DOMAIN n.ended = Totalled(m) \cup DOMAIN m.ended
      /\ n.first_end = IF Totalled(m) = {} \/ m.first_end # Empty THEN m.first_end
                       ELSE <<First(KEYS, Totalled(m))>>
  BY <1>0 DEF RoundMade
<1>2. \A k \in DOMAIN m.streams : \A i \in DOMAIN m.streams[k] :
        DOMAIN m.streams[k][i].cells = m.columns
  BY <1>0, <1>a, ColumnsIn
<1>6. ASSUME NEW k \in DOMAIN n.ended
      PROVE  /\ k \in DOMAIN n.streams \ DOMAIN n.pending
             /\ \E i \in DOMAIN n.streams[k] :
                  /\ n.streams[k][i].tm = END /\ DOMAIN n.ended[k] = DOMAIN n.streams[k][i].cells
                  /\ NoneRepeats(n) => n.ended[k] = n.streams[k][i].cells
  <2>1. PICK i \in DOMAIN m.streams[k] :
          /\ k \in DOMAIN m.streams /\ m.streams[k][i].tm = END /\ k \notin DOMAIN n.pending
          /\ k \in Totalled(m) => m.streams[k][i] = Totals_(m, k)
          /\ k \in DOMAIN m.ended => DOMAIN m.ended[k] = DOMAIN m.streams[k][i].cells
          /\ k \in DOMAIN m.ended /\ NoneRepeats(m) => m.ended[k] = m.streams[k][i].cells
    <3>1. CASE k \in Totalled(m)
      <4>1. k \notin DOMAIN m.ended
        BY <3>1, EndedBefore
      <4> QED
        BY <1>1, <1>a, <3>1, <4>1, TotalledIs DEF Totals_
    <3>2. CASE k \in DOMAIN m.ended
      <4>1. k \notin Totalled(m) /\ k \in DOMAIN m.streams
        BY <3>2, EndedBefore
      <4> QED
        BY <1>1, <1>a, <3>2, <4>1 DEF Ends
    <3> QED
      BY <1>1, <3>1, <3>2
  <2>2. DOMAIN m.streams[k][i].cells = m.columns
    BY <1>2, <2>1
  <2>3. /\ DOMAIN n.ended[k] = DOMAIN m.streams[k][i].cells
        /\ NoneRepeats(m) => n.ended[k] = m.streams[k][i].cells
    <3>1. \/ DOMAIN n.ended[k] = m.columns /\ ~NoneRepeats(m)
          \/ k \in Totalled(m) /\ n.ended[k] = Totals_(m, k).cells
          \/ k \in DOMAIN m.ended /\ n.ended[k] = m.ended[k]
      <4>1. TotalsMade(m, n, k)
        BY RoundTotals
      <4> QED
        BY <4>1 DEF TotalsMade
    <3> QED
      BY <2>1, <2>2, <3>1
  <2> QED
    BY <1>0, <1>1, <2>1, <2>3
<1>7. DOMAIN n.ended = {} => n.first_end = Empty
  BY <1>1, <1>a DEF Ends
<1>8. ASSUME DOMAIN n.ended # {}
      PROVE  n.first_end # Empty /\ n.first_end[1] \in DOMAIN n.ended
  <2>1. CASE m.first_end # Empty
    BY <1>1, <1>a, <2>1 DEF Ends
  <2>2. CASE m.first_end = Empty
    <3>1. DOMAIN m.ended = {} /\ Totalled(m) # {}
      BY <1>1, <1>a, <1>8, <2>2 DEF Ends
    <3>2. Totalled(m) \subseteq ToSet(KEYS)
      BY <1>a, LogsNamed, TotalledIs
    <3>3. First(KEYS, Totalled(m)) \in Totalled(m)
      BY <3>1, <3>2, FirstIsOne, KeysAssumption
    <3>4. n.first_end = <<First(KEYS, Totalled(m))>>
      BY <1>1, <2>2, <3>1
    <3> QED
      BY <1>1, <3>3, <3>4 DEF Empty
  <2> QED
    BY <2>1, <2>2
<1>9. Ends(n)
  BY <1>6, <1>7, <1>8 DEF Ends
<1>10. Sharing(n)
  <2> SUFFICES ASSUME NEW k \in n.shares
               PROVE  k \in DOMAIN n.ended /\ n.ended[k] = n.page[k]
    BY DEF Sharing
  <2>1. /\ k \in m.shares \cup Shared(m) /\ n.page = WithShared(m)
    BY <1>0 DEF RoundMade
  <2>2. k \in DOMAIN n.ended
    BY <1>1, <1>a, <2>1, SharedAre DEF Sharing
  <2>3. n.ended[k] = WithShared(m)[k]
    BY <1>0, <2>1, <2>2 DEF RoundMade
  <2> QED
    BY <2>1, <2>2, <2>3
<1> QED
  BY <1>9, <1>10

(* The page of a round is shown, now or with those before; so is all that  *)
(* was.                                                                    *)
PagesMade(m, n) ==
  /\ \A i \in DOMAIN m.pages : i \in DOMAIN n.pages /\ n.pages[i] = m.pages[i]
  /\ n.page = WithShared(m) \/ \E i \in DOMAIN n.pages : n.pages[i] = WithShared(m)
  /\ \A i \in DOMAIN n.pages : n.pages[i] = WithShared(m) \/ i \in DOMAIN m.pages
  /\ n.page = WithShared(m) \/ n.page = [k \in DOMAIN m.streams |-> Empty]
LEMMA RoundShown ==
  ASSUME NEW m, FitToMerge(m), MergeInv(m), MoreToMerge(m), NEW n, n = MergeRound(m)
  PROVE  PagesMade(m, n)
<1>1. RoundMade(m, n) /\ m.pages \in Seq(ToSet(m.pages))
  BY RoundWhole DEF MergeInv, PagesBefore
<1>2. CASE n.page = WithShared(m) /\ n.pages = m.pages
  BY <1>2 DEF PagesMade
<1>3. CASE /\ n.pages = Append(m.pages, WithShared(m))
           /\ n.page = [k \in DOMAIN m.streams |-> Empty]
  <2>1. /\ Len(m.pages) \in Nat /\ DOMAIN m.pages = 1 .. Len(m.pages)
        /\ DOMAIN n.pages = 1 .. Len(m.pages) + 1 /\ n.pages[Len(m.pages) + 1] = WithShared(m)
        /\ \A i \in DOMAIN m.pages : i \in DOMAIN n.pages /\ n.pages[i] = m.pages[i]
    BY <1>1, <1>3, AppendedPage
  <2> QED
    BY <1>3, <2>1 DEF PagesMade
<1> QED
  BY <1>1, <1>2, <1>3 DEF RoundMade

(* What the page under way has is on the page after the round.             *)
LEMMA RoundHolds ==
  ASSUME NEW m, FitToMerge(m), MergeInv(m), DOMAIN m.pending # {},
         NEW k \in DOMAIN m.page, NEW c \in DOMAIN m.page[k], NEW tm \in DOMAIN m.page[k][c]
  PROVE  CellIs(WithShared(m), k, c, tm, m.page[k][c][tm])
<1>1. k \in DOMAIN WithShared(m) /\ DOMAIN WithShared(m)[k] = m.columns /\ c \in m.columns
  BY RoundPage, EmptyIs DEF MergeInv, PageAlike
<1>2. Cell(m.page[k], c) = m.page[k][c]
  BY DEF Cell
<1>3. tm # Now(m)
  <2>1. PICK j \in DOMAIN m.pending : RowAt(m, j).tm = Now(m)
    BY LeastTime DEF MergeInv
  <2>2. tm \in Nat => tm \in Times(m.page)
    BY TimesAre
  <2>3. Now(m) \in Nat
    BY LeastTime DEF MergeInv
  <2>4. TimesPassed(m)
    BY DEF MergeInv
  <2>5. tm \in Nat => tm < Now(m)
    BY <2>1, <2>2, <2>4 DEF TimesPassed
  <2> QED
    BY <2>3, <2>5
<1> QED
  BY <1>1, <1>2, <1>3, RoundPage DEF CellIs

(* A cell of the page after a round.                                       *)
LEMMA RoundCell ==
  ASSUME NEW m, FitToMerge(m), MergeInv(m), DOMAIN m.pending # {},
         NEW k \in DOMAIN m.streams, NEW c \in m.columns
  PROVE  /\ k \in AtMin(m) => WithShared(m)[k][c][Now(m)] = RowAt(m, k).cells[c][Now(m)]
         /\ k \notin AtMin(m) => WithShared(m)[k][c][Now(m)] = m.default
         /\ k \notin Shared(m) =>
              DOMAIN WithShared(m)[k][c] = DOMAIN Cell(m.page[k], c) \cup {Now(m)}
         /\ \A tm \in DOMAIN Cell(m.page[k], c) :
              tm # Now(m) => WithShared(m)[k][c][tm] = Cell(m.page[k], c)[tm]
<1>1. k \in DOMAIN WithShared(m)
  BY RoundPage
<1> QED
  BY <1>1, RoundPage

(* Totals that do not show a row again, and the pages of such.             *)
LEMMA RoundPlain ==
  ASSUME NEW m, FitToMerge(m), MergeInv(m), MoreToMerge(m), NEW n, n = MergeRound(m)
  PROVE  PlainPages(n)
<1>p. PagesMade(m, n)
  BY RoundShown
<1>1. RoundMade(m, n) /\ DOMAIN m.pending # {} /\ (NoneRepeats(n) <=> NoneRepeats(m))
  BY RoundWhole, RoundIs
<1> SUFFICES ASSUME NoneRepeats(m)
             PROVE  n.shares = {} /\ PlainCells(n.page) /\ \A i \in DOMAIN n.pages : PlainCells(n.pages[i])
  BY <1>1 DEF PlainPages
<1>2. /\ m.shares = {} /\ PlainCells(m.page) /\ \A i \in DOMAIN m.pages : PlainCells(m.pages[i])
      /\ Shared(m) = {}
  BY SharedAre DEF MergeInv, PlainPages
<1>3. n.shares = {}
  BY <1>1, <1>2 DEF RoundMade
<1>4. PlainCells(WithShared(m))
  <2> SUFFICES ASSUME NEW k \in DOMAIN WithShared(m), NEW c \in DOMAIN WithShared(m)[k]
               PROVE  DOMAIN WithShared(m)[k][c] \subseteq Nat
    BY DEF PlainCells
  <2>1. /\ DOMAIN WithShared(m)[k][c] = DOMAIN Cell(m.page[k], c) \cup {Now(m)}
        /\ k \in DOMAIN m.page
    <3>1. k \in DOMAIN m.streams /\ c \in m.columns
      BY <1>1, RoundPage
    <3>2. k \notin Shared(m)
      BY <1>2
    <3>3. DOMAIN WithShared(m)[k][c] = DOMAIN Cell(m.page[k], c) \cup {Now(m)}
      BY <1>1, <3>1, <3>2, RoundCell
    <3> QED
      BY <3>1, <3>3 DEF MergeInv, PageAlike
  <2>2. Now(m) \in Nat
    BY <1>1, LeastTime DEF MergeInv
  <2>3. DOMAIN Cell(m.page[k], c) \subseteq Nat
    BY <1>2, <2>1, EmptyIs DEF PlainCells, Cell
  <2> QED
    BY <2>1, <2>2, <2>3
<1>5. PlainCells([k \in DOMAIN m.streams |-> Empty])
  BY EmptyIs DEF PlainCells
<1>6. PlainCells(n.page)
  BY <1>p, <1>4, <1>5 DEF PagesMade
<1>7. \A i \in DOMAIN n.pages : PlainCells(n.pages[i])
  BY <1>p, <1>2, <1>4 DEF PagesMade
<1> QED
  BY <1>3, <1>6, <1>7

(* What was shown is shown.                                                *)
LEMMA StillShown ==
  ASSUME NEW m, FitToMerge(m), MergeInv(m), MoreToMerge(m), NEW n, n = MergeRound(m),
         NEW k, NEW c, NEW tm, NEW value
  PROVE  /\ CellIs(WithShared(m), k, c, tm, value) => IsShown(n, k, c, tm, value)
         /\ k \in DOMAIN m.streams /\ IsShown(m, k, c, tm, value) => IsShown(n, k, c, tm, value)
<1>p. PagesMade(m, n)
  BY RoundShown
<1>1. ASSUME CellIs(WithShared(m), k, c, tm, value) PROVE IsShown(n, k, c, tm, value)
  BY <1>p, <1>1 DEF IsShown, PagesMade
<1>2. ASSUME k \in DOMAIN m.streams, IsShown(m, k, c, tm, value) PROVE IsShown(n, k, c, tm, value)
  <2>1. CASE CellIs(m.page, k, c, tm, value)
    <3>1. /\ k \in DOMAIN m.page /\ c \in DOMAIN m.page[k] /\ tm \in DOMAIN m.page[k][c]
          /\ m.page[k][c][tm] = value /\ DOMAIN m.pending # {}
      BY <1>2, <2>1, RoundIs DEF CellIs, MergeInv, PageAlike
    <3>2. CellIs(WithShared(m), k, c, tm, m.page[k][c][tm])
      BY <3>1, RoundHolds
    <3> QED
      BY <1>1, <3>1, <3>2
  <2>2. CASE \E i \in DOMAIN m.pages : CellIs(m.pages[i], k, c, tm, value)
    BY <1>p, <2>2 DEF IsShown, PagesMade
  <2> QED
    BY <1>2, <2>1, <2>2 DEF IsShown
<1> QED
  BY <1>1, <1>2

(* The times of totals are on the pages.                                   *)
LEMMA RoundTotalsShown ==
  ASSUME NEW m, FitToMerge(m), MergeInv(m), MoreToMerge(m), NEW n, n = MergeRound(m)
  PROVE  TotalsShown(n)
<1> SUFFICES ASSUME NEW k \in DOMAIN n.ended, NEW c \in DOMAIN n.ended[k],
                    NEW tm \in DOMAIN n.ended[k][c] \cap Nat
             PROVE  IsShown(n, k, c, tm, n.ended[k][c][tm])
  BY DEF TotalsShown
<1>0. DOMAIN m.pending # {}
  BY RoundIs
<1>1. CASE /\ Part(n.ended[k], WithShared(m)[k])
  <2>1. CellIs(WithShared(m), k, c, tm, n.ended[k][c][tm])
    BY <1>1 DEF Part, CellIs
  <2> QED
    BY <2>1, StillShown
<1>2. CASE k \in Totalled(m) /\ n.ended[k] = Totals_(m, k).cells
  <2>1. /\ k \in AtMin(m) /\ Again(Totals_(m, k), RowAt(m, k)) /\ k \in DOMAIN m.streams
        /\ DOMAIN Totals_(m, k).cells = m.columns
    <3>1. OneSetOfColumns(m) /\ Cursors(m)
      BY DEF MergeInv
    <3>2. /\ k \in AtMin(m) /\ m.pending[k] + 1 \in DOMAIN m.streams[k] /\ k \in DOMAIN m.streams
          /\ ~Repeats(Totals_(m, k)) \/ Again(Totals_(m, k), RowAt(m, k))
      BY <1>2, <3>1, TotalledIs
    <3>3. Repeats(Totals_(m, k))
      BY <1>2 DEF Repeats
    <3>4. DOMAIN Totals_(m, k).cells = m.columns
      BY <1>0, <3>1, <3>2, ColumnsIn DEF Totals_
    <3> QED
      BY <3>2, <3>3, <3>4
  <2>2. RowAt(m, k).tm = Now(m)
    BY <1>0, <2>1, LeastTime DEF MergeInv
  <2>3. tm = Now(m) /\ n.ended[k][c][tm] = RowAt(m, k).cells[c][Now(m)] /\ c \in m.columns
    BY <1>2, <2>1, <2>2 DEF Again
  <2>4. CellIs(WithShared(m), k, c, tm, n.ended[k][c][tm])
    <3>1. k \in DOMAIN WithShared(m) /\ DOMAIN WithShared(m)[k] = m.columns
      BY <1>0, <2>1, RoundPage
    <3>2. /\ Now(m) \in DOMAIN WithShared(m)[k][c]
          /\ WithShared(m)[k][c][Now(m)] = RowAt(m, k).cells[c][Now(m)]
      BY <1>0, <2>1, <2>3, <3>1, RoundPage
    <3> QED
      BY <2>3, <3>1, <3>2 DEF CellIs
  <2> QED
    BY <2>4, StillShown
<1>3. CASE k \in DOMAIN m.ended /\ n.ended[k] = m.ended[k]
  <2>1. IsShown(m, k, c, tm, n.ended[k][c][tm]) /\ k \in DOMAIN m.streams
    BY <1>3, EndedBefore DEF MergeInv, TotalsShown
  <2> QED
    BY <2>1, StillShown
<1>4. \/ Part(n.ended[k], WithShared(m)[k])
      \/ k \in Totalled(m) /\ n.ended[k] = Totals_(m, k).cells
      \/ k \in DOMAIN m.ended /\ n.ended[k] = m.ended[k]
  <2>1. TotalsMade(m, n, k)
    BY RoundTotals
  <2> QED
    BY <2>1 DEF TotalsMade
<1> QED
  BY <1>1, <1>2, <1>3, <1>4

(* A log without rows gets the default.                                    *)
LEMMA RoundDefaults ==
  ASSUME NEW m, FitToMerge(m), MergeInv(m), MoreToMerge(m), NEW n, n = MergeRound(m)
  PROVE  NoRowsNoCells(n)
<1>p. PagesMade(m, n)
  BY RoundShown
<1>1. n.streams = m.streams /\ n.default = m.default /\ DOMAIN m.pending # {}
  BY RoundIs
<1> SUFFICES ASSUME NEW k \in DOMAIN m.streams, m.streams[k] = <<>>
             PROVE  Defaults(m, n.page, k) /\ \A i \in DOMAIN n.pages : Defaults(m, n.pages[i], k)
  BY <1>1 DEF NoRowsNoCells, Defaults
<1>2. Defaults(m, m.page, k) /\ \A i \in DOMAIN m.pages : Defaults(m, m.pages[i], k)
  BY DEF MergeInv, NoRowsNoCells
<1>3. k \notin AtMin(m) /\ k \notin Shared(m)
  <2>1. DOMAIN m.streams[k] = {}
    OBVIOUS
  <2>2. k \notin DOMAIN m.pending
    BY <2>1 DEF MergeInv, Cursors
  <2> QED
    BY <2>2 DEF AtMin, Shared
<1>4. Defaults(m, WithShared(m), k)
  <2> SUFFICES ASSUME NEW c \in DOMAIN WithShared(m)[k], NEW tm \in DOMAIN WithShared(m)[k][c]
               PROVE  WithShared(m)[k][c][tm] = m.default
    BY DEF Defaults
  <2>1. k \in DOMAIN WithShared(m) /\ c \in m.columns
    BY <1>1, RoundPage
  <2>2. /\ DOMAIN WithShared(m)[k][c] = DOMAIN Cell(m.page[k], c) \cup {Now(m)}
        /\ WithShared(m)[k][c][Now(m)] = m.default
        /\ \A x \in DOMAIN Cell(m.page[k], c) :
             x # Now(m) => WithShared(m)[k][c][x] = Cell(m.page[k], c)[x]
    BY <1>1, <1>3, <2>1, RoundCell
  <2>3. \A x \in DOMAIN Cell(m.page[k], c) : Cell(m.page[k], c)[x] = m.default
    BY <1>2, EmptyIs DEF Defaults, Cell
  <2> QED
    BY <2>2, <2>3
<1>5. Defaults(m, [j \in DOMAIN m.streams |-> Empty], k)
  BY EmptyIs DEF Defaults
<1>6. Defaults(m, n.page, k)
  BY <1>p, <1>4, <1>5 DEF PagesMade
<1>7. \A i \in DOMAIN n.pages : Defaults(m, n.pages[i], k)
  BY <1>p, <1>2, <1>4 DEF PagesMade
<1> QED
  BY <1>6, <1>7

(* A round leaves what the page shows, and adds the rows that it takes.    *)
LEMMA RoundShows ==
  ASSUME NEW m, FitToMerge(m), MergeInv(m), DOMAIN m.pending # {},
         NEW page, page = WithShared(m)
  PROVE  /\ \A k \in AtMin(m) : Shows(page, k, RowAt(m, k))
         /\ \A k \in DOMAIN m.streams : \A i \in DOMAIN m.streams[k] :
              Shows(m.page, k, m.streams[k][i]) => Shows(page, k, m.streams[k][i])
<1>0. Cursors(m) /\ OneSetOfColumns(m) /\ DOMAIN m.page = DOMAIN m.streams
  BY DEF MergeInv, PageAlike
<1>1. ASSUME NEW k \in AtMin(m)
      PROVE  Shows(page, k, RowAt(m, k))
  <2>1. /\ k \in DOMAIN m.pending /\ k \in DOMAIN m.streams
        /\ DOMAIN RowAt(m, k).cells = m.columns
        /\ \A c \in m.columns : DOMAIN RowAt(m, k).cells[c] = {Now(m)}
    BY <1>0, LeastTime, ColumnsIn, RowsFit DEF Cursors
  <2>2. k \in DOMAIN page /\ DOMAIN page[k] = m.columns
    BY <2>1, RoundPage
  <2>3. \A c \in m.columns : /\ Now(m) \in DOMAIN page[k][c]
                             /\ page[k][c][Now(m)] = RowAt(m, k).cells[c][Now(m)]
    BY <2>2, RoundPage
  <2> QED
    BY <2>1, <2>2, <2>3 DEF Shows
<1>2. ASSUME NEW k \in DOMAIN m.streams, NEW i \in DOMAIN m.streams[k],
             Shows(m.page, k, m.streams[k][i])
      PROVE  Shows(page, k, m.streams[k][i])
  <2> DEFINE row == m.streams[k][i]
  <2>1. ASSUME NEW c \in DOMAIN row.cells, NEW tm \in DOMAIN row.cells[c]
        PROVE  CellIs(page, k, c, tm, row.cells[c][tm])
    <3>1. /\ c \in DOMAIN m.page[k] /\ tm \in DOMAIN m.page[k][c]
          /\ m.page[k][c][tm] = row.cells[c][tm] /\ k \in DOMAIN m.page
      BY <1>0, <1>2 DEF Shows
    <3> QED
      BY <3>1, RoundHolds
  <2>2. ASSUME NEW c \in DOMAIN row.cells
        PROVE  c \in DOMAIN page[k]
    <3>1. c \in DOMAIN m.page[k]
      BY <1>2 DEF Shows
    <3> QED
      BY <1>0, <3>1, RoundPage, EmptyIs DEF MergeInv, PageAlike
  <2> QED
    BY <2>1, <2>2 DEF Shows, CellIs
<1> QED
  BY <1>1, <1>2

(* No row is lost.                                                         *)
LEMMA RoundKeeps ==
  ASSUME NEW m, FitToMerge(m), MergeInv(m), MoreToMerge(m), NEW n, n = MergeRound(m)
  PROVE  RowsKept(n)
<1>p. PagesMade(m, n)
  BY RoundShown
<1> DEFINE page == WithShared(m)
<1>0. Cursors(m) /\ RowsKept(m) /\ Sharing(m)
  BY DEF MergeInv
<1>1. /\ n.streams = m.streams /\ DOMAIN m.pending # {} /\ RoundMade(m, n)
      /\ n.pending = [j \in DOMAIN m.pending \ Done_(m) |->
                        IF j \in AtMin(m) THEN m.pending[j] + 1 ELSE m.pending[j]]
  BY RoundIs, RoundWhole
<1> SUFFICES ASSUME NEW k \in DOMAIN m.streams, NEW i \in DOMAIN m.streams[k],
                    WasRead(n, k, i)
             PROVE  IsKept(n, k, m.streams[k][i])
  BY <1>1 DEF RowsKept
<1> DEFINE row == m.streams[k][i]
<1>2. OnPages(m, k, row) => OnPages(n, k, row)
  BY <1>p DEF OnPages, PagesMade
<1>3. Shows(page, k, row) => Shows(n.page, k, row) \/ OnPages(n, k, row)
  BY <1>p DEF OnPages, PagesMade
<1>4. k \in DOMAIN n.ended /\ k \in m.shares \cup Shared(m) /\ Shows(page, k, row) =>
        Shows(n.ended, k, row) \/ OnPages(n, k, row)
  <2> SUFFICES ASSUME k \in DOMAIN n.ended, k \in m.shares \cup Shared(m), Shows(page, k, row)
               PROVE  Shows(n.ended, k, row) \/ OnPages(n, k, row)
    OBVIOUS
  <2>1. CASE n.page = page /\ n.shares = m.shares \cup Shared(m)
    <3>1. n.ended[k] = page[k]
      BY <1>1, <2>1 DEF RoundMade
    <3> QED
      BY <3>1 DEF Shows
  <2>2. CASE n.pages = Append(m.pages, WithShared(m))
    <3>1. m.pages \in Seq(ToSet(m.pages))
      BY DEF MergeInv, PagesBefore
    <3>2. /\ Len(m.pages) \in Nat /\ DOMAIN n.pages = 1 .. Len(m.pages) + 1
          /\ n.pages[Len(m.pages) + 1] = WithShared(m)
      BY <2>2, <3>1, AppendedPage
    <3> QED
      BY <3>2 DEF OnPages
  <2> QED
    BY <1>1, <2>1, <2>2 DEF RoundMade
<1> HIDE DEF page
<1>5. CASE WasRead(m, k, i)
  <2>1. IsKept(m, k, row)
    BY <1>0, <1>5 DEF RowsKept
  <2>2. CASE row.tm = END
    <3>1. k \in DOMAIN m.ended /\ k \in DOMAIN n.ended
          /\ (Shows(m.ended, k, row) \/ OnPages(m, k, row))
      BY <1>1, <2>1, <2>2 DEF IsKept, RoundMade
    <3>2. CASE Shows(m.ended, k, row) /\ k \in m.shares
      <4>1. Shows(m.page, k, row)
        BY <1>0, <3>2 DEF Shows, Sharing
      <4>2. Shows(page, k, row)
        BY <1>1, <4>1, RoundShows DEF page
      <4> QED
        BY <1>4, <2>2, <3>1, <3>2, <4>2 DEF IsKept
    <3>3. CASE Shows(m.ended, k, row) /\ k \notin m.shares
      <4>1. k \notin Shared(m) /\ k \notin Totalled(m)
        BY <3>1, EndedBefore
      <4>2. n.ended[k] = m.ended[k]
        BY <1>1, <3>1, <3>3, <4>1 DEF RoundMade
      <4>3. Shows(n.ended, k, row)
        BY <3>3, <4>2 DEF Shows
      <4> QED
        BY <2>2, <3>1, <4>3 DEF IsKept
    <3>4. CASE OnPages(m, k, row)
      BY <1>2, <2>2, <3>1, <3>4 DEF IsKept
    <3> QED
      BY <3>1, <3>2, <3>3, <3>4
  <2>3. CASE row.tm # END
    <3>1. Shows(m.page, k, row) \/ OnPages(m, k, row)
      BY <2>1, <2>3 DEF IsKept
    <3>2. Shows(m.page, k, row) => Shows(page, k, row)
      BY <1>1, RoundShows DEF page
    <3> QED
      BY <1>2, <1>3, <2>3, <3>1, <3>2 DEF IsKept
  <2> QED
    BY <2>2, <2>3
<1>6. CASE ~WasRead(m, k, i)
  <2>1. k \in DOMAIN m.pending /\ ~(i < m.pending[k])
    BY <1>6 DEF WasRead
  <2>2. /\ m.streams[k] \in Seq(ToSet(m.streams[k])) /\ RowsFollow(m.streams[k])
        /\ m.pending[k] \in 1 .. Len(m.streams[k]) /\ Len(m.streams[k]) \in Nat
        /\ DOMAIN m.streams[k] = 1 .. Len(m.streams[k])
    <3>1. m.streams[k] \in Seq(ToSet(m.streams[k])) /\ RowsFollow(m.streams[k])
      BY DEF FitToMerge
    <3> QED
      BY <1>0, <2>1, <3>1, RowsFit, LenProperties
  <2>3. k \in AtMin(m)
    BY <1>1, <2>1 DEF WasRead, Done_
  <2>4. CASE i = m.pending[k]
    <3>1. Shows(page, k, row) /\ row.tm # END
      BY <1>0, <1>1, <2>1, <2>3, <2>4, RoundShows DEF RowAt, Cursors, page
    <3> QED
      BY <1>3, <3>1 DEF IsKept
  <2>5. CASE i # m.pending[k]
    <3>1. i \in Nat /\ i >= m.pending[k] + 1 /\ i <= Len(m.streams[k])
      BY <2>1, <2>2, <2>5
    <3>2. k \in Done_(m)
      BY <1>1, <2>1, <2>2, <2>3, <3>1 DEF WasRead
    <3>3. m.pending[k] + 1 \in DOMAIN m.streams[k]
      BY <2>2, <3>1
    <3>4. m.streams[k][m.pending[k] + 1].tm = END
      BY <3>2, <3>3 DEF Done_, Head_
    <3>5. m.pending[k] + 1 = Len(m.streams[k])
      BY <2>2, <3>3, <3>4 DEF RowsFollow
    <3>6. i = m.pending[k] + 1
      BY <2>2, <3>1, <3>5
    <3>7. k \in Totalled(m)
      BY <3>2, <3>3, <3>4 DEF Totalled, EndsWell
    <3>8. k \in DOMAIN n.ended /\ row = Totals_(m, k)
      BY <1>1, <3>6, <3>7 DEF RoundMade, Totals_
    <3>9. CASE k \in Shared(m)
      <4>1. Shows(page, k, row)
        BY <1>1, <3>8, <3>9, RoundPage DEF page
      <4> QED
        BY <1>4, <3>4, <3>6, <3>8, <3>9, <4>1 DEF IsKept
    <3>10. CASE k \notin Shared(m)
      <4>1. k \notin m.shares
        BY <1>0, <3>7, EndedBefore DEF Sharing
      <4>2. n.ended[k] = row.cells
        BY <1>1, <3>7, <3>8, <3>10, <4>1 DEF RoundMade
      <4>3. Shows(n.ended, k, row)
        BY <4>2 DEF Shows
      <4> QED
        BY <3>4, <3>6, <3>8, <4>3 DEF IsKept
    <3> QED
      BY <3>9, <3>10
  <2> QED
    BY <2>4, <2>5
<1> QED
  BY <1>5, <1>6

(* A round keeps it all.                                                   *)
LEMMA RoundKeepsInv ==
  ASSUME NEW m, FitToMerge(m), MergeInv(m), MoreToMerge(m), NEW n, n = MergeRound(m)
  PROVE  MergeInv(n)
<1>1. Merges(n)
  BY RoundIs
<1>2. Cursors(n) /\ OneSetOfColumns(n) /\ PageAlike(n)
  BY RoundCursors, RoundAlike
<1>3. PagesBefore(n) /\ TimesPassed(n)
  BY RoundPasses
<1>4. Ends(n) /\ Sharing(n) /\ PlainPages(n)
  BY RoundEnds, RoundPlain
<1>5. TotalsShown(n) /\ NoRowsNoCells(n) /\ RowsKept(n)
  BY RoundTotalsShown, RoundDefaults, RoundKeeps
<1> QED
  BY <1>1, <1>2, <1>3, <1>4, <1>5 DEF MergeInv

-----------------------------------------------------------------------------
(* Nothing is on a page at first, and all logs are at their first row.     *)
LEMMA MergerInv ==
  ASSUME NEW streams, NEW order, NEW default, NEW page_size,
         FitToMerge(Merger(streams, order, FALSE, default, page_size)),
         DOMAIN streams \subseteq ToSet(order)
  PROVE  MergeInv(Merger(streams, order, FALSE, default, page_size))
<1> DEFINE m == Merger(streams, order, FALSE, default, page_size)
           pending == {k \in DOMAIN streams : Head_(streams[k], 1) # END}
           ended == {k \in DOMAIN streams : EndsWell(streams[k], 1)}
           first == First(order, pending)
<1>1. m = [streams |-> streams, order |-> order, text |-> FALSE, default |-> default,
           page_size |-> page_size, n |-> 0, pages |-> <<>>, raised |-> FALSE,
           page |-> [k \in DOMAIN streams |-> Empty],
           pending |-> [k \in pending |-> 1],
           ended |-> [k \in ended |-> streams[k][1].cells], shares |-> {},
           first_end |-> IF ended = {} THEN Empty ELSE <<First(order, ended)>>,
           columns |-> IF pending = {} THEN {} ELSE DOMAIN streams[first][1].cells]
  BY Zenon DEF Merger, NewPage
<1>0. FitToMerge(m)
  OBVIOUS
<1> SUFFICES MergeInv(m)
  OBVIOUS
<1> HIDE DEF m, pending, ended, first
<1>2. m.streams = streams /\ m.order = order /\ ~m.raised /\ ~m.text
  BY <1>1
<1>20. /\ DOMAIN m.page = DOMAIN streams /\ \A k \in DOMAIN streams : m.page[k] = Empty
       /\ m.page = [k \in DOMAIN streams |-> Empty]
  BY <1>1
<1>21. DOMAIN m.pending = pending /\ \A k \in pending : m.pending[k] = 1
  BY <1>1
<1>22. DOMAIN m.ended = ended /\ \A k \in ended : m.ended[k] = streams[k][1].cells
  BY <1>1
<1>23. m.first_end = IF ended = {} THEN Empty ELSE <<First(order, ended)>>
  BY <1>1
<1>24. m.columns = IF pending = {} THEN {} ELSE DOMAIN streams[first][1].cells
  BY <1>1
<1>25. m.pages \in Seq(ToSet(m.pages)) /\ DOMAIN m.pages = {}
  <2>1. m.pages = <<>>
    BY <1>1
  <2> QED
    BY <2>1, EmptySeq, EmptyIs DEF Empty
<1>3. Merges(m)
  <2>1. IsMerger(m)
    BY <1>1, Zenon DEF IsMerger
  <2> QED
    BY <1>2, <2>1 DEF Merges
<1>4. \A k \in pending : k \in DOMAIN streams /\ 1 \in DOMAIN streams[k] /\ streams[k][1].tm # END
  BY DEF pending, Head_
<1>5. \A k \in ended : k \in DOMAIN streams /\ 1 \in DOMAIN streams[k] /\ streams[k][1].tm = END
  BY DEF ended, EndsWell
<1>6. Cursors(m)
  BY <1>2, <1>21, <1>4 DEF Cursors, RowAt
<1>7. order \in Seq(ToSet(KEYS))
  BY <1>0, <1>2 DEF FitToMerge
<1>8. OneSetOfColumns(m)
  <2>1. CASE pending = {}
    BY <1>20, <1>21, <2>1 DEF OneSetOfColumns
  <2>2. CASE pending # {}
    <3>1. first \in pending
      BY <1>4, <1>7, <2>2, FirstIsOne DEF first
    <3>2. first \in DOMAIN m.streams /\ 1 \in DOMAIN m.streams[first]
      BY <1>2, <1>4, <3>1
    <3>3. \A k \in DOMAIN m.streams : \A i \in DOMAIN m.streams[k] :
            RowsAlike(m.streams[k][i], m.streams[first][1])
      BY <1>0, <3>2 DEF FitToMerge
    <3>4. \A k \in DOMAIN m.streams : \A i \in DOMAIN m.streams[k] :
            DOMAIN m.streams[k][i].cells = DOMAIN m.streams[first][1].cells
      BY <3>3 DEF RowsAlike
    <3> QED
      BY <1>2, <1>24, <2>2, <3>4 DEF OneSetOfColumns
  <2> QED
    BY <2>1, <2>2
<1>9. PageAlike(m)
  BY <1>2, <1>20, EmptyIs, EmptyTimes DEF PageAlike, HaveTimes
<1>10. PagesBefore(m)
  BY <1>25 DEF PagesBefore
<1>11. TimesPassed(m)
  <2>1. Times(m.page) = {}
    BY <1>20, EmptyTimes
  <2> QED
    BY <1>25, <2>1 DEF TimesPassed
<1>12. Ends(m)
  <2>1. CASE ended = {}
    BY <1>22, <1>23, <2>1 DEF Ends
  <2>2. CASE ended # {}
    <3>1. First(order, ended) \in ended
      BY <1>5, <1>7, <2>2, FirstIsOne
    <3>2. m.first_end # Empty /\ m.first_end[1] \in DOMAIN m.ended
      BY <1>22, <1>23, <2>2, <3>1, SingletonIs DEF Empty
    <3>3. \A k \in DOMAIN m.ended :
            /\ k \in DOMAIN m.streams \ DOMAIN m.pending
            /\ \E i \in DOMAIN m.streams[k] :
                 /\ m.streams[k][i].tm = END /\ DOMAIN m.ended[k] = DOMAIN m.streams[k][i].cells
                 /\ NoneRepeats(m) => m.ended[k] = m.streams[k][i].cells
      BY <1>2, <1>21, <1>22, <1>4, <1>5
    <3> QED
      BY <1>22, <2>2, <3>2, <3>3 DEF Ends
  <2> QED
    BY <2>1, <2>2
<1>13. RowsKept(m)
  <2> SUFFICES ASSUME NEW k \in DOMAIN streams, NEW i \in DOMAIN streams[k], WasRead(m, k, i)
               PROVE  IsKept(m, k, streams[k][i])
    BY <1>2 DEF RowsKept
  <2>1. streams[k] \in Seq(ToSet(streams[k])) /\ RowsFollow(streams[k])
    BY <1>0, <1>2 DEF FitToMerge
  <2>2. DOMAIN streams[k] = 1 .. Len(streams[k]) /\ Len(streams[k]) \in Nat
    BY <2>1, LenProperties
  <2>3. k \notin pending
    BY <1>21, <2>2 DEF WasRead
  <2>4. 1 \in DOMAIN streams[k] /\ streams[k][1].tm = END
    BY <2>2, <2>3 DEF pending, Head_
  <2>5. i = 1
    BY <2>1, <2>2, <2>4 DEF RowsFollow
  <2>6. k \in ended
    BY <2>4 DEF ended, EndsWell
  <2> QED
    BY <1>22, <2>4, <2>5, <2>6 DEF IsKept, Shows
<1>14. Sharing(m)
  BY <1>1 DEF Sharing
<1>15. PlainPages(m)
  <2>1. PlainCells(m.page)
    BY <1>20, EmptyIs DEF PlainCells
  <2> QED
    BY <1>1, <1>25, <2>1 DEF PlainPages
<1>16. TotalsShown(m)
  <2> SUFFICES ASSUME NEW k \in ended, NEW c \in DOMAIN streams[k][1].cells,
                      NEW tm \in DOMAIN streams[k][1].cells[c] \cap Nat
               PROVE  FALSE
    BY <1>22 DEF TotalsShown
  <2>1. RowsFollow(streams[k]) /\ 1 \in DOMAIN streams[k] /\ streams[k][1].tm = END
    BY <1>0, <1>2, <1>5 DEF FitToMerge
  <2>2. ~Repeats(streams[k][1])
    BY <2>1 DEF RowsFollow
  <2> QED
    BY <2>2 DEF Repeats
<1>17. NoRowsNoCells(m)
  BY <1>2, <1>20, <1>25, EmptyIs DEF NoRowsNoCells, Defaults
<1> QED
  BY <1>3, <1>6, <1>8, <1>9, <1>10, <1>11, <1>12, <1>13, <1>14, <1>15, <1>16, <1>17 DEF MergeInv

-----------------------------------------------------------------------------
(* The totals: those of a log that has some, and the default in the same   *)
(* places for one that has none.                                           *)
Balanced(m, all) ==
  /\ DOMAIN all = DOMAIN m.streams
  /\ \A k \in DOMAIN m.ended : all[k] = m.ended[k]
  /\ \E j \in DOMAIN m.ended : \A k \in DOMAIN all \ DOMAIN m.ended :
       /\ DOMAIN all[k] = DOMAIN m.ended[j]
       /\ \A c \in DOMAIN all[k] : /\ DOMAIN all[k][c] = DOMAIN m.ended[j][c]
                                   /\ \A tm \in DOMAIN all[k][c] : all[k][c][tm] = m.default
  /\ \A k, l \in DOMAIN all : DOMAIN all[k] = DOMAIN all[l]
  /\ \A k, l \in DOMAIN all : \A i \in DOMAIN m.streams[l] :
       DOMAIN m.streams[l][i].cells = DOMAIN all[k]
(* They are as this says, however many logs came to their end.             *)
LEMMA BalancedTotals ==
  ASSUME NEW m, FitToMerge(m), Ends(m), DOMAIN m.ended # {}
  PROVE  Balanced(m, _balance_dict(m))
<1> DEFINE all == _balance_dict(m)
           j == m.first_end[1]
           t == m.ended[j]
           blank == [c \in DOMAIN t |-> [tm \in DOMAIN t[c] |-> m.default]]
<1>1. j \in DOMAIN m.ended /\ j \in DOMAIN m.streams
  BY DEF Ends
<1>2. PICK b \in DOMAIN m.streams[j] : DOMAIN t = DOMAIN m.streams[j][b].cells
  BY <1>1 DEF Ends
<1>3. all = Over(m.ended, [k \in DOMAIN m.streams |-> blank])
  BY DEF _balance_dict, _get_dict_structure
<1> HIDE DEF all
<1>4. DOMAIN m.ended \subseteq DOMAIN m.streams
  BY DEF Ends
<1>5. DOMAIN all = DOMAIN m.streams
  BY <1>3, <1>4 DEF Over
<1>6. \A k \in DOMAIN m.ended : all[k] = m.ended[k]
  BY <1>3 DEF Over
<1>7. \A k \in DOMAIN m.streams : k \notin DOMAIN m.ended => all[k] = blank
  BY <1>3 DEF Over
<1>8. \A k \in DOMAIN m.streams : \A i \in DOMAIN m.streams[k] :
        DOMAIN m.streams[k][i].cells = DOMAIN t
  <2> SUFFICES ASSUME NEW k \in DOMAIN m.streams, NEW i \in DOMAIN m.streams[k]
               PROVE  DOMAIN m.streams[k][i].cells = DOMAIN t
    OBVIOUS
  <2>1. RowsAlike(m.streams[j][b], m.streams[k][i])
    BY <1>1 DEF FitToMerge
  <2> QED
    BY <1>2, <2>1 DEF RowsAlike
<1>9. \A k \in DOMAIN all \ DOMAIN m.ended :
        /\ DOMAIN all[k] = DOMAIN t
        /\ \A c \in DOMAIN all[k] : /\ DOMAIN all[k][c] = DOMAIN t[c]
                                    /\ \A tm \in DOMAIN all[k][c] : all[k][c][tm] = m.default
  <2> HIDE DEF t
  <2>1. ASSUME NEW k \in DOMAIN all, k \notin DOMAIN m.ended
        PROVE  DOMAIN all[k] = DOMAIN t /\ \A c \in DOMAIN t : all[k][c] = [tm \in DOMAIN t[c] |-> m.default]
    BY <1>5, <1>7, <2>1
  <2>2. ASSUME NEW k \in DOMAIN all, k \notin DOMAIN m.ended, NEW c \in DOMAIN all[k]
        PROVE  /\ DOMAIN all[k][c] = DOMAIN t[c]
               /\ \A tm \in DOMAIN all[k][c] : all[k][c][tm] = m.default
    <3>1. all[k][c] = [tm \in DOMAIN t[c] |-> m.default]
      BY <2>1, <2>2
    <3> QED
      BY <3>1
  <2> QED
    BY <2>1, <2>2
<1>10. \A k \in DOMAIN all : DOMAIN all[k] = DOMAIN t
  <2> SUFFICES ASSUME NEW k \in DOMAIN all, k \in DOMAIN m.ended PROVE DOMAIN all[k] = DOMAIN t
    BY <1>9
  <2>1. PICK i \in DOMAIN m.streams[k] : DOMAIN m.ended[k] = DOMAIN m.streams[k][i].cells
    BY DEF Ends
  <2> QED
    BY <1>5, <1>6, <1>8, <2>1
<1>11. Balanced(m, all)
  <2>1. \A k, l \in DOMAIN all : \A i \in DOMAIN m.streams[l] :
          DOMAIN m.streams[l][i].cells = DOMAIN all[k]
    BY <1>5, <1>8, <1>10
  <2> QED
    BY <1>1, <1>5, <1>6, <1>9, <1>10, <2>1 DEF Balanced
<1> QED
  BY <1>11 DEF all

(* The last page: the cells of the page under way and the totals.          *)
WithTotals(m, all, page) ==
  /\ DOMAIN page = DOMAIN m.streams
  /\ \A k \in DOMAIN page : DOMAIN page[k] = DOMAIN all[k]
  /\ \A k \in DOMAIN page : \A c \in DOMAIN page[k] :
       /\ DOMAIN page[k][c] = DOMAIN all[k][c] \cup DOMAIN Cell(m.page[k], c)
       /\ \A tm \in DOMAIN all[k][c] : page[k][c][tm] = all[k][c][tm]
       /\ \A tm \in DOMAIN Cell(m.page[k], c) :
            tm \notin DOMAIN all[k][c] => page[k][c][tm] = Cell(m.page[k], c)[tm]
(* It is as this says when some log came to its end.                       *)
LEMMA LastPageIs ==
  ASSUME NEW m, FitToMerge(m), MergeInv(m), DOMAIN m.ended # {}
  PROVE  WithTotals(m, _balance_dict(m), LastPage(m))
<1> DEFINE all == _balance_dict(m)
           page == LastPage(m)
<1>0. Ends(m) /\ PageAlike(m) /\ OneSetOfColumns(m)
  BY DEF MergeInv
<1>1. /\ DOMAIN all = DOMAIN m.streams
      /\ \A k, l \in DOMAIN all : \A i \in DOMAIN m.streams[l] :
           DOMAIN m.streams[l][i].cells = DOMAIN all[k]
  BY <1>0, BalancedTotals DEF Balanced
<1>2. page = [k \in DOMAIN m.page |->
                IF m.page[k] = Empty THEN all[k]
                ELSE [c \in DOMAIN m.page[k] \cup DOMAIN all[k] |->
                        Over(Cell(all[k], c), Cell(m.page[k], c))]]
  BY DEF LastPage
<1>3. DOMAIN page = DOMAIN m.streams /\ DOMAIN m.page = DOMAIN m.streams
  BY <1>0, <1>2 DEF PageAlike
<1> HIDE DEF all, page
<1>4. ASSUME NEW k \in DOMAIN page
      PROVE  /\ DOMAIN page[k] = DOMAIN all[k]
             /\ \A c \in DOMAIN page[k] :
                  /\ DOMAIN page[k][c] = DOMAIN all[k][c] \cup DOMAIN Cell(m.page[k], c)
                  /\ \A tm \in DOMAIN all[k][c] : page[k][c][tm] = all[k][c][tm]
                  /\ \A tm \in DOMAIN Cell(m.page[k], c) :
                       tm \notin DOMAIN all[k][c] => page[k][c][tm] = Cell(m.page[k], c)[tm]
  <2>1. CASE m.page[k] = Empty
    <3>1. page[k] = all[k]
      BY <1>2, <1>3, <2>1
    <3>2. \A c \in DOMAIN page[k] : DOMAIN Cell(m.page[k], c) = {}
      BY <2>1, EmptyIs DEF Cell
    <3> QED
      BY <3>1, <3>2
  <2>2. CASE m.page[k] # Empty
    <3>1. DOMAIN m.page[k] = m.columns
      BY <1>0, <1>3, <2>2 DEF PageAlike
    <3>2. PICK l \in DOMAIN m.ended : TRUE
      OBVIOUS
    <3>3. PICK i \in DOMAIN m.streams[l] : TRUE
      BY <1>0, <3>2 DEF Ends
    <3>4. l \in DOMAIN m.streams /\ DOMAIN m.streams[l][i].cells = m.columns
      BY <1>0, <1>3, <2>2, <3>2, <3>3 DEF OneSetOfColumns, Ends
    <3>5. DOMAIN all[k] = m.columns
      BY <1>1, <1>3, <3>3, <3>4
    <3>6. page[k] = [c \in DOMAIN m.page[k] \cup DOMAIN all[k] |->
                       Over(Cell(all[k], c), Cell(m.page[k], c))]
      BY <1>2, <1>3, <2>2
    <3>7. DOMAIN page[k] = m.columns
      BY <3>1, <3>5, <3>6
    <3>8. ASSUME NEW c \in DOMAIN page[k]
          PROVE  /\ DOMAIN page[k][c] = DOMAIN all[k][c] \cup DOMAIN Cell(m.page[k], c)
                 /\ \A tm \in DOMAIN all[k][c] : page[k][c][tm] = all[k][c][tm]
                 /\ \A tm \in DOMAIN Cell(m.page[k], c) :
                      tm \notin DOMAIN all[k][c] => page[k][c][tm] = Cell(m.page[k], c)[tm]
      <4>1. Cell(all[k], c) = all[k][c]
        BY <3>5, <3>7 DEF Cell
      <4>2. page[k][c] = Over(all[k][c], Cell(m.page[k], c))
        BY <3>1, <3>5, <3>6, <3>7, <4>1
      <4> QED
        BY <4>2 DEF Over
    <3> QED
      BY <3>5, <3>7, <3>8
  <2> QED
    BY <2>1, <2>2
<1>5. WithTotals(m, all, page)
  BY <1>3, <1>4 DEF WithTotals
<1> QED
  BY <1>5 DEF all, page

(* When the totals show a row again, all logs that have rows came to their *)
(* end.                                                                    *)
LEMMA NoneWithout ==
  ASSUME NEW m, FitToMerge(m), MergeInv(m), ~MoreToMerge(m),
         NEW j \in DOMAIN m.ended, NEW c \in DOMAIN m.ended[j],
         NEW tm \in DOMAIN m.ended[j][c] \cap Nat,
         NEW k \in DOMAIN m.streams, k \notin DOMAIN m.ended
  PROVE  m.streams[k] = <<>>
<1>1. PICK i \in DOMAIN m.streams[j] :
        /\ j \in DOMAIN m.streams /\ m.streams[j][i].tm = END
        /\ NoneRepeats(m) => m.ended[j] = m.streams[j][i].cells
  BY DEF MergeInv, Ends
<1>2. ~NoneRepeats(m)
  BY <1>1 DEF NoneRepeats, Repeats
<1>3. m.streams[k] = <<>> \/ HasTotals(m.streams[k])
  BY <1>2 DEF FitToMerge
<1>4. ASSUME HasTotals(m.streams[k]) PROVE FALSE
  <2> DEFINE s == m.streams[k]
  <2>1. s \in Seq(ToSet(s)) /\ s # <<>> /\ s[Len(s)].tm = END
    BY <1>4 DEF FitToMerge, HasTotals
  <2>2. Len(s) \in DOMAIN s
    BY <2>1, EmptySeq, LenProperties
  <2>3. DOMAIN m.pending = {}
    BY DEF MoreToMerge, MergeInv, Merges
  <2>4. IsKept(m, k, s[Len(s)])
    BY <2>2, <2>3 DEF MergeInv, RowsKept, WasRead
  <2> QED
    BY <2>1, <2>4 DEF IsKept
<1> QED
  BY <1>3, <1>4

(* A cell that is on a page and in the totals is the same in both.         *)
LEMMA TotalsAgree ==
  ASSUME NEW m, FitToMerge(m), MergeInv(m), ~MoreToMerge(m), DOMAIN m.ended # {},
         NEW all, Balanced(m, all), NEW k \in DOMAIN all, NEW c \in DOMAIN all[k],
         NEW tm \in DOMAIN all[k][c] \cap Nat
  PROVE  /\ tm \in Times(m.page) \/ \E i \in DOMAIN m.pages : tm \in Times(m.pages[i])
         /\ NoneRepeats(m) => FALSE
         /\ c \in DOMAIN m.page[k] /\ tm \in DOMAIN m.page[k][c] => m.page[k][c][tm] = all[k][c][tm]
         /\ \A i \in DOMAIN m.pages :
              c \in DOMAIN m.pages[i][k] /\ tm \in DOMAIN m.pages[i][k][c] =>
                m.pages[i][k][c][tm] = all[k][c][tm]
<1>1. /\ Ends(m) /\ TotalsShown(m) /\ PagesBefore(m) /\ TimesPassed(m) /\ NoRowsNoCells(m)
      /\ DOMAIN m.page = DOMAIN m.streams /\ k \in DOMAIN m.streams
  BY DEF MergeInv, PageAlike, Balanced
<1>2. PICK j \in DOMAIN m.ended :
        /\ c \in DOMAIN m.ended[j] /\ tm \in DOMAIN m.ended[j][c]
        /\ k \in DOMAIN m.ended => j = k /\ all[k] = m.ended[k]
        /\ k \notin DOMAIN m.ended => all[k][c][tm] = m.default
  <2>1. CASE k \in DOMAIN m.ended
    BY <2>1 DEF Balanced
  <2>2. CASE k \notin DOMAIN m.ended
    BY <2>2 DEF Balanced
  <2> QED
    BY <2>1, <2>2
<1>3. IsShown(m, j, c, tm, m.ended[j][c][tm]) /\ j \in DOMAIN m.streams
  BY <1>1, <1>2 DEF TotalsShown, Ends
<1>4. tm \in Times(m.page) \/ \E i \in DOMAIN m.pages : tm \in Times(m.pages[i])
  <2>1. CASE CellIs(m.page, j, c, tm, m.ended[j][c][tm])
    BY <1>1, <1>3, <2>1, TimesAre DEF CellIs
  <2>2. CASE \E i \in DOMAIN m.pages : CellIs(m.pages[i], j, c, tm, m.ended[j][c][tm])
    <3>1. PICK i \in DOMAIN m.pages : CellIs(m.pages[i], j, c, tm, m.ended[j][c][tm])
      BY <2>2
    <3>2. DOMAIN m.pages[i] = DOMAIN m.streams
      BY <1>1 DEF PagesBefore
    <3>3. tm \in Times(m.pages[i])
      BY <1>3, <3>1, <3>2, TimesAre DEF CellIs
    <3> QED
      BY <3>3
  <2> QED
    BY <1>3, <2>1, <2>2 DEF IsShown
<1>5. ~NoneRepeats(m)
  <2>1. PICK i \in DOMAIN m.streams[j] :
          m.streams[j][i].tm = END /\ (NoneRepeats(m) => m.ended[j] = m.streams[j][i].cells)
    BY <1>1 DEF Ends
  <2> QED
    BY <1>2, <1>3, <2>1 DEF NoneRepeats, Repeats
<1>6. ASSUME c \in DOMAIN m.page[k], tm \in DOMAIN m.page[k][c]
      PROVE  m.page[k][c][tm] = all[k][c][tm]
  <2>1. CASE k \in DOMAIN m.ended
    <3>1. IsShown(m, k, c, tm, all[k][c][tm])
      BY <1>2, <1>3, <2>1
    <3>2. tm \in Times(m.page)
      BY <1>1, <1>6, TimesAre
    <3>3. ASSUME NEW i \in DOMAIN m.pages, CellIs(m.pages[i], k, c, tm, all[k][c][tm]) PROVE FALSE
      <4>1. DOMAIN m.pages[i] = DOMAIN m.streams
        BY <1>1 DEF PagesBefore
      <4>2. tm \in Times(m.pages[i])
        BY <1>1, <3>3, <4>1, TimesAre DEF CellIs
      <4>3. tm < tm
        BY <1>1, <3>2, <4>2 DEF TimesPassed
      <4> QED
        BY <4>3
    <3> QED
      BY <3>1, <3>3 DEF IsShown, CellIs
  <2>2. CASE k \notin DOMAIN m.ended
    <3>1. m.streams[k] = <<>>
      BY <1>1, <1>2, <2>2, NoneWithout
    <3> QED
      BY <1>1, <1>2, <1>6, <2>2, <3>1 DEF NoRowsNoCells, Defaults
  <2> QED
    BY <2>1, <2>2
<1>7. ASSUME NEW i \in DOMAIN m.pages, c \in DOMAIN m.pages[i][k], tm \in DOMAIN m.pages[i][k][c]
      PROVE  m.pages[i][k][c][tm] = all[k][c][tm]
  <2>0. tm \in Times(m.pages[i])
    <3>1. DOMAIN m.pages[i] = DOMAIN m.streams
      BY <1>1 DEF PagesBefore
    <3> QED
      BY <1>1, <1>7, <3>1, TimesAre
  <2>1. CASE k \in DOMAIN m.ended
    <3>1. IsShown(m, k, c, tm, all[k][c][tm])
      BY <1>2, <1>3, <2>1
    <3>2. ~CellIs(m.page, k, c, tm, all[k][c][tm])
      <4> SUFFICES ASSUME CellIs(m.page, k, c, tm, all[k][c][tm]) PROVE FALSE
        OBVIOUS
      <4>1. tm \in Times(m.page)
        BY <1>1, TimesAre DEF CellIs
      <4>2. tm < tm
        BY <1>1, <2>0, <4>1 DEF TimesPassed
      <4> QED
        BY <4>2
    <3>3. PICK n \in DOMAIN m.pages : CellIs(m.pages[n], k, c, tm, all[k][c][tm])
      BY <3>1, <3>2 DEF IsShown
    <3>4. tm \in Times(m.pages[n])
      <4>1. DOMAIN m.pages[n] = DOMAIN m.streams
        BY <1>1 DEF PagesBefore
      <4> QED
        BY <1>1, <3>3, <4>1, TimesAre DEF CellIs
    <3>5. n = i
      <4>1. ~(n < i) /\ ~(i < n)
        <5>1. n < i => tm < tm
          BY <1>1, <2>0, <3>4 DEF PagesBefore
        <5>2. i < n => tm < tm
          BY <1>1, <2>0, <3>4 DEF PagesBefore
        <5> QED
          BY <5>1, <5>2
      <4>2. DOMAIN m.pages = 1 .. Len(m.pages)
        BY <1>1, LenProperties DEF PagesBefore
      <4> QED
        BY <4>1, <4>2
    <3> QED
      BY <3>3, <3>5 DEF CellIs
  <2>2. CASE k \notin DOMAIN m.ended
    <3>1. m.streams[k] = <<>>
      BY <1>1, <1>2, <2>2, NoneWithout
    <3>2. Defaults(m, m.pages[i], k)
      BY <1>1, <3>1 DEF NoRowsNoCells
    <3> QED
      BY <1>2, <1>7, <2>2, <3>2 DEF Defaults
  <2> QED
    BY <2>1, <2>2
<1> QED
  BY <1>4, <1>5, <1>6, <1>7

(* What is shown in the end.                                               *)
ShownBefore(pages, i) == UNION {Times(pages[j]) : j \in 1 .. i - 1}
ShownAlike(pages) ==
  /\ \A i \in DOMAIN pages : HaveTimes(pages[i], Times(pages[i]) \ ShownBefore(pages, i))
  /\ \A i, j \in DOMAIN pages :
       i < j =>
         /\ \A x \in Times(pages[i]), y \in Times(pages[j]) \ ShownBefore(pages, j) : x < y
         /\ \A k \in DOMAIN pages[i] : SameCells(pages[i], pages[j], k)
Disjoint(pages, i, j) == Times(pages[i]) \cap Times(pages[j]) = {}
ShowsAll(pages, m) ==
  \A k \in DOMAIN m.streams : \A i \in DOMAIN m.streams[k] :
    \E n \in DOMAIN pages : Shows(pages[n], k, m.streams[k][i])

(* A page before the last one has no time of one before that.              *)
LEMMA PagesApart ==
  ASSUME NEW m, MergeInv(m), NEW i \in DOMAIN m.pages, NEW j \in DOMAIN m.pages, i < j
  PROVE  Disjoint(m.pages, i, j)
<1> SUFFICES ASSUME NEW x \in Times(m.pages[i]), x \in Times(m.pages[j]) PROVE FALSE
  BY DEF Disjoint
<1>1. x < x /\ x \in Nat
  BY TimesAre DEF MergeInv, PagesBefore
<1> QED
  BY <1>1

(* The pages before the last one.                                          *)
LEMMA BeforeAlike ==
  ASSUME NEW m, MergeInv(m)
  PROVE  ShownAlike(m.pages)
<1>1. PagesBefore(m)
  BY DEF MergeInv
<1>2. ASSUME NEW i \in DOMAIN m.pages
      PROVE  HaveTimes(m.pages[i], Times(m.pages[i]) \ ShownBefore(m.pages, i))
  BY <1>1 DEF PagesBefore, HaveTimes
<1>3. ASSUME NEW i \in DOMAIN m.pages, NEW j \in DOMAIN m.pages, i < j,
             NEW k \in DOMAIN m.pages[i]
      PROVE  SameCells(m.pages[i], m.pages[j], k)
  <2> SUFFICES ASSUME NEW c \in DOMAIN m.pages[i][k] \cap DOMAIN m.pages[j][k],
                      NEW tm \in DOMAIN m.pages[i][k][c] \cap DOMAIN m.pages[j][k][c] \cap Nat
               PROVE  FALSE
    BY DEF SameCells
  <2>1. k \in DOMAIN m.pages[j]
    BY <1>1 DEF PagesBefore
  <2>2. tm \in Times(m.pages[i]) /\ tm \in Times(m.pages[j])
    BY <2>1, TimesAre
  <2> QED
    BY <1>3, <2>2, PagesApart DEF Disjoint
<1>4. ASSUME NEW i \in DOMAIN m.pages, NEW j \in DOMAIN m.pages, i < j
      PROVE  \A x \in Times(m.pages[i]), y \in Times(m.pages[j]) \ ShownBefore(m.pages, j) : x < y
  BY <1>1, <1>4 DEF PagesBefore
<1> QED
  BY <1>2, <1>3, <1>4 DEF ShownAlike

(* The last page: its times are those of the page under way, or were shown *)
(* before, and then with the same cells.                                   *)
LastFits(m, last) ==
  /\ DOMAIN last = DOMAIN m.streams
  /\ \A k, l \in DOMAIN last : DOMAIN last[k] = DOMAIN last[l]
  /\ \A k \in DOMAIN last : \A c \in DOMAIN last[k] : Times(m.page) \subseteq DOMAIN last[k][c]
  /\ \A x \in Times(last) : x \in Times(m.page) \/ \E i \in DOMAIN m.pages : x \in Times(m.pages[i])
  /\ NoneRepeats(m) => Times(last) \subseteq Times(m.page)
  /\ \A i \in DOMAIN m.pages : \A k \in DOMAIN m.pages[i] : SameCells(m.pages[i], last, k)
LEMMA LastTimes ==
  ASSUME NEW m, FitToMerge(m), MergeInv(m), ~MoreToMerge(m), NEW last, last = LastPage(m)
  PROVE  LastFits(m, last)
<1>1. /\ DOMAIN m.page = DOMAIN m.streams /\ PagesBefore(m) /\ TimesPassed(m) /\ PageAlike(m)
      /\ \A i \in DOMAIN m.pages : DOMAIN m.pages[i] = DOMAIN m.streams
  BY DEF MergeInv, PageAlike, PagesBefore
<1>a. ASSUME NEW i \in DOMAIN m.pages, NEW k \in DOMAIN m.pages[i],
             NEW c \in DOMAIN m.pages[i][k], NEW tm \in DOMAIN m.pages[i][k][c] \cap Nat,
             c \in DOMAIN m.page[k], tm \in DOMAIN m.page[k][c]
      PROVE  FALSE
  <2>1. tm \in Times(m.pages[i]) /\ tm \in Times(m.page)
    BY <1>1, <1>a, TimesAre
  <2>2. tm < tm
    BY <1>1, <2>1 DEF TimesPassed
  <2> QED
    BY <2>2
<1>2. CASE DOMAIN m.ended = {}
  <2>1. last = m.page
    BY <1>2 DEF LastPage
  <2>2. \A i \in DOMAIN m.pages : \A k \in DOMAIN m.pages[i] : SameCells(m.pages[i], last, k)
    BY <1>a, <2>1 DEF SameCells
  <2> QED
    BY <1>1, <2>1, <2>2 DEF LastFits, PageAlike, HaveTimes
<1>3. CASE DOMAIN m.ended # {}
  <2> DEFINE all == _balance_dict(m)
  <2>a. Balanced(m, all) /\ WithTotals(m, all, last)
    <3>1. Ends(m)
      BY DEF MergeInv
    <3> QED
      BY <1>3, <3>1, BalancedTotals, LastPageIs
  <2> HIDE DEF all
  <2>1. DOMAIN last = DOMAIN m.streams /\ DOMAIN all = DOMAIN m.streams
    BY <2>a DEF Balanced, WithTotals
  <2>2. \A k, l \in DOMAIN last : DOMAIN last[k] = DOMAIN last[l] /\ DOMAIN last[k] = DOMAIN all[k]
    BY <2>1, <2>a DEF WithTotals, Balanced
  <2>3. \A k \in DOMAIN last : \A c \in DOMAIN last[k] :
          /\ DOMAIN last[k][c] = DOMAIN all[k][c] \cup DOMAIN Cell(m.page[k], c)
          /\ \A tm \in DOMAIN all[k][c] : last[k][c][tm] = all[k][c][tm]
    BY <2>a DEF WithTotals
  <2>4. ASSUME NEW k \in DOMAIN last, NEW c \in DOMAIN last[k], NEW x \in Times(m.page)
        PROVE  x \in DOMAIN last[k][c]
    <3>1. PICK l \in DOMAIN m.page : \E d \in DOMAIN m.page[l] : x \in DOMAIN m.page[l][d]
      BY TimesAre
    <3>2. \A j \in DOMAIN m.page : DOMAIN m.page[j] = m.columns
      BY <1>1, <3>1, EmptyIs DEF PageAlike
    <3>3. c \in m.columns
      <4>1. OneSetOfColumns(m) /\ Ends(m)
        BY DEF MergeInv
      <4>2. \A j \in DOMAIN m.streams : \A i \in DOMAIN m.streams[j] :
              DOMAIN m.streams[j][i].cells = m.columns
        BY <3>1, <4>1, EmptyIs DEF OneSetOfColumns
      <4>3. PICK j \in DOMAIN m.ended : TRUE
        BY <1>3
      <4>4. PICK i \in DOMAIN m.streams[j] : j \in DOMAIN m.streams
        BY <4>1, <4>3 DEF Ends
      <4>5. DOMAIN all[k] = DOMAIN m.streams[j][i].cells
        BY <2>1, <2>a, <4>4 DEF Balanced
      <4> QED
        BY <2>2, <4>2, <4>4, <4>5
    <3>4. c \in DOMAIN m.page[k] /\ x \in DOMAIN m.page[k][c]
      BY <1>1, <2>1, <3>2, <3>3 DEF PageAlike, HaveTimes
    <3> QED
      BY <2>3, <3>4 DEF Cell
  <2>5. ASSUME NEW x \in Times(last)
        PROVE  /\ x \in Times(m.page) \/ \E i \in DOMAIN m.pages : x \in Times(m.pages[i])
               /\ NoneRepeats(m) => x \in Times(m.page)
    <3>1. x \in Nat /\ \E k \in DOMAIN last : \E c \in DOMAIN last[k] : x \in DOMAIN last[k][c]
      BY TimesAre
    <3>2. PICK k \in DOMAIN last : \E c \in DOMAIN last[k] : x \in DOMAIN last[k][c]
      BY <3>1
    <3>3. PICK c \in DOMAIN last[k] : x \in DOMAIN last[k][c]
      BY <3>2
    <3>4. c \in DOMAIN all[k] /\ k \in DOMAIN all /\ k \in DOMAIN m.page
      BY <1>1, <2>1, <2>2
    <3>5. CASE x \in DOMAIN all[k][c]
      BY <1>3, <2>a, <3>1, <3>4, <3>5, TotalsAgree
    <3>6. CASE x \in DOMAIN Cell(m.page[k], c)
      <4>1. c \in DOMAIN m.page[k] /\ x \in DOMAIN m.page[k][c]
        BY <3>6, EmptyIs DEF Cell
      <4> QED
        BY <3>1, <3>4, <4>1, TimesAre
    <3> QED
      BY <2>3, <3>3, <3>5, <3>6
  <2>6. ASSUME NEW i \in DOMAIN m.pages, NEW k \in DOMAIN m.pages[i]
        PROVE  SameCells(m.pages[i], last, k)
    <3> SUFFICES ASSUME NEW c \in DOMAIN m.pages[i][k] \cap DOMAIN last[k],
                        NEW tm \in DOMAIN m.pages[i][k][c] \cap DOMAIN last[k][c] \cap Nat
                 PROVE  m.pages[i][k][c][tm] = last[k][c][tm]
      BY DEF SameCells
    <3>1. k \in DOMAIN last /\ k \in DOMAIN all /\ c \in DOMAIN all[k]
      BY <1>1, <2>1, <2>2
    <3>2. tm \notin DOMAIN Cell(m.page[k], c)
      BY <1>a, EmptyIs DEF Cell
    <3>a. c \in DOMAIN last[k] /\ tm \in DOMAIN last[k][c]
      OBVIOUS
    <3>b. DOMAIN last[k][c] = DOMAIN all[k][c] \cup DOMAIN Cell(m.page[k], c)
      BY <2>3, <3>1, <3>a
    <3>c. tm \in DOMAIN all[k][c]
      BY <3>2, <3>a, <3>b
    <3>3. tm \in DOMAIN all[k][c] /\ last[k][c][tm] = all[k][c][tm]
      BY <2>3, <3>1, <3>a, <3>c
    <3> QED
      BY <1>3, <2>a, <3>1, <3>3, TotalsAgree
  <2> QED
    BY <2>1, <2>2, <2>4, <2>5, <2>6 DEF LastFits
<1> QED
  BY <1>2, <1>3

(* It shows all that the page under way did, and all totals.               *)
LEMMA LastShows ==
  ASSUME NEW m, FitToMerge(m), MergeInv(m), ~MoreToMerge(m), NEW page, page = LastPage(m),
         NEW k \in DOMAIN m.streams, NEW i \in DOMAIN m.streams[k]
  PROVE  LET row == m.streams[k][i]
         IN  /\ row.tm # END /\ Shows(m.page, k, row) => Shows(page, k, row)
             /\ row.tm = END /\ k \in DOMAIN m.ended /\ Shows(m.ended, k, row) =>
                  Shows(page, k, row)
<1> DEFINE row == m.streams[k][i]
<1>1. CASE DOMAIN m.ended = {}
  BY <1>1 DEF LastPage
<1>2. CASE DOMAIN m.ended # {}
  <2> DEFINE all == _balance_dict(m)
  <2>a. Balanced(m, all) /\ WithTotals(m, all, page)
    <3>1. Ends(m)
      BY DEF MergeInv
    <3> QED
      BY <1>2, <3>1, BalancedTotals, LastPageIs
  <2> HIDE DEF all
  <2>1. /\ k \in DOMAIN page /\ DOMAIN page[k] = DOMAIN all[k] /\ DOMAIN row.cells = DOMAIN all[k]
        /\ k \in DOMAIN all
    BY <2>a DEF Balanced, WithTotals
  <2>2. \A c \in DOMAIN page[k] :
          /\ DOMAIN page[k][c] = DOMAIN all[k][c] \cup DOMAIN Cell(m.page[k], c)
          /\ \A tm \in DOMAIN all[k][c] : page[k][c][tm] = all[k][c][tm]
          /\ \A tm \in DOMAIN Cell(m.page[k], c) :
               tm \notin DOMAIN all[k][c] => page[k][c][tm] = Cell(m.page[k], c)[tm]
    BY <2>a, <2>1 DEF WithTotals
  <2>3. k \in DOMAIN m.ended => all[k] = m.ended[k]
    BY <2>a DEF Balanced
  <2>4. ASSUME row.tm # END, Shows(m.page, k, row)
        PROVE  Shows(page, k, row)
    <3> SUFFICES ASSUME NEW c \in DOMAIN row.cells, NEW tm \in DOMAIN row.cells[c]
                 PROVE  tm \in DOMAIN page[k][c] /\ page[k][c][tm] = row.cells[c][tm]
      BY <2>1 DEF Shows
    <3>1. tm \in Nat
      BY <2>4 DEF FitToMerge, RowsFollow
    <3>2. /\ c \in DOMAIN m.page[k] /\ tm \in DOMAIN m.page[k][c]
          /\ m.page[k][c][tm] = row.cells[c][tm]
      BY <2>4 DEF Shows
    <3>3. Cell(m.page[k], c) = m.page[k][c]
      BY <3>2 DEF Cell
    <3>4. c \in DOMAIN all[k] /\ c \in DOMAIN page[k]
      BY <2>1
    <3>5. CASE tm \in DOMAIN all[k][c]
      <4>1. m.page[k][c][tm] = all[k][c][tm]
        BY <1>2, <2>a, <2>1, <3>1, <3>2, <3>4, <3>5, TotalsAgree
      <4> QED
        BY <2>2, <3>2, <3>4, <3>5, <4>1
    <3>6. CASE tm \notin DOMAIN all[k][c]
      BY <2>2, <3>2, <3>3, <3>4, <3>6
    <3> QED
      BY <3>5, <3>6
  <2>5. ASSUME k \in DOMAIN m.ended, Shows(m.ended, k, row)
        PROVE  Shows(page, k, row)
    BY <2>1, <2>2, <2>3, <2>5 DEF Shows
  <2> QED
    BY <2>4, <2>5
<1> QED
  BY <1>1, <1>2

(* The merge ends with pages that are alike and show all.                  *)
LEMMA MergeEnds ==
  ASSUME NEW m, FitToMerge(m), MergeInv(m), ~MoreToMerge(m),
         NEW pages, pages = Append(m.pages, LastPage(m))
  PROVE  /\ ShownAlike(pages) /\ ShowsAll(pages, m)
         /\ \A i, j \in DOMAIN pages :
              i < j /\ (NoneRepeats(m) \/ j # Len(pages)) => Disjoint(pages, i, j)
<1> DEFINE last == LastPage(m)
           z == Len(m.pages) + 1
<1>1. LastFits(m, last) /\ ShownAlike(m.pages) /\ PagesBefore(m) /\ TimesPassed(m) /\ RowsKept(m)
  BY LastTimes, BeforeAlike DEF MergeInv
<1>2. /\ Len(m.pages) \in Nat /\ DOMAIN m.pages = 1 .. Len(m.pages)
      /\ DOMAIN pages = 1 .. z /\ pages[z] = last /\ Len(pages) = z
      /\ \A i \in DOMAIN m.pages : i \in DOMAIN pages /\ pages[i] = m.pages[i]
  <2>1. /\ pages \in Seq(ToSet(pages)) /\ Len(m.pages) \in Nat
        /\ DOMAIN m.pages = 1 .. Len(m.pages)
        /\ DOMAIN pages = 1 .. z /\ pages[z] = last
        /\ \A i \in DOMAIN m.pages : i \in DOMAIN pages /\ pages[i] = m.pages[i]
    BY <1>1, AppendedPage DEF PagesBefore
  <2>2. Len(pages) = z
    BY <2>1, LenProperties
  <2> QED
    BY <2>1, <2>2
<1>3. DOMAIN m.pending = {}
  BY DEF MoreToMerge, MergeInv, Merges
<1> HIDE DEF last, z
<1>a. \A i \in DOMAIN pages : i \in DOMAIN m.pages \/ i = z
  BY <1>2 DEF z
<1>b. \A i, j \in DOMAIN pages : i < j => i \in DOMAIN m.pages
  BY <1>2 DEF z
<1>c. ASSUME NEW i \in DOMAIN m.pages PROVE ShownBefore(pages, i) = ShownBefore(m.pages, i)
  <2>1. \A j \in 1 .. i - 1 : pages[j] = m.pages[j]
    BY <1>2
  <2> QED
    BY <2>1 DEF ShownBefore
<1>d. \A i \in DOMAIN m.pages : Times(m.pages[i]) \subseteq ShownBefore(pages, z)
  <2> SUFFICES ASSUME NEW i \in DOMAIN m.pages PROVE Times(m.pages[i]) \subseteq ShownBefore(pages, z)
    OBVIOUS
  <2>1. i \in 1 .. z - 1 /\ pages[i] = m.pages[i]
    BY <1>2 DEF z
  <2> QED
    BY <2>1 DEF ShownBefore
<1>e. Times(last) \ ShownBefore(pages, z) \subseteq Times(m.page)
  BY <1>1, <1>d DEF LastFits
<1>4. ASSUME NEW i \in DOMAIN pages
      PROVE  HaveTimes(pages[i], Times(pages[i]) \ ShownBefore(pages, i))
  <2>1. CASE i \in DOMAIN m.pages
    BY <1>1, <1>2, <1>c, <2>1 DEF ShownAlike
  <2>2. CASE i = z
    <3>1. HaveTimes(last, Times(last) \ ShownBefore(pages, z))
      BY <1>1, <1>e DEF LastFits, HaveTimes
    <3> QED
      BY <1>2, <2>2, <3>1
  <2> QED
    BY <1>a, <2>1, <2>2
<1>5. ASSUME NEW i \in DOMAIN pages, NEW j \in DOMAIN pages, i < j
      PROVE  /\ \A x \in Times(pages[i]), y \in Times(pages[j]) \ ShownBefore(pages, j) : x < y
             /\ \A k \in DOMAIN pages[i] : SameCells(pages[i], pages[j], k)
             /\ NoneRepeats(m) \/ j # z => Disjoint(pages, i, j)
  <2>1. i \in DOMAIN m.pages /\ pages[i] = m.pages[i]
    BY <1>2, <1>5, <1>b
  <2>2. CASE j \in DOMAIN m.pages
    <3>1. pages[j] = m.pages[j] /\ ShownBefore(pages, j) = ShownBefore(m.pages, j)
      BY <1>2, <1>c, <2>2
    <3>2. Disjoint(m.pages, i, j)
      BY <1>5, <2>1, <2>2, PagesApart
    <3> QED
      BY <1>1, <1>5, <2>1, <2>2, <3>1, <3>2 DEF ShownAlike, Disjoint
  <2>3. CASE j = z
    <3>1. pages[j] = last
      BY <1>2, <2>3
    <3>2. \A x \in Times(pages[i]) : \A y \in Times(m.page) : x < y
      BY <1>1, <2>1 DEF TimesPassed
    <3>3. \A k \in DOMAIN pages[i] : SameCells(pages[i], last, k)
      BY <1>1, <2>1 DEF LastFits
    <3>4. ASSUME NoneRepeats(m) PROVE Disjoint(pages, i, j)
      <4>1. Times(pages[j]) \subseteq Times(m.page)
        BY <1>1, <3>1, <3>4 DEF LastFits
      <4>2. \A x \in Times(pages[i]) : x \in Nat /\ ~(x < x)
        BY TimesAre
      <4> QED
        BY <3>2, <4>1, <4>2 DEF Disjoint
    <3> QED
      BY <1>e, <2>3, <3>1, <3>2, <3>3, <3>4
  <2> QED
    BY <1>a, <2>2, <2>3
<1>6. ASSUME NEW k \in DOMAIN m.streams, NEW i \in DOMAIN m.streams[k]
      PROVE  \E n \in DOMAIN pages : Shows(pages[n], k, m.streams[k][i])
  <2>1. IsKept(m, k, m.streams[k][i])
    BY <1>1, <1>3 DEF RowsKept, WasRead
  <2>2. CASE Shows(last, k, m.streams[k][i])
    BY <1>2, <2>2 DEF z
  <2>3. CASE \E n \in DOMAIN m.pages : Shows(m.pages[n], k, m.streams[k][i])
    BY <1>2, <2>3
  <2> QED
    BY <2>1, <2>2, <2>3, LastShows DEF IsKept, OnPages, last
<1> QED
  BY <1>2, <1>4, <1>5, <1>6 DEF ShownAlike, ShowsAll

(* Without rows that are shown again all logs have their totals in the     *)
(* same places.                                                            *)
LEMMA PlainTotals ==
  ASSUME NEW m, FitToMerge(m), MergeInv(m), NoneRepeats(m)
  PROVE  /\ \A i \in DOMAIN m.pages : SameTotals(m.pages[i])
         /\ SameTotals(LastPage(m))
<1>1. /\ PlainCells(m.page) /\ \A i \in DOMAIN m.pages : PlainCells(m.pages[i])
      /\ PageAlike(m) /\ PagesBefore(m) /\ Ends(m)
  BY DEF MergeInv, PlainPages
<1>2. ASSUME NEW page, PlainCells(page), HaveTimes(page, Times(page))
      PROVE  SameTotals(page)
  BY <1>2 DEF PlainCells, HaveTimes, SameTotals
<1>3. \A i \in DOMAIN m.pages : SameTotals(m.pages[i])
  BY <1>1, <1>2 DEF PagesBefore
<1>4. CASE DOMAIN m.ended = {}
  <2>1. SameTotals(m.page)
    BY <1>1, <1>2 DEF PageAlike
  <2> QED
    BY <1>3, <1>4, <2>1 DEF LastPage
<1>5. CASE DOMAIN m.ended # {}
  <2> DEFINE all == _balance_dict(m)
             page == LastPage(m)
  <2>1. Balanced(m, all) /\ WithTotals(m, all, page)
    BY <1>1, <1>5, BalancedTotals, LastPageIs
  <2> HIDE DEF all, page
  <2>2. PICK j \in DOMAIN m.ended : \A k \in DOMAIN all \ DOMAIN m.ended :
          /\ DOMAIN all[k] = DOMAIN m.ended[j]
          /\ \A c \in DOMAIN all[k] : DOMAIN all[k][c] = DOMAIN m.ended[j][c]
    BY <2>1 DEF Balanced
  <2>3. ASSUME NEW k \in DOMAIN m.ended, NEW l \in DOMAIN m.ended
        PROVE  \A c \in DOMAIN m.ended[k] : DOMAIN m.ended[k][c] \ Nat = DOMAIN m.ended[l][c] \ Nat
    <3>1. PICK i \in DOMAIN m.streams[k] :
            /\ k \in DOMAIN m.streams
            /\ m.streams[k][i].tm = END /\ m.ended[k] = m.streams[k][i].cells
      BY <1>1 DEF Ends
    <3>2. PICK n \in DOMAIN m.streams[l] :
            /\ l \in DOMAIN m.streams
            /\ m.streams[l][n].tm = END /\ m.ended[l] = m.streams[l][n].cells
      BY <1>1 DEF Ends
    <3>3. RowsAlike(m.streams[k][i], m.streams[l][n])
      BY <3>1, <3>2 DEF FitToMerge
    <3> QED
      BY <3>1, <3>2, <3>3 DEF RowsAlike
  <2>4. /\ DOMAIN all = DOMAIN m.streams /\ DOMAIN page = DOMAIN m.streams
        /\ \A k, l \in DOMAIN all : DOMAIN all[k] = DOMAIN all[l]
        /\ \A k \in DOMAIN m.ended : all[k] = m.ended[k]
        /\ \A k \in DOMAIN page : DOMAIN page[k] = DOMAIN all[k]
        /\ \A k \in DOMAIN page : \A c \in DOMAIN page[k] :
             DOMAIN page[k][c] = DOMAIN all[k][c] \cup DOMAIN Cell(m.page[k], c)
        /\ DOMAIN m.page = DOMAIN m.streams /\ DOMAIN m.ended \subseteq DOMAIN m.streams
    BY <1>1, <2>1 DEF Balanced, WithTotals, PageAlike, Ends
  <2>5. ASSUME NEW k \in DOMAIN all, NEW c \in DOMAIN all[k]
        PROVE  DOMAIN all[k][c] \ Nat = DOMAIN m.ended[j][c] \ Nat
    <3>1. CASE k \in DOMAIN m.ended
      BY <2>3, <2>4, <3>1
    <3>2. CASE k \notin DOMAIN m.ended
      BY <2>2, <3>2
    <3> QED
      BY <3>1, <3>2
  <2>6. ASSUME NEW k \in DOMAIN page, NEW c \in DOMAIN page[k]
        PROVE  DOMAIN page[k][c] \ Nat = DOMAIN m.ended[j][c] \ Nat
    <3>1. DOMAIN Cell(m.page[k], c) \subseteq Nat
      BY <1>1, <2>4, EmptyIs DEF PlainCells, Cell
    <3> QED
      BY <2>4, <2>5, <3>1
  <2>7. \A k, l \in DOMAIN page : DOMAIN page[k] = DOMAIN page[l]
    BY <2>4
  <2>8. SameTotals(page)
    BY <2>6, <2>7 DEF SameTotals
  <2> QED
    BY <1>3, <2>8 DEF page
<1> QED
  BY <1>4, <1>5

-----------------------------------------------------------------------------
(* The lines that are read of a log.                                       *)

(* Those is a sequence, and of elements that are in both.                  *)
LEMMA ThoseAre ==
  ASSUME NEW s, NEW S, IsSeq(s)
  PROVE  IsSeq(Those(s, S)) /\ ToSet(Those(s, S)) \subseteq S \cap ToSet(s)
<1> DEFINE n == Len(s)
           More(k) == IF s[k] \in S THEN <<s[k]>> ELSE <<>>
           Step(a, k) == a \o More(k)
           Is(f, m) == f = [k \in 0 .. m |-> IF k = 0 THEN <<>> ELSE Step(f[k - 1], k)]
           F == CHOOSE f : Is(f, n)
           Inv(a) == IsSeq(a) /\ ToSet(a) \subseteq S \cap ToSet(s)
<1>1. n \in Nat
  BY SeqLen
<1>2. Those(s, S) = F[n]
  BY DEF Those
<1>3. ASSUME NEW k \in 1 .. n, NEW a, Inv(a) PROVE Inv(Step(a, k))
  <2>1. IsSeq(More(k)) /\ ToSet(More(k)) \subseteq S \cap ToSet(s)
    BY SeqOneElems, SeqElems
  <2> HIDE DEF More
  <2> QED
    BY <1>3, <2>1, SeqJoinedElems
<1>4. Inv(<<>>)
  BY SeqOneElems
<1> HIDE DEF Step, Inv, n
<1>5. \E f : Is(f, n)
  <2> DEFINE G == {m \in 0 .. n : \E f : Is(f, m)}
  <2>1. 0 \in G
    <3> DEFINE h == [k \in 0 .. 0 |-> <<>>]
    <3>1. \A k \in 0 .. 0 : k = 0 /\ h[k] = <<>>
      OBVIOUS
    <3>2. h = [k \in 0 .. 0 |-> h[k]]
      OBVIOUS
    <3> HIDE DEF h
    <3>3. Is(h, 0)
      BY <3>1, <3>2
    <3> QED
      BY <3>3, <1>1
  <2>2. ASSUME NEW m \in 1 .. n, m - 1 \in G PROVE m \in G
    <3>1. PICK f : Is(f, m - 1)
      BY <2>2
    <3> DEFINE g == [k \in 0 .. m |-> IF k = m THEN Step(f[m - 1], m) ELSE f[k]]
    <3>2. ASSUME NEW k \in 0 .. m PROVE g[k] = IF k = 0 THEN <<>> ELSE Step(g[k - 1], k)
      <4>1. CASE k = m
        <5>1. g[m] = Step(f[m - 1], m) /\ g[m - 1] = f[m - 1] /\ m # 0
          BY <1>1
        <5> HIDE DEF g
        <5> QED
          BY <4>1, <5>1
      <4>2. CASE k # m
        <5>1. k \in 0 .. (m - 1) /\ g[k] = f[k] /\ (k # 0 => g[k - 1] = f[k - 1])
          BY <4>2, <1>1
        <5> HIDE DEF g
        <5> QED
          BY <5>1, <3>1
      <4> QED
        BY <4>1, <4>2
    <3>3. Is(g, m)
      <4>1. g = [k \in 0 .. m |-> g[k]]
        OBVIOUS
      <4> HIDE DEF g
      <4> QED
        BY <3>2, <4>1
    <3> HIDE DEF g
    <3> QED
      BY <3>3, <1>1
  <2> HIDE DEF G
  <2>3. n \in G
    BY <1>1, <2>1, <2>2, InductionUpTo
  <2> QED
    BY <2>3 DEF G
<1>6. Is(F, n)
  BY <1>5
<1> HIDE DEF F
<1>7. Inv(F[n])
  <2> DEFINE G == {m \in 0 .. n : Inv(F[m])}
  <2>1. 0 \in G
    BY <1>1, <1>4, <1>6
  <2>2. ASSUME NEW m \in 1 .. n, m - 1 \in G PROVE m \in G
    <3>1. F[m] = Step(F[m - 1], m) /\ Inv(F[m - 1])
      BY <2>2, <1>6, <1>1
    <3> QED
      BY <3>1, <1>3, <1>1
  <2> HIDE DEF G
  <2>3. n \in G
    BY <1>1, <2>1, <2>2, InductionUpTo
  <2> QED
    BY <2>3 DEF G
<1> QED
  BY <1>2, <1>7 DEF Inv

(* The lines at some places are lines at some of these places.             *)
LEMMA LinesAtAre ==
  ASSUME NEW lines, NEW places, IsSeq(lines)
  PROVE  /\ IsSeq(LinesAt(lines, places))
         /\ \A i \in 1 .. Len(LinesAt(lines, places)) :
              \E k \in places \cap (1 .. Len(lines)) : LinesAt(lines, places)[i] = lines[k]
         /\ ToSet(LinesAt(lines, places)) \subseteq ToSet(lines)
<1> DEFINE all == [k \in DOMAIN lines |-> k]
           numbers == Those(all, places)
           at == [n \in DOMAIN numbers |-> lines[numbers[n]]]
<1>1. LinesAt(lines, places) = at
  BY DEF LinesAt
<1>2. IsSeq(all) /\ DOMAIN all = DOMAIN lines
  <2>1. all = [k \in DOMAIN lines |-> all[k]]
    OBVIOUS
  <2> HIDE DEF all
  <2> QED
    BY <2>1, SeqMapped
<1>3. ToSet(all) \subseteq DOMAIN lines
  BY DEF ToSet
<1> HIDE DEF all
<1>4. IsSeq(numbers) /\ ToSet(numbers) \subseteq places \cap DOMAIN lines
  BY <1>2, <1>3, ThoseAre
<1> HIDE DEF numbers
<1>5. IsSeq(at) /\ Len(at) = Len(numbers)
  <2>1. at = [n \in DOMAIN numbers |-> at[n]]
    OBVIOUS
  <2> HIDE DEF at
  <2> QED
    BY <1>4, <2>1, SeqMapped
<1>6. DOMAIN lines = 1 .. Len(lines) /\ DOMAIN numbers = 1 .. Len(numbers)
  BY <1>4, SeqLen
<1>7. ASSUME NEW i \in 1 .. Len(at)
      PROVE  \E k \in places \cap (1 .. Len(lines)) : at[i] = lines[k]
  <2>1. i \in DOMAIN numbers /\ at[i] = lines[numbers[i]]
    BY <1>5, <1>6
  <2>2. numbers[i] \in places \cap DOMAIN lines
    BY <1>4, <2>1 DEF ToSet
  <2> QED
    BY <2>1, <2>2, <1>6
<1>8. ToSet(at) \subseteq ToSet(lines)
  <2>1. ASSUME NEW x \in ToSet(at) PROVE x \in ToSet(lines)
    <3>1. PICK i \in 1 .. Len(at) : at[i] = x
      BY <1>5, SeqElems
    <3> HIDE DEF at
    <3> QED
      BY <3>1, <1>7, SeqElems
  <2> QED
    BY <2>1
<1> HIDE DEF at
<1> QED
  BY <1>1, <1>5, <1>7, <1>8

(* A part of a sequence is one, of the elements of the whole.              *)
LEMMA PartOfSeq ==
  ASSUME NEW s, IsSeq(s), NEW a \in Nat, NEW b \in Nat, 1 <= a, a <= b, b <= Len(s)
  PROVE  /\ IsSeq(SubSeq(s, a, b)) /\ ToSet(SubSeq(s, a, b)) \subseteq ToSet(s)
         /\ Last(SubSeq(s, a, b)) \in ToSet(s)
<1> DEFINE S == ToSet(s)
           t == SubSeq(s, a, b)
<1>1. s \in Seq(S)
  BY DEF IsSeq
<1> HIDE DEF S
<1>2. t \in Seq(S) /\ Len(t) = b - a + 1
  BY <1>1
<1> HIDE DEF t
<1>3. IsSeq(t) /\ \A i \in 1 .. Len(t) : t[i] \in S
  BY <1>2, SeqIs
<1>4. ToSet(t) \subseteq S
  BY <1>3, SeqElems
<1>5. Last(t) = t[Len(t)] /\ Len(t) \in 1 .. Len(t)
  BY <1>2 DEF Last
<1> QED
  BY <1>3, <1>4, <1>5 DEF t, S

(* Of a length cut in blocks, every block has at least one place.          *)
LEMMA BlockBegins ==
  ASSUME NEW n \in Nat, NEW size \in Nat \ {0}, NEW b \in 1 .. ((n + size - 1) \div size)
  PROVE  /\ (b - 1) * size + 1 \in Nat /\ b * size \in Nat
         /\ 1 <= (b - 1) * size + 1
         /\ (b - 1) * size + 1 <= n /\ (b - 1) * size + 1 <= b * size
<1> DEFINE q == (n + size - 1) \div size
<1>1. q \in Int /\ q * size <= n + size - 1
  OBVIOUS
<1> HIDE DEF q
<1>2. b \in Int /\ 1 <= b /\ b <= q
  BY <1>1 DEF q
<1>3. b * size <= q * size /\ (b - 1) * size = b * size - size /\ (b - 1) * size >= 0
  <2>1. (q - b) * size >= 0 /\ (b - 1) * size >= 0
    BY <1>1, <1>2
  <2>2. (q - b) * size = q * size - b * size /\ (b - 1) * size = b * size - size
    BY <1>1, <1>2
  <2>3. q * size \in Int /\ b * size \in Int
    BY <1>1, <1>2
  <2> QED
    BY <2>1, <2>2, <2>3
<1>4. b * size \in Int /\ q * size \in Int
  BY <1>1, <1>2
<1> QED
  BY <1>1, <1>3, <1>4

(* The least of two numbers is one of them and not above the other.        *)
LEMMA LeastOfTwo ==
  ASSUME NEW a \in Nat, NEW b \in Nat
  PROVE  /\ Min({a, b}) \in {a, b} /\ Min({a, b}) \in Nat
         /\ Min({a, b}) <= a /\ Min({a, b}) <= b
<1>1. Min({a, b}) \in {a, b} /\ \A y \in {a, b} : Min({a, b}) <= y
  BY MinIsLeast
<1> QED
  BY <1>1

(* What is read of a log in blocks is lines of it.                         *)
LEMMA BlocksRead ==
  ASSUME NEW log, NEW start, NEW in, IsSeq(log.file)
  PROVE  /\ IsSeq(read_line_block(log, start, in))
         /\ ToSet(read_line_block(log, start, in)) \subseteq ToSet(log.file)
<1> DEFINE from == set_file_stream(log, start)
           rest == LinesAt(log.file, from .. Len(log.file))
           block(b) == SubSeq(rest, (b - 1) * BLOCK + 1, Min({b * BLOCK, Len(rest)}))
           words(b) == UNION {ToSet(block(b)[k].has) : k \in DOMAIN block(b)}
           n == (Len(rest) + BLOCK - 1) \div BLOCK
           Step(acc, b) ==
             IF in.read_all_lines \/ Has(words(b), ToSet(in.strs), in.is_and)
             THEN [lines |-> acc.lines \o block(b), skipped |-> 0]
             ELSE IF (acc.skipped + 1) % NTH_BLOCK = 0
                  THEN [lines |-> Append(acc.lines, Last(block(b))), skipped |-> 0]
                  ELSE [acc EXCEPT !.skipped = @ + 1]
           base == [lines |-> <<>>, skipped |-> 0]
           Is(f, m) == f = [k \in 0 .. m |-> IF k = 0 THEN base ELSE Step(f[k - 1], k)]
           F == CHOOSE f : Is(f, n)
           Inv(a) == /\ a = [lines |-> a.lines, skipped |-> a.skipped]
                     /\ IsSeq(a.lines) /\ ToSet(a.lines) \subseteq ToSet(log.file)
<1>r. IsSeq(rest) /\ ToSet(rest) \subseteq ToSet(log.file)
  <2> HIDE DEF from
  <2> QED
    BY LinesAtAre
<1>2. read_line_block(log, start, in) = F[n].lines
  BY DEF read_line_block
<1> HIDE DEF rest
<1>1. n \in Nat
  <2>1. Len(rest) \in Nat /\ BLOCK \in Nat \ {0}
    BY <1>r, SeqLen, LogFileAssumption
  <2> QED
    BY <2>1
<1>3. ASSUME NEW b \in 1 .. n, NEW acc, Inv(acc) PROVE Inv(Step(acc, b))
  <2> DEFINE w == in.read_all_lines \/ Has(words(b), ToSet(in.strs), in.is_and)
  <2>1. /\ IsSeq(block(b)) /\ ToSet(block(b)) \subseteq ToSet(rest)
        /\ Last(block(b)) \in ToSet(rest)
    <3> DEFINE x == (b - 1) * BLOCK + 1  y == b * BLOCK  z == Min({y, Len(rest)})
    <3>1. Len(rest) \in Nat /\ BLOCK \in Nat \ {0}
      BY <1>r, SeqLen, LogFileAssumption
    <3>2. x \in Nat /\ y \in Nat /\ 1 <= x /\ x <= Len(rest) /\ x <= y
      BY <3>1, BlockBegins
    <3> HIDE DEF x, y
    <3>3. z \in Nat /\ x <= z /\ z <= Len(rest)
      BY <3>1, <3>2, LeastOfTwo
    <3> HIDE DEF z
    <3>4. /\ IsSeq(SubSeq(rest, x, z)) /\ ToSet(SubSeq(rest, x, z)) \subseteq ToSet(rest)
          /\ Last(SubSeq(rest, x, z)) \in ToSet(rest)
      BY <1>r, <3>2, <3>3, PartOfSeq
    <3> QED
      BY <3>4 DEF x, y, z
  <2> DEFINE B == block(b)
             l == Last(B)
  <2>2. Step(acc, b) = IF w THEN [lines |-> acc.lines \o B, skipped |-> 0]
                       ELSE IF (acc.skipped + 1) % NTH_BLOCK = 0
                            THEN [lines |-> Append(acc.lines, l), skipped |-> 0]
                            ELSE [acc EXCEPT !.skipped = @ + 1]
    OBVIOUS
  <2>3. IsSeq(B) /\ ToSet(B) \subseteq ToSet(log.file) /\ l \in ToSet(log.file)
    BY <1>r, <2>1
  <2> HIDE DEF w, B, l, block, Step
  <2>4. CASE w
    <3>1. IsSeq(acc.lines \o B) /\ ToSet(acc.lines \o B) = ToSet(acc.lines) \union ToSet(B)
      BY <1>3, <2>3, SeqJoinedElems
    <3> DEFINE t == acc.lines \o B
    <3>2. Step(acc, b) = [lines |-> t, skipped |-> 0]
      BY <2>2, <2>4
    <3> HIDE DEF t
    <3>3. ToSet(t) \subseteq ToSet(log.file)
      BY <1>3, <2>3, <3>1 DEF t
    <3> QED
      BY <3>1, <3>2, <3>3 DEF t
  <2>5. CASE ~w /\ (acc.skipped + 1) % NTH_BLOCK = 0
    <3> DEFINE t == Append(acc.lines, l)
    <3>1. IsSeq(t) /\ Len(t) = Len(acc.lines) + 1 /\ t[Len(acc.lines) + 1] = l
          /\ \A i \in 1 .. Len(acc.lines) : t[i] = acc.lines[i]
      BY <1>3, SeqAppended
    <3>2. Step(acc, b) = [lines |-> t, skipped |-> 0]
      BY <2>2, <2>5
    <3> HIDE DEF t
    <3>3. \A i \in 1 .. Len(t) : t[i] \in ToSet(log.file)
      <4>1. \A i \in 1 .. Len(acc.lines) : acc.lines[i] \in ToSet(log.file)
        BY <1>3, SeqElems
      <4>2. Len(acc.lines) \in Nat
        BY <1>3, SeqLen
      <4> QED
        BY <3>1, <4>1, <4>2, <2>3
    <3>4. ToSet(t) \subseteq ToSet(log.file)
      BY <3>1, <3>3, SeqElems
    <3> QED
      BY <3>1, <3>2, <3>4
  <2>6. CASE ~w /\ ~((acc.skipped + 1) % NTH_BLOCK = 0)
    <3>1. Step(acc, b) = [acc EXCEPT !.skipped = @ + 1]
      BY <2>2, <2>6
    <3>2. Step(acc, b) = [lines |-> acc.lines, skipped |-> acc.skipped + 1]
      BY <3>1, <1>3
    <3> QED
      BY <3>2, <1>3
  <2> QED
    BY <2>4, <2>5, <2>6
<1>4. Inv(base)
  BY SeqOneElems
<1> HIDE DEF Step, Inv, n, base
<1>5. \E f : Is(f, n)
  <2> DEFINE G == {m \in 0 .. n : \E f : Is(f, m)}
  <2>1. 0 \in G
    <3> DEFINE h == [k \in 0 .. 0 |-> base]
    <3>1. \A k \in 0 .. 0 : k = 0 /\ h[k] = base
      OBVIOUS
    <3>2. h = [k \in 0 .. 0 |-> h[k]]
      OBVIOUS
    <3> HIDE DEF h
    <3>3. Is(h, 0)
      BY <3>1, <3>2
    <3> QED
      BY <3>3, <1>1
  <2>2. ASSUME NEW m \in 1 .. n, m - 1 \in G PROVE m \in G
    <3>1. PICK f : Is(f, m - 1)
      BY <2>2
    <3> DEFINE g == [k \in 0 .. m |-> IF k = m THEN Step(f[m - 1], m) ELSE f[k]]
    <3>2. ASSUME NEW k \in 0 .. m PROVE g[k] = IF k = 0 THEN base ELSE Step(g[k - 1], k)
      <4>1. CASE k = m
        <5>1. g[m] = Step(f[m - 1], m) /\ g[m - 1] = f[m - 1] /\ m # 0
          BY <1>1
        <5> HIDE DEF g
        <5> QED
          BY <4>1, <5>1
      <4>2. CASE k # m
        <5>1. k \in 0 .. (m - 1) /\ g[k] = f[k] /\ (k # 0 => g[k - 1] = f[k - 1])
          BY <4>2, <1>1
        <5> HIDE DEF g
        <5> QED
          BY <5>1, <3>1
      <4> QED
        BY <4>1, <4>2
    <3>3. Is(g, m)
      <4>1. g = [k \in 0 .. m |-> g[k]]
        OBVIOUS
      <4> HIDE DEF g
      <4> QED
        BY <3>2, <4>1
    <3> HIDE DEF g
    <3> QED
      BY <3>3, <1>1
  <2> HIDE DEF G
  <2>3. n \in G
    BY <1>1, <2>1, <2>2, InductionUpTo
  <2> QED
    BY <2>3 DEF G
<1>6. Is(F, n)
  BY <1>5
<1> HIDE DEF F
<1>7. Inv(F[n])
  <2> DEFINE G == {m \in 0 .. n : Inv(F[m])}
  <2>1. 0 \in G
    BY <1>1, <1>4, <1>6
  <2>2. ASSUME NEW m \in 1 .. n, m - 1 \in G PROVE m \in G
    <3>1. F[m] = Step(F[m - 1], m) /\ Inv(F[m - 1])
      BY <2>2, <1>6, <1>1
    <3> QED
      BY <3>1, <1>3, <1>1
  <2> HIDE DEF G
  <2>3. n \in G
    BY <1>1, <2>1, <2>2, InductionUpTo
  <2> QED
    BY <2>3 DEF G
<1> QED
  BY <1>2, <1>7 DEF Inv

(* A log that can be read to its end, and what it is searched with.        *)
Readable(file) == IsLog(file) /\ file[Len(file)].tm # NoTime
HasTimes(lines) == IsSeq(lines) /\ \A l \in ToSet(lines) : l.tm \in Nat \cup {NoTime}
SearchFits(s) == s.start \in Nat /\ s.end \in Nat /\ HasTimes(s.lines)

(* Its first and last times are numbers.                                   *)
LEMMA LogTimes ==
  ASSUME NEW file, Readable(file)
  PROVE  /\ ServerLog(file).file = file /\ HasTimes(file)
         /\ ServerLog(file).start \in Nat /\ ServerLog(file).end \in Nat
         /\ ServerLog(file).end = Last(file).tm
<1> DEFINE n == Len(file)
<1>1. HasTimes(file) /\ n \in Nat /\ 1 <= n /\ DOMAIN file = 1 .. n
  <2>1. IsSeq(file) /\ file # <<>> /\ \A l \in ToSet(file) : l.tm \in Nat \cup {NoTime}
    BY DEF Readable, IsLog, IsSeq
  <2>2. n \in Nat /\ DOMAIN file = 1 .. n /\ n # 0
    BY <2>1, SeqLen, SeqOne, SeqAlike
  <2> QED
    BY <2>1, <2>2 DEF HasTimes
<1>2. \A k \in 1 .. n : file[k].tm \in Nat \cup {NoTime}
  BY <1>1, SeqElems DEF HasTimes
<1>3. ASSUME NEW pos \in 1 .. n
      PROVE  read_line(file, pos) \in pos .. n /\ file[read_line(file, pos)].tm \in Nat
  <2> DEFINE T == {k \in pos .. n : Timed(file, k)}
  <2>1. n \in T /\ T \subseteq Nat
    BY <1>1 DEF Readable, Timed
  <2>2. Min(T) \in T
    BY <2>1, MinIsLeast
  <2>3. read_line(file, pos) = Min(T)
    BY DEF read_line
  <2> QED
    BY <1>1, <1>2, <2>2, <2>3 DEF Timed
<1>4. read_line(file, n) = n
  <2>1. n \in 1 .. n
    BY <1>1
  <2> QED
    BY <1>1, <1>3, <2>1
<1>5. 1 \in 1 .. n /\ n \in 1 .. n
  BY <1>1
<1>6. ServerLog(file) = [file |-> file, indices |-> ServerLog(file).indices,
                         start |-> file[read_line(file, 1)].tm,
                         end |-> file[read_line(file, n)].tm]
  BY DEF ServerLog
<1> HIDE DEF n
<1> QED
  BY <1>1, <1>3, <1>4, <1>5, <1>6 DEF Last, n

(* So are the start and the end of a search, and it reads lines of the log. *)
LEMMA InputFits ==
  ASSUME NEW file, Readable(file), NEW start \in Nat, NEW in, in.duration \in Nat
  PROVE  SearchFits(set_input(ServerLog(file), start, in))
<1> DEFINE log == ServerLog(file)
           s == set_input(log, start, in)
<1>1. log.file = file /\ HasTimes(file) /\ log.end \in Nat
  BY LogTimes
<1> HIDE DEF log
<1>2. s.lines = read_line_block(log, start, in) /\ s.start = process_start_tm(log, start)
      /\ s.end = process_end_tm(log, start, in.duration)
  BY DEF set_input
<1> HIDE DEF s
<1>3. MARGIN \in Nat
  BY LogFileAssumption
<1>4. s.start \in Nat /\ s.end \in Nat
  BY <1>1, <1>2, <1>3 DEF process_start_tm, process_end_tm
<1>5. IsSeq(s.lines) /\ ToSet(s.lines) \subseteq ToSet(file)
  BY <1>1, <1>2, BlocksRead DEF HasTimes
<1>6. SearchFits(s)
  BY <1>1, <1>4, <1>5 DEF SearchFits, HasTimes
<1> QED
  BY <1>6 DEF s, log

(* The lines a search asks for have times.                                 *)
LEMMA AskedTimes ==
  ASSUME NEW s, SearchFits(s)
  PROVE  IsSeq(Lines(s)) /\ \A l \in ToSet(Lines(s)) : l.tm \in Nat
<1> DEFINE found == next_line(s, 1, s.start, s.end)
           asked == LinesAt(s.lines, found)
<1>1. IsSeq(s.lines) /\ \A l \in ToSet(s.lines) : l.tm \in Nat \cup {NoTime}
  BY DEF SearchFits, HasTimes
<1>2. /\ IsSeq(asked)
      /\ \A i \in 1 .. Len(asked) : \E k \in found \cap (1 .. Len(s.lines)) : asked[i] = s.lines[k]
  <2> HIDE DEF found
  <2> QED
    BY <1>1, LinesAtAre
<1>3. \A k \in found : s.lines[k].tm # NoTime
  BY DEF next_line, Timed
<1>4. \A k \in 1 .. Len(s.lines) : s.lines[k].tm \in Nat \cup {NoTime}
  BY <1>1, SeqElems
<1> HIDE DEF found, asked
<1>5. \A i \in 1 .. Len(asked) : asked[i].tm \in Nat
  BY <1>2, <1>3, <1>4
<1>6. \A l \in ToSet(asked) : l.tm \in Nat
  BY <1>2, <1>5, SeqElems
<1>7. Lines(s) = <<>> \/ Lines(s) = asked
  BY DEF Lines, Asked, asked, found
<1> QED
  BY <1>2, <1>6, <1>7, SeqOneElems

-----------------------------------------------------------------------------
(* The rows of a count or a diff.                                          *)

(* The rows of slices: later and later, of some columns, with a cell of    *)
(* their time in each.                                                     *)
SliceRows(rows, C) ==
  /\ IsSeq(rows)
  /\ \A i \in 1 .. Len(rows) :
       /\ rows[i].tm \in Nat /\ \A j \in 1 .. i - 1 : rows[j].tm < rows[i].tm
       /\ DOMAIN rows[i].cells = C
       /\ \A c \in C : DOMAIN rows[i].cells[c] = {rows[i].tm}
RowsBefore(rows, tm) == \A i \in 1 .. Len(rows) : rows[i].tm < tm

(* The rows of a log: those of slices, and then the totals.  Only a count  *)
(* can fail before it has some, and only a difference shows a slice again. *)
TotalTimes(c) == IF c = "diff" THEN {} ELSE {END}
Plain(rows) == \A i \in DOMAIN rows : rows[i].tm = END => ~Repeats(rows[i])
StreamFits(rows, C) ==
  /\ IsSeq(rows) /\ RowsFollow(rows)
  /\ IF C = {"count"} THEN Plain(rows) ELSE rows = <<>> \/ HasTotals(rows)
  /\ \A i \in 1 .. Len(rows) :
       /\ DOMAIN rows[i].cells = C
       /\ rows[i].tm = END => \A c \in C : DOMAIN rows[i].cells[c] \ Nat = TotalTimes(c)

(* A row is its time and its cells.                                        *)
LEMMA RowIs ==
  ASSUME NEW tm, NEW cells
  PROVE  Row(tm, cells).tm = tm /\ Row(tm, cells).cells = cells
  BY DEF Row

(* There may be no totals.                                                 *)
LEMMA SlicesFit ==
  ASSUME NEW rows, NEW C, SliceRows(rows, C), C = {"count"} \/ rows = <<>>
  PROVE  StreamFits(rows, C)
<1>1. IsSeq(rows) /\ DOMAIN rows = 1 .. Len(rows) /\ END \notin Nat
  BY SeqLen DEF SliceRows, END
<1>2. \A i \in 1 .. Len(rows) : rows[i].tm # END
  BY <1>1 DEF SliceRows
<1>3. RowsFollow(rows) /\ Plain(rows)
  BY <1>1, <1>2 DEF SliceRows, RowsFollow, Plain
<1> QED
  BY <1>1, <1>2, <1>3 DEF SliceRows, StreamFits

(* Or they are the last row, and show the last slice again or none.        *)
LEMMA TotalsFit ==
  ASSUME NEW rows, NEW C, SliceRows(rows, C), NEW cells,
         DOMAIN cells = C, \A c \in C : DOMAIN cells[c] \ Nat = TotalTimes(c),
         \/ ~Repeats(Row(END, cells))
         \/ C # {"count"} /\ Len(rows) # 0 /\ Again(Row(END, cells), rows[Len(rows)])
  PROVE  StreamFits(Append(rows, Row(END, cells)), C)
<1> DEFINE all == Append(rows, Row(END, cells))
           n == Len(rows) + 1
<1>1. /\ IsSeq(all) /\ Len(all) = n /\ all[n] = Row(END, cells)
      /\ \A i \in 1 .. Len(rows) : all[i] = rows[i]
      /\ DOMAIN all = 1 .. n
  BY SeqAppended, SeqLen DEF SliceRows
<1>2. Len(rows) \in Nat
  BY SeqLen DEF SliceRows
<1>3. all[n].tm = END /\ all[n].cells = cells /\ END \notin Nat
  BY <1>1, RowIs DEF END
<1>5. \/ ~Repeats(all[n])
      \/ C # {"count"} /\ n > 1 /\ Again(all[n], all[n - 1])
  <2>1. CASE ~Repeats(Row(END, cells))
    BY <1>1, <2>1
  <2>2. CASE C # {"count"} /\ Len(rows) # 0 /\ Again(Row(END, cells), rows[Len(rows)])
    <3>1. Len(rows) \in 1 .. Len(rows) /\ n - 1 = Len(rows) /\ n > 1
      BY <1>2, <2>2
    <3>2. all[n - 1] = rows[Len(rows)]
      BY <1>1, <3>1
    <3> QED
      BY <1>1, <2>2, <3>1, <3>2
  <2> QED
    BY <2>1, <2>2
<1> HIDE DEF all
<1>4. ASSUME NEW i \in 1 .. n
      PROVE  /\ DOMAIN all[i].cells = C
             /\ all[i].tm = END => i = n /\ \A c \in C : DOMAIN all[i].cells[c] \ Nat = TotalTimes(c)
             /\ all[i].tm # END =>
                  /\ all[i].tm \in Nat /\ \A j \in 1 .. i - 1 : all[j].tm < all[i].tm
                  /\ \A c \in C : DOMAIN all[i].cells[c] = {all[i].tm}
  <2>1. CASE i = n
    BY <1>3, <2>1
  <2>2. CASE i \in 1 .. Len(rows)
    <3>1. all[i] = rows[i] /\ \A j \in 1 .. i - 1 : all[j] = rows[j]
      BY <1>1, <1>2, <2>2
    <3> QED
      BY <1>3, <2>2, <3>1 DEF SliceRows
  <2> QED
    BY <1>2, <2>1, <2>2
<1>6. n \in 1 .. n
  BY <1>2
<1>7. all # <<>>
  <2>1. IsSeq(<<>>) /\ Len(<<>>) = 0
    BY SeqOneElems
  <2> QED
    BY <1>1, <1>2, <2>1
<1> HIDE DEF n
<1>8. RowsFollow(all)
  <2> SUFFICES ASSUME NEW i \in DOMAIN all
               PROVE  IF all[i].tm = END
                      THEN i = Len(all) /\ (~Repeats(all[i]) \/ (i > 1 /\ Again(all[i], all[i - 1])))
                      ELSE /\ \A c \in DOMAIN all[i].cells : DOMAIN all[i].cells[c] = {all[i].tm}
                           /\ all[i].tm \in Nat /\ \A j \in 1 .. i - 1 : all[j].tm < all[i].tm
    BY DEF RowsFollow
  <2>1. CASE all[i].tm = END
    <3>1. i = n /\ i = Len(all)
      BY <1>1, <1>4, <2>1
    <3> QED
      BY <1>5, <2>1, <3>1
  <2>2. CASE all[i].tm # END
    BY <1>1, <1>4, <2>2
  <2> QED
    BY <2>1, <2>2
<1>9. IF C = {"count"} THEN Plain(all) ELSE HasTotals(all)
  BY <1>1, <1>3, <1>4, <1>5, <1>7 DEF Plain, HasTotals
<1> QED
  BY <1>1, <1>4, <1>8, <1>9 DEF StreamFits, all

(* A slice more.                                                           *)
LEMMA SliceAdded ==
  ASSUME NEW rows, NEW C, SliceRows(rows, C), NEW tm \in Nat, RowsBefore(rows, tm), NEW cells,
         DOMAIN cells = C, \A c \in C : DOMAIN cells[c] = {tm}
  PROVE  /\ SliceRows(Append(rows, Row(tm, cells)), C)
         /\ \A later \in Nat : tm < later => RowsBefore(Append(rows, Row(tm, cells)), later)
<1> DEFINE all == Append(rows, Row(tm, cells))
           n == Len(rows) + 1
<1>1. /\ IsSeq(all) /\ Len(all) = n /\ all[n] = Row(tm, cells)
      /\ \A i \in 1 .. Len(rows) : all[i] = rows[i]
  BY SeqAppended DEF SliceRows
<1>2. Len(rows) \in Nat
  BY SeqLen DEF SliceRows
<1>3. all[n].tm = tm /\ all[n].cells = cells
  BY <1>1, RowIs
<1> HIDE DEF all
<1>4. ASSUME NEW i \in 1 .. n
      PROVE  /\ all[i].tm \in Nat /\ all[i].tm <= tm
             /\ \A j \in 1 .. i - 1 : all[j].tm < all[i].tm
             /\ DOMAIN all[i].cells = C
             /\ \A c \in C : DOMAIN all[i].cells[c] = {all[i].tm}
  <2>1. CASE i = n
    <3>1. \A j \in 1 .. i - 1 : all[j] = rows[j] /\ rows[j].tm < tm
      BY <1>1, <1>2, <2>1 DEF RowsBefore
    <3> QED
      BY <1>3, <2>1, <3>1
  <2>2. CASE i \in 1 .. Len(rows)
    <3>1. all[i] = rows[i] /\ \A j \in 1 .. i - 1 : all[j] = rows[j]
      BY <1>1, <1>2, <2>2
    <3>2. rows[i].tm \in Nat /\ rows[i].tm < tm
      BY <2>2 DEF SliceRows, RowsBefore
    <3> QED
      BY <2>2, <3>1, <3>2 DEF SliceRows
  <2> QED
    BY <1>2, <2>1, <2>2
<1>5. SliceRows(all, C)
  BY <1>1, <1>4 DEF SliceRows
<1>6. \A later \in Nat : tm < later => RowsBefore(all, later)
  BY <1>1, <1>4 DEF RowsBefore
<1> QED
  BY <1>5, <1>6 DEF all

(* The slices of a count begin at later and later times.                   *)
LEMMA SliceBegins ==
  ASSUME NEW from \in Nat, NEW slice \in Nat \ {0}, NEW i \in Nat \ {0}
  PROVE  /\ from + (i - 1) * slice \in Nat
         /\ \A j \in 1 .. i - 1 : from + (j - 1) * slice < from + (i - 1) * slice
<1>1. i - 1 \in Nat /\ slice \in Nat
  OBVIOUS
<1>2. (i - 1) * slice \in Nat
  BY <1>1
<1>3. ASSUME NEW j \in 1 .. i - 1
      PROVE  (j - 1) * slice < (i - 1) * slice
  <2>1. (i - 1) * slice = (j - 1) * slice + (i - j) * slice
    OBVIOUS
  <2>2. i - j \in Nat \ {0}
    OBVIOUS
  <2>3. (i - j) * slice > 0
    BY <2>2
  <2>4. (j - 1) * slice \in Int /\ (i - j) * slice \in Int
    OBVIOUS
  <2> QED
    BY <2>1, <2>3, <2>4
<1>4. \A j \in 1 .. i - 1 : (j - 1) * slice \in Int
  OBVIOUS
<1> QED
  BY <1>2, <1>3, <1>4

(* What count yields are slices and their total.                           *)
LEMMA CountFits ==
  ASSUME NEW s, SearchFits(s), NEW slice \in Nat \ {0}
  PROVE  StreamFits(count(s, slice), {"count"})
<1> DEFINE slices == IF s.start >= s.end THEN 0 ELSE (s.end - s.start + slice - 1) \div slice
           start(n) == s.start + (n - 1) * slice
           end(n) == Min({start(n) + slice, s.end})
           found(n) == next_line(s, IF n = 1 THEN 1 ELSE Beyond(s, 1, end(n - 1)), start(n), end(n))
           hits == {n \in 1 .. slices : found(n) # {}}
           rows(last) == [n \in 1 .. last |->
                            Row(start(n), [count |-> AtTime(start(n), Cardinality(found(n)))])]
           total == Cardinality(UNION {found(n) : n \in hits})
           totals == [count |-> AtTime(END, total)]
<1>1. count(s, slice) = IF Fails(s) /\ hits # {} THEN rows(Min(hits) - 1)
                        ELSE Append(rows(slices), Row(END, totals))
  BY DEF count
<1>2. slices \in Nat
  BY DEF SearchFits
<1>3. s.start \in Nat
  BY DEF SearchFits
<1> HIDE DEF slices, found, total
<1>4. ASSUME NEW last \in Nat PROVE SliceRows(rows(last), {"count"})
  <2> DEFINE r == rows(last)
  <2>1. DOMAIN r = 1 .. last /\ r = [n \in 1 .. last |-> r[n]]
    OBVIOUS
  <2>2. \A n \in 1 .. last : r[n] = Row(start(n), [count |-> AtTime(start(n), Cardinality(found(n)))])
    OBVIOUS
  <2> HIDE DEF r
  <2>3. IsSeq(r) /\ Len(r) = last
    BY <2>1, SeqMade
  <2>4. ASSUME NEW n \in 1 .. last
        PROVE  /\ r[n].tm = start(n)
               /\ DOMAIN r[n].cells = {"count"} /\ DOMAIN r[n].cells["count"] = {start(n)}
    <3> DEFINE cells == [count |-> AtTime(start(n), Cardinality(found(n)))]
    <3>1. r[n].tm = start(n) /\ r[n].cells = cells
      BY <2>2, RowIs
    <3> HIDE DEF start
    <3>2. DOMAIN cells = {"count"} /\ DOMAIN cells["count"] = {start(n)}
      BY DEF AtTime
    <3> QED
      BY <3>1, <3>2
  <2>5. ASSUME NEW n \in 1 .. last
        PROVE  start(n) \in Nat /\ \A j \in 1 .. n - 1 : start(j) < start(n)
    BY <1>3, SliceBegins
  <2> HIDE DEF start
  <2>6. SliceRows(r, {"count"})
    BY <2>3, <2>4, <2>5 DEF SliceRows
  <2> QED
    BY <2>6 DEF r
<1> HIDE DEF start, rows
<1>5. CASE Fails(s) /\ hits # {}
  <2>1. Min(hits) \in hits
    BY <1>2, <1>5, MinIsLeast
  <2>2. Min(hits) - 1 \in Nat
    BY <1>2, <2>1
  <2> HIDE DEF hits
  <2>3. SliceRows(rows(Min(hits) - 1), {"count"})
    BY <1>4, <2>2
  <2> QED
    BY <1>1, <1>5, <2>3, SlicesFit
<1>6. CASE ~(Fails(s) /\ hits # {})
  <2>1. /\ DOMAIN totals = {"count"} /\ END \notin Nat
        /\ \A c \in {"count"} : DOMAIN totals[c] = {END} /\ TotalTimes(c) = {END}
    BY DEF AtTime, TotalTimes, END
  <2> HIDE DEF totals, hits
  <2>3. \A c \in {"count"} : DOMAIN totals[c] \ Nat = TotalTimes(c)
    BY <2>1
  <2>4. ~Repeats(Row(END, totals))
    BY <2>1, RowIs DEF Repeats
  <2>2. SliceRows(rows(slices), {"count"})
    BY <1>2, <1>4
  <2> QED
    BY <1>1, <1>6, <2>1, <2>2, <2>3, <2>4, TotalsFit
<1> QED
  BY <1>5, <1>6

(* The differences of a log.                                               *)

IsDiff(d) ==
  d = [start |-> d.start, end |-> d.end, count |-> d.count, shape |-> d.shape,
       writer |-> d.writer, mixed |-> d.mixed, prev |-> d.prev, rows |-> d.rows,
       over |-> d.over, val |-> d.val]

(* The slice under way has not been shown, unless there is none left.      *)
DiffInv(d, s, slice) ==
  /\ IsDiff(d)
  /\ d.start \in Nat /\ d.end \in {d.start + slice, s.end}
  /\ SliceRows(d.rows, {"value", "diff"})
  /\ RowsBefore(d.rows, d.start) \/ (d.over /\ d.val = <<>>)

(* A slice that is shown is shown at its start.                            *)
LEMMA EmitFits ==
  ASSUME NEW s, NEW slice, NEW d, DiffInv(d, s, slice)
  PROVE  /\ Emit(d, s) = [d EXCEPT !.rows = Emit(d, s).rows]
         /\ SliceRows(Emit(d, s).rows, {"value", "diff"})
         /\ ~d.over => \A later \in Nat : d.start < later => RowsBefore(Emit(d, s).rows, later)
<1> DEFINE diff_ == _get_value_and_diff(d.prev, d.val, s.in.limit)
           cells == [value |-> AtTime(d.start, d.val), diff |-> AtTime(d.start, diff_)]
           rows == Append(d.rows, Row(d.start, cells))
           shown == Shown(d, s) /\ d.val # <<>> /\ diff_ # <<>>
<1>1. Emit(d, s) = IF shown THEN [d EXCEPT !.rows = rows] ELSE d
  BY DEF Emit
<1>2. /\ IsDiff(d) /\ d.start \in Nat /\ SliceRows(d.rows, {"value", "diff"})
      /\ RowsBefore(d.rows, d.start) \/ (d.over /\ d.val = <<>>)
  BY DEF DiffInv
<1>3. /\ DOMAIN cells = {"value", "diff"}
      /\ \A c \in {"value", "diff"} : DOMAIN cells[c] = {d.start}
  BY DEF AtTime
<1>4. CASE shown
  <2>1. RowsBefore(d.rows, d.start)
    BY <1>2, <1>4
  <2> HIDE DEF cells
  <2>2. SliceRows(rows, {"value", "diff"})
        /\ \A later \in Nat : d.start < later => RowsBefore(rows, later)
    BY <1>2, <1>3, <2>1, SliceAdded
  <2> HIDE DEF rows
  <2>3. Emit(d, s) = [d EXCEPT !.rows = rows]
    BY <1>1, <1>4
  <2>4. Emit(d, s).rows = rows
    BY <1>2, <2>3 DEF IsDiff
  <2> QED
    BY <2>2, <2>3, <2>4
<1>5. CASE ~shown
  <2>1. Emit(d, s) = d
    BY <1>1, <1>5
  <2>2. d = [d EXCEPT !.rows = d.rows]
    BY <1>2 DEF IsDiff
  <2>3. ASSUME ~d.over, NEW later \in Nat, d.start < later PROVE RowsBefore(d.rows, later)
    <3>1. RowsBefore(d.rows, d.start)
      BY <1>2, <2>3
    <3>2. \A i \in 1 .. Len(d.rows) : d.rows[i].tm \in Nat
      BY <1>2 DEF SliceRows
    <3> QED
      BY <1>2, <2>3, <3>1, <3>2 DEF RowsBefore
  <2> QED
    BY <1>2, <2>1, <2>2, <2>3
<1> QED
  BY <1>4, <1>5

(* The next slice begins at the end of this one, or some slices later.     *)
LEMMA NextBegins ==
  ASSUME NEW d, NEW slice \in Nat \ {0}, NEW tm \in Nat, d.start \in Nat,
         d.end = d.start + slice, d.end <= tm
  PROVE  LET next == _get_next_slice_start_and_end_tm(d, slice, tm)
         IN  next.start \in Nat /\ d.start < next.start /\ next.end = next.start + slice
<1> DEFINE next == _get_next_slice_start_and_end_tm(d, slice, tm)
           jump == (tm - d.start) \div slice
           start == IF tm < d.end + slice THEN d.end ELSE d.start + slice * jump
<1>1. next.start = start /\ next.end = start + slice
  BY DEF _get_next_slice_start_and_end_tm
<1>2. tm - d.start \in Nat /\ tm - d.start >= slice
  OBVIOUS
<1>3. jump \in Nat /\ jump >= 1
  BY <1>2
<1> HIDE DEF jump
<1>4. slice * jump >= slice /\ slice * jump \in Nat
  <2>1. slice * jump = slice * (jump - 1) + slice /\ jump - 1 \in Nat
    BY <1>3
  <2>2. slice * (jump - 1) \in Nat
    BY <2>1
  <2> QED
    BY <2>1, <2>2
<1>5. start \in Nat /\ d.start < start
  BY <1>4
<1> QED
  BY <1>1, <1>5

(* A line that opens the next slice closes the one before.                 *)
LEMMA NextFits ==
  ASSUME NEW s, s.end \in Nat, NEW slice \in Nat \ {0}, NEW d, DiffInv(d, s, slice), ~d.over,
         NEW tm \in Nat, d.end <= tm, tm < s.end
  PROVE  LET e == NextSlice(d, s, slice, tm) IN DiffInv(e, s, slice) /\ ~e.over
<1> DEFINE next == _get_next_slice_start_and_end_tm(d, slice, tm)
           e == NextSlice(d, s, slice, tm)
           end == Min({next.end, s.end})
           rows == Emit(d, s).rows
           count_ == (d.count + next.jump) % s.in.every
           prev == IF Shown(d, s) THEN d.val ELSE d.prev
<1>1. IsDiff(d) /\ d.start \in Nat /\ d.end = d.start + slice
  BY DEF DiffInv
<1>2. next.start \in Nat /\ d.start < next.start /\ next.end = next.start + slice
  BY <1>1, NextBegins
<1>3. end \in {next.start + slice, s.end}
  BY <1>2, LeastOfTwo
<1>4. Emit(d, s) = [d EXCEPT !.rows = rows] /\ SliceRows(rows, {"value", "diff"})
      /\ RowsBefore(rows, next.start)
  BY <1>2, EmitFits
<1>5. e = [Emit(d, s) EXCEPT !.start = next.start, !.end = end,
             !.count = (@ + next.jump) % s.in.every, !.val = <<>>,
             !.prev = IF Shown(d, s) THEN d.val ELSE @]
  BY DEF NextSlice
<1> HIDE DEF next, e, rows, end
<1>6. /\ IsDiff(e) /\ e.start = next.start /\ e.end = end /\ e.rows = rows /\ e.over = d.over
  BY <1>1, <1>4, <1>5 DEF IsDiff
<1>7. DiffInv(e, s, slice) /\ ~e.over
  BY <1>2, <1>3, <1>4, <1>6 DEF DiffInv
<1> QED
  BY <1>7 DEF e

(* A line counts in the slice that is under way.                           *)
LEMMA CountedFits ==
  ASSUME NEW s, NEW slice, NEW d, DiffInv(d, s, slice), ~d.over, NEW line
  PROVE  DiffInv(Count(d, s, line), s, slice)
<1> DEFINE e == Count(d, s, line)
           v == IF d.val = <<>> THEN line.val ELSE Plus(line.val, d.val)
           m == d.mixed \/ line.writer # d.writer
<1>1. IsDiff(d)
  BY DEF DiffInv
<1>2. e = d \/ e = [d EXCEPT !.val = v, !.mixed = m]
  BY DEF Count
<1>3. CASE e = d
  BY <1>3
<1>4. CASE e = [d EXCEPT !.val = v, !.mixed = m]
  <2> HIDE DEF e, v, m
  <2>1. /\ IsDiff(e) /\ e.start = d.start /\ e.end = d.end /\ e.rows = d.rows /\ e.over = d.over
    BY <1>1, <1>4 DEF IsDiff
  <2> QED
    BY <2>1 DEF DiffInv, e
<1> QED
  BY <1>2, <1>3, <1>4

(* So goes a line.                                                         *)
LEMMA LineFits ==
  ASSUME NEW s, s.end \in Nat, NEW slice \in Nat \ {0}, NEW d, DiffInv(d, s, slice),
         NEW line, line.tm \in Nat
  PROVE  DiffInv(diff_line(d, s, slice, line), s, slice)
<1>1. CASE d.over \/ ~contains_substrings_in_order(line, s.in.strs)
  BY <1>1 DEF diff_line
<1>2. CASE /\ ~(d.over \/ ~contains_substrings_in_order(line, s.in.strs))
           /\ line.tm >= s.end
  <2> DEFINE e == [Emit(d, s) EXCEPT !.val = <<>>, !.over = TRUE]
             rows == Emit(d, s).rows
  <2>1. diff_line(d, s, slice, line) = e
    BY <1>2 DEF diff_line
  <2>2. Emit(d, s) = [d EXCEPT !.rows = rows] /\ SliceRows(rows, {"value", "diff"})
    BY EmitFits
  <2>3. IsDiff(d) /\ d.start \in Nat /\ d.end \in {d.start + slice, s.end}
    BY DEF DiffInv
  <2>5. e = [Emit(d, s) EXCEPT !.val = <<>>, !.over = TRUE]
    OBVIOUS
  <2> HIDE DEF rows, e
  <2>4. /\ IsDiff(e) /\ e.start = d.start /\ e.end = d.end /\ e.rows = rows
        /\ e.over /\ e.val = <<>>
    BY <2>2, <2>3, <2>5 DEF IsDiff
  <2> QED
    BY <2>1, <2>2, <2>3, <2>4 DEF DiffInv
<1>3. CASE /\ ~(d.over \/ ~contains_substrings_in_order(line, s.in.strs))
           /\ ~(line.tm >= s.end)
  <2> DEFINE e == IF line.tm >= d.end THEN NextSlice(d, s, slice, line.tm) ELSE d
  <2>1. diff_line(d, s, slice, line) = Count(e, s, line)
    BY <1>3 DEF diff_line
  <2>2. DiffInv(e, s, slice) /\ ~e.over
    <3>1. CASE line.tm >= d.end
      <4>1. d.end \in Nat
        BY DEF DiffInv
      <4>2. d.end <= line.tm /\ line.tm < s.end
        BY <1>3, <3>1, <4>1
      <4> QED
        BY <1>3, <3>1, <4>2, NextFits
    <3>2. CASE ~(line.tm >= d.end)
      BY <1>3, <3>2
    <3> QED
      BY <3>1, <3>2
  <2> HIDE DEF e
  <2> QED
    BY <2>1, <2>2, CountedFits
<1> QED
  BY <1>1, <1>2, <1>3

(* And so do all from the first with values.                               *)
LEMMA DifferencesKeep ==
  ASSUME NEW s, s.start \in Nat, s.end \in Nat, NEW slice \in Nat \ {0}, NEW lines,
         IsSeq(lines), \A l \in ToSet(lines) : l.tm \in Nat, NEW first \in 1 .. Len(lines)
  PROVE  DiffInv(Differences(s, slice, lines, first), s, slice)
<1> DEFINE line == lines[first]
           slice1 == [start |-> s.start, end |-> s.start + slice, jump |-> 0]
           begun == IF line.tm >= slice1.end
                    THEN _get_next_slice_start_and_end_tm(slice1, slice, line.tm)
                    ELSE slice1
           base == [start |-> begun.start, end |-> Min({begun.end, s.end}), count |-> begun.jump,
                    shape |-> line.shape, writer |-> line.writer, mixed |-> FALSE,
                    prev |-> <<>>, rows |-> <<>>, over |-> FALSE,
                    val |-> IF begun.jump % s.in.every = 0 THEN line.val ELSE <<>>]
           n == Len(lines) - first
           Step(d, k) == diff_line(d, s, slice, lines[first + k])
           Is(f, m) == f = [k \in 0 .. m |-> IF k = 0 THEN base ELSE Step(f[k - 1], k)]
           F == CHOOSE f : Is(f, n)
           Inv(d) == DiffInv(d, s, slice)
<1>1. n \in Nat
  BY SeqLen
<1>2. Differences(s, slice, lines, first) = F[n]
  BY DEF Differences
<1>l. \A k \in 1 .. Len(lines) : lines[k].tm \in Nat
  BY SeqElems
<1>3. ASSUME NEW k \in 1 .. n, NEW d, Inv(d) PROVE Inv(Step(d, k))
  <2>1. first + k \in 1 .. Len(lines)
    BY <1>1, SeqLen
  <2> QED
    BY <1>3, <1>l, <2>1, LineFits
<1>4. Inv(base)
  <2>1. begun.start \in Nat /\ begun.end = begun.start + slice
    <3>1. CASE line.tm >= slice1.end
      <4>1. slice1.start \in Nat /\ slice1.end = slice1.start + slice /\ line.tm \in Nat
        BY <1>l
      <4> HIDE DEF slice1, line
      <4>2. slice1.end <= line.tm
        BY <3>1, <4>1
      <4>3. LET next == _get_next_slice_start_and_end_tm(slice1, slice, line.tm)
            IN  next.start \in Nat /\ slice1.start < next.start /\ next.end = next.start + slice
        BY <4>1, <4>2, NextBegins
      <4> QED
        BY <3>1, <4>3
    <3>2. CASE ~(line.tm >= slice1.end)
      BY <3>2
    <3> QED
      BY <3>1, <3>2
  <2> HIDE DEF begun, line
  <2>2. Min({begun.end, s.end}) \in {begun.start + slice, s.end}
    BY <2>1, LeastOfTwo
  <2>3. IsDiff(base) /\ base.start = begun.start /\ base.end = Min({begun.end, s.end})
        /\ base.rows = <<>>
    BY DEF IsDiff
  <2>4. IsSeq(<<>>) /\ Len(<<>>) = 0
    BY SeqOneElems
  <2>5. SliceRows(<<>>, {"value", "diff"}) /\ RowsBefore(<<>>, begun.start)
    BY <2>4 DEF SliceRows, RowsBefore
  <2> HIDE DEF base
  <2> QED
    BY <2>1, <2>2, <2>3, <2>5 DEF DiffInv
<1> HIDE DEF Step, Inv, n, base
<1>5. \E f : Is(f, n)
  <2> DEFINE G == {m \in 0 .. n : \E f : Is(f, m)}
  <2>1. 0 \in G
    <3> DEFINE h == [k \in 0 .. 0 |-> base]
    <3>1. \A k \in 0 .. 0 : k = 0 /\ h[k] = base
      OBVIOUS
    <3>2. h = [k \in 0 .. 0 |-> h[k]]
      OBVIOUS
    <3> HIDE DEF h
    <3>3. Is(h, 0)
      BY <3>1, <3>2
    <3> QED
      BY <3>3, <1>1
  <2>2. ASSUME NEW m \in 1 .. n, m - 1 \in G PROVE m \in G
    <3>1. PICK f : Is(f, m - 1)
      BY <2>2
    <3> DEFINE g == [k \in 0 .. m |-> IF k = m THEN Step(f[m - 1], m) ELSE f[k]]
    <3>2. ASSUME NEW k \in 0 .. m PROVE g[k] = IF k = 0 THEN base ELSE Step(g[k - 1], k)
      <4>1. CASE k = m
        <5>1. g[m] = Step(f[m - 1], m) /\ g[m - 1] = f[m - 1] /\ m # 0
          BY <1>1
        <5> HIDE DEF g
        <5> QED
          BY <4>1, <5>1
      <4>2. CASE k # m
        <5>1. k \in 0 .. (m - 1) /\ g[k] = f[k] /\ (k # 0 => g[k - 1] = f[k - 1])
          BY <4>2, <1>1
        <5> HIDE DEF g
        <5> QED
          BY <5>1, <3>1
      <4> QED
        BY <4>1, <4>2
    <3>3. Is(g, m)
      <4>1. g = [k \in 0 .. m |-> g[k]]
        OBVIOUS
      <4> HIDE DEF g
      <4> QED
        BY <3>2, <4>1
    <3> HIDE DEF g
    <3> QED
      BY <3>3, <1>1
  <2> HIDE DEF G
  <2>3. \A m \in 0 .. n : m \in G
    BY <1>1, <2>1, <2>2, InductionUpTo
  <2>4. n \in G
    BY <1>1, <2>3
  <2> QED
    BY <2>4 DEF G
<1>6. Is(F, n)
  BY <1>5
<1> HIDE DEF F
<1>7. Inv(F[n])
  <2> DEFINE G == {m \in 0 .. n : Inv(F[m])}
  <2>1. 0 \in G
    BY <1>1, <1>4, <1>6
  <2>2. ASSUME NEW m \in 1 .. n, m - 1 \in G PROVE m \in G
    <3>1. F[m] = Step(F[m - 1], m) /\ Inv(F[m - 1])
      BY <2>2, <1>6, <1>1
    <3> QED
      BY <3>1, <1>3, <1>1
  <2> HIDE DEF G
  <2>3. \A m \in 0 .. n : m \in G
    BY <1>1, <2>1, <2>2, InductionUpTo
  <2>4. n \in G
    BY <1>1, <2>3
  <2> QED
    BY <2>4 DEF G
<1> QED
  BY <1>2, <1>7 DEF Inv

(* A slice that is shown is the last row then.                             *)
LEMMA EmitAdds ==
  ASSUME NEW s, NEW slice, NEW d, DiffInv(d, s, slice), Emit(d, s) # d
  PROVE  Len(Emit(d, s).rows) \in Nat \ {0}
<1>1. IsDiff(d) /\ IsSeq(d.rows)
  BY DEF DiffInv, SliceRows
<1>2. PICK row : Emit(d, s) = [d EXCEPT !.rows = Append(@, row)]
  BY DEF Emit
<1>3. Emit(d, s).rows = Append(d.rows, row)
  BY <1>1, <1>2 DEF IsDiff
<1>4. Len(d.rows) \in Nat /\ Len(Append(d.rows, row)) = Len(d.rows) + 1
  BY <1>1, SeqLen, SeqAppended
<1> QED
  BY <1>3, <1>4

(* The flag is in the value only.                                          *)
LEMMA FlagAdded ==
  ASSUME NEW cells, NEW mixed, DOMAIN cells = {"value", "diff"}, END \notin DOMAIN cells["value"]
  PROVE  LET new == diff_end(cells, mixed)
         IN  /\ DOMAIN new = {"value", "diff"} /\ new["diff"] = cells["diff"]
             /\ DOMAIN new["value"] = DOMAIN cells["value"] \cup {END}
             /\ \A tm \in DOMAIN cells["value"] : new["value"][tm] = cells["value"][tm]
<1> DEFINE value == [x \in DOMAIN cells["value"] \cup {END} |->
                       IF x = END THEN mixed ELSE cells["value"][x]]
<1>1. diff_end(cells, mixed) = [cells EXCEPT !["value"] = value]
  BY DEF diff_end
<1>2. /\ DOMAIN value = DOMAIN cells["value"] \cup {END}
      /\ \A tm \in DOMAIN cells["value"] : value[tm] = cells["value"][tm]
  OBVIOUS
<1> HIDE DEF value
<1> QED
  BY <1>1, <1>2

(* What comes last fits to the slices before.                              *)
LEMMA EndedFits ==
  ASSUME NEW s, NEW slice, NEW d, DiffInv(d, s, slice)
  PROVE  StreamFits(Ended(d, s), {"value", "diff"})
<1> DEFINE e == Emit(d, s)
           C == {"value", "diff"}
           last == e.rows[Len(e.rows)]
           cells == IF e = d THEN NoCells ELSE last.cells
           new == diff_end(cells, d.mixed)
<1>1. Ended(d, s) = Append(e.rows, Row(END, new))
  <2> DEFINE Rows_(x) == Append(x.rows, Row(END,
                           diff_end(IF x = d THEN NoCells ELSE x.rows[Len(x.rows)].cells, d.mixed)))
  <2>1. Ended(d, s) = CHOOSE result \in {Rows_(x) : x \in {e}} : TRUE
    BY DEF Ended, Given
  <2>2. Rows_(e) = Append(e.rows, Row(END, new))
    OBVIOUS
  <2> HIDE DEF Rows_, e, new
  <2> QED
    BY <2>1, <2>2
<1>2. SliceRows(e.rows, C) /\ IsSeq(e.rows)
  BY EmitFits DEF SliceRows
<1>3. e # d => Len(e.rows) \in Nat \ {0} /\ Len(e.rows) \in 1 .. Len(e.rows)
  BY EmitAdds
<1>4. END \notin Nat /\ C # {"count"} /\ TotalTimes("value") = {END} /\ TotalTimes("diff") = {}
  <2>1. "value" \in C /\ "value" # "count"
    OBVIOUS
  <2> QED
    BY <2>1 DEF END, TotalTimes
<1> HIDE DEF e, C
<1>5. CASE e = d
  <2>1. cells = NoCells
    BY <1>5
  <2>2. DOMAIN NoCells = {"value", "diff"} /\ NoCells["value"] = <<>> /\ NoCells["diff"] = <<>>
    BY DEF NoCells
  <2>3. DOMAIN <<>> = {}
    OBVIOUS
  <2> HIDE DEF cells
  <2>4. /\ DOMAIN new = {"value", "diff"} /\ DOMAIN new["diff"] = {} /\ DOMAIN new["value"] = {END}
    BY <2>1, <2>2, <2>3, FlagAdded
  <2> HIDE DEF new
  <2>5. DOMAIN new = C /\ \A c \in C : DOMAIN new[c] \ Nat = TotalTimes(c)
    BY <1>4, <2>4 DEF C
  <2>6. ~Repeats(Row(END, new))
    <3>1. \A c \in DOMAIN new : \A tm \in DOMAIN new[c] : tm \notin Nat
      BY <1>4, <2>4
    <3> QED
      BY <3>1, RowIs DEF Repeats
  <2>7. StreamFits(Append(e.rows, Row(END, new)), C)
    BY <1>2, <2>5, <2>6, TotalsFit
  <2> QED
    BY <1>1, <2>7 DEF C
<1>6. CASE e # d
  <2>1. cells = last.cells
    BY <1>6
  <2>2. /\ last.tm \in Nat /\ DOMAIN last.cells = C
        /\ \A c \in C : DOMAIN last.cells[c] = {last.tm}
    BY <1>2, <1>3, <1>6 DEF SliceRows
  <2> HIDE DEF cells, last
  <2>3. /\ DOMAIN cells = {"value", "diff"}
        /\ DOMAIN cells["value"] = {last.tm} /\ DOMAIN cells["diff"] = {last.tm}
    BY <2>1, <2>2 DEF C
  <2>4. /\ DOMAIN new = {"value", "diff"} /\ new["diff"] = cells["diff"]
        /\ DOMAIN new["value"] = {last.tm, END} /\ new["value"][last.tm] = cells["value"][last.tm]
    <3>1. END \notin DOMAIN cells["value"]
      BY <1>4, <2>2, <2>3
    <3>2. /\ DOMAIN new = {"value", "diff"} /\ new["diff"] = cells["diff"]
          /\ DOMAIN new["value"] = DOMAIN cells["value"] \cup {END}
          /\ \A tm \in DOMAIN cells["value"] : new["value"][tm] = cells["value"][tm]
      BY <2>3, <3>1, FlagAdded
    <3> HIDE DEF new
    <3> QED
      BY <2>3, <3>2
  <2> HIDE DEF new
  <2>5. DOMAIN new = C /\ \A c \in C : DOMAIN new[c] \ Nat = TotalTimes(c)
    <3>1. DOMAIN new["value"] \ Nat = {END} /\ DOMAIN new["diff"] \ Nat = {}
      BY <1>4, <2>2, <2>3, <2>4
    <3> QED
      BY <1>4, <2>4, <3>1 DEF C
  <2>6. Again(Row(END, new), last)
    <3> SUFFICES ASSUME NEW c \in DOMAIN new, NEW tm \in DOMAIN new[c] \cap Nat
                 PROVE  tm = last.tm /\ new[c][tm] = last.cells[c][tm]
      BY RowIs DEF Again
    <3>1. tm = last.tm
      BY <1>4, <2>3, <2>4
    <3> QED
      BY <2>1, <2>4, <3>1
  <2>7. StreamFits(Append(e.rows, Row(END, new)), C)
    BY <1>2, <1>3, <1>4, <1>6, <2>5, <2>6, TotalsFit DEF last
  <2> QED
    BY <1>1, <2>7 DEF C
<1> QED
  BY <1>5, <1>6

(* What diff yields are slices, and their totals unless there are none.    *)
LEMMA DiffFits ==
  ASSUME NEW s, SearchFits(s), NEW slice \in Nat \ {0}
  PROVE  StreamFits(diff(s, slice), {"value", "diff"})
<1> DEFINE lines == Lines(s)
           valued == {n \in DOMAIN lines : /\ contains_substrings_in_order(lines[n], s.in.strs)
                                           /\ HasValue(lines[n])}
           none == \/ lines = <<>> \/ ~contains_substrings_in_order(lines[1], s.in.strs)
                   \/ valued = {}
           d == Differences(s, slice, lines, Min(valued))
<1>1. diff(s, slice) = IF none THEN <<>> ELSE Ended(d, s)
  <2> DEFINE valued_(l) == {n \in DOMAIN l : /\ contains_substrings_in_order(l[n], s.in.strs)
                                             /\ HasValue(l[n])}
             Of(x) == CHOOSE result \in {Ended(v, s) : v \in {x}} : TRUE
             Body(l) == IF l = <<>> \/ ~contains_substrings_in_order(l[1], s.in.strs) \/ valued_(l) = {}
                        THEN <<>>
                        ELSE Of(Differences(s, slice, l, Min(valued_(l))))
  <2>1. diff(s, slice) = CHOOSE result \in {Body(l) : l \in {lines}} : TRUE
    BY DEF diff, Given
  <2>2. ASSUME NEW x PROVE Of(x) = Ended(x, s)
    OBVIOUS
  <2> HIDE DEF Of
  <2>3. Body(lines) = IF none THEN <<>> ELSE Ended(d, s)
    BY <2>2
  <2> HIDE DEF Body, lines
  <2>4. diff(s, slice) = Body(lines)
    BY <2>1
  <2> QED
    BY <2>3, <2>4
<1>2. IsSeq(lines) /\ (\A l \in ToSet(lines) : l.tm \in Nat) /\ s.start \in Nat /\ s.end \in Nat
  BY AskedTimes DEF SearchFits
<1> HIDE DEF lines
<1>3. CASE none
  <2>1. SliceRows(<<>>, {"value", "diff"})
    <3>1. IsSeq(<<>>) /\ Len(<<>>) = 0
      BY SeqOneElems
    <3> QED
      BY <3>1 DEF SliceRows
  <2> QED
    BY <1>1, <1>3, <2>1, SlicesFit
<1>4. CASE ~none
  <2>1. Min(valued) \in 1 .. Len(lines)
    <3>1. valued # {} /\ valued \subseteq 1 .. Len(lines) /\ 1 .. Len(lines) \subseteq Nat
      BY <1>2, <1>4, SeqLen
    <3> HIDE DEF valued
    <3> QED
      BY <3>1, MinIsLeast
  <2> HIDE DEF valued
  <2>2. DiffInv(d, s, slice)
    BY <1>2, <2>1, DifferencesKeep
  <2> HIDE DEF d
  <2> QED
    BY <1>1, <1>4, <2>2, EndedFits
<1> QED
  BY <1>3, <1>4

-----------------------------------------------------------------------------
(* The log analyzer by itself, from the path it was started with: what     *)
(* Offline does in the mode "log-analyzer".                                *)
LogNext == MergeStep \/ Prompt \/ \E cmd \in Commands : Command(cmd)
LogSpec(path) == LogInit(path) /\ [][LogNext]_logVars

(* The lists of logs.                                                      *)

(* Every log that is listed can be read, and those selected are listed.    *)
IsFile(path) == path \in DOMAIN files /\ files[path].is_log /\ Readable(files[path].lines)
LogsListed(all, selected) ==
  DOMAIN selected \subseteq DOMAIN all /\ \A k \in DOMAIN all : IsFile(all[k])
Listed == files \in Logs /\ LogsListed(all_logs, selected_logs)

(* The lists as a log is added to them.                                    *)
ListsFit(logs) ==
  /\ logs = [all |-> logs.all, selected |-> logs.selected, added |-> logs.added,
             spins |-> logs.spins]
  /\ LogsListed(logs.all, logs.selected)

(* A log that is added can be read.                                        *)
LEMMA AddedFits ==
  ASSUME files \in Logs, NEW path \in DOMAIN files, NEW logs, ListsFit(logs)
  PROVE  ListsFit(_add_log_file(path, logs))
<1> DEFINE lines == files[path].lines
           log == [name \in {display_name(path)} |-> path]
           all == Over(log, logs.all)
           selected == Over(log, logs.selected)
           new == _add_log_file(path, logs)
           keeps == path \in {logs.all[k] : k \in DOMAIN logs.all} \/ ~is_server_log_file(path)
           spins == ReadsForEver(files[path].lines, Len(files[path].lines))
<1>1. new = IF keeps THEN logs
            ELSE IF spins THEN [logs EXCEPT !.spins = TRUE]
            ELSE [logs EXCEPT !.all = all, !.selected = selected, !.added = @ + 1]
  <2>1. logs = [all |-> logs.all, selected |-> logs.selected, added |-> logs.added,
                spins |-> logs.spins]
    BY DEF ListsFit
  <2> HIDE DEF keeps, spins
  <2> QED
    BY <2>1 DEF _add_log_file, keeps, spins
<1>2. CASE keeps
  BY <1>1, <1>2
<1>3. CASE ~keeps /\ spins
  <2>1. new = [logs EXCEPT !.spins = TRUE]
    BY <1>1, <1>3
  <2> HIDE DEF new
  <2> QED
    BY <2>1 DEF ListsFit, new
<1>4. CASE ~keeps /\ ~spins
  <2>1. new = [logs EXCEPT !.all = all, !.selected = selected, !.added = @ + 1]
    BY <1>1, <1>4
  <2>2. IsFile(path)
    <3>1. files[path].is_log
      BY <1>4 DEF is_server_log_file
    <3>2. IsLog(lines)
      BY <3>1, LogAnalyzerAssumption
    <3>3. IsSeq(lines)
      BY <3>2 DEF IsLog, IsSeq
    <3>4. PICK k \in Len(lines) .. Len(lines) : Timed(lines, k)
      BY <1>4 DEF ReadsForEver
    <3>5. Len(lines) \in Nat
      BY <3>3, SeqLen
    <3>6. k = Len(lines)
      BY <3>4, <3>5
    <3> HIDE DEF lines
    <3>7. Readable(lines)
      BY <3>2, <3>4, <3>6 DEF Timed, Readable
    <3> QED
      BY <3>1, <3>7 DEF IsFile, lines
  <2>3. DOMAIN all = {display_name(path)} \cup DOMAIN logs.all
        /\ DOMAIN selected = {display_name(path)} \cup DOMAIN logs.selected
    BY DEF Over
  <2>4. \A k \in DOMAIN all : all[k] = path \/ (k \in DOMAIN logs.all /\ all[k] = logs.all[k])
    BY DEF Over
  <2> HIDE DEF all, selected
  <2>5. LogsListed(all, selected)
    BY <2>2, <2>3, <2>4 DEF ListsFit, LogsListed
  <2> HIDE DEF new
  <2>6. new = [all |-> all, selected |-> selected, added |-> logs.added + 1, spins |-> logs.spins]
    BY <2>1 DEF ListsFit
  <2> QED
    BY <2>5, <2>6 DEF ListsFit, new
<1> QED
  BY <1>2, <1>3, <1>4

(* So can all that are added by one command.                               *)
LEMMA AllAddedFit ==
  ASSUME Listed, NEW paths, IsSeq(paths), ToSet(paths) \subseteq DOMAIN files
  PROVE  ListsFit(add_log_files_at_path(paths))
<1> DEFINE n == Len(paths)
           base == [all |-> all_logs, selected |-> selected_logs, added |-> 0, spins |-> FALSE]
           Step(logs, k) == IF logs.spins THEN logs ELSE _add_log_file(paths[k], logs)
           Is(f, m) == f = [k \in 0 .. m |-> IF k = 0 THEN base ELSE Step(f[k - 1], k)]
           F == CHOOSE f : Is(f, n)
           Inv(logs) == ListsFit(logs)
<1>1. n \in Nat
  BY SeqLen
<1>2. add_log_files_at_path(paths) = F[n]
  BY DEF add_log_files_at_path
<1>3. ASSUME NEW k \in 1 .. n, NEW logs, Inv(logs) PROVE Inv(Step(logs, k))
  <2>1. paths[k] \in DOMAIN files /\ files \in Logs
    BY SeqElems DEF Listed
  <2>2. ListsFit(_add_log_file(paths[k], logs))
    BY <1>3, <2>1, AddedFits
  <2> QED
    BY <1>3, <2>2
<1>4. Inv(base)
  BY DEF ListsFit, Listed
<1> HIDE DEF Step, Inv, n, base
<1>5. \E f : Is(f, n)
  <2> DEFINE G == {m \in 0 .. n : \E f : Is(f, m)}
  <2>1. 0 \in G
    <3> DEFINE h == [k \in 0 .. 0 |-> base]
    <3>1. \A k \in 0 .. 0 : k = 0 /\ h[k] = base
      OBVIOUS
    <3>2. h = [k \in 0 .. 0 |-> h[k]]
      OBVIOUS
    <3> HIDE DEF h
    <3>3. Is(h, 0)
      BY <3>1, <3>2
    <3> QED
      BY <3>3, <1>1
  <2>2. ASSUME NEW m \in 1 .. n, m - 1 \in G PROVE m \in G
    <3>1. PICK f : Is(f, m - 1)
      BY <2>2
    <3> DEFINE g == [k \in 0 .. m |-> IF k = m THEN Step(f[m - 1], m) ELSE f[k]]
    <3>2. ASSUME NEW k \in 0 .. m PROVE g[k] = IF k = 0 THEN base ELSE Step(g[k - 1], k)
      <4>1. CASE k = m
        <5>1. g[m] = Step(f[m - 1], m) /\ g[m - 1] = f[m - 1] /\ m # 0
          BY <1>1
        <5> HIDE DEF g
        <5> QED
          BY <4>1, <5>1
      <4>2. CASE k # m
        <5>1. k \in 0 .. (m - 1) /\ g[k] = f[k] /\ (k # 0 => g[k - 1] = f[k - 1])
          BY <4>2, <1>1
        <5> HIDE DEF g
        <5> QED
          BY <5>1, <3>1
      <4> QED
        BY <4>1, <4>2
    <3>3. Is(g, m)
      <4>1. g = [k \in 0 .. m |-> g[k]]
        OBVIOUS
      <4> HIDE DEF g
      <4> QED
        BY <3>2, <4>1
    <3> HIDE DEF g
    <3> QED
      BY <3>3, <1>1
  <2> HIDE DEF G
  <2>3. \A m \in 0 .. n : m \in G
    BY <1>1, <2>1, <2>2, InductionUpTo
  <2>4. n \in G
    BY <1>1, <2>3
  <2> QED
    BY <2>4 DEF G
<1>6. Is(F, n)
  BY <1>5
<1> HIDE DEF F
<1>7. Inv(F[n])
  <2> DEFINE G == {m \in 0 .. n : Inv(F[m])}
  <2>1. 0 \in G
    BY <1>1, <1>4, <1>6
  <2>2. ASSUME NEW m \in 1 .. n, m - 1 \in G PROVE m \in G
    <3>1. F[m] = Step(F[m - 1], m) /\ Inv(F[m - 1])
      BY <2>2, <1>6, <1>1
    <3> QED
      BY <3>1, <1>3, <1>1
  <2> HIDE DEF G
  <2>3. \A m \in 0 .. n : m \in G
    BY <1>1, <2>1, <2>2, InductionUpTo
  <2>4. n \in G
    BY <1>1, <2>3
  <2> QED
    BY <2>4 DEF G
<1> QED
  BY <1>2, <1>7 DEF Inv

(* The names of logs are in their order, which has them all.               *)
LEMMA NamesAre ==
  ASSUME NEW logs
  PROVE  /\ IsSeq(Names(logs))
         /\ ToSet(Names(logs)) \subseteq DOMAIN logs \cap ToSet(KEYS)
  BY KeysAssumption, ThoseAre DEF Names, IsSeq

(* What is picked of some names is some of them.                           *)
LEMMA PickedAre ==
  ASSUME NEW names, IsSeq(names), NEW indices, IsSeq(indices)
  PROVE  /\ IsSeq(Pick(names, indices))
         /\ ToSet(Pick(names, indices)) \subseteq ToSet(names)
<1> DEFINE S == {n \in ToSet(indices) : At(names, n) \in DOMAIN names}
           valid == Valid(names, indices)
           picked == [i \in DOMAIN valid |-> names[At(names, valid[i])]]
<1>1. IsSeq(valid) /\ ToSet(valid) \subseteq S
  BY ThoseAre DEF Valid
<1>2. Pick(names, indices) = picked
  BY DEF Pick
<1> HIDE DEF valid
<1>3. IsSeq(picked) /\ DOMAIN picked = DOMAIN valid
  <2>1. picked = [i \in DOMAIN valid |-> picked[i]]
    OBVIOUS
  <2>2. DOMAIN picked = DOMAIN valid
    OBVIOUS
  <2> HIDE DEF picked
  <2> QED
    BY <1>1, <2>1, <2>2, SeqMapped
<1>4. \A i \in DOMAIN valid : valid[i] \in S
  BY <1>1 DEF ToSet
<1>5. ToSet(picked) \subseteq ToSet(names)
  BY <1>4 DEF ToSet
<1> QED
  BY <1>2, <1>3, <1>5

(* The logs a search is for are listed.                                    *)
LEMMA SearchedAre ==
  ASSUME Listed, NEW indices, IsSeq(indices)
  PROVE  /\ IsSeq(get_logs_by_index(indices))
         /\ ToSet(get_logs_by_index(indices)) \subseteq DOMAIN all_logs \cap ToSet(KEYS)
<1>1. DOMAIN selected_logs \subseteq DOMAIN all_logs
  BY DEF Listed, LogsListed
<1>2. /\ IsSeq(Names(all_logs)) /\ IsSeq(Names(selected_logs))
      /\ ToSet(Names(all_logs)) \subseteq DOMAIN all_logs \cap ToSet(KEYS)
      /\ ToSet(Names(selected_logs)) \subseteq DOMAIN selected_logs \cap ToSet(KEYS)
  BY NamesAre
<1>3. /\ IsSeq(Pick(Names(all_logs), indices))
      /\ ToSet(Pick(Names(all_logs), indices)) \subseteq ToSet(Names(all_logs))
  BY <1>2, PickedAre
<1> QED
  BY <1>1, <1>2, <1>3 DEF get_logs_by_index

(* Selecting and removing leave logs that were listed.                     *)
LEMMA SelectKeeps ==
  ASSUME Listed, files' = files, NEW indices, IsSeq(indices), NEW all,
         \/ SelectController(indices, all)
         \/ RemoveController(indices, all)
  PROVE  Listed'
<1> DEFINE which == IF all THEN Everything(Names(all_logs)) ELSE indices
           S == ToSet(Pick(Names(all_logs), which))
<1>1. IsSeq(Names(all_logs)) /\ ToSet(Names(all_logs)) \subseteq DOMAIN all_logs
  BY NamesAre
<1>2. IsSeq(which)
  <2> DEFINE every == Everything(Names(all_logs))
  <2>1. every = [i \in DOMAIN Names(all_logs) |-> every[i]]
    BY DEF Everything
  <2> HIDE DEF every
  <2>2. IsSeq(every)
    BY <1>1, <2>1, SeqMapped
  <2> QED
    BY <2>2 DEF every
<1>3. S \subseteq DOMAIN all_logs
  <2> HIDE DEF which
  <2> QED
    BY <1>1, <1>2, PickedAre
<1>4. \A k \in DOMAIN all_logs : IsFile(all_logs[k])
  BY DEF Listed, LogsListed
<1>5. DOMAIN selected_logs \subseteq DOMAIN all_logs /\ files \in Logs
  BY DEF Listed, LogsListed
<1>6. \A p : IsFile(p) => IsFile(p)'
  BY DEF IsFile
<1>7. CASE SelectController(indices, all)
  <2>1. selected_logs' = Restrict(all_logs, S) /\ all_logs' = all_logs
    BY <1>7 DEF SelectController, select_logs_by_index
  <2> HIDE DEF S
  <2>2. DOMAIN selected_logs' = S
    BY <2>1 DEF Restrict
  <2> QED
    BY <1>3, <1>4, <1>5, <1>6, <2>1, <2>2 DEF Listed, LogsListed
<1>8. CASE RemoveController(indices, all)
  <2>1. /\ all_logs' = Restrict(all_logs, DOMAIN all_logs \ S)
        /\ selected_logs' = Restrict(selected_logs, DOMAIN selected_logs \ S)
    BY <1>8 DEF RemoveController, remove_logs_by_index
  <2> HIDE DEF S
  <2>2. /\ DOMAIN all_logs' = DOMAIN all_logs \ S
        /\ DOMAIN selected_logs' = DOMAIN selected_logs \ S
        /\ \A k \in DOMAIN all_logs \ S : all_logs'[k] = all_logs[k]
    BY <2>1 DEF Restrict
  <2> QED
    BY <1>4, <1>5, <1>6, <2>2 DEF Listed, LogsListed
<1> QED
  BY <1>7, <1>8

(* So the logs that are listed can always be read.                         *)
LEMMA ListedKept ==
  ASSUME Listed, [LogNext]_logVars
  PROVE  Listed'
<1> SUFFICES ASSUME LogNext PROVE Listed'
  BY DEF logVars, Listed, LogsListed, IsFile
<1>1. ASSUME UNCHANGED <<files, all_logs, selected_logs>> PROVE Listed'
  BY <1>1 DEF Listed, LogsListed, IsFile
<1>2. CASE MergeStep
  BY <1>1, <1>2 DEF MergeStep
<1>3. CASE Prompt
  BY <1>1, <1>3 DEF Prompt
<1>4. ASSUME NEW cmd \in Commands, Command(cmd) PROVE Listed'
  <2>1. files' = files /\ files \in Logs
    BY <1>4 DEF Command, Listed
  <2>2. CASE cmd.op = "add"
    <3> DEFINE logs == add_log_files_at_path(cmd.paths)
    <3>1. AddController(cmd.paths)
      BY <1>4, <2>2 DEF Command
    <3>2. IsSeq(cmd.paths) /\ ToSet(cmd.paths) \subseteq DOMAIN files
      BY <2>1, <2>2, LogAnalyzerAssumption DEF IsSeq
    <3>3. ListsFit(logs)
      BY <3>2, AllAddedFit
    <3>4. all_logs' = logs.all /\ selected_logs' = logs.selected
      BY <3>1 DEF AddController
    <3>5. \A p : IsFile(p) => IsFile(p)'
      BY <2>1 DEF IsFile
    <3> HIDE DEF logs
    <3> QED
      BY <2>1, <3>3, <3>4, <3>5 DEF ListsFit, Listed, LogsListed
  <2>3. CASE cmd.op \in {"select", "remove"}
    <3>1. SelectController(cmd.indices, cmd.all) \/ RemoveController(cmd.indices, cmd.all)
      BY <1>4, <2>3 DEF Command
    <3>2. IsSeq(cmd.indices)
      BY <2>3, LogAnalyzerAssumption DEF IsSeq
    <3> QED
      BY <2>1, <3>1, <3>2, SelectKeeps
  <2>4. CASE cmd.op \notin {"add", "select", "remove"}
    <3>1. Search(cmd)
      BY <1>4, <2>4 DEF Command
    <3> QED
      BY <1>1, <2>1, <3>1 DEF Search
  <2> QED
    BY <2>2, <2>3, <2>4
<1> QED
  BY <1>2, <1>3, <1>4 DEF LogNext

(* And they are from the start, when there is such a path.                 *)
LEMMA ListedFirst ==
  ASSUME NEW path, \A f \in Logs : path \in DOMAIN f, LogInit(path)
  PROVE  Listed
<1> DEFINE none == [all |-> <<>>, selected |-> <<>>, added |-> 0, spins |-> FALSE]
           logs == _add_log_file(path, none)
<1>1. /\ files \in Logs /\ path \in DOMAIN files
      /\ all_logs = logs.all /\ selected_logs = logs.selected
  BY DEF LogInit
<1>2. ListsFit(none)
  <2>1. DOMAIN <<>> = {}
    OBVIOUS
  <2> QED
    BY <2>1 DEF ListsFit, LogsListed
<1> HIDE DEF none
<1>3. ListsFit(logs)
  BY <1>1, <1>2, AddedFits
<1> QED
  BY <1>1, <1>3 DEF ListsFit, Listed

-----------------------------------------------------------------------------
(* What a count or a diff of listed logs merges.                           *)

Columns(op) == IF op = "count" THEN {"count"} ELSE {"value", "diff"}

(* It is searched from a time on.                                          *)
LEMMA StartsAtTime ==
  ASSUME Listed, NEW o, Sliced(o), o.f.is # "bad", NEW names, IsSeq(names), names # <<>>,
         ToSet(names) \subseteq DOMAIN all_logs
  PROVE  min_start_tm(names, o.f) \in Nat
<1> DEFINE S == {get_start_tm(LogOf(names[i]), o.f) : i \in DOMAIN names}
<1>1. min_start_tm(names, o.f) = Min(S)
  BY DEF min_start_tm
<1>2. ASSUME NEW k \in ToSet(names)
      PROVE  get_start_tm(LogOf(k), o.f) \in Nat
  <2> DEFINE path == all_logs[k]  log == LogOf(k)
  <2>1. path \in DOMAIN files /\ files[path].is_log /\ Readable(files[path].lines) /\ files \in Logs
    BY DEF Listed, LogsListed, IsFile
  <2>2. log.start \in Nat /\ log.end \in Nat /\ log.end = Last(files[path].lines).tm
    BY <2>1, LogTimes DEF LogOf
  <2>3. o.f.is \in {"head", "back", "at"} /\ o.f.tm \in Nat
    BY DEF Sliced
  <2>4. o.f.is = "back" => o.f.tm <= log.end
    <3>1. Last(files[path].lines).tm # NoTime
      BY <2>2 DEF NoTime
    <3> QED
      BY <2>1, <2>2, <3>1 DEF Sliced
  <2> HIDE DEF log
  <2>5. get_start_tm(log, o.f) = IF o.f.is = "head" THEN log.start
                                 ELSE IF o.f.is = "back" THEN log.end - o.f.tm ELSE o.f.tm
    BY <2>3 DEF get_start_tm, parse_init_dt
  <2>6. get_start_tm(log, o.f) \in Nat
    BY <2>2, <2>3, <2>4, <2>5
  <2> QED
    BY <2>6 DEF log
<1>3. S \subseteq Nat
  BY <1>2 DEF ToSet
<1>4. S # {}
  <2>1. DOMAIN names # {}
    <3>1. Len(names) \in Nat /\ DOMAIN names = 1 .. Len(names)
      BY SeqLen
    <3>2. Len(names) # 0
      <4>1. IsSeq(<<>>) /\ Len(<<>>) = 0
        BY SeqOne
      <4> QED
        BY <4>1, <3>1, SeqAlike
    <3> QED
      BY <3>1, <3>2
  <2> QED
    BY <2>1
<1> HIDE DEF S
<1>5. Min(S) \in S
  BY <1>3, <1>4, MinIsLeast
<1> QED
  BY <1>1, <1>3, <1>5

(* What each log yields are rows of the same columns.                      *)
LEMMA YieldsFit ==
  ASSUME Listed, NEW op, op \in {"count", "diff"}, NEW o, Sliced(o), NEW start \in Nat,
         NEW k \in DOMAIN all_logs
  PROVE  StreamFits(Stream(op, set_input(LogOf(k), start, Input(op, o)), o), Columns(op))
<1> DEFINE s == set_input(LogOf(k), start, Input(op, o))
           rows == Stream(op, s, o)
<1>1. rows = Stream(op, s, o)
  OBVIOUS
<1>2. SearchFits(s)
  <2> DEFINE file == files[all_logs[k]].lines  in == Input(op, o)
  <2>1. Readable(file)
    BY DEF Listed, LogsListed, IsFile
  <2>2. in.duration \in Nat
    BY DEF Input, Sliced
  <2>3. s = set_input(ServerLog(file), start, in)
    BY DEF LogOf
  <2> HIDE DEF file, in, s
  <2> QED
    BY <2>1, <2>2, <2>3, InputFits
<1>3. o.t \in Nat \ {0}
  BY DEF Sliced
<1> HIDE DEF s, rows
<1>4. StreamFits(rows, Columns(op))
  <2>1. CASE op = "count"
    <3>1. rows = count(s, o.t)
      BY <1>1, <2>1 DEF Stream, grep_count
    <3> QED
      BY <1>2, <1>3, <2>1, <3>1, CountFits DEF Columns
  <2>2. CASE op = "diff"
    <3>1. rows = diff(s, o.t)
      BY <1>1, <2>2 DEF Stream, grep_diff
    <3> QED
      BY <1>2, <1>3, <2>2, <3>1, DiffFits DEF Columns
  <2> QED
    BY <2>1, <2>2
<1> QED
  BY <1>4 DEF rows, s

(* Such rows of logs with names fit together.                              *)
LEMMA MergerFits ==
  ASSUME NEW streams, NEW order, IsSeq(order), ToSet(order) \subseteq ToSet(KEYS), NEW C, C # {},
         \A k \in DOMAIN streams : StreamFits(streams[k], C),
         NEW text, NEW default, NEW page_size
  PROVE  /\ FitToMerge(Merger(streams, order, text, default, page_size))
         /\ C = {"count"} => NoneRepeats(Merger(streams, order, text, default, page_size))
<1> DEFINE m == Merger(streams, order, text, default, page_size)
<1>1. m.streams = streams /\ m.order = order
  BY DEF Merger
<1> HIDE DEF m
<1>2. order \in Seq(ToSet(KEYS))
  BY DEF IsSeq
<1>3. ASSUME NEW k \in DOMAIN streams, NEW i \in DOMAIN streams[k]
      PROVE  /\ DOMAIN streams[k][i].cells = C
             /\ streams[k][i].tm = END =>
                  \A c \in C : DOMAIN streams[k][i].cells[c] \ Nat = TotalTimes(c)
  <2>1. i \in 1 .. Len(streams[k])
    BY SeqLen DEF StreamFits
  <2> QED
    BY <2>1 DEF StreamFits
<1>4. \A k \in DOMAIN streams : streams[k] \in Seq(ToSet(streams[k])) /\ RowsFollow(streams[k])
  BY DEF StreamFits, IsSeq
<1>5. ASSUME NEW k \in DOMAIN streams, NEW i \in DOMAIN streams[k],
             NEW l \in DOMAIN streams, NEW j \in DOMAIN streams[l]
      PROVE  RowsAlike(streams[k][i], streams[l][j])
  BY <1>3 DEF RowsAlike
<1>7. C = {"count"} => NoneRepeats(m)
  BY <1>1 DEF StreamFits, Plain, NoneRepeats
<1>8. C # {"count"} => \A k \in DOMAIN m.streams : m.streams[k] = <<>> \/ HasTotals(m.streams[k])
  BY <1>1 DEF StreamFits
<1>6. FitToMerge(m)
  BY <1>1, <1>2, <1>3, <1>4, <1>5, <1>7, <1>8 DEF FitToMerge
<1> QED
  BY <1>6, <1>7 DEF m

-----------------------------------------------------------------------------
(* A count or a diff has rows that fit together, those of a count show no  *)
(* row again.  While it is merging it is in the middle of a merge, and     *)
(* when it is done it shows all in alike pages.                            *)
AllShown(m, pages, op) ==
  /\ ShownAlike(pages) /\ ShowsAll(pages, m)
  /\ \A i, j \in DOMAIN pages :
       i < j /\ (op = "count" \/ j # Len(pages)) => Disjoint(pages, i, j)
  /\ op = "count" => \A i \in DOMAIN pages : SameTotals(pages[i])
InMerge == IF Running THEN MergeInv(task.m) ELSE AllShown(task.m, Pages, task.op)
MergesTable ==
  /\ {"op", "status"} \subseteq DOMAIN task /\ task.status \in {"merging", "done"}
  /\ IsMerger(task.m) /\ FitToMerge(task.m)
  /\ task.op = "count" => NoneRepeats(task.m)
  /\ InMerge
TaskInv == Tabulated => MergesTable

(* A round leaves the rows and their order alone.                          *)
LEMMA StepIsMerger ==
  ASSUME NEW m, IsMerger(m)
  PROVE  LET n == _server_log_output_merger(m)
         IN  IsMerger(n) /\ n.streams = m.streams /\ n.order = m.order
<1> DEFINE Alike(n) == IsMerger(n) /\ n.streams = m.streams /\ n.order = m.order
<1> HIDE DEF Alike
<1>1. ASSUME NEW p, NEW n, n = [m EXCEPT !.pages = p]
      PROVE  Alike(n)
  BY <1>1 DEF IsMerger, Alike
<1>2. ASSUME NEW n, n = [m EXCEPT !.raised = TRUE]
      PROVE  Alike(n)
  BY <1>2 DEF IsMerger, Alike
<1>3. ASSUME NEW p, NEW e, NEW f, NEW n,
             n = [m EXCEPT !.pending = p, !.ended = e, !.first_end = f]
      PROVE  Alike(n)
  BY <1>3 DEF IsMerger, Alike
<1>4. Alike(Advance(m))
  <2>1. PICK p, e, f : Advance(m) = [m EXCEPT !.pending = p, !.ended = e, !.first_end = f]
    BY DEF Advance
  <2> QED
    BY <1>3, <2>1
<1>5. Alike(MergeRound(m))
  <2>1. PICK a, b, c, d, e :
          \/ MergeRound(m) = [m EXCEPT !.raised = TRUE]
          \/ MergeRound(m) = [Advance(m) EXCEPT !.n = a, !.page = b, !.pages = c,
                                                !.ended = d, !.shares = e]
    BY DEF MergeRound
  <2> DEFINE r == MergeRound(m)  x == Advance(m)
  <2>2. \/ r = [m EXCEPT !.raised = TRUE]
        \/ r = [x EXCEPT !.n = a, !.page = b, !.pages = c, !.ended = d, !.shares = e]
    BY <2>1
  <2>3. Alike(x)
    BY <1>4
  <2> HIDE DEF r, x
  <2>4. ASSUME r = [m EXCEPT !.raised = TRUE] PROVE Alike(r)
    BY <1>2, <2>4
  <2>5. ASSUME r = [x EXCEPT !.n = a, !.page = b, !.pages = c, !.ended = d, !.shares = e]
        PROVE  Alike(r)
    BY <2>3, <2>5 DEF IsMerger, Alike
  <2>6. Alike(r)
    BY <2>2, <2>4, <2>5
  <2> QED
    BY <2>6 DEF r
<1>6. \/ _server_log_output_merger(m) = MergeRound(m)
      \/ _server_log_output_merger(m) = m
      \/ \E p : _server_log_output_merger(m) = [m EXCEPT !.pages = p]
  BY DEF _server_log_output_merger
<1>7. Alike(m)
  BY DEF Alike
<1>8. Alike(_server_log_output_merger(m))
  BY <1>1, <1>5, <1>6, <1>7
<1> QED
  BY <1>8 DEF Alike

(* A search begins with a merger of what its logs yield.                   *)
Begins(t, op, o, names) ==
  /\ DOMAIN t = {"op", "status", "error", "options", "start", "logs", "m"}
  /\ t.status = "merging"
  /\ t.op = op
  /\ \E streams, default :
       /\ DOMAIN streams = ToSet(names)
       /\ \A k \in DOMAIN streams : StreamFits(streams[k], Columns(op))
       /\ t.m = Merger(streams, names, FALSE, default, o.p)

(* The logs it is for are listed, and its options make slices.             *)
Asks(o, names) ==
  /\ Sliced(o) /\ IsSeq(names)
  /\ ToSet(names) \subseteq DOMAIN all_logs \cap ToSet(KEYS)
(* So does every search of a count or a diff that comes to have one.       *)
LEMMA SearchBegins ==
  ASSUME Listed, NEW op, NEW o, NEW names, op \in {"count", "diff"}, Asks(o, names),
         "m" \in DOMAIN Searched(op, o, names)
  PROVE  Begins(Searched(op, o, names), op, o, names)
<1>1. ASSUME NEW start \in Nat
      PROVE  Begins(Searching(op, o, names, start), op, o, names)
  <2> DEFINE Of(k) == Given(set_input(LogOf(k), start, Input(op, o)),
                            LAMBDA s : Stream(op, s, o))
             streams == [k \in ToSet(names) |-> Of(k)]
             default == IF op = "count" THEN 0 ELSE <<>>
             t == Searching(op, o, names, start)
             m == Given(streams, LAMBDA x : Merger(x, names, op = "grep", default, o.p))
  <2>1. m = Merger(streams, names, op = "grep", default, o.p)
    <3> HIDE DEF streams, default
    <3> QED
      BY DEF Given
  <2>2. t = [op |-> op, status |-> "merging", error |-> "", options |-> o, start |-> start,
             logs |-> [k \in ToSet(names) |-> all_logs[k]], m |-> m]
    BY DEF Searching
  <2>3. (op = "grep") = FALSE
    OBVIOUS
  <2>4. DOMAIN streams = ToSet(names)
    OBVIOUS
  <2>7. \A k \in ToSet(names) : StreamFits(Of(k), Columns(op))
    <3> SUFFICES ASSUME NEW k \in ToSet(names) PROVE StreamFits(Of(k), Columns(op))
      OBVIOUS
    <3>1. k \in DOMAIN all_logs /\ Sliced(o)
      BY DEF Asks
    <3> DEFINE s == set_input(LogOf(k), start, Input(op, o))
    <3>2. StreamFits(Stream(op, s, o), Columns(op))
      BY <3>1, YieldsFit
    <3>3. Of(k) = Stream(op, s, o)
      <4>1. Of(k) = CHOOSE result \in {Stream(op, v, o) : v \in {s}} : TRUE
        BY DEF Given
      <4> HIDE DEF s, Of
      <4> QED
        BY <4>1
    <3> HIDE DEF s, Of
    <3> QED
      BY <3>2, <3>3
  <2>8. \A k \in DOMAIN streams : StreamFits(streams[k], Columns(op))
    BY <2>7
  <2> HIDE DEF m, streams, default, t
  <2>5. t.m = Merger(streams, names, FALSE, default, o.p)
    BY <2>1, <2>2, <2>3
  <2>6. DOMAIN t = {"op", "status", "error", "options", "start", "logs", "m"}
        /\ t.status = "merging" /\ t.op = op
    BY <2>2
  <2> QED
    BY <2>4, <2>5, <2>6, <2>8 DEF t, Begins
<1>2. /\ Searched(op, o, names)
           = Given(min_start_tm(names, o.f), LAMBDA start : Searching(op, o, names, start))
      /\ names # <<>> /\ o.f.is # "bad"
  BY DEF Searched, Done
<1>3. min_start_tm(names, o.f) \in Nat
  BY <1>2, StartsAtTime DEF Asks
<1>4. Searched(op, o, names) = Searching(op, o, names, min_start_tm(names, o.f))
  BY <1>2 DEF Given
<1> QED
  BY <1>1, <1>3, <1>4

(* What is searched for is what was asked for, and a merger is one.        *)
LEMMA SearchedOp ==
  ASSUME NEW op, NEW o, NEW names
  PROVE  Searched(op, o, names).op = op
<1>1. \A error : Done(op, error).op = op
  BY DEF Done
<1>2. \A start : Searching(op, o, names, start).op = op
  BY DEF Searching
<1>3. \/ \E error : Searched(op, o, names) = Done(op, error)
      \/ Searched(op, o, names)
           = Given(min_start_tm(names, o.f), LAMBDA start : Searching(op, o, names, start))
  BY DEF Searched
<1>4. \E start : Given(min_start_tm(names, o.f), LAMBDA s : Searching(op, o, names, s))
                   = Searching(op, o, names, start)
  BY DEF Given
<1> QED
  BY <1>1, <1>2, <1>3, <1>4

(* A merger is made as one.                                                *)
LEMMA MergerIs ==
  ASSUME NEW streams, NEW order, NEW text, NEW default, NEW page_size
  PROVE  IsMerger(Merger(streams, order, text, default, page_size))
  BY Zenon DEF IsMerger, Merger

(* So what a search begins with is the beginning of a merge.               *)
LEMMA SearchedInv ==
  ASSUME Listed, NEW op, NEW o, NEW names, op \in {"count", "diff"} => Asks(o, names),
         task' = Searched(op, o, names)
  PROVE  TaskInv'
<1> SUFFICES ASSUME Tabulated'
             PROVE  MergesTable'
  BY DEF TaskInv
<1>1. "m" \in DOMAIN Searched(op, o, names) /\ task'.op \in {"count", "diff"}
  BY DEF Tabulated
<1>2. Searched(op, o, names).op = op
  BY <1>1, SearchedOp
<1> DEFINE t == Searched(op, o, names)
<1>0. op \in {"count", "diff"} /\ "m" \in DOMAIN t /\ task' = t
  BY <1>1, <1>2
<1>3. Begins(t, op, o, names)
  BY <1>0, SearchBegins
<1> HIDE DEF t
<1>4. PICK streams, default :
        /\ DOMAIN streams = ToSet(names)
        /\ \A k \in DOMAIN streams : StreamFits(streams[k], Columns(op))
        /\ task'.m = Merger(streams, names, FALSE, default, o.p)
  BY <1>0, <1>3 DEF Begins
<1>5. DOMAIN task' = {"op", "status", "error", "options", "start", "logs", "m"}
      /\ task'.status = "merging"
  BY <1>0, <1>3 DEF Begins
<1>6. IsMerger(task'.m)
  BY <1>4, MergerIs
<1>7. FitToMerge(task'.m) /\ (op = "count" => NoneRepeats(task'.m))
  <2>1. Columns(op) # {} /\ (op = "count" => Columns(op) = {"count"})
    BY DEF Columns
  <2> QED
    BY <1>0, <1>4, <2>1, MergerFits DEF Asks
<1>8. MergeInv(task'.m)
  BY <1>4, <1>7, MergerInv
<1> QED
  BY <1>2, <1>0, <1>5, <1>6, <1>7, <1>8 DEF MergesTable, InMerge, Running

(* A step of the merge.                                                    *)
LEMMA MergeStepInv ==
  ASSUME TaskInv, MergeStep
  PROVE  TaskInv'
<1> SUFFICES ASSUME Tabulated'
             PROVE  MergesTable'
  BY DEF TaskInv
<1> DEFINE m == task.m
           n == _server_log_output_merger(m)
           over == ~MoreToMerge(m) \/ n.raised \/ Stops(n)
<1>1. Running /\ task' = [task EXCEPT !.m = n, !.status = IF over THEN "done" ELSE @]
  BY DEF MergeStep
<1> HIDE DEF n, over
<1>2. DOMAIN task' = DOMAIN task /\ task'.op = task.op /\ Tabulated
  BY <1>1 DEF Tabulated
<1>3. /\ {"op", "status"} \subseteq DOMAIN task /\ IsMerger(m) /\ FitToMerge(m) /\ InMerge
      /\ "m" \in DOMAIN task /\ (task.op = "count" => NoneRepeats(m))
  BY <1>2 DEF TaskInv, MergesTable, Tabulated
<1>4. task'.m = n /\ task'.status = IF over THEN "done" ELSE "merging"
  BY <1>1, <1>3 DEF Running
<1>5. IsMerger(n) /\ n.streams = m.streams /\ n.order = m.order
  BY <1>3, StepIsMerger DEF n
<1>6. IF over THEN AllShown(n, n.pages, task.op) ELSE MergeInv(n)
  <2>1. FitToMerge(m)
    BY <1>3
  <2>2. MergeInv(m)
    BY <1>1, <1>3, <2>1 DEF InMerge
  <2>3. CASE MoreToMerge(m)
    <3>1. n = MergeRound(m)
      BY <2>3 DEF n, _server_log_output_merger
    <3>2. MergeInv(n)
      BY <2>1, <2>2, <2>3, <3>1, RoundKeepsInv
    <3>3. ~n.raised
      BY <3>2 DEF MergeInv, Merges
    <3>4. ~Stops(n)
      BY <1>2 DEF Stops, Tabulated
    <3> QED
      BY <2>3, <3>2, <3>3, <3>4 DEF over
  <2>4. CASE ~MoreToMerge(m)
    <3>1. n = [m EXCEPT !.pages = Append(m.pages, LastPage(m))]
      BY <2>2, <2>4 DEF n, _server_log_output_merger, MergeInv, Merges
    <3>2. n.pages = Append(m.pages, LastPage(m))
      BY <1>3, <3>1 DEF IsMerger
    <3>3. /\ ShownAlike(n.pages) /\ ShowsAll(n.pages, m)
          /\ \A i, j \in DOMAIN n.pages :
               i < j /\ (NoneRepeats(m) \/ j # Len(n.pages)) => Disjoint(n.pages, i, j)
      BY <2>1, <2>2, <2>4, <3>2, MergeEnds
    <3>4. ShowsAll(n.pages, n)
      BY <1>5, <3>3 DEF ShowsAll
    <3>5. ASSUME task.op = "count" PROVE \A i \in DOMAIN n.pages : SameTotals(n.pages[i])
      <4>1. (\A i \in DOMAIN m.pages : SameTotals(m.pages[i])) /\ SameTotals(LastPage(m))
        BY <1>3, <2>1, <2>2, <3>5, PlainTotals
      <4>2. \A i \in DOMAIN n.pages :
              n.pages[i] = LastPage(m) \/ (i \in DOMAIN m.pages /\ n.pages[i] = m.pages[i])
        <5>1. IsSeq(m.pages)
          BY <2>2 DEF MergeInv, PagesBefore, IsSeq
        <5>2. /\ DOMAIN n.pages = 1 .. Len(m.pages) + 1 /\ n.pages[Len(m.pages) + 1] = LastPage(m)
              /\ \A i \in 1 .. Len(m.pages) : n.pages[i] = m.pages[i]
              /\ DOMAIN m.pages = 1 .. Len(m.pages) /\ Len(m.pages) \in Nat
          BY <3>2, <5>1, SeqAppended, SeqLen
        <5> QED
          BY <5>2
      <4> QED
        BY <4>1, <4>2
    <3>6. AllShown(n, n.pages, task.op)
      BY <1>3, <3>3, <3>4, <3>5 DEF AllShown
    <3> QED
      BY <2>4, <3>6 DEF over
  <2> QED
    BY <2>3, <2>4
<1>7. InMerge'
  BY <1>2, <1>4, <1>6 DEF InMerge, Running, Pages
<1>8. FitToMerge(n) /\ (task.op = "count" => NoneRepeats(n))
  <2>1. NoneRepeats(n) <=> NoneRepeats(m)
    BY <1>5 DEF NoneRepeats
  <2> QED
    BY <1>3, <1>5, <2>1 DEF FitToMerge
<1> QED
  BY <1>2, <1>3, <1>4, <1>5, <1>7, <1>8 DEF MergesTable

(* The invariant holds of the log analyzer.                                *)
THEOREM TaskInvariant ==
  ASSUME NEW CONSTANT path, \A f \in Logs : path \in DOMAIN f
  PROVE  LogSpec(path) => [](Listed /\ TaskInv)
<1>1. LogInit(path) => Listed /\ TaskInv
  <2>1. LogInit(path) => task \in {Ready, Spinning}
    BY DEF LogInit
  <2>2. "m" \notin DOMAIN Ready /\ "m" \notin DOMAIN Spinning
    BY DEF Ready, Spinning, Done
  <2>3. task \in {Ready, Spinning} => TaskInv
    BY <2>2 DEF TaskInv, Tabulated
  <2> QED
    BY <2>1, <2>3, ListedFirst
<1>2. Listed /\ TaskInv /\ [LogNext]_logVars => (Listed /\ TaskInv)'
  <2> SUFFICES ASSUME Listed, TaskInv, [LogNext]_logVars
               PROVE  TaskInv'
    BY ListedKept
  <2> USE DEF Tabulated
  <2>1. CASE MergeStep
    BY <2>1, MergeStepInv
  <2>2. CASE Prompt
    BY <2>2 DEF Prompt, TaskInv, Ready
  <2>3. ASSUME NEW cmd \in Commands, Command(cmd)
        PROVE  TaskInv'
    <3>1. CASE \E op, error : task' = Done(op, error)
      BY <3>1 DEF TaskInv, Done
    <3>2. CASE task' = Spinning
      BY <3>2 DEF TaskInv, Spinning, Done
    <3>3. CASE cmd.op = "add"
      BY <2>3, <3>1, <3>2, <3>3 DEF Command, AddController
    <3>4. CASE cmd.op = "select"
      BY <2>3, <3>1, <3>4 DEF Command, SelectController
    <3>5. CASE cmd.op = "remove"
      BY <2>3, <3>1, <3>5 DEF Command, RemoveController
    <3>6. CASE cmd.op \notin {"add", "select", "remove"}
      <4> DEFINE o == Options(cmd)  names == get_logs_by_index(o.n)
      <4>1. Search(cmd)
        BY <2>3, <3>6 DEF Command
      <4>2. \/ \E error : task' = Done(cmd.op, error)
            \/ task' = Searched(cmd.op, o, names)
        BY <4>1 DEF Search
      <4>3. cmd.op \in {"count", "diff"} => Sliced(o)
        BY LogAnalyzerAssumption
      <4> HIDE DEF o
      <4>4. cmd.op \in {"count", "diff"} => Asks(o, names)
        <5>1. Sliced(o) => IsSeq(o.n)
          BY DEF Sliced, IsSeq
        <5> QED
          BY <4>3, <5>1, SearchedAre DEF Asks
      <4> HIDE DEF names
      <4> QED
        BY <3>1, <4>2, <4>4, SearchedInv
    <3> QED
      BY <3>3, <3>4, <3>5, <3>6
  <2>4. CASE UNCHANGED logVars
    BY <2>4 DEF logVars, TaskInv, MergesTable, InMerge, Running, Pages
  <2> QED
    BY <2>1, <2>2, <2>3, <2>4 DEF LogNext
<1> QED
  BY <1>1, <1>2, PTL DEF LogSpec

(* The rows of the logs that a count or a diff is for fit together, so     *)
(* that the merger can make one table of them: they follow each other in   *)
(* time, have the same columns, and the totals are last; those of a diff   *)
(* show its last slice again, or nothing.  Of the options and the files it *)
(* needs what LogAnalyzerAssumption says.                                  *)
THEOREM RowsFitTogether ==
  ASSUME NEW CONSTANT path, \A f \in Logs : path \in DOMAIN f
  PROVE  LogSpec(path) => [](Tabulated => FitToMerge(task.m))
<1>1. TaskInv => (Tabulated => FitToMerge(task.m))
  BY DEF TaskInv, MergesTable
<1> QED
  BY <1>1, TaskInvariant, PTL

(* The pages of a count or a diff are alike, and later and later, while it *)
(* is merged and when it is done.  Only the last page of a diff can have   *)
(* times of one before, and has the same cells there.                      *)
THEOREM PagesAreAlike ==
  ASSUME NEW CONSTANT path, \A f \in Logs : path \in DOMAIN f
  PROVE  LogSpec(path) => []PagesAlike
<1>1. TaskInv => PagesAlike
  <2> SUFFICES ASSUME TaskInv, Tabulated
               PROVE  /\ ShownAlike(Pages)
                      /\ \A i, j \in DOMAIN Pages :
                           i < j /\ ~(task.op = "diff" /\ task.status = "done" /\ j = Len(Pages))
                             => Disjoint(Pages, i, j)
                      /\ task.op = "count" => \A i \in DOMAIN Pages : SameTotals(Pages[i])
    <3>1. \A i \in DOMAIN Pages : NewTimes(i) = Times(Pages[i]) \ ShownBefore(Pages, i)
      BY DEF NewTimes, ShownBefore
    <3> QED
      BY <3>1 DEF PagesAlike, ShownAlike, Disjoint
  <2>1. MergesTable /\ task.op \in {"count", "diff"}
    BY DEF TaskInv, Tabulated
  <2>2. CASE Running
    <3>1. MergeInv(task.m) /\ FitToMerge(task.m) /\ (task.op = "count" => NoneRepeats(task.m))
      BY <2>1, <2>2 DEF MergesTable, InMerge
    <3>2. ShownAlike(Pages)
      BY <3>1, BeforeAlike DEF Pages
    <3>3. \A i, j \in DOMAIN Pages : i < j => Disjoint(Pages, i, j)
      BY <3>1, PagesApart DEF Pages
    <3>4. task.op = "count" => \A i \in DOMAIN Pages : SameTotals(Pages[i])
      BY <3>1, PlainTotals DEF Pages
    <3> QED
      BY <3>2, <3>3, <3>4
  <2>3. CASE ~Running
    <3>1. AllShown(task.m, Pages, task.op) /\ task.status = "done"
      BY <2>1, <2>3 DEF MergesTable, InMerge, Running
    <3> QED
      BY <2>1, <3>1 DEF AllShown
  <2> QED
    BY <2>2, <2>3
<1> QED
  BY <1>1, TaskInvariant, PTL

(* When it is done, every row its logs have made is on one of them.        *)
THEOREM EveryRowIsShown ==
  ASSUME NEW CONSTANT path, \A f \in Logs : path \in DOMAIN f
  PROVE  LogSpec(path) => []EveryRowShown
<1>1. TaskInv => EveryRowShown
  BY DEF TaskInv, MergesTable, InMerge, Running, EveryRowShown, AllShown, ShowsAll
<1> QED
  BY <1>1, TaskInvariant, PTL
=============================================================================
