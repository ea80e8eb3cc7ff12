----------------------------- MODULE LogMerge -----------------------------
(* LogHandler._server_log_output_merger: the rows of several logs, each log  *)
(* in the order of its own time, become pages in the order of everyone's.    *)
(* A round of its loop takes the rows with the smallest time; a log that has *)
(* none at that time gets the default value there, so that every page has    *)
(* the same times for every log.                                             *)
(*                                                                           *)
(* A merger is a record of the streams (LogStreams), which row each is at    *)
(* (pending), the cells of those that came to their end, the columns, which  *)
(* are those of the first row that was read, the page under way, and the     *)
(* logs whose totals are the dictionaries of that page (shares).             *)
EXTENDS LogStreams

CONSTANT KEYS   \* the names of logs, in their order

ASSUME KeysAssumption == KEYS \in Seq(ToSet(KEYS))

Empty == <<>>
First(keys, among) == keys[SelectInSeq(keys, LAMBDA k : k \in among)]
Head_(s, n) == IF n \in DOMAIN s THEN s[n].tm ELSE END
EndsWell(s, n) == n \in DOMAIN s /\ s[n].tm = END

NewPage(text, streams) == IF text THEN Empty ELSE [key \in DOMAIN streams |-> Empty]

(* dict.update: the entries of new replace those of old. *)
Over(new, old) ==
  [x \in DOMAIN new \cup DOMAIN old |-> IF x \in DOMAIN new THEN new[x] ELSE old[x]]

(* The first row of every log, in the order the logs were asked for. *)
Merger(streams, order, text, default, page_size) ==
  LET pending == {k \in DOMAIN streams : Head_(streams[k], 1) # END}
      ended == {k \in DOMAIN streams : EndsWell(streams[k], 1)}
      first == First(order, pending)
  IN  [streams |-> streams, order |-> order, text |-> text, default |-> default,
       page_size |-> page_size, n |-> 0, pages |-> <<>>, raised |-> FALSE,
       page |-> NewPage(text, streams),
       pending |-> [k \in pending |-> 1],
       ended |-> [k \in ended |-> streams[k][1].cells], shares |-> {},
       first_end |-> IF ended = {} THEN Empty ELSE <<First(order, ended)>>,
       columns |-> IF text \/ pending = {} THEN {} ELSE DOMAIN streams[first][1].cells]

RowAt(m, k) == m.streams[k][m.pending[k]]
Now(m) == Min({RowAt(m, k).tm : k \in DOMAIN m.pending})
AtMin(m) == {k \in DOMAIN m.pending : RowAt(m, k).tm = Now(m)}

(* The page after a round: lines one under the other, or cells added.        *)
WithLines(m) ==
  m.page
  \o LET keys == SelectSeq(KEYS, LAMBDA k : k \in AtMin(m))
     IN  [n \in DOMAIN keys |-> [key |-> keys[n], line |-> RowAt(m, keys[n]).cells]]
Cell(page, c) == IF c \in DOMAIN page THEN page[c] ELSE Empty
(* Mutated: a log without a row at the time gets no default. *)
WithCellsNoDefault(m) ==
  [k \in DOMAIN m.page |->
     IF k \notin AtMin(m) THEN m.page[k]
     ELSE IF m.page[k] = Empty THEN RowAt(m, k).cells
     ELSE [c \in DOMAIN m.page[k] |-> Over(RowAt(m, k).cells[c], m.page[k][c])]]
WithCells(m) ==
  [k \in DOMAIN m.page |->
     IF k \notin AtMin(m)
     THEN [c \in DOMAIN m.page[k] \cup m.columns |->
             IF c \in m.columns
             THEN Over([tm \in {Now(m)} |-> m.default], Cell(m.page[k], c))
             ELSE m.page[k][c]]
     ELSE IF m.page[k] = Empty THEN RowAt(m, k).cells
     ELSE [c \in DOMAIN m.page[k] |->
             IF c \in m.columns THEN Over(RowAt(m, k).cells[c], m.page[k][c])
             ELSE m.page[k][c]]]

(* A difference yields the dictionaries of its last slice again, as totals.  *)
(* When that slice opened the page they are the page's own: the page has     *)
(* what was added to them, and they get what the page will.                  *)
Totals_(m, k) == m.streams[k][m.pending[k] + 1]
Repeats(row) == \E c \in DOMAIN row.cells : \E tm \in DOMAIN row.cells[c] : tm \in Nat
Shared(m) ==
  {k \in AtMin(m) : /\ EndsWell(m.streams[k], m.pending[k] + 1)
                    /\ Repeats(Totals_(m, k)) /\ m.page[k] = Empty}
WithShared(m) ==
  [k \in DOMAIN m.page |->
     IF k \notin Shared(m) THEN WithCells(m)[k]
     ELSE [c \in DOMAIN WithCells(m)[k] |->
             Over(Cell(Totals_(m, k).cells, c), WithCells(m)[k][c])]]

(* The view takes the flags out of the page that it shows.                   *)
show_grep_diff(m, page, cells) ==
  IF END \notin DOMAIN page[m.order[1]].value THEN cells
  ELSE [cells EXCEPT !.value = Restrict(@, DOMAIN @ \ {END})]
Shown_(m, page, cells) == IF m.n + 1 = m.page_size THEN show_grep_diff(m, page, cells) ELSE cells

(* A log whose columns are not those of the first one is met with a KeyError *)
(* when it has cells in the page already.                                    *)
WrongColumns(m) ==
  ~m.text /\ \E k \in AtMin(m) :
    m.page[k] # Empty /\ ~(m.columns \subseteq DOMAIN m.page[k] \cap DOMAIN RowAt(m, k).cells)

Advance(m) ==
  LET next(k) == m.pending[k] + 1
      done == {k \in AtMin(m) : Head_(m.streams[k], next(k)) = END}
      ended == {k \in done : EndsWell(m.streams[k], next(k))}
  IN  [m EXCEPT
        !.pending = [k \in DOMAIN @ \ done |-> IF k \in AtMin(m) THEN next(k) ELSE @[k]],
        !.ended = Over([k \in ended |-> m.streams[k][next(k)].cells], @),
        !.first_end = IF ended = {} \/ @ # Empty THEN @ ELSE <<First(KEYS, ended)>>]

MoreToMerge(m) == DOMAIN m.pending # {} /\ ~m.raised
(* Mutated: the round of a full page does not advance the logs. *)
MergeRoundStalls(m) == IF m.n + 1 = m.page_size THEN m ELSE [Advance(m) EXCEPT !.n = @ + 1]
MergeRound(m) ==
  LET page == IF m.text THEN WithLines(m) ELSE WithShared(m)
      full == m.n + 1 = m.page_size
      shares == m.shares \cup Shared(m)
  IN  IF WrongColumns(m) THEN [m EXCEPT !.raised = TRUE]
      ELSE [Advance(m) EXCEPT !.n = IF full THEN 0 ELSE m.n + 1,
              !.page = IF full THEN NewPage(m.text, m.streams) ELSE page,
              !.pages = IF full THEN Append(@, page) ELSE @,
              !.ended = [k \in DOMAIN @ |->
                           IF k \in shares THEN Shown_(m, page, page[k]) ELSE @[k]],
              !.shares = IF full THEN {} ELSE shares]

-----------------------------------------------------------------------------
(* The last page has the totals.  A log that did not come to its end gets    *)
(* the structure of one that did, filled with the default.                   *)
_get_dict_structure(cells, default) ==
  [c \in DOMAIN cells |-> [tm \in DOMAIN cells[c] |-> default]]
_balance_dict(m) ==
  Over(m.ended, [k \in DOMAIN m.streams |->
                   _get_dict_structure(m.ended[m.first_end[1]], m.default)])

(* Mutated: the totals replace what was merged for the page. *)
LastPageOfTotals(m) == IF DOMAIN m.ended = {} THEN m.page ELSE _balance_dict(m)
LastPage(m) ==
  IF DOMAIN m.ended = {} THEN m.page
  ELSE LET ended == _balance_dict(m)
       IN  [k \in DOMAIN m.page |->
              IF m.page[k] = Empty THEN ended[k]
              ELSE [c \in DOMAIN m.page[k] \cup DOMAIN ended[k] |->
                      Over(Cell(ended[k], c), Cell(m.page[k], c))]]

_server_log_output_merger(m) ==
  IF MoreToMerge(m) THEN MergeRound(m)
  ELSE IF m.raised THEN m ELSE [m EXCEPT !.pages = Append(@, LastPage(m))]

-----------------------------------------------------------------------------
(* What the merger is given, and what it makes of it, when the rows are      *)
(* cells.  The rows of a log follow each other in time, with cells of their  *)
(* own time only, its totals last; these can show the row before them again. *)
(* The rows of all logs have the same columns, all totals the same cells but *)
(* for that, and where some show a row again every log that has rows has     *)
(* totals.                                                                   *)
Again(row, before) ==
  \A c \in DOMAIN row.cells : \A tm \in DOMAIN row.cells[c] \cap Nat :
    tm = before.tm /\ row.cells[c][tm] = before.cells[c][tm]
RowsFollow(s) ==
  \A i \in DOMAIN s :
    IF s[i].tm = END
    THEN i = Len(s) /\ (~Repeats(s[i]) \/ (i > 1 /\ Again(s[i], s[i - 1])))
    ELSE /\ \A c \in DOMAIN s[i].cells : DOMAIN s[i].cells[c] = {s[i].tm}
         /\ s[i].tm \in Nat /\ \A j \in 1 .. i - 1 : s[j].tm < s[i].tm
RowsAlike(one, other) ==
  /\ DOMAIN one.cells = DOMAIN other.cells
  /\ one.tm = END /\ other.tm = END =>
       \A c \in DOMAIN one.cells : DOMAIN one.cells[c] \ Nat = DOMAIN other.cells[c] \ Nat
NoneRepeats(m) ==
  \A k \in DOMAIN m.streams : \A i \in DOMAIN m.streams[k] :
    m.streams[k][i].tm = END => ~Repeats(m.streams[k][i])
HasTotals(s) == s # <<>> /\ s[Len(s)].tm = END
FitToMerge(m) ==
  /\ m.order \in Seq(ToSet(KEYS))
  /\ NoneRepeats(m) \/ \A k \in DOMAIN m.streams : m.streams[k] = <<>> \/ HasTotals(m.streams[k])
  /\ \A k \in DOMAIN m.streams :
       /\ m.streams[k] \in Seq(ToSet(m.streams[k]))
       /\ RowsFollow(m.streams[k])
       /\ \A i \in DOMAIN m.streams[k] :
            /\ DOMAIN m.streams[k][i].cells # {}
            /\ \A l \in DOMAIN m.streams : \A j \in DOMAIN m.streams[l] :
                 RowsAlike(m.streams[k][i], m.streams[l][j])

Times(page) ==
  Nat \cap UNION {UNION {DOMAIN page[k][c] : c \in DOMAIN page[k]} : k \in DOMAIN page}
(* All logs have the same columns on a page, and cells at all of some times. *)
HaveTimes(page, times) ==
  \A k, l \in DOMAIN page :
    /\ DOMAIN page[k] = DOMAIN page[l]
    /\ \A c \in DOMAIN page[k] : times \subseteq DOMAIN page[k][c]
SameTotals(page) ==
  \A k, l \in DOMAIN page : \A c \in DOMAIN page[k] :
    DOMAIN page[k][c] \ Nat = DOMAIN page[l][c] \ Nat
Shows(page, k, row) ==
  \A c \in DOMAIN row.cells :
    /\ c \in DOMAIN page[k]
    /\ \A tm \in DOMAIN row.cells[c] :
         tm \in DOMAIN page[k][c] /\ page[k][c][tm] = row.cells[c][tm]
=============================================================================
