---------------------------- MODULE LogStreams ----------------------------
(* What the generators of a server log yield to a command, each as the       *)
(* sequence of its rows: the lines of `grep', the slices of `count', the     *)
(* slices with their values of `diff', and the slices of `histogram'.  A     *)
(* row has a time and, for every column, its cells by time.  The last row    *)
(* of a generator that comes to its end has the time END; one that fails     *)
(* or ends before has no such row.                                           *)
EXTENDS LogFile

CONSTANTS
  SECOND,      \* a second in ticks, what _read_hist allows for
  ROUND,       \* ten seconds, what ceil_time rounds to
  NS_SLICE,    \* NS_SLICE_SECONDS, in ticks
  BUCKETS      \* the number of buckets of a histogram

ASSUME LogStreamsAssumption ==
  /\ {ROUND, BUCKETS} \subseteq Nat \ {0}
  /\ {SECOND, NS_SLICE} \subseteq Nat

END == -1        \* constants.END_ROW_KEY, the total, "diff_end" and "avg"
MAXIMUM == -2    \* "max"

Row(tm, cells) == [tm |-> tm, cells |-> cells]
AtTime(tm, value) == [x \in {tm} |-> value]
Fails(s) == s.in.uniq   \* md5 of a str: next_line raises at the first line wanted
Asked(s) == LinesAt(s.lines, next_line(s, 1, s.start, s.end))
Lines(s) == IF Fails(s) THEN <<>> ELSE Asked(s)

(* grep: lines as they come. *)
show(s) == [n \in DOMAIN Lines(s) |-> Row(Lines(s)[n].tm, Lines(s)[n])]

(* count: lines of every slice, the one at its end included.  A slice goes   *)
(* on where the one before stopped reading.                                  *)
count(s, slice) ==
  LET slices == IF s.start >= s.end THEN 0 ELSE (s.end - s.start + slice - 1) \div slice
      start(n) == s.start + (n - 1) * slice
      end(n) == Min({start(n) + slice, s.end})
      found(n) == next_line(s, IF n = 1 THEN 1 ELSE Beyond(s, 1, end(n - 1)), start(n), end(n))
      hits == {n \in 1 .. slices : found(n) # {}}
      rows(last) == [n \in 1 .. last |->
                       Row(start(n), [count |-> AtTime(start(n), Cardinality(found(n)))])]
      total == Cardinality(UNION {found(n) : n \in hits})
  IN  IF Fails(s) /\ hits # {} THEN rows(Min(hits) - 1)
      ELSE Append(rows(slices), Row(END, [count |-> AtTime(END, total)]))

-----------------------------------------------------------------------------
(* diff *)

contains_substrings_in_order(line, strs) == strs \in AllSubSeqs(line.has)
HasValue(line) == line.shape # 0

_get_next_slice_start_and_end_tm(d, slice, tm) ==
  LET jump == IF tm < d.end + slice THEN 1 ELSE (tm - d.start) \div slice
      start == IF tm < d.end + slice THEN d.end ELSE d.start + slice * jump
  IN  IF tm < d.end THEN [start |-> d.start, end |-> d.end, jump |-> 0]
      ELSE [start |-> start, end |-> start + slice, jump |-> jump]

(* Values add up, or are taken from one another, as far as both go. *)
Plus(a, b) == [n \in 1 .. Min({Len(a), Len(b)}) |-> a[n] + b[n]]
Minus(a, b) == [n \in 1 .. Min({Len(a), Len(b)}) |-> a[n] - b[n]]

(* The difference to the slice shown before, unless all of it is below the   *)
(* limit.                                                                    *)
_get_value_and_diff(prev, val, limit) ==
  LET diff == IF prev = <<>> THEN val ELSE Minus(val, prev)
  IN  IF limit = 0 \/ \E n \in DOMAIN diff : diff[n] >= limit THEN diff ELSE <<>>

Shown(d, s) == d.count % s.in.every = 0
Emit(d, s) ==
  LET diff == _get_value_and_diff(d.prev, d.val, s.in.limit)
  IN  IF Shown(d, s) /\ d.val # <<>> /\ diff # <<>>
      THEN [d EXCEPT !.rows = Append(@, Row(d.start,
              [value |-> AtTime(d.start, d.val), diff |-> AtTime(d.start, diff)]))]
      ELSE d

(* Mutated: the values of the slice before are not cleared. *)
NextSliceKeepsValues(d, s, slice, tm) ==
  LET next == _get_next_slice_start_and_end_tm(d, slice, tm)
  IN  [Emit(d, s) EXCEPT !.start = next.start, !.end = Min({next.end, s.end}),
         !.count = (@ + next.jump) % s.in.every, !.prev = IF Shown(d, s) THEN d.val ELSE @]
(* A line in a later slice closes the slice before. *)
NextSlice(d, s, slice, tm) ==
  LET next == _get_next_slice_start_and_end_tm(d, slice, tm)
  IN  [Emit(d, s) EXCEPT !.start = next.start, !.end = Min({next.end, s.end}),
         !.count = (@ + next.jump) % s.in.every, !.val = <<>>,
         !.prev = IF Shown(d, s) THEN d.val ELSE @]

Count(d, s, line) ==
  IF ~Shown(d, s) \/ line.shape # d.shape THEN d
  ELSE [d EXCEPT !.val = IF @ = <<>> THEN line.val ELSE Plus(line.val, @),
                 !.mixed = @ \/ line.writer # d.writer]

diff_line(d, s, slice, line) ==
  IF d.over \/ ~contains_substrings_in_order(line, s.in.strs) THEN d
  ELSE IF line.tm >= s.end THEN [Emit(d, s) EXCEPT !.val = <<>>, !.over = TRUE]
  ELSE Count(IF line.tm >= d.end THEN NextSlice(d, s, slice, line.tm) ELSE d, s, line)

(* The first line with values decides their shape and the first slice.  A    *)
(* generator whose first line has the strings in another order fails.        *)
Differences(s, slice, lines, first) ==
  LET line == lines[first]
      slice1 == [start |-> s.start, end |-> s.start + slice, jump |-> 0]
      begun == IF line.tm >= slice1.end
               THEN _get_next_slice_start_and_end_tm(slice1, slice, line.tm)
               ELSE slice1
      d0 == [start |-> begun.start, end |-> Min({begun.end, s.end}), count |-> begun.jump,
             shape |-> line.shape, writer |-> line.writer, mixed |-> FALSE,
             prev |-> <<>>, rows |-> <<>>, over |-> FALSE,
             val |-> IF begun.jump % s.in.every = 0 THEN line.val ELSE <<>>]
      after[n \in 0 .. Len(lines) - first] ==
        IF n = 0 THEN d0 ELSE diff_line(after[n - 1], s, slice, lines[first + n])
  IN  after[Len(lines) - first]

(* The dictionaries of the slice under way at the end are not cleared: the    *)
(* last row has them once more, and whether there were several writers.      *)
NoCells == [value |-> <<>>, diff |-> <<>>]
diff_end(cells, mixed) ==
  [cells EXCEPT !.value = [x \in DOMAIN @ \cup {END} |-> IF x = END THEN mixed ELSE @[x]]]
Ended(d, s) ==
  Given(Emit(d, s), LAMBDA e :
    LET cells == IF e = d THEN NoCells ELSE e.rows[Len(e.rows)].cells
    IN  Append(e.rows, Row(END, diff_end(cells, d.mixed))))
diff(s, slice) ==
  LET valued(lines) == {n \in DOMAIN lines : /\ contains_substrings_in_order(lines[n], s.in.strs)
                                             /\ HasValue(lines[n])}
  IN  Given(Lines(s), LAMBDA lines :
        IF lines = <<>> \/ ~contains_substrings_in_order(lines[1], s.in.strs) \/ valued(lines) = {}
        THEN <<>>
        ELSE Given(Differences(s, slice, lines, Min(valued(lines))), LAMBDA d : Ended(d, s)))

-----------------------------------------------------------------------------
(* histogram *)

Bucket == 0 .. BUCKETS - 1
NoDump == [total |-> 0, values |-> <<>>, tm |-> 0, line |-> 0, unit |-> "ms"]

Tagged(line, in) == line.hist = in.strs[1] /\ (in.ns # "" => line.ns = in.ns)

(* The values of a dump and the line after them; line 0 at the end of the    *)
(* log, where the dump counts for nothing.                                   *)
_read_bucket_values(lines, k) ==
  LET total == lines[k].total
      read[j \in Nat, min \in Nat, sum \in Nat] ==
        LET of_hist == lines[j].hist # "" \/ lines[j].buckets # <<>>
            found == {b \in DOMAIN lines[j].buckets : of_hist /\ b >= min}
            here == Restrict(lines[j].buckets, found)
            more == read[j + 1, min + Cardinality(found), sum + SumFunction(here)]
        IN  IF of_hist /\ found = {} THEN [values |-> <<>>, line |-> j]
            ELSE IF j = Len(lines) THEN [values |-> here, line |-> 0]
            ELSE IF sum + SumFunction(here) >= total THEN [values |-> here, line |-> j + 1]
            ELSE [more EXCEPT !.values = @ @@ here]
      dump == read[k + 1, 0, 0]
  IN  IF k = Len(lines) THEN [values |-> <<>>, line |-> 0]
      ELSE [dump EXCEPT !.values = @ @@ [b \in Bucket |-> 0]]

_add_buckets(a, b) == [n \in Bucket |-> a[n] + b[n]]

(* The next dump at or after a time and, unless one namespace was asked      *)
(* for, all that follow it within NS_SLICE.                                  *)
_read_hist(s, lines, from, after) ==
  LET hist[k \in Nat, before \in Int] ==
        LET next == {j \in k .. Len(lines) :
                       /\ lines[j].tm >= after
                       /\ Tagged(lines[j], s.in) \/ (before # NoTime /\ lines[j].tm > before)}
            j == Min(next)
            dump == _read_bucket_values(lines, j)
            more == hist[dump.line, IF before = NoTime THEN lines[j].tm + NS_SLICE ELSE before]
        IN  IF next = {} THEN NoDump
            ELSE IF before # NoTime /\ lines[j].tm > before
            THEN [NoDump EXCEPT !.tm = lines[j].tm, !.line = j]
            ELSE IF dump.line = 0 THEN NoDump
            ELSE IF s.in.ns # ""
            THEN [total |-> lines[j].total, values |-> dump.values, tm |-> lines[j].tm,
                  line |-> dump.line, unit |-> lines[j].unit]
            ELSE [total |-> lines[j].total + more.total, tm |-> lines[j].tm,
                  values |-> IF more.values = <<>> THEN dump.values
                             ELSE _add_buckets(dump.values, more.values),
                  line |-> more.line, unit |-> lines[j].unit]
  IN  IF from = 0 THEN NoDump ELSE hist[from, NoTime]

(* A bucket that has become smaller keeps its value: new_values is changed.  *)
_subtract_buckets(new, old) == [b \in Bucket |-> Max({new[b], old[b]})]

(* Mutated: the buckets further up are forgotten. *)
PercentageInNext(b, total, values) ==
  IF total <= 0 \/ b + 1 \notin Bucket THEN 0 ELSE (values[b + 1] * 100) \div total
(* In how many of a hundred operations a bucket above b was hit. *)
_percentage_over(b, total, values) ==
  IF total <= 0 THEN 0
  ELSE (SumFunctionOnSet(values, {n \in Bucket : n > b}) * 100) \div total

ceil_time(tm) == tm + ((ROUND - (tm % ROUND)) % ROUND)

(* The buckets shown: every every-th, count of them. *)
_set_bucket_details(in) == {b \in Bucket : b % in.every = 0 /\ b \div in.every < in.count}

Slice(s, acc, new) ==
  LET kept == _subtract_buckets(new.values, acc.old.values)
      values == [b \in Bucket |-> kept[b] - acc.old.values[b]]
      total == new.total - acc.old.total
      seconds == new.tm - acc.old.tm
      over == [b \in _set_bucket_details(s.in) |-> _percentage_over(b, total, values)]
      key == IF s.in.rounding THEN ceil_time(new.tm) ELSE new.tm
      units == acc.units \cup {new.unit}
      column(c) == IF c = "ops/sec" THEN key :> (total \div seconds)
                   ELSE IF c = new.unit THEN key :> over ELSE <<>>
  IN  [acc EXCEPT !.rows = Append(@, Row(key, [c \in units \cup {"ops/sec"} |-> column(c)])),
                  !.old = [new EXCEPT !.values = kept], !.units = units,
                  !.ops = @ + total, !.seconds = @ + seconds,
                  !.max_rate = Max({@, total \div seconds}),
                  !.overs = Append(@, over)]

(* Averages and maxima of the slices, under the unit of the last one. *)
Totals(s, acc) ==
  LET n == Len(acc.overs)
      sum(b) == FoldLeft(LAMBDA a, over : a + over[b], 0, acc.overs)
      most(b) == Max({acc.overs[i][b] : i \in 1 .. n})
      buckets == _set_bucket_details(s.in)
      column(c) ==
        IF n = 0 THEN <<>>
        ELSE IF c = "ops/sec"
        THEN (END :> (acc.ops \div acc.seconds)) @@ (MAXIMUM :> acc.max_rate)
        ELSE IF c = acc.old.unit
        THEN (END :> [b \in buckets |-> sum(b) \div n]) @@ (MAXIMUM :> [b \in buckets |-> most(b)])
        ELSE <<>>
  IN  Row(END, [c \in acc.units \cup {"ops/sec"} |-> column(c)])

Slices(s, lines, slice, first) ==
  LET step == IF slice > SECOND THEN slice - SECOND ELSE slice
      acc0 == [old |-> first, rows |-> <<>>, units |-> {}, overs |-> <<>>, over |-> FALSE,
               ops |-> 0, seconds |-> 0, max_rate |-> 0]
      next(acc, n) ==
        Given(_read_hist(s, lines, acc.old.line, acc.old.tm + step), LAMBDA new :
          IF acc.over \/ acc.old.tm >= s.end \/ new.values = <<>>
          THEN [acc EXCEPT !.over = TRUE]
          ELSE Slice(s, acc, new))
  IN  FoldLeftDomain(next, acc0, lines)
compute_latency(s, slice) ==
  Given(Lines(s), LAMBDA lines :
    Given(_read_hist(s, lines, 1, Max({s.start, s.server_start})), LAMBDA first :
      IF s.in.count < 1 \/ s.in.every < 1 \/ first.line = 0 THEN <<>>
      ELSE Given(Slices(s, lines, slice, first), LAMBDA acc : Append(acc.rows, Totals(s, acc)))))
=============================================================================
