------------------------------ MODULE LogFile ------------------------------
(* A server log as the log analyzer reads it: LogReader finds the first      *)
(* line of every hour by leaps and a binary search, ServerLog seeks to the   *)
(* hour a command starts in and reads on in blocks, of which it skips those  *)
(* that hold none of the strings searched for.                               *)
(*                                                                           *)
(* A file is a sequence of lines; a position is the number of a line, and    *)
(* Len(file) + 1 the end of the file.  A byte offset inside a line stands    *)
(* for the line: _seek_to goes back to its start.  Of a line the model keeps *)
(*   tm      its time, or NoTime when the line does not begin with one       *)
(*   has     the words in it that commands search for, in their order        *)
(*   val     the numbers that stand next to the last of them, shape how      *)
(*   hist    the histogram whose dump it begins, ns its namespace, total its *)
(*           number of operations and unit the unit of its buckets           *)
(*   buckets the buckets it gives values to                                  *)
EXTENDS Values, Integers, Sequences, FiniteSetsExt, SequencesExt, Functions, TLC

CONSTANTS
  HOUR,        \* the ticks of an hour
  STEP,        \* STEP of log_reader.py, in lines
  BLOCK,       \* READ_BLOCK_BYTES, in lines
  NTH_BLOCK,   \* RETURN_REQUIRED_EVERY_NTH_BLOCK
  MARGIN       \* the ten seconds after the end of a log, in ticks

ASSUME LogFileAssumption ==
  /\ {HOUR, STEP, BLOCK, NTH_BLOCK} \subseteq Nat \ {0}
  /\ MARGIN \in Nat

(* The elements of s that are in S, in their order: SelectSeq, but for its   *)
(* parameter, which no proof can instantiate.                                *)
Those(s, S) ==
  LET those[k \in 0 .. Len(s)] ==
        IF k = 0 THEN <<>> ELSE those[k - 1] \o (IF s[k] \in S THEN <<s[k]>> ELSE <<>>)
  IN  those[Len(s)]
LinesAt(lines, places) ==
  LET numbers == Those([k \in DOMAIN lines |-> k], places)
  IN  [n \in DOMAIN numbers |-> lines[numbers[n]]]

NoTime == -1
Timed(file, k) == file[k].tm # NoTime
HourOf(file, k) == file[k].tm \div HOUR

-----------------------------------------------------------------------------
(* LogReader *)

(* read_line reads on until a line has a time.  At the end of the file       *)
(* readline returns nothing, which has no time either: a reader that finds   *)
(* no line with a time reads for ever.                                       *)
ReadsForEver(file, pos) == \A k \in pos .. Len(file) : ~Timed(file, k)
read_line(file, pos) == Min({k \in pos .. Len(file) : Timed(file, k)})

(* _seek_to from the end of the file stops at the start of the last line.    *)
_seek_to(file, pos) == IF pos > Len(file) THEN Len(file) ELSE pos

(* The first line between min and max of a later hour than last; 0: none.    *)
_get_next_timestamp(file, min, max, last) ==
  LET search[lo \in Nat, hi \in Nat] ==
        LET mid == lo + ((hi - lo) \div 2)
            read == read_line(file, mid)
        IN  IF lo >= hi
            THEN IF HourOf(file, read_line(file, hi)) > last THEN hi ELSE 0
            ELSE IF HourOf(file, read) <= last
                 THEN search[_seek_to(file, read + 1), hi]
                 ELSE search[lo, mid]
  IN  search[_seek_to(file, min), _seek_to(file, max)]

(* The leaps of generate_server_log_indices, which double from the second    *)
(* on: how far lines of the hour were seen, and the line it landed on.       *)
(* Mutated: the one leap is taken for the first line of the next hour. *)
LeapPastAll(file, from, last) ==
  LET to == Min({from + STEP, Len(file)})
  IN  [min |-> read_line(file, to), read |-> read_line(file, to)]
Leap(file, from, last) ==
  LET leap[min \in Nat, i \in Nat] ==
        LET to == min + (IF i = 0 THEN STEP ELSE STEP * 2 ^ (i - 1))
            beyond == Len(file) < to
            read == read_line(file, IF beyond THEN Len(file) ELSE to)
        IN  IF beyond \/ HourOf(file, read) > last
            THEN [min |-> min, read |-> read]
            ELSE leap[read + 1, i + 1]
  IN  leap[from, 0]

(* Where each hour of the log begins. *)
generate_server_log_indices(file) ==
  LET first == HourOf(file, read_line(file, 1))
      index[min \in Nat, last \in Nat] ==
        LET leap == Leap(file, min, last)
            pos == _get_next_timestamp(file, leap.min, leap.read + 1, last)
            hour == HourOf(file, read_line(file, pos))
        IN  IF HourOf(file, leap.read) <= last \/ pos = 0
            THEN <<>>
            ELSE (hour :> pos) @@ index[pos, hour]
  IN  (first :> 1) @@ index[1, first]

(* "-<delta>" counts from the end of the log; what can not be parsed is 0.   *)
parse_init_dt(from, end) ==
  CASE from.is = "back" -> end - from.tm
    [] from.is = "at" -> from.tm
    [] from.is = "bad" -> 0

-----------------------------------------------------------------------------
(* ServerLog *)

(* Reading the first and the last line, and the index. *)
ServerLog(file) ==
  [file |-> file, indices |-> generate_server_log_indices(file),
   start |-> file[read_line(file, 1)].tm,
   end |-> file[read_line(file, Len(file))].tm]

get_start_tm(log, from) ==
  IF from.is = "head" THEN log.start ELSE parse_init_dt(from, log.end)

(* Start and end of what a command reads; duration 0 stands for none. *)
process_start_tm(log, start) == IF start > log.end THEN log.end + MARGIN ELSE start
process_end_tm(log, start, duration) ==
  LET end == process_start_tm(log, start) + duration
  IN  IF duration = 0 \/ end > log.end THEN log.end + MARGIN ELSE end

(* Where set_file_stream seeks to.  The loop over the hours after the start  *)
(* ends before the last hour of the log.                                     *)
set_file_stream(log, start) ==
  LET hour == process_start_tm(log, start) \div HOUR
      later == {h \in DOMAIN log.indices : hour <= h /\ h < log.end \div HOUR}
  IN  IF hour \in DOMAIN log.indices THEN log.indices[hour]
      ELSE IF hour < log.start \div HOUR THEN 1
      ELSE IF hour > log.end \div HOUR \/ later = {} THEN Len(log.file) + 1
      ELSE log.indices[Min(later)]

(* Which lines, and which blocks of lines, a command asks for. *)
Has(words, strs, is_and) ==
  IF is_and THEN strs \subseteq words ELSE strs \cap words # {}
Wanted(line, in) ==
  \/ in.read_all_lines
  \/ /\ Has(ToSet(line.has), ToSet(in.strs), in.is_and)
     /\ ToSet(line.has) \cap in.ignore = {}

(* The lines read_line returns one after the other: those of the blocks in   *)
(* which read_line_block finds the strings, and the last line of every       *)
(* NTH_BLOCK-th block in which it does not.                                  *)
read_line_block(log, start, in) ==
  LET from == set_file_stream(log, start)
      rest == LinesAt(log.file, from .. Len(log.file))
      block(b) == SubSeq(rest, (b - 1) * BLOCK + 1, Min({b * BLOCK, Len(rest)}))
      words(b) == UNION {ToSet(block(b)[k].has) : k \in DOMAIN block(b)}
      blocks == (Len(rest) + BLOCK - 1) \div BLOCK
      read(acc, b) ==
        IF in.read_all_lines \/ Has(words(b), ToSet(in.strs), in.is_and)
        THEN [lines |-> acc.lines \o block(b), skipped |-> 0]
        ELSE IF (acc.skipped + 1) % NTH_BLOCK = 0
             THEN [lines |-> Append(acc.lines, Last(block(b))), skipped |-> 0]
             ELSE [acc EXCEPT !.skipped = @ + 1]
      after[b \in 0 .. blocks] ==
        IF b = 0 THEN [lines |-> <<>>, skipped |-> 0] ELSE read(after[b - 1], b)
  IN  after[blocks].lines

(* What set_input prepares: the lines as they will be read, from where to    *)
(* where, and what is asked for.                                             *)
set_input(log, start, in) ==
  [lines |-> read_line_block(log, start, in), in |-> in,
   start |-> process_start_tm(log, start),
   end |-> process_end_tm(log, start, in.duration),
   server_start |-> log.start]

(* next_line goes on from position i: it passes over lines without a time,   *)
(* with an earlier one or that were not asked for, and stops at the first    *)
(* line after the end, which it leaves for the next slice.                   *)
(* Mutated: a line at the end of a slice is left for the next one. *)
BeyondOrAt(s, i, end) ==
  Min({k \in i .. Len(s.lines) : Timed(s.lines, k) /\ s.lines[k].tm >= end}
      \cup {Len(s.lines) + 1})
Beyond(s, i, end) ==
  Min({k \in i .. Len(s.lines) : Timed(s.lines, k) /\ s.lines[k].tm > end}
      \cup {Len(s.lines) + 1})
next_line(s, i, start, end) ==
  {k \in i .. Beyond(s, i, end) - 1 :
     Timed(s.lines, k) /\ s.lines[k].tm >= start /\ Wanted(s.lines[k], s.in)}
=============================================================================
