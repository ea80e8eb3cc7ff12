---------------------------- MODULE LogAnalyzer ----------------------------
(* The log analyzer: LogHandler's logs, those that were added and those      *)
(* that are selected, and the commands that search them.  A command parses   *)
(* its options, prepares every log it is for, and merges what they yield     *)
(* round by round into pages.                                                *)
EXTENDS LogMerge

CONSTANTS
  Logs,       \* what the files can be: path -> [lines, node, is_log]
  Commands    \* lines of the user: [op, args]

VARIABLES
  files,          \* the files, which do not change
  all_logs,       \* LogHandler.all_logs: display name -> path
  selected_logs,  \* LogHandler.selected_logs
  task            \* the command under way, or the last one

logVars == <<files, all_logs, selected_logs, task>>

Running == task.status = "merging"
Ready == [op |-> "", status |-> "ready", error |-> ""]
Done(op, error) == [op |-> op, status |-> "done", error |-> error]

-----------------------------------------------------------------------------
(* The lists of logs *)

display_name(path) == files[path].node

(* A file is a log when most of its first lines look like one. *)
is_server_log_file(path) == files[path].is_log

(* A log whose last line has no time keeps read_next_line reading.           *)
_add_log_file(path, logs) ==
  IF path \in {logs.all[k] : k \in DOMAIN logs.all} \/ ~is_server_log_file(path) THEN logs
  ELSE IF ReadsForEver(files[path].lines, Len(files[path].lines))
  THEN [logs EXCEPT !.spins = TRUE]
  ELSE LET log == [name \in {display_name(path)} |-> path]
       IN  [logs EXCEPT !.all = Over(log, @), !.selected = Over(log, @), !.added = @ + 1]

add_log_files_at_path(paths) ==
  LET after[n \in 0 .. Len(paths)] ==
        IF n = 0
        THEN [all |-> all_logs, selected |-> selected_logs, added |-> 0, spins |-> FALSE]
        ELSE IF after[n - 1].spins THEN after[n - 1] ELSE _add_log_file(paths[n], after[n - 1])
  IN  after[Len(paths)]

Spinning == [Done("add", "") EXCEPT !.status = "spins"]
AddController(paths) ==
  LET logs == add_log_files_at_path(paths)
  IN  /\ all_logs' = logs.all /\ selected_logs' = logs.selected
      /\ task' = IF logs.spins THEN Spinning
                 ELSE Done("add", IF Len(paths) = 1 /\ logs.added = 0 THEN "not added" ELSE "")

(* The n-th of the logs in their order; Python counts n = 0 and below from   *)
(* the end.                                                                  *)
Names(logs) == Those(KEYS, DOMAIN logs)
At(names, n) == IF n >= 1 THEN n ELSE Len(names) + n
Valid(names, indices) ==
  Those(indices, {n \in ToSet(indices) : At(names, n) \in DOMAIN names})
Pick(names, indices) ==
  [i \in DOMAIN Valid(names, indices) |-> names[At(names, Valid(names, indices)[i])]]
Everything(names) == [i \in DOMAIN names |-> i - 1]

get_logs_by_index(indices) ==
  IF indices = <<>> THEN Names(selected_logs) ELSE Pick(Names(all_logs), indices)

select_logs_by_index(indices) ==
  selected_logs' = Restrict(all_logs, ToSet(Pick(Names(all_logs), indices)))

remove_logs_by_index(indices) ==
  LET removed == ToSet(Pick(Names(all_logs), indices))
  IN  /\ all_logs' = Restrict(all_logs, DOMAIN all_logs \ removed)
      /\ selected_logs' = Restrict(selected_logs, DOMAIN selected_logs \ removed)

SelectController(indices, all) ==
  /\ select_logs_by_index(IF all THEN Everything(Names(all_logs)) ELSE indices)
  /\ task' = Done("select", "")
  /\ UNCHANGED all_logs
RemoveController(indices, all) ==
  /\ remove_logs_by_index(IF all THEN Everything(Names(all_logs)) ELSE indices)
  /\ task' = Done("remove", "")

-----------------------------------------------------------------------------
(* The commands that search.  The options of a line over their defaults.     *)

FromHead == [is |-> "head", tm |-> 0]
do_show(args) ==
  args @@ [s |-> <<>>, v |-> {}, a |-> FALSE, u |-> FALSE, f |-> FromHead, d |-> 0,
           p |-> 10, n |-> <<>>]
do_count(args) == args @@ [t |-> 600] @@ do_show(<<>>)
do_diff(args) == args @@ [t |-> 10, k |-> 1, l |-> 0, a |-> TRUE] @@ do_show(<<>>)
do_latency(args) ==
  args @@ [t |-> 10, b |-> 3, e |-> 3, o |-> FALSE, N |-> "", s |-> args.h, a |-> FALSE]
       @@ do_show(<<>>)
Options(cmd) ==
  CASE cmd.op = "grep" -> do_show(cmd.args)
    [] cmd.op = "count" -> do_count(cmd.args)
    [] cmd.op = "diff" -> do_diff(cmd.args)
    [] cmd.op = "histogram" -> do_latency(cmd.args)

(* What set_input is given. *)
Input(op, o) ==
  [strs |-> o.s, ignore |-> o.v, is_and |-> o.a, uniq |-> o.u, duration |-> o.d,
   read_all_lines |-> op = "histogram",
   limit |-> IF op = "diff" THEN o.l ELSE 0,
   every |-> CASE op = "diff" -> o.k [] op = "histogram" -> o.e [] OTHER -> 1,
   count |-> IF op = "histogram" THEN o.b ELSE 3,
   ns |-> IF op = "histogram" THEN o.N ELSE "",
   rounding |-> op # "histogram" \/ ~o.o]

(* The lines of a log have times that are numbers, or none.  The slices of a *)
(* count or a difference take time, and no option goes back to before the    *)
(* times began.                                                              *)
IsLog(lines) ==
  /\ lines \in Seq(ToSet(lines)) /\ lines # <<>>
  /\ \A line \in ToSet(lines) : line.tm \in Nat \cup {NoTime}
Sliced(o) ==
  /\ o.t \in Nat \ {0} /\ o.d \in Nat /\ o.n \in Seq(ToSet(o.n))
  /\ o.f.is \in {"head", "back", "at", "bad"} /\ o.f.tm \in Nat
  /\ o.f.is = "back" =>
       \A f \in Logs : \A path \in DOMAIN f :
         f[path].is_log /\ Last(f[path].lines).tm # NoTime => o.f.tm <= Last(f[path].lines).tm
ASSUME LogAnalyzerAssumption ==
  /\ \A f \in Logs : \A path \in DOMAIN f : f[path].is_log => IsLog(f[path].lines)
  /\ \A cmd \in Commands :
       CASE cmd.op = "add" ->
              cmd.paths \in Seq(ToSet(cmd.paths)) /\ \A f \in Logs : ToSet(cmd.paths) \subseteq DOMAIN f
         [] cmd.op \in {"select", "remove"} -> cmd.indices \in Seq(ToSet(cmd.indices))
         [] cmd.op \in {"count", "diff"} -> Sliced(Options(cmd))
         [] OTHER -> TRUE

LogOf(k) == ServerLog(files[all_logs[k]].lines)
min_start_tm(names, from) ==
  Min({get_start_tm(LogOf(names[i]), from) : i \in DOMAIN names})

grep(s, o) == show(s)
grep_count(s, o) == count(s, o.t)
grep_diff(s, o) == diff(s, o.t)
loglatency(s, o) == compute_latency(s, o.t)
Stream(op, s, o) ==
  CASE op = "grep" -> grep(s, o)
    [] op = "count" -> grep_count(s, o)
    [] op = "diff" -> grep_diff(s, o)
    [] op = "histogram" -> loglatency(s, o)

Searching(op, o, names, start) ==
  [op |-> op, status |-> "merging", error |-> "", options |-> o, start |-> start,
   logs |-> [k \in ToSet(names) |-> all_logs[k]],
   m |-> Given([k \in ToSet(names) |->
                 Given(set_input(LogOf(k), start, Input(op, o)), LAMBDA s : Stream(op, s, o))],
           LAMBDA streams :
             Merger(streams, names, op = "grep", IF op = "count" THEN 0 ELSE <<>>, o.p))]

(* Only grep lets a time that can not be parsed come to the user as an error. *)
Searched(op, o, names) ==
  IF o.s = <<>> THEN Done(op, "")
  ELSE IF names = <<>> THEN Done(op, "no log files added")
  ELSE IF o.f.is = "bad" THEN Done(op, IF op = "grep" THEN "error" ELSE "")
  ELSE Given(min_start_tm(names, o.f), LAMBDA start : Searching(op, o, names, start))
Search(cmd) ==
  /\ UNCHANGED <<all_logs, selected_logs>>
  /\ IF cmd.args = <<>> THEN task' = Done(cmd.op, "could not understand")
     ELSE IF "word" \in DOMAIN cmd.args THEN task' = Done(cmd.op, "do not understand")
     ELSE \E o \in {Options(cmd)} : \E names \in {get_logs_by_index(o.n)} :
            task' = Searched(cmd.op, o, names)

(* A page of a histogram is shown up to the first with no column or with     *)
(* columns of two units.                                                     *)
show_log_latency(m, page) ==
  /\ "ops/sec" \in DOMAIN page[m.order[1]] /\ page[m.order[1]]["ops/sec"] # <<>>
  /\ Cardinality(UNION {DOMAIN page[k] : k \in DOMAIN page} \ {"ops/sec"}) <= 1
Stops(m) ==
  /\ task.op = "histogram" /\ Len(m.pages) > Len(task.m.pages)
  /\ ~show_log_latency(m, Last(m.pages))

MergeStep ==
  LET m == _server_log_output_merger(task.m)
      over == ~MoreToMerge(task.m) \/ m.raised \/ Stops(m)
  IN  /\ Running
      /\ task' = [task EXCEPT !.m = m, !.status = IF over THEN "done" ELSE @]
      /\ UNCHANGED <<files, all_logs, selected_logs>>

Prompt ==
  /\ task.status = "done"
  /\ task' = Ready
  /\ UNCHANGED <<files, all_logs, selected_logs>>

Command(cmd) ==
  /\ task = Ready
  /\ CASE cmd.op = "add" -> AddController(cmd.paths)
       [] cmd.op = "select" -> SelectController(cmd.indices, cmd.all)
       [] cmd.op = "remove" -> RemoveController(cmd.indices, cmd.all)
       [] OTHER -> Search(cmd)
  /\ UNCHANGED files

LogInit(path) ==
  /\ files \in Logs
  /\ LET logs == _add_log_file(path, [all |-> <<>>, selected |-> <<>>, added |-> 0, spins |-> FALSE])
     IN  /\ all_logs = logs.all /\ selected_logs = logs.selected
         /\ task = IF logs.spins THEN Spinning ELSE Ready

-----------------------------------------------------------------------------
(* Properties *)

Finished(op) == task.op = op /\ task.status = "done" /\ "m" \in DOMAIN task
Whole(op) == Finished(op) /\ ~task.m.raised /\ ~task.options.u

FileOf(k) == files[task.logs[k]].lines
Hours(k) == {HourOf(FileOf(k), i) : i \in {j \in DOMAIN FileOf(k) : Timed(FileOf(k), j)}}

(* The start lies in an hour without lines, and all later ones are in the    *)
(* last hour of the log: the log is sought to its end.                       *)
SoughtPast(k) ==
  LET from == task.start \div HOUR
  IN  from > Min(Hours(k)) /\ {h \in Hours(k) : h >= from} = {Max(Hours(k))} \ {from}

(* The lines a command is about. *)
InWindow(tm) ==
  tm # NoTime /\ tm >= task.start /\ (task.options.d # 0 => tm <= task.start + task.options.d)
IsWanted(line) ==
  LET has == ToSet(line.has)
      all == ToSet(task.options.s)
  IN  /\ IF task.options.a THEN all \subseteq has ELSE all \cap has # {}
      /\ has \cap task.options.v = {}
Matching(k) == SelectSeq(FileOf(k), LAMBDA l : InWindow(l.tm) /\ IsWanted(l))

(* grep shows every matching line of every log it was for once, those of a   *)
(* log in the order of the log and all of them in the order of time, however *)
(* pages end: the index, the seek, the blocks that are passed over and the   *)
(* merger lose or repeat none.  Excepted is the log that is sought past.     *)
GrepShowsTheLines ==
  Whole("grep") =>
    LET out == FlattenSeq(task.m.pages)
    IN  /\ \A i \in DOMAIN out : i > 1 => out[i - 1].line.tm <= out[i].line.tm
        /\ \A k \in DOMAIN task.logs :
             ~SoughtPast(k) =>
               LET mine == SelectSeq(out, LAMBDA r : r.key = k)
               IN  [i \in DOMAIN mine |-> mine[i].line] = Matching(k)

Pages == task.m.pages
Tabulated == task.op \in {"count", "diff"} /\ "m" \in DOMAIN task

(* The times of a page that were on none before.                             *)
NewTimes(i) == Times(Pages[i]) \ UNION {Times(Pages[j]) : j \in 1 .. i - 1}
SameCells(one, other, k) ==
  \A c \in DOMAIN one[k] \cap DOMAIN other[k] :
    \A tm \in DOMAIN one[k][c] \cap DOMAIN other[k][c] \cap Nat : one[k][c][tm] = other[k][c][tm]

(* The table a page of a count or a diff becomes has one row of times: the   *)
(* merger gives a log the default value at the times of the others, in every *)
(* page, the last one as well, and a page has later times than those before. *)
(* All logs of a count have totals in the end.  The last page of a diff can  *)
(* show again what was on a page before, with the totals; then it shows the  *)
(* same there, and no other page repeats a time.                             *)
PagesAlike ==
  Tabulated =>
    /\ \A i \in DOMAIN Pages : HaveTimes(Pages[i], NewTimes(i))
    /\ task.op = "count" => \A i \in DOMAIN Pages : SameTotals(Pages[i])
    /\ \A i, j \in DOMAIN Pages :
         i < j =>
           /\ \A x \in Times(Pages[i]), y \in NewTimes(j) : x < y
           /\ Times(Pages[i]) \cap Times(Pages[j]) # {} =>
                task.op = "diff" /\ task.status = "done" /\ j = Len(Pages)
           /\ \A k \in DOMAIN Pages[i] : SameCells(Pages[i], Pages[j], k)

(* When a count or a diff is over, every row that the search of a log has    *)
(* made is on one of the pages, and its totals are: no round loses the rows  *)
(* of a log that has to wait for the others, no page those it began with.    *)
EveryRowShown ==
  Tabulated /\ task.status = "done" =>
    \A k \in DOMAIN task.m.streams : \A i \in DOMAIN task.m.streams[k] :
      \E n \in DOMAIN Pages : Shows(Pages[n], k, task.m.streams[k][i])

CellsOf(k, c) ==   \* all cells of a log in a column, over the pages
  FoldLeft(LAMBDA all, page : Cell(page[k], c) @@ all, <<>>, Pages)
TimesOf(k, c) == {tm \in DOMAIN CellsOf(k, c) : tm >= 0}

(* count assigns every matching line to one slice: a slice counts those      *)
(* after its start up to its end, the first one those at its start as well,  *)
(* the total of a log is the number of its matching lines, and the slices of *)
(* a log follow each other.                                                  *)
CountsAddUp ==
  Whole("count") =>
    /\ FitToMerge(task.m)
    /\ \A k \in DOMAIN task.logs :
         LET in(start, l) == /\ l.tm <= start + task.options.t
                             /\ IF start = task.start THEN l.tm >= start ELSE l.tm > start
             at(start) == Len(SelectSeq(Matching(k), LAMBDA l : in(start, l)))
         IN  ~SoughtPast(k) =>
               /\ CellsOf(k, "count")[END] = Len(Matching(k))
               /\ \A tm \in TimesOf(k, "count") : CellsOf(k, "count")[tm] = at(tm)

InOrder_(line) == contains_substrings_in_order(line, task.options.s)
Ordered(lines) == SelectSeq(lines, InOrder_)
HasValues(lines) == \E n \in DOMAIN lines : HasValue(lines[n])
FirstValued(lines) == SelectSeq(lines, HasValue)[1]
SliceOf(line) == line.tm - ((line.tm - task.start) % task.options.t)
ValueAt(lines, tm) ==
  FoldLeft(LAMBDA sum, l : IF SliceOf(l) = tm THEN sum + l.val[1] ELSE sum, 0, lines)
ValueBefore(lines, taken, tm) ==
  LET seen == {SliceOf(l) : l \in ToSet(lines)} \cap (0 .. tm - 1)
  IN  IF seen = {} THEN 0 ELSE ValueAt(taken, Max(seen))

(* The slices of a diff follow each other.  Without a limit and without      *)
(* slices left out every slice with values is shown, its value is the sum of *)
(* those in it and its difference is that to the slice before in which the   *)
(* key was seen, which counts as nothing when the key had no value there.  A *)
(* log whose first matching line has the strings in another order shows      *)
(* nothing.                                                                  *)
DiffsAddUp ==
  /\ Whole("diff") => FitToMerge(task.m)
  /\ Whole("diff") /\ task.options.l = 0 /\ task.options.k = 1 =>
       \A k \in DOMAIN task.logs :
         ~SoughtPast(k) =>
           LET last == process_end_tm(ServerLog(FileOf(k)), task.start, task.options.d)
               shown == {tm \in TimesOf(k, "value") : CellsOf(k, "value")[tm] # <<>>}
           IN  \E matching \in {Ordered(Matching(k))} :
                 LET first == FirstValued(matching)
                     lines == SelectSeq(matching, LAMBDA l : l.tm < last \/ l = first)
                     taken == SelectSeq(lines, LAMBDA l : l.shape = first.shape)
                 IN  IF ~HasValues(matching) \/ ~InOrder_(Matching(k)[1]) THEN shown = {}
                     ELSE /\ shown = {SliceOf(l) : l \in ToSet(taken)}
                          /\ \A tm \in shown :
                               /\ CellsOf(k, "value")[tm][1] = ValueAt(taken, tm)
                               /\ CellsOf(k, "diff")[tm][1] =
                                    ValueAt(taken, tm) - ValueBefore(lines, taken, tm)

(* The histogram of a server that was not restarted: the share of operations *)
(* above a bucket is between none and all, does not grow with the bucket,    *)
(* and no average is above its maximum.                                      *)
Restarted(k) ==
  \E i, j \in DOMAIN FileOf(k) :
    /\ i < j /\ FileOf(k)[i].hist # "" /\ FileOf(k)[i].hist = FileOf(k)[j].hist
    /\ FileOf(k)[i].ns = FileOf(k)[j].ns /\ FileOf(k)[i].total > FileOf(k)[j].total
SharesOfAll ==
  Whole("histogram") =>
    \A i \in DOMAIN Pages, k \in DOMAIN task.logs, c \in {"ms", "us"} :
      LET cells == Cell(Pages[i][k], c)
      IN  ~Restarted(k) =>
            /\ \A tm \in DOMAIN cells : \A b \in DOMAIN cells[tm] :
                 /\ cells[tm][b] \in 0 .. 100
                 /\ \A a \in DOMAIN cells[tm] : a < b => cells[tm][a] >= cells[tm][b]
            /\ {END, MAXIMUM} \subseteq DOMAIN cells =>
                 \A b \in DOMAIN cells[END] : cells[END][b] <= cells[MAXIMUM][b]
=============================================================================
