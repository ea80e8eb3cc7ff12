------------------------------ MODULE Offline ------------------------------
(* asadm without a cluster: the log analyzer or the collectinfo analyzer, as *)
(* it was started (asadm.py).                                                *)
EXTENDS LogAnalyzer, Analyzer

CONSTANT Paths   \* where logs are looked for at the start

VARIABLE mode   \* which analyzer it is

vars == <<mode, logVars, cinfoVars>>

NoCollectinfo ==
  /\ cinfo_path = "" /\ selected_cinfo_logs = Nothing /\ license_data_usage = Nothing
  /\ report = [Blank EXCEPT !.op = "exit"] /\ health_input = Nothing
NoLogs ==
  /\ files = Nothing /\ all_logs = Nothing /\ selected_logs = Nothing
  /\ task = [Done("", "") EXCEPT !.status = "exit"]

Init ==
  \/ mode = "log-analyzer" /\ NoCollectinfo /\ \E path \in Paths : LogInit(path)
  \/ mode = "collectinfo-analyzer" /\ NoLogs /\ \E path \in DOMAIN Collected : CollectinfoLogHandler(path)

InLogs(A) == A /\ UNCHANGED <<mode, cinfoVars>>
InCollectinfo(A) == A /\ UNCHANGED <<mode, logVars>>

Next ==
  \/ InLogs(MergeStep)
  \/ InLogs(Prompt)
  \/ \E cmd \in Commands : InLogs(Command(cmd))
  \/ \E q \in Questions : InCollectinfo(Answer(q))
  \/ InCollectinfo(Read)

Spec == Init /\ [][Next]_vars /\ WF_vars(InLogs(MergeStep))

(* A search of the logs comes to its end, whatever the logs hold, the pages  *)
(* it makes and the slices it skips: the generators of the logs run out and  *)
(* the merger is never left with a log that it does not advance.             *)
Settles == Running ~> ~Running
=============================================================================
