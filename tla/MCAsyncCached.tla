---------------------------- MODULE MCAsyncCached ----------------------------
(* The calls and runs of AsyncCached for TLC; time and writes end.         *)
EXTENDS AsyncCached
=============================================================================
