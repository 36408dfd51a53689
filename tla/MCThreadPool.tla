--------------------------- MODULE MCThreadPool ---------------------------
(***************************************************************************)
(* A small instance of ThreadPool for TLC.                                 *)
(***************************************************************************)
EXTENDS ThreadPool

CONSTANTS ok, boom

MCJobs == {ok, boom}

\* One worker: a panicking job, then a job that returns.
LostProgram == <<boom, ok>>

====
