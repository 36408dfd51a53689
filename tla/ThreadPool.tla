---------------------------- MODULE ThreadPool ----------------------------
(***************************************************************************)
(* The hello_server thread pool (src/homework/src/hello_server/            *)
(* thread_pool.rs): a job counter, an unbounded MPMC channel of jobs,      *)
(* worker threads that receive and run them, a panic hook that counts a   *)
(* panicking job as finished, and a watchdog that respawns workers for    *)
(* the panics it counts.                                                   *)
(*                                                                         *)
(* The pool is the lazy_static THREADPOOL, which is never dropped, so     *)
(* shutdown stays false: the hook always runs, the watchdog never leaves  *)
(* its loop and ThreadPool::drop never runs.  One client thread calls     *)
(* execute for each job of its program and then join.  A job is a model   *)
(* value; those in Panicking panic when they run.  The watchdog's sleep   *)
(* and the panic list's bookkeeping (time, message) change no control.    *)
(***************************************************************************)
EXTENDS Integers, Sequences, FiniteSets

CONSTANTS
    Size,       \* the pool's size, THREADPOOL = ThreadPool::_new(Size); > 0
    Jobs,       \* the jobs, model values
    Program,    \* the jobs the client executes, in order, before join
    Panicking   \* the jobs (a subset of Jobs) whose closure panics

\* Every panic may respawn at most one worker.
MaxWorkers == Size + Len(Program)
WorkerIds == 1 .. MaxWorkers

VARIABLES
    jobCount,   \* ThreadPoolInner::job_count
    chan,       \* the jobs sent and not yet received, oldest first
    wstate,     \* each worker: "none" (not spawned), "idle" (in recv),
                \* the job it runs, or "dead" (unwound by a panic)
    spawned,    \* workers.len()
    pcount,     \* _panic_info.count
    plist,      \* _panic_info.list: the jobs that panicked, in order
    wd,         \* the watchdog: "check" or "drain" (in its while loop)
    sent        \* the jobs the client has executed; Len(Program) + 1
                \* once its join has returned

vars == <<jobCount, chan, wstate, spawned, pcount, plist, wd, sent>>

Running(w) == wstate[w] \in Jobs

\* ThreadPool::_new(Size): the watchdog, then Size workers blocked in recv.
Init ==
    /\ jobCount = 0
    /\ chan = <<>>
    /\ wstate = [w \in WorkerIds |-> IF w <= Size THEN "idle" ELSE "none"]
    /\ spawned = Size
    /\ pcount = 0
    /\ plist = <<>>
    /\ wd = "check"
    /\ sent = 0

\* execute: start_job, then send the job on the unbounded channel.
Execute ==
    /\ sent < Len(Program)
    /\ jobCount' = jobCount + 1
    /\ chan' = Append(chan, Program[sent + 1])
    /\ sent' = sent + 1
    /\ UNCHANGED <<wstate, spawned, pcount, plist, wd>>

\* join, i.e. wait_empty: sleep until job_count reads 0, then return.
Join ==
    /\ sent = Len(Program)
    /\ jobCount = 0
    /\ sent' = sent + 1
    /\ UNCHANGED <<jobCount, chan, wstate, spawned, pcount, plist, wd>>

\* A worker's recv returns the oldest job.
Recv(w) ==
    /\ wstate[w] = "idle"
    /\ chan # <<>>
    /\ wstate' = [wstate EXCEPT ![w] = Head(chan)]
    /\ chan' = Tail(chan)
    /\ UNCHANGED <<jobCount, spawned, pcount, plist, wd, sent>>

\* The closure returns; the worker calls finish_job and loops to recv.
Complete(w) ==
    /\ Running(w)
    /\ wstate[w] \notin Panicking
    /\ jobCount' = jobCount - 1
    /\ wstate' = [wstate EXCEPT ![w] = "idle"]
    /\ UNCHANGED <<chan, spawned, pcount, plist, wd, sent>>

\* The closure panics: the hook pushes the panic on the list, increments
\* the panic count and calls finish_job; then the worker thread unwinds
\* out of its loop and is gone.
Panic(w) ==
    /\ Running(w)
    /\ wstate[w] \in Panicking
    /\ plist' = Append(plist, wstate[w])
    /\ pcount' = pcount + 1
    /\ jobCount' = jobCount - 1
    /\ wstate' = [wstate EXCEPT ![w] = "dead"]
    /\ UNCHANGED <<chan, spawned, wd, sent>>

\* The watchdog's loop sees a nonzero panic count.
WatchCheck ==
    /\ wd = "check"
    /\ pcount > 0
    /\ wd' = "drain"
    /\ UNCHANGED <<jobCount, chan, wstate, spawned, pcount, plist, sent>>

\* while count.fetch_sub(1) > 1 { _push_worker }: a respawn for every
\* decrement but the last.
WatchDrain ==
    /\ wd = "drain"
    /\ pcount' = pcount - 1
    /\ IF pcount > 1
         THEN /\ spawned < MaxWorkers
              /\ spawned' = spawned + 1
              /\ wstate' = [wstate EXCEPT ![spawned + 1] = "idle"]
              /\ UNCHANGED wd
         ELSE /\ wd' = "check"
              /\ UNCHANGED <<spawned, wstate>>
    /\ UNCHANGED <<jobCount, chan, plist, sent>>

\* The client has joined and nothing is left to run: the workers block in
\* recv and the watchdog sleeps, for good.
Quiet ==
    /\ sent = Len(Program) + 1
    /\ wd = "check" /\ pcount = 0
    /\ \A w \in WorkerIds : ~Running(w)
    /\ UNCHANGED vars

Client == Execute \/ Join

Worker(w) == Recv(w) \/ Complete(w) \/ Panic(w)

Watchdog == WatchCheck \/ WatchDrain

Next == Client \/ (\E w \in WorkerIds : Worker(w)) \/ Watchdog \/ Quiet

Spec == Init /\ [][Next]_vars

\* Every thread is an OS thread; the waits (recv, join's sleep loop, the
\* watchdog's sleep) are re-tried forever, so a step that stays enabled is
\* taken.
FairSpec ==
    /\ Spec
    /\ WF_vars(Client)
    /\ WF_vars(Watchdog)
    /\ \A w \in WorkerIds : WF_vars(Worker(w))

-----------------------------------------------------------------------------

\* join returns: after the client has executed its jobs, job_count
\* eventually reaches 0 and join returns, panicking jobs or not.
JoinReturns == sent = Len(Program) ~> sent = Len(Program) + 1

=============================================================================
