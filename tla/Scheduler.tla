----------------------------- MODULE Scheduler -----------------------------
(***************************************************************************)
(* O2Scheduler and the thread shell of O2Job (O2Scheduler.hpp, O2Job.hpp). *)
(*                                                                         *)
(* The scheduler thread looks at every job once a second and starts a      *)
(* thread for each that is active, not working and due; the window thread  *)
(* stops the scheduler, waits for the jobs, and starts it again.  The      *)
(* fields of a job are read and written one at a time, under a lock of the *)
(* job or (LastTime) under none, so what the scheduler read first may have *)
(* changed when it reads the next.                                         *)
(*                                                                         *)
(* Every job is added before the first Start (main.cpp), and nobody calls  *)
(* DoNow.                                                                  *)
(***************************************************************************)
EXTENDS Naturals, FiniteSets

CONSTANTS
    Job,            \* the jobs in the vector
    RunStartup,     \* jobs that are due as soon as the scheduler starts
    SelfStopping,   \* jobs that may deactivate themselves
    NoJob,
    MaxLate,        \* threads of a job that are about to end (bound of the model)
    MaxStarts       \* calls of Start (bound of the model)

ASSUME SchedulerAssumption ==
    /\ RunStartup \subseteq Job
    /\ SelfStopping \subseteq Job
    /\ NoJob \notin Job
    /\ MaxLate \in Nat \ {0}
    /\ MaxStarts \in Nat

VARIABLES
    schedulerActive, \* O2Scheduler::Active
    thread,         \* where the scheduler thread is; "none" when there is no handle
    todo,           \* the jobs this pass has still to look at
    job,            \* the job it is looking at
    jobActive,      \* Active of each job
    working,        \* Working of each job
    due,            \* whether Interval has passed since LastTime
    running,        \* how many threads are in JobThreadFunc of the job
    late,           \* how many have left it and not set LastTime again
    stop,           \* where the window thread is
    starts          \* calls of Start so far

threadVars == <<thread, todo, job>>
jobVars == <<jobActive, working, due, running, late>>
schedulerVars == <<schedulerActive, threadVars, jobVars, stop, starts>>

SchedulerTypeOK ==
    /\ schedulerActive \in BOOLEAN
    /\ thread \in {"none", "check", "visit", "working", "due", "done"}
    /\ todo \subseteq Job
    /\ job \in Job \cup {NoJob}
    /\ thread \in {"working", "due"} => job \in Job
    /\ jobActive \in [Job -> BOOLEAN]
    /\ working \in [Job -> BOOLEAN]
    /\ due \in [Job -> BOOLEAN]
    /\ running \in [Job -> Nat]
    /\ late \in [Job -> 0..MaxLate]
    /\ stop \in {"stopped", "run", "restart", "join", "deactivate", "wait"}
    /\ starts \in 0..MaxStarts

(* Add has set LastTime of every job. *)
SchedulerInit ==
    /\ schedulerActive = FALSE
    /\ thread = "none"
    /\ todo = {}
    /\ job = NoJob
    /\ jobActive = [j \in Job |-> FALSE]
    /\ working = [j \in Job |-> FALSE]
    /\ due = [j \in Job |-> FALSE]
    /\ running = [j \in Job |-> 0]
    /\ late = [j \in Job |-> 0]
    /\ stop = "stopped"
    /\ starts = 0

-----------------------------------------------------------------------------
(* The window thread: Start and Stop. *)

Start ==
    /\ stop = "stopped"
    /\ starts < MaxStarts
    /\ jobActive' = [j \in Job |-> TRUE]
    /\ due' = [j \in Job |-> j \in RunStartup]
    /\ schedulerActive' = TRUE
    /\ thread' = "check"
    /\ stop' = "run"
    /\ starts' = starts + 1
    /\ UNCHANGED <<todo, job, working, running, late>>

(* The window thread asks for the global address again, and goes on to     *)
(* stop everything (main.cpp).                                             *)
Reactivate(j) ==
    /\ stop = "run"
    /\ j \in SelfStopping
    /\ ~jobActive[j]
    /\ jobActive' = [jobActive EXCEPT ![j] = TRUE]
    /\ stop' = "restart"
    /\ UNCHANGED <<schedulerActive, threadVars, working, due, running, late, starts>>

StopBegin ==
    /\ stop \in {"run", "restart"}
    /\ schedulerActive' = FALSE
    /\ stop' = "join"
    /\ UNCHANGED <<threadVars, jobVars, starts>>

\* Bug: the scheduler thread is not waited for.
StopJoin_NoWait ==
    /\ stop = "join"
    /\ stop' = "deactivate"
    /\ UNCHANGED <<schedulerActive, threadVars, jobVars, starts>>

StopJoin ==
    /\ stop = "join"
    /\ thread = "done"
    /\ thread' = "none"
    /\ stop' = "deactivate"
    /\ UNCHANGED <<schedulerActive, todo, job, jobVars, starts>>

StopDeactivate ==
    /\ stop = "deactivate"
    /\ jobActive' = [j \in Job |-> FALSE]
    /\ stop' = "wait"
    /\ UNCHANGED <<schedulerActive, threadVars, working, due, running, late, starts>>

StopWait ==
    /\ stop = "wait"
    /\ \A j \in Job : ~working[j]
    /\ stop' = "stopped"
    /\ UNCHANGED <<schedulerActive, threadVars, jobVars, starts>>

StopSteps == StopJoin \/ StopDeactivate \/ StopWait

-----------------------------------------------------------------------------
(* The scheduler thread. *)

(* Active is tested once a second; then every job is looked at. *)
Check ==
    /\ thread = "check"
    /\ IF schedulerActive THEN thread' = "visit" /\ todo' = Job
                          ELSE thread' = "done" /\ todo' = {}
    /\ UNCHANGED <<schedulerActive, job, jobVars, stop, starts>>

PassEnd ==
    /\ thread = "visit"
    /\ todo = {}
    /\ thread' = "check"
    /\ UNCHANGED <<schedulerActive, todo, job, jobVars, stop, starts>>

(* IsActive of the next job. *)
Visit(j) ==
    /\ thread = "visit"
    /\ j \in todo
    /\ todo' = todo \ {j}
    /\ IF jobActive[j] THEN thread' = "working" /\ job' = j
                       ELSE UNCHANGED <<thread, job>>
    /\ UNCHANGED <<schedulerActive, jobVars, stop, starts>>

(* IsWorking. *)
TestWorking ==
    /\ thread = "working"
    /\ IF working[job] THEN thread' = "visit" /\ job' = NoJob
                       ELSE thread' = "due" /\ UNCHANGED job
    /\ UNCHANGED <<schedulerActive, todo, jobVars, stop, starts>>

(* LastTime: not long enough ago ... *)
TestDue ==
    /\ thread = "due"
    /\ ~due[job]
    /\ thread' = "visit"
    /\ job' = NoJob
    /\ UNCHANGED <<schedulerActive, todo, jobVars, stop, starts>>

(* ... or a thread is started for the job. *)
Launch ==
    /\ thread = "due"
    /\ due[job]
    /\ due' = [due EXCEPT ![job] = FALSE]
    /\ working' = [working EXCEPT ![job] = TRUE]
    /\ running' = [running EXCEPT ![job] = @ + 1]
    /\ thread' = "visit"
    /\ job' = NoJob
    /\ UNCHANGED <<schedulerActive, todo, jobActive, late, stop, starts>>

Scheduler == Check \/ PassEnd \/ (\E j \in Job : Visit(j)) \/ TestWorking \/ TestDue \/ Launch

-----------------------------------------------------------------------------
(* The thread of job j. *)

(* JobThreadFunc of GetGlobalIP when it has succeeded, and of the jobs     *)
(* that publish when there is no port.                                     *)
SelfStop(j) ==
    /\ j \in SelfStopping
    /\ running[j] > 0
    /\ jobActive' = [jobActive EXCEPT ![j] = FALSE]
    /\ UNCHANGED <<schedulerActive, threadVars, working, due, running, late, stop, starts>>

\* Bug: Working is not reset.
JobDone_StillWorking(j) ==
    /\ running[j] > 0
    /\ late[j] < MaxLate
    /\ running' = [running EXCEPT ![j] = @ - 1]
    /\ late' = [late EXCEPT ![j] = @ + 1]
    /\ UNCHANGED <<schedulerActive, threadVars, jobActive, working, due, stop, starts>>

(* JobThreadFunc returns, SetWorking(false). *)
JobDone(j) ==
    /\ running[j] > 0
    /\ late[j] < MaxLate
    /\ running' = [running EXCEPT ![j] = @ - 1]
    /\ working' = [working EXCEPT ![j] = FALSE]
    /\ late' = [late EXCEPT ![j] = @ + 1]
    /\ UNCHANGED <<schedulerActive, threadVars, jobActive, due, stop, starts>>

(* SetLastTime once more, when the job may already be at work again. *)
JobLast(j) ==
    /\ late[j] > 0
    /\ due' = [due EXCEPT ![j] = FALSE]
    /\ late' = [late EXCEPT ![j] = @ - 1]
    /\ UNCHANGED <<schedulerActive, threadVars, jobActive, working, running, stop, starts>>

(* Interval passes. *)
Tick(j) ==
    /\ ~due[j]
    /\ due' = [due EXCEPT ![j] = TRUE]
    /\ UNCHANGED <<schedulerActive, threadVars, jobActive, working, running, late, stop, starts>>

SchedulerNext ==
    \/ Start \/ StopBegin \/ StopSteps
    \/ Scheduler
    \/ \E j \in Job :
          Reactivate(j) \/ SelfStop(j) \/ JobDone(j) \/ JobLast(j) \/ Tick(j)

SchedulerSpec == SchedulerInit /\ [][SchedulerNext]_schedulerVars

(* Threads run, every JobThreadFunc returns (Client answers every request  *)
(* and the loops of the jobs are finite) and time passes.  Nothing forces  *)
(* a job to stop itself or anybody to stop or start the scheduler.         *)
SchedulerFairness ==
    /\ WF_schedulerVars(Scheduler)
    /\ WF_schedulerVars(StopSteps)
    /\ \A j \in Job :
          /\ WF_schedulerVars(JobDone(j))
          /\ WF_schedulerVars(JobLast(j))
          /\ WF_schedulerVars(Tick(j))

SchedulerFairSpec == SchedulerSpec /\ SchedulerFairness

-----------------------------------------------------------------------------
(* Properties. *)

(* Working tells whether a thread is in JobThreadFunc, and there is never  *)
(* a second one: the jobs use their members without a lock.                *)
OneThreadPerJob ==
    \A j \in Job : running[j] = IF working[j] THEN 1 ELSE 0

(* When Stop has returned no job is at work and none is started until      *)
(* Start: the window thread goes on to stop the client and to delete what  *)
(* the jobs use.                                                           *)
StoppedIsQuiet ==
    stop = "stopped" => \A j \in Job : running[j] = 0

(* The threads of the jobs are in the scheduler's hands: one for each job  *)
(* that works, and none once Stop has returned.                            *)
JobsInHand == OneThreadPerJob /\ StoppedIsQuiet

(* A job that stays active is run again and again while the scheduler      *)
(* runs, though the end of one run and the start of the next both write    *)
(* LastTime.                                                               *)
ActiveJobRuns ==
    \A j \in Job : []<>(running[j] > 0 \/ ~jobActive[j] \/ stop # "run")

(* Stop returns. *)
StopReturns == stop = "join" ~> stop = "stopped"
=============================================================================
