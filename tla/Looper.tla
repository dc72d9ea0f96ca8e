------------------------------- MODULE Looper -------------------------------
(***************************************************************************)
(* looper.c: a thread that repeats a function, and the thread that starts, *)
(* pauses, resumes and stops it.  The two share desired_state and          *)
(* actual_state under the looper's lock, and the repeated function runs    *)
(* with that lock held, so whoever takes the lock waits for the function   *)
(* to return.  Every other use of the lock in looper.c is one short        *)
(* critical section and is one atomic step here.  Sleeping is not timed.   *)
(***************************************************************************)
EXTENDS Naturals

CONSTANTS Datas, MaxRuns   \* data pointers; where the run counter saturates

ASSUME RunsAssumption == MaxRuns \in Nat \ {0, 1}

VARIABLES
  desired,    \* l->desired_state
  actual,     \* l->actual_state
  nowait,     \* l->nowait, set before looper_start and never reset
  data,       \* l->data
  tpc,        \* where the looper's thread is in looper_function
  tdesired,   \* its local copy of the desired state
  tactual,    \* its local actual state
  tdata,      \* the argument the function was last called with
  caller,     \* where the controlling thread is in looper.c
  runs        \* calls of the function begun since desired was last set

thread     == <<tpc, tdesired, tactual, tdata>>
looperVars == <<desired, actual, nowait, data, thread, caller, runs>>

States == {"not_running", "running", "paused", "stopped"}

\* After it looper_nowait was called or not.
looper_init ==
  /\ desired = "not_running" /\ actual = "not_running"
  /\ nowait \in BOOLEAN
  /\ data \in Datas
  /\ tpc = "none" /\ tdesired = "not_running" /\ tactual = "not_running"
  /\ tdata = data
  /\ caller = "idle"
  /\ runs = 0

\* The lock is held across steps by the repeated function alone.
LockFree == tpc # "function"

-----------------------------------------------------------------------------
(* The looper's thread: looper_function.                                   *)

\* while (desired_state != stopped) { if (desired_state != paused) ...
RunFunction ==
  /\ tpc = "loop" /\ tdesired \notin {"stopped", "paused"}
  /\ tpc' = "function" /\ tactual' = "running" /\ tdata' = data
  /\ runs' = IF runs < MaxRuns THEN runs + 1 ELSE runs
  /\ UNCHANGED <<desired, actual, nowait, data, tdesired, caller>>

FunctionReturns ==
  /\ tpc = "function"
  /\ tpc' = "update"
  /\ UNCHANGED <<desired, actual, nowait, data, tdesired, tactual, tdata, caller, runs>>

StayPaused ==
  /\ tpc = "loop" /\ tdesired = "paused"
  /\ tpc' = "update" /\ tactual' = "paused"
  /\ UNCHANGED <<desired, actual, nowait, data, tdesired, tdata, caller, runs>>

LeaveLoop ==
  /\ tpc = "loop" /\ tdesired = "stopped"
  /\ tpc' = "last_update" /\ tactual' = "stopped"
  /\ UNCHANGED <<desired, actual, nowait, data, tdesired, tdata, caller, runs>>

\* Mutant: the desired state is not read.
UpdateIgnoresDesired ==
  /\ tpc \in {"update", "last_update"}
  /\ actual' = tactual
  /\ tpc' = IF tpc = "update" THEN "loop" ELSE "exited"
  /\ UNCHANGED <<desired, nowait, data, tdesired, tactual, tdata, caller, runs>>

\* looper_update_state, then usleep
UpdateState ==
  /\ tpc \in {"update", "last_update"}
  /\ tdesired' = desired /\ actual' = tactual
  /\ tpc' = IF tpc = "update" THEN "loop" ELSE "exited"
  /\ UNCHANGED <<desired, nowait, data, tactual, tdata, caller, runs>>

ThreadStep == RunFunction \/ FunctionReturns \/ StayPaused \/ LeaveLoop \/ UpdateState

-----------------------------------------------------------------------------
(* The controlling thread.                                                 *)

\* looper_start: the desired state is set without the lock, then the function
\* to run first is called; there is no thread yet
StartCalled ==
  /\ caller = "idle" /\ tpc = "none"
  /\ desired' = "running" /\ runs' = 0
  /\ caller' = "first"
  /\ UNCHANGED <<actual, nowait, data, thread>>

\* pthread_create of looper_function
ThreadCreated ==
  /\ caller = "first"
  /\ tpc' = "loop" /\ tdesired' = "running" /\ tactual' = "not_running"
  /\ caller' = IF nowait THEN "idle" ELSE "wait_running"
  /\ UNCHANGED <<desired, actual, nowait, data, tdata, runs>>

\* looper_set_desired_state, the first half of pause, resume and stop
SetDesired(state, next) ==
  /\ caller = "idle" /\ tpc # "none" /\ LockFree
  /\ desired' = state /\ runs' = 0
  /\ caller' = next
  /\ UNCHANGED <<actual, nowait, data, thread>>

\* Mutant: looper_pause does not wait.
PauseNoWait == SetDesired("paused", "idle")

looper_pause  == SetDesired("paused",  IF nowait THEN "idle" ELSE "wait_paused")
looper_resume == SetDesired("running", IF nowait THEN "idle" ELSE "wait_running")
looper_stop   == SetDesired("stopped", "join")

\* looper_wait_for_actual_state reads the actual state under the lock, again
\* and again; a read that finds another state changes nothing
WaitEnds ==
  /\ caller \in {"wait_running", "wait_paused"} /\ LockFree
  /\ actual = IF caller = "wait_paused" THEN "paused" ELSE "running"
  /\ caller' = "idle"
  /\ UNCHANGED <<desired, actual, nowait, data, thread, runs>>

\* Mutant: looper_stop does not wait for the thread.
StopWithoutJoin ==
  /\ caller = "join"
  /\ caller' = "last"
  /\ UNCHANGED <<desired, actual, nowait, data, thread, runs>>

\* pthread_join returns, then the function to run last is called
Joined ==
  /\ caller = "join" /\ tpc = "exited"
  /\ tpc' = "none" /\ caller' = "last"
  /\ UNCHANGED <<desired, actual, nowait, data, tdesired, tactual, tdata, runs>>

LastFunctionReturns ==
  /\ caller = "last"
  /\ caller' = "idle"
  /\ UNCHANGED <<desired, actual, nowait, data, thread, runs>>

\* Mutant: the data pointer is replaced without the lock.
UpdateDataNoLock(d) ==
  /\ caller = "idle" /\ data' = d
  /\ UNCHANGED <<desired, actual, nowait, thread, caller, runs>>

looper_update_data(d) ==
  /\ caller = "idle" /\ LockFree
  /\ data' = d
  /\ UNCHANGED <<desired, actual, nowait, thread, caller, runs>>

CallBegins ==
  \/ StartCalled \/ looper_pause \/ looper_resume \/ looper_stop
  \/ \E d \in Datas : looper_update_data(d)

LooperNext ==
  \/ ThreadStep
  \/ CallBegins
  \/ ThreadCreated \/ WaitEnds \/ Joined \/ LastFunctionReturns

\* The thread always gets on and its function returns.  A controller that
\* waits for the lock gets it: the thread sleeps 10 ms without it in each
\* iteration, which the mutex needs strong fairness to express.  Nobody has to
\* call anything.
LooperFairness ==
  /\ WF_looperVars(ThreadStep)
  /\ WF_looperVars(ThreadCreated \/ Joined \/ LastFunctionReturns)
  /\ SF_looperVars(WaitEnds)

LooperSpec == looper_init /\ [][LooperNext]_looperVars /\ LooperFairness

-----------------------------------------------------------------------------
(* Properties.                                                             *)

LooperTypeOK ==
  /\ desired \in States /\ actual \in States
  /\ nowait \in BOOLEAN
  /\ data \in Datas /\ tdata \in Datas
  /\ tpc \in {"none", "loop", "function", "update", "last_update", "exited"}
  /\ tdesired \in States /\ tactual \in States
  /\ caller \in {"idle", "first", "wait_running", "wait_paused", "join", "last"}
  /\ runs \in 0..MaxRuns

\* When looper_pause has returned, the function is not running and does not
\* run before looper_resume is called, although the thread that was asked to
\* pause may have been anywhere in its loop (the looper test of ci_tests.c
\* compares a counter before and after a pause for this).
QuietWhenPaused ==
  desired = "paused" /\ caller = "idle" /\ ~nowait =>
     tpc # "function" /\ (tpc = "loop" => tdesired = "paused")

\* A request to pause or to stop takes effect within one iteration: from the
\* moment desired_state is set the function is called at most once more.
AtMostOneMoreRun == desired \in {"paused", "stopped"} => runs <= 1

\* The function runs neither during function_to_run_first nor during
\* function_to_run_last, nor once looper_stop has returned.
BracketedByFirstAndLast ==
  /\ caller \in {"first", "last"} => tpc = "none"
  /\ desired = "stopped" /\ caller = "idle" => tpc = "none"

\* The data pointer the function works with is not replaced under it.
DataStableInFunction == tpc = "function" => tdata = data

\* The inductive invariant.  Between two calls of a looper that waits, the
\* thread, its local copies and the published state have all settled on the
\* state last asked for; during a wait they have once that state is published.
Settled(state) ==
  /\ tdesired = state
  /\ tpc = "update" => tactual = state
  /\ tpc = "function" => state = "running"

CallsSettle ==
  /\ caller = "idle" /\ tpc # "none" =>
        desired \in {"running", "paused"} /\ (~nowait => actual = desired /\ Settled(desired))
  /\ caller = "wait_running" => ~nowait /\ desired = "running" /\ (actual = "running" => Settled(desired))
  /\ caller = "wait_paused" => ~nowait /\ desired = "paused" /\ (actual = "paused" => Settled(desired))
  /\ caller = "join" => desired = "stopped"
  /\ caller = "first" => desired = "running" /\ actual # "running"
  /\ tpc \in {"none", "exited"} => actual \in {"not_running", "stopped"}

ThreadConsistent ==
  /\ tpc # "none" => caller \notin {"first", "last"}
  /\ tpc \in {"last_update", "exited"} => caller = "join" /\ tactual = "stopped"
  /\ tpc # "none" /\ tdesired = "stopped" => caller = "join"
  /\ tpc \in {"loop", "function", "update"} => tdesired # "not_running"
  /\ tpc = "update" => tactual \in {"running", "paused"}
  /\ tpc = "function" => tactual = "running"

LooperInv ==
  /\ LooperTypeOK /\ CallsSettle /\ ThreadConsistent /\ DataStableInFunction
  /\ desired \in {"paused", "stopped"} =>
        /\ runs <= 1
        /\ runs = 1 /\ tpc = "loop" => tdesired \in {"paused", "stopped"}

\* Every call of looper.c returns, whatever was called before it and wherever
\* the thread was: no pause, resume or stop is lost.
CallsReturn == [](caller # "idle" => <>(caller = "idle"))
=============================================================================
