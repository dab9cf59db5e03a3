---------------------------- MODULE RunController ----------------------------
(***************************************************************************)
(* engine/run_manager.py: the rows of table runs, the id and the task of   *)
(* the active run a RunController keeps in memory, and every method that   *)
(* changes them.  No method awaits, and each commits at most one           *)
(* statement, so a method is one action and a crash falls between two.     *)
(* RunLifecycle puts the HTTP routes and the waves around it.              *)
(***************************************************************************)
EXTENDS Naturals, FiniteSets

CONSTANT MaxRuns    \* bound on the rows a behaviour inserts

ASSUME MaxRunsAssumption == MaxRuns \in Nat

VARIABLES
    status,         \* runs.status of each row, "absent" before its INSERT
    activeRun,      \* _active_run_id, 0 for None
    activeTask,     \* _active_task: the run whose wave it drives, 0 for None
    task            \* the asyncio task that drives the wave of each run

controllerVars == <<status, activeRun, activeTask, task>>

Runs == 1..MaxRuns

Live == {"running", "paused"}

Ended == {"stopped", "completed", "failed"}

Statuses == {"absent"} \union Live \union Ended

TaskStates == {"none", "running", "cancelling", "over"}

LiveRuns == {r \in Runs : status[r] \in Live}

\* The id AUTOINCREMENT gives the next row.
IsNextId(r) == status[r] = "absent" /\ \A q \in Runs : q < r => status[q] # "absent"

Init ==
    /\ status = [r \in Runs |-> "absent"]
    /\ activeRun = 0
    /\ activeTask = 0
    /\ task = [r \in Runs |-> "none"]

\* start_run: refused while the active run is running or paused.
StartRun(r) ==
    /\ IsNextId(r)
    /\ activeRun # 0 => status[activeRun] \notin Live
    /\ status' = [status EXCEPT ![r] = "running"]
    /\ activeRun' = r

SetActiveTask(r) == activeTask' = r

\* Mutant: the task goes on.
StopRowOnly(r) ==
    /\ status[r] \in Live
    /\ status' = [status EXCEPT ![r] = "stopped"]
    /\ activeRun' = 0
    /\ UNCHANGED <<activeTask, task>>

\* stop_run: whatever task is active is cancelled, whichever run is named.
StopRun(r) ==
    /\ status[r] \in Live
    /\ IF activeTask # 0 /\ task[activeTask] # "over"
       THEN /\ task' = [task EXCEPT ![activeTask] = "cancelling"]
            /\ activeTask' = 0
       ELSE UNCHANGED <<task, activeTask>>
    /\ status' = [status EXCEPT ![r] = "stopped"]
    /\ activeRun' = 0

PauseRun(r) ==
    /\ status[r] = "running"
    /\ status' = [status EXCEPT ![r] = "paused"]
    /\ UNCHANGED <<activeRun, activeTask, task>>

\* Mutant: the status is not looked at.
ResumeAnyRun(r) ==
    /\ status[r] # "absent"
    /\ status' = [status EXCEPT ![r] = "running"]
    /\ UNCHANGED <<activeRun, activeTask, task>>

ResumeRun(r) ==
    /\ status[r] = "paused"
    /\ status' = [status EXCEPT ![r] = "running"]
    /\ UNCHANGED <<activeRun, activeTask, task>>

\* Mutant: the active run is forgotten, whichever run has ended.
EndRunAndForget(r, ending) ==
    /\ status[r] # "absent"
    /\ status' = [status EXCEPT ![r] = ending]
    /\ activeRun' = 0
    /\ UNCHANGED <<activeTask, task>>

\* complete_run and fail_run look at no status; UPDATE of no row is no change.
EndRun(r, ending) ==
    /\ status[r] # "absent"
    /\ status' = [status EXCEPT ![r] = ending]
    /\ activeRun' = IF activeRun = r THEN 0 ELSE activeRun
    /\ UNCHANGED <<activeTask, task>>

CompleteRun(r) == EndRun(r, "completed")

FailRun(r) == EndRun(r, "failed")

\* The process dies and comes back: __init__ takes the latest live row for
\* the active run; the tasks are gone.
LatestLive(r) == r \in LiveRuns /\ \A q \in LiveRuns : q <= r

Restart ==
    /\ activeRun' = IF LiveRuns = {} THEN 0 ELSE CHOOSE r \in Runs : LatestLive(r)
    /\ activeTask' = 0
    /\ task' = [r \in Runs |-> "none"]
    /\ UNCHANGED status

\* A wave comes to its end, or the cancellation reaches it.
TaskEnds(r) ==
    /\ task[r] \in {"running", "cancelling"}
    /\ task' = [task EXCEPT ![r] = "over"]
    /\ UNCHANGED <<status, activeRun, activeTask>>

\* What a caller of the class can do.  A run may be started with a task or,
\* as in an application without a wave function, without one.
Next ==
    \/ \E r \in Runs :
          \/ /\ StartRun(r)
             /\ \/ SetActiveTask(r) /\ task' = [task EXCEPT ![r] = "running"]
                \/ UNCHANGED <<activeTask, task>>
          \/ StopRun(r)
          \/ PauseRun(r)
          \/ ResumeRun(r)
          \/ CompleteRun(r)
          \/ FailRun(r)
          \/ TaskEnds(r)
    \/ Restart

Spec == Init /\ [][Next]_controllerVars

-----------------------------------------------------------------------------
(* Properties *)

\* Every variable keeps to its values.
TypeOK ==
    /\ status \in [Runs -> Statuses]
    /\ activeRun \in Runs \union {0}
    /\ activeTask \in Runs \union {0}
    /\ task \in [Runs -> TaskStates]

\* The row in the database and the id in memory never part: a run that is
\* running or paused is the active one, so there is at most one, also after
\* a crash between any two calls, and the active run is always live.
ActiveRunIsTheLiveRun == LiveRuns = IF activeRun = 0 THEN {} ELSE {activeRun}

\* A run is not left stopped with its wave still driven by a task that
\* nobody has cancelled.
StoppedRunHasNoTask == \A r \in Runs : status[r] = "stopped" => task[r] # "running"

\* Only the latest run may be live: no earlier one comes back, by resume, by
\* recovery after a restart or by a method that checks no status.
NoRunIsRevived ==
    [][\A r \in Runs : status[r] \in Ended => status'[r] \in Ended]_controllerVars
=============================================================================
