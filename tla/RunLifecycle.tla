---------------------------- MODULE RunLifecycle ----------------------------
(***************************************************************************)
(* routers/runs.py around the RunController: the four routes, the task     *)
(* that each start creates for the wave, the commands its sessions have    *)
(* the agent-runner execute (another container, which a crash or stop of   *)
(* the orchestrator does not reach), and restarts of the orchestrator.     *)
(* Nothing in the application calls complete_run or fail_run.              *)
(***************************************************************************)
EXTENDS RunController

VARIABLE command    \* whether a command of each run is executing

vars == <<status, activeRun, activeTask, task, command>>

LifecycleInit == Init /\ command = [r \in Runs |-> FALSE]

\* Mutant: the handle is not kept.
StartRouteWithoutHandle(r) ==
    /\ StartRun(r)
    /\ task' = [task EXCEPT ![r] = "running"]
    /\ UNCHANGED <<activeTask, command>>

\* POST /runs/start: the row, the task and the handle, with no await between.
StartRoute(r) ==
    /\ StartRun(r)
    /\ task' = [task EXCEPT ![r] = "running"]
    /\ SetActiveTask(r)
    /\ UNCHANGED command

StopRoute(r) == StopRun(r) /\ UNCHANGED command

PauseRoute(r) == PauseRun(r) /\ UNCHANGED command

ResumeRoute(r) == ResumeRun(r) /\ UNCHANGED command

\* A session of the wave sends a tool call; no status is looked at.
SendCommand(r) ==
    /\ task[r] = "running"
    /\ ~command[r]
    /\ command' = [command EXCEPT ![r] = TRUE]
    /\ UNCHANGED controllerVars

\* The command ends, by itself or by its timeout; its answer is taken if
\* somebody still waits for it.
CommandEnds(r) ==
    /\ command[r]
    /\ command' = [command EXCEPT ![r] = FALSE]
    /\ UNCHANGED controllerVars

\* The wave ends or unwinds, whether or not the answer to its last command
\* has come: a failed call to the agent-runner only ends the session.
WaveEnds(r) == TaskEnds(r) /\ UNCHANGED command

Crash == Restart /\ UNCHANGED command

LifecycleNext ==
    \/ \E r \in Runs :
          \/ StartRoute(r)
          \/ StopRoute(r)
          \/ PauseRoute(r)
          \/ ResumeRoute(r)
          \/ SendCommand(r)
          \/ CommandEnds(r)
          \/ WaveEnds(r)
    \/ Crash

LifecycleSpec == LifecycleInit /\ [][LifecycleNext]_vars

\* Commands end by their timeout; nobody is obliged to use a route, and a
\* session may go on for ever.
FairLifecycle == LifecycleSpec /\ \A r \in Runs : WF_vars(CommandEnds(r))

-----------------------------------------------------------------------------
(* Properties *)

LifecycleTypeOK == TypeOK /\ command \in [Runs -> BOOLEAN]

\* At most one wave is driven at a time, it is that of the active run, and
\* the controller holds its task, so that stop_run can reach it.
WaveCanBeStopped ==
    \A r \in Runs : task[r] = "running" => activeRun = r /\ activeTask = r

\* A run that was stopped sends the agent-runner nothing more.
StoppedRunSendsNothing ==
    [][\A r \in Runs : status[r] = "stopped" => (command'[r] => command[r])]_vars

\* And its last command comes to an end: the run falls silent for good.
StoppedRunFallsSilent ==
    \A r \in Runs : <>[](status[r] = "stopped" => ~command[r])
=============================================================================
