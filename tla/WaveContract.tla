---------------------------- MODULE WaveContract ----------------------------
(***************************************************************************)
(* What the engine promises of one wave, stated without queues, events or  *)
(* locks (class doc of engine/scheduler.py): issues of different repos run *)
(* in parallel, issues of one repo one after the other, at most Cap at a   *)
(* time, and none before the issues it depends on are over.  The detailed  *)
(* module WaveScheduler is shown to implement this one.                    *)
(***************************************************************************)
EXTENDS FiniteSets, Naturals

CONSTANTS
    Tasks,      \* the issues of the wave
    Repo,       \* the repository of each issue
    Dep,        \* the issues of the wave each issue depends on
    Cap         \* how many issues may run at once

VARIABLES
    phase,      \* what has become of each issue
    stopped,    \* TRUE once the wave has been cancelled
    outcome     \* how the wave ended, "none" while it runs

vars == <<phase, stopped, outcome>>

Phases == {"waiting", "running", "succeeded", "failed", "dropped"}

Over(t) == phase[t] \in {"succeeded", "failed"}

Running == {t \in Tasks : phase[t] = "running"}

Init ==
    /\ phase = [t \in Tasks |-> "waiting"]
    /\ stopped = FALSE
    /\ outcome = "none"

\* An issue starts when its repo is idle, its dependencies are over and
\* there is room under the cap.
Start(t) ==
    /\ ~stopped
    /\ phase[t] = "waiting"
    /\ \A d \in Dep[t] : Over(d)
    /\ \A u \in Running : Repo[u] # Repo[t]
    /\ phase' = [phase EXCEPT ![t] = "running"]
    /\ Cardinality(Running') <= Cap
    /\ UNCHANGED <<stopped, outcome>>

Finish(t) ==
    /\ ~stopped
    /\ phase[t] = "running"
    /\ \E verdict \in {"succeeded", "failed"} :
           phase' = [phase EXCEPT ![t] = verdict]
    /\ UNCHANGED <<stopped, outcome>>

Stop ==
    /\ ~stopped
    /\ outcome = "none"
    /\ stopped' = TRUE
    /\ UNCHANGED <<phase, outcome>>

\* A stopped wave starts nothing any more and drops what it had not finished.
Drop(t) ==
    /\ stopped
    /\ phase[t] \in {"waiting", "running"}
    /\ phase' = [phase EXCEPT ![t] = "dropped"]
    /\ UNCHANGED <<stopped, outcome>>

\* A wave ends once no issue is left, and reports success only if every
\* issue succeeded.
End ==
    /\ outcome = "none"
    /\ \A t \in Tasks : phase[t] \notin {"waiting", "running"}
    /\ outcome' = IF stopped THEN "cancelled"
                  ELSE IF \A t \in Tasks : phase[t] = "succeeded" THEN "returned"
                  ELSE "raised"
    /\ UNCHANGED <<phase, stopped>>

Next ==
    \/ \E t \in Tasks : Start(t) \/ Finish(t) \/ Drop(t)
    \/ Stop
    \/ End

Spec == Init /\ [][Next]_vars
=============================================================================
