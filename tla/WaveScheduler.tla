---------------------------- MODULE WaveScheduler ----------------------------
(***************************************************************************)
(* One wave under engine/scheduler.py: WaveScheduler.run_wave with its     *)
(* tasks, and the levers pause, resume and step_down_cap.                  *)
(*                                                                         *)
(* asyncio runs one coroutine at a time and switches only where an await   *)
(* suspends, so an action is everything a task does from one suspension to *)
(* the next.  An Event, a Lock and a Semaphore keep no state here but the  *)
(* flag or counter: their waiters are the tasks whose pc says so.  asyncio *)
(* serves waiters first come, first served; the model serves them in any   *)
(* order, which allows every behaviour of the code.                        *)
(***************************************************************************)
EXTENDS FiniteSets, Integers

CONSTANTS
    Tasks,          \* the IssueTasks of the wave
    Repo,           \* IssueTask.repo_name
    Dep,            \* IssueTask.depends_on, already restricted to the wave
    ExplicitCap,    \* the cap given to the constructor
    NoCap           \* stands for None

Repos == {Repo[t] : t \in Tasks}

EffectiveCap == IF ExplicitCap = NoCap THEN Cardinality(Repos) ELSE ExplicitCap

\* run_wave returns at once for an empty list of tasks.
ASSUME TasksAssumption == IsFiniteSet(Tasks) /\ Tasks # {}
ASSUME DepAssumption == Dep \in [Tasks -> SUBSET Tasks]
ASSUME CapAssumption == ExplicitCap = NoCap \/ ExplicitCap \in Nat \ {0}

VARIABLES
    pc,             \* where each _run_task stands
    done,           \* _done
    paused,         \* _paused, and _pause_event cleared
    cap,            \* _cap
    permits,        \* the value of the semaphore _admission
    locked,         \* the lock of each repo in _repo_locks
    cancelling,     \* the task that awaits run_wave has been cancelled
    outcome         \* how run_wave ended, "none" while it runs

vars == <<pc, done, paused, cap, permits, locked, cancelling, outcome>>

\* ready: about to look at its dependencies; awaitX: suspended on X;
\* resumed, permitted, lockWoken: woken from that suspension, not yet run.
PCs == {"ready", "awaitDone", "awaitResume", "resumed", "awaitPermit",
        "permitted", "awaitLock", "lockWoken", "executing",
        "succeeded", "failed", "cancelled"}

At(s) == {t \in Tasks : pc[t] \in s}

\* Mutant: one finished dependency is enough.
UnmetUntilAny(t) == IF Dep[t] \intersect done # {} THEN {} ELSE Dep[t]

Unmet(t) == Dep[t] \ done

\* The tasks that own an admission permit.
Holding == {"permitted", "awaitLock", "lockWoken", "executing"}

\* asyncio makes a newcomer queue behind every task still waiting or woken.
PermitFree == permits > 0 /\ At({"awaitPermit", "permitted"}) = {}

LockFree(r) ==
    ~locked[r] /\ \A t \in At({"awaitLock", "lockWoken"}) : Repo[t] # r

\* A release wakes one waiter, if there is one.
WakeOne(waiters) == IF waiters = {} THEN {{}} ELSE {{w} : w \in waiters}

\* A woken taker passes on every permit that came free meanwhile.
WakeWhilePermits(waiters) ==
    {W \in SUBSET waiters : /\ Cardinality(W) <= permits
                            /\ Cardinality(W) = permits \/ W = waiters}

Init ==
    /\ pc = [t \in Tasks |-> "ready"]
    /\ done = {}
    /\ paused \in BOOLEAN
    /\ cap = EffectiveCap
    /\ permits = EffectiveCap
    /\ locked = [r \in Repos |-> FALSE]
    /\ cancelling = FALSE
    /\ outcome = "none"

-----------------------------------------------------------------------------
\* Mutant: no lock for the repository.
PastAdmissionUnlocked(t) == "executing"

\* Where a task that has its permit comes to stand: in execute, or in the
\* queue of its repo's lock.
PastAdmission(t) == IF LockFree(Repo[t]) THEN "executing" ELSE "awaitLock"

LockedBy(t) ==
    IF LockFree(Repo[t]) THEN [locked EXCEPT ![Repo[t]] = TRUE] ELSE locked

\* await self._admission.acquire(), and the lock behind it if that is granted.
AskForPermit(t) ==
    \/ /\ PermitFree
       /\ permits' = permits - 1
       /\ pc' = [pc EXCEPT ![t] = PastAdmission(t)]
       /\ locked' = LockedBy(t)
    \/ /\ ~PermitFree
       /\ pc' = [pc EXCEPT ![t] = "awaitPermit"]
       /\ UNCHANGED <<permits, locked>>

\* One round of _wait_for_dependencies, and the awaits behind it as far as
\* they do not suspend.
Check(t) ==
    /\ ~cancelling
    /\ pc[t] = "ready"
    /\ \/ /\ Unmet(t) # {}
          /\ pc' = [pc EXCEPT ![t] = "awaitDone"]
          /\ UNCHANGED <<permits, locked>>
       \/ /\ Unmet(t) = {}
          /\ paused
          /\ pc' = [pc EXCEPT ![t] = "awaitResume"]
          /\ UNCHANGED <<permits, locked>>
       \/ /\ Unmet(t) = {}
          /\ ~paused
          /\ AskForPermit(t)
    /\ UNCHANGED <<done, paused, cap, cancelling, outcome>>

\* The pause gate is not looked at again, even if pause() was called between
\* the wake-up and this step.
LeavePauseGate(t) ==
    /\ ~cancelling
    /\ pc[t] = "resumed"
    /\ AskForPermit(t)
    /\ UNCHANGED <<done, paused, cap, cancelling, outcome>>

TakePermit(t) ==
    /\ ~cancelling
    /\ pc[t] = "permitted"
    /\ \E granted \in WakeWhilePermits(At({"awaitPermit"})) :
           /\ permits' = permits - Cardinality(granted)
           /\ pc' = [u \in Tasks |-> CASE u = t -> PastAdmission(t)
                                       [] u \in granted -> "permitted"
                                       [] OTHER -> pc[u]]
    /\ locked' = LockedBy(t)
    /\ UNCHANGED <<done, paused, cap, cancelling, outcome>>

TakeLock(t) ==
    /\ ~cancelling
    /\ pc[t] = "lockWoken"
    /\ pc' = [pc EXCEPT ![t] = "executing"]
    /\ locked' = [locked EXCEPT ![Repo[t]] = TRUE]
    /\ UNCHANGED <<done, permits, paused, cap, cancelling, outcome>>

\* Mutant: the done event is not set.
FinishSilently(t, verdict) ==
    /\ ~cancelling
    /\ pc[t] = "executing"
    /\ \E heir \in WakeOne({u \in At({"awaitLock"}) : Repo[u] = Repo[t]}),
          granted \in WakeOne(At({"awaitPermit"})) :
           /\ permits' = permits + 1 - Cardinality(granted)
           /\ pc' = [u \in Tasks |-> CASE u = t -> verdict
                                       [] u \in heir -> "lockWoken"
                                       [] u \in granted -> "permitted"
                                       [] OTHER -> pc[u]]
    /\ locked' = [locked EXCEPT ![Repo[t]] = FALSE]
    /\ done' = done \union {t}
    /\ UNCHANGED <<paused, cap, cancelling, outcome>>

\* Mutant: the permit is not given back.
FinishKeepingPermit(t, verdict) ==
    /\ ~cancelling
    /\ pc[t] = "executing"
    /\ \E heir \in WakeOne({u \in At({"awaitLock"}) : Repo[u] = Repo[t]}) :
           pc' = [u \in Tasks |-> CASE u = t -> verdict
                                    [] u \in heir -> "lockWoken"
                                    [] pc[u] = "awaitDone" -> "ready"
                                    [] OTHER -> pc[u]]
    /\ locked' = [locked EXCEPT ![Repo[t]] = FALSE]
    /\ done' = done \union {t}
    /\ UNCHANGED <<permits, paused, cap, cancelling, outcome>>

\* execute() returns or raises: the lock is released, then the finally block
\* gives back the permit, enters the task into _done and sets the event.
Finish(t, verdict) ==
    /\ ~cancelling
    /\ pc[t] = "executing"
    /\ \E heir \in WakeOne({u \in At({"awaitLock"}) : Repo[u] = Repo[t]}),
          granted \in WakeOne(At({"awaitPermit"})) :
           /\ permits' = permits + 1 - Cardinality(granted)
           /\ pc' = [u \in Tasks |-> CASE u = t -> verdict
                                       [] u \in heir -> "lockWoken"
                                       [] u \in granted -> "permitted"
                                       [] pc[u] = "awaitDone" -> "ready"
                                       [] OTHER -> pc[u]]
    /\ locked' = [locked EXCEPT ![Repo[t]] = FALSE]
    /\ done' = done \union {t}
    /\ UNCHANGED <<paused, cap, cancelling, outcome>>

\* Mutant: an exception of execute() is lost.
ReturnAnyway ==
    /\ outcome = "none"
    /\ ~cancelling
    /\ At({"succeeded", "failed"}) = Tasks
    /\ outcome' = "returned"
    /\ UNCHANGED <<pc, done, paused, cap, permits, locked, cancelling>>

\* The TaskGroup has no child left: run_wave returns the results, or raises
\* the first exception in place of them.
Return ==
    /\ outcome = "none"
    /\ ~cancelling
    /\ At({"succeeded", "failed"}) = Tasks
    /\ outcome' = IF At({"failed"}) = {} THEN "returned" ELSE "raised"
    /\ UNCHANGED <<pc, done, paused, cap, permits, locked, cancelling>>

-----------------------------------------------------------------------------
\* The task that awaits run_wave is cancelled: the TaskGroup cancels every
\* child, so each unwinds at its next step and nothing else can happen to it.
Cancel ==
    /\ outcome = "none"
    /\ ~cancelling
    /\ cancelling' = TRUE
    /\ UNCHANGED <<pc, done, paused, cap, permits, locked, outcome>>

\* Mutant: a task that is cancelled in the queue of a lock keeps its permit.
UnwindFromExecute(t) ==
    /\ cancelling
    /\ pc[t] \notin {"succeeded", "failed", "cancelled"}
    /\ pc' = [pc EXCEPT ![t] = "cancelled"]
    /\ permits' = IF pc[t] = "executing" THEN permits + 1 ELSE permits
    /\ locked' = IF pc[t] = "executing" THEN [locked EXCEPT ![Repo[t]] = FALSE]
                 ELSE locked
    /\ done' = IF pc[t] = "executing" THEN done \union {t} ELSE done
    /\ UNCHANGED <<paused, cap, cancelling, outcome>>

\* CancelledError is no Exception: the task leaves by the finally block, if
\* it had come as far as the try.
Unwind(t) ==
    /\ cancelling
    /\ pc[t] \notin {"succeeded", "failed", "cancelled"}
    /\ pc' = [pc EXCEPT ![t] = "cancelled"]
    /\ permits' = IF pc[t] \in Holding THEN permits + 1 ELSE permits
    /\ locked' = IF pc[t] = "executing" THEN [locked EXCEPT ![Repo[t]] = FALSE]
                 ELSE locked
    /\ done' = IF pc[t] \in Holding \ {"permitted"} THEN done \union {t} ELSE done
    /\ UNCHANGED <<paused, cap, cancelling, outcome>>

ReturnCancelled ==
    /\ outcome = "none"
    /\ cancelling
    /\ At({"succeeded", "failed", "cancelled"}) = Tasks
    /\ outcome' = "cancelled"
    /\ UNCHANGED <<pc, done, paused, cap, permits, locked, cancelling>>

-----------------------------------------------------------------------------
\* The levers, pulled by another coroutine while the wave runs.
Pause ==
    /\ outcome = "none"
    /\ paused' = TRUE
    /\ UNCHANGED <<pc, done, cap, permits, locked, cancelling, outcome>>

Resume ==
    /\ outcome = "none"
    /\ paused' = FALSE
    /\ pc' = [t \in Tasks |-> IF pc[t] = "awaitResume" THEN "resumed" ELSE pc[t]]
    /\ UNCHANGED <<done, cap, permits, locked, cancelling, outcome>>

\* Mutant: a cap of 0 is taken for a cap.
StepDownToAnyCap(newCap) ==
    /\ outcome = "none"
    /\ cap' = newCap
    /\ UNCHANGED <<pc, done, paused, permits, locked, cancelling, outcome>>

\* The semaphore is left as it is.
StepDownCap(newCap) ==
    /\ outcome = "none"
    /\ \/ newCap <= 0 /\ paused' = TRUE /\ UNCHANGED cap
       \/ newCap > 0 /\ cap' = newCap /\ UNCHANGED paused
    /\ UNCHANGED <<pc, done, permits, locked, cancelling, outcome>>

TaskStep(t) ==
    \/ Check(t)
    \/ LeavePauseGate(t)
    \/ TakePermit(t)
    \/ TakeLock(t)
    \/ \E verdict \in {"succeeded", "failed"} : Finish(t, verdict)
    \/ Unwind(t)

LoopStep == (\E t \in Tasks : TaskStep(t)) \/ Return \/ ReturnCancelled

Next ==
    \/ LoopStep
    \/ Cancel
    \/ Pause
    \/ Resume
    \/ \E newCap \in 0..EffectiveCap : StepDownCap(newCap)

Spec == Init /\ [][Next]_vars

\* The event loop runs every ready coroutine in turn, and execute() comes to
\* an end: gate commands have a timeout, and sessions are taken to end.
FairSpec ==
    /\ Spec
    /\ \A t \in Tasks : WF_vars(TaskStep(t))
    /\ WF_vars(Return \/ ReturnCancelled)

-----------------------------------------------------------------------------
(* Properties *)

\* Every variable keeps to its values.
TypeOK ==
    /\ pc \in [Tasks -> PCs]
    /\ done \subseteq Tasks
    /\ paused \in BOOLEAN
    /\ cap \in Nat \ {0}
    /\ permits \in Nat
    /\ locked \in [Repos -> BOOLEAN]
    /\ cancelling \in BOOLEAN
    /\ outcome \in {"none", "returned", "raised", "cancelled"}

\* Two issues of one repository are never in execute() together, whatever
\* the order in which tasks are woken, admitted, cancelled or fail.
SequentialWithinRepo ==
    \A t, u \in Tasks :
        pc[t] = "executing" /\ pc[u] = "executing" /\ t # u => Repo[t] # Repo[u]

\* No permit of the admission semaphore is lost or made up: with those that
\* tasks own they are always as many as the wave started with, so no more
\* issues than that are in flight.
PermitsConserved == permits + Cardinality(At(Holding)) = EffectiveCap

\* No issue executes before every issue it depends on has left execute() for
\* good.
DependenciesOver ==
    \A t \in At({"executing"}) : \A d \in Dep[t] : pc[d] \in {"succeeded", "failed"}

\* A suspended task always has something left that will wake it: whoever
\* waits for an event, a permit or a lock that nobody is going to hand over
\* would hang the wave.  (_done_event is replaced after each set.)
NoLostWakeup ==
    ~cancelling =>
        \A t \in Tasks :
            /\ pc[t] = "awaitDone" => \E d \in Dep[t] : d \notin done
            /\ pc[t] = "awaitResume" => paused
            /\ pc[t] = "awaitPermit" => At(Holding) # {}
            /\ pc[t] = "awaitLock" =>
                   \E u \in At({"executing", "lockWoken"}) : Repo[u] = Repo[t]

\* run_wave comes back, with its results, an exception or a cancellation,
\* unless it is left paused for ever.
WaveReturns == []<>(~paused) => <>(outcome # "none")

\* A pause that is not lifted lets everything in flight run out: in the end
\* no issue executes and none is waiting to be admitted.
PauseDrains ==
    <>[]paused => <>[](At(Holding \union {"resumed", "awaitPermit"}) = {})

\* What the contract sees of a task.
Phase ==
    [t \in Tasks |-> CASE pc[t] \in {"succeeded", "failed"} -> pc[t]
                       [] pc[t] = "executing" -> "running"
                       [] pc[t] = "cancelled" -> "dropped"
                       [] OTHER -> "waiting"]

Contract == INSTANCE WaveContract WITH
    Cap <- EffectiveCap, phase <- Phase, stopped <- cancelling

\* Every wave is a wave of the contract.
ImplementsContract == Contract!Spec
=============================================================================
