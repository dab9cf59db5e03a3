----------------------------- MODULE StoreProofs -----------------------------
(***************************************************************************)
(* Theorems about what the state store keeps: the rows of the runs, with   *)
(* the controller and the waves they stand for, for any number of runs;    *)
(* and the rollups of the sessions, with the reports made from them and    *)
(* the pruning of what they add up, for any sessions and captures.         *)
(***************************************************************************)
EXTENDS RunLifecycle, Observability, FiniteSetTheorems, NaturalsInduction,
        WellFoundedInduction, TLAPS

-----------------------------------------------------------------------------
(* The controller *)

\* Inductive.  The last parts say which task a live run may have, without
\* which stop_run could leave the wave of the run it stops running, and that
\* the controller holds no task of a run that has not started.
ControllerInv ==
    /\ TypeOK
    /\ ActiveRunIsTheLiveRun
    /\ StoppedRunHasNoTask
    /\ \A r \in Runs : status[r] = "absent" => task[r] = "none"
    /\ \A r \in LiveRuns : task[r] = "running" => activeTask = r
    /\ activeTask # 0 => status[activeTask] # "absent"

\* A fresh table has no active run and no task.
LEMMA ControllerStarts == Init => ControllerInv
BY DEF Init, ControllerInv, TypeOK, ActiveRunIsTheLiveRun, StoppedRunHasNoTask,
       LiveRuns, Live, Ended, Statuses, TaskStates, Runs

\* A start makes r the live run: the guard and the invariant leave no other.
LEMMA StartKeeps ==
    ASSUME NEW r \in Runs, ControllerInv, StartRun(r),
           \/ SetActiveTask(r) /\ task' = [task EXCEPT ![r] = "running"]
           \/ UNCHANGED <<activeTask, task>>
    PROVE  ControllerInv'
<1>0. r # 0 /\ 0 \notin Runs
  BY MaxRunsAssumption DEF Runs
<1>1. LiveRuns = {}
  BY DEF ControllerInv, TypeOK, ActiveRunIsTheLiveRun, StartRun, LiveRuns
<1>2. TypeOK'
  BY DEF ControllerInv, TypeOK, StartRun, SetActiveTask, Statuses, TaskStates, Live
<1>3. LiveRuns' = {r}
  BY <1>1 DEF ControllerInv, TypeOK, StartRun, LiveRuns, Live
<1>4. ActiveRunIsTheLiveRun'
  BY <1>0, <1>3 DEF ActiveRunIsTheLiveRun, StartRun
<1>5. status[r] = "absent" /\ task[r] = "none"
  BY DEF StartRun, IsNextId, ControllerInv
<1>6. StoppedRunHasNoTask'
  BY DEF ControllerInv, TypeOK, StoppedRunHasNoTask, StartRun, SetActiveTask
<1>7. \A q \in Runs : status'[q] = "absent" => task'[q] = "none"
  BY DEF ControllerInv, TypeOK, StartRun, SetActiveTask
<1>8. task'[r] = "running" => activeTask' = r
  BY <1>5 DEF ControllerInv, TypeOK, SetActiveTask
<1>9. activeTask' # 0 => status'[activeTask'] # "absent"
  BY <1>0 DEF ControllerInv, TypeOK, StartRun, SetActiveTask
<1> QED
  BY <1>2, <1>3, <1>4, <1>6, <1>7, <1>8, <1>9 DEF ControllerInv

\* Whoever is stopped is the active run, and a task it may have running is
\* the one the controller holds.
LEMMA StopKeeps ==
    ASSUME NEW r \in Runs, ControllerInv, StopRun(r)
    PROVE  ControllerInv'
<1>1. LiveRuns = {r}
  BY DEF ControllerInv, ActiveRunIsTheLiveRun, StopRun, LiveRuns
<1>2. TypeOK'
  BY DEF ControllerInv, TypeOK, StopRun, Statuses, TaskStates, Ended, Live
<1>3. LiveRuns' = {}
  BY <1>1 DEF ControllerInv, TypeOK, StopRun, LiveRuns, Live
<1>4. task[r] = "running" => activeTask = r
  BY <1>1 DEF ControllerInv
<1>5. task'[r] # "running"
  <2>0. activeTask \in Runs \union {0} /\ 0 \notin Runs /\ task \in [Runs -> TaskStates]
    BY MaxRunsAssumption DEF ControllerInv, TypeOK, Runs
  <2>1. CASE task[r] = "running"
    BY <1>4, <2>0, <2>1 DEF StopRun
  <2>2. CASE task[r] # "running"
    BY <2>0, <2>2 DEF StopRun
  <2> QED BY <2>1, <2>2
<1>6. \A q \in Runs : task'[q] = "running" => task[q] = "running"
  BY DEF ControllerInv, TypeOK, StopRun
<1>7. StoppedRunHasNoTask'
  <2>1. \A q \in Runs : status'[q] = "stopped" => q = r \/ status[q] = "stopped"
    BY DEF ControllerInv, TypeOK, StopRun
  <2> QED
    BY <1>5, <1>6, <2>1 DEF ControllerInv, StoppedRunHasNoTask
<1>8. \A q \in Runs : status'[q] = "absent" => task'[q] = "none"
  BY DEF ControllerInv, TypeOK, StopRun
<1>9. ActiveRunIsTheLiveRun'
  BY <1>3 DEF ActiveRunIsTheLiveRun, StopRun
<1>10. activeTask' # 0 => status'[activeTask'] # "absent"
  BY DEF ControllerInv, TypeOK, StopRun
<1> QED
  BY <1>2, <1>3, <1>7, <1>8, <1>9, <1>10 DEF ControllerInv

\* What pause, resume, complete and fail have in common: one row that exists
\* changes, between live and live or to an ending other than stopped.
LEMMA RowChangeKeeps ==
    ASSUME NEW r \in Runs, ControllerInv,
           PauseRun(r) \/ ResumeRun(r) \/ CompleteRun(r) \/ FailRun(r)
    PROVE  ControllerInv'
<1>0. 0 \notin Runs
  BY MaxRunsAssumption DEF Runs
<1>1. TypeOK'
  BY DEF ControllerInv, TypeOK, PauseRun, ResumeRun, CompleteRun, FailRun, EndRun,
         Statuses, TaskStates, Live, Ended
<1>2. LiveRuns' \subseteq LiveRuns
  BY DEF ControllerInv, TypeOK, PauseRun, ResumeRun, CompleteRun, FailRun, EndRun,
         LiveRuns, Live
<1>3. ActiveRunIsTheLiveRun'
  <2>1. CASE PauseRun(r) \/ ResumeRun(r)
    <3>1. LiveRuns' = LiveRuns
      BY <2>1 DEF ControllerInv, TypeOK, PauseRun, ResumeRun, LiveRuns, Live
    <3> QED
      BY <2>1, <3>1 DEF ControllerInv, ActiveRunIsTheLiveRun, PauseRun, ResumeRun
  <2>2. CASE CompleteRun(r) \/ FailRun(r)
    <3>1. LiveRuns' = LiveRuns \ {r}
      BY <2>2 DEF ControllerInv, TypeOK, CompleteRun, FailRun, EndRun, LiveRuns, Live
    <3>2. activeRun' = IF activeRun = r THEN 0 ELSE activeRun
      BY <2>2 DEF CompleteRun, FailRun, EndRun
    <3> QED
      BY <1>0, <3>1, <3>2 DEF ControllerInv, ActiveRunIsTheLiveRun
  <2> QED BY <2>1, <2>2
<1>4. UNCHANGED <<activeTask, task>>
  BY DEF PauseRun, ResumeRun, CompleteRun, FailRun, EndRun
<1>5. \A q \in Runs : /\ status'[q] = "stopped" => status[q] = "stopped"
                      /\ status'[q] = "absent" => status[q] = "absent"
  BY DEF ControllerInv, TypeOK, PauseRun, ResumeRun, CompleteRun, FailRun, EndRun
<1>6. activeTask' # 0 => status'[activeTask'] # "absent"
  BY <1>0, <1>4, <1>5 DEF ControllerInv, TypeOK
<1> QED
  BY <1>1, <1>2, <1>3, <1>4, <1>5, <1>6 DEF ControllerInv, StoppedRunHasNoTask

\* Recovery chooses the run that was active: it is the only live one.
LEMMA RecoveredIsActive ==
    ASSUME ControllerInv, Restart
    PROVE  activeRun' = activeRun
<1>1. CASE activeRun = 0
  BY <1>1 DEF ControllerInv, ActiveRunIsTheLiveRun, Restart
<1>2. CASE activeRun # 0
  <2>1. LiveRuns = {activeRun} /\ activeRun \in Runs
    BY <1>2 DEF ControllerInv, TypeOK, ActiveRunIsTheLiveRun
  <2>2. activeRun \in Nat
    BY <2>1, MaxRunsAssumption DEF Runs
  <2>3. \A r \in Runs : LatestLive(r) <=> r = activeRun
    BY <2>1, <2>2 DEF LatestLive
  <2>4. (CHOOSE r \in Runs : LatestLive(r)) = activeRun
    BY <2>1, <2>3
  <2> QED
    BY <2>1, <2>4 DEF Restart
<1> QED BY <1>1, <1>2

\* Recovery after a restart finds the one live row there is.
LEMMA RestartKeeps ==
    ASSUME ControllerInv, Restart
    PROVE  ControllerInv'
<1>1. activeRun' = activeRun
  BY RecoveredIsActive
<1>2. LiveRuns' = LiveRuns
  BY DEF Restart, LiveRuns
<1> QED
  BY <1>1, <1>2 DEF ControllerInv, TypeOK, ActiveRunIsTheLiveRun, StoppedRunHasNoTask,
                    Restart, TaskStates

\* Every call of the class, and a restart, keeps the invariant.
LEMMA ControllerStep == ControllerInv /\ [Next]_controllerVars => ControllerInv'
<1> SUFFICES ASSUME ControllerInv, [Next]_controllerVars PROVE ControllerInv'
  OBVIOUS
<1>1. ASSUME NEW r \in Runs, TaskEnds(r) PROVE ControllerInv'
  <2>1. LiveRuns' = LiveRuns
    BY <1>1 DEF TaskEnds, LiveRuns
  <2> QED
    BY <1>1, <2>1 DEF ControllerInv, TypeOK, ActiveRunIsTheLiveRun,
                      StoppedRunHasNoTask, TaskEnds, TaskStates
<1>2. CASE UNCHANGED controllerVars
  <2>1. LiveRuns' = LiveRuns
    BY <1>2 DEF controllerVars, LiveRuns
  <2> QED
    BY <1>2, <2>1 DEF controllerVars, ControllerInv, TypeOK, ActiveRunIsTheLiveRun,
                      StoppedRunHasNoTask
<1> QED
  BY <1>1, <1>2, StartKeeps, StopKeeps, RowChangeKeeps, RestartKeeps DEF Next

\* The inductive invariant of the class, for any number of runs.
LEMMA ControllerInvariant == Spec => []ControllerInv
BY ControllerStarts, ControllerStep, PTL DEF Spec

\* Type correctness of the controller.
THEOREM ControllerTypeCorrect == Spec => []TypeOK
<1>1. ControllerInv => TypeOK
  BY DEF ControllerInv
<1> QED BY <1>1, ControllerInvariant, PTL

\* The id in memory and the rows in the database never part, through every
\* order of starts, stops, pauses, endings and restarts.
THEOREM ActiveRunIsLive == Spec => []ActiveRunIsTheLiveRun
<1>1. ControllerInv => ActiveRunIsTheLiveRun
  BY DEF ControllerInv
<1> QED BY <1>1, ControllerInvariant, PTL

\* stop_run cancels the wave of the run it stops.
THEOREM StopReachesTheTask == Spec => []StoppedRunHasNoTask
<1>1. ControllerInv => StoppedRunHasNoTask
  BY DEF ControllerInv
<1> QED BY <1>1, ControllerInvariant, PTL

\* An ended run stays ended.
THEOREM EndedRunStaysEnded == Spec => NoRunIsRevived
<1>1. ASSUME TypeOK, [Next]_controllerVars, NEW r \in Runs, status[r] \in Ended
      PROVE  status'[r] \in Ended
  <2>1. status[r] # "absent" /\ status[r] \notin Live
    BY <1>1 DEF Ended, Live
  <2>2. CASE Next
    BY <1>1, <2>1, <2>2 DEF Next, TypeOK, StartRun, IsNextId, StopRun, PauseRun, ResumeRun,
                   CompleteRun, FailRun, EndRun, Restart, TaskEnds, Ended, Live
  <2> QED BY <1>1, <2>2 DEF controllerVars
<1>2. TypeOK /\ [Next]_controllerVars
        => [\A r \in Runs : status[r] \in Ended => status'[r] \in Ended]_controllerVars
  BY <1>1
<1> QED BY <1>2, ControllerTypeCorrect, PTL DEF Spec, NoRunIsRevived

-----------------------------------------------------------------------------
(* The application around it *)

\* The routes add no call to those of the class, so its invariants hold of
\* the application.
LEMMA RoutesAreCalls == LifecycleSpec => Spec
<1>1. LifecycleInit => Init
  BY DEF LifecycleInit
<1>2. [LifecycleNext]_vars => [Next]_controllerVars
  <2>1. ASSUME NEW r \in Runs, StartRoute(r) PROVE Next
    BY <2>1 DEF StartRoute, Next
  <2>2. ASSUME NEW r \in Runs,
               StopRoute(r) \/ PauseRoute(r) \/ ResumeRoute(r) \/ WaveEnds(r)
        PROVE  Next
    BY <2>2 DEF StopRoute, PauseRoute, ResumeRoute, WaveEnds, Next
  <2>3. ASSUME NEW r \in Runs, SendCommand(r) \/ CommandEnds(r)
        PROVE  UNCHANGED controllerVars
    BY <2>3 DEF SendCommand, CommandEnds
  <2>4. CASE Crash
    BY <2>4 DEF Crash, Next
  <2>5. CASE UNCHANGED vars
    BY <2>5 DEF vars, controllerVars
  <2> QED BY <2>1, <2>2, <2>3, <2>4, <2>5 DEF LifecycleNext
<1> QED BY <1>1, <1>2, PTL DEF LifecycleSpec, Spec

\* Every route, and a crash, keeps the driven wave with the controller.
LEMMA WaveCanBeStoppedStep ==
    ControllerInv /\ WaveCanBeStopped /\ [LifecycleNext]_vars => WaveCanBeStopped'
<1> SUFFICES ASSUME ControllerInv, WaveCanBeStopped, [LifecycleNext]_vars
             PROVE  WaveCanBeStopped'
  OBVIOUS
<1>0. 0 \notin Runs /\ TypeOK
  BY MaxRunsAssumption DEF Runs, ControllerInv
<1>1. ASSUME NEW r \in Runs, StartRoute(r) PROVE WaveCanBeStopped'
  <2>1. LiveRuns = {}
    BY <1>1 DEF ControllerInv, TypeOK, ActiveRunIsTheLiveRun, StartRoute, StartRun, LiveRuns
  <2>2. \A q \in Runs : task[q] # "running"
    BY <1>0, <2>1 DEF ControllerInv, ActiveRunIsTheLiveRun, WaveCanBeStopped
  <2> QED
    BY <1>0, <1>1, <2>2 DEF TypeOK, WaveCanBeStopped, StartRoute, StartRun, SetActiveTask
<1>2. ASSUME NEW r \in Runs, StopRoute(r) PROVE WaveCanBeStopped'
  BY <1>0, <1>2 DEF TypeOK, WaveCanBeStopped, StopRoute, StopRun
<1>3. ASSUME NEW r \in Runs,
             PauseRoute(r) \/ ResumeRoute(r) \/ SendCommand(r) \/ CommandEnds(r)
      PROVE  WaveCanBeStopped'
  BY <1>3 DEF WaveCanBeStopped, PauseRoute, PauseRun, ResumeRoute, ResumeRun,
              SendCommand, CommandEnds, controllerVars
<1>4. ASSUME NEW r \in Runs, WaveEnds(r) PROVE WaveCanBeStopped'
  BY <1>0, <1>4 DEF TypeOK, WaveCanBeStopped, WaveEnds, TaskEnds
<1>5. CASE Crash
  BY <1>5 DEF WaveCanBeStopped, Crash, Restart
<1>6. CASE UNCHANGED vars
  BY <1>6 DEF WaveCanBeStopped, vars
<1> QED BY <1>1, <1>2, <1>3, <1>4, <1>5, <1>6 DEF LifecycleNext

\* A wave that is driven is that of the active run, and stop_run holds its
\* task: no start leaves an earlier wave behind.
THEOREM DrivenWaveCanBeStopped == LifecycleSpec => []WaveCanBeStopped
<1>1. LifecycleInit => WaveCanBeStopped
  BY DEF LifecycleInit, Init, WaveCanBeStopped
<1>2. LifecycleSpec => []ControllerInv
  BY RoutesAreCalls, ControllerInvariant, PTL
<1> QED BY <1>1, <1>2, WaveCanBeStoppedStep, PTL DEF LifecycleSpec

\* Type correctness of the application around the controller.
THEOREM LifecycleTypeCorrect == LifecycleSpec => []LifecycleTypeOK
<1>1. LifecycleInit => LifecycleTypeOK
  BY DEF LifecycleInit, LifecycleTypeOK, Init, TypeOK, Statuses, TaskStates
<1>2. LifecycleSpec => []ControllerInv
  BY RoutesAreCalls, ControllerInvariant, PTL
<1>3. LifecycleTypeOK /\ ControllerInv' /\ [LifecycleNext]_vars => LifecycleTypeOK'
  <2> SUFFICES ASSUME LifecycleTypeOK, ControllerInv', [LifecycleNext]_vars
               PROVE  (command \in [Runs -> BOOLEAN])'
    BY DEF LifecycleTypeOK, ControllerInv
  <2> QED
    BY DEF LifecycleTypeOK, LifecycleNext, vars, StartRoute, StopRoute, PauseRoute,
           ResumeRoute, SendCommand, CommandEnds, WaveEnds, Crash
<1> QED
  BY <1>1, <1>2, <1>3, PTL DEF LifecycleSpec

\* A stopped run sends the agent-runner no further command.
THEOREM StoppedRunIsSilent == LifecycleSpec => StoppedRunSendsNothing
<1>1. LifecycleSpec => []ControllerInv
  BY RoutesAreCalls, ControllerInvariant, PTL
<1>2. LifecycleSpec => []LifecycleTypeOK
  BY LifecycleTypeCorrect
<1>3. ASSUME LifecycleTypeOK, ControllerInv, WaveCanBeStopped, [LifecycleNext]_vars,
             NEW r \in Runs, status[r] = "stopped", command'[r]
      PROVE  command[r]
  <2>1. ASSUME NEW q \in Runs, SendCommand(q) PROVE command[r]
    <3>1. activeRun = q /\ q # 0
      BY <1>3, <2>1, MaxRunsAssumption DEF SendCommand, WaveCanBeStopped, Runs
    <3>2. status[q] \in Live
      BY <1>3, <3>1 DEF ControllerInv, ActiveRunIsTheLiveRun, LiveRuns
    <3>3. q # r
      BY <1>3, <3>2 DEF Live
    <3> QED BY <1>3, <2>1, <3>3 DEF SendCommand, LifecycleTypeOK
  <2>2. ASSUME NEW q \in Runs, CommandEnds(q) PROVE command[r]
    BY <1>3, <2>2 DEF CommandEnds, LifecycleTypeOK
  <2>3. CASE UNCHANGED command
    BY <1>3, <2>3
  <2> QED BY <1>3, <2>1, <2>2, <2>3 DEF LifecycleNext, vars, StartRoute, StopRoute,
            PauseRoute, ResumeRoute, WaveEnds, Crash
<1>4. LifecycleTypeOK /\ ControllerInv /\ WaveCanBeStopped /\ [LifecycleNext]_vars
        => [\A r \in Runs : status[r] = "stopped" => (command'[r] => command[r])]_vars
  BY <1>3
<1> QED
  BY <1>1, <1>2, <1>4, DrivenWaveCanBeStopped, PTL DEF LifecycleSpec, StoppedRunSendsNothing

-----------------------------------------------------------------------------
(* Sums over finite sets                                                    *)

\* Naturals are well founded, and a set of them has a least element.
LEMMA SmallerIsWellFounded ==
    \E R : IsWellFoundedOn(R, Nat) /\ \A x, y \in Nat : y < x => <<y, x>> \in R
<1> DEFINE R == OpToRel(<, Nat)
<1>1. IsWellFoundedOn(R, Nat)
  BY NatLessThanWellFounded
<1>2. \A x, y \in Nat : y < x => <<y, x>> \in R
  BY DEF OpToRel
<1> HIDE DEF R
<1> QED BY <1>1, <1>2

LEMMA LeastElement ==
    ASSUME NEW T \in SUBSET Nat, T # {}
    PROVE  \E n \in T : \A m \in T : n <= m
<1>1. PICK R : IsWellFoundedOn(R, Nat) /\ \A x, y \in Nat : y < x => <<y, x>> \in R
  BY SmallerIsWellFounded
<1>2. \E x \in T : \A y \in T : ~(<<y, x>> \in R)
  <2>1. IsWellFoundedOn(R, Nat) /\ T \subseteq Nat /\ T # {}
    BY <1>1
  <2> QED BY <2>1, WFMin, Zenon
<1>3. PICK x \in T : \A y \in T : ~(<<y, x>> \in R)
  BY <1>2
<1>4. ASSUME NEW y \in T PROVE x <= y
  <2>1. x \in Nat /\ y \in Nat /\ ~(y < x)
    BY <1>1, <1>3
  <2> QED BY <2>1
<1> QED BY <1>4

\* The element that a sum of a set takes first.
pick(t) == CHOOSE x \in t : TRUE

Summed(F, g, t) == IF t = {} THEN 0 ELSE F[pick(t)] + g[t \ {pick(t)}]

IsSum(F, g, S) == g = [t \in SUBSET S |-> Summed(F, g, t)]

LEMMA SumIs ==
    ASSUME NEW F, NEW S
    PROVE  SumFunctionOnSet(F, S) = (CHOOSE g : IsSum(F, g, S))[S]
  BY DEF SumFunctionOnSet, FoldFunctionOnSet, MapThenFoldSet, IsSum, Summed, pick

LEMMA SummedExists ==
    ASSUME NEW F, NEW S, IsFiniteSet(S)
    PROVE  \E g : IsSum(F, g, S)
<1> DEFINE Upto(n) == {t \in SUBSET S : Cardinality(t) <= n}
           E(n) == \E g : g = [t \in Upto(n) |-> Summed(F, g, t)]
           Bad == {n \in Nat : ~E(n)}
<1>1. \A t \in SUBSET S :
          IsFiniteSet(t) /\ Cardinality(t) \in Nat /\ Cardinality(t) <= Cardinality(S)
  BY FS_Subset, FS_CardinalityType
<1>2. E(0)
  <2> DEFINE g == [t \in Upto(0) |-> 0]
  <2>1. \A t \in Upto(0) : t = {}
    BY <1>1, FS_EmptySet
  <2>2. g = [t \in Upto(0) |-> Summed(F, g, t)]
    BY <2>1 DEF Summed
  <2> QED BY <2>2
<1>3. ASSUME NEW n \in Nat, E(n) PROVE E(n + 1)
  <2>1. PICK g : g = [t \in Upto(n) |-> Summed(F, g, t)]
    BY <1>3
  <2> DEFINE h == [t \in Upto(n + 1) |-> Summed(F, g, t)]
  <2>2. ASSUME NEW t \in Upto(n + 1) PROVE Summed(F, g, t) = Summed(F, h, t)
    <3>1. CASE t = {}
      BY <3>1 DEF Summed
    <3>2. CASE t # {}
      <4> DEFINE u == t \ {pick(t)}
      <4>1. pick(t) \in t
        BY <3>2 DEF pick
      <4>2. u \in SUBSET S /\ Cardinality(u) = Cardinality(t) - 1
        BY <1>1, <4>1, FS_RemoveElement
      <4>3. u \in Upto(n) /\ u \in Upto(n + 1)
        BY <1>1, <4>2
      <4>4. g[u] = h[u]
        BY <2>1, <4>3
      <4> QED BY <3>2, <4>4 DEF Summed
    <3> QED BY <3>1, <3>2
  <2>3. h = [t \in Upto(n + 1) |-> Summed(F, h, t)]
    BY <2>2
  <2> QED BY <2>3
<1> HIDE DEF E
<1>4. Bad = {}
  <2>1. SUFFICES ASSUME Bad # {} PROVE FALSE
    OBVIOUS
  <2>2. PICK n \in Bad : \A m \in Bad : n <= m
    BY <2>1, LeastElement
  <2>3. n # 0 /\ n \in Nat /\ ~E(n)
    BY <1>2
  <2>4. n - 1 \in Nat /\ n - 1 \notin Bad /\ (n - 1) + 1 = n
    BY <2>2, <2>3
  <2>5. E(n - 1)
    BY <2>4
  <2>6. E((n - 1) + 1)
    BY <1>3, <2>4, <2>5
  <2> QED BY <2>3, <2>4, <2>6
<1>5. E(Cardinality(S)) /\ Upto(Cardinality(S)) = SUBSET S
  <2>1. Cardinality(S) \in Nat
    BY FS_CardinalityType
  <2> QED BY <1>1, <1>4, <2>1
<1> QED BY <1>5 DEF E, IsSum

LEMMA SumUnfolds ==
    ASSUME NEW F, NEW S, IsFiniteSet(S)
    PROVE  \E g : IsSum(F, g, S) /\ SumFunctionOnSet(F, S) = g[S]
  BY SummedExists, SumIs

\* Among the sets of a collection one has no proper subset in it.
LEMMA SmallestSet ==
    ASSUME NEW S, IsFiniteSet(S), NEW B \in SUBSET (SUBSET S), B # {}
    PROVE  \E t \in B : \A u \in SUBSET t : u \in B => u = t
<1> DEFINE Sizes == {n \in Nat : \E t \in B : Cardinality(t) = n}
<1>1. \A t \in B : IsFiniteSet(t) /\ Cardinality(t) \in Nat
  BY FS_Subset, FS_CardinalityType
<1>2. Sizes # {}
  BY <1>1
<1>3. PICK n \in Sizes : \A m \in Sizes : n <= m
  BY <1>2, LeastElement
<1>4. PICK t \in B : Cardinality(t) = n
  BY <1>3
<1>5. ASSUME NEW u \in SUBSET t, u \in B PROVE u = t
  <2>1. Cardinality(u) \in Sizes /\ n <= Cardinality(u)
    BY <1>1, <1>3, <1>5
  <2>2. Cardinality(u) <= Cardinality(t) /\ (Cardinality(t) = Cardinality(u) => t = u)
    BY <1>1, <1>4, FS_Subset
  <2>3. Cardinality(u) \in Nat /\ Cardinality(t) \in Nat
    BY <1>1, <1>5
  <2> QED BY <1>4, <2>1, <2>2, <2>3
<1> QED BY <1>4, <1>5

\* Two functions that sum agree where both are defined.
LEMMA SummedAgree ==
    ASSUME NEW F, NEW S, IsFiniteSet(S), NEW T \in SUBSET S, 
           NEW g, NEW h, IsSum(F, g, S), IsSum(F, h, T)
    PROVE  g[T] = h[T]
<1> DEFINE B == {t \in SUBSET T : g[t] # h[t]}
<1>1. SUFFICES ASSUME B # {} PROVE FALSE
  OBVIOUS
<1>2. PICK t \in B : \A u \in SUBSET t : u \in B => u = t
  <2>1. B \in SUBSET (SUBSET S)
    OBVIOUS
  <2> HIDE DEF B
  <2> QED BY <1>1, <2>1, SmallestSet
<1>3. t # {}
  BY <1>2 DEF IsSum, Summed
<1> DEFINE u == t \ {pick(t)}
<1>4. pick(t) \in t
  BY <1>3 DEF pick
<1>5. u \in SUBSET t /\ u # t
  BY <1>4
<1>6. g[u] = h[u]
  <2>1. u \notin B /\ u \in SUBSET T
    <3> HIDE DEF u
    <3> QED BY <1>2, <1>5
  <2> QED BY <2>1
<1>7. g[t] = Summed(F, g, t) /\ h[t] = Summed(F, h, t)
  BY <1>2 DEF IsSum
<1>8. Summed(F, g, t) = Summed(F, h, t)
  BY <1>3, <1>6 DEF Summed
<1> QED BY <1>2, <1>7, <1>8

LEMMA SumEmpty ==
    ASSUME NEW F
    PROVE  SumFunctionOnSet(F, {}) = 0
<1>1. PICK g : IsSum(F, g, {}) /\ SumFunctionOnSet(F, {}) = g[{}]
  BY FS_EmptySet, SumUnfolds
<1> QED BY <1>1 DEF IsSum, Summed

LEMMA SumPicks ==
    ASSUME NEW F, NEW S, IsFiniteSet(S), S # {}
    PROVE  SumFunctionOnSet(F, S) = F[pick(S)] + SumFunctionOnSet(F, S \ {pick(S)})
<1> DEFINE T == S \ {pick(S)}
<1>1. T \in SUBSET S /\ IsFiniteSet(T)
  BY FS_Subset
<1>2. PICK g : IsSum(F, g, S) /\ SumFunctionOnSet(F, S) = g[S]
  BY SumUnfolds
<1>3. PICK h : IsSum(F, h, T) /\ SumFunctionOnSet(F, T) = h[T]
  <2> HIDE DEF T
  <2> QED BY <1>1, SumUnfolds
<1>4. g[T] = h[T]
  <2> HIDE DEF T
  <2> QED BY <1>1, <1>2, <1>3, SummedAgree
<1>5. g[S] = Summed(F, g, S)
  <2>1. S \in SUBSET S
    OBVIOUS
  <2> QED BY <1>2, <2>1 DEF IsSum
<1>6. g[S] = F[pick(S)] + g[T]
  BY <1>5 DEF Summed
<1> QED BY <1>2, <1>3, <1>4, <1>6

\* The sum of integers is an integer, and that of naturals a natural.
LEMMA SumType ==
    ASSUME NEW F, NEW S, IsFiniteSet(S), \A s \in S : F[s] \in Int
    PROVE  SumFunctionOnSet(F, S) \in Int
<1> DEFINE B == {t \in SUBSET S : SumFunctionOnSet(F, t) \notin Int}
<1>1. SUFFICES ASSUME B # {} PROVE FALSE
  OBVIOUS
<1>2. PICK t \in B : \A u \in SUBSET t : u \in B => u = t
  <2>1. B \in SUBSET (SUBSET S)
    OBVIOUS
  <2> HIDE DEF B
  <2> QED BY <1>1, <2>1, SmallestSet
<1>3. t # {}
  <2>1. SumFunctionOnSet(F, t) \notin Int /\ SumFunctionOnSet(F, {}) \in Int
    BY <1>2, SumEmpty
  <2> QED BY <2>1
<1> DEFINE u == t \ {pick(t)}
<1>4. pick(t) \in t /\ F[pick(t)] \in Int
  BY <1>2, <1>3 DEF pick
<1>5. u \in SUBSET t /\ u # t /\ SumFunctionOnSet(F, u) \in Int
  BY <1>2, <1>4
<1>6. SumFunctionOnSet(F, t) = F[pick(t)] + SumFunctionOnSet(F, u)
  <2>1. IsFiniteSet(t)
    BY <1>2, FS_Subset
  <2> QED BY <1>3, <2>1, SumPicks
<1> QED BY <1>2, <1>4, <1>5, <1>6

LEMMA SumOfNaturals ==
    ASSUME NEW F, NEW S, IsFiniteSet(S), \A s \in S : F[s] \in Nat
    PROVE  SumFunctionOnSet(F, S) \in Nat
<1> DEFINE B == {t \in SUBSET S : SumFunctionOnSet(F, t) \notin Nat}
<1>1. SUFFICES ASSUME B # {} PROVE FALSE
  OBVIOUS
<1>2. PICK t \in B : \A u \in SUBSET t : u \in B => u = t
  <2>1. B \in SUBSET (SUBSET S)
    OBVIOUS
  <2> HIDE DEF B
  <2> QED BY <1>1, <2>1, SmallestSet
<1>3. t # {}
  <2>1. SumFunctionOnSet(F, t) \notin Nat /\ SumFunctionOnSet(F, {}) \in Nat
    BY <1>2, SumEmpty
  <2> QED BY <2>1
<1> DEFINE u == t \ {pick(t)}
<1>4. pick(t) \in t /\ F[pick(t)] \in Nat
  BY <1>2, <1>3 DEF pick
<1>5. u \in SUBSET t /\ u # t /\ SumFunctionOnSet(F, u) \in Nat
  BY <1>2, <1>4
<1>6. SumFunctionOnSet(F, t) = F[pick(t)] + SumFunctionOnSet(F, u)
  <2>1. IsFiniteSet(t)
    BY <1>2, FS_Subset
  <2> QED BY <1>3, <2>1, SumPicks
<1> QED BY <1>2, <1>4, <1>5, <1>6

\* Any element can be taken out of a sum.
LEMMA SumTakesOut ==
    ASSUME NEW F, NEW S, IsFiniteSet(S), \A s \in S : F[s] \in Int, NEW y \in S
    PROVE  SumFunctionOnSet(F, S) = F[y] + SumFunctionOnSet(F, S \ {y})
<1> DEFINE Sum(t) == SumFunctionOnSet(F, t)
           B == {t \in SUBSET S : \E x \in t : Sum(t) # F[x] + Sum(t \ {x})}
<1>1. SUFFICES ASSUME B # {} PROVE FALSE
  OBVIOUS
<1>2. PICK t \in B : \A u \in SUBSET t : u \in B => u = t
  <2>1. B \in SUBSET (SUBSET S)
    OBVIOUS
  <2> HIDE DEF B
  <2> QED BY <1>1, <2>1, SmallestSet
<1>3. PICK x \in t : Sum(t) # F[x] + Sum(t \ {x})
  BY <1>2
<1> DEFINE p == pick(t)
<1>4. p \in t
  BY <1>3 DEF pick
<1>5. \A u \in SUBSET S : Sum(u) \in Int /\ (u # {} => Sum(u) = F[pick(u)] + Sum(u \ {pick(u)}))
  BY FS_Subset, SumType, SumPicks
<1>6. Sum(t) = F[p] + Sum(t \ {p})
  BY <1>2, <1>3, <1>5
<1>7. x # p
  BY <1>3, <1>6
<1>8. t \ {p} \notin B /\ t \ {x} \notin B
  <2>1. t \ {p} \in SUBSET t /\ t \ {p} # t /\ t \ {x} \in SUBSET t /\ t \ {x} # t
    BY <1>3, <1>4
  <2> HIDE DEF B, p
  <2> QED BY <1>2, <2>1
<1>9. Sum(t \ {p}) = F[x] + Sum((t \ {p}) \ {x}) /\ Sum(t \ {x}) = F[p] + Sum((t \ {x}) \ {p})
  BY <1>2, <1>3, <1>4, <1>7, <1>8
<1>10. (t \ {p}) \ {x} = (t \ {x}) \ {p}
  OBVIOUS
<1> DEFINE a == Sum((t \ {p}) \ {x})
<1>11. a \in Int /\ F[x] \in Int /\ F[p] \in Int
  BY <1>2, <1>3, <1>4, <1>5
<1>12. /\ Sum(t) = F[p] + (F[x] + a)
       /\ F[x] + Sum(t \ {x}) = F[x] + (F[p] + a)
  BY <1>6, <1>9, <1>10
<1> HIDE DEF a, p
<1> QED BY <1>3, <1>11, <1>12

LEMMA SumAgrees ==
    ASSUME NEW F, NEW G, NEW S, IsFiniteSet(S), \A s \in S : F[s] = G[s]
    PROVE  SumFunctionOnSet(F, S) = SumFunctionOnSet(G, S)
<1> DEFINE B == {t \in SUBSET S : SumFunctionOnSet(F, t) # SumFunctionOnSet(G, t)}
<1>1. SUFFICES ASSUME B # {} PROVE FALSE
  OBVIOUS
<1>2. PICK t \in B : \A u \in SUBSET t : u \in B => u = t
  <2>1. B \in SUBSET (SUBSET S)
    OBVIOUS
  <2> HIDE DEF B
  <2> QED BY <1>1, <2>1, SmallestSet
<1>3. t # {}
  BY <1>2, SumEmpty
<1> DEFINE u == t \ {pick(t)}
<1>4. pick(t) \in t /\ F[pick(t)] = G[pick(t)]
  BY <1>2, <1>3 DEF pick
<1>5. u \in SUBSET t /\ u # t /\ SumFunctionOnSet(F, u) = SumFunctionOnSet(G, u)
  BY <1>2, <1>4
<1>6. /\ SumFunctionOnSet(F, t) = F[pick(t)] + SumFunctionOnSet(F, u)
      /\ SumFunctionOnSet(G, t) = G[pick(t)] + SumFunctionOnSet(G, u)
  <2>1. IsFiniteSet(t)
    BY <1>2, FS_Subset
  <2> QED BY <1>3, <2>1, SumPicks
<1> QED BY <1>2, <1>4, <1>5, <1>6

LEMMA SumOfTwo ==
    ASSUME NEW F, NEW S, IsFiniteSet(S), \A s \in S : F[s] \in Int,
           NEW T \in SUBSET S
    PROVE  SumFunctionOnSet(F, S) = SumFunctionOnSet(F, T) + SumFunctionOnSet(F, S \ T)
<1> DEFINE Sum(t) == SumFunctionOnSet(F, t)
           B == {t \in SUBSET T : Sum(S) # Sum(t) + Sum(S \ t)}
<1>1. SUFFICES ASSUME B # {} PROVE FALSE
  OBVIOUS
<1>2. PICK t \in B : \A u \in SUBSET t : u \in B => u = t
  <2>1. B \in SUBSET (SUBSET S)
    OBVIOUS
  <2> HIDE DEF B
  <2> QED BY <1>1, <2>1, SmallestSet
<1>3. \A u \in SUBSET S : /\ Sum(u) \in Int
                          /\ \A y \in u : Sum(u) = F[y] + Sum(u \ {y})
  BY FS_Subset, SumType, SumTakesOut
<1>4. t # {}
  <2>1. S \ {} = S /\ Sum({}) = 0 /\ Sum(S) \in Int
    BY <1>3, SumEmpty
  <2>2. Sum(S) = Sum({}) + Sum(S \ {})
    <3> HIDE DEF Sum
    <3> QED BY <2>1
  <2> QED BY <1>2, <2>2
<1>5. PICK x \in t : TRUE
  BY <1>4
<1>6. t \ {x} \notin B
  BY <1>2, <1>5
<1>7. Sum(S) = Sum(t \ {x}) + Sum(S \ (t \ {x}))
  BY <1>2, <1>6
<1>8. Sum(t) = F[x] + Sum(t \ {x})
  BY <1>2, <1>3, <1>5
<1>9. Sum(S \ (t \ {x})) = F[x] + Sum(S \ t)
  <2>1. S \ (t \ {x}) \in SUBSET S /\ x \in S \ (t \ {x}) /\ (S \ (t \ {x})) \ {x} = S \ t
    BY <1>2, <1>5
  <2> QED BY <1>3, <2>1
<1>10. Sum(t \ {x}) \in Int /\ Sum(S \ t) \in Int /\ F[x] \in Int
  BY <1>2, <1>3, <1>5
<1>11. Sum(S) = Sum(t) + Sum(S \ t)
  BY <1>7, <1>8, <1>9, <1>10
<1> QED BY <1>2, <1>11

Group(S, key, j) == {s \in S : key[s] = j}

Within(S, key, J) == {s \in S : key[s] \in J}

\* Sums of groups add up to the sum of their elements.
LEMMA SumOfGroups ==
    ASSUME NEW F, NEW S, IsFiniteSet(S), \A s \in S : F[s] \in Int,
           NEW key, NEW G, NEW J, IsFiniteSet(J),
           \A j \in J : G[j] = SumFunctionOnSet(F, Group(S, key, j))
    PROVE  SumFunctionOnSet(G, J) = SumFunctionOnSet(F, Within(S, key, J))
<1> DEFINE Sum(t) == SumFunctionOnSet(F, t)
           In(t) == Within(S, key, t)
           B == {t \in SUBSET J : SumFunctionOnSet(G, t) # Sum(In(t))}
<1>1. SUFFICES ASSUME B # {} PROVE FALSE
  OBVIOUS
<1>2. PICK t \in B : \A u \in SUBSET t : u \in B => u = t
  <2>1. B \in SUBSET (SUBSET J)
    OBVIOUS
  <2> HIDE DEF B
  <2> QED BY <1>1, <2>1, SmallestSet
<1>3. t # {}
  <2>1. In({}) = {}
    BY DEF Within
  <2>2. SumFunctionOnSet(G, {}) = 0 /\ Sum({}) = 0
    BY SumEmpty
  <2>3. SumFunctionOnSet(G, t) # Sum(In(t))
    BY <1>2
  <2> HIDE DEF Sum, In
  <2> QED BY <2>1, <2>2, <2>3
<1> DEFINE p == pick(t)
           u == t \ {p}
<1>4. p \in t
  BY <1>3 DEF pick
<1>5. SumFunctionOnSet(G, t) = G[p] + SumFunctionOnSet(G, u)
  <2>1. IsFiniteSet(t)
    BY <1>2, FS_Subset
  <2> QED BY <1>3, <2>1, SumPicks
<1>6. G[p] = Sum(Group(S, key, p)) /\ SumFunctionOnSet(G, u) = Sum(In(u))
  BY <1>2, <1>4
<1>7. Sum(In(t)) = Sum(Group(S, key, p)) + Sum(In(u))
  <2> DEFINE T == Group(S, key, p)
             I == In(t)
  <2>1. T \in SUBSET I /\ I \ T = In(u) /\ IsFiniteSet(I) /\ \A s \in I : F[s] \in Int
    BY <1>4, FS_Subset DEF Group, Within
  <2> HIDE DEF T, I
  <2>2. Sum(I) = Sum(T) + Sum(I \ T)
    BY <2>1, SumOfTwo
  <2> QED BY <2>1, <2>2 DEF T, I
<1> QED BY <1>2, <1>5, <1>6, <1>7

-----------------------------------------------------------------------------
(* Rollup rows and the sessions behind them                                 *)

\* A table with a row for each upsert.
Table(U) == [u \in U |-> RowOf(u[1])]

\* The rows R add up the sessions of table T, grouped by their keys.
Groups(R, T) ==
    /\ IsFiniteSet(DOMAIN T)
    /\ \A s \in DOMAIN T, f \in Sums : T[s][f] \in Int
    /\ DOMAIN R = {Key(T[s]) : s \in DOMAIN T}
    /\ \A k \in DOMAIN R : \A d \in Dimensions : R[k][d] = k[d]
    /\ \A k \in DOMAIN R, f \in Sums :
           R[k][f] = SumFunctionOnSet([s \in DOMAIN T |-> T[s][f]],
                                      {s \in DOMAIN T : Key(T[s]) = k})

\* A table of rows and the table of its sessions have the same values.
LEMMA SameValues ==
    ASSUME NEW R, NEW T, Groups(R, T), NEW d \in Dimensions
    PROVE  Values(R, d) = Values(T, d)
<1>1. \A s \in DOMAIN T : Key(T[s]) \in DOMAIN R /\ R[Key(T[s])][d] = T[s][d]
  BY DEF Groups, Key
<1>2. \A k \in DOMAIN R : \E s \in DOMAIN T : k = Key(T[s])
  BY DEF Groups
<1> QED BY <1>1, <1>2 DEF Values

LEMMA RowsFinite ==
    ASSUME NEW R, NEW T, Groups(R, T)
    PROVE  IsFiniteSet(DOMAIN R)
<1> DEFINE key == [s \in DOMAIN T |-> Key(T[s])]
<1>1. key \in Surjection(DOMAIN T, DOMAIN R)
  BY DEF Groups, Surjection
<1>2. IsFiniteSet(DOMAIN T)
  BY DEF Groups
<1> HIDE DEF key
<1> QED BY <1>1, <1>2, FS_Surjection

\* And the same totals.
LEMMA SameTotal ==
    ASSUME NEW R, NEW T, Groups(R, T), NEW f \in Sums
    PROVE  Total(R, f) = Total(T, f)
<1> DEFINE key == [s \in DOMAIN T |-> Key(T[s])]
           F == [s \in DOMAIN T |-> T[s][f]]
           G == [k \in DOMAIN R |-> R[k][f]]
           S == DOMAIN T
           J == DOMAIN R
<1>1. \A j \in J : G[j] = SumFunctionOnSet(F, Group(S, key, j))
  <2>1. \A j \in J : Group(S, key, j) = {s \in S : Key(T[s]) = j}
    BY DEF Group
  <2> QED BY <2>1 DEF Groups
<1>2. IsFiniteSet(S) /\ IsFiniteSet(J) /\ \A s \in S : F[s] \in Int
  BY RowsFinite DEF Groups
<1>3. Within(S, key, J) = S
  BY DEF Groups, Within
<1>4. SumFunctionOnSet(G, J) = SumFunctionOnSet(F, Within(S, key, J))
  <2> HIDE DEF key, F, G, S, J
  <2> QED BY <1>1, <1>2, SumOfGroups
<1>5. Total(R, f) = SumFunctionOnSet(G, J) /\ Total(T, f) = SumFunctionOnSet(F, S)
  BY DEF Total, SumFunction
<1> QED BY <1>3, <1>4, <1>5

LEMMA GroupsOfSlices ==
    ASSUME NEW R, NEW T, Groups(R, T), NEW d \in Dimensions, NEW v
    PROVE  Groups(Slice(R, d, v), Slice(T, d, v))
<1> DEFINE Rv == Slice(R, d, v)
           Tv == Slice(T, d, v)
<1>1. /\ DOMAIN Rv = {k \in DOMAIN R : R[k][d] = v} /\ \A k \in DOMAIN Rv : Rv[k] = R[k]
      /\ DOMAIN Tv = {s \in DOMAIN T : T[s][d] = v} /\ \A s \in DOMAIN Tv : Tv[s] = T[s]
  BY DEF Slice
<1> HIDE DEF Rv, Tv
<1>2. \A s \in DOMAIN T : Key(T[s]) \in DOMAIN R /\ R[Key(T[s])][d] = T[s][d]
  BY DEF Groups, Key
<1>3. IsFiniteSet(DOMAIN Tv)
  BY <1>1, FS_Subset DEF Groups
<1>4. \A s \in DOMAIN Tv, f \in Sums : Tv[s][f] \in Int
  BY <1>1 DEF Groups
<1>5. DOMAIN Rv = {Key(Tv[s]) : s \in DOMAIN Tv}
  <2>1. \A s \in DOMAIN Tv : Key(Tv[s]) \in DOMAIN Rv
    BY <1>1, <1>2
  <2>2. \A k \in DOMAIN Rv : \E s \in DOMAIN Tv : k = Key(Tv[s])
    <3> SUFFICES ASSUME NEW k \in DOMAIN Rv PROVE \E s \in DOMAIN Tv : k = Key(Tv[s])
      OBVIOUS
    <3>1. PICK s \in DOMAIN T : k = Key(T[s])
      BY <1>1 DEF Groups
    <3>2. s \in DOMAIN Tv
      BY <1>1, <1>2, <3>1
    <3> QED BY <1>1, <3>1, <3>2
  <2> QED BY <2>1, <2>2
<1>6. \A k \in DOMAIN Rv : \A e \in Dimensions : Rv[k][e] = k[e]
  BY <1>1 DEF Groups
<1>7. ASSUME NEW k \in DOMAIN Rv, NEW f \in Sums
      PROVE  Rv[k][f] = SumFunctionOnSet([s \in DOMAIN Tv |-> Tv[s][f]],
                                         {s \in DOMAIN Tv : Key(Tv[s]) = k})
  <2> DEFINE F == [s \in DOMAIN T |-> T[s][f]]
             G == [s \in DOMAIN Tv |-> Tv[s][f]]
             K == {s \in DOMAIN T : Key(T[s]) = k}
  <2>1. k \in DOMAIN R /\ R[k][d] = v
    BY <1>1
  <2>2. K = {s \in DOMAIN Tv : Key(Tv[s]) = k}
    BY <1>1, <1>2, <2>1
  <2>3. IsFiniteSet(K) /\ \A s \in K : F[s] = G[s]
    <3>1. IsFiniteSet(K)
      BY FS_Subset DEF Groups
    <3>2. \A s \in K : s \in DOMAIN Tv
      BY <2>2
    <3> QED BY <1>1, <3>1, <3>2
  <2>4. Rv[k][f] = SumFunctionOnSet(F, K)
    BY <1>1, <2>1 DEF Groups
  <2>5. SumFunctionOnSet(F, K) = SumFunctionOnSet(G, K)
    <3> HIDE DEF F, G, K
    <3> QED BY <2>3, SumAgrees
  <2> QED BY <2>2, <2>4, <2>5
<1> QED BY <1>3, <1>4, <1>5, <1>6, <1>7 DEF Groups, Rv, Tv

-----------------------------------------------------------------------------
(* The same report                                                          *)

\* So each part of a report is the same from both.
LEMMA SameTokens ==
    ASSUME NEW R, NEW T, Groups(R, T)
    PROVE  Tokens(R) = Tokens(T)
<1>1. {"tokens_in", "tokens_out"} \subseteq Sums
  BY DEF Sums
<1> QED BY <1>1, SameTotal DEF Tokens

LEMMA SameBreakdown ==
    ASSUME NEW R, NEW T, Groups(R, T)
    PROVE  _token_breakdown(R) = _token_breakdown(T)
<1>1. /\ {"tokens_in", "tokens_out"} \subseteq Sums
      /\ {"issue", "role", "skill", "wave"} \subseteq Dimensions
  BY DEF Sums, Dimensions
<1>2. /\ Total(R, "tokens_in") = Total(T, "tokens_in")
      /\ Total(R, "tokens_out") = Total(T, "tokens_out")
  BY <1>1, SameTotal
<1> DEFINE By(U, d) == [v \in Values(U, d) |-> Tokens(Slice(U, d, v))]
<1>3. ASSUME NEW d \in Dimensions PROVE By(R, d) = By(T, d)
  <2>1. Values(R, d) = Values(T, d)
    BY SameValues
  <2>2. \A v : Tokens(Slice(R, d, v)) = Tokens(Slice(T, d, v))
    BY GroupsOfSlices, SameTokens
  <2> QED BY <2>1, <2>2
<1>4. By(R, "issue") = By(T, "issue") /\ By(R, "role") = By(T, "role")
      /\ By(R, "skill") = By(T, "skill") /\ By(R, "wave") = By(T, "wave")
  <2> HIDE DEF By
  <2> QED BY <1>1, <1>3
<1> QED BY <1>2, <1>4 DEF _token_breakdown

LEMMA SameLooping ==
    ASSUME NEW R, NEW T, Groups(R, T)
    PROVE  Looping(R) = Looping(T)
<1>1. {"retry_count", "session_count"} \subseteq Sums /\ "skill" \in Dimensions
  BY DEF Sums, Dimensions
<1>2. Values(R, "skill") = Values(T, "skill")
  BY <1>1, SameValues
<1>3. \A k : Groups(Slice(R, "skill", k), Slice(T, "skill", k))
  BY <1>1, GroupsOfSlices
<1>4. \A k, f : f \in {"retry_count", "session_count"} =>
          Total(Slice(R, "skill", k), f) = Total(Slice(T, "skill", k), f)
  BY <1>1, <1>3, SameTotal
<1> QED BY <1>2, <1>4 DEF Looping

LEMMA SameRates ==
    ASSUME NEW R, NEW T, Groups(R, T)
    PROVE  _retry_rate(R) = _retry_rate(T) /\ _tokens_per_issue(R) = _tokens_per_issue(T)
<1>1. {"retry_count", "session_count"} \subseteq Sums /\ "issue" \in Dimensions
  BY DEF Sums, Dimensions
<1>2. /\ Total(R, "retry_count") = Total(T, "retry_count")
      /\ Total(R, "session_count") = Total(T, "session_count")
  BY <1>1, SameTotal
<1>3. Tokens(R) = Tokens(T) /\ Values(R, "issue") = Values(T, "issue")
  BY <1>1, SameTokens, SameValues
<1> QED BY <1>2, <1>3 DEF _retry_rate, _tokens_per_issue

LEMMA SameRetries ==
    ASSUME NEW R, NEW T, Groups(R, T)
    PROVE  _retry_stats(R) = _retry_stats(T)
<1>1. "retry_count" \in Sums
  BY DEF Sums
<1>2. Total(R, "retry_count") = Total(T, "retry_count")
  BY <1>1, SameTotal
<1>3. _retry_rate(R) = _retry_rate(T) /\ Looping(R) = Looping(T)
  BY SameRates, SameLooping
<1> QED BY <1>2, <1>3 DEF _retry_stats

LEMMA SameOutcomes ==
    ASSUME NEW R, NEW T, Groups(R, T)
    PROVE  _model_outcomes(R) = _model_outcomes(T)
<1> DEFINE Fields == {"session_count", "completed_count", "blocked_count", "error_count", "cost"}
           Of(U, m) == LET M == Slice(U, "model", m)
                       IN  [session_count |-> Total(M, "session_count"),
                            completed_count |-> Total(M, "completed_count"),
                            blocked_count |-> Total(M, "blocked_count"),
                            error_count |-> Total(M, "error_count"),
                            total_tokens |-> Tokens(M), cost |-> Total(M, "cost")]
<1>1. Fields \subseteq Sums /\ "model" \in Dimensions
  BY DEF Sums, Dimensions
<1>2. Values(R, "model") = Values(T, "model")
  BY <1>1, SameValues
<1>3. \A m : Groups(Slice(R, "model", m), Slice(T, "model", m))
  BY <1>1, GroupsOfSlices
<1>4. \A m : \A f \in Fields : Total(Slice(R, "model", m), f) = Total(Slice(T, "model", m), f)
  BY <1>1, <1>3, SameTotal
<1>7. \A m : Tokens(Slice(R, "model", m)) = Tokens(Slice(T, "model", m))
  BY <1>3, SameTokens
<1>5. \A m : Of(R, m) = Of(T, m)
  BY <1>4, <1>7
<1>6. _model_outcomes(R) = [m \in Values(R, "model") |-> Of(R, m)]
      /\ _model_outcomes(T) = [m \in Values(T, "model") |-> Of(T, m)]
  BY DEF _model_outcomes
<1> HIDE DEF Of
<1> QED BY <1>2, <1>5, <1>6

LEMMA SameRegressions ==
    ASSUME NEW R, NEW T, Groups(R, T)
    PROVE  _detect_regressions(R) = _detect_regressions(T)
<1>1. "month" \in Dimensions
  BY DEF Dimensions
<1>2. Values(R, "month") = Values(T, "month")
  BY <1>1, SameValues
<1>3. \A m : Groups(Slice(R, "month", m), Slice(T, "month", m))
  BY <1>1, GroupsOfSlices
<1>4. \A m : /\ _retry_rate(Slice(R, "month", m)) = _retry_rate(Slice(T, "month", m))
             /\ _tokens_per_issue(Slice(R, "month", m)) = _tokens_per_issue(Slice(T, "month", m))
  BY <1>3, SameRates
<1> QED BY <1>2, <1>4 DEF _detect_regressions

LEMMA SameVerbose ==
    ASSUME NEW R, NEW T, Groups(R, T)
    PROVE  TooVerbose(R) = TooVerbose(T) /\ MedianInput(R) = MedianInput(T)
<1> DEFINE Avg(U) == [k \in Values(U, "skill") |->
                        <<Total(Slice(U, "skill", k), "tokens_in"),
                          Total(Slice(U, "skill", k), "session_count")>>]
<1>1. {"tokens_in", "session_count"} \subseteq Sums /\ "skill" \in Dimensions
  BY DEF Sums, Dimensions
<1>2. Values(R, "skill") = Values(T, "skill")
  BY <1>1, SameValues
<1>3. \A k : Groups(Slice(R, "skill", k), Slice(T, "skill", k))
  BY <1>1, GroupsOfSlices
<1>4. \A k, f : f \in {"tokens_in", "session_count"} =>
          Total(Slice(R, "skill", k), f) = Total(Slice(T, "skill", k), f)
  BY <1>1, <1>3, SameTotal
<1>5. Avg(R) = Avg(T)
  BY <1>2, <1>4
<1>7. \A U : avg_in_per_session(U) = Avg(U)
  BY DEF avg_in_per_session
<1>8. MedianInput(R) = MedianInput(T)
  <2> HIDE DEF Avg
  <2> QED BY <1>2, <1>5, <1>7 DEF MedianInput
<1> DEFINE Chosen(avg, skills) ==
             LET med == Median(skills, avg)
             IN  IF Cardinality(skills) < 2 THEN {}
                 ELSE {k \in skills : avg[k][1] * med[2] > Verbose * med[1] * avg[k][2]}
<1>6. /\ TooVerbose(R) = Chosen(Avg(R), Values(R, "skill"))
      /\ TooVerbose(T) = Chosen(Avg(T), Values(T, "skill"))
  BY DEF TooVerbose, MedianInput, avg_in_per_session
<1> HIDE DEF Avg, Chosen
<1> QED BY <1>2, <1>5, <1>6, <1>8

LEMMA SameReport ==
    ASSUME NEW R, NEW T, Groups(R, T)
    PROVE  _build_report(R) = _build_report(T)
<1>1. {"session_count", "cost", "tokens_in", "tokens_out"} \subseteq Sums
  BY DEF Sums
<1>2. \A f \in {"session_count", "cost", "tokens_in", "tokens_out"} : Total(R, f) = Total(T, f)
  BY <1>1, SameTotal
<1>3. _model_outcomes(R) = _model_outcomes(T)
  BY SameOutcomes
<1>4. _suggestions(R) = _suggestions(T)
  <2>1. TooVerbose(R) = TooVerbose(T) /\ Looping(R) = Looping(T)
    BY SameVerbose, SameLooping
  <2> QED BY <1>2, <1>3, <2>1 DEF _suggestions
<1>5. /\ _token_breakdown(R) = _token_breakdown(T) /\ _retry_stats(R) = _retry_stats(T)
      /\ _detect_regressions(R) = _detect_regressions(T)
  BY SameBreakdown, SameRetries, SameRegressions
<1>6. DividesByZero(R) = DividesByZero(T)
  BY SameVerbose DEF DividesByZero
<1> QED BY <1>2, <1>3, <1>4, <1>5, <1>6 DEF _build_report

-----------------------------------------------------------------------------
(* One more session                                                         *)

\* What a row has, whatever the capture says.
LEMMA RowFields ==
    ASSUME NEW s \in Sessions, capture \in Captures
    PROVE  /\ Sums \cup Dimensions \subseteq DOMAIN RowOf(s)
           /\ \A f \in Sums : RowOf(s)[f] \in Int
<1> DEFINE c == capture[s]
<1>1. {c.tokens_in, c.tokens_out, c.cost, c.retry_count} \subseteq Int
  BY ObservabilityAssumption
<1>2. Sums \cup Dimensions \subseteq DOMAIN RowOf(s)
  BY DEF RowOf, Sums, Dimensions
<1>3. ASSUME NEW f \in Sums PROVE RowOf(s)[f] \in Int
  <2>1. CASE f = "session_count"
    BY <2>1 DEF RowOf
  <2>2. CASE f = "tokens_in"
    BY <1>1, <2>2 DEF RowOf
  <2>3. CASE f = "tokens_out"
    BY <1>1, <2>3 DEF RowOf
  <2>4. CASE f = "cost"
    BY <1>1, <2>4 DEF RowOf
  <2>5. CASE f = "retry_count"
    BY <1>1, <2>5 DEF RowOf
  <2>6. CASE f = "completed_count"
    BY <2>6 DEF RowOf
  <2>7. CASE f = "blocked_count"
    BY <2>7 DEF RowOf
  <2>8. CASE f = "error_count"
    BY <2>8 DEF RowOf
  <2> QED BY <2>1, <2>2, <2>3, <2>4, <2>5, <2>6, <2>7, <2>8 DEF Sums
<1> QED BY <1>2, <1>3

\* A sum and a dimension are never the same column.
LEMMA ColumnsDiffer == Sums \cap Dimensions = {}
  BY DEF Sums, Dimensions

\* One upsert adds exactly the session it is made for.
LEMMA UpsertAdds ==
    ASSUME NEW R, NEW S, NEW x, x[1] \in Sessions, x \notin S,
           capture \in Captures, Groups(R, Table(S))
    PROVE  Groups(Upserted(R, RowOf(x[1])), Table(S \cup {x}))
<1> DEFINE row == RowOf(x[1])
           U == Upserted(R, row)
           T == Table(S)
           V == Table(S \cup {x})
<1>1. /\ DOMAIN T = S /\ DOMAIN V = S \cup {x} /\ V[x] = row
      /\ \A s \in S : T[s] = V[s] /\ T[s] = RowOf(s[1])
  BY DEF Table
<1>2. /\ \A f \in Sums : row[f] \in Int /\ f \in DOMAIN row
      /\ \A d \in Dimensions : d \in DOMAIN row /\ d \notin Sums /\ row[d] = Key(row)[d]
  BY RowFields, ColumnsDiffer DEF Key
<1>3. /\ DOMAIN U = DOMAIN R \cup {Key(row)}
      /\ \A k \in DOMAIN U : k # Key(row) => k \in DOMAIN R /\ U[k] = R[k]
      /\ Key(row) \notin DOMAIN R => U[Key(row)] = row
      /\ Key(row) \in DOMAIN R =>
           U[Key(row)] = [f \in DOMAIN row |->
                             IF f \in Sums THEN R[Key(row)][f] + row[f] ELSE row[f]]
  BY DEF Upserted
<1>0. Groups(R, T)
  OBVIOUS
<1> HIDE DEF U, row, T, V
<1>4. IsFiniteSet(DOMAIN T) /\ IsFiniteSet(DOMAIN V)
  BY <1>0, <1>1, FS_AddElement DEF Groups
<1>5. \A s \in DOMAIN V, f \in Sums : V[s][f] \in Int
  BY <1>0, <1>1, <1>2 DEF Groups
<1>6. DOMAIN U = {Key(V[s]) : s \in DOMAIN V}
  BY <1>0, <1>1, <1>3 DEF Groups
<1>7. ASSUME NEW k \in DOMAIN U, NEW d \in Dimensions PROVE U[k][d] = k[d]
  <2>1. CASE k # Key(row)
    BY <1>0, <1>3, <2>1 DEF Groups
  <2>2. CASE k = Key(row) /\ k \notin DOMAIN R
    BY <1>2, <1>3, <2>2
  <2>3. CASE k = Key(row) /\ k \in DOMAIN R
    BY <1>2, <1>3, <2>3
  <2> QED BY <2>1, <2>2, <2>3
<1>8. ASSUME NEW k \in DOMAIN U, NEW f \in Sums
      PROVE  U[k][f] = SumFunctionOnSet([s \in DOMAIN V |-> V[s][f]],
                                        {s \in DOMAIN V : Key(V[s]) = k})
  <2> DEFINE F == [s \in DOMAIN T |-> T[s][f]]
             G == [s \in DOMAIN V |-> V[s][f]]
             A == {s \in DOMAIN T : Key(T[s]) = k}
             B == {s \in DOMAIN V : Key(V[s]) = k}
  <2>1. IsFiniteSet(A) /\ IsFiniteSet(B) /\ (\A s \in A : F[s] = G[s]) /\ \A s \in B : G[s] \in Int
    <3>1. IsFiniteSet(A) /\ IsFiniteSet(B)
      BY <1>4, FS_Subset
    <3> QED BY <1>1, <1>5, <3>1
  <2>2. SumFunctionOnSet(F, A) = SumFunctionOnSet(G, A)
    <3> HIDE DEF F, G, A
    <3> QED BY <2>1, SumAgrees
  <2>3. k \in DOMAIN R => R[k][f] = SumFunctionOnSet(F, A)
    BY <1>0 DEF Groups
  <2>4. CASE k # Key(row)
    <3>1. A = B
      BY <1>1, <2>4
    <3> QED BY <1>3, <2>2, <2>3, <2>4, <3>1
  <2>5. CASE k = Key(row)
    <3>1. x \in B /\ B \ {x} = A /\ G[x] = row[f]
      BY <1>1, <2>5
    <3>2. SumFunctionOnSet(G, B) = row[f] + SumFunctionOnSet(F, A)
      <4>1. SumFunctionOnSet(G, B) = G[x] + SumFunctionOnSet(G, B \ {x})
        <5> HIDE DEF B, G
        <5> QED BY <2>1, <3>1, SumTakesOut
      <4> QED BY <2>2, <3>1, <4>1
    <3>3. SumFunctionOnSet(F, A) \in Int /\ row[f] \in Int
      <4>1. \A s \in A : F[s] \in Int
        BY <1>0 DEF Groups
      <4> HIDE DEF F, A
      <4> QED BY <1>2, <2>1, <4>1, SumType
    <3>4. CASE k \in DOMAIN R
      <4>1. U[k][f] = R[k][f] + row[f]
        BY <1>2, <1>3, <2>5, <3>4
      <4> HIDE DEF F, A, G, B
      <4> QED BY <2>3, <3>2, <3>3, <3>4, <4>1 DEF G, B
    <3>5. CASE k \notin DOMAIN R
      <4>1. A = {}
        BY <1>0, <3>5 DEF Groups
      <4>2. SumFunctionOnSet(F, A) = 0
        BY <4>1, SumEmpty
      <4>3. U[k][f] = row[f]
        BY <1>3, <2>5, <3>5
      <4> HIDE DEF F, A, G, B
      <4> QED BY <3>2, <3>3, <4>2, <4>3 DEF G, B
    <3> QED BY <3>4, <3>5
  <2> QED BY <2>4, <2>5
<1> QED BY <1>4, <1>5, <1>6, <1>7, <1>8 DEF Groups, U, V, row

-----------------------------------------------------------------------------
(* Lists in order                                                           *)

Ascending(q) == \A i, j \in 1..Len(q) : i < j => q[i] < q[j]

Listed(q) == {q[i] : i \in 1..Len(q)}

\* The rank of an element, by which Sorted places it.
rank(S, x) == Cardinality({y \in S : y <= x})

LEMMA RanksDiffer ==
    ASSUME NEW S \in SUBSET Nat, IsFiniteSet(S)
    PROVE  /\ \A x \in S : rank(S, x) \in 1..Cardinality(S)
           /\ \A x, y \in S : x < y => rank(S, x) < rank(S, y)
<1> DEFINE Upto(x) == {y \in S : y <= x}
<1>1. Cardinality(S) \in Nat
  BY FS_CardinalityType
<1>2. ASSUME NEW x \in S
      PROVE  /\ x \in Upto(x) /\ IsFiniteSet(Upto(x))
             /\ Cardinality(Upto(x)) \in Nat \ {0} /\ Cardinality(Upto(x)) <= Cardinality(S)
  <2>1. x \in Upto(x)
    OBVIOUS
  <2>2. Upto(x) \in SUBSET S
    OBVIOUS
  <2> HIDE DEF Upto
  <2>3. IsFiniteSet(Upto(x)) /\ Cardinality(Upto(x)) <= Cardinality(S)
    BY <2>2, FS_Subset
  <2>4. Cardinality(Upto(x)) \in Nat /\ Cardinality(Upto(x)) # 0
    BY <2>1, <2>3, FS_CardinalityType, FS_EmptySet
  <2> QED BY <2>1, <2>3, <2>4
<1>3. ASSUME NEW x \in S, NEW y \in S, x < y
      PROVE  Cardinality(Upto(x)) < Cardinality(Upto(y))
  <2>1. Upto(x) \in SUBSET Upto(y) /\ y \in Upto(y) /\ y \notin Upto(x)
    <3>1. x \in Nat /\ y \in Nat /\ S \subseteq Nat
      OBVIOUS
    <3>2. \A z \in S : z <= x => z <= y
      BY <1>3, <3>1
    <3>3. ~(y <= x) /\ y <= y
      BY <1>3, <3>1
    <3> QED BY <3>2, <3>3
  <2>2. IsFiniteSet(Upto(y)) /\ Cardinality(Upto(x)) \in Nat /\ Cardinality(Upto(y)) \in Nat
    BY <1>2
  <2> HIDE DEF Upto
  <2>3. Cardinality(Upto(x)) <= Cardinality(Upto(y)) /\ Cardinality(Upto(x)) # Cardinality(Upto(y))
    <3>1. /\ Cardinality(Upto(x)) <= Cardinality(Upto(y))
          /\ Cardinality(Upto(y)) = Cardinality(Upto(x)) => Upto(y) = Upto(x)
      BY <2>1, <2>2, FS_Subset
    <3> QED BY <2>1, <3>1
  <2> QED BY <2>2, <2>3
<1> QED BY <1>1, <1>2, <1>3 DEF rank

\* Sorted lists every element once, in ascending order.
LEMMA SortedIs ==
    ASSUME NEW S \in SUBSET Nat, IsFiniteSet(S)
    PROVE  Sorted(S) \in Seq(S) /\ Ascending(Sorted(S)) /\ Listed(Sorted(S)) = S
<1> DEFINE c == Cardinality(S)
           r == [x \in S |-> rank(S, x)]
<1>1. c \in Nat
  BY FS_CardinalityType
<1>2. r \in Injection(S, 1..c)
  <2>1. \A x \in S : r[x] \in 1..c
    BY RanksDiffer
  <2>2. \A x, y \in S : r[x] = r[y] => x = y
    <3>1. SUFFICES ASSUME NEW x \in S, NEW y \in S, x # y PROVE r[x] # r[y]
      OBVIOUS
    <3>2. x < y \/ y < x
      <4>1. x \in Nat /\ y \in Nat
        OBVIOUS
      <4> QED BY <3>1, <4>1
    <3>3. r[x] < r[y] \/ r[y] < r[x]
      BY <3>2, RanksDiffer
    <3>4. r[x] \in Int /\ r[y] \in Int
      BY <1>1, <2>1
    <3> QED BY <3>3, <3>4
  <2> QED BY <2>1, <2>2 DEF Injection, IsInjective
<1>3. r \in Surjection(S, 1..c)
  <2>1. IsFiniteSet(1..c) /\ Cardinality(1..c) = c
    BY <1>1, FS_Interval
  <2> HIDE DEF r
  <2> QED BY <1>2, <2>1, FS_Injection
<1>4. \A k \in 1..c : \E x \in S : rank(S, x) = k
  BY <1>3 DEF Surjection
<1> HIDE DEF r
<1> DEFINE at(k) == CHOOSE x \in S : rank(S, x) = k
<1>5. Sorted(S) = [k \in 1..c |-> at(k)]
  BY DEF Sorted, rank
<1>6. \A k \in 1..c : at(k) \in S /\ rank(S, at(k)) = k
  BY <1>4
<1>7. Sorted(S) \in Seq(S) /\ Len(Sorted(S)) = c /\ \A k \in 1..c : Sorted(S)[k] = at(k)
  <2> HIDE DEF at, c
  <2> QED BY <1>1, <1>5, <1>6
<1> HIDE DEF c
<1>8. Ascending(Sorted(S))
  <2> SUFFICES ASSUME NEW i \in 1..c, NEW j \in 1..c, i < j PROVE at(i) < at(j)
    BY <1>7 DEF Ascending
  <2>1. at(i) \in S /\ at(j) \in S /\ rank(S, at(i)) = i /\ rank(S, at(j)) = j
    BY <1>6
  <2> HIDE DEF at
  <2>2. at(i) \in Nat /\ at(j) \in Nat /\ i \in Nat /\ j \in Nat
    <3>1. i \in Nat /\ j \in Nat
      BY <1>1
    <3> QED BY <2>1, <3>1
  <2>3. at(i) # at(j) /\ ~(at(j) < at(i))
    <3>1. at(j) < at(i) => rank(S, at(j)) < rank(S, at(i))
      BY <2>1, RanksDiffer
    <3> QED BY <2>1, <2>2, <3>1
  <2> QED BY <2>2, <2>3
<1>9. Listed(Sorted(S)) = S
  <2>1. ASSUME NEW x \in S PROVE \E i \in 1..c : at(i) = x
    <3> DEFINE i == rank(S, x)
    <3>1. i \in 1..c
      BY RanksDiffer DEF c
    <3>2. at(i) \in S /\ rank(S, at(i)) = i
      BY <1>6, <3>1
    <3>3. at(i) = x
      <4> DEFINE y == at(i)
      <4> HIDE DEF at, y
      <4>1. y \in S /\ rank(S, y) = rank(S, x)
        BY <3>2 DEF y
      <4>2. y \in Nat /\ x \in Nat /\ rank(S, x) \in Nat
        BY <1>1, <3>1, <4>1
      <4>3. ~(y < x) /\ ~(x < y)
        <5>1. (y < x => rank(S, y) < rank(S, x)) /\ (x < y => rank(S, x) < rank(S, y))
          BY <4>1, RanksDiffer
        <5> QED BY <4>1, <4>2, <5>1
      <4> QED BY <4>2, <4>3 DEF y
    <3> QED BY <3>1, <3>3
  <2> HIDE DEF at
  <2>2. Listed(Sorted(S)) = {at(i) : i \in 1..c}
    BY <1>7 DEF Listed
  <2> QED BY <1>6, <2>1, <2>2
<1> QED BY <1>7, <1>8, <1>9

\* What a list holds is its head and what its tail holds.
LEMMA ListedTail ==
    ASSUME NEW q \in Seq(Nat), q # <<>>
    PROVE  /\ Head(q) \in Nat /\ Tail(q) \in Seq(Nat)
           /\ Listed(q) = {Head(q)} \cup Listed(Tail(q))
<1>1. /\ Len(q) \in Nat \ {0} /\ Tail(q) \in Seq(Nat) /\ Len(Tail(q)) = Len(q) - 1
      /\ Head(q) = q[1] /\ \A i \in 1..Len(q) - 1 : Tail(q)[i] = q[i + 1]
  OBVIOUS
<1>2. 1 \in 1..Len(q)
  BY <1>1
<1>3. \A i \in 1..Len(q) : i = 1 \/ (i - 1 \in 1..Len(Tail(q)) /\ q[i] = Tail(q)[i - 1])
  BY <1>1
<1>4. \A i \in 1..Len(q) : q[i] \in {Head(q)} \cup Listed(Tail(q))
  BY <1>1, <1>3 DEF Listed
<1>5. \A i \in 1..Len(Tail(q)) : i + 1 \in 1..Len(q) /\ Tail(q)[i] = q[i + 1]
  BY <1>1
<1>6. Head(q) \in Listed(q) /\ \A i \in 1..Len(Tail(q)) : Tail(q)[i] \in Listed(q)
  BY <1>1, <1>2, <1>5 DEF Listed
<1>7. Listed(q) = {Head(q)} \cup Listed(Tail(q))
  BY <1>4, <1>6 DEF Listed
<1>8. Head(q) \in Nat
  BY <1>1, <1>2
<1> QED BY <1>1, <1>7, <1>8

\* The first of an ascending sequence is below the others.
LEMMA AscendingTail ==
    ASSUME NEW q \in Seq(Nat), Ascending(q), q # <<>>
    PROVE  Ascending(Tail(q)) /\ \A n \in Listed(Tail(q)) : Head(q) < n
<1>1. /\ Len(q) \in Nat \ {0} /\ Tail(q) \in Seq(Nat) /\ Len(Tail(q)) = Len(q) - 1
      /\ Head(q) = q[1] /\ \A i \in 1..Len(q) - 1 : Tail(q)[i] = q[i + 1]
  OBVIOUS
<1>2. \A i \in 1..Len(Tail(q)) : i + 1 \in 1..Len(q) /\ 1 < i + 1 /\ Tail(q)[i] = q[i + 1]
  BY <1>1
<1>3. Ascending(Tail(q))
  <2> SUFFICES ASSUME NEW i \in 1..Len(Tail(q)), NEW j \in 1..Len(Tail(q)), i < j
               PROVE  Tail(q)[i] < Tail(q)[j]
    BY DEF Ascending
  <2>1. i + 1 < j + 1
    OBVIOUS
  <2> QED BY <1>2, <2>1 DEF Ascending
<1>4. \A n \in Listed(Tail(q)) : Head(q) < n
  <2>1. 1 \in 1..Len(q)
    BY <1>1
  <2> QED BY <1>1, <1>2, <2>1 DEF Ascending, Listed
<1> QED BY <1>3, <1>4

\* A day is in its month, and no later than its last day.
LEMMA DayInMonth ==
    ASSUME NEW d \in Nat
    PROVE  Month(d) \in Nat /\ LastDay(Month(d)) \in Nat /\ d <= LastDay(Month(d))
<1>1. MonthDays \in Nat \ {0}
  BY ObservabilityAssumption
<1> DEFINE m == d \div MonthDays
           r == d % MonthDays
<1>2. m \in Nat /\ r \in 0..MonthDays - 1 /\ d = MonthDays * m + r
  BY <1>1
<1> HIDE DEF m, r
<1>3. MonthDays * m \in Nat /\ m * MonthDays = MonthDays * m
  BY <1>1, <1>2
<1> QED BY <1>1, <1>2, <1>3 DEF Month, LastDay, m

-----------------------------------------------------------------------------
(* What the store keeps, and the list of the call under way                 *)

Written == {s \in Sessions : day[s] # -1}

IsTables(t) ==
    /\ t = [rows |-> t.rows, seen |-> t.seen, upserts |-> t.upserts]
    /\ t.seen \subseteq Written
    /\ t.upserts \subseteq Written \X Nat

StoreTypes ==
    /\ today \in Nat
    /\ capture \in Captures
    /\ day \in [Sessions -> Nat \cup {-1}]
    /\ file \in [Sessions -> {"none", "whole", "torn"}]
    /\ \A s \in Sessions : file[s] # "none" => s \in Written
    /\ months \in SUBSET Nat /\ IsFiniteSet(months)
    /\ job \in {"none", "read", "upserted", "inserted", "age", "cap"}
    /\ todo \in Seq(Nat)
    /\ strays \in [Sessions -> Nat]
    /\ \A t \in {store, conn} : IsTables(t)

Aggregating == job \in {"read", "upserted", "inserted"}

\* The session whose upsert the pass has made without its id.
Unlisted == IF job = "upserted" THEN {Head(todo)} ELSE {}

\* The sessions of S have one upsert in U, and each session has one for each
\* time that its id went astray.
Numbered(U, S, n) ==
    /\ S \subseteq {u[1] : u \in U}
    /\ \A u \in U : u[2] < n[u[1]] \/ (u[2] = n[u[1]] /\ u[1] \in S)

\* What is committed adds up the upserts of sessions with an id, and what the
\* connection sees adds up those and the one that the pass has made last.
RollupInv ==
    /\ Aggregating => Listed(todo) \subseteq Written
    /\ job \in {"upserted", "inserted"} => todo # <<>>
    /\ store.seen \subseteq conn.seen /\ store.upserts \subseteq conn.upserts
    /\ Unlisted \cap conn.seen = {}
    /\ Numbered(store.upserts, store.seen, strays)
    /\ Numbered(conn.upserts, conn.seen \cup Unlisted, strays)
    /\ Groups(store.rows, Table(store.upserts))
    /\ Groups(conn.rows, Table(conn.upserts))

\* The months come in order, and the cap step has each of them before it or
\* has failed to delete it.
PruneInv ==
    /\ ~Pruning => aged = {} /\ capped = {} /\ failed = {}
    /\ Pruning => Ascending(todo)
    /\ aged \subseteq Sessions
    /\ \A s \in aged : today - day[s] > RawDays
    /\ job = "age" => capped = {}
    /\ job = "cap" => /\ months \subseteq Listed(todo) \cup failed
                      /\ \A m \in capped, n \in months : n < m => n \in failed

StoreInv == StoreTypes /\ RollupInv /\ PruneInv

LEMMA StoreStarts == ObservabilityInit => StoreInv
<1> SUFFICES ASSUME ObservabilityInit PROVE StoreInv
  OBVIOUS
<1>1. /\ store = [rows |-> <<>>, seen |-> {}, upserts |-> {}] /\ conn = store
      /\ store.seen = {} /\ store.rows = <<>> /\ store.upserts = {}
  BY DEF ObservabilityInit
<1>2. StoreTypes
  BY <1>1, FS_EmptySet DEF ObservabilityInit, StoreTypes, IsTables, Written
<1>3. Groups(<<>>, Table({}))
  <2>1. DOMAIN Table({}) = {} /\ DOMAIN <<>> = {}
    BY DEF Table
  <2> QED BY <2>1, FS_EmptySet DEF Groups
<1>4. Unlisted = {}
  BY DEF Unlisted, ObservabilityInit
<1>5. RollupInv
  BY <1>1, <1>3, <1>4 DEF RollupInv, Numbered, ObservabilityInit, Aggregating
<1>6. PruneInv
  BY DEF PruneInv, ObservabilityInit, Pruning
<1> QED BY <1>2, <1>5, <1>6 DEF StoreInv

\* The rows of sessions that are written stay what they are.
LEMMA RowsStay ==
    ASSUME StoreTypes, [ObservabilityNext]_observabilityVars
    PROVE  /\ capture' = capture /\ Written \subseteq Written'
           /\ \A s \in Written : RowOf(s)' = RowOf(s)
<1>1. capture' = capture /\ \A s \in Written : s \in Written' /\ day'[s] = day[s]
  <2>1. CASE \E s \in Sessions, d \in {today - 1, today}, f \in {"whole", "torn"} :
               d >= 0 /\ WriteCapture(s, d, f)
    <3>1. PICK s \in Sessions, d \in {today - 1, today}, f \in {"whole", "torn"} :
            d >= 0 /\ WriteCapture(s, d, f)
      BY <2>1
    <3> QED BY <3>1 DEF WriteCapture, StoreTypes, Written
  <2>2. CASE capture' = capture /\ day' = day
    BY <2>2 DEF Written
  <2> QED
    BY <2>1, <2>2
    DEF ObservabilityNext, observabilityVars, disk, Tick, StartPass, Skip, AbortPass, Upsert,
        InsertId, InsertFails, CommitSession, CommitFails, EndPass, OtherCommit, StoreCrash,
        StartPrune, PruneNext, DeleteMonth, DeleteDone, DeleteFails, DeleteFiles, KeepMonth, StartCap,
        EndPrune
<1>2. ASSUME NEW s \in Written PROVE RowOf(s)' = RowOf(s)
  BY <1>1 DEF RowOf, Month
<1> QED BY <1>1, <1>2

LEMMA TypesStep ==
    ASSUME StoreTypes, RollupInv, [ObservabilityNext]_observabilityVars
    PROVE  StoreTypes'
<1>1. CASE Tick
  BY <1>1 DEF Tick, StoreTypes, IsTables, Written, disk, pruned
<1>2. ASSUME NEW s \in Sessions, NEW d \in {today - 1, today}, NEW f \in {"whole", "torn"},
             d >= 0, WriteCapture(s, d, f)
      PROVE  StoreTypes'
  <2>1. d \in Nat /\ d # -1
    BY <1>2 DEF StoreTypes
  <2>2. day' \in [Sessions -> Nat \cup {-1}] /\ Written' = Written \cup {s}
    BY <1>2, <2>1 DEF WriteCapture, StoreTypes, Written
  <2>3. file' \in [Sessions -> {"none", "whole", "torn"}]
    BY <1>2 DEF WriteCapture, StoreTypes
  <2>4. \A q \in Sessions : file'[q] # "none" => q \in Written'
    BY <1>2, <2>2 DEF WriteCapture, StoreTypes
  <2>5. months' \in SUBSET Nat /\ IsFiniteSet(months')
    <3>1. Month(d) \in Nat
      BY <2>1, DayInMonth
    <3> QED BY <1>2, <3>1, FS_AddElement DEF WriteCapture, StoreTypes
  <2>6. today' \in Nat /\ capture' \in Captures /\ UNCHANGED <<job, todo, store, conn, strays>>
    BY <1>2 DEF WriteCapture, StoreTypes
  <2>7. IsTables(store)' /\ IsTables(conn)'
    BY <2>2, <2>6 DEF StoreTypes, IsTables
  <2> QED BY <2>2, <2>3, <2>4, <2>5, <2>6, <2>7 DEF StoreTypes, IsTables
<1>3. ASSUME NEW m \in months, StartPass(m) PROVE StoreTypes'
  <2>1. todo' \in Seq(Nat)
    <3>1. InMonth(m) \in SUBSET Nat /\ IsFiniteSet(InMonth(m))
      BY ObservabilityAssumption, FS_Subset DEF InMonth
    <3> QED BY <1>3, <3>1, SortedIs DEF StartPass
  <2> QED BY <1>3, <2>1 DEF StartPass, StoreTypes, IsTables, Written, disk
<1>4. CASE Skip
  BY <1>4, ListedTail DEF Skip, StoreTypes, IsTables, Written, disk
<1>5. CASE AbortPass \/ EndPass
  <2>1. todo' = <<>> /\ job' = "none"
    BY <1>5 DEF AbortPass, EndPass
  <2>2. UNCHANGED <<today, disk, store, conn, strays>>
    BY <1>5 DEF AbortPass, EndPass
  <2>3. <<>> \in Seq(Nat)
    OBVIOUS
  <2> QED BY <2>1, <2>2, <2>3 DEF StoreTypes, IsTables, Written, disk
<1>6. CASE Upsert
  <2>1. ThisUpsert \in Written \X Nat
    BY <1>6, ListedTail
    DEF Upsert, Readable, ThisUpsert, StoreTypes, RollupInv, Aggregating, Written
  <2>2. conn' = [rows |-> Upserted(conn.rows, RowOf(Head(todo))), seen |-> conn.seen,
                 upserts |-> conn.upserts \cup {ThisUpsert}]
    BY <1>6 DEF Upsert, StoreTypes, IsTables
  <2>3. IsTables(conn') /\ IsTables(store)
    BY <2>1, <2>2 DEF StoreTypes, IsTables
  <2>4. Written' = Written /\ store' = store
    BY <1>6 DEF Upsert, Written, disk
  <2>5. IsTables(conn)' /\ IsTables(store)'
    BY <2>3, <2>4 DEF IsTables
  <2> QED BY <1>6, <2>4, <2>5 DEF Upsert, StoreTypes, disk
<1>16. CASE InsertFails
  <2>1. strays' \in [Sessions -> Nat]
    BY <1>16 DEF InsertFails, StoreTypes
  <2>2. conn' \in {store, conn} /\ UNCHANGED <<today, disk, store>> /\ job' = "none" /\ todo' = <<>>
    BY <1>16 DEF InsertFails
  <2>3. <<>> \in Seq(Nat)
    OBVIOUS
  <2> QED BY <2>1, <2>2, <2>3 DEF StoreTypes, IsTables, Written, disk
<1>7. CASE InsertId
  <2>1. Head(todo) \in Written
    BY <1>7, ListedTail DEF InsertId, StoreTypes, RollupInv, Aggregating
  <2>2. Written' = Written
    BY <1>7 DEF InsertId, Written, disk
  <2>3. conn' = [rows |-> conn.rows, seen |-> conn.seen \cup {Head(todo)},
                 upserts |-> conn.upserts]
    BY <1>7 DEF InsertId, StoreTypes, IsTables
  <2>4. \A t \in {store, conn}' : IsTables(t)'
    BY <1>7, <2>1, <2>2, <2>3 DEF InsertId, StoreTypes, IsTables
  <2> QED BY <1>7, <2>2, <2>4 DEF InsertId, StoreTypes, disk
<1>8. CASE CommitSession
  BY <1>8, ListedTail DEF CommitSession, StoreTypes, IsTables, RollupInv, Written, disk
<1>9. CASE CommitFails
  BY <1>9 DEF CommitFails, StoreTypes, IsTables, Written, disk
<1>10. CASE OtherCommit \/ StoreCrash
  <2>1. todo' \in {todo, <<>>} /\ job' \in {job, "none"}
    BY <1>10 DEF OtherCommit, StoreCrash
  <2>2. UNCHANGED <<today, disk, strays>> /\ store' \in {store, conn} /\ conn' \in {store, conn}
    BY <1>10 DEF OtherCommit, StoreCrash
  <2>3. <<>> \in Seq(Nat)
    OBVIOUS
  <2> QED BY <2>1, <2>2, <2>3 DEF StoreTypes, IsTables, Written, disk
<1>11. CASE StartPrune \/ StartCap
  <2>1. todo' \in Seq(Nat)
    <3>1. months \in SUBSET Nat /\ IsFiniteSet(months) /\ todo' = Sorted(months)
      BY <1>11 DEF StartPrune, StartCap, StoreTypes
    <3>2. Sorted(months) \in Seq(months)
      BY <3>1, SortedIs
    <3> DEFINE q == Sorted(months)
    <3> HIDE DEF q
    <3>3. q \in Seq(months)
      BY <3>2 DEF q
    <3>4. months \subseteq Nat
      BY <3>1
    <3>5. q \in Seq(Nat)
      <4>1. Len(q) \in Nat /\ q = [k \in 1..Len(q) |-> q[k]]
        BY <3>3
      <4>2. \A k \in 1..Len(q) : q[k] \in months
        BY <3>3
      <4>3. \A k \in 1..Len(q) : q[k] \in Nat
        BY <3>4, <4>2
      <4> QED BY <4>1, <4>3
    <3> QED BY <3>1, <3>5 DEF q
  <2> QED BY <1>11, <2>1 DEF StartPrune, StartCap, StoreTypes, IsTables, Written, disk
<1>12. CASE PruneNext
  <2>1. PICK left : DeleteFiles(Head(todo), left)
    BY <1>12 DEF PruneNext, DeleteMonth, DeleteDone, DeleteFails
  <2>2. months' \in SUBSET Nat /\ IsFiniteSet(months')
    <3>1. months' = months \/ months' = months \ {Head(todo)}
      BY <1>12 DEF PruneNext, DeleteMonth, DeleteDone, DeleteFails
    <3>2. months \in SUBSET Nat /\ IsFiniteSet(months)
      BY DEF StoreTypes
    <3>3. IsFiniteSet(months \ {Head(todo)})
      BY <3>2, FS_RemoveElement
    <3> QED BY <3>1, <3>2, <3>3
  <2>3. todo' \in Seq(Nat)
    BY <1>12, <2>1, ListedTail DEF PruneNext, DeleteFiles, StoreTypes
  <2>4. /\ file' \in [Sessions -> {"none", "whole", "torn"}]
        /\ \A s \in Sessions : file'[s] # "none" => file[s] # "none"
    BY <2>1 DEF DeleteFiles, StoreTypes
  <2> QED BY <2>1, <2>2, <2>3, <2>4 DEF DeleteFiles, StoreTypes, IsTables, Written
<1>13. CASE KeepMonth
  BY <1>13, ListedTail DEF KeepMonth, StoreTypes, IsTables, Written, disk
<1>14. CASE EndPrune
  BY <1>14 DEF EndPrune, StoreTypes, IsTables, Written, disk
<1>15. CASE UNCHANGED observabilityVars
  BY <1>15 DEF observabilityVars, disk, StoreTypes, IsTables, Written
<1> QED
  BY <1>1, <1>2, <1>3, <1>4, <1>5, <1>6, <1>7, <1>8, <1>9, <1>10, <1>11, <1>12, <1>13, <1>14, <1>15,
     <1>16
  DEF ObservabilityNext

\* What the two tables and the unlisted session may do in a step.
TablesKept ==
    /\ store' = store \/ (store' = conn /\ Unlisted = {})
    /\ (conn' = conn /\ Unlisted' = Unlisted) \/ (conn' = store /\ Unlisted' = {})
    /\ store' = store \/ conn' = conn
    /\ strays' = strays

LEMMA TablesStep ==
    ASSUME StoreTypes, [ObservabilityNext]_observabilityVars
    PROVE  TablesKept \/ Upsert \/ InsertId \/ InsertFails
<1>1. \A j : j # "upserted" /\ job = j => Unlisted = {}
  BY DEF Unlisted
<1>2. CASE Tick \/ \E s \in Sessions, d \in {today - 1, today}, f \in {"whole", "torn"} :
                     d >= 0 /\ WriteCapture(s, d, f)
  BY <1>2 DEF Tick, WriteCapture, TablesKept, Unlisted
<1>3. CASE \E m \in months : StartPass(m)
  BY <1>3 DEF StartPass, TablesKept, Unlisted
<1>4. CASE Skip \/ AbortPass \/ EndPass
  BY <1>4 DEF Skip, AbortPass, EndPass, TablesKept, Unlisted
<1>5. CASE CommitSession \/ CommitFails
  BY <1>5 DEF CommitSession, CommitFails, TablesKept, Unlisted
<1>6. CASE OtherCommit \/ StoreCrash
  BY <1>6 DEF OtherCommit, StoreCrash, TablesKept, Unlisted
<1>7. CASE StartPrune \/ StartCap \/ KeepMonth \/ EndPrune
  BY <1>7 DEF StartPrune, StartCap, KeepMonth, EndPrune, TablesKept, Unlisted
<1>8. CASE PruneNext
  <2>1. PICK left : DeleteFiles(Head(todo), left)
    BY <1>8 DEF PruneNext, DeleteMonth, DeleteDone, DeleteFails
  <2> QED BY <1>8, <2>1 DEF PruneNext, Pruning, DeleteFiles, TablesKept, Unlisted
<1>9. CASE UNCHANGED observabilityVars
  BY <1>9 DEF observabilityVars, TablesKept, Unlisted
<1> QED BY <1>2, <1>3, <1>4, <1>5, <1>6, <1>7, <1>8, <1>9 DEF ObservabilityNext

\* The sessions the pass still has to look at stay written.
LEMMA PassStep ==
    ASSUME StoreTypes, RollupInv, [ObservabilityNext]_observabilityVars
    PROVE  /\ Aggregating' => Listed(todo') \subseteq Written'
           /\ job' \in {"upserted", "inserted"} => todo' # <<>>
<1>1. Written \subseteq Written'
  BY RowsStay
<1>2. CASE UNCHANGED <<job, todo>>
  BY <1>1, <1>2 DEF RollupInv, Aggregating
<1>3. CASE \E m \in months : StartPass(m)
  <2>1. PICK m \in months : StartPass(m)
    BY <1>3
  <2>2. InMonth(m) \in SUBSET Nat /\ IsFiniteSet(InMonth(m)) /\ InMonth(m) \subseteq Written
    BY ObservabilityAssumption, FS_Subset DEF InMonth, StoreTypes
  <2>3. Listed(todo') = InMonth(m)
    BY <2>1, <2>2, SortedIs DEF StartPass
  <2> QED BY <1>1, <2>1, <2>2, <2>3 DEF StartPass
<1>4. CASE Skip \/ CommitSession
  <2>1. todo # <<>> /\ todo \in Seq(Nat) /\ todo' = Tail(todo) /\ job' = "read"
    BY <1>4 DEF Skip, CommitSession, RollupInv, StoreTypes
  <2>2. Listed(todo') \subseteq Listed(todo)
    BY <2>1, ListedTail
  <2> QED BY <1>1, <1>4, <2>1, <2>2 DEF Skip, CommitSession, RollupInv, Aggregating
<1>5. CASE Upsert \/ InsertId
  BY <1>1, <1>5 DEF Upsert, InsertId, Readable, RollupInv, Aggregating
<1>6. CASE job' \in {"none", "age", "cap"}
  BY <1>6 DEF Aggregating
<1>7. CASE Tick \/ \E s \in Sessions, d \in {today - 1, today}, f \in {"whole", "torn"} :
                     d >= 0 /\ WriteCapture(s, d, f)
  <2>1. UNCHANGED <<job, todo>>
    BY <1>7 DEF Tick, WriteCapture
  <2> QED BY <1>2, <2>1
<1>8. CASE AbortPass \/ InsertFails \/ CommitFails \/ EndPass \/ StoreCrash \/ EndPrune
  <2>1. job' = "none"
    BY <1>8 DEF AbortPass, InsertFails, CommitFails, EndPass, StoreCrash, EndPrune
  <2> QED BY <1>6, <2>1
<1>9. CASE OtherCommit \/ UNCHANGED observabilityVars
  <2>1. UNCHANGED <<job, todo>>
    BY <1>9 DEF OtherCommit, observabilityVars
  <2> QED BY <1>2, <2>1
<1>10. CASE StartPrune \/ PruneNext \/ KeepMonth \/ StartCap
  <2>1. job' \in {"age", "cap"}
    BY <1>10 DEF StartPrune, PruneNext, Pruning, DeleteMonth, DeleteDone, DeleteFails, DeleteFiles,
                 KeepMonth, StartCap
  <2> QED BY <1>6, <2>1
<1> QED BY <1>3, <1>4, <1>5, <1>7, <1>8, <1>9, <1>10 DEF ObservabilityNext

\* More strays leave the upserts of others as they were numbered.
LEMMA NumberedStays ==
    ASSUME NEW U, NEW S, NEW T, NEW n, NEW m, Numbered(U, S, n), T \subseteq S,
           \A u \in U : n[u[1]] \in Nat /\ m[u[1]] \in Nat /\ u[2] \in Nat,
           \A u \in U : m[u[1]] > n[u[1]] \/ (m[u[1]] = n[u[1]] /\ (u[1] \in S => u[1] \in T))
    PROVE  Numbered(U, T, m)
<1>1. T \subseteq {u[1] : u \in U}
  BY DEF Numbered
<1>2. ASSUME NEW u \in U PROVE u[2] < m[u[1]] \/ (u[2] = m[u[1]] /\ u[1] \in T)
  <2>1. u[2] < n[u[1]] \/ (u[2] = n[u[1]] /\ u[1] \in S)
    BY DEF Numbered
  <2>2. n[u[1]] \in Nat /\ m[u[1]] \in Nat /\ u[2] \in Nat
    OBVIOUS
  <2> QED BY <2>1, <2>2
<1> QED BY <1>1, <1>2 DEF Numbered

LEMMA RollupStep ==
    ASSUME StoreTypes, RollupInv, [ObservabilityNext]_observabilityVars
    PROVE  RollupInv'
<1>1. capture' = capture /\ Written \subseteq Written' /\ \A s \in Written : RowOf(s)' = RowOf(s)
  BY RowsStay
<1> DEFINE Later(U) == [u \in U |-> RowOf(u[1])']
<1>2. \A U \in SUBSET (Written \X Nat) : Later(U) = Table(U)
  BY <1>1 DEF Table
<1>3. /\ Table(store.upserts)' = Later(store'.upserts)
      /\ Table(conn.upserts)' = Later(conn'.upserts)
  BY DEF Table
<1>4. /\ store.upserts \in SUBSET (Written \X Nat) /\ conn.upserts \in SUBSET (Written \X Nat)
      /\ Written \subseteq Sessions /\ strays \in [Sessions -> Nat]
  BY DEF StoreTypes, IsTables, Written
<1>5. SUFFICES /\ store'.seen \subseteq conn'.seen /\ store'.upserts \subseteq conn'.upserts
               /\ Unlisted' \cap conn'.seen = {}
               /\ Numbered(store'.upserts, store'.seen, strays')
               /\ Numbered(conn'.upserts, conn'.seen \cup Unlisted', strays')
               /\ Groups(store'.rows, Later(store'.upserts))
               /\ Groups(conn'.rows, Later(conn'.upserts))
  <2>1. /\ Aggregating' => Listed(todo') \subseteq Written'
        /\ job' \in {"upserted", "inserted"} => todo' # <<>>
    BY PassStep
  <2>2. /\ Numbered(store.upserts, store.seen, strays)' =
              Numbered(store'.upserts, store'.seen, strays')
        /\ Numbered(conn.upserts, conn.seen \cup Unlisted, strays)' =
              Numbered(conn'.upserts, conn'.seen \cup Unlisted', strays')
    BY DEF Numbered
  <2> HIDE DEF Later
  <2> QED BY <1>3, <2>1, <2>2 DEF RollupInv
<1> HIDE DEF Later
<1>6. CASE TablesKept
  <2>0. strays' = strays
    BY <1>6 DEF TablesKept
  <2>1. Groups(store'.rows, Later(store'.upserts)) /\ Numbered(store'.upserts, store'.seen, strays')
    <3>1. CASE store' = store
      BY <1>2, <1>4, <2>0, <3>1 DEF RollupInv
    <3>2. CASE store' = conn /\ Unlisted = {}
      <4>1. conn.seen \cup Unlisted = conn.seen
        BY <3>2
      <4> QED BY <1>2, <1>4, <2>0, <3>2, <4>1 DEF RollupInv
    <3> QED BY <1>6, <3>1, <3>2 DEF TablesKept
  <2>2. /\ Groups(conn'.rows, Later(conn'.upserts)) /\ Unlisted' \cap conn'.seen = {}
        /\ Numbered(conn'.upserts, conn'.seen \cup Unlisted', strays')
    <3>1. CASE conn' = conn /\ Unlisted' = Unlisted
      BY <1>2, <1>4, <2>0, <3>1 DEF RollupInv
    <3>2. CASE conn' = store /\ Unlisted' = {}
      <4>1. conn'.seen \cup Unlisted' = store.seen
        BY <3>2
      <4> QED BY <1>2, <1>4, <2>0, <3>2, <4>1 DEF RollupInv
    <3> QED BY <1>6, <3>1, <3>2 DEF TablesKept
  <2>3. store'.seen \subseteq conn'.seen /\ store'.upserts \subseteq conn'.upserts
    BY <1>6 DEF TablesKept, RollupInv
  <2> QED BY <2>1, <2>2, <2>3
<1>7. CASE Upsert
  <2> DEFINE x == Head(todo)
             up == <<x, strays[x]>>
  <2>1. Unlisted = {} /\ Unlisted' = {x} /\ store' = store /\ x \notin conn.seen /\ strays' = strays
    BY <1>7 DEF Upsert, Readable, AlreadyDone, Unlisted
  <2>2. conn' = [rows |-> Upserted(conn.rows, RowOf(x)), seen |-> conn.seen,
                 upserts |-> conn.upserts \cup {up}]
    BY <1>7 DEF Upsert, ThisUpsert, StoreTypes, IsTables
  <2>3. x \in Written
    BY <1>7, ListedTail DEF Upsert, Readable, RollupInv, Aggregating, StoreTypes
  <2>9. up[1] = x /\ up[2] = strays[x] /\ up \in Written \X Nat /\ strays[x] \in Nat
    BY <1>4, <2>3
  <2> HIDE DEF x, up
  <2>4. Numbered(conn.upserts, conn.seen, strays)
    <3>1. conn.seen \cup Unlisted = conn.seen
      BY <2>1
    <3> QED BY <3>1 DEF RollupInv
  <2>5. up \notin conn.upserts
    BY <2>1, <2>4, <2>9 DEF Numbered
  <2>6. Groups(Upserted(conn.rows, RowOf(x)), Table(conn.upserts \cup {up}))
    <3>1. up[1] \in Sessions /\ capture \in Captures /\ Groups(conn.rows, Table(conn.upserts))
      BY <1>4, <2>3, <2>9 DEF StoreTypes, RollupInv
    <3> QED BY <2>5, <2>9, <3>1, UpsertAdds
  <2>7. /\ Later(conn.upserts \cup {up}) = Table(conn.upserts \cup {up})
        /\ Later(store.upserts) = Table(store.upserts)
    <3>1. conn.upserts \cup {up} \in SUBSET (Written \X Nat)
      BY <1>4, <2>9
    <3> QED BY <1>2, <1>4, <3>1
  <2>8. Numbered(conn.upserts \cup {up}, conn.seen \cup {x}, strays)
    BY <2>4, <2>9 DEF Numbered
  <2> QED BY <2>1, <2>2, <2>6, <2>7, <2>8 DEF RollupInv
<1>8. CASE InsertId
  <2> DEFINE x == Head(todo)
  <2>1. Unlisted = {x} /\ Unlisted' = {} /\ store' = store /\ strays' = strays
    BY <1>8 DEF InsertId, Unlisted
  <2>2. conn' = [rows |-> conn.rows, seen |-> conn.seen \cup {x}, upserts |-> conn.upserts]
    BY <1>8 DEF InsertId, StoreTypes, IsTables
  <2> HIDE DEF x
  <2>3. /\ conn'.seen \cup Unlisted' = conn.seen \cup Unlisted /\ conn'.rows = conn.rows
        /\ conn'.upserts = conn.upserts
    BY <2>1, <2>2
  <2> QED BY <1>2, <1>4, <2>1, <2>2, <2>3 DEF RollupInv
<1>9. CASE InsertFails
  <2> DEFINE x == Head(todo)
  <2>1. Unlisted = {x} /\ Unlisted' = {} /\ store' = store
    BY <1>9 DEF InsertFails, Unlisted
  <2>2. CASE conn' = store /\ strays' = strays
    <3>1. conn'.seen \cup Unlisted' = store.seen
      BY <2>1, <2>2
    <3> QED BY <1>2, <1>4, <2>1, <2>2, <3>1 DEF RollupInv
  <2>3. CASE strays' = [strays EXCEPT ![x] = @ + 1] /\ conn' = conn
    <3> HIDE DEF x
    <3>1. /\ \A u \in conn.upserts :
                 strays[u[1]] \in Nat /\ strays'[u[1]] \in Nat /\ u[2] \in Nat
          /\ \A u \in conn.upserts :
                 strays'[u[1]] > strays[u[1]] \/ (strays'[u[1]] = strays[u[1]] /\ u[1] # x)
      BY <1>4, <2>3
    <3>2. Numbered(conn.upserts, conn.seen, strays')
      <4>1. Numbered(conn.upserts, conn.seen \cup {x}, strays)
        BY <2>1 DEF RollupInv
      <4> QED BY <3>1, <4>1, NumberedStays
    <3>3. Numbered(store.upserts, store.seen, strays')
      <4>1. Numbered(store.upserts, store.seen, strays) /\ store.upserts \subseteq conn.upserts
        BY DEF RollupInv
      <4> QED BY <3>1, <4>1, NumberedStays
    <3>4. conn'.seen \cup Unlisted' = conn.seen
      BY <2>1, <2>3
    <3> QED BY <1>2, <1>4, <2>1, <2>3, <3>2, <3>3, <3>4 DEF RollupInv
  <2> QED BY <1>9, <2>2, <2>3 DEF InsertFails
<1> QED BY <1>6, <1>7, <1>8, <1>9, TablesStep

LEMMA DeletionStep ==
    ASSUME StoreTypes, PruneInv, PruneNext
    PROVE  PruneInv'
<1> DEFINE h == Head(todo)
<1>1. PICK left : DeleteFiles(h, left)
  BY DEF PruneNext, DeleteMonth, DeleteDone, DeleteFails
<1>2. /\ Pruning /\ todo # <<>> /\ todo \in Seq(Nat) /\ Ascending(todo)
      /\ UNCHANGED <<today, day, job>> /\ todo' = Tail(todo) /\ Pruning'
      /\ aged' = IF job = "age" THEN aged \cup (InMonth(h) \ left) ELSE aged
  BY <1>1 DEF PruneNext, StoreTypes, PruneInv, DeleteFiles, Pruning
<1>3. /\ Ascending(Tail(todo)) /\ h \in Nat
      /\ Listed(todo) = {h} \cup Listed(Tail(todo))
      /\ \A n \in Listed(Tail(todo)) : h < n /\ n \in Nat
  <2>1. \A q \in Seq(Nat) : Listed(q) \subseteq Nat
    BY DEF Listed
  <2>2. Tail(todo) \in Seq(Nat) /\ h \in Nat /\ Listed(todo) = {h} \cup Listed(Tail(todo))
    BY <1>2, ListedTail
  <2>3. Ascending(Tail(todo)) /\ \A n \in Listed(Tail(todo)) : h < n
    BY <1>2, AscendingTail
  <2> QED BY <2>1, <2>2, <2>3
<1>4. /\ months' \subseteq months
      /\ \/ months' = months \ {h} /\ failed' = failed /\ capped' \in {capped, capped \cup {h}}
         \/ months' = months /\ failed' = failed \cup {h} /\ capped' = capped
      /\ job = "age" => capped' = capped
  BY DEF PruneNext, DeleteMonth, DeleteDone, DeleteFails
<1>5. Expired(h) \/ job # "age"
  BY DEF PruneNext
<1> HIDE DEF h
<1>6. aged' \subseteq Sessions /\ \A s \in aged' : today' - day'[s] > RawDays
  <2>1. CASE job # "age"
    BY <1>2, <2>1 DEF PruneInv
  <2>2. CASE job = "age"
    <3>1. ASSUME NEW s \in InMonth(h) PROVE today - day[s] > RawDays
      <4>1. day[s] \in Nat /\ Month(day[s]) = h
        BY DEF InMonth, StoreTypes, Written
      <4>2. LastDay(h) \in Nat /\ day[s] <= LastDay(h)
        BY <4>1, DayInMonth
      <4>3. today - LastDay(h) > RawDays
        BY <1>5, <2>2 DEF Expired
      <4>4. today \in Nat /\ RawDays \in Nat
        BY ObservabilityAssumption DEF StoreTypes
      <4> DEFINE l == LastDay(h)
      <4> HIDE DEF l
      <4>5. l \in Nat /\ day[s] <= l /\ today - l > RawDays
        BY <4>2, <4>3 DEF l
      <4> QED BY <4>1, <4>4, <4>5
    <3>2. InMonth(h) \subseteq Sessions
      BY DEF InMonth
    <3> QED BY <1>2, <2>2, <3>1, <3>2 DEF PruneInv
  <2> QED BY <2>1, <2>2
<1>7. job' = "age" => capped' = {}
  BY <1>2, <1>4 DEF PruneInv
<1>8. ASSUME job' = "cap"
      PROVE  /\ months' \subseteq Listed(todo') \cup failed'
             /\ \A m \in capped', n \in months' : n < m => n \in failed'
  <2>1. /\ months \subseteq Listed(todo) \cup failed
        /\ \A m \in capped, n \in months : n < m => n \in failed
    BY <1>2, <1>8 DEF PruneInv
  <2>2. months' \subseteq Listed(todo') \cup failed'
    BY <1>2, <1>3, <1>4, <2>1
  <2>3. ASSUME NEW n \in months', n < h PROVE n \in failed'
    <3>1. n \in Nat /\ n # h /\ n \notin Listed(Tail(todo))
      <4>1. n \in Nat
        BY <1>4 DEF StoreTypes
      <4>2. ~(h < n) /\ n # h
        BY <1>3, <2>3, <4>1
      <4> QED BY <1>3, <4>1, <4>2
    <3> QED BY <1>2, <2>2, <3>1
  <2>4. \A m \in capped', n \in months' : n < m => n \in failed'
    BY <1>4, <2>1, <2>3
  <2> QED BY <2>2, <2>4
<1> QED BY <1>2, <1>3, <1>6, <1>7, <1>8 DEF PruneInv

LEMMA PruneStep ==
    ASSUME StoreTypes, PruneInv, [ObservabilityNext]_observabilityVars
    PROVE  PruneInv'
<1>1. CASE Tick \/ \E s \in Sessions, d \in {today - 1, today}, f \in {"whole", "torn"} :
                     d >= 0 /\ WriteCapture(s, d, f)
  <2>1. job = "none" /\ job' = "none" /\ UNCHANGED pruned
    BY <1>1 DEF Tick, WriteCapture
  <2> QED BY <2>1 DEF PruneInv, Pruning, pruned
<1>2. CASE \/ (\E m \in months : StartPass(m)) \/ Skip \/ AbortPass \/ Upsert \/ InsertId
           \/ InsertFails \/ CommitSession \/ CommitFails \/ EndPass \/ OtherCommit
  <2>1. ~Pruning /\ ~Pruning' /\ UNCHANGED pruned
    BY <1>2 DEF StartPass, Skip, AbortPass, Upsert, Readable, InsertId, InsertFails,
                CommitSession, CommitFails, EndPass, OtherCommit, Pruning
  <2> QED BY <2>1 DEF PruneInv, Pruning, pruned
<1>3. CASE StoreCrash \/ EndPrune
  <2>1. job' = "none" /\ Forget
    BY <1>3 DEF StoreCrash, EndPrune
  <2> QED BY <2>1 DEF PruneInv, Pruning, Forget
<1>4. CASE StartPrune
  <2>1. job = "none" /\ job' = "age" /\ UNCHANGED pruned /\ Ascending(todo')
    BY <1>4, SortedIs DEF StartPrune, StoreTypes
  <2> QED BY <2>1 DEF PruneInv, Pruning, pruned
<1>5. CASE PruneNext
  BY <1>5, DeletionStep
<1>6. CASE KeepMonth
  <2>1. job = "age" /\ job' = "age" /\ UNCHANGED <<today, day, pruned>> /\ todo' = Tail(todo)
        /\ todo # <<>> /\ todo \in Seq(Nat) /\ Ascending(todo)
    BY <1>6 DEF KeepMonth, disk, StoreTypes, PruneInv, Pruning
  <2>2. Ascending(todo')
    BY <2>1, AscendingTail
  <2> QED BY <2>1, <2>2 DEF PruneInv, Pruning, pruned
<1>7. CASE StartCap
  <2>1. job = "age" /\ job' = "cap" /\ UNCHANGED <<today, day, months, pruned>>
        /\ Ascending(todo') /\ Listed(todo') = months
    BY <1>7, SortedIs DEF StartCap, disk, StoreTypes
  <2> QED BY <2>1 DEF PruneInv, Pruning, pruned
<1>8. CASE UNCHANGED observabilityVars
  BY <1>8 DEF observabilityVars, disk, pruned, PruneInv, Pruning
<1> QED BY <1>1, <1>2, <1>3, <1>4, <1>5, <1>6, <1>7, <1>8 DEF ObservabilityNext

LEMMA StoreInvariant == ObservabilitySpec => []StoreInv
<1>1. StoreInv /\ [ObservabilityNext]_observabilityVars => StoreInv'
  BY TypesStep, RollupStep, PruneStep DEF StoreInv
<1> QED
  BY <1>1, StoreStarts, PTL DEF ObservabilitySpec

\* Whatever crashes, fails or is repeated, the committed rows add up exactly
\* the upserts made for them: one for each session with an id, and one for each
\* time that an id went astray (RollupStore.aggregate_session).
THEOREM EverySessionCountsOnce == ObservabilitySpec => []RollupCountsOnce
<1>1. StoreInv => RollupCountsOnce
  <2> SUFFICES ASSUME StoreInv PROVE RollupCountsOnce
    OBVIOUS
  <2> DEFINE U == store.upserts
             T == Table(U)
             Of(k) == {u \in U : Key(RowOf(u[1])) = k}
             Counted == {u[1] : u \in U}
  <2>1. /\ Groups(store.rows, T) /\ DOMAIN T = U /\ \A u \in U : T[u] = RowOf(u[1])
        /\ Numbered(U, store.seen, strays) /\ U \subseteq Sessions \X Nat
        /\ strays \in [Sessions -> Nat]
    BY DEF StoreInv, StoreTypes, IsTables, Written, RollupInv, Table
  <2> HIDE DEF T, U
  <2>2. DOMAIN store.rows = {Key(RowOf(s)) : s \in Counted}
    <3>1. DOMAIN store.rows = {Key(T[u]) : u \in DOMAIN T}
      BY <2>1 DEF Groups
    <3> QED BY <2>1, <3>1
  <2>3. ASSUME NEW k \in DOMAIN store.rows, NEW f \in Sums
        PROVE  store.rows[k][f] = SumFunctionOnSet([u \in U |-> RowOf(u[1])[f]], Of(k))
    <3>1. [s \in DOMAIN T |-> T[s][f]] = [u \in U |-> RowOf(u[1])[f]]
      BY <2>1
    <3>2. {s \in DOMAIN T : Key(T[s]) = k} = Of(k)
      BY <2>1
    <3> QED BY <2>1, <3>1, <3>2 DEF Groups
  <2>4. store.seen \subseteq Counted
    BY <2>1 DEF Numbered
  <2>5. ASSUME NEW u \in U
        PROVE  u[2] \in 0..(IF u[1] \in store.seen THEN strays[u[1]] ELSE strays[u[1]] - 1)
    BY <2>1 DEF Numbered
  <2> QED BY <2>2, <2>3, <2>4, <2>5 DEF RollupCountsOnce, U
<1> QED
  BY <1>1, StoreInvariant, PTL

\* A report is the same from the rollups as from the upserts themselves, one
\* row each, and fails when that fails (_build_report).
THEOREM RollupsReportTheSame == ObservabilitySpec => []ReportFromRollups
<1>1. StoreInv => ReportFromRollups
  <2> SUFFICES ASSUME StoreInv, job = "none"
               PROVE  LET rows == conn.rows
                          sessions == [u \in conn.upserts |-> RowOf(u[1])]
                      IN  /\ generate_on_demand(rows) = generate_on_demand(sessions)
                          /\ \A w \in Values(rows, "wave") :
                                 generate_for_wave(rows, w) = generate_for_wave(sessions, w)
                          /\ \A m \in Values(rows, "month") :
                                 generate_for_month(rows, m) = generate_for_month(sessions, m)
    BY DEF ReportFromRollups
  <2> DEFINE R == conn.rows
             T == [u \in conn.upserts |-> RowOf(u[1])]
  <2>1. Groups(R, T)
    BY DEF StoreInv, RollupInv, Table
  <2> HIDE DEF R, T
  <2>2. generate_on_demand(R) = generate_on_demand(T)
    BY <2>1, SameReport DEF generate_on_demand
  <2>3. "wave" \in Dimensions /\ "month" \in Dimensions
    BY DEF Dimensions
  <2>4. \A w : generate_for_wave(R, w) = generate_for_wave(T, w)
    <3>1. \A w : Groups(Slice(R, "wave", w), Slice(T, "wave", w))
      BY <2>1, <2>3, GroupsOfSlices
    <3> QED BY <3>1, SameReport DEF generate_for_wave
  <2>5. \A m : generate_for_month(R, m) = generate_for_month(T, m)
    <3>1. \A m : Groups(Slice(R, "month", m), Slice(T, "month", m))
      BY <2>1, <2>3, GroupsOfSlices
    <3> QED BY <3>1, SameReport DEF generate_for_month
  <2> QED BY <2>2, <2>4, <2>5 DEF R, T
<1> QED
  BY <1>1, StoreInvariant, PTL

\* The age step deletes nothing younger than raw_days, and the cap step
\* passes over no older month that it could delete (prune).
THEOREM OldestCapturesGoFirst == ObservabilitySpec => []PruneTakesTheOldest
<1>1. StoreInv => PruneTakesTheOldest
  BY DEF StoreInv, PruneInv, PruneTakesTheOldest, Pruning
<1> QED
  BY <1>1, StoreInvariant, PTL

\* Nothing takes back what has been counted: no crash, no failure, no later
\* session, and no pruning of the captures it was counted from.
RollupsOutlivePruning ==
    [][/\ store.seen \subseteq store'.seen
       /\ \A k \in DOMAIN store.rows :
              /\ k \in DOMAIN store'.rows
              /\ store.rows[k].session_count <= store'.rows[k].session_count]_observabilityVars

\* The sessions of a row are counted one each.
LEMMA CountIs ==
    ASSUME NEW R, NEW W, NEW S \in SUBSET W, Groups(R, Table(S)), NEW k \in DOMAIN R
    PROVE  R[k].session_count
               = SumFunctionOnSet([s \in W |-> 1], {s \in S : Key(RowOf(s[1])) = k})
<1> DEFINE T == Table(S)
           F == [s \in DOMAIN T |-> T[s]["session_count"]]
           One == [s \in W |-> 1]
           A == {s \in DOMAIN T : Key(T[s]) = k}
<1>1. DOMAIN T = S /\ \A s \in S : T[s] = RowOf(s[1]) /\ RowOf(s[1])["session_count"] = 1
  BY DEF Table, RowOf
<1>2. A = {s \in S : Key(RowOf(s[1])) = k}
  BY <1>1
<1>3. R[k]["session_count"] = SumFunctionOnSet(F, A)
  BY DEF Groups, Sums
<1>4. IsFiniteSet(A) /\ \A s \in A : F[s] = One[s]
  <2>1. IsFiniteSet(DOMAIN T)
    BY DEF Groups
  <2>2. IsFiniteSet(A)
    BY <2>1, FS_Subset
  <2> QED BY <1>1, <2>2
<1>5. SumFunctionOnSet(F, A) = SumFunctionOnSet(One, A)
  <2> HIDE DEF F, One, A
  <2> QED BY <1>4, SumAgrees
<1> QED BY <1>2, <1>3, <1>5

\* Aggregation only adds, whatever becomes of the captures (RollupStore).
THEOREM CountedForGood == ObservabilitySpec => RollupsOutlivePruning
<1> DEFINE Kept == /\ store.seen \subseteq store'.seen
                   /\ \A k \in DOMAIN store.rows :
                          /\ k \in DOMAIN store'.rows
                          /\ store.rows[k].session_count <= store'.rows[k].session_count
<1>1. StoreInv /\ StoreInv' /\ [ObservabilityNext]_observabilityVars => Kept
  <2> SUFFICES ASSUME StoreInv, StoreInv', [ObservabilityNext]_observabilityVars PROVE Kept
    OBVIOUS
  <2>1. StoreTypes /\ RollupInv
    BY DEF StoreInv
  <2>2. store' = store \/ store' = conn
    <3>1. TablesKept \/ Upsert \/ InsertId \/ InsertFails
      BY <2>1, TablesStep
    <3> QED BY <3>1 DEF TablesKept, Upsert, InsertId, InsertFails
  <2>3. /\ store.seen \subseteq store'.seen /\ store.upserts \subseteq store'.upserts
        /\ store.upserts \subseteq Written \X Nat /\ store'.upserts \subseteq Written \X Nat
    BY <2>1, <2>2 DEF StoreTypes, IsTables, RollupInv
  <2>4. Written \subseteq Sessions /\ \A s \in Written : RowOf(s)' = RowOf(s)
    BY <2>1, RowsStay DEF Written
  <2>5. Table(store.upserts)' = Table(store'.upserts)
    <3>1. Table(store.upserts)' = [u \in store'.upserts |-> RowOf(u[1])']
      BY DEF Table
    <3> QED BY <2>3, <2>4, <3>1 DEF Table
  <2>6. /\ Groups(store.rows, Table(store.upserts)) /\ Groups(store'.rows, Table(store'.upserts))
        /\ IsFiniteSet(store'.upserts)
    <3>1. Groups(store'.rows, Table(store.upserts)')
      BY DEF StoreInv, RollupInv
    <3>2. Groups(store.rows, Table(store.upserts)) /\ Groups(store'.rows, Table(store'.upserts))
      BY <2>1, <2>5, <3>1 DEF RollupInv
    <3> QED BY <3>2 DEF Groups, Table
  <2>7. ASSUME NEW k \in DOMAIN store.rows
        PROVE  /\ k \in DOMAIN store'.rows
               /\ store.rows[k].session_count <= store'.rows[k].session_count
    <3> DEFINE S == store.upserts
               U == store'.upserts
               One == [s \in U |-> 1]
               A == {s \in S : Key(RowOf(s[1])) = k}
               B == {s \in U : Key(RowOf(s[1])) = k}
    <3>1. k \in DOMAIN store'.rows
      <4>1. DOMAIN store.rows = {Key(RowOf(s[1])) : s \in S}
        BY <2>6 DEF Groups, Table
      <4>2. DOMAIN store'.rows = {Key(RowOf(s[1])) : s \in U}
        BY <2>6 DEF Groups, Table
      <4> QED BY <2>3, <4>1, <4>2
    <3>2. /\ store.rows[k].session_count = SumFunctionOnSet(One, A)
          /\ store'.rows[k].session_count = SumFunctionOnSet(One, B)
      <4>1. S \in SUBSET U /\ U \in SUBSET U
        BY <2>3
      <4> QED BY <2>6, <3>1, <4>1, CountIs
    <3>3. A \in SUBSET B /\ B \in SUBSET U
      BY <2>3
    <3>4. /\ IsFiniteSet(B) /\ IsFiniteSet(A) /\ IsFiniteSet(B \ A)
          /\ \A s \in B : One[s] \in Nat /\ One[s] \in Int
      <4>1. IsFiniteSet(B)
        BY <2>6, <3>3, FS_Subset
      <4> HIDE DEF A, B
      <4>2. IsFiniteSet(A) /\ IsFiniteSet(B \ A)
        BY <3>3, <4>1, FS_Subset
      <4> QED BY <3>3, <4>1, <4>2
    <3> DEFINE a == SumFunctionOnSet(One, A)
               b == SumFunctionOnSet(One, B)
               c == SumFunctionOnSet(One, B \ A)
    <3>5. b = a + c /\ a \in Nat /\ c \in Nat
      <4> HIDE DEF A, B, One
      <4> QED BY <3>3, <3>4, SumOfTwo, SumOfNaturals
    <3>6. a <= b
      <4> HIDE DEF a, b, c
      <4> QED BY <3>5
    <3> QED BY <3>1, <3>2, <3>6
  <2> QED BY <2>3, <2>7
<1> QED
  BY <1>1, StoreInvariant, PTL DEF ObservabilitySpec, RollupsOutlivePruning
=============================================================================
