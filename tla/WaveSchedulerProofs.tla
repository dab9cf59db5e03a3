------------------------ MODULE WaveSchedulerProofs ------------------------
(***************************************************************************)
(* Theorems of WaveScheduler for every finite wave, every assignment of    *)
(* its issues to repositories, every dependency relation and every cap.    *)
(* The invariants are proved in layers: each layer may use those before    *)
(* it.                                                                     *)
(***************************************************************************)
EXTENDS WaveScheduler, FiniteSetTheorems, TLAPS

-----------------------------------------------------------------------------
(* Facts about the constants and the helpers *)

\* The default cap, the number of repositories, is a positive number too.
LEMMA EffectiveCapPositive == EffectiveCap \in Nat \ {0}
<1>1. CASE ExplicitCap = NoCap
  <2> DEFINE f == [t \in Tasks |-> Repo[t]]
  <2>1. f \in Surjection(Tasks, Repos)
    BY DEF Surjection, Repos
  <2>2. IsFiniteSet(Repos)
    BY <2>1, FS_Surjection, TasksAssumption
  <2>3. Repos # {}
    BY TasksAssumption DEF Repos
  <2>4. Cardinality(Repos) \in Nat \ {0}
    BY <2>2, <2>3, FS_CardinalityType, FS_EmptySet
  <2> QED BY <1>1, <2>4 DEF EffectiveCap
<1>2. CASE ExplicitCap # NoCap
  BY <1>2, CapAssumption DEF EffectiveCap
<1> QED BY <1>1, <1>2

\* A set of tasks at given places is finite.
LEMMA AtFinite == ASSUME NEW s PROVE IsFiniteSet(At(s)) /\ Cardinality(At(s)) \in Nat
BY TasksAssumption, FS_Subset, FS_CardinalityType DEF At

\* A release wakes at most one of the waiters.
LEMMA WakeOneCardinality ==
  ASSUME NEW s, NEW W \in WakeOne(s)
  PROVE  IsFiniteSet(W) /\ Cardinality(W) \in {0, 1} /\ W \subseteq s
BY FS_EmptySet, FS_Singleton DEF WakeOne

\* A woken taker passes on no more permits than there are.
LEMMA WakeWhilePermitsCardinality ==
  ASSUME NEW s, IsFiniteSet(s), NEW W \in WakeWhilePermits(s)
  PROVE  IsFiniteSet(W) /\ Cardinality(W) \in Nat /\ Cardinality(W) <= permits
         /\ W \subseteq s
BY FS_Subset, FS_CardinalityType DEF WakeWhilePermits

-----------------------------------------------------------------------------
(* Type correctness *)

\* Every step of the scheduler keeps the types.
LEMMA TypeStep == TypeOK /\ [Next]_vars => TypeOK'
<1> SUFFICES ASSUME TypeOK, [Next]_vars PROVE TypeOK'
  OBVIOUS
<1> USE DEF TypeOK, PCs
<1>1. ASSUME NEW t \in Tasks, AskForPermit(t)
      PROVE  pc' \in [Tasks -> PCs] /\ permits' \in Nat /\ locked' \in [Repos -> BOOLEAN]
  <2>1. pc' \in [Tasks -> PCs]
    BY <1>1 DEF AskForPermit, PastAdmission
  <2>2. permits' \in Nat
    BY <1>1 DEF AskForPermit, PermitFree
  <2>3. locked' \in [Repos -> BOOLEAN]
    BY <1>1 DEF AskForPermit, LockedBy, Repos
  <2> QED BY <2>1, <2>2, <2>3
<1>2. ASSUME NEW t \in Tasks, Check(t) PROVE TypeOK'
  BY <1>1, <1>2 DEF Check
<1>3. ASSUME NEW t \in Tasks, LeavePauseGate(t) PROVE TypeOK'
  BY <1>1, <1>3 DEF LeavePauseGate
<1>4. ASSUME NEW t \in Tasks, TakePermit(t) PROVE TypeOK'
  <2>1. PICK granted \in WakeWhilePermits(At({"awaitPermit"})) :
          /\ permits' = permits - Cardinality(granted)
          /\ pc' = [u \in Tasks |-> CASE u = t -> PastAdmission(t)
                                      [] u \in granted -> "permitted"
                                      [] OTHER -> pc[u]]
    BY <1>4 DEF TakePermit
  <2>2. permits' \in Nat
    BY <2>1, AtFinite, WakeWhilePermitsCardinality
  <2>3. pc' \in [Tasks -> PCs]
    BY <2>1 DEF PastAdmission
  <2> QED BY <1>4, <2>2, <2>3 DEF TakePermit, LockedBy, Repos
<1>5. ASSUME NEW t \in Tasks, TakeLock(t) PROVE TypeOK'
  BY <1>5 DEF TakeLock
<1>6. ASSUME NEW t \in Tasks, NEW verdict \in {"succeeded", "failed"}, Finish(t, verdict)
      PROVE  TypeOK'
  <2>1. PICK heir \in WakeOne({u \in At({"awaitLock"}) : Repo[u] = Repo[t]}),
             granted \in WakeOne(At({"awaitPermit"})) :
          /\ permits' = permits + 1 - Cardinality(granted)
          /\ pc' = [u \in Tasks |-> CASE u = t -> verdict
                                      [] u \in heir -> "lockWoken"
                                      [] u \in granted -> "permitted"
                                      [] pc[u] = "awaitDone" -> "ready"
                                      [] OTHER -> pc[u]]
    BY <1>6 DEF Finish
  <2>2. permits' \in Nat
    BY <2>1, WakeOneCardinality
  <2>3. pc' \in [Tasks -> PCs]
    BY <2>1
  <2> QED BY <1>6, <2>2, <2>3 DEF Finish
<1>7. CASE Return
  BY <1>7 DEF Return
<1>8. CASE Cancel
  BY <1>8 DEF Cancel
<1>9. ASSUME NEW t \in Tasks, Unwind(t) PROVE TypeOK'
  <2>1. pc' \in [Tasks -> PCs]
    BY <1>9 DEF Unwind
  <2>2. permits' \in Nat
    BY <1>9 DEF Unwind
  <2>3. locked' \in [Repos -> BOOLEAN]
    BY <1>9 DEF Unwind, Repos
  <2>4. done' \subseteq Tasks
    BY <1>9 DEF Unwind
  <2> QED BY <1>9, <2>1, <2>2, <2>3, <2>4 DEF Unwind
<1>10. CASE ReturnCancelled
  BY <1>10 DEF ReturnCancelled
<1>11. CASE Pause
  BY <1>11 DEF Pause
<1>12. CASE Resume
  BY <1>12 DEF Resume
<1>13. ASSUME NEW newCap \in 0..EffectiveCap, StepDownCap(newCap) PROVE TypeOK'
  <2>1. newCap \in Nat
    BY EffectiveCapPositive
  <2>2. CASE newCap <= 0
    <3>1. ~(newCap > 0)
      BY <2>1, <2>2
    <3> QED BY <1>13, <3>1 DEF StepDownCap
  <2>3. CASE newCap > 0
    BY <1>13, <2>1, <2>3 DEF StepDownCap
  <2> QED BY <2>1, <2>2, <2>3
<1>14. CASE UNCHANGED vars
  BY <1>14 DEF vars
<1> QED BY <1>2, <1>3, <1>4, <1>5, <1>6, <1>7, <1>8, <1>9, <1>10, <1>11, <1>12,
           <1>13, <1>14 DEF Next, LoopStep, TaskStep

\* Every variable keeps to its values, whatever the wave.
THEOREM TypeCorrect == Spec => []TypeOK
<1>1. Init => TypeOK
  BY EffectiveCapPositive DEF Init, TypeOK, PCs
<1> QED BY <1>1, TypeStep, PTL DEF Spec

-----------------------------------------------------------------------------
(* Dependencies *)

Ended == {"succeeded", "failed"}

PastDependencies == PCs \ {"ready", "awaitDone", "cancelled"}

\* Inductive: whoever is past the wait for its dependencies has only ended
\* ones, because _done holds ended tasks only until the wave is cancelled,
\* and ended tasks stay as they are.
DependencyInv ==
    /\ \A t \in done : pc[t] \in Ended \union {"cancelled"}
    /\ ~cancelling => \A t \in Tasks : pc[t] # "cancelled"
    /\ \A t \in Tasks : pc[t] \in PastDependencies => \A d \in Dep[t] : pc[d] \in Ended

\* Every step keeps what an issue past its dependencies may rely on.
LEMMA DependencyStep == TypeOK /\ DependencyInv /\ [Next]_vars => DependencyInv'
<1> SUFFICES ASSUME TypeOK, DependencyInv, [Next]_vars PROVE DependencyInv'
  OBVIOUS
<1> USE DepAssumption DEF TypeOK, PCs, DependencyInv, Ended, PastDependencies
<1>0. ASSUME UNCHANGED <<pc, done, cancelling>> PROVE DependencyInv'
  BY <1>0
\* A step that ends no task leaves done alone; it may take a task past its
\* dependencies only if they are all in done.
<1>1. ASSUME NEW t \in Tasks, UNCHANGED <<done, cancelling>>, ~cancelling,
             pc[t] \notin Ended,
             pc[t] = "ready" => Unmet(t) = {},
             pc[t] # "awaitDone",
             pc' \in [Tasks -> PCs \ {"cancelled"}],
             \A u \in Tasks : u # t /\ pc'[u] # pc[u] =>
                 pc[u] \in PastDependencies \ Ended /\ pc'[u] \in PastDependencies
      PROVE  DependencyInv'
  <2>1. \A d \in Tasks : pc[d] \in Ended => pc'[d] = pc[d]
    BY <1>1
  <2>2. \A u \in Tasks : pc'[u] \in PastDependencies =>
            \A d \in Dep[u] : pc[d] \in Ended
    BY <1>1 DEF Unmet
  <2>3. \A u \in done : pc'[u] \in Ended
    BY <1>1, <2>1
  <2> QED BY <1>1, <2>1, <2>2, <2>3
<1>2. ASSUME NEW t \in Tasks, Check(t) PROVE DependencyInv'
  <2>1. CASE Unmet(t) # {}
    BY <1>2, <2>1 DEF Check
  <2>2. CASE Unmet(t) = {} /\ paused
    BY <1>1, <1>2, <2>2 DEF Check
  <2>3. CASE Unmet(t) = {} /\ ~paused
    BY <1>1, <1>2, <2>3 DEF Check, AskForPermit, PastAdmission
  <2> QED BY <2>1, <2>2, <2>3
<1>3. ASSUME NEW t \in Tasks, LeavePauseGate(t) PROVE DependencyInv'
  BY <1>1, <1>3 DEF LeavePauseGate, AskForPermit, PastAdmission
<1>4. ASSUME NEW t \in Tasks, TakePermit(t) PROVE DependencyInv'
  <2>1. PICK granted \in WakeWhilePermits(At({"awaitPermit"})) :
          pc' = [u \in Tasks |-> CASE u = t -> PastAdmission(t)
                                    [] u \in granted -> "permitted"
                                    [] OTHER -> pc[u]]
    BY <1>4 DEF TakePermit
  <2>2. \A u \in granted : pc[u] = "awaitPermit"
    BY <2>1 DEF WakeWhilePermits, At
  <2> QED BY <1>1, <1>4, <2>1, <2>2 DEF TakePermit, PastAdmission
<1>5. ASSUME NEW t \in Tasks, TakeLock(t) PROVE DependencyInv'
  BY <1>1, <1>5 DEF TakeLock
<1>6. ASSUME NEW t \in Tasks, NEW verdict \in {"succeeded", "failed"}, Finish(t, verdict)
      PROVE  DependencyInv'
  <2>1. PICK heir \in WakeOne({u \in At({"awaitLock"}) : Repo[u] = Repo[t]}),
             granted \in WakeOne(At({"awaitPermit"})) :
          pc' = [u \in Tasks |-> CASE u = t -> verdict
                                    [] u \in heir -> "lockWoken"
                                    [] u \in granted -> "permitted"
                                    [] pc[u] = "awaitDone" -> "ready"
                                    [] OTHER -> pc[u]]
    BY <1>6 DEF Finish
  <2>2. \A u \in heir \union granted : pc[u] \in {"awaitLock", "awaitPermit"}
    BY <2>1 DEF WakeOne, At
  <2>3. \A u \in Tasks : /\ pc[u] \in Ended => pc'[u] = pc[u]
                         /\ pc'[u] # "cancelled"
                         /\ pc'[u] \in PastDependencies => pc[u] \in PastDependencies
    BY <1>6, <2>1, <2>2 DEF Finish
  <2>4. pc'[t] \in Ended
    BY <1>6, <2>1, <2>2 DEF Finish
  <2>7. done' = done \union {t} /\ cancelling' = cancelling
    BY <1>6, Zenon DEF Finish
  <2>5. \A u \in done' : pc'[u] \in Ended \union {"cancelled"}
    <3>1. \A u \in done : pc[u] \in Ended
      BY <1>6 DEF Finish
    <3>2. \A u \in done : pc'[u] \in Ended
      BY <2>3, <3>1
    <3> QED BY <2>4, <2>7, <3>2
  <2>6. \A u \in Tasks : pc'[u] \in PastDependencies => \A d \in Dep[u] : pc'[d] \in Ended
    BY <2>3
  <2> QED BY <2>3, <2>5, <2>6, <2>7
<1>7. CASE Return
  BY <1>0, <1>7 DEF Return
<1>8. CASE Cancel
  BY <1>8 DEF Cancel
<1>9. ASSUME NEW t \in Tasks, Unwind(t) PROVE DependencyInv'
  <2>1. \A u \in Tasks : /\ pc[u] \in Ended => pc'[u] = pc[u]
                         /\ u # t => pc'[u] = pc[u]
                         /\ pc'[t] = "cancelled"
    BY <1>9 DEF Unwind
  <2>2. done' \subseteq done \union {t} /\ cancelling'
    BY <1>9 DEF Unwind
  <2> QED BY <2>1, <2>2
<1>10. CASE ReturnCancelled
  BY <1>0, <1>10 DEF ReturnCancelled
<1>11. CASE Pause
  BY <1>0, <1>11 DEF Pause
<1>12. CASE Resume
  <2>1. \A u \in Tasks : \/ pc'[u] = pc[u]
                         \/ pc[u] = "awaitResume" /\ pc'[u] = "resumed"
    BY <1>12 DEF Resume
  <2>2. done' = done /\ cancelling' = cancelling
    BY <1>12, Zenon DEF Resume
  <2>3. \A u \in Tasks : /\ pc[u] \in Ended \union {"cancelled"} => pc'[u] = pc[u]
                         /\ pc'[u] = "cancelled" => pc[u] = "cancelled"
                         /\ pc'[u] \in PastDependencies => pc[u] \in PastDependencies
    BY <2>1
  <2>4. \A u \in done : pc'[u] \in Ended \union {"cancelled"}
    BY <2>3
  <2>5. \A u \in Tasks : pc'[u] \in PastDependencies => \A d \in Dep[u] : pc'[d] \in Ended
    BY <2>3
  <2> QED BY <2>2, <2>3, <2>4, <2>5
<1>13. ASSUME NEW newCap \in 0..EffectiveCap, StepDownCap(newCap) PROVE DependencyInv'
  BY <1>0, <1>13 DEF StepDownCap
<1>14. CASE UNCHANGED vars
  BY <1>0, <1>14 DEF vars
<1> QED BY <1>2, <1>3, <1>4, <1>5, <1>6, <1>7, <1>8, <1>9, <1>10, <1>11, <1>12,
           <1>13, <1>14 DEF Next, LoopStep, TaskStep

\* Whoever is past _wait_for_dependencies has nothing left to wait for.
THEOREM DependencyInvariant == Spec => []DependencyInv
<1>1. Init => DependencyInv
  BY DEF Init, DependencyInv, PastDependencies, PCs
<1> QED BY <1>1, DependencyStep, TypeCorrect, PTL DEF Spec

\* No issue executes before every issue it depends on has left execute().
THEOREM DependenciesAreOver == Spec => []DependenciesOver
<1>1. DependencyInv => DependenciesOver
  BY DEF DependencyInv, DependenciesOver, At, PastDependencies, PCs, Ended
<1> QED BY <1>1, DependencyInvariant, PTL

-----------------------------------------------------------------------------
(* Permits *)

\* A task that joins or leaves the owners of permits changes their number by
\* one; a set of newcomers changes it by its size.
LEMMA HoldingJoin ==
  ASSUME NEW W, W \subseteq Tasks, W \cap At(Holding) = {},
         At(Holding)' = At(Holding) \union W
  PROVE  Cardinality(At(Holding)') = Cardinality(At(Holding)) + Cardinality(W)
<1>1. IsFiniteSet(W) /\ IsFiniteSet(At(Holding))
  BY TasksAssumption, FS_Subset, AtFinite
<1>2. Cardinality(At(Holding) \cap W) = 0
  <2>1. At(Holding) \cap W = {}
    OBVIOUS
  <2> QED BY <2>1, FS_EmptySet
<1>3. Cardinality(At(Holding) \union W) =
          Cardinality(At(Holding)) + Cardinality(W) - Cardinality(At(Holding) \cap W)
  BY <1>1, FS_Union
<1>4. Cardinality(At(Holding)) \in Nat /\ Cardinality(W) \in Nat
  BY <1>1, FS_CardinalityType
<1> QED BY <1>2, <1>3, <1>4

\* Every acquire, hand-over, release and unwinding keeps the sum of permits.
LEMMA PermitStep == TypeOK /\ PermitsConserved /\ [Next]_vars => PermitsConserved'
<1> SUFFICES ASSUME TypeOK, PermitsConserved, [Next]_vars PROVE PermitsConserved'
  OBVIOUS
<1> USE DEF PermitsConserved
<1>0. /\ permits \in Nat
      /\ Cardinality(At(Holding)) \in Nat
      /\ EffectiveCap \in Nat
  BY AtFinite, EffectiveCapPositive DEF TypeOK
\* A step that moves no task to or from the owners, and no permit.
<1>1. ASSUME UNCHANGED permits,
             \A u \in Tasks : pc'[u] \in Holding <=> pc[u] \in Holding
      PROVE  PermitsConserved'
  <2>1. At(Holding)' = At(Holding)
    BY <1>1 DEF At
  <2> QED BY <1>1, <2>1
<1>2. ASSUME NEW t \in Tasks, AskForPermit(t), pc[t] \notin Holding PROVE PermitsConserved'
  <2>1. CASE PermitFree
    <3>1. permits' = permits - 1
      BY <1>2, <2>1 DEF AskForPermit
    <3>2. At(Holding)' = At(Holding) \union {t}
      BY <1>2, <2>1 DEF AskForPermit, At, Holding, PastAdmission, TypeOK
    <3>3. {t} \cap At(Holding) = {} /\ Cardinality({t}) = 1
      BY <1>2, FS_Singleton DEF At
    <3>4. Cardinality(At(Holding)') = Cardinality(At(Holding)) + 1
      BY <3>2, <3>3, HoldingJoin
    <3> QED BY <1>0, <3>1, <3>4
  <2>2. CASE ~PermitFree
    BY <1>1, <1>2, <2>2 DEF AskForPermit, Holding, TypeOK
  <2> QED BY <2>1, <2>2
<1>3. ASSUME NEW t \in Tasks, Check(t) PROVE PermitsConserved'
  <2>1. pc[t] \notin Holding
    BY <1>3 DEF Check, Holding
  <2>2. CASE AskForPermit(t)
    BY <1>2, <2>1, <2>2
  <2>3. CASE /\ UNCHANGED permits
             /\ \/ pc' = [pc EXCEPT ![t] = "awaitDone"]
                \/ pc' = [pc EXCEPT ![t] = "awaitResume"]
    BY <1>1, <2>1, <2>3 DEF Holding, TypeOK
  <2> QED BY <1>3, <2>2, <2>3 DEF Check
<1>4. ASSUME NEW t \in Tasks, LeavePauseGate(t) PROVE PermitsConserved'
  BY <1>2, <1>4 DEF LeavePauseGate, Holding
<1>5. ASSUME NEW t \in Tasks, TakePermit(t) PROVE PermitsConserved'
  <2>1. PICK granted \in WakeWhilePermits(At({"awaitPermit"})) :
          /\ permits' = permits - Cardinality(granted)
          /\ pc' = [u \in Tasks |-> CASE u = t -> PastAdmission(t)
                                      [] u \in granted -> "permitted"
                                      [] OTHER -> pc[u]]
    BY <1>5 DEF TakePermit
  <2>2. granted \subseteq At({"awaitPermit"}) /\ Cardinality(granted) \in Nat
    BY <2>1, AtFinite, WakeWhilePermitsCardinality
  <2>3. pc[t] = "permitted"
    BY <1>5 DEF TakePermit
  <2>4. \A u \in Tasks : pc'[u] \in Holding <=> pc[u] \in Holding \/ u \in granted
    BY <2>1, <2>2, <2>3 DEF At, Holding, PastAdmission
  <2>5. At(Holding)' = At(Holding) \union granted
    BY <2>2, <2>4 DEF At
  <2>6. granted \cap At(Holding) = {} /\ granted \subseteq Tasks
    BY <2>2 DEF At, Holding
  <2>7. Cardinality(At(Holding)') = Cardinality(At(Holding)) + Cardinality(granted)
    BY <2>5, <2>6, HoldingJoin
  <2> QED BY <1>0, <2>1, <2>2, <2>7
<1>6. ASSUME NEW t \in Tasks, TakeLock(t) PROVE PermitsConserved'
  BY <1>1, <1>6 DEF TakeLock, Holding, TypeOK
<1>7. ASSUME NEW t \in Tasks, NEW verdict \in {"succeeded", "failed"}, Finish(t, verdict)
      PROVE  PermitsConserved'
  <2>1. PICK heir \in WakeOne({u \in At({"awaitLock"}) : Repo[u] = Repo[t]}),
             granted \in WakeOne(At({"awaitPermit"})) :
          /\ permits' = permits + 1 - Cardinality(granted)
          /\ pc' = [u \in Tasks |-> CASE u = t -> verdict
                                      [] u \in heir -> "lockWoken"
                                      [] u \in granted -> "permitted"
                                      [] pc[u] = "awaitDone" -> "ready"
                                      [] OTHER -> pc[u]]
    BY <1>7 DEF Finish
  <2>2. /\ heir \subseteq At({"awaitLock"})
        /\ granted \subseteq At({"awaitPermit"})
        /\ IsFiniteSet(granted)
        /\ Cardinality(granted) \in {0, 1}
    BY <2>1, WakeOneCardinality
  <2>3. pc[t] = "executing"
    BY <1>7 DEF Finish
  <2>4. \A u \in Tasks : pc'[u] \in Holding <=> (pc[u] \in Holding /\ u # t) \/ u \in granted
    BY <2>1, <2>2, <2>3 DEF At, Holding
  <2>5. At(Holding)' = (At(Holding) \ {t}) \union granted
    BY <2>2, <2>4 DEF At
  <2>6. Cardinality(At(Holding) \ {t}) = Cardinality(At(Holding)) - 1
    BY <2>3, AtFinite, FS_RemoveElement DEF At, Holding
  <2>7. (At(Holding) \ {t}) \cap granted = {}
    BY <2>2 DEF At, Holding
  <2>8. Cardinality(At(Holding)') = Cardinality(At(Holding)) - 1 + Cardinality(granted)
    <3>1. IsFiniteSet(At(Holding) \ {t})
      BY AtFinite, FS_Subset
    <3>2. Cardinality((At(Holding) \ {t}) \cap granted) = 0
      BY <2>7, FS_EmptySet
    <3>3. Cardinality((At(Holding) \ {t}) \union granted) =
              Cardinality(At(Holding) \ {t}) + Cardinality(granted)
                - Cardinality((At(Holding) \ {t}) \cap granted)
      BY <2>2, <3>1, FS_Union
    <3> QED BY <1>0, <2>2, <2>5, <2>6, <3>2, <3>3
  <2> QED BY <1>0, <2>1, <2>2, <2>8
<1>8. CASE Return
  BY <1>1, <1>8 DEF Return
<1>9. CASE Cancel
  BY <1>1, <1>9 DEF Cancel
<1>10. ASSUME NEW t \in Tasks, Unwind(t) PROVE PermitsConserved'
  <2>1. \A u \in Tasks : pc'[u] \in Holding <=> pc[u] \in Holding /\ u # t
    BY <1>10 DEF Unwind, Holding, TypeOK
  <2>2. CASE pc[t] \in Holding
    <3>1. At(Holding)' = At(Holding) \ {t}
      BY <2>1 DEF At
    <3>2. Cardinality(At(Holding) \ {t}) = Cardinality(At(Holding)) - 1
      BY <2>2, AtFinite, FS_RemoveElement DEF At
    <3>3. permits' = permits + 1
      BY <1>10, <2>2 DEF Unwind
    <3> QED BY <1>0, <3>1, <3>2, <3>3
  <2>3. CASE pc[t] \notin Holding
    BY <1>1, <1>10, <2>1, <2>3 DEF Unwind
  <2> QED BY <2>2, <2>3
<1>11. CASE ReturnCancelled
  BY <1>1, <1>11 DEF ReturnCancelled
<1>12. CASE Pause
  BY <1>1, <1>12 DEF Pause
<1>13. CASE Resume
  BY <1>1, <1>13 DEF Resume, Holding
<1>14. ASSUME NEW newCap \in 0..EffectiveCap, StepDownCap(newCap) PROVE PermitsConserved'
  BY <1>1, <1>14 DEF StepDownCap
<1>15. CASE UNCHANGED vars
  BY <1>1, <1>15 DEF vars
<1> QED BY <1>3, <1>4, <1>5, <1>6, <1>7, <1>8, <1>9, <1>10, <1>11, <1>12, <1>13,
           <1>14, <1>15 DEF Next, LoopStep, TaskStep

\* No permit is lost or made up, whatever the wave and the cap.
THEOREM PermitsAreConserved == Spec => []PermitsConserved
<1>1. Init => PermitsConserved
  <2> SUFFICES ASSUME Init PROVE PermitsConserved
    OBVIOUS
  <2>1. At(Holding) = {}
    BY DEF Init, At, Holding
  <2>2. Cardinality(At(Holding)) = 0
    BY <2>1, FS_EmptySet
  <2> QED BY <2>2, EffectiveCapPositive DEF Init, PermitsConserved
<1> QED BY <1>1, PermitStep, TypeCorrect, PTL DEF Spec

-----------------------------------------------------------------------------
(* Repository locks *)

\* Inductive: who executes has the lock; until the wave is cancelled a woken
\* waiter finds the lock free and is the only one woken, a held lock has a
\* holder, and a waiter has somebody before it.
LockInv ==
    /\ \A t \in Tasks : pc[t] = "executing" => locked[Repo[t]]
    /\ SequentialWithinRepo
    /\ ~cancelling =>
         /\ \A t \in Tasks : pc[t] = "lockWoken" => ~locked[Repo[t]]
         /\ \A t, u \in Tasks :
                pc[t] = "lockWoken" /\ pc[u] = "lockWoken" /\ t # u => Repo[t] # Repo[u]
         /\ \A r \in Repos :
                locked[r] => \E t \in Tasks : pc[t] = "executing" /\ Repo[t] = r
         /\ \A t \in Tasks : pc[t] = "awaitLock" =>
                \E u \in Tasks : pc[u] \in {"executing", "lockWoken"} /\ Repo[u] = Repo[t]

LockStates == {"awaitLock", "lockWoken", "executing"}

\* Every step keeps the lock of a repository with the one task that holds it.
LEMMA LockStep == TypeOK /\ LockInv /\ [Next]_vars => LockInv'
<1> SUFFICES ASSUME TypeOK, LockInv, [Next]_vars PROVE LockInv'
  OBVIOUS
<1>0. /\ pc \in [Tasks -> PCs]
      /\ locked \in [Repos -> BOOLEAN]
      /\ \A t \in Tasks : Repo[t] \in Repos
  BY DEF TypeOK, Repos
<1> USE DEF LockStates
\* A step that leaves the locks, and every task at a lock, where they are.
<1>1. ASSUME UNCHANGED <<locked, cancelling>>,
             \A u \in Tasks : \/ pc'[u] = pc[u]
                              \/ pc[u] \notin LockStates /\ pc'[u] \notin LockStates
      PROVE  LockInv'
  BY <1>1 DEF LockInv, SequentialWithinRepo
\* A step by which a task that has its permit comes to its repo's lock.
<1>2. ASSUME NEW t \in Tasks, ~cancelling, UNCHANGED cancelling,
             pc[t] \notin LockStates,
             pc'[t] = PastAdmission(t),
             locked' = LockedBy(t),
             \A u \in Tasks \ {t} : \/ pc'[u] = pc[u]
                                    \/ pc[u] \notin LockStates /\ pc'[u] \notin LockStates
      PROVE  LockInv'
  <2>1. CASE LockFree(Repo[t])
    <3>1. /\ pc'[t] = "executing"
          /\ locked' = [locked EXCEPT ![Repo[t]] = TRUE]
      BY <1>2, <2>1 DEF PastAdmission, LockedBy
    <3>2. \A u \in Tasks : Repo[u] = Repo[t] => pc[u] \notin LockStates
      <4>1. \A u \in Tasks : Repo[u] = Repo[t] => pc[u] \notin {"awaitLock", "lockWoken"}
        BY <2>1 DEF LockFree, At
      <4>2. \A u \in Tasks : Repo[u] = Repo[t] => pc[u] # "executing"
        BY <2>1 DEF LockFree, LockInv
      <4> QED BY <4>1, <4>2
    <3>3. \A r \in Repos : locked'[r] = (IF r = Repo[t] THEN TRUE ELSE locked[r])
      BY <1>0, <3>1
    <3>4. \A u \in Tasks \ {t} : pc'[u] \in LockStates => pc'[u] = pc[u] /\ Repo[u] # Repo[t]
      BY <1>2, <3>2
    <3>5. \A u \in Tasks \ {t} : pc[u] \in LockStates => pc'[u] = pc[u]
      BY <1>2
    <3> QED BY <1>0, <1>2, <3>1, <3>3, <3>4, <3>5 DEF LockInv, SequentialWithinRepo
  <2>2. CASE ~LockFree(Repo[t])
    <3>1. pc'[t] = "awaitLock" /\ locked' = locked
      BY <1>2, <2>2 DEF PastAdmission, LockedBy
    <3>2. \E u \in Tasks : pc[u] \in {"executing", "lockWoken"} /\ Repo[u] = Repo[t]
      BY <1>0, <1>2, <2>2 DEF LockFree, At, LockInv
    <3>3. \A u \in Tasks : pc[u] \in {"executing", "lockWoken"} <=> pc'[u] \in {"executing", "lockWoken"}
      BY <1>2, <3>1
    <3>4. \A u \in Tasks : pc[u] \in {"executing", "lockWoken"} => pc'[u] = pc[u]
      BY <1>2
    <3>5. \A u \in Tasks \ {t} : pc'[u] = "awaitLock" => pc[u] = "awaitLock"
      BY <1>2
    <3> QED BY <1>2, <3>1, <3>2, <3>3, <3>4, <3>5 DEF LockInv, SequentialWithinRepo
  <2> QED BY <2>1, <2>2
<1>3. ASSUME NEW t \in Tasks, AskForPermit(t), ~cancelling, UNCHANGED cancelling,
             pc[t] \notin LockStates
      PROVE  LockInv'
  <2>1. CASE PermitFree
    <3>1. pc' = [pc EXCEPT ![t] = PastAdmission(t)] /\ locked' = LockedBy(t)
      BY <1>3, <2>1 DEF AskForPermit
    <3>2. pc'[t] = PastAdmission(t) /\ \A u \in Tasks \ {t} : pc'[u] = pc[u]
      BY <1>0, <3>1
    <3> QED BY <1>2, <1>3, <3>1, <3>2
  <2>2. CASE ~PermitFree
    BY <1>0, <1>1, <1>3, <2>2 DEF AskForPermit
  <2> QED BY <2>1, <2>2
<1>4. ASSUME NEW t \in Tasks, Check(t) PROVE LockInv'
  <2>1. pc[t] \notin LockStates /\ ~cancelling /\ UNCHANGED cancelling
    BY <1>4 DEF Check
  <2>2. CASE AskForPermit(t)
    BY <1>3, <2>1, <2>2
  <2>3. CASE /\ UNCHANGED locked
             /\ \/ pc' = [pc EXCEPT ![t] = "awaitDone"]
                \/ pc' = [pc EXCEPT ![t] = "awaitResume"]
    BY <1>0, <1>1, <2>1, <2>3
  <2> QED BY <1>4, <2>2, <2>3 DEF Check
<1>5. ASSUME NEW t \in Tasks, LeavePauseGate(t) PROVE LockInv'
  BY <1>3, <1>5 DEF LeavePauseGate
<1>6. ASSUME NEW t \in Tasks, TakePermit(t) PROVE LockInv'
  <2>1. PICK granted \in WakeWhilePermits(At({"awaitPermit"})) :
          pc' = [u \in Tasks |-> CASE u = t -> PastAdmission(t)
                                    [] u \in granted -> "permitted"
                                    [] OTHER -> pc[u]]
    BY <1>6 DEF TakePermit
  <2>2. pc[t] = "permitted" /\ \A u \in granted : pc[u] = "awaitPermit"
    BY <1>6, <2>1 DEF TakePermit, WakeWhilePermits, At
  <2>3. pc'[t] = PastAdmission(t)
    BY <2>1, <2>2
  <2>4. \A u \in Tasks \ {t} : \/ pc'[u] = pc[u]
                               \/ pc[u] \notin LockStates /\ pc'[u] \notin LockStates
    BY <2>1, <2>2
  <2>5. ~cancelling /\ UNCHANGED cancelling /\ locked' = LockedBy(t)
    BY <1>6 DEF TakePermit
  <2> QED BY <1>2, <2>2, <2>3, <2>4, <2>5
<1>7. ASSUME NEW t \in Tasks, TakeLock(t) PROVE LockInv'
  <2>1. /\ ~cancelling /\ ~cancelling' /\ pc[t] = "lockWoken" /\ pc'[t] = "executing"
        /\ \A u \in Tasks \ {t} : pc'[u] = pc[u]
        /\ locked'[Repo[t]]
        /\ \A r \in Repos \ {Repo[t]} : locked'[r] = locked[r]
    BY <1>0, <1>7 DEF TakeLock
  <2>2. \A u \in Tasks \ {t} : pc[u] \in {"executing", "lockWoken"} => Repo[u] # Repo[t]
    BY <2>1 DEF LockInv
  <2>3. \A u \in Tasks : Repo[u] # Repo[t] => locked'[Repo[u]] = locked[Repo[u]]
    BY <1>0, <2>1
  <2>4. \A u \in Tasks : /\ pc'[u] = "executing" => locked'[Repo[u]]
                         /\ pc'[u] = "lockWoken" => ~locked'[Repo[u]]
    BY <2>1, <2>2, <2>3 DEF LockInv
  <2>5. \A r \in Repos : locked'[r] => \E u \in Tasks : pc'[u] = "executing" /\ Repo[u] = r
    BY <2>1 DEF LockInv
  <2>6. \A u, v \in Tasks : pc'[u] = "lockWoken" /\ pc'[v] = "lockWoken" /\ u # v
                               => Repo[u] # Repo[v]
    BY <2>1 DEF LockInv
  <2>7. SequentialWithinRepo'
    BY <2>1, <2>2 DEF LockInv, SequentialWithinRepo
  <2>8. \A u \in Tasks : pc'[u] = "awaitLock" =>
            \E v \in Tasks : pc'[v] \in {"executing", "lockWoken"} /\ Repo[v] = Repo[u]
    BY <2>1 DEF LockInv
  <2> QED BY <2>4, <2>5, <2>6, <2>7, <2>8 DEF LockInv
<1>8. ASSUME NEW t \in Tasks, NEW verdict \in {"succeeded", "failed"}, Finish(t, verdict)
      PROVE  LockInv'
  <2> DEFINE waiters == {u \in At({"awaitLock"}) : Repo[u] = Repo[t]}
  <2>1. PICK heir \in WakeOne(waiters), granted \in WakeOne(At({"awaitPermit"})) :
          pc' = [u \in Tasks |-> CASE u = t -> verdict
                                    [] u \in heir -> "lockWoken"
                                    [] u \in granted -> "permitted"
                                    [] pc[u] = "awaitDone" -> "ready"
                                    [] OTHER -> pc[u]]
    BY <1>8 DEF Finish
  <2>2. /\ heir \subseteq waiters
        /\ \A u \in granted : pc[u] = "awaitPermit"
        /\ waiters # {} => heir # {}
        /\ \A u, v \in heir : u = v
    BY <2>1 DEF WakeOne, At
  <2>3. /\ ~cancelling /\ ~cancelling' /\ pc[t] = "executing"
        /\ ~locked'[Repo[t]]
        /\ \A r \in Repos \ {Repo[t]} : locked'[r] = locked[r]
    BY <1>0, <1>8 DEF Finish
  <2>4. \A u \in waiters : pc[u] = "awaitLock" /\ Repo[u] = Repo[t] /\ u \in Tasks
    BY DEF At
  <2>5. \A u \in Tasks : pc[u] = "awaitLock" /\ Repo[u] = Repo[t] => u \in waiters
    BY DEF At
  <2>6. pc'[t] \notin LockStates /\ \A u \in heir : pc'[u] = "lockWoken"
    BY <2>1, <2>2, <2>3, <2>4
  <2>7. \A u \in Tasks : u # t /\ u \notin heir =>
            \/ pc'[u] = pc[u]
            \/ pc[u] \notin LockStates /\ pc'[u] \notin LockStates
    BY <2>1, <2>2
  <2>8. \A u \in Tasks \ {t} : pc[u] \in {"executing", "lockWoken"} => Repo[u] # Repo[t]
    BY <2>3 DEF LockInv, SequentialWithinRepo
  <2> HIDE DEF waiters
  <2>9. \A u \in Tasks : pc'[u] = "executing" => u # t /\ pc[u] = "executing"
    BY <2>6, <2>7
  <2>10. \A u \in Tasks : pc'[u] = "lockWoken" => u \in heir \/ (u # t /\ pc[u] = "lockWoken")
    BY <2>6, <2>7
  <2>11. \A u \in Tasks : pc[u] \in {"executing", "lockWoken"} /\ u # t => pc'[u] = pc[u]
    BY <2>2, <2>4, <2>7
  <2>12. ASSUME NEW u \in Tasks, pc'[u] = "awaitLock"
         PROVE  \E v \in Tasks : pc'[v] \in {"executing", "lockWoken"} /\ Repo[v] = Repo[u]
    <3>1. pc[u] = "awaitLock"
      BY <2>6, <2>7, <2>12
    <3>2. CASE Repo[u] = Repo[t]
      BY <2>2, <2>4, <2>5, <2>6, <3>1, <3>2
    <3>3. CASE Repo[u] # Repo[t]
      <4>1. PICK v \in Tasks : pc[v] \in {"executing", "lockWoken"} /\ Repo[v] = Repo[u]
        BY <2>3, <3>1 DEF LockInv
      <4> QED BY <2>11, <3>3, <4>1
    <3> QED BY <3>2, <3>3
  <2>13. \A r \in Repos : locked'[r] => \E u \in Tasks : pc'[u] = "executing" /\ Repo[u] = r
    <3>1. \A r \in Repos : locked'[r] => locked[r] /\ r # Repo[t]
      BY <2>3
    <3> QED BY <2>3, <2>11, <3>1 DEF LockInv
  <2>14. \A u \in Tasks : /\ pc'[u] = "executing" => locked'[Repo[u]]
                          /\ pc'[u] = "lockWoken" => ~locked'[Repo[u]]
    <3>1. \A u \in Tasks : Repo[u] # Repo[t] => locked'[Repo[u]] = locked[Repo[u]]
      BY <1>0, <2>3
    <3> QED BY <2>2, <2>3, <2>4, <2>8, <2>9, <2>10, <3>1 DEF LockInv
  <2>15. \A u, v \in Tasks : pc'[u] = "lockWoken" /\ pc'[v] = "lockWoken" /\ u # v
                                => Repo[u] # Repo[v]
    BY <2>2, <2>3, <2>4, <2>8, <2>10 DEF LockInv
  <2> QED BY <2>9, <2>12, <2>13, <2>14, <2>15 DEF LockInv, SequentialWithinRepo
<1>9. CASE Return
  BY <1>1, <1>9 DEF Return
<1>10. CASE Cancel
  BY <1>10 DEF Cancel, LockInv, SequentialWithinRepo
<1>11. ASSUME NEW t \in Tasks, Unwind(t) PROVE LockInv'
  <2>1. /\ cancelling'
        /\ pc'[t] = "cancelled"
        /\ \A u \in Tasks \ {t} : pc'[u] = pc[u]
    BY <1>0, <1>11 DEF Unwind
  <2>2. \A r \in Repos : \/ locked'[r] = locked[r]
                         \/ pc[t] = "executing" /\ r = Repo[t]
    BY <1>0, <1>11 DEF Unwind
  <2> QED BY <1>0, <2>1, <2>2 DEF LockInv, SequentialWithinRepo
<1>12. CASE ReturnCancelled
  BY <1>1, <1>12 DEF ReturnCancelled
<1>13. CASE Pause
  BY <1>1, <1>13 DEF Pause
<1>14. CASE Resume
  BY <1>1, <1>14 DEF Resume
<1>15. ASSUME NEW newCap \in 0..EffectiveCap, StepDownCap(newCap) PROVE LockInv'
  BY <1>1, <1>15 DEF StepDownCap
<1>16. CASE UNCHANGED vars
  BY <1>1, <1>16 DEF vars
<1> QED BY <1>4, <1>5, <1>6, <1>7, <1>8, <1>9, <1>10, <1>11, <1>12, <1>13, <1>14,
           <1>15, <1>16 DEF Next, LoopStep, TaskStep

\* A repository is locked exactly while one of its issues executes.
THEOREM LockInvariant == Spec => []LockInv
<1>1. Init => LockInv
  BY DEF Init, LockInv, SequentialWithinRepo
<1> QED BY <1>1, LockStep, TypeCorrect, PTL DEF Spec

\* Two issues of one repository are never in execute() together.
THEOREM RepoIsSequential == Spec => []SequentialWithinRepo
<1>1. LockInv => SequentialWithinRepo
  BY DEF LockInv
<1> QED BY <1>1, LockInvariant, PTL

-----------------------------------------------------------------------------
(* Wake-ups *)

\* Whoever waits for a permit does so because somebody owns one: a permit
\* free with nobody in the queue would have been taken, and the cap is not 0.
LEMMA PermitWaiterHasOwner ==
  ASSUME TypeOK, PermitsConserved, NoLostWakeup, ~cancelling, ~PermitFree
  PROVE  At(Holding) # {}
<1>1. CASE permits = 0
  <2>1. Cardinality(At(Holding)) # 0
    BY <1>1, AtFinite, EffectiveCapPositive DEF PermitsConserved
  <2> QED BY <2>1, FS_EmptySet
<1>2. CASE At({"awaitPermit", "permitted"}) # {}
  BY <1>2 DEF NoLostWakeup, At, Holding
<1> QED BY <1>1, <1>2 DEF PermitFree, TypeOK

\* Every step leaves each suspended task with something that will wake it.
LEMMA WakeupStep ==
  ASSUME TypeOK, LockInv', PermitsConserved, NoLostWakeup, [Next]_vars
  PROVE  NoLostWakeup'
<1>0. pc \in [Tasks -> PCs]
  BY DEF TypeOK
\* The waiters at a lock are the business of LockInv; of the others it is
\* enough that those who stay keep their waker and a newcomer has one.
<1>1. ASSUME UNCHANGED cancelling, ~cancelling,
             \A u \in Tasks : pc'[u] = "awaitDone" => \E d \in Dep[u] : d \notin done',
             \A u \in Tasks : pc'[u] = "awaitResume" => paused',
             (\E u \in Tasks : pc'[u] = "awaitPermit") =>
                 \E u \in Tasks : pc'[u] \in Holding
      PROVE  NoLostWakeup'
  BY <1>1 DEF NoLostWakeup, LockInv, At
<1>2. ASSUME ~cancelling
      PROVE  /\ \A u \in Tasks : pc[u] = "awaitDone" => \E d \in Dep[u] : d \notin done
             /\ \A u \in Tasks : pc[u] = "awaitResume" => paused
             /\ (\E u \in Tasks : pc[u] = "awaitPermit") =>
                    \E u \in Tasks : pc[u] \in Holding
  BY <1>2 DEF NoLostWakeup, At
<1>3. ASSUME NEW t \in Tasks, AskForPermit(t), ~cancelling, pc[t] \notin Holding,
             UNCHANGED <<done, paused, cancelling>>
      PROVE  NoLostWakeup'
  <2>1. CASE PermitFree
    <3>1. pc' = [pc EXCEPT ![t] = PastAdmission(t)]
      BY <1>3, <2>1 DEF AskForPermit
    <3>2. pc'[t] \in Holding
      BY <1>0, <3>1 DEF PastAdmission, Holding
    <3>3. \A u \in Tasks \ {t} : pc'[u] = pc[u]
      BY <1>0, <3>1
    <3> QED BY <1>1, <1>2, <1>3, <3>2, <3>3 DEF Holding
  <2>2. CASE ~PermitFree
    <3>1. pc' = [pc EXCEPT ![t] = "awaitPermit"]
      BY <1>3, <2>2 DEF AskForPermit
    <3>2. PICK v \in Tasks : pc[v] \in Holding
      BY <1>3, <2>2, PermitWaiterHasOwner DEF At
    <3>3. pc'[v] \in Holding
      BY <1>0, <1>3, <3>1, <3>2
    <3>4. \A u \in Tasks : pc'[u] \in {"awaitDone", "awaitResume"} => pc'[u] = pc[u]
      BY <1>0, <3>1
    <3> QED BY <1>1, <1>2, <1>3, <3>3, <3>4
  <2> QED BY <2>1, <2>2
<1>4. ASSUME NEW t \in Tasks, Check(t) PROVE NoLostWakeup'
  <2>1. /\ pc[t] \notin Holding /\ ~cancelling
        /\ UNCHANGED <<done, paused, cancelling>>
    BY <1>4 DEF Check, Holding
  <2>2. CASE AskForPermit(t)
    BY <1>3, <2>1, <2>2
  <2>3. CASE \/ Unmet(t) # {} /\ pc' = [pc EXCEPT ![t] = "awaitDone"]
             \/ paused /\ pc' = [pc EXCEPT ![t] = "awaitResume"]
    <3>1. \A u \in Tasks \ {t} : pc'[u] = pc[u]
      BY <1>0, <2>3
    <3>2. /\ pc'[t] = "awaitDone" => \E d \in Dep[t] : d \notin done
          /\ pc'[t] = "awaitResume" => paused
          /\ pc'[t] # "awaitPermit"
      BY <1>0, <2>3 DEF Unmet
    <3>3. \A u \in Tasks : pc[u] \in Holding => pc'[u] \in Holding
      BY <2>1, <3>1
    <3> QED BY <1>1, <1>2, <2>1, <3>1, <3>2, <3>3
  <2> QED BY <1>4, <2>2, <2>3 DEF Check
<1>5. ASSUME NEW t \in Tasks, LeavePauseGate(t) PROVE NoLostWakeup'
  BY <1>3, <1>5 DEF LeavePauseGate, Holding
<1>6. ASSUME NEW t \in Tasks, TakePermit(t) PROVE NoLostWakeup'
  <2>1. PICK granted \in WakeWhilePermits(At({"awaitPermit"})) :
          pc' = [u \in Tasks |-> CASE u = t -> PastAdmission(t)
                                    [] u \in granted -> "permitted"
                                    [] OTHER -> pc[u]]
    BY <1>6 DEF TakePermit
  <2>2. pc[t] = "permitted" /\ \A u \in granted : pc[u] = "awaitPermit"
    BY <1>6, <2>1 DEF TakePermit, WakeWhilePermits, At
  <2>3. pc'[t] \in {"executing", "awaitLock"}
    BY <2>1, <2>2 DEF PastAdmission
  <2>4. \A u \in Tasks \ {t} : pc'[u] = pc[u] \/ pc'[u] = "permitted"
    BY <2>1, <2>2
  <2>5. ~cancelling /\ UNCHANGED <<done, paused, cancelling>>
    BY <1>6 DEF TakePermit
  <2> QED BY <1>1, <1>2, <2>3, <2>4, <2>5 DEF Holding
<1>7. ASSUME NEW t \in Tasks, TakeLock(t) PROVE NoLostWakeup'
  <2>1. /\ pc'[t] = "executing" /\ \A u \in Tasks \ {t} : pc'[u] = pc[u]
        /\ ~cancelling /\ UNCHANGED <<done, paused, cancelling>>
    BY <1>0, <1>7 DEF TakeLock
  <2> QED BY <1>1, <1>2, <2>1 DEF Holding
<1>8. ASSUME NEW t \in Tasks, NEW verdict \in {"succeeded", "failed"}, Finish(t, verdict)
      PROVE  NoLostWakeup'
  <2> DEFINE heirs == {u \in At({"awaitLock"}) : Repo[u] = Repo[t]}
  <2>1. PICK heir \in WakeOne(heirs), granted \in WakeOne(At({"awaitPermit"})) :
          pc' = [u \in Tasks |-> CASE u = t -> verdict
                                    [] u \in heir -> "lockWoken"
                                    [] u \in granted -> "permitted"
                                    [] pc[u] = "awaitDone" -> "ready"
                                    [] OTHER -> pc[u]]
    BY <1>8 DEF Finish
  <2>2. /\ \A u \in heir : pc[u] = "awaitLock"
        /\ \A u \in granted : pc[u] = "awaitPermit" /\ u \in Tasks
        /\ At({"awaitPermit"}) # {} => granted # {}
    BY <2>1 DEF WakeOne, At
  <2> HIDE DEF heirs
  <2>3. pc[t] = "executing" /\ ~cancelling /\ UNCHANGED <<paused, cancelling>>
    BY <1>8 DEF Finish
  <2>4. \A u \in Tasks : /\ pc'[u] # "awaitDone"
                         /\ pc'[u] \in {"awaitResume", "awaitPermit"} => pc'[u] = pc[u]
                         /\ u \in granted => pc'[u] = "permitted"
    BY <2>1, <2>2, <2>3
  <2>5. (\E u \in Tasks : pc'[u] = "awaitPermit") => \E u \in Tasks : pc'[u] \in Holding
    BY <2>2, <2>4 DEF At, Holding
  <2> QED BY <1>1, <1>2, <2>3, <2>4, <2>5
<1>9. CASE Return
  BY <1>1, <1>2, <1>9 DEF Return
<1>10. CASE Cancel
  BY <1>10 DEF Cancel, NoLostWakeup
<1>11. ASSUME NEW t \in Tasks, Unwind(t) PROVE NoLostWakeup'
  BY <1>11 DEF Unwind, NoLostWakeup
<1>12. CASE ReturnCancelled
  BY <1>12 DEF ReturnCancelled, NoLostWakeup
<1>13. CASE cancelling /\ UNCHANGED cancelling
  BY <1>13 DEF NoLostWakeup
<1>14. CASE Pause
  BY <1>1, <1>2, <1>13, <1>14 DEF Pause
<1>15. CASE Resume
  <2>1. UNCHANGED <<done, cancelling>>
    BY <1>15 DEF Resume
  <2>2. \A u \in Tasks : /\ pc'[u] # "awaitResume"
                         /\ pc[u] # "awaitResume" => pc'[u] = pc[u]
                         /\ pc[u] = "awaitResume" => pc'[u] = "resumed"
    BY <1>15 DEF Resume
  <2> QED BY <1>1, <1>2, <1>13, <2>1, <2>2 DEF Holding
<1>16. ASSUME NEW newCap \in 0..EffectiveCap, StepDownCap(newCap) PROVE NoLostWakeup'
  <2>1. /\ UNCHANGED <<pc, done, cancelling>>
        /\ paused => paused'
    BY <1>16 DEF StepDownCap
  <2> QED BY <1>1, <1>2, <1>13, <2>1
<1>17. CASE UNCHANGED vars
  BY <1>1, <1>2, <1>13, <1>17 DEF vars
<1> QED BY <1>4, <1>5, <1>6, <1>7, <1>8, <1>9, <1>10, <1>11, <1>12, <1>14, <1>15,
           <1>16, <1>17 DEF Next, LoopStep, TaskStep

\* A suspended task always has a task, or a call of resume, left to wake it.
THEOREM NoWakeupIsLost == Spec => []NoLostWakeup
<1>1. Init => NoLostWakeup
  BY DEF Init, NoLostWakeup
<1> QED BY <1>1, WakeupStep, TypeCorrect, LockInvariant, PermitsAreConserved, PTL
        DEF Spec

-----------------------------------------------------------------------------
(* The scheduler implements the contract *)

InFlightWithinCap == Cardinality(At({"executing"})) <= EffectiveCap

\* At no time more issues execute than the cap the wave started with.
THEOREM InFlightIsWithinCap == Spec => []InFlightWithinCap
<1>1. TypeOK /\ PermitsConserved => InFlightWithinCap
  <2> SUFFICES ASSUME TypeOK, PermitsConserved PROVE InFlightWithinCap
    OBVIOUS
  <2>1. At({"executing"}) \subseteq At(Holding)
    BY DEF At, Holding
  <2>2. Cardinality(At({"executing"})) <= Cardinality(At(Holding))
    BY <2>1, AtFinite, FS_Subset
  <2> QED BY <2>2, AtFinite, EffectiveCapPositive
          DEF PermitsConserved, TypeOK, InFlightWithinCap
<1> QED BY <1>1, TypeCorrect, PermitsAreConserved, PTL

\* A step at which no task enters or leaves execute() is invisible.
LEMMA InvisibleStep ==
  ASSUME TypeOK, UNCHANGED <<cancelling, outcome>>,
         \A u \in Tasks : \/ pc'[u] = pc[u]
                          \/ {pc[u], pc'[u]} \cap {"executing", "succeeded", "failed", "cancelled"} = {}
  PROVE  UNCHANGED Contract!vars
<1>1. \A u \in Tasks : Phase'[u] = Phase[u]
  BY DEF Phase
<1>2. Phase' = Phase
  BY <1>1 DEF Phase
<1> QED BY <1>2 DEF Contract!vars

\* A step that takes a task into execute() is a Start of the contract.
LEMMA EnterStep ==
  ASSUME TypeOK, TypeOK', DependencyInv, DependencyInv', SequentialWithinRepo', InFlightWithinCap',
         ~cancelling, UNCHANGED <<cancelling, outcome>>,
         NEW t \in Tasks, pc'[t] = "executing",
         pc[t] \notin {"executing", "succeeded", "failed", "cancelled"},
         \A u \in Tasks \ {t} :
             \/ pc'[u] = pc[u]
             \/ {pc[u], pc'[u]} \cap {"executing", "succeeded", "failed", "cancelled"} = {}
  PROVE  Contract!Start(t)
<1>1. Phase[t] = "waiting" /\ Phase'[t] = "running"
  BY DEF Phase
<1>2. \A u \in Tasks \ {t} : Phase'[u] = Phase[u]
  BY DEF Phase
<1>3. Phase' = [Phase EXCEPT ![t] = "running"]
  BY <1>1, <1>2 DEF Phase
<1>4. \A d \in Dep[t] : Contract!Over(d)
  <2>1. \A d \in Dep[t] : d \in Tasks /\ pc'[d] \in Ended
    BY DepAssumption DEF DependencyInv, PastDependencies, PCs
  <2>2. \A d \in Dep[t] : d # t /\ Phase'[d] \in {"succeeded", "failed"}
    BY <2>1 DEF Phase, Ended
  <2> QED BY <1>2, <2>1, <2>2 DEF Contract!Over
<1>5. \A u \in Contract!Running : Repo[u] # Repo[t]
  <2>1. \A u \in Contract!Running : u \in Tasks /\ u # t /\ pc[u] = "executing"
    BY <1>1 DEF Contract!Running, Phase, TypeOK, PCs
  <2>2. \A u \in Contract!Running : pc'[u] = "executing"
    BY <2>1
  <2> QED BY <2>1, <2>2 DEF SequentialWithinRepo
<1>6. Contract!Running' = At({"executing"})'
  <2>1. \A u \in Tasks : Phase'[u] = "running" <=> pc'[u] = "executing"
    BY DEF Phase, TypeOK, PCs
  <2> QED BY <2>1 DEF Contract!Running, At
<1>7. Cardinality(Contract!Running') <= EffectiveCap
  BY <1>6 DEF InFlightWithinCap
<1>8. Contract!Cardinality(Contract!Running') = Cardinality(Contract!Running')
  BY Zenon DEF Contract!Cardinality, Cardinality
<1> QED BY <1>1, <1>3, <1>4, <1>5, <1>7, <1>8 DEF Contract!Start

\* Every step of the scheduler is a step of the contract or invisible to it.
LEMMA RefinementStep ==
  ASSUME TypeOK, TypeOK', DependencyInv, DependencyInv', SequentialWithinRepo',
         InFlightWithinCap', [Next]_vars
  PROVE  [Contract!Next]_Contract!vars
<1>0. pc \in [Tasks -> PCs]
  BY DEF TypeOK
<1> DEFINE visible == {"executing", "succeeded", "failed", "cancelled"}
\* A task that passes the lock is started, one that stops before it is not
\* seen; whom it wakes on the way is not seen either.
<1>1. ASSUME NEW t \in Tasks, ~cancelling, UNCHANGED <<cancelling, outcome>>,
             pc[t] \notin visible, pc'[t] \notin visible \ {"executing"},
             \A u \in Tasks \ {t} : \/ pc'[u] = pc[u]
                                    \/ {pc[u], pc'[u]} \cap visible = {}
      PROVE  [Contract!Next]_Contract!vars
  <2>1. CASE pc'[t] = "executing"
    <3>1. Contract!Start(t)
      BY <1>1, <2>1, EnterStep
    <3> QED BY <3>1 DEF Contract!Next
  <2>2. CASE pc'[t] # "executing"
    <3>1. \A u \in Tasks : \/ pc'[u] = pc[u]
                           \/ {pc[u], pc'[u]} \cap visible = {}
      BY <1>1, <2>2
    <3> QED BY <1>1, <3>1, InvisibleStep
  <2> QED BY <2>1, <2>2
<1>2. ASSUME NEW t \in Tasks, AskForPermit(t), ~cancelling,
             UNCHANGED <<cancelling, outcome>>, pc[t] \notin visible
      PROVE  [Contract!Next]_Contract!vars
  <2>1. /\ pc'[t] \in {"executing", "awaitLock", "awaitPermit"}
        /\ \A u \in Tasks \ {t} : pc'[u] = pc[u]
    BY <1>0, <1>2 DEF AskForPermit, PastAdmission
  <2> QED BY <1>1, <1>2, <2>1
<1>3. ASSUME NEW t \in Tasks, Check(t) PROVE [Contract!Next]_Contract!vars
  <2>1. ~cancelling /\ UNCHANGED <<cancelling, outcome>> /\ pc[t] \notin visible
    BY <1>3 DEF Check
  <2>2. CASE AskForPermit(t)
    BY <1>2, <2>1, <2>2
  <2>3. CASE \/ pc' = [pc EXCEPT ![t] = "awaitDone"]
             \/ pc' = [pc EXCEPT ![t] = "awaitResume"]
    <3>1. /\ pc'[t] \in {"awaitDone", "awaitResume"}
          /\ \A u \in Tasks \ {t} : pc'[u] = pc[u]
      BY <1>0, <2>3
    <3> QED BY <1>1, <2>1, <3>1
  <2> QED BY <1>3, <2>2, <2>3 DEF Check
<1>4. ASSUME NEW t \in Tasks, LeavePauseGate(t) PROVE [Contract!Next]_Contract!vars
  BY <1>2, <1>4 DEF LeavePauseGate
<1>5. ASSUME NEW t \in Tasks, TakePermit(t) PROVE [Contract!Next]_Contract!vars
  <2>1. PICK granted \in WakeWhilePermits(At({"awaitPermit"})) :
          pc' = [u \in Tasks |-> CASE u = t -> PastAdmission(t)
                                    [] u \in granted -> "permitted"
                                    [] OTHER -> pc[u]]
    BY <1>5 DEF TakePermit
  <2>2. pc[t] = "permitted" /\ \A u \in granted : pc[u] = "awaitPermit"
    BY <1>5, <2>1 DEF TakePermit, WakeWhilePermits, At
  <2>3. pc'[t] \in {"executing", "awaitLock"}
    BY <2>1, <2>2 DEF PastAdmission
  <2>4. \A u \in Tasks \ {t} : \/ pc'[u] = pc[u]
                               \/ {pc[u], pc'[u]} \cap visible = {}
    BY <2>1, <2>2
  <2>5. ~cancelling /\ UNCHANGED <<cancelling, outcome>>
    BY <1>5 DEF TakePermit
  <2> QED BY <1>1, <2>2, <2>3, <2>4, <2>5
<1>6. ASSUME NEW t \in Tasks, TakeLock(t) PROVE [Contract!Next]_Contract!vars
  <2>1. /\ pc[t] = "lockWoken" /\ pc'[t] = "executing"
        /\ \A u \in Tasks \ {t} : pc'[u] = pc[u]
        /\ ~cancelling /\ UNCHANGED <<cancelling, outcome>>
    BY <1>0, <1>6 DEF TakeLock
  <2> QED BY <1>1, <2>1
<1>7. ASSUME NEW t \in Tasks, NEW verdict \in {"succeeded", "failed"}, Finish(t, verdict)
      PROVE  [Contract!Next]_Contract!vars
  <2> DEFINE heirs == {u \in At({"awaitLock"}) : Repo[u] = Repo[t]}
  <2>1. PICK heir \in WakeOne(heirs), granted \in WakeOne(At({"awaitPermit"})) :
          pc' = [u \in Tasks |-> CASE u = t -> verdict
                                    [] u \in heir -> "lockWoken"
                                    [] u \in granted -> "permitted"
                                    [] pc[u] = "awaitDone" -> "ready"
                                    [] OTHER -> pc[u]]
    BY <1>7 DEF Finish
  <2>2. /\ \A u \in heir : pc[u] = "awaitLock"
        /\ \A u \in granted : pc[u] = "awaitPermit"
    BY <2>1 DEF WakeOne, At
  <2>3. pc[t] = "executing" /\ ~cancelling /\ UNCHANGED <<cancelling, outcome>>
    BY <1>7 DEF Finish
  <2> HIDE DEF heirs
  <2>4. /\ pc'[t] = verdict
        /\ \A u \in Tasks \ {t} : \/ pc'[u] = pc[u]
                                  \/ {pc[u], pc'[u]} \cap visible = {}
    BY <2>1, <2>2, <2>3
  <2>5. /\ Phase[t] = "running" /\ Phase'[t] = verdict
        /\ \A u \in Tasks \ {t} : Phase'[u] = Phase[u]
    BY <2>3, <2>4 DEF Phase
  <2>6. Phase' = [Phase EXCEPT ![t] = verdict]
    BY <2>5 DEF Phase
  <2>7. Contract!Finish(t)
    BY <2>3, <2>5, <2>6 DEF Contract!Finish
  <2> QED BY <2>7 DEF Contract!Next
<1>8. CASE Return \/ ReturnCancelled
  <2>1. /\ outcome = "none" /\ UNCHANGED <<pc, cancelling>>
        /\ \A t \in Tasks : pc[t] \in {"succeeded", "failed", "cancelled"}
    BY <1>8 DEF Return, ReturnCancelled, At
  <2>2. \A t \in Tasks : /\ Phase[t] \notin {"waiting", "running"}
                         /\ Phase[t] = "succeeded" <=> pc[t] = "succeeded"
    BY <2>1 DEF Phase
  <2>3. outcome' = IF cancelling THEN "cancelled"
                   ELSE IF \A t \in Tasks : Phase[t] = "succeeded" THEN "returned"
                   ELSE "raised"
    <3>1. CASE Return
      <4>1. At({"failed"}) = {} <=> \A t \in Tasks : pc[t] = "succeeded"
        BY <3>1 DEF Return, At
      <4> QED BY <2>2, <3>1, <4>1 DEF Return
    <3>2. CASE ReturnCancelled
      BY <3>2 DEF ReturnCancelled
    <3> QED BY <1>8, <3>1, <3>2
  <2>4. UNCHANGED Phase
    BY <2>1 DEF Phase
  <2>5. Contract!End
    BY <2>1, <2>2, <2>3, <2>4 DEF Contract!End
  <2> QED BY <2>5 DEF Contract!Next
<1>9. CASE Cancel
  <2>1. UNCHANGED <<Phase, outcome>>
    BY <1>9 DEF Cancel, Phase
  <2>2. Contract!Stop
    BY <1>9, <2>1 DEF Cancel, Contract!Stop
  <2> QED BY <2>2 DEF Contract!Next
<1>10. ASSUME NEW t \in Tasks, Unwind(t) PROVE [Contract!Next]_Contract!vars
  <2>1. /\ cancelling /\ UNCHANGED <<cancelling, outcome>>
        /\ pc[t] \notin {"succeeded", "failed", "cancelled"}
        /\ pc'[t] = "cancelled"
        /\ \A u \in Tasks \ {t} : pc'[u] = pc[u]
    BY <1>0, <1>10 DEF Unwind
  <2>2. /\ Phase[t] \in {"waiting", "running"} /\ Phase'[t] = "dropped"
        /\ \A u \in Tasks \ {t} : Phase'[u] = Phase[u]
    BY <2>1 DEF Phase
  <2>3. Phase' = [Phase EXCEPT ![t] = "dropped"]
    BY <2>2 DEF Phase
  <2>4. Contract!Drop(t)
    BY <2>1, <2>2, <2>3 DEF Contract!Drop
  <2> QED BY <2>4 DEF Contract!Next
<1>11. CASE Pause
  BY <1>11, InvisibleStep DEF Pause
<1>12. CASE Resume
  <2>1. UNCHANGED <<cancelling, outcome>>
    BY <1>12 DEF Resume
  <2>2. \A u \in Tasks : \/ pc'[u] = pc[u]
                         \/ {pc[u], pc'[u]} \cap visible = {}
    BY <1>12 DEF Resume
  <2> QED BY <2>1, <2>2, InvisibleStep
<1>13. ASSUME NEW newCap \in 0..EffectiveCap, StepDownCap(newCap)
       PROVE  [Contract!Next]_Contract!vars
  BY <1>13, InvisibleStep DEF StepDownCap
<1>14. CASE UNCHANGED vars
  BY <1>14, InvisibleStep DEF vars
<1> QED BY <1>3, <1>4, <1>5, <1>6, <1>7, <1>8, <1>9, <1>10, <1>11, <1>12, <1>13,
           <1>14 DEF Next, LoopStep, TaskStep

\* Every wave, of any size and under any cap, is a wave of the contract.
THEOREM SchedulerImplementsContract == Spec => ImplementsContract
<1>1. Init => Contract!Init
  <2> SUFFICES ASSUME Init PROVE Contract!Init
    OBVIOUS
  <2>1. Phase = [t \in Tasks |-> "waiting"]
    BY DEF Init, Phase
  <2> QED BY <2>1 DEF Init, Contract!Init
<1>2. /\ TypeOK /\ DependencyInv /\ TypeOK' /\ DependencyInv'
      /\ SequentialWithinRepo' /\ InFlightWithinCap' /\ [Next]_vars
      => [Contract!Next]_Contract!vars
  BY RefinementStep
<1> QED BY <1>1, <1>2, TypeCorrect, DependencyInvariant, RepoIsSequential,
           InFlightIsWithinCap, PTL
        DEF Spec, ImplementsContract, Contract!Spec

-----------------------------------------------------------------------------
(* What the end of a wave rests on *)

\* The places of a task that the event loop runs, or that ends by itself.
Going == {"ready", "resumed", "permitted", "lockWoken", "executing"}

\* A wave that is neither paused nor cancelled and not over never comes to a
\* stop, whatever the tasks wait for, unless tasks wait for one another in a
\* circle; topological_sort refuses such a wave.
StopsOnlyAtACycle ==
    ~cancelling /\ ~paused /\ At(Ended) # Tasks =>
        \/ At(Going) # {}
        \/ \E S \in SUBSET Tasks \ {{}} : \A t \in S : Dep[t] \intersect S # {}

\* Until the wave is cancelled, every ended task is in _done.
DoneInv == ~cancelling => At(Ended) \subseteq done

LEMMA DoneStep == TypeOK /\ DoneInv /\ [Next]_vars => DoneInv'
<1> SUFFICES ASSUME TypeOK, DoneInv, [Next]_vars PROVE DoneInv'
  OBVIOUS
<1> USE DEF DoneInv, At, Ended
<1>0. pc \in [Tasks -> PCs]
  BY DEF TypeOK
<1>1. ASSUME UNCHANGED <<done, cancelling>>,
             \A u \in Tasks : pc'[u] \in Ended => pc[u] \in Ended
      PROVE  DoneInv'
  BY <1>1
<1>2. ASSUME NEW t \in Tasks, Check(t) \/ LeavePauseGate(t) \/ TakeLock(t)
      PROVE  DoneInv'
  BY <1>0, <1>1, <1>2 DEF Check, LeavePauseGate, TakeLock, AskForPermit, PastAdmission
<1>3. ASSUME NEW t \in Tasks, TakePermit(t) PROVE DoneInv'
  BY <1>0, <1>1, <1>3 DEF TakePermit, PastAdmission
<1>4. ASSUME NEW t \in Tasks, NEW verdict \in {"succeeded", "failed"}, Finish(t, verdict)
      PROVE  DoneInv'
  <2>1. done' = done \union {t} /\ cancelling' = cancelling
    BY <1>4, Zenon DEF Finish
  <2>2. \A u \in Tasks \ {t} : pc'[u] \in Ended => pc[u] \in Ended
    BY <1>0, <1>4 DEF Finish
  <2> QED BY <2>1, <2>2
<1>5. ASSUME cancelling' PROVE DoneInv'
  BY <1>5
<1>6. CASE Cancel \/ (\E t \in Tasks : Unwind(t)) \/ ReturnCancelled
  BY <1>5, <1>6 DEF Cancel, Unwind, ReturnCancelled
<1>7. CASE Return \/ Pause \/ UNCHANGED vars
  BY <1>1, <1>7 DEF Return, Pause, vars
<1>8. CASE Resume
  BY <1>0, <1>1, <1>8 DEF Resume
<1>9. ASSUME NEW newCap \in 0..EffectiveCap, StepDownCap(newCap) PROVE DoneInv'
  BY <1>1, <1>9 DEF StepDownCap
<1> QED BY <1>2, <1>3, <1>4, <1>6, <1>7, <1>8, <1>9 DEF Next, LoopStep, TaskStep

\* Whoever waits for a permit or for a lock waits, in the end, for a task that
\* goes on; whoever waits for another task waits for one that is not over.
THEOREM WaveStopsOnlyAtACycle == Spec => []StopsOnlyAtACycle
<1>1. Init => DoneInv
  BY DEF Init, DoneInv, At, Ended
<1>2. TypeOK /\ DependencyInv /\ NoLostWakeup /\ DoneInv => StopsOnlyAtACycle
  <2> SUFFICES ASSUME TypeOK, DependencyInv, NoLostWakeup, DoneInv,
                      ~cancelling, ~paused, At(Ended) # Tasks, At(Going) = {}
               PROVE  \E S \in SUBSET Tasks \ {{}} : \A t \in S : Dep[t] \intersect S # {}
    BY DEF StopsOnlyAtACycle
  <2> DEFINE S == At({"awaitDone"})
  <2>1. \A t \in Tasks : pc[t] \in PCs /\ pc[t] \notin Going /\ pc[t] # "cancelled"
    BY DEF TypeOK, DependencyInv, At
  <2>2. \A t \in Tasks : pc[t] # "awaitLock"
    BY <2>1 DEF NoLostWakeup, At, Going
  <2>3. \A t \in Tasks : pc[t] \notin {"awaitPermit", "awaitResume"}
    <3>1. At(Holding) = {}
      BY <2>1, <2>2 DEF At, Holding, Going
    <3> QED BY <3>1 DEF NoLostWakeup
  <2>4. \A t \in Tasks : pc[t] \in Ended \/ t \in S
    BY <2>1, <2>2, <2>3 DEF PCs, Going, Ended, At
  <2>5. S # {}
    BY <2>4 DEF At
  <2>6. ASSUME NEW t \in S PROVE Dep[t] \intersect S # {}
    <3>1. PICK d \in Dep[t] : d \notin done
      BY <2>6 DEF NoLostWakeup, At
    <3>2. d \in Tasks
      BY <2>6, DepAssumption DEF At
    <3>3. pc[d] \notin Ended
      BY <3>1, <3>2 DEF DoneInv, At
    <3> QED BY <2>4, <3>2, <3>3
  <2>7. S \in SUBSET Tasks
    BY DEF At
  <2> QED BY <2>5, <2>6, <2>7
<1> QED BY <1>1, <1>2, DoneStep, TypeCorrect, DependencyInvariant, NoWakeupIsLost, PTL DEF Spec

\* How far a task has come.
Place(s) == CASE s = "ready" -> 0
              [] s \in {"awaitDone", "awaitResume"} -> 1
              [] s = "resumed" -> 2
              [] s = "awaitPermit" -> 3
              [] s = "permitted" -> 4
              [] s = "awaitLock" -> 5
              [] s = "lockWoken" -> 6
              [] OTHER -> 7

Unended == Tasks \ At(Ended \union {"cancelled"})

\* The places that the tasks still have before them.
Ahead == {p \in Tasks \X (1..7) : Place(pc[p[1]]) < p[2]}

\* No step sends a task back but to look at its dependencies after another one
\* has ended, and every step of a task leaves fewer tasks that have not ended
\* or fewer places before them; no pause, resume or step-down of the cap adds to
\* either (_run_task, pause, resume and step_down_cap).
TasksAdvance ==
    [][/\ (\E t \in Tasks : TaskStep(t)) =>
              \/ Cardinality(Unended') < Cardinality(Unended)
              \/ Unended' = Unended /\ Cardinality(Ahead') < Cardinality(Ahead)
       /\ Unended' \subseteq Unended
       /\ Unended' = Unended => Ahead' \subseteq Ahead]_vars

LEMMA PlaceType == \A s : Place(s) \in 0..7
  BY DEF Place

LEMMA AheadIsFinite == IsFiniteSet(Ahead) /\ IsFiniteSet(Unended)
<1>1. IsFiniteSet(1..7)
  <2>1. 1 \in Int /\ 7 \in Int
    OBVIOUS
  <2> QED BY <2>1, FS_Interval, Zenon
<1>2. IsFiniteSet(Tasks \X (1..7))
  BY <1>1, TasksAssumption, FS_Product
<1>3. Ahead \in SUBSET (Tasks \X (1..7)) /\ Unended \in SUBSET Tasks
  BY DEF Ahead, Unended
<1> QED BY <1>2, <1>3, TasksAssumption, FS_Subset

LEMMA SmallerSubset ==
  ASSUME NEW S, IsFiniteSet(S), NEW T \in SUBSET S, T # S
  PROVE  Cardinality(T) < Cardinality(S)
<1>1. /\ Cardinality(T) <= Cardinality(S) /\ Cardinality(T) # Cardinality(S)
      /\ Cardinality(S) \in Nat /\ Cardinality(T) \in Nat
  BY FS_Subset, FS_CardinalityType
<1> QED BY <1>1

\* No task is sent back.
LEMMA NobodyGoesBack ==
  ASSUME \A u \in Tasks : Place(pc[u]) <= Place(pc'[u])
  PROVE  /\ Ahead' \subseteq Ahead
         /\ (\E t \in Tasks : Place(pc[t]) < Place(pc'[t])) =>
                Cardinality(Ahead') < Cardinality(Ahead)
<1> DEFINE after == {p \in Tasks \X (1..7) : Place(pc'[p[1]]) < p[2]}
<1>1. Ahead' = after
  BY DEF Ahead, Place
<1>2. after \in SUBSET Ahead
  <2>1. ASSUME NEW p \in after PROVE Place(pc[p[1]]) < p[2]
    <3>1. p[1] \in Tasks /\ p[2] \in 1..7 /\ Place(pc'[p[1]]) < p[2]
      OBVIOUS
    <3> QED BY <3>1, PlaceType
  <2> QED BY <2>1 DEF Ahead
<1>3. ASSUME NEW t \in Tasks, Place(pc[t]) < Place(pc'[t]) PROVE after # Ahead
  <2> DEFINE p == <<t, Place(pc'[t])>>
  <2>1. Place(pc'[t]) \in 1..7
    <3>1. Place(pc[t]) \in 0..7 /\ Place(pc'[t]) \in 0..7
      BY PlaceType
    <3> QED BY <1>3, <3>1
  <2>2. p \in Ahead
    BY <1>3, <2>1 DEF Ahead
  <2>3. p \notin after
    BY <2>1
  <2> QED BY <2>2, <2>3
<1> HIDE DEF after
<1> QED BY <1>1, <1>2, <1>3, AheadIsFinite, SmallerSubset

LEMMA TaskAdvances ==
  ASSUME TypeOK, NEW t \in Tasks, TaskStep(t)
  PROVE  \/ Unended' \subseteq Unended /\ Unended' # Unended
         \/ /\ Unended' = Unended
            /\ Place(pc[t]) < Place(pc'[t])
            /\ \A u \in Tasks : Place(pc[u]) <= Place(pc'[u])
<1>0. pc \in [Tasks -> PCs]
  BY DEF TypeOK
<1> DEFINE Over(s) == s \in Ended \union {"cancelled"}
\* A step by which one task moves ahead, and maybe takes others along.
<1>1. ASSUME ~Over(pc[t]), ~Over(pc'[t]), Place(pc[t]) < Place(pc'[t]),
             \A u \in Tasks \ {t} :
                 pc'[u] = pc[u] \/ (pc[u] = "awaitPermit" /\ pc'[u] = "permitted")
      PROVE  /\ Unended' = Unended
             /\ \A u \in Tasks : Place(pc[u]) <= Place(pc'[u])
  <2>1. \A u \in Tasks : Over(pc'[u]) <=> Over(pc[u])
    BY <1>1 DEF Ended
  <2>2. Unended' = Unended
    BY <2>1 DEF Unended, At
  <2>3. ASSUME NEW u \in Tasks PROVE Place(pc[u]) <= Place(pc'[u])
    <3>1. Place(pc[u]) \in 0..7 /\ Place(pc'[u]) \in 0..7
      BY PlaceType
    <3>2. CASE u = t
      BY <1>1, <3>1, <3>2
    <3>3. CASE pc'[u] = pc[u]
      BY <3>1, <3>3
    <3>4. CASE pc[u] = "awaitPermit" /\ pc'[u] = "permitted"
      BY <3>4 DEF Place
    <3> QED BY <1>1, <3>2, <3>3, <3>4
  <2> QED BY <2>2, <2>3
<1>2. ASSUME AskForPermit(t), pc[t] \in {"ready", "resumed"}
      PROVE  /\ pc'[t] \in {"executing", "awaitLock", "awaitPermit"}
             /\ \A u \in Tasks \ {t} : pc'[u] = pc[u]
  BY <1>0, <1>2 DEF AskForPermit, PastAdmission
<1>3. CASE Check(t) \/ LeavePauseGate(t) \/ TakeLock(t)
  <2>1. /\ pc[t] \in {"ready", "resumed", "lockWoken"} /\ pc'[t] # "ready"
        /\ pc[t] = "ready" => pc'[t] \in {"awaitDone", "awaitResume", "executing", "awaitLock",
                                          "awaitPermit"}
        /\ pc[t] = "resumed" => pc'[t] \in {"executing", "awaitLock", "awaitPermit"}
        /\ pc[t] = "lockWoken" => pc'[t] = "executing"
        /\ \A u \in Tasks \ {t} : pc'[u] = pc[u]
    <3>1. CASE Check(t)
      BY <1>0, <1>2, <3>1 DEF Check
    <3>2. CASE LeavePauseGate(t)
      BY <1>0, <1>2, <3>2 DEF LeavePauseGate
    <3>3. CASE TakeLock(t)
      BY <1>0, <3>3 DEF TakeLock
    <3> QED BY <1>3, <3>1, <3>2, <3>3
  <2>2. ~Over(pc[t]) /\ ~Over(pc'[t])
    BY <2>1 DEF Ended
  <2>3. Place(pc[t]) < Place(pc'[t])
    BY <2>1 DEF Place
  <2> QED BY <1>1, <2>1, <2>2, <2>3
<1>4. CASE TakePermit(t)
  <2>1. PICK granted \in WakeWhilePermits(At({"awaitPermit"})) :
          pc' = [u \in Tasks |-> CASE u = t -> PastAdmission(t)
                                    [] u \in granted -> "permitted"
                                    [] OTHER -> pc[u]]
    BY <1>4 DEF TakePermit
  <2>2. pc[t] = "permitted" /\ \A u \in granted : pc[u] = "awaitPermit"
    BY <1>4, <2>1 DEF TakePermit, WakeWhilePermits, At
  <2>3. pc'[t] \in {"executing", "awaitLock"}
    <3>1. pc'[t] = PastAdmission(t)
      BY <2>1, <2>2
    <3> QED BY <3>1 DEF PastAdmission
  <2>4. \A u \in Tasks \ {t} :
            pc'[u] = pc[u] \/ (pc[u] = "awaitPermit" /\ pc'[u] = "permitted")
    BY <2>1, <2>2
  <2>5. Place(pc[t]) < Place(pc'[t]) /\ ~Over(pc[t]) /\ ~Over(pc'[t])
    BY <2>2, <2>3 DEF Place, Ended
  <2> QED BY <1>1, <2>4, <2>5
<1>5. ASSUME ~Over(pc[t]), Over(pc'[t]), \A u \in Tasks : Over(pc[u]) => Over(pc'[u])
      PROVE  Unended' \subseteq Unended /\ Unended' # Unended
  <2>1. t \in Unended /\ t \notin Unended'
    BY <1>5 DEF Unended, At
  <2>2. Unended' \subseteq Unended
    BY <1>5 DEF Unended, At
  <2> QED BY <2>1, <2>2
<1>6. ASSUME NEW verdict \in {"succeeded", "failed"}, Finish(t, verdict)
      PROVE  Unended' \subseteq Unended /\ Unended' # Unended
  <2>1. PICK heir \in WakeOne({u \in At({"awaitLock"}) : Repo[u] = Repo[t]}),
             granted \in WakeOne(At({"awaitPermit"})) :
          pc' = [u \in Tasks |-> CASE u = t -> verdict
                                    [] u \in heir -> "lockWoken"
                                    [] u \in granted -> "permitted"
                                    [] pc[u] = "awaitDone" -> "ready"
                                    [] OTHER -> pc[u]]
    BY <1>6 DEF Finish
  <2>2. /\ pc[t] = "executing"
        /\ \A u \in heir \union granted : pc[u] \in {"awaitLock", "awaitPermit"}
    BY <1>6, <2>1 DEF Finish, WakeOne, At
  <2>3. Over(pc'[t]) /\ ~Over(pc[t])
    BY <2>1, <2>2 DEF Ended
  <2>4. \A u \in Tasks : Over(pc[u]) => pc'[u] = pc[u]
    BY <2>1, <2>2 DEF Ended
  <2> QED BY <1>5, <2>3, <2>4
<1>7. CASE Unwind(t)
  <2>1. pc[t] \notin {"succeeded", "failed", "cancelled"} /\ pc' = [pc EXCEPT ![t] = "cancelled"]
    BY <1>7 DEF Unwind
  <2>2. ~Over(pc[t]) /\ Over(pc'[t]) /\ \A u \in Tasks : Over(pc[u]) => Over(pc'[u])
    BY <1>0, <2>1 DEF Ended
  <2> QED BY <1>5, <2>2
<1> QED BY <1>3, <1>4, <1>6, <1>7 DEF TaskStep

\* The tasks of a wave have only so many steps before them, whoever is woken
\* first and however often the wave is paused and resumed (_run_task).
THEOREM TasksAlwaysAdvance == Spec => TasksAdvance
<1> DEFINE Step ==
        /\ (\E t \in Tasks : TaskStep(t)) =>
               \/ Cardinality(Unended') < Cardinality(Unended)
               \/ Unended' = Unended /\ Cardinality(Ahead') < Cardinality(Ahead)
        /\ Unended' \subseteq Unended
        /\ Unended' = Unended => Ahead' \subseteq Ahead
<1>1. ASSUME TypeOK, Next PROVE Step
  <2>1. ASSUME NEW t \in Tasks, TaskStep(t) PROVE Step
    <3>1. CASE Unended' \subseteq Unended /\ Unended' # Unended
      BY <3>1, AheadIsFinite, SmallerSubset
    <3>2. CASE /\ Unended' = Unended
               /\ Place(pc[t]) < Place(pc'[t])
               /\ \A u \in Tasks : Place(pc[u]) <= Place(pc'[u])
      BY <3>2, NobodyGoesBack
    <3> QED BY <1>1, <2>1, <3>1, <3>2, TaskAdvances
  <2>2. ASSUME UNCHANGED pc, ~ \E t \in Tasks : TaskStep(t) PROVE Step
    BY <2>2 DEF Unended, Ahead, At
  <2>3. ASSUME Resume, ~ \E t \in Tasks : TaskStep(t) PROVE Step
    <3>1. \A u \in Tasks : pc'[u] = pc[u] \/ (pc[u] = "awaitResume" /\ pc'[u] = "resumed")
      BY <2>3 DEF Resume
    <3>2. Unended' = Unended
      BY <3>1 DEF Unended, At, Ended
    <3>3. \A u \in Tasks : Place(pc[u]) <= Place(pc'[u])
      BY <3>1, PlaceType DEF Place
    <3> QED BY <2>3, <3>2, <3>3, NobodyGoesBack
  <2>4. Return \/ ReturnCancelled \/ Cancel \/ Pause => UNCHANGED pc
    BY DEF Return, ReturnCancelled, Cancel, Pause
  <2>5. \A newCap \in 0..EffectiveCap : StepDownCap(newCap) => UNCHANGED pc
    BY DEF StepDownCap
  <2> QED BY <1>1, <2>1, <2>2, <2>3, <2>4, <2>5 DEF Next, LoopStep
<1>2. TypeOK /\ [Next]_vars => [Step]_vars
  BY <1>1
<1> QED BY <1>2, TypeCorrect, PTL DEF Spec, TasksAdvance
=============================================================================
