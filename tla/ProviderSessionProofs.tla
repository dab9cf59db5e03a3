------------------------ MODULE ProviderSessionProofs ------------------------
(***************************************************************************)
(* Theorems about a session of a provider adapter, for any files, any      *)
(* number of calls and any size of a batch.                                *)
(***************************************************************************)
EXTENDS ProviderSession, TLAPS

Outcomes == {"completed", "blocked", "error"}
Calls == [id : Nat, tool : Tools]
Records == [id : Nat, tool : Tools, blocked : BOOLEAN]
Looping == {"model", "tools"}
Reading == Places \cup {"done"}

TypeOK ==
    /\ provider \in {"claude", "cli"}
    /\ pc \in Looping \cup Reading \cup {"cli", "cancelled", "refused"}
    /\ asked \in Nat
    /\ todo \in Seq(Calls)
    /\ batchAudit \in Seq(Records)
    /\ audit \in Seq(Records)
    /\ posted \in BOOLEAN
    /\ atRunner \subseteq Nat
    /\ reply \in {"none", "ran", "echo", "denied"}
    /\ ran \in Seq(Nat)
    /\ echoed \subseteq Nat
    /\ changed \in [Places -> SUBSET Files]
    /\ artifacts \subseteq Files
    /\ overlapped \in BOOLEAN
    /\ printed \in Seq(Lines)
    /\ verdict \in Outcomes
    /\ exit \in Int
    /\ outcome \in Outcomes

\* How many calls have a record.
Answered == Len(audit) + Len(batchAudit)

\* The calls are numbered in the order in which they were asked for, first
\* those with a record, then those without.
CallInv ==
    /\ \A k \in DOMAIN audit : audit[k].id = k
    /\ pc \in Looping =>
           /\ asked = Answered + Len(todo)
           /\ \A k \in DOMAIN batchAudit : batchAudit[k].id = Len(audit) + k
           /\ \A k \in DOMAIN todo : todo[k].id = Answered + k
           /\ posted => todo # <<>> /\ todo[1].tool # "unknown"
    /\ pc = "model" => todo = <<>> /\ batchAudit = <<>> /\ ~posted
    /\ pc = "cli" => asked = 0 /\ audit = <<>>

\* The agent-runner has at most one call, later than all it has executed, and
\* while the session goes on that is the one whose answer is awaited.
Heard == reply \in {"ran", "echo"}

RunnerInv ==
    /\ \A i, j \in DOMAIN ran : i < j => ran[i] < ran[j]
    /\ \A j \in DOMAIN ran : ran[j] > 0
    /\ \A id \in echoed : \E j \in DOMAIN ran : ran[j] = id
    /\ \A id \in atRunner :
           /\ id > Len(audit)
           /\ \A j \in DOMAIN ran : ran[j] < id
           /\ \A other \in atRunner : other = id
    /\ pc \in Looping =>
           /\ \A j \in DOMAIN ran :
                  ran[j] <= Answered \/ (posted /\ Heard /\ ran[j] = Answered + 1)
           /\ \A id \in atRunner : posted /\ reply = "none" /\ id = Answered + 1
           /\ posted /\ Heard =>
                  /\ \E j \in DOMAIN ran : ran[j] = Answered + 1
                  /\ reply = "echo" <=> Answered + 1 \in echoed
    /\ pc = "cli" => ran = <<>> /\ atRunner = {}
    /\ pc \in Reading /\ outcome # "error" =>
           /\ Len(audit) = asked /\ atRunner = {}
           /\ \A j \in DOMAIN ran : ran[j] <= asked

\* A record tells what the agent-runner has done with its call, as far as
\* the output lets it.
RanPlainly(id) == id \notin echoed /\ \E j \in DOMAIN ran : ran[j] = id

AuditInv ==
    /\ \A k \in DOMAIN audit : SaysExecuted(audit[k]) <=> RanPlainly(k)
    /\ pc \in Looping =>
           \A k \in DOMAIN batchAudit :
               SaysExecuted(batchAudit[k]) <=> RanPlainly(Len(audit) + k)

\* The places that git has been asked about by now.
Asked == [tree |-> {}, index |-> {"tree"}, commits |-> {"tree", "index"},
          untracked |-> {"tree", "index", "commits"}, done |-> Places]

ArtifactInv ==
    /\ pc \notin Reading => artifacts = {}
    /\ pc \in Reading /\ ~overlapped => artifacts = UNION {changed[p] : p \in Asked[pc]}

CliInv ==
    /\ provider = "cli" => pc \notin Looping
    /\ verdict = "completed" =>
           \A k \in DOMAIN printed :
               printed[k] \in {"blocking text", "cancelled", "failure"} =>
                   \E n \in DOMAIN printed : n > k /\ printed[n] = "success"
    /\ provider = "cli" /\ pc \in Reading /\ outcome = "completed" =>
           exit = 0 /\ verdict = "completed" /\ ~_check_prohibited_ops

IInv == TypeOK /\ CallInv /\ RunnerInv /\ AuditInv /\ ArtifactInv /\ CliInv

-----------------------------------------------------------------------------
(* Types.                                                                   *)

LEMMA OutcomeType ==
    ASSUME TypeOK
    PROVE  /\ \A reason : _map_stop_reason(reason) \in Outcomes
           /\ \A line \in Lines : Judged(line) \in Outcomes
           /\ \A code : CliOutcome(code) \in Outcomes
  BY DEF _map_stop_reason, Judged, CliOutcome, Outcomes, TypeOK, Lines

LEMMA DenialOrNot == ReadsLikeADenial(reply) \in BOOLEAN
  BY DEF ReadsLikeADenial

\* A command leaves git with sets of files.
LEMMA EffectType ==
    ASSUME TypeOK, Effect
    PROVE  changed' \in [Places -> SUBSET Files]
<1>1. ASSUME NEW f \in Files, Write(f) PROVE changed' \in [Places -> SUBSET Files]
  BY <1>1 DEF Write, TypeOK
<1>2. CASE StageAll
  BY <1>2 DEF StageAll, TypeOK, Places
<1>3. CASE CommitIndex
  BY <1>3 DEF CommitIndex, TypeOK, Places
<1> QED BY <1>1, <1>2, <1>3 DEF Effect, TypeOK

LEMMA RecordType ==
    ASSUME TypeOK, todo # <<>>, NEW blocked \in BOOLEAN, Record(blocked)
    PROVE  /\ todo' \in Seq(Calls) /\ batchAudit' \in Seq(Records)
           /\ Len(todo') = Len(todo) - 1 /\ Len(batchAudit') = Len(batchAudit) + 1
           /\ \A k \in DOMAIN todo' : todo'[k] = todo[k + 1]
           /\ \A k \in DOMAIN batchAudit : batchAudit'[k] = batchAudit[k]
           /\ batchAudit'[Len(batchAudit) + 1] =
                  [id |-> todo[1].id, tool |-> todo[1].tool, blocked |-> blocked]
<1>1. Head(todo) = todo[1] /\ todo[1] \in Calls
  BY DEF TypeOK
<1>2. [id |-> todo[1].id, tool |-> todo[1].tool, blocked |-> blocked] \in Records
  BY <1>1 DEF Calls, Records
<1> QED BY <1>1, <1>2 DEF Record, TypeOK

LEMMA InitType == Init => TypeOK
<1> SUFFICES ASSUME Init PROVE TypeOK
  OBVIOUS
<1>1. changed \in [Places -> SUBSET Files]
  BY DEF Init
<1>2. pc \in Looping \cup Reading \cup {"cli", "cancelled", "refused"}
  BY DEF Init, Looping
<1>3. /\ todo \in Seq(Calls) /\ batchAudit \in Seq(Records) /\ audit \in Seq(Records)
      /\ ran \in Seq(Nat) /\ printed \in Seq(Lines)
  BY DEF Init
<1>4. verdict \in Outcomes /\ outcome \in Outcomes /\ exit \in Int
  BY DEF Init, Outcomes
<1> QED BY <1>1, <1>2, <1>3, <1>4 DEF Init, TypeOK

LEMMA TypeStep ==
    ASSUME TypeOK, CallInv, Next
    PROVE  TypeOK'
<1> USE DEF Looping, Reading, Places, EndWith, loop, cli, runner
<1>1. ASSUME NEW n \in 1..MaxBatch, NEW tools \in [1..n -> Tools], ModelAsks(tools)
      PROVE  TypeOK'
  <2>1. Len(tools) = n /\ n \in Nat
    BY SessionAssumption DEF SessionAssumption
  <2>2. todo' \in Seq(Calls)
    BY <1>1, <2>1 DEF ModelAsks, TypeOK, Calls
  <2> QED BY <1>1, <2>1, <2>2 DEF ModelAsks, TypeOK
<1>2. ASSUME NEW reason, ModelStops(reason) PROVE TypeOK'
  BY <1>2, OutcomeType DEF ModelStops, TypeOK
<1>3. CASE ModelFails \/ Cancel
  BY <1>3 DEF ModelFails, Cancel, TypeOK, Outcomes
<1>4. CASE UnknownTool
  <2>1. todo # <<>> /\ Record(FALSE)
    BY <1>4 DEF UnknownTool
  <2>2. todo' \in Seq(Calls) /\ batchAudit' \in Seq(Records)
    BY <2>1, RecordType
  <2> QED BY <1>4, <2>2 DEF UnknownTool, TypeOK
<1>5. CASE PostCall
  <2>1. Head(todo) = todo[1] /\ todo[1] \in Calls
    BY <1>5 DEF PostCall, TypeOK
  <2>2. Head(todo).id \in Nat
    BY <2>1 DEF Calls
  <2> QED BY <1>5, <2>2 DEF PostCall, TypeOK
<1>6. CASE AnswerArrives
  <2>1. todo # <<>> /\ Record(ReadsLikeADenial(reply))
    BY <1>6 DEF AnswerArrives, CallInv
  <2>2. todo' \in Seq(Calls) /\ batchAudit' \in Seq(Records)
    BY <2>1, DenialOrNot, RecordType
  <2> QED BY <1>6, <2>2 DEF AnswerArrives, TypeOK
<1>7. CASE CallFails
  <2>1. batchAudit' \in Seq(Records) /\ outcome' \in Outcomes
    BY <1>7 DEF CallFails, Outcomes
  <2> QED BY <1>7, <2>1 DEF CallFails, TypeOK
<1>14. CASE BatchDone
  <2>1. audit \o batchAudit \in Seq(Records)
    BY DEF TypeOK
  <2> QED BY <1>14, <2>1 DEF BatchDone, TypeOK
<1>8. ASSUME NEW id \in atRunner, RunnerDenies(id) PROVE TypeOK'
  BY <1>8 DEF RunnerDenies, Answer, TypeOK
<1>9. ASSUME NEW id \in atRunner, NEW answer \in {"ran", "echo"}, RunnerExecutes(id, answer)
      PROVE  TypeOK'
  BY <1>9, EffectType DEF RunnerExecutes, Answer, TypeOK
<1>10. ASSUME NEW line \in Lines, Prints(line) PROVE TypeOK'
  <2>1. changed' \in [Places -> SUBSET Files]
    BY <1>10, EffectType DEF Prints, TypeOK
  <2>2. verdict' \in Outcomes
    BY <1>10, OutcomeType DEF Prints
  <2>3. printed' \in Seq(Lines)
    <3>1. printed \in Seq(Lines)
      BY DEF TypeOK
    <3>2. printed' = Append(printed, line)
      BY <1>10 DEF Prints
    <3> QED BY <3>1, <3>2
  <2> QED BY <1>10, <2>1, <2>2, <2>3 DEF Prints, TypeOK
<1>11. ASSUME NEW code \in {0, 1}, CliExits(code) PROVE TypeOK'
  BY <1>11, OutcomeType DEF CliExits, TypeOK
<1>12. CASE CliRefused
  BY <1>12 DEF CliRefused, TypeOK, Outcomes
<1>13. CASE ReadChanges
  BY <1>13 DEF ReadChanges, TypeOK, After
<1> QED
  BY <1>1, <1>2, <1>3, <1>4, <1>5, <1>6, <1>7, <1>8, <1>9, <1>10, <1>11, <1>12, <1>13, <1>14
  DEF Next

-----------------------------------------------------------------------------
(* The calls and their numbers.                                             *)

\* What a batch that is done adds to the audit.
LEMMA BatchAdded ==
    ASSUME TypeOK, BatchDone
    PROVE  /\ Len(audit') = Answered
           /\ \A k \in DOMAIN audit : audit'[k] = audit[k]
           /\ \A k \in DOMAIN batchAudit : audit'[Len(audit) + k] = batchAudit[k]
           /\ \A k \in DOMAIN audit' :
                  k \in DOMAIN audit \/ k - Len(audit) \in DOMAIN batchAudit
<1>1. audit \in Seq(Records) /\ batchAudit \in Seq(Records)
  BY DEF TypeOK
<1>2. audit' = audit \o batchAudit
  BY DEF BatchDone
<1> QED BY <1>1, <1>2 DEF Answered

LEMMA CallStep ==
    ASSUME TypeOK, CallInv, Next
    PROVE  CallInv'
<1> USE DEF CallInv, Answered, Looping, Places, EndWith, loop, cli, runner
<1>0. /\ todo \in Seq(Calls) /\ batchAudit \in Seq(Records) /\ audit \in Seq(Records)
      /\ asked \in Nat
  BY DEF TypeOK
<1>1. ASSUME NEW n \in 1..MaxBatch, NEW tools \in [1..n -> Tools], ModelAsks(tools)
      PROVE  CallInv'
  <2>1. Len(tools) = n /\ n \in Nat
    BY SessionAssumption DEF SessionAssumption
  <2>2. Len(todo') = n /\ \A k \in DOMAIN todo' : todo'[k].id = asked + k
    BY <1>1, <2>1 DEF ModelAsks
  <2>3. asked' = asked + n /\ batchAudit' = <<>> /\ pc' = "tools" /\ Len(audit) = asked
        /\ ~posted /\ UNCHANGED <<audit, posted>>
    BY <1>0, <1>1, <2>1 DEF ModelAsks
  <2>4. Answered' = asked /\ DOMAIN batchAudit' = {}
    BY <2>3, <1>0
  <2>5. \A k \in DOMAIN todo' : todo'[k].id = Answered' + k
    BY <2>2, <2>4
  <2>6. asked' = Answered' + Len(todo')
    BY <2>2, <2>3, <2>4
  <2> QED BY <2>3, <2>4, <2>5, <2>6
<1>2. ASSUME NEW reason, ModelStops(reason) PROVE CallInv'
  BY <1>2 DEF ModelStops
<1>3. CASE ModelFails \/ Cancel
  BY <1>3 DEF ModelFails, Cancel
<1>4. ASSUME NEW blocked \in BOOLEAN, todo # <<>>, pc = "tools", Record(blocked), ~posted',
             UNCHANGED <<pc, asked, audit>>
      PROVE  CallInv'
  <2>1. /\ todo' \in Seq(Calls) /\ batchAudit' \in Seq(Records)
        /\ Len(todo') = Len(todo) - 1 /\ Len(batchAudit') = Len(batchAudit) + 1
        /\ \A k \in DOMAIN todo' : todo'[k] = todo[k + 1]
        /\ \A k \in DOMAIN batchAudit : batchAudit'[k] = batchAudit[k]
    BY <1>4, RecordType
  <2>2. batchAudit'[Len(batchAudit) + 1].id = todo[1].id
    <3>1. batchAudit'[Len(batchAudit) + 1] =
              [id |-> todo[1].id, tool |-> todo[1].tool, blocked |-> blocked]
      BY <1>4, RecordType
    <3> QED BY <3>1
  <2>3. /\ asked = Answered + Len(todo)
        /\ \A k \in DOMAIN batchAudit : batchAudit[k].id = Len(audit) + k
        /\ \A k \in DOMAIN todo : todo[k].id = Answered + k
    BY <1>4
  <2>4. Answered' = Answered + 1 /\ asked' = Answered' + Len(todo')
    BY <1>0, <1>4, <2>1, <2>3
  <2>5. \A k \in DOMAIN batchAudit' : batchAudit'[k].id = Len(audit) + k
    <3> TAKE k \in DOMAIN batchAudit'
    <3>1. CASE k \in DOMAIN batchAudit
      BY <3>1, <2>1, <2>3
    <3>2. CASE k \notin DOMAIN batchAudit
      <4>1. k = Len(batchAudit) + 1
        BY <3>2, <2>1, <1>0
      <4>2. todo[1].id = Answered + 1
        BY <1>0, <1>4, <2>3
      <4> QED BY <4>1, <4>2, <2>2, <1>0
    <3> QED BY <3>1, <3>2
  <2>6. \A k \in DOMAIN todo' : todo'[k].id = Answered' + k
    <3> TAKE k \in DOMAIN todo'
    <3>1. k + 1 \in DOMAIN todo /\ k \in Nat
      BY <1>0, <1>4, <2>1
    <3>2. todo'[k] = todo[k + 1] /\ todo[k + 1].id = Answered + (k + 1)
      BY <3>1, <2>1, <2>3
    <3> QED BY <3>1, <3>2, <2>4, <1>0
  <2> QED BY <1>4, <2>4, <2>5, <2>6
<1>5. CASE UnknownTool
  <2>1. ~posted'
    BY <1>5, <1>0 DEF UnknownTool
  <2> QED BY <1>4, <1>5, <2>1 DEF UnknownTool
<1>6. CASE AnswerArrives
  BY <1>4, <1>6, DenialOrNot DEF AnswerArrives
<1>7. CASE PostCall
  BY <1>0, <1>7 DEF PostCall
<1>8. CASE CallFails
  BY <1>8 DEF CallFails
<1>9. CASE BatchDone
  <2>1. \A k \in DOMAIN audit' : audit'[k].id = k
    BY <1>0, <1>9, BatchAdded DEF BatchDone
  <2>2. Len(audit') = asked /\ ~posted
    BY <1>0, <1>9, BatchAdded DEF BatchDone
  <2> QED BY <1>0, <1>9, <2>1, <2>2 DEF BatchDone
<1>10. ASSUME NEW id \in atRunner,
              RunnerDenies(id) \/ \E answer \in {"ran", "echo"} : RunnerExecutes(id, answer)
       PROVE  CallInv'
  BY <1>10 DEF RunnerDenies, RunnerExecutes
<1>11. ASSUME NEW line \in Lines, Prints(line) PROVE CallInv'
  BY <1>11 DEF Prints
<1>12. ASSUME NEW code, CliExits(code) PROVE CallInv'
  BY <1>12 DEF CliExits
<1>13. CASE CliRefused
  BY <1>13 DEF CliRefused
<1>14. CASE ReadChanges
  BY <1>14 DEF ReadChanges, After
<1> QED
  BY <1>1, <1>2, <1>3, <1>5, <1>6, <1>7, <1>8, <1>9, <1>10, <1>11, <1>12, <1>13, <1>14
  DEF Next

-----------------------------------------------------------------------------
(* The agent-runner.                                                        *)

LEMMA RecordAnswered ==
    ASSUME TypeOK, todo # <<>>, NEW blocked \in BOOLEAN, Record(blocked), UNCHANGED audit
    PROVE  Answered' = Answered + 1
<1>1. Len(batchAudit') = Len(batchAudit) + 1 /\ batchAudit \in Seq(Records) /\ audit \in Seq(Records)
  BY RecordType DEF TypeOK
<1> QED BY <1>1 DEF Answered

\* While the session goes on, the call at the agent-runner is the awaited one.
LEMMA RunnerIsAwaited ==
    ASSUME TypeOK, CallInv, RunnerInv, NEW id \in atRunner
    PROVE  pc \in Looping => Awaited(id) /\ id = Answered + 1 /\ posted /\ reply = "none"
<1>1. ASSUME pc \in Looping
      PROVE  Awaited(id) /\ id = Answered + 1 /\ posted /\ reply = "none"
  <2>1. posted /\ reply = "none" /\ id = Answered + 1
    BY <1>1 DEF RunnerInv
  <2>2. pc = "tools" /\ todo # <<>> /\ todo \in Seq(Calls)
    BY <1>1, <2>1 DEF CallInv, Looping, TypeOK
  <2>3. Head(todo) = todo[1] /\ todo[1].id = Answered + 1
    BY <1>1, <2>2 DEF CallInv
  <2> QED BY <2>1, <2>2, <2>3 DEF Awaited
<1> QED BY <1>1

LEMMA RanAppended ==
    ASSUME TypeOK, NEW id \in Nat, ran' = Append(ran, id)
    PROVE  /\ \A j \in DOMAIN ran : j \in DOMAIN ran' /\ ran'[j] = ran[j]
           /\ Len(ran) + 1 \in DOMAIN ran' /\ ran'[Len(ran) + 1] = id
           /\ \A j \in DOMAIN ran' : j \in DOMAIN ran \/ j = Len(ran) + 1
           /\ DOMAIN ran = 1..Len(ran) /\ Len(ran) \in Nat
<1>1. ran \in Seq(Nat)
  BY DEF TypeOK
<1> QED BY <1>1

LEMMA RunnerStep ==
    ASSUME TypeOK, CallInv, RunnerInv, Next
    PROVE  RunnerInv'
<1> USE DEF RunnerInv, Heard, Looping, Reading, Places, EndWith, loop, cli, runner
<1>0. /\ todo \in Seq(Calls) /\ batchAudit \in Seq(Records) /\ audit \in Seq(Records)
      /\ asked \in Nat /\ ran \in Seq(Nat) /\ atRunner \subseteq Nat
      /\ Len(audit) \in Nat /\ Answered \in Nat /\ Answered >= Len(audit)
  BY DEF TypeOK, Answered
<1>1. ASSUME NEW n \in 1..MaxBatch, NEW tools \in [1..n -> Tools], ModelAsks(tools)
      PROVE  RunnerInv'
  <2>1. ~posted /\ batchAudit = <<>>
    BY <1>1 DEF ModelAsks, CallInv
  <2>2. Answered' = Answered
    BY <1>1, <2>1 DEF ModelAsks, Answered
  <2> QED BY <1>1, <2>1, <2>2 DEF ModelAsks
<1>2. ASSUME pc = "model", pc' = "tree", UNCHANGED <<loop, runner>>
      PROVE  RunnerInv'
  <2>1. ~posted /\ asked = Answered /\ Len(audit) = asked
    BY <1>2, <1>0 DEF CallInv, Answered
  <2> QED BY <1>2, <2>1
<1>3. ASSUME NEW reason, ModelStops(reason) PROVE RunnerInv'
  BY <1>2, <1>3 DEF ModelStops
<1>4. CASE ModelFails
  BY <1>2, <1>4 DEF ModelFails
<1>5. CASE Cancel
  BY <1>5 DEF Cancel
<1>6. CASE UnknownTool
  <2>1. ~posted
    BY <1>6, <1>0 DEF UnknownTool, CallInv
  <2>2. Answered' = Answered + 1
    BY <1>6, RecordAnswered DEF UnknownTool
  <2> QED BY <1>0, <1>6, <2>1, <2>2 DEF UnknownTool
<1>7. CASE AnswerArrives
  <2>1. todo # <<>> /\ Record(ReadsLikeADenial(reply)) /\ UNCHANGED audit
    BY <1>7 DEF AnswerArrives, CallInv
  <2>2. Answered' = Answered + 1
    BY <2>1, DenialOrNot, RecordAnswered
  <2> QED BY <1>0, <1>7, <2>2 DEF AnswerArrives
<1>8. CASE PostCall
  <2>1. Head(todo) = todo[1] /\ todo[1].id = Answered + 1
    BY <1>0, <1>8 DEF PostCall, CallInv
  <2>2. atRunner = {} /\ \A j \in DOMAIN ran : ran[j] <= Answered
    BY <1>8 DEF PostCall
  <2>3. atRunner' \subseteq {Answered + 1} /\ Answered' = Answered
    BY <1>8, <2>1, <2>2 DEF PostCall, Answered
  <2> QED BY <1>0, <1>8, <2>2, <2>3 DEF PostCall
<1>9. CASE CallFails
  BY <1>9 DEF CallFails
<1>10. CASE BatchDone
  <2>1. ~posted /\ atRunner = {}
    BY <1>0, <1>10 DEF BatchDone, CallInv
  <2>2. Answered' = Answered
    BY <1>0, <1>10, BatchAdded DEF BatchDone, Answered
  <2> QED BY <1>0, <1>10, <2>1, <2>2 DEF BatchDone
<1>11. ASSUME NEW id \in atRunner, RunnerDenies(id) PROVE RunnerInv'
  <2>1. atRunner' = {}
    BY <1>11 DEF RunnerDenies
  <2>2. pc \in Looping => reply' = "denied" /\ \A j \in DOMAIN ran : ran[j] <= Answered
    BY <1>11, RunnerIsAwaited DEF RunnerDenies, Answer
  <2>3. Answered' = Answered
    BY <1>11 DEF RunnerDenies, Answered
  <2> QED BY <1>11, <2>1, <2>2, <2>3 DEF RunnerDenies
<1>12. ASSUME NEW id \in atRunner, NEW answer \in {"ran", "echo"}, RunnerExecutes(id, answer)
       PROVE  RunnerInv'
  <2>1. atRunner' = {} /\ ran' = Append(ran, id) /\ id > Len(audit) /\ id \in Nat
    BY <1>12, <1>0 DEF RunnerExecutes
  <2>2. pc \in Looping =>
            /\ reply' = answer /\ posted /\ id = Answered + 1
            /\ \A j \in DOMAIN ran : ran[j] <= Answered
    BY <1>12, RunnerIsAwaited DEF RunnerExecutes, Answer
  <2>3. Answered' = Answered /\ UNCHANGED <<pc, posted, audit, asked, outcome>>
    BY <1>12 DEF RunnerExecutes, Answered
  <2>4. \A i, j \in DOMAIN ran' : i < j => ran'[i] < ran'[j]
    BY <2>1, RanAppended
  <2>5. \A j \in DOMAIN ran' : ran'[j] > 0
    BY <1>0, <2>1, RanAppended
  <2>6. pc \in Looping => \A j \in DOMAIN ran' :
            ran'[j] <= Answered \/ (posted /\ Heard' /\ ran'[j] = Answered + 1)
    BY <2>1, <2>2, RanAppended
  <2>7. pc \in Looping => \E j \in DOMAIN ran' : ran'[j] = Answered + 1
    BY <2>1, <2>2, RanAppended
  <2>8. \A e \in echoed' : \E j \in DOMAIN ran' : ran'[j] = e
    BY <1>12, <2>1, RanAppended DEF RunnerExecutes
  <2>9. id \notin echoed /\ (id \in echoed' <=> answer = "echo")
    <3>1. \A j \in DOMAIN ran : ran[j] < id /\ ran[j] \in Nat
      BY <1>0, <1>12
    <3>2. id \notin echoed
      BY <2>1, <3>1
    <3> QED BY <1>12, <3>2 DEF RunnerExecutes, ReadsLikeADenial
  <2> QED BY <1>12, <2>1, <2>2, <2>3, <2>4, <2>5, <2>6, <2>7, <2>8, <2>9
<1>13. ASSUME NEW line \in Lines, Prints(line) PROVE RunnerInv'
  BY <1>13 DEF Prints
<1>14. ASSUME NEW code, CliExits(code) PROVE RunnerInv'
  BY <1>14 DEF CliExits, CallInv
<1>15. CASE CliRefused
  BY <1>15 DEF CliRefused
<1>16. CASE ReadChanges
  BY <1>16 DEF ReadChanges, After
<1> QED
  BY <1>1, <1>3, <1>4, <1>5, <1>6, <1>7, <1>8, <1>9, <1>10, <1>11, <1>12, <1>13, <1>14,
     <1>15, <1>16
  DEF Next

-----------------------------------------------------------------------------
(* The records.                                                             *)

LEMMA RecordIsTrue ==
    ASSUME TypeOK, CallInv, AuditInv, pc = "tools", todo # <<>>,
           NEW blocked \in BOOLEAN, Record(blocked), UNCHANGED <<pc, audit, ran, echoed>>,
           (~blocked /\ todo[1].tool # "unknown") <=> RanPlainly(Answered + 1)
    PROVE  AuditInv'
<1>0. batchAudit \in Seq(Records) /\ audit \in Seq(Records)
  BY DEF TypeOK
<1>1. /\ batchAudit' \in Seq(Records) /\ Len(batchAudit') = Len(batchAudit) + 1
      /\ \A k \in DOMAIN batchAudit : batchAudit'[k] = batchAudit[k]
  BY RecordType
<1>2. batchAudit'[Len(batchAudit) + 1] =
          [id |-> todo[1].id, tool |-> todo[1].tool, blocked |-> blocked]
  BY RecordType
<1>3. SaysExecuted(batchAudit'[Len(batchAudit) + 1]) <=> ~blocked /\ todo[1].tool # "unknown"
  BY <1>2 DEF SaysExecuted
<1>4. \A k \in DOMAIN batchAudit' :
          SaysExecuted(batchAudit'[k]) <=> RanPlainly(Len(audit) + k)
  <2> TAKE k \in DOMAIN batchAudit'
  <2>1. CASE k \in DOMAIN batchAudit
    BY <2>1, <1>1 DEF AuditInv, Looping
  <2>2. CASE k \notin DOMAIN batchAudit
    <3>1. k = Len(batchAudit) + 1 /\ Len(audit) + k = Answered + 1
      BY <2>2, <1>0, <1>1 DEF Answered
    <3> QED BY <3>1, <1>3
  <2> QED BY <2>1, <2>2
<1> QED BY <1>4 DEF AuditInv, RanPlainly

LEMMA AuditStep ==
    ASSUME TypeOK, CallInv, RunnerInv, AuditInv, Next
    PROVE  AuditInv'
<1> USE DEF Looping, EndWith, loop, cli, runner, RanPlainly
<1>0. /\ todo \in Seq(Calls) /\ batchAudit \in Seq(Records) /\ audit \in Seq(Records)
      /\ ran \in Seq(Nat) /\ atRunner \subseteq Nat
  BY DEF TypeOK
<1>1. ASSUME NEW n \in 1..MaxBatch, NEW tools \in [1..n -> Tools], ModelAsks(tools)
      PROVE  AuditInv'
  BY <1>1 DEF ModelAsks, AuditInv
<1>2. ASSUME NEW reason, ModelStops(reason) PROVE AuditInv'
  BY <1>2 DEF ModelStops, AuditInv
<1>3. CASE ModelFails \/ Cancel
  BY <1>3 DEF ModelFails, Cancel, AuditInv
<1>4. CASE UnknownTool
  <2>1. todo # <<>> /\ Record(FALSE) /\ todo[1].tool = "unknown"
    <3>1. todo # <<>> /\ Record(FALSE) /\ Head(todo).tool = "unknown"
      BY <1>4 DEF UnknownTool
    <3>2. Head(todo) = todo[1]
      BY <1>0, <3>1
    <3> QED BY <3>1, <3>2
  <2>2. ~posted /\ ~RanPlainly(Answered + 1)
    BY <1>0, <1>4, <2>1 DEF UnknownTool, CallInv, RunnerInv, Answered
  <2> QED BY <1>4, <2>1, <2>2, RecordIsTrue DEF UnknownTool
<1>5. CASE AnswerArrives
  <2>1. todo # <<>> /\ Record(ReadsLikeADenial(reply)) /\ todo[1].tool # "unknown"
    BY <1>5 DEF AnswerArrives, CallInv
  <2>2. ~ReadsLikeADenial(reply) <=> RanPlainly(Answered + 1)
    <3>1. pc \in Looping /\ posted /\ reply \in {"ran", "echo", "denied"}
      BY <1>5 DEF AnswerArrives, TypeOK
    <3>2. Answered \in Nat
      BY <1>0 DEF Answered
    <3>3. CASE Heard
      BY <3>1, <3>3 DEF RunnerInv, Heard, ReadsLikeADenial
    <3>4. CASE ~Heard
      <4>1. \A j \in DOMAIN ran : ran[j] <= Answered /\ ran[j] \in Nat
        BY <1>0, <3>1, <3>4 DEF RunnerInv
      <4> QED BY <3>1, <3>2, <3>4, <4>1 DEF Heard, ReadsLikeADenial
    <3> QED BY <3>3, <3>4
  <2> QED BY <1>5, <2>1, <2>2, DenialOrNot, RecordIsTrue DEF AnswerArrives
<1>6. CASE PostCall
  BY <1>6 DEF PostCall, AuditInv
<1>7. CASE CallFails
  BY <1>7 DEF CallFails, AuditInv
<1>8. CASE BatchDone
  <2>1. \A k \in DOMAIN audit' :
            SaysExecuted(audit'[k]) <=> RanPlainly(k)
    <3> TAKE k \in DOMAIN audit'
    <3>1. CASE k \in DOMAIN audit
      BY <1>8, <3>1, BatchAdded DEF AuditInv
    <3>2. CASE k \notin DOMAIN audit
      <4> DEFINE m == k - Len(audit)
      <4>1. m \in DOMAIN batchAudit /\ Len(audit) + m = k
        BY <1>0, <1>8, <3>2, BatchAdded
      <4>2. audit'[k] = batchAudit[m]
        BY <1>8, <4>1, BatchAdded
      <4>3. SaysExecuted(batchAudit[m]) <=> RanPlainly(Len(audit) + m)
        BY <1>8, <4>1 DEF AuditInv, BatchDone
      <4> QED BY <4>1, <4>2, <4>3
    <3> QED BY <3>1, <3>2
  <2> QED BY <1>8, <2>1 DEF BatchDone, AuditInv
<1>9. ASSUME NEW id \in atRunner, RunnerDenies(id) PROVE AuditInv'
  BY <1>9 DEF RunnerDenies, AuditInv
<1>10. ASSUME NEW id \in atRunner, NEW answer \in {"ran", "echo"}, RunnerExecutes(id, answer)
       PROVE  AuditInv'
  <2>1. ran' = Append(ran, id) /\ id > Len(audit) /\ id \in Nat
        /\ UNCHANGED <<pc, audit, batchAudit>>
    BY <1>10, <1>0 DEF RunnerExecutes, RunnerInv
  <2>2. \A n : n # id => (RanPlainly(n)' <=> RanPlainly(n))
    <3>1. \A n : n # id => (n \in echoed' <=> n \in echoed)
      BY <1>10 DEF RunnerExecutes
    <3>2. \A n : (\E j \in DOMAIN ran' : ran'[j] = n) <=> n = id \/ \E j \in DOMAIN ran : ran[j] = n
      BY <2>1, RanAppended
    <3> QED BY <3>1, <3>2
  <2>3. \A k \in DOMAIN audit : k # id
    BY <2>1, <1>0
  <2>4. pc \in Looping => \A k \in DOMAIN batchAudit : Len(audit) + k # id
    BY <1>0, RunnerIsAwaited DEF Answered
  <2> QED BY <2>1, <2>2, <2>3, <2>4 DEF AuditInv
<1>11. ASSUME NEW line \in Lines, Prints(line) PROVE AuditInv'
  BY <1>11 DEF Prints, AuditInv
<1>12. ASSUME NEW code, CliExits(code) PROVE AuditInv'
  BY <1>12 DEF CliExits, AuditInv
<1>13. CASE CliRefused
  BY <1>13 DEF CliRefused, AuditInv
<1>14. CASE ReadChanges
  BY <1>14 DEF ReadChanges, After, AuditInv, Places
<1> QED
  BY <1>1, <1>2, <1>3, <1>4, <1>5, <1>6, <1>7, <1>8, <1>9, <1>10, <1>11, <1>12, <1>13, <1>14
  DEF Next

-----------------------------------------------------------------------------
(* The artifacts, and the output of a command-line agent.                   *)

LEMMA ArtifactStep ==
    ASSUME TypeOK, CallInv, RunnerInv, ArtifactInv, Next
    PROVE  ArtifactInv'
<1> USE DEF ArtifactInv, Looping, Reading, Places, EndWith, loop, cli, runner
<1>1. ASSUME NEW n \in 1..MaxBatch, NEW tools \in [1..n -> Tools], ModelAsks(tools)
      PROVE  ArtifactInv'
  BY <1>1 DEF ModelAsks
<1>2. ASSUME pc \notin Reading, pc' = "tree", UNCHANGED artifacts PROVE ArtifactInv'
  BY <1>2 DEF Asked
<1>3. ASSUME NEW reason, ModelStops(reason) PROVE ArtifactInv'
  BY <1>2, <1>3 DEF ModelStops
<1>4. CASE ModelFails \/ CallFails
  BY <1>2, <1>4 DEF ModelFails, CallFails
<1>5. CASE Cancel \/ UnknownTool \/ AnswerArrives \/ PostCall \/ BatchDone
  BY <1>5 DEF Cancel, UnknownTool, AnswerArrives, PostCall, BatchDone
<1>6. ASSUME NEW id \in atRunner, RunnerDenies(id) PROVE ArtifactInv'
  BY <1>6 DEF RunnerDenies
<1>7. ASSUME NEW id \in atRunner, NEW answer \in {"ran", "echo"}, RunnerExecutes(id, answer)
      PROVE  ArtifactInv'
  <2>1. UNCHANGED <<pc, artifacts>> /\ (pc \in Reading \ {"tree"} => overlapped')
        /\ (overlapped => overlapped')
    BY <1>7 DEF RunnerExecutes
  <2>2. pc = "tree" => artifacts \in {{}} \/ overlapped
    BY DEF Asked
  <2> QED BY <2>1, <2>2 DEF Asked
<1>8. ASSUME NEW line \in Lines, Prints(line) PROVE ArtifactInv'
  BY <1>8 DEF Prints
<1>9. ASSUME NEW code, CliExits(code) PROVE ArtifactInv'
  BY <1>2, <1>9 DEF CliExits
<1>10. CASE CliRefused
  BY <1>10 DEF CliRefused
<1>11. CASE ReadChanges
  <2>1. /\ pc \in Places /\ pc' = After[pc] /\ artifacts' = artifacts \cup changed[pc]
        /\ UNCHANGED <<changed, overlapped>>
    BY <1>11 DEF ReadChanges
  <2>2. pc' \in Reading /\ Asked[pc'] = Asked[pc] \cup {pc}
    BY <2>1 DEF After, Asked
  <2> QED BY <2>1, <2>2
<1> QED
  BY <1>1, <1>3, <1>4, <1>5, <1>6, <1>7, <1>8, <1>9, <1>10, <1>11 DEF Next

LEMMA AfterAPlace == \A p \in Places : After[p] \in Reading
  BY DEF Places, Reading, After

LEMMA PrintedAppended ==
    ASSUME TypeOK, NEW line \in Lines, printed' = Append(printed, line)
    PROVE  /\ \A k \in DOMAIN printed : k \in DOMAIN printed' /\ printed'[k] = printed[k]
           /\ \A k \in DOMAIN printed' : k \in DOMAIN printed \/ k = Len(printed) + 1
           /\ Len(printed) + 1 \in DOMAIN printed' /\ printed'[Len(printed) + 1] = line
           /\ \A k \in DOMAIN printed : k < Len(printed) + 1
<1>1. printed \in Seq(Lines)
  BY DEF TypeOK
<1> QED BY <1>1

LEMMA CliStep ==
    ASSUME TypeOK, CliInv, Next
    PROVE  CliInv'
<1> USE DEF CliInv, Looping, Reading, Places, EndWith, loop, cli, runner
<1>1. ASSUME UNCHANGED cli, provider = "claude", UNCHANGED provider PROVE CliInv'
  BY <1>1
<1>2. ASSUME NEW n \in 1..MaxBatch, NEW tools \in [1..n -> Tools], ModelAsks(tools)
      PROVE  CliInv'
  BY <1>1, <1>2 DEF ModelAsks, TypeOK
<1>3. ASSUME NEW reason, ModelStops(reason) PROVE CliInv'
  BY <1>1, <1>3 DEF ModelStops, TypeOK
<1>4. CASE ModelFails \/ CallFails \/ Cancel
  BY <1>1, <1>4 DEF ModelFails, CallFails, Cancel, TypeOK
<1>5. CASE UnknownTool \/ AnswerArrives \/ PostCall \/ BatchDone
  BY <1>1, <1>5 DEF UnknownTool, AnswerArrives, PostCall, BatchDone, TypeOK
<1>6. ASSUME NEW id \in atRunner,
             RunnerDenies(id) \/ \E answer \in {"ran", "echo"} : RunnerExecutes(id, answer)
      PROVE  CliInv'
  BY <1>6 DEF RunnerDenies, RunnerExecutes, _check_prohibited_ops
<1>7. ASSUME NEW line \in Lines, Prints(line) PROVE CliInv'
  <2>1. printed' = Append(printed, line) /\ pc = "cli" /\ pc' = "cli" /\ verdict' = Judged(line)
        /\ UNCHANGED provider
    BY <1>7 DEF Prints
  <2>2. /\ \A k \in DOMAIN printed : k \in DOMAIN printed' /\ printed'[k] = printed[k]
        /\ \A k \in DOMAIN printed' : k \in DOMAIN printed \/ k = Len(printed) + 1
        /\ Len(printed) + 1 \in DOMAIN printed' /\ printed'[Len(printed) + 1] = line
        /\ \A k \in DOMAIN printed : k < Len(printed) + 1
    BY <2>1, PrintedAppended
  <2>3. ASSUME verdict' = "completed", NEW k \in DOMAIN printed',
               printed'[k] \in {"blocking text", "cancelled", "failure"}
        PROVE  \E n \in DOMAIN printed' : n > k /\ printed'[n] = "success"
    <3>1. line = "success" \/ (verdict = "completed" /\ line \notin {"blocking text", "cancelled", "failure"})
      BY <2>1, <2>3 DEF Judged
    <3>2. k \in DOMAIN printed
      BY <2>2, <2>3, <3>1
    <3>3. CASE line = "success"
      BY <2>2, <3>2, <3>3
    <3>4. CASE verdict = "completed"
      <4>1. PICK n \in DOMAIN printed : n > k /\ printed[n] = "success"
        BY <2>2, <2>3, <3>2, <3>4
      <4> QED BY <4>1, <2>2
    <3> QED BY <3>1, <3>3, <3>4
  <2> QED BY <2>1, <2>3
<1>8. ASSUME NEW code, CliExits(code) PROVE CliInv'
  <2>1. outcome' = "completed" => code = 0 /\ verdict = "completed" /\ ~_check_prohibited_ops
    BY <1>8 DEF CliExits, CliOutcome
  <2> QED BY <1>8, <2>1 DEF CliExits, _check_prohibited_ops
<1>9. CASE CliRefused
  BY <1>9 DEF CliRefused
<1>10. CASE ReadChanges
  <2>1. pc \in Places /\ pc' = After[pc] /\ UNCHANGED <<provider, cli, outcome>>
    BY <1>10 DEF ReadChanges
  <2>2. pc \in Reading /\ pc' \in Reading
    BY <2>1, AfterAPlace
  <2> QED BY <2>1, <2>2 DEF _check_prohibited_ops
<1> QED
  BY <1>2, <1>3, <1>4, <1>5, <1>6, <1>7, <1>8, <1>9, <1>10 DEF Next

-----------------------------------------------------------------------------
(* The theorems.                                                            *)

\* A session keeps its invariant through every interleaving of the adapter,
\* the agent-runner and a cancellation (providers/, agent-runner/app).
THEOREM SessionInvariant == Spec => []IInv
<1>1. Init => IInv
  <2> SUFFICES ASSUME Init PROVE IInv
    OBVIOUS
  <2>1. CallInv /\ RunnerInv /\ AuditInv
    BY DEF Init, CallInv, RunnerInv, AuditInv, Answered, Looping, Reading, Places
  <2>2. ArtifactInv /\ CliInv
    BY DEF Init, ArtifactInv, CliInv, Looping, Reading, Places
  <2> QED BY <2>1, <2>2, InitType DEF IInv
<1>2. IInv /\ [Next]_vars => IInv'
  <2>1. ASSUME IInv, UNCHANGED vars PROVE IInv'
    <3>1. TypeOK' /\ CallInv' /\ RunnerInv'
      BY <2>1 DEF vars, loop, runner, cli, IInv, TypeOK, CallInv, RunnerInv, Answered, Heard
    <3>2. AuditInv' /\ ArtifactInv'
      BY <2>1 DEF vars, loop, runner, IInv, AuditInv, RanPlainly, ArtifactInv
    <3>3. CliInv'
      BY <2>1 DEF vars, cli, IInv, CliInv, _check_prohibited_ops
    <3> QED BY <3>1, <3>2, <3>3 DEF IInv
  <2>2. ASSUME IInv, Next PROVE IInv'
    BY <2>2, TypeStep, CallStep, RunnerStep, AuditStep, ArtifactStep, CliStep DEF IInv
  <2> QED BY <2>1, <2>2
<1> QED BY <1>1, <1>2, PTL DEF Spec

\* The audit log says of a call that it was executed exactly if it was and its
\* output does not begin like a denial, although a call may be executed after
\* its request has failed (_execute_tools of providers/claude.py, _call of
\* executor_client.py).
THEOREM AuditIsTrue == Spec => []AuditMatchesExecution
<1>1. IInv => AuditMatchesExecution
  <2> SUFFICES ASSUME IInv PROVE AuditMatchesExecution
    OBVIOUS
  <2>0. ran \in Seq(Nat) /\ audit \in Seq(Records) /\ batchAudit \in Seq(Records)
    BY DEF IInv, TypeOK
  <2>1. \A k \in 2..Len(ran) : ran[k - 1] < ran[k]
    BY <2>0 DEF IInv, RunnerInv
  <2>2. \A k : k \in Range(ran) <=> \E j \in DOMAIN ran : ran[j] = k
    BY DEF Range
  <2>3. \A k \in DOMAIN audit :
            audit[k].id = k /\ (SaysExecuted(audit[k]) <=> k \in Range(ran) \ echoed)
    BY <2>2 DEF IInv, AuditInv, RanPlainly, CallInv
  <2>4. ASSUME pc = "model" \/ (pc = "done" /\ outcome # "error")
        PROVE  Len(audit) = asked /\ \A j \in DOMAIN ran : ran[j] <= asked
    <3>1. CASE pc = "model"
      BY <2>0, <3>1 DEF IInv, CallInv, RunnerInv, Answered, Looping
    <3>2. CASE pc = "done" /\ outcome # "error"
      BY <3>2 DEF IInv, RunnerInv, Reading
    <3> QED BY <2>4, <3>1, <3>2
  <2>5. (\A j \in DOMAIN ran : ran[j] <= asked) => Range(ran) \subseteq 1..asked
    BY <2>0, <2>2 DEF IInv, RunnerInv, TypeOK
  <2> QED BY <2>1, <2>3, <2>4, <2>5 DEF AuditMatchesExecution
<1> QED BY <1>1, SessionInvariant, PTL

\* The artifacts are all that differs from the start of the session, read in
\* four steps and wherever git keeps it, if no command outlives its request
\* (derive_artifacts of providers/utils.py).
THEOREM ArtifactsAreComplete == Spec => []ArtifactsAreWhatChanged
<1>1. IInv => ArtifactsAreWhatChanged
  BY DEF IInv, ArtifactInv, ArtifactsAreWhatChanged, Reading, Asked
<1> QED BY <1>1, SessionInvariant, PTL

\* A command-line session that counts as completed was clean, for any output
\* (_parse_output of providers/codex.py and gemini.py).
THEOREM CompletedIsClean == Spec => []CompletedMeansClean
<1>1. IInv => CompletedMeansClean
  BY DEF IInv, CliInv, CompletedMeansClean, Reading, _check_prohibited_ops
<1> QED BY <1>1, SessionInvariant, PTL
=============================================================================
