------------------------- MODULE IssuePipelineProofs -------------------------
(***************************************************************************)
(* Theorems about the pipeline of an issue, for any finite set of issues,  *)
(* any limits and any number of interrupted runs.                          *)
(***************************************************************************)
EXTENDS IssuePipeline, FiniteSetTheorems, TLAPS

USE IssuesAssumption, LimitsAssumption DEF IssuesAssumption, LimitsAssumption

\* The steps at which the branch of the issue at work is checked out.
OnBranch == {"created", "implementing", "gating", "describing", "reviewing", "feedback",
             "approved", "stuck", "rejected", "discarding"}

\* The repository, by the step of the issue at work.
BranchInv ==
    /\ pc \in OnBranch => head = cur
    /\ pc \in Busy \ {"deleted"} => cur \in branches
    /\ pc = "deleted" => cur \notin branches

\* An issue whose turn has not come in this run has no marker yet, and one
\* that is marked as merged has no branch and no blocker.
MarkerInv ==
    /\ pc \in Busy => result[cur] = "waiting" /\ marker[cur].step # "merged"
    /\ \A i \in Issues :
           pc # "off" /\ result[i] = "waiting" /\ (i = cur => pc = "created")
               => marker[i] = [step |-> "none", count |-> 0]
    /\ \A i \in Issues : marker[i].step = "merged" => i \notin branches \union blocked

\* The three counters: a step that takes one off finds one left.
LimitInv ==
    /\ pc \in {"implementing", "gating"} => fixes > 0
    /\ pc \in {"reviewing", "feedback"} => cycles > 0
    /\ CheckpointsCounted

\* A blocker belongs to an issue that is parked, or about to be.
BlockerInv ==
    /\ pc # "off" => report = {}
    /\ pc \in {"discarding", "dropping"} => cur \in blocked
    /\ \A i \in Issues :
           /\ result[i] = "parked" => i \in blocked
           /\ i \in report => result[i] = "merged"
           /\ i \in blocked =>
                  \/ result[i] \in {"parked", "raised"}
                  \/ pc = "off" /\ result[i] = "waiting"
                  \/ pc \in {"discarding", "dropping"} /\ i = cur

\* What a merge may bring: all that the gates have seen or a reviewer has
\* asked for, in the diff the reviewer was shown; but for what left commands
\* and sessions without allowed tools have done.
Earned == gated \union (Issues \X {"feedback", "aside"}) \union strayed

ContentInv ==
    /\ pc \in {"describing", "reviewing", "feedback", "approved", "onAgent"} =>
           feature[cur] \union tree \subseteq Earned
    /\ pc \in {"describing", "reviewing", "approved", "onAgent"} =>
           FeatureDiff \subseteq diff \union unseen

\* An adapter that heeds allowed_tools, and no command left behind.
Heeding == Adapter = "claude" /\ Leaving = {}

HeedingInv ==
    Heeding => /\ stray = {} /\ strayed = {} /\ unseen = {}
               /\ agent \union tree \subseteq Changes \ Asides
               /\ \A i \in Issues : feature[i] \subseteq Changes \ Asides

IInv == TypeOK /\ BranchInv /\ MarkerInv /\ LimitInv /\ BlockerInv /\ ContentInv /\ HeedingInv

-----------------------------------------------------------------------------
(* The steps, one by one.                                                   *)

LEMMA LimitsArePositive ==
    /\ FixAttempts \in Nat /\ FixAttempts > 0
    /\ MaxCheckpoints \in Nat /\ MaxCheckpoints > 0
    /\ ReviewCycles \in Nat /\ ReviewCycles > 0
    /\ MaxRuns \in Nat
  OBVIOUS

\* Whatever the adapter, only these sessions can change anything, and what
\* the implementing and the feedback session make is no aside.
LEMMA ToolSteps ==
    /\ ToolSessions \subseteq {"implementing", "feedback", "describing", "reviewing"}
    /\ ToolSessions \subseteq Busy /\ ToolSessions \subseteq OnBranch
    /\ Unrestrained \subseteq {"describing", "reviewing"}
  BY DEF ToolSessions, AllowedTools, Unrestrained, Busy, OnBranch

\* The change of a session is one of the changes.
LEMMA ChangeType ==
    ASSUME TypeOK, pc \in ToolSessions
    PROVE  /\ Change \in Changes /\ Change[1] = cur
           /\ pc = "implementing" \/ Change \in Issues \X {"feedback", "aside"}
           /\ pc \in AllowedTools => Change \notin Asides
  BY ToolSteps DEF TypeOK, Change, Changes, Kinds, Asides, AllowedTools

LEMMA LeftType ==
    ASSUME TypeOK, MayLeaveCommand
    PROVE  stray' \subseteq Changes
  BY ChangeType DEF MayLeaveCommand, TypeOK

LEMMA CommitType ==
    ASSUME TypeOK, CommitAll
    PROVE  /\ agent' \subseteq Changes /\ tree' \subseteq Changes
           /\ feature' \in [Issues -> SUBSET Changes]
  BY DEF TypeOK, CommitAll

LEMMA MarkType ==
    ASSUME TypeOK, cur \in Issues, NEW step \in Steps, NEW count \in 0..MaxCheckpoints,
           \/ MarkStep(step)
           \/ marker' = [marker EXCEPT ![cur] = [step |-> step, count |-> count]]
    PROVE  marker' \in [Issues -> [step : Steps, count : 0..MaxCheckpoints]]
<1>1. marker[cur] \in [step : Steps, count : 0..MaxCheckpoints]
  BY DEF TypeOK
<1>2. CASE MarkStep(step)
  <2>1. [marker[cur] EXCEPT !.step = step] \in [step : Steps, count : 0..MaxCheckpoints]
    BY <1>1
  <2> QED BY <2>1, <1>2 DEF MarkStep, TypeOK
<1>3. CASE marker' = [marker EXCEPT ![cur] = [step |-> step, count |-> count]]
  BY <1>3 DEF TypeOK
<1> QED BY <1>2, <1>3

LEMMA InitType == Init => TypeOK
<1> SUFFICES ASSUME Init PROVE TypeOK
  OBVIOUS
<1>1. marker \in [Issues -> [step : Steps, count : 0..MaxCheckpoints]]
  BY LimitsArePositive DEF Init, Unmarked, Steps
<1>2. fixes \in 0..FixAttempts /\ checkpoints \in 0..MaxCheckpoints
      /\ cycles \in 0..ReviewCycles /\ run \in 0..MaxRuns
  BY LimitsArePositive DEF Init
<1>3. pc \in Busy \union {"off", "idle"} /\ cur \in IF pc \in Busy THEN Issues ELSE {NoIssue}
  BY DEF Init, Busy, AllowedTools
<1>4. feature \in [Issues -> SUBSET Changes]
      /\ result \in [Issues -> {"waiting", "merged", "parked", "raised"}]
  BY DEF Init
<1> QED BY <1>1, <1>2, <1>3, <1>4 DEF Init, TypeOK

LEMMA TypeStep ==
    ASSUME IInv, Next
    PROVE  TypeOK'
<1> USE DEF TypeOK, IInv, Busy, AllowedTools, Leave, IssueEnds, Checkout,
            git, store, seen, locals, wave, strays
<1> USE LimitsArePositive
<1>1. CASE BeginRun
  <2>1. marker' \in [Issues -> [step : Steps, count : 0..MaxCheckpoints]]
    BY <1>1 DEF BeginRun, Unmarked, Steps
  <2> QED BY <1>1, <2>1 DEF BeginRun
<1>2. ASSUME NEW i \in Issues, CreateBranch(i) \/ CreateFails(i)
      PROVE  TypeOK'
  BY <1>2 DEF CreateBranch, CreateFails
<1>3. CASE BeginImplementing
  <2>1. marker[cur].count \in 0..MaxCheckpoints
    BY <1>3 DEF BeginImplementing
  <2>2. marker' \in [Issues -> [step : Steps, count : 0..MaxCheckpoints]]
    BY <1>3, <2>1, MarkType DEF BeginImplementing, MarkImplementing, Steps
  <2> QED BY <1>3, <2>1, <2>2 DEF BeginImplementing
<1>4. CASE Raise \/ EndWave
  BY <1>4 DEF Raise, EndWave
<1>5. CASE SessionWrites
  BY <1>5, ChangeType DEF SessionWrites
<1>6. CASE SessionCommits
  BY <1>6, CommitType DEF SessionCommits, CommitUnseen
<1>7. CASE Checkpoint
  <2>1. checkpoints + 1 \in 0..MaxCheckpoints
    BY <1>7 DEF Checkpoint, LimitInv, CheckpointsCounted
  <2>2. marker' \in [Issues -> [step : Steps, count : 0..MaxCheckpoints]]
    BY <1>7, <2>1, MarkType DEF Checkpoint, MarkImplementing, Steps
  <2>3. stray' \subseteq Changes
    BY <1>7, LeftType DEF Checkpoint
  <2> QED BY <1>7, <2>1, <2>2, <2>3, CommitType DEF Checkpoint
<1>8. CASE ImplementSessionEnds \/ FeedbackSessionEnds
  <2>1. marker' \in [Issues -> [step : Steps, count : 0..MaxCheckpoints]]
    BY <1>8, MarkType DEF ImplementSessionEnds, FeedbackSessionEnds, Steps
  <2>2. stray' \subseteq Changes
    BY <1>8, LeftType DEF ImplementSessionEnds, FeedbackSessionEnds
  <2> QED BY <1>8, <2>1, <2>2 DEF ImplementSessionEnds, FeedbackSessionEnds, FeatureDiff
<1>9. CASE GatesPass
  <2>1. marker' \in [Issues -> [step : Steps, count : 0..MaxCheckpoints]]
    BY <1>9, MarkType DEF GatesPass, Steps
  <2> QED BY <1>9, <2>1 DEF GatesPass, FeatureDiff
<1>10. CASE GatesFail
  <2>1. marker' \in [Issues -> [step : Steps, count : 0..MaxCheckpoints]]
    BY <1>10, MarkType DEF GatesFail, MarkImplementing, Steps
  <2>2. fixes - 1 \in 0..FixAttempts
    BY <1>10 DEF GatesFail, LimitInv
  <2> QED BY <1>10, <2>1, <2>2 DEF GatesFail
<1>11. CASE BodySessionEnds
  <2>1. marker' \in [Issues -> [step : Steps, count : 0..MaxCheckpoints]]
    BY <1>11, MarkType DEF BodySessionEnds, Steps
  <2> QED BY <1>11, <2>1, LeftType DEF BodySessionEnds
<1>12. CASE RequestChanges
  <2>1. marker' \in [Issues -> [step : Steps, count : 0..MaxCheckpoints]]
    BY <1>12, MarkType DEF RequestChanges, Steps
  <2>2. cycles - 1 \in 0..ReviewCycles
    BY <1>12 DEF RequestChanges, LimitInv
  <2> QED BY <1>12, <2>1, <2>2, LeftType DEF RequestChanges
<1>13. CASE Approve \/ CheckoutAgent \/ MergeConflicts
  BY <1>13, LeftType DEF Approve, CheckoutAgent, MergeConflicts
<1>14. CASE Merge \/ DeleteMergedBranch
  BY <1>14 DEF Merge, DeleteMergedBranch, DropBranch
<1>15. CASE MarkMerged
  <2>1. marker' \in [Issues -> [step : Steps, count : 0..MaxCheckpoints]]
    BY <1>15, MarkType DEF MarkMerged, Steps
  <2>2. result' \in [Issues -> {"waiting", "merged", "parked", "raised"}]
    BY <1>15 DEF MarkMerged
  <2> QED BY <1>15, <2>1, <2>2 DEF MarkMerged
<1>16. CASE Escalate \/ DiscardCheckout \/ DiscardBranch
  BY <1>16 DEF Escalate, DiscardCheckout, DiscardBranch, DropBranch
<1>17. CASE Interrupt
  <2>1. stray' \subseteq Changes
    BY <1>17, LeftType DEF Interrupt
  <2> QED BY <1>17, <2>1 DEF Interrupt
<1>18. CASE StrayWrites \/ StrayCommits
  BY <1>18, CommitType DEF StrayWrites, StrayCommits, CommitUnseen
<1> QED
  BY <1>1, <1>2, <1>3, <1>4, <1>5, <1>6, <1>7, <1>8, <1>9, <1>10, <1>11, <1>12, <1>13,
     <1>14, <1>15, <1>16, <1>17, <1>18
  DEF Next, EngineStep

LEMMA BranchStep ==
    ASSUME IInv, Next
    PROVE  BranchInv'
<1> USE DEF IInv, BranchInv, OnBranch, Busy, AllowedTools, Leave, IssueEnds, Checkout,
            git, store, seen, locals, wave, strays
<1>0. pc \in Busy => cur \in Issues /\ cur # Agent
  BY DEF TypeOK
<1>1. CASE BeginRun
  BY <1>1 DEF BeginRun
<1>2. ASSUME NEW i \in Issues, CreateBranch(i) \/ CreateFails(i)
      PROVE  BranchInv'
  BY <1>2 DEF CreateBranch, CreateFails
<1>3. CASE BeginImplementing \/ Checkpoint \/ ImplementSessionEnds
  BY <1>3 DEF BeginImplementing, Checkpoint, ImplementSessionEnds, CommitAll
<1>4. CASE Raise \/ EndWave \/ Interrupt
  BY <1>4 DEF Raise, EndWave, Interrupt
<1>5. CASE SessionWrites \/ SessionCommits
  BY <1>5 DEF SessionWrites, SessionCommits, CommitUnseen, CommitAll
<1>6. CASE GatesPass \/ GatesFail \/ BodySessionEnds \/ Approve
  BY <1>6 DEF GatesPass, GatesFail, BodySessionEnds, Approve
<1>7. CASE RequestChanges \/ FeedbackSessionEnds
  BY <1>7 DEF RequestChanges, FeedbackSessionEnds
<1>8. CASE CheckoutAgent \/ Merge \/ MergeConflicts
  BY <1>8 DEF CheckoutAgent, Merge, MergeConflicts
<1>9. CASE DeleteMergedBranch \/ MarkMerged
  BY <1>9 DEF DeleteMergedBranch, DropBranch, MarkMerged
<1>10. CASE Escalate \/ DiscardCheckout \/ DiscardBranch
  BY <1>10 DEF Escalate, DiscardCheckout, DiscardBranch, DropBranch
<1>11. CASE StrayWrites \/ StrayCommits
  BY <1>11 DEF StrayWrites, StrayCommits, CommitUnseen, CommitAll
<1> QED
  BY <1>1, <1>2, <1>3, <1>4, <1>5, <1>6, <1>7, <1>8, <1>9, <1>10, <1>11 DEF Next, EngineStep

LEMMA MarkerStep ==
    ASSUME IInv, Next
    PROVE  MarkerInv'
<1> USE DEF IInv, MarkerInv, Busy, AllowedTools, Leave, IssueEnds,
            Checkout, git, store, seen, locals, wave, strays
<1>0. /\ pc \in Busy => cur \in Issues
      /\ marker \in [Issues -> [step : Steps, count : 0..MaxCheckpoints]]
      /\ result \in [Issues -> {"waiting", "merged", "parked", "raised"}]
      /\ NoIssue \notin Issues
      /\ pc \notin Busy => cur = NoIssue
      /\ pc \in Busy \union {"off", "idle"}
  BY DEF TypeOK
<1>1. CASE BeginRun
  BY <1>1, <1>0 DEF BeginRun, Unmarked
<1>2. ASSUME NEW i \in Issues, CreateBranch(i)
      PROVE  MarkerInv'
  BY <1>2, <1>0 DEF CreateBranch
<1>3. ASSUME NEW i \in Issues, CreateFails(i)
      PROVE  MarkerInv'
  BY <1>3, <1>0 DEF CreateFails
<1>4. CASE BeginImplementing \/ Checkpoint
  BY <1>4, <1>0 DEF BeginImplementing, Checkpoint, MarkImplementing
<1>5. CASE ImplementSessionEnds \/ GatesPass \/ BodySessionEnds \/ FeedbackSessionEnds
  BY <1>5, <1>0 DEF ImplementSessionEnds, GatesPass, BodySessionEnds, FeedbackSessionEnds, MarkStep
<1>6. CASE GatesFail \/ RequestChanges
  BY <1>6, <1>0 DEF GatesFail, RequestChanges, MarkStep, MarkImplementing
<1>7. CASE SessionWrites \/ SessionCommits \/ StrayWrites \/ StrayCommits
  BY <1>7, <1>0 DEF SessionWrites, SessionCommits, StrayWrites, StrayCommits, CommitUnseen,
     CommitAll
<1>8. CASE Raise \/ EndWave \/ Interrupt \/ MergeConflicts
  <2>1. /\ UNCHANGED <<marker, branches, blocked>> /\ pc' \in {"idle", "off"}
        /\ cur' = NoIssue
        /\ pc' = "idle" => pc \in Busy /\ result' = [result EXCEPT ![cur] = "raised"]
    BY <1>8, <1>0 DEF Raise, EndWave, Interrupt, MergeConflicts
  <2>2. \A i \in Issues : pc' # "off" /\ result'[i] = "waiting" =>
            pc # "off" /\ result[i] = "waiting" /\ i # cur
    BY <1>0, <2>1
  <2> QED BY <2>1, <2>2
<1>9. CASE Approve \/ CheckoutAgent \/ Merge \/ DeleteMergedBranch \/ DiscardCheckout
  BY <1>9, <1>0 DEF Approve, CheckoutAgent, Merge, DeleteMergedBranch, DropBranch, DiscardCheckout
<1>10. CASE MarkMerged
  <2>1. /\ cur \in Issues /\ cur \notin branches /\ cur \notin blocked /\ pc' = "idle"
        /\ UNCHANGED <<branches, blocked>> /\ cur' = NoIssue
    BY <1>10, <1>0 DEF MarkMerged, BranchInv, BlockerInv
  <2>2. \A i \in Issues : /\ result'[i] = "waiting" => i # cur /\ result[i] = "waiting"
                          /\ i # cur => marker'[i] = marker[i]
    BY <1>10, <1>0 DEF MarkMerged, MarkStep
  <2>3. pc \in Busy /\ pc # "off"
    BY <1>10 DEF MarkMerged
  <2> QED BY <2>1, <2>2, <2>3
<1>11. CASE Escalate
  <2>1. pc \in Busy /\ cur \in Issues /\ blocked' = blocked \union {cur}
        /\ UNCHANGED <<marker, branches>>
    BY <1>11, <1>0 DEF Escalate
  <2>2. \A i \in Issues : marker'[i].step = "merged" => i \notin branches' \union blocked'
    BY <2>1
  <2> QED BY <1>11, <1>0, <2>2 DEF Escalate
<1>12. CASE DiscardBranch
  BY <1>12, <1>0 DEF DiscardBranch, DropBranch
<1> QED
  BY <1>1, <1>2, <1>3, <1>4, <1>5, <1>6, <1>7, <1>8, <1>9, <1>10, <1>11, <1>12
  DEF Next, EngineStep

LEMMA LimitStep ==
    ASSUME IInv, Next
    PROVE  LimitInv'
<1> USE DEF IInv, LimitInv, CheckpointsCounted, Busy, AllowedTools, Leave, IssueEnds,
            git, store, seen, locals, wave, strays
<1>0. /\ pc \in Busy => cur \in Issues
      /\ marker \in [Issues -> [step : Steps, count : 0..MaxCheckpoints]]
      /\ fixes \in Nat /\ cycles \in Nat /\ checkpoints \in 0..MaxCheckpoints
      /\ pc \in Busy \union {"off", "idle"}
  BY LimitsArePositive DEF TypeOK
<1> USE LimitsArePositive
<1>1. CASE BeginRun
  BY <1>1 DEF BeginRun
<1>2. ASSUME NEW i \in Issues, CreateBranch(i) \/ CreateFails(i)
      PROVE  LimitInv'
  BY <1>2, <1>0 DEF CreateBranch, CreateFails
<1>3. CASE BeginImplementing
  <2>1. marker[cur].count = 0
    BY <1>3, <1>0 DEF BeginImplementing, MarkerInv
  <2> QED BY <1>3, <1>0, <2>1 DEF BeginImplementing, MarkImplementing
<1>4. CASE Checkpoint
  BY <1>4, <1>0 DEF Checkpoint, MarkImplementing
<1>5. CASE ImplementSessionEnds \/ GatesPass
  BY <1>5, <1>0 DEF ImplementSessionEnds, GatesPass, MarkStep
<1>6. CASE BodySessionEnds \/ FeedbackSessionEnds
  BY <1>6, <1>0 DEF BodySessionEnds, FeedbackSessionEnds, MarkStep
<1>7. CASE GatesFail \/ RequestChanges
  BY <1>7, <1>0 DEF GatesFail, RequestChanges, MarkStep, MarkImplementing
<1>8. CASE SessionWrites \/ SessionCommits \/ StrayWrites \/ StrayCommits
  BY <1>8, <1>0 DEF SessionWrites, SessionCommits, StrayWrites, StrayCommits, CommitUnseen,
     CommitAll
<1>9. CASE Raise \/ EndWave \/ Interrupt \/ MergeConflicts \/ MarkMerged
  BY <1>9, <1>0 DEF Raise, EndWave, Interrupt, MergeConflicts, MarkMerged
<1>10. CASE Approve \/ CheckoutAgent \/ Merge \/ DeleteMergedBranch \/ DiscardCheckout
  BY <1>10, <1>0 DEF Approve, CheckoutAgent, Merge, DeleteMergedBranch, DiscardCheckout
<1>11. CASE Escalate \/ DiscardBranch
  BY <1>11, <1>0 DEF Escalate, DiscardBranch
<1> QED
  BY <1>1, <1>2, <1>3, <1>4, <1>5, <1>6, <1>7, <1>8, <1>9, <1>10, <1>11
  DEF Next, EngineStep

LEMMA BlockerStep ==
    ASSUME IInv, Next
    PROVE  BlockerInv'
<1> USE DEF IInv, BlockerInv, Busy, AllowedTools, Leave, IssueEnds,
            git, store, seen, locals, wave, strays
<1>0. /\ pc \in Busy => cur \in Issues /\ result[cur] = "waiting"
      /\ result \in [Issues -> {"waiting", "merged", "parked", "raised"}]
      /\ NoIssue \notin Issues
      /\ pc \notin Busy => cur = NoIssue
      /\ pc \in Busy \union {"off", "idle"}
  BY DEF TypeOK, MarkerInv
<1>1. CASE BeginRun
  BY <1>1, <1>0 DEF BeginRun
<1>2. ASSUME NEW i \in Issues, CreateBranch(i) \/ CreateFails(i)
      PROVE  BlockerInv'
  BY <1>2, <1>0 DEF CreateBranch, CreateFails
<1>3. CASE BeginImplementing \/ Checkpoint \/ ImplementSessionEnds
  BY <1>3, <1>0 DEF BeginImplementing, Checkpoint, ImplementSessionEnds
<1>4. CASE GatesPass \/ GatesFail \/ BodySessionEnds \/ Approve
  BY <1>4, <1>0 DEF GatesPass, GatesFail, BodySessionEnds, Approve
<1>5. CASE RequestChanges \/ FeedbackSessionEnds
  BY <1>5, <1>0 DEF RequestChanges, FeedbackSessionEnds
<1>6. CASE CheckoutAgent \/ Merge \/ DeleteMergedBranch \/ DiscardCheckout
  BY <1>6, <1>0 DEF CheckoutAgent, Merge, DeleteMergedBranch, DiscardCheckout
<1>7. CASE MergeConflicts \/ MarkMerged \/ Raise
  BY <1>7, <1>0 DEF MergeConflicts, MarkMerged, Raise
<1>8. CASE EndWave
  BY <1>8, <1>0 DEF EndWave
<1>9. CASE Interrupt
  BY <1>9, <1>0 DEF Interrupt
<1>10. CASE Escalate
  BY <1>10, <1>0 DEF Escalate
<1>11. CASE DiscardBranch
  BY <1>11, <1>0 DEF DiscardBranch
<1>12. CASE SessionWrites \/ SessionCommits \/ StrayWrites \/ StrayCommits
  BY <1>12, <1>0 DEF SessionWrites, SessionCommits, StrayWrites, StrayCommits
<1> QED
  BY <1>1, <1>2, <1>3, <1>4, <1>5, <1>6, <1>7, <1>8, <1>9, <1>10, <1>11, <1>12
  DEF Next, EngineStep

\* A step of a left command changes neither what the gates passed on nor the
\* diff, and what it moves becomes a stray change.
LEMMA StrayContentStep ==
    ASSUME IInv, StrayWrites \/ StrayCommits
    PROVE  ContentInv'
<1> USE DEF IInv, ContentInv, Earned, FeatureDiff
<1>0. pc \in {"describing", "reviewing", "feedback", "approved", "onAgent"} => cur \in Issues
  BY DEF TypeOK, Busy, AllowedTools
<1>1. CASE StrayWrites
  BY <1>1 DEF StrayWrites, git, store, seen, locals, wave
<1>2. CASE StrayCommits
  <2>1. /\ strayed' = strayed \union tree /\ unseen' = unseen \union tree /\ tree' = {}
        /\ UNCHANGED <<pc, cur, gated, diff>>
    BY <1>2 DEF StrayCommits, CommitUnseen, CommitAll
  <2>2. /\ agent \subseteq agent'
        /\ cur \in Issues => feature'[cur] \subseteq feature[cur] \union tree
    BY <1>2 DEF StrayCommits, CommitUnseen, CommitAll, TypeOK
  <2> QED BY <2>1, <2>2, <1>0
<1> QED BY <1>1, <1>2

LEMMA ContentStep ==
    ASSUME IInv, Next
    PROVE  ContentInv'
<1> USE DEF IInv, ContentInv, Earned, FeatureDiff, Busy, AllowedTools, Leave, IssueEnds,
            git, store, seen, locals, wave, strays
<1>0. /\ pc \in Busy => cur \in Issues /\ cur # Agent
      /\ feature \in [Issues -> SUBSET Changes]
  BY DEF TypeOK
<1>1. CASE BeginRun
  BY <1>1, <1>0 DEF BeginRun
<1>2. ASSUME NEW i \in Issues, CreateBranch(i) \/ CreateFails(i)
      PROVE  ContentInv'
  BY <1>2, <1>0 DEF CreateBranch, CreateFails
<1>3. CASE BeginImplementing \/ Checkpoint \/ ImplementSessionEnds \/ GatesFail
  BY <1>3, <1>0 DEF BeginImplementing, Checkpoint, ImplementSessionEnds, GatesFail
<1>4. CASE GatesPass
  BY <1>4, <1>0 DEF GatesPass
<1>5. CASE BodySessionEnds \/ Approve \/ RequestChanges
  BY <1>5, <1>0 DEF BodySessionEnds, Approve, RequestChanges
<1>6. CASE FeedbackSessionEnds
  BY <1>6, <1>0 DEF FeedbackSessionEnds
<1>7. CASE SessionWrites
  <2>1. pc = "implementing" \/ Change \in Issues \X {"feedback", "aside"}
    BY <1>7, ChangeType DEF SessionWrites
  <2> QED BY <1>7, <1>0, <2>1, ToolSteps DEF SessionWrites
<1>8. CASE SessionCommits
  <2>1. /\ tree' = {} /\ UNCHANGED <<pc, cur, gated, diff, strayed, agent>>
        /\ feature'[cur] = feature[cur] \union tree
        /\ pc \in AllowedTools \/ unseen' = unseen \union tree
    BY <1>8, <1>0, ToolSteps DEF SessionCommits, CommitUnseen, CommitAll, BranchInv
  <2> QED BY <2>1, <1>8, <1>0, ToolSteps DEF SessionCommits
<1>9. CASE Raise \/ EndWave \/ Interrupt \/ MergeConflicts \/ MarkMerged
  BY <1>9, <1>0 DEF Raise, EndWave, Interrupt, MergeConflicts, MarkMerged
<1>10. CASE CheckoutAgent \/ Merge \/ DeleteMergedBranch
  BY <1>10, <1>0 DEF CheckoutAgent, Merge, DeleteMergedBranch, DropBranch
<1>11. CASE Escalate \/ DiscardCheckout \/ DiscardBranch
  BY <1>11, <1>0 DEF Escalate, DiscardCheckout, DiscardBranch, DropBranch
<1>12. CASE StrayWrites \/ StrayCommits
  BY <1>12, StrayContentStep
<1> QED
  BY <1>1, <1>2, <1>3, <1>4, <1>5, <1>6, <1>7, <1>8, <1>9, <1>10, <1>11, <1>12
  DEF Next, EngineStep

\* With an adapter that heeds allowed_tools nothing is written that nobody
\* asked for.
LEMMA HeedingStep ==
    ASSUME IInv, Next
    PROVE  HeedingInv'
<1> SUFFICES ASSUME Heeding
             PROVE  /\ stray' = {} /\ strayed' = {} /\ unseen' = {}
                    /\ agent' \union tree' \subseteq Changes \ Asides
                    /\ \A i \in Issues : feature'[i] \subseteq Changes \ Asides
  BY DEF HeedingInv, Heeding
<1> USE DEF Leave, IssueEnds, Checkout, git, store, seen, locals, wave, strays
<1>0. /\ stray = {} /\ strayed = {} /\ unseen = {}
      /\ agent \union tree \subseteq Changes \ Asides
      /\ feature \in [Issues -> SUBSET (Changes \ Asides)]
      /\ ToolSessions = AllowedTools
  BY DEF IInv, TypeOK, HeedingInv, Heeding, ToolSessions, Unrestrained
<1>1. MayLeaveCommand => stray' = {}
  BY <1>0 DEF MayLeaveCommand, Heeding
<1>2. CASE BeginRun
  BY <1>0, <1>2 DEF BeginRun
<1>3. ASSUME NEW i \in Issues, CreateBranch(i) \/ CreateFails(i)
      PROVE  /\ stray' = {} /\ strayed' = {} /\ unseen' = {}
             /\ agent' \union tree' \subseteq Changes \ Asides
             /\ \A j \in Issues : feature'[j] \subseteq Changes \ Asides
  BY <1>0, <1>3 DEF CreateBranch, CreateFails
<1>4. CASE BeginImplementing \/ ImplementSessionEnds \/ FeedbackSessionEnds
  BY <1>0, <1>1, <1>4 DEF BeginImplementing, ImplementSessionEnds, FeedbackSessionEnds
<1>5. CASE Raise \/ EndWave \/ Interrupt
  BY <1>0, <1>1, <1>5 DEF Raise, EndWave, Interrupt
<1>6. CASE SessionWrites
  <2>1. Change \in Changes \ Asides
    BY <1>0, <1>6, ChangeType DEF SessionWrites, IInv
  <2> QED BY <1>0, <1>6, <2>1 DEF SessionWrites
<1>7. CASE SessionCommits \/ Checkpoint
  <2>1. CommitAll /\ UNCHANGED <<strayed, unseen>>
    BY <1>0, <1>7 DEF SessionCommits, Checkpoint
  <2>2. stray' = {}
    BY <1>0, <1>1, <1>7 DEF SessionCommits, Checkpoint
  <2> QED BY <1>0, <2>1, <2>2 DEF CommitAll
<1>8. CASE GatesPass \/ GatesFail \/ BodySessionEnds \/ RequestChanges \/ Approve
  BY <1>0, <1>1, <1>8 DEF GatesPass, GatesFail, BodySessionEnds, RequestChanges, Approve
<1>9. CASE CheckoutAgent \/ Merge \/ MergeConflicts
  <2>1. pc = "onAgent" => cur \in Issues
    BY DEF IInv, TypeOK, Busy
  <2> QED BY <1>0, <1>9, <2>1 DEF CheckoutAgent, Merge, MergeConflicts
<1>10. CASE DeleteMergedBranch \/ MarkMerged
  BY <1>0, <1>10 DEF DeleteMergedBranch, DropBranch, MarkMerged
<1>11. CASE Escalate \/ DiscardCheckout \/ DiscardBranch
  BY <1>0, <1>11 DEF Escalate, DiscardCheckout, DiscardBranch, DropBranch
<1>12. CASE StrayWrites \/ StrayCommits
  BY <1>0, <1>12 DEF StrayWrites, StrayCommits
<1> QED
  BY <1>2, <1>3, <1>4, <1>5, <1>6, <1>7, <1>8, <1>9, <1>10, <1>11, <1>12 DEF Next, EngineStep

\* Nothing else adds to the agent branch.
LEMMA AgentStep ==
    ASSUME IInv, Next, ~ (Merge \/ StrayCommits)
    PROVE  agent' = agent
<1>1. CASE SessionCommits \/ Checkpoint
  <2>1. head = cur /\ cur \in Issues
    BY <1>1, ToolSteps DEF SessionCommits, Checkpoint, IInv, BranchInv, OnBranch, TypeOK, Busy
  <2> QED BY <1>1, <2>1 DEF SessionCommits, Checkpoint, CommitUnseen, CommitAll
<1>2. CASE ~ (SessionCommits \/ Checkpoint)
  BY <1>2
  DEF Next, EngineStep, BeginRun, CreateBranch, CreateFails, BeginImplementing, Raise,
      EndWave, SessionWrites, ImplementSessionEnds, GatesPass, GatesFail, BodySessionEnds,
      Approve, RequestChanges, FeedbackSessionEnds, CheckoutAgent, MergeConflicts,
      DeleteMergedBranch, MarkMerged, Escalate, DiscardCheckout, DiscardBranch, Interrupt,
      StrayWrites, git
<1> QED BY <1>1, <1>2

-----------------------------------------------------------------------------
(* The theorems.                                                            *)

\* The pipeline keeps its invariant through every interleaving of the engine,
\* a session, a left command and an interruption (engine/implement_loop.py,
\* engine/review_cycle.py).
THEOREM PipelineInvariant == Spec => []IInv
<1>1. Init => IInv
  <2> SUFFICES ASSUME Init PROVE IInv
    OBVIOUS
  <2>1. BranchInv /\ MarkerInv /\ LimitInv /\ BlockerInv /\ ContentInv /\ HeedingInv
    BY DEF Init, BranchInv, MarkerInv, LimitInv, CheckpointsCounted, BlockerInv, ContentInv,
           HeedingInv, OnBranch, Busy, AllowedTools, Unmarked
  <2> QED BY <2>1, InitType DEF IInv
<1>2. IInv /\ [Next]_vars => IInv'
  <2>1. ASSUME IInv, UNCHANGED vars PROVE IInv'
    BY <2>1 DEF vars, git, store, seen, locals, wave, strays, IInv, TypeOK, BranchInv, MarkerInv,
                LimitInv, CheckpointsCounted, BlockerInv, ContentInv, FeatureDiff, Earned,
                HeedingInv, Heeding
  <2>2. ASSUME IInv, Next PROVE IInv'
    BY <2>2, TypeStep, BranchStep, MarkerStep, LimitStep, BlockerStep, ContentStep,
       HeedingStep
    DEF IInv
  <2> QED BY <2>1, <2>2
<1> QED BY <1>1, <1>2, PTL DEF Spec

\* Every variable of the pipeline keeps its type: the limits bound the
\* counters (engine/implement_loop.py, engine/review_cycle.py).
THEOREM PipelineTypes == Spec => []TypeOK
  BY PipelineInvariant, PTL DEF IInv

\* A session that can write works on the branch of its own issue, whatever
\* earlier runs and left commands have done (FeatureBranch.create,
\* merge_into_agent and discard of git/feature_branch.py).
THEOREM SessionsStayOnTheirBranch == Spec => []SessionOnItsBranch
<1>1. IInv => SessionOnItsBranch
  BY ToolSteps DEF IInv, BranchInv, SessionOnItsBranch, Busy
<1> QED BY <1>1, PipelineInvariant, PTL

\* A parked issue has its blocker on record at every step at which the
\* process can die, and is never reported as completed (escalate of
\* engine/escalation.py).
THEOREM ParkingIsRecorded == Spec => []ParkedIsRecorded
<1>1. IInv => ParkedIsRecorded
  BY DEF IInv, BlockerInv, MarkerInv, TypeOK, ParkedIsRecorded
<1> QED BY <1>1, PipelineInvariant, PTL

\* The count of checkpoints in the database is that of the coroutine, and an
\* issue at its limit gets no further session (IssueMarker.write,
\* implement_and_gate).
THEOREM CheckpointsAreCounted == Spec => []CheckpointsCounted
  BY PipelineInvariant, PTL DEF IInv, LimitInv

\* No step but a merge and a left command adds to the agent branch, and a
\* merge adds what the reviewer was shown and the gates, or the reviewer, have
\* asked for, but for what left commands and sessions that were allowed no
\* tools have committed or made (merge_into_agent, review_and_merge,
\* _build_lockdown_cmd of providers/codex.py and providers/gemini.py).
THEOREM MergesAreEarned == Spec => MergeIsEarned
<1> DEFINE Shown == agent' \ agent \subseteq diff \union unseen'
           Asked == agent' \ agent \subseteq gated \union Issues \X {"feedback", "aside"}
                                                 \union strayed'
<1>1. ASSUME IInv, Next PROVE Shown /\ Asked
  <2>1. CASE Merge
    BY <1>1, <2>1 DEF Merge, IInv, ContentInv, Earned, FeatureDiff, strays, locals, seen
  <2>2. CASE StrayCommits
    BY <1>1, <2>2 DEF StrayCommits, CommitUnseen, CommitAll
  <2>3. CASE ~ (Merge \/ StrayCommits)
    BY <1>1, <2>3, AgentStep
  <2> QED BY <2>1, <2>2, <2>3
<1>2. IInv /\ [Next]_vars => [Shown /\ Asked]_vars
  BY <1>1
<1> QED BY <1>2, PipelineInvariant, PTL DEF Spec, MergeIsEarned

\* Whatever reaches the agent branch is in the approved diff, and passed the
\* gates or was asked for by a reviewer, without any exception.
StrictlyEarned ==
    [][agent' \ agent \subseteq diff \intersect (gated \union Issues \X {"feedback"})]_vars

\* With the Claude adapter, which offers the model only the allowed tools, and
\* as long as no command outlives its session, merges are earned without
\* exception (_build_tools of providers/claude.py, review_and_merge).
THEOREM HeedingMergesAreStrict ==
    ASSUME Adapter = "claude", Leaving = {}
    PROVE  Spec => StrictlyEarned
<1> DEFINE Strict == agent' \ agent \subseteq diff \intersect (gated \union Issues \X {"feedback"})
<1>1. ASSUME IInv, Next PROVE Strict
  <2>1. stray = {} /\ strayed = {} /\ unseen = {}
        /\ \A i \in Issues : feature[i] \intersect Asides = {}
    BY <1>1 DEF IInv, HeedingInv, Heeding
  <2>2. CASE Merge
    <3>1. cur \in Issues /\ pc = "onAgent" /\ agent' = agent \union feature[cur]
      BY <1>1, <2>2 DEF Merge, IInv, TypeOK, Busy
    <3>2. feature[cur] \subseteq Earned /\ feature[cur] \ agent \subseteq diff
      BY <1>1, <2>1, <3>1 DEF IInv, ContentInv, FeatureDiff
    <3>3. feature[cur] \subseteq gated \union Issues \X {"feedback"}
      BY <2>1, <3>1, <3>2 DEF Earned, Asides
    <3> QED BY <3>1, <3>2, <3>3
  <2>3. CASE StrayCommits
    BY <2>1, <2>3 DEF StrayCommits
  <2>4. CASE ~ (Merge \/ StrayCommits)
    BY <1>1, <2>4, AgentStep
  <2> QED BY <2>2, <2>3, <2>4
<1>2. IInv /\ [Next]_vars => [Strict]_vars
  BY <1>1
<1> QED BY <1>2, PipelineInvariant, PTL DEF Spec, StrictlyEarned

----------------------------------------------------------------------------
(* Committed work.                                                          *)

\* A branch that is gone has no changes, and the branch that is checked out is
\* there.
KeepInv ==
    /\ head \in branches \union {Agent}
    /\ \A i \in Issues \ branches : feature[i] = {}
    /\ pc \in {"onAgent", "merged", "deleted", "dropping"} => head = Agent

LEMMA KeepStep ==
    ASSUME IInv, KeepInv, Next
    PROVE  KeepInv'
<1> USE DEF KeepInv, Busy, AllowedTools, Leave, IssueEnds, Checkout,
            git, store, seen, locals, wave, strays
<1>0. /\ pc \in Busy => cur \in Issues /\ cur # Agent
      /\ branches \subseteq Issues /\ feature \in [Issues -> SUBSET Changes]
      /\ pc \in {"approved", "onAgent", "discarding"} => cur \in branches
      /\ pc \in OnBranch => head = cur
  BY DEF IInv, TypeOK, BranchInv, OnBranch
<1>1. CASE BeginRun
  BY <1>1 DEF BeginRun
<1>2. ASSUME NEW i \in Issues, CreateBranch(i) \/ CreateFails(i)
      PROVE  KeepInv'
  BY <1>0, <1>2 DEF CreateBranch, CreateFails
<1>3. CASE BeginImplementing \/ ImplementSessionEnds \/ FeedbackSessionEnds
  BY <1>0, <1>3 DEF BeginImplementing, ImplementSessionEnds, FeedbackSessionEnds
<1>4. CASE Raise \/ EndWave \/ Interrupt
  BY <1>0, <1>4 DEF Raise, EndWave, Interrupt
<1>5. CASE SessionWrites \/ StrayWrites
  BY <1>0, <1>5 DEF SessionWrites, StrayWrites
<1>6. ASSUME CommitAll, UNCHANGED <<head, branches>>
      PROVE  /\ head' \in branches' \union {Agent}
             /\ \A i \in Issues \ branches' : feature'[i] = {}
  <2>1. \A i \in Issues \ branches : i # head
    BY <1>0
  <2> QED BY <1>0, <1>6, <2>1 DEF CommitAll
<1>7. CASE SessionCommits \/ Checkpoint
  BY <1>6, <1>7, ToolSteps DEF SessionCommits, Checkpoint, CommitUnseen
<1>8. CASE StrayCommits
  BY <1>6, <1>8 DEF StrayCommits, CommitUnseen
<1>9. CASE GatesPass \/ GatesFail \/ BodySessionEnds \/ RequestChanges \/ Approve
  BY <1>0, <1>9 DEF GatesPass, GatesFail, BodySessionEnds, RequestChanges, Approve
<1>10. CASE CheckoutAgent \/ Merge \/ MergeConflicts
  BY <1>0, <1>10 DEF CheckoutAgent, Merge, MergeConflicts
<1>11. CASE DeleteMergedBranch \/ MarkMerged
  BY <1>0, <1>11 DEF DeleteMergedBranch, DropBranch, MarkMerged
<1>12. CASE Escalate \/ DiscardCheckout \/ DiscardBranch
  BY <1>0, <1>12 DEF Escalate, DiscardCheckout, DiscardBranch, DropBranch
<1> QED
  BY <1>1, <1>2, <1>3, <1>4, <1>5, <1>7, <1>8, <1>9, <1>10, <1>11, <1>12 DEF Next, EngineStep

LEMMA KeptStep ==
    ASSUME IInv, KeepInv, Next
    PROVE  \A i \in Issues \ blocked : feature[i] \subseteq feature'[i] \union agent
<1> USE DEF Busy, AllowedTools, Leave, IssueEnds, Checkout, git, store, locals, wave, strays
<1>0. feature \in [Issues -> SUBSET Changes] /\ (pc = "dropping" => cur \in blocked)
      /\ (pc \in Busy => cur \in Issues)
  BY DEF IInv, TypeOK, BlockerInv
<1>1. ASSUME UNCHANGED feature
      PROVE  \A i \in Issues \ blocked : feature[i] \subseteq feature'[i] \union agent
  BY <1>1
<1>2. CASE BeginRun \/ BeginImplementing \/ ImplementSessionEnds \/ FeedbackSessionEnds
           \/ Raise \/ EndWave \/ Interrupt \/ SessionWrites \/ StrayWrites
  BY <1>1, <1>2 DEF BeginRun, BeginImplementing, ImplementSessionEnds, FeedbackSessionEnds,
     Raise, EndWave, Interrupt, SessionWrites, StrayWrites
<1>3. ASSUME NEW i \in Issues, CreateBranch(i) \/ CreateFails(i)
      PROVE  \A j \in Issues \ blocked : feature[j] \subseteq feature'[j] \union agent
  BY <1>0, <1>1, <1>3 DEF CreateBranch, CreateFails, KeepInv
<1>4. CASE SessionCommits \/ Checkpoint \/ StrayCommits
  <2>1. CommitAll
    BY <1>4 DEF SessionCommits, Checkpoint, StrayCommits, CommitUnseen
  <2> QED BY <1>0, <2>1 DEF CommitAll
<1>5. CASE GatesPass \/ GatesFail \/ BodySessionEnds \/ RequestChanges \/ Approve
           \/ CheckoutAgent \/ Merge \/ MergeConflicts \/ MarkMerged \/ Escalate
           \/ DiscardCheckout
  BY <1>1, <1>5 DEF GatesPass, GatesFail, BodySessionEnds, RequestChanges, Approve,
     CheckoutAgent, Merge, MergeConflicts, MarkMerged, Escalate, DiscardCheckout
<1>6. CASE DeleteMergedBranch \/ DiscardBranch
  BY <1>0, <1>6 DEF DeleteMergedBranch, DiscardBranch, DropBranch, FeatureDiff
<1> QED BY <1>2, <1>3, <1>4, <1>5, <1>6 DEF Next, EngineStep

\* The marker says merged only once the branch is deleted, and with it no
\* commit is lost: the agent branch has them all, or the issue is parked and
\* not marked as merged (review_and_merge, git/feature_branch.py).
THEOREM MarkerFollowsTheMerge == Spec => MarkedMergedIsMerged
<1> DEFINE Gone == \A i \in Issues : marker[i].step = "merged" => i \notin branches \union blocked
           Kept == \A i \in Issues \ blocked : feature[i] \subseteq feature'[i] \union agent
<1>1. Init => KeepInv
  BY DEF Init, KeepInv
<1>2. IInv /\ KeepInv /\ [Next]_vars => KeepInv'
  <2> SUFFICES ASSUME IInv, KeepInv, UNCHANGED vars PROVE KeepInv'
    BY KeepStep
  <2> QED BY DEF KeepInv, vars, git, locals
<1>3. IInv /\ KeepInv /\ [Next]_vars => [Kept]_vars
  BY KeptStep
<1>4. IInv => Gone
  BY DEF IInv, MarkerInv
<1>5. Gone' = (\A i \in Issues : marker'[i].step = "merged" => i \notin branches' \union blocked')
  OBVIOUS
<1> HIDE DEF Kept
<1>6. Spec => []Gone /\ [][Kept]_vars
  BY <1>1, <1>2, <1>3, <1>4, PipelineInvariant, PTL DEF Spec
<1>7. [Gone' /\ Kept]_vars <=> [/\ \A i \in Issues : marker'[i].step = "merged" =>
                                        i \notin branches' \union blocked'
                               /\ \A i \in Issues \ blocked :
                                      feature[i] \subseteq feature'[i] \union agent]_vars
  BY <1>5 DEF Kept
<1> QED BY <1>6, <1>7, PTL DEF MarkedMergedIsMerged

----------------------------------------------------------------------------
(* What is left of a wave.                                                  *)

Waiting == {i \in Issues : result[i] = "waiting"}

\* Where the issue at work stands, the tries it has left there, and what comes
\* before the next try.
Stage == CASE pc = "idle" -> 6
           [] pc = "created" -> 5
           [] pc \in {"implementing", "gating"} -> 4
           [] pc = "describing" -> 3
           [] pc \in {"reviewing", "feedback"} -> 2
           [] pc = "off" -> 0
           [] OTHER -> 1

Tries == CASE pc \in {"implementing", "gating"} -> fixes
           [] pc \in {"reviewing", "feedback"} -> cycles
           [] OTHER -> 0

Rest == CASE pc = "implementing" -> MaxCheckpoints - checkpoints + 1
          [] pc \in {"approved", "stuck", "rejected"} -> 4
          [] pc \in {"onAgent", "discarding"} -> 3
          [] pc \in {"merged", "dropping"} -> 2
          [] pc \in {"feedback", "deleted"} -> 1
          [] OTHER -> 0

WaveLeft == <<Cardinality(Waiting), Stage, Tries, Rest>>

Lower(s, t) == \E i \in 1..4 : s[i] < t[i] /\ \A j \in 1..i - 1 : s[j] = t[j]

\* Each step of the engine brings the wave nearer to its end: it leaves fewer
\* issues, or the issue at work further on, or fewer fix attempts or review
\* cycles, or fewer checkpoints; and neither what a session writes or commits
\* in between nor a left command gives it any of them back (implement_and_gate,
\* review_and_merge).
WaveAdvances ==
    [][/\ EngineStep => Lower(WaveLeft', WaveLeft)
       /\ SessionWrites \/ SessionCommits \/ StrayWrites \/ StrayCommits =>
              WaveLeft' = WaveLeft]_vars

LEMMA WaitingIsFinite ==
    IsFiniteSet(Waiting) /\ Cardinality(Waiting) \in Nat
<1>1. Waiting \in SUBSET Issues
  BY DEF Waiting
<1> QED BY <1>1, FS_Subset, FS_CardinalityType

LEMMA WaveLeftType ==
    ASSUME IInv
    PROVE  WaveLeft \in Nat \X Nat \X Nat \X Nat
<1>1. fixes \in Nat /\ cycles \in Nat /\ checkpoints \in 0..MaxCheckpoints
  BY LimitsArePositive DEF IInv, TypeOK
<1>2. Tries \in Nat
  BY <1>1 DEF Tries
<1>3. Rest \in Nat
  BY <1>1, LimitsArePositive DEF Rest
<1>4. Stage \in Nat
  BY DEF Stage
<1> QED BY <1>2, <1>3, <1>4, WaitingIsFinite DEF WaveLeft

\* The end of an issue leaves one fewer.
LEMMA EndLowers ==
    ASSUME IInv, NEW i \in Issues, result[i] = "waiting", NEW v \in {"merged", "parked", "raised"},
           result' = [result EXCEPT ![i] = v]
    PROVE  Lower(WaveLeft', WaveLeft)
<1> DEFINE after == {j \in Issues : result'[j] = "waiting"}
<1>1. after \in SUBSET Waiting /\ after # Waiting
  <2>1. result \in [Issues -> {"waiting", "merged", "parked", "raised"}]
    BY DEF IInv, TypeOK
  <2> QED BY <2>1 DEF Waiting
<1>2. Waiting' = after
  BY DEF Waiting
<1> HIDE DEF after
<1>3. IsFiniteSet(after) /\ Cardinality(after) <= Cardinality(Waiting)
      /\ Cardinality(after) # Cardinality(Waiting)
  BY <1>1, WaitingIsFinite, FS_Subset
<1>4. Cardinality(after) < Cardinality(Waiting)
  BY <1>3, WaitingIsFinite, FS_CardinalityType
<1>5. WaveLeft'[1] < WaveLeft[1]
  BY <1>2, <1>4 DEF WaveLeft
<1> QED BY <1>5 DEF Lower

\* A step within an issue.
LEMMA StepLowers ==
    ASSUME UNCHANGED result,
           \/ Stage' < Stage
           \/ Stage' = Stage /\ Tries' < Tries
           \/ Stage' = Stage /\ Tries' = Tries /\ Rest' < Rest
    PROVE  Lower(WaveLeft', WaveLeft)
<1>1. WaveLeft[1] = WaveLeft'[1]
  BY DEF WaveLeft, Waiting
<1>2. /\ WaveLeft[2] = Stage /\ WaveLeft[3] = Tries /\ WaveLeft[4] = Rest
      /\ WaveLeft'[2] = Stage' /\ WaveLeft'[3] = Tries' /\ WaveLeft'[4] = Rest'
  BY DEF WaveLeft
<1> QED BY <1>1, <1>2 DEF Lower

LEMMA EngineLowers ==
    ASSUME IInv, EngineStep
    PROVE  Lower(WaveLeft', WaveLeft)
<1> USE DEF Leave, IssueEnds, git, store, seen, locals, wave, strays
<1>0. /\ pc \in Busy => cur \in Issues /\ result[cur] = "waiting"
      /\ fixes \in Nat /\ cycles \in Nat /\ checkpoints \in Nat
  BY LimitsArePositive DEF IInv, TypeOK, MarkerInv
<1>1. ASSUME NEW i \in Issues, CreateBranch(i) PROVE Lower(WaveLeft', WaveLeft)
  BY <1>1, StepLowers DEF CreateBranch, Stage
<1>2. ASSUME NEW i \in Issues, CreateFails(i) PROVE Lower(WaveLeft', WaveLeft)
  BY <1>2, EndLowers DEF CreateFails
<1>3. CASE BeginImplementing
  BY <1>3, StepLowers DEF BeginImplementing, Stage
<1>4. CASE Checkpoint
  <2>1. pc = "implementing" /\ checkpoints' = checkpoints + 1 /\ UNCHANGED <<fixes, result>>
        /\ pc' \in {"implementing", "stuck"}
    BY <1>4 DEF Checkpoint
  <2>2. CASE pc' = "stuck"
    BY <2>1, <2>2, StepLowers DEF Stage
  <2>3. CASE pc' = "implementing"
    <3>1. Stage' = Stage /\ Tries' = Tries
      BY <2>1, <2>3 DEF Stage, Tries
    <3>2. /\ Rest = MaxCheckpoints - checkpoints + 1
          /\ Rest' = MaxCheckpoints - (checkpoints + 1) + 1
      BY <2>1, <2>3 DEF Rest
    <3>3. Rest' < Rest
      BY <1>0, <3>2, LimitsArePositive
    <3> QED BY <2>1, <3>1, <3>3, StepLowers
  <2> QED BY <2>1, <2>2, <2>3
<1>5. CASE ImplementSessionEnds
  <2>1. pc = "implementing" /\ pc' = "gating" /\ UNCHANGED <<fixes, result>>
    BY <1>5 DEF ImplementSessionEnds
  <2>2. Stage' = Stage /\ Tries' = Tries /\ Rest' = 0 /\ Rest = MaxCheckpoints - checkpoints + 1
    BY <2>1 DEF Stage, Tries, Rest
  <2>3. checkpoints <= MaxCheckpoints
    BY LimitsArePositive DEF IInv, TypeOK
  <2>4. Rest' < Rest
    BY <1>0, <2>2, <2>3, LimitsArePositive
  <2> QED BY <2>1, <2>2, <2>4, StepLowers
<1>6. CASE GatesPass \/ BodySessionEnds \/ Approve
  BY <1>6, StepLowers DEF GatesPass, BodySessionEnds, Approve, Stage
<1>7. CASE GatesFail
  <2>1. pc = "gating" /\ fixes' = fixes - 1 /\ pc' \in {"stuck", "implementing"} /\ UNCHANGED result
    BY <1>7 DEF GatesFail
  <2>2. CASE pc' = "stuck"
    BY <2>1, <2>2, StepLowers DEF Stage
  <2>3. CASE pc' = "implementing"
    <3>1. Stage' = Stage /\ Tries = fixes /\ Tries' = fixes'
      BY <2>1, <2>3 DEF Stage, Tries
    <3> QED BY <1>0, <2>1, <3>1, StepLowers
  <2> QED BY <2>1, <2>2, <2>3
<1>8. CASE RequestChanges
  <2>1. /\ pc = "reviewing" /\ cycles' = cycles - 1 /\ pc' \in {"rejected", "feedback"}
        /\ UNCHANGED result
    BY <1>8 DEF RequestChanges
  <2>2. CASE pc' = "rejected"
    BY <2>1, <2>2, StepLowers DEF Stage
  <2>3. CASE pc' = "feedback"
    <3>1. Stage' = Stage /\ Tries = cycles /\ Tries' = cycles'
      BY <2>1, <2>3 DEF Stage, Tries
    <3> QED BY <1>0, <2>1, <3>1, StepLowers
  <2> QED BY <2>1, <2>2, <2>3
<1>9. CASE FeedbackSessionEnds
  <2>1. pc = "feedback" /\ pc' = "reviewing" /\ UNCHANGED <<cycles, result>>
    BY <1>9 DEF FeedbackSessionEnds
  <2>2. Stage' = Stage /\ Tries' = Tries /\ Rest' < Rest
    BY <2>1 DEF Stage, Tries, Rest
  <2> QED BY <2>1, <2>2, StepLowers
<1>10. CASE CheckoutAgent \/ Merge \/ DeleteMergedBranch \/ DiscardCheckout
  <2>1. UNCHANGED result /\ Stage' = Stage /\ Tries' = Tries /\ Rest' < Rest
    BY <1>10 DEF CheckoutAgent, Merge, DeleteMergedBranch, DiscardCheckout, Stage, Tries, Rest
  <2> QED BY <2>1, StepLowers
<1>11. CASE Escalate
  <2>1. CASE pc' = "discarding"
    <3>1. UNCHANGED result /\ Stage' = Stage /\ Tries' = Tries /\ Rest' < Rest
      BY <1>11, <2>1 DEF Escalate, Stage, Tries, Rest
    <3> QED BY <3>1, StepLowers
  <2>2. CASE pc = "rejected" /\ IssueEnds("parked")
    BY <1>0, <2>2, EndLowers DEF Busy
  <2> QED BY <1>11, <2>1, <2>2 DEF Escalate
<1>12. CASE MergeConflicts \/ MarkMerged \/ DiscardBranch \/ Raise
  <2>1. /\ pc \in Busy
        /\ \E v \in {"merged", "parked", "raised"} : result' = [result EXCEPT ![cur] = v]
    BY <1>12 DEF MergeConflicts, MarkMerged, DiscardBranch, Raise, Busy
  <2> QED BY <1>0, <2>1, EndLowers
<1>13. CASE EndWave
  BY <1>13, StepLowers DEF EndWave, Stage
<1> QED
  BY <1>1, <1>2, <1>3, <1>4, <1>5, <1>6, <1>7, <1>8, <1>9, <1>10, <1>11, <1>12, <1>13
  DEF EngineStep

\* The limits bound a wave: what its steps lower consists of naturals, so that
\* it ends if the event loop, the gates and the sessions go on
\* (engine/implement_loop.py, engine/review_cycle.py).
THEOREM WaveAlwaysAdvances == Spec => [](WaveLeft \in Nat \X Nat \X Nat \X Nat) /\ WaveAdvances
<1> DEFINE Step == /\ EngineStep => Lower(WaveLeft', WaveLeft)
                   /\ SessionWrites \/ SessionCommits \/ StrayWrites \/ StrayCommits =>
                          WaveLeft' = WaveLeft
<1>1. IInv => WaveLeft \in Nat \X Nat \X Nat \X Nat
  BY WaveLeftType
<1>2. IInv => Step
  <2>1. ASSUME SessionWrites \/ SessionCommits \/ StrayWrites \/ StrayCommits
        PROVE  WaveLeft' = WaveLeft
    <3>1. UNCHANGED <<pc, fixes, cycles, checkpoints, result>>
      BY <2>1 DEF SessionWrites, SessionCommits, StrayWrites, StrayCommits, locals, wave
    <3> QED BY <3>1 DEF WaveLeft, Waiting, Stage, Tries, Rest
  <2> QED BY <2>1, EngineLowers
<1> QED BY <1>1, <1>2, PipelineInvariant, PTL DEF WaveAdvances
=============================================================================
