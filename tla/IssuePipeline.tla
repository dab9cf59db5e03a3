---------------------------- MODULE IssuePipeline ----------------------------
(***************************************************************************)
(* What the engine does to one repository: execute_issue of                *)
(* engine/wave_driver.py with implement_and_gate, review_and_merge and     *)
(* FeatureBranch, one issue at a time (WaveScheduler), through interrupted *)
(* runs and the runs that are started after them.                          *)
(*                                                                         *)
(* A session is the only await; an engine step runs from one call that     *)
(* touches git, the markers or the blockers to the next.  Content is the   *)
(* set of the changes that sessions have made.  A session works through    *)
(* commands, or is a program of its own, and what it started may outlive   *)
(* it; it is taken to stay in its repository and on the branch it finds.   *)
(* Which sessions can change anything is up to the adapter: with Codex     *)
(* and Gemini those that were allowed no tools can as well.                *)
(***************************************************************************)
EXTENDS FiniteSets, Naturals

CONSTANTS
    Issues,             \* the issues of the wave in this repository
    Agent,              \* the agent branch, as a value of head
    NoIssue,            \* the value of cur while no issue is at work
    FixAttempts,        \* limits.test_fix_attempts
    MaxCheckpoints,     \* max_checkpoints
    ReviewCycles,       \* limits.review_cycles
    Adapter,            \* the ProviderAdapter that runs the sessions
    MaxRuns,            \* bound on the runs a behaviour starts
    MaxUnasked,         \* bound on the changes that nobody asked for
    Leaving             \* bound: the sessions of which a left command is followed

ASSUME IssuesAssumption == 
    IsFiniteSet(Issues) /\ Issues # {} /\ Agent \notin Issues /\ NoIssue \notin Issues
ASSUME LimitsAssumption ==
    /\ {FixAttempts, MaxCheckpoints, ReviewCycles, MaxRuns} \subseteq Nat \ {0}
    /\ Adapter \in {"claude", "gemini", "codex"}
    /\ MaxUnasked \in Nat

VARIABLES
    \* the repository
    head,           \* the branch that is checked out
    agent,          \* the changes committed on the agent branch
    branches,       \* the issues that have a feature branch
    feature,        \* the changes committed on each feature branch
    tree,           \* the uncommitted changes
    \* the database, for the current run
    marker,         \* last_step and checkpoint_count of each issue
    blocked,        \* the issues with a parked blocker, also the list parked
    \* the process
    pc,             \* the step to be taken next, "off" when no wave runs
    cur,            \* the issue at work
    fixes,          \* fix_attempts_remaining
    checkpoints,    \* checkpoint_count
    cycles,         \* cycles_remaining
    diff,           \* diff, as it was shown to the reviewer
    \* history, no variables of the code
    gated,          \* the content the gates passed on
    unseen,         \* what was committed after diff, but not for the engine
    result,         \* what has become of each issue in this run
    report,         \* the issues a finished wave reports as completed
    run,            \* how many runs have been started
    \* outside the process
    stray,          \* the change a command makes that outlives its session
    strayed         \* the changes such commands have written or committed

git == <<head, agent, branches, feature, tree>>
store == <<marker, blocked>>
seen == <<diff, gated, unseen>>
locals == <<cur, fixes, checkpoints, cycles, seen>>
wave == <<result, report, run>>
strays == <<stray, strayed>>
vars == <<git, store, pc, locals, wave, strays>>

\* The sessions with tools, and those that have them although allowed_tools
\* is empty: the Codex adapter looks at neither the tools nor the role, and
\* Gemini only gives the reviewer, an orchestrator, a read-only sandbox.
AllowedTools == {"implementing", "feedback"}

Unrestrained ==
    CASE Adapter = "claude" -> {}
      [] Adapter = "gemini" -> {"describing"}
      [] Adapter = "codex" -> {"describing", "reviewing"}

ToolSessions == AllowedTools \union Unrestrained

\* The kinds of changes: an aside is one by a session that was to make none.
Kinds == {"work", "feedback", "aside"}

Changes == Issues \X Kinds

Asides == Issues \X {"aside"}

\* The changes there are that nobody asked for.
Unasked == stray \union strayed
    \union (Asides \intersect (agent \union tree \union UNION {feature[i] : i \in Issues}))

Steps == {"none", "implementing", "test_gate", "internal_pr", "review", "merged"}

Busy == AllowedTools \union
    {"created", "gating", "describing", "reviewing", "approved", "onAgent",
     "merged", "deleted", "stuck", "rejected", "discarding", "dropping"}

Unmarked == [i \in Issues |-> [step |-> "none", count |-> 0]]

Init ==
    /\ head = Agent
    /\ agent = {}
    /\ branches = {}
    /\ feature = [i \in Issues |-> {}]
    /\ tree = {}
    /\ marker = Unmarked
    /\ blocked = {}
    /\ pc = "off"
    /\ cur = NoIssue
    /\ fixes = 0 /\ checkpoints = 0 /\ cycles = 0
    /\ diff = {} /\ gated = {} /\ unseen = {}
    /\ result = [i \in Issues |-> "waiting"]
    /\ report = {}
    /\ run = 0
    /\ stray = {} /\ strayed = {}

-----------------------------------------------------------------------------
(* Git and the store *)

\* git checkout: uncommitted changes are carried along.
Checkout(b) == head' = b

\* Unless they are in its way: git refuses to leave the branch.
MayRefuse == tree # {} /\ head # Agent

\* git commit of all there is, on the branch that is checked out.
CommitAll ==
    /\ agent' = IF head = Agent THEN agent \union tree ELSE agent
    /\ feature' = [i \in Issues |-> IF i = head THEN feature[i] \union tree
                                    ELSE feature[i]]
    /\ tree' = {}

\* Mutant: the column is reset to its default.
MarkStepAnew(step) == marker' = [marker EXCEPT ![cur] = [step |-> step, count |-> 0]]

\* IssueMarker.write: without a count the column keeps its value.
MarkStep(step) == marker' = [marker EXCEPT ![cur].step = step]

MarkImplementing(count) ==
    marker' = [marker EXCEPT ![cur] = [step |-> "implementing", count |-> count]]

\* FeatureBranch.diff, three-dot: what the feature branch adds.
FeatureDiff == feature[cur] \ agent

\* The branch of the issue at work is deleted.
DropBranch ==
    /\ branches' = branches \ {cur}
    /\ feature' = [feature EXCEPT ![cur] = {}]

\* The change that the session at work makes.
Change == <<cur, CASE pc = "implementing" -> "work"
                   [] pc = "feedback" -> "feedback"
                   [] OTHER -> "aside">>

\* A commit by one that the diff is not shown for.
CommitUnseen == CommitAll /\ unseen' = unseen \union tree

\* A session that ends without the answer to its last command, because the
\* call to the agent-runner failed or the session is no more, leaves it
\* executing; a cancelled Codex or Gemini session runs on by itself.  A
\* behaviour follows one of them, for the one thing it does.
MayLeaveCommand ==
    \/ UNCHANGED stray
    \/ pc \in ToolSessions \intersect Leaving /\ stray = {} /\ Cardinality(Unasked) < MaxUnasked
       /\ stray' = {Change}

\* The coroutine of the issue at work is gone, and its variables with it.
Leave(next) ==
    /\ pc' = next
    /\ cur' = NoIssue
    /\ fixes' = 0 /\ checkpoints' = 0 /\ cycles' = 0
    /\ diff' = {} /\ gated' = {} /\ unseen' = {}

IssueEnds(verdict) ==
    /\ Leave("idle")
    /\ result' = [result EXCEPT ![cur] = verdict]

-----------------------------------------------------------------------------
(* A run *)

\* A new run id, so no marker and no blocker, and create_or_reuse checks out
\* the agent branch, which uncommitted changes may prevent: run_wave raises.
BeginRun ==
    /\ pc = "off"
    /\ run < MaxRuns
    /\ run' = run + 1
    /\ marker' = Unmarked
    /\ blocked' = {}
    /\ result' = [i \in Issues |-> "waiting"]
    /\ report' = {}
    /\ \/ Checkout(Agent) /\ pc' = "idle"
       \/ MayRefuse /\ UNCHANGED <<head, pc>>
    /\ UNCHANGED <<agent, branches, feature, tree, locals, strays>>

\* Mutant: git branch in place of git checkout -b.
CreateBranchOnly(i) ==
    /\ pc = "idle"
    /\ result[i] = "waiting"
    /\ i \notin branches
    /\ branches' = branches \union {i}
    /\ feature' = [feature EXCEPT ![i] = agent]
    /\ pc' = "created"
    /\ cur' = i
    /\ UNCHANGED <<head, agent, tree, store, fixes, checkpoints, cycles, seen, wave, strays>>

\* FeatureBranch.create: checkout -b from the agent branch.
CreateBranch(i) ==
    /\ pc = "idle"
    /\ result[i] = "waiting"
    /\ i \notin branches
    /\ Checkout(i)
    /\ branches' = branches \union {i}
    /\ feature' = [feature EXCEPT ![i] = agent]
    /\ pc' = "created"
    /\ cur' = i
    /\ UNCHANGED <<agent, tree, store, fixes, checkpoints, cycles, seen, wave, strays>>

\* It fails if the branch is there, and may where checkout of the agent
\* branch may.
CreateFails(i) ==
    /\ pc = "idle"
    /\ result[i] = "waiting"
    /\ i \in branches \/ MayRefuse
    /\ result' = [result EXCEPT ![i] = "raised"]
    /\ UNCHANGED <<git, store, pc, locals, report, run, strays>>

BeginImplementing ==
    /\ pc = "created"
    /\ pc' = "implementing"
    /\ fixes' = FixAttempts
    /\ checkpoints' = marker[cur].count
    /\ MarkImplementing(marker[cur].count)
    /\ UNCHANGED <<git, blocked, cur, cycles, seen, wave, strays>>

\* An exception at any step is the end of the issue: nothing handles it.
Raise ==
    /\ pc \in Busy
    /\ IssueEnds("raised")
    /\ UNCHANGED <<git, store, report, run, strays>>

\* Every issue has had its turn.  After an exception run_wave knows of no
\* issue that was completed.
EndWave ==
    /\ pc = "idle"
    /\ \A i \in Issues : result[i] # "waiting"
    /\ pc' = "off"
    /\ report' = IF \E i \in Issues : result[i] = "raised" THEN {}
                 ELSE {i \in Issues : result[i] = "merged"}
    /\ UNCHANGED <<git, store, locals, result, run, strays>>

-----------------------------------------------------------------------------
(* implement_and_gate *)

\* A session with tools edits files and, if it likes, commits.
SessionWrites ==
    /\ pc \in ToolSessions
    /\ Change \notin tree \union feature[cur]
    /\ pc \in Unrestrained => Cardinality(Unasked) < MaxUnasked
    /\ tree' = tree \union {Change}
    /\ UNCHANGED <<head, agent, branches, feature, store, pc, locals, wave, strays>>

SessionCommits ==
    /\ pc \in ToolSessions
    /\ tree # {}
    /\ IF pc \in AllowedTools THEN CommitAll /\ UNCHANGED unseen ELSE CommitUnseen
    /\ UNCHANGED <<head, branches, store, pc, cur, fixes, checkpoints, cycles, diff, gated,
                   wave, strays>>

\* The session took 30 minutes: its work is committed; the third time over
\* the issue is parked as stuck.
Checkpoint ==
    /\ pc = "implementing"
    /\ CommitAll
    /\ checkpoints' = checkpoints + 1
    /\ MarkImplementing(checkpoints + 1)
    /\ pc' = IF checkpoints + 1 >= MaxCheckpoints THEN "stuck" ELSE pc
    /\ MayLeaveCommand
    /\ UNCHANGED <<head, branches, blocked, cur, fixes, cycles, seen, wave, strayed>>

ImplementSessionEnds ==
    /\ pc = "implementing"
    /\ pc' = "gating"
    /\ MarkStep("test_gate")
    /\ MayLeaveCommand
    /\ UNCHANGED <<git, blocked, locals, wave, strayed>>

\* The gates run on the working tree; review_and_merge starts at once.
GatesPass ==
    /\ pc = "gating"
    /\ pc' = "describing"
    /\ gated' = feature[cur] \union tree
    /\ diff' = FeatureDiff
    /\ unseen' = {}
    /\ MarkStep("internal_pr")
    /\ UNCHANGED <<git, blocked, cur, fixes, checkpoints, cycles, wave, strays>>

\* Mutant: one fix attempt too many.
GatesFailOnceMore ==
    /\ pc = "gating"
    /\ fixes' = fixes - 1
    /\ IF fixes - 1 < 0
       THEN pc' = "stuck" /\ UNCHANGED marker
       ELSE pc' = "implementing" /\ MarkImplementing(checkpoints)
    /\ UNCHANGED <<git, blocked, cur, checkpoints, cycles, seen, wave, strays>>

GatesFail ==
    /\ pc = "gating"
    /\ fixes' = fixes - 1
    /\ IF fixes - 1 <= 0
       THEN pc' = "stuck" /\ UNCHANGED marker
       ELSE pc' = "implementing" /\ MarkImplementing(checkpoints)
    /\ UNCHANGED <<git, blocked, cur, checkpoints, cycles, seen, wave, strays>>

-----------------------------------------------------------------------------
(* review_and_merge: only the feedback session is given tools *)

BodySessionEnds ==
    /\ pc = "describing"
    /\ pc' = "reviewing"
    /\ cycles' = ReviewCycles
    /\ MarkStep("review")
    /\ MayLeaveCommand
    /\ UNCHANGED <<git, blocked, cur, fixes, checkpoints, seen, wave, strayed>>

Approve ==
    /\ pc = "reviewing"
    /\ pc' = "approved"
    /\ MayLeaveCommand
    /\ UNCHANGED <<git, store, locals, wave, strayed>>

\* Mutant: review cycles are not counted.
RequestChangesAgain ==
    /\ pc = "reviewing"
    /\ pc' = "feedback"
    /\ MarkStep("implementing")
    /\ UNCHANGED <<git, blocked, locals, wave, strays>>

RequestChanges ==
    /\ pc = "reviewing"
    /\ cycles' = cycles - 1
    /\ IF cycles - 1 <= 0
       THEN pc' = "rejected" /\ UNCHANGED marker
       ELSE pc' = "feedback" /\ MarkStep("implementing")
    /\ MayLeaveCommand
    /\ UNCHANGED <<git, blocked, cur, fixes, checkpoints, seen, wave, strayed>>

\* Mutant: the reviewer is shown the diff of the round before.
FeedbackWithoutDiff ==
    /\ pc = "feedback"
    /\ pc' = "reviewing"
    /\ MarkStep("review")
    /\ MayLeaveCommand
    /\ UNCHANGED <<git, blocked, locals, wave, strayed>>

\* The gates are not run again.
FeedbackSessionEnds ==
    /\ pc = "feedback"
    /\ pc' = "reviewing"
    /\ diff' = FeatureDiff
    /\ unseen' = {}
    /\ MarkStep("review")
    /\ MayLeaveCommand
    /\ UNCHANGED <<git, blocked, cur, fixes, checkpoints, cycles, gated, wave, strayed>>

\* Mutant: discard in place of merge_into_agent.
DiscardApproved ==
    /\ pc = "approved"
    /\ pc' = "deleted"
    /\ Checkout(Agent)
    /\ DropBranch
    /\ UNCHANGED <<agent, tree, store, locals, wave, strays>>

\* merge_into_agent, whose lock in the MergeQueue is free: no other issue of
\* this repository is at work.
CheckoutAgent ==
    /\ pc = "approved"
    /\ pc' = "onAgent"
    /\ Checkout(Agent)
    /\ UNCHANGED <<agent, branches, feature, tree, store, locals, wave, strays>>

\* Mutant: the marker is written before the branch is gone.
MergeAndMark ==
    /\ pc = "onAgent"
    /\ pc' = "merged"
    /\ agent' = agent \union feature[cur]
    /\ MarkStep("merged")
    /\ UNCHANGED <<head, branches, feature, tree, blocked, locals, wave, strays>>

Merge ==
    /\ pc = "onAgent"
    /\ pc' = "merged"
    /\ agent' = agent \union feature[cur]
    /\ UNCHANGED <<head, branches, feature, tree, store, locals, wave, strays>>

\* Only branches that have both moved since they parted can conflict.
MergeConflicts ==
    /\ pc = "onAgent"
    /\ ~ agent \subseteq feature[cur]
    /\ FeatureDiff # {}
    /\ Checkout(cur)
    /\ IssueEnds("raised")
    /\ UNCHANGED <<agent, branches, feature, tree, store, report, run, strays>>

\* git branch -d, which refuses a branch that the agent branch does not have.
DeleteMergedBranch ==
    /\ pc = "merged"
    /\ FeatureDiff = {}
    /\ pc' = "deleted"
    /\ DropBranch
    /\ UNCHANGED <<head, agent, tree, store, locals, wave, strays>>

MarkMerged ==
    /\ pc = "deleted"
    /\ MarkStep("merged")
    /\ IssueEnds("merged")
    /\ UNCHANGED <<git, blocked, report, run, strays>>

-----------------------------------------------------------------------------
(* Parking: escalate, and discard for an issue that never came to review *)

\* Mutant: no blocker for an issue that the reviewer rejects.
EscalateStuck ==
    /\ pc \in {"stuck", "rejected"}
    /\ \/ /\ pc = "stuck"
          /\ pc' = "discarding"
          /\ blocked' = blocked \union {cur}
          /\ UNCHANGED <<locals, result>>
       \/ pc = "rejected" /\ IssueEnds("parked") /\ UNCHANGED blocked
    /\ UNCHANGED <<git, marker, report, run, strays>>

Escalate ==
    /\ pc \in {"stuck", "rejected"}
    /\ blocked' = blocked \union {cur}
    /\ \/ pc = "stuck" /\ pc' = "discarding" /\ UNCHANGED <<locals, result>>
       \/ pc = "rejected" /\ IssueEnds("parked")
    /\ UNCHANGED <<git, marker, report, run, strays>>

DiscardCheckout ==
    /\ pc = "discarding"
    /\ pc' = "dropping"
    /\ Checkout(Agent)
    /\ UNCHANGED <<agent, branches, feature, tree, store, locals, wave, strays>>

DiscardBranch ==
    /\ pc = "dropping"
    /\ DropBranch
    /\ IssueEnds("parked")
    /\ UNCHANGED <<head, agent, tree, store, report, run, strays>>

-----------------------------------------------------------------------------
(* Interruption *)

\* The process dies, at any step, or the run is stopped, at an await.
Interrupt ==
    /\ pc # "off"
    /\ Leave("off")
    /\ result' = [i \in Issues |-> "waiting"]
    /\ MayLeaveCommand
    /\ UNCHANGED <<git, store, report, run, strayed>>

\* The left command acts on whatever branch is checked out by then.
StrayWrites ==
    /\ stray # {}
    /\ stray' = {}
    /\ tree' = tree \union stray
    /\ strayed' = strayed \union stray
    /\ UNCHANGED <<head, agent, branches, feature, store, pc, locals, wave>>

StrayCommits ==
    /\ stray # {}
    /\ tree # {}
    /\ stray' = {}
    /\ CommitUnseen
    /\ strayed' = strayed \union tree
    /\ UNCHANGED <<head, branches, store, pc, cur, fixes, checkpoints, cycles, diff, gated,
                   wave>>

\* What the engine does with every wave it has begun.
EngineStep ==
    \/ \E i \in Issues : CreateBranch(i) \/ CreateFails(i)
    \/ BeginImplementing \/ Checkpoint \/ ImplementSessionEnds
    \/ GatesPass \/ GatesFail
    \/ BodySessionEnds \/ Approve \/ RequestChanges \/ FeedbackSessionEnds
    \/ CheckoutAgent \/ Merge \/ MergeConflicts \/ DeleteMergedBranch \/ MarkMerged
    \/ Escalate \/ DiscardCheckout \/ DiscardBranch
    \/ Raise \/ EndWave

Next ==
    \/ BeginRun
    \/ EngineStep
    \/ SessionWrites \/ SessionCommits
    \/ Interrupt
    \/ StrayWrites \/ StrayCommits

Spec == Init /\ [][Next]_vars

\* The event loop goes on, gates time out, and a session comes to its end.
FairSpec == Spec /\ WF_vars(EngineStep)

-----------------------------------------------------------------------------
(* Properties *)

\* Every variable keeps to its values.
TypeOK ==
    /\ head \in Issues \union {Agent}
    /\ agent \subseteq Changes
    /\ branches \subseteq Issues
    /\ feature \in [Issues -> SUBSET Changes]
    /\ tree \subseteq Changes
    /\ marker \in [Issues -> [step : Steps, count : 0..MaxCheckpoints]]
    /\ blocked \subseteq Issues
    /\ pc \in Busy \union {"off", "idle"}
    /\ cur \in IF pc \in Busy THEN Issues ELSE {NoIssue}
    /\ fixes \in 0..FixAttempts
    /\ checkpoints \in 0..MaxCheckpoints
    /\ cycles \in 0..ReviewCycles
    /\ diff \subseteq Changes
    /\ gated \subseteq Changes
    /\ unseen \subseteq Changes
    /\ result \in [Issues -> {"waiting", "merged", "parked", "raised"}]
    /\ report \subseteq Issues
    /\ run \in 0..MaxRuns
    /\ stray \subseteq Changes
    /\ strayed \subseteq Changes

\* Whatever the runs before it have left behind, a session that can write
\* finds the branch of its own issue checked out, so nothing it commits
\* lands on the agent branch or with another issue.
SessionOnItsBranch == pc \in ToolSessions => head = cur /\ cur \in branches

\* What reaches the agent branch was shown in the diff that the reviewer
\* approved, or committed since by a left command or a session that was
\* allowed no tools, and it was there when the gates passed, or a reviewer
\* asked for it, or such a command or session made it.
MergeIsEarned ==
    [][/\ agent' \ agent \subseteq diff \union unseen'
       /\ agent' \ agent \subseteq gated \union Issues \X {"feedback", "aside"}
                                        \union strayed']_vars

\* A parked issue has its blocker on record whenever the process dies, and
\* no issue is both parked and merged.
ParkedIsRecorded ==
    \A i \in Issues : /\ result[i] = "parked" => i \in blocked
                      /\ i \in blocked => result[i] # "merged" /\ i \notin report

\* The marker of an issue says merged only when its branch is gone, and gone
\* with no commit lost: what is committed for an issue stays on its branch
\* until the agent branch has it, unless the issue is parked with a blocker
\* on record, and one of those is never marked as merged.
MarkedMergedIsMerged ==
    [][/\ \A i \in Issues : marker'[i].step = "merged" => i \notin branches' \union blocked'
       /\ \A i \in Issues \ blocked : feature[i] \subseteq feature'[i] \union agent]_vars

\* The marker keeps the number of checkpoints through every other write, and
\* an issue that has used them up gets no further session.
CheckpointsCounted ==
    pc \in Busy \ {"created"} =>
        /\ marker[cur].count = checkpoints
        /\ checkpoints = MaxCheckpoints => pc \in {"stuck", "discarding", "dropping"}

\* Every wave comes to its end: checkpoints, fix attempts and review cycles
\* together leave no issue at work for ever.
WaveEnds == pc # "off" ~> pc = "off"

-----------------------------------------------------------------------------
(* What the documentation says of an issue and the code does not do. *)

\* "Test gate: Commits exist, no internal PR".
TestedWorkIsCommitted == pc = "gating" => tree = {}
=============================================================================
