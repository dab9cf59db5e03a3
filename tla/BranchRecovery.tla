--------------------------- MODULE BranchRecovery ---------------------------
(***************************************************************************)
(* What git and the markers tell after a crash (git/recovery.py,           *)
(* engine/recovery.py).  One repository, worked on by the engine one issue *)
(* at a time, with a crash between any two git commands that change it and *)
(* marker writes.  Commits form a graph: every commit has its parents and  *)
(* its history.  Which sessions can commit is up to the adapter, as in     *)
(* IssuePipeline.                                                          *)
(*                                                                         *)
(* The application has no caller of the two recovery helpers yet; whoever  *)
(* restarts the engine is taken to do what evaluate_recovery answers.      *)
(***************************************************************************)
EXTENDS Integers, FiniteSets

CONSTANTS
    Issues,     \* issues whose branches are in this repository
    Agent,      \* the agent branch
    None,       \* no branch, no marker, no issue, no session
    Adapter,    \* the ProviderAdapter that runs the sessions
    MaxCommits  \* bound: commits made after the first

\* The steps a marker can name.
Steps == {"implementing", "test_gate", "internal_pr", "review", "merged"}

\* The sessions with allowed tools, and those that have tools all the same:
\* the Codex adapter looks at neither the tools nor the role, and Gemini only
\* gives the reviewer, an orchestrator, a read-only sandbox.
AllowedTools == {"session", "feedback"}

Unrestrained ==
    CASE Adapter = "claude" -> {}
      [] Adapter = "gemini" -> {"pr"}
      [] Adapter = "codex" -> {"pr", "review"}

ASSUME RecoveryAssumption ==
    /\ Agent \notin Issues
    /\ None \notin Issues
    /\ None \notin Nat
    /\ None \notin Steps
    /\ None \notin {"session", "feedback", "pr", "review"}
    /\ Adapter \in {"claude", "gemini", "codex"}
    /\ MaxCommits \in Nat

VARIABLES
    last,       \* the newest commit
    parents,    \* the parents of each commit
    history,    \* each commit with all its ancestors
    tip,        \* the commit each branch points to
    head,       \* the branch that is checked out
    dirty,      \* the working tree has uncommitted changes
    conflict,   \* a merge has stopped half way
    marker,     \* the last_step of each issue's row of issue_markers
    working,    \* the issue being executed
    stage,      \* how far it is
    down,       \* the engine has crashed and recovery is not over
    unmerged,   \* history: each branch's commits that no merge has delivered
    mergedTip,  \* history: the tip of a branch that was merged as it stands
    half        \* history: the session that put commits on a branch and did not end

graph == <<last, parents, history>>
past == <<unmerged, mergedTip, half>>
vars == <<graph, tip, head, dirty, conflict, marker, working, stage, down, past>>

Branches == Issues \cup {Agent}
Commits == 0..MaxCommits
Sessions == {"session", "feedback", "pr", "review"}
OnBranch == Sessions \cup {"created", "gate", "approved"}
Stages == OnBranch \cup
    {"onAgent", "conflicted", "aborted", "merged", "deleted", "discarding"}

TypeOK ==
    /\ last \in Commits
    /\ parents \in [Commits -> SUBSET Commits]
    /\ history \in [Commits -> SUBSET Commits]
    /\ tip \in [Branches -> 0..last \cup {None}]
    /\ tip[Agent] # None
    /\ head \in Branches
    /\ tip[head] # None
    /\ dirty \in BOOLEAN
    /\ conflict \in BOOLEAN
    /\ marker \in [Issues -> Steps \cup {None}]
    /\ working \in Issues \cup {None}
    /\ stage \in Stages
    /\ down \in BOOLEAN
    /\ unmerged \in [Issues -> SUBSET Commits]
    /\ mergedTip \in [Issues -> Commits \cup {None}]
    /\ half \in [Issues -> Sessions \cup {None}]

Init ==
    /\ last = 0
    /\ parents = [c \in Commits |-> {}]
    /\ history = [c \in Commits |-> IF c = 0 THEN {0} ELSE {}]
    /\ tip = [b \in Branches |-> IF b = Agent THEN 0 ELSE None]
    /\ head = Agent
    /\ dirty = FALSE
    /\ conflict = FALSE
    /\ marker = [i \in Issues |-> None]
    /\ working = None
    /\ stage = "created"
    /\ down = FALSE
    /\ unmerged = [i \in Issues |-> {}]
    /\ mergedTip = [i \in Issues |-> None]
    /\ half = [i \in Issues |-> None]

----------------------------------------------------------------------------
(* Reading the repository (git/repo.py).                                    *)

branch_exists(b) == tip[b] # None

\* Mutant: the range the wrong way round.
CommitsBetweenSwapped(base, b) == history[tip[base]] \ history[tip[b]]

commits_between(base, b) == history[tip[b]] \ history[tip[base]]

\* Mutant: only the newest commit of the agent branch is looked at.
WasLastMerged(b, into) ==
    /\ Cardinality(parents[tip[into]]) > 1
    /\ tip[b] \in parents[tip[into]]

\* A merge commit that the branch does not have, with its tip as a parent:
\* either parent will do.
was_merged_into(b, into) ==
    \E c \in commits_between(b, into) : Cardinality(parents[c]) > 1 /\ tip[b] \in parents[c]

IsDirty(i) == head = i /\ (dirty \/ conflict)

classify(i) ==
    IF ~branch_exists(i) THEN "absent"
    ELSE IF commits_between(Agent, i) # {} THEN IF IsDirty(i) THEN "dirty" ELSE "commits_only"
    ELSE IF was_merged_into(i, Agent) THEN "merged"
    ELSE IF IsDirty(i) THEN "dirty"
    ELSE "empty"

recovery_action_for(s) == IF s = "implementing" THEN "reset" ELSE "resume"

evaluate_recovery(i) ==
    IF ~branch_exists(i) \/ commits_between(Agent, i) = {} THEN "resume"
    ELSE IF marker[i] = None THEN "reset"
    ELSE recovery_action_for(marker[i])

----------------------------------------------------------------------------
(* The engine at work on an issue.                                          *)

At(i, s) == ~down /\ working = i /\ stage = s

\* Makes commit c with the given parents, on branch b.
NewCommit(b, from) ==
    LET c == last + 1
    IN  /\ last < MaxCommits
        /\ last' = c
        /\ parents' = [parents EXCEPT ![c] = from]
        /\ history' = [history EXCEPT ![c] = {c} \cup UNION {history[p] : p \in from}]
        /\ tip' = [tip EXCEPT ![b] = c]

\* FeatureBranch.create, which refuses a branch that is there, and in the
\* middle of a merge.
Create(i) ==
    /\ ~down
    /\ working = None
    /\ ~branch_exists(i)
    /\ ~conflict
    /\ working' = i
    /\ stage' = "created"
    /\ tip' = [tip EXCEPT ![i] = tip[Agent]]
    /\ head' = i
    /\ unmerged' = [unmerged EXCEPT ![i] = {}]
    /\ mergedTip' = [mergedTip EXCEPT ![i] = None]
    /\ half' = [half EXCEPT ![i] = None]
    /\ UNCHANGED <<graph, dirty, conflict, marker, down>>

\* Mutant: the session starts before the marker says so.
SessionBeforeMarker(i) ==
    /\ At(i, "created") \/ At(i, "gate")
    /\ stage' = "session"
    /\ UNCHANGED <<graph, tip, head, dirty, conflict, marker, working, down, past>>

\* A session begins: the first, or one that repairs what the gates found.
StartSession(i) ==
    /\ At(i, "created") \/ At(i, "gate")
    /\ marker' = [marker EXCEPT ![i] = "implementing"]
    /\ stage' = "session"
    /\ UNCHANGED <<graph, tip, head, dirty, conflict, working, down, past>>

\* The reviewer has asked for changes: his session is over, and the one that
\* answers him begins.
RequestChanges(i) ==
    /\ At(i, "review")
    /\ marker' = [marker EXCEPT ![i] = "implementing"]
    /\ stage' = "feedback"
    /\ half' = [half EXCEPT ![i] = None]
    /\ UNCHANGED <<graph, tip, head, dirty, conflict, working, down, unmerged, mergedTip>>

\* A session that has tools, whether it was allowed them or not.
Working(i) == \E s \in AllowedTools \cup Unrestrained : At(i, s)

Edit(i) ==
    /\ Working(i)
    /\ dirty' = TRUE
    /\ UNCHANGED <<graph, tip, head, conflict, marker, working, stage, down, past>>

Commit(i) ==
    /\ Working(i)
    /\ dirty
    /\ NewCommit(i, {tip[i]})
    /\ dirty' = FALSE
    /\ unmerged' = [unmerged EXCEPT ![i] = @ \cup {last'}]
    /\ mergedTip' = [mergedTip EXCEPT ![i] = None]
    /\ half' = [half EXCEPT ![i] = stage]
    /\ UNCHANGED <<head, conflict, marker, working, stage, down>>

\* The engine's next marker: a session is over, or the gates have passed.
Advance(i, from, to, step) ==
    /\ At(i, from)
    /\ stage' = to
    /\ marker' = [marker EXCEPT ![i] = step]
    /\ half' = [half EXCEPT ![i] = None]
    /\ UNCHANGED <<graph, tip, head, dirty, conflict, working, down, unmerged, mergedTip>>

Approve(i) ==
    /\ At(i, "review")
    /\ stage' = "approved"
    /\ half' = [half EXCEPT ![i] = None]
    /\ UNCHANGED <<graph, tip, head, dirty, conflict, marker, working, down, unmerged, mergedTip>>

\* merge_into_agent leaves the branch, merges it and deletes it.
CheckoutAgent(i) ==
    /\ At(i, "approved")
    /\ head' = Agent
    /\ stage' = "onAgent"
    /\ UNCHANGED <<graph, tip, dirty, conflict, marker, working, down, past>>

\* --no-ff: always a merge commit, unless there is nothing to merge.
Merge(i) ==
    /\ At(i, "onAgent")
    /\ IF commits_between(Agent, i) = {} THEN UNCHANGED <<graph, tip>>
       ELSE NewCommit(Agent, {tip[Agent], tip[i]})
    /\ stage' = "merged"
    /\ unmerged' = [unmerged EXCEPT ![i] = {}]
    /\ mergedTip' = [mergedTip EXCEPT ![i] = IF tip' = tip THEN @ ELSE tip[i]]
    /\ UNCHANGED <<head, dirty, conflict, marker, working, down, half>>

MergeConflicts(i) ==
    /\ At(i, "onAgent")
    /\ commits_between(i, Agent) # {}
    /\ commits_between(Agent, i) # {}
    /\ conflict' = TRUE
    /\ stage' = "conflicted"
    /\ UNCHANGED <<graph, tip, head, dirty, marker, working, down, past>>

AbortMerge(i) ==
    /\ At(i, "conflicted")
    /\ conflict' = FALSE
    /\ stage' = "aborted"
    /\ UNCHANGED <<graph, tip, head, dirty, marker, working, down, past>>

\* The issue is parked on its branch.
ReturnToBranch(i) ==
    /\ At(i, "aborted")
    /\ head' = i
    /\ working' = None
    /\ UNCHANGED <<graph, tip, dirty, conflict, marker, stage, down, past>>

\* git branch -d refuses a branch that the agent branch does not have.
DeleteMerged(i) ==
    /\ At(i, "merged")
    /\ commits_between(Agent, i) = {}
    /\ tip' = [tip EXCEPT ![i] = None]
    /\ stage' = "deleted"
    /\ UNCHANGED <<graph, head, dirty, conflict, marker, working, down, past>>

Finish(i) ==
    /\ At(i, "deleted")
    /\ marker' = [marker EXCEPT ![i] = "merged"]
    /\ working' = None
    /\ UNCHANGED <<graph, tip, head, dirty, conflict, stage, down, past>>

\* FeatureBranch.discard after an implementation that failed: what is not
\* committed stays in the tree.
DiscardCheckout(i) ==
    /\ At(i, "session") \/ At(i, "gate")
    /\ head' = Agent
    /\ stage' = "discarding"
    /\ UNCHANGED <<graph, tip, dirty, conflict, marker, working, down, past>>

\* git branch -D, and with the branch its history.
Drop(i) ==
    /\ tip' = [tip EXCEPT ![i] = None]
    /\ unmerged' = [unmerged EXCEPT ![i] = {}]
    /\ half' = [half EXCEPT ![i] = None]
    /\ UNCHANGED <<graph, head, dirty, conflict, marker, stage, down, mergedTip>>

Discard(i) ==
    /\ At(i, "discarding")
    /\ working' = None
    /\ Drop(i)

----------------------------------------------------------------------------
(* Crash and recovery.                                                      *)

Crash ==
    /\ ~down
    /\ down' = TRUE
    /\ working' = None
    /\ UNCHANGED <<graph, tip, head, dirty, conflict, marker, stage, past>>

\* BranchRecovery.discard_and_restart, which begins anew when it is cut
\* short: a dirty tree is cleaned only when it is the branch's own, and the
\* agent branch is checked out before the branch is deleted.
MustReset(i) == down /\ evaluate_recovery(i) = "reset"

RestartCleans(i) ==
    /\ MustReset(i)
    /\ IsDirty(i)
    /\ dirty' = FALSE
    /\ conflict' = FALSE
    /\ UNCHANGED <<graph, tip, head, marker, working, stage, down, past>>

RestartChecksOut(i) ==
    /\ MustReset(i)
    /\ head # Agent
    /\ ~IsDirty(i)
    /\ head' = Agent
    /\ UNCHANGED <<graph, tip, dirty, conflict, marker, working, stage, down, past>>

DiscardAndRestart(i) ==
    /\ MustReset(i)
    /\ head = Agent
    /\ Drop(i)
    /\ UNCHANGED working

\* No issue has to be reset any more: the engine is up again.
Recovered ==
    /\ down
    /\ \A i \in Issues : evaluate_recovery(i) # "reset"
    /\ down' = FALSE
    /\ UNCHANGED <<graph, tip, head, dirty, conflict, marker, working, stage, past>>

\* A branch that may be resumed is taken up after the step of its marker, or
\* from the start when it has no commits.
ResumeStage(i) ==
    IF commits_between(Agent, i) = {} \/ marker[i] = None THEN "created"
    ELSE CASE marker[i] = "test_gate" -> "gate"
           [] marker[i] = "internal_pr" -> "pr"
           [] marker[i] \in {"review", "merged"} -> "review"
           [] OTHER -> "created"

Resume(i) ==
    /\ ~down
    /\ working = None
    /\ branch_exists(i)
    /\ ~conflict
    /\ evaluate_recovery(i) = "resume"
    /\ working' = i
    /\ head' = i
    /\ stage' = ResumeStage(i)
    /\ UNCHANGED <<graph, tip, dirty, conflict, marker, down, past>>

Next ==
    \/ \E i \in Issues :
           \/ Create(i) \/ Resume(i)
           \/ StartSession(i) \/ RequestChanges(i) \/ Edit(i) \/ Commit(i)
           \/ Advance(i, "session", "gate", "test_gate")
           \/ Advance(i, "gate", "pr", "internal_pr")
           \/ Advance(i, "pr", "review", "review")
           \/ Advance(i, "feedback", "review", "review")
           \/ Approve(i) \/ CheckoutAgent(i) \/ Merge(i) \/ DeleteMerged(i) \/ Finish(i)
           \/ MergeConflicts(i) \/ AbortMerge(i) \/ ReturnToBranch(i)
           \/ DiscardCheckout(i) \/ Discard(i)
           \/ RestartCleans(i) \/ RestartChecksOut(i) \/ DiscardAndRestart(i)
    \/ Crash
    \/ Recovered

Spec == Init /\ [][Next]_vars

\* Work that no merge has delivered is never taken for an empty or a merged
\* branch, which recovery would reuse or pass over (BranchRecovery.classify).
UnmergedWorkIsSeen ==
    \A i \in Issues : unmerged[i] # {} => classify(i) \in {"dirty", "commits_only"}

\* A branch that was merged and not deleted before the crash is recognised,
\* however many merges of other issues came after it, and with a dirty tree
\* too (was_merged_into).
MergedIsRecognised ==
    \A i \in Issues :
        branch_exists(i) /\ mergedTip[i] = tip[i] => classify(i) = "merged"

\* After a crash a branch with commits of a session that did not end is
\* reset, never resumed: the marker was written before the session began
\* and no earlier step of the same issue outlives it (evaluate_recovery).
\* With Claude that goes for every session; with the other adapters for those
\* that are allowed tools, since a session that has them regardless may commit
\* under the markers of the pull request and the review, which are resumed.
HalfSessionIsReset ==
    \A i \in Issues :
        /\ down
        /\ unmerged[i] # {}
        /\ half[i] \in IF Adapter = "claude" THEN Sessions ELSE AllowedTools
        => evaluate_recovery(i) = "reset"
=============================================================================
