------------------------ MODULE BranchRecoveryProofs ------------------------
(***************************************************************************)
(* Theorems about what git and the markers tell after a crash, for any     *)
(* issues and any number of commits.                                       *)
(***************************************************************************)
EXTENDS BranchRecovery, FiniteSetTheorems, TLAPS

USE RecoveryAssumption DEF RecoveryAssumption

\* A commit descends from older ones and belongs to its own history.
GraphInv ==
    /\ \A c \in Commits : history[c] \subseteq 0..last
    /\ \A c \in 0..last : c \in history[c]

\* What no merge has delivered is on its own branch and on no other.
WorkInv ==
    \A i \in Issues :
        /\ tip[i] = None => unmerged[i] = {}
        /\ tip[i] # None => unmerged[i] \subseteq history[tip[i]]
        /\ \A b \in Branches \ {i} :
               tip[b] # None => unmerged[i] \cap history[tip[b]] = {}

\* Stages and markers: an issue has its branch until the engine deletes it,
\* nothing is left to deliver after the merge, a session that is allowed tools
\* runs, and leaves commits behind, under the marker it began with, and the
\* others leave none unless the adapter does not hold them back.
OnAgent == {"onAgent", "conflicted", "aborted", "merged", "deleted", "discarding"}

StageInv ==
    /\ \A i \in Issues :
           /\ working = i /\ stage # "deleted" => tip[i] # None
           /\ working = i /\ stage \in OnAgent => head = Agent
           /\ working = i /\ stage \in {"merged", "deleted"} => unmerged[i] = {}
           /\ working = i /\ stage \in AllowedTools => marker[i] = "implementing"
           /\ half[i] \in AllowedTools /\ unmerged[i] # {} => marker[i] = "implementing"
           /\ half[i] \in {"pr", "review"} => Adapter # "claude"
    /\ down => working = None

\* A branch merged as it stands lies within the agent branch, whose history
\* has the merge commit.
Delivered(i) ==
    /\ history[tip[i]] \subseteq history[tip[Agent]]
    /\ \E c \in history[tip[Agent]] \ history[tip[i]] :
           Cardinality(parents[c]) > 1 /\ tip[i] \in parents[c]

MergedInv ==
    \A i \in Issues : tip[i] # None /\ mergedTip[i] = tip[i] => Delivered(i)

IInv == TypeOK /\ GraphInv /\ WorkInv /\ StageInv /\ MergedInv

----------------------------------------------------------------------------

LEMMA TipInGraph ==
    ASSUME TypeOK, NEW b \in Branches, tip[b] # None
    PROVE  tip[b] \in 0..last /\ tip[b] \in Commits
  BY DEF TypeOK, Commits

\* A new commit takes the next number, and everything older stays as it is.
LEMMA NewCommitStep ==
    ASSUME TypeOK, GraphInv, NEW b \in Branches, NEW from \in SUBSET (0..last), NewCommit(b, from)
    PROVE  /\ last' = last + 1 /\ last' \in Commits /\ last' # None
           /\ parents' \in [Commits -> SUBSET Commits]
           /\ history' \in [Commits -> SUBSET Commits]
           /\ tip' \in [Branches -> 0..last' \cup {None}]
           /\ tip'[b] = last'
           /\ \A a \in Branches \ {b} : tip'[a] = tip[a]
           /\ \A c \in 0..last : history'[c] = history[c] /\ parents'[c] = parents[c]
           /\ history'[last'] = {last'} \cup UNION {history[p] : p \in from}
           /\ parents'[last'] = from
           /\ GraphInv'
<1> DEFINE h == {last + 1} \cup UNION {history[p] : p \in from}
<1>1. last \in Nat /\ last + 1 \in Commits /\ 0..last \subseteq Commits /\ last + 1 \notin 0..last
  BY DEF NewCommit, TypeOK, Commits
<1>2. last' = last + 1 /\ parents' = [parents EXCEPT ![last + 1] = from]
      /\ history' = [history EXCEPT ![last + 1] = h] /\ tip' = [tip EXCEPT ![b] = last + 1]
  BY DEF NewCommit
<1>3. h \subseteq 0..(last + 1) /\ h \subseteq Commits
  <2>1. UNION {history[p] : p \in from} \subseteq 0..last
    BY <1>1 DEF GraphInv
  <2> QED BY <1>1, <2>1
<1>4. parents' \in [Commits -> SUBSET Commits] /\ history' \in [Commits -> SUBSET Commits]
  BY <1>1, <1>2, <1>3 DEF TypeOK
<1>5. tip' \in [Branches -> 0..last' \cup {None}]
  BY <1>1, <1>2 DEF TypeOK
<1>6. tip'[b] = last' /\ \A a \in Branches \ {b} : tip'[a] = tip[a]
  BY <1>2 DEF TypeOK
<1>7. \A c \in 0..last : history'[c] = history[c] /\ parents'[c] = parents[c]
  BY <1>1, <1>2 DEF TypeOK
<1>8. history'[last'] = h /\ parents'[last'] = from
  BY <1>1, <1>2 DEF TypeOK
<1>9. GraphInv'
  <2>1. ASSUME NEW c \in Commits
        PROVE  history'[c] \subseteq 0..last'
    <3>1. CASE c = last + 1
      BY <3>1, <1>2, <1>3, <1>8
    <3>2. CASE c # last + 1
      <4>1. history'[c] = history[c] /\ history[c] \subseteq 0..last
        BY <3>2, <1>1, <1>2 DEF TypeOK, GraphInv
      <4> QED BY <4>1, <1>1, <1>2
    <3> QED BY <3>1, <3>2
  <2>2. ASSUME NEW c \in 0..last'
        PROVE  c \in history'[c]
    <3>1. CASE c = last'
      BY <3>1, <1>2, <1>8
    <3>2. CASE c # last'
      <4>1. c \in 0..last
        BY <3>2, <1>1, <1>2
      <4> QED BY <4>1, <1>7 DEF GraphInv
    <3> QED BY <3>1, <3>2
  <2>3. Commits' = Commits
    BY DEF Commits
  <2> QED BY <2>1, <2>2, <2>3 DEF GraphInv
<1> QED BY <1>1, <1>2, <1>4, <1>5, <1>6, <1>7, <1>8, <1>9

\* Deleting a branch that holds nothing undelivered, or giving up what it
\* holds, disturbs no other branch.
LEMMA DeleteStep ==
    ASSUME IInv, NEW i \in Issues, UNCHANGED graph, tip' = [tip EXCEPT ![i] = None],
           unmerged' = [unmerged EXCEPT ![i] = {}], UNCHANGED mergedTip
    PROVE  GraphInv' /\ WorkInv' /\ MergedInv'
<1>1. GraphInv'
  BY DEF IInv, GraphInv, graph, Commits
<1>2. tip'[i] = None /\ unmerged'[i] = {} /\ (\A b \in Branches \ {i} : tip'[b] = tip[b])
      /\ (\A j \in Issues \ {i} : unmerged'[j] = unmerged[j])
  BY DEF IInv, TypeOK, Branches
<1>3. WorkInv'
  BY <1>2 DEF IInv, WorkInv, graph, Branches
<1>4. MergedInv'
  BY <1>2 DEF IInv, MergedInv, Delivered, graph, Branches
<1> QED BY <1>1, <1>3, <1>4

\* Steps that touch neither the commits nor the branches.
LEMMA QuietStep ==
    ASSUME IInv, UNCHANGED <<graph, tip, unmerged, mergedTip>>
    PROVE  GraphInv' /\ WorkInv' /\ MergedInv'
  BY DEF IInv, GraphInv, WorkInv, MergedInv, Delivered, graph, Branches, Commits

LEMMA CreateStep ==
    ASSUME IInv, NEW i \in Issues, Create(i)
    PROVE  IInv'
<1>1. tip'[i] = tip[Agent] /\ tip[Agent] # None /\ (\A b \in Branches \ {i} : tip'[b] = tip[b])
      /\ unmerged'[i] = {} /\ (\A j \in Issues \ {i} : unmerged'[j] = unmerged[j])
      /\ mergedTip'[i] = None /\ (\A j \in Issues \ {i} : mergedTip'[j] = mergedTip[j])
  BY DEF Create, IInv, TypeOK, Branches
<1>2. TypeOK'
  <2>1. tip' \in [Branches -> 0..last' \cup {None}]
    BY DEF Create, IInv, TypeOK, Branches, graph
  <2>2. half' \in [Issues -> Sessions \cup {None}] /\ unmerged' \in [Issues -> SUBSET Commits]
        /\ mergedTip' \in [Issues -> Commits \cup {None}]
    BY DEF Create, IInv, TypeOK
  <2> QED BY <1>1, <2>1, <2>2
        DEF Create, IInv, TypeOK, Branches, Stages, OnBranch, Sessions, graph, Commits
<1>3. GraphInv'
  BY DEF Create, IInv, GraphInv, graph, Commits
<1>4. WorkInv'
  BY <1>1 DEF Create, IInv, WorkInv, graph, Branches
<1>5. StageInv'
  <2>1. half'[i] = None /\ \A j \in Issues \ {i} : half'[j] = half[j]
    BY DEF Create, IInv, TypeOK
  <2>2. None \notin AllowedTools \cup {"pr", "review"} /\ "created" \notin AllowedTools \cup OnAgent
    BY DEF AllowedTools, OnAgent
  <2>3. working' = i /\ stage' = "created" /\ ~down' /\ marker' = marker /\ tip[Agent] # None
    BY <1>1 DEF Create
  <2> QED BY <1>1, <2>1, <2>2, <2>3 DEF IInv, StageInv, Branches
<1>6. MergedInv'
  BY <1>1 DEF Create, IInv, MergedInv, Delivered, graph, Branches
<1> QED BY <1>2, <1>3, <1>4, <1>5, <1>6 DEF IInv

LEMMA CommitStep ==
    ASSUME IInv, NEW i \in Issues, Commit(i)
    PROVE  IInv'
<1>1. /\ working = i /\ stage \in AllowedTools \cup Unrestrained /\ ~down
      /\ stage \in Sessions /\ stage # "deleted" /\ stage \notin OnAgent
      /\ stage \in {"pr", "review"} => Adapter # "claude"
      /\ NewCommit(i, {tip[i]})
  BY DEF Commit, Working, At, AllowedTools, Unrestrained, Sessions, OnAgent
<1>2. tip[i] # None /\ tip[i] \in 0..last /\ i \in Branches
  BY <1>1, TipInGraph DEF IInv, StageInv, Branches
<1> DEFINE c == last'
<1>3. /\ c \notin 0..last /\ c \in Commits /\ c # None /\ 0..last \subseteq 0..c
      /\ tip' \in [Branches -> 0..c \cup {None}]
      /\ tip'[i] = c /\ \A b \in Branches \ {i} : tip'[b] = tip[b]
      /\ \A d \in 0..last : history'[d] = history[d] /\ parents'[d] = parents[d]
      /\ history'[c] = {c} \cup history[tip[i]]
      /\ parents' \in [Commits -> SUBSET Commits] /\ history' \in [Commits -> SUBSET Commits]
      /\ GraphInv'
  <2>1. last \in Nat
    BY DEF IInv, TypeOK, Commits
  <2>2. {tip[i]} \in SUBSET (0..last)
    BY <1>2
  <2>3. c = last + 1
    BY <1>1 DEF NewCommit
  <2>4. UNION {history[p] : p \in {tip[i]}} = history[tip[i]]
    OBVIOUS
  <2>5. c \notin 0..last /\ 0..last \subseteq 0..c
    BY <2>1, <2>3
  <2> HIDE DEF c
  <2> QED BY <1>1, <1>2, <2>2, <2>4, <2>5, NewCommitStep DEF IInv, c
<1>4. /\ unmerged'[i] = unmerged[i] \cup {c} /\ \A j \in Issues \ {i} : unmerged'[j] = unmerged[j]
      /\ mergedTip'[i] = None /\ \A j \in Issues \ {i} : mergedTip'[j] = mergedTip[j]
      /\ half'[i] = stage /\ \A j \in Issues \ {i} : half'[j] = half[j]
  BY DEF Commit, IInv, TypeOK
<1>5. \A b \in Branches \ {i} : tip[b] # None =>
          tip[b] \in 0..last /\ history'[tip[b]] = history[tip[b]] /\ c \notin history[tip[b]]
  BY <1>3, TipInGraph DEF IInv, GraphInv
<1>6. TypeOK'
  <2>1. unmerged' \in [Issues -> SUBSET Commits] /\ mergedTip' \in [Issues -> Commits \cup {None}]
    BY <1>3 DEF Commit, IInv, TypeOK
  <2>2. tip'[Agent] # None /\ tip'[head'] # None
    BY <1>3 DEF Commit, IInv, TypeOK, Branches
  <2>3. half' \in [Issues -> Sessions \cup {None}]
    BY <1>1 DEF Commit, IInv, TypeOK
  <2> QED BY <1>3, <2>1, <2>2, <2>3
        DEF Commit, IInv, TypeOK, Commits, Branches, Sessions, Stages, OnBranch
<1>7. WorkInv'
  <2> SUFFICES ASSUME NEW j \in Issues
               PROVE  /\ tip'[j] = None => unmerged'[j] = {}
                      /\ tip'[j] # None => unmerged'[j] \subseteq history'[tip'[j]]
                      /\ \A b \in Branches \ {j} :
                             tip'[b] # None => unmerged'[j] \cap history'[tip'[b]] = {}
    BY DEF WorkInv, Branches
  <2>1. CASE j = i
    BY <2>1, <1>2, <1>3, <1>4, <1>5 DEF IInv, WorkInv
  <2>2. CASE j # i
    <3>1. j \in Branches \ {i}
      BY <2>2 DEF Branches
    <3>2. c \notin unmerged[j]
      BY <3>1, <1>5 DEF IInv, WorkInv
    <3> QED BY <2>2, <3>1, <3>2, <1>2, <1>3, <1>4, <1>5 DEF IInv, WorkInv
  <2> QED BY <2>1, <2>2
<1>8. StageInv'
  <2>1. UNCHANGED <<head, marker, working, stage, down>>
    BY DEF Commit
  <2>2. \A j \in Issues : tip[j] # None => tip'[j] # None
    BY <1>3 DEF Branches
  <2> QED BY <1>1, <1>4, <2>1, <2>2 DEF IInv, StageInv, OnAgent
<1>9. MergedInv'
  <2> SUFFICES ASSUME NEW j \in Issues \ {i}, tip[j] # None, mergedTip[j] = tip[j]
               PROVE  Delivered(j)'
    BY <1>3, <1>4 DEF MergedInv, Branches
  <2>1. Delivered(j) /\ Agent \in Branches \ {i} /\ j \in Branches \ {i} /\ tip[Agent] # None
    BY DEF IInv, MergedInv, Branches, TypeOK
  <2>2. tip'[j] = tip[j] /\ tip'[Agent] = tip[Agent] /\ history'[tip[j]] = history[tip[j]]
        /\ history'[tip[Agent]] = history[tip[Agent]] /\ history[tip[Agent]] \subseteq 0..last
    BY <2>1, <1>3, <1>5, TipInGraph DEF IInv, GraphInv
  <2> QED BY <2>1, <2>2, <1>3 DEF Delivered
<1> QED BY <1>3, <1>6, <1>7, <1>8, <1>9 DEF IInv

LEMMA MergeStep ==
    ASSUME IInv, NEW i \in Issues, Merge(i)
    PROVE  IInv'
<1>1. /\ working = i /\ stage = "onAgent" /\ ~down /\ head = Agent /\ tip[i] # None /\ tip[Agent] # None
      /\ i \in Branches /\ Agent \in Branches \ {i}
  BY DEF Merge, At, IInv, StageInv, Branches, TypeOK, OnAgent
<1>2. /\ tip[i] \in 0..last /\ tip[Agent] \in 0..last
      /\ history[tip[i]] \subseteq 0..last /\ history[tip[Agent]] \subseteq 0..last
      /\ tip[i] \in history[tip[i]]
  BY <1>1, TipInGraph DEF IInv, GraphInv
<1>3. unmerged'[i] = {} /\ \A j \in Issues \ {i} : unmerged'[j] = unmerged[j]
  BY DEF Merge, IInv, TypeOK
<1>4. StageInv'
  <2>1. \A j \in Issues : tip'[j] = tip[j]
    BY DEF Merge, NewCommit, IInv, TypeOK, Branches
  <2>2. working' = i /\ stage' = "merged" /\ head' = Agent /\ ~down'
        /\ UNCHANGED <<marker, half>>
    BY <1>1 DEF Merge
  <2> QED BY <1>1, <1>3, <2>1, <2>2 DEF IInv, StageInv, AllowedTools
<1>5. unmerged' \in [Issues -> SUBSET Commits]
  BY DEF Merge, IInv, TypeOK
<1>6. CASE commits_between(Agent, i) = {}
  <2>1. UNCHANGED <<graph, tip>>
    BY <1>6 DEF Merge
  <2>2. mergedTip' = mergedTip
    BY <2>1 DEF Merge, IInv, TypeOK
  <2>3. TypeOK'
    BY <1>1, <1>5, <2>1, <2>2 DEF Merge, IInv, TypeOK, graph, Commits, Branches, Stages, Sessions
  <2>4. GraphInv' /\ MergedInv'
    BY <2>1, <2>2 DEF IInv, GraphInv, MergedInv, Delivered, graph, Commits
  <2>5. WorkInv'
    BY <1>3, <2>1 DEF IInv, WorkInv, graph, Branches
  <2> QED BY <1>4, <2>3, <2>4, <2>5 DEF IInv
<1>7. CASE commits_between(Agent, i) # {}
  <2> DEFINE c == last'
             from == {tip[Agent], tip[i]}
  <2>1. NewCommit(Agent, from)
    BY <1>7 DEF Merge
  <2>2. /\ c \notin 0..last /\ c \in Commits /\ c # None /\ 0..last \subseteq 0..c
        /\ tip' \in [Branches -> 0..c \cup {None}]
        /\ tip'[Agent] = c /\ \A b \in Branches \ {Agent} : tip'[b] = tip[b]
        /\ \A d \in 0..last : history'[d] = history[d] /\ parents'[d] = parents[d]
        /\ history'[c] = {c} \cup history[tip[Agent]] \cup history[tip[i]]
        /\ parents'[c] = from
        /\ parents' \in [Commits -> SUBSET Commits] /\ history' \in [Commits -> SUBSET Commits]
        /\ GraphInv'
    <3>1. last \in Nat
      BY DEF IInv, TypeOK, Commits
    <3>2. from \in SUBSET (0..last) /\ Agent \in Branches
      BY <1>1, <1>2
    <3>3. c = last + 1
      BY <2>1 DEF NewCommit
    <3>4. UNION {history[p] : p \in from} = history[tip[Agent]] \cup history[tip[i]]
      OBVIOUS
    <3>5. c \notin 0..last /\ 0..last \subseteq 0..c
      BY <3>1, <3>3
    <3> HIDE DEF c, from
    <3>6. history'[c] = {c} \cup UNION {history[p] : p \in from}
      BY <2>1, <3>2, NewCommitStep DEF IInv, c
    <3> QED BY <2>1, <3>2, <3>4, <3>5, <3>6, NewCommitStep DEF IInv, c
  <2>3. mergedTip'[i] = tip[i] /\ \A j \in Issues \ {i} : mergedTip'[j] = mergedTip[j]
    <3>1. tip' # tip
      BY <1>1, <1>2, <2>2
    <3> QED BY <3>1 DEF Merge, IInv, TypeOK
  <2>4. TypeOK'
    <3>1. mergedTip' \in [Issues -> Commits \cup {None}]
      <4>1. tip[i] \in Commits
        BY <1>1, TipInGraph DEF IInv
      <4> QED BY <4>1 DEF Merge, IInv, TypeOK
    <3>2. head' \in Branches /\ tip'[head'] # None /\ tip'[Agent] # None
      BY <1>1, <2>2 DEF Merge
    <3> QED BY <1>5, <2>2, <3>1, <3>2 DEF Merge, IInv, TypeOK, Commits, Branches, Stages, Sessions
  <2>5. \A b \in Branches \ {Agent} : tip[b] # None =>
            tip[b] \in 0..last /\ history'[tip[b]] = history[tip[b]] /\ c \notin history[tip[b]]
    BY <2>2, TipInGraph DEF IInv, GraphInv
  <2>6. WorkInv'
    <3> SUFFICES ASSUME NEW j \in Issues
                 PROVE  /\ tip'[j] = None => unmerged'[j] = {}
                        /\ tip'[j] # None => unmerged'[j] \subseteq history'[tip'[j]]
                        /\ \A b \in Branches \ {j} :
                               tip'[b] # None => unmerged'[j] \cap history'[tip'[b]] = {}
      BY DEF WorkInv, Branches
    <3>1. CASE j = i
      BY <3>1, <1>3
    <3>2. CASE j # i
      <4>1. j \in Branches \ {Agent} /\ tip'[j] = tip[j] /\ unmerged'[j] = unmerged[j]
        BY <3>2, <1>3, <2>2 DEF Branches
      <4>2. c \notin unmerged[j]
        BY <4>1, <2>5 DEF IInv, WorkInv
      <4>3. unmerged[j] \cap history'[c] = {}
        BY <3>2, <4>2, <1>1, <2>2 DEF IInv, WorkInv
      <4> QED BY <3>2, <4>1, <4>3, <2>2, <2>5 DEF IInv, WorkInv
    <3> QED BY <3>1, <3>2
  <2>7. MergedInv'
    <3> SUFFICES ASSUME NEW j \in Issues, tip[j] # None, mergedTip'[j] = tip[j]
                 PROVE  Delivered(j)'
      BY <2>2 DEF MergedInv, Branches
    <3>1. /\ j \in Branches \ {Agent} /\ tip'[j] = tip[j] /\ tip'[Agent] = c
          /\ history'[tip[j]] = history[tip[j]] /\ c \notin history[tip[j]]
      BY <2>2, <2>5 DEF Branches
    <3>2. CASE j = i
      <4>1. tip[Agent] # tip[i]
        BY <1>7 DEF commits_between
      <4>2. Cardinality(from) = 2
        <5>1. {tip[i]} \cup {tip[Agent]} = from /\ tip[Agent] \notin {tip[i]}
          BY <4>1
        <5>2. IsFiniteSet({tip[i]}) /\ Cardinality({tip[i]}) = 1
          BY FS_Singleton
        <5> HIDE DEF from
        <5>3. Cardinality({tip[i]} \cup {tip[Agent]}) = Cardinality({tip[i]}) + 1
          BY <5>1, <5>2, FS_AddElement
        <5> QED BY <5>1, <5>2, <5>3
      <4>3. c \in history'[c] \ history'[tip[i]] /\ tip[i] \in parents'[c]
            /\ Cardinality(parents'[c]) > 1
        BY <3>1, <3>2, <4>2, <2>2
      <4>4. history'[tip[i]] \subseteq history'[c]
        BY <3>1, <3>2, <2>2
      <4> QED BY <3>1, <3>2, <4>3, <4>4 DEF Delivered
    <3>3. CASE j # i
      <4>1. Delivered(j)
        BY <3>3, <2>3 DEF IInv, MergedInv
      <4> QED BY <3>1, <4>1, <1>2, <2>2 DEF Delivered
    <3> QED BY <3>2, <3>3
  <2> QED BY <1>4, <2>2, <2>4, <2>6, <2>7 DEF IInv
<1> QED BY <1>6, <1>7

\* Sessions, markers and reviews, and the git commands that make no commit
\* and delete no branch.
LEMMA WorkStep ==
    ASSUME IInv, NEW i \in Issues,
           \/ StartSession(i) \/ RequestChanges(i)
           \/ Edit(i)
           \/ Advance(i, "session", "gate", "test_gate")
           \/ Advance(i, "gate", "pr", "internal_pr")
           \/ Advance(i, "pr", "review", "review")
           \/ Advance(i, "feedback", "review", "review")
           \/ Approve(i) \/ CheckoutAgent(i)
           \/ MergeConflicts(i) \/ AbortMerge(i) \/ ReturnToBranch(i)
           \/ Finish(i)
           \/ DiscardCheckout(i)
           \/ RestartCleans(i) \/ RestartChecksOut(i)
           \/ Resume(i)
    PROVE  IInv'
<1> DEFINE Turn == \/ Advance(i, "session", "gate", "test_gate")
                   \/ Advance(i, "gate", "pr", "internal_pr")
                   \/ Advance(i, "pr", "review", "review")
                   \/ Advance(i, "feedback", "review", "review")
<1>1. UNCHANGED <<graph, tip, unmerged, mergedTip>>
  BY DEF StartSession, RequestChanges, Edit, Advance, Approve, CheckoutAgent, MergeConflicts,
         AbortMerge, ReturnToBranch, Finish, DiscardCheckout, RestartCleans, RestartChecksOut,
         Resume, past
<1>2. GraphInv' /\ WorkInv' /\ MergedInv'
  BY <1>1, QuietStep
<1>3. ResumeStage(i) \in {"created", "gate", "pr", "review"}
  BY DEF ResumeStage
<1>4. i \in Branches /\ Agent \in Branches /\ tip[Agent] # None
  BY DEF Branches, IInv, TypeOK
<1>5. half' \in [Issues -> Sessions \cup {None}] /\ marker' \in [Issues -> Steps \cup {None}]
  <2>1. CASE StartSession(i) \/ Finish(i)
    BY <2>1 DEF StartSession, Finish, past, IInv, TypeOK, Steps
  <2>2. CASE RequestChanges(i) \/ Turn
    BY <2>2 DEF RequestChanges, Advance, IInv, TypeOK, Steps
  <2>3. CASE Approve(i)
    BY <2>3 DEF Approve, IInv, TypeOK
  <2>4. CASE Edit(i) \/ CheckoutAgent(i) \/ MergeConflicts(i) \/ AbortMerge(i)
             \/ ReturnToBranch(i) \/ DiscardCheckout(i) \/ RestartCleans(i)
             \/ RestartChecksOut(i) \/ Resume(i)
    BY <2>4 DEF Edit, CheckoutAgent, MergeConflicts, AbortMerge, ReturnToBranch, DiscardCheckout,
                RestartCleans, RestartChecksOut, Resume, past, IInv, TypeOK
  <2> QED BY <2>1, <2>2, <2>3, <2>4
<1>6. head' \in Branches /\ tip[head'] # None
  <2>1. CASE ReturnToBranch(i) \/ Resume(i)
    BY <2>1, <1>4 DEF ReturnToBranch, At, Resume, branch_exists, IInv, StageInv
  <2>2. CASE CheckoutAgent(i) \/ DiscardCheckout(i) \/ RestartChecksOut(i)
    BY <2>2, <1>4 DEF CheckoutAgent, DiscardCheckout, RestartChecksOut
  <2>3. CASE StartSession(i) \/ RequestChanges(i) \/ Edit(i) \/ Turn \/ Approve(i)
             \/ MergeConflicts(i) \/ AbortMerge(i) \/ Finish(i) \/ RestartCleans(i)
    BY <2>3 DEF StartSession, RequestChanges, Edit, Advance, Approve, MergeConflicts, AbortMerge,
                Finish, RestartCleans, IInv, TypeOK
  <2> QED BY <2>1, <2>2, <2>3
<1>7. dirty' \in BOOLEAN /\ conflict' \in BOOLEAN /\ down' \in BOOLEAN
      /\ working' \in Issues \cup {None} /\ stage' \in Stages
  BY <1>3 DEF StartSession, RequestChanges, Edit, Advance, Approve, CheckoutAgent, MergeConflicts,
         AbortMerge, ReturnToBranch, Finish, DiscardCheckout, RestartCleans, RestartChecksOut,
         Resume, Stages, OnBranch, Sessions, IInv, TypeOK
<1>8. TypeOK'
  <2>1. tip' \in [Branches -> 0..last' \cup {None}] /\ tip'[Agent] # None /\ tip'[head'] # None
        /\ unmerged' \in [Issues -> SUBSET Commits] /\ mergedTip' \in [Issues -> Commits \cup {None}]
        /\ last' \in Commits /\ parents' \in [Commits -> SUBSET Commits]
        /\ history' \in [Commits -> SUBSET Commits]
    BY <1>1, <1>6 DEF graph, IInv, TypeOK
  <2> QED BY <2>1, <1>5, <1>6, <1>7 DEF TypeOK, Commits, Branches, Steps, Stages, Sessions, OnBranch
<1>9. StageInv'
  <2> USE DEF IInv, StageInv, AllowedTools, OnAgent
  <2>1. CASE StartSession(i) \/ Edit(i)
    BY <2>1 DEF StartSession, Edit, Working, At, past, TypeOK
  <2>2. CASE RequestChanges(i) \/ Turn \/ Approve(i)
    <3>1. half'[i] = None /\ \A j \in Issues \ {i} : half'[j] = half[j] /\ marker'[j] = marker[j]
      BY <2>2 DEF RequestChanges, Advance, Approve, TypeOK
    <3>2. working = i /\ working' = i /\ ~down /\ ~down' /\ stage # "deleted"
          /\ stage' \in {"feedback", "gate", "pr", "review", "approved"}
      BY <2>2 DEF RequestChanges, Advance, Approve, At
    <3>3. stage' = "feedback" => marker'[i] = "implementing"
      <4>1. CASE RequestChanges(i)
        BY <4>1 DEF RequestChanges, TypeOK
      <4>2. CASE Turn \/ Approve(i)
        BY <4>2 DEF Advance, Approve
      <4> QED BY <2>2, <4>1, <4>2
    <3>4. None \notin AllowedTools \cup {"pr", "review"}
      OBVIOUS
    <3> QED BY <3>1, <3>2, <3>3, <3>4, <1>1
  <2>3. CASE CheckoutAgent(i) \/ DiscardCheckout(i)
    BY <2>3 DEF CheckoutAgent, DiscardCheckout, At, past
  <2>4. CASE MergeConflicts(i) \/ AbortMerge(i) \/ ReturnToBranch(i)
    BY <2>4 DEF MergeConflicts, AbortMerge, ReturnToBranch, At, past
  <2>5. CASE Finish(i)
    BY <2>5 DEF Finish, At, past, TypeOK
  <2>6. CASE RestartCleans(i) \/ RestartChecksOut(i)
    BY <2>6 DEF RestartCleans, RestartChecksOut, MustReset, past
  <2>7. CASE Resume(i)
    BY <2>7, <1>3 DEF Resume, branch_exists, past
  <2> QED BY <2>1, <2>2, <2>3, <2>4, <2>5, <2>6, <2>7
<1> QED BY <1>2, <1>8, <1>9 DEF IInv

LEMMA DownStep ==
    ASSUME IInv, Crash \/ Recovered
    PROVE  IInv'
<1>1. UNCHANGED <<graph, tip, unmerged, mergedTip>>
  BY DEF Crash, Recovered, past
<1>2. TypeOK'
  BY <1>1 DEF Crash, Recovered, past, graph, IInv, TypeOK, Commits, Branches
<1>3. StageInv'
  BY DEF Crash, Recovered, past, IInv, StageInv
<1> QED BY <1>1, <1>2, <1>3, QuietStep DEF IInv

\* Deleting the merged branch, and discarding one before and after a crash.
LEMMA RemovalStep ==
    ASSUME IInv, NEW i \in Issues, DeleteMerged(i) \/ Discard(i) \/ DiscardAndRestart(i)
    PROVE  IInv'
<1>1. UNCHANGED <<graph, mergedTip>> /\ tip' = [tip EXCEPT ![i] = None]
      /\ head = Agent /\ head' = Agent
  BY DEF DeleteMerged, Discard, DiscardAndRestart, Drop, past, At, IInv, StageInv, OnAgent
<1>2. unmerged' = [unmerged EXCEPT ![i] = {}]
  BY DEF DeleteMerged, Discard, DiscardAndRestart, Drop, past, At, IInv, StageInv, TypeOK
<1>3. GraphInv' /\ WorkInv' /\ MergedInv'
  BY <1>1, <1>2, DeleteStep
<1>4. tip'[Agent] # None /\ tip' \in [Branches -> 0..last' \cup {None}]
  BY <1>1 DEF IInv, TypeOK, Branches, graph
<1>5. half' \in [Issues -> Sessions \cup {None}] /\ unmerged' \in [Issues -> SUBSET Commits]
  BY <1>2 DEF DeleteMerged, Discard, DiscardAndRestart, Drop, IInv, TypeOK, past
<1>6. TypeOK'
  BY <1>1, <1>4, <1>5 DEF DeleteMerged, Discard, DiscardAndRestart, Drop, IInv, TypeOK, Stages,
                          Sessions, OnBranch, Commits, graph, Branches, past
<1>7. StageInv'
  <2>1. \A j \in Issues : tip[j] # None /\ j # i => tip'[j] # None
    BY <1>1 DEF IInv, TypeOK, Branches
  <2>2. CASE DeleteMerged(i)
    BY <2>1, <2>2, <1>1, <1>2 DEF DeleteMerged, At, past, IInv, StageInv, TypeOK, AllowedTools
  <2>3. CASE Discard(i) \/ DiscardAndRestart(i)
    <3>1. half'[i] = None /\ \A j \in Issues \ {i} : half'[j] = half[j]
      BY <2>3 DEF Discard, DiscardAndRestart, Drop, IInv, TypeOK
    <3>2. working' = None /\ marker' = marker
      BY <2>3 DEF Discard, DiscardAndRestart, Drop, MustReset, IInv, StageInv
    <3>3. \A j \in Issues \ {i} : unmerged'[j] = unmerged[j]
      BY <1>2 DEF IInv, TypeOK
    <3> QED BY <3>1, <3>2, <3>3 DEF IInv, StageInv, AllowedTools
  <2> QED BY <2>2, <2>3
<1> QED BY <1>3, <1>6, <1>7 DEF IInv

----------------------------------------------------------------------------

THEOREM RecoveryInvariant == Spec => []IInv
<1>1. Init => IInv
  <2> SUFFICES ASSUME Init PROVE IInv
    OBVIOUS
  <2>1. 0 \in Commits /\ 0..last = {0} /\ Agent \in Branches
    BY DEF Init, Commits, Branches
  <2>2. TypeOK
    <3>1. parents \in [Commits -> SUBSET Commits] /\ history \in [Commits -> SUBSET Commits]
      BY <2>1 DEF Init
    <3>2. tip \in [Branches -> 0..last \cup {None}] /\ tip[Agent] # None
      BY <2>1 DEF Init
    <3>3. marker \in [Issues -> Steps \cup {None}] /\ unmerged \in [Issues -> SUBSET Commits]
          /\ mergedTip \in [Issues -> Commits \cup {None}]
      BY DEF Init
    <3>4. last \in Commits /\ head \in Branches /\ tip[head] # None
      BY <2>1, <3>2 DEF Init
    <3>5. dirty \in BOOLEAN /\ working \in Issues \cup {None} /\ stage \in Stages
          /\ down \in BOOLEAN /\ half \in [Issues -> Sessions \cup {None}]
          /\ conflict \in BOOLEAN
      BY DEF Init, Stages, OnBranch
    <3> QED BY <3>1, <3>2, <3>3, <3>4, <3>5 DEF TypeOK
  <2>3. GraphInv
    BY <2>1 DEF Init, GraphInv
  <2>4. WorkInv /\ StageInv /\ MergedInv
    BY DEF Init, WorkInv, StageInv, MergedInv, Branches, AllowedTools
  <2> QED BY <2>2, <2>3, <2>4 DEF IInv
<1>2. IInv /\ [Next]_vars => IInv'
  <2> SUFFICES ASSUME IInv, [Next]_vars PROVE IInv'
    OBVIOUS
  <2>1. CASE Next
    BY <2>1, CreateStep, CommitStep, MergeStep, WorkStep, RemovalStep, DownStep DEF Next
  <2>2. CASE UNCHANGED vars
    BY <2>2 DEF vars, graph, past, IInv, TypeOK, GraphInv, WorkInv, StageInv, MergedInv,
                Delivered, Commits, Branches
  <2> QED BY <2>1, <2>2
<1> QED BY <1>1, <1>2, PTL DEF Spec

\* The state of the repository, of the markers and of the engine keeps its
\* types through crashes and recoveries (git/recovery.py, engine/recovery.py).
THEOREM RecoveryTypeCorrect == Spec => []TypeOK
  BY RecoveryInvariant, PTL DEF IInv

\* A branch with undelivered commits, which neither the agent branch nor any
\* other has, differs from the agent branch, so it is never classified as
\* empty or merged (BranchRecovery.classify).
THEOREM UnmergedWorkIsNeverPassedOver == Spec => []UnmergedWorkIsSeen
<1>1. IInv => UnmergedWorkIsSeen
  <2> SUFFICES ASSUME IInv, NEW i \in Issues, unmerged[i] # {}
               PROVE  classify(i) \in {"dirty", "commits_only"}
    BY DEF UnmergedWorkIsSeen
  <2>1. tip[i] # None /\ tip[Agent] # None /\ Agent \in Branches \ {i}
    BY DEF IInv, WorkInv, TypeOK, Branches
  <2>2. commits_between(Agent, i) # {}
    BY <2>1 DEF IInv, WorkInv, commits_between
  <2> QED BY <2>1, <2>2 DEF classify, branch_exists
<1> QED BY <1>1, RecoveryInvariant, PTL

\* The merge commit stays in the agent branch for good and has the tip of
\* the merged branch as a parent, whatever is merged after it
\* (was_merged_into, classify).
THEOREM MergedBranchIsRecognised == Spec => []MergedIsRecognised
<1>1. IInv => MergedIsRecognised
  <2> SUFFICES ASSUME IInv, NEW i \in Issues, branch_exists(i), mergedTip[i] = tip[i]
               PROVE  classify(i) = "merged"
    BY DEF MergedIsRecognised
  <2>1. Delivered(i)
    BY DEF IInv, MergedInv, branch_exists
  <2>2. commits_between(Agent, i) = {} /\ was_merged_into(i, Agent)
    BY <2>1 DEF Delivered, commits_between, was_merged_into
  <2> QED BY <2>2 DEF classify
<1> QED BY <1>1, RecoveryInvariant, PTL

\* Commits of a session that was allowed tools and did not end lie under the
\* marker written before it began, and a branch with that marker and with
\* commits is reset; with Claude, whose other sessions have no tools, no
\* session's commits are resumed (evaluate_recovery, recovery_action_for).
THEOREM HalfSessionIsAlwaysReset == Spec => []HalfSessionIsReset
<1>1. IInv => HalfSessionIsReset
  <2> SUFFICES ASSUME IInv, NEW i \in Issues, unmerged[i] # {},
                      half[i] \in IF Adapter = "claude" THEN Sessions ELSE AllowedTools
               PROVE  evaluate_recovery(i) = "reset"
    BY DEF HalfSessionIsReset
  <2>1. tip[i] # None /\ tip[Agent] # None /\ Agent \in Branches \ {i}
    BY DEF IInv, WorkInv, TypeOK, Branches
  <2>2. commits_between(Agent, i) # {}
    BY <2>1 DEF IInv, WorkInv, commits_between
  <2>3. marker[i] = "implementing" /\ marker[i] # None
    <3>1. marker[i] = "implementing"
      <4>1. half[i] \in AllowedTools
        BY DEF IInv, StageInv, Sessions, AllowedTools
      <4> QED BY <4>1 DEF IInv, StageInv
    <3>2. "implementing" \in Steps
      BY DEF Steps
    <3> QED BY <3>1, <3>2
  <2> QED BY <2>1, <2>2, <2>3 DEF evaluate_recovery, recovery_action_for, branch_exists
<1> QED BY <1>1, RecoveryInvariant, PTL
=============================================================================
