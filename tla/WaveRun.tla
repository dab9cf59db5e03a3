------------------------------ MODULE WaveRun ------------------------------
(***************************************************************************)
(* A wave from GitHub and back: read_wave collects the issues of the       *)
(* wave's milestones, topological_sort orders them, run_wave prepares the  *)
(* agent branches, has the issues executed and hands off a pull request    *)
(* per repository (wave/, engine/wave_driver.py, handoff/, github/).       *)
(*                                                                         *)
(* What an issue goes through and when the scheduler lets it are the       *)
(* affair of IssuePipeline and WaveScheduler; here an issue is executed in *)
(* one step, after the issues it depends on.                               *)
(***************************************************************************)
EXTENDS Integers, Sequences, FiniteSets, SequencesExt, FiniteSetsExt

CONSTANTS
    Repos,      \* project_config.repos, by position
    Listings,   \* what GitHub may list: for each repo the wave's open issues
    Checkouts,  \* the sets of repos that repo_paths may have
    None,       \* no pull request
    MaxRuns     \* bound: runs of the wave

ASSUME WaveAssumption ==
    /\ Repos \in Nat
    /\ Listings \subseteq [1..Repos -> Seq([number : Nat, deps : Seq(Nat)])]
    /\ Checkouts \subseteq SUBSET (1..Repos)
    /\ MaxRuns \in Nat

VARIABLES
    pc,         \* where the run is
    runs,       \* how many runs have begun
    listing,    \* what GitHub lists
    paths,      \* the repos in repo_paths
    at,         \* the repo that is being read, prepared or handed off
    issues,     \* all_issues, then the WaveIssues
    degree,     \* in_degree
    queue,      \* the numbers in queue, which is kept sorted
    result,     \* the numbers of result, in order
    starts,     \* _find_cycle: the candidates not tried yet
    path,       \* _dfs_cycle: the nodes on the way and where each stands
    visited,    \* the nodes seen since the last start
    cycle,      \* what DependencyCycleError reports
    state,      \* what has become of each issue of this run
    agent,      \* the issues that each agent branch has merged
    remote,     \* the same for the pushed branch
    pulls,      \* what the open pull request of each repo says is completed
    prs         \* the repos whose pull request this run has opened

reading == <<listing, paths, issues>>
sorting == <<degree, queue, result>>
search == <<starts, path, visited, cycle>>
github == <<remote, pulls, prs>>
vars == <<pc, runs, at, reading, sorting, search, state, agent, github>>

Numbers == {issues[k].number : k \in DOMAIN issues}

\* The element of rank k comes as the k-th.
Sorted(S) ==
    [k \in 1..Cardinality(S) |-> CHOOSE x \in S : Cardinality({y \in S : y <= x}) = k]

Init ==
    /\ pc = "read"
    /\ runs = 1
    /\ listing \in Listings
    /\ paths \in Checkouts
    /\ at = 1
    /\ issues = <<>>
    /\ degree = <<>>
    /\ queue = {}
    /\ result = <<>>
    /\ starts = <<>>
    /\ path = <<>>
    /\ visited = {}
    /\ cycle = <<>>
    /\ state = <<>>
    /\ agent = [r \in 1..Repos |-> {}]
    /\ remote = agent
    /\ pulls = [r \in 1..Repos |-> None]
    /\ prs = {}

----------------------------------------------------------------------------
(* read_wave.                                                               *)

\* A request of the client that fails ends the run.
Fails ==
    /\ pc \in {"read", "branches"}
    /\ at <= Repos
    /\ pc' = "over"
    /\ UNCHANGED <<runs, at, reading, sorting, search, state, agent, github>>

\* list_milestones and list_issues; a repo without the milestone lists none.
ReadRepo ==
    /\ pc = "read"
    /\ at <= Repos
    /\ issues' = issues \o [k \in DOMAIN listing[at] |->
                               [number |-> listing[at][k].number, repo |-> at,
                                deps |-> listing[at][k].deps]]
    /\ at' = at + 1
    /\ UNCHANGED <<pc, runs, listing, paths, sorting, search, state, agent, github>>

\* run_wave refuses a wave without issues.
Unplanned ==
    /\ pc = "read"
    /\ at > Repos
    /\ issues = <<>>
    /\ pc' = "over"
    /\ UNCHANGED <<runs, at, reading, sorting, search, state, agent, github>>

----------------------------------------------------------------------------
(* topological_sort.                                                        *)

\* Mutant: dependencies are counted whether or not they are in the wave.
InDegreeOfAll(n) ==
    Cardinality(UNION {{<<k, j>> : j \in DOMAIN issues[k].deps} :
                       k \in {k \in DOMAIN issues : issues[k].number = n}})

\* Each mention of an issue of the wave counts.
InDegree(n) ==
    Cardinality(UNION {{<<k, j>> : j \in {j \in DOMAIN issues[k].deps :
                                             issues[k].deps[j] \in Numbers}} :
                       k \in {k \in DOMAIN issues : issues[k].number = n}})

Waiting(n, d) ==
    Cardinality({k \in DOMAIN issues : issues[k].number = n /\ Contains(issues[k].deps, d)})

\* by_number: of issues with the same number the last one is kept.
by_number(n) == issues[CHOOSE k \in DOMAIN issues :
                          /\ issues[k].number = n
                          /\ \A j \in DOMAIN issues : issues[j].number = n => j <= k]

BeginSort ==
    /\ pc = "read"
    /\ at > Repos
    /\ issues # <<>>
    /\ pc' = "sort"
    /\ degree' = [n \in Numbers |-> InDegree(n)]
    /\ queue' = {n \in Numbers : degree'[n] = 0}
    /\ UNCHANGED <<runs, at, reading, result, search, state, agent, github>>

\* An issue is released when its count reaches zero, once for each task that
\* names the one taken.
TakeFirst ==
    /\ pc = "sort"
    /\ queue # {}
    /\ LET current == Min(queue)
       IN  /\ result' = Append(result, current)
           /\ degree' = [n \in Numbers |-> degree[n] - Waiting(n, current)]
           /\ queue' = (queue \ {current})
                           \cup {n \in Numbers : degree[n] > 0 /\ degree'[n] <= 0}
    /\ UNCHANGED <<pc, runs, at, reading, search, state, agent, github>>

Candidates == Numbers \ Range(result)

EndSort ==
    /\ pc = "sort"
    /\ queue = {}
    /\ IF Candidates = {} THEN pc' = "branches" /\ UNCHANGED starts
       ELSE pc' = "cycle" /\ starts' = Sorted(Candidates)
    /\ at' = 1
    /\ UNCHANGED <<runs, reading, sorting, path, visited, cycle, state, agent, github>>

----------------------------------------------------------------------------
(* _find_cycle and _dfs_cycle.                                              *)

NextStart ==
    /\ pc = "cycle"
    /\ path = <<>>
    /\ starts # <<>>
    /\ path' = <<[node |-> Head(starts), dep |-> 1]>>
    /\ visited' = {Head(starts)}
    /\ starts' = Tail(starts)
    /\ UNCHANGED <<pc, runs, at, reading, sorting, cycle, state, agent, github>>

\* The next dependency of the node at the end of the path: leave the node if
\* there is none, report a node seen before, or go on from the dependency.
Follow ==
    /\ pc = "cycle"
    /\ path # <<>>
    /\ LET node == Last(path).node
           deps == by_number(node).deps
           k == Last(path).dep
           seen == {j \in DOMAIN path : path[j].node = deps[k]}
           rest == Front(path)
           moved == Append(rest, [node |-> node, dep |-> k + 1])
       IN  IF k > Len(deps) THEN
               path' = rest /\ UNCHANGED <<pc, visited, cycle>>
           ELSE IF deps[k] \notin Candidates THEN
               path' = moved /\ UNCHANGED <<pc, visited, cycle>>
           ELSE IF deps[k] \notin visited THEN
               /\ path' = Append(moved, [node |-> deps[k], dep |-> 1])
               /\ visited' = visited \cup {deps[k]}
               /\ UNCHANGED <<pc, cycle>>
           ELSE
               /\ LET from == IF seen = {} THEN 1 ELSE Min(seen)
                  IN  cycle' = Append([j \in 1..Len(path) - from + 1 |-> path[from + j - 1].node],
                                      deps[k])
               /\ pc' = "over"
               /\ UNCHANGED <<path, visited>>
    /\ UNCHANGED <<runs, at, reading, sorting, starts, state, agent, github>>

\* No cycle was found: all the candidates are reported.
NoCycleFound ==
    /\ pc = "cycle"
    /\ path = <<>>
    /\ starts = <<>>
    /\ cycle' = Sorted(Candidates)
    /\ pc' = "over"
    /\ UNCHANGED <<runs, at, reading, sorting, starts, path, visited, state, agent, github>>

----------------------------------------------------------------------------
(* run_wave up to the hand-off.                                             *)

\* AgentBranch.create_or_reuse of each repo that has a checkout.
PrepareBranch ==
    /\ pc = "branches"
    /\ at <= Repos
    /\ at' = at + 1
    /\ UNCHANGED <<pc, runs, reading, sorting, search, state, agent, github>>

BeginIssues ==
    /\ pc = "branches"
    /\ at > Repos
    /\ pc' = "issues"
    /\ state' = [n \in Range(result) |-> "waiting"]
    /\ UNCHANGED <<runs, at, reading, sorting, search, agent, github>>

DependsOn(n) == Range(by_number(n).deps) \cap Range(result)

\* An issue of a repo without a checkout raises KeyError.
Verdicts(n) == IF by_number(n).repo \in paths THEN {"completed", "parked", "raised"}
               ELSE {"raised"}

ExecuteIssue(n, verdict) ==
    /\ pc = "issues"
    /\ n \in DOMAIN state
    /\ state[n] = "waiting"
    /\ \A d \in DependsOn(n) : state[d] # "waiting"
    /\ verdict \in Verdicts(n)
    /\ state' = [state EXCEPT ![n] = verdict]
    /\ agent' = IF verdict = "completed" THEN [agent EXCEPT ![by_number(n).repo] = @ \cup {n}]
                ELSE agent
    /\ UNCHANGED <<pc, runs, at, reading, sorting, search, github>>

\* all_outcomes: an exception of any issue leaves none completed.
Completed ==
    IF \E n \in DOMAIN state : state[n] = "raised" THEN {}
    ELSE {n \in DOMAIN state : state[n] = "completed"}

BeginHandOff ==
    /\ pc = "issues"
    /\ \A n \in DOMAIN state : state[n] # "waiting"
    /\ pc' = "push"
    /\ at' = 1
    /\ UNCHANGED <<runs, reading, sorting, search, state, agent, github>>

----------------------------------------------------------------------------
(* HandoffEngine.push_and_open_pr for each repo; a failure of it is passed  *)
(* over.                                                                    *)

HandingOff == at <= Repos /\ at \in paths

NextRepo == at' = at + 1 /\ pc' = "push"

Push ==
    /\ pc = "push"
    /\ HandingOff
    /\ remote' = [remote EXCEPT ![at] = agent[at]]
    /\ pc' = "open"
    /\ UNCHANGED <<runs, at, reading, sorting, search, state, agent, pulls, prs>>

\* Mutant: a push that failed does not stop the pull request.
PushFailsUnseen ==
    /\ pc = "push"
    /\ HandingOff
    /\ pc' = "open"
    /\ UNCHANGED <<runs, at, reading, sorting, search, state, agent, github>>

PushFails ==
    /\ pc = "push"
    /\ HandingOff
    /\ NextRepo
    /\ UNCHANGED <<runs, reading, sorting, search, state, agent, github>>

OpenPull ==
    /\ pc = "open"
    /\ pulls[at] = None
    /\ pulls' = [pulls EXCEPT ![at] = Completed]
    /\ \/ prs' = prs \cup {at}
       \/ UNCHANGED prs         \* the answer is lost
    /\ NextRepo
    /\ UNCHANGED <<runs, reading, sorting, search, state, agent, remote>>

\* GitHub cannot be reached or refuses, for instance because the branch has a
\* pull request already.
OpenFails ==
    /\ pc = "open"
    /\ NextRepo
    /\ UNCHANGED <<runs, reading, sorting, search, state, agent, github>>

SkipRepo ==
    /\ pc = "push"
    /\ at <= Repos
    /\ at \notin paths
    /\ NextRepo
    /\ UNCHANGED <<runs, reading, sorting, search, state, agent, github>>

EndRun ==
    /\ pc = "push"
    /\ at > Repos
    /\ pc' = "over"
    /\ UNCHANGED <<runs, at, reading, sorting, search, state, agent, github>>

\* The wave is run again: its issues are still open.
RunAgain ==
    /\ pc = "over"
    /\ runs < MaxRuns
    /\ runs' = runs + 1
    /\ pc' = "read"
    /\ at' = 1
    /\ issues' = <<>>
    /\ degree' = <<>> /\ queue' = {} /\ result' = <<>>
    /\ starts' = <<>> /\ path' = <<>> /\ visited' = {} /\ cycle' = <<>>
    /\ state' = <<>>
    /\ prs' = {}
    /\ UNCHANGED <<listing, paths, agent, remote, pulls>>

Next ==
    \/ Fails \/ ReadRepo \/ Unplanned
    \/ BeginSort \/ TakeFirst \/ EndSort
    \/ NextStart \/ Follow \/ NoCycleFound
    \/ PrepareBranch \/ BeginIssues
    \/ \E n \in Numbers, v \in {"completed", "parked", "raised"} : ExecuteIssue(n, v)
    \/ BeginHandOff
    \/ Push \/ PushFails \/ OpenPull \/ OpenFails \/ SkipRepo \/ EndRun
    \/ RunAgain

Spec == Init /\ [][Next]_vars

----------------------------------------------------------------------------

Edge(n, d) == \E k \in DOMAIN issues : issues[k].number = n /\ Contains(issues[k].deps, d)

\* No number is used in two repositories and no dependency named twice.
Plain ==
    /\ Cardinality(Numbers) = Len(issues)
    /\ \A k \in DOMAIN issues : IsInjective(issues[k].deps)

\* The list of the issues depends on nothing that comes later, and names no
\* issue twice, also where two repositories use the same number; and a wave
\* is refused for a cycle only if the reported one exists, unless a number or
\* a dependency is there twice (topological_sort, _find_cycle).
OrderIsSound ==
    /\ IsInjective(result)
    /\ \A k \in DOMAIN result : \A d \in Numbers :
           Edge(result[k], d) => \E j \in 1..k - 1 : result[j] = d
    /\ cycle # <<>> /\ Plain =>
           /\ Len(cycle) > 1
           /\ Head(cycle) = Last(cycle)
           /\ \A k \in 1..Len(cycle) - 1 : Edge(cycle[k], cycle[k + 1])

\* What a pull request says was completed has been pushed, if it is of its
\* own repository, and merged in any case, also when an earlier run opened
\* it; and a pull request that the run returns is up to date
\* (the hand-off of run_wave, push_and_open_pr).
HandOffIsTrue ==
    \A r \in 1..Repos :
        /\ pulls[r] # None =>
               /\ pulls[r] \subseteq UNION {agent[q] : q \in 1..Repos}
               /\ \A n \in pulls[r] : n \in agent[r] => n \in remote[r]
        /\ r \in prs =>
               /\ remote[r] = agent[r]
               /\ pulls[r] = Completed
=============================================================================
