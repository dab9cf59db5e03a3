---------------------------- MODULE WaveRunProofs ----------------------------
(***************************************************************************)
(* Theorems about a wave from GitHub and back, for any number of           *)
(* repositories, any issues with any dependencies among them and any       *)
(* number of runs.                                                         *)
(***************************************************************************)
EXTENDS WaveRun, FiniteSetTheorems, SequenceTheorems, NaturalsInduction, WellFoundedInduction, TLAPS

USE WaveAssumption DEF WaveAssumption

Records == [number : Nat, repo : 1..Repos, deps : Seq(Nat)]

TypeOK ==
    /\ pc \in {"read", "sort", "cycle", "branches", "issues", "push", "open", "over"}
    /\ at \in 1..Repos + 1
    /\ listing \in Listings
    /\ paths \subseteq 1..Repos
    /\ issues \in Seq(Records)
    /\ queue \subseteq Numbers
    /\ result \in Seq(Nat) /\ Range(result) \subseteq Numbers
    /\ agent \in [1..Repos -> SUBSET Nat]
    /\ remote \in [1..Repos -> SUBSET Nat]
    /\ pulls \in [1..Repos -> {None} \cup SUBSET Nat]
    /\ prs \subseteq 1..Repos

----------------------------------------------------------------------------
(* The hand-off.                                                            *)

ListedIn(r) == {listing[r][l].number : l \in DOMAIN listing[r]}

\* The issues come repo by repo, and those of a repo that has been read are
\* all there.
ReadInv ==
    /\ \A k \in DOMAIN issues : issues[k].number \in ListedIn(issues[k].repo)
    /\ \A j, k \in DOMAIN issues : j <= k => issues[j].repo <= issues[k].repo
    /\ pc = "read" => \A k \in DOMAIN issues : issues[k].repo < at
    /\ \A r \in 1..Repos :
           (IF pc = "read" THEN r < at ELSE pc # "over") =>
               \A n \in ListedIn(r) : \E k \in DOMAIN issues :
                   issues[k].number = n /\ issues[k].repo = r

\* An issue is merged in the last of the repos that list its number, and that
\* is the same repo in each run.
HomeInv ==
    \A r \in 1..Repos : \A n \in agent[r] :
        n \in ListedIn(r) /\ \A q \in 1..Repos : q > r => n \notin ListedIn(q)

\* The issues of this run are among those of the wave, and a completed one is
\* merged.
StateInv ==
    /\ pc \in {"read", "sort", "cycle", "branches"} => state = <<>>
    /\ DOMAIN state \subseteq Numbers
    /\ \A n \in DOMAIN state : state[n] = "completed" => \E r \in 1..Repos : n \in agent[r]

HandOffInv ==
    /\ pc \notin {"push", "open", "over"} => prs = {}
    /\ pc \in {"push", "open"} => \A r \in prs : r < at
    /\ pc = "open" => at \in 1..Repos /\ remote[at] = agent[at]
    /\ HandOffIsTrue

----------------------------------------------------------------------------
(* The order.                                                               *)

\* Where the issues of number n name one of D.
Mentions(n, D) ==
    UNION {{<<k, j>> : j \in {j \in DOMAIN issues[k].deps : issues[k].deps[j] \in D}} :
           k \in {k \in DOMAIN issues : issues[k].number = n}}

ResultSound ==
    /\ IsInjective(result)
    /\ \A k \in DOMAIN result : \A d \in Numbers :
           Edge(result[k], d) => \E j \in 1..k - 1 : result[j] = d

\* The count of an issue is at least the number of mentions left, and exactly
\* that without doubles; at zero it is in the queue or in the result.
SortInv ==
    /\ pc = "read" => result = <<>> /\ queue = {}
    /\ pc = "sort" =>
           /\ degree \in [Numbers -> Int]
           /\ queue \cap Range(result) = {}
           /\ \A n \in Numbers : degree[n] <= 0 <=> n \in queue \cup Range(result)
           /\ \A n \in Numbers :
                  /\ Cardinality(Mentions(n, Candidates)) <= degree[n]
                  /\ Plain => Cardinality(Mentions(n, Candidates)) = degree[n]
    /\ ResultSound

----------------------------------------------------------------------------
(* The search for a cycle.                                                  *)

Awaits(n, j) == j \in DOMAIN by_number(n).deps /\ by_number(n).deps[j] \in Candidates

CycleSound ==
    cycle # <<>> /\ Plain =>
        /\ Len(cycle) > 1
        /\ Head(cycle) = Last(cycle)
        /\ \A k \in 1..Len(cycle) - 1 : Edge(cycle[k], cycle[k + 1])

\* Without doubles every candidate waits for another, so the search only ever
\* goes on from the end of its path until it meets the path again.
PathInv ==
    /\ path \in Seq([node : Candidates, dep : Nat \ {0}])
    /\ path = <<>> => starts # <<>> /\ Head(starts) \in Candidates
    /\ path # <<>> => visited = {path[j].node : j \in DOMAIN path}
    /\ path # <<>> => \E j \in Nat : Last(path).dep <= j /\ Awaits(Last(path).node, j)
    /\ \A j \in 1..Len(path) - 1 : Edge(path[j].node, path[j + 1].node)

CycleInv ==
    /\ pc \notin {"cycle", "over"} => path = <<>>
    /\ pc # "over" => cycle = <<>>
    /\ pc = "cycle" /\ Plain => (\A n \in Candidates : \E j \in Nat : Awaits(n, j)) /\ PathInv
    /\ CycleSound

IInv == TypeOK /\ ReadInv /\ HomeInv /\ StateInv /\ HandOffInv /\ SortInv /\ CycleInv

----------------------------------------------------------------------------
(* Numbers and sequences.                                                   *)

LEMMA SmallerIsWellFounded ==
    \E R : IsWellFoundedOn(R, Nat) /\ \A x, y \in Nat : y < x => <<y, x>> \in R
<1> DEFINE R == OpToRel(<, Nat)
<1>1. IsWellFoundedOn(R, Nat)
  BY NatLessThanWellFounded
<1>2. \A x, y \in Nat : y < x => <<y, x>> \in R
  BY DEF OpToRel
<1> HIDE DEF R
<1> QED BY <1>1, <1>2

LEMMA LeastElement ==
    ASSUME NEW T \in SUBSET Nat, T # {}
    PROVE  \E n \in T : \A m \in T : n <= m
<1>1. PICK R : IsWellFoundedOn(R, Nat) /\ \A x, y \in Nat : y < x => <<y, x>> \in R
  BY SmallerIsWellFounded
<1>2. \E x \in T : \A y \in T : ~(<<y, x>> \in R)
  <2>1. IsWellFoundedOn(R, Nat) /\ T \subseteq Nat /\ T # {}
    BY <1>1
  <2> QED BY <2>1, WFMin, Zenon
<1>3. PICK x \in T : \A y \in T : ~(<<y, x>> \in R)
  BY <1>2
<1>4. ASSUME NEW y \in T PROVE x <= y
  <2>1. x \in Nat /\ y \in Nat /\ ~(y < x)
    BY <1>1, <1>3
  <2> QED BY <2>1
<1> QED BY <1>4

\* The smallest number of a set is there.
LEMMA MinIs ==
    ASSUME NEW T \in SUBSET Nat, T # {}
    PROVE  Min(T) \in T /\ \A m \in T : Min(T) <= m
  BY LeastElement DEF Min

\* The elements up to x: their number is the rank by which Sorted places x.
Upto(S, x) == {y \in S : y <= x}

LEMMA RanksDiffer ==
    ASSUME NEW S \in SUBSET Nat, IsFiniteSet(S)
    PROVE  /\ \A x \in S : Cardinality(Upto(S, x)) \in 1..Cardinality(S)
           /\ \A x, y \in S : x < y => Cardinality(Upto(S, x)) < Cardinality(Upto(S, y))
<1>1. Cardinality(S) \in Nat
  BY FS_CardinalityType
<1>2. ASSUME NEW x \in S
      PROVE  /\ IsFiniteSet(Upto(S, x)) /\ Cardinality(Upto(S, x)) \in Nat \ {0}
             /\ Cardinality(Upto(S, x)) <= Cardinality(S)
  <2>1. x \in Upto(S, x) /\ Upto(S, x) \in SUBSET S
    BY DEF Upto
  <2>2. IsFiniteSet(Upto(S, x)) /\ Cardinality(Upto(S, x)) <= Cardinality(S)
    BY <2>1, FS_Subset
  <2> QED BY <2>1, <2>2, FS_CardinalityType, FS_EmptySet
<1>3. ASSUME NEW x \in S, NEW y \in S, x < y
      PROVE  Cardinality(Upto(S, x)) < Cardinality(Upto(S, y))
  <2>1. Upto(S, x) \in SUBSET Upto(S, y) /\ Upto(S, x) # Upto(S, y)
    <3>1. (\A z \in S : z <= x => z <= y) /\ ~(y <= x) /\ y <= y
      BY <1>3
    <3> QED BY <3>1 DEF Upto
  <2>2. IsFiniteSet(Upto(S, y))
    BY <1>2
  <2>3. /\ Cardinality(Upto(S, x)) <= Cardinality(Upto(S, y))
        /\ Cardinality(Upto(S, x)) # Cardinality(Upto(S, y))
    BY <2>1, <2>2, FS_Subset
  <2>4. Cardinality(Upto(S, x)) \in Nat /\ Cardinality(Upto(S, y)) \in Nat
    BY <1>2
  <2> QED BY <2>3, <2>4
<1> QED BY <1>1, <1>2, <1>3

\* A sorted sequence has elements of the set only, and some if the set has.
LEMMA SortedIs ==
    ASSUME NEW S \in SUBSET Nat, IsFiniteSet(S)
    PROVE  Sorted(S) \in Seq(S) /\ (S # {} => Sorted(S) # <<>>)
<1> DEFINE c == Cardinality(S)
           rank == [x \in S |-> Cardinality(Upto(S, x))]
<1>1. c \in Nat /\ (S # {} => c # 0)
  BY FS_CardinalityType, FS_EmptySet
<1>2. rank \in Injection(S, 1..c)
  <2>1. \A x \in S : rank[x] \in 1..c
    BY RanksDiffer
  <2>2. ASSUME NEW x \in S, NEW y \in S, x # y PROVE rank[x] # rank[y]
    <3>1. x < y \/ y < x
      BY <2>2
    <3>2. rank[x] < rank[y] \/ rank[y] < rank[x]
      BY <3>1, RanksDiffer
    <3>3. rank[x] \in Int /\ rank[y] \in Int
      BY <1>1, <2>1
    <3> QED BY <3>2, <3>3
  <2> QED BY <2>1, <2>2 DEF Injection, IsInjective
<1>3. rank \in Surjection(S, 1..c)
  <2>1. IsFiniteSet(1..c) /\ Cardinality(1..c) = c
    BY <1>1, FS_Interval
  <2> HIDE DEF rank
  <2> QED BY <1>2, <2>1, FS_Injection
<1>4. \A k \in 1..c : \E x \in S : Cardinality(Upto(S, x)) = k
  BY <1>3 DEF Surjection
<1> HIDE DEF rank
<1> DEFINE place(k) == CHOOSE x \in S : Cardinality(Upto(S, x)) = k
<1>5. Sorted(S) = [k \in 1..c |-> place(k)]
  BY DEF Sorted, Upto
<1>6. \A k \in 1..c : place(k) \in S
  BY <1>4
<1>7. Sorted(S) \in Seq(S) /\ Len(Sorted(S)) = c
  <2> HIDE DEF place, c
  <2> QED BY <1>1, <1>5, <1>6
<1> QED BY <1>1, <1>7

LEMMA ConcatIs ==
    ASSUME NEW S, NEW p \in Seq(S), NEW q \in Seq(S), NEW t, t = p \o q
    PROVE  /\ t \in Seq(S)
           /\ \A k \in DOMAIN p : k \in DOMAIN t /\ t[k] = p[k]
           /\ \A k \in DOMAIN q : Len(p) + k \in DOMAIN t /\ t[Len(p) + k] = q[k]
           /\ \A k \in DOMAIN t : k \in DOMAIN p \/ (k - Len(p) \in DOMAIN q /\ t[k] = q[k - Len(p)])
<1>1. t \in Seq(S) /\ Len(t) = Len(p) + Len(q)
  OBVIOUS
<1>2. \A k \in DOMAIN p : k \in DOMAIN t /\ t[k] = p[k]
  OBVIOUS
<1>3. \A k \in DOMAIN q : Len(p) + k \in DOMAIN t /\ t[Len(p) + k] = q[k]
  OBVIOUS
<1>4. ASSUME NEW k \in DOMAIN t, k \notin DOMAIN p
      PROVE  k - Len(p) \in DOMAIN q /\ t[k] = q[k - Len(p)]
  <2>1. k - Len(p) \in DOMAIN q /\ Len(p) + (k - Len(p)) = k
    BY <1>1, <1>4
  <2> QED BY <2>1, <1>3
<1> QED BY <1>1, <1>2, <1>3, <1>4

\* by_number finds the last issue of the number.
LEMMA ByNumberIs ==
    ASSUME TypeOK, NEW n \in Numbers
    PROVE  \E k \in DOMAIN issues :
               /\ by_number(n) = issues[k] /\ issues[k].number = n
               /\ \A j \in DOMAIN issues : issues[j].number = n => j <= k
<1> DEFINE last(k) == /\ issues[k].number = n
                      /\ \A j \in DOMAIN issues : issues[j].number = n => j <= k
           T == {m \in Nat : \E k \in DOMAIN issues : issues[k].number = n /\ m = Len(issues) - k}
<1>1. Len(issues) \in Nat /\ DOMAIN issues = 1..Len(issues)
  BY DEF TypeOK
<1>2. PICK k \in DOMAIN issues : issues[k].number = n
  BY DEF Numbers
<1>3. Len(issues) - k \in T
  BY <1>1, <1>2
<1>4. PICK m \in T : \A l \in T : m <= l
  BY <1>3, LeastElement
<1>5. PICK j \in DOMAIN issues : issues[j].number = n /\ m = Len(issues) - j
  BY <1>4
<1>6. ASSUME NEW i \in DOMAIN issues, issues[i].number = n
      PROVE  i <= j
  <2>1. Len(issues) - i \in T
    BY <1>1, <1>6
  <2> QED BY <1>1, <1>4, <1>5, <2>1
<1>7. last(j)
  BY <1>5, <1>6
<1>8. by_number(n) = issues[CHOOSE i \in DOMAIN issues : last(i)]
  BY DEF by_number
<1> HIDE DEF last
<1>9. PICK i \in DOMAIN issues : last(i) /\ by_number(n) = issues[i]
  BY <1>7, <1>8
<1> QED BY <1>9 DEF last

\* A repo without doubles: each issue has its own number.
LEMMA PlainNumbers ==
    ASSUME TypeOK, Plain, NEW k \in DOMAIN issues, NEW j \in DOMAIN issues,
           issues[k].number = issues[j].number
    PROVE  k = j
<1> DEFINE D == DOMAIN issues
           f == [i \in D |-> issues[i].number]
<1>1. Len(issues) \in Nat /\ D = 1..Len(issues)
  BY DEF TypeOK
<1>2. IsFiniteSet(D) /\ Cardinality(D) = Len(issues)
  <2>1. \A n \in Nat : IsFiniteSet(1..n) /\ Cardinality(1..n) = n
    BY FS_Interval
  <2> QED BY <1>1, <2>1
<1>3. f \in Surjection(D, Numbers)
  BY DEF Numbers, Surjection
<1>4. Cardinality(D) = Cardinality(Numbers)
  BY <1>2 DEF Plain
<1>5. f \in Injection(D, Numbers)
  BY <1>2, <1>3, <1>4, FS_SurjSameCardinalityImpliesInj
<1>6. f[k] = f[j]
  OBVIOUS
<1> HIDE DEF f
<1>7. \A a, b \in D : f[a] = f[b] => a = b
  BY <1>5 DEF Injection, IsInjective
<1> QED BY <1>6, <1>7

LEMMA NumbersAreFinite ==
    ASSUME TypeOK
    PROVE  Numbers \subseteq Nat /\ IsFiniteSet(Numbers)
<1> DEFINE D == DOMAIN issues
           f == [i \in D |-> issues[i].number]
<1>1. Len(issues) \in Nat /\ D = 1..Len(issues)
  BY DEF TypeOK
<1>2. IsFiniteSet(D)
  BY <1>1, FS_Interval
<1>3. f \in Surjection(D, Numbers)
  BY DEF Numbers, Surjection
<1>4. Numbers \subseteq Nat
  <2>1. \A k \in DOMAIN issues : issues[k] \in Records
    BY DEF TypeOK
  <2> QED BY <2>1 DEF Numbers, Records
<1> QED BY <1>2, <1>3, <1>4, FS_Surjection

\* What a repo lists is appended.
LEMMA RepoIsAppended ==
    ASSUME TypeOK, ReadRepo
    PROVE  /\ issues' \in Seq(Records)
           /\ \A k \in DOMAIN issues : k \in DOMAIN issues' /\ issues'[k] = issues[k]
           /\ \A n \in ListedIn(at) :
                  \E k \in DOMAIN issues' : issues'[k].number = n /\ issues'[k].repo = at
           /\ \A k \in DOMAIN issues' :
                  \/ k \in DOMAIN issues
                  \/ /\ \A j \in DOMAIN issues : j < k
                     /\ issues'[k].repo = at /\ issues'[k].number \in ListedIn(at)
<1> DEFINE l == listing[at]
           new == [k \in DOMAIN l |-> [number |-> l[k].number, repo |-> at, deps |-> l[k].deps]]
<1>1. at \in 1..Repos /\ l \in Seq([number : Nat, deps : Seq(Nat)]) /\ issues' = issues \o new
  <2>1. at \in 1..Repos /\ issues' = issues \o new
    BY DEF TypeOK, ReadRepo
  <2>2. listing \in [1..Repos -> Seq([number : Nat, deps : Seq(Nat)])]
    BY DEF TypeOK
  <2> QED BY <2>1, <2>2
<1>2. \A k \in DOMAIN l : l[k].number \in ListedIn(at)
  BY DEF ListedIn
<1>3. \A n \in ListedIn(at) : \E k \in DOMAIN l : l[k].number = n
  BY DEF ListedIn
<1> HIDE DEF l
<1>4. Len(l) \in Nat /\ DOMAIN l = 1..Len(l) /\ DOMAIN new = DOMAIN l
  BY <1>1
<1>5. ASSUME NEW k \in DOMAIN l
      PROVE  new[k] \in Records /\ new[k].number = l[k].number /\ new[k].repo = at
  <2>0. l[k] \in [number : Nat, deps : Seq(Nat)]
    <3>1. \A S : \A s \in Seq(S) : \A i \in DOMAIN s : s[i] \in S
      OBVIOUS
    <3> QED BY <1>1, <3>1, Zenon
  <2>1. l[k].number \in Nat /\ l[k].deps \in Seq(Nat)
    BY <2>0
  <2> QED BY <1>1, <2>1 DEF Records
<1> HIDE DEF new
<1>6. new \in Seq(Records)
  <2>1. new = [k \in 1..Len(l) |-> new[k]]
    BY <1>4 DEF new
  <2> QED BY <2>1, <1>4, <1>5
<1>7. issues \in Seq(Records)
  BY DEF TypeOK
<1>8. /\ issues' \in Seq(Records)
      /\ \A k \in DOMAIN issues : k \in DOMAIN issues' /\ issues'[k] = issues[k]
  BY <1>1, <1>6, <1>7, ConcatIs
<1>9. \A k \in DOMAIN new :
          Len(issues) + k \in DOMAIN issues' /\ issues'[Len(issues) + k] = new[k]
  BY <1>1, <1>6, <1>7, ConcatIs
<1>10. \A k \in DOMAIN issues' :
           \/ k \in DOMAIN issues
           \/ k - Len(issues) \in DOMAIN new /\ issues'[k] = new[k - Len(issues)]
  BY <1>1, <1>6, <1>7, ConcatIs
<1>11. ASSUME NEW n \in ListedIn(at)
       PROVE  \E k \in DOMAIN issues' : issues'[k].number = n /\ issues'[k].repo = at
  <2>1. PICK k \in DOMAIN l : l[k].number = n
    BY <1>3
  <2> QED BY <2>1, <1>4, <1>5, <1>9
<1>12. ASSUME NEW k \in DOMAIN issues', k \notin DOMAIN issues
       PROVE  /\ \A j \in DOMAIN issues : j < k
              /\ issues'[k].repo = at /\ issues'[k].number \in ListedIn(at)
  <2>1. k - Len(issues) \in DOMAIN l /\ issues'[k] = new[k - Len(issues)]
    BY <1>4, <1>10, <1>12
  <2>2. k \in Nat /\ Len(issues) \in Nat /\ DOMAIN issues = 1..Len(issues)
    BY <1>7, <1>8
  <2> QED BY <1>2, <1>4, <1>5, <2>1, <2>2
<1> QED BY <1>8, <1>11, <1>12

----------------------------------------------------------------------------
(* Types.                                                                   *)

LEMMA InitIInv ==
    ASSUME Init
    PROVE  IInv
<1>1. /\ listing \in Listings /\ paths \subseteq 1..Repos /\ Numbers = {}
      /\ issues \in Seq(Records) /\ DOMAIN issues = {} /\ DOMAIN result = {}
      /\ result \in Seq(Nat) /\ DOMAIN state = {}
  BY DEF Init, Numbers
<1>2. TypeOK
  BY <1>1 DEF Init, TypeOK, Range
<1>3. ReadInv /\ HomeInv /\ StateInv
  BY <1>1 DEF Init, ReadInv, HomeInv, StateInv
<1>4. HandOffInv
  BY DEF Init, HandOffInv, HandOffIsTrue
<1>5. SortInv /\ CycleInv
  BY <1>1 DEF Init, SortInv, CycleInv, ResultSound, CycleSound, IsInjective
<1> QED BY <1>2, <1>3, <1>4, <1>5 DEF IInv

\* Whoever leaves the issues alone leaves their numbers alone.
LEMMA TypeStep ==
    ASSUME IInv, Next
    PROVE  TypeOK'
<1> USE DEF reading, sorting, search, github, NextRepo
<1>1. TypeOK /\ StateInv /\ HandOffInv /\ SortInv
  BY DEF IInv
<1>2. issues' = issues => Numbers' = Numbers
  BY DEF Numbers
<1>3. CASE Fails \/ Unplanned \/ NextStart \/ Follow \/ NoCycleFound \/ PrepareBranch \/ BeginIssues
           \/ BeginHandOff \/ EndRun
  <2>1. /\ UNCHANGED <<listing, paths, issues, queue, result, agent, remote, pulls, prs>>
        /\ pc' \in {pc, "over", "issues", "push"}
    BY <1>3 DEF Fails, Unplanned, NextStart, Follow, NoCycleFound, PrepareBranch, BeginIssues,
       BeginHandOff, EndRun
  <2>2. at' = at \/ at' = 1 \/ (at <= Repos /\ at' = at + 1)
    BY <1>3 DEF Fails, Unplanned, NextStart, Follow, NoCycleFound, PrepareBranch, BeginIssues,
       BeginHandOff, EndRun
  <2> QED BY <1>1, <1>2, <2>1, <2>2 DEF TypeOK
<1>4. CASE ReadRepo
  <2>1. result = <<>> /\ queue = {}
    BY <1>1, <1>4 DEF SortInv, ReadRepo
  <2>2. issues' \in Seq(Records)
    BY <1>1, <1>4, RepoIsAppended
  <2> QED BY <1>1, <1>4, <2>1, <2>2 DEF ReadRepo, TypeOK, Range
<1>5. CASE BeginSort
  BY <1>1, <1>2, <1>5 DEF BeginSort, TypeOK
<1>6. CASE TakeFirst
  <2>1. Numbers \subseteq Nat /\ queue \subseteq Numbers /\ queue # {}
    BY <1>1, <1>6, NumbersAreFinite DEF TypeOK, TakeFirst
  <2>2. Min(queue) \in queue
    BY <2>1, MinIs
  <2>3. result' = Append(result, Min(queue)) /\ queue' \subseteq Numbers /\ UNCHANGED issues
    BY <1>6, <2>1 DEF TakeFirst
  <2>4. result' \in Seq(Nat) /\ Range(result') \subseteq Numbers
    <3>1. result \in Seq(Nat) /\ Min(queue) \in Nat
      BY <1>1, <2>1, <2>2 DEF TypeOK
    <3>2. /\ result' \in Seq(Nat)
          /\ \A k \in DOMAIN result' :
                 result'[k] = Min(queue) \/ (k \in DOMAIN result /\ result'[k] = result[k])
      BY <2>3, <3>1
    <3> QED BY <1>1, <2>1, <2>2, <3>2 DEF Range, TypeOK
  <2> QED BY <1>1, <1>2, <1>6, <2>3, <2>4 DEF TakeFirst, TypeOK
<1>7. CASE EndSort
  BY <1>1, <1>2, <1>7 DEF EndSort, TypeOK
<1>8. ASSUME NEW n \in Numbers, NEW v \in {"completed", "parked", "raised"}, ExecuteIssue(n, v)
      PROVE  TypeOK'
  <2>1. agent' \in [1..Repos -> SUBSET Nat]
    <3>1. n \in Nat /\ by_number(n).repo \in 1..Repos
      <4>1. PICK k \in DOMAIN issues : by_number(n) = issues[k]
        BY <1>1, ByNumberIs
      <4>2. issues[k] \in Records
        BY <1>1 DEF TypeOK
      <4> QED BY <1>1, <4>1, <4>2, NumbersAreFinite DEF Records
    <3>2. agent' = agent \/ agent' = [agent EXCEPT ![by_number(n).repo] = @ \cup {n}]
      BY <1>8 DEF ExecuteIssue
    <3>3. agent \in [1..Repos -> SUBSET Nat]
      BY <1>1 DEF TypeOK
    <3>4. CASE agent' = [agent EXCEPT ![by_number(n).repo] = @ \cup {n}]
      <4> DEFINE q == by_number(n).repo
      <4>1. agent[q] \cup {n} \in SUBSET Nat /\ agent' = [agent EXCEPT ![q] = agent[q] \cup {n}]
        BY <3>1, <3>3, <3>4
      <4> HIDE DEF q
      <4> QED BY <3>3, <4>1
    <3> QED BY <3>2, <3>3, <3>4
  <2> QED BY <1>1, <1>2, <1>8, <2>1 DEF ExecuteIssue, TypeOK
<1>9. CASE Push \/ PushFails \/ SkipRepo \/ OpenFails
  <2>1. at \in 1..Repos
    BY <1>1, <1>9 DEF Push, PushFails, SkipRepo, OpenFails, HandingOff, TypeOK, HandOffInv
  <2>2. /\ UNCHANGED <<listing, paths, issues, queue, result, agent, pulls, prs>>
        /\ pc' \in {"push", "open"} /\ at' \in {at, at + 1}
        /\ remote' = remote \/ remote' = [remote EXCEPT ![at] = agent[at]]
    BY <1>9 DEF Push, PushFails, SkipRepo, OpenFails
  <2>3. remote' \in [1..Repos -> SUBSET Nat]
    BY <1>1, <2>1, <2>2 DEF TypeOK
  <2> QED BY <1>1, <1>2, <2>1, <2>2, <2>3 DEF TypeOK
<1>10. CASE OpenPull
  <2>1. Completed \subseteq Nat
    BY <1>1, NumbersAreFinite DEF Completed, StateInv
  <2>2. at \in 1..Repos
    BY <1>1, <1>10 DEF OpenPull, HandOffInv
  <2>3. /\ UNCHANGED <<listing, paths, issues, queue, result, agent, remote>>
        /\ pc' = "push" /\ at' = at + 1 /\ (prs' = prs \/ prs' = prs \cup {at})
        /\ pulls' = [pulls EXCEPT ![at] = Completed]
    BY <1>10 DEF OpenPull
  <2>4. pulls' \in [1..Repos -> {None} \cup SUBSET Nat]
    BY <1>1, <2>1, <2>2, <2>3 DEF TypeOK
  <2>5. at' \in 1..Repos + 1 /\ prs' \subseteq 1..Repos
    <3>1. prs \subseteq 1..Repos
      BY <1>1 DEF TypeOK
    <3>2. prs' \subseteq 1..Repos
      BY <2>2, <2>3, <3>1
    <3>3. at + 1 \in 1..Repos + 1
      BY <2>2
    <3> QED BY <2>3, <3>2, <3>3
  <2>6. Numbers' = Numbers /\ Range(result)' = Range(result)
    BY <1>2, <2>3
  <2> QED BY <1>1, <2>3, <2>4, <2>5, <2>6 DEF TypeOK
<1>11. CASE RunAgain
  <2>1. result' = <<>> /\ issues' = <<>> /\ queue' = {}
    BY <1>11 DEF RunAgain
  <2>2. Range(result') = {} /\ <<>> \in Seq(Nat) /\ <<>> \in Seq(Records)
    BY <2>1 DEF Range
  <2> QED BY <1>1, <1>11, <2>1, <2>2 DEF RunAgain, TypeOK
<1> QED
  BY <1>3, <1>4, <1>5, <1>6, <1>7, <1>8, <1>9, <1>10, <1>11 DEF Next

----------------------------------------------------------------------------
(* The hand-off.                                                            *)

\* A list that has been read stays as it is until the run is over.
LEMMA ReadStep ==
    ASSUME IInv, Next
    PROVE  ReadInv'
<1> USE DEF reading, sorting, search, github, NextRepo
<1>1. TypeOK /\ ReadInv /\ HandOffInv
  BY DEF IInv
<1>2. (listing' = listing => \A r : ListedIn(r)' = ListedIn(r)) /\ listing' = listing
  BY DEF ListedIn, Next, Fails, ReadRepo, Unplanned, BeginSort, TakeFirst, EndSort, NextStart, Follow,
     NoCycleFound, PrepareBranch, BeginIssues, ExecuteIssue, BeginHandOff, Push, PushFails, OpenPull,
     OpenFails, SkipRepo, EndRun, RunAgain
<1>3. ASSUME UNCHANGED issues, pc' # "read", pc' = "over" \/ pc \notin {"read", "over"}
      PROVE  ReadInv'
  BY <1>1, <1>2, <1>3 DEF ReadInv
<1>4. CASE ReadRepo
  <2>1. /\ pc = "read" /\ pc' = "read" /\ at' = at + 1 /\ at \in 1..Repos
    BY <1>1, <1>4 DEF ReadRepo, TypeOK
  <2>2. /\ \A k \in DOMAIN issues : k \in DOMAIN issues' /\ issues'[k] = issues[k]
        /\ \A n \in ListedIn(at) :
               \E k \in DOMAIN issues' : issues'[k].number = n /\ issues'[k].repo = at
        /\ \A k \in DOMAIN issues' :
               \/ k \in DOMAIN issues
               \/ /\ \A j \in DOMAIN issues : j < k
                  /\ issues'[k].repo = at /\ issues'[k].number \in ListedIn(at)
    BY <1>1, <1>4, RepoIsAppended
  <2>3. /\ DOMAIN issues \subseteq Nat /\ DOMAIN issues' \subseteq Nat
        /\ \A k \in DOMAIN issues : issues[k].repo \in 1..Repos /\ issues[k].repo < at
    <3>1. issues \in Seq(Records) /\ issues' \in Seq(Records)
      BY <1>1, <1>4, RepoIsAppended DEF TypeOK
    <3>2. \A k \in DOMAIN issues : issues[k] \in Records
      BY <3>1
    <3> QED BY <1>1, <2>1, <3>1, <3>2 DEF ReadInv, Records
  <2>4. \A k \in DOMAIN issues' : issues'[k].number \in ListedIn(issues'[k].repo)
    BY <1>1, <2>2 DEF ReadInv
  <2>5. ASSUME NEW j \in DOMAIN issues', NEW k \in DOMAIN issues', j <= k
        PROVE  issues'[j].repo <= issues'[k].repo
    <3>1. CASE k \in DOMAIN issues
      <4>1. j \in DOMAIN issues
        BY <2>2, <2>3, <2>5, <3>1
      <4> QED BY <1>1, <2>2, <2>5, <3>1, <4>1 DEF ReadInv
    <3>2. CASE k \notin DOMAIN issues
      BY <2>1, <2>2, <2>3, <3>2
    <3> QED BY <3>1, <3>2
  <2>6. \A k \in DOMAIN issues' : issues'[k].repo < at'
    BY <2>1, <2>2, <2>3
  <2>7. ASSUME NEW r \in 1..Repos, r < at', NEW n \in ListedIn(r)
        PROVE  \E k \in DOMAIN issues' : issues'[k].number = n /\ issues'[k].repo = r
    <3>1. CASE r = at
      BY <2>2, <2>7, <3>1
    <3>2. CASE r < at
      <4>1. PICK k \in DOMAIN issues : issues[k].number = n /\ issues[k].repo = r
        BY <1>1, <2>1, <2>7, <3>2 DEF ReadInv
      <4> QED BY <2>2, <4>1
    <3> QED BY <2>1, <2>7, <3>1, <3>2
  <2> QED BY <1>2, <2>1, <2>4, <2>5, <2>6, <2>7 DEF ReadInv
<1>5. CASE BeginSort
  <2>1. pc = "read" /\ pc' = "sort" /\ at \in Nat /\ at > Repos /\ UNCHANGED issues
    BY <1>1, <1>5 DEF BeginSort, TypeOK
  <2>2. \A r \in 1..Repos : r < at
    BY <2>1
  <2> QED BY <1>1, <1>2, <2>1, <2>2 DEF ReadInv
<1>6. CASE RunAgain
  <2>1. pc' = "read" /\ at' = 1 /\ issues' = <<>>
    BY <1>6 DEF RunAgain
  <2>2. DOMAIN issues' = {} /\ \A r \in 1..Repos : ~(r < at')
    BY <2>1
  <2> QED BY <2>1, <2>2 DEF ReadInv
<1>7. CASE Fails \/ Unplanned \/ TakeFirst \/ EndSort \/ NextStart \/ Follow \/ NoCycleFound
  BY <1>3, <1>7 DEF Fails, Unplanned, TakeFirst, EndSort, NextStart, Follow, NoCycleFound
<1>8. CASE PrepareBranch \/ BeginIssues \/ \E n \in Numbers, v \in {"completed", "parked", "raised"} :
                                              ExecuteIssue(n, v)
  BY <1>3, <1>8 DEF PrepareBranch, BeginIssues, ExecuteIssue
<1>9. CASE BeginHandOff \/ Push \/ PushFails \/ OpenPull \/ OpenFails \/ SkipRepo \/ EndRun
  BY <1>3, <1>9 DEF BeginHandOff, Push, PushFails, OpenPull, OpenFails, SkipRepo, EndRun
<1> QED
  BY <1>4, <1>5, <1>6, <1>7, <1>8, <1>9 DEF Next

\* The repo in which a number is merged is the last that lists it.
LEMMA HomeIs ==
    ASSUME TypeOK, ReadInv, pc \notin {"read", "over"}, NEW n \in Numbers
    PROVE  /\ by_number(n).repo \in 1..Repos /\ n \in ListedIn(by_number(n).repo)
           /\ \A q \in 1..Repos : q > by_number(n).repo => n \notin ListedIn(q)
<1>1. PICK k \in DOMAIN issues :
          /\ by_number(n) = issues[k] /\ issues[k].number = n
          /\ \A j \in DOMAIN issues : issues[j].number = n => j <= k
  BY ByNumberIs
<1>2. issues[k].repo \in 1..Repos /\ n \in ListedIn(issues[k].repo)
  <2>1. issues[k] \in Records
    BY DEF TypeOK
  <2> QED BY <1>1, <2>1 DEF Records, ReadInv
<1>3. ASSUME NEW q \in 1..Repos, q > issues[k].repo, n \in ListedIn(q)
      PROVE  FALSE
  <2>1. PICK j \in DOMAIN issues : issues[j].number = n /\ issues[j].repo = q
    BY <1>3 DEF ReadInv
  <2>2. issues[j].repo <= issues[k].repo
    BY <1>1, <2>1 DEF ReadInv
  <2> QED BY <1>2, <1>3, <2>1, <2>2
<1> QED BY <1>1, <1>2, <1>3

\* What an execution does to the agent branches.
LEMMA ExecutionIs ==
    ASSUME IInv, NEW n \in Numbers, NEW v \in {"completed", "parked", "raised"}, ExecuteIssue(n, v)
    PROVE  /\ pc = "issues" /\ UNCHANGED <<pc, listing, issues, remote, pulls, prs>>
           /\ n \in DOMAIN state /\ state' = [state EXCEPT ![n] = v]
           /\ agent' \in [1..Repos -> SUBSET Nat]
           /\ \/ v # "completed" /\ agent' = agent
              \/ \E r \in 1..Repos :
                     /\ n \in ListedIn(r) /\ \A q \in 1..Repos : q > r => n \notin ListedIn(q)
                     /\ agent'[r] = agent[r] \cup {n}
                     /\ \A q \in 1..Repos : q # r => agent'[q] = agent[q]
<1>1. TypeOK /\ ReadInv /\ agent \in [1..Repos -> SUBSET Nat]
  BY DEF IInv, TypeOK
<1>2. /\ pc = "issues" /\ UNCHANGED <<pc, listing, issues, remote, pulls, prs>>
      /\ n \in DOMAIN state /\ state' = [state EXCEPT ![n] = v]
  BY DEF ExecuteIssue, reading, github
<1>3. /\ by_number(n).repo \in 1..Repos /\ n \in ListedIn(by_number(n).repo)
      /\ \A q \in 1..Repos : q > by_number(n).repo => n \notin ListedIn(q)
  BY <1>1, <1>2, HomeIs
<1>4. CASE v # "completed"
  BY <1>1, <1>2, <1>4 DEF ExecuteIssue
<1>5. CASE v = "completed"
  <2> DEFINE r == by_number(n).repo
  <2>1. agent' = [agent EXCEPT ![r] = agent[r] \cup {n}]
    BY <1>1, <1>3, <1>5 DEF ExecuteIssue
  <2>2. n \in Nat
    BY <1>1, NumbersAreFinite
  <2>3. r \in 1..Repos /\ n \in ListedIn(r) /\ \A q \in 1..Repos : q > r => n \notin ListedIn(q)
    BY <1>3
  <2> HIDE DEF r
  <2>4. /\ agent'[r] = agent[r] \cup {n}
        /\ \A q \in 1..Repos : q # r => agent'[q] = agent[q]
    BY <1>1, <2>1, <2>3
  <2>5. agent[r] \cup {n} \in SUBSET Nat
    BY <1>1, <2>2, <2>3
  <2>6. agent' \in [1..Repos -> SUBSET Nat]
    BY <1>1, <2>1, <2>3, <2>5
  <2> QED BY <1>2, <2>3, <2>4, <2>6
<1> QED BY <1>4, <1>5

LEMMA HomeStep ==
    ASSUME IInv, Next
    PROVE  HomeInv'
<1> USE DEF reading, sorting, search, github, NextRepo
<1>1. HomeInv
  BY DEF IInv
<1>2. ASSUME UNCHANGED <<listing, agent>> PROVE HomeInv'
  BY <1>1, <1>2 DEF HomeInv, ListedIn
<1>3. ASSUME NEW n \in Numbers, NEW v \in {"completed", "parked", "raised"}, ExecuteIssue(n, v)
      PROVE  HomeInv'
  <2>1. listing' = listing /\ \A r : ListedIn(r)' = ListedIn(r)
    BY <1>3, ExecutionIs DEF ListedIn
  <2>2. CASE agent' = agent
    BY <1>2, <2>1, <2>2
  <2>3. CASE agent' # agent
    <3>1. PICK r \in 1..Repos :
              /\ n \in ListedIn(r) /\ \A q \in 1..Repos : q > r => n \notin ListedIn(q)
              /\ agent'[r] = agent[r] \cup {n}
              /\ \A q \in 1..Repos : q # r => agent'[q] = agent[q]
      BY <1>3, <2>3, ExecutionIs
    <3>2. \A q \in 1..Repos : \A i \in agent'[q] : i \in agent[q] \/ (q = r /\ i = n)
      BY <3>1
    <3> QED BY <1>1, <2>1, <3>1, <3>2 DEF HomeInv
  <2> QED BY <2>2, <2>3
<1>4. CASE Fails \/ ReadRepo \/ Unplanned \/ BeginSort \/ TakeFirst \/ EndSort \/ NextStart
           \/ Follow \/ NoCycleFound \/ PrepareBranch \/ BeginIssues
  BY <1>2, <1>4 DEF Fails, ReadRepo, Unplanned, BeginSort, TakeFirst, EndSort, NextStart, Follow,
     NoCycleFound, PrepareBranch, BeginIssues
<1>5. CASE BeginHandOff \/ Push \/ PushFails \/ OpenPull \/ OpenFails \/ SkipRepo \/ EndRun \/ RunAgain
  BY <1>2, <1>5 DEF BeginHandOff, Push, PushFails, OpenPull, OpenFails, SkipRepo, EndRun, RunAgain
<1> QED BY <1>3, <1>4, <1>5 DEF Next

LEMMA StateStep ==
    ASSUME IInv, Next
    PROVE  StateInv'
<1> USE DEF reading, sorting, search, github, NextRepo
<1>1. TypeOK /\ StateInv
  BY DEF IInv
<1>2. issues' = issues => Numbers' = Numbers
  BY DEF Numbers
<1>3. ASSUME UNCHANGED <<issues, state, agent>>,
             pc' \in {"read", "sort", "cycle", "branches"} => pc' = pc \/ state = <<>>
      PROVE  StateInv'
  BY <1>1, <1>2, <1>3 DEF StateInv
<1>4. CASE ReadRepo
  <2>1. state' = <<>> /\ DOMAIN state' = {}
    BY <1>1, <1>4 DEF ReadRepo, StateInv
  <2> QED BY <2>1 DEF StateInv
<1>5. CASE Fails \/ Unplanned \/ BeginSort \/ TakeFirst \/ EndSort
  BY <1>1, <1>3, <1>5 DEF Fails, Unplanned, BeginSort, TakeFirst, EndSort, StateInv
<1>6. CASE NextStart \/ Follow \/ NoCycleFound \/ PrepareBranch
  BY <1>1, <1>3, <1>6 DEF NextStart, Follow, NoCycleFound, PrepareBranch, StateInv
<1>7. CASE BeginIssues
  BY <1>1, <1>2, <1>7 DEF BeginIssues, StateInv, TypeOK
<1>8. ASSUME NEW n \in Numbers, NEW v \in {"completed", "parked", "raised"}, ExecuteIssue(n, v)
      PROVE  StateInv'
  <2>1. /\ pc' = "issues" /\ Numbers' = Numbers
        /\ n \in DOMAIN state /\ state' = [state EXCEPT ![n] = v]
    BY <1>2, <1>8, ExecutionIs
  <2>2. /\ \A r \in 1..Repos : agent[r] \subseteq agent'[r]
        /\ v = "completed" => \E r \in 1..Repos : n \in agent'[r]
    <3>1. CASE v # "completed" /\ agent' = agent
      BY <3>1
    <3>2. ASSUME NEW r \in 1..Repos, agent'[r] = agent[r] \cup {n},
                 \A q \in 1..Repos : q # r => agent'[q] = agent[q]
          PROVE  /\ \A q \in 1..Repos : agent[q] \subseteq agent'[q]
                 /\ \E q \in 1..Repos : n \in agent'[q]
      BY <3>2
    <3>3. \/ v # "completed" /\ agent' = agent
          \/ \E r \in 1..Repos :
                 /\ n \in ListedIn(r) /\ \A q \in 1..Repos : q > r => n \notin ListedIn(q)
                 /\ agent'[r] = agent[r] \cup {n}
                 /\ \A q \in 1..Repos : q # r => agent'[q] = agent[q]
      BY <1>8, ExecutionIs
    <3> QED BY <3>1, <3>2, <3>3
  <2>3. DOMAIN state' = DOMAIN state
    BY <2>1
  <2>4. ASSUME NEW i \in DOMAIN state', state'[i] = "completed"
        PROVE  \E r \in 1..Repos : i \in agent'[r]
    BY <1>1, <2>1, <2>2, <2>4 DEF StateInv
  <2> QED BY <1>1, <2>1, <2>3, <2>4 DEF StateInv
<1>9. CASE BeginHandOff \/ Push \/ PushFails \/ OpenPull \/ OpenFails \/ SkipRepo \/ EndRun
  BY <1>3, <1>9 DEF BeginHandOff, Push, PushFails, OpenPull, OpenFails, SkipRepo, EndRun
<1>10. CASE RunAgain
  <2>1. state' = <<>> /\ DOMAIN state' = {}
    BY <1>10 DEF RunAgain
  <2> QED BY <2>1 DEF StateInv
<1> QED BY <1>4, <1>5, <1>6, <1>7, <1>8, <1>9, <1>10 DEF Next

\* Nothing but the hand-off and an execution concerns the pull requests.
LEMMA HandOffStep ==
    ASSUME IInv, Next
    PROVE  HandOffInv'
<1> USE DEF reading, sorting, search, github, NextRepo
<1>1. TypeOK /\ HandOffInv /\ StateInv /\ HomeInv
  BY DEF IInv
<1>2. ASSUME UNCHANGED <<agent, remote, pulls>>, prs' = {}, pc' # "open"
      PROVE  HandOffInv'
  BY <1>1, <1>2 DEF HandOffInv, HandOffIsTrue
<1>3. ASSUME UNCHANGED <<agent, remote, pulls, prs, state>>, pc' \in {"push", "over"},
             pc \in {"push", "open"}, at' = at \/ at' = at + 1
      PROVE  HandOffInv'
  <2>1. Completed' = Completed
    BY <1>3 DEF Completed
  <2>2. \A r \in prs : r < at'
    BY <1>1, <1>3 DEF HandOffInv, TypeOK
  <2> QED BY <1>1, <1>3, <2>1, <2>2 DEF HandOffInv, HandOffIsTrue
<1>4. CASE Fails \/ ReadRepo \/ Unplanned \/ BeginSort \/ TakeFirst \/ EndSort \/ NextStart
           \/ Follow \/ NoCycleFound \/ PrepareBranch \/ BeginIssues
  BY <1>1, <1>2, <1>4 DEF Fails, ReadRepo, Unplanned, BeginSort, TakeFirst, EndSort, NextStart, Follow,
     NoCycleFound, PrepareBranch, BeginIssues, HandOffInv
<1>5. CASE BeginHandOff \/ RunAgain
  BY <1>1, <1>2, <1>5 DEF BeginHandOff, RunAgain, HandOffInv
<1>6. CASE PushFails \/ SkipRepo \/ OpenFails \/ EndRun
  BY <1>3, <1>6 DEF PushFails, SkipRepo, OpenFails, EndRun
<1>7. ASSUME NEW n \in Numbers, NEW v \in {"completed", "parked", "raised"}, ExecuteIssue(n, v)
      PROVE  HandOffInv'
  <2>1. pc = "issues" /\ pc' = "issues" /\ prs = {} /\ prs' = {} /\ UNCHANGED <<remote, pulls>>
    BY <1>1, <1>7, ExecutionIs DEF HandOffInv
  <2>2. CASE agent' = agent
    BY <1>2, <2>1, <2>2
  <2>3. CASE agent' # agent
    <3>1. PICK r \in 1..Repos :
              /\ n \in ListedIn(r) /\ \A q \in 1..Repos : q > r => n \notin ListedIn(q)
              /\ agent'[r] = agent[r] \cup {n}
              /\ \A q \in 1..Repos : q # r => agent'[q] = agent[q]
      BY <1>7, <2>3, ExecutionIs
    <3>2. UNION {agent[q] : q \in 1..Repos} \subseteq UNION {agent'[q] : q \in 1..Repos}
      BY <3>1
    <3>3. ASSUME NEW q \in 1..Repos, pulls[q] # None, NEW i \in pulls[q], i \in agent'[q]
          PROVE  i \in remote[q]
      <4>1. i \in UNION {agent[p] : p \in 1..Repos}
        BY <1>1, <3>3 DEF HandOffInv, HandOffIsTrue
      <4>2. PICK p \in 1..Repos : i \in agent[p]
        BY <4>1
      <4>3. CASE i \in agent[q]
        BY <1>1, <3>3, <4>3 DEF HandOffInv, HandOffIsTrue
      <4>4. CASE i \notin agent[q]
        <5>1. q = r /\ i = n /\ p # r
          BY <3>1, <3>3, <4>2, <4>4
        <5>2. n \in ListedIn(p) /\ \A s \in 1..Repos : s > p => n \notin ListedIn(s)
          BY <1>1, <4>2, <5>1 DEF HomeInv
        <5> QED BY <3>1, <5>1, <5>2
      <4> QED BY <4>3, <4>4
    <3> QED BY <1>1, <2>1, <3>2, <3>3 DEF HandOffInv, HandOffIsTrue
  <2> QED BY <2>2, <2>3
<1>8. CASE Push
  <2>1. /\ pc = "push" /\ pc' = "open" /\ at' = at /\ at \in 1..Repos
        /\ remote' = [remote EXCEPT ![at] = agent[at]]
        /\ UNCHANGED <<agent, pulls, prs, state>>
    BY <1>1, <1>8 DEF Push, HandingOff, TypeOK
  <2>2. remote'[at] = agent[at] /\ \A r \in 1..Repos : r # at => remote'[r] = remote[r]
    BY <1>1, <2>1 DEF TypeOK
  <2>3. Completed' = Completed
    BY <2>1 DEF Completed
  <2>4. \A r \in prs : r < at /\ r # at
    BY <1>1, <2>1 DEF HandOffInv, TypeOK
  <2>5. HandOffIsTrue'
    BY <1>1, <2>1, <2>2, <2>3, <2>4 DEF HandOffInv, HandOffIsTrue
  <2> QED BY <2>1, <2>2, <2>4, <2>5 DEF HandOffInv
<1>9. CASE OpenPull
  <2>1. /\ pc = "open" /\ pc' = "push" /\ at' = at + 1 /\ at \in 1..Repos /\ remote[at] = agent[at]
        /\ pulls' = [pulls EXCEPT ![at] = Completed] /\ prs' \subseteq prs \cup {at}
        /\ UNCHANGED <<agent, remote, state>>
    BY <1>1, <1>9 DEF OpenPull, HandOffInv
  <2>2. pulls'[at] = Completed /\ \A r \in 1..Repos : r # at => pulls'[r] = pulls[r]
    BY <1>1, <2>1 DEF TypeOK
  <2>3. Completed' = Completed
    BY <2>1 DEF Completed
  <2>4. \A r \in prs' : r \in 1..Repos /\ r < at' /\ (r = at \/ r \in prs)
    BY <1>1, <2>1 DEF HandOffInv, TypeOK
  <2>5. Completed \subseteq UNION {agent[q] : q \in 1..Repos}
    BY <1>1 DEF StateInv, Completed
  <2>6. HandOffIsTrue'
    BY <1>1, <2>1, <2>2, <2>3, <2>4, <2>5 DEF HandOffInv, HandOffIsTrue
  <2> QED BY <2>1, <2>4, <2>6 DEF HandOffInv
<1> QED BY <1>4, <1>5, <1>6, <1>7, <1>8, <1>9 DEF Next

----------------------------------------------------------------------------
(* The order.                                                               *)

LEMMA MentionsAre ==
    ASSUME NEW n, NEW D
    PROVE  /\ \A k, j : <<k, j>> \in Mentions(n, D) <=>
                            /\ k \in DOMAIN issues /\ issues[k].number = n
                            /\ j \in DOMAIN issues[k].deps /\ issues[k].deps[j] \in D
           /\ \A p \in Mentions(n, D) : p = <<p[1], p[2]>>
  BY DEF Mentions

LEMMA MentionsAreFinite ==
    ASSUME TypeOK, NEW n, NEW D
    PROVE  IsFiniteSet(Mentions(n, D)) /\ Cardinality(Mentions(n, D)) \in Nat
<1> DEFINE K == {k \in DOMAIN issues : issues[k].number = n}
           J(k) == {j \in DOMAIN issues[k].deps : issues[k].deps[j] \in D}
           P(k) == {<<k, j>> : j \in J(k)}
           F == [k \in K |-> P(k)]
           S == {P(k) : k \in K}
<1>1. IsFiniteSet(K)
  <2>1. Len(issues) \in Nat /\ DOMAIN issues = 1..Len(issues)
    BY DEF TypeOK
  <2>2. IsFiniteSet(DOMAIN issues)
    BY <2>1, FS_Interval
  <2>3. K \subseteq DOMAIN issues
    OBVIOUS
  <2> QED BY <2>2, <2>3, FS_Subset
<1>2. ASSUME NEW k \in K PROVE IsFiniteSet(P(k))
  <2>0. issues[k] \in Records
    BY DEF TypeOK
  <2>1. issues[k].deps \in Seq(Nat)
    BY <2>0 DEF Records
  <2>2. Len(issues[k].deps) \in Nat /\ DOMAIN issues[k].deps = 1..Len(issues[k].deps)
    BY <2>1
  <2>3. IsFiniteSet(DOMAIN issues[k].deps)
    BY <2>2, FS_Interval
  <2>4. J(k) \subseteq DOMAIN issues[k].deps
    OBVIOUS
  <2>5. IsFiniteSet(J(k))
    BY <2>3, <2>4, FS_Subset
  <2> DEFINE f == [j \in J(k) |-> <<k, j>>]
  <2>6. f \in Surjection(J(k), P(k))
    BY DEF Surjection
  <2> HIDE DEF J, P, f
  <2> QED BY <2>5, <2>6, FS_Surjection
<1>3. F \in Surjection(K, S)
  <2> HIDE DEF K, P
  <2>1. F \in [K -> S] /\ \A T \in S : \E k \in K : F[k] = T
    OBVIOUS
  <2> HIDE DEF F, S
  <2> QED BY <2>1 DEF Surjection
<1>4. \A T \in S : IsFiniteSet(T)
  BY <1>2
<1>5. Mentions(n, D) = UNION S
  BY DEF Mentions
<1> HIDE DEF K, F, S
<1>6. IsFiniteSet(S)
  BY <1>1, <1>3, FS_Surjection
<1>7. IsFiniteSet(UNION S)
  BY <1>4, <1>6, FS_UNION
<1> QED BY <1>5, <1>7, FS_CardinalityType

\* An issue that names another counts at least one mention of it, and exactly
\* one if nothing is there twice.
LEMMA WaitingIs ==
    ASSUME TypeOK, NEW n, NEW d
    PROVE  /\ Waiting(n, d) \in Nat
           /\ Waiting(n, d) <= Cardinality(Mentions(n, {d}))
           /\ Plain => Waiting(n, d) = Cardinality(Mentions(n, {d}))
<1> DEFINE M == Mentions(n, {d})
           K == {k \in DOMAIN issues : issues[k].number = n /\ Contains(issues[k].deps, d)}
           f == [p \in M |-> p[1]]
<1>1. IsFiniteSet(M) /\ Cardinality(M) \in Nat
  BY MentionsAreFinite
<1>2. \A k \in DOMAIN issues :
          Contains(issues[k].deps, d) <=> \E j \in DOMAIN issues[k].deps : issues[k].deps[j] = d
  <2>0. \A k \in DOMAIN issues : issues[k] \in Records
    BY DEF TypeOK
  <2>1. \A k \in DOMAIN issues : issues[k].deps \in Seq(Nat)
    BY <2>0 DEF Records
  <2> QED BY <2>1 DEF Contains
<1>3. ASSUME NEW p \in M
      PROVE  /\ p[1] \in K /\ p = <<p[1], p[2]>> /\ p[2] \in DOMAIN issues[p[1]].deps
             /\ issues[p[1]].deps[p[2]] = d
  <2>1. p = <<p[1], p[2]>>
    BY MentionsAre
  <2>2. <<p[1], p[2]>> \in M
    BY <2>1
  <2>3. /\ p[1] \in DOMAIN issues /\ issues[p[1]].number = n
        /\ p[2] \in DOMAIN issues[p[1]].deps /\ issues[p[1]].deps[p[2]] \in {d}
    BY <2>2, MentionsAre
  <2> QED BY <1>2, <2>1, <2>3
<1>4. ASSUME NEW k \in K PROVE \E p \in M : f[p] = k
  <2>1. PICK j \in DOMAIN issues[k].deps : issues[k].deps[j] = d
    BY <1>2
  <2>2. <<k, j>> \in M
    BY <2>1, MentionsAre
  <2> QED BY <2>2
<1>5. Plain => \A p, q \in M : f[p] = f[q] => p = q
  BY <1>3 DEF Plain, IsInjective
<1>6. Waiting(n, d) = Cardinality(K)
  BY DEF Waiting
<1>7. f \in [M -> K]
  BY <1>3
<1> HIDE DEF M, K, f
<1>8. f \in Surjection(M, K)
  BY <1>4, <1>7 DEF Surjection
<1>9. Plain => f \in Injection(M, K)
  BY <1>5, <1>7 DEF Injection, IsInjective
<1>10. /\ IsFiniteSet(K) /\ Cardinality(K) <= Cardinality(M)
       /\ Cardinality(K) = Cardinality(M) <=> f \in Injection(M, K)
  BY <1>1, <1>8, FS_Surjection
<1>11. Cardinality(K) \in Nat
  BY <1>10, FS_CardinalityType
<1> QED BY <1>6, <1>9, <1>10, <1>11 DEF M

\* When a candidate is taken the mentions of it are no longer awaited.
LEMMA MentionsShrink ==
    ASSUME TypeOK, NEW n, NEW c \in Candidates, NEW D, D = Candidates \ {c}
    PROVE  Cardinality(Mentions(n, D))
               = Cardinality(Mentions(n, Candidates)) - Cardinality(Mentions(n, {c}))
<1> DEFINE M == Mentions(n, Candidates)
           T == Mentions(n, {c})
<1>1. IsFiniteSet(M)
  BY MentionsAreFinite
<1>2. M \cap T = T
  BY MentionsAre
<1>3. Mentions(n, D) = M \ T
  BY MentionsAre
<1> HIDE DEF M, T
<1>4. Cardinality(M \ T) = Cardinality(M) - Cardinality(M \cap T)
  BY <1>1, FS_Difference
<1> QED BY <1>2, <1>3, <1>4 DEF M, T

\* A count of zero means that nothing is awaited any more.
LEMMA ZeroIsReady ==
    ASSUME TypeOK, NEW n \in Numbers, Cardinality(Mentions(n, Candidates)) <= 0,
           NEW d \in Numbers, Edge(n, d)
    PROVE  d \in Range(result)
<1>1. Mentions(n, Candidates) = {}
  BY MentionsAreFinite, FS_EmptySet
<1>2. PICK k \in DOMAIN issues : issues[k].number = n /\ Contains(issues[k].deps, d)
  BY DEF Edge
<1>3. issues[k].deps \in Seq(Nat)
  <2>1. issues[k] \in Records
    BY DEF TypeOK
  <2> QED BY <2>1 DEF Records
<1>4. PICK j \in DOMAIN issues[k].deps : issues[k].deps[j] = d
  BY <1>2, <1>3 DEF Contains
<1>5. d \notin Candidates
  BY <1>1, <1>2, <1>4, MentionsAre
<1> QED BY <1>5 DEF Candidates

LEMMA TakeFirstSort ==
    ASSUME TypeOK, SortInv, TakeFirst
    PROVE  SortInv'
<1> DEFINE c == Min(queue)
<1>1. /\ pc = "sort" /\ pc' = "sort" /\ queue # {} /\ UNCHANGED issues
      /\ result' = Append(result, c)
      /\ degree' = [n \in Numbers |-> degree[n] - Waiting(n, c)]
      /\ queue' = (queue \ {c}) \cup {n \in Numbers : degree[n] > 0 /\ degree'[n] <= 0}
  BY DEF TakeFirst, reading
<1>2. /\ degree \in [Numbers -> Int]
      /\ queue \cap Range(result) = {}
      /\ \A n \in Numbers : degree[n] <= 0 <=> n \in queue \cup Range(result)
      /\ \A n \in Numbers :
             /\ Cardinality(Mentions(n, Candidates)) <= degree[n]
             /\ Plain => Cardinality(Mentions(n, Candidates)) = degree[n]
      /\ ResultSound
  BY <1>1 DEF SortInv
<1>3. /\ Numbers \subseteq Nat /\ queue \subseteq Numbers /\ result \in Seq(Nat)
      /\ Range(result) \subseteq Numbers
  BY NumbersAreFinite DEF TypeOK
<1>4. c \in queue
  BY <1>1, <1>3, MinIs
<1> HIDE DEF c
<1>5. /\ DOMAIN result' = DOMAIN result \cup {Len(result) + 1} /\ Len(result) \in Nat
      /\ result'[Len(result) + 1] = c /\ \A k \in DOMAIN result : result'[k] = result[k]
      /\ DOMAIN result = 1..Len(result)
  <2>1. c \in Nat
    BY <1>3, <1>4
  <2> QED BY <1>1, <1>3, <2>1
<1>6. Range(result') = Range(result) \cup {c} /\ c \notin Range(result)
  BY <1>2, <1>4, <1>5 DEF Range
<1>7. /\ Numbers' = Numbers /\ (Plain <=> Plain') /\ Candidates' = Candidates \ {c}
      /\ \A n, d : Edge(n, d)' <=> Edge(n, d)
  BY <1>1, <1>6 DEF Numbers, Plain, Candidates, Edge
<1>8. \A n : Mentions(n, Candidates)' = Mentions(n, Candidates \ {c})
  BY <1>1, <1>7 DEF Mentions
<1>9. \A n \in Numbers :
          /\ Waiting(n, c) \in Nat /\ Cardinality(Mentions(n, Candidates)) \in Nat
          /\ Cardinality(Mentions(n, {c})) \in Nat
          /\ Waiting(n, c) <= Cardinality(Mentions(n, {c}))
          /\ Plain => Waiting(n, c) = Cardinality(Mentions(n, {c}))
          /\ degree[n] \in Int /\ degree'[n] = degree[n] - Waiting(n, c)
          /\ Cardinality(Mentions(n, Candidates \ {c}))
                 = Cardinality(Mentions(n, Candidates)) - Cardinality(Mentions(n, {c}))
  <2>1. c \in Candidates
    BY <1>3, <1>4, <1>6 DEF Candidates
  <2> QED BY <1>1, <1>2, <2>1, WaitingIs, MentionsAreFinite, MentionsShrink
<1>10. degree' \in [Numbers -> Int]
  BY <1>1, <1>9
<1>11. ASSUME NEW n \in Numbers
       PROVE  /\ Cardinality(Mentions(n, Candidates))' <= degree'[n]
              /\ Plain => Cardinality(Mentions(n, Candidates))' = degree'[n]
  <2>1. Cardinality(Mentions(n, Candidates))' = Cardinality(Mentions(n, Candidates \ {c}))
    BY <1>8
  <2>2. /\ Cardinality(Mentions(n, Candidates \ {c})) <= degree'[n]
        /\ Plain => Cardinality(Mentions(n, Candidates \ {c})) = degree'[n]
    <3> DEFINE a == Cardinality(Mentions(n, Candidates))
               b == Cardinality(Mentions(n, {c}))
               r == Cardinality(Mentions(n, Candidates \ {c}))
               w == Waiting(n, c)
    <3>1. /\ w \in Nat /\ a \in Nat /\ b \in Nat /\ w <= b /\ r = a - b
          /\ degree[n] \in Int /\ degree'[n] = degree[n] - w
      BY <1>9
    <3>2. Plain => w = b
      BY <1>9
    <3>3. a <= degree[n] /\ (Plain => a = degree[n])
      BY <1>2
    <3> HIDE DEF a, b, r, w
    <3>4. r <= degree'[n] /\ (Plain => r = degree'[n])
      BY <3>1, <3>2, <3>3
    <3> QED BY <3>4 DEF r
  <2> QED BY <2>1, <2>2
<1>12. queue' \cap Range(result') = {}
  <2>1. ASSUME NEW n \in Numbers, degree[n] > 0
        PROVE  n \notin Range(result')
    <3>1. ~(degree[n] <= 0)
      BY <1>9, <2>1
    <3> QED BY <1>2, <1>4, <1>6, <3>1
  <2>2. \A n \in queue \ {c} : n \notin Range(result')
    BY <1>2, <1>6
  <2> QED BY <1>1, <2>1, <2>2
<1>13. ASSUME NEW n \in Numbers
       PROVE  degree'[n] <= 0 <=> n \in queue' \cup Range(result')
  <2>1. degree[n] <= 0 => degree'[n] <= 0
    BY <1>9
  <2>2. degree[n] > 0 <=> ~(degree[n] <= 0)
    BY <1>9
  <2> QED BY <1>1, <1>2, <1>4, <1>6, <2>1, <2>2
<1>14. ResultSound'
  <2>1. IsInjective(result')
    <3>1. \A k \in DOMAIN result : result[k] # c
      BY <1>6 DEF Range
    <3> QED BY <1>2, <1>5, <3>1 DEF ResultSound, IsInjective
  <2>2. ASSUME NEW k \in DOMAIN result', NEW d \in Numbers, Edge(result'[k], d)
        PROVE  \E j \in 1..k - 1 : result'[j] = d
    <3>1. CASE k \in DOMAIN result
      <4>1. PICK j \in 1..k - 1 : result[j] = d
        BY <1>2, <1>5, <2>2, <3>1 DEF ResultSound
      <4>2. j \in DOMAIN result
        BY <1>5, <3>1
      <4> QED BY <1>5, <4>1, <4>2
    <3>2. CASE k = Len(result) + 1
      <4>1. Edge(c, d) /\ Cardinality(Mentions(c, Candidates)) <= 0
        BY <1>2, <1>3, <1>4, <1>5, <1>9, <2>2, <3>2
      <4>2. d \in Range(result)
        BY <1>3, <1>4, <4>1, ZeroIsReady
      <4>3. PICK j \in DOMAIN result : result[j] = d
        BY <4>2 DEF Range
      <4> QED BY <1>5, <3>2, <4>3
    <3> QED BY <1>5, <3>1, <3>2
  <2> QED BY <1>7, <2>1, <2>2 DEF ResultSound
<1> QED BY <1>1, <1>7, <1>10, <1>11, <1>12, <1>13, <1>14 DEF SortInv

LEMMA SortStep ==
    ASSUME IInv, Next
    PROVE  SortInv'
<1> USE DEF reading, sorting, search, github, NextRepo
<1>1. TypeOK /\ SortInv
  BY DEF IInv
<1>2. ASSUME result' = <<>> PROVE ResultSound'
  <2>1. DOMAIN result' = {}
    BY <1>2
  <2> QED BY <2>1 DEF ResultSound, IsInjective
<1>3. ASSUME UNCHANGED <<issues, result>> PROVE ResultSound'
  BY <1>1, <1>3 DEF SortInv, ResultSound, Edge, Numbers
<1>4. CASE ReadRepo \/ RunAgain
  <2>1. pc' = "read" /\ result' = <<>> /\ queue' = {}
    BY <1>1, <1>4 DEF ReadRepo, RunAgain, SortInv
  <2> QED BY <1>2, <2>1 DEF SortInv
<1>5. CASE BeginSort
  <2>1. /\ pc' = "sort" /\ result = <<>> /\ UNCHANGED <<issues, result>>
        /\ degree' = [n \in Numbers |-> InDegree(n)]
        /\ queue' = {n \in Numbers : degree'[n] = 0}
    BY <1>1, <1>5 DEF BeginSort, SortInv
  <2>2. Range(result) = {} /\ Range(result') = {} /\ Candidates' = Numbers
    BY <2>1 DEF Range, Candidates, Numbers
  <2>3. /\ Numbers' = Numbers
        /\ \A n : InDegree(n) = Cardinality(Mentions(n, Numbers))
        /\ \A n : Mentions(n, Candidates)' = Mentions(n, Numbers)
    BY <2>1, <2>2 DEF InDegree, Mentions, Numbers
  <2>4. \A n \in Numbers : degree'[n] \in Nat /\ degree'[n] = Cardinality(Mentions(n, Candidates))'
    BY <1>1, <2>1, <2>3, MentionsAreFinite
  <2>5. degree' \in [Numbers -> Int]
    BY <2>1, <2>4
  <2>6. \A n \in Numbers : degree'[n] <= 0 <=> n \in queue'
    BY <2>1, <2>4
  <2>7. \A n \in Numbers : Cardinality(Mentions(n, Candidates))' <= degree'[n]
    BY <2>4
  <2> QED BY <1>3, <2>1, <2>2, <2>3, <2>4, <2>5, <2>6, <2>7 DEF SortInv
<1>6. CASE TakeFirst
  BY <1>1, <1>6, TakeFirstSort
<1>7. ASSUME UNCHANGED <<issues, result, queue>>, pc' # "sort", pc' = "read" => pc = "read"
      PROVE  SortInv'
  BY <1>1, <1>3, <1>7 DEF SortInv
<1>8. CASE Fails \/ Unplanned \/ EndSort \/ NextStart \/ Follow \/ NoCycleFound \/ PrepareBranch
           \/ BeginIssues
  BY <1>7, <1>8 DEF Fails, Unplanned, EndSort, NextStart, Follow, NoCycleFound, PrepareBranch,
     BeginIssues
<1>9. ASSUME NEW n \in Numbers, NEW v \in {"completed", "parked", "raised"}, ExecuteIssue(n, v)
      PROVE  SortInv'
  BY <1>7, <1>9 DEF ExecuteIssue
<1>10. CASE BeginHandOff \/ Push \/ PushFails \/ OpenPull \/ OpenFails \/ SkipRepo \/ EndRun
  BY <1>7, <1>10 DEF BeginHandOff, Push, PushFails, OpenPull, OpenFails, SkipRepo, EndRun
<1> QED BY <1>4, <1>5, <1>6, <1>8, <1>9, <1>10 DEF Next

----------------------------------------------------------------------------
(* The search for a cycle.                                                  *)

\* What an issue names is there in the list, and without doubles a candidate
\* that is not in the queue names another candidate.
LEMMA AwaitsIsEdge ==
    ASSUME TypeOK, NEW n \in Numbers
    PROVE  /\ by_number(n).deps \in Seq(Nat)
           /\ \A j \in DOMAIN by_number(n).deps : Edge(n, by_number(n).deps[j])
<1>1. PICK k \in DOMAIN issues : by_number(n) = issues[k] /\ issues[k].number = n
  BY ByNumberIs
<1>2. issues[k].deps \in Seq(Nat)
  <2>1. issues[k] \in Records
    BY DEF TypeOK
  <2> QED BY <2>1 DEF Records
<1>3. \A j \in DOMAIN issues[k].deps : Contains(issues[k].deps, issues[k].deps[j])
  BY <1>2 DEF Contains
<1> QED BY <1>1, <1>2, <1>3 DEF Edge

LEMMA CandidatesAwait ==
    ASSUME TypeOK, SortInv, pc = "sort", queue = {}, Plain, NEW n \in Candidates
    PROVE  \E j \in Nat : Awaits(n, j)
<1>1. n \in Numbers /\ n \notin Range(result)
  BY DEF Candidates
<1>2. degree[n] \in Int /\ ~(degree[n] <= 0) /\ Cardinality(Mentions(n, Candidates)) = degree[n]
  BY <1>1 DEF SortInv
<1>3. Mentions(n, Candidates) # {}
  <2>1. Cardinality(Mentions(n, Candidates)) # 0
    BY <1>2
  <2> QED BY <2>1, FS_EmptySet
<1>4. PICK p \in Mentions(n, Candidates) : p = <<p[1], p[2]>>
  BY <1>3, MentionsAre
<1>5. /\ p[1] \in DOMAIN issues /\ issues[p[1]].number = n
      /\ p[2] \in DOMAIN issues[p[1]].deps /\ issues[p[1]].deps[p[2]] \in Candidates
  <2>1. <<p[1], p[2]>> \in Mentions(n, Candidates)
    BY <1>4
  <2> QED BY <2>1, MentionsAre
<1>6. PICK k \in DOMAIN issues : by_number(n) = issues[k] /\ issues[k].number = n
  BY <1>1, ByNumberIs
<1>7. p[1] = k
  BY <1>5, <1>6, PlainNumbers
<1>8. by_number(n).deps \in Seq(Nat)
  BY <1>1, AwaitsIsEdge
<1>9. p[2] \in Nat
  BY <1>5, <1>6, <1>7, <1>8
<1> QED BY <1>5, <1>6, <1>7, <1>9 DEF Awaits

LEMMA ElementOf ==
    ASSUME NEW S, NEW s \in Seq(S), NEW k \in DOMAIN s
    PROVE  s[k] \in S
  OBVIOUS

LEMMA FrontIs ==
    ASSUME NEW S, NEW p \in Seq(S), p # <<>>
    PROVE  /\ Front(p) \in Seq(S) /\ Len(Front(p)) = Len(p) - 1
           /\ \A i \in 1..Len(p) - 1 : Front(p)[i] = p[i]
<1> DEFINE n == Len(p) - 1
           f == [i \in 1..n |-> p[i]]
<1>1. n \in Nat /\ n <= Len(p)
  OBVIOUS
<1>2. f \in Seq(S) /\ Len(f) = n
  <2>1. \A i \in 1..n : p[i] \in S
    BY <1>1
  <2> QED BY <1>1, <2>1
<1>3. Front(p) = f
  BY <1>1 DEF Front
<1> QED BY <1>2, <1>3

\* The last element of a sequence is replaced.
LEMMA LastReplaced ==
    ASSUME NEW S, NEW p \in Seq(S), p # <<>>, NEW e \in S
    PROVE  LET t == Append(Front(p), e)
           IN  /\ t \in Seq(S) /\ Len(t) = Len(p) /\ t[Len(p)] = e
               /\ \A i \in 1..Len(p) - 1 : t[i] = p[i]
<1>1. Len(p) \in Nat \ {0}
  OBVIOUS
<1>2. /\ Front(p) \in Seq(S) /\ Len(Front(p)) = Len(p) - 1
      /\ \A i \in 1..Len(p) - 1 : Front(p)[i] = p[i]
  BY FrontIs
<1> QED BY <1>1, <1>2

LEMMA PathMoved ==
    ASSUME path # <<>>, NEW S, path \in Seq(S), NEW e \in S
    PROVE  LET t == Append(Front(path), e)
           IN  /\ t \in Seq(S) /\ Len(t) = Len(path) /\ t[Len(path)] = e
               /\ \A i \in 1..Len(path) - 1 : t[i] = path[i]
  BY LastReplaced

Goes(n) == \E j \in Nat : Awaits(n, j)

LEMMA FollowPath ==
    ASSUME TypeOK, Plain, pc = "cycle", cycle = <<>>, \A n \in Candidates : Goes(n), PathInv, Follow
    PROVE  (pc' = "cycle" /\ cycle' = <<>> /\ PathInv') \/ (pc' = "over" /\ CycleSound')
<1> DEFINE Nodes == [node : Candidates, dep : Nat \ {0}]
           l == Len(path)
           node == Last(path).node
           deps == by_number(node).deps
           k == Last(path).dep
           seen == {j \in DOMAIN path : path[j].node = deps[k]}
           rest == Front(path)
           moved == Append(rest, [node |-> node, dep |-> k + 1])
<1>1. /\ path \in Seq(Nodes) /\ path # <<>>
      /\ visited = {path[j].node : j \in DOMAIN path}
      /\ \E j \in Nat : k <= j /\ Awaits(node, j)
      /\ \A j \in 1..l - 1 : Edge(path[j].node, path[j + 1].node)
  BY DEF PathInv, Follow
<1>2. /\ UNCHANGED <<issues, result, starts>>
      /\ \/ k > Len(deps)
         \/ deps[k] \notin Candidates /\ path' = moved /\ UNCHANGED <<pc, visited, cycle>>
         \/ /\ deps[k] \in Candidates /\ deps[k] \notin visited
            /\ path' = Append(moved, [node |-> deps[k], dep |-> 1])
            /\ visited' = visited \cup {deps[k]}
            /\ UNCHANGED <<pc, cycle>>
         \/ /\ deps[k] \in Candidates /\ deps[k] \in visited
            /\ LET from == IF seen = {} THEN 1 ELSE Min(seen)
               IN  cycle' = Append([j \in 1..l - from + 1 |-> path[from + j - 1].node], deps[k])
            /\ pc' = "over"
  BY DEF Follow, reading, sorting
<1>3. /\ Numbers' = Numbers /\ Candidates' = Candidates
      /\ \A n, d : Edge(n, d)' <=> Edge(n, d)
      /\ \A n, j : Awaits(n, j)' <=> Awaits(n, j)
  BY <1>2 DEF Numbers, Candidates, Edge, Awaits, by_number
<1>4. l \in Nat \ {0} /\ DOMAIN path = 1..l /\ Last(path) = path[l]
  BY <1>1 DEF Last
<1>5. /\ path[l] \in Nodes /\ node = path[l].node /\ k = path[l].dep
      /\ node \in Candidates /\ k \in Nat \ {0}
  <2>1. path[l] \in Nodes
    <3> HIDE DEF Nodes
    <3>1. l \in DOMAIN path
      BY <1>4
    <3> QED BY <1>1, <3>1, ElementOf, Zenon
  <2> QED BY <1>4, <2>1
<1>6. node \in Numbers /\ Candidates \subseteq Numbers
  BY <1>5 DEF Candidates
<1> HIDE DEF node, k
<1>7. deps \in Seq(Nat) /\ \A j \in DOMAIN deps : Edge(node, deps[j])
  BY <1>6, AwaitsIsEdge
<1>8. PICK j \in Nat : k <= j /\ j \in DOMAIN deps /\ deps[j] \in Candidates
  BY <1>1 DEF Awaits
<1> HIDE DEF deps
<1>9. k \in DOMAIN deps /\ ~(k > Len(deps)) /\ Edge(node, deps[k])
  BY <1>5, <1>7, <1>8
<1>10. /\ moved \in Seq(Nodes) /\ Len(moved) = l /\ moved[l] = [node |-> node, dep |-> k + 1]
       /\ \A i \in 1..l - 1 : moved[i] = path[i]
  <2>1. path # <<>> /\ path \in Seq(Nodes) /\ [node |-> node, dep |-> k + 1] \in Nodes
    BY <1>1, <1>5
  <2> HIDE DEF Nodes
  <2> QED BY <2>1, PathMoved, Zenon
<1> HIDE DEF moved
<1>11. \A i \in 1..l : moved[i].node = path[i].node
  BY <1>4, <1>5, <1>10
<1>12. DOMAIN moved = 1..l
  BY <1>10
<1>13. \A i \in 1..l - 1 : Edge(moved[i].node, moved[i + 1].node)
  BY <1>1, <1>4, <1>11
<1>14. CASE deps[k] \notin Candidates /\ path' = moved /\ UNCHANGED <<pc, visited, cycle>>
  <2>1. Last(moved).node = node /\ Last(moved).dep = k + 1
    BY <1>10 DEF Last
  <2>2. k + 1 <= j /\ Awaits(node, j)
    BY <1>5, <1>8, <1>14 DEF Awaits, deps
  <2>3. visited = {moved[i].node : i \in DOMAIN moved}
    BY <1>1, <1>4, <1>11, <1>12
  <2>4. moved # <<>>
    BY <1>4, <1>10
  <2> QED BY <1>3, <1>10, <1>13, <1>14, <2>1, <2>2, <2>3, <2>4 DEF PathInv
<1>15. CASE /\ deps[k] \in Candidates /\ deps[k] \notin visited
            /\ path' = Append(moved, [node |-> deps[k], dep |-> 1])
            /\ visited' = visited \cup {deps[k]}
            /\ UNCHANGED <<pc, cycle>>
  <2> DEFINE e == [node |-> deps[k], dep |-> 1]
  <2>1. e \in Nodes /\ e.node = deps[k] /\ e.dep = 1
    BY <1>15
  <2> HIDE DEF e
  <2>2. path' = Append(moved, e)
    BY <1>15 DEF e
  <2>3. /\ path' \in Seq(Nodes) /\ Len(path') = l + 1 /\ path'[l + 1] = e
        /\ \A i \in 1..l : path'[i] = moved[i]
    BY <1>4, <1>10, <2>1, <2>2
  <2>4. path' # <<>> /\ DOMAIN path' = 1..l + 1 /\ Last(path') = e
    BY <1>4, <2>3 DEF Last
  <2>5. \E i \in Nat : e.dep <= i /\ Awaits(e.node, i)
    <3>1. PICK i \in Nat : Awaits(deps[k], i)
      BY <1>15 DEF Goes
    <3>2. by_number(deps[k]).deps \in Seq(Nat) /\ i \in DOMAIN by_number(deps[k]).deps
      BY <1>6, <1>15, <3>1, AwaitsIsEdge DEF Awaits
    <3>3. 1 <= i
      BY <3>2
    <3> QED BY <2>1, <3>1, <3>3
  <2>6. \A i \in 1..l : Edge(path'[i].node, path'[i + 1].node)
    <3>1. ASSUME NEW i \in 1..l - 1 PROVE Edge(path'[i].node, path'[i + 1].node)
      <4>1. i \in 1..l /\ i + 1 \in 1..l
        BY <1>4
      <4>2. path'[i] = moved[i] /\ path'[i + 1] = moved[i + 1]
        BY <2>3, <4>1
      <4> QED BY <1>13, <4>2
    <3>2. path'[l].node = node /\ path'[l + 1].node = deps[k]
      <4>1. l \in 1..l
        BY <1>4
      <4> QED BY <1>5, <1>11, <2>1, <2>3, <4>1
    <3>3. Edge(path'[l].node, path'[l + 1].node)
      BY <1>9, <3>2
    <3>4. \A i \in 1..l : i \in 1..l - 1 \/ i = l
      <4>1. \A n \in Nat : \A i \in 1..n : i \in 1..n - 1 \/ i = n
        OBVIOUS
      <4> QED BY <1>4, <4>1, Zenon
    <3> QED BY <3>1, <3>3, <3>4, Zenon
  <2>7. visited' = {path'[i].node : i \in DOMAIN path'}
    <3>1. \A i \in 1..l : path'[i].node = path[i].node
      BY <1>11, <2>3
    <3>2. path'[l + 1].node = deps[k] /\ 1..l + 1 = 1..l \cup {l + 1}
      <4>1. 1..l + 1 = 1..l \cup {l + 1}
        BY <1>4
      <4> QED BY <2>1, <2>3, <4>1
    <3>3. visited = {path'[i].node : i \in 1..l}
      BY <1>1, <1>4, <3>1
    <3> QED BY <1>15, <2>4, <3>2, <3>3
  <2>8. Len(path') - 1 = l
    BY <1>4, <2>3
  <2> QED BY <1>3, <1>15, <2>3, <2>4, <2>5, <2>6, <2>7, <2>8 DEF PathInv
<1>16. CASE /\ deps[k] \in visited
            /\ LET from == IF seen = {} THEN 1 ELSE Min(seen)
               IN  cycle' = Append([i \in 1..l - from + 1 |-> path[from + i - 1].node], deps[k])
            /\ pc' = "over"
  <2> DEFINE from == Min(seen)
             m == l - from + 1
             c == [i \in 1..m |-> path[from + i - 1].node]
  <2>1. seen # {} /\ seen \subseteq 1..l
    BY <1>1, <1>4, <1>16
  <2>2. from \in seen
    <3> HIDE DEF seen
    <3>1. seen \subseteq Nat
      BY <1>4, <2>1
    <3> QED BY <2>1, <3>1, MinIs
  <2>3. cycle' = Append(c, deps[k])
    BY <1>16, <2>1
  <2>4. from \in 1..l /\ path[from].node = deps[k]
    BY <2>1, <2>2
  <2> HIDE DEF from, seen
  <2>5. m \in 1..l /\ from + 1 - 1 = from /\ from + m - 1 = l
    BY <1>4, <2>4
  <2>6. /\ \A i \in 1..m : from + i - 1 \in 1..l
        /\ \A i \in 1..m - 1 : from + i - 1 \in 1..l - 1 /\ from + (i + 1) - 1 = (from + i - 1) + 1
    BY <1>4, <2>4
  <2>7. \A i \in 1..m : path[from + i - 1].node \in Candidates
    <3>1. \A i \in 1..l : path[i] \in Nodes
      <4> HIDE DEF Nodes
      <4> QED BY <1>1, <1>4, ElementOf
    <3> QED BY <2>6, <3>1
  <2> HIDE DEF m
  <2>8. c \in Seq(Candidates) /\ Len(c) = m /\ \A i \in 1..m : c[i] = path[from + i - 1].node
    BY <2>5, <2>7
  <2> HIDE DEF c
  <2>9. deps[k] \in Candidates
    BY <2>4, <2>5, <2>6, <2>7
  <2>10. /\ cycle' \in Seq(Candidates) /\ Len(cycle') = m + 1 /\ cycle'[m + 1] = deps[k]
         /\ \A i \in 1..m : cycle'[i] = path[from + i - 1].node
    BY <2>3, <2>5, <2>8, <2>9
  <2>11. Len(cycle') > 1 /\ Head(cycle') = cycle'[1] /\ Last(cycle') = cycle'[m + 1]
    BY <2>5, <2>10 DEF Last
  <2>12. Head(cycle') = Last(cycle')
    BY <2>4, <2>5, <2>10, <2>11
  <2>13. \A i \in 1..m : Edge(cycle'[i], cycle'[i + 1])
    <3>1. ASSUME NEW i \in 1..m - 1 PROVE Edge(cycle'[i], cycle'[i + 1])
      <4>1. i \in 1..m /\ i + 1 \in 1..m
        BY <2>5
      <4>2. /\ cycle'[i] = path[from + i - 1].node
            /\ cycle'[i + 1] = path[(from + i - 1) + 1].node
        BY <2>6, <2>10, <4>1
      <4> QED BY <1>1, <2>6, <4>2
    <3>2. Edge(cycle'[m], cycle'[m + 1])
      <4>1. m \in 1..m /\ path[from + m - 1].node = node
        BY <1>5, <2>5
      <4> QED BY <1>9, <2>10, <4>1
    <3> QED BY <2>5, <3>1, <3>2
  <2>14. Len(cycle') - 1 = m
    BY <2>5, <2>10
  <2> QED BY <1>3, <1>16, <2>11, <2>12, <2>13, <2>14 DEF CycleSound
<1> QED BY <1>2, <1>9, <1>14, <1>15, <1>16

\* The first dependency of a candidate is where its search begins.
LEMMA StartPath ==
    ASSUME TypeOK, Plain, pc = "cycle", \A n \in Candidates : Goes(n), PathInv, NextStart
    PROVE  PathInv'
<1> DEFINE Nodes == [node : Candidates, dep : Nat \ {0}]
           h == Head(starts)
           e == [node |-> h, dep |-> 1]
<1>1. /\ UNCHANGED <<issues, result>> /\ path' = <<e>> /\ visited' = {h} /\ h \in Candidates
  BY DEF NextStart, PathInv, reading, sorting
<1>2. /\ Numbers' = Numbers /\ Candidates' = Candidates
      /\ \A n, j : Awaits(n, j)' <=> Awaits(n, j)
  BY <1>1 DEF Numbers, Candidates, Awaits, by_number
<1> HIDE DEF h
<1>3. e \in Nodes /\ e.node = h /\ e.dep = 1
  BY <1>1
<1>4. \E j \in Nat : e.dep <= j /\ Awaits(e.node, j)
  <2>1. PICK j \in Nat : Awaits(h, j)
    BY <1>1 DEF Goes
  <2>2. by_number(h).deps \in Seq(Nat) /\ j \in DOMAIN by_number(h).deps
    BY <1>1, <2>1, AwaitsIsEdge DEF Awaits, Candidates
  <2>3. 1 <= j
    BY <2>2
  <2> QED BY <1>3, <2>1, <2>3
<1> HIDE DEF e
<1>5. /\ path' \in Seq(Nodes) /\ path' # <<>> /\ Len(path') = 1 /\ path'[1] = e
      /\ DOMAIN path' = {1} /\ Last(path') = e
  BY <1>1, <1>3 DEF Last
<1>6. visited' = {path'[j].node : j \in DOMAIN path'}
  BY <1>1, <1>3, <1>5
<1> QED BY <1>2, <1>4, <1>5, <1>6 DEF PathInv

\* When the queue is empty, those that are left are searched.
LEMMA EndSortCycle ==
    ASSUME TypeOK, SortInv, CycleInv, EndSort
    PROVE  CycleInv'
<1>1. /\ UNCHANGED <<issues, result, path, cycle>> /\ pc = "sort" /\ queue = {}
      /\ \/ pc' = "branches"
         \/ pc' = "cycle" /\ Candidates # {} /\ starts' = Sorted(Candidates)
  BY DEF EndSort, reading, sorting
<1>2. path = <<>> /\ cycle = <<>> /\ path' = <<>> /\ cycle' = <<>>
  BY <1>1 DEF CycleInv
<1>3. /\ Numbers' = Numbers /\ Candidates' = Candidates /\ (Plain' <=> Plain)
      /\ \A n, j : Awaits(n, j)' <=> Awaits(n, j)
  BY <1>1 DEF Numbers, Candidates, Awaits, by_number, Plain
<1>4. CycleSound'
  BY <1>2 DEF CycleSound
<1>5. ASSUME pc' = "cycle", Plain
      PROVE  (\A n \in Candidates : \E j \in Nat : Awaits(n, j))' /\ PathInv'
  <2>1. \A n \in Candidates : \E j \in Nat : Awaits(n, j)
    BY <1>1, <1>5, CandidatesAwait
  <2>2. starts' # <<>> /\ Head(starts') \in Candidates
    <3>1. Candidates \in SUBSET Nat /\ IsFiniteSet(Candidates)
      BY NumbersAreFinite, FS_Subset DEF Candidates
    <3>2. starts' \in Seq(Candidates) /\ starts' # <<>>
      BY <1>1, <1>5, <3>1, SortedIs
    <3> QED BY <3>2
  <2>3. PathInv'
    <3>1. path' \in Seq([node : Candidates', dep : Nat \ {0}])
      BY <1>2
    <3>2. \A j \in 1..Len(path') - 1 : Edge(path[j].node, path[j + 1].node)'
      <4>1. 1..Len(path') - 1 = {}
        BY <1>2
      <4> QED BY <4>1
    <3> QED BY <1>2, <1>3, <2>2, <3>1, <3>2 DEF PathInv
  <2> QED BY <1>3, <2>1, <2>3
<1> QED BY <1>1, <1>2, <1>3, <1>4, <1>5 DEF CycleInv

LEMMA CycleStep ==
    ASSUME IInv, Next
    PROVE  CycleInv'
<1> USE DEF reading, sorting, search, github, NextRepo
<1>1. TypeOK /\ SortInv /\ CycleInv
  BY DEF IInv
<1>2. ASSUME cycle' = <<>> PROVE CycleSound'
  BY <1>2 DEF CycleSound
<1>3. ASSUME UNCHANGED issues
      PROVE  Numbers' = Numbers /\ (Plain' <=> Plain) /\ \A n, d : Edge(n, d)' <=> Edge(n, d)
  BY <1>3 DEF Numbers, Plain, Edge
<1>4. CASE ReadRepo \/ BeginSort \/ RunAgain
  <2>1. pc' \in {"read", "sort"} /\ path' = <<>> /\ cycle' = <<>>
    BY <1>1, <1>4 DEF ReadRepo, BeginSort, RunAgain, CycleInv
  <2> QED BY <1>2, <2>1 DEF CycleInv
<1>5. CASE EndSort
  BY <1>1, <1>5, EndSortCycle
<1>6. CASE NextStart
  <2>1. pc = "cycle" /\ pc' = "cycle" /\ cycle' = <<>> /\ UNCHANGED <<issues, result>>
    BY <1>1, <1>6 DEF NextStart, CycleInv
  <2>2. /\ Candidates' = Candidates
        /\ \A n, j : Awaits(n, j)' <=> Awaits(n, j)
    BY <1>3, <2>1 DEF Candidates, Awaits, by_number
  <2>3. Plain => (\A n \in Candidates : \E j \in Nat : Awaits(n, j)) /\ PathInv
    BY <1>1, <2>1 DEF CycleInv
  <2>4. Plain => PathInv'
    BY <1>1, <1>6, <2>1, <2>3, StartPath DEF Goes
  <2> QED BY <1>2, <1>3, <2>1, <2>2, <2>3, <2>4 DEF CycleInv
<1>7. CASE Follow
  <2>1. /\ pc = "cycle" /\ cycle = <<>> /\ UNCHANGED <<issues, result>>
        /\ (pc' = "cycle" /\ cycle' = <<>>) \/ pc' = "over"
    BY <1>1, <1>7 DEF Follow, CycleInv
  <2>2. /\ Candidates' = Candidates
        /\ \A n, j : Awaits(n, j)' <=> Awaits(n, j)
    BY <1>3, <2>1 DEF Candidates, Awaits, by_number
  <2>3. CASE ~Plain
    BY <1>3, <2>1, <2>3 DEF CycleInv, CycleSound
  <2>4. CASE Plain
    <3>1. (\A n \in Candidates : \E j \in Nat : Awaits(n, j)) /\ PathInv
      BY <1>1, <2>1, <2>4 DEF CycleInv
    <3>2. (pc' = "cycle" /\ cycle' = <<>> /\ PathInv') \/ (pc' = "over" /\ CycleSound')
      BY <1>1, <1>7, <2>1, <2>4, <3>1, FollowPath DEF Goes
    <3> QED BY <1>2, <2>2, <3>1, <3>2 DEF CycleInv
  <2> QED BY <2>3, <2>4
<1>8. CASE NoCycleFound
  <2>1. pc = "cycle" /\ path = <<>> /\ starts = <<>> /\ pc' = "over" /\ UNCHANGED issues
    BY <1>8 DEF NoCycleFound
  <2>2. ~Plain
    BY <1>1, <2>1 DEF CycleInv, PathInv
  <2> QED BY <1>3, <2>1, <2>2 DEF CycleInv, CycleSound
<1>9. ASSUME UNCHANGED <<issues, cycle, path>>, pc \notin {"cycle", "over"}, pc' # "cycle"
      PROVE  CycleInv'
  <2>1. path' = <<>> /\ cycle' = <<>>
    BY <1>1, <1>9 DEF CycleInv
  <2> QED BY <1>2, <1>9, <2>1 DEF CycleInv
<1>10. CASE Fails \/ Unplanned \/ TakeFirst \/ PrepareBranch \/ BeginIssues
  BY <1>9, <1>10 DEF Fails, Unplanned, TakeFirst, PrepareBranch, BeginIssues
<1>11. ASSUME NEW n \in Numbers, NEW v \in {"completed", "parked", "raised"}, ExecuteIssue(n, v)
       PROVE  CycleInv'
  BY <1>9, <1>11 DEF ExecuteIssue
<1>12. CASE BeginHandOff \/ Push \/ PushFails \/ OpenPull \/ OpenFails \/ SkipRepo \/ EndRun
  BY <1>9, <1>12 DEF BeginHandOff, Push, PushFails, OpenPull, OpenFails, SkipRepo, EndRun
<1> QED BY <1>4, <1>5, <1>6, <1>7, <1>8, <1>10, <1>11, <1>12 DEF Next

----------------------------------------------------------------------------
(* What is left of the sort and of the search.                              *)

\* A node of the path stands at one of its dependencies or past the last.
LeftAt(e) == Len(by_number(e.node).deps) + 1 - e.dep

Places == {e \in [node : Candidates, dep : Nat \ {0}] : LeftAt(e) \in Nat}

SearchInv == pc = "cycle" => starts \in Seq(Candidates) /\ path \in Seq(Places)

\* The starts and the candidates not tried, then the way back.
SearchLeft ==
    <<Len(starts), Cardinality(Candidates \ visited), Len(path),
      IF path = <<>> THEN 0 ELSE LeftAt(Last(path))>>

Measured ==
    /\ pc = "sort" => Cardinality(Candidates) \in Nat
    /\ pc = "cycle" => SearchLeft \in Nat \X Nat \X Nat \X Nat

Lower(s, t) == \E i \in 1..4 : s[i] < t[i] /\ \A j \in 1..i - 1 : s[j] = t[j]

LEMMA CandidatesAreFinite ==
    ASSUME TypeOK, NEW V
    PROVE  /\ Candidates \in SUBSET Nat /\ IsFiniteSet(Candidates \ V)
           /\ Cardinality(Candidates \ V) \in Nat
<1>1. Candidates \in SUBSET Numbers /\ Candidates \ V \in SUBSET Numbers
  BY DEF Candidates
<1> QED BY <1>1, NumbersAreFinite, FS_Subset, FS_CardinalityType

LEMMA PlacesOf ==
    ASSUME TypeOK, NEW n \in Candidates
    PROVE  /\ by_number(n).deps \in Seq(Nat)
           /\ \A k \in 1..Len(by_number(n).deps) + 1 : [node |-> n, dep |-> k] \in Places
<1>1. by_number(n).deps \in Seq(Nat)
  BY AwaitsIsEdge DEF Candidates
<1>2. ASSUME NEW k \in 1..Len(by_number(n).deps) + 1
      PROVE  [node |-> n, dep |-> k] \in Places
  <2> DEFINE e == [node |-> n, dep |-> k]
  <2>1. e \in [node : Candidates, dep : Nat \ {0}] /\ e.node = n /\ e.dep = k
    BY <1>1
  <2> HIDE DEF e
  <2>2. LeftAt(e) = Len(by_number(n).deps) + 1 - k
    BY <2>1 DEF LeftAt
  <2>3. LeftAt(e) \in Nat
    BY <1>1, <2>2
  <2> QED BY <2>1, <2>3 DEF Places, e
<1> QED BY <1>1, <1>2

LEMMA MeasuresAre ==
    ASSUME TypeOK, SearchInv
    PROVE  Measured
<1>1. Cardinality(Candidates) \in Nat
  <2>1. Candidates = Candidates \ {}
    OBVIOUS
  <2> QED BY <2>1, CandidatesAreFinite
<1>2. ASSUME pc = "cycle" PROVE SearchLeft \in Nat \X Nat \X Nat \X Nat
  <2>1. starts \in Seq(Candidates) /\ path \in Seq(Places)
    BY <1>2 DEF SearchInv
  <2>2. Len(starts) \in Nat /\ Len(path) \in Nat
    BY <2>1
  <2>3. Cardinality(Candidates \ visited) \in Nat
    BY CandidatesAreFinite
  <2>4. ASSUME path # <<>> PROVE LeftAt(Last(path)) \in Nat
    <3>1. Len(path) \in DOMAIN path /\ Last(path) = path[Len(path)]
      BY <2>1, <2>4 DEF Last
    <3>2. path[Len(path)] \in Places
      BY <2>1, <3>1, ElementOf, Zenon
    <3> QED BY <3>1, <3>2 DEF Places
  <2> QED BY <2>2, <2>3, <2>4 DEF SearchLeft
<1> QED BY <1>1, <1>2 DEF Measured

\* What an issue waits for is the same while the search goes on.
LEMMA SearchFrame ==
    ASSUME UNCHANGED <<issues, result>>
    PROVE  /\ Numbers' = Numbers /\ Candidates' = Candidates /\ Places' = Places
           /\ \A e : LeftAt(e)' = LeftAt(e)
<1>1. Numbers' = Numbers /\ Candidates' = Candidates
  BY DEF Numbers, Candidates
<1>2. \A e : LeftAt(e)' = LeftAt(e)
  BY DEF LeftAt, by_number
<1> QED BY <1>1, <1>2 DEF Places

LEMMA NextStartSearch ==
    ASSUME TypeOK, SearchInv, NextStart
    PROVE  SearchInv' /\ Lower(SearchLeft', SearchLeft)
<1> DEFINE h == Head(starts)
           e == [node |-> h, dep |-> 1]
<1>1. /\ pc = "cycle" /\ starts # <<>> /\ path' = <<e>> /\ starts' = Tail(starts)
      /\ UNCHANGED <<pc, issues, result>>
  BY DEF NextStart, reading, sorting
<1>2. starts \in Seq(Candidates)
  BY <1>1 DEF SearchInv
<1>3. h \in Candidates /\ starts' \in Seq(Candidates) /\ Len(starts') < Len(starts)
  BY <1>1, <1>2
<1> HIDE DEF h
<1>4. e \in Places
  <2>1. /\ by_number(h).deps \in Seq(Nat)
        /\ \A k \in 1..Len(by_number(h).deps) + 1 : [node |-> h, dep |-> k] \in Places
    BY <1>3, PlacesOf
  <2>2. 1 \in 1..Len(by_number(h).deps) + 1
    BY <2>1
  <2> QED BY <2>1, <2>2
<1>5. path' \in Seq(Places)
  <2> HIDE DEF e
  <2> QED BY <1>1, <1>4
<1>6. SearchInv'
  BY <1>1, <1>3, <1>5, SearchFrame DEF SearchInv
<1>7. SearchLeft'[1] < SearchLeft[1]
  BY <1>3 DEF SearchLeft
<1> QED BY <1>6, <1>7 DEF Lower

\* Follow leaves a node, moves on from a dependency or takes up a candidate.
LEMMA FollowSearch ==
    ASSUME TypeOK, SearchInv, Follow, pc' = "cycle"
    PROVE  SearchInv' /\ Lower(SearchLeft', SearchLeft)
<1> DEFINE l == Len(path)
           node == Last(path).node
           deps == by_number(node).deps
           k == Last(path).dep
           next == [node |-> node, dep |-> k + 1]
           moved == Append(Front(path), next)
<1>1. /\ pc = "cycle" /\ path # <<>> /\ UNCHANGED <<issues, result, starts>>
      /\ \/ k > Len(deps) /\ path' = Front(path) /\ UNCHANGED visited
         \/ ~(k > Len(deps)) /\ path' = moved /\ UNCHANGED visited
         \/ /\ ~(k > Len(deps)) /\ deps[k] \in Candidates /\ deps[k] \notin visited
            /\ path' = Append(moved, [node |-> deps[k], dep |-> 1])
            /\ visited' = visited \cup {deps[k]}
  BY DEF Follow, reading, sorting
<1>2. starts \in Seq(Candidates) /\ path \in Seq(Places)
  BY <1>1 DEF SearchInv
<1>3. /\ Candidates' = Candidates /\ Places' = Places
      /\ \A e : LeftAt(e)' = LeftAt(e)
  BY <1>1, SearchFrame
<1>4. l \in Nat \ {0} /\ l \in DOMAIN path /\ Last(path) = path[l]
  BY <1>1, <1>2 DEF Last
<1>5. Last(path) \in Places
  <2>1. path[l] \in Places
    BY <1>2, <1>4, ElementOf, Zenon
  <2> QED BY <1>4, <2>1
<1>6. node \in Candidates /\ k \in Nat \ {0} /\ Len(deps) + 1 - k \in Nat
      /\ LeftAt(Last(path)) = Len(deps) + 1 - k
  BY <1>5 DEF Places, LeftAt
<1> HIDE DEF node, k
<1>7. deps \in Seq(Nat) /\ \A i \in 1..Len(deps) + 1 : [node |-> node, dep |-> i] \in Places
  BY <1>6, PlacesOf
<1> HIDE DEF deps
<1>8. Front(path) \in Seq(Places) /\ Len(Front(path)) = l - 1
  BY <1>1, <1>2, FrontIs
<1>9. ASSUME path' \in Seq(Places) PROVE SearchInv'
  BY <1>1, <1>2, <1>3, <1>9 DEF SearchInv
<1>10. ASSUME ~(k > Len(deps))
       PROVE  /\ next \in Places /\ next.node = node /\ next.dep = k + 1
              /\ moved \in Seq(Places) /\ Len(moved) = l /\ Last(moved) = next /\ moved # <<>>
  <2>1. next \in Places /\ next.node = node /\ next.dep = k + 1
    BY <1>6, <1>7, <1>10
  <2> HIDE DEF next
  <2>2. moved \in Seq(Places) /\ Len(moved) = l /\ moved[l] = next
    BY <1>1, <1>2, <2>1, LastReplaced
  <2>3. moved # <<>>
    BY <1>4, <2>2
  <2> QED BY <2>1, <2>2, <2>3 DEF Last
<1>11. /\ SearchLeft[1] = Len(starts) /\ SearchLeft'[1] = Len(starts)
       /\ SearchLeft[2] = Cardinality(Candidates \ visited)
       /\ SearchLeft'[2] = Cardinality(Candidates \ visited')
       /\ SearchLeft[3] = l /\ SearchLeft'[3] = Len(path')
       /\ SearchLeft[4] = LeftAt(Last(path))
       /\ path' # <<>> => SearchLeft'[4] = LeftAt(Last(path'))
  BY <1>1, <1>3 DEF SearchLeft
<1> HIDE DEF next, moved
<1>12. CASE k > Len(deps) /\ path' = Front(path) /\ UNCHANGED visited
  <2>1. SearchLeft'[3] < SearchLeft[3]
    BY <1>4, <1>8, <1>11, <1>12
  <2>2. \A j \in 1..2 : SearchLeft'[j] = SearchLeft[j]
    BY <1>11, <1>12
  <2> QED BY <1>8, <1>9, <1>12, <2>1, <2>2 DEF Lower
<1>13. CASE ~(k > Len(deps)) /\ path' = moved /\ UNCHANGED visited
  <2>1. LeftAt(Last(path')) = Len(deps) + 1 - (k + 1)
    BY <1>10, <1>13 DEF LeftAt, deps
  <2>2. SearchLeft'[4] < SearchLeft[4]
    BY <1>6, <1>7, <1>10, <1>11, <1>13, <2>1
  <2>3. \A j \in 1..3 : SearchLeft'[j] = SearchLeft[j]
    BY <1>10, <1>11, <1>13
  <2> QED BY <1>9, <1>10, <1>13, <2>2, <2>3 DEF Lower
<1>14. CASE /\ ~(k > Len(deps)) /\ deps[k] \in Candidates /\ deps[k] \notin visited
            /\ path' = Append(moved, [node |-> deps[k], dep |-> 1])
            /\ visited' = visited \cup {deps[k]}
  <2> DEFINE first == [node |-> deps[k], dep |-> 1]
             U == Candidates \ visited
             V == Candidates \ visited'
  <2>1. first \in Places
    <3>1. /\ by_number(deps[k]).deps \in Seq(Nat)
          /\ \A i \in 1..Len(by_number(deps[k]).deps) + 1 :
                 [node |-> deps[k], dep |-> i] \in Places
      BY <1>14, PlacesOf
    <3>2. 1 \in 1..Len(by_number(deps[k]).deps) + 1
      BY <3>1
    <3> QED BY <3>1, <3>2
  <2>2. path' \in Seq(Places)
    <3>1. path' = Append(moved, first) /\ moved \in Seq(Places)
      BY <1>10, <1>14
    <3> HIDE DEF first
    <3> QED BY <2>1, <3>1
  <2>3. V \in SUBSET U /\ V # U
    BY <1>14
  <2>4. IsFiniteSet(U) /\ Cardinality(U) \in Nat /\ Cardinality(V) \in Nat
    BY CandidatesAreFinite
  <2>5. Cardinality(V) < Cardinality(U)
    <3> HIDE DEF U, V
    <3>1. Cardinality(V) <= Cardinality(U) /\ Cardinality(V) # Cardinality(U)
      BY <2>3, <2>4, FS_Subset
    <3> QED BY <2>4, <3>1
  <2>6. SearchLeft'[2] < SearchLeft[2] /\ SearchLeft'[1] = SearchLeft[1]
    BY <1>11, <2>5
  <2> QED BY <1>9, <2>2, <2>6 DEF Lower
<1> QED BY <1>1, <1>12, <1>13, <1>14

LEMMA SearchStep ==
    ASSUME IInv, SearchInv, Next
    PROVE  SearchInv'
<1> USE DEF reading, sorting, search, github, NextRepo
<1>1. TypeOK
  BY DEF IInv
<1>2. CASE NextStart
  BY <1>1, <1>2, NextStartSearch
<1>3. CASE Follow
  BY <1>1, <1>3, FollowSearch DEF SearchInv
<1>4. CASE EndSort
  <2> SUFFICES ASSUME pc' = "cycle" PROVE SearchInv'
    BY DEF SearchInv
  <2>1. pc = "sort" /\ starts' = Sorted(Candidates) /\ UNCHANGED <<issues, result, path>>
    BY <1>4 DEF EndSort
  <2>2. path' = <<>>
    BY <2>1 DEF IInv, CycleInv
  <2>3. Candidates \in SUBSET Nat /\ IsFiniteSet(Candidates)
    <3>1. Candidates = Candidates \ {}
      OBVIOUS
    <3> QED BY <1>1, <3>1, CandidatesAreFinite
  <2>4. starts' \in Seq(Candidates)
    BY <2>1, <2>3, SortedIs
  <2> QED BY <2>1, <2>2, <2>4, SearchFrame DEF SearchInv
<1>5. ASSUME pc' # "cycle" PROVE SearchInv'
  BY <1>5 DEF SearchInv
<1>6. CASE Fails \/ ReadRepo \/ Unplanned \/ BeginSort \/ TakeFirst \/ NoCycleFound
           \/ PrepareBranch \/ BeginIssues
  BY <1>5, <1>6 DEF Fails, ReadRepo, Unplanned, BeginSort, TakeFirst, NoCycleFound,
     PrepareBranch, BeginIssues
<1>7. ASSUME NEW n \in Numbers, NEW v \in {"completed", "parked", "raised"}, ExecuteIssue(n, v)
      PROVE  SearchInv'
  BY <1>5, <1>7 DEF ExecuteIssue
<1>8. CASE BeginHandOff \/ Push \/ PushFails \/ OpenPull \/ OpenFails \/ SkipRepo \/ EndRun
           \/ RunAgain
  BY <1>5, <1>8 DEF BeginHandOff, Push, PushFails, OpenPull, OpenFails, SkipRepo, EndRun,
     RunAgain
<1> QED BY <1>2, <1>3, <1>4, <1>6, <1>7, <1>8 DEF Next

\* The issue that is taken is a candidate no longer.
LEMMA TakeFirstShrinks ==
    ASSUME TypeOK, SortInv, TakeFirst
    PROVE  Cardinality(Candidates') < Cardinality(Candidates)
<1> DEFINE c == Min(queue)
<1>1. pc = "sort" /\ queue # {} /\ result' = Append(result, c) /\ UNCHANGED issues
  BY DEF TakeFirst, reading
<1>2. queue \in SUBSET Numbers /\ Numbers \subseteq Nat /\ result \in Seq(Nat)
      /\ queue \cap Range(result) = {}
  BY <1>1, NumbersAreFinite DEF TypeOK, SortInv
<1>3. c \in queue
  BY <1>1, <1>2, MinIs
<1> HIDE DEF c
<1>4. Range(result') = Range(result) \cup {c}
  <2>1. /\ DOMAIN result' = DOMAIN result \cup {Len(result) + 1}
        /\ \A i \in DOMAIN result : result'[i] = result[i]
        /\ result'[Len(result) + 1] = c
    BY <1>1, <1>2, <1>3
  <2> QED BY <2>1 DEF Range
<1>5. Candidates' = Candidates \ {c} /\ c \in Candidates
  <2>1. Numbers' = Numbers
    BY <1>1 DEF Numbers
  <2> QED BY <1>2, <1>3, <1>4, <2>1 DEF Candidates
<1>6. /\ IsFiniteSet(Candidates) /\ Cardinality(Candidates) \in Nat
      /\ Cardinality(Candidates \ {c}) \in Nat
  <2>1. Candidates = Candidates \ {}
    OBVIOUS
  <2> QED BY <2>1, CandidatesAreFinite
<1>7. /\ Cardinality(Candidates \ {c}) <= Cardinality(Candidates)
      /\ Cardinality(Candidates \ {c}) # Cardinality(Candidates)
  <2>1. Candidates \ {c} \in SUBSET Candidates /\ Candidates \ {c} # Candidates
    BY <1>5
  <2> QED BY <1>6, <2>1, FS_Subset
<1> QED BY <1>5, <1>6, <1>7

----------------------------------------------------------------------------
(* The theorems.                                                            *)

\* What the hand-off, the order and the search rely on in every state: of the
\* issues read by read_wave, of the counts of topological_sort, of the path of
\* _find_cycle and of what run_wave has executed so far.
THEOREM WaveInvariant == Spec => []IInv
<1>1. Init => IInv
  BY InitIInv
<1>2. IInv /\ [Next]_vars => IInv'
  <2> SUFFICES ASSUME IInv, [Next]_vars PROVE IInv'
    OBVIOUS
  <2>1. CASE Next
    BY <2>1, TypeStep, ReadStep, HomeStep, StateStep, HandOffStep, SortStep, CycleStep DEF IInv
  <2>2. CASE UNCHANGED vars
    <3>1. UNCHANGED <<pc, listing, paths, at, issues, degree, queue, result>>
      BY <2>2 DEF vars, reading, sorting
    <3>2. UNCHANGED <<starts, path, visited, cycle, state, agent, remote, pulls, prs>>
      BY <2>2 DEF vars, search, github
    <3>3. /\ Numbers' = Numbers /\ Candidates' = Candidates /\ (Plain' <=> Plain)
          /\ \A n, d : Edge(n, d)' <=> Edge(n, d)
          /\ \A n, D : Mentions(n, D)' = Mentions(n, D)
          /\ \A n, j : Awaits(n, j)' <=> Awaits(n, j)
          /\ \A q : ListedIn(q)' = ListedIn(q)
      BY <3>1 DEF Numbers, Candidates, Plain, Edge, Mentions, Awaits, by_number, ListedIn
    <3>4. TypeOK'
      BY <3>1, <3>2, <3>3 DEF IInv, TypeOK
    <3>5. ReadInv'
      BY <3>1, <3>3 DEF IInv, ReadInv
    <3>6. HomeInv'
      BY <3>1, <3>2, <3>3 DEF IInv, HomeInv
    <3>7. StateInv'
      BY <3>1, <3>2, <3>3 DEF IInv, StateInv
    <3>8. HandOffInv'
      <4>1. Completed' = Completed
        BY <3>2 DEF Completed
      <4>2. HandOffInv
        BY DEF IInv
      <4>3. HandOffIsTrue'
        BY <3>2, <4>1, <4>2 DEF HandOffInv, HandOffIsTrue
      <4> QED BY <3>1, <3>2, <4>2, <4>3 DEF HandOffInv
    <3>9. SortInv'
      BY <3>1, <3>3 DEF IInv, SortInv, ResultSound
    <3>10. CycleInv'
      BY <3>1, <3>2, <3>3 DEF IInv, CycleInv, CycleSound, PathInv
    <3> QED BY <3>4, <3>5, <3>6, <3>7, <3>8, <3>9, <3>10 DEF IInv
  <2> QED BY <2>1, <2>2
<1> QED BY <1>1, <1>2, PTL DEF Spec

\* Every variable of the run keeps to its values (run_wave and what it calls);
\* an agent branch has merged nothing but issues.
THEOREM WaveTypes == Spec => []TypeOK
<1>1. IInv => TypeOK
  BY DEF IInv
<1> QED BY <1>1, WaveInvariant, PTL

\* topological_sort (wave/assembly.py) never puts an issue before one that it
\* depends on, and the cycle that _find_cycle reports is one.
THEOREM OrderIsAlwaysSound == Spec => []OrderIsSound
<1>1. IInv => OrderIsSound
  BY DEF IInv, SortInv, ResultSound, CycleInv, CycleSound, OrderIsSound
<1> QED BY <1>1, WaveInvariant, PTL

\* The pull request that push_and_open_pr (handoff/engine.py) opens in this run
\* tells the truth about the branch it was pushed from, in every repository of
\* the wave and whatever earlier runs have left there.
THEOREM HandOffIsAlwaysTrue == Spec => []HandOffIsTrue
<1>1. IInv => HandOffIsTrue
  BY DEF IInv, HandOffInv
<1> QED BY <1>1, WaveInvariant, PTL

\* Each step of topological_sort leaves fewer issues to place, and each step of
\* _find_cycle and _dfs_cycle lowers the starts left, the candidates not seen,
\* the path and the dependencies left at its end, in this order of weight
\* (wave/assembly.py), so that neither loop can go on for ever, also where a
\* number or a dependency is there twice.
OrderingAdvances ==
    [][/\ pc = "sort" /\ pc' = "sort" => Cardinality(Candidates') < Cardinality(Candidates)
       /\ pc = "cycle" /\ pc' = "cycle" => Lower(SearchLeft', SearchLeft)]_vars

\* The loops of topological_sort and of _find_cycle (wave/assembly.py) come to
\* their end for any issues of a wave: what they lower consists of naturals.
THEOREM OrderingAlwaysAdvances == Spec => []Measured /\ OrderingAdvances
<1> DEFINE Sorts ==
               pc = "sort" /\ pc' = "sort" => Cardinality(Candidates') < Cardinality(Candidates)
           Searches == pc = "cycle" /\ pc' = "cycle" => Lower(SearchLeft', SearchLeft)
<1>1. Init => SearchInv
  BY DEF Init, SearchInv
<1>2. IInv /\ SearchInv /\ [Next]_vars => SearchInv'
  <2> SUFFICES ASSUME IInv, SearchInv, UNCHANGED vars PROVE SearchInv'
    BY SearchStep
  <2>1. UNCHANGED <<pc, issues, result, starts, path>>
    BY DEF vars, reading, sorting, search
  <2> QED BY <2>1, SearchFrame DEF SearchInv
<1>3. IInv /\ SearchInv => Measured
  BY MeasuresAre DEF IInv
<1>4. IInv /\ SearchInv /\ Next => Sorts /\ Searches
  <2> SUFFICES ASSUME IInv, SearchInv, Next PROVE Sorts /\ Searches
    OBVIOUS
  <2>1. TypeOK /\ SortInv
    BY DEF IInv
  <2>2. pc = "sort" /\ pc' = "sort" => TakeFirst
    BY DEF Next, Fails, ReadRepo, Unplanned, BeginSort, EndSort, NextStart, Follow, NoCycleFound,
       PrepareBranch, BeginIssues, ExecuteIssue, BeginHandOff, Push, PushFails, OpenPull,
       OpenFails, SkipRepo, EndRun, RunAgain, NextRepo
  <2>3. pc = "cycle" /\ pc' = "cycle" => NextStart \/ Follow
    BY DEF Next, Fails, ReadRepo, Unplanned, BeginSort, TakeFirst, EndSort, NoCycleFound,
       PrepareBranch, BeginIssues, ExecuteIssue, BeginHandOff, Push, PushFails, OpenPull,
       OpenFails, SkipRepo, EndRun, RunAgain, NextRepo
  <2>4. Sorts
    BY <2>1, <2>2, TakeFirstShrinks
  <2>5. Searches
    BY <2>1, <2>3, NextStartSearch, FollowSearch
  <2> QED BY <2>4, <2>5
<1> QED BY <1>1, <1>2, <1>3, <1>4, WaveInvariant, PTL DEF Spec, OrderingAdvances
=============================================================================
