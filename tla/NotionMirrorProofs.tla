-------------------------- MODULE NotionMirrorProofs --------------------------
(***************************************************************************)
(* Theorems about what the engine keeps in Notion, for any finite set of   *)
(* issues, any size of a page and any number of jobs, failures and changes *)
(* made by others.                                                         *)
(***************************************************************************)
EXTENDS NotionMirror, FiniteSetTheorems, TLAPS

USE MirrorAssumption DEF MirrorAssumption

Texts == {0, 1}
Rows == [issue : Issues \cup {None}, state : States, text : Texts]
Targets == [issue : Issues, state : States, text : Texts]

TypeOK ==
    /\ github \in [Items -> [state : States, text : Texts]]
    /\ rows \in Seq(Rows)
    /\ page \in Seq(Nat)
    /\ job \in {"none", "open", "closed", "query", "write", "page", "delete", "append"}
    /\ jobs \in Nat
    /\ todo \in Seq(Targets)
    /\ cached \in Seq(Rows)
    /\ stale \in Nat
    /\ errors \in BOOLEAN
    /\ result \in {"none", "failed", "synced", "errors", "updated"}
    /\ calm \in BOOLEAN
    /\ doubled \subseteq Issues

\* A job has no result while it runs, and what it still has to do goes with it.
JobInv ==
    /\ job # "none" => result = "none"
    /\ job \notin {"closed", "query", "write"} => todo = <<>>

OwnPage == \A k \in DOMAIN page : page[k] = jobs

PageInv ==
    /\ job = "delete" => Len(page) = stale
    /\ job = "append" => OwnPage /\ Len(page) <= Blocks
    /\ result = "updated" => OwnPage /\ Len(page) = Blocks

\* The index has a row of its own for each issue in it, which nobody has
\* given to another issue since.
IndexInv ==
    job = "write" =>
        /\ row_index \in [DOMAIN row_index -> DOMAIN rows] /\ DOMAIN row_index \subseteq Issues
        /\ \A i \in DOMAIN row_index : rows[row_index[i]].issue \in {i, None}
        /\ \A i, j \in DOMAIN row_index : row_index[i] = row_index[j] => i = j

\* An issue that was not read twice has one row and is once on the list; if
\* it has a row and is still on the list, the row is in the index.
UniqueInv ==
    /\ \A m, n \in DOMAIN rows :
           rows[m].issue = rows[n].issue /\ rows[m].issue \in Issues \ doubled => m = n
    /\ \A k, n \in DOMAIN todo :
           todo[k].issue = todo[n].issue /\ todo[k].issue \notin doubled => k = n
    /\ job = "write" =>
           /\ \A n \in DOMAIN rows :
                  rows[n].issue \in DOMAIN row_index \ doubled => n = row_index[rows[n].issue]
           /\ \A n \in DOMAIN rows, k \in DOMAIN todo :
                  rows[n].issue = todo[k].issue => rows[n].issue \in DOMAIN row_index \cup doubled

\* As long as nobody else changes anything: what is on the list is what GitHub
\* has, the rows in the index are as they were read or written, and an issue is
\* still on the list or has its row, unless a write has failed; this of the
\* issues that GitHub's page reaches.
CalmInv ==
    calm =>
        /\ \A k \in DOMAIN todo : todo[k] = Mirrored(todo[k].issue)
        /\ job = "closed" =>
               \A i \in Reached :
                   github[i].state = "open" => \E k \in DOMAIN todo : todo[k].issue = i
        /\ job = "query" => \A i \in Reached : \E k \in DOMAIN todo : todo[k].issue = i
        /\ job = "write" =>
               /\ \A i \in DOMAIN row_index :
                      /\ rows[row_index[i]].issue = i
                      /\ rows[row_index[i]] \in {cached[row_index[i]], Mirrored(i)}
               /\ errors \/ \A i \in Reached :
                      \/ \E k \in DOMAIN todo : todo[k].issue = i
                      \/ \E n \in DOMAIN rows : rows[n] = Mirrored(i)
        /\ result = "synced" => \A i \in Reached : \E n \in DOMAIN rows : rows[n] = Mirrored(i)

IInv == TypeOK /\ JobInv /\ PageInv /\ IndexInv /\ UniqueInv /\ CalmInv

-----------------------------------------------------------------------------
(* Sequences.                                                               *)

\* A finite set as a sequence: every element is there, once.
LEMMA SetToSeqIs ==
    ASSUME NEW S, IsFiniteSet(S)
    PROVE  /\ SetToSeq(S) \in Seq(S)
           /\ \A x \in S : \E k \in DOMAIN SetToSeq(S) : SetToSeq(S)[k] = x
<1> DEFINE n == Cardinality(S)
<1>1. n \in Nat /\ ExistsBijection(1..n, S)
  BY FS_CardinalityType
<1>2. \E f \in [1..n -> S] : IsInjective(f)
  BY <1>1 DEF ExistsBijection, Bijection, Injection
<1>3. SetToSeq(S) \in [1..n -> S] /\ IsInjective(SetToSeq(S))
  BY <1>2 DEF SetToSeq
<1>4. SetToSeq(S) \in Injection(1..n, S)
  BY <1>3 DEF Injection
<1>5. IsFiniteSet(1..n) /\ Cardinality(1..n) = n
  BY <1>1, FS_Interval
<1> HIDE DEF n
<1>6. SetToSeq(S) \in Surjection(1..n, S)
  BY <1>4, <1>5, FS_Injection DEF n
<1> QED BY <1>1, <1>3, <1>6 DEF Surjection

\* list_issues returns the issues of the first page of a state as they are.
LEMMA ListedIs ==
    ASSUME TypeOK, NEW s \in States
    PROVE  /\ Listed(s) \in Seq(Targets)
           /\ \A k \in DOMAIN Listed(s) : Listed(s)[k] = Mirrored(Listed(s)[k].issue)
           /\ \A i \in Reached :
                  github[i].state = s => \E k \in DOMAIN Listed(s) : Listed(s)[k].issue = i
<1> DEFINE S == FirstPage(s) \cap Issues
           q == SetToSeq(S)
           l == [k \in DOMAIN q |-> [issue |-> q[k], state |-> s, text |-> github[q[k]].text]]
<1>1. IsFiniteSet(S)
  BY FS_Subset
<1>2. q \in Seq(S) /\ \A x \in S : \E k \in DOMAIN q : q[k] = x
  BY <1>1, SetToSeqIs
<1>3. Listed(s) = l
  BY DEF Listed
<1> HIDE DEF q
<1>6. DOMAIN q = 1..Len(q) /\ Len(q) \in Nat /\ DOMAIN l = DOMAIN q
  BY <1>2
<1>4. ASSUME NEW k \in DOMAIN q
      PROVE  /\ q[k] \in Issues /\ github[q[k]].state = s /\ github[q[k]].text \in Texts
             /\ l[k] = [issue |-> q[k], state |-> s, text |-> github[q[k]].text]
  <2>1. q[k] \in Issues /\ q[k] \in Items /\ github[q[k]].state = s
    <3>1. q[k] \in S
      BY <1>2
    <3> QED BY <3>1 DEF FirstPage, Items
  <2> QED BY <1>4, <2>1, <1>6 DEF TypeOK
<1>5. ASSUME NEW k \in DOMAIN q
      PROVE  l[k] \in Targets /\ l[k].issue = q[k] /\ l[k] = Mirrored(q[k])
  BY <1>4 DEF Targets, Mirrored
<1> HIDE DEF l
<1>7. l \in Seq(Targets)
  <2>1. l = [k \in 1..Len(q) |-> l[k]]
    BY <1>6 DEF l
  <2> QED BY <2>1, <1>5, <1>6
<1>8. \A k \in DOMAIN l : l[k] = Mirrored(l[k].issue)
  BY <1>5, <1>6
<1>9. \A i \in Reached : github[i].state = s => \E k \in DOMAIN l : l[k].issue = i
  <2>1. \A i \in Reached : github[i].state = s => i \in S
    BY DEF Reached
  <2> QED BY <1>2, <1>5, <1>6, <2>1
<1> QED BY <1>3, <1>7, <1>8, <1>9

\* The issue whose turn it is.
LEMMA TargetIs ==
    ASSUME TypeOK, todo # <<>>
    PROVE  /\ target = todo[1] /\ target \in Targets /\ target \in Rows
           /\ 1 \in DOMAIN todo /\ Tail(todo) \in Seq(Targets)
           /\ \A k \in DOMAIN Tail(todo) : k + 1 \in DOMAIN todo /\ Tail(todo)[k] = todo[k + 1]
           /\ \A k \in DOMAIN todo :
                  k = 1 \/ (k - 1 \in DOMAIN Tail(todo) /\ Tail(todo)[k - 1] = todo[k])
<1>1. todo \in Seq(Targets)
  BY DEF TypeOK
<1>2. target = todo[1] /\ todo[1] \in Targets /\ 1 \in DOMAIN todo
  BY <1>1 DEF target
<1>3. Targets \subseteq Rows
  BY DEF Targets, Rows
<1>4. Tail(todo) \in Seq(Targets) /\ Len(Tail(todo)) = Len(todo) - 1
  BY <1>1
<1>5. \A k \in DOMAIN Tail(todo) : k + 1 \in DOMAIN todo /\ Tail(todo)[k] = todo[k + 1]
  BY <1>1
<1>6. ASSUME NEW k \in DOMAIN todo, k # 1
      PROVE  k - 1 \in DOMAIN Tail(todo) /\ Tail(todo)[k - 1] = todo[k]
  <2>1. DOMAIN todo = 1..Len(todo) /\ DOMAIN Tail(todo) = 1..(Len(todo) - 1) /\ Len(todo) \in Nat
    BY <1>1, <1>4
  <2>2. k - 1 \in DOMAIN Tail(todo) /\ (k - 1) + 1 = k
    BY <2>1, <1>6
  <2> QED BY <2>2, <1>5
<1> QED BY <1>2, <1>3, <1>4, <1>5, <1>6

LEMMA ListedIssues ==
    ASSUME TypeOK
    PROVE  \A k \in DOMAIN todo : todo[k].issue \in Issues
<1>1. ASSUME NEW k \in DOMAIN todo PROVE todo[k] \in Targets
  BY DEF TypeOK
<1> QED BY <1>1 DEF Targets

\* A write replaces the row in the index.
LEMMA WrittenKnown ==
    ASSUME TypeOK, IndexInv, job = "write", todo # <<>>, Known
    PROVE  /\ Written \in Seq(Rows) /\ DOMAIN Written = DOMAIN rows
           /\ row_index[target.issue] \in DOMAIN rows
           /\ Written[row_index[target.issue]] = target
           /\ \A n \in DOMAIN rows : n # row_index[target.issue] => Written[n] = rows[n]
<1>1. rows \in Seq(Rows) /\ target \in Rows
  BY TargetIs DEF TypeOK
<1>2. row_index[target.issue] \in DOMAIN rows
  BY DEF IndexInv, Known
<1>3. Written = [rows EXCEPT ![row_index[target.issue]] = target]
  BY DEF Written
<1> QED BY <1>1, <1>2, <1>3

\* Or it adds one.
LEMMA WrittenNew ==
    ASSUME TypeOK, todo # <<>>, ~Known
    PROVE  /\ Written \in Seq(Rows) /\ DOMAIN Written = DOMAIN rows \cup {Len(rows) + 1}
           /\ Len(rows) + 1 \notin DOMAIN rows
           /\ Written[Len(rows) + 1] = target
           /\ \A n \in DOMAIN rows : Written[n] = rows[n]
<1>1. rows \in Seq(Rows) /\ target \in Rows
  BY TargetIs DEF TypeOK
<1>2. Written = Append(rows, target)
  BY DEF Written
<1> QED BY <1>1, <1>2

-----------------------------------------------------------------------------
(* The steps.                                                               *)

LEMMA InitIInv == Init => IInv
<1> SUFFICES ASSUME Init PROVE IInv
  OBVIOUS
<1>1. github \in [Items -> [state : States, text : Texts]]
  BY DEF Init, Texts
<1>4. rows \in Seq(Rows) /\ page \in Seq(Nat) /\ todo \in Seq(Targets) /\ cached \in Seq(Rows)
  BY DEF Init
<1>2. TypeOK
  BY <1>1, <1>4 DEF Init, TypeOK
<1>3. JobInv /\ PageInv /\ IndexInv /\ UniqueInv /\ CalmInv
  BY DEF Init, JobInv, PageInv, IndexInv, UniqueInv, CalmInv
<1> QED BY <1>2, <1>3 DEF IInv

LEMMA RowsType ==
    ASSUME TypeOK, IndexInv, WriteNeeded
    PROVE  Written \in Seq(Rows) /\ target \in Targets /\ Tail(todo) \in Seq(Targets)
<1>1. todo # <<>> /\ job = "write"
  BY DEF WriteNeeded
<1> QED BY <1>1, TargetIs, WrittenKnown, WrittenNew

\* What somebody does to a row.
LEMMA RowEdited ==
    ASSUME TypeOK, NEW n \in DOMAIN rows, RowChanges(n)
    PROVE  /\ rows' \in Seq(Rows) /\ DOMAIN rows' = DOMAIN rows
           /\ \A m \in DOMAIN rows : rows'[m].issue \in {rows[m].issue, None}
<1>1. rows \in Seq(Rows) /\ rows[n] \in Rows
  BY DEF TypeOK
<1>2. CASE rows' = [rows EXCEPT ![n].text = 1 - @]
  <2> DEFINE r == [rows[n] EXCEPT !.text = 1 - @]
  <2>1. r \in Rows /\ r.issue = rows[n].issue
    BY <1>1 DEF Rows, Texts
  <2>2. rows' = [rows EXCEPT ![n] = r]
    BY <1>2
  <2> HIDE DEF r
  <2> QED BY <1>1, <2>1, <2>2
<1>3. CASE rows' = [rows EXCEPT ![n].issue = None]
  <2> DEFINE r == [rows[n] EXCEPT !.issue = None]
  <2>1. r \in Rows /\ r.issue = None
    BY <1>1 DEF Rows, Texts
  <2>2. rows' = [rows EXCEPT ![n] = r]
    BY <1>3
  <2> HIDE DEF r
  <2> QED BY <1>1, <2>1, <2>2
<1> QED BY <1>2, <1>3 DEF RowChanges

LEMMA EndType ==
    ASSUME NEW how \in {"failed", "synced", "errors", "updated"}, End(how)
    PROVE  /\ job' = "none" /\ result' = how /\ todo' \in Seq(Targets) /\ cached' \in Seq(Rows)
           /\ errors' \in BOOLEAN /\ stale' \in Nat
<1>1. <<>> \in Seq(Targets) /\ <<>> \in Seq(Rows)
  OBVIOUS
<1>2. /\ job' = "none" /\ result' = how /\ todo' = <<>> /\ cached' = <<>>
      /\ errors' = FALSE /\ stale' = 0
  BY DEF End
<1> QED BY <1>1, <1>2

LEMMA TypeStep ==
    ASSUME IInv, Next
    PROVE  TypeOK'
<1> USE DEF IInv, mirror, others
<1>1. ASSUME NEW i \in Items, ItemChanges(i) PROVE TypeOK'
  <2>1. github' \in [Items -> [state : States, text : Texts]]
    <3>1. github[i] \in [state : States, text : Texts] /\ github \in [Items -> [state : States, text : Texts]]
      BY DEF TypeOK
    <3>2. CASE github' = [github EXCEPT ![i].text = 1 - @]
      <4>1. [github[i] EXCEPT !.text = 1 - @] \in [state : States, text : Texts]
        BY <3>1 DEF Texts
      <4> QED BY <3>1, <3>2, <4>1
    <3>3. ASSUME NEW s \in States, github' = [github EXCEPT ![i].state = s]
          PROVE  github' \in [Items -> [state : States, text : Texts]]
      <4>1. [github[i] EXCEPT !.state = s] \in [state : States, text : Texts]
        BY <3>1
      <4> QED BY <3>1, <3>3, <4>1
    <3> QED BY <1>1, <3>2, <3>3 DEF ItemChanges
  <2> QED BY <1>1, <2>1 DEF ItemChanges, Change, TypeOK
<1>2. ASSUME NEW n \in DOMAIN rows, RowChanges(n) PROVE TypeOK'
  <2>1. rows' \in Seq(Rows)
    BY <1>2, RowEdited
  <2> QED BY <1>2, <2>1 DEF RowChanges, Change, TypeOK
<1>3. ASSUME NEW what \in {"open", "page"}, Begin(what) PROVE TypeOK'
  BY <1>3 DEF Begin, TypeOK
<1>4. ASSUME NEW s \in States, NEW next \in {"closed", "query"}, ListIssues(s, next) PROVE TypeOK'
  <2>1. todo' \in Seq(Targets)
    <3>1. todo \in Seq(Targets) /\ Listed(s) \in Seq(Targets) /\ todo' = todo \o Listed(s)
      BY <1>4, ListedIs DEF ListIssues, TypeOK
    <3> QED BY <3>1
  <2>2. doubled' \subseteq Issues
    BY <1>4 DEF ListIssues, TypeOK
  <2> QED BY <1>4, <2>1, <2>2 DEF ListIssues, TypeOK
<1>5. CASE Query
  BY <1>5 DEF Query, TypeOK
<1>6. CASE Unchanged
  <2>1. todo' \in Seq(Targets)
    BY <1>6, TargetIs DEF Unchanged
  <2> QED BY <1>6, <2>1 DEF Unchanged, TypeOK
<1>7. CASE WriteDone
  <2>1. todo' \in Seq(Targets) /\ rows' \in Seq(Rows)
    BY <1>7, RowsType DEF WriteDone
  <2> QED BY <1>7, <2>1 DEF WriteDone, TypeOK
<1>8. CASE WriteFails
  <2>1. todo' \in Seq(Targets) /\ rows' \in Seq(Rows)
    BY <1>8, RowsType DEF WriteFails, TypeOK
  <2> QED BY <1>8, <2>1 DEF WriteFails, TypeOK
<1>9. CASE WriteLost
  <2>1. rows' = Written /\ WriteNeeded /\ End("failed") /\ UNCHANGED <<others, page, jobs, calm, doubled>>
    BY <1>9 DEF WriteLost
  <2>2. rows' \in Seq(Rows)
    BY <2>1, RowsType
  <2> QED BY <2>1, <2>2, EndType DEF TypeOK
<1>10. CASE EndSync \/ EndUpdate \/ Abort
  BY <1>10, EndType DEF EndSync, EndUpdate, Abort, TypeOK
<1>11. CASE ReadPage \/ BeginAppend
  BY <1>11 DEF ReadPage, BeginAppend, get_block_children, TypeOK
<1>12. CASE DeleteBlock
  <2>1. page' \in Seq(Nat)
    <3>1. page # <<>> /\ page \in Seq(Nat) /\ page' = Tail(page)
      BY <1>12 DEF DeleteBlock, PageInv, TypeOK
    <3> QED BY <3>1
  <2> QED BY <1>12, <2>1 DEF DeleteBlock, TypeOK
<1>13. CASE AppendBatch
  BY <1>13 DEF AppendBatch, TypeOK
<1>14. CASE PageLost
  <2>1. page' \in Seq(Nat)
    <3>1. CASE job = "delete" /\ stale > 0 /\ page' = Tail(page)
      <4>1. page # <<>> /\ page \in Seq(Nat)
        BY <3>1 DEF PageInv, TypeOK
      <4> QED BY <3>1, <4>1
    <3>2. CASE page' = Append(page, jobs)
      BY <3>2 DEF TypeOK
    <3> QED BY <1>14, <3>1, <3>2 DEF PageLost
  <2> QED BY <1>14, <2>1, EndType DEF PageLost, TypeOK
<1> QED
  BY <1>1, <1>2, <1>3, <1>4, <1>5, <1>6, <1>7, <1>8, <1>9, <1>10, <1>11, <1>12, <1>13, <1>14
  DEF Next, States

LEMMA JobStep ==
    ASSUME IInv, Next
    PROVE  JobInv'
<1> USE DEF IInv, JobInv, mirror, others, End
<1>1. ASSUME NEW i \in Items, ItemChanges(i) PROVE JobInv'
  BY <1>1 DEF ItemChanges, Change
<1>2. ASSUME NEW n \in DOMAIN rows, RowChanges(n) PROVE JobInv'
  BY <1>2 DEF RowChanges, Change
<1>3. ASSUME NEW what \in {"open", "page"}, Begin(what) PROVE JobInv'
  BY <1>3 DEF Begin
<1>4. ASSUME NEW s, NEW next \in {"closed", "query"}, ListIssues(s, next), s \in {"open", "closed"}
      PROVE JobInv'
  BY <1>4 DEF ListIssues
<1>5. CASE Query \/ Unchanged \/ WriteDone \/ WriteFails
  BY <1>5 DEF Query, Unchanged, WriteDone, WriteFails, WriteNeeded
<1>6. CASE WriteLost \/ EndSync \/ EndUpdate \/ Abort \/ PageLost
  BY <1>6 DEF WriteLost, EndSync, EndUpdate, Abort, PageLost
<1>7. CASE ReadPage \/ DeleteBlock \/ BeginAppend \/ AppendBatch
  BY <1>7 DEF ReadPage, DeleteBlock, BeginAppend, AppendBatch
<1> QED BY <1>1, <1>2, <1>3, <1>4, <1>5, <1>6, <1>7 DEF Next

\* While a job appends, every block of the page is its own.
LEMMA OwnBlocksCount ==
    ASSUME TypeOK, OwnPage
    PROVE  Cardinality(OwnBlocks) = Len(page) /\ Len(page) \in Nat
<1>1. page \in Seq(Nat)
  BY DEF TypeOK
<1>2. OwnBlocks = 1..Len(page) /\ Len(page) \in Nat
  BY <1>1 DEF OwnPage, OwnBlocks
<1>3. \A n \in Nat : Cardinality(1..n) = n
  BY FS_Interval
<1> QED BY <1>2, <1>3

LEMMA PageStep ==
    ASSUME IInv, Next
    PROVE  PageInv'
<1> USE DEF IInv, PageInv, mirror, others
<1>0. page \in Seq(Nat)
  BY DEF TypeOK
<1>1. ASSUME UNCHANGED <<page, jobs, result, stale>>, job' \notin {"delete", "append"} \/ UNCHANGED job
      PROVE  PageInv'
  BY <1>1 DEF OwnPage
<1>2. ASSUME NEW how, how # "updated", End(how) PROVE PageInv'
  BY <1>2 DEF End
<1>3. ASSUME NEW i \in Items, ItemChanges(i) PROVE PageInv'
  BY <1>1, <1>3 DEF ItemChanges, Change
<1>4. ASSUME NEW n \in DOMAIN rows, RowChanges(n) PROVE PageInv'
  BY <1>1, <1>4 DEF RowChanges, Change
<1>5. ASSUME NEW what \in {"open", "page"}, Begin(what) PROVE PageInv'
  BY <1>5 DEF Begin
<1>6. ASSUME NEW s, NEW next \in {"closed", "query"}, ListIssues(s, next) PROVE PageInv'
  BY <1>1, <1>6 DEF ListIssues
<1>7. CASE Query \/ Unchanged \/ WriteDone \/ WriteFails
  BY <1>1, <1>7 DEF Query, Unchanged, WriteDone, WriteFails
<1>8. CASE WriteLost \/ Abort \/ PageLost \/ EndSync
  BY <1>2, <1>8 DEF WriteLost, Abort, PageLost, EndSync
<1>9. CASE ReadPage
  BY <1>9 DEF ReadPage, get_block_children, JobInv
<1>10. CASE DeleteBlock
  <2>1. page # <<>> /\ page' = Tail(page) /\ stale' = stale - 1 /\ job' = "delete" /\ result' # "updated"
    BY <1>10, <1>0 DEF DeleteBlock, JobInv
  <2> QED BY <1>10, <1>0, <2>1 DEF DeleteBlock
<1>11. CASE BeginAppend
  <2>1. Len(page) = 0 /\ UNCHANGED page /\ job' = "append" /\ result' # "updated"
    BY <1>11 DEF BeginAppend, JobInv
  <2> QED BY <1>0, <2>1 DEF OwnPage
<1>12. CASE AppendBatch
  <2>1. OwnPage /\ Len(page) < Blocks /\ page' = Append(page, jobs) /\ UNCHANGED <<jobs, job>>
        /\ job = "append" /\ result' # "updated"
    BY <1>12, OwnBlocksCount DEF AppendBatch, JobInv
  <2>2. Len(page') <= Blocks /\ \A k \in DOMAIN page' : page'[k] = jobs
    BY <1>0, <2>1 DEF OwnPage
  <2> QED BY <2>1, <2>2 DEF OwnPage
<1>13. CASE EndUpdate
  <2>1. OwnPage /\ Len(page) = Blocks /\ UNCHANGED <<page, jobs>> /\ job' = "none"
    BY <1>13, OwnBlocksCount DEF EndUpdate, End
  <2> QED BY <2>1 DEF OwnPage
<1> QED
  BY <1>3, <1>4, <1>5, <1>6, <1>7, <1>8, <1>9, <1>10, <1>11, <1>12, <1>13 DEF Next

LEMMA IndexStep ==
    ASSUME IInv, Next
    PROVE  IndexInv'
<1> USE DEF IInv, IndexInv, mirror, others
<1>0. rows \in Seq(Rows) /\ None \notin Issues
  BY DEF TypeOK
<1>1. ASSUME job' # "write" PROVE IndexInv'
  BY <1>1
<1>2. ASSUME UNCHANGED <<job, rows, row_index>> PROVE IndexInv'
  BY <1>2
<1>3. ASSUME WriteNeeded, rows' = Written, UNCHANGED <<job, row_index>> PROVE IndexInv'
  <2>1. job = "write" /\ todo # <<>> /\ target.issue \in Issues
    BY <1>3, RowsType DEF WriteNeeded, Targets
  <2>2. CASE Known
    <3>1. /\ DOMAIN rows' = DOMAIN rows /\ rows'[row_index[target.issue]] = target
          /\ \A n \in DOMAIN rows : n # row_index[target.issue] => rows'[n] = rows[n]
      BY <1>3, <2>1, <2>2, WrittenKnown
    <3>2. target.issue \in DOMAIN row_index
      BY <2>2 DEF Known
    <3> QED BY <1>3, <2>1, <3>1, <3>2
  <2>3. CASE ~Known
    <3>1. /\ DOMAIN rows \subseteq DOMAIN rows' /\ \A n \in DOMAIN rows : rows'[n] = rows[n]
      BY <1>3, <2>1, <2>3, WrittenNew
    <3> QED BY <1>3, <2>1, <3>1
  <2> QED BY <2>2, <2>3
<1>4. ASSUME NEW n \in DOMAIN rows, RowChanges(n) PROVE IndexInv'
  <2>1. /\ DOMAIN rows' = DOMAIN rows /\ UNCHANGED <<job, row_index>>
        /\ \A m \in DOMAIN rows : rows'[m].issue \in {rows[m].issue, None}
    BY <1>4, RowEdited DEF RowChanges, Change
  <2> QED BY <2>1
<1>5. ASSUME NEW i \in Items, ItemChanges(i) PROVE IndexInv'
  BY <1>2, <1>5 DEF ItemChanges, Change
<1>6. ASSUME NEW what \in {"open", "page"}, Begin(what) PROVE IndexInv'
  BY <1>1, <1>6 DEF Begin
<1>7. ASSUME NEW s, NEW next \in {"closed", "query"}, ListIssues(s, next) PROVE IndexInv'
  BY <1>1, <1>7 DEF ListIssues
<1>8. CASE Query
  <2> DEFINE RowsOf(i) == {n \in DOMAIN rows : rows[n].issue = i}
             Rowed == {i \in Issues : RowsOf(i) # {}}
  <2>1. PICK f \in [Rowed -> DOMAIN rows] : (\A i \in Rowed : f[i] \in RowsOf(i)) /\ row_index' = f
    BY <1>8 DEF Query
  <2>2. UNCHANGED rows
    BY <1>8 DEF Query
  <2> QED BY <2>1, <2>2
<1>9. CASE Unchanged
  BY <1>2, <1>9 DEF Unchanged
<1>10. CASE WriteDone
  BY <1>3, <1>10 DEF WriteDone, WriteNeeded
<1>11. CASE WriteFails
  BY <1>2, <1>3, <1>11 DEF WriteFails, WriteNeeded
<1>12. CASE WriteLost \/ EndSync \/ EndUpdate \/ Abort \/ PageLost
  BY <1>1, <1>12 DEF WriteLost, EndSync, EndUpdate, Abort, PageLost, End
<1>13. CASE ReadPage \/ DeleteBlock \/ BeginAppend \/ AppendBatch
  BY <1>1, <1>13 DEF ReadPage, DeleteBlock, BeginAppend, AppendBatch
<1> QED
  BY <1>4, <1>5, <1>6, <1>7, <1>8, <1>9, <1>10, <1>11, <1>12, <1>13 DEF Next

\* The first and the last part of UniqueInv by themselves.
OneRow ==
    \A m, n \in DOMAIN rows :
        rows[m].issue = rows[n].issue /\ rows[m].issue \in Issues \ doubled => m = n

ListedOnce ==
    \A k, n \in DOMAIN todo :
        todo[k].issue = todo[n].issue /\ todo[k].issue \notin doubled => k = n

RowsIndexed ==
    /\ \A n \in DOMAIN rows :
           rows[n].issue \in DOMAIN row_index \ doubled => n = row_index[rows[n].issue]
    /\ \A n \in DOMAIN rows, k \in DOMAIN todo :
           rows[n].issue = todo[k].issue => rows[n].issue \in DOMAIN row_index \cup doubled

LEMMA UniqueParts == UniqueInv <=> OneRow /\ ListedOnce /\ (job = "write" => RowsIndexed)
  BY DEF UniqueInv, OneRow, ListedOnce, RowsIndexed

\* Taking the issue whose turn it is off the list.
LEMMA ListShortens ==
    ASSUME TypeOK, todo # <<>>, ListedOnce, todo' = Tail(todo), UNCHANGED doubled
    PROVE  /\ ListedOnce'
           /\ \A k \in DOMAIN todo' : \E m \in DOMAIN todo : todo[m] = todo'[k]
           /\ target.issue \notin doubled => \A k \in DOMAIN todo' : todo'[k].issue # target.issue
<1>1. \A k \in DOMAIN todo' : k + 1 \in DOMAIN todo /\ todo'[k] = todo[k + 1] /\ k \in Nat /\ k > 0
  BY TargetIs DEF TypeOK
<1>2. ListedOnce'
  <2> SUFFICES ASSUME NEW k \in DOMAIN todo', NEW n \in DOMAIN todo',
                      todo'[k].issue = todo'[n].issue, todo'[k].issue \notin doubled
               PROVE  k = n
    BY DEF ListedOnce
  <2>1. k + 1 = n + 1
    BY <1>1 DEF ListedOnce
  <2> QED BY <1>1, <2>1
<1>3. ASSUME target.issue \notin doubled, NEW k \in DOMAIN todo'
      PROVE  todo'[k].issue # target.issue
  <2>1. target = todo[1] /\ 1 \in DOMAIN todo
    BY TargetIs
  <2>2. k + 1 # 1 /\ k + 1 \in DOMAIN todo /\ todo'[k] = todo[k + 1]
    BY <1>1
  <2> QED BY <1>3, <2>1, <2>2 DEF ListedOnce
<1> QED BY <1>1, <1>2, <1>3

\* A write that takes effect gives no issue a second row.
LEMMA OneRowWrite ==
    ASSUME IInv, WriteNeeded, rows' = Written, UNCHANGED doubled
    PROVE  OneRow'
<1>0. /\ job = "write" /\ todo # <<>> /\ target.issue \in Issues
      /\ TypeOK /\ IndexInv /\ OneRow /\ RowsIndexed
      /\ target = todo[1] /\ 1 \in DOMAIN todo
  BY RowsType, TargetIs, UniqueParts DEF WriteNeeded, Targets, IInv
<1>1. CASE Known
  <2> DEFINE r == row_index[target.issue]
  <2>1. /\ DOMAIN rows' = DOMAIN rows /\ r \in DOMAIN rows /\ rows'[r] = target
        /\ \A n \in DOMAIN rows : n # r => rows'[n] = rows[n]
    BY <1>0, <1>1, WrittenKnown
  <2>2. \A n \in DOMAIN rows :
            rows[n].issue = target.issue /\ target.issue \notin doubled => n = r
    BY <1>0, <1>1 DEF RowsIndexed, Known
  <2> HIDE DEF r
  <2> SUFFICES ASSUME NEW m \in DOMAIN rows, NEW n \in DOMAIN rows,
                      rows'[m].issue = rows'[n].issue, rows'[m].issue \in Issues \ doubled
               PROVE  m = n
    BY <2>1 DEF OneRow
  <2> QED BY <1>0, <2>1, <2>2 DEF OneRow
<1>2. CASE ~Known
  <2> DEFINE l == Len(rows) + 1
  <2>1. /\ DOMAIN rows' = DOMAIN rows \cup {l} /\ l \notin DOMAIN rows /\ rows'[l] = target
        /\ \A n \in DOMAIN rows : rows'[n] = rows[n]
    BY <1>0, <1>2, WrittenNew
  <2>2. target.issue \notin doubled => \A n \in DOMAIN rows : rows[n].issue # target.issue
    BY <1>0, <1>2 DEF RowsIndexed, Known
  <2> HIDE DEF l
  <2> SUFFICES ASSUME NEW m \in DOMAIN rows', NEW n \in DOMAIN rows',
                      rows'[m].issue = rows'[n].issue, rows'[m].issue \in Issues \ doubled
               PROVE  m = n
    BY DEF OneRow
  <2>3. CASE m = l \/ n = l
    BY <2>3, <2>1, <2>2
  <2>4. CASE m # l /\ n # l
    BY <2>4, <1>0, <2>1 DEF OneRow
  <2> QED BY <2>3, <2>4
<1> QED BY <1>1, <1>2

\* Nor does it leave one on the list whose row is not in the index.
LEMMA UniqueWrite ==
    ASSUME IInv, WriteNeeded, rows' = Written, todo' = Tail(todo), UNCHANGED <<row_index, doubled>>
    PROVE  OneRow' /\ ListedOnce' /\ RowsIndexed'
<1>0. /\ job = "write" /\ todo # <<>> /\ target.issue \in Issues /\ TypeOK /\ IndexInv
      /\ ListedOnce /\ RowsIndexed /\ target = todo[1] /\ 1 \in DOMAIN todo
  BY RowsType, TargetIs, UniqueParts DEF WriteNeeded, Targets, IInv
<1>1. /\ ListedOnce'
      /\ \A k \in DOMAIN todo' : \E m \in DOMAIN todo : todo[m] = todo'[k]
      /\ target.issue \notin doubled => \A k \in DOMAIN todo' : todo'[k].issue # target.issue
  BY <1>0, ListShortens
<1>2. CASE Known
  <2> DEFINE r == row_index[target.issue]
  <2>1. /\ DOMAIN rows' = DOMAIN rows /\ r \in DOMAIN rows /\ rows'[r] = target
        /\ \A n \in DOMAIN rows : n # r => rows'[n] = rows[n]
    BY <1>0, <1>2, WrittenKnown
  <2>2. \A n \in DOMAIN rows' :
            rows'[n].issue \in DOMAIN row_index \ doubled => n = row_index[rows'[n].issue]
    BY <1>0, <2>1 DEF RowsIndexed
  <2>3. \A n \in DOMAIN rows', k \in DOMAIN todo' :
            rows'[n].issue = todo'[k].issue => rows'[n].issue \in DOMAIN row_index \cup doubled
    BY <1>0, <1>1, <1>2, <2>1 DEF RowsIndexed, Known
  <2> QED BY <1>1, <2>2, <2>3, OneRowWrite DEF RowsIndexed
<1>3. CASE ~Known
  <2> DEFINE l == Len(rows) + 1
  <2>1. /\ DOMAIN rows' = DOMAIN rows \cup {l} /\ l \notin DOMAIN rows /\ rows'[l] = target
        /\ \A n \in DOMAIN rows : rows'[n] = rows[n]
    BY <1>0, <1>3, WrittenNew
  <2> HIDE DEF l
  <2>2. \A n \in DOMAIN rows' :
            rows'[n].issue \in DOMAIN row_index \ doubled => n = row_index[rows'[n].issue]
    BY <1>0, <1>3, <2>1 DEF RowsIndexed, Known
  <2>3. \A n \in DOMAIN rows', k \in DOMAIN todo' :
            rows'[n].issue = todo'[k].issue => rows'[n].issue \in DOMAIN row_index \cup doubled
    BY <1>0, <1>1, <2>1 DEF RowsIndexed
  <2> QED BY <1>1, <2>2, <2>3, OneRowWrite DEF RowsIndexed
<1> QED BY <1>2, <1>3

LEMMA UniqueStep ==
    ASSUME IInv, Next
    PROVE  UniqueInv'
<1> USE DEF mirror, others
<1>0. /\ OneRow /\ ListedOnce /\ (job = "write" => RowsIndexed) /\ TypeOK /\ JobInv
      /\ None \notin Issues /\ rows \in Seq(Rows)
  BY UniqueParts DEF IInv, TypeOK
<1>1. UniqueInv' <=> OneRow' /\ ListedOnce' /\ (job' = "write" => RowsIndexed')
  BY DEF UniqueInv, OneRow, ListedOnce, RowsIndexed
<1>2. ASSUME UNCHANGED <<rows, todo, doubled, row_index>>, job' = "write" => job = "write"
      PROVE  UniqueInv'
  BY <1>0, <1>1, <1>2 DEF OneRow, ListedOnce, RowsIndexed
<1>3. ASSUME OneRow', todo' = <<>>, job' # "write" PROVE UniqueInv'
  BY <1>1, <1>3 DEF ListedOnce
<1>4. ASSUME UNCHANGED <<rows, doubled>>, todo' = <<>>, job' # "write" PROVE UniqueInv'
  BY <1>0, <1>3, <1>4 DEF OneRow
<1>5. ASSUME job = "write", todo # <<>>, todo' = Tail(todo),
             UNCHANGED <<rows, job, doubled, row_index>>
      PROVE  UniqueInv'
  <2>1. ListedOnce' /\ \A k \in DOMAIN todo' : \E m \in DOMAIN todo : todo[m] = todo'[k]
    BY <1>0, <1>5, ListShortens
  <2> QED BY <1>0, <1>1, <1>5, <2>1 DEF OneRow, RowsIndexed
<1>6. ASSUME NEW n \in DOMAIN rows, RowChanges(n) PROVE UniqueInv'
  <2>1. /\ DOMAIN rows' = DOMAIN rows /\ UNCHANGED <<job, todo, doubled, row_index>>
        /\ \A m \in DOMAIN rows : rows'[m].issue \in {rows[m].issue, None}
    BY <1>0, <1>6, RowEdited DEF RowChanges, Change
  <2>2. OneRow' /\ ListedOnce'
    BY <1>0, <2>1 DEF OneRow, ListedOnce
  <2>3. ASSUME job = "write" PROVE RowsIndexed'
    <3>1. /\ \A i \in DOMAIN row_index : i # None
          /\ \A k \in DOMAIN todo : todo[k].issue # None
      BY <1>0, <2>3, ListedIssues DEF IInv, IndexInv
    <3> QED BY <1>0, <2>1, <2>3, <3>1 DEF RowsIndexed
  <2> QED BY <1>1, <2>1, <2>2, <2>3
<1>7. ASSUME NEW i \in Items, ItemChanges(i) PROVE UniqueInv'
  BY <1>2, <1>7 DEF ItemChanges, Change
<1>8. ASSUME NEW what \in {"open", "page"}, Begin(what) PROVE UniqueInv'
  BY <1>2, <1>8 DEF Begin
<1>9. ASSUME NEW s, NEW next \in {"closed", "query"}, ListIssues(s, next) PROVE UniqueInv'
  <2>1. /\ UNCHANGED rows /\ job' # "write"
        /\ doubled' = doubled \cup {i \in Issues : \E k, n \in DOMAIN todo' :
                                       k # n /\ todo'[k].issue = i /\ todo'[n].issue = i}
    BY <1>9 DEF ListIssues
  <2>2. todo' \in Seq(Targets)
    BY <1>9, TypeStep DEF TypeOK
  <2>3. ListedOnce'
    <3> SUFFICES ASSUME NEW k \in DOMAIN todo', NEW n \in DOMAIN todo',
                        todo'[k].issue = todo'[n].issue, todo'[k].issue \notin doubled', k # n
                 PROVE  FALSE
      BY DEF ListedOnce
    <3>1. todo'[k] \in Targets
      BY <2>2
    <3>2. todo'[k].issue \in Issues
      BY <3>1 DEF Targets
    <3> QED BY <2>1, <3>2
  <2>4. OneRow'
    BY <1>0, <2>1 DEF OneRow
  <2> QED BY <1>1, <2>1, <2>3, <2>4
<1>10. CASE Query
  <2> DEFINE RowsOf(i) == {n \in DOMAIN rows : rows[n].issue = i}
             Rowed == {i \in Issues : RowsOf(i) # {}}
  <2>1. PICK f \in [Rowed -> DOMAIN rows] : (\A i \in Rowed : f[i] \in RowsOf(i)) /\ row_index' = f
    BY <1>10 DEF Query
  <2>2. UNCHANGED <<rows, todo, doubled>>
    BY <1>10 DEF Query
  <2>3. \A k \in DOMAIN todo : todo[k].issue \in Issues
    BY <1>0, ListedIssues
  <2>4. RowsIndexed'
    BY <1>0, <2>1, <2>2, <2>3 DEF RowsIndexed, OneRow
  <2> QED BY <1>0, <1>1, <2>2, <2>4 DEF OneRow, ListedOnce
<1>11. CASE Unchanged
  BY <1>5, <1>11 DEF Unchanged
<1>12. CASE WriteDone
  BY <1>1, <1>12, UniqueWrite DEF WriteDone
<1>13. CASE WriteFails
  <2>1. CASE rows' = Written
    BY <1>1, <1>13, <2>1, UniqueWrite DEF WriteFails
  <2>2. CASE rows' = rows
    BY <1>5, <1>13, <2>2 DEF WriteFails, WriteNeeded
  <2> QED BY <1>13, <2>1, <2>2 DEF WriteFails
<1>14. CASE WriteLost
  <2>1. OneRow'
    BY <1>14, OneRowWrite DEF WriteLost
  <2> QED BY <1>3, <1>14, <2>1 DEF WriteLost, End
<1>15. CASE EndSync \/ EndUpdate \/ Abort \/ PageLost
  BY <1>4, <1>15 DEF EndSync, EndUpdate, Abort, PageLost, End
<1>16. CASE ReadPage \/ DeleteBlock \/ BeginAppend \/ AppendBatch
  BY <1>2, <1>16 DEF ReadPage, DeleteBlock, BeginAppend, AppendBatch
<1> QED
  BY <1>6, <1>7, <1>8, <1>9, <1>10, <1>11, <1>12, <1>13, <1>14, <1>15, <1>16 DEF Next

LEMMA ConcatIs ==
    ASSUME NEW S, NEW p \in Seq(S), NEW q \in Seq(S), NEW t, t = p \o q
    PROVE  /\ \A k \in DOMAIN t :
                  (\E j \in DOMAIN p : t[k] = p[j]) \/ \E j \in DOMAIN q : t[k] = q[j]
           /\ \A k \in DOMAIN p : k \in DOMAIN t /\ t[k] = p[k]
           /\ \A k \in DOMAIN q :
                  Len(p) + k \in DOMAIN t /\ t[Len(p) + k] = q[k]
<1>1. \A k \in DOMAIN p : k \in DOMAIN t /\ t[k] = p[k]
  OBVIOUS
<1>2. \A k \in DOMAIN q : Len(p) + k \in DOMAIN t /\ t[Len(p) + k] = q[k]
  OBVIOUS
<1>3. ASSUME NEW k \in DOMAIN t
      PROVE  (\E j \in DOMAIN p : t[k] = p[j]) \/ \E j \in DOMAIN q : t[k] = q[j]
  <2>1. CASE k \in DOMAIN p
    BY <2>1, <1>1
  <2>2. CASE k \notin DOMAIN p
    <3>1. k - Len(p) \in DOMAIN q /\ Len(p) + (k - Len(p)) = k
      BY <2>2
    <3>2. t[k] = q[k - Len(p)]
      BY <3>1, <1>2
    <3> QED BY <3>1, <3>2
  <2> QED BY <2>1, <2>2
<1> QED BY <1>1, <1>2, <1>3

\* The parts of CalmInv.
Current == \A k \in DOMAIN todo : todo[k] = Mirrored(todo[k].issue)
Listing(i) == \E k \in DOMAIN todo : todo[k].issue = i
InRows(i) == \E n \in DOMAIN rows : rows[n] = Mirrored(i)

IndexCurrent ==
    \A i \in DOMAIN row_index :
        /\ rows[row_index[i]].issue = i
        /\ rows[row_index[i]] \in {cached[row_index[i]], Mirrored(i)}

LEMMA CalmParts ==
    CalmInv <=>
        (calm =>
            /\ Current
            /\ job = "closed" => \A i \in Reached : github[i].state = "open" => Listing(i)
            /\ job = "query" => \A i \in Reached : Listing(i)
            /\ job = "write" => IndexCurrent /\ (errors \/ \A i \in Reached : Listing(i) \/ InRows(i))
            /\ result = "synced" => \A i \in Reached : InRows(i))
  BY DEF CalmInv, Current, Listing, InRows, IndexCurrent

\* The issue whose turn it is is as GitHub has it, and all others stay on
\* the list.
LEMMA CalmTarget ==
    ASSUME TypeOK, Current, todo # <<>>, todo' = Tail(todo), UNCHANGED github
    PROVE  /\ target.issue \in Issues /\ target = Mirrored(target.issue)
           /\ Current'
           /\ \A i \in Issues : Listing(i) => i = target.issue \/ Listing(i)'
<1>1. /\ target = todo[1] /\ target \in Targets /\ 1 \in DOMAIN todo
      /\ \A k \in DOMAIN todo' : k + 1 \in DOMAIN todo /\ todo'[k] = todo[k + 1]
      /\ \A k \in DOMAIN todo : k = 1 \/ (k - 1 \in DOMAIN todo' /\ todo'[k - 1] = todo[k])
  BY TargetIs
<1>2. target.issue \in Issues /\ target = Mirrored(target.issue)
  BY <1>1 DEF Targets, Current
<1>3. Current'
  BY <1>1 DEF Current, Mirrored
<1>4. \A i \in Issues : Listing(i) => i = target.issue \/ Listing(i)'
  BY <1>1 DEF Listing
<1> QED BY <1>2, <1>3, <1>4

\* A write that takes effect leaves the others their rows.
LEMMA CalmWrite ==
    ASSUME IInv, calm, WriteNeeded, rows' = Written, todo' = Tail(todo),
           UNCHANGED <<github, row_index, cached>>
    PROVE  /\ IndexCurrent'
           /\ \A i \in Issues : Listing(i) \/ InRows(i) => Listing(i)' \/ InRows(i)'
           /\ Current'
<1>0. /\ job = "write" /\ todo # <<>> /\ TypeOK /\ IndexInv /\ Current /\ IndexCurrent
  BY CalmParts DEF WriteNeeded, IInv
<1>1. /\ target.issue \in Issues /\ target = Mirrored(target.issue)
      /\ Current'
      /\ \A i \in Issues : Listing(i) => i = target.issue \/ Listing(i)'
  BY <1>0, CalmTarget
<1>2. \A i : Mirrored(i).issue = i /\ Mirrored(i)' = Mirrored(i)
  BY DEF Mirrored
<1>3. \A i : InRows(i)' <=> \E n \in DOMAIN rows' : rows'[n] = Mirrored(i)
  BY DEF InRows, Mirrored
<1>4. CASE Known
  <2> DEFINE r == row_index[target.issue]
  <2>1. /\ DOMAIN rows' = DOMAIN rows /\ r \in DOMAIN rows /\ rows'[r] = target
        /\ \A n \in DOMAIN rows : n # r => rows'[n] = rows[n]
    BY <1>0, <1>4, WrittenKnown
  <2>2. rows[r].issue = target.issue
    BY <1>0, <1>4 DEF IndexCurrent, Known
  <2>3. IndexCurrent'
    <3> SUFFICES ASSUME NEW i \in DOMAIN row_index
                 PROVE  /\ rows'[row_index[i]].issue = i
                        /\ rows'[row_index[i]] \in {cached[row_index[i]], Mirrored(i)}
      BY <1>2 DEF IndexCurrent
    <3>1. CASE i = target.issue
      BY <3>1, <1>1, <1>2, <2>1
    <3>2. CASE i # target.issue
      <4>1. row_index[i] # r /\ row_index[i] \in DOMAIN rows
        BY <3>2, <1>0, <1>4 DEF IndexInv, Known
      <4> QED BY <4>1, <2>1, <1>0 DEF IndexCurrent
    <3> QED BY <3>1, <3>2
  <2> HIDE DEF r
  <2>4. \E n \in DOMAIN rows' : rows'[n] = Mirrored(target.issue)
    BY <1>1, <2>1
  <2>5. ASSUME NEW i \in Issues, InRows(i), i # target.issue
        PROVE  \E n \in DOMAIN rows' : rows'[n] = Mirrored(i)
    <3>1. PICK n \in DOMAIN rows : rows[n] = Mirrored(i)
      BY <2>5 DEF InRows
    <3>2. n # r
      BY <3>1, <2>2, <2>5, <1>2
    <3> QED BY <2>1, <3>1, <3>2
  <2>6. \A i \in Issues : Listing(i) \/ InRows(i) => Listing(i)' \/ InRows(i)'
    BY <1>1, <1>3, <2>4, <2>5
  <2> QED BY <1>1, <2>3, <2>6
<1>5. CASE ~Known
  <2> DEFINE l == Len(rows) + 1
  <2>1. /\ DOMAIN rows' = DOMAIN rows \cup {l} /\ l \notin DOMAIN rows /\ rows'[l] = target
        /\ \A n \in DOMAIN rows : rows'[n] = rows[n]
    BY <1>0, <1>5, WrittenNew
  <2> HIDE DEF l
  <2>2. IndexCurrent'
    <3> SUFFICES ASSUME NEW i \in DOMAIN row_index
                 PROVE  /\ rows'[row_index[i]].issue = i
                        /\ rows'[row_index[i]] \in {cached[row_index[i]], Mirrored(i)}
      BY <1>2 DEF IndexCurrent
    <3>1. row_index[i] \in DOMAIN rows
      BY <1>0 DEF IndexInv
    <3> QED BY <3>1, <1>0, <2>1 DEF IndexCurrent
  <2>3. \E n \in DOMAIN rows' : rows'[n] = Mirrored(target.issue)
    BY <1>1, <2>1
  <2>4. ASSUME NEW i \in Issues, InRows(i)
        PROVE  \E n \in DOMAIN rows' : rows'[n] = Mirrored(i)
    BY <2>1, <2>4 DEF InRows
  <2>5. \A i \in Issues : Listing(i) \/ InRows(i) => Listing(i)' \/ InRows(i)'
    BY <1>1, <1>3, <2>3, <2>4
  <2> QED BY <1>1, <2>2, <2>5
<1> QED BY <1>4, <1>5

LEMMA CalmStep ==
    ASSUME IInv, Next
    PROVE  CalmInv'
<1> USE DEF mirror, others
<1>0. TypeOK /\ JobInv /\ IndexInv /\ (result # "none" => job = "none")
  BY DEF IInv, JobInv
<1>a. Reached \subseteq Issues /\ (UNCHANGED github => Reached' = Reached)
  BY DEF Reached, FirstPage
<1>1. CalmInv' <=>
        (calm' =>
            /\ Current'
            /\ job' = "closed" => \A i \in Reached' : github'[i].state = "open" => Listing(i)'
            /\ job' = "query" => \A i \in Reached' : Listing(i)'
            /\ job' = "write" => IndexCurrent' /\ (errors' \/ \A i \in Reached' : Listing(i)' \/ InRows(i)')
            /\ result' = "synced" => \A i \in Reached' : InRows(i)')
  BY DEF CalmInv, Current, Listing, InRows, IndexCurrent
<1>2. calm =>
          /\ Current
          /\ job = "closed" => \A i \in Reached : github[i].state = "open" => Listing(i)
          /\ job = "query" => \A i \in Reached : Listing(i)
          /\ job = "write" => IndexCurrent /\ (errors \/ \A i \in Reached : Listing(i) \/ InRows(i))
          /\ result = "synced" => \A i \in Reached : InRows(i)
  BY CalmParts DEF IInv
<1>3. ASSUME ~calm' PROVE CalmInv'
  BY <1>1, <1>3
<1>4. ASSUME todo' = <<>>, job' \notin {"closed", "query", "write"}, result' # "synced"
      PROVE  CalmInv'
  BY <1>1, <1>4 DEF Current
<1>5. ASSUME job \notin {"closed", "query", "write"}, job' \notin {"closed", "query", "write"},
             result' = "none", UNCHANGED todo
      PROVE  CalmInv'
  BY <1>0, <1>4, <1>5 DEF JobInv
<1>6. ASSUME calm, job = "write", todo # <<>>, todo' = Tail(todo), result' # "synced",
             UNCHANGED <<github, rows, job, row_index, cached>>,
             errors' \/ (errors' = errors /\ InRows(target.issue))
      PROVE  CalmInv'
  <2>1. /\ Current' /\ \A i \in Issues : Listing(i) => i = target.issue \/ Listing(i)'
    BY <1>0, <1>2, <1>6, CalmTarget
  <2>2. IndexCurrent' /\ \A i \in Issues : InRows(i) => InRows(i)'
    BY <1>2, <1>6 DEF IndexCurrent, InRows, Mirrored
  <2> QED BY <1>a, <1>1, <1>2, <1>6, <2>1, <2>2
<1>7. ASSUME NEW i \in Items, ItemChanges(i) PROVE CalmInv'
  BY <1>3, <1>7 DEF ItemChanges, Change
<1>8. ASSUME NEW n \in DOMAIN rows, RowChanges(n) PROVE CalmInv'
  BY <1>3, <1>8 DEF RowChanges, Change
<1>9. ASSUME NEW what \in {"open", "page"}, Begin(what) PROVE CalmInv'
  BY <1>5, <1>9 DEF Begin
<1>10. ASSUME NEW s \in States, ListIssues(s, "closed") \/ ListIssues(s, "query"), job = s, calm
       PROVE  /\ Current'
              /\ \A i \in Issues : Listing(i) => Listing(i)'
              /\ \A i \in Reached : github'[i].state = s => Listing(i)'
              /\ calm' /\ UNCHANGED github /\ result' = "none"
  <2>1. todo' = todo \o Listed(s) /\ UNCHANGED <<github, calm, result>>
    BY <1>10 DEF ListIssues
  <2>2. /\ Listed(s) \in Seq(Targets) /\ todo \in Seq(Targets)
        /\ \A k \in DOMAIN Listed(s) : Listed(s)[k] = Mirrored(Listed(s)[k].issue)
        /\ \A i \in Reached :
               github[i].state = s => \E k \in DOMAIN Listed(s) : Listed(s)[k].issue = i
    BY <1>0, ListedIs DEF TypeOK
  <2> DEFINE q == Listed(s)
  <2> HIDE DEF q
  <2>3. /\ \A k \in DOMAIN todo' :
               (\E j \in DOMAIN todo : todo'[k] = todo[j]) \/ \E j \in DOMAIN q : todo'[k] = q[j]
        /\ \A k \in DOMAIN todo : k \in DOMAIN todo' /\ todo'[k] = todo[k]
        /\ \A k \in DOMAIN q : Len(todo) + k \in DOMAIN todo' /\ todo'[Len(todo) + k] = q[k]
    <3>1. q \in Seq(Targets) /\ todo \in Seq(Targets) /\ todo' = todo \o q
      BY <2>1, <2>2 DEF q
    <3>2. \A k \in DOMAIN todo' :
              (\E j \in DOMAIN todo : todo'[k] = todo[j]) \/ \E j \in DOMAIN q : todo'[k] = q[j]
      BY <3>1, ConcatIs
    <3>3. \A k \in DOMAIN todo : k \in DOMAIN todo' /\ todo'[k] = todo[k]
      BY <3>1, ConcatIs
    <3>4. \A k \in DOMAIN q : Len(todo) + k \in DOMAIN todo' /\ todo'[Len(todo) + k] = q[k]
      BY <3>1, ConcatIs
    <3> QED BY <3>2, <3>3, <3>4
  <2>4. Current'
    BY <1>2, <1>10, <2>1, <2>2, <2>3 DEF Current, Mirrored, q
  <2>5. \A i \in Issues : Listing(i) => Listing(i)'
    BY <2>3 DEF Listing
  <2>6. \A i \in Reached : github[i].state = s => Listing(i)'
    BY <2>2, <2>3 DEF Listing, q
  <2> QED BY <1>0, <1>10, <2>1, <2>4, <2>5, <2>6 DEF JobInv, States
<1>11. CASE ListIssues("open", "closed")
  <2>1. job = "open" /\ job' = "closed" /\ (calm' => calm)
    BY <1>11 DEF ListIssues
  <2> QED BY <1>a, <1>1, <1>10, <1>11, <2>1 DEF States
<1>12. CASE ListIssues("closed", "query")
  <2>1. job = "closed" /\ job' = "query" /\ (calm' => calm)
    BY <1>12 DEF ListIssues
  <2>2. \A i \in Issues : github[i].state \in {"open", "closed"}
    BY <1>0 DEF TypeOK, States, Items
  <2> QED BY <1>a, <1>1, <1>2, <1>10, <1>12, <2>1, <2>2 DEF States
<1>13. CASE Query
  <2> DEFINE RowsOf(i) == {n \in DOMAIN rows : rows[n].issue = i}
             Rowed == {i \in Issues : RowsOf(i) # {}}
  <2>1. PICK f \in [Rowed -> DOMAIN rows] : (\A i \in Rowed : f[i] \in RowsOf(i)) /\ row_index' = f
    BY <1>13 DEF Query
  <2>2. cached' = rows /\ UNCHANGED <<rows, todo, github, calm, result, errors>> /\ job = "query"
        /\ job' = "write"
    BY <1>13 DEF Query
  <2>3. IndexCurrent'
    BY <2>1, <2>2 DEF IndexCurrent
  <2>4. Current <=> Current'
    BY <2>2 DEF Current, Mirrored
  <2>5. \A i \in Issues : Listing(i) => Listing(i)'
    BY <2>2 DEF Listing
  <2> QED BY <1>a, <1>0, <1>1, <1>2, <2>2, <2>3, <2>4, <2>5
<1>14. CASE Unchanged
  <2>1. calm' => calm
    BY <1>14 DEF Unchanged
  <2>2. ASSUME calm PROVE InRows(target.issue)
    <3>1. target = Mirrored(target.issue)
      BY <1>0, <1>2, <1>14, <2>2, TargetIs DEF Unchanged, Current
    <3>2. target.issue \in DOMAIN row_index /\ cached[row_index[target.issue]] = target
      BY <1>14 DEF Unchanged, Known, _properties_differ
    <3>3. rows[row_index[target.issue]] = Mirrored(target.issue)
      BY <1>2, <1>14, <2>2, <3>1, <3>2 DEF IndexCurrent, Unchanged
    <3>4. row_index[target.issue] \in DOMAIN rows
      BY <1>0, <1>14, <3>2 DEF IndexInv, Unchanged
    <3> QED BY <3>3, <3>4 DEF InRows
  <2> QED BY <1>0, <1>3, <1>6, <1>14, <2>1, <2>2 DEF Unchanged
<1>15. ASSUME WriteNeeded, rows' = Written, todo' = Tail(todo), errors' \/ errors' = errors,
              UNCHANGED <<github, job, row_index, cached, calm, result>>
       PROVE  CalmInv'
  <2>1. job = "write"
    BY <1>15 DEF WriteNeeded
  <2> QED BY <1>a, <1>0, <1>1, <1>2, <1>15, <2>1, CalmWrite
<1>16. CASE WriteDone
  BY <1>15, <1>16 DEF WriteDone
<1>17. CASE WriteFails
  <2>1. CASE rows' = Written
    BY <1>15, <1>17, <2>1 DEF WriteFails
  <2>2. CASE rows' = rows
    <3>1. ~calm => ~calm'
      BY <1>17 DEF WriteFails
    <3>2. ASSUME calm PROVE CalmInv'
      <4>1. job = "write" /\ result = "none"
        BY <1>0, <1>17 DEF WriteFails, WriteNeeded
      <4> QED BY <1>6, <1>17, <2>2, <3>2, <4>1 DEF WriteFails, WriteNeeded
    <3> QED BY <1>3, <3>1, <3>2
  <2> QED BY <1>17, <2>1, <2>2 DEF WriteFails
<1>18. CASE WriteLost \/ Abort \/ PageLost \/ EndUpdate
  BY <1>4, <1>18 DEF WriteLost, Abort, PageLost, EndUpdate, End
<1>19. CASE EndSync
  <2>1. /\ job = "write" /\ todo = <<>> /\ todo' = <<>> /\ job' = "none"
        /\ (result' = "synced" => ~errors) /\ UNCHANGED <<rows, github, calm>>
    BY <1>19 DEF EndSync, End
  <2>2. \A i \in Issues : ~Listing(i) /\ (InRows(i) => InRows(i)')
    BY <2>1 DEF Listing, InRows, Mirrored
  <2>3. Current'
    BY <2>1 DEF Current
  <2> QED BY <1>a, <1>1, <1>2, <2>1, <2>2, <2>3
<1>20. CASE ReadPage \/ DeleteBlock \/ BeginAppend \/ AppendBatch
  BY <1>0, <1>5, <1>20 DEF ReadPage, DeleteBlock, BeginAppend, AppendBatch
<1> QED
  BY <1>7, <1>8, <1>9, <1>11, <1>12, <1>13, <1>14, <1>16, <1>17, <1>18, <1>19, <1>20 DEF Next

-----------------------------------------------------------------------------

LEMMA StepIInv ==
    ASSUME IInv, [Next]_vars
    PROVE  IInv'
<1>1. CASE Next
  BY <1>1, TypeStep, JobStep, PageStep, IndexStep, UniqueStep, CalmStep DEF IInv
<1>2. CASE UNCHANGED vars
  <2>1. /\ UNCHANGED <<github, rows, page, job, jobs, todo, cached, row_index, stale, errors>>
        /\ UNCHANGED <<result, calm, doubled>>
    BY <1>2 DEF vars, others, mirror
  <2>2. TypeOK' /\ JobInv' /\ PageInv'
    BY <2>1 DEF IInv, TypeOK, JobInv, PageInv, OwnPage
  <2>3. IndexInv' /\ UniqueInv'
    BY <2>1 DEF IInv, IndexInv, UniqueInv
  <2>4. Reached' = Reached /\ \A i : Mirrored(i)' = Mirrored(i)
    BY <2>1 DEF Reached, FirstPage, Mirrored
  <2>5. CalmInv'
    BY <2>1, <2>4 DEF IInv, CalmInv
  <2> QED BY <2>2, <2>3, <2>5 DEF IInv
<1> QED BY <1>1, <1>2

\* The inductive invariant of the jobs that write to Notion.
THEOREM MirrorInvariant == Spec => []IInv
<1>1. Init => IInv
  BY InitIInv
<1>2. IInv /\ [Next]_vars => IInv'
  BY StepIInv
<1> QED BY <1>1, <1>2, PTL DEF Spec

\* The state of the mirror and of the page is what the two classes keep
\* (NotionMirrorSync, SocialContextUpdater).
THEOREM MirrorTypes == Spec => []TypeOK
<1>1. IInv => TypeOK
  BY DEF IInv
<1> QED BY <1>1, MirrorInvariant, PTL

\* After an update that reports success the page has its blocks, all of them
\* and no others, whatever earlier updates have left half done
\* (SocialContextUpdater.update, replace_block_children).
THEOREM PageIsAlwaysWhole == Spec => []PageIsWhole
<1>1. IInv => PageIsWhole
  <2> SUFFICES ASSUME IInv, result = "updated"
               PROVE  page = [k \in 1..Blocks |-> jobs]
    BY DEF PageIsWhole
  <2>1. page \in Seq(Nat) /\ OwnPage /\ Len(page) = Blocks
    BY DEF IInv, TypeOK, PageInv
  <2>2. DOMAIN page = 1..Blocks /\ page = [k \in DOMAIN page |-> page[k]]
    BY <2>1
  <2> QED BY <2>1, <2>2 DEF OwnPage
<1> QED BY <1>1, MirrorInvariant, PTL

\* No sequence of failed, lost and repeated syncs gives an issue a second row,
\* unless one sync has read the issue twice (NotionMirrorSync.sync,
\* _request_with_backoff, create_database_row).
THEOREM NeverASecondRow == Spec => []NoSecondRow
<1>1. IInv => NoSecondRow
  <2> SUFFICES ASSUME IInv, NEW i \in Issues \ doubled
               PROVE  Cardinality({n \in DOMAIN rows : rows[n].issue = i}) <= 1
    BY DEF NoSecondRow
  <2> DEFINE T == {n \in DOMAIN rows : rows[n].issue = i}
  <2>1. \A m, n \in T : m = n
    BY DEF IInv, UniqueInv
  <2>2. T = {} \/ \E n \in T : T = {n}
    BY <2>1
  <2> HIDE DEF T
  <2>3. ASSUME T = {} PROVE Cardinality(T) <= 1
    <3>1. Cardinality({}) = 0
      BY FS_EmptySet
    <3> QED BY <2>3, <3>1
  <2>4. ASSUME NEW n \in T, T = {n} PROVE Cardinality(T) <= 1
    <3>1. Cardinality({n}) = 1
      BY FS_Singleton
    <3> QED BY <2>4, <3>1
  <2> QED BY <2>2, <2>3, <2>4 DEF T
<1> QED BY <1>1, MirrorInvariant, PTL

\* After a sync without errors, during which nobody else has changed anything,
\* every issue within the first page of the list of its state has a row that
\* tells its present state (NotionMirrorSync.sync, GitHubClient.list_issues).
THEOREM SyncedMeansMirrored == Spec => []MirrorMatches
<1>1. IInv => MirrorMatches
  BY DEF IInv, CalmInv, MirrorMatches
<1> QED BY <1>1, MirrorInvariant, PTL
=============================================================================
