---------------------------- MODULE NotionMirror ----------------------------
(***************************************************************************)
(* What the engine keeps in Notion: a row for each GitHub issue            *)
(* (sync/mirror.py) and the page of the social context                     *)
(* (sync/social_context.py), written through notion/client.py.  A job is   *)
(* one call of NotionMirrorSync.sync or of SocialContextUpdater.update;    *)
(* both are synchronous, but GitHub and the people who use it and Notion   *)
(* do not wait for them.  Of an issue its state and one further property   *)
(* are followed, of a block who has written it.                            *)
(***************************************************************************)
EXTENDS Integers, Sequences, FiniteSets, SequencesExt

CONSTANTS
    Issues,     \* the issues of a milestone, by number: a newer one is larger
    Pulls,      \* the pull requests of the milestone, numbered with the issues
    PageSize,   \* per_page: how many of both GitHub returns, and 100 in the code
    None,       \* no issue in a row
    Blocks,     \* the batches of blocks of the social context
    MaxJobs,    \* bound: jobs
    MaxChanges, \* bound: changes that others make
    MaxRows     \* bound: rows

ASSUME MirrorAssumption ==
    /\ Issues \cup Pulls \subseteq Nat /\ IsFiniteSet(Issues) /\ None \notin Issues
    /\ {PageSize, Blocks, MaxJobs, MaxChanges, MaxRows} \subseteq Nat

VARIABLES
    github,     \* the state and the text of each issue and pull request
    rows,       \* the rows of the database
    page,       \* the blocks of the page, each with the job that wrote it
    job,        \* what the job is doing
    jobs,       \* how many jobs have begun
    todo,       \* github_issues, from the one that comes next
    cached,     \* the rows as query_database returned them
    row_index,  \* the row of each issue that has one
    stale,      \* the blocks still to be deleted
    errors,     \* a NotionError was recorded
    result,     \* how the last job ended
    changes,    \* how many changes others have made
    calm,       \* history: they have made none since the job began
    doubled     \* history: the issues that a job has read twice

mirror == <<todo, cached, row_index, errors>>
others == <<github, changes>>
vars == <<others, rows, page, job, jobs, mirror, stale, result, calm, doubled>>

States == {"open", "closed"}
Items == Issues \cup Pulls

Init ==
    /\ github \in [Items -> [state : States, text : {0}]]
    /\ rows = <<>>
    /\ page = <<0>>
    /\ job = "none"
    /\ jobs = 0
    /\ todo = <<>>
    /\ cached = <<>>
    /\ row_index = <<>>
    /\ stale = 0
    /\ errors = FALSE
    /\ result = "none"
    /\ changes = 0
    /\ calm = TRUE
    /\ doubled = {}

----------------------------------------------------------------------------
(* GitHub and the people.                                                   *)

Change ==
    /\ changes < MaxChanges
    /\ changes' = changes + 1
    /\ calm' = FALSE
    /\ UNCHANGED <<page, job, jobs, mirror, stale, result, doubled>>

ItemChanges(i) ==
    /\ Change
    /\ \/ \E s \in States \ {github[i].state} : github' = [github EXCEPT ![i].state = s]
       \/ i \in Issues /\ github' = [github EXCEPT ![i].text = 1 - @]
    /\ UNCHANGED rows

\* Somebody edits a row, or empties the fields that tell its issue.
RowChanges(n) ==
    /\ Change
    /\ \/ rows' = [rows EXCEPT ![n].text = 1 - @]
       \/ rows' = [rows EXCEPT ![n].issue = None]
    /\ UNCHANGED github

----------------------------------------------------------------------------
(* NotionMirrorSync.sync.                                                   *)

Begin(what) ==
    /\ job = "none"
    /\ jobs < MaxJobs
    /\ job' = what
    /\ jobs' = jobs + 1
    /\ calm' = TRUE
    /\ result' = "none"
    /\ UNCHANGED <<others, rows, page, mirror, stale, doubled>>

End(how) ==
    /\ job' = "none"
    /\ result' = how
    /\ todo' = <<>>
    /\ cached' = <<>>
    /\ row_index' = <<>>
    /\ errors' = FALSE
    /\ stale' = 0

\* A page of the client's that fails ends the job, and so does, when issues
\* are written, whatever is not a NotionError, such as a timeout.
Abort ==
    /\ job # "none"
    /\ End("failed")
    /\ UNCHANGED <<others, rows, page, jobs, calm, doubled>>

\* GitHub returns the newest issues and pull requests of a state, up to the
\* size of a page, and the client asks for no second page.
FirstPage(s) ==
    {i \in Items : github[i].state = s /\
         Cardinality({j \in Items : github[j].state = s /\ j > i}) < PageSize}

\* What is a pull request is left out of the page.
Listed(s) ==
    LET q == SetToSeq(FirstPage(s) \cap Issues)
    IN  [k \in DOMAIN q |-> [issue |-> q[k], state |-> s, text |-> github[q[k]].text]]

\* list_issues is called for the open ones, then for the closed ones.
ListIssues(s, next) ==
    /\ job = s
    /\ todo' = todo \o Listed(s)
    /\ doubled' = doubled \cup {i \in Issues : \E k, n \in DOMAIN todo' :
                                   k # n /\ todo'[k].issue = i /\ todo'[n].issue = i}
    /\ job' = next
    /\ UNCHANGED <<others, rows, page, jobs, cached, row_index, stale, errors, result, calm>>

\* query_database and _index_rows_by_issue_key: of several rows of an issue
\* the one Notion returned last is kept.
Query ==
    /\ job = "query"
    /\ cached' = rows
    /\ LET RowsOf(i) == {n \in DOMAIN rows : rows[n].issue = i}
           Known == {i \in Issues : RowsOf(i) # {}}
       IN  \E f \in [Known -> DOMAIN rows] :
               (\A i \in Known : f[i] \in RowsOf(i)) /\ row_index' = f
    /\ job' = "write"
    /\ UNCHANGED <<others, rows, page, jobs, todo, stale, errors, result, calm, doubled>>

target == Head(todo)
Known == target.issue \in DOMAIN row_index

\* Mutant: only the state is compared.
StateDiffers == cached[row_index[target.issue]].state # target.state

_properties_differ == cached[row_index[target.issue]] # target

Unchanged ==
    /\ job = "write"
    /\ todo # <<>>
    /\ Known /\ ~_properties_differ
    /\ todo' = Tail(todo)
    /\ UNCHANGED <<others, rows, page, job, jobs, cached, row_index, stale, errors, result, calm,
                   doubled>>

\* What the write of the next issue does to the rows.
Written ==
    IF Known THEN [rows EXCEPT ![row_index[target.issue]] = target] ELSE Append(rows, target)

WriteNeeded ==
    /\ job = "write"
    /\ todo # <<>>
    /\ Known => _properties_differ
    /\ Known \/ Len(rows) < MaxRows

WriteDone ==
    /\ WriteNeeded
    /\ rows' = Written
    /\ todo' = Tail(todo)
    /\ UNCHANGED <<others, page, job, jobs, cached, row_index, stale, errors, result, calm, doubled>>

\* Mutant: a write that failed is tried again with the next issue.
WriteFailsAndIsRepeated ==
    /\ WriteNeeded
    /\ rows' \in {rows, Written}
    /\ UNCHANGED <<others, page, job, jobs, mirror, stale, result, calm, doubled>>

\* A NotionError, after the write or without it, and after one more attempt
\* if Notion asked to slow down: recorded, and on to the next issue.
WriteFails ==
    /\ WriteNeeded
    /\ rows' \in {rows, Written}
    /\ todo' = Tail(todo)
    /\ errors' = TRUE
    /\ UNCHANGED <<others, page, job, jobs, cached, row_index, stale, result, calm, doubled>>

\* The answer does not come in time.
WriteLost ==
    /\ WriteNeeded
    /\ rows' = Written
    /\ End("failed")
    /\ UNCHANGED <<others, page, jobs, calm, doubled>>

EndSync ==
    /\ job = "write"
    /\ todo = <<>>
    /\ End(IF errors THEN "errors" ELSE "synced")
    /\ UNCHANGED <<others, rows, page, jobs, calm, doubled>>

----------------------------------------------------------------------------
(* SocialContextUpdater.update.                                             *)

\* Mutant: the rest of the children is not asked for.
FirstChild == IF page = <<>> THEN 0 ELSE 1

get_block_children == Len(page)

ReadPage ==
    /\ job = "page"
    /\ stale' = get_block_children
    /\ job' = "delete"
    /\ UNCHANGED <<others, rows, page, jobs, mirror, result, calm, doubled>>

DeleteBlock ==
    /\ job = "delete"
    /\ stale > 0
    /\ stale' = stale - 1
    /\ page' = Tail(page)
    /\ UNCHANGED <<others, rows, job, jobs, mirror, result, calm, doubled>>

BeginAppend ==
    /\ job = "delete"
    /\ stale = 0
    /\ job' = "append"
    /\ UNCHANGED <<others, rows, page, jobs, mirror, stale, result, calm, doubled>>

OwnBlocks == {k \in DOMAIN page : page[k] = jobs}

AppendBatch ==
    /\ job = "append"
    /\ Cardinality(OwnBlocks) < Blocks
    /\ page' = Append(page, jobs)
    /\ UNCHANGED <<others, rows, job, jobs, mirror, stale, result, calm, doubled>>

\* A request takes effect and its answer does not arrive.
PageLost ==
    /\ \/ job = "delete" /\ stale > 0 /\ page' = Tail(page)
       \/ job = "append" /\ Cardinality(OwnBlocks) < Blocks /\ page' = Append(page, jobs)
    /\ End("failed")
    /\ UNCHANGED <<others, rows, jobs, calm, doubled>>

EndUpdate ==
    /\ job = "append"
    /\ Cardinality(OwnBlocks) = Blocks
    /\ End("updated")
    /\ UNCHANGED <<others, rows, page, jobs, calm, doubled>>

Next ==
    \/ \E i \in Items : ItemChanges(i)
    \/ \E n \in DOMAIN rows : RowChanges(n)
    \/ Begin("open")
    \/ ListIssues("open", "closed")
    \/ ListIssues("closed", "query")
    \/ Query
    \/ Unchanged
    \/ WriteDone
    \/ WriteFails
    \/ WriteLost
    \/ EndSync
    \/ Begin("page")
    \/ ReadPage
    \/ DeleteBlock
    \/ BeginAppend
    \/ AppendBatch
    \/ PageLost
    \/ EndUpdate
    \/ Abort

Spec == Init /\ [][Next]_vars

----------------------------------------------------------------------------

Reached == {i \in Issues : i \in FirstPage(github[i].state)}
Mirrored(i) == [issue |-> i, state |-> github[i].state, text |-> github[i].text]

\* After a sync without errors, during which nobody else has changed
\* anything, every issue that GitHub's page reaches has a row that tells its
\* present state, whatever earlier syncs, failures and people have left
\* behind; one that has fallen off the page keeps the row it has (sync).
MirrorMatches ==
    result = "synced" /\ calm =>
        \A i \in Reached : \E n \in DOMAIN rows : rows[n] = Mirrored(i)

\* Failed, lost and repeated syncs never give an issue a second row; only an
\* issue that one sync has read twice can have one, because its state (or, as
\* each milestone has its own two lists, its milestone) changed between two
\* lists (sync, _request_with_backoff, create_database_row).
NoSecondRow ==
    \A i \in Issues \ doubled :
        Cardinality({n \in DOMAIN rows : rows[n].issue = i}) <= 1

\* After an update that reports success the page has the blocks of this
\* update and no others, whatever earlier updates have left half done
\* (update, replace_block_children).
PageIsWhole == result = "updated" => page = [k \in 1..Blocks |-> jobs]
=============================================================================
