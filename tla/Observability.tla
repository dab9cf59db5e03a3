--------------------------- MODULE Observability ---------------------------
(***************************************************************************)
(* The observability store (app/observability): session captures on disk,  *)
(* one directory a month; rollup rows and the ids of aggregated sessions   *)
(* in SQLite; the pruner of old captures; the efficiency reports.          *)
(*                                                                         *)
(* A job is one call of aggregate_from_reader or of prune.  Both are       *)
(* synchronous, so nothing but a crash comes between their steps.  Every   *)
(* component of the application shares the one connection of StateStore,   *)
(* so any commit of it commits what the connection has pending.            *)
(***************************************************************************)
EXTENDS EfficiencyReports

CONSTANTS
    Sessions,       \* session ids, in the order of their names
    Captures,       \* what the captures of the sessions may say
    MonthDays,      \* days of a month
    MaxDay,         \* bound: the last day
    Mishaps,        \* bound: the captures, each with the day, whose file may be torn or
                    \* unreadable for once, or whose id may go astray
    MaxStrays,      \* bound: how often the id of a session goes astray
    RawDays,        \* RetentionPolicy.raw_days
    Cap             \* RetentionPolicy.cap_bytes, counted in files

ASSUME ObservabilityAssumption ==
    /\ Sessions \subseteq Nat /\ IsFiniteSet(Sessions)
    /\ \A c \in Captures, s \in Sessions :
           {c[s].tokens_in, c[s].tokens_out, c[s].cost, c[s].retry_count} \subseteq Int
    /\ MonthDays \in Nat \ {0}
    /\ {MaxDay, MaxStrays, RawDays, Cap} \subseteq Nat

VARIABLES
    today,      \* the day it is
    capture,    \* what the capture of each session will say
    day,        \* history: the day it was started on, -1 before
    file,       \* its file
    months,     \* the month directories there are
    store,      \* the committed rows and aggregated ids, with the history of the upserts
    conn,       \* the same as the connection sees them
    strays,     \* history: how often the upsert of a session stayed without its id
    job,        \* the call under way
    todo,       \* the session ids or the months it still has to look at
    aged,       \* history: sessions whose file the age step of this prune deleted
    capped,     \* history: the months its cap step deleted
    failed      \* history: the months it could not delete

disk == <<capture, day, file, months>>
pruned == <<aged, capped, failed>>
observabilityVars == <<today, disk, store, conn, strays, job, todo, pruned>>

Month(d) == d \div MonthDays
LastDay(m) == m * MonthDays + MonthDays - 1
InMonth(m) == {s \in Sessions : file[s] # "none" /\ Month(day[s]) = m}

\* The element of rank k comes as the k-th.
Sorted(S) ==
    [k \in 1..Cardinality(S) |-> CHOOSE x \in S : Cardinality({y \in S : y <= x}) = k]

ObservabilityInit ==
    /\ today = 0
    /\ capture \in Captures
    /\ day = [s \in Sessions |-> -1]
    /\ file = [s \in Sessions |-> "none"]
    /\ months = {}
    /\ store = [rows |-> <<>>, seen |-> {}, upserts |-> {}]
    /\ conn = store
    /\ strays = [s \in Sessions |-> 0]
    /\ job = "none"
    /\ todo = <<>>
    /\ aged = {}
    /\ capped = {}
    /\ failed = {}

MishapOf(s) == <<capture[s], today>> \in Mishaps

\* The history of a prune ends with it.
Forget == aged' = {} /\ capped' = {} /\ failed' = {}

Tick ==
    /\ job = "none"
    /\ today < MaxDay
    /\ today' = today + 1
    /\ UNCHANGED <<disk, store, conn, strays, job, todo, pruned>>

\* EventCaptureWriter.write at the end of a session that may have been
\* started the day before.  The file is there before its content is: a full
\* disk or a crash leaves a torn one.
WriteCapture(s, d, f) ==
    /\ job = "none"
    /\ day[s] = -1
    /\ day' = [day EXCEPT ![s] = d]
    /\ file' = [file EXCEPT ![s] = f]
    /\ months' = months \cup {Month(d)}
    /\ UNCHANGED <<today, strays, capture, store, conn, job, todo, pruned>>

----------------------------------------------------------------------------
(* RollupStore.                                                             *)

Sums == {"session_count", "tokens_in", "tokens_out", "cost", "retry_count", "completed_count",
         "blocked_count", "error_count"}
Dimensions == {"wave", "issue", "role", "skill", "model", "month"}

\* A row as the first capture of its key makes it.
RowOf(s) ==
    LET c == capture[s]
        One(outcome) == IF c.outcome = outcome THEN 1 ELSE 0
    IN  [wave |-> c.wave, issue |-> c.issue, role |-> c.role, skill |-> c.skill,
         model |-> c.model, month |-> Month(day[s]),
         session_count |-> 1, tokens_in |-> c.tokens_in, tokens_out |-> c.tokens_out,
         cost |-> c.cost, retry_count |-> c.retry_count, completed_count |-> One("completed"),
         blocked_count |-> One("blocked"), error_count |-> One("error")]

Key(row) == [d \in Dimensions |-> row[d]]

Upserted(rows, row) ==
    [k \in DOMAIN rows \cup {Key(row)} |->
        IF k \notin DOMAIN rows THEN row
        ELSE IF k # Key(row) THEN rows[k]
        ELSE [f \in DOMAIN row |-> IF f \in Sums THEN rows[k][f] + row[f] ELSE row[f]]]

StartPass(m) ==
    /\ job = "none"
    /\ m \in months
    /\ job' = "read"
    /\ todo' = Sorted(InMonth(m))
    /\ UNCHANGED <<today, strays, disk, store, conn, pruned>>

AlreadyDone == job = "read" /\ todo # <<>> /\ Head(todo) \in conn.seen

\* An aggregated session is skipped, and so is one that CaptureError tells of.
Skip ==
    /\ job = "read"
    /\ todo # <<>>
    /\ AlreadyDone \/ MishapOf(Head(todo))
    /\ todo' = Tail(todo)
    /\ UNCHANGED <<today, strays, disk, store, conn, job, pruned>>

\* A torn file raises EOFError or ValidationError, which nothing catches.
AbortPass ==
    /\ job = "read"
    /\ todo # <<>>
    /\ file[Head(todo)] = "torn"
    /\ job' = "none"
    /\ todo' = <<>>
    /\ UNCHANGED <<today, strays, disk, store, conn, pruned>>

Readable == job = "read" /\ todo # <<>> /\ file[Head(todo)] = "whole"

\* The upsert of a session, told from the earlier ones that have no id.
ThisUpsert == <<Head(todo), strays[Head(todo)]>>

\* Mutant: each statement is committed.
UpsertCommitted ==
    /\ Readable
    /\ ~AlreadyDone
    /\ conn' = [conn EXCEPT !.rows = Upserted(@, RowOf(Head(todo))),
                            !.upserts = @ \cup {ThisUpsert}]
    /\ store' = conn'
    /\ job' = "upserted"
    /\ UNCHANGED <<today, strays, disk, todo, pruned>>

Upsert ==
    /\ Readable
    /\ ~AlreadyDone
    /\ conn' = [conn EXCEPT !.rows = Upserted(@, RowOf(Head(todo))),
                            !.upserts = @ \cup {ThisUpsert}]
    /\ job' = "upserted"
    /\ UNCHANGED <<today, strays, disk, store, todo, pruned>>

InsertId ==
    /\ job = "upserted"
    /\ conn' = [conn EXCEPT !.seen = @ \cup {Head(todo)}]
    /\ job' = "inserted"
    /\ UNCHANGED <<today, strays, disk, store, todo, pruned>>

\* The insert of the id fails and ends the pass.  SQLite undoes it alone, or
\* it rolls the whole transaction back.
InsertFails ==
    /\ job = "upserted"
    /\ \/ /\ MishapOf(Head(todo))
          /\ strays[Head(todo)] < MaxStrays
          /\ strays' = [strays EXCEPT ![Head(todo)] = @ + 1]
          /\ conn' = conn
       \/ /\ conn' = store
          /\ UNCHANGED strays
    /\ job' = "none"
    /\ todo' = <<>>
    /\ UNCHANGED <<today, disk, store, pruned>>

CommitSession ==
    /\ job = "inserted"
    /\ store' = conn
    /\ job' = "read"
    /\ todo' = Tail(todo)
    /\ UNCHANGED <<today, strays, disk, conn, pruned>>

\* The commit fails and ends the pass; SQLite keeps the transaction open or
\* rolls it back.
CommitFails ==
    /\ job = "inserted"
    /\ conn' \in {conn, store}
    /\ job' = "none"
    /\ todo' = <<>>
    /\ UNCHANGED <<today, strays, disk, store, pruned>>

EndPass ==
    /\ job = "read"
    /\ todo = <<>>
    /\ job' = "none"
    /\ UNCHANGED <<today, strays, disk, store, conn, todo, pruned>>

\* Another component commits on the same connection.
OtherCommit ==
    /\ job = "none"
    /\ conn # store
    /\ store' = conn
    /\ UNCHANGED <<today, strays, disk, conn, job, todo, pruned>>

StoreCrash ==
    /\ job # "none" \/ conn # store
    /\ job' = "none"
    /\ todo' = <<>>
    /\ conn' = store
    /\ Forget
    /\ UNCHANGED <<today, strays, disk, store>>

----------------------------------------------------------------------------
(* ObservabilityPruner.                                                     *)

Pruning == job \in {"age", "cap"}

StartPrune ==
    /\ job = "none"
    /\ job' = "age"
    /\ todo' = Sorted(months)
    /\ UNCHANGED <<today, strays, disk, store, conn, pruned>>

\* Mutant: a capture of exactly raw_days is expired.
ExpiredToday(m) == today - LastDay(m) >= RawDays

Expired(m) == today - LastDay(m) > RawDays

CapturesSize == Cardinality({s \in Sessions : file[s] # "none"})

\* _delete_month: the whole directory, or an OSError after any part of it.
DeleteFiles(m, left) ==
    /\ file' = [s \in Sessions |-> IF s \in InMonth(m) \ left THEN "none" ELSE file[s]]
    /\ todo' = Tail(todo)
    /\ aged' = IF job = "age" THEN aged \cup (InMonth(m) \ left) ELSE aged
    /\ UNCHANGED <<today, strays, capture, day, store, conn, job>>

DeleteDone(m) ==
    /\ DeleteFiles(m, {})
    /\ months' = months \ {m}
    /\ capped' = IF job = "cap" THEN capped \cup {m} ELSE capped
    /\ UNCHANGED failed

DeleteFails(m, left) ==
    /\ DeleteFiles(m, left)
    /\ failed' = failed \cup {m}
    /\ UNCHANGED <<months, capped>>

DeleteMonth(m) == DeleteDone(m) \/ \E left \in SUBSET InMonth(m) : DeleteFails(m, left)

PruneNext ==
    /\ Pruning
    /\ todo # <<>>
    /\ IF job = "age" THEN Expired(Head(todo)) ELSE CapturesSize > Cap
    /\ DeleteMonth(Head(todo))

KeepMonth ==
    /\ job = "age"
    /\ todo # <<>>
    /\ ~Expired(Head(todo))
    /\ todo' = Tail(todo)
    /\ UNCHANGED <<today, strays, disk, store, conn, job, pruned>>

StartCap ==
    /\ job = "age"
    /\ todo = <<>>
    /\ job' = "cap"
    /\ todo' = Sorted(months)
    /\ UNCHANGED <<today, strays, disk, store, conn, pruned>>

EndPrune ==
    /\ job = "cap"
    /\ todo = <<>> \/ CapturesSize <= Cap
    /\ job' = "none"
    /\ todo' = <<>>
    /\ Forget
    /\ UNCHANGED <<today, strays, disk, store, conn>>

ObservabilityNext ==
    \/ Tick
    \/ \E s \in Sessions, d \in {today - 1, today}, f \in {"whole", "torn"} :
           d >= 0 /\ (f = "torn" => MishapOf(s)) /\ WriteCapture(s, d, f)
    \/ \E m \in months : StartPass(m)
    \/ Skip
    \/ AbortPass
    \/ Upsert
    \/ InsertId
    \/ InsertFails
    \/ CommitSession
    \/ CommitFails
    \/ EndPass
    \/ OtherCommit
    \/ StoreCrash
    \/ StartPrune
    \/ PruneNext
    \/ KeepMonth
    \/ StartCap
    \/ EndPrune

ObservabilitySpec == ObservabilityInit /\ [][ObservabilityNext]_observabilityVars

----------------------------------------------------------------------------

\* Whatever crashes, fails or is repeated, the committed rows are the sums of
\* the upserts made for them; each session with an id has one of them and a
\* session without an id has none, except for one more each time that the
\* insert of its id failed and left its upsert to the next commit
\* (aggregate_session and the shared connection).
RollupCountsOnce ==
    LET Of(k) == {u \in store.upserts : Key(RowOf(u[1])) = k}
        Counted == {u[1] : u \in store.upserts}
    IN  /\ DOMAIN store.rows = {Key(RowOf(s)) : s \in Counted}
        /\ \A k \in DOMAIN store.rows, f \in Sums :
               store.rows[k][f] = SumFunctionOnSet([u \in store.upserts |-> RowOf(u[1])[f]], Of(k))
        /\ store.seen \subseteq Counted
        /\ \A u \in store.upserts :
               u[2] \in 0..(IF u[1] \in store.seen THEN strays[u[1]] ELSE strays[u[1]] - 1)

\* A report from the rollups is the report that the upserts themselves would
\* give, each as a row of its own, and fails when that fails: what the rollup
\* adds up loses nothing that the report needs, also once the captures are
\* pruned (_build_report and the rows of RollupStore.query).
ReportFromRollups ==
    LET rows == conn.rows
        sessions == [u \in conn.upserts |-> RowOf(u[1])]
    IN  job = "none" =>
            /\ generate_on_demand(rows) = generate_on_demand(sessions)
            /\ \A w \in Values(rows, "wave") :
                   generate_for_wave(rows, w) = generate_for_wave(sessions, w)
            /\ \A m \in Values(rows, "month") :
                   generate_for_month(rows, m) = generate_for_month(sessions, m)

\* The age step deletes only captures older than raw_days; the cap step
\* deletes no month while an older one remains, unless that one could not
\* be deleted (ObservabilityPruner.prune).
PruneTakesTheOldest ==
    /\ \A s \in aged : today - day[s] > RawDays
    /\ Pruning => \A m \in capped, n \in months : n < m => n \in failed
=============================================================================
