-------------------------- MODULE ProviderSession --------------------------
(***************************************************************************)
(* One session of a provider adapter.  The Claude adapter alternates model *)
(* calls and batches of tool calls, which the agent-runner checks and      *)
(* executes in another container (providers/claude.py, executor_client.py, *)
(* agent-runner/app); the Codex and Gemini adapters run a command-line     *)
(* agent and judge what it printed (providers/codex.py, gemini.py).  Both  *)
(* then ask git what has changed (providers/utils.py).                     *)
(* Message texts, token counts and prices are left out.                    *)
(***************************************************************************)
EXTENDS Integers, Sequences, SequencesExt

CONSTANTS
    Files,      \* the files of the repository
    MaxCalls,   \* bound: tool calls, or lines printed, in the session
    MaxBatch    \* bound: tool calls in one response of the model

ASSUME SessionAssumption == MaxCalls \in Nat /\ MaxBatch \in Nat

VARIABLES
    provider,   \* which kind of adapter runs the session
    pc,         \* where run_session is
    asked,      \* how many tool calls the model has asked for
    todo,       \* those of its last response without an answer yet
    posted,     \* the first of them is on its way to the executor
    batchAudit, \* the audit records of _execute_tools
    audit,      \* audit_log
    atRunner,   \* the calls the agent-runner has received and not finished
    reply,      \* its answer to the call that is awaited
    ran,        \* history: the calls it has executed, in that order
    echoed,     \* history: those of them whose output reads like a denial
    changed,    \* where git sees each changed file
    artifacts,  \* the changed files found so far
    overlapped, \* history: a command ran once the artifacts were being read
    printed,    \* what the command-line agent has printed
    verdict,    \* the outcome that its output amounts to so far
    exit,       \* its exit code
    outcome     \* SessionResult.outcome

runner == <<atRunner, reply, ran, echoed, changed, overlapped>>
loop == <<asked, todo, posted, batchAudit, audit>>
cli == <<printed, verdict, exit>>
vars == <<provider, pc, loop, runner, artifacts, cli, outcome>>

Tools == {"bash", "str_replace_based_edit_tool", "unknown"}
Places == {"tree", "index", "commits", "untracked"}

\* What a line of output can be to the parser: text, text with one of the
\* blocking phrases, a tool call with or without a prohibited pattern, or
\* the final status.
Lines == {"text", "blocking text", "call", "prohibited call", "success", "cancelled", "failure"}

Init ==
    /\ provider \in {"claude", "cli"}
    /\ pc = IF provider = "claude" THEN "model" ELSE "cli"
    /\ asked = 0
    /\ todo = <<>>
    /\ posted = FALSE
    /\ batchAudit = <<>>
    /\ audit = <<>>
    /\ atRunner = {}
    /\ reply = "none"
    /\ ran = <<>>
    /\ echoed = {}
    /\ \E left \in SUBSET Files :
           changed = [p \in Places |-> IF p = "untracked" THEN left ELSE {}]
    /\ artifacts = {}
    /\ overlapped = FALSE
    /\ printed = <<>>
    /\ verdict = "completed"
    /\ exit = 0
    /\ outcome = "completed"

----------------------------------------------------------------------------
(* What a command does to the repository: nothing that git sees, a write, a *)
(* git add -A, or a git commit.                                             *)

Write(f) ==
    \E p \in {"tree", "untracked"} : changed' = [changed EXCEPT ![p] = @ \cup {f}]

StageAll ==
    changed' = [changed EXCEPT !["index"] = @ \cup changed["tree"] \cup changed["untracked"],
                               !["tree"] = {}, !["untracked"] = {}]

CommitIndex ==
    changed' = [changed EXCEPT !["commits"] = @ \cup changed["index"], !["index"] = {}]

Effect ==
    \/ changed' = changed
    \/ \E f \in Files : Write(f)
    \/ StageAll
    \/ CommitIndex

----------------------------------------------------------------------------
(* The Claude adapter.                                                      *)

_map_stop_reason(reason) ==
    IF reason = "refusal" THEN "blocked"
    ELSE IF reason \in {"end_turn", "max_tokens", "stop_sequence"} THEN "completed"
    ELSE "error"

EndWith(result) == pc' = "tree" /\ outcome' = result

\* A response that asks for tools.
ModelAsks(tools) ==
    /\ pc = "model"
    /\ asked + Len(tools) <= MaxCalls
    /\ asked' = asked + Len(tools)
    /\ todo' = [k \in 1..Len(tools) |-> [id |-> asked + k, tool |-> tools[k]]]
    /\ batchAudit' = <<>>
    /\ pc' = "tools"
    /\ UNCHANGED <<provider, posted, audit, runner, artifacts, cli, outcome>>

ModelStops(reason) ==
    /\ pc = "model"
    /\ EndWith(_map_stop_reason(reason))
    /\ UNCHANGED <<provider, loop, runner, artifacts, cli>>

ModelFails ==
    /\ pc = "model"
    /\ EndWith("error")
    /\ UNCHANGED <<provider, loop, runner, artifacts, cli>>

\* The call is done: create_audit_record, and on to the next one.
Record(blocked) ==
    /\ batchAudit' = Append(batchAudit, [id |-> Head(todo).id, tool |-> Head(todo).tool,
                                         blocked |-> blocked])
    /\ todo' = Tail(todo)

UnknownTool ==
    /\ pc = "tools"
    /\ todo # <<>>
    /\ Head(todo).tool = "unknown"
    /\ Record(FALSE)
    /\ UNCHANGED <<provider, pc, asked, posted, audit, runner, artifacts, cli, outcome>>

\* The request leaves; whether it arrives is the network's affair.
PostCall ==
    /\ pc = "tools"
    /\ todo # <<>>
    /\ Head(todo).tool # "unknown"
    /\ ~posted
    /\ posted' = TRUE
    /\ atRunner' \in {atRunner, atRunner \cup {Head(todo).id}}
    /\ reply' = "none"
    /\ UNCHANGED <<provider, pc, asked, todo, batchAudit, audit, ran, echoed, changed, artifacts,
                   overlapped, cli, outcome>>

\* _execute_tools has only the text of the answer to go by: it takes what
\* begins with the prefix of a denial for one, although what a command prints
\* or a file begins with is handed on as it is.
ReadsLikeADenial(answer) == answer \in {"denied", "echo"}

AnswerArrives ==
    /\ pc = "tools"
    /\ posted
    /\ reply # "none"
    /\ posted' = FALSE
    /\ reply' = "none"
    /\ Record(ReadsLikeADenial(reply))
    /\ UNCHANGED <<provider, pc, asked, audit, atRunner, ran, echoed, changed, artifacts,
                   overlapped, cli, outcome>>

\* Mutant: a failed request is simply sent once more.
PostAgain ==
    /\ pc = "tools"
    /\ posted
    /\ posted' = FALSE
    /\ reply' = "none"
    /\ UNCHANGED <<provider, pc, asked, todo, batchAudit, audit, atRunner, ran, echoed, changed,
                   artifacts, overlapped, cli, outcome>>

\* No connection, no answer in time or not a proper one: ExecutorError ends
\* the session and takes the records of the batch with it.  The call may run
\* all the same.
CallFails ==
    /\ pc = "tools"
    /\ posted
    /\ posted' = FALSE
    /\ reply' = "none"
    /\ batchAudit' = <<>>
    /\ EndWith("error")
    /\ UNCHANGED <<provider, asked, todo, audit, atRunner, ran, echoed, changed, artifacts,
                   overlapped, cli>>

BatchDone ==
    /\ pc = "tools"
    /\ todo = <<>>
    /\ audit' = audit \o batchAudit
    /\ batchAudit' = <<>>
    /\ pc' = "model"
    /\ UNCHANGED <<provider, asked, todo, posted, runner, artifacts, cli, outcome>>

\* The run is stopped while the session awaits something.
Cancel ==
    /\ pc \in {"model", "tools"}
    /\ pc' = "cancelled"
    /\ UNCHANGED <<provider, loop, runner, artifacts, cli, outcome>>

----------------------------------------------------------------------------
(* The agent-runner: it answers every call it finishes, heard or not.       *)

Awaited(id) == pc = "tools" /\ posted /\ Head(todo).id = id

Answer(id, what) == reply' = IF Awaited(id) THEN what ELSE reply

\* pre_tool_use_check refuses the call.
RunnerDenies(id) ==
    /\ id \in atRunner
    /\ atRunner' = atRunner \ {id}
    /\ Answer(id, "denied")
    /\ UNCHANGED <<provider, pc, loop, ran, echoed, changed, artifacts, overlapped, cli, outcome>>

\* execute_bash or execute_text_editor: the answer is raw output, an error of
\* theirs, or an echo, output that happens to begin like a denial.
RunnerExecutes(id, answer) ==
    /\ id \in atRunner
    /\ atRunner' = atRunner \ {id}
    /\ Answer(id, answer)
    /\ ran' = Append(ran, id)
    /\ echoed' = IF ReadsLikeADenial(answer) THEN echoed \cup {id} ELSE echoed
    /\ Effect
    /\ overlapped' = (overlapped \/ pc \in {"index", "commits", "untracked", "done"})
    /\ UNCHANGED <<provider, pc, loop, artifacts, cli, outcome>>

----------------------------------------------------------------------------
(* The command-line adapters.  Their output is parsed when the process has  *)
(* ended; parsing it line by line comes to the same.                        *)

\* What a line makes of the verdict: the last phrase or status decides.
Judged(line) ==
    CASE line = "blocking text" -> "blocked"
      [] line = "success"       -> "completed"
      [] line = "cancelled"     -> "blocked"
      [] line = "failure"       -> "error"
      [] OTHER                  -> verdict

Prints(line) ==
    /\ pc = "cli"
    /\ Len(printed) < MaxCalls
    /\ printed' = Append(printed, line)
    /\ verdict' = Judged(line)
    /\ IF line \in {"call", "prohibited call"} THEN Effect ELSE changed' = changed
    /\ UNCHANGED <<provider, pc, loop, atRunner, reply, ran, echoed, artifacts, overlapped, exit,
                   outcome>>

_check_prohibited_ops == \E k \in DOMAIN printed : printed[k] = "prohibited call"

\* Mutant: the exit code is not looked at.
OutcomeWhateverTheExit(code) ==
    IF verdict # "completed" THEN verdict
    ELSE IF _check_prohibited_ops THEN "blocked" ELSE "completed"

CliOutcome(code) ==
    IF verdict # "completed" THEN verdict
    ELSE IF code # 0 THEN "error"
    ELSE IF _check_prohibited_ops THEN "blocked" ELSE "completed"

CliExits(code) ==
    /\ pc = "cli"
    /\ exit' = code
    /\ EndWith(CliOutcome(code))
    /\ UNCHANGED <<provider, loop, runner, artifacts, printed, verdict>>

\* The command lacks a lockdown flag or cannot be started.
CliRefused ==
    /\ pc = "cli"
    /\ printed = <<>>
    /\ pc' = "refused"
    /\ outcome' = "error"
    /\ UNCHANGED <<provider, loop, runner, artifacts, cli>>

----------------------------------------------------------------------------
(* derive_artifacts: four questions to git, one after the other.            *)

\* Mutant: commits of the session are not looked at.
AfterWithoutCommits == [tree |-> "index", index |-> "untracked", commits |-> "untracked",
                        untracked |-> "done"]

After == [tree |-> "index", index |-> "commits", commits |-> "untracked", untracked |-> "done"]

ReadChanges ==
    /\ pc \in Places
    /\ artifacts' = artifacts \cup changed[pc]
    /\ pc' = After[pc]
    /\ UNCHANGED <<provider, loop, runner, cli, outcome>>

----------------------------------------------------------------------------

Next ==
    \/ \E n \in 1..MaxBatch : \E tools \in [1..n -> Tools] : ModelAsks(tools)
    \/ \E reason \in {"refusal", "end_turn", "max_tokens", "stop_sequence", "other"} :
           ModelStops(reason)
    \/ ModelFails
    \/ UnknownTool
    \/ PostCall
    \/ AnswerArrives
    \/ CallFails
    \/ BatchDone
    \/ Cancel
    \/ \E id \in atRunner :
           RunnerDenies(id) \/ \E answer \in {"ran", "echo"} : RunnerExecutes(id, answer)
    \/ \E line \in Lines : Prints(line)
    \/ \E code \in {0, 1} : CliExits(code)
    \/ CliRefused
    \/ ReadChanges

Spec == Init /\ [][Next]_vars

----------------------------------------------------------------------------

\* What an audit record says of its call.
SaysExecuted(record) == ~record.blocked /\ record.tool # "unknown"

\* The audit has the calls in the order in which they were asked for, none is
\* executed twice, and an entry says that its call was executed just when it
\* was and its output does not begin like a denial: the audit never tells of
\* an execution that there was not, and the only one it hides is of a call
\* that prints the prefix; whenever the model is asked again, and at the end, no call is left
\* out: only a session that failed or was cancelled may have run more
\* (run_session, _execute_tools, _call).
AuditMatchesExecution ==
    /\ \A k \in 2..Len(ran) : ran[k - 1] < ran[k]
    /\ \A k \in DOMAIN audit :
           audit[k].id = k /\ (SaysExecuted(audit[k]) <=> k \in Range(ran) \ echoed)
    /\ pc = "model" \/ (pc = "done" /\ outcome # "error") =>
           Len(audit) = asked /\ Range(ran) \subseteq 1..asked

\* The artifacts are the files that differ from the start of the session,
\* wherever git has them by then, unless a command that has outlived its
\* request moves them meanwhile (derive_artifacts).
ArtifactsAreWhatChanged ==
    pc = "done" /\ ~overlapped =>
        artifacts = UNION {changed[p] : p \in Places}

\* A command-line session counts as completed only if its process ended
\* well, no call of it was prohibited, and the last thing it said about
\* itself was not that it is blocked or has failed (_parse_output and what
\* run_session makes of it).
CompletedMeansClean ==
    provider = "cli" /\ pc = "done" /\ outcome = "completed" =>
        /\ exit = 0
        /\ \A k \in DOMAIN printed :
               /\ printed[k] # "prohibited call"
               /\ printed[k] \in {"blocking text", "cancelled", "failure"} =>
                      \E n \in DOMAIN printed : n > k /\ printed[n] = "success"
=============================================================================
