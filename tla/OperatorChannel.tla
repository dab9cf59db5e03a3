-------------------------- MODULE OperatorChannel --------------------------
(***************************************************************************)
(* The Telegram channel on top of usage control: the bot's server keeps    *)
(* updates until a poll confirms them, TelegramInbound polls, routes each  *)
(* update to CommandRouter and replies (notifications/telegram_inbound.py, *)
(* telegram_commands.py, blockers/store.py).  The offset lives in memory,  *)
(* so that a restart is sent the unconfirmed updates again.                *)
(***************************************************************************)
EXTENDS UsageControl, Sequences

CONSTANT MaxUpdates     \* bound: how many messages are sent to the bot

ASSUME ChannelAssumption == MaxUpdates \in Nat

VARIABLES
    sent,       \* the id of the last update
    confirmed,  \* the server keeps the updates from this id on
    offset,     \* TelegramInbound._offset
    batch,      \* the updates of the current poll still to be handled
    last        \* the update handled last since the process started

channel == <<sent, confirmed, offset, batch, last>>

vars == <<control, channel>>

Commands == {"pause", "resume", "override usage", "other"}

Init ==
    /\ UsageInit
    /\ sent = 0
    /\ confirmed = 1
    /\ offset = 0
    /\ batch = <<>>
    /\ last = 0

\* The updates from an id on, in the order in which they were sent.
UpdatesFrom(id) == [k \in 1..(sent + 1 - id) |-> id + k - 1]

SendMessage ==
    /\ sent < MaxUpdates
    /\ sent' = sent + 1
    /\ UNCHANGED <<control, confirmed, offset, batch, last>>

\* Mutant: the offset does not move past what has been received.
GetUpdatesAgain ==
    LET from == IF offset > confirmed THEN offset ELSE confirmed
    IN  /\ batch = <<>>
        /\ confirmed' = from
        /\ batch' = UpdatesFrom(from)
        /\ UNCHANGED <<control, sent, offset, last>>

\* getUpdates discards what lies below the offset, returns the rest, and the
\* offset moves past it while it is parsed, before any of it is handled.
GetUpdates ==
    LET from == IF offset > confirmed THEN offset ELSE confirmed
    IN  /\ batch = <<>>
        /\ confirmed' = from
        /\ batch' = UpdatesFrom(from)
        /\ offset' = IF batch' = <<>> THEN offset ELSE sent + 1
        /\ UNCHANGED <<control, sent, last>>

\* Resolving a blocker, as status and every other text, leaves the control of
\* the run alone.
Route(c) ==
    \/ c = "pause" /\ HandlePause
    \/ c = "resume" /\ HandleResume
    \/ c = "override usage" /\ HandleOverride
    \/ c = "other" /\ UNCHANGED control

\* One turn of poll's loop; a reply that fails is only logged.  What an update
\* says is left open until it is handled.
HandleUpdate ==
    /\ batch # <<>>
    /\ \E c \in Commands : Route(c)
    /\ last' = Head(batch)
    /\ batch' = Tail(batch)
    /\ UNCHANGED <<sent, confirmed, offset>>

\* An exception of a handler leaves poll: the rest of the batch is gone.
HandlerRaises ==
    /\ batch # <<>>
    /\ batch' = <<>>
    /\ UNCHANGED <<control, sent, confirmed, offset, last>>

\* The process restarts: the database survives, memory does not.
Restart ==
    /\ offset > 0
    /\ offset' = 0
    /\ batch' = <<>>
    /\ last' = 0
    /\ cache' = None
    /\ reading' = FALSE
    /\ override' = FALSE
    /\ cap' = 3
    /\ held' = FALSE
    /\ waiter' = IF waiter \in WaitPoints THEN "lost" ELSE waiter
    /\ alarm' = None
    /\ UNCHANGED <<used, row, sent, confirmed>>

Channel ==
    \/ SendMessage
    \/ GetUpdates
    \/ HandleUpdate
    \/ HandlerRaises
    \/ Restart

Next ==
    \/ (Environment \/ Monitor \/ Waiter \/ \E on \in BOOLEAN : SetOverride(on))
       /\ UNCHANGED channel
    \/ Channel

Spec == Init /\ [][Next]_vars

\* Every timer fires, and every window ends when it was said to.
Fairness ==
    /\ \A k \in Kinds : WF_vars(WindowEnds(k) /\ UNCHANGED channel)
    /\ WF_vars(WakeAfterReset /\ UNCHANGED channel)
    /\ WF_vars(ProbeFails /\ UNCHANGED channel)

FairSpec == Spec /\ Fairness

\* While the process lives it handles an update at most once and in the
\* order of the ids, although each poll asks again for all that the server
\* keeps: an override or a resume is not applied twice (_get_updates).
HandledOnceInOrder ==
    \A i \in 1..Len(batch) :
        /\ last < batch[i]
        /\ \A j \in 1..(i - 1) : batch[j] < batch[i]
=============================================================================
