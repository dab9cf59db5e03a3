---------------------------- MODULE UsageControl ----------------------------
(***************************************************************************)
(* Usage control of one run: the monitor reads the provider's meters,      *)
(* steps the scheduler down or pauses it, and opens a pause row; the       *)
(* operator pauses, resumes and overrides; wait_for_resume closes the row  *)
(* when the window has reset, and probes while no reset is known (usage/). *)
(*                                                                         *)
(* Time is kept relative: a stored resets_at is "ahead" until the window   *)
(* of its meter ends and "passed" from then on, "unknown" when none was    *)
(* reported.  Back-off intervals are left out.                             *)
(***************************************************************************)
EXTENDS Integers

CONSTANTS
    Kinds,      \* the meters of the plan, numbered in the order of their names
    Levels,     \* utilisation in percent
    Threshold,  \* threshold_percent of the project
    None        \* no snapshot, no meter, no cap

ASSUME UsageAssumption ==
    /\ Kinds \subseteq Nat \ {0}
    /\ Kinds # {}
    /\ Levels \subseteq Nat
    /\ Levels # {}
    /\ Threshold \in Nat
    /\ None \notin Nat

VARIABLES
    used,       \* what the provider has metered in the current windows
    cache,      \* the reader's last snapshot while it is young enough to serve
    reading,    \* a check awaits the reader
    override,   \* UsagePolicy._override
    cap,        \* the scheduler's cap
    held,       \* the scheduler is paused
    row,        \* the run's row of usage_pauses while it is paused
    waiter,     \* where wait_for_resume is
    alarm       \* the reset it sleeps until

control == <<used, cache, reading, override, cap, held, row, waiter, alarm>>

Resets == {"unknown", "ahead", "passed"}

Manual == 0     \* the kind of the meter that an operator's pause makes up

\* usage/cap_stepper._DEFAULT_STEPS: utilisation floors and the caps they set.
Steps == {<<50, 3>>, <<65, 2>>, <<75, 1>>}

Meters == [kind : Kinds, used : Levels, reset : Resets]

Pauses == [kind : Kinds \cup {Manual}, reset : Resets]

\* Where wait_for_resume can be suspended; "lost" once its process is gone.
WaitPoints == {"asleep", "backing_off"}

UsageTypeOK ==
    /\ used \in [Kinds -> Levels]
    /\ cache = None \/ cache \subseteq Meters
    /\ reading \in BOOLEAN
    /\ override \in BOOLEAN
    /\ cap \in 1..3
    /\ held \in BOOLEAN
    /\ row = None \/ row \in Pauses
    /\ waiter \in {"idle", "lost"} \cup WaitPoints
    /\ IF waiter = "asleep" THEN alarm \in Pauses ELSE alarm = None

Idle(l) == \A m \in Levels : l <= m

UsageInit ==
    /\ used \in [Kinds -> {l \in Levels : Idle(l)}]
    /\ cache = None
    /\ reading = FALSE
    /\ override = FALSE
    /\ cap = 3
    /\ held = FALSE
    /\ row = None
    /\ waiter = "idle"
    /\ alarm = None

----------------------------------------------------------------------------
(* The provider and the passing of time.                                    *)

Consume(k, l) ==
    /\ used[k] < l
    /\ used' = [used EXCEPT ![k] = l]
    /\ UNCHANGED <<cache, reading, override, cap, held, row, waiter, alarm>>

\* What a stored resets_at of meter k has become once k's window has ended.
Aged(k, m) == IF m.kind = k /\ m.reset = "ahead" THEN [m EXCEPT !.reset = "passed"] ELSE m

WindowEnds(k) ==
    /\ \E l \in Levels : Idle(l) /\ used' = [used EXCEPT ![k] = l]
    /\ cache' = IF cache = None THEN None ELSE {Aged(k, m) : m \in cache}
    /\ row' = IF row = None THEN None ELSE Aged(k, row)
    /\ alarm' = IF alarm = None THEN None ELSE Aged(k, alarm)
    /\ UNCHANGED <<reading, override, cap, held, waiter>>

\* _CACHE_TTL_SECONDS after it was read a snapshot serves no check any more.
CacheExpires ==
    /\ cache # None
    /\ cache' = None
    /\ UNCHANGED <<used, reading, override, cap, held, row, waiter, alarm>>

----------------------------------------------------------------------------
(* One monitor cycle.                                                       *)

\* The most used meter; of equally used ones the last in the order of names.
Governs(g, s) ==
    /\ g \in s
    /\ \A m \in s : m.used < g.used \/ (m.used = g.used /\ m.kind <= g.kind)

\* Mutant: exactly at the threshold the cap is only stepped.
CapUpToThreshold(u) ==
    IF u > Threshold THEN None
    ELSE LET passed == {s \in Steps : s[1] <= u}
         IN  IF passed = {} THEN 3
             ELSE (CHOOSE s \in passed : \A r \in passed : r[1] <= s[1])[2]

cap_for_utilisation(u) ==
    IF u >= Threshold THEN None
    ELSE LET passed == {s \in Steps : s[1] <= u}
         IN  IF passed = {} THEN 3
             ELSE (CHOOSE s \in passed : \A r \in passed : r[1] <= s[1])[2]

\* apply_cap_step: pauses the scheduler at the threshold, whatever the
\* override, and otherwise only ever lowers its cap.
ApplyCapStep(g) ==
    LET target == cap_for_utilisation(g.used)
    IN  IF target = None THEN held' = TRUE /\ cap' = cap
        ELSE held' = held /\ cap' = IF target < cap THEN target ELSE cap

\* UsagePolicy.evaluate says PAUSE; the peak-hour answer THROTTLE changes
\* nothing that PROCEED does not.
SaysPause(g) == ~override /\ g.used >= Threshold

set_paused(kind, reset) == row' = [kind |-> kind, reset |-> reset]

set_resumed == row' = None

is_paused == row # None

\* Mutant: every check above the threshold writes the row again.
PauseRunAgain(g) == IF SaysPause(g) THEN set_paused(g.kind, g.reset) ELSE row' = row

PauseRun(g) ==
    IF SaysPause(g) /\ ~is_paused THEN set_paused(g.kind, g.reset) ELSE row' = row

\* What the check does with a snapshot; without a meter it does nothing.
Judge(s) ==
    \/ s = {} /\ UNCHANGED <<cap, held, row>>
    \/ \E g \in s : Governs(g, s) /\ ApplyCapStep(g) /\ PauseRun(g)

\* What the reader may bring back: the windows that the endpoint reports,
\* each with or without its reset; those of the status line, which has no
\* resets; or no meter at all.
Snapshots(resets) ==
    UNION {{{[kind |-> k, used |-> used[k], reset |-> r[k]] : k \in K} : r \in [K -> resets]} :
               K \in SUBSET Kinds}

OAuthSnapshots == Snapshots({"ahead", "unknown"})

StatusLineSnapshots == Snapshots({"unknown"}) \ {{}}

TokenEstimation == {}

CheckFromCache ==
    /\ ~reading
    /\ cache # None
    /\ Judge(cache)
    /\ UNCHANGED <<used, cache, reading, override, waiter, alarm>>

BeginRead ==
    /\ ~reading
    /\ cache = None
    /\ reading' = TRUE
    /\ UNCHANGED <<used, cache, override, cap, held, row, waiter, alarm>>

EndRead ==
    /\ reading
    /\ reading' = FALSE
    /\ cache' \in OAuthSnapshots \cup StatusLineSnapshots \cup {TokenEstimation}
    /\ Judge(cache')
    /\ UNCHANGED <<used, override, waiter, alarm>>

ReadFails ==
    /\ reading
    /\ reading' = FALSE
    /\ UNCHANGED <<used, cache, override, cap, held, row, waiter, alarm>>

----------------------------------------------------------------------------
(* The operator: the override route and the commands of CommandRouter.      *)

SetOverride(on) ==
    /\ override' = on
    /\ UNCHANGED <<used, cache, reading, cap, held, row, waiter, alarm>>

HandlePause ==
    /\ IF is_paused THEN row' = row ELSE set_paused(Manual, "unknown")
    /\ UNCHANGED <<used, cache, reading, override, cap, held, waiter, alarm>>

HandleResume ==
    /\ IF is_paused THEN set_resumed ELSE row' = row
    /\ UNCHANGED <<used, cache, reading, override, cap, held, waiter, alarm>>

HandleOverride == SetOverride(~override)

----------------------------------------------------------------------------
(* wait_for_resume.                                                         *)

\* The head of its loop: leave when the run is not paused, sleep until a
\* known reset (not at all when it has passed), and back off before a probe
\* otherwise.
Loop ==
    \/ /\ ~is_paused
       /\ waiter' = "idle" /\ alarm' = None /\ row' = row
    \/ /\ is_paused /\ row.reset = "ahead"
       /\ waiter' = "asleep" /\ alarm' = row /\ row' = row
    \/ /\ is_paused /\ row.reset = "passed"
       /\ waiter' = "idle" /\ alarm' = None /\ set_resumed
    \/ /\ is_paused /\ row.reset = "unknown"
       /\ waiter' = "backing_off" /\ alarm' = None /\ row' = row

BeginWait ==
    /\ waiter \notin WaitPoints
    /\ is_paused
    /\ Loop
    /\ UNCHANGED <<used, cache, reading, override, cap, held>>

\* Mutant: the sleeper returns and leaves the run paused.
WakeWithoutResume ==
    /\ waiter = "asleep"
    /\ alarm.reset = "passed"
    /\ waiter' = "idle"
    /\ alarm' = None
    /\ UNCHANGED <<used, cache, reading, override, cap, held, row>>

\* The sleeper resumes the run without another look at its row.
WakeAfterReset ==
    /\ waiter = "asleep"
    /\ alarm.reset = "passed"
    /\ waiter' = "idle"
    /\ alarm' = None
    /\ set_resumed
    /\ UNCHANGED <<used, cache, reading, override, cap, held>>

\* The probe after a back-off is over at once and always fails: it runs the
\* adapter in an empty temporary directory, where every adapter begins by
\* opening a GitRepo, which refuses a directory without .git, and the
\* exception counts as the model being unavailable.
ProbeFails ==
    /\ waiter = "backing_off"
    /\ Loop
    /\ UNCHANGED <<used, cache, reading, override, cap, held>>

----------------------------------------------------------------------------

Environment ==
    \/ \E k \in Kinds, l \in Levels : Consume(k, l)
    \/ \E k \in Kinds : WindowEnds(k)
    \/ CacheExpires

Monitor == CheckFromCache \/ BeginRead \/ EndRead \/ ReadFails

Waiter == BeginWait \/ WakeAfterReset \/ ProbeFails

UsageNext ==
    \/ Environment
    \/ Monitor
    \/ \E on \in BOOLEAN : SetOverride(on)
    \/ HandlePause
    \/ HandleResume
    \/ HandleOverride
    \/ Waiter

UsageSpec == UsageInit /\ [][UsageNext]_control

\* A pause stays as it was opened until it is closed: neither a later check
\* nor the operator's command replaces the meter, and the reset, that the
\* run waits for (check, _handle_pause, and the upsert of set_paused that
\* would replace them).
PauseIsKept ==
    row # None /\ row' # None => row' \in {row} \cup {Aged(k, row) : k \in Kinds}

OpenPauseKeepsItsMeter == [][PauseIsKept]_control

\* When the monitor pauses a run it has paused the scheduler too: the
\* threshold of the policy and the end of the cap steps are the same number,
\* at the boundary too, and the override cannot come between them
\* (evaluate_threshold, cap_for_utilisation, check).
MonitorHolds ==
    row = None /\ row' # None /\ row'.kind # Manual => held'

PauseHoldsScheduler == [][MonitorHolds]_control

\* A sleeper returns in the end, and never while its run is paused, however
\* the operator and the monitor close and reopen the pause meanwhile.  A
\* waiter that probes does so too, unless it finds its run paused without a
\* known reset for ever, since no probe succeeds (wait_for_resume).
WaitIsOver == waiter = "lost" \/ (waiter = "idle" /\ ~is_paused)

PausedWithoutReset == is_paused /\ row.reset = "unknown"

WaitEnds ==
    [](waiter \in WaitPoints =>
           <>WaitIsOver \/ (waiter = "backing_off" /\ []<>PausedWithoutReset))
=============================================================================
