----------------------------- MODULE UsageProofs -----------------------------
(***************************************************************************)
(* Theorems about usage control under the operator's channel, for any      *)
(* meters, levels, threshold and number of updates.                        *)
(***************************************************************************)
EXTENDS OperatorChannel, TLAPS

USE UsageAssumption DEF UsageAssumption

----------------------------------------------------------------------------
(* Types.                                                                   *)

\* A utilisation below the threshold always finds one of the caps: of the
\* floors it has passed one is the highest.
LEMMA CapIsAStep ==
    ASSUME NEW u \in Nat, cap_for_utilisation(u) # None
    PROVE  cap_for_utilisation(u) \in 1..3
<1> DEFINE passed == {s \in Steps : s[1] <= u}
           highest(s) == s \in passed /\ \A r \in passed : r[1] <= s[1]
<1>1. CASE passed = {}
  BY <1>1 DEF cap_for_utilisation
<1>2. CASE passed # {}
  <2>1. \E top : highest(top)
    <3>1. CASE u >= 75
      BY <3>1, highest(<<75, 1>>) DEF Steps
    <3>2. CASE u >= 65 /\ u < 75
      BY <3>2, highest(<<65, 2>>) DEF Steps
    <3>3. CASE u >= 50 /\ u < 65
      BY <3>3, highest(<<50, 3>>) DEF Steps
    <3>4. CASE u < 50
      BY <3>4, <1>2 DEF Steps
    <3> QED BY <3>1, <3>2, <3>3, <3>4
  <2>2. highest(CHOOSE top \in passed : \A r \in passed : r[1] <= top[1])
    BY <2>1
  <2>3. \A step \in Steps : step[2] \in 1..3
    BY DEF Steps
  <2> QED BY <1>2, <2>2, <2>3 DEF cap_for_utilisation
<1> QED BY <1>1, <1>2

\* A snapshot is a set of meters.
LEMMA SnapshotsAreMeters ==
    ASSUME UsageTypeOK, NEW resets \in SUBSET Resets, NEW s \in Snapshots(resets)
    PROVE  s \subseteq Meters
<1> DEFINE snapshot(K, r) == {[kind |-> k, used |-> used[k], reset |-> r[k]] : k \in K}
           snapshots(K) == {snapshot(K, r) : r \in [K -> resets]}
<1>1. PICK K \in SUBSET Kinds : s \in snapshots(K)
  BY Zenon DEF Snapshots
<1>3. PICK r \in [K -> resets] : s = snapshot(K, r)
  BY <1>1
<1>2. ASSUME NEW k \in K
      PROVE  [kind |-> k, used |-> used[k], reset |-> r[k]] \in Meters
  BY <1>3 DEF UsageTypeOK, Meters
<1> QED BY <1>2, <1>3

\* Ageing keeps a meter and a pause what they are.
LEMMA AgedType ==
    ASSUME NEW k \in Kinds
    PROVE  /\ \A m \in Meters : Aged(k, m) \in Meters
           /\ \A p \in Pauses : Aged(k, p) \in Pauses
  BY DEF Aged, Meters, Pauses, Resets

\* Judging a snapshot sets a cap and a row of their types.
LEMMA JudgeType ==
    ASSUME UsageTypeOK, NEW s \in SUBSET Meters, Judge(s)
    PROVE  cap' \in 1..3 /\ held' \in BOOLEAN /\ (row' = None \/ row' \in Pauses)
<1>1. CASE UNCHANGED <<cap, held, row>>
  BY <1>1 DEF UsageTypeOK
<1>2. ASSUME NEW g \in s, ApplyCapStep(g), PauseRun(g)
      PROVE  cap' \in 1..3 /\ held' \in BOOLEAN /\ (row' = None \/ row' \in Pauses)
  <2>1. g.kind \in Kinds /\ g.used \in Nat /\ g.reset \in Resets
    BY DEF Meters
  <2>2. cap' \in 1..3 /\ held' \in BOOLEAN
    BY <1>2, <2>1, CapIsAStep DEF ApplyCapStep, UsageTypeOK
  <2>3. row' = None \/ row' \in Pauses
    BY <1>2, <2>1 DEF PauseRun, set_paused, UsageTypeOK, Pauses
  <2> QED BY <2>2, <2>3
<1> QED BY <1>1, <1>2 DEF Judge

LEMMA ControlTypeStep ==
    ASSUME UsageTypeOK, UsageNext
    PROVE  UsageTypeOK'
<1>1. ASSUME NEW k \in Kinds, NEW l \in Levels, Consume(k, l)
      PROVE  UsageTypeOK'
  BY <1>1 DEF Consume, UsageTypeOK
<1>2. ASSUME NEW k \in Kinds, WindowEnds(k)
      PROVE  UsageTypeOK'
  <2>1. used' \in [Kinds -> Levels]
    BY <1>2 DEF WindowEnds, UsageTypeOK
  <2>2. cache' = None \/ cache' \subseteq Meters
    <3>1. CASE cache = None
      BY <1>2, <3>1 DEF WindowEnds
    <3>2. CASE cache # None
      <4>1. cache' = {Aged(k, m) : m \in cache} /\ cache \subseteq Meters
        BY <1>2, <3>2 DEF WindowEnds, UsageTypeOK
      <4> QED BY <4>1, AgedType
    <3> QED BY <3>1, <3>2
  <2>3. row' = None \/ row' \in Pauses
    BY <1>2, AgedType DEF WindowEnds, UsageTypeOK
  <2>4. IF waiter' = "asleep" THEN alarm' \in Pauses ELSE alarm' = None
    BY <1>2, AgedType DEF WindowEnds, UsageTypeOK
  <2> QED BY <1>2, <2>1, <2>2, <2>3, <2>4 DEF WindowEnds, UsageTypeOK
<1>3. CASE CacheExpires
  BY <1>3 DEF CacheExpires, UsageTypeOK
<1>4. CASE CheckFromCache
  BY <1>4, JudgeType DEF CheckFromCache, UsageTypeOK
<1>5. CASE BeginRead \/ ReadFails
  BY <1>5 DEF BeginRead, ReadFails, UsageTypeOK
<1>6. CASE EndRead
  <2>1. cache' \subseteq Meters
    BY <1>6, SnapshotsAreMeters
    DEF EndRead, OAuthSnapshots, StatusLineSnapshots, TokenEstimation, Resets
  <2> QED BY <1>6, <2>1, JudgeType DEF EndRead, UsageTypeOK
<1>7. ASSUME NEW on \in BOOLEAN, SetOverride(on)
      PROVE  UsageTypeOK'
  BY <1>7 DEF SetOverride, UsageTypeOK
<1>8. CASE HandlePause
  BY <1>8 DEF HandlePause, set_paused, UsageTypeOK, Pauses, Resets
<1>9. CASE HandleResume \/ HandleOverride
  BY <1>9 DEF HandleResume, set_resumed, HandleOverride, SetOverride, UsageTypeOK
<1>10. CASE BeginWait \/ ProbeFails
  BY <1>10 DEF BeginWait, ProbeFails, Loop, is_paused, set_resumed, WaitPoints, UsageTypeOK
<1>11. CASE WakeAfterReset
  BY <1>11 DEF WakeAfterReset, set_resumed, WaitPoints, UsageTypeOK
<1> QED
  BY <1>1, <1>2, <1>3, <1>4, <1>5, <1>6, <1>7, <1>8, <1>9, <1>10, <1>11
  DEF UsageNext, Environment, Monitor, Waiter

\* A step of the channel is a step of usage control, leaves it alone, or is a
\* restart; the other steps are usage control's own.
LEMMA StepsOfTheChannel ==
    ASSUME [Next]_vars
    PROVE  UsageNext \/ UNCHANGED control \/ Restart
<1>1. ASSUME NEW c \in Commands, Route(c)
      PROVE  UsageNext \/ UNCHANGED control
  BY <1>1 DEF Route, UsageNext
<1> QED
  BY <1>1 DEF Next, Channel, UsageNext, SendMessage, GetUpdates, HandleUpdate, HandlerRaises, vars

\* The control of a run keeps its types under everything the monitor, the
\* operator, the waiter and a restart do (usage/, notifications/).
THEOREM UsageTypeCorrect == Spec => []UsageTypeOK
<1>1. Init => UsageTypeOK
  <2> SUFFICES ASSUME UsageInit PROVE UsageTypeOK
    BY DEF Init
  <2>1. used \in [Kinds -> Levels]
    BY DEF UsageInit
  <2>2. waiter = "idle" /\ alarm = None /\ cap \in 1..3
    BY DEF UsageInit
  <2> QED BY <2>1, <2>2 DEF UsageInit, UsageTypeOK
<1>2. UsageTypeOK /\ [Next]_vars => UsageTypeOK'
  <2> SUFFICES ASSUME UsageTypeOK, [Next]_vars PROVE UsageTypeOK'
    OBVIOUS
  <2>1. CASE UsageNext
    BY <2>1, ControlTypeStep
  <2>2. CASE UNCHANGED control
    BY <2>2 DEF control, UsageTypeOK
  <2>3. CASE Restart
    <3>1. waiter' \in {"idle", "lost"} /\ alarm' = None /\ cap' \in 1..3
      BY <2>3 DEF Restart, UsageTypeOK
    <3> QED BY <2>3, <3>1 DEF Restart, UsageTypeOK
  <2> QED BY <2>1, <2>2, <2>3, StepsOfTheChannel
<1> QED BY <1>1, <1>2, PTL DEF Spec

----------------------------------------------------------------------------
(* The pause row.                                                           *)

\* Whatever opens a pause looks first whether there is one, so an open pause
\* keeps its meter and its reset until it is closed (check, _handle_pause).
THEOREM PauseIsKeptUntilClosed == Spec => OpenPauseKeepsItsMeter
<1>1. ASSUME [UsageNext]_control
      PROVE  PauseIsKept
  <2>1. CASE Environment
    BY <2>1 DEF Environment, Consume, WindowEnds, CacheExpires, PauseIsKept
  <2>2. CASE Monitor
    <3>1. ASSUME NEW s, Judge(s)
          PROVE  PauseIsKept
      BY <3>1 DEF Judge, PauseRun, is_paused, PauseIsKept
    <3> QED BY <2>2, <3>1 DEF Monitor, CheckFromCache, BeginRead, EndRead, ReadFails, PauseIsKept
  <2>3. CASE Waiter
    BY <2>3 DEF Waiter, BeginWait, WakeAfterReset, ProbeFails,
                Loop, set_resumed, PauseIsKept
  <2>4. ASSUME NEW on \in BOOLEAN, SetOverride(on)
        PROVE  PauseIsKept
    BY <2>4 DEF SetOverride, PauseIsKept
  <2>5. CASE HandlePause \/ HandleResume \/ HandleOverride
    BY <2>5 DEF HandlePause, HandleResume, HandleOverride, SetOverride, set_resumed, is_paused,
                PauseIsKept
  <2>6. CASE UNCHANGED control
    BY <2>6 DEF control, PauseIsKept
  <2> QED BY <1>1, <2>1, <2>2, <2>3, <2>4, <2>5, <2>6 DEF UsageNext
<1>2. [Next]_vars => [PauseIsKept]_control
  BY <1>1, StepsOfTheChannel DEF Restart, PauseIsKept
<1> QED BY <1>2, PTL DEF Spec, OpenPauseKeepsItsMeter

\* The pause of the policy and that of the cap steps are taken at the same
\* number and of the same meter, so a run that the monitor pauses has its
\* scheduler paused in the same check (check, apply_cap_step).
THEOREM PauseHoldsTheScheduler == Spec => PauseHoldsScheduler
<1>1. ASSUME [UsageNext]_control
      PROVE  MonitorHolds
  <2>1. CASE Environment
    BY <2>1 DEF Environment, Consume, WindowEnds, CacheExpires, MonitorHolds
  <2>2. CASE Monitor
    <3>1. ASSUME NEW s, Judge(s)
          PROVE  MonitorHolds
      BY <3>1 DEF Judge, PauseRun, SaysPause, ApplyCapStep, cap_for_utilisation, MonitorHolds
    <3> QED BY <2>2, <3>1 DEF Monitor, CheckFromCache, BeginRead, EndRead, ReadFails, MonitorHolds
  <2>3. CASE Waiter
    BY <2>3 DEF Waiter, BeginWait, WakeAfterReset, ProbeFails,
                Loop, set_resumed, is_paused, MonitorHolds
  <2>4. ASSUME NEW on \in BOOLEAN, SetOverride(on)
        PROVE  MonitorHolds
    BY <2>4 DEF SetOverride, MonitorHolds
  <2>5. CASE HandlePause \/ HandleResume \/ HandleOverride
    BY <2>5 DEF HandlePause, HandleResume, HandleOverride, SetOverride, set_paused, set_resumed,
                Manual, MonitorHolds
  <2>6. CASE UNCHANGED control
    BY <2>6 DEF control, MonitorHolds
  <2> QED BY <1>1, <2>1, <2>2, <2>3, <2>4, <2>5, <2>6 DEF UsageNext
<1>2. [Next]_vars => [MonitorHolds]_control
  BY <1>1, StepsOfTheChannel DEF Restart, MonitorHolds
<1> QED BY <1>2, PTL DEF Spec, PauseHoldsScheduler

----------------------------------------------------------------------------
(* The updates of a poll.                                                   *)

\* What is still to be handled lies above what has been handled and below the
\* offset, so the next poll does not ask for it again.
ChannelInv ==
    /\ {sent, offset, last} \subseteq Nat /\ confirmed \in Nat \ {0}
    /\ batch \in Seq(Nat)
    /\ \A i \in 1..Len(batch) : batch[i] < offset
    /\ last = 0 \/ last < offset
    /\ HandledOnceInOrder

LEMMA UpdatesFromIs ==
    ASSUME sent \in Nat, NEW id \in Nat \ {0}
    PROVE  /\ UpdatesFrom(id) \in Seq(Nat)
           /\ UpdatesFrom(id) # <<>> => Len(UpdatesFrom(id)) = sent + 1 - id
           /\ \A k \in 1..Len(UpdatesFrom(id)) :
                  UpdatesFrom(id)[k] = id + k - 1 /\ UpdatesFrom(id)[k] <= sent
<1> DEFINE l == sent + 1 - id
<1>1. CASE l >= 0
  BY <1>1 DEF UpdatesFrom
<1>2. CASE l < 0
  <2>1. 1..l = {}
    BY <1>2
  <2>2. UpdatesFrom(id) = <<>>
    BY <2>1 DEF UpdatesFrom
  <2> QED BY <2>2
<1> QED BY <1>1, <1>2

LEMMA PollStep ==
    ASSUME ChannelInv, GetUpdates
    PROVE  ChannelInv'
<1> DEFINE from == IF offset > confirmed THEN offset ELSE confirmed
<1>1. /\ from \in Nat \ {0} /\ offset <= from /\ sent \in Nat
      /\ confirmed' = from /\ batch' = UpdatesFrom(from)
      /\ offset' = (IF batch' = <<>> THEN offset ELSE sent + 1) /\ UNCHANGED <<sent, last>>
  BY DEF ChannelInv, GetUpdates
<1> HIDE DEF from
<1>2. /\ batch' \in Seq(Nat)
      /\ \A k \in 1..Len(batch') : batch'[k] = from + k - 1 /\ batch'[k] <= sent
  BY <1>1, UpdatesFromIs
<1>3. {sent, offset, last}' \subseteq Nat /\ last < from
  BY <1>1 DEF ChannelInv
<1>4. CASE batch' = <<>>
  <2>1. Len(batch') = 0 /\ offset' = offset
    BY <1>1, <1>4
  <2> QED BY <1>1, <1>2, <1>3, <2>1 DEF ChannelInv, HandledOnceInOrder
<1>5. CASE batch' # <<>>
  <2>1. offset' = sent + 1 /\ Len(batch') \in Nat \ {0}
    BY <1>1, <1>2, <1>5
  <2>2. from <= sent
    BY <1>1, <1>2, <2>1
  <2>3. \A i \in 1..Len(batch') : last < batch'[i] /\ batch'[i] < offset'
    BY <1>1, <1>2, <1>3, <2>1 DEF ChannelInv
  <2>4. ASSUME NEW i \in 1..Len(batch'), NEW j \in 1..(i - 1)
        PROVE  batch'[j] < batch'[i]
    <3>1. i \in Nat /\ j \in Nat /\ j \in 1..Len(batch') /\ j < i
      BY <2>1
    <3>2. batch'[i] = from + i - 1 /\ batch'[j] = from + j - 1
      BY <1>2, <3>1
    <3> QED BY <1>1, <3>1, <3>2
  <2> QED BY <1>1, <1>2, <1>3, <2>1, <2>2, <2>3, <2>4 DEF ChannelInv, HandledOnceInOrder
<1> QED BY <1>4, <1>5

LEMMA HandleStep ==
    ASSUME ChannelInv, HandleUpdate
    PROVE  ChannelInv'
<1>1. /\ batch \in Seq(Nat) /\ batch # <<>> /\ batch' = Tail(batch) /\ last' = Head(batch)
      /\ UNCHANGED <<sent, confirmed, offset>>
  BY DEF ChannelInv, HandleUpdate
<1>2. /\ batch' \in Seq(Nat) /\ Len(batch) \in Nat \ {0} /\ Len(batch') = Len(batch) - 1
      /\ \A k \in 1..Len(batch') : batch'[k] = batch[k + 1]
      /\ last' = batch[1] /\ last' \in Nat
  BY <1>1
<1>3. \A i \in 1..Len(batch) : batch[i] < offset /\ \A j \in 1..(i - 1) : batch[j] < batch[i]
  BY DEF ChannelInv, HandledOnceInOrder
<1>4. last' < offset'
  BY <1>1, <1>2, <1>3
<1>5. ASSUME NEW i \in 1..Len(batch')
      PROVE  /\ batch'[i] < offset' /\ last' < batch'[i]
             /\ \A j \in 1..(i - 1) : batch'[j] < batch'[i]
  <2>1. /\ i + 1 \in 1..Len(batch) /\ batch'[i] = batch[i + 1]
        /\ 1 \in 1..(i + 1 - 1)
    BY <1>2
  <2>2. \A j \in 1..(i - 1) : j + 1 \in 1..(i + 1 - 1) /\ batch'[j] = batch[j + 1]
    BY <1>2
  <2> QED BY <1>1, <1>2, <1>3, <2>1, <2>2
<1> QED BY <1>1, <1>2, <1>4, <1>5 DEF ChannelInv, HandledOnceInOrder

\* No update is handled twice, or before an earlier one, in the life of a
\* process, however many polls see it (_get_updates).
THEOREM UpdatesAreHandledOnce == Spec => []HandledOnceInOrder
<1>1. Init => ChannelInv
  BY DEF Init, ChannelInv, HandledOnceInOrder
<1>2. ChannelInv /\ [Next]_vars => ChannelInv'
  <2> SUFFICES ASSUME ChannelInv, [Next]_vars PROVE ChannelInv'
    OBVIOUS
  <2>1. CASE UNCHANGED channel
    BY <2>1 DEF channel, ChannelInv, HandledOnceInOrder
  <2>2. CASE SendMessage
    BY <2>2 DEF SendMessage, ChannelInv, HandledOnceInOrder
  <2>3. CASE HandlerRaises \/ Restart
    <3>1. batch' = <<>> /\ UNCHANGED <<sent, confirmed>> /\ last' \in {0, last} /\ offset' \in {0, offset}
      BY <2>3 DEF HandlerRaises, Restart
    <3>2. last' = 0 \/ last' < offset'
      BY <2>3 DEF HandlerRaises, Restart, ChannelInv
    <3> QED BY <3>1, <3>2 DEF ChannelInv, HandledOnceInOrder
  <2> QED BY <2>1, <2>2, <2>3, PollStep, HandleStep DEF Next, Channel, vars
<1>3. ChannelInv => HandledOnceInOrder
  BY DEF ChannelInv
<1> QED BY <1>1, <1>2, <1>3, PTL DEF Spec
=============================================================================
