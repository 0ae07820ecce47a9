--------------------------- MODULE WatchVppProofs ---------------------------
(***************************************************************************)
(* What the event loop of the restore daemon keeps, for every kind and     *)
(* number of faults: its types, and that no Sync begins on a connection    *)
(* that was reported gone.                                                 *)
(***************************************************************************)
EXTENDS WatchVpp, SequenceTheorems, TLAPS

Event == {"Connected", "Disconnected", "NotResponding", "Failed", "closed"}

Flags == /\ vppUp \in BOOLEAN /\ clean \in BOOLEAN /\ connected \in BOOLEAN
         /\ tick \in BOOLEAN /\ late \in BOOLEAN /\ cancelled \in BOOLEAN
         /\ closed \in BOOLEAN

Statuses == [connected : BOOLEAN, saw : BOOLEAN, ok : BOOLEAN]

\* A debounce that is running or has fired belongs to the last Connected event.
DebounceConnected == debounce # "off" => connected

IInv == WatchTypeOK /\ DebounceConnected /\ SyncOnlyConnected

-----------------------------------------------------------------------------

\* What govpp sends, and what the goroutine receives, keeps the channel typed.
LEMMA ChannelType ==
  ASSUME NEW q \in Seq(Event), NEW batch \in Seq(Event)
  PROVE  /\ q \o batch \in Seq(Event)
         /\ q # <<>> => Head(q) \in Event /\ Tail(q) \in Seq(Event)
BY ConcatProperties, HeadTailProperties

\* The daemon starts without a timer and without a Sync.
LEMMA InitIInv == Init => IInv
<1> SUFFICES ASSUME Init PROVE IInv
  OBVIOUS
<1>1. Flags
  BY DEF Init, Flags
<1>2. status \in Statuses
  BY DEF Init, NoStatus, Statuses
<1>3. budget \in 0..MaxFaults
  BY WatchAssumption DEF Init
<1> QED BY <1>1, <1>2, <1>3 DEF Init, IInv, WatchTypeOK, DebounceConnected,
           SyncOnlyConnected, Flags, Statuses

\* VPP and govpp touch neither the loop's variable nor its timers.
LEMMA OutsideIInv ==
  ASSUME IInv,
         \/ VppDies \/ VppStarts \/ Drift
         \/ GovppConnects \/ GovppNotices \/ GovppFlaps \/ GovppEnds
  PROVE  IInv'
<1> USE WatchAssumption DEF IInv, WatchTypeOK, DebounceConnected, SyncOnlyConnected,
        vpp, govpp, loop, run, Fault, Send
<1>1. CASE VppDies
  <2>1. Flags'
    BY <1>1 DEF Flags, VppDies
  <2>2. status' \in Statuses
    BY <1>1 DEF Statuses, VppDies
  <2>3. budget' \in 0..MaxFaults
    BY <1>1 DEF VppDies
  <2> QED BY <1>1, <2>1, <2>2, <2>3 DEF Flags, Statuses, VppDies
<1>2. CASE VppStarts
  BY <1>2 DEF VppStarts
<1>3. CASE Drift
  <2>1. Flags'
    BY <1>3 DEF Flags, Drift
  <2>2. status' \in Statuses
    BY <1>3 DEF Statuses, Drift
  <2>3. budget' \in 0..MaxFaults
    BY <1>3 DEF Drift
  <2> QED BY <1>3, <2>1, <2>2, <2>3 DEF Flags, Statuses, Drift
<1>4. CASE GovppConnects
  <2>1. events' \in Seq(Event)
    BY <1>4, ChannelType DEF GovppConnects, Event
  <2>2. sync' \in {sync, "good"} /\ (sync = "idle" <=> sync' = "idle")
    BY <1>4 DEF GovppConnects
  <2>3. Flags'
    BY <1>4 DEF Flags, GovppConnects
  <2>4. status' \in Statuses
    BY <1>4 DEF Statuses, GovppConnects
  <2> QED BY <1>4, <2>1, <2>2, <2>3, <2>4 DEF GovppConnects, Event, Flags, Statuses
<1>5. CASE GovppNotices
  <2>1. events' \in Seq(Event)
    BY <1>5, ChannelType DEF GovppNotices, Event
  <2> QED BY <1>5, <2>1 DEF GovppNotices, Event
<1>6. CASE GovppFlaps
  <2>1. events' \in Seq(Event)
    BY <1>6, ChannelType DEF GovppFlaps, Event
  <2> QED BY <1>6, <2>1 DEF GovppFlaps, Event
<1>7. CASE GovppEnds
  <2>1. \E ev \in Event : events' = events \o <<ev>>
    BY <1>7 DEF GovppEnds, Event
  <2>2. events' \in Seq(Event)
    BY <2>1, ChannelType DEF Event
  <2> QED BY <1>7, <2>2 DEF GovppEnds, Event
<1> QED BY <1>1, <1>2, <1>3, <1>4, <1>5, <1>6, <1>7

\* Run, the end of a cycle, the shutdown and a restart leave no timer behind.
LEMMA CycleIInv ==
  ASSUME IInv,
         RunCycle \/ RunStops \/ BackoffEnds \/ SelectDone \/ Cancel \/ DaemonRestarts
  PROVE  IInv'
<1> USE WatchAssumption DEF IInv, WatchTypeOK, DebounceConnected, SyncOnlyConnected,
        vpp, govpp, loop, run, Fault, EndCycle, NoStatus
<1>1. CASE RunCycle
  <2>1. Flags'
    BY <1>1 DEF Flags, RunCycle
  <2>2. status' \in Statuses
    BY <1>1 DEF Statuses, RunCycle
  <2>3. budget' \in 0..MaxFaults
    BY <1>1 DEF RunCycle
  <2> QED BY <1>1, <2>1, <2>2, <2>3 DEF Flags, Statuses, RunCycle
<1>2. CASE RunStops
  BY <1>2 DEF RunStops
<1>3. CASE BackoffEnds
  BY <1>3 DEF BackoffEnds
<1>4. CASE SelectDone
  <2>1. Flags'
    BY <1>4 DEF Flags, SelectDone
  <2>2. status' \in Statuses
    BY <1>4 DEF Statuses, SelectDone
  <2>3. budget' \in 0..MaxFaults
    BY <1>4 DEF SelectDone
  <2> QED BY <1>4, <2>1, <2>2, <2>3 DEF Flags, Statuses, SelectDone
<1>5. CASE Cancel
  BY <1>5 DEF Cancel
<1>6. CASE DaemonRestarts
  <2>1. Flags'
    BY <1>6 DEF Flags, DaemonRestarts
  <2>2. status' \in Statuses
    BY <1>6 DEF Statuses, DaemonRestarts
  <2>3. budget' \in 0..MaxFaults
    BY <1>6 DEF DaemonRestarts
  <2> QED BY <1>6, <2>1, <2>2, <2>3 DEF Flags, Statuses, DaemonRestarts
<1> QED BY <1>1, <1>2, <1>3, <1>4, <1>5, <1>6

\* An event sets the variable and the timer together, or ends the cycle.
LEMMA EventIInv == ASSUME IInv, SelectEvent PROVE IInv'
<1> USE DEF IInv, WatchTypeOK, DebounceConnected, SyncOnlyConnected, vpp, govpp, run
<1>1. Tail(events) \in Seq(Event)
  BY ChannelType, EmptySeq DEF SelectEvent, Event
<1>2. CASE Head(events) = "Connected"
  BY <1>1, <1>2 DEF SelectEvent, OnConnectedEvent, SetConnected, Event
<1>3. CASE Head(events) = "Disconnected"
  BY <1>1, <1>3 DEF SelectEvent, OnDisconnectedEvent, SetConnected, Event
<1>4. CASE Head(events) = "NotResponding"
  <2>1. Flags' /\ connected' = connected
    BY <1>4 DEF SelectEvent, Flags
  <2> QED BY <1>1, <1>4, <2>1 DEF SelectEvent, Flags, Event
<1>5. CASE Head(events) \in {"Failed", "closed"}
  <2>1. Flags' /\ connected' = connected
    BY <1>5 DEF SelectEvent, EndCycle, Flags
  <2>2. status' \in Statuses
    BY <1>5 DEF SelectEvent, SetConnected, Statuses
  <2>3. /\ pc' = "backoff" /\ link' = "none" /\ events' = <<>> /\ debounce' = "off"
        /\ sync = "idle" /\ sync' = "idle" /\ budget' = budget
    BY <1>5 DEF SelectEvent, EndCycle
  <2> QED BY <2>1, <2>2, <2>3 DEF Flags, Statuses
<1> QED BY <1>2, <1>3, <1>4, <1>5 DEF SelectEvent

\* A Sync is begun by a timer of the last connect or by a tick that asked.
LEMMA SyncIInv ==
  ASSUME IInv,
         \/ SelectDebounce \/ SelectTick \/ DebounceFires \/ TickerTicks
         \/ NewAPIChannel \/ SyncReturns \/ SyncHangs
  PROVE  IInv'
<1> USE WatchAssumption DEF IInv, WatchTypeOK, DebounceConnected, SyncOnlyConnected,
        vpp, govpp, loop, run, Fault
<1>1. CASE SelectDebounce
  BY <1>1 DEF SelectDebounce
<1>2. CASE SelectTick
  <2>1. Flags'
    BY <1>2 DEF Flags, SelectTick, AfterTick
  <2>2. status' \in Statuses
    BY <1>2 DEF Statuses, SelectTick, AfterTick
  <2>3. budget' \in 0..MaxFaults
    BY <1>2 DEF SelectTick, AfterTick
  <2> QED BY <1>2, <2>1, <2>2, <2>3 DEF Flags, Statuses, SelectTick, AfterTick
<1>3. CASE DebounceFires
  BY <1>3 DEF DebounceFires
<1>4. CASE TickerTicks
  BY <1>4 DEF TickerTicks
<1>5. CASE NewAPIChannel
  <2>1. Flags'
    BY <1>5 DEF Flags, NewAPIChannel
  <2>2. status' \in Statuses
    BY <1>5 DEF Statuses, NewAPIChannel
  <2>3. budget' \in 0..MaxFaults
    BY <1>5 DEF NewAPIChannel
  <2> QED BY <1>5, <2>1, <2>2, <2>3 DEF Flags, Statuses, NewAPIChannel
<1>6. CASE SyncReturns
  <2>1. Flags'
    BY <1>6 DEF Flags, SyncReturns, RecordReconcile
  <2>2. status' \in Statuses
    BY <1>6 DEF Statuses, SyncReturns, RecordReconcile
  <2>3. budget' = budget \/ (budget > 0 /\ budget' = budget - 1)
    BY <1>6, Zenon DEF SyncReturns
  <2>4. budget' \in 0..MaxFaults
    BY <2>3
  <2> QED BY <1>6, <2>1, <2>2, <2>4 DEF Flags, Statuses, SyncReturns, RecordReconcile
<1>7. CASE SyncHangs
  BY <1>7 DEF SyncHangs
<1> QED BY <1>1, <1>2, <1>3, <1>4, <1>5, <1>6, <1>7

\* Every step of the daemon and of its environment keeps the invariant.
LEMMA NextIInv == IInv /\ [Next]_vars => IInv'
<1> SUFFICES ASSUME IInv, [Next]_vars PROVE IInv'
  OBVIOUS
<1>1. CASE Next
  BY <1>1, OutsideIInv, CycleIInv, EventIInv, SyncIInv DEF Next, Loop
<1>2. CASE UNCHANGED vars
  BY <1>2 DEF vars, vpp, govpp, loop, run, IInv, WatchTypeOK, DebounceConnected,
              SyncOnlyConnected
<1> QED BY <1>1, <1>2

\* The inductive invariant of the event loop.
LEMMA Invariance == Spec => []IInv
BY InitIInv, NextIInv, PTL DEF Spec

\* The variables of watchOnce, Status and onConnected keep their types, nothing is
\* connected between two cycles, and a Sync is known to run exactly while it does.
THEOREM WatchTypeCorrect == Spec => []WatchTypeOK
BY Invariance, PTL DEF IInv

\* onConnected is never called while the last thing the daemon heard of VPP is that
\* it is disconnected, whichever events, timers and faults interleave.
THEOREM SyncsOnlyConnected == Spec => []SyncOnlyConnected
BY Invariance, PTL DEF IInv
=============================================================================
