------------------------------ MODULE WatchVpp ------------------------------
(***************************************************************************)
(* When the restore daemon runs Sync, and what it reports meanwhile: Run   *)
(* and watchOnce of pkg/daemon/watch_vpp.go, Status of pkg/daemon/         *)
(* status.go, and the shutdown of cmd/daemon/main.go.                      *)
(*                                                                         *)
(* The daemon is one goroutine that selects among the events of govpp, a   *)
(* debounce timer, a ticker and the cancellation of its context.  VPP      *)
(* dies and comes back, govpp notices later, timers fire, and the events   *)
(* pile up while a Sync runs.  What a Sync does is the subject of          *)
(* RestoreDaemon; here it only takes time, may fail, may be overtaken, and *)
(* may never return if VPP dies under it.                                  *)
(***************************************************************************)
EXTENDS Naturals, Sequences

CONSTANTS
  Faults,     \* the kinds of fault the environment may inject
  MaxFaults   \* how many of them (a bound of the model)

FaultKind == {"crash",    \* VPP dies
              "flap",     \* VPP does not respond for a while, and does again
              "failed",   \* govpp gives up
              "closed",   \* govpp closes the event stream
              "connect",  \* AsyncConnect fails
              "channel",  \* NewAPIChannel fails on a good connection
              "sync",     \* Sync fails
              "drift",    \* an orphan or a missing memif appears
              "restart"}  \* the daemon's own container is restarted

ASSUME WatchAssumption == Faults \subseteq FaultKind /\ MaxFaults \in Nat

VARIABLES
  vppUp,      \* VPP runs
  clean,      \* VPP has what it should have
  link,       \* the connection as govpp has it; "broken": VPP is gone, govpp does
              \* not know yet
  events,     \* the channel govpp sends to
  pc,         \* where the goroutine stands
  connected,  \* the local variable of watchOnce
  debounce,   \* the timer: off, running, or fired and not received yet
  tick,       \* the ticker has a tick in its channel
  sync,       \* whether the running Sync still talks to the VPP it began with;
              \* "hung": it waits for a reply of one that is gone
  late,       \* something changed since it listed the pods
  cancelled,  \* the context is cancelled
  status,     \* Status: connected, sawReconcile, lastReconcileOK
  closed,     \* history: this cycle or the last one lost its event stream
  budget      \* faults that may still be injected

vpp   == <<vppUp, clean>>
govpp == <<link, events>>
loop  == <<connected, debounce, tick>>
run   == <<sync, late>>
vars  == <<vpp, govpp, pc, loop, run, cancelled, status, closed, budget>>

WatchTypeOK ==
  /\ vppUp \in BOOLEAN /\ clean \in BOOLEAN
  /\ link \in {"none", "trying", "up", "broken", "failed"}
  /\ events \in Seq({"Connected", "Disconnected", "NotResponding", "Failed", "closed"})
  /\ pc \in {"run", "select", "channel", "sync", "backoff", "stopped"}
  /\ connected \in BOOLEAN
  /\ debounce \in {"off", "armed", "fired"}
  /\ tick \in BOOLEAN
  /\ sync \in {"idle", "good", "died", "never", "hung"}
  /\ late \in BOOLEAN
  /\ cancelled \in BOOLEAN
  /\ status \in [connected : BOOLEAN, saw : BOOLEAN, ok : BOOLEAN]
  /\ closed \in BOOLEAN
  /\ budget \in 0..MaxFaults
  /\ pc \in {"run", "backoff", "stopped"} => link = "none"
  /\ sync # "idle" <=> pc = "sync"
  /\ link = "up" => vppUp

NoStatus == [connected |-> FALSE, saw |-> FALSE, ok |-> FALSE]

Init ==
  /\ vppUp = TRUE /\ clean = FALSE
  /\ link = "none" /\ events = <<>>
  /\ pc = "run"
  /\ connected = FALSE /\ debounce = "off" /\ tick = FALSE
  /\ sync = "idle" /\ late = FALSE
  /\ cancelled = FALSE
  /\ status = NoStatus
  /\ closed = FALSE
  /\ budget = MaxFaults

Fault(f) == f \in Faults /\ budget > 0 /\ budget' = budget - 1

-----------------------------------------------------------------------------
(* VPP and govpp.                                                          *)

VppDies ==
  /\ vppUp /\ Fault("crash")
  /\ vppUp' = FALSE /\ clean' = FALSE
  /\ link' = IF link = "up" THEN "broken" ELSE link
  /\ sync' = IF sync = "good" THEN "died" ELSE sync
  /\ UNCHANGED <<events, pc, loop, late, cancelled, status, closed>>

VppStarts ==
  /\ ~vppUp /\ vppUp' = TRUE
  /\ UNCHANGED <<clean, govpp, pc, loop, run, cancelled, status, closed, budget>>

Drift ==
  /\ vppUp /\ Fault("drift")
  /\ clean' = FALSE /\ late' = TRUE
  /\ UNCHANGED <<vppUp, govpp, pc, loop, sync, cancelled, status, closed>>

Send(batch) == events' = events \o batch

\* A Sync that began without a connection may send its first request on this one.
GovppConnects ==
  /\ link = "trying" /\ vppUp
  /\ link' = "up" /\ Send(<<"Connected">>)
  /\ sync' \in {sync} \union (IF sync = "never" /\ ~cancelled THEN {"good"} ELSE {})
  /\ UNCHANGED <<vpp, pc, loop, late, cancelled, status, closed, budget>>

GovppNotices ==
  /\ link = "broken"
  /\ link' = "trying" /\ Send(<<"Disconnected">>)
  /\ UNCHANGED <<vpp, pc, loop, run, cancelled, status, closed, budget>>

GovppFlaps ==
  /\ link = "up" /\ Fault("flap")
  /\ Send(<<"NotResponding", "Connected">>)
  /\ UNCHANGED <<vpp, link, pc, loop, run, cancelled, status, closed>>

\* The stream may be closed without a word of the VPP that is gone.
GovppEnds ==
  /\ \/ link = "trying" /\ Fault("failed") /\ Send(<<"Failed">>)
     \/ link \in {"trying", "broken"} /\ Fault("closed") /\ Send(<<"closed">>)
  /\ link' = "failed"
  /\ UNCHANGED <<vpp, pc, loop, run, cancelled, status, closed>>

Govpp == GovppConnects \/ GovppNotices

-----------------------------------------------------------------------------
(* Run and watchOnce.                                                      *)

\* AsyncConnect returns at once; a cycle starts with everything as new.
RunCycle ==
  /\ pc = "run" /\ ~cancelled
  /\ \/ link' = "trying" /\ pc' = "select" /\ UNCHANGED budget
     \/ UNCHANGED link /\ pc' = "backoff" /\ Fault("connect")
  /\ connected' = FALSE /\ debounce' = "off" /\ tick' = FALSE
  /\ UNCHANGED <<vpp, events, run, cancelled, status, closed>>

RunStops ==
  /\ pc \in {"run", "backoff"} /\ cancelled
  /\ pc' = "stopped"
  /\ UNCHANGED <<vpp, govpp, loop, run, cancelled, status, closed, budget>>

BackoffEnds ==
  /\ pc = "backoff"
  /\ pc' = "run"
  /\ UNCHANGED <<vpp, govpp, loop, run, cancelled, status, closed, budget>>

\* Mutant: without the deferred Disconnect.
EndCycleConnected ==
  /\ events' = <<>>
  /\ debounce' = "off" /\ tick' = FALSE
  /\ UNCHANGED <<connected, link>>

\* watchOnce returns: the deferred calls disconnect and stop the timers.
EndCycle ==
  /\ link' = "none" /\ events' = <<>>
  /\ debounce' = "off" /\ tick' = FALSE
  /\ UNCHANGED connected

\* Mutant: a break that leaves the select and not the loop.
SelectDoneBreaks == pc = "select" /\ cancelled /\ UNCHANGED vars

SelectDone ==
  /\ pc = "select" /\ cancelled
  /\ pc' = "backoff" /\ EndCycle
  /\ UNCHANGED <<vpp, run, cancelled, status, closed, budget>>

SetConnected(v) == status' = [status EXCEPT !.connected = v]


OnConnectedEvent ==
  /\ connected' = TRUE /\ SetConnected(TRUE)
  /\ debounce' = "armed"

\* Mutant: a debounce that is running goes on.
OnDisconnectedNoStop ==
  /\ connected' = FALSE /\ SetConnected(FALSE)
  /\ UNCHANGED debounce

\* Mutant: the status is left as it was.
OnDisconnectedNoStatus ==
  /\ connected' = FALSE /\ UNCHANGED status
  /\ debounce' = "off"

OnDisconnectedEvent ==
  /\ connected' = FALSE /\ SetConnected(FALSE)
  /\ debounce' = "off"

SelectEvent ==
  /\ pc = "select" /\ events # <<>>
  /\ LET ev == Head(events) IN
     \/ /\ ev \in {"Connected", "Disconnected", "NotResponding"}
        /\ \/ ev = "Connected" /\ OnConnectedEvent
           \/ ev = "Disconnected" /\ OnDisconnectedEvent
           \/ ev = "NotResponding" /\ UNCHANGED <<connected, debounce, status>>
        /\ events' = Tail(events) /\ closed' = FALSE
        /\ UNCHANGED <<pc, link, tick>>
     \/ /\ ev \in {"Failed", "closed"}
        /\ pc' = "backoff" /\ EndCycle
        /\ \/ ev = "Failed" /\ SetConnected(FALSE) /\ closed' = FALSE
           \/ ev = "closed" /\ UNCHANGED status /\ closed' = TRUE
  /\ UNCHANGED <<vpp, run, cancelled, budget>>

SelectDebounce ==
  /\ pc = "select" /\ debounce = "fired"
  /\ debounce' = "off" /\ pc' = "channel"
  /\ UNCHANGED <<vpp, govpp, connected, tick, run, cancelled, status, closed, budget>>

\* Mutant: the ticker's case is empty.
AfterTickIdle == "select"

\* The ticker's case asks whether VPP is connected.
AfterTick == IF connected THEN "channel" ELSE "select"

SelectTick ==
  /\ pc = "select" /\ tick
  /\ tick' = FALSE /\ pc' = AfterTick
  /\ UNCHANGED <<vpp, govpp, connected, debounce, run, cancelled, status, closed, budget>>

DebounceFires ==
  /\ debounce = "armed" /\ debounce' = "fired"
  /\ UNCHANGED <<vpp, govpp, pc, connected, tick, run, cancelled, status, closed, budget>>

\* The ticker runs during a cycle and drops what nobody receives.
TickerTicks ==
  /\ pc \in {"select", "channel", "sync"} /\ ~tick /\ tick' = TRUE
  /\ UNCHANGED <<vpp, govpp, pc, connected, debounce, run, cancelled, status, closed, budget>>

-----------------------------------------------------------------------------
(* onConnected.                                                            *)

\* A channel may be had of a connection that is no longer good.
NewAPIChannel ==
  /\ pc = "channel"
  /\ \/ /\ pc' = "sync" /\ late' = FALSE
        /\ sync' = IF link = "up" /\ ~cancelled THEN "good" ELSE "never"
        /\ UNCHANGED budget
     \/ /\ pc' = "select" /\ UNCHANGED run
        /\ (link # "up" /\ UNCHANGED budget) \/ (link = "up" /\ Fault("channel"))
  /\ UNCHANGED <<vpp, govpp, loop, cancelled, status, closed>>

\* Mutant: an error is recorded, a success is not.
RecordReconcileErrors(ok) == [status EXCEPT !.saw = TRUE, !.ok = @ /\ ok]

RecordReconcile(ok) == [status EXCEPT !.saw = TRUE, !.ok = ok]

(***************************************************************************)
(* Sync returns.  If VPP died under it, it may have had its last reply     *)
(* before that, or an error; if it never had a connection, DumpMasters     *)
(* returns the error of its first request.                                 *)
(***************************************************************************)
SyncReturns ==
  /\ pc = "sync" /\ sync # "hung"
  /\ \/ /\ sync = "good" /\ UNCHANGED budget
        /\ status' = RecordReconcile(TRUE)
        /\ clean' = (clean \/ ~late)
     \/ /\ sync = "died" /\ UNCHANGED <<budget, clean>>
        /\ \E ok \in BOOLEAN : status' = RecordReconcile(ok)
     \/ /\ sync = "never" \/ cancelled
        /\ status' = RecordReconcile(FALSE) /\ UNCHANGED <<budget, clean>>
     \/ /\ sync = "good" /\ Fault("sync")
        /\ status' = RecordReconcile(FALSE) /\ UNCHANGED clean
  /\ sync' = "idle" /\ late' = FALSE
  /\ pc' = "select"
  /\ UNCHANGED <<vppUp, govpp, loop, cancelled, closed>>

(***************************************************************************)
(* VPP died while CreateMaster or DeleteMaster looked something up: the    *)
(* loops of findMemifSocket, findMemifInterface and findMemifSocketCnt end *)
(* at the last reply only, which never comes.  syncReplyTimeout bounds one *)
(* receive, the loops do not look at ctx, and a VPP that is back does not  *)
(* answer the request of before.                                           *)
(***************************************************************************)
SyncHangs ==
  /\ sync = "died" /\ sync' = "hung"
  /\ UNCHANGED <<vpp, govpp, pc, loop, late, cancelled, status, closed, budget>>

-----------------------------------------------------------------------------
(* The process.                                                            *)

\* SIGTERM.
Cancel ==
  /\ ~cancelled /\ cancelled' = TRUE
  /\ UNCHANGED <<vpp, govpp, pc, loop, run, status, closed, budget>>

DaemonRestarts ==
  /\ Fault("restart")
  /\ link' = "none" /\ events' = <<>> /\ pc' = "run"
  /\ connected' = FALSE /\ debounce' = "off" /\ tick' = FALSE
  /\ sync' = "idle" /\ late' = FALSE /\ cancelled' = FALSE
  /\ status' = NoStatus /\ closed' = FALSE
  /\ UNCHANGED vpp

Loop == RunCycle \/ BackoffEnds \/ NewAPIChannel \/ SyncReturns \/ RunStops

Next ==
  \/ VppDies \/ VppStarts \/ Drift
  \/ GovppConnects \/ GovppNotices \/ GovppFlaps \/ GovppEnds
  \/ Loop \/ SelectDone \/ SelectEvent \/ SelectDebounce \/ SelectTick
  \/ DebounceFires \/ TickerTicks \/ SyncHangs
  \/ Cancel \/ DaemonRestarts

Spec == Init /\ [][Next]_vars

(***************************************************************************)
(* Fairness: the goroutine and the timers run, and govpp connects to a VPP *)
(* that is up and notices one that is gone.  The cases of the select need  *)
(* strong fairness, which Go's uniform choice among the ready cases gives  *)
(* with probability one: each is ready again and again, but not while a    *)
(* Sync runs.  A Sync ends unless it hangs, and one that hangs does so     *)
(* until the daemon is restarted, which nothing in the code brings about   *)
(* (/healthz says ok), so no fairness is assumed of that.  Nothing is      *)
(* assumed of VPP.                                                         *)
(***************************************************************************)
Fairness ==
  /\ WF_vars(Loop) /\ WF_vars(Govpp)
  /\ WF_vars(DebounceFires) /\ WF_vars(TickerTicks)
  /\ SF_vars(SelectDone) /\ SF_vars(SelectEvent)
  /\ SF_vars(SelectDebounce) /\ SF_vars(SelectTick)

FairSpec == Spec /\ Fairness

-----------------------------------------------------------------------------
(* Properties.                                                             *)

\* ready.
Ready == status.connected /\ (status.saw => status.ok)

(***************************************************************************)
(* No Sync begins while the last thing the daemon heard of VPP is that it  *)
(* is disconnected, in this cycle or at the end of the one before: neither *)
(* a debounce that was running then nor the ticker starts one.             *)
(***************************************************************************)
SyncOnlyConnected == pc \in {"channel", "sync"} => connected

Hung == sync = "hung"

(***************************************************************************)
(* VPP is reconciled again and again as long as it stays up and no Sync    *)
(* hangs: what the restore daemon's convergence rests on (WF of SyncList). *)
(***************************************************************************)
SyncsForever == <>[](vppUp /\ ~cancelled /\ ~Hung) => []<>(sync = "good")


(***************************************************************************)
(* A VPP that stays down is reported: /readyz does not go on saying that   *)
(* VPP is connected, unless govpp closed its event stream, after which the *)
(* old status stays until the next event, or the Sync hangs, after which   *)
(* no event is read.                                                       *)
(***************************************************************************)
DownIsReported == ~vppUp ~> vppUp \/ ~Ready \/ cancelled \/ closed \/ Hung

(***************************************************************************)
(* A VPP that stays up is reported ready, however many Syncs failed.       *)
(***************************************************************************)
UpIsReported == vppUp ~> ~vppUp \/ Ready \/ cancelled \/ Hung

(***************************************************************************)
(* The daemon stops when it is told to, whatever else is ready, unless its *)
(* Sync hangs: SIGTERM only cancels the context.                           *)
(***************************************************************************)
StopsWhenCancelled == cancelled ~> pc = "stopped" \/ ~cancelled \/ Hung

(***************************************************************************)
(* What the comment of Run says: the daemon "re-asserts this node's memif  *)
(* masters on every (re)connect, until ctx is cancelled".                  *)
(***************************************************************************)
ReassertsOnConnect ==
  link = "up" ~> sync = "good" \/ link # "up" \/ cancelled
=============================================================================
