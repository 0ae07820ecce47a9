--------------------------- MODULE RestoreDaemon ---------------------------
(***************************************************************************)
(* The per-node restore daemon of pkg/daemon beside the CNI plugin: one    *)
(* Sync at a time lists the node's pods, dumps the memif masters of VPP,   *)
(* creates the missing ones, deletes orphans and sweeps socket files,      *)
(* while ADD and DEL (MemifLifecycle), VPP crashes and the deletion of     *)
(* pods go on between any two of its steps.  The socket table of VPP is    *)
(* CniVpp's; here only the names a dump gives to the memifs matter.        *)
(***************************************************************************)
EXTENDS MemifLifecycle

CONSTANTS
  PodOf,        \* the pod of each attachment
  Volume,       \* the attachments whose pod has a shared-dir volume
  DirOf,        \* the directory of the socket file of each attachment
  Grace,        \* Reconciler.Grace
  Assumed,      \* what is assumed of the environment, of:
                \*   "nad"    a NAD can always be read
                \*   "apart"  no ADD is in flight across two Syncs
                \*   "fresh"  no index and no socket id is reused during a Sync
                \*   "dump"   no socket is registered and used between the two
                \*            dumps of DumpMasters
                \*   "pod"    CNI DEL and ADD can read the pod
                \*   "wire"   CreateMaster ends well once the memif exists
  MaxFaults     \* crashes, restarts, failed lists and requests (a bound)

Pod == {PodOf[a] : a \in Att}

ASSUME DaemonAssumption ==
  /\ Volume \subseteq Att
  /\ Grace \in Nat
  /\ Assumed \subseteq {"nad", "apart", "fresh", "dump", "pod", "wire"}
  /\ MaxFaults \in Nat

VARIABLES
  host,     \* the attachments whose memif is a master on the host side
  old,      \* the socket files older than orphanSocketMinAge
  pods,     \* the pods the API server has for this node
  annot,    \* the attachments in their pod's configuration-data annotation
  dpc,      \* where Sync stands
  desired,  \* the desired masters of this Sync
  listed,   \* the sockets it dumped
  actual,   \* the masters it dumped
  name,     \* the socket each of them was dumped with: {} is ""
  same,     \* <<a, b>>: the index it has for a is now that of b's memif
  toCreate, \* what Diff found missing and is not created yet
  toDelete, \* the orphans it found and has not looked at yet
  cur,      \* the master being created or deleted
  streak,   \* orphanSeen[...].count
  last,     \* orphanSeen[...].lastRound: "this" round, the one "before", "old"
  during,   \* the ADDs in flight that were so when the last Sync dumped
  budget    \* faults that may still happen

dump == <<listed, actual, name>>
work == <<toCreate, toDelete, cur>>
sync == <<desired, dump, same, work>>
seenVars == <<streak, last>>
kube == <<pods, annot>>
daemonVars == <<dpc, sync, seenVars, during>>
vars == <<lifeVars, host, old, kube, daemonVars, budget>>

Present(a) == mem[a] # "absent"

\* A socket name in a dump: that of an attachment's socket, or none.
SocketName == {{}} \union {{a} : a \in Att}

TypeOK ==
  /\ LifeTypeOK
  /\ host \subseteq Att
  /\ old \subseteq file
  /\ pods \subseteq Pod
  /\ annot \subseteq Att
  /\ dpc \in {"idle", "sockets", "dump", "loop", "wire", "delete", "remove", "hung"}
  /\ desired \subseteq Att
  /\ listed \subseteq Att
  /\ actual \subseteq Att
  /\ name \in [Att -> SocketName]
  /\ same \subseteq Att \X Att
  /\ toCreate \subseteq Att /\ toDelete \subseteq Att
  /\ cur \subseteq Att
  /\ streak \in [Att -> 0..Grace]
  /\ last \in [Att -> {"this", "before", "old"}]
  /\ during \subseteq Att
  /\ budget \in 0..MaxFaults

Init ==
  /\ LifeInit
  /\ host = {}
  /\ old = {}
  /\ pods = Pod
  /\ annot = {}
  /\ dpc = "idle"
  /\ desired = {} /\ listed = {} /\ actual = {} /\ name = [a \in Att |-> {}] /\ same = {}
  /\ toCreate = {} /\ toDelete = {} /\ cur = {}
  /\ streak = [a \in Att |-> 0]
  /\ last = [a \in Att |-> "old"]
  /\ during = {}
  /\ budget = MaxFaults

Fault == budget > 0 /\ budget' = budget - 1

-----------------------------------------------------------------------------
(* CNI, with what the lifecycle leaves out: indexes, file ages and the     *)
(* annotation.                                                             *)

(***************************************************************************)
(* Sync goes by the index of a master it dumped or has just created, so    *)
(* all that matters of indexes is which memif now has one that it holds:   *)
(* that master, nobody after it is deleted, or a new memif VPP gave the    *)
(* freed index.                                                            *)
(***************************************************************************)
FreeHeld == {a \in actual \union cur : \A b \in Att : <<a, b>> \notin same}

Reuse(b) ==
  {{}} \union (IF "fresh" \in Assumed THEN {} ELSE {{<<a, b>>} : a \in FreeHeld})

Appears(b) ==
  /\ "dump" \in Assumed /\ dpc = "dump" => b \in listed
  /\ host' = IF b \in Listen THEN host \union {b} ELSE host
  /\ \E d \in Reuse(b) : same' = same \union d

Vanish(gone) ==
  /\ host' = host \ gone
  /\ same' = {d \in same : d[2] \notin gone}

\* AddOnContainer appends to the annotation; nothing ever takes an entry out.
CniStep(a) ==
  /\ Cni(a)
  /\ \/ Present(a) = Present(a)' /\ UNCHANGED <<host, same>>
     \/ ~Present(a) /\ Present(a)' /\ Appears(a)
     \/ Present(a) /\ ~Present(a)' /\ Vanish({a})
  /\ old' = old \intersect file'
  /\ st[a] = "none" \/ st'[a] = "added" => PodOf[a] \in pods
  /\ st[a] # "deleted"
  /\ "pod" \in Assumed => ~blind'
  /\ annot' = IF st'[a] = "added" THEN annot \union {a} ELSE annot
  /\ during' = {b \in during : st'[b] \in Adding}
  /\ UNCHANGED <<pods, dpc, desired, dump, work, seenVars, budget>>

VppCrash ==
  /\ Crash /\ Fault
  /\ Vanish(Att)
  /\ UNCHANGED <<old, kube, dpc, desired, dump, work, seenVars, during>>

VppRestart == Restart /\ UNCHANGED <<host, old, kube, daemonVars, budget>>

\* Only between Syncs: a Sync is assumed shorter than orphanSocketMinAge.
FileAges(a) ==
  /\ a \in file \ old /\ dpc = "idle"
  /\ old' = old \union {a}
  /\ UNCHANGED <<lifeVars, host, kube, daemonVars, budget>>

\* The pod object goes, and with it its annotation, whatever CNI DEL achieved.
PodDeleted(p) ==
  /\ p \in pods
  /\ pods' = pods \ {p}
  /\ annot' = {a \in annot : PodOf[a] # p}
  /\ UNCHANGED <<lifeVars, host, old, daemonVars, budget>>

-----------------------------------------------------------------------------
(* Sync.                                                                   *)

\* What a Sync held is gone.
Ends(where) ==
  /\ dpc' = where
  /\ desired' = {} /\ listed' = {} /\ actual' = {} /\ name' = [a \in Att |-> {}] /\ same' = {}
  /\ toCreate' = {} /\ toDelete' = {} /\ cur' = {}

Return == Ends("idle")

\* A lookup over a connection that is gone never returns, as in CniVpp: its loop
\* ends at the last reply only.  Nothing but a restart of the daemon ends it.
Hang == ~vppUp /\ Ends("hung")

\* A record two rounds old counts for nothing any more (Count).
NewRound ==
  /\ last' = [a \in Att |-> IF last[a] = "this" THEN "before" ELSE "old"]
  /\ streak' = [a \in Att |-> IF last[a] = "this" THEN streak[a] ELSE 0]

InFlight(a) == st[a] \in Adding

\* desiredForPod for each listed pod; one whose NAD cannot be read is skipped.
DesiredOf(skipped) ==
  {a \in annot \intersect Volume : PodOf[a] \in pods \ skipped}

SyncList ==
  /\ dpc = "idle"
  /\ vppUp
  /\ "apart" \in Assumed => during = {}
  /\ NewRound
  /\ \/ /\ \/ desired' = DesiredOf({}) /\ UNCHANGED budget
           \/ /\ "nad" \notin Assumed /\ Fault
              /\ \E p \in pods : desired' = DesiredOf({p})
        /\ dpc' = "sockets" /\ UNCHANGED <<dump, same, work>>
     \/ Fault /\ Return
  /\ UNCHANGED <<lifeVars, host, old, kube, during>>

\* A dump fails on a dead connection or a time-out.
DumpFails ==
  /\ (~vppUp /\ UNCHANGED budget) \/ (vppUp /\ Fault)
  /\ Return

\* dumpSockets: the socket of every memif, and of ADDs and DELs half way.
SyncDumpSockets ==
  /\ dpc = "sockets"
  /\ \/ /\ vppUp
        /\ \E half \in SUBSET {a \in Att : st[a] \notin {"none", "deleted"}} :
             listed' = {a \in Att : Present(a)} \union half
        /\ dpc' = "dump" /\ UNCHANGED <<desired, actual, name, same, work, budget>>
     \/ DumpFails
  /\ UNCHANGED <<lifeVars, host, old, kube, seenVars, during>>

(***************************************************************************)
(* The socket name of a dumped memif is what the first dump had under its  *)
(* socket id: its own; none, if the socket was registered since; or that   *)
(* of a socket that was deleted since, by a DEL or with its VPP, whose id  *)
(* it was given.                                                           *)
(***************************************************************************)
FreedSocket(d) ==
  ~Present(d) /\ (~fresh[d] \/ st[d] \in Deleting \union {"deleted", "delFailed"})

NamesOf(b) ==
  IF b \in listed THEN {{b}}
  ELSE {{}} \union (IF "fresh" \in Assumed THEN {}
                   ELSE {{d} : d \in {c \in listed : FreedSocket(c)}})

\* Mutant: a master whose socket file exists is taken to be there.
ToCreateNoFile(want, have) == want \ (have \union file)

\* Diff.
ToCreate(want, have) == want \ have

ToDelete(want, masters, names) == {a \in masters : names[a] \intersect want = {}}

\* The rest of DumpMasters, and Diff.
SyncDump ==
  /\ dpc = "dump"
  /\ \/ /\ vppUp
        /\ actual' = host
        /\ name' \in [Att -> SocketName]
        /\ \A a \in Att : IF a \in host THEN name'[a] \in NamesOf(a) ELSE name'[a] = {}
        /\ \A a, b \in host : a # b => name'[a] \intersect name'[b] = {}
        /\ same' = {<<a, a>> : a \in host}
        /\ toCreate' = ToCreate(desired, UNION {name'[a] : a \in host})
        /\ toDelete' = ToDelete(desired, host, name')
        /\ during' = {a \in Att : InFlight(a) /\ "apart" \in Assumed}
        /\ listed' = {}
        /\ dpc' = "loop" /\ UNCHANGED <<desired, cur, budget>>
     \/ DumpFails /\ UNCHANGED during
  /\ UNCHANGED <<lifeVars, host, old, kube, seenVars>>

\* CreateMaster, up to the interface: VPP refuses a second memif on a socket.
SyncCreate ==
  /\ dpc = "loop"
  /\ \E a \in toCreate :
       \/ /\ vppUp /\ ~Present(a)
          /\ Mem(a, "bare")
          /\ host' = host \union {a}
          /\ \E d \in Reuse(a) : same' = same \union d \union {<<a, a>>}
          /\ file' = file \union {a}
          /\ toCreate' = toCreate \ {a} /\ cur' = {a}
          /\ dpc' = "wire" /\ UNCHANGED <<desired, dump, toDelete, budget>>
       \/ /\ \/ Return /\ (~vppUp \/ Present(a)) /\ UNCHANGED budget
             \/ Return /\ vppUp /\ ~Present(a) /\ Fault
             \/ Hang /\ UNCHANGED budget
          /\ UNCHANGED <<mem, host, file>>
  /\ UNCHANGED <<vppUp, st, fresh, blind, old, kube, seenVars, during>>

(***************************************************************************)
(* The rest of CreateMaster: up, MTU, bridge, all by the index of the new  *)
(* memif.  If a DEL removed it and the index is another's by now, that one *)
(* is brought up and put into the bridge of a, which may be its own or not.*)
(***************************************************************************)
SyncWire ==
  /\ dpc = "wire"
  /\ \E a \in cur :
       \/ /\ vppUp
          /\ \E b \in Att :
               /\ <<a, b>> \in same
               /\ \E m \in IF b = a THEN {"wired"} ELSE {"bare", "wired"} : Mem(b, m)
          /\ cur' = {} /\ same' = {d \in same : d[1] # a}
          /\ dpc' = "loop" /\ UNCHANGED <<desired, dump, toCreate, toDelete, budget>>
       \/ /\ \/ (~vppUp \/ \A b \in Att : <<a, b>> \notin same) /\ UNCHANGED budget
             \/ "wire" \notin Assumed /\ Fault
          /\ Return /\ UNCHANGED mem
  /\ UNCHANGED <<vppUp, st, file, fresh, blind, host, old, kube, seenVars, during>>

\* Mutant: the last round is compared with this one.
CountThis(s) == IF last[s] = "this" THEN streak[s] + 1 ELSE 1

\* How many rounds in a row the socket s has been an orphan.
Count(s) == IF last[s] = "before" THEN streak[s] + 1 ELSE 1

\* os.Stat of "" fails as that of a file that is gone does.
SocketGone(a) == name[a] \intersect file = {}

\* Mutant: one round too early.
ShouldGCEarly(a) ==
  SocketGone(a) \/ (Grace > 0 /\ \A s \in name[a] : Count(s) >= Grace - 1)

\* Mutant: without the early return for a grace period of 0.
ShouldGCUngated(a) == SocketGone(a) \/ \A s \in name[a] : Count(s) >= Grace

\* Mutant: the grace period is not looked at.
ShouldGCNever(a) == SocketGone(a)

ShouldGC(a) ==
  SocketGone(a) \/ (Grace > 0 /\ \A s \in name[a] : Count(s) >= Grace)

SyncGC ==
  /\ dpc = "loop" /\ toCreate = {}
  /\ \E a \in toDelete :
       /\ toDelete' = toDelete \ {a}
       /\ \/ /\ ShouldGC(a)
             /\ streak' = [s \in Att |-> IF s \in name[a] THEN 0 ELSE streak[s]]
             /\ last' = [s \in Att |-> IF s \in name[a] THEN "old" ELSE last[s]]
             /\ cur' = {a} /\ dpc' = "delete"
          \/ /\ ~ShouldGC(a)
             /\ \/ Grace = 0 /\ UNCHANGED seenVars
                \/ /\ Grace > 0
                   /\ streak' = [s \in Att |-> IF s \in name[a] THEN Count(s) ELSE streak[s]]
                   /\ last' = [s \in Att |-> IF s \in name[a] THEN "this" ELSE last[s]]
             /\ UNCHANGED <<cur, dpc>>
  /\ UNCHANGED <<lifeVars, host, old, kube, desired, dump, same, toCreate, during, budget>>

\* DeleteMaster deletes whichever memif now has the index it dumped.  An error,
\* which may come after the deletion, ends the Sync.
SyncDelete ==
  /\ dpc = "delete"
  /\ \E a \in cur :
       LET hit == {b \in Att : <<a, b>> \in same} IN
       \/ /\ vppUp
          /\ mem' = [b \in Att |-> IF b \in hit THEN "absent" ELSE mem[b]]
          /\ host' = host \ hit
          /\ \/ /\ same' = {d \in same : d[2] \notin hit}
                /\ dpc' = "remove" /\ UNCHANGED <<desired, dump, work, budget>>
             \/ hit # {} /\ Fault /\ Return
       \/ /\ \/ Return /\ ~vppUp /\ UNCHANGED budget
             \/ Return /\ vppUp /\ hit # {} /\ Fault
             \/ Hang /\ UNCHANGED budget
          /\ UNCHANGED <<mem, host>>
  /\ UNCHANGED <<vppUp, st, file, fresh, blind, old, kube, seenVars, during>>

SyncRemove ==
  /\ dpc = "remove"
  /\ LET gone == UNION {name[a] : a \in cur} IN
     /\ file' = file \ gone
     /\ old' = old \ gone
  /\ cur' = {} /\ dpc' = "loop"
  /\ UNCHANGED <<vppUp, st, mem, host, fresh, blind, kube, desired, dump, same, toCreate,
                 toDelete, seenVars, during, budget>>

\* Mutant: a file is swept whatever its age.
SweptYoung(keep) ==
  {a \in file \ keep : \E b \in keep : DirOf[a] = DirOf[b]}

\* SweepOrphanSockets, in the directories that hold a socket to keep.
Swept(keep) ==
  {a \in old \ keep : \E b \in keep : DirOf[a] = DirOf[b]}

SyncSweep ==
  /\ dpc = "loop" /\ toCreate = {} /\ toDelete = {}
  /\ LET swept == Swept(desired \union UNION {name[a] : a \in actual}) IN
     /\ file' = file \ swept
     /\ old' = old \ swept
  /\ Return
  /\ UNCHANGED <<vppUp, st, mem, host, fresh, blind, kube, seenVars, during, budget>>

\* The daemon's container is restarted, and orphanSeen is lost with it.
DaemonRestarts ==
  /\ (dpc = "hung" /\ UNCHANGED budget) \/ Fault
  /\ "wire" \in Assumed => dpc # "wire"
  /\ Return
  /\ streak' = [a \in Att |-> 0]
  /\ last' = [a \in Att |-> "old"]
  /\ UNCHANGED <<lifeVars, host, old, kube, during>>

SyncStep ==
  \/ SyncDumpSockets \/ SyncDump \/ SyncCreate \/ SyncWire
  \/ SyncGC \/ SyncDelete \/ SyncRemove \/ SyncSweep

Next ==
  \/ \E a \in Att : CniStep(a) \/ FileAges(a)
  \/ \E p \in Pod : PodDeleted(p)
  \/ VppCrash \/ VppRestart \/ DaemonRestarts
  \/ SyncList \/ SyncStep

Spec == Init /\ [][Next]_vars

(***************************************************************************)
(* Fairness: Run calls Sync on every connect and every reconcilePeriod,    *)
(* and a Sync goes on until it returns or hangs; VPP is restarted by its   *)
(* supervisor; an ADD in flight ends.  Nothing is assumed of DEL, nor that *)
(* somebody restarts a daemon that hangs.                                  *)
(***************************************************************************)
Fairness ==
  /\ WF_vars(SyncList) /\ WF_vars(SyncStep) /\ WF_vars(VppRestart)
  /\ \A a \in Att : WF_vars(InFlight(a) /\ CniStep(a))

FairSpec == Spec /\ Fairness

-----------------------------------------------------------------------------
(* Properties.                                                             *)

Live(a) == PodOf[a] \in pods /\ st[a] \in Adding \union {"added"}

(***************************************************************************)
(* No step of a Sync takes the memif or the socket file of a live pod, an  *)
(* ADD in flight included: "in-flight creations are not mistaken for       *)
(* orphans", and a live pod's memif "is never GC'd".                       *)
(***************************************************************************)
GcSparesLive ==
  [][dpc' # dpc =>
       \A a \in Att : Live(a) /\ Present(a) =>
         Present(a)' /\ (a \in file => a \in file')]_vars

(***************************************************************************)
(* Without a grace period the decision to collect a master that was dumped *)
(* under its own name needs no assumption: a live pod "keeps its socket    *)
(* file, so its memif is never GC'd", even if its NAD was unreadable, its  *)
(* ADD is slow, CNI was blind to the pod or VPP gave its index to another  *)
(* memif.  A master dumped without a name is collected at once.            *)
(***************************************************************************)
GcPicksDead ==
  [][dpc = "loop" /\ dpc' = "delete" =>
       \A a \in cur' : name[a] = {a} => ~Live(a)]_vars

(***************************************************************************)
(* A memif in VPP always has its socket file as long as CNI has not begun  *)
(* to delete it, whatever the daemon did meanwhile: the premise under      *)
(* which SocketGone means "CNI has fully torn the memif down".             *)
(***************************************************************************)
SocketMarksMemif ==
  \A a \in Att :
    a \in host /\ st[a] \in Adding \union {"added", "addFailed"} => a \in file

\* No Sync waits for ever, or the daemon is restarted when one does.
NeverHungForGood == []<>(dpc # "hung")

(***************************************************************************)
(* After a VPP restart the daemon re-asserts the memif of every live pod,  *)
(* as long as it does not hang for good.                                   *)
(***************************************************************************)
RestoreConverges ==
  NeverHungForGood =>
    \A a \in Volume :
      Live(a) /\ st[a] = "added" ~> mem[a] = "wired" \/ ~(Live(a) /\ st[a] = "added")

(***************************************************************************)
(* A memif whose pod is gone is reclaimed, even when CNI DEL never ran or  *)
(* ended without finding it, as long as the daemon does not hang for good. *)
(***************************************************************************)
OrphanReclaimed ==
  NeverHungForGood =>
    \A a \in Att : PodOf[a] \notin pods /\ ~InFlight(a) ~> ~Present(a)
=============================================================================
