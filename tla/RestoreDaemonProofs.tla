------------------------ MODULE RestoreDaemonProofs ------------------------
(***************************************************************************)
(* What the restore daemon may take, for any number of attachments, any    *)
(* grace period and any number of faults.                                  *)
(***************************************************************************)
EXTENDS RestoreDaemon, MemifLifecycleProofs

Still == {"idle", "hung"}
Early == {"idle", "hung", "sockets", "dump"}

\* Stages in which CNI has not begun to delete.
Kept == Adding \union {"added", "addFailed"}

-----------------------------------------------------------------------------
(* The inductive invariant.                                                *)

\* Before the memif of its ADD there is no trace of an attachment.
Untouched ==
  \A a \in Att : st[a] \in {"none", "adding"} =>
    /\ mem[a] = "absent"
    /\ a \notin host \union file \union annot \union desired \union actual

\* Which sets a Sync holds at each of its steps.
Phase ==
  /\ dpc \in Still => desired = {}
  /\ dpc \in Early => actual = {} /\ toCreate = {} /\ toDelete = {}
  /\ dpc \notin {"wire", "delete", "remove"} => cur = {}
  /\ \A a, b \in cur : a = b
  /\ toCreate \intersect actual = {} /\ toCreate \subseteq desired
  /\ dpc = "wire" => cur \intersect actual = {} /\ cur \subseteq desired
  /\ toDelete \subseteq actual
  /\ dpc \in {"delete", "remove"} => cur \subseteq actual /\ cur \intersect toDelete = {}

\* No two masters were dumped with one socket name.
Named == \A a, b \in actual : a # b => name[a] \intersect name[b] = {}

\* Orphans are not desired by the name they were dumped with.
Unwanted ==
  /\ \A a \in toDelete : name[a] \intersect desired = {}
  /\ dpc \in {"delete", "remove"} => \A a \in cur : name[a] \intersect desired = {}

\* What the second dump needs of the first: what is desired, and what is old
\* enough to be swept, was registered before it.
ListedKeeps ==
  /\ dpc = "dump" => host \intersect (old \union desired) \subseteq listed
  /\ \A a \in listed : st[a] # "none"

\* No memif of CNI's will ever be on the socket of s again.
Lost(s) ==
  \/ st[s] \notin Kept \union {"none"}
  \/ st[s] \in Kept /\ ~fresh[s] /\ s \notin host

\* A master dumped with a name that is not its own has that of a lost socket.
Foreign ==
  \A a \in actual : \A s \in name[a] : s = a \/ s \in desired \/ Lost(s)

\* A master of VPP has its socket file until CNI deletes it.
Marked == \A a \in host : Present(a) /\ (st[a] \in Kept => a \in file)

\* So has an orphan the Sync has yet to look at, even if VPP has crashed since.
DumpMarked == \A a \in toDelete : name[a] = {a} /\ st[a] \in Kept => a \in file

\* A dumped master that is still there is the one with the dumped index.
Indexed == \A a \in actual \intersect host : <<a, a>> \in same

\* An index in use is that of a memif.
SamePresent == \A a, b \in Att : <<a, b>> \in same => Present(b)

\* The master being collected is gone when its file is removed.
Collected == dpc = "remove" => cur \intersect host = {}

\* The socket names of the masters the Sync dumped.
DumpedNames == UNION {name[a] : a \in actual}

\* A file that could be swept belongs to no master outside the set kept.
SweepKeeps == dpc \notin Early => host \intersect old \subseteq DumpedNames \union desired

IInv ==
  /\ TypeOK /\ Untouched /\ Phase /\ Named /\ Unwanted /\ ListedKeeps /\ Foreign
  /\ Marked /\ DumpMarked /\ Indexed /\ SamePresent /\ Collected /\ SweepKeeps

-----------------------------------------------------------------------------
(* For the collector: what a second round knows.                           *)

\* The memif of an attachment that is no master has no socket file.
Slaves == \A a \in Att \ host : Present(a) => a \notin file

Annotated == \A a \in Att : st[a] = "added" /\ PodOf[a] \in pods => a \in annot

\* Every master is dumped with its own name.
OwnNames ==
  /\ dpc = "dump" => host \subseteq listed
  /\ \A a \in actual : name[a] = {a}

\* An ADD in flight that was dumped was so at the dump.
Noticed ==
  /\ \A a \in actual : InFlight(a) => a \in during
  /\ \A a \in Att : last[a] # "old" => st[a] # "none"
  /\ \A a \in Att : last[a] = "this" /\ InFlight(a) => a \in during
  /\ \A a \in Att : last[a] = "before" => ~InFlight(a)

SecondRound ==
  dpc \notin Still => \A a \in Att : last[a] = "before" /\ Live(a) => a \in desired

Doomed == dpc \in {"delete", "remove"} => \A a \in cur : ~Live(a)

\* The dumped indexes are those of the dumped memifs.
Own == \A a, b \in Att : <<a, b>> \in same => a = b

GInv ==
  IInv /\ Slaves /\ Annotated /\ OwnNames /\ Noticed /\ SecondRound /\ Doomed /\ Own

-----------------------------------------------------------------------------
(* CNI, as the daemon sees it.                                             *)

\* Everything the invariants need to know of a step of CNI for a.
CniEffect(a) ==
  /\ LifeTypeOK' /\ Apart(a)
  /\ st'[a] # "none"
  /\ st'[a] = "adding" => st[a] = "none" /\ mem' = mem /\ file' = file
  /\ st'[a] \in Kept => st[a] \in Kept \union {"none"} /\ file \subseteq file'
  /\ st'[a] \in Kept /\ st[a] \in Kept => fresh'[a] = fresh[a]
  /\ st'[a] \in Adding => st[a] \in Adding \union {"none"}
  /\ st'[a] = "added" => st[a] = "configured"
  /\ mem[a] = "absent" /\ mem'[a] # "absent" =>
       st[a] = "adding" /\ fresh[a] /\ (a \in Listen => a \in file')
  /\ a \in file' \ file => st[a] = "adding" /\ a \in Listen /\ mem'[a] # "absent"
  /\ file' \subseteq file \union {a}

LEMMA CniEffects ==
  ASSUME LifeTypeOK, NEW a \in Att, Cni(a), st[a] # "deleted"
  PROVE  CniEffect(a)
<1>1. LifeTypeOK' /\ Apart(a)
  BY CniType
<1> USE DEF LifeTypeOK, To, Mem, Adding, Deleting, Kept, CniEffect
<1>2. CASE AddBegin(a) \/ AddFail(a)
  BY <1>1, <1>2 DEF AddBegin, AddFail
<1>3. CASE AddCreate(a)
  BY <1>1, <1>3 DEF AddCreate
<1>4. CASE AddWire(a) \/ AddConfigured(a) \/ AddDone(a)
  BY <1>1, <1>4 DEF AddWire, AddConfigured, AddDone
<1>5. CASE DelBegin(a) \/ DelFail(a)
  BY <1>1, <1>5 DEF DelBegin, DelFail
<1>6. CASE DelUnwire(a) \/ DelRemove(a) \/ DelMiss(a)
  BY <1>1, <1>6 DEF DelUnwire, DelRemove, DelMiss
<1>7. CASE DelClean(a) \/ DelDone(a)
  BY <1>1, <1>7 DEF DelClean, DelDone
<1> QED
  BY <1>2, <1>3, <1>4, <1>5, <1>6, <1>7 DEF Cni

-----------------------------------------------------------------------------
(* Type correctness.                                                       *)

LEMMA LifeKept == LifeTypeOK /\ UNCHANGED lifeVars => LifeTypeOK'
BY DEF LifeTypeOK, lifeVars

LEMMA FaultType ==
  ASSUME budget \in 0..MaxFaults, Fault \/ UNCHANGED budget
  PROVE  budget' \in 0..MaxFaults
BY DaemonAssumption DEF Fault

\* What a Sync holds is of its type.
SyncTypeOK ==
  /\ dpc \in {"idle", "sockets", "dump", "loop", "wire", "delete", "remove", "hung"}
  /\ desired \subseteq Att
  /\ listed \subseteq Att
  /\ actual \subseteq Att
  /\ name \in [Att -> SocketName]
  /\ same \subseteq Att \X Att
  /\ toCreate \subseteq Att /\ toDelete \subseteq Att
  /\ cur \subseteq Att

LEMMA TypeParts ==
  /\ TypeOK =>
       /\ LifeTypeOK /\ SyncTypeOK
       /\ host \subseteq Att /\ old \subseteq file /\ pods \subseteq Pod
       /\ annot \subseteq Att /\ during \subseteq Att
       /\ streak \in [Att -> 0..Grace] /\ last \in [Att -> {"this", "before", "old"}]
       /\ budget \in 0..MaxFaults
  /\ TypeOK' <=>
       /\ LifeTypeOK' /\ SyncTypeOK'
       /\ host' \subseteq Att /\ old' \subseteq file' /\ pods' \subseteq Pod
       /\ annot' \subseteq Att /\ during' \subseteq Att
       /\ streak' \in [Att -> 0..Grace] /\ last' \in [Att -> {"this", "before", "old"}]
       /\ budget' \in 0..MaxFaults
BY Zenon DEF TypeOK, SyncTypeOK

LEMMA EndsType ==
  ASSUME Ends("idle") \/ Ends("hung")
  PROVE  SyncTypeOK'
BY DEF Ends, SyncTypeOK, SocketName

LEMMA ReuseType ==
  ASSUME TypeOK, NEW b \in Att, NEW d \in Reuse(b)
  PROVE  d \subseteq Att \X Att
BY DEF Reuse, FreeHeld, TypeOK

LEMMA CniStepType ==
  ASSUME TypeOK, NEW a \in Att, CniStep(a)
  PROVE  TypeOK'
<1> USE TypeParts
<1>1. CniEffect(a)
  BY CniEffects DEF CniStep
<1>2. host' \subseteq Att /\ same' \subseteq Att \X Att
  <2>1. CASE Appears(a)
    BY <2>1, ReuseType DEF Appears, TypeOK
  <2>2. CASE ~Appears(a)
    BY <2>2 DEF CniStep, Vanish, SyncTypeOK
  <2> QED
    BY <2>1, <2>2
<1>3. old' \subseteq file' /\ annot' \subseteq Att /\ during' \subseteq Att
  BY DEF CniStep
<1>4. LifeTypeOK'
  BY <1>1 DEF CniEffect
<1>5. SyncTypeOK'
  BY <1>2 DEF CniStep, dump, work, SyncTypeOK
<1> QED
  BY <1>2, <1>3, <1>4, <1>5 DEF CniStep, seenVars

LEMMA OtherType ==
  ASSUME TypeOK,
         VppCrash \/ VppRestart \/ (\E a \in Att : FileAges(a))
           \/ (\E p \in Pod : PodDeleted(p)) \/ UNCHANGED vars
  PROVE  TypeOK'
<1> USE TypeParts
<1>1. CASE VppCrash
  <2>1. LifeTypeOK'
    BY <1>1 DEF VppCrash, Crash, LifeTypeOK
  <2>2. budget' \in 0..MaxFaults
    BY <1>1, FaultType DEF VppCrash
  <2>3. SyncTypeOK'
    BY <1>1 DEF VppCrash, Vanish, dump, work, SyncTypeOK
  <2> QED
    BY <1>1, <2>1, <2>2, <2>3 DEF VppCrash, Crash, Vanish, kube, seenVars
<1>2. CASE VppRestart
  <2>1. LifeTypeOK'
    BY <1>2 DEF VppRestart, Restart, LifeTypeOK
  <2>2. SyncTypeOK'
    BY <1>2 DEF VppRestart, daemonVars, sync, dump, work, SyncTypeOK
  <2> QED
    BY <1>2, <2>1, <2>2 DEF VppRestart, Restart, kube, daemonVars, seenVars
<1>3. CASE \E a \in Att : FileAges(a)
  <2>1. SyncTypeOK'
    BY <1>3 DEF FileAges, daemonVars, sync, dump, work, SyncTypeOK
  <2> QED
    BY <1>3, <2>1, LifeKept DEF FileAges, lifeVars, kube, daemonVars, seenVars
<1>4. CASE \E p \in Pod : PodDeleted(p)
  <2>1. SyncTypeOK'
    BY <1>4 DEF PodDeleted, daemonVars, sync, dump, work, SyncTypeOK
  <2> QED
    BY <1>4, <2>1, LifeKept DEF PodDeleted, lifeVars, daemonVars, seenVars
<1>5. CASE UNCHANGED vars
  <2>1. SyncTypeOK'
    BY <1>5 DEF vars, daemonVars, sync, dump, work, SyncTypeOK
  <2> QED
    BY <1>5, <2>1, LifeKept DEF vars, lifeVars, kube, daemonVars, seenVars
<1> QED
  BY <1>1, <1>2, <1>3, <1>4, <1>5

LEMMA SyncType ==
  ASSUME TypeOK, SyncList \/ SyncStep \/ DaemonRestarts
  PROVE  TypeOK'
<1> USE TypeParts, EndsType DEF Return, Hang, kube, seenVars, dump, work
<1>1. CASE SyncList
  <2>1. budget' \in 0..MaxFaults
    BY <1>1, FaultType DEF SyncList
  <2>2. streak' \in [Att -> 0..Grace] /\ last' \in [Att -> {"this", "before", "old"}]
    BY <1>1, DaemonAssumption DEF SyncList, NewRound
  <2>3. SyncTypeOK'
    BY <1>1 DEF SyncList, DesiredOf, SyncTypeOK
  <2> QED
    BY <1>1, <2>1, <2>2, <2>3, LifeKept DEF SyncList, lifeVars
<1>2. CASE SyncDumpSockets
  <2>1. budget' \in 0..MaxFaults
    BY <1>2, FaultType DEF SyncDumpSockets, DumpFails
  <2>2. SyncTypeOK'
    BY <1>2 DEF SyncDumpSockets, DumpFails, SyncTypeOK
  <2> QED
    BY <1>2, <2>1, <2>2, LifeKept DEF SyncDumpSockets, lifeVars
<1>3. CASE SyncDump
  <2>1. budget' \in 0..MaxFaults
    BY <1>3, FaultType DEF SyncDump, DumpFails
  <2>2. SyncTypeOK'
    <3>1. CASE Ends("idle")
      BY <3>1
    <3>2. CASE ~Ends("idle")
      <4>1. name' \in [Att -> SocketName]
        BY <1>3, <3>2 DEF SyncDump, DumpFails
      <4> QED
        BY <1>3, <3>2, <4>1 DEF SyncDump, DumpFails, ToCreate, ToDelete, SyncTypeOK
    <3> QED
      BY <3>1, <3>2
  <2>3. during' \subseteq Att
    BY <1>3 DEF SyncDump
  <2> QED
    BY <1>3, <2>1, <2>2, <2>3, LifeKept DEF SyncDump, lifeVars
<1>4. CASE SyncCreate
  <2>1. budget' \in 0..MaxFaults
    BY <1>4, FaultType DEF SyncCreate
  <2>2. PICK a \in toCreate : SyncCreate!2!(a)
    BY <1>4 DEF SyncCreate
  <2>3. a \in Att
    BY DEF SyncTypeOK
  <2>4. LifeTypeOK' /\ host' \subseteq Att
    <3>1. mem' \in [Att -> {"absent", "bare", "wired"}]
      BY <2>2, <2>3 DEF LifeTypeOK, Mem
    <3>2. file' \subseteq Att
      BY <2>2, <2>3 DEF LifeTypeOK
    <3>3. host' \subseteq Att
      BY <2>2, <2>3
    <3> QED
      BY <1>4, <3>1, <3>2, <3>3 DEF SyncCreate, LifeTypeOK
  <2>5. SyncTypeOK'
    <3>1. CASE Ends("idle") \/ Ends("hung")
      BY <3>1
    <3>2. CASE ~(Ends("idle") \/ Ends("hung"))
      <4>1. same' \subseteq Att \X Att
        BY <2>2, <2>3, <3>2, ReuseType DEF SyncTypeOK
      <4> QED
        BY <2>2, <2>3, <3>2, <4>1 DEF SyncTypeOK
    <3> QED
      BY <3>1, <3>2
  <2>6. old' \subseteq file'
    BY <1>4, <2>2 DEF SyncCreate
  <2> QED
    BY <1>4, <2>1, <2>4, <2>5, <2>6 DEF SyncCreate
<1>5. CASE SyncWire
  <2>1. budget' \in 0..MaxFaults
    BY <1>5, FaultType DEF SyncWire
  <2>2. LifeTypeOK'
    BY <1>5 DEF SyncWire, LifeTypeOK, Mem
  <2>3. SyncTypeOK'
    BY <1>5 DEF SyncWire, SyncTypeOK
  <2> QED
    BY <1>5, <2>1, <2>2, <2>3 DEF SyncWire
<1>6. CASE SyncGC
  <2>1. PICK a \in toDelete : SyncGC!2!(a)
    BY <1>6 DEF SyncGC
  <2>2. last' \in [Att -> {"this", "before", "old"}]
    BY <2>1
  <2>3. streak' \in [Att -> 0..Grace]
    <3>1. CASE ShouldGC(a)
      BY <2>1, <3>1, DaemonAssumption
    <3>2. CASE ~ShouldGC(a) /\ Grace > 0
      <4>1. name[a] \subseteq Att /\ \A s, r \in name[a] : s = r
        BY DEF SyncTypeOK, SocketName
      <4>2. ASSUME NEW s \in name[a]
            PROVE  Count(s) \in 0..Grace
        BY <3>2, <4>1, DaemonAssumption DEF ShouldGC, Count
      <4> QED
        BY <2>1, <3>2, <4>2
    <3>3. CASE ~ShouldGC(a) /\ Grace = 0
      BY <2>1, <3>3
    <3> QED
      BY <3>1, <3>2, <3>3, DaemonAssumption
  <2>4. SyncTypeOK'
    BY <1>6, <2>1 DEF SyncGC, SyncTypeOK
  <2> QED
    BY <1>6, <2>2, <2>3, <2>4, LifeKept DEF SyncGC, lifeVars
<1>7. CASE SyncDelete
  <2>1. budget' \in 0..MaxFaults
    BY <1>7, FaultType DEF SyncDelete
  <2>2. LifeTypeOK'
    BY <1>7 DEF SyncDelete, LifeTypeOK
  <2>3. SyncTypeOK' /\ host' \subseteq Att
    BY <1>7 DEF SyncDelete, SyncTypeOK
  <2> QED
    BY <1>7, <2>1, <2>2, <2>3 DEF SyncDelete
<1>8. CASE SyncRemove
  <2>1. LifeTypeOK' /\ old' \subseteq file'
    BY <1>8 DEF SyncRemove, LifeTypeOK
  <2>2. SyncTypeOK'
    BY <1>8 DEF SyncRemove, SyncTypeOK
  <2> QED
    BY <1>8, <2>1, <2>2 DEF SyncRemove
<1>9. CASE SyncSweep
  <2>1. LifeTypeOK' /\ old' \subseteq file'
    BY <1>9 DEF SyncSweep, LifeTypeOK
  <2> QED
    BY <1>9, <2>1 DEF SyncSweep
<1>10. CASE DaemonRestarts
  <2>1. budget' \in 0..MaxFaults
    BY <1>10, FaultType DEF DaemonRestarts
  <2>2. streak' \in [Att -> 0..Grace] /\ last' \in [Att -> {"this", "before", "old"}]
    BY <1>10, DaemonAssumption DEF DaemonRestarts
  <2> QED
    BY <1>10, <2>1, <2>2, LifeKept DEF DaemonRestarts, lifeVars
<1> QED
  BY <1>1, <1>2, <1>3, <1>4, <1>5, <1>6, <1>7, <1>8, <1>9, <1>10 DEF SyncStep

LEMMA InitType == Init => TypeOK
<1>1. Init => LifeTypeOK
  BY DEF Init, LifeInit, LifeTypeOK, Stage
<1>2. Init => budget \in 0..MaxFaults /\ streak \in [Att -> 0..Grace]
  BY DaemonAssumption DEF Init
<1> QED
  BY <1>1, <1>2 DEF Init, LifeInit, TypeOK, SocketName

(***************************************************************************)
(* The state of the daemon, of CNI and of the node is always of its type:  *)
(* in particular the orphan count never exceeds the grace period, the sets *)
(* a Sync works on and the names it dumped are sets of attachments, and    *)
(* only files that exist are old.                                          *)
(***************************************************************************)
THEOREM TypeCorrect == Spec => []TypeOK
<1>1. Init => TypeOK
  BY InitType
<1>2. TypeOK /\ [Next]_vars => TypeOK'
  BY CniStepType, OtherType, SyncType DEF Next
<1> QED
  BY <1>1, <1>2, PTL DEF Spec

-----------------------------------------------------------------------------
(* The inductive invariant is kept.                                        *)

\* What a step of CNI for a does to the masters and their dumped indexes.
LEMMA CniMasters ==
  ASSUME IInv, NEW a \in Att, CniStep(a)
  PROVE  /\ CniEffect(a)
         /\ \A b \in Att \ {a} : b \in host' <=> b \in host
         /\ a \in host' => mem'[a] # "absent"
         /\ a \in host' \ host => st[a] = "adding" /\ fresh[a] /\ a \in file'
         /\ \A b \in host' : <<b, b>> \in same => <<b, b>> \in same'
         /\ SamePresent'
<1>1. CniEffect(a)
  BY CniEffects DEF CniStep, IInv, TypeOK
<1>2. CASE Present(a) = Present(a)' /\ UNCHANGED <<host, same>>
  <2>1. SamePresent'
    BY <1>1, <1>2 DEF Present, IInv, SamePresent, CniEffect, Apart
  <2> QED
    BY <1>1, <1>2, <2>1 DEF Present, IInv, Marked
<1>3. CASE ~Present(a) /\ Present(a)' /\ Appears(a)
  <2>1. PICK d \in Reuse(a) : same' = same \union d
    BY <1>3 DEF Appears
  <2>2. \A e \in d : e[2] = a
    BY DEF Reuse
  <2>3. SamePresent'
    BY <1>1, <1>3, <2>1, <2>2 DEF Present, IInv, SamePresent, CniEffect, Apart
  <2> QED
    BY <1>1, <1>3, <2>1, <2>3 DEF Present, Appears, IInv, Marked, CniEffect
<1>4. CASE Present(a) /\ ~Present(a)' /\ Vanish({a})
  <2>1. SamePresent'
    BY <1>1, <1>4 DEF Present, Vanish, IInv, SamePresent, CniEffect, Apart
  <2> QED
    BY <1>1, <1>4, <2>1 DEF Present, Vanish
<1> QED
  BY <1>2, <1>3, <1>4 DEF CniStep

\* A lost socket stays lost, for CNI.
LEMMA CniLost ==
  ASSUME IInv, NEW a \in Att, CniStep(a), NEW s \in Att, Lost(s)
  PROVE  Lost(s)'
<1>1. /\ CniEffect(a)
      /\ \A b \in Att \ {a} : b \in host' <=> b \in host
      /\ a \in host' \ host => st[a] = "adding" /\ fresh[a]
  BY CniMasters
<1>2. CASE s = a
  <2>1. CASE st[a] \notin Kept \union {"none"}
    BY <1>1, <1>2, <2>1 DEF Lost, CniEffect
  <2>2. CASE st[a] \in Kept /\ ~fresh[a] /\ a \notin host
    BY <1>1, <1>2, <2>2 DEF Lost, CniEffect
  <2> QED
    BY <1>2, <2>1, <2>2 DEF Lost
<1>3. CASE s # a
  BY <1>1, <1>3 DEF Lost, CniEffect, Apart
<1> QED
  BY <1>2, <1>3

LEMMA CniKeeps ==
  ASSUME IInv, NEW a \in Att, CniStep(a)
  PROVE  IInv'
<1>1. TypeOK' /\ TypeOK
  BY CniStepType DEF IInv
<1>2. /\ CniEffect(a)
      /\ \A b \in Att \ {a} : b \in host' <=> b \in host
      /\ a \in host' => mem'[a] # "absent"
      /\ a \in host' \ host => st[a] = "adding" /\ a \in file'
      /\ \A b \in host' : <<b, b>> \in same => <<b, b>> \in same'
      /\ SamePresent'
  BY CniMasters
<1>3. /\ UNCHANGED <<pods, dpc, desired, listed, actual, name, toCreate, toDelete, cur>>
      /\ old' \subseteq old
  BY DEF CniStep, dump, work
<1>4. Untouched'
  <2>1. \A b \in Att \ {a} : b \in annot' <=> b \in annot
    BY DEF CniStep
  <2>2. st'[a] = "adding" => a \notin annot'
    BY <1>2 DEF CniStep, CniEffect, IInv, Untouched
  <2> QED
    BY <1>2, <1>3, <2>1, <2>2 DEF IInv, Untouched, CniEffect, Apart
<1>5. Phase' /\ Named' /\ Unwanted'
  BY <1>3 DEF IInv, Phase, Named, Unwanted
<1>6. Marked'
  <2> SUFFICES ASSUME NEW b \in host'
               PROVE  mem'[b] # "absent" /\ (st'[b] \in Kept => b \in file')
    BY DEF Marked, Present
  <2>1. CASE b = a
    BY <1>2, <2>1 DEF IInv, Marked, Untouched, CniEffect, Kept, Adding
  <2>2. CASE b # a
    BY <1>1, <1>2, <2>2 DEF IInv, Marked, Present, CniEffect, Apart, TypeOK
  <2> QED
    BY <2>1, <2>2
<1>7. DumpMarked'
  <2> SUFFICES ASSUME NEW b \in toDelete, name[b] = {b}, st'[b] \in Kept
               PROVE  b \in file'
    BY <1>3 DEF DumpMarked
  <2>1. b \in actual
    BY DEF IInv, Phase
  <2>2. CASE b = a
    BY <1>2, <2>1, <2>2 DEF IInv, DumpMarked, Untouched, CniEffect
  <2>3. CASE b # a
    BY <1>1, <1>2, <2>3 DEF IInv, DumpMarked, CniEffect, Apart, TypeOK
  <2> QED
    BY <2>2, <2>3
<1>8. Indexed' /\ SamePresent'
  BY <1>1, <1>2, <1>3 DEF IInv, Indexed, Untouched, TypeOK
<1>9. Collected'
  BY <1>1, <1>2, <1>3 DEF IInv, Collected, Untouched, Phase, TypeOK
<1>10. a \in host' \ host => a \notin old \union desired
  BY <1>1, <1>2 DEF IInv, Untouched, TypeOK
<1>11. ListedKeeps'
  <2>1. \A b \in Att : st[b] # "none" => st'[b] # "none"
    BY <1>2 DEF CniEffect, Apart
  <2> QED
    BY <1>1, <1>2, <1>3, <1>10, <2>1 DEF IInv, ListedKeeps, TypeOK
<1>12. SweepKeeps'
  <2>1. DumpedNames' = DumpedNames
    BY <1>3 DEF DumpedNames
  <2> QED
    BY <1>1, <1>2, <1>3, <1>10, <2>1 DEF IInv, SweepKeeps, TypeOK
<1>13. Foreign'
  <2> SUFFICES ASSUME NEW b \in actual, NEW s \in name[b], s # b, s \notin desired
               PROVE  Lost(s)'
    BY <1>3 DEF Foreign
  <2>1. s \in Att
    BY <1>1 DEF TypeOK, SocketName
  <2> QED
    BY <2>1, CniLost DEF IInv, Foreign
<1> QED
  BY <1>1, <1>4, <1>5, <1>6, <1>7, <1>8, <1>9, <1>11, <1>12, <1>13 DEF IInv

\* The steps of the node and of the API server.
LEMMA OtherKeeps ==
  ASSUME IInv,
         VppCrash \/ VppRestart \/ (\E a \in Att : FileAges(a))
           \/ (\E p \in Pod : PodDeleted(p)) \/ UNCHANGED vars
  PROVE  IInv'
<1>1. TypeOK /\ TypeOK'
  BY OtherType DEF IInv
<1> USE DEF IInv, Untouched, Phase, Named, Unwanted, ListedKeeps, Foreign, Lost, Marked,
            Present, DumpMarked, Indexed, SamePresent, Collected, SweepKeeps, DumpedNames,
            dump, work
<1>2. CASE VppCrash
  <2>1. host' = {} /\ same' = {} /\ \A a \in Att : mem'[a] = "absent" /\ fresh'[a] = FALSE
    BY <1>1, <1>2 DEF VppCrash, Crash, Vanish, TypeOK
  <2>2. UNCHANGED <<st, file, old, annot, dpc, desired, listed, actual, name, toCreate,
                    toDelete, cur>>
    BY <1>2 DEF VppCrash, Crash, kube
  <2>3. Foreign'
    <3> SUFFICES ASSUME NEW b \in actual, NEW s \in name[b], s # b, s \notin desired
                 PROVE  Lost(s)'
      BY <2>2
    <3>1. s \in Att
      BY <1>1 DEF TypeOK, SocketName
    <3> QED
      BY <2>1, <2>2, <3>1
  <2>4. Untouched' /\ Phase' /\ Named' /\ Unwanted' /\ Collected'
    BY <2>1, <2>2
  <2>5. ListedKeeps' /\ Marked' /\ DumpMarked' /\ Indexed' /\ SamePresent' /\ SweepKeeps'
    BY <2>1, <2>2
  <2> QED
    BY <1>1, <2>3, <2>4, <2>5
<1>3. CASE VppRestart \/ UNCHANGED vars
  <2>1. UNCHANGED <<st, mem, file, fresh, host, old, annot, dpc, desired, listed, actual,
                    name, same, toCreate, toDelete, cur>>
    BY <1>3 DEF VppRestart, Restart, vars, lifeVars, kube, daemonVars, sync
  <2> QED
    BY <1>1, <2>1
<1>4. CASE \E a \in Att : FileAges(a)
  <2>1. /\ UNCHANGED <<st, mem, file, fresh, host, annot, dpc, desired, listed, actual,
                       name, same, toCreate, toDelete, cur>>
        /\ dpc = "idle"
    BY <1>4 DEF FileAges, lifeVars, kube, daemonVars, sync
  <2> QED
    BY <1>1, <2>1 DEF Early
<1>5. CASE \E p \in Pod : PodDeleted(p)
  <2>1. /\ UNCHANGED <<st, mem, file, fresh, host, old, dpc, desired, listed, actual,
                       name, same, toCreate, toDelete, cur>>
        /\ annot' \subseteq annot
    BY <1>5 DEF PodDeleted, lifeVars, daemonVars, sync
  <2> QED
    BY <1>1, <2>1
<1> QED
  BY <1>2, <1>3, <1>4, <1>5

\* A Sync that ends holds nothing, so that only the masters matter.
LEMMA EndsKeeps ==
  ASSUME TypeOK', Return \/ Hang, Marked',
         \A a \in Att : st'[a] \in {"none", "adding"} =>
           mem'[a] = "absent" /\ a \notin host' \union file' \union annot'
  PROVE  IInv'
<1>1. /\ dpc' \in Still /\ desired' = {} /\ listed' = {} /\ actual' = {} /\ same' = {}
      /\ toCreate' = {} /\ toDelete' = {} /\ cur' = {}
  BY DEF Return, Hang, Ends, Still
<1>2. Untouched' /\ Phase' /\ Named' /\ Unwanted'
  BY <1>1 DEF Untouched, Phase, Named, Unwanted, Still
<1>3. ListedKeeps' /\ Foreign' /\ DumpMarked' /\ Indexed' /\ SamePresent' /\ Collected'
  BY <1>1 DEF ListedKeeps, Foreign, DumpMarked, Indexed, SamePresent, Collected, Still
<1>4. SweepKeeps'
  BY <1>1 DEF SweepKeeps, Still, Early
<1> QED
  BY <1>2, <1>3, <1>4 DEF IInv

LEMMA ListKeeps ==
  ASSUME IInv, SyncList \/ DaemonRestarts
  PROVE  IInv'
<1>1. TypeOK /\ TypeOK'
  BY SyncType DEF IInv
<1>2. UNCHANGED <<st, mem, file, fresh, host, old, annot>>
  BY DEF SyncList, DaemonRestarts, lifeVars, kube
<1>3. Marked'
  BY <1>2 DEF IInv, Marked, Present
<1>4. CASE Return
  BY <1>1, <1>2, <1>3, <1>4, EndsKeeps DEF IInv, Untouched
<1>5. CASE ~Return
  <2>1. /\ dpc = "idle" /\ dpc' = "sockets" /\ desired' \subseteq annot
        /\ UNCHANGED <<listed, actual, name, same, toCreate, toDelete, cur>>
    BY <1>5 DEF SyncList, DaemonRestarts, DesiredOf, dump, work
  <2>2. Untouched' /\ Phase'
    BY <1>2, <2>1 DEF IInv, Untouched, Phase, Still, Early
  <2>3. actual = {} /\ toDelete = {}
    BY <2>1 DEF IInv, Phase, Early
  <2>4. Named' /\ Unwanted' /\ ListedKeeps' /\ Foreign' /\ DumpMarked' /\ Indexed' /\ Collected'
    BY <1>2, <2>1, <2>3 DEF IInv, Named, Unwanted, ListedKeeps, Foreign, DumpMarked, Indexed,
      Collected
  <2>5. SamePresent' /\ SweepKeeps'
    BY <1>2, <2>1 DEF IInv, SamePresent, Present, SweepKeeps, Early
  <2> QED
    BY <1>1, <1>3, <2>2, <2>4, <2>5 DEF IInv
<1> QED
  BY <1>4, <1>5

LEMMA DumpSocketsKeeps ==
  ASSUME IInv, SyncDumpSockets
  PROVE  IInv'
<1>1. TypeOK /\ TypeOK'
  BY SyncType DEF IInv, SyncStep
<1>2. UNCHANGED <<st, mem, file, fresh, host, old, annot>>
  BY DEF SyncDumpSockets, lifeVars, kube
<1>3. Marked'
  BY <1>2 DEF IInv, Marked, Present
<1>4. CASE Return
  BY <1>1, <1>2, <1>3, <1>4, EndsKeeps DEF IInv, Untouched
<1>5. CASE ~Return
  <2>1. /\ dpc = "sockets" /\ dpc' = "dump" /\ {a \in Att : Present(a)} \subseteq listed'
        /\ UNCHANGED <<desired, actual, name, same, toCreate, toDelete, cur>>
    BY <1>5 DEF SyncDumpSockets, DumpFails, work
  <2>2. Untouched' /\ Phase'
    BY <1>2, <2>1 DEF IInv, Untouched, Phase, Still, Early
  <2>3. actual = {} /\ toDelete = {}
    BY <2>1 DEF IInv, Phase, Early
  <2>4. Named' /\ Unwanted' /\ Foreign' /\ DumpMarked' /\ Indexed' /\ Collected'
    BY <2>1, <2>3 DEF Named, Unwanted, Foreign, DumpMarked, Indexed, Collected
  <2>5. SamePresent' /\ SweepKeeps'
    BY <1>2, <2>1 DEF IInv, SamePresent, Present, SweepKeeps, Early
  <2>6. \A a \in listed' : st[a] # "none"
    BY <1>1, <1>5 DEF SyncDumpSockets, DumpFails, IInv, Untouched, Present
  <2>7. ListedKeeps'
    BY <1>1, <1>2, <2>1, <2>6 DEF IInv, Marked, ListedKeeps, TypeOK
  <2> QED
    BY <1>1, <1>3, <2>2, <2>4, <2>5, <2>7 DEF IInv
<1> QED
  BY <1>4, <1>5

LEMMA DumpKeeps ==
  ASSUME IInv, SyncDump
  PROVE  IInv'
<1>1. TypeOK /\ TypeOK'
  BY SyncType DEF IInv, SyncStep
<1>2. UNCHANGED <<st, mem, file, fresh, host, old, annot>>
  BY DEF SyncDump, lifeVars, kube
<1>3. Marked'
  BY <1>2 DEF IInv, Marked, Present
<1>4. CASE Return
  BY <1>1, <1>2, <1>3, <1>4, EndsKeeps DEF IInv, Untouched
<1>5. CASE ~Return
  <2>1. /\ dpc = "dump" /\ dpc' = "loop" /\ actual' = host
        /\ \A a \in Att : IF a \in host THEN name'[a] \in NamesOf(a) ELSE name'[a] = {}
        /\ \A a, b \in host : a # b => name'[a] \intersect name'[b] = {}
        /\ same' = {<<a, a>> : a \in host}
        /\ toCreate' = ToCreate(desired, UNION {name'[a] : a \in host})
        /\ toDelete' = ToDelete(desired, host, name')
        /\ listed' = {} /\ UNCHANGED <<desired, cur>>
    BY <1>5 DEF SyncDump, DumpFails
  <2>2. cur = {}
    BY <2>1 DEF IInv, Phase
  <2>3. host \subseteq Att /\ host \intersect (old \union desired) \subseteq listed
    BY <1>1, <2>1 DEF IInv, ListedKeeps, TypeOK
  <2>4. \A a \in host : a \in old \union desired => name'[a] = {a}
    BY <2>1, <2>3 DEF NamesOf
  <2>5. toCreate' \intersect host = {} /\ toCreate' \subseteq desired
    BY <2>1, <2>4 DEF ToCreate
  <2>6. toDelete' \subseteq host /\ \A a \in toDelete' : name'[a] \intersect desired = {}
    BY <2>1 DEF ToDelete
  <2>7. Untouched'
    BY <1>2, <2>1 DEF IInv, Untouched
  <2>8. Phase'
    BY <2>1, <2>2, <2>5, <2>6 DEF Phase, Still, Early
  <2>9. Named' /\ Unwanted' /\ ListedKeeps' /\ Collected'
    BY <2>1, <2>6 DEF Named, Unwanted, ListedKeeps, Collected
  <2>10. Foreign'
    <3> SUFFICES ASSUME NEW a \in host, NEW s \in name'[a], s # a
                 PROVE  Lost(s)'
      BY <2>1 DEF Foreign
    <3>1. s \in Att /\ FreedSocket(s) /\ s \notin host
      BY <1>1, <2>1, <2>3 DEF NamesOf, FreedSocket, IInv, Marked, TypeOK
    <3>2. st[s] \in Stage /\ st[s] # "none"
      <4>1. st[s] # "none"
        BY <1>1, <2>1, <2>3, <3>1 DEF NamesOf, IInv, ListedKeeps
      <4> QED
        BY <1>1, <3>1, <4>1 DEF TypeOK, LifeTypeOK
    <3> QED
      BY <1>2, <3>1, <3>2 DEF FreedSocket, Lost, Kept, Adding, Deleting, Stage
  <2>11. DumpMarked'
    BY <1>2, <2>6 DEF IInv, Marked, DumpMarked
  <2>12. Indexed' /\ SamePresent'
    BY <1>2, <2>1 DEF IInv, Marked, Indexed, SamePresent, Present
  <2>13. SweepKeeps'
    <3>1. \A a \in host \intersect old : a \in name'[a]
      BY <2>4
    <3> QED
      BY <1>2, <2>1, <3>1 DEF SweepKeeps, DumpedNames
  <2> QED
    BY <1>1, <1>3, <2>7, <2>8, <2>9, <2>10, <2>11, <2>12, <2>13 DEF IInv
<1> QED
  BY <1>4, <1>5

LEMMA CreateKeeps ==
  ASSUME IInv, SyncCreate
  PROVE  IInv'
<1>1. TypeOK /\ TypeOK'
  BY SyncType DEF IInv, SyncStep
<1>2. PICK a \in toCreate : SyncCreate!2!(a)
  BY DEF SyncCreate
<1>3. /\ UNCHANGED <<st, fresh, old, annot>> /\ dpc = "loop"
      /\ a \in desired /\ a \notin actual /\ a \in Att
  BY <1>1 DEF SyncCreate, kube, IInv, Phase, TypeOK
<1>4. CASE (Return \/ Hang) /\ UNCHANGED <<mem, host, file>>
  BY <1>1, <1>3, <1>4, EndsKeeps DEF IInv, Untouched, Marked, Present
<1>5. CASE ~((Return \/ Hang) /\ UNCHANGED <<mem, host, file>>)
  <2>1. PICK d \in Reuse(a) :
          /\ mem' = [mem EXCEPT ![a] = "bare"]
          /\ host' = host \union {a} /\ file' = file \union {a}
          /\ same' = same \union d \union {<<a, a>>}
          /\ toCreate' = toCreate \ {a} /\ cur' = {a} /\ dpc' = "wire"
          /\ UNCHANGED <<desired, listed, actual, name, toDelete>>
    BY <1>2, <1>5 DEF Mem, dump
  <2>2. mem \in [Att -> {"absent", "bare", "wired"}]
    BY <1>1 DEF TypeOK, LifeTypeOK
  <2>3. Untouched' /\ Phase'
    BY <1>3, <2>1, <2>2 DEF IInv, Untouched, Phase, Still, Early
  <2>4. Named' /\ Unwanted' /\ ListedKeeps' /\ Collected'
    BY <1>3, <2>1 DEF IInv, Named, Unwanted, ListedKeeps, Collected
  <2>5. Foreign'
    BY <1>3, <2>1 DEF IInv, Foreign, Lost
  <2>6. Marked' /\ DumpMarked'
    BY <1>3, <2>1, <2>2 DEF IInv, Marked, DumpMarked, Present
  <2>7. Indexed'
    BY <1>3, <2>1 DEF IInv, Indexed
  <2>8. SamePresent'
    <3>1. \A e \in d : e[2] = a
      BY DEF Reuse
    <3> QED
      BY <2>1, <2>2, <3>1 DEF IInv, SamePresent, Present
  <2>9. SweepKeeps'
    BY <1>3, <2>1 DEF IInv, SweepKeeps, DumpedNames, Early
  <2> QED
    BY <1>1, <2>3, <2>4, <2>5, <2>6, <2>7, <2>8, <2>9 DEF IInv
<1> QED
  BY <1>4, <1>5

LEMMA WireKeeps ==
  ASSUME IInv, SyncWire
  PROVE  IInv'
<1>1. TypeOK /\ TypeOK'
  BY SyncType DEF IInv, SyncStep
<1>2. PICK a \in cur : SyncWire!2!(a)
  BY DEF SyncWire
<1>3. /\ UNCHANGED <<st, fresh, file, host, old, annot>> /\ dpc = "wire"
      /\ a \in desired /\ a \notin actual /\ a \in Att
  BY <1>1 DEF SyncWire, kube, IInv, Phase, TypeOK
<1>4. CASE Return /\ UNCHANGED mem
  BY <1>1, <1>3, <1>4, EndsKeeps DEF IInv, Untouched, Marked, Present
<1>5. CASE ~(Return /\ UNCHANGED mem)
  <2>1. PICK b \in Att : /\ <<a, b>> \in same
                         /\ \E m \in IF b = a THEN {"wired"} ELSE {"bare", "wired"} : Mem(b, m)
    BY <1>2, <1>5
  <2>2. /\ cur' = {} /\ same' = {d \in same : d[1] # a}
        /\ dpc' = "loop" /\ UNCHANGED <<desired, listed, actual, name, toCreate, toDelete>>
    BY <1>2, <1>5 DEF dump
  <2>3. mem \in [Att -> {"absent", "bare", "wired"}]
    BY <1>1 DEF TypeOK, LifeTypeOK
  <2>4. mem[b] # "absent" /\ mem'[b] # "absent" /\ \A c \in Att \ {b} : mem'[c] = mem[c]
    <3>1. mem[b] # "absent"
      BY <1>3, <2>1 DEF IInv, SamePresent, Present
    <3>2. PICK m \in {"bare", "wired"} : mem' = [mem EXCEPT ![b] = m]
      BY <2>1 DEF Mem
    <3> QED
      BY <2>3, <3>1, <3>2
  <2>5. Untouched' /\ Phase'
    BY <1>3, <2>2, <2>4 DEF IInv, Untouched, Phase, Still, Early
  <2>6. Named' /\ Unwanted' /\ ListedKeeps' /\ Foreign' /\ Collected'
    BY <1>3, <2>2 DEF IInv, Named, Unwanted, ListedKeeps, Foreign, Lost, Collected
  <2>7. Marked' /\ DumpMarked'
    BY <1>1, <1>3, <2>2, <2>4 DEF IInv, Marked, DumpMarked, Present, TypeOK
  <2>8. Indexed' /\ SamePresent'
    BY <1>3, <2>2, <2>4 DEF IInv, Indexed, SamePresent, Present
  <2>9. SweepKeeps'
    BY <1>3, <2>2 DEF IInv, SweepKeeps, DumpedNames, Early
  <2> QED
    BY <1>1, <2>5, <2>6, <2>7, <2>8, <2>9 DEF IInv
<1> QED
  BY <1>4, <1>5

LEMMA CollectKeeps ==
  ASSUME IInv, SyncGC
  PROVE  IInv'
<1>1. TypeOK /\ TypeOK'
  BY SyncType DEF IInv, SyncStep
<1>2. PICK a \in toDelete : SyncGC!2!(a)
  BY DEF SyncGC
<1>3. /\ UNCHANGED <<st, mem, fresh, file, host, old, annot, desired, listed, actual, name,
                     same, toCreate>>
      /\ dpc = "loop" /\ dpc' \in {"loop", "delete"} /\ a \in actual
      /\ toDelete' = toDelete \ {a}
      /\ IF dpc' = "delete" THEN cur' = {a} ELSE cur' = cur
  BY <1>2 DEF SyncGC, lifeVars, kube, dump, IInv, Phase
<1>4. Untouched' /\ Phase'
  BY <1>3 DEF IInv, Untouched, Phase, Still, Early
<1>5. Named' /\ Unwanted' /\ ListedKeeps' /\ Collected'
  BY <1>3 DEF IInv, Named, Unwanted, ListedKeeps, Collected
<1>6. Foreign' /\ Marked' /\ DumpMarked' /\ Indexed' /\ SamePresent'
  BY <1>3 DEF IInv, Foreign, Lost, Marked, DumpMarked, Present, Indexed, SamePresent
<1>7. SweepKeeps'
  BY <1>3 DEF IInv, SweepKeeps, DumpedNames, Early
<1> QED
  BY <1>1, <1>4, <1>5, <1>6, <1>7 DEF IInv

LEMMA DeleteKeeps ==
  ASSUME IInv, SyncDelete
  PROVE  IInv'
<1>1. TypeOK /\ TypeOK'
  BY SyncType DEF IInv, SyncStep
<1>2. PICK a \in cur : SyncDelete!2!(a)
  BY DEF SyncDelete
<1> DEFINE hit == {b \in Att : <<a, b>> \in same}
<1>3. UNCHANGED <<st, fresh, file, old, annot>> /\ dpc = "delete" /\ a \in actual /\ cur = {a}
  BY <1>2 DEF SyncDelete, kube, IInv, Phase
<1>4. \/ mem' = [b \in Att |-> IF b \in hit THEN "absent" ELSE mem[b]] /\ host' = host \ hit
      \/ (Return \/ Hang) /\ UNCHANGED <<mem, host>>
  BY <1>2
<1>5. Marked' /\ \A b \in Att : st'[b] \in {"none", "adding"} =>
                    mem'[b] = "absent" /\ b \notin host' \union file' \union annot'
  BY <1>1, <1>3, <1>4 DEF IInv, Marked, Present, Untouched, TypeOK
<1>6. CASE Return \/ Hang
  BY <1>1, <1>5, <1>6, EndsKeeps
<1>7. CASE ~(Return \/ Hang)
  <2>1. /\ host' = host \ hit /\ same' = {d \in same : d[2] \notin hit}
        /\ mem' = [b \in Att |-> IF b \in hit THEN "absent" ELSE mem[b]]
        /\ dpc' = "remove"
        /\ UNCHANGED <<desired, listed, actual, name, toCreate, toDelete, cur>>
    BY <1>2, <1>7 DEF dump, work
  <2>2. Untouched' /\ Phase'
    BY <1>3, <1>5, <2>1 DEF IInv, Untouched, Phase, Still, Early
  <2>3. Collected'
    <3>1. a \in host => a \in hit
      BY <1>1, <1>3 DEF IInv, Indexed, TypeOK
    <3> QED
      BY <1>3, <2>1, <3>1 DEF Collected
  <2>4. Named' /\ Unwanted' /\ ListedKeeps' /\ Foreign'
    BY <1>3, <2>1 DEF IInv, Named, Unwanted, ListedKeeps, Foreign, Lost
  <2>5. DumpMarked' /\ Indexed' /\ SamePresent'
    BY <1>1, <1>3, <2>1 DEF IInv, DumpMarked, Indexed, SamePresent, Present, TypeOK
  <2>6. SweepKeeps'
    BY <1>3, <2>1 DEF IInv, SweepKeeps, DumpedNames, Early
  <2> QED
    BY <1>1, <1>5, <2>2, <2>3, <2>4, <2>5, <2>6 DEF IInv
<1> QED
  BY <1>6, <1>7

LEMMA RemoveKeeps ==
  ASSUME IInv, SyncRemove
  PROVE  IInv'
<1>1. TypeOK /\ TypeOK'
  BY SyncType DEF IInv, SyncStep
<1> DEFINE gone == UNION {name[a] : a \in cur}
<1>2. /\ UNCHANGED <<st, mem, fresh, host, annot, desired, listed, actual, name, same,
                     toCreate, toDelete>>
      /\ file' = file \ gone /\ old' \subseteq old
      /\ dpc = "remove" /\ dpc' = "loop" /\ cur' = {}
  BY DEF SyncRemove, kube, dump
<1>3. \A s \in gone : s \in host => st[s] \notin Kept
  <2> SUFFICES ASSUME NEW a \in cur, NEW s \in name[a], s \in host, st[s] \in Kept
               PROVE  FALSE
    OBVIOUS
  <2>1. a \in actual /\ s # a /\ s \notin desired
    BY <1>2 DEF IInv, Phase, Collected, Unwanted
  <2> QED
    BY <2>1 DEF IInv, Foreign, Lost
<1>4. Untouched' /\ Phase'
  BY <1>2 DEF IInv, Untouched, Phase, Still, Early
<1>5. Named' /\ Unwanted' /\ ListedKeeps' /\ Foreign' /\ Collected'
  BY <1>2 DEF IInv, Named, Unwanted, ListedKeeps, Foreign, Lost, Collected
<1>6. Marked'
  BY <1>2, <1>3 DEF IInv, Marked, Present
<1>7. DumpMarked'
  <2> SUFFICES ASSUME NEW b \in toDelete, name[b] = {b}, st[b] \in Kept, NEW a \in cur,
                      b \in name[a]
               PROVE  FALSE
    BY <1>2 DEF IInv, DumpMarked
  <2> QED
    BY <1>2 DEF IInv, Phase, Named
<1>8. Indexed' /\ SamePresent'
  BY <1>2 DEF IInv, Indexed, SamePresent, Present
<1>9. SweepKeeps'
  BY <1>2 DEF IInv, SweepKeeps, DumpedNames, Early
<1> QED
  BY <1>1, <1>4, <1>5, <1>6, <1>7, <1>8, <1>9 DEF IInv

LEMMA SweepKeepsInv ==
  ASSUME IInv, SyncSweep
  PROVE  IInv'
<1>1. TypeOK /\ TypeOK'
  BY SyncType DEF IInv, SyncStep
<1>2. /\ Return /\ UNCHANGED <<st, mem, host, annot>> /\ dpc = "loop"
      /\ file' = file \ Swept(desired \union DumpedNames)
  BY DEF SyncSweep, kube, DumpedNames
<1>3. Marked'
  BY <1>2 DEF Swept, IInv, Marked, Present, SweepKeeps, Early
<1> QED
  BY <1>1, <1>2, <1>3, EndsKeeps DEF IInv, Untouched

LEMMA InvInit == Init => IInv
<1> SUFFICES ASSUME Init PROVE IInv
  OBVIOUS
<1>1. TypeOK
  BY InitType
<1>2. Untouched /\ Phase /\ Named /\ Unwanted /\ ListedKeeps /\ Foreign
  BY DEF Init, LifeInit, Untouched, Phase, Named, Unwanted, ListedKeeps, Foreign
<1>3. Marked /\ DumpMarked /\ Indexed /\ SamePresent /\ Collected /\ SweepKeeps
  BY DEF Init, LifeInit, Marked, DumpMarked, Indexed, SamePresent, Collected, SweepKeeps,
    Early
<1> QED
  BY <1>1, <1>2, <1>3 DEF IInv

LEMMA InvStep ==
  ASSUME IInv, [Next]_vars
  PROVE  IInv'
BY CniKeeps, OtherKeeps, ListKeeps, DumpSocketsKeeps, DumpKeeps, CreateKeeps, WireKeeps,
  CollectKeeps, DeleteKeeps, RemoveKeeps, SweepKeepsInv DEF Next, SyncStep

LEMMA InvHolds == Spec => []IInv
BY InvInit, InvStep, PTL DEF Spec

(***************************************************************************)
(* Whatever the daemon, CNI, VPP and the API server do, whatever the grace *)
(* period and whatever names the two dumps of DumpMasters give the memifs: *)
(* a master of VPP that CNI has not begun to delete has its socket file.   *)
(* So a missing file (SocketGone in ShouldGC) means that CNI deletes, or   *)
(* that the master is gone already, or that it was dumped without a name.  *)
(***************************************************************************)
THEOREM SocketMarks == Spec => []SocketMarksMemif
<1>1. IInv => SocketMarksMemif
  BY DEF IInv, Marked, SocketMarksMemif, Kept
<1> QED
  BY <1>1, InvHolds, PTL

\* A live attachment that a Sync still has to look at, and that it dumped with
\* its own name, has its file, even if VPP has lost its memif since the dump.
LEMMA LiveHasFile ==
  ASSUME IInv, NEW a \in toDelete, name[a] = {a}, Live(a)
  PROVE  a \in file
BY DEF IInv, DumpMarked, Live, Kept

\* Only the collector goes from the loop to a deletion.
LEMMA OnlyCollects ==
  ASSUME Next, dpc = "loop", dpc' = "delete"
  PROVE  SyncGC
BY DEF Next, SyncStep, CniStep, FileAges, PodDeleted, VppCrash, VppRestart, DaemonRestarts,
  SyncList, SyncDumpSockets, SyncDump, DumpFails, SyncCreate, SyncWire, SyncDelete,
  SyncRemove, SyncSweep, daemonVars, Return, Hang, Ends

(***************************************************************************)
(* With a grace period of 0 the daemon never decides to collect the memif  *)
(* of a live pod that it dumped under its own socket name, with no         *)
(* assumption on the NADs, on the duration of ADD, on what CNI can read or *)
(* on the indexes and socket ids that VPP gives out.  The memifs left out  *)
(* are those whose socket was registered between the two dumps.            *)
(***************************************************************************)
THEOREM PicksDead ==
  ASSUME Grace = 0
  PROVE  Spec => GcPicksDead
<1>1. IInv /\ [Next]_vars =>
        [dpc = "loop" /\ dpc' = "delete" =>
           \A a \in cur' : name[a] = {a} => ~Live(a)]_vars
  <2> SUFFICES ASSUME IInv, Next, dpc = "loop", dpc' = "delete", NEW a \in cur',
                      name[a] = {a}, Live(a)
               PROVE  FALSE
    OBVIOUS
  <2>1. SyncGC
    BY OnlyCollects
  <2>2. a \in toDelete /\ ShouldGC(a)
    BY <2>1 DEF SyncGC
  <2> QED
    BY <2>2, LiveHasFile DEF ShouldGC, SocketGone
<1> QED
  BY <1>1, InvHolds, PTL DEF Spec, GcPicksDead

-----------------------------------------------------------------------------
(* The collector spares the live.                                          *)

\* What it takes: NADs that can be read, ADDs shorter than two rounds, no index
\* and no socket id reused within a Sync, no socket registered between the two
\* dumps, a shared-dir volume for every attachment, and a grace period that
\* does not end with the round that starts it.
Trusted ==
  /\ {"nad", "apart", "fresh", "dump"} \subseteq Assumed
  /\ Volume = Att
  /\ Grace # 1

LEMMA CniSpares ==
  ASSUME Trusted, GInv, NEW a \in Att, CniStep(a)
  PROVE  GInv'
<1>1. IInv /\ IInv' /\ TypeOK
  BY CniKeeps DEF GInv, IInv
<1>2. /\ CniEffect(a)
      /\ \A b \in Att \ {a} : b \in host' <=> b \in host
      /\ a \in host' \ host => st[a] = "adding" /\ a \in file'
  BY <1>1, CniMasters
<1>3. UNCHANGED <<pods, dpc, desired, listed, actual, name, cur, last>>
  BY DEF CniStep, seenVars, dump, work
<1>4. st[a] \in {"none", "adding"} =>
        mem[a] = "absent" /\ a \notin host \union file \union annot \union desired \union actual
  BY <1>1 DEF IInv, Untouched
<1>5. Slaves'
  <2> SUFFICES ASSUME NEW b \in Att, b \notin host', mem'[b] # "absent", b \in file'
               PROVE  FALSE
    BY DEF Slaves, Present
  <2>1. CASE b # a
    BY <1>2, <2>1 DEF GInv, Slaves, Present, CniEffect, Apart
  <2>2. CASE b = a /\ mem[a] # "absent"
    <3>1. a \notin host
      BY <1>1, <2>2 DEF CniStep, Appears, Vanish, Present
    <3>2. a \notin file
      BY <2>2, <3>1 DEF GInv, Slaves, Present
    <3> QED
      BY <1>2, <1>4, <2>2, <3>2 DEF CniEffect
  <2>3. CASE b = a /\ mem[a] = "absent"
    <3>1. a \notin Listen
      BY <2>3 DEF CniStep, Appears, Present
    <3> QED
      BY <1>2, <1>4, <2>3, <3>1 DEF CniEffect
  <2> QED
    BY <2>1, <2>2, <2>3
<1>6. Annotated'
  <2> SUFFICES ASSUME NEW b \in Att, st'[b] = "added", PodOf[b] \in pods
               PROVE  b \in annot'
    BY <1>3 DEF Annotated
  <2>1. CASE b = a
    BY <2>1 DEF CniStep
  <2>2. CASE b # a
    BY <1>2, <2>2 DEF GInv, Annotated, CniEffect, Apart, CniStep
  <2> QED
    BY <2>1, <2>2
<1>7. OwnNames'
  <2>1. dpc = "dump" /\ a \in host' \ host => a \in listed
    BY DEF CniStep, Appears, Vanish, Trusted
  <2> QED
    BY <1>1, <1>2, <1>3, <2>1 DEF GInv, OwnNames, IInv, TypeOK
<1>8. \A b \in Att \ {a} : st'[b] = st[b]
  BY <1>2 DEF CniEffect, Apart
<1>9. Noticed'
  <2>1. during' = {b \in during : st'[b] \in Adding}
    BY DEF CniStep
  <2>2. \A b \in Att : st'[b] \in Adding => st[b] \in Adding \union {"none"}
    BY <1>2, <1>8 DEF CniEffect
  <2>3. \A b \in Att : st'[b] = "none" => st[b] = "none"
    BY <1>2, <1>8 DEF CniEffect
  <2>4. \A b \in actual : b \in Att /\ st[b] # "none"
    BY <1>1 DEF IInv, Untouched, TypeOK
  <2> QED
    BY <1>3, <2>1, <2>2, <2>3, <2>4 DEF GInv, Noticed, InFlight
<1>10. \A b \in Att : Live(b)' => Live(b) \/ st[b] = "none"
  BY <1>2, <1>3, <1>8 DEF CniEffect, Live, Adding
<1>11. SecondRound'
  BY <1>3, <1>10 DEF GInv, SecondRound, Noticed
<1>12. Doomed'
  BY <1>1, <1>3, <1>10 DEF GInv, Doomed, IInv, Phase, Untouched, TypeOK
<1>13. Own'
  BY DEF CniStep, Appears, Reuse, Vanish, Trusted, GInv, Own
<1> QED
  BY <1>1, <1>5, <1>6, <1>7, <1>9, <1>11, <1>12, <1>13 DEF GInv

LEMMA OtherSpares ==
  ASSUME GInv,
         VppCrash \/ VppRestart \/ (\E a \in Att : FileAges(a))
           \/ (\E p \in Pod : PodDeleted(p)) \/ UNCHANGED vars
  PROVE  GInv'
<1>1. IInv /\ IInv' /\ TypeOK
  BY OtherKeeps DEF GInv, IInv
<1> USE DEF GInv, Slaves, Annotated, OwnNames, Noticed, InFlight, SecondRound, Live, Doomed,
            Own, Present, dump, work
<1>2. CASE VppCrash
  <2>1. /\ \A a \in Att : mem'[a] = "absent"
        /\ host' = {} /\ same' = {}
        /\ UNCHANGED <<st, pods, annot, dpc, desired, actual, name, cur, last, during>>
    BY <1>1, <1>2 DEF VppCrash, Crash, Vanish, kube, seenVars, TypeOK
  <2> QED
    BY <1>1, <2>1
<1>3. CASE VppRestart \/ UNCHANGED vars \/ \E a \in Att : FileAges(a)
  <2>1. UNCHANGED <<st, mem, file, host, pods, annot, dpc, desired, listed, actual, name, same,
                    cur, last, during>>
    BY <1>3 DEF VppRestart, Restart, FileAges, vars, lifeVars, kube, daemonVars, sync, seenVars
  <2> QED
    BY <1>1, <2>1
<1>4. CASE \E p \in Pod : PodDeleted(p)
  <2>1. PICK p \in Pod : PodDeleted(p)
    BY <1>4
  <2>2. pods' \subseteq pods /\ \A a \in annot : PodOf[a] \in pods' => a \in annot'
    BY <2>1 DEF PodDeleted
  <2>3. UNCHANGED <<st, mem, file, host, dpc, desired, listed, actual, name, same, cur, last,
                    during>>
    BY <2>1 DEF PodDeleted, lifeVars, daemonVars, sync, seenVars
  <2>4. Slaves' /\ Annotated' /\ OwnNames' /\ Noticed' /\ Own'
    BY <2>2, <2>3
  <2>5. SecondRound' /\ Doomed'
    BY <2>2, <2>3
  <2> QED
    BY <1>1, <2>4, <2>5
<1> QED
  BY <1>2, <1>3, <1>4

\* A Sync that ends has no orphans in hand.
LEMMA EndsSpares ==
  ASSUME IInv', Return \/ Hang, Slaves', Annotated, Noticed,
         UNCHANGED <<st, pods, annot, last, during>>
  PROVE  GInv'
<1>1. dpc' \in Still /\ actual' = {} /\ same' = {} /\ cur' = {}
  BY DEF Return, Hang, Ends, Still
<1>2. Annotated' /\ Noticed'
  BY <1>1 DEF Annotated, Noticed, InFlight
<1>3. OwnNames' /\ SecondRound' /\ Doomed' /\ Own'
  BY <1>1 DEF OwnNames, SecondRound, Doomed, Own, Still
<1> QED
  BY <1>2, <1>3 DEF GInv

\* A restart forgets the rounds counted.
LEMMA RestartSpares ==
  ASSUME GInv, DaemonRestarts
  PROVE  GInv'
<1>1. IInv'
  BY ListKeeps DEF GInv
<1>2. /\ UNCHANGED <<st, mem, file, host, pods, annot, during>>
      /\ dpc' \in Still /\ actual' = {} /\ same' = {} /\ cur' = {}
      /\ \A a \in Att : last'[a] = "old"
  BY DEF DaemonRestarts, lifeVars, kube, Return, Ends, Still
<1>3. Slaves' /\ Annotated'
  BY <1>2 DEF GInv, Slaves, Present, Annotated
<1>4. OwnNames' /\ Noticed' /\ SecondRound' /\ Doomed' /\ Own'
  BY <1>2 DEF OwnNames, Noticed, SecondRound, Doomed, Own, Still
<1> QED
  BY <1>1, <1>3, <1>4 DEF GInv

LEMMA ListSpares ==
  ASSUME Trusted, GInv, SyncList
  PROVE  GInv'
<1>1. IInv /\ IInv' /\ TypeOK
  BY ListKeeps DEF GInv, IInv
<1>2. UNCHANGED <<st, mem, file, host, pods, annot, during>>
  BY DEF SyncList, lifeVars, kube
<1>3. during = {} /\ dpc = "idle" /\ actual = {} /\ cur = {}
  BY <1>1 DEF SyncList, Trusted, IInv, Phase, Early
<1>4. \A a \in Att : /\ last'[a] \in {"before", "old"}
                     /\ last'[a] = "before" => last[a] = "this"
  BY <1>1 DEF SyncList, NewRound, TypeOK
<1>5. actual' = {} /\ cur' = {} /\ dpc' \in {"idle", "sockets"} /\ same' \subseteq same
  BY <1>3 DEF SyncList, Return, Ends, dump, work
<1>6. Noticed'
  BY <1>2, <1>3, <1>4, <1>5 DEF GInv, Noticed, InFlight
<1>7. SecondRound'
  <2> SUFFICES ASSUME dpc' = "sockets", NEW a \in Att, last'[a] = "before", Live(a)'
               PROVE  a \in desired'
    BY <1>5 DEF SecondRound, Still
  <2>1. desired' = DesiredOf({})
    BY DEF SyncList, Trusted, Return, Ends
  <2>2. st[a] = "added" /\ PodOf[a] \in pods
    BY <1>2, <1>6 DEF Noticed, InFlight, Live
  <2> QED
    BY <2>1, <2>2 DEF GInv, Annotated, DesiredOf, Trusted
<1>8. Slaves' /\ Annotated' /\ OwnNames' /\ Doomed' /\ Own'
  BY <1>2, <1>3, <1>5 DEF GInv, Slaves, Present, Annotated, OwnNames, Doomed, Own
<1> QED
  BY <1>1, <1>6, <1>7, <1>8 DEF GInv

LEMMA DumpSpares ==
  ASSUME Trusted, GInv, SyncDumpSockets \/ SyncDump
  PROVE  GInv'
<1>1. IInv /\ IInv' /\ TypeOK
  BY DumpSocketsKeeps, DumpKeeps DEF GInv, IInv
<1>2. UNCHANGED <<st, mem, file, host, pods, annot, last>>
  BY DEF SyncDumpSockets, SyncDump, lifeVars, kube, seenVars
<1>3. Slaves' /\ Annotated'
  BY <1>2 DEF GInv, Slaves, Present, Annotated
<1>4. CASE Return /\ UNCHANGED during
  BY <1>1, <1>2, <1>3, <1>4, EndsSpares DEF GInv
<1>5. CASE SyncDumpSockets /\ ~Return
  <2>1. /\ dpc = "sockets" /\ dpc' = "dump" /\ {a \in Att : Present(a)} \subseteq listed'
        /\ UNCHANGED <<desired, actual, name, same, cur, during>>
    BY <1>5 DEF SyncDumpSockets, DumpFails, work
  <2>2. OwnNames'
    BY <1>1, <1>2, <2>1 DEF GInv, OwnNames, IInv, Marked, TypeOK
  <2>3. Noticed' /\ SecondRound' /\ Doomed' /\ Own'
    BY <1>2, <2>1 DEF GInv, Noticed, InFlight, SecondRound, Live, Doomed, Own, Still
  <2> QED
    BY <1>1, <1>3, <2>2, <2>3 DEF GInv
<1>6. CASE SyncDump /\ ~(Return /\ UNCHANGED during)
  <2>1. /\ dpc = "dump" /\ dpc' = "loop" /\ actual' = host
        /\ \A a \in Att : IF a \in host THEN name'[a] \in NamesOf(a) ELSE name'[a] = {}
        /\ same' = {<<a, a>> : a \in host}
        /\ during' = {a \in Att : InFlight(a)}
        /\ UNCHANGED <<desired, cur>>
    BY <1>6 DEF SyncDump, DumpFails, Trusted
  <2>2. OwnNames'
    BY <1>1, <2>1 DEF GInv, OwnNames, NamesOf, IInv, TypeOK
  <2>3. Noticed' /\ Own'
    BY <1>1, <1>2, <2>1 DEF GInv, Noticed, InFlight, Own, TypeOK
  <2>4. SecondRound' /\ Doomed'
    BY <1>2, <2>1 DEF GInv, SecondRound, Doomed, Live, Still
  <2> QED
    BY <1>1, <1>3, <2>2, <2>3, <2>4 DEF GInv
<1> QED
  BY <1>4, <1>5, <1>6 DEF SyncDumpSockets, DumpFails

LEMMA CreateSpares ==
  ASSUME Trusted, GInv, SyncCreate
  PROVE  GInv'
<1>1. IInv /\ IInv' /\ TypeOK
  BY CreateKeeps DEF GInv, IInv
<1>2. PICK a \in toCreate : SyncCreate!2!(a)
  BY DEF SyncCreate
<1>3. UNCHANGED <<st, pods, annot, last, during>> /\ dpc = "loop" /\ a \in Att
  BY <1>1 DEF SyncCreate, kube, seenVars, TypeOK
<1>4. CASE (Return \/ Hang) /\ UNCHANGED <<mem, host, file>>
  BY <1>1, <1>3, <1>4, EndsSpares DEF GInv, Slaves, Present
<1>5. CASE ~((Return \/ Hang) /\ UNCHANGED <<mem, host, file>>)
  <2>1. /\ mem' = [mem EXCEPT ![a] = "bare"] /\ host' = host \union {a}
        /\ file' = file \union {a} /\ same' = same \union {<<a, a>>}
        /\ dpc' = "wire" /\ UNCHANGED <<desired, actual, name>>
    BY <1>2, <1>5 DEF Mem, Reuse, Trusted, dump
  <2>2. mem \in [Att -> {"absent", "bare", "wired"}]
    BY <1>1 DEF TypeOK, LifeTypeOK
  <2>3. Slaves' /\ Annotated'
    BY <1>3, <2>1, <2>2 DEF GInv, Slaves, Present, Annotated
  <2>4. OwnNames' /\ Noticed' /\ SecondRound' /\ Doomed' /\ Own'
    BY <1>3, <2>1 DEF GInv, OwnNames, Noticed, InFlight, SecondRound, Live, Doomed, Own, Still
  <2> QED
    BY <1>1, <2>3, <2>4 DEF GInv
<1> QED
  BY <1>4, <1>5

LEMMA WireSpares ==
  ASSUME Trusted, GInv, SyncWire
  PROVE  GInv'
<1>1. IInv /\ IInv' /\ TypeOK
  BY WireKeeps DEF GInv, IInv
<1>2. PICK a \in cur : SyncWire!2!(a)
  BY DEF SyncWire
<1>3. /\ UNCHANGED <<st, pods, annot, file, host, last, during>> /\ dpc = "wire"
      /\ a \in Att
  BY <1>1 DEF SyncWire, kube, seenVars, TypeOK
<1>4. CASE Return /\ UNCHANGED mem
  BY <1>1, <1>3, <1>4, EndsSpares DEF GInv, Slaves, Present
<1>5. CASE ~(Return /\ UNCHANGED mem)
  <2>1. <<a, a>> \in same /\ mem' = [mem EXCEPT ![a] = "wired"]
    BY <1>2, <1>3, <1>5 DEF GInv, Own, Mem
  <2>2. mem[a] # "absent" /\ \A b \in Att \ {a} : mem'[b] = mem[b]
    BY <1>1, <1>3, <2>1 DEF IInv, SamePresent, Present, TypeOK, LifeTypeOK
  <2>3. same' \subseteq same /\ dpc' = "loop" /\ UNCHANGED <<desired, actual, name>>
    BY <1>2, <1>5 DEF dump
  <2>4. Slaves' /\ Annotated'
    BY <1>3, <2>2 DEF GInv, Slaves, Present, Annotated
  <2>5. OwnNames' /\ Noticed' /\ SecondRound' /\ Doomed' /\ Own'
    BY <1>3, <2>3 DEF GInv, OwnNames, Noticed, InFlight, SecondRound, Live, Doomed, Own, Still
  <2> QED
    BY <1>1, <2>4, <2>5 DEF GInv
<1> QED
  BY <1>4, <1>5

\* An orphan that is live has been one for the first round only.
LEMMA LiveNotCollected ==
  ASSUME Trusted, GInv, dpc = "loop", NEW a \in toDelete, Live(a)
  PROVE  ~ShouldGC(a)
<1>1. name[a] = {a} /\ a \in Att /\ a \notin desired
  BY DEF GInv, OwnNames, IInv, TypeOK, Phase, Unwanted
<1>2. a \in file
  BY <1>1, LiveHasFile DEF GInv
<1>3. last[a] # "before"
  BY <1>1 DEF GInv, SecondRound, Still
<1> QED
  BY <1>1, <1>2, <1>3, DaemonAssumption DEF ShouldGC, SocketGone, Count, Trusted

LEMMA CollectSpares ==
  ASSUME Trusted, GInv, SyncGC
  PROVE  GInv'
<1>1. IInv /\ IInv' /\ TypeOK
  BY CollectKeeps DEF GInv, IInv
<1>2. UNCHANGED <<st, mem, file, host, pods, annot, desired, listed, actual, name, same, during>>
  BY DEF SyncGC, lifeVars, kube, dump
<1>3. PICK a \in toDelete : SyncGC!2!(a)
  BY DEF SyncGC
<1>4. a \in actual /\ a \in Att /\ st[a] # "none" /\ name[a] = {a}
  BY <1>1 DEF IInv, Phase, Untouched, TypeOK, GInv, OwnNames
<1>5. \A b \in Att : /\ b # a => last'[b] = last[b]
                     /\ last'[b] = "before" => last[b] = "before"
  BY <1>1, <1>3, <1>4 DEF TypeOK, seenVars
<1>6. dpc = "loop" /\ dpc' \in {"loop", "delete"}
  BY <1>3 DEF SyncGC
<1>7. Slaves' /\ Annotated' /\ OwnNames' /\ Own'
  BY <1>2, <1>6 DEF GInv, Slaves, Present, Annotated, OwnNames, Own
<1>8. Noticed'
  BY <1>2, <1>4, <1>5 DEF GInv, Noticed, InFlight
<1>9. SecondRound'
  BY <1>2, <1>5, <1>6 DEF GInv, SecondRound, Live, Still
<1>10. Doomed'
  <2> SUFFICES ASSUME dpc' = "delete"
               PROVE  cur' = {a} /\ ~Live(a)
    BY <1>2, <1>3, <1>6 DEF Doomed, Live
  <2> QED
    BY <1>3, <1>6, LiveNotCollected
<1> QED
  BY <1>1, <1>7, <1>8, <1>9, <1>10 DEF GInv

LEMMA DeleteSpares ==
  ASSUME Trusted, GInv, SyncDelete
  PROVE  GInv'
<1>1. IInv /\ IInv' /\ TypeOK
  BY DeleteKeeps DEF GInv, IInv
<1>2. PICK a \in cur : SyncDelete!2!(a)
  BY DEF SyncDelete
<1> DEFINE hit == {b \in Att : <<a, b>> \in same}
<1>3. UNCHANGED <<st, file, pods, annot, last, during>> /\ dpc = "delete"
  BY DEF SyncDelete, kube, seenVars
<1>4. \/ mem' = [b \in Att |-> IF b \in hit THEN "absent" ELSE mem[b]] /\ host' = host \ hit
      \/ UNCHANGED <<mem, host>>
  BY <1>2
<1>5. Slaves' /\ Annotated'
  BY <1>1, <1>3, <1>4 DEF GInv, Slaves, Present, Annotated, TypeOK, LifeTypeOK
<1>6. CASE Return \/ Hang
  BY <1>1, <1>3, <1>5, <1>6, EndsSpares DEF GInv
<1>7. CASE ~(Return \/ Hang)
  <2>1. /\ same' = {d \in same : d[2] \notin hit}
        /\ dpc' = "remove" /\ UNCHANGED <<desired, actual, name, cur>>
    BY <1>2, <1>7 DEF dump, work
  <2>2. OwnNames' /\ Noticed' /\ SecondRound' /\ Doomed' /\ Own'
    BY <1>3, <2>1 DEF GInv, OwnNames, Noticed, InFlight, SecondRound, Live, Doomed, Own, Still
  <2> QED
    BY <1>1, <1>5, <2>2 DEF GInv
<1> QED
  BY <1>6, <1>7

LEMMA RemoveSpares ==
  ASSUME Trusted, GInv, SyncRemove \/ SyncSweep
  PROVE  GInv'
<1>1. IInv /\ IInv' /\ TypeOK
  BY RemoveKeeps, SweepKeepsInv DEF GInv, IInv
<1>2. UNCHANGED <<st, mem, host, pods, annot, last, during>> /\ file' \subseteq file
  BY DEF SyncRemove, SyncSweep, kube, seenVars
<1>3. Slaves' /\ Annotated'
  BY <1>2 DEF GInv, Slaves, Present, Annotated
<1>4. CASE SyncSweep
  BY <1>1, <1>2, <1>3, <1>4, EndsSpares DEF SyncSweep, GInv
<1>5. CASE SyncRemove
  <2>1. /\ dpc = "remove" /\ dpc' = "loop" /\ cur' = {}
        /\ UNCHANGED <<desired, actual, name, same>>
    BY <1>5 DEF SyncRemove, dump
  <2>2. OwnNames' /\ Noticed' /\ SecondRound' /\ Doomed' /\ Own'
    BY <1>2, <2>1 DEF GInv, OwnNames, Noticed, InFlight, SecondRound, Live, Doomed, Own, Still
  <2> QED
    BY <1>1, <1>3, <2>2 DEF GInv
<1> QED
  BY <1>4, <1>5

\* One step: what is live and there stays there.
LEMMA StepSpares ==
  ASSUME GInv, Next, dpc' # dpc, NEW a \in Att, Live(a), Present(a)
  PROVE  Present(a)' /\ (a \in file => a \in file')
<1>1. SyncList \/ SyncStep \/ DaemonRestarts
  BY DEF Next, CniStep, FileAges, PodDeleted, VppCrash, VppRestart, daemonVars
<1>2. IInv /\ TypeOK
  BY DEF GInv, IInv
<1>3. CASE SyncList \/ SyncDumpSockets \/ SyncDump \/ SyncGC \/ DaemonRestarts
  BY <1>3 DEF SyncList, SyncDumpSockets, SyncDump, SyncGC, DaemonRestarts, lifeVars, Present
<1>4. CASE SyncCreate
  BY <1>2, <1>4 DEF SyncCreate, Mem, Present, TypeOK, LifeTypeOK
<1>5. CASE SyncWire
  <2>1. file' = file
    BY <1>5 DEF SyncWire
  <2>2. CASE UNCHANGED mem
    BY <2>1, <2>2 DEF Present
  <2>3. CASE ~UNCHANGED mem
    <3>1. PICK b \in Att, m \in {"bare", "wired"} : mem' = [mem EXCEPT ![b] = m]
      BY <1>5, <2>3 DEF SyncWire, Mem
    <3> QED
      BY <1>2, <2>1, <3>1 DEF Present, TypeOK, LifeTypeOK
  <2> QED
    BY <2>2, <2>3
<1>6. CASE SyncDelete
  <2>1. PICK c \in cur : SyncDelete!2!(c)
    BY <1>6 DEF SyncDelete
  <2>2. a # c /\ c \in Att
    BY <1>2, <1>6 DEF GInv, Doomed, SyncDelete, TypeOK
  <2>3. <<c, a>> \notin same
    BY <2>2 DEF GInv, Own
  <2> QED
    BY <1>6, <2>1, <2>3 DEF SyncDelete, Present
<1>7. CASE SyncRemove
  <2>1. \A c \in cur : name[c] = {c} /\ c # a
    BY <1>2, <1>7 DEF SyncRemove, GInv, Doomed, OwnNames, IInv, Phase
  <2> QED
    BY <1>7, <2>1 DEF SyncRemove, Present
<1>8. CASE SyncSweep
  <2>1. UNCHANGED mem /\ file' = file \ Swept(desired \union DumpedNames)
    BY <1>8 DEF SyncSweep, DumpedNames
  <2>2. a \in file => a \in host
    BY DEF GInv, Slaves
  <2>3. a \in host => a \notin Swept(desired \union DumpedNames)
    BY <1>2, <1>8 DEF SyncSweep, IInv, SweepKeeps, Swept, Early
  <2> QED
    BY <2>1, <2>2, <2>3 DEF Present
<1> QED
  BY <1>1, <1>3, <1>4, <1>5, <1>6, <1>7, <1>8 DEF SyncStep

(***************************************************************************)
(* The collector and the sweep take nothing from a live pod: under what    *)
(* Trusted assumes, no step of a Sync removes the memif or the socket file *)
(* of an attachment whose pod exists and whose ADD is in flight or done,   *)
(* for any number of attachments, crashes and failed requests.  A live     *)
(* attachment can be an orphan of one Sync (the annotation is written      *)
(* last), but not of two in a row, which is why the grace period may not   *)
(* be 1.  A socket registered between the two dumps of DumpMasters is      *)
(* outside Trusted: its memif is dumped without a name and collected.      *)
(***************************************************************************)
THEOREM SparesLive ==
  ASSUME Trusted
  PROVE  Spec => GcSparesLive
<1>1. Init => GInv
  <2> SUFFICES ASSUME Init PROVE GInv
    OBVIOUS
  <2>1. IInv
    BY InvInit
  <2> QED
    BY <2>1 DEF Init, LifeInit, GInv, Slaves, Present, Annotated, OwnNames, Noticed,
      SecondRound, Doomed, Own
<1>2. GInv /\ [Next]_vars => GInv'
  BY CniSpares, OtherSpares, RestartSpares, ListSpares, DumpSpares, CreateSpares, WireSpares,
    CollectSpares, DeleteSpares, RemoveSpares DEF Next, SyncStep
<1>3. GInv /\ [Next]_vars =>
        [dpc' # dpc =>
           \A a \in Att : Live(a) /\ Present(a) =>
             Present(a)' /\ (a \in file => a \in file')]_vars
  BY StepSpares
<1> QED
  BY <1>1, <1>2, <1>3, PTL DEF Spec, GcSparesLive
=============================================================================
