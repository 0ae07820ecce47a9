----------------------- MODULE CniVppRefinementProofs -----------------------
(***************************************************************************)
(* CniVpp implements MemifLifecycle, for any number of memif attachments   *)
(* with any configuration and any faults.                                  *)
(*                                                                         *)
(* A step of an invocation changes what MemifLifecycle sees of its own     *)
(* attachment only (Apart).  What it may do there is given by where the    *)
(* invocation is and by what the invariants of CniVppPromiseProofs say of  *)
(* the interface it has (Holding) or has not (Sighted).                    *)
(***************************************************************************)
EXTENDS CniVppPromiseProofs

\* Every attachment is a memif.
AllMemif == \A a \in Att : Conf[a].ifType = "memif"

\* What MemifLifecycle sees.
Stages == [a \in Att |-> StageOf(pc[a])]
Mems   == [a \in Att |-> MemOf(a)]
Files  == {a \in Att : file \intersect Own(a) # {}}
Blind  == "nopod" \in seen

-----------------------------------------------------------------------------
(* From one attachment to the whole state.                                 *)

\* The step changes nothing that MemifLifecycle sees of another attachment.
Apart(a) ==
  /\ vppUp' = vppUp
  /\ fresh \in [Att -> BOOLEAN] /\ fresh' \in [Att -> BOOLEAN]
  /\ \A b \in Att \ {a} : /\ pc'[b] = pc[b] /\ fresh'[b] = fresh[b]
                          /\ MemOf(b)' = MemOf(b)
                          /\ b \in Files' <=> b \in Files

LEMMA StaysApart ==
  ASSUME AllMemif, Promised, NEW a \in Att, Invocation(a)
  PROVE  Apart(a)
<1>1. Timely /\ IInv /\ TypeOK
  BY DEF AllMemif, Timely, Promised, IInv
<1>2. TypeOK'
  BY <1>1, NextIInv DEF Next, Invocation, IInv
<1>3. vppUp' = vppUp /\ DiskStep(a)
  BY <1>1, InvocationKeepsVpp, DiskLocal
<1>4. ASSUME NEW b \in Att \ {a}
      PROVE  /\ pc'[b] = pc[b] /\ fresh'[b] = fresh[b]
             /\ MemOf(b)' = MemOf(b)
             /\ b \in Files' <=> b \in Files
  <2>1. /\ InterfacesOf(b)' = InterfacesOf(b) /\ \A i \in InterfacesOf(b) : ifs'[i] = ifs[i]
        /\ pc'[b] = pc[b] /\ fresh'[b] = fresh[b]
    BY <1>1, OthersSame
  <2>2. \A i \in InterfacesOf(b) : Wired(b, i)' <=> Wired(b, i)
    BY <2>1 DEF Wired, AddBridgeDomain
  <2>3. MemOf(b)' = MemOf(b)
    BY <2>1, <2>2 DEF MemOf
  <2>4. \A p \in Own(b) : p \in file' <=> p \in file
    BY <1>3, OwnApart DEF DiskStep
  <2>5. b \in Files' <=> b \in Files
    BY <2>4 DEF Files, Own
  <2> QED
    BY <2>1, <2>3, <2>5
<1> QED
  BY <1>1, <1>2, <1>3, <1>4 DEF Apart, TypeOK

\* So that what it does to its own attachment is all it does.
LEMMA Whole ==
  ASSUME NEW a \in Att, Apart(a)
  PROVE  /\ Stages' = [Stages EXCEPT ![a] = StageOf(pc'[a])]
         /\ StageOf(pc'[a]) = StageOf(pc[a]) => Stages' = Stages
         /\ Mems' = [Mems EXCEPT ![a] = MemOf(a)']
         /\ MemOf(a)' = MemOf(a) => Mems' = Mems
         /\ a \in Files' => Files' = Files \union {a}
         /\ a \notin Files' => Files' = Files \ {a}
         /\ (a \in Files' <=> a \in Files) => Files' = Files
         /\ fresh' = [fresh EXCEPT ![a] = fresh'[a]]
         /\ fresh'[a] = fresh[a] => fresh' = fresh
<1>1. /\ Stages' = [Stages EXCEPT ![a] = StageOf(pc'[a])]
      /\ StageOf(pc'[a]) = StageOf(pc[a]) => Stages' = Stages
  BY DEF Apart, Stages
<1>2. /\ Mems' = [Mems EXCEPT ![a] = MemOf(a)']
      /\ MemOf(a)' = MemOf(a) => Mems' = Mems
  BY DEF Apart, Mems
<1>3. /\ a \in Files' => Files' = Files \union {a}
      /\ a \notin Files' => Files' = Files \ {a}
      /\ (a \in Files' <=> a \in Files) => Files' = Files
  <2>1. Files \subseteq Att /\ Files' \subseteq Att
    BY DEF Files
  <2>2. \A b \in Att \ {a} : b \in Files' <=> b \in Files
    BY DEF Apart
  <2> QED
    BY <2>1, <2>2
<1>4. /\ fresh' = [fresh EXCEPT ![a] = fresh'[a]]
      /\ fresh'[a] = fresh[a] => fresh' = fresh
  BY DEF Apart
<1> QED
  BY <1>1, <1>2, <1>3, <1>4

\* Nothing but the stage changes.
Only(a) ==
  /\ MemOf(a)' = MemOf(a) /\ fresh'[a] = fresh[a] /\ Blind' = Blind
  /\ a \in Files' <=> a \in Files

Stage(a) == StageOf(pc[a])

Lives(a) == Lifecycle!Cni(a) \/ UNCHANGED Lifecycle!lifeVars

LEMMA IsStutter ==
  ASSUME NEW a \in Att, Apart(a), Only(a), StageOf(pc'[a]) = Stage(a)
  PROVE  Lives(a)
<1>1. Stages' = Stages /\ Mems' = Mems /\ Files' = Files /\ fresh' = fresh /\ vppUp' = vppUp
        /\ Blind' = Blind
  BY Whole DEF Only, Stage, Apart
<1> QED
  BY <1>1 DEF Lives, Lifecycle!lifeVars, Stages, Mems, Files, Blind

LEMMA IsBegin ==
  ASSUME NEW a \in Att, Apart(a), MemOf(a)' = MemOf(a), a \in Files' <=> a \in Files,
         fresh'[a] = vppUp, Blind' = Blind \/ Blind' = TRUE,
         \/ /\ Stage(a) \in {"none", "deleted"}
            /\ (vppUp /\ StageOf(pc'[a]) = "adding") \/ StageOf(pc'[a]) = "addFailed"
         \/ /\ Stage(a) \in {"added", "addFailed", "deleted", "delFailed"}
            /\ (vppUp /\ StageOf(pc'[a]) = "deleting") \/ StageOf(pc'[a]) = "delFailed"
  PROVE  Lives(a)
<1>1. /\ Stages' = [Stages EXCEPT ![a] = StageOf(pc'[a])] /\ Mems' = Mems /\ Files' = Files
      /\ fresh' = [fresh EXCEPT ![a] = vppUp] /\ vppUp' = vppUp /\ Stages[a] = Stage(a)
  BY Whole DEF Apart, Stages, Stage
<1>2. Lifecycle!AddBegin(a) \/ Lifecycle!DelBegin(a)
  BY <1>1 DEF Lifecycle!AddBegin, Lifecycle!DelBegin, Lifecycle!To, Stages, Mems, Files, Blind
<1> QED
  BY <1>2 DEF Lives, Lifecycle!Cni

\* The ways from one stage to the next that do nothing else.
LEMMA IsStage ==
  ASSUME NEW a \in Att, Apart(a), Only(a),
         \/ /\ Stage(a) = "created" /\ StageOf(pc'[a]) = "configured"
            /\ MemOf(a) = "wired" \/ ~fresh[a]
         \/ Stage(a) = "configured" /\ StageOf(pc'[a]) = "added"
         \/ Stage(a) \in {"none", "adding", "created", "configured"} /\ StageOf(pc'[a]) = "addFailed"
         \/ /\ Stage(a) = "deleting" /\ StageOf(pc'[a]) = "removed"
            /\ fresh[a] /\ (Blind \/ MemOf(a) = "absent")
         \/ Stage(a) = "cleaned" /\ StageOf(pc'[a]) = "deleted"
         \/ Stage(a) \in {"deleting", "removed", "cleaned"} /\ StageOf(pc'[a]) = "delFailed"
  PROVE  Lives(a)
<1>1. /\ Stages' = [Stages EXCEPT ![a] = StageOf(pc'[a])] /\ Mems' = Mems /\ Files' = Files
      /\ fresh' = fresh /\ vppUp' = vppUp /\ Blind' = Blind /\ Stages[a] = Stage(a)
      /\ Mems[a] = MemOf(a) /\ Mems = [Mems EXCEPT ![a] = MemOf(a)]
  BY Whole DEF Apart, Stages, Stage, Only, Mems
<1>2. \/ Lifecycle!AddConfigured(a) \/ Lifecycle!AddDone(a) \/ Lifecycle!AddFail(a)
      \/ Lifecycle!DelMiss(a) \/ Lifecycle!DelRemove(a) \/ Lifecycle!DelDone(a)
      \/ Lifecycle!DelFail(a)
  BY <1>1 DEF Lifecycle!AddConfigured, Lifecycle!AddDone, Lifecycle!AddFail, Lifecycle!DelMiss,
    Lifecycle!DelRemove, Lifecycle!DelDone, Lifecycle!DelFail, Lifecycle!To, Lifecycle!Mem,
    Lifecycle!Adding, Lifecycle!Deleting, Stages, Mems, Files, Blind
<1> QED
  BY <1>2 DEF Lives, Lifecycle!Cni

\* What the requests do to the memif.
LEMMA IsRequest ==
  ASSUME NEW a \in Att, Apart(a), fresh[a], fresh'[a] = fresh[a], Blind' = Blind,
         \/ /\ Stage(a) = "adding" /\ StageOf(pc'[a]) \in {"created", "addFailed"}
            /\ MemOf(a) = "absent" \/ Blind
            /\ MemOf(a)' = IF MemOf(a) = "absent" THEN "bare" ELSE MemOf(a)
            /\ a \in Files' <=> a \in Files \/ Conf[a].role = "master"
         \/ /\ Stage(a) = "created" /\ StageOf(pc'[a]) \in {"created", "configured", "addFailed"}
            /\ MemOf(a) = "bare" /\ MemOf(a)' = "wired"
            /\ a \in Files' <=> a \in Files
         \/ /\ Stage(a) = "deleting" /\ StageOf(pc'[a]) = "deleting"
            /\ (MemOf(a) = "wired" /\ MemOf(a)' = "bare") \/ MemOf(a)' = "absent"
            /\ a \in Files' <=> a \in Files
  PROVE  Lives(a)
<1>1. /\ Stages' = [Stages EXCEPT ![a] = StageOf(pc'[a])]
      /\ StageOf(pc'[a]) = Stage(a) => Stages' = Stages
      /\ Mems' = [Mems EXCEPT ![a] = MemOf(a)']
      /\ a \in Files' => Files' = Files \union {a}
      /\ (a \in Files' <=> a \in Files) => Files' = Files
      /\ fresh' = fresh /\ vppUp' = vppUp /\ Stages[a] = Stage(a) /\ Mems[a] = MemOf(a)
  BY Whole DEF Apart, Stages, Stage, Mems
<1>2. CASE Stage(a) = "adding"
  BY <1>1, <1>2 DEF Lifecycle!AddCreate, Lifecycle!To, Lifecycle!Mem, Stages, Mems, Files, Blind,
    Lives, Lifecycle!Cni
<1>3. CASE Stage(a) = "created"
  BY <1>1, <1>3 DEF Lifecycle!AddWire, Lifecycle!To, Lifecycle!Mem, Stages, Mems, Files, Blind,
    Lives, Lifecycle!Cni
<1>4. CASE Stage(a) = "deleting"
  BY <1>1, <1>4 DEF Lifecycle!DelUnwire, Lifecycle!DelRemove, Lifecycle!To, Lifecycle!Mem, Stages,
    Mems, Files, Blind, Lives, Lifecycle!Cni
<1> QED
  BY <1>2, <1>3, <1>4

\* What the clean-up does to the socket file.
LEMMA IsCleanup ==
  ASSUME NEW a \in Att, Apart(a), MemOf(a)' = MemOf(a), fresh'[a] = fresh[a], Blind' = Blind,
         a \in Files' => a \in Files,
         \/ /\ Stage(a) = "removed" /\ StageOf(pc'[a]) = "cleaned"
            /\ a \notin Files' \/ Blind
         \/ Stage(a) = "deleting" /\ StageOf(pc'[a]) = "delFailed"
  PROVE  Lives(a)
<1>1. /\ Stages' = [Stages EXCEPT ![a] = StageOf(pc'[a])] /\ Mems' = Mems
      /\ a \notin Files' => Files' = Files \ {a}
      /\ a \in Files' => Files' = Files
      /\ fresh' = fresh /\ vppUp' = vppUp /\ Stages[a] = Stage(a)
  BY Whole DEF Apart, Stages, Stage
<1>2. Lifecycle!DelClean(a) \/ Lifecycle!DelFail(a)
  BY <1>1 DEF Lifecycle!DelClean, Lifecycle!DelFail, Lifecycle!To, Lifecycle!Deleting, Stages, Mems,
    Files, Blind
<1> QED
  BY <1>2 DEF Lives, Lifecycle!Cni

-----------------------------------------------------------------------------
(* The steps of CniVpp, one by one.                                        *)

\* Only a new invocation can miss its pod.
LEMMA BlindStays ==
  ASSUME NEW a \in Att, Invocation(a), ~AddOpen(a), ~DelOpen(a)
  PROVE  Blind' = Blind
<1> USE DEF env, Fault, Replied, Refused, Blind
<1>1. CASE AddNoNetns(a) \/ HungKilled(a) \/ Killed(a)
  BY <1>1 DEF AddNoNetns, HungKilled, Killed
<1>2. CASE AddStep(a)
  BY <1>2 DEF AddStep, AddFindMemifSocket, AddCreateMemifSocket, AddCreateMemifInterface,
    AddCreateVhostUserInterface, AddSetState, AddSetMtu, AddNetwork, AddFindBridge,
    AddCreateBridge, AddBridgeInterface, AddSaveVppConfig, AddIpam, AddOnContainer
<1>3. CASE DelStep(a)
  BY <1>3 DEF DelStep, DelFindMemifSocket, DelFindMemifBySocket, DelRemoveBridgeInterface,
    DelFindBridge, DelDeleteBridge, DelFindMemifInterface, DelDeleteMemifInterface,
    DelFindMemifSocketCnt, DelDeleteMemifSocket, DelDeleteVhostUserInterface, DelUnknownDevice,
    DelFileCleanup, DelIpam, DelNetns
<1> QED
  BY <1>1, <1>2, <1>3 DEF Invocation

LEMMA SameMem ==
  ASSUME NEW a \in Att, ifs' = ifs
  PROVE  MemOf(a)' = MemOf(a)
<1>1. InterfacesOf(a)' = InterfacesOf(a) /\ \A i : Wired(a, i)' <=> Wired(a, i)
  BY DEF InterfacesOf, Own, Wired, AddBridgeDomain
<1> QED
  BY <1>1 DEF MemOf

LEMMA SameFile ==
  ASSUME NEW a \in Att, file' = file
  PROVE  a \in Files' <=> a \in Files
BY DEF Files, Own

\* Steps that neither change the memif nor depend on it.
AsideStep(a) ==
  \/ AddNoNetns(a) \/ AddFindMemifSocket(a) \/ AddCreateMemifSocket(a) \/ AddFindBridge(a)
  \/ AddCreateBridge(a) \/ AddSaveVppConfig(a) \/ AddIpam(a) \/ AddOnContainer(a)
  \/ DelFindBridge(a) \/ DelDeleteBridge(a) \/ DelUnknownDevice(a) \/ DelIpam(a) \/ DelNetns(a)
  \/ HungKilled(a) \/ Killed(a)

LEMMA AsideLives ==
  ASSUME AllMemif, Promised, NEW a \in Att, AsideStep(a)
  PROVE  Lives(a)
<1>0. TypeOK /\ pc[a] \in Label
  BY DEF Promised, IInv, TypeOK, Label
<1>1. Apart(a) /\ Blind' = Blind
  <2>1. Invocation(a)
    BY DEF AsideStep, Invocation, AddStep, DelStep
  <2>2. CASE AddNoNetns(a)
    BY <2>1, <2>2, StaysApart DEF AddNoNetns, Fault, Blind
  <2>3. CASE ~AddNoNetns(a)
    <3>1. ~AddOpen(a) /\ ~DelOpen(a)
      BY <2>3 DEF AsideStep, AddOpen, DelOpen, AddFindMemifSocket, AddCreateMemifSocket,
        AddFindBridge, AddCreateBridge, AddSaveVppConfig, AddIpam, AddOnContainer, DelFindBridge,
        DelDeleteBridge, DelUnknownDevice, DelIpam, DelNetns, HungKilled, Killed, DumpPc, AddPc, DelPc
    <3> QED
      BY <2>1, <3>1, StaysApart, BlindStays
  <2> QED
    BY <2>2, <2>3
<1>2. UNCHANGED <<ifs, file, fresh>>
  BY DEF AsideStep, vpp, disk, proc, AddNoNetns, AddFindMemifSocket, AddCreateMemifSocket,
    AddFindBridge, AddCreateBridge, AddSaveVppConfig, AddIpam, AddOnContainer, DelFindBridge,
    DelDeleteBridge, DelUnknownDevice, DelIpam, DelNetns, HungKilled, Killed
<1>3. Only(a)
  BY <1>1, <1>2, SameMem, SameFile DEF Only
<1>4. \/ StageOf(pc'[a]) = Stage(a)
      \/ Stage(a) = "configured" /\ StageOf(pc'[a]) = "added"
      \/ Stage(a) \in {"none", "adding", "created", "configured"} /\ StageOf(pc'[a]) = "addFailed"
      \/ Stage(a) = "cleaned" /\ StageOf(pc'[a]) = "deleted"
      \/ Stage(a) \in {"deleting", "removed", "cleaned"} /\ StageOf(pc'[a]) = "delFailed"
  <2> USE DEF Stage, StageOf
  <2>1. CASE AddNoNetns(a)
    BY <1>0, <2>1, Moves DEF AddNoNetns
  <2>2. CASE AddFindMemifSocket(a)
    BY <1>0, <2>2, Moves DEF AddFindMemifSocket
  <2>3. CASE AddCreateMemifSocket(a)
    BY <1>0, <2>3, Moves DEF AddCreateMemifSocket
  <2>4. CASE AddFindBridge(a)
    BY <1>0, <2>4, Moves DEF AddFindBridge
  <2>5. CASE AddCreateBridge(a)
    BY <1>0, <2>5, Moves DEF AddCreateBridge
  <2>6. CASE AddSaveVppConfig(a)
    BY <1>0, <2>6, Moves DEF AddSaveVppConfig
  <2>7. CASE AddIpam(a)
    BY <1>0, <2>7, Moves DEF AddIpam
  <2>8. CASE AddOnContainer(a)
    BY <1>0, <2>8, Moves DEF AddOnContainer
  <2>9. CASE DelFindBridge(a)
    BY <1>0, <2>9, Moves DEF DelFindBridge
  <2>10. CASE DelDeleteBridge(a)
    BY <1>0, <2>10, Moves DEF DelDeleteBridge
  <2>11. CASE DelUnknownDevice(a)
    BY <1>0, <2>11, Moves DEF DelUnknownDevice
  <2>12. CASE DelIpam(a)
    BY <1>0, <2>12, Moves DEF DelIpam
  <2>13. CASE DelNetns(a)
    BY <1>0, <2>13, Moves DEF DelNetns
  <2>14. CASE HungKilled(a)
    BY <1>0, <2>14, Moves DEF HungKilled, Failed, DumpPc, AddPc, DelPc
  <2>15. CASE Killed(a)
    BY <1>0, <2>15, Moves DEF Killed, Failed, DumpPc, AddPc, DelPc
  <2> QED
    BY <2>1, <2>2, <2>3, <2>4, <2>5, <2>6, <2>7, <2>8, <2>9, <2>10, <2>11, <2>12, <2>13, <2>14, <2>15
      DEF AsideStep
<1> QED
  BY <1>1, <1>3, <1>4, IsStutter, IsStage

LEMMA OpenLives ==
  ASSUME AllMemif, Promised, NEW a \in Att, AddOpen(a) \/ DelOpen(a)
  PROVE  Lives(a)
<1>0. TypeOK /\ Apart(a)
  BY StaysApart DEF Promised, IInv, Invocation
<1>1. UNCHANGED <<ifs, file>> /\ fresh'[a] = vppUp
  BY <1>0 DEF AddOpen, DelOpen, vpp, disk, TypeOK
<1>2. MemOf(a)' = MemOf(a) /\ (a \in Files' <=> a \in Files)
  BY <1>1, SameMem, SameFile
<1>3. Blind' = Blind \/ Blind' = TRUE
  BY DEF AddOpen, DelOpen, GetPod, Fault, env, Blind
<1>4. CASE AddOpen(a)
  <2>1. /\ pc[a] \in {"none", "deleted"} /\ pc'[a] \in {"aSock", "aVhost", "addFailed"}
        /\ pc'[a] # "addFailed" => vppUp
    BY <1>0, <1>4, Moves DEF AddOpen, AddDevice
  <2> QED
    BY <1>0, <1>1, <1>2, <1>3, <2>1, IsBegin DEF Stage, StageOf
<1>5. CASE DelOpen(a)
  <2>1. /\ pc[a] \in {"added", "addFailed", "delFailed", "deleted"}
        /\ pc'[a] \in {"dSock", "dUnbridge", "dDevice", "delFailed"}
        /\ pc'[a] # "delFailed" => vppUp
    BY <1>0, <1>5, Moves DEF DelOpen, DelNetwork
  <2> QED
    BY <1>0, <1>1, <1>2, <1>3, <2>1, IsBegin DEF Stage, StageOf
<1> QED
  BY <1>4, <1>5

\* The end of the network part of an ADD finds the memif wired.
LEMMA NetworkLives ==
  ASSUME AllMemif, Promised, NEW a \in Att, AddNetwork(a)
  PROVE  Lives(a)
<1>0. TypeOK /\ Apart(a) /\ Blind' = Blind /\ Holding(a)
  BY StaysApart, BlindStays
    DEF Promised, IInv, WInv, WAtt, Invocation, AddStep, AddNetwork, AddOpen, DelOpen
<1>1. UNCHANGED <<ifs, file, fresh>>
  BY DEF AddNetwork, vpp, disk, proc
<1>2. Only(a)
  BY <1>0, <1>1, SameMem, SameFile DEF Only
<1>3. /\ pc[a] = "aNet" /\ pc'[a] \in {"aFindBd", "aSave", "addFailed"}
      /\ pc'[a] = "aSave" => Conf[a].netType # "bridge"
  BY <1>0, Moves DEF AddNetwork
<1>4. pc'[a] = "aSave" => MemOf(a) = "wired" \/ ~fresh[a]
  <2> SUFFICES ASSUME pc'[a] = "aSave", fresh[a] PROVE MemOf(a) = "wired"
    OBVIOUS
  <2>1. idx[a] \in InterfacesOf(a) /\ Wired(a, idx[a])
    BY <1>0, <1>3 DEF Holding, Has, Joined, Device, InterfacesOf, Wired
  <2> QED
    BY <2>1 DEF MemOf
<1> QED
  BY <1>0, <1>2, <1>3, <1>4, IsStutter, IsStage DEF Stage, StageOf

\* DEL takes the memif for gone only when it is, or when it looks elsewhere.
LEMMA LookupLives ==
  ASSUME AllMemif, Promised, NEW a \in Att,
         \/ DelFindMemifSocket(a) \/ DelFindMemifBySocket(a) \/ DelFindMemifInterface(a)
         \/ DelFindMemifSocketCnt(a) \/ DelDeleteMemifSocket(a)
  PROVE  Lives(a)
<1>0. TypeOK /\ Apart(a) /\ Blind' = Blind /\ SAtt(a)'
  <2>1. Invocation(a)
    BY DEF Invocation, DelStep
  <2>2. ~AddOpen(a) /\ ~DelOpen(a)
    BY DEF AddOpen, DelOpen, DelFindMemifSocket, DelFindMemifBySocket, DelFindMemifInterface,
      DelFindMemifSocketCnt, DelDeleteMemifSocket
  <2> QED
    BY <2>1, <2>2, StaysApart, BlindStays, OwnSighted DEF Promised, IInv, SInv
<1>1. UNCHANGED <<ifs, file, fresh>>
  BY DEF DelFindMemifSocket, DelFindMemifBySocket, DelFindMemifInterface, DelFindMemifSocketCnt,
    DelDeleteMemifSocket, vpp, disk, proc
<1>2. Only(a)
  BY <1>0, <1>1, SameMem, SameFile DEF Only
<1>3. /\ pc[a] \in {"dSock", "dFind", "dDevice", "dCnt", "dRmSock"}
      /\ pc'[a] \in {"dFind", "dUnbridge", "dDevice", "dDelete", "dRmSock", "dFile", "dFileErr"}
      /\ pc'[a] = "dFile" => fresh[a]
  BY <1>0, Moves DEF DelFindMemifSocket, DelFindMemifBySocket, DelFindMemifInterface,
    DelFindMemifSocketCnt, DelDeleteMemifSocket, DelNetwork
<1>4. pc'[a] = "dFile" => Blind \/ MemOf(a) = "absent"
  <2>1. pc'[a] = "dFile" => Blind' \/ InterfacesOf(a)' = {}
    BY <1>0 DEF SAtt, Sighted, Last, Blind
  <2>2. InterfacesOf(a)' = InterfacesOf(a)
    BY <1>1 DEF InterfacesOf, Own
  <2> QED
    BY <1>0, <2>1, <2>2 DEF MemOf
<1> QED
  BY <1>0, <1>2, <1>3, <1>4, IsStutter, IsStage DEF Stage, StageOf

LEMMA CleanupLives ==
  ASSUME AllMemif, Promised, NEW a \in Att, DelFileCleanup(a)
  PROVE  Lives(a)
<1>0. TypeOK /\ Apart(a) /\ Blind' = Blind /\ SAtt(a)'
  BY StaysApart, BlindStays, OwnSighted
    DEF Promised, IInv, SInv, Invocation, DelStep, DelFileCleanup, AddOpen, DelOpen
<1>1. UNCHANGED <<ifs, fresh>> /\ file' \subseteq file
  BY DEF DelFileCleanup, vpp, proc
<1>2. MemOf(a)' = MemOf(a) /\ (a \in Files' => a \in Files)
  BY <1>1, SameMem DEF Files, Own
<1>3. \/ pc[a] = "dFile" /\ pc'[a] = "dIpam"
      \/ pc[a] = "dFileErr" /\ pc'[a] = "delFailed"
  BY <1>0, Moves DEF DelFileCleanup
<1>4. pc'[a] = "dIpam" => a \notin Files' \/ Blind
  <2>1. pc'[a] = "dIpam" => Blind' \/ file' \intersect Own(a) = {}
    BY <1>0 DEF SAtt, Sighted, Swept, Blind
  <2> QED
    BY <1>0, <2>1 DEF Files, Own
<1> QED
  BY <1>0, <1>1, <1>2, <1>3, <1>4, IsCleanup DEF Stage, StageOf

LEMMA CreateLives ==
  ASSUME AllMemif, Promised, NEW a \in Att,
         AddCreateMemifInterface(a) \/ AddCreateVhostUserInterface(a)
  PROVE  Lives(a)
<1>0. TypeOK /\ IInv /\ Apart(a) /\ Blind' = Blind /\ SAtt(a) /\ Fits(a)
  BY StaysApart, BlindStays
    DEF Promised, IInv, SInv, RAtt, Invocation, AddStep, AddCreateMemifInterface,
    AddCreateVhostUserInterface, AddOpen, DelOpen
<1>1. fresh' = fresh /\ pc[a] \in {"aMemif", "aVhost"}
  BY DEF AddCreateMemifInterface, AddCreateVhostUserInterface
<1>2. CASE UNCHANGED <<ifs, idx, file>> /\ pc'[a] = "addFailed"
  <2>1. Only(a)
    BY <1>0, <1>1, <1>2, SameMem, SameFile DEF Only
  <2> QED
    BY <1>0, <1>1, <1>2, <2>1, IsStage DEF Stage, StageOf
<1>3. CASE Creates(a)
  <2>0. PICK n \in SwIf : n = idx'[a]
    BY <1>3 DEF Creates
  <2>1. /\ pc'[a] \in {"aState", "addFailed"} /\ fresh[a]
        /\ ~ifs'[n].up /\ ifs'[n].path \in Own(a) /\ ifs[n].path = NoPath
        /\ \A j \in SwIf \ {n} : ifs'[j] = ifs[j]
    BY <1>3, <2>0 DEF Creates, NoIf
  <2>2. InterfacesOf(a)' = InterfacesOf(a) \union {n} /\ n \notin InterfacesOf(a)
    BY <2>1, OwnApart DEF InterfacesOf, Own
  <2>3. ~Wired(a, n)'
    BY <2>1 DEF Wired
  <2>4. \A i \in InterfacesOf(a) : Wired(a, i)' <=> Wired(a, i)
    BY <2>1, <2>2 DEF Wired, AddBridgeDomain, InterfacesOf
  <2>5. MemOf(a)' = IF MemOf(a) = "absent" THEN "bare" ELSE MemOf(a)
    <3>1. (\E i \in InterfacesOf(a)' : Wired(a, i)') <=> \E i \in InterfacesOf(a) : Wired(a, i)
      BY <2>2, <2>3, <2>4
    <3> QED
      BY <2>2, <3>1 DEF MemOf
  <2>6. MemOf(a) = "absent" \/ Blind
    BY <1>0, <1>1 DEF SAtt, Sighted, First, Blind, MemOf
  <2>7. a \in Files' <=> a \in Files \/ Conf[a].role = "master"
    BY <1>3, <2>1 DEF Creates, Files, Own
  <2> QED
    BY <1>0, <1>1, <2>1, <2>5, <2>6, <2>7, IsRequest DEF Stage, StageOf
<1> QED
  BY <1>0, <1>2, <1>3, CreatesOrNot

\* Requests of ADD on its interface undo nothing that the attachment asks for.
LEMMA SetLives ==
  ASSUME AllMemif, Promised, NEW a \in Att,
         AddSetState(a) \/ AddSetMtu(a) \/ AddBridgeInterface(a)
  PROVE  Lives(a)
<1>0. TypeOK /\ IInv /\ Apart(a) /\ Blind' = Blind /\ Holding(a)'
  <2>1. Invocation(a) /\ ~AddOpen(a) /\ ~DelOpen(a)
    BY DEF Invocation, AddStep, AddSetState, AddSetMtu, AddBridgeInterface, AddOpen, DelOpen
  <2> QED
    BY <2>1, StaysApart, BlindStays, OwnHolds DEF Promised, IInv, WInv, WAtt
<1>1. UNCHANGED <<file, fresh, idx>> /\ ifs \in [SwIf -> Iface]
  BY <1>0 DEF AddSetState, AddSetMtu, AddBridgeInterface, disk, proc, TypeOK
<1>2. a \in Files' <=> a \in Files
  BY <1>1, SameFile
<1>3. /\ pc[a] \in {"aState", "aMtu", "aJoin"}
      /\ pc'[a] \in {"aMtu", "aNet", "aSave", "addFailed"}
      /\ pc'[a] = "aSave" => fresh[a]
  BY <1>0, Moves DEF AddSetState, AddSetMtu, AddBridgeInterface, Replied, Refused
<1>4. pc'[a] = "aSave" => MemOf(a)' = "wired"
  <2> SUFFICES ASSUME pc'[a] = "aSave" PROVE MemOf(a)' = "wired"
    OBVIOUS
  <2>0. PICK n : n = idx'[a]
    OBVIOUS
  <2>1. n \in InterfacesOf(a)' /\ Wired(a, n)'
    BY <1>0, <1>1, <1>3, <2>0 DEF Holding, Has, Joined, Device, InterfacesOf, Wired
  <2> QED
    BY <2>1 DEF MemOf
<1>5. CASE ifs' = ifs
  BY <1>0, <1>1, <1>2, <1>3, <1>4, <1>5, SameMem, IsStutter, IsStage DEF Only, Stage, StageOf
<1>6. CASE Sets(a)
  <2>1. fresh[a] /\ \A j \in SwIf : ifs'[j].path = ifs[j].path
    BY <1>6 DEF Sets
  <2>2. InterfacesOf(a)' = InterfacesOf(a)
    BY <2>1 DEF InterfacesOf, Own
  <2>3. \A i \in SwIf : Wired(a, i) => Wired(a, i)'
    <3> SUFFICES ASSUME NEW i \in SwIf, Wired(a, i) PROVE Wired(a, i)'
      OBVIOUS
    <3>1. /\ ifs[i].up => ifs'[i].up
          /\ ifs[i].mtu => ifs'[i].mtu
          /\ ifs'[i].bd = ifs[i].bd \/ ifs'[i].bd = AddBridgeDomain(a)
      <4>1. CASE AddSetState(a)
        BY <1>1, <4>1 DEF AddSetState, Iface
      <4>2. CASE AddSetMtu(a)
        BY <1>1, <4>2 DEF AddSetMtu, Iface
      <4>3. CASE AddBridgeInterface(a)
        BY <1>1, <4>3 DEF AddBridgeInterface, Iface
      <4> QED
        BY <4>1, <4>2, <4>3
    <3> QED
      BY <3>1 DEF Wired, AddBridgeDomain
  <2>4. MemOf(a)' = MemOf(a) \/ (MemOf(a) = "bare" /\ MemOf(a)' = "wired")
    <3>1. \A i \in InterfacesOf(a) : Wired(a, i) => Wired(a, i)'
      BY <2>3 DEF InterfacesOf
    <3> QED
      BY <2>2, <3>1 DEF MemOf
  <2>5. CASE MemOf(a)' = MemOf(a)
    BY <1>0, <1>1, <1>2, <1>3, <1>4, <2>5, IsStutter, IsStage DEF Only, Stage, StageOf
  <2>6. CASE MemOf(a) = "bare" /\ MemOf(a)' = "wired"
    BY <1>0, <1>1, <1>2, <1>3, <2>1, <2>6, IsRequest DEF Stage, StageOf
  <2> QED
    BY <2>4, <2>5, <2>6
<1> QED
  BY <1>0, <1>5, <1>6, SetsOrNot DEF FieldStep

\* Requests of DEL on its interface.
LEMMA UnsetLives ==
  ASSUME AllMemif, Promised, NEW a \in Att,
         \/ DelRemoveBridgeInterface(a)
         \/ DelDeleteMemifInterface(a) \/ DelDeleteVhostUserInterface(a)
  PROVE  Lives(a)
<1>0. TypeOK /\ IInv /\ Apart(a) /\ Blind' = Blind /\ ~DelDeleteVhostUserInterface(a)
  <2>1. Invocation(a) /\ ~AddOpen(a) /\ ~DelOpen(a) /\ ~DelDeleteVhostUserInterface(a)
    BY DEF AllMemif, Invocation, DelStep, DelRemoveBridgeInterface, DelDeleteMemifInterface,
      DelDeleteVhostUserInterface, AddOpen, DelOpen
  <2> QED
    BY <2>1, StaysApart, BlindStays DEF Promised, IInv
<1>1. UNCHANGED <<file, fresh>> /\ ifs \in [SwIf -> Iface]
  BY <1>0 DEF DelRemoveBridgeInterface, DelDeleteMemifInterface, disk, proc, TypeOK
<1>2. a \in Files' <=> a \in Files
  BY <1>1, SameFile
<1>3. /\ pc[a] \in {"dUnbridge", "dDelete"}
      /\ pc'[a] \in {"dFindBd", "dDevice", "dCnt", "dFileErr"}
  BY <1>0, Moves DEF DelRemoveBridgeInterface, DelDeleteMemifInterface
<1>4. CASE ifs' = ifs
  BY <1>0, <1>1, <1>2, <1>3, <1>4, SameMem, IsStutter DEF Only, Stage, StageOf
<1>5. ASSUME fresh[a], InterfacesOf(a)' \subseteq InterfacesOf(a),
             \A i \in InterfacesOf(a)' : Wired(a, i)' => Wired(a, i)
      PROVE  Lives(a)
  <2>1. \/ MemOf(a)' = MemOf(a)
        \/ MemOf(a) = "wired" /\ MemOf(a)' = "bare"
        \/ MemOf(a)' = "absent"
    BY <1>5 DEF MemOf
  <2>2. CASE MemOf(a)' = MemOf(a)
    BY <1>0, <1>1, <1>2, <1>3, <2>2, IsStutter DEF Only, Stage, StageOf
  <2>3. CASE (MemOf(a) = "wired" /\ MemOf(a)' = "bare") \/ MemOf(a)' = "absent"
    BY <1>0, <1>1, <1>2, <1>3, <1>5, <2>3, IsRequest DEF Stage, StageOf
  <2> QED
    BY <2>1, <2>2, <2>3
<1>6. CASE DelRemoveBridgeInterface(a) /\ Sets(a)
  <2>1. fresh[a] /\ \A j \in SwIf : ifs'[j].path = ifs[j].path
    BY <1>6 DEF Sets
  <2>2. \A i \in SwIf : /\ ifs'[i].up = ifs[i].up /\ ifs'[i].mtu = ifs[i].mtu
                        /\ ifs'[i].bd = ifs[i].bd \/ ifs'[i].bd = 0
    BY <1>1, <1>6 DEF DelRemoveBridgeInterface, Iface
  <2>3. Conf[a].netType = "bridge" => AddBridgeDomain(a) # 0
    BY CniVppAssumption DEF AddBridgeDomain
  <2>4. InterfacesOf(a)' \subseteq InterfacesOf(a)
    BY <2>1 DEF InterfacesOf, Own
  <2>5. \A i \in InterfacesOf(a)' : Wired(a, i)' => Wired(a, i)
    BY <2>2, <2>3 DEF Wired, InterfacesOf, AddBridgeDomain
  <2> QED
    BY <1>5, <2>1, <2>4, <2>5
<1>7. CASE Deletes(a)
  <2>1. fresh[a] /\ \A j \in SwIf : ifs'[j] = ifs[j] \/ ifs'[j].path = NoPath
    BY <1>7 DEF Deletes, NoIf
  <2>2. \A j \in InterfacesOf(a)' : j \in InterfacesOf(a) /\ ifs'[j] = ifs[j]
    BY <2>1, OwnApart DEF InterfacesOf, Own
  <2>3. InterfacesOf(a)' \subseteq InterfacesOf(a)
    BY <2>2
  <2>4. \A i \in InterfacesOf(a)' : Wired(a, i)' => Wired(a, i)
    BY <2>2 DEF Wired, AddBridgeDomain
  <2> QED
    BY <1>5, <2>1, <2>3, <2>4
<1> QED
  BY <1>0, <1>4, <1>6, <1>7, SetsOrNot, DeletesOrNot DEF FieldStep

LEMMA InvocationLives ==
  ASSUME AllMemif, Promised, NEW a \in Att, Invocation(a)
  PROVE  Lives(a)
BY AsideLives, OpenLives, NetworkLives, LookupLives, CleanupLives, CreateLives, SetLives, UnsetLives
  DEF Invocation, AddStep, DelStep, AsideStep

-----------------------------------------------------------------------------
(* VPP dies and comes back, and the specification as a whole.              *)

LEMMA CrashLives ==
  ASSUME VppCrash
  PROVE  Lifecycle!Crash
<1>1. Mems' = [a \in Att |-> "absent"]
  <2>1. ASSUME NEW a \in Att PROVE MemOf(a)' = "absent"
    <3>1. \A i \in SwIf : ifs'[i].path = NoPath
      BY DEF VppCrash, NoIf
    <3>2. InterfacesOf(a)' = {}
      BY <3>1, OwnApart DEF InterfacesOf, Own
    <3> QED
      BY <3>2 DEF MemOf
  <2> QED
    BY <2>1 DEF Mems
<1>2. Stages' = Stages /\ Files' = Files /\ Blind' = Blind
  BY DEF VppCrash, Fault, disk, Stages, Files, Blind, Own
<1> QED
  BY <1>1, <1>2 DEF VppCrash, Lifecycle!Crash, Stages, Mems, Files, Blind

LEMMA SameLives ==
  ASSUME UNCHANGED <<ifs, file, pc, seen>>
  PROVE  Stages' = Stages /\ Mems' = Mems /\ Files' = Files /\ Blind' = Blind
<1>1. Mems' = Mems
  BY SameMem DEF Mems
<1> QED
  BY <1>1 DEF Stages, Files, Blind, Own

LEMMA StartLives ==
  ASSUME VppStart
  PROVE  Lifecycle!Restart
<1>1. UNCHANGED <<ifs, file, pc, seen, fresh>> /\ ~vppUp /\ vppUp' = TRUE
  BY DEF VppStart, vpp, disk, proc, env
<1> QED
  BY <1>1, SameLives DEF Lifecycle!Restart, Stages, Mems, Files, Blind

LEMMA StutterLives ==
  ASSUME UNCHANGED vars
  PROVE  UNCHANGED Lifecycle!lifeVars
<1>1. UNCHANGED <<ifs, file, pc, seen, fresh, vppUp>>
  BY DEF vars, vpp, disk, proc, env
<1> QED
  BY <1>1, SameLives DEF Lifecycle!lifeVars, Stages, Mems, Files, Blind

LEMMA InitLives == Init => Lifecycle!LifeInit
<1> SUFFICES ASSUME Init PROVE Lifecycle!LifeInit
  OBVIOUS
<1>1. Mems = [a \in Att |-> "absent"]
  <2>1. ASSUME NEW a \in Att PROVE MemOf(a) = "absent"
    <3>1. \A i \in SwIf : ifs[i].path = NoPath
      BY DEF Init, NoIf
    <3>2. InterfacesOf(a) = {}
      BY <3>1, OwnApart DEF InterfacesOf, Own
    <3> QED
      BY <3>2 DEF MemOf
  <2> QED
    BY <2>1 DEF Mems
<1>2. Stages = [a \in Att |-> "none"]
  BY DEF Init, Stages, StageOf
<1>3. Files = {} /\ Blind = FALSE
  BY DEF Init, Files, Blind
<1> QED
  BY <1>1, <1>2, <1>3 DEF Init, Lifecycle!LifeInit, Stages, Mems, Files, Blind

LEMMA NextLives ==
  ASSUME AllMemif, Promised, [Next]_vars
  PROVE  [Lifecycle!LifeNext]_(Lifecycle!lifeVars)
<1>1. ASSUME NEW a \in Att, Invocation(a)
      PROVE  [Lifecycle!LifeNext]_(Lifecycle!lifeVars)
  BY <1>1, InvocationLives DEF Lives, Lifecycle!LifeNext
<1>2. CASE VppCrash
  BY <1>2, CrashLives DEF Lifecycle!LifeNext
<1>3. CASE VppStart
  BY <1>3, StartLives DEF Lifecycle!LifeNext
<1>4. CASE UNCHANGED vars
  BY <1>4, StutterLives
<1> QED
  BY <1>1, <1>2, <1>3, <1>4, NextCases

(***************************************************************************)
(* For memif attachments, whatever their number, their configuration and   *)
(* the faults, every step of CmdAdd and CmdDel down to the single request  *)
(* of cnivpp/api is a step of the lifecycle MemifLifecycle describes, or   *)
(* changes nothing it tells of: what is proved of MemifLifecycle holds of  *)
(* the invocations.                                                        *)
(***************************************************************************)
THEOREM MemifImplementsLifecycle ==
  ASSUME AllMemif
  PROVE  Spec => ImplementsLifecycle
<1>0. Timely
  BY DEF AllMemif, Timely
<1>1. Init => Promised
  BY InitIInv, InitWInv, InitSInv DEF Promised
<1>2. Promised /\ [Next]_vars => Promised'
  BY <1>0, NextIInv, NextWInv, NextSInv DEF Promised
<1>3. Promised /\ [Next]_vars => [Lifecycle!LifeNext]_(Lifecycle!lifeVars)
  BY NextLives
<1> QED
  BY <1>1, <1>2, <1>3, InitLives, PTL DEF Spec, ImplementsLifecycle, Lifecycle!LifeSpec
=============================================================================
