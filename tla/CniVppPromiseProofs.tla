------------------------ MODULE CniVppPromiseProofs ------------------------
(***************************************************************************)
(* What ADD and DEL with the VPP engine promise, for any number of         *)
(* attachments, indexes, socket ids, bridge domains and faults: an added   *)
(* interface stays wired, a deleted one is gone, and the last DEL leaves   *)
(* no bridge domain and no socket behind.                                  *)
(*                                                                         *)
(* All of it rests on CniVppProofs.  What is added is what an invocation   *)
(* has made so far (Holding), what the saved file says of it (Recorded,    *)
(* ByIndex), what may be left of it (Sighted) and who will delete a bridge *)
(* domain or a socket (Kept, Bridged).                                     *)
(***************************************************************************)
EXTENDS CniVppProofs

-----------------------------------------------------------------------------
(* The invariant behind AddedIsWired and TouchesOwn.                       *)

\* No DEL goes by an index that a VPP gave out which is gone: the one of a
\* vhost-user attachment reads the index that ADD saved.
Timely == "crash" \notin Faults \/ \A a \in Att : Conf[a].ifType # "vhostuser"

\* The labels of an ADD that has its interface, and of those that bridged it.
Joined == {"aSave", "aIpam", "aCont", "added"}
Has    == {"aState", "aMtu", "aNet", "aFindBd", "aMkBd", "aJoin"} \union Joined

Device(a, i) == i \in SwIf /\ ifs[i].kind = Conf[a].ifType /\ ifs[i].path \in Own(a)

\* What an ADD made is there, as far as it got, while its VPP lives.
Holding(a) ==
  pc[a] \in Has /\ fresh[a] =>
    /\ Device(a, idx[a])
    /\ Conf[a].role = "master" => ifs[idx[a]].path \in file
    /\ pc[a] # "aState" => ifs[idx[a]].up
    /\ pc[a] \notin {"aState", "aMtu"} /\ Conf[a].mtu => ifs[idx[a]].mtu
    /\ pc[a] \in Joined /\ Conf[a].netType = "bridge" => ifs[idx[a]].bd = AddBridgeDomain(a)

\* The saved file holds the index from the end of ADD to the beginning of DEL.
Recorded(a) ==
  /\ pc[a] \in {"aIpam", "aCont", "added"} => saved[a] = idx[a]
  /\ pc[a] \in {"none", "deleted"} \union DelPc \union (AddPc \ {"aIpam", "aCont"}) => saved[a] = 0

\* The labels at which DEL holds the index it read from the saved file.
HoldsSaved == {"dUnbridge", "dFindBd", "dRmBd", "dDevice"}

\* Without a crash the saved index is the attachment's own.
ByIndex(a) ==
  "crash" \notin Faults =>
    /\ vppUp
    /\ pc[a] \in AddPc \union DelPc \union {"added"} => fresh[a]
    /\ Conf[a].ifType = "vhostuser" =>
         /\ saved[a] \in SwIf => Device(a, saved[a])
         /\ pc[a] \in HoldsSaved /\ idx[a] \in SwIf => Device(a, idx[a])

\* The code for a memif runs for memifs, and none for a device of unknown type.
Fits(a) ==
  /\ pc[a] \in {"aSock", "aMkSock", "aMemif", "dSock", "dFind", "dDelete", "dCnt", "dRmSock"} =>
       Conf[a].ifType = "memif"
  /\ Conf[a].ifType = "other" =>
       pc[a] \notin AddPc \union {"added"} /\ saved[a] = 0 /\ idx[a] = 0

RAtt(a) == Recorded(a) /\ Fits(a)

WAtt(a) == Holding(a) /\ ByIndex(a)

\* An interface is in a bridge domain that is there.
BridgesKnown == \A i \in SwIf : ifs[i].bd # 0 => ifs[i].bd \in bds

WInv == BridgesKnown /\ \A a \in Att : RAtt(a) /\ WAtt(a)

-----------------------------------------------------------------------------
(* The invariant behind DeletedIsGone.                                     *)

\* Where the socket of an attachment is if its pod is known.
PathOf(a) == <<a, IF Conf[a].volume THEN "pod" ELSE "default">>

\* The labels of an invocation that has no interface yet, or no longer, and of a DEL
\* that has removed the socket file.
First == {"none", "aSock", "aMkSock", "aMemif", "aVhost"}
Last  == {"dCnt", "dRmSock", "dFile", "dIpam", "dNetns", "deleted"}
Swept == {"dIpam", "dNetns", "deleted"}

\* Nothing of an attachment is anywhere else, if no invocation missed its pod, and
\* there is at most one interface of it, whose index DEL finds.
Sighted(a) ==
  "nopod" \notin seen =>
    /\ pc[a] \in AddPc \union DelPc => pod[a]
    /\ \A s \in SockId : socks[s] \in Own(a) => socks[s] = PathOf(a)
    /\ \A i \in InterfacesOf(a) : ifs[i].path = PathOf(a)
    /\ file \intersect Own(a) \subseteq {PathOf(a)}
    /\ \A i, j \in InterfacesOf(a) : i = j
    /\ pc[a] \in First \union Last => InterfacesOf(a) = {}
    /\ pc[a] \in Swept => file \intersect Own(a) = {}
    /\ pc[a] \in Has => InterfacesOf(a) \subseteq {idx[a]}
    /\ Conf[a].ifType = "vhostuser" =>
         /\ saved[a] \in SwIf => InterfacesOf(a) \subseteq {saved[a]}
         /\ pc[a] \in HoldsSaved /\ idx[a] # 0 => InterfacesOf(a) \subseteq {idx[a]}

Addressed(a) == pc[a] \in {"dNetns", "deleted"} => a \notin ipam

\* An interface on a socket file of an attachment is of the kind it asks for.
KindFits(a) == \A i \in InterfacesOf(a) : ifs[i].kind = Conf[a].ifType

SAtt(a) == Sighted(a) /\ Addressed(a) /\ KindFits(a)

SInv == \A a \in Att : RAtt(a) /\ SAtt(a)

-----------------------------------------------------------------------------
(* The invariant behind LastDelReclaims.                                   *)

\* ADD and DEL name the same bridge domain.
SameBridge == \A a \in Att : Conf[a].netType = "bridge" => AddBridgeDomain(a) = DelBridgeDomain(a)

Calm == seen \subseteq {"crash", "remote", "redel", "readd", "torn"}

SocksOf(a) == {s \in SockId : socks[s] \in Own(a)}

\* Only a memif has a socket.
Registered(a) == SocksOf(a) # {} => Conf[a].ifType = "memif"

\* An invocation whose VPP is gone has nothing in the one that runs.
Outlived(a) ==
  pc[a] \in AddPc \union DelPc /\ ~fresh[a] => InterfacesOf(a) = {} /\ SocksOf(a) = {}

\* A socket has a memif, or an invocation that will give it one or delete it.
Kept(a) ==
  Calm /\ SocksOf(a) # {} =>
    InterfacesOf(a) # {} \/ pc[a] \in {"aMemif", "dCnt", "dRmSock"}

\* The interface is out of its bridge domain when DEL gets to it.
Unbridged(a) ==
  Calm /\ pc[a] \in {"dFindBd", "dRmBd", "dDevice", "dDelete"} /\ idx[a] \in InterfacesOf(a) =>
    ifs[idx[a]].bd = 0

\* A bridge domain has interfaces of attachments, which name it.
MembersPlaced == \A i \in SwIf : ifs[i].bd # 0 => ifs[i].path \in Path

MembersOwn ==
  \A a \in Att : \A i \in InterfacesOf(a) :
    ifs[i].bd # 0 => Conf[a].netType = "bridge" /\ ifs[i].bd = AddBridgeDomain(a)

\* The attachment has its interface in the domain, or is about to put it there or to
\* delete the domain.
Keeps(a, b) ==
  /\ Conf[a].netType = "bridge" /\ AddBridgeDomain(a) = b
  /\ \/ \E i \in InterfacesOf(a) : ifs[i].bd = b
     \/ pc[a] \in {"aJoin", "dFindBd", "dRmBd"} /\ fresh[a]

Bridged == Calm => \A b \in bds : \E a \in Att : Keeps(a, b)

LAtt(a) == Registered(a) /\ Outlived(a) /\ Kept(a) /\ Unbridged(a)

LInv == MembersPlaced /\ MembersOwn /\ Bridged /\ \A a \in Att : LAtt(a)

-----------------------------------------------------------------------------
(* What a step of one invocation leaves of the others, on disk and in VPP. *)

\* It changes no saved data, address or file of another attachment.
DiskStep(a) ==
  /\ \A b \in Att \ {a} : saved'[b] = saved[b] /\ (b \in ipam' <=> b \in ipam)
  /\ \A p \in Path \ Own(a) : p \in file' <=> p \in file

LEMMA DiskLocal ==
  ASSUME IInv, NEW a \in Att, Invocation(a)
  PROVE  DiskStep(a)
<1>0. TypeOK /\ AttInv(a)
  BY DEF IInv
<1>1. CASE \/ AddOpen(a) \/ AddNoNetns(a) \/ AddFindMemifSocket(a) \/ AddCreateMemifSocket(a)
           \/ AddSetState(a) \/ AddSetMtu(a) \/ AddNetwork(a) \/ AddFindBridge(a)
           \/ AddCreateBridge(a) \/ AddBridgeInterface(a) \/ AddOnContainer(a)
  <2>1. UNCHANGED disk
    BY <1>1 DEF AddOpen, AddNoNetns, AddFindMemifSocket, AddCreateMemifSocket, AddSetState,
      AddSetMtu, AddNetwork, AddFindBridge, AddCreateBridge, AddBridgeInterface, AddOnContainer
  <2> QED
    BY <2>1 DEF DiskStep, disk
<1>2. CASE \/ DelFindMemifSocket(a) \/ DelFindMemifBySocket(a) \/ DelRemoveBridgeInterface(a)
           \/ DelFindBridge(a) \/ DelDeleteBridge(a) \/ DelFindMemifInterface(a)
           \/ DelDeleteMemifInterface(a) \/ DelFindMemifSocketCnt(a) \/ DelDeleteMemifSocket(a)
           \/ DelDeleteVhostUserInterface(a) \/ DelUnknownDevice(a) \/ DelNetns(a)
           \/ HungKilled(a) \/ Killed(a)
  <2>1. UNCHANGED disk
    BY <1>2 DEF DelFindMemifSocket, DelFindMemifBySocket, DelRemoveBridgeInterface, DelFindBridge,
      DelDeleteBridge, DelFindMemifInterface, DelDeleteMemifInterface, DelFindMemifSocketCnt,
      DelDeleteMemifSocket, DelDeleteVhostUserInterface, DelUnknownDevice, DelNetns, HungKilled,
      Killed
  <2> QED
    BY <2>1 DEF DiskStep, disk
<1>3. CASE AddCreateMemifInterface(a) \/ AddCreateVhostUserInterface(a)
  <2>1. saved' = saved /\ ipam' = ipam /\ \E p \in Own(a) : file' \in {file, file \union {p}}
    <3>1. CASE AddCreateMemifInterface(a)
      <4>1. sid[a] \in SockId /\ (fresh[a] => socks[sid[a]] \in Own(a))
        BY <1>0, <3>1 DEF AddCreateMemifInterface, AttInv, SidOwned, HoldsSid
      <4>2. \/ file' = file
            \/ fresh[a] /\ file' = file \union {socks[sid[a]]}
        BY <1>0, <3>1, Moves DEF AddCreateMemifInterface
      <4>3. SocketPath(a) \in Own(a)
        BY OwnApart
      <4> QED
        BY <3>1, <4>1, <4>2, <4>3 DEF AddCreateMemifInterface
    <3>2. CASE AddCreateVhostUserInterface(a)
      <4>1. SocketPath(a) \in Own(a)
        BY OwnApart
      <4> QED
        BY <3>2, <4>1 DEF AddCreateVhostUserInterface
    <3> QED
      BY <1>3, <3>1, <3>2
  <2> QED
    BY <2>1 DEF DiskStep
<1>4. CASE AddSaveVppConfig(a) \/ DelOpen(a)
  BY <1>0, <1>4 DEF AddSaveVppConfig, DelOpen, LoadVppConfig, TypeOK, DiskStep
<1>5. CASE AddIpam(a) \/ DelIpam(a)
  BY <1>5 DEF AddIpam, DelIpam, DiskStep
<1>6. CASE DelFileCleanup(a)
  <2>1. SocketPath(a) \in Own(a)
    BY OwnApart
  <2> QED
    BY <1>6, <2>1 DEF DelFileCleanup, DiskStep
<1> QED
  BY <1>1, <1>2, <1>3, <1>4, <1>5, <1>6 DEF Invocation, AddStep, DelStep

\* What another attachment holds it keeps, if the step touches only its own.
LEMMA OthersHold ==
  ASSUME IInv, NEW a \in Att, Local(a), DiskStep(a), Touches(a), vppUp' = vppUp,
         NEW b \in Att \ {a}, RAtt(b), WAtt(b)
  PROVE  RAtt(b)' /\ WAtt(b)'
<1>1. /\ pc'[b] = pc[b] /\ idx'[b] = idx[b] /\ fresh'[b] = fresh[b] /\ saved'[b] = saved[b]
  BY DEF Local, DiskStep
<1>2. \A i \in SwIf : ifs[i].path \in Own(b) => ifs'[i] = ifs[i]
  BY OwnApart DEF Touches
<1>3. \A i : Device(b, i) => Device(b, i)' /\ ifs'[i] = ifs[i]
  BY <1>2 DEF Device
<1>4. Holding(b)'
  <2>1. \A p \in Own(b) : p \in file => p \in file'
    BY OwnApart DEF DiskStep
  <2>2. pc[b] \in Has /\ fresh[b] => ifs[idx[b]].path \in Own(b) /\ Device(b, idx[b])
    BY DEF WAtt, Holding, Device
  <2> QED
    BY <1>1, <1>3, <2>1, <2>2 DEF WAtt, Holding, AddBridgeDomain
<1>5. RAtt(b)'
  BY <1>1 DEF RAtt, Recorded, Fits
<1>6. ByIndex(b)'
  BY <1>1, <1>3 DEF WAtt, ByIndex
<1> QED
  BY <1>4, <1>5, <1>6 DEF WAtt

-----------------------------------------------------------------------------
(* The steps of an attachment's own invocation.                            *)

\* The saved data and the labels, whatever happens to the interfaces.
LEMMA OwnRecords ==
  ASSUME IInv, NEW a \in Att, RAtt(a), Invocation(a)
  PROVE  RAtt(a)'
<1> USE DEF RAtt, Recorded, Fits, AddPc, DelPc
<1>0. TypeOK /\ LabelFits(a)
  BY DEF IInv, AttInv
<1>1. CASE AddOpen(a)
  BY <1>0, <1>1, Moves DEF AddOpen, disk, proc, AddDevice, TypeOK
<1>2. CASE AddNoNetns(a)
  BY <1>0, <1>2, Moves DEF AddNoNetns, disk, proc
<1>3. CASE AddFindMemifSocket(a)
  BY <1>0, <1>3, Moves DEF AddFindMemifSocket, disk, proc
<1>4. CASE AddCreateMemifSocket(a)
  BY <1>0, <1>4, Moves DEF AddCreateMemifSocket, disk, proc
<1>5. CASE AddCreateMemifInterface(a)
  BY <1>0, <1>5, Moves DEF AddCreateMemifInterface, disk, proc, TypeOK
<1>6. CASE AddCreateVhostUserInterface(a)
  BY <1>0, <1>6, Moves DEF AddCreateVhostUserInterface, disk, proc, TypeOK
<1>7. CASE AddSetState(a)
  BY <1>0, <1>7, Moves DEF AddSetState, disk, proc
<1>8. CASE AddSetMtu(a)
  BY <1>0, <1>8, Moves DEF AddSetMtu, disk, proc
<1>9. CASE AddNetwork(a)
  BY <1>0, <1>9, Moves DEF AddNetwork, disk, proc
<1>10. CASE AddFindBridge(a)
  BY <1>0, <1>10, Moves DEF AddFindBridge, disk, proc
<1>11. CASE AddCreateBridge(a)
  BY <1>0, <1>11, Moves DEF AddCreateBridge, disk, proc
<1>12. CASE AddBridgeInterface(a)
  BY <1>0, <1>12, Moves DEF AddBridgeInterface, disk, proc
<1>13. CASE AddSaveVppConfig(a)
  BY <1>0, <1>13, Moves DEF AddSaveVppConfig, disk, proc, TypeOK, Torn
<1>14. CASE AddIpam(a)
  BY <1>0, <1>14, Moves DEF AddIpam, disk, proc
<1>15. CASE AddOnContainer(a)
  BY <1>0, <1>15, Moves DEF AddOnContainer, disk, proc
<1>16. CASE DelOpen(a)
  BY <1>0, <1>16, Moves DEF DelOpen, disk, proc, DelNetwork, LoadVppConfig, TypeOK
<1>17. CASE DelFindMemifSocket(a)
  BY <1>0, <1>17, Moves DEF DelFindMemifSocket, disk, proc
<1>18. CASE DelFindMemifBySocket(a)
  BY <1>0, <1>18, Moves DEF DelFindMemifBySocket, disk, proc, DelNetwork, TypeOK
<1>19. CASE DelRemoveBridgeInterface(a)
  BY <1>0, <1>19, Moves DEF DelRemoveBridgeInterface, disk, proc
<1>20. CASE DelFindBridge(a)
  BY <1>0, <1>20, Moves DEF DelFindBridge, disk, proc
<1>21. CASE DelDeleteBridge(a)
  BY <1>0, <1>21, Moves DEF DelDeleteBridge, disk, proc
<1>22. CASE DelFindMemifInterface(a)
  BY <1>0, <1>22, Moves DEF DelFindMemifInterface, disk, proc
<1>23. CASE DelDeleteMemifInterface(a)
  BY <1>0, <1>23, Moves DEF DelDeleteMemifInterface, disk, proc
<1>24. CASE DelFindMemifSocketCnt(a)
  BY <1>0, <1>24, Moves DEF DelFindMemifSocketCnt, disk, proc
<1>25. CASE DelDeleteMemifSocket(a)
  BY <1>0, <1>25, Moves DEF DelDeleteMemifSocket, disk, proc
<1>26. CASE DelDeleteVhostUserInterface(a)
  BY <1>0, <1>26, Moves DEF DelDeleteVhostUserInterface, disk, proc
<1>27. CASE DelUnknownDevice(a)
  BY <1>0, <1>27, Moves DEF DelUnknownDevice, disk, proc
<1>28. CASE DelFileCleanup(a)
  BY <1>0, <1>28, Moves DEF DelFileCleanup, disk, proc
<1>29. CASE DelIpam(a)
  BY <1>0, <1>29, Moves DEF DelIpam, disk, proc
<1>30. CASE DelNetns(a)
  BY <1>0, <1>30, Moves DEF DelNetns, disk, proc
<1>31. CASE HungKilled(a)
  BY <1>0, <1>31, Moves DEF HungKilled, disk, proc, Failed
<1>32. CASE Killed(a)
  BY <1>0, <1>32, Moves DEF Killed, disk, proc, Failed
<1> QED
  BY <1>1, <1>2, <1>3, <1>4, <1>5, <1>6, <1>7, <1>8, <1>9, <1>10, <1>11, <1>12, <1>13,
    <1>14, <1>15, <1>16, <1>17, <1>18, <1>19, <1>20, <1>21, <1>22, <1>23, <1>24, <1>25, <1>26,
    <1>27, <1>28, <1>29, <1>30, <1>31, <1>32 DEF Invocation, AddStep, DelStep

\* A step that does not change which interface the attachment has, nor its data.
LEMMA GoesOn ==
  ASSUME NEW a \in Att, WAtt(a), Holding(a)', vppUp' = vppUp, fresh'[a] = fresh[a],
         saved'[a] = saved[a], idx'[a] = idx[a], \A i : Device(a, i) => Device(a, i)',
         pc'[a] \in AddPc \union DelPc \union {"added"} => pc[a] \in AddPc \union DelPc,
         pc'[a] \in HoldsSaved => pc[a] \in HoldsSaved
  PROVE  WAtt(a)'
BY DEF WAtt, ByIndex

\* The same when the interfaces stay as they are.
LEMMA Steady ==
  ASSUME NEW a \in Att, WAtt(a), UNCHANGED <<ifs, vppUp>>, fresh'[a] = fresh[a],
         saved'[a] = saved[a], idx'[a] = idx[a],
         pc'[a] \in Has => pc[a] \in Has \ {"aState", "aMtu"} /\ file' = file,
         pc'[a] \in Joined => pc[a] \in Joined \/ Conf[a].netType # "bridge",
         pc'[a] \in AddPc \union DelPc \union {"added"} => pc[a] \in AddPc \union DelPc,
         pc'[a] \in HoldsSaved => pc[a] \in HoldsSaved
  PROVE  WAtt(a)'
<1>1. \A i : Device(a, i) => Device(a, i)'
  BY DEF Device
<1>2. Holding(a)'
  <2>1. Holding(a)
    BY DEF WAtt
  <2> QED
    BY <1>1, <2>1 DEF Holding, AddBridgeDomain
<1> QED
  BY <1>1, <1>2, GoesOn

QuietStep(a) ==
  \/ AddFindMemifSocket(a) \/ AddCreateMemifSocket(a) \/ AddNetwork(a) \/ AddFindBridge(a)
  \/ AddCreateBridge(a) \/ AddIpam(a) \/ AddOnContainer(a)
  \/ DelFindMemifSocket(a) \/ DelFindBridge(a) \/ DelDeleteBridge(a)
  \/ DelFindMemifInterface(a) \/ DelFindMemifSocketCnt(a) \/ DelDeleteMemifSocket(a)
  \/ DelUnknownDevice(a) \/ DelFileCleanup(a) \/ DelIpam(a) \/ DelNetns(a)
  \/ HungKilled(a) \/ Killed(a)

LEMMA QuietHolds ==
  ASSUME IInv, NEW a \in Att, WAtt(a), QuietStep(a)
  PROVE  WAtt(a)'
<1> USE DEF Has, Joined, AddPc, DelPc, HoldsSaved
<1>0. TypeOK /\ LabelFits(a)
  BY DEF IInv, AttInv
<1>1. CASE AddFindMemifSocket(a)
  BY <1>0, <1>1, Moves, Steady DEF AddFindMemifSocket, vpp, disk, proc
<1>2. CASE AddCreateMemifSocket(a)
  BY <1>0, <1>2, Moves, Steady DEF AddCreateMemifSocket, vpp, disk, proc
<1>3. CASE AddNetwork(a)
  BY <1>0, <1>3, Moves, Steady DEF AddNetwork, vpp, disk, proc
<1>4. CASE AddFindBridge(a)
  BY <1>0, <1>4, Moves, Steady DEF AddFindBridge, vpp, disk, proc, LabelFits, Bridging
<1>5. CASE AddCreateBridge(a)
  BY <1>0, <1>5, Moves, Steady DEF AddCreateBridge, vpp, disk, proc, LabelFits, Bridging
<1>6. CASE AddIpam(a)
  BY <1>0, <1>6, Moves, Steady DEF AddIpam, vpp, disk, proc
<1>7. CASE AddOnContainer(a)
  BY <1>0, <1>7, Moves, Steady DEF AddOnContainer, vpp, disk, proc
<1>8. CASE DelFindMemifSocket(a)
  BY <1>0, <1>8, Moves, Steady DEF DelFindMemifSocket, vpp, disk, proc
<1>9. CASE DelFindBridge(a)
  BY <1>0, <1>9, Moves, Steady DEF DelFindBridge, vpp, disk, proc, LabelFits, Bridging
<1>10. CASE DelDeleteBridge(a)
  BY <1>0, <1>10, Moves, Steady DEF DelDeleteBridge, vpp, disk, proc, LabelFits, Bridging
<1>11. CASE DelFindMemifInterface(a)
  BY <1>0, <1>11, Moves, Steady DEF DelFindMemifInterface, vpp, disk, proc
<1>12. CASE DelFindMemifSocketCnt(a)
  BY <1>0, <1>12, Moves, Steady DEF DelFindMemifSocketCnt, vpp, disk, proc
<1>13. CASE DelDeleteMemifSocket(a)
  BY <1>0, <1>13, Moves, Steady DEF DelDeleteMemifSocket, vpp, disk, proc
<1>14. CASE DelUnknownDevice(a)
  BY <1>0, <1>14, Moves, Steady DEF DelUnknownDevice, vpp, disk, proc
<1>15. CASE DelFileCleanup(a)
  BY <1>0, <1>15, Moves, Steady DEF DelFileCleanup, vpp, disk, proc
<1>16. CASE DelIpam(a)
  BY <1>0, <1>16, Moves, Steady DEF DelIpam, vpp, disk, proc
<1>17. CASE DelNetns(a)
  BY <1>0, <1>17, Moves, Steady DEF DelNetns, vpp, disk, proc
<1>18. CASE HungKilled(a)
  BY <1>0, <1>18, Moves, Steady DEF HungKilled, vpp, disk, proc, Failed
<1>19. CASE Killed(a)
  BY <1>0, <1>19, Moves, Steady DEF Killed, vpp, disk, proc, Failed
<1> QED
  BY <1>1, <1>2, <1>3, <1>4, <1>5, <1>6, <1>7, <1>8, <1>9, <1>10, <1>11, <1>12, <1>13,
    <1>14, <1>15, <1>16, <1>17, <1>18, <1>19 DEF QuietStep

-----------------------------------------------------------------------------
(* What an invocation does to the interfaces.                              *)

\* A request sets a field of the interface the invocation holds the index of.
Sets(a) ==
  /\ fresh[a] /\ idx'[a] = idx[a] /\ FieldStep(a)
  /\ \A j \in SwIf : /\ ifs'[j].kind = ifs[j].kind
                     /\ ifs'[j].path = ifs[j].path
                     /\ ifs'[j].sid = ifs[j].sid
                     /\ j # idx[a] => ifs'[j] = ifs[j]

\* The invocation makes its interface.
Creates(a) ==
  /\ fresh[a] /\ pc[a] \in {"aMemif", "aVhost"} /\ pc'[a] \in {"aState", "addFailed"}
  /\ idx'[a] \in SwIf /\ ifs[idx'[a]] = NoIf
  /\ ifs'[idx'[a]].kind = Conf[a].ifType
  /\ ifs'[idx'[a]].path = IF pc[a] = "aMemif" THEN socks[sid[a]] ELSE SocketPath(a)
  /\ ifs'[idx'[a]].path \in Own(a)
  /\ ~ifs'[idx'[a]].up /\ ifs'[idx'[a]].bd = 0
  /\ \A j \in SwIf \ {idx'[a]} : ifs'[j] = ifs[j]
  /\ file' = IF Conf[a].role = "master" THEN file \union {ifs'[idx'[a]].path} ELSE file

\* It deletes the interface it holds the index of.
Deletes(a) ==
  /\ fresh[a] /\ idx'[a] = idx[a] /\ idx[a] \in SwIf
  /\ ifs[idx[a]].kind = Conf[a].ifType
  /\ \/ DelDeleteMemifInterface(a) /\ pc'[a] \in {"dCnt", "dFileErr"}
     \/ DelDeleteVhostUserInterface(a) /\ pc'[a] \in {"dFile", "delFailed"}
  /\ ifs'[idx[a]] = NoIf
  /\ \A j \in SwIf \ {idx[a]} : ifs'[j] = ifs[j]

LEMMA SetsOrNot ==
  ASSUME IInv, NEW a \in Att, FieldStep(a)
  PROVE  ifs' = ifs \/ Sets(a)
<1>1. ifs \in [SwIf -> Iface] /\ TypeOK /\ AttInv(a)
  BY DEF IInv, TypeOK
<1>0. idx' = idx
  BY DEF FieldStep, AddSetState, AddSetMtu, AddBridgeInterface, DelRemoveBridgeInterface, proc
<1>2. CASE AddSetState(a)
  BY <1>0, <1>1, <1>2, SetField, Moves DEF AddSetState, Sets
<1>3. CASE AddSetMtu(a)
  BY <1>0, <1>1, <1>3, SetField, Moves DEF AddSetMtu, Sets
<1>4. CASE AddBridgeInterface(a)
  <2>1. AddBridgeDomain(a) \in BdId
    BY <1>1, <1>4, BridgeDomain DEF AddBridgeInterface, AttInv, LabelFits, Bridging
  <2> QED
    BY <1>0, <1>1, <1>4, <2>1, SetField, Moves DEF AddBridgeInterface, Sets
<1>5. CASE DelRemoveBridgeInterface(a)
  BY <1>0, <1>1, <1>5, SetField, Moves DEF DelRemoveBridgeInterface, Sets
<1> QED
  BY <1>2, <1>3, <1>4, <1>5 DEF FieldStep

LEMMA CreatesOrNot ==
  ASSUME IInv, NEW a \in Att, Fits(a), AddCreateMemifInterface(a) \/ AddCreateVhostUserInterface(a)
  PROVE  (UNCHANGED <<ifs, idx, file>> /\ pc'[a] = "addFailed") \/ Creates(a)
<1>1. TypeOK /\ AttInv(a)
  BY DEF IInv
<1>2. CASE AddCreateMemifInterface(a)
  <2>1. /\ sid[a] \in SockId /\ (fresh[a] => socks[sid[a]] \in Own(a))
        /\ Conf[a].ifType = "memif" /\ pc[a] = "aMemif"
    BY <1>1, <1>2 DEF AddCreateMemifInterface, AttInv, SidOwned, HoldsSid, Fits
  <2>2. CASE UNCHANGED <<ifs, idx, file>> /\ pc'[a] = "addFailed"
    BY <2>2
  <2>3. CASE /\ fresh[a] /\ pc'[a] \in {"aState", "addFailed"}
             /\ \E i \in FreeIndex(ifs) :
                  /\ ifs' = [ifs EXCEPT ![i] = NewIf("memif", socks[sid[a]], sid[a])]
                  /\ idx' = [idx EXCEPT ![a] = i]
             /\ file' = IF Conf[a].role = "master" THEN file \union {socks[sid[a]]} ELSE file
    <3>1. PICK i \in SwIf :
            /\ ifs[i] = NoIf
            /\ ifs' = [ifs EXCEPT ![i] = NewIf("memif", socks[sid[a]], sid[a])]
            /\ idx' = [idx EXCEPT ![a] = i]
      BY <2>3 DEF FreeIndex
    <3>2. /\ ifs'[i].kind = "memif" /\ ifs'[i].path = socks[sid[a]]
          /\ ~ifs'[i].up /\ ifs'[i].bd = 0
          /\ \A j \in SwIf \ {i} : ifs'[j] = ifs[j]
          /\ idx'[a] = i
      BY <1>1, <3>1 DEF TypeOK, NewIf
    <3> QED
      BY <2>1, <2>3, <3>1, <3>2 DEF Creates
  <2> QED
    BY <1>1, <1>2, <2>2, <2>3, Moves DEF AddCreateMemifInterface
<1>3. CASE AddCreateVhostUserInterface(a)
  <2>1. Conf[a].ifType = "vhostuser" /\ pc[a] = "aVhost" /\ SocketPath(a) \in Own(a)
    BY <1>1, <1>3, OwnApart DEF AddCreateVhostUserInterface, AttInv, LabelFits
  <2>2. CASE UNCHANGED <<ifs, idx, file>> /\ pc'[a] = "addFailed"
    BY <2>2
  <2>3. CASE /\ fresh[a] /\ pc'[a] \in {"aState", "addFailed"}
             /\ \E i \in FreeIndex(ifs) :
                  /\ ifs' = [ifs EXCEPT ![i] = NewIf("vhostuser", SocketPath(a), 0)]
                  /\ idx' = [idx EXCEPT ![a] = i]
             /\ file' = IF Conf[a].role = "master" THEN file \union {SocketPath(a)} ELSE file
    <3>1. PICK i \in SwIf :
            /\ ifs[i] = NoIf
            /\ ifs' = [ifs EXCEPT ![i] = NewIf("vhostuser", SocketPath(a), 0)]
            /\ idx' = [idx EXCEPT ![a] = i]
      BY <2>3 DEF FreeIndex
    <3>2. /\ ifs'[i].kind = "vhostuser" /\ ifs'[i].path = SocketPath(a)
          /\ ~ifs'[i].up /\ ifs'[i].bd = 0
          /\ \A j \in SwIf \ {i} : ifs'[j] = ifs[j]
          /\ idx'[a] = i
      BY <1>1, <3>1 DEF TypeOK, NewIf
    <3> QED
      BY <2>1, <2>3, <3>1, <3>2 DEF Creates
  <2> QED
    BY <1>1, <1>3, <2>2, <2>3, Moves DEF AddCreateVhostUserInterface
<1> QED
  BY <1>2, <1>3

LEMMA DeletesOrNot ==
  ASSUME IInv, NEW a \in Att, DelDeleteMemifInterface(a) \/ DelDeleteVhostUserInterface(a)
  PROVE  (ifs' = ifs /\ pc'[a] \in {"dFileErr", "delFailed"}) \/ Deletes(a)
<1>1. TypeOK /\ AttInv(a) /\ idx' = idx
  BY DEF IInv, DelDeleteMemifInterface, DelDeleteVhostUserInterface, proc
<1>2. CASE DelDeleteMemifInterface(a)
  <2>1. Conf[a].ifType = "memif"
    BY <1>1, <1>2 DEF AttInv, LabelFits, DelDeleteMemifInterface
  <2> QED
    BY <1>1, <1>2, <2>1, Moves DEF DelDeleteMemifInterface, Deletes, IsKind, TypeOK
<1>3. CASE DelDeleteVhostUserInterface(a)
  BY <1>1, <1>3, Moves DEF DelDeleteVhostUserInterface, Deletes, IsKind, TypeOK
<1> QED
  BY <1>2, <1>3

\* Every step of an invocation is one of these or leaves the interfaces alone.
LEMMA Changes ==
  ASSUME IInv, NEW a \in Att, Fits(a), Invocation(a)
  PROVE  ifs' = ifs \/ Sets(a) \/ Creates(a) \/ Deletes(a)
<1>1. CASE FieldStep(a)
  BY <1>1, SetsOrNot
<1>2. CASE AddCreateMemifInterface(a) \/ AddCreateVhostUserInterface(a)
  BY <1>2, CreatesOrNot
<1>3. CASE DelDeleteMemifInterface(a) \/ DelDeleteVhostUserInterface(a)
  BY <1>3, DeletesOrNot
<1>4. CASE EndStep(a) \/ BridgeStep(a) \/ LookupStep(a) \/ AddCreateMemifSocket(a)
           \/ DelDeleteMemifSocket(a)
  BY <1>4 DEF EndStep, BridgeStep, LookupStep, vpp, AddNoNetns, AddSaveVppConfig, AddIpam,
    AddOnContainer, DelUnknownDevice, DelFileCleanup, DelIpam, DelNetns, HungKilled, Killed,
    AddNetwork, AddFindBridge, AddCreateBridge, DelFindBridge, DelDeleteBridge, AddOpen,
    AddFindMemifSocket, DelOpen, DelFindMemifSocket, DelFindMemifBySocket,
    DelFindMemifInterface, DelFindMemifSocketCnt, AddCreateMemifSocket, DelDeleteMemifSocket
<1> QED
  BY <1>1, <1>2, <1>3, <1>4 DEF Invocation, AddStep, DelStep, FieldStep, EndStep, BridgeStep,
    LookupStep

\* As long as no index is stale, the interface is the attachment's own.
LEMMA TouchesAll ==
  ASSUME Timely, IInv, NEW a \in Att, RAtt(a), WAtt(a), Invocation(a)
  PROVE  Touches(a)
<1>1. TypeOK /\ AttInv(a) /\ Fits(a)
  BY DEF IInv, RAtt
<1>2. CASE Conf[a].ifType = "memif"
  BY <1>2, InvocationPreserves DEF StepOf
<1>3. CASE ifs' = ifs
  BY <1>3 DEF Touches
<1>4. CASE Creates(a)
  BY <1>4 DEF Creates, Touches, NoIf
<1>5. CASE Conf[a].ifType = "other" /\ Sets(a)
  <2>1. idx[a] = 0
    BY <1>1, <1>5 DEF Fits
  <2>2. \A j \in SwIf : ifs'[j] = ifs[j]
    BY <1>5, <2>1, VppAssumption DEF Sets
  <2> QED
    BY <2>2 DEF Touches
<1>6. CASE Conf[a].ifType = "vhostuser" /\ Sets(a)
  <2>1. "crash" \notin Faults
    BY <1>6 DEF Timely
  <2>2. idx[a] \in SwIf => Device(a, idx[a])
    <3>1. CASE pc[a] \in Has
      BY <1>6, <3>1 DEF Sets, WAtt, Holding
    <3>2. CASE pc[a] \in HoldsSaved
      BY <1>6, <2>1, <3>2 DEF WAtt, ByIndex
    <3> QED
      BY <1>6, <3>1, <3>2 DEF Sets, FieldStep, AddSetState, AddSetMtu, AddBridgeInterface,
        DelRemoveBridgeInterface, Has, HoldsSaved
  <2> QED
    BY <1>6, <2>2 DEF Sets, Device, Touches
<1>7. CASE Conf[a].ifType # "memif" /\ Deletes(a)
  <2>1. Conf[a].ifType = "vhostuser" /\ pc[a] = "dDevice"
    BY <1>1, <1>7 DEF Deletes, DelDeleteMemifInterface, DelDeleteVhostUserInterface, AttInv,
      LabelFits
  <2>2. Device(a, idx[a])
    BY <1>7, <2>1 DEF Timely, WAtt, ByIndex, HoldsSaved, Deletes
  <2> QED
    BY <1>7, <2>2 DEF Deletes, Device, Touches, NoIf
<1> QED
  BY <1>2, <1>3, <1>4, <1>5, <1>6, <1>7, Changes, <1>1, CniVppAssumption DEF ConfType

-----------------------------------------------------------------------------
(* What an attachment holds, its own invocation keeps.                     *)

LEMMA OpenHolds ==
  ASSUME IInv, NEW a \in Att, RAtt(a), WAtt(a), AddOpen(a) \/ AddNoNetns(a)
  PROVE  WAtt(a)'
<1>0. TypeOK
  BY DEF IInv
<1>1. CASE AddNoNetns(a)
  BY <1>0, <1>1, Moves, Steady DEF AddNoNetns, vpp, disk, proc, Has, Joined, AddPc, DelPc,
    HoldsSaved
<1>2. CASE AddOpen(a)
  <2>1. /\ pc[a] \in {"none", "deleted"} /\ pc'[a] \in {"aSock", "aVhost", "addFailed"}
        /\ pc'[a] = "aSock" => Conf[a].ifType = "memif"
        /\ pc'[a] = "aVhost" => Conf[a].ifType = "vhostuser"
        /\ vppUp' = vppUp /\ saved' = saved /\ idx' = idx /\ fresh'[a] = vppUp
    BY <1>0, <1>2, Moves DEF AddOpen, AddDevice, TypeOK, disk
  <2>2. saved[a] = 0 /\ 0 \notin SwIf
    BY <2>1, VppAssumption DEF RAtt, Recorded
  <2>3. Holding(a)'
    BY <2>1 DEF Holding, Has, Joined
  <2>4. ByIndex(a)'
    BY <2>1, <2>2 DEF WAtt, ByIndex, HoldsSaved
  <2> QED
    BY <2>3, <2>4 DEF WAtt
<1> QED
  BY <1>1, <1>2

LEMMA CreateHolds ==
  ASSUME IInv, NEW a \in Att, RAtt(a), WAtt(a), AddCreateMemifInterface(a) \/ AddCreateVhostUserInterface(a)
  PROVE  WAtt(a)'
<1>0. TypeOK /\ Fits(a)
  BY DEF IInv, RAtt
<1>1. /\ pc[a] \in {"aMemif", "aVhost"} /\ vppUp' = vppUp /\ saved' = saved /\ fresh' = fresh
      /\ saved[a] = 0 /\ 0 \notin SwIf /\ Conf[a].ifType # "other"
  BY VppAssumption DEF AddCreateMemifInterface, AddCreateVhostUserInterface, RAtt, Recorded, Fits,
    AddPc
<1>2. CASE UNCHANGED <<ifs, idx, file>> /\ pc'[a] = "addFailed"
  BY <1>1, <1>2, Steady DEF Has, Joined, AddPc, DelPc, HoldsSaved
<1>3. CASE Creates(a)
  <2>1. pc'[a] \in {"aState", "addFailed"}
    BY <1>3 DEF Creates
  <2>2. Device(a, idx[a])' /\ (Conf[a].role = "master" => ifs'[idx'[a]].path \in file')
    BY <1>3 DEF Creates, Device
  <2>3. Holding(a)'
    BY <2>1, <2>2 DEF Holding, Joined, Has
  <2>4. ByIndex(a)'
    BY <1>1, <2>1 DEF WAtt, ByIndex, HoldsSaved, AddPc, DelPc
  <2> QED
    BY <2>3, <2>4 DEF WAtt
<1> QED
  BY <1>0, <1>2, <1>3, CreatesOrNot

\* The requests on the interface, and what they do to the fields.
LEMMA FieldHolds ==
  ASSUME IInv, NEW a \in Att, WAtt(a), FieldStep(a)
  PROVE  WAtt(a)'
<1> USE DEF Has, Joined
<1>0. /\ TypeOK /\ AttInv(a) /\ Holding(a) /\ ifs \in [SwIf -> Iface]
      /\ AddBridgeDomain(a)' = AddBridgeDomain(a)
  BY DEF IInv, WAtt, TypeOK, AddBridgeDomain
<1>1. /\ vppUp' = vppUp /\ saved' = saved /\ fresh' = fresh /\ idx' = idx /\ file' = file
  BY DEF FieldStep, AddSetState, AddSetMtu, AddBridgeInterface, DelRemoveBridgeInterface, disk, proc
<1>2. \A i : Device(a, i) => Device(a, i)'
  BY SetsOrNot DEF Sets, Device
<1>3. Holding(a)'
  <2>1. CASE AddSetState(a)
    <3>1. CASE pc'[a] = "addFailed"
      BY <3>1 DEF Holding
    <3>2. CASE /\ fresh[a] /\ ifs' = [ifs EXCEPT ![idx[a]].up = TRUE]
               /\ pc'[a] \in {IF Conf[a].mtu THEN "aMtu" ELSE "aNet", "addFailed"}
      <4>1. Device(a, idx[a]) /\ (Conf[a].role = "master" => ifs[idx[a]].path \in file)
        BY <1>0, <2>1, <3>2 DEF AddSetState, Holding
      <4>2. ifs'[idx[a]].up /\ ifs'[idx[a]].path = ifs[idx[a]].path
        BY <1>0, <3>2, <4>1 DEF Device, Iface
      <4> QED
        BY <1>1, <1>2, <3>2, <4>1, <4>2 DEF Holding
    <3> QED
      BY <1>0, <2>1, <3>1, <3>2, Moves DEF AddSetState
  <2>2. CASE AddSetMtu(a)
    <3>1. CASE pc'[a] = "addFailed"
      BY <3>1 DEF Holding
    <3>2. CASE /\ fresh[a] /\ ifs' = [ifs EXCEPT ![idx[a]].mtu = TRUE]
               /\ pc'[a] \in {"aNet", "addFailed"}
      <4>1. /\ Device(a, idx[a]) /\ (Conf[a].role = "master" => ifs[idx[a]].path \in file)
            /\ ifs[idx[a]].up
        BY <1>0, <2>2, <3>2 DEF AddSetMtu, Holding
      <4>2. ifs'[idx[a]].mtu /\ ifs'[idx[a]].up /\ ifs'[idx[a]].path = ifs[idx[a]].path
        BY <1>0, <3>2, <4>1 DEF Device, Iface
      <4> QED
        BY <1>1, <1>2, <3>2, <4>1, <4>2 DEF Holding
    <3> QED
      BY <1>0, <2>2, <3>1, <3>2, Moves DEF AddSetMtu
  <2>3. CASE AddBridgeInterface(a)
    <3>1. CASE pc'[a] = "addFailed"
      BY <3>1 DEF Holding
    <3>2. CASE /\ fresh[a] /\ ifs' = [ifs EXCEPT ![idx[a]].bd = AddBridgeDomain(a)]
               /\ pc'[a] \in {"aSave", "addFailed"}
      <4>1. /\ Device(a, idx[a]) /\ (Conf[a].role = "master" => ifs[idx[a]].path \in file)
            /\ ifs[idx[a]].up /\ (Conf[a].mtu => ifs[idx[a]].mtu)
        BY <1>0, <2>3, <3>2 DEF AddBridgeInterface, Holding
      <4>2. /\ ifs'[idx[a]].bd = AddBridgeDomain(a) /\ ifs'[idx[a]].up = ifs[idx[a]].up
            /\ ifs'[idx[a]].mtu = ifs[idx[a]].mtu /\ ifs'[idx[a]].path = ifs[idx[a]].path
        BY <1>0, <3>2, <4>1 DEF Device, Iface
      <4> QED
        BY <1>0, <1>1, <1>2, <3>2, <4>1, <4>2 DEF Holding
    <3> QED
      BY <1>0, <2>3, <3>1, <3>2, Moves DEF AddBridgeInterface
  <2>4. CASE DelRemoveBridgeInterface(a)
    <3>1. pc'[a] \in {"dFindBd", "dDevice"}
      BY <1>0, <2>4, Moves DEF DelRemoveBridgeInterface
    <3> QED
      BY <3>1 DEF Holding
  <2> QED
    BY <2>1, <2>2, <2>3, <2>4 DEF FieldStep
<1>4. \/ pc[a] \in {"aState", "aMtu", "aJoin"} /\ pc'[a] \in {"aMtu", "aNet", "aSave", "addFailed"}
      \/ pc[a] = "dUnbridge" /\ pc'[a] \in {"dFindBd", "dDevice"}
  BY <1>0, Moves DEF FieldStep, AddSetState, AddSetMtu, AddBridgeInterface, DelRemoveBridgeInterface
<1> QED
  BY <1>1, <1>2, <1>3, <1>4, GoesOn DEF AddPc, DelPc, HoldsSaved

LEMMA SaveHolds ==
  ASSUME IInv, NEW a \in Att, RAtt(a), WAtt(a), AddSaveVppConfig(a)
  PROVE  WAtt(a)'
<1>0. /\ TypeOK /\ Holding(a) /\ ByIndex(a) /\ saved \in [Att -> SwIf \union {0, Torn}]
      /\ AddBridgeDomain(a)' = AddBridgeDomain(a)
  BY DEF IInv, WAtt, TypeOK, AddBridgeDomain
<1>1. /\ pc[a] = "aSave" /\ UNCHANGED <<vppUp, ifs, file, idx, fresh>>
      /\ \/ pc'[a] = "aIpam" /\ saved'[a] = idx[a]
         \/ pc'[a] = "addFailed" /\ saved'[a] \in {saved[a], Torn}
  BY <1>0, Moves DEF AddSaveVppConfig, vpp, proc
<1>2. saved[a] = 0 /\ Torn \notin SwIf /\ 0 \notin SwIf
  BY <1>1, VppAssumption DEF AddPc, RAtt, Recorded, Torn
<1>3. Holding(a)'
  BY <1>0, <1>1 DEF Holding, Has, Joined, Device
<1>4. ByIndex(a)'
  <2>1. "crash" \notin Faults => Device(a, idx[a])
    BY <1>0, <1>1 DEF ByIndex, AddPc, Holding, Has, Joined
  <2>2. "crash" \notin Faults => (saved'[a] \in SwIf => Device(a, saved[a])')
    BY <1>1, <1>2, <2>1 DEF Device
  <2> QED
    BY <1>0, <1>1, <2>2 DEF ByIndex, HoldsSaved, AddPc, DelPc
<1> QED
  BY <1>3, <1>4 DEF WAtt

LEMMA DelOpenHolds ==
  ASSUME IInv, NEW a \in Att, RAtt(a), WAtt(a), DelOpen(a)
  PROVE  WAtt(a)'
<1>0. TypeOK /\ ByIndex(a) /\ 0 \notin SwIf
  BY VppAssumption DEF IInv, WAtt
<1>1. /\ vppUp' = vppUp /\ ifs' = ifs /\ fresh'[a] = vppUp
      /\ \A i : Device(a, i) => Device(a, i)'
  BY <1>0 DEF DelOpen, vpp, TypeOK, Device
<1>2. \/ pc'[a] = "delFailed" /\ saved'[a] = saved[a] /\ idx'[a] = idx[a]
      \/ /\ vppUp /\ idx'[a] = saved[a] /\ saved'[a] = 0
         /\ pc'[a] \in {"dSock", "dUnbridge", "dDevice"}
  BY <1>0, Moves DEF DelOpen, LoadVppConfig, DelNetwork, TypeOK
<1>3. Holding(a)'
  BY <1>2 DEF Holding, Has, Joined
<1>4. ByIndex(a)'
  BY <1>0, <1>1, <1>2 DEF ByIndex, HoldsSaved, AddPc, DelPc
<1> QED
  BY <1>3, <1>4 DEF WAtt

LEMMA FindHolds ==
  ASSUME IInv, NEW a \in Att, RAtt(a), WAtt(a), DelFindMemifBySocket(a)
  PROVE  WAtt(a)'
<1>0. TypeOK /\ Fits(a) /\ ByIndex(a)
  BY DEF IInv, RAtt, WAtt
<1>1. /\ pc[a] = "dFind" /\ pc'[a] \in {"dUnbridge", "dDevice", "dFile"}
      /\ UNCHANGED <<vppUp, ifs, fresh, saved>>
  BY <1>0, Moves DEF DelFindMemifBySocket, DelNetwork, vpp, disk
<1>2. Conf[a].ifType = "memif"
  BY <1>0, <1>1 DEF Fits
<1>3. Holding(a)'
  BY <1>1 DEF Holding, Has, Joined
<1>4. ByIndex(a)'
  BY <1>0, <1>1, <1>2 DEF ByIndex, AddPc, DelPc
<1> QED
  BY <1>3, <1>4 DEF WAtt

LEMMA DeleteHolds ==
  ASSUME IInv, NEW a \in Att, RAtt(a), WAtt(a), DelDeleteMemifInterface(a) \/ DelDeleteVhostUserInterface(a)
  PROVE  WAtt(a)'
<1>0. TypeOK /\ ByIndex(a) /\ Recorded(a) /\ 0 \notin SwIf
  BY VppAssumption DEF IInv, RAtt, WAtt
<1>1. /\ pc[a] \in {"dDelete", "dDevice"} /\ UNCHANGED <<vppUp, idx, fresh, saved>>
      /\ pc'[a] \in {"dCnt", "dFile", "dFileErr", "delFailed"}
  BY <1>0, Moves DEF DelDeleteMemifInterface, DelDeleteVhostUserInterface, proc, disk
<1>2. saved[a] = 0
  BY <1>0, <1>1 DEF Recorded, DelPc
<1>3. Holding(a)'
  BY <1>1 DEF Holding, Has, Joined
<1>4. ByIndex(a)'
  BY <1>0, <1>1, <1>2 DEF ByIndex, AddPc, DelPc, HoldsSaved
<1> QED
  BY <1>3, <1>4 DEF WAtt

LEMMA OwnHolds ==
  ASSUME IInv, NEW a \in Att, RAtt(a), WAtt(a), Invocation(a)
  PROVE  WAtt(a)'
BY QuietHolds, OpenHolds, CreateHolds, FieldHolds, SaveHolds, DelOpenHolds, FindHolds, DeleteHolds
  DEF Invocation, AddStep, DelStep, QuietStep, FieldStep

-----------------------------------------------------------------------------
(* Bridge domains, and the invariant as a whole.                           *)

\* What a request on an interface does to the bridge domain it is in.
LEMMA SetsBridge ==
  ASSUME IInv, NEW a \in Att, FieldStep(a), NEW j \in SwIf
  PROVE  \/ ifs'[j].bd = ifs[j].bd
         \/ /\ AddBridgeInterface(a) /\ j = idx[a] /\ fresh[a]
            /\ ifs'[j].bd = AddBridgeDomain(a) /\ bds' = bds \union {AddBridgeDomain(a)}
         \/ DelRemoveBridgeInterface(a) /\ j = idx[a] /\ ifs'[j].bd = 0
<1>1. ifs \in [SwIf -> Iface] /\ ifs[j] \in Iface /\ TypeOK
  BY DEF IInv, TypeOK
<1>2. CASE AddSetState(a)
  BY <1>1, <1>2 DEF AddSetState, Iface
<1>3. CASE AddSetMtu(a)
  BY <1>1, <1>3 DEF AddSetMtu, Iface
<1>4. CASE AddBridgeInterface(a)
  <2>1. \/ ifs' = ifs
        \/ /\ fresh[a] /\ ifs' = [ifs EXCEPT ![idx[a]].bd = AddBridgeDomain(a)]
           /\ bds' = bds \union {AddBridgeDomain(a)}
    BY <1>4 DEF AddBridgeInterface, Replied
  <2> QED
    BY <1>1, <1>4, <2>1 DEF Iface
<1>5. CASE DelRemoveBridgeInterface(a)
  BY <1>1, <1>5 DEF DelRemoveBridgeInterface, Iface
<1> QED
  BY <1>2, <1>3, <1>4, <1>5 DEF FieldStep

LEMMA BridgesStayKnown ==
  ASSUME IInv, BridgesKnown, NEW a \in Att, Fits(a), Invocation(a)
  PROVE  BridgesKnown'
<1>1. CASE DelDeleteBridge(a)
  BY <1>1 DEF DelDeleteBridge, CanDelBridge, Members, BridgesKnown
<1>2. CASE ~DelDeleteBridge(a)
  <2>1. bds \subseteq bds'
    <3>1. CASE FieldStep(a) \/ AddCreateBridge(a)
      BY <3>1 DEF FieldStep, AddSetState, AddSetMtu, AddBridgeInterface, DelRemoveBridgeInterface,
        AddCreateBridge
    <3>2. CASE ~FieldStep(a) /\ ~AddCreateBridge(a)
      <4>1. UNCHANGED bds
        BY <1>2, <3>2 DEF Invocation, AddStep, DelStep, FieldStep, vpp, AddNoNetns, AddSaveVppConfig,
          AddIpam, AddOnContainer, DelUnknownDevice, DelFileCleanup, DelIpam, DelNetns, HungKilled,
          Killed, AddNetwork, AddFindBridge, DelFindBridge, AddOpen, AddFindMemifSocket, DelOpen,
          DelFindMemifSocket, DelFindMemifBySocket, DelFindMemifInterface, DelFindMemifSocketCnt,
          AddCreateMemifSocket, DelDeleteMemifSocket, AddCreateMemifInterface,
          AddCreateVhostUserInterface, DelDeleteMemifInterface, DelDeleteVhostUserInterface
      <4> QED
        BY <4>1
    <3> QED
      BY <3>1, <3>2
  <2>2. ASSUME NEW j \in SwIf, ifs'[j].bd # 0 PROVE ifs'[j].bd \in bds'
    <3>1. CASE FieldStep(a)
      BY <2>1, <2>2, <3>1, SetsBridge DEF BridgesKnown
    <3>2. CASE ifs' = ifs
      BY <2>1, <2>2, <3>2 DEF BridgesKnown
    <3>3. CASE Creates(a)
      BY <2>1, <2>2, <3>3 DEF Creates, BridgesKnown
    <3>4. CASE Deletes(a)
      BY <2>1, <2>2, <3>4 DEF Deletes, BridgesKnown, NoIf
    <3> QED
      BY <3>1, <3>2, <3>3, <3>4, Changes DEF Sets
  <2> QED
    BY <2>2 DEF BridgesKnown
<1> QED
  BY <1>1, <1>2

LEMMA InvocationKeepsVpp ==
  ASSUME NEW a \in Att, Invocation(a)
  PROVE  vppUp' = vppUp
BY DEF Invocation, AddStep, DelStep, AddNoNetns, AddSaveVppConfig, AddIpam, AddOnContainer,
  DelUnknownDevice, DelFileCleanup, DelIpam, DelNetns, HungKilled, Killed, AddNetwork,
  AddFindBridge, DelFindBridge, AddOpen, AddFindMemifSocket, DelOpen, DelFindMemifSocket,
  DelFindMemifBySocket, DelFindMemifInterface, DelFindMemifSocketCnt, AddCreateMemifSocket,
  DelDeleteMemifSocket, AddCreateMemifInterface, AddCreateVhostUserInterface,
  DelDeleteMemifInterface, DelDeleteVhostUserInterface, AddSetState, AddSetMtu,
  AddBridgeInterface, DelRemoveBridgeInterface, AddCreateBridge, DelDeleteBridge

LEMMA InitWInv == Init => WInv
<1> SUFFICES ASSUME Init PROVE WInv
  OBVIOUS
<1>1. BridgesKnown
  BY DEF Init, BridgesKnown, NoIf
<1>2. ASSUME NEW a \in Att PROVE RAtt(a) /\ WAtt(a)
  <2>1. pc[a] = "none" /\ saved[a] = 0 /\ idx[a] = 0 /\ vppUp /\ 0 \notin SwIf
    BY VppAssumption DEF Init
  <2> QED
    BY <2>1 DEF RAtt, WAtt, Holding, Recorded, ByIndex, Fits, Has, Joined, HoldsSaved, AddPc, DelPc
<1> QED
  BY <1>1, <1>2 DEF WInv

LEMMA NextWInv ==
  ASSUME Timely, IInv, WInv, [Next]_vars
  PROVE  WInv'
<1>1. CASE \E a \in Att : Invocation(a)
  <2>1. PICK a \in Att : Invocation(a)
    BY <1>1
  <2>2. RAtt(a) /\ WAtt(a) /\ Fits(a) /\ BridgesKnown
    BY DEF WInv, RAtt
  <2>3. StepOf(a) /\ Local(a) /\ DiskStep(a) /\ vppUp' = vppUp /\ Touches(a)
    BY <2>1, <2>2, InvocationPreserves, DiskLocal, InvocationKeepsVpp, TouchesAll DEF StepOf
  <2>4. BridgesKnown' /\ RAtt(a)' /\ WAtt(a)'
    BY <2>1, <2>2, BridgesStayKnown, OwnRecords, OwnHolds
  <2>5. ASSUME NEW b \in Att \ {a} PROVE RAtt(b)' /\ WAtt(b)'
    BY <2>3, OthersHold DEF WInv
  <2> QED
    BY <2>4, <2>5 DEF WInv
<1>2. CASE VppCrash
  <2>1. BridgesKnown'
    BY <1>2 DEF VppCrash, BridgesKnown, NoIf
  <2>2. ASSUME NEW a \in Att PROVE RAtt(a)' /\ WAtt(a)'
    <3>1. /\ pc' = pc /\ saved' = saved /\ idx' = idx /\ fresh'[a] = FALSE /\ "crash" \in Faults
      BY <1>2 DEF VppCrash, Fault, disk
    <3>2. RAtt(a) /\ WAtt(a)
      BY DEF WInv
    <3> QED
      BY <3>1, <3>2 DEF RAtt, WAtt, Holding, Recorded, ByIndex, Fits
  <2> QED
    BY <2>1, <2>2 DEF WInv
<1>3. CASE VppStart \/ UNCHANGED vars
  <2>1. UNCHANGED <<ifs, bds, saved, file, pc, idx, fresh>> /\ (vppUp => vppUp')
    BY <1>3 DEF VppStart, vars, vpp, disk, proc
  <2>2. BridgesKnown'
    BY <2>1 DEF WInv, BridgesKnown
  <2>3. ASSUME NEW a \in Att PROVE RAtt(a)' /\ WAtt(a)'
    BY <2>1 DEF WInv, RAtt, WAtt, Holding, Recorded, ByIndex, Fits, Device, AddBridgeDomain
  <2> QED
    BY <2>2, <2>3 DEF WInv
<1> QED
  BY <1>1, <1>2, <1>3, NextCases

LEMMA HoldingInvariance ==
  ASSUME Timely
  PROVE  Spec => [](IInv /\ WInv)
<1>1. Init => IInv /\ WInv
  BY InitIInv, InitWInv
<1>2. IInv /\ WInv /\ [Next]_vars => (IInv /\ WInv)'
  BY NextIInv, NextWInv
<1> QED
  BY <1>1, <1>2, PTL DEF Spec

(***************************************************************************)
(* No step of an ADD or a DEL of any kind touches another attachment's     *)
(* interface, as long as no VPP crash comes between the ADD of a           *)
(* vhost-user interface and its DEL, which goes by the saved index         *)
(* (delLocalDeviceVhostUser).                                              *)
(***************************************************************************)
THEOREM TouchesOnlyOwn ==
  ASSUME Timely
  PROVE  Spec => TouchesOwn
<1>1. ASSUME IInv, WInv, [Next]_vars, NEW a \in Att, pc'[a] # pc[a]
      PROVE  Touches(a)
  <2>1. CASE \E b \in Att : Invocation(b)
    <3>1. PICK b \in Att : Invocation(b)
      BY <2>1
    <3>2. StepOf(b) /\ Touches(b)
      BY <1>1, <3>1, InvocationPreserves, TouchesAll DEF WInv
    <3> QED
      BY <1>1, <3>2 DEF StepOf, Local
  <2>2. CASE VppCrash \/ VppStart \/ UNCHANGED vars
    BY <1>1, <2>2 DEF VppCrash, VppStart, vars
  <2> QED
    BY <1>1, <2>1, <2>2, NextCases
<1>2. IInv /\ WInv /\ [Next]_vars =>
        [\A a \in Att : pc'[a] # pc[a] =>
           \A i \in SwIf : ifs'[i] # ifs[i] =>
             /\ ifs[i].path \in Own(a) \union {NoPath}
             /\ ifs'[i].path \in Own(a) \union {NoPath}]_vars
  BY <1>1 DEF Touches
<1> QED
  BY <1>2, HoldingInvariance, PTL DEF Spec, TouchesOwn

(***************************************************************************)
(* While VPP lives, an ADD that returned success left the interface its    *)
(* NetConf asks for, and no ADD or DEL of another attachment takes any of  *)
(* it away, for any number of attachments and any interleaving.            *)
(***************************************************************************)
THEOREM AddedStaysWired ==
  ASSUME Timely
  PROVE  Spec => []AddedIsWired
<1>1. ASSUME IInv, WInv PROVE AddedIsWired
  <2> SUFFICES ASSUME NEW a \in Att, pc[a] = "added", fresh[a]
               PROVE  \E i \in InterfacesOf(a) :
                        /\ saved[a] = i
                        /\ ifs[i].kind = Conf[a].ifType
                        /\ Wired(a, i)
                        /\ ifs[i].bd # 0 => ifs[i].bd \in bds
                        /\ Conf[a].role = "master" => ifs[i].path \in file
    BY DEF AddedIsWired
  <2>1. Holding(a) /\ Recorded(a) /\ BridgesKnown
    BY <1>1 DEF WInv, RAtt, WAtt
  <2>2. /\ idx[a] \in InterfacesOf(a) /\ ifs[idx[a]].kind = Conf[a].ifType
        /\ Conf[a].role = "master" => ifs[idx[a]].path \in file
        /\ Wired(a, idx[a])
    BY <2>1 DEF Holding, Has, Joined, Device, InterfacesOf, Wired
  <2>3. saved[a] = idx[a] /\ (ifs[idx[a]].bd # 0 => ifs[idx[a]].bd \in bds)
    BY <2>1, <2>2 DEF Recorded, BridgesKnown, InterfacesOf
  <2> QED
    BY <2>2, <2>3
<1> QED
  BY <1>1, HoldingInvariance, PTL

-----------------------------------------------------------------------------
(* What is left of an attachment.                                          *)

\* The step makes no interface, socket or file of the attachment.
Fewer(a) ==
  /\ \A i \in SwIf : ifs'[i].path \in Own(a) =>
       ifs'[i].path = ifs[i].path /\ ifs'[i].kind = ifs[i].kind
  /\ file' \intersect Own(a) \subseteq file
  /\ seen \subseteq seen'

\* Then what Sighted says of the labels is all there is to show.
LEMMA Looks ==
  ASSUME NEW a \in Att, SAtt(a), Fewer(a), saved'[a] = saved[a],
         \A s \in SockId : socks'[s] \in Own(a) =>
           socks'[s] = socks[s] \/ ("nopod" \notin seen => socks'[s] = PathOf(a)),
         pc'[a] \in AddPc \union DelPc => pod'[a] = pod[a] /\ pc[a] \in AddPc \union DelPc,
         idx'[a] = idx[a] \/ (Conf[a].ifType = "memif" /\ pc'[a] \notin Has),
         pc'[a] \in First \union Last =>
           pc[a] \in First \union Last \/ ("nopod" \notin seen => InterfacesOf(a)' = {}),
         pc'[a] \in Swept => pc[a] \in Swept \/ ("nopod" \notin seen => file' \intersect Own(a) = {}),
         pc'[a] \in Has => pc[a] \in Has,
         pc'[a] \in HoldsSaved => pc[a] \in HoldsSaved \/ Conf[a].ifType = "memif",
         Addressed(a)'
  PROVE  SAtt(a)'
<1>1. \A i \in InterfacesOf(a)' : i \in InterfacesOf(a) /\ ifs'[i].path = ifs[i].path
                                    /\ ifs'[i].kind = ifs[i].kind
  BY DEF Fewer, InterfacesOf
<1>2. KindFits(a)'
  BY <1>1 DEF SAtt, KindFits
<1>3. Sighted(a)'
  <2> SUFFICES ASSUME "nopod" \notin seen'
               PROVE  Sighted(a)'
    BY DEF Sighted
  <2>1. "nopod" \notin seen
    BY DEF Fewer
  <2>2. pc'[a] \in AddPc \union DelPc => pod'[a]
    BY <2>1 DEF SAtt, Sighted
  <2>3. \A s \in SockId : socks'[s] \in Own(a) => socks'[s] = PathOf(a)'
    BY <2>1 DEF SAtt, Sighted, PathOf
  <2>4. \A i \in InterfacesOf(a)' : ifs'[i].path = PathOf(a)'
    BY <1>1, <2>1 DEF SAtt, Sighted, PathOf
  <2>5. file' \intersect Own(a) \subseteq {PathOf(a)'}
    BY <2>1 DEF SAtt, Sighted, PathOf, Fewer
  <2>6. \A i, j \in InterfacesOf(a)' : i = j
    BY <1>1, <2>1 DEF SAtt, Sighted
  <2>7. pc'[a] \in First \union Last => InterfacesOf(a)' = {}
    BY <1>1, <2>1 DEF SAtt, Sighted
  <2>8. pc'[a] \in Swept => file' \intersect Own(a) = {}
    BY <2>1 DEF SAtt, Sighted, Fewer
  <2>9. pc'[a] \in Has => InterfacesOf(a)' \subseteq {idx'[a]}
    BY <1>1, <2>1 DEF SAtt, Sighted
  <2>10. Conf[a].ifType = "vhostuser" =>
           /\ saved'[a] \in SwIf => InterfacesOf(a)' \subseteq {saved'[a]}
           /\ pc'[a] \in HoldsSaved /\ idx'[a] # 0 => InterfacesOf(a)' \subseteq {idx'[a]}
    BY <1>1, <2>1 DEF SAtt, Sighted
  <2> QED
    BY <2>2, <2>3, <2>4, <2>5, <2>6, <2>7, <2>8, <2>9, <2>10 DEF Sighted, Own
<1> QED
  BY <1>2, <1>3 DEF SAtt

LEMMA SeenGrows ==
  ASSUME NEW a \in Att, Invocation(a)
  PROVE  seen \subseteq seen'
<1> USE DEF env, Fault, Replied, Refused, GetPod
<1>1. CASE AddOpen(a) \/ AddNoNetns(a) \/ DelOpen(a) \/ HungKilled(a) \/ Killed(a)
  BY <1>1 DEF AddOpen, AddNoNetns, DelOpen, HungKilled, Killed
<1>2. CASE AddStep(a)
  BY <1>2 DEF AddStep, AddFindMemifSocket, AddCreateMemifSocket, AddCreateMemifInterface,
    AddCreateVhostUserInterface, AddSetState, AddSetMtu, AddNetwork, AddFindBridge,
    AddCreateBridge, AddBridgeInterface, AddSaveVppConfig, AddIpam, AddOnContainer
<1>3. CASE DelStep(a)
  BY <1>3 DEF DelStep, DelFindMemifSocket, DelFindMemifBySocket, DelRemoveBridgeInterface,
    DelFindBridge, DelDeleteBridge, DelFindMemifInterface, DelDeleteMemifInterface,
    DelFindMemifSocketCnt, DelDeleteMemifSocket, DelDeleteVhostUserInterface, DelUnknownDevice,
    DelFileCleanup, DelIpam, DelNetns
<1> QED
  BY <1>1, <1>2, <1>3 DEF Invocation

\* No other attachment's invocation adds anything to it.
LEMMA OthersSighted ==
  ASSUME IInv, NEW b \in Att, RAtt(b), Invocation(b), NEW a \in Att \ {b}, RAtt(a), SAtt(a)
  PROVE  RAtt(a)' /\ SAtt(a)'
<1>0. Fits(b)
  BY DEF RAtt
<1>1. StepOf(b) /\ DiskStep(b) /\ seen \subseteq seen'
  BY InvocationPreserves, DiskLocal, SeenGrows
<1>2. /\ pc'[a] = pc[a] /\ idx'[a] = idx[a] /\ pod'[a] = pod[a] /\ saved'[a] = saved[a]
      /\ (a \in ipam' <=> a \in ipam)
  BY <1>1 DEF StepOf, Local, DiskStep
<1>3. \A i \in SwIf : ifs'[i].path \in Own(a) =>
        ifs'[i].path = ifs[i].path /\ ifs'[i].kind = ifs[i].kind
  <2>1. CASE ifs' = ifs \/ Sets(b)
    BY <2>1 DEF Sets
  <2>2. CASE Creates(b)
    BY <2>2, OwnApart DEF Creates
  <2>3. CASE Deletes(b)
    BY <2>3, OwnApart DEF Deletes, NoIf
  <2> QED
    BY <1>0, <2>1, <2>2, <2>3, Changes
<1>4. file' \intersect Own(a) \subseteq file
  BY <1>1, OwnApart DEF DiskStep
<1>5. Fewer(a)
  BY <1>1, <1>3, <1>4 DEF Fewer
<1>6. \A s \in SockId : socks'[s] \in Own(a) => socks'[s] = socks[s]
  BY <1>1, OwnApart DEF StepOf, SocksStep
<1>7. Addressed(a)'
  BY <1>2 DEF SAtt, Addressed
<1>8. SAtt(a)'
  BY <1>2, <1>5, <1>6, <1>7, Looks
<1>9. RAtt(a)'
  BY <1>2 DEF RAtt, Recorded, Fits
<1> QED
  BY <1>8, <1>9

\* The socket file of an invocation that knows its pod.
LEMMA InSight ==
  ASSUME NEW a \in Att, SAtt(a), pc[a] \in AddPc \union DelPc, "nopod" \notin seen
  PROVE  SocketPath(a) = PathOf(a)
BY DEF SAtt, Sighted, SocketPath, PathOf

\* The steps that change neither an interface nor a socket, nor the socket file.
PlainStep(a) ==
  \/ AddNoNetns(a) \/ AddFindMemifSocket(a) \/ AddNetwork(a) \/ AddFindBridge(a)
  \/ AddCreateBridge(a) \/ AddIpam(a) \/ AddOnContainer(a) \/ DelFindBridge(a)
  \/ DelDeleteBridge(a) \/ DelFindMemifSocketCnt(a) \/ DelUnknownDevice(a) \/ DelIpam(a)
  \/ DelNetns(a) \/ HungKilled(a) \/ Killed(a)

LEMMA PlainSighted ==
  ASSUME IInv, NEW a \in Att, SAtt(a), PlainStep(a)
  PROVE  SAtt(a)'
<1>0. TypeOK
  BY DEF IInv
<1>1. UNCHANGED <<ifs, socks, file, saved, pod, idx>>
  BY DEF PlainStep, vpp, disk, proc, AddNoNetns, AddFindMemifSocket, AddNetwork, AddFindBridge,
    AddCreateBridge, AddIpam, AddOnContainer, DelFindBridge, DelDeleteBridge,
    DelFindMemifSocketCnt, DelUnknownDevice, DelIpam, DelNetns, HungKilled, Killed
<1>2. Fewer(a)
  BY <1>1, SeenGrows DEF Fewer, PlainStep, Invocation, AddStep, DelStep
<1>3. /\ pc'[a] \in AddPc \union DelPc => pc[a] \in AddPc \union DelPc
      /\ pc'[a] \in First \union Last => pc[a] \in First \union Last
      /\ pc'[a] \in Swept => pc[a] \in Swept
      /\ pc'[a] \in Has => pc[a] \in Has
      /\ pc'[a] \in HoldsSaved => pc[a] \in HoldsSaved
      /\ Addressed(a)'
  <2> USE DEF First, Last, Swept, Has, Joined, HoldsSaved, AddPc, DelPc, SAtt, Addressed
  <2>1. CASE AddNoNetns(a)
    BY <1>0, <2>1, Moves DEF AddNoNetns, disk
  <2>2. CASE AddFindMemifSocket(a)
    BY <1>0, <2>2, Moves DEF AddFindMemifSocket, disk
  <2>3. CASE AddNetwork(a)
    BY <1>0, <2>3, Moves DEF AddNetwork, disk
  <2>4. CASE AddFindBridge(a)
    BY <1>0, <2>4, Moves DEF AddFindBridge, disk
  <2>5. CASE AddCreateBridge(a)
    BY <1>0, <2>5, Moves DEF AddCreateBridge, disk
  <2>6. CASE AddIpam(a)
    BY <1>0, <2>6, Moves DEF AddIpam, disk
  <2>7. CASE AddOnContainer(a)
    BY <1>0, <2>7, Moves DEF AddOnContainer, disk
  <2>8. CASE DelFindBridge(a)
    BY <1>0, <2>8, Moves DEF DelFindBridge, disk
  <2>9. CASE DelDeleteBridge(a)
    BY <1>0, <2>9, Moves DEF DelDeleteBridge, disk
  <2>10. CASE DelFindMemifSocketCnt(a)
    BY <1>0, <2>10, Moves DEF DelFindMemifSocketCnt, disk
  <2>11. CASE DelUnknownDevice(a)
    BY <1>0, <2>11, Moves DEF DelUnknownDevice, disk
  <2>12. CASE DelIpam(a)
    BY <1>0, <2>12, Moves DEF DelIpam, disk
  <2>13. CASE DelNetns(a)
    BY <1>0, <2>13, Moves DEF DelNetns, disk
  <2>14. CASE HungKilled(a)
    BY <1>0, <2>14, Moves DEF HungKilled, disk, Failed
  <2>15. CASE Killed(a)
    BY <1>0, <2>15, Moves DEF Killed, disk, Failed
  <2> QED
    BY <2>1, <2>2, <2>3, <2>4, <2>5, <2>6, <2>7, <2>8, <2>9, <2>10, <2>11, <2>12, <2>13, <2>14, <2>15
      DEF PlainStep
<1> QED
  BY <1>1, <1>2, <1>3, Looks

\* ADD has registered the socket, DEL deletes it.
LEMMA SocketSighted ==
  ASSUME IInv, NEW a \in Att, SAtt(a), AddCreateMemifSocket(a) \/ DelDeleteMemifSocket(a)
  PROVE  SAtt(a)'
<1>0. TypeOK /\ StepOf(a) /\ AttInv(a)
  BY InvocationPreserves DEF IInv, Invocation, AddStep, DelStep
<1>1. UNCHANGED <<ifs, file, saved, ipam, pod, idx>>
  BY DEF AddCreateMemifSocket, DelDeleteMemifSocket, disk, proc
<1>2. Fewer(a)
  BY <1>1, SeenGrows DEF Fewer, Invocation, AddStep, DelStep
<1>3. \/ pc[a] = "aMkSock" /\ pc'[a] \in {"aMemif", "addFailed"}
      \/ pc[a] = "dRmSock" /\ pc'[a] \in {"dFile", "dFileErr"}
  BY <1>0, Moves DEF AddCreateMemifSocket, DelDeleteMemifSocket
<1>4. \A s \in SockId : socks'[s] \in {socks[s], SocketPath(a), NoPath}
  BY <1>0 DEF AddCreateMemifSocket, DelDeleteMemifSocket, TypeOK
<1>5. "nopod" \notin seen => SocketPath(a) = PathOf(a)
  BY <1>3, InSight DEF AddPc, DelPc
<1>6. \A s \in SockId : socks'[s] \in Own(a) =>
        socks'[s] = socks[s] \/ ("nopod" \notin seen => socks'[s] = PathOf(a))
  BY <1>4, <1>5, OwnApart
<1>7. Addressed(a)'
  BY <1>3 DEF Addressed
<1> QED
  BY <1>1, <1>2, <1>3, <1>6, <1>7, Looks DEF First, Last, Swept, Has, Joined, HoldsSaved, AddPc,
    DelPc

\* DEL looks for the memif by its socket, and takes none for gone that is there.
LEMMA LookupSighted ==
  ASSUME IInv, NEW a \in Att, RAtt(a), SAtt(a),
         DelFindMemifSocket(a) \/ DelFindMemifBySocket(a) \/ DelFindMemifInterface(a)
  PROVE  SAtt(a)'
<1>0. TypeOK /\ AttInv(a) /\ Fits(a) /\ SocketsConsistent /\ MemifPlaced
  BY DEF IInv, RAtt
<1>1. UNCHANGED <<ifs, socks, file, saved, ipam, pod>>
  BY DEF DelFindMemifSocket, DelFindMemifBySocket, DelFindMemifInterface, vpp, disk
<1>2. Fewer(a)
  BY <1>1, SeenGrows DEF Fewer, Invocation, DelStep
<1>3. /\ pc[a] \in {"dSock", "dFind", "dDevice"} /\ Conf[a].ifType = "memif" /\ fresh[a]
      /\ pc'[a] \in {"dFind", "dUnbridge", "dDevice", "dDelete", "dFile"}
  BY <1>0, Moves DEF DelFindMemifSocket, DelFindMemifBySocket, DelFindMemifInterface, DelNetwork,
    Fits
<1>4. ASSUME "nopod" \notin seen, pc'[a] = "dFile"
      PROVE  InterfacesOf(a)' = {}
  <2>1. SocketPath(a) = PathOf(a)
    BY <1>3, <1>4, InSight DEF DelPc
  <2>2. \A i \in InterfacesOf(a) :
          i \in SwIf /\ ifs[i].sid \in SockId /\ ifs[i].kind = "memif" /\ socks[ifs[i].sid] = PathOf(a)
    BY <1>0, <1>3, <1>4 DEF SAtt, Sighted, KindFits, InterfacesOf, SocketsConsistent, MemifPlaced
  <2>3. CASE DelFindMemifSocket(a)
    <3>1. \A s \in SockId : socks[s] # PathOf(a)
      BY <1>0, <1>4, <2>1, <2>3, Moves DEF DelFindMemifSocket, SocketsOf
    <3> QED
      BY <1>1, <2>2, <3>1 DEF InterfacesOf
  <2>4. CASE DelFindMemifBySocket(a)
    <3>1. MemifsOn(ifs, sid[a]) = {} /\ pc[a] = "dFind"
      BY <1>0, <1>4, <2>4, Moves DEF DelFindMemifBySocket, DelNetwork
    <3>2. sid[a] \in SockId /\ socks[sid[a]] = PathOf(a)
      BY <1>0, <1>3, <1>4, <3>1 DEF AttInv, SidOwned, HoldsSid, SAtt, Sighted
    <3>3. PathOf(a) # NoPath
      BY VppAssumption DEF PathOf, Path
    <3>4. \A i \in InterfacesOf(a) : ifs[i].sid = sid[a]
      BY <1>0, <2>2, <3>2, <3>3 DEF SocketsConsistent
    <3> QED
      BY <1>1, <2>2, <3>1, <3>4 DEF InterfacesOf, MemifsOn
  <2>5. CASE DelFindMemifInterface(a)
    <3>1. IsKind(ifs, idx[a], "memif") /\ pc[a] = "dDevice"
      BY <1>0, <1>3, <2>5 DEF DelFindMemifInterface, AttInv, IdxOwned, HoldsIdx, IsKind
    <3> QED
      BY <1>0, <1>4, <2>5, <3>1, Moves DEF DelFindMemifInterface
  <2> QED
    BY <2>3, <2>4, <2>5
<1>5. Addressed(a)'
  BY <1>3 DEF Addressed
<1> QED
  BY <1>1, <1>2, <1>3, <1>4, <1>5, Looks DEF First, Last, Swept, Has, Joined, HoldsSaved, AddPc,
    DelPc

\* The clean-up removes the only socket file there is.
LEMMA CleanupSighted ==
  ASSUME IInv, NEW a \in Att, SAtt(a), DelFileCleanup(a)
  PROVE  SAtt(a)'
<1>0. TypeOK
  BY DEF IInv
<1>1. UNCHANGED <<ifs, socks, saved, ipam, pod, idx>> /\ file' = file \ {SocketPath(a)}
  BY DEF DelFileCleanup, vpp, proc
<1>2. Fewer(a)
  BY <1>1, SeenGrows DEF Fewer, Invocation, DelStep
<1>3. \/ pc[a] = "dFile" /\ pc'[a] = "dIpam"
      \/ pc[a] = "dFileErr" /\ pc'[a] = "delFailed"
  BY <1>0, Moves DEF DelFileCleanup
<1>4. "nopod" \notin seen => file' \intersect Own(a) = {}
  BY <1>1, <1>3, InSight DEF SAtt, Sighted, DelPc
<1>5. Addressed(a)'
  BY <1>3 DEF Addressed
<1> QED
  BY <1>1, <1>2, <1>3, <1>4, <1>5, Looks DEF First, Last, Swept, Has, Joined, HoldsSaved, AddPc,
    DelPc

LEMMA FieldSighted ==
  ASSUME IInv, NEW a \in Att, SAtt(a), FieldStep(a)
  PROVE  SAtt(a)'
<1>0. TypeOK
  BY DEF IInv
<1>1. UNCHANGED <<socks, file, saved, ipam, pod, idx>>
  BY DEF FieldStep, AddSetState, AddSetMtu, AddBridgeInterface, DelRemoveBridgeInterface, disk, proc
<1>2. Fewer(a)
  BY <1>1, SeenGrows, SetsOrNot DEF Fewer, Sets, Invocation, DelStep, AddStep, FieldStep
<1>3. \/ pc[a] \in {"aState", "aMtu", "aJoin"} /\ pc'[a] \in {"aMtu", "aNet", "aSave", "addFailed"}
      \/ pc[a] = "dUnbridge" /\ pc'[a] \in {"dFindBd", "dDevice"}
  BY <1>0, Moves DEF FieldStep, AddSetState, AddSetMtu, AddBridgeInterface, DelRemoveBridgeInterface
<1>4. Addressed(a)'
  BY <1>3 DEF Addressed
<1> QED
  BY <1>1, <1>2, <1>3, <1>4, Looks DEF First, Last, Swept, Has, Joined, HoldsSaved, AddPc, DelPc

\* The interface DEL deletes is the last.
LEMMA DeleteSighted ==
  ASSUME IInv, NEW a \in Att, SAtt(a), DelDeleteMemifInterface(a) \/ DelDeleteVhostUserInterface(a)
  PROVE  SAtt(a)'
<1>0. TypeOK /\ AttInv(a)
  BY DEF IInv
<1>1. UNCHANGED <<socks, file, saved, ipam, pod, idx>>
  BY DEF DelDeleteMemifInterface, DelDeleteVhostUserInterface, disk, proc
<1>2. \/ ifs' = ifs /\ pc'[a] \in {"dFileErr", "delFailed"}
      \/ Deletes(a)
  BY DeletesOrNot
<1>3. Fewer(a)
  <2>1. \A i \in SwIf : ifs'[i].path \in Own(a) =>
          ifs'[i].path = ifs[i].path /\ ifs'[i].kind = ifs[i].kind
    BY <1>2, OwnApart DEF Deletes, NoIf
  <2> QED
    BY <1>1, <2>1, SeenGrows DEF Fewer, Invocation, DelStep
<1>4. pc[a] \in {"dDelete", "dDevice"} /\ pc'[a] \in {"dCnt", "dFileErr", "dFile", "delFailed"}
  BY <1>0, Moves DEF DelDeleteMemifInterface, DelDeleteVhostUserInterface
<1>5. ASSUME "nopod" \notin seen, Deletes(a)
      PROVE  InterfacesOf(a)' = {}
  <2>1. InterfacesOf(a) \subseteq {idx[a]}
    <3>1. CASE DelDeleteMemifInterface(a)
      <4>1. idx[a] \in InterfacesOf(a)
        BY <1>0, <1>5, <3>1 DEF DelDeleteMemifInterface, AttInv, LabelFits, IdxOwned, HoldsIdx,
          InterfacesOf, Deletes
      <4> QED
        BY <1>5, <4>1 DEF SAtt, Sighted
    <3>2. CASE DelDeleteVhostUserInterface(a)
      BY <1>5, <3>2, VppAssumption DEF DelDeleteVhostUserInterface, SAtt, Sighted, HoldsSaved, Deletes
    <3> QED
      BY <3>1, <3>2
  <2> QED
    BY <1>5, <2>1, OwnApart DEF Deletes, InterfacesOf, NoIf
<1>6. Addressed(a)'
  BY <1>4 DEF Addressed
<1> QED
  BY <1>1, <1>2, <1>3, <1>4, <1>5, <1>6, Looks DEF First, Last, Swept, Has, Joined, HoldsSaved,
    AddPc, DelPc

\* A new ADD or DEL: what is there is where the pod says, if it is found.
LEMMA OpenSighted ==
  ASSUME IInv, NEW a \in Att, RAtt(a), SAtt(a), AddOpen(a) \/ DelOpen(a)
  PROVE  SAtt(a)'
<1>0. TypeOK /\ 0 \notin SwIf /\ Torn \notin SwIf
  BY VppAssumption DEF IInv, Torn
<1>1. UNCHANGED <<ifs, socks, file, ipam>>
  BY DEF AddOpen, DelOpen, vpp, disk
<1>2. "nopod" \notin seen' => "nopod" \notin seen /\ pod'[a]
  BY <1>0 DEF AddOpen, DelOpen, GetPod, Fault, env, TypeOK
<1>3. \/ /\ pc[a] \in {"none", "deleted"} /\ pc'[a] \in {"aSock", "aVhost", "addFailed"}
         /\ saved'[a] = saved[a] /\ idx'[a] = idx[a]
      \/ pc'[a] = "delFailed" /\ saved'[a] = saved[a] /\ idx'[a] = idx[a]
      \/ /\ idx'[a] = saved[a] /\ saved'[a] = 0 /\ idx'[a] \in SwIf \union {0}
         /\ pc'[a] \in {"dSock", "dUnbridge", "dDevice"}
  BY <1>0, Moves DEF AddOpen, AddDevice, DelOpen, LoadVppConfig, DelNetwork, TypeOK, disk
<1>4. KindFits(a)' /\ Addressed(a)'
  BY <1>1, <1>3 DEF SAtt, KindFits, InterfacesOf, Addressed, Own
<1>5. Sighted(a)'
  <2> SUFFICES ASSUME "nopod" \notin seen'
               PROVE  Sighted(a)'
    BY DEF Sighted
  <2>1. Sighted(a) /\ "nopod" \notin seen /\ pod'[a] /\ InterfacesOf(a)' = InterfacesOf(a)
    BY <1>1, <1>2 DEF SAtt, InterfacesOf
  <2>2. /\ \A s \in SockId : socks'[s] \in Own(a) => socks'[s] = PathOf(a)'
        /\ \A i \in InterfacesOf(a)' : ifs'[i].path = PathOf(a)'
        /\ file' \intersect Own(a) \subseteq {PathOf(a)'}
        /\ \A i, j \in InterfacesOf(a)' : i = j
    BY <1>1, <2>1 DEF Sighted, PathOf
  <2>3. /\ pc'[a] \in First \union Last => InterfacesOf(a)' = {}
        /\ pc'[a] \notin Swept /\ pc'[a] \notin Has
    BY <1>3, <2>1 DEF Sighted, First, Last, Swept, Has, Joined
  <2>4. Conf[a].ifType = "vhostuser" =>
           /\ saved'[a] \in SwIf => InterfacesOf(a)' \subseteq {saved'[a]}
           /\ pc'[a] \in HoldsSaved /\ idx'[a] # 0 => InterfacesOf(a)' \subseteq {idx'[a]}
    BY <1>0, <1>3, <2>1 DEF Sighted, HoldsSaved
  <2> QED
    BY <2>1, <2>2, <2>3, <2>4 DEF Sighted, Own
<1> QED
  BY <1>4, <1>5 DEF SAtt

\* ADD makes the interface when there is none.
LEMMA CreateSighted ==
  ASSUME IInv, NEW a \in Att, RAtt(a), SAtt(a),
         AddCreateMemifInterface(a) \/ AddCreateVhostUserInterface(a)
  PROVE  SAtt(a)'
<1>0. TypeOK /\ Fits(a) /\ AttInv(a) /\ 0 \notin SwIf
  BY VppAssumption DEF IInv, RAtt
<1>1. UNCHANGED <<socks, saved, ipam, pod>> /\ pc[a] \in {"aMemif", "aVhost"} /\ saved[a] = 0
  BY DEF AddCreateMemifInterface, AddCreateVhostUserInterface, RAtt, Recorded, AddPc
<1>2. seen \subseteq seen'
  BY SeenGrows DEF Invocation, AddStep
<1>3. CASE UNCHANGED <<ifs, idx, file>> /\ pc'[a] = "addFailed"
  <2>1. Fewer(a) /\ Addressed(a)'
    BY <1>2, <1>3 DEF Fewer, Addressed
  <2> QED
    BY <1>1, <1>3, <2>1, Looks DEF First, Last, Swept, Has, Joined, HoldsSaved, AddPc, DelPc
<1>4. CASE Creates(a)
  <2>1. pc'[a] \in {"aState", "addFailed"} /\ idx'[a] \in SwIf
    BY <1>4 DEF Creates
  <2>2. \A i \in InterfacesOf(a)' : i = idx'[a] \/ (i \in InterfacesOf(a) /\ ifs'[i] = ifs[i])
    BY <1>4 DEF Creates, InterfacesOf
  <2>3. KindFits(a)' /\ Addressed(a)'
    BY <1>4, <2>1, <2>2 DEF SAtt, KindFits, Creates, Addressed
  <2>4. Sighted(a)'
    <3> SUFFICES ASSUME "nopod" \notin seen'
                 PROVE  Sighted(a)'
      BY DEF Sighted
    <3>1. Sighted(a) /\ "nopod" \notin seen /\ SocketPath(a) = PathOf(a)
      BY <1>1, <1>2, InSight DEF SAtt, AddPc
    <3>2. ifs'[idx'[a]].path = PathOf(a)
      <4>1. pc[a] = "aMemif" => sid[a] \in SockId /\ socks[sid[a]] \in Own(a)
        BY <1>0, <1>4 DEF Creates, AttInv, SidOwned, HoldsSid
      <4> QED
        BY <1>1, <1>4, <3>1, <4>1 DEF Creates, Sighted
    <3>3. InterfacesOf(a)' \subseteq {idx'[a]}
      BY <1>1, <2>2, <3>1 DEF Sighted, First
    <3>4. /\ \A s \in SockId : socks'[s] \in Own(a) => socks'[s] = PathOf(a)'
          /\ \A i \in InterfacesOf(a)' : ifs'[i].path = PathOf(a)'
          /\ file' \intersect Own(a) \subseteq {PathOf(a)'}
          /\ \A i, j \in InterfacesOf(a)' : i = j
      <4>1. file' \subseteq file \union {PathOf(a)}
        BY <1>4, <3>2 DEF Creates
      <4> QED
        BY <1>1, <3>1, <3>2, <3>3, <4>1 DEF Sighted, PathOf
    <3>5. pod'[a] /\ pc'[a] \notin First \union Last \union Swept \union HoldsSaved
      BY <1>1, <2>1, <3>1 DEF Sighted, AddPc, First, Last, Swept, HoldsSaved
    <3> QED
      BY <1>0, <1>1, <3>3, <3>4, <3>5 DEF Sighted, Own
  <2> QED
    BY <2>3, <2>4 DEF SAtt
<1> QED
  BY <1>0, <1>3, <1>4, CreatesOrNot

LEMMA SaveSighted ==
  ASSUME IInv, NEW a \in Att, SAtt(a), AddSaveVppConfig(a)
  PROVE  SAtt(a)'
<1>0. TypeOK /\ Torn \notin SwIf
  BY VppAssumption DEF IInv, Torn
<1>1. /\ pc[a] = "aSave" /\ UNCHANGED <<ifs, socks, file, ipam, pod, idx>>
      /\ \/ pc'[a] = "aIpam" /\ saved'[a] = idx[a]
         \/ pc'[a] = "addFailed" /\ saved'[a] \in {saved[a], Torn}
  BY <1>0, Moves DEF AddSaveVppConfig, vpp, proc, TypeOK
<1>2. KindFits(a)' /\ Addressed(a)'
  BY <1>1 DEF SAtt, KindFits, InterfacesOf, Addressed, Own
<1>3. Sighted(a)'
  <2> SUFFICES ASSUME "nopod" \notin seen'
               PROVE  Sighted(a)'
    BY DEF Sighted
  <2>1. seen \subseteq seen'
    BY SeenGrows DEF Invocation, AddStep
  <2>2. Sighted(a) /\ "nopod" \notin seen /\ InterfacesOf(a)' = InterfacesOf(a)
    BY <1>1, <2>1 DEF SAtt, InterfacesOf
  <2>3. InterfacesOf(a) \subseteq {idx[a]} /\ pod[a]
    BY <1>1, <2>2 DEF Sighted, Has, Joined, AddPc
  <2>4. /\ \A s \in SockId : socks'[s] \in Own(a) => socks'[s] = PathOf(a)'
        /\ \A i \in InterfacesOf(a)' : ifs'[i].path = PathOf(a)'
        /\ file' \intersect Own(a) \subseteq {PathOf(a)'}
        /\ \A i, j \in InterfacesOf(a)' : i = j
    BY <1>1, <2>2 DEF Sighted, PathOf
  <2>5. Conf[a].ifType = "vhostuser" /\ saved'[a] \in SwIf => InterfacesOf(a)' \subseteq {saved'[a]}
    BY <1>0, <1>1, <2>2, <2>3 DEF Sighted
  <2>6. pc'[a] \notin First \union Last \union Swept \union HoldsSaved
    BY <1>1 DEF First, Last, Swept, HoldsSaved
  <2> QED
    BY <1>1, <2>2, <2>3, <2>4, <2>5, <2>6 DEF Sighted, Own
<1> QED
  BY <1>2, <1>3 DEF SAtt

LEMMA OwnSighted ==
  ASSUME IInv, NEW a \in Att, RAtt(a), SAtt(a), Invocation(a)
  PROVE  SAtt(a)'
BY PlainSighted, SocketSighted, LookupSighted, CleanupSighted, FieldSighted, DeleteSighted,
  OpenSighted, CreateSighted, SaveSighted
  DEF Invocation, AddStep, DelStep, PlainStep, FieldStep

LEMMA InitSInv == Init => SInv
<1> SUFFICES ASSUME Init, NEW a \in Att PROVE RAtt(a) /\ SAtt(a)
  BY DEF SInv
<1>1. pc[a] = "none" /\ saved[a] = 0 /\ idx[a] = 0 /\ 0 \notin SwIf
  BY VppAssumption DEF Init
<1>2. RAtt(a)
  BY <1>1 DEF RAtt, Recorded, Fits, AddPc, DelPc
<1>3. InterfacesOf(a) = {} /\ file = {} /\ \A s \in SockId : socks[s] \notin Own(a)
  BY OwnApart DEF Init, InterfacesOf, NoIf
<1>4. SAtt(a)
  BY <1>1, <1>3 DEF SAtt, Sighted, Addressed, KindFits, AddPc, DelPc, First, Last, Swept, Has, Joined,
    HoldsSaved
<1> QED
  BY <1>2, <1>4

LEMMA NextSInv ==
  ASSUME IInv, SInv, [Next]_vars
  PROVE  SInv'
<1>1. CASE \E a \in Att : Invocation(a)
  <2>1. PICK a \in Att : Invocation(a)
    BY <1>1
  <2>2. RAtt(a)' /\ SAtt(a)'
    BY <2>1, OwnRecords, OwnSighted DEF SInv
  <2>3. ASSUME NEW b \in Att \ {a} PROVE RAtt(b)' /\ SAtt(b)'
    BY <2>1, OthersSighted DEF SInv
  <2> QED
    BY <2>2, <2>3 DEF SInv
<1>2. CASE VppCrash
  <2> SUFFICES ASSUME NEW a \in Att PROVE RAtt(a)' /\ SAtt(a)'
    BY DEF SInv
  <2>1. UNCHANGED <<file, saved, ipam, pc, pod, idx>> /\ RAtt(a) /\ SAtt(a) /\ seen \subseteq seen'
    BY <1>2 DEF VppCrash, disk, SInv, Fault
  <2>2. /\ \A i \in SwIf : ifs'[i].path \notin Own(a)
        /\ \A s \in SockId : socks'[s] \notin Own(a)
    BY <1>2, OwnApart DEF VppCrash, NoIf
  <2>3. RAtt(a)' /\ Addressed(a)'
    BY <2>1 DEF RAtt, Recorded, Fits, SAtt, Addressed
  <2>4. Fewer(a)
    BY <2>1, <2>2 DEF Fewer
  <2> QED
    BY <2>1, <2>2, <2>3, <2>4, Looks
<1>3. CASE VppStart \/ UNCHANGED vars
  <2> SUFFICES ASSUME NEW a \in Att PROVE RAtt(a)' /\ SAtt(a)'
    BY DEF SInv
  <2>1. UNCHANGED <<ifs, socks, file, saved, ipam, pc, pod, idx, seen>> /\ RAtt(a) /\ SAtt(a)
    BY <1>3 DEF VppStart, vars, vpp, disk, proc, env, SInv
  <2>2. RAtt(a)' /\ Addressed(a)'
    BY <2>1 DEF RAtt, Recorded, Fits, SAtt, Addressed
  <2>3. Fewer(a)
    BY <2>1 DEF Fewer
  <2> QED
    BY <2>1, <2>2, <2>3, Looks
<1> QED
  BY <1>1, <1>2, <1>3, NextCases

LEMMA SightedInvariance == Spec => [](IInv /\ SInv)
<1>1. Init => IInv /\ SInv
  BY InitIInv, InitSInv
<1>2. IInv /\ SInv /\ [Next]_vars => (IInv /\ SInv)'
  BY NextIInv, NextSInv
<1> QED
  BY <1>1, <1>2, PTL DEF Spec

(***************************************************************************)
(* A DEL that returned success left nothing of the attachment, whatever    *)
(* faults came before and however many attempts it took: its lookups by    *)
(* the socket (FindMemifBySocket) never take a memif that is there for     *)
(* gone, and a vhost-user DEL that does not find the interface under the   *)
(* saved index fails.  Only an invocation that missed its pod leaves       *)
(* something, in the other directory.                                      *)
(***************************************************************************)
THEOREM DeletedStaysGone == Spec => []DeletedIsGone
<1>1. SInv => DeletedIsGone
  <2> SUFFICES ASSUME SInv, NEW a \in Att, pc[a] = "deleted"
               PROVE  /\ saved[a] = 0
                      /\ a \notin ipam
                      /\ "nopod" \notin seen => InterfacesOf(a) = {} /\ file \intersect Own(a) = {}
    BY DEF DeletedIsGone
  <2>1. Recorded(a) /\ Addressed(a) /\ Sighted(a)
    BY DEF SInv, RAtt, SAtt
  <2> QED
    BY <2>1 DEF Recorded, Addressed, Sighted, Last, Swept
<1> QED
  BY <1>1, SightedInvariance, PTL

-----------------------------------------------------------------------------
(* Who deletes the sockets and the bridge domains.                         *)

\* The invariants so far, and what a step of an invocation does.
Promised == IInv /\ WInv /\ SInv

\* The interfaces and sockets of the attachments other than the one that steps.
LEMMA OthersSame ==
  ASSUME Timely, Promised, NEW b \in Att, Invocation(b), NEW a \in Att \ {b}
  PROVE  /\ InterfacesOf(a)' = InterfacesOf(a) /\ SocksOf(a)' = SocksOf(a)
         /\ \A i \in InterfacesOf(a) : ifs'[i] = ifs[i]
         /\ pc'[a] = pc[a] /\ idx'[a] = idx[a] /\ fresh'[a] = fresh[a]
         /\ seen \subseteq seen'
<1>1. StepOf(b) /\ Touches(b) /\ seen \subseteq seen'
  BY InvocationPreserves, TouchesAll, SeenGrows DEF Promised, WInv
<1>2. \A i \in SwIf : ifs[i].path \in Own(a) \/ ifs'[i].path \in Own(a) => ifs'[i] = ifs[i]
  BY <1>1, OwnApart DEF Touches
<1>3. \A s \in SockId : socks[s] \in Own(a) \/ socks'[s] \in Own(a) => socks'[s] = socks[s]
  BY <1>1, OwnApart DEF StepOf, SocksStep
<1>4. InterfacesOf(a)' = InterfacesOf(a) /\ \A i \in InterfacesOf(a) : ifs'[i] = ifs[i]
  BY <1>2 DEF InterfacesOf, Own
<1>5. SocksOf(a)' = SocksOf(a)
  BY <1>3 DEF SocksOf, Own
<1> QED
  BY <1>1, <1>4, <1>5 DEF StepOf, Local

LEMMA OthersKeep ==
  ASSUME Timely, Promised, NEW b \in Att, Invocation(b), NEW a \in Att \ {b}, LAtt(a)
  PROVE  LAtt(a)'
<1>1. /\ InterfacesOf(a)' = InterfacesOf(a) /\ SocksOf(a)' = SocksOf(a)
      /\ \A i \in InterfacesOf(a) : ifs'[i] = ifs[i]
      /\ pc'[a] = pc[a] /\ idx'[a] = idx[a] /\ fresh'[a] = fresh[a]
      /\ seen \subseteq seen'
  BY OthersSame
<1>2. Calm' => Calm
  BY <1>1 DEF Calm
<1> QED
  BY <1>1, <1>2 DEF LAtt, Registered, Outlived, Kept, Unbridged

\* What an ADD or a DEL does to its own interfaces and sockets.
LEMMA OwnSocks ==
  ASSUME IInv, NEW a \in Att, Invocation(a), ~AddCreateMemifSocket(a), ~DelDeleteMemifSocket(a)
  PROVE  socks' = socks
BY DEF Invocation, AddStep, DelStep, vpp, AddNoNetns, AddSaveVppConfig, AddIpam, AddOnContainer,
  DelUnknownDevice, DelFileCleanup, DelIpam, DelNetns, HungKilled, Killed, AddNetwork,
  AddFindBridge, DelFindBridge, AddOpen, AddFindMemifSocket, DelOpen, DelFindMemifSocket,
  DelFindMemifBySocket, DelFindMemifInterface, DelFindMemifSocketCnt, AddCreateMemifInterface,
  AddCreateVhostUserInterface, DelDeleteMemifInterface, DelDeleteVhostUserInterface, AddSetState,
  AddSetMtu, AddBridgeInterface, DelRemoveBridgeInterface, AddCreateBridge, DelDeleteBridge

LEMMA OwnRegistered ==
  ASSUME Promised, NEW a \in Att, Invocation(a), Registered(a)
  PROVE  Registered(a)'
<1>0. TypeOK /\ Fits(a)
  BY DEF Promised, IInv, SInv, RAtt
<1>1. CASE AddCreateMemifSocket(a)
  BY <1>0, <1>1 DEF AddCreateMemifSocket, Fits, Registered
<1>2. CASE DelDeleteMemifSocket(a)
  BY <1>0, <1>2 DEF DelDeleteMemifSocket, Fits, Registered
<1>3. CASE ~AddCreateMemifSocket(a) /\ ~DelDeleteMemifSocket(a)
  BY <1>3, OwnSocks DEF Promised, Registered, SocksOf, Own
<1> QED
  BY <1>1, <1>2, <1>3

Running == AddPc \union DelPc

\* An invocation that goes on has the connection it had, and one without a connection
\* makes nothing.
LEMMA OwnOutlived ==
  ASSUME Promised, NEW a \in Att, Invocation(a), Outlived(a)
  PROVE  Outlived(a)'
<1>0. TypeOK /\ IInv /\ Fits(a)
  BY DEF Promised, IInv, SInv, RAtt
<1>1. CASE AddOpen(a) \/ DelOpen(a)
  <2>1. pc'[a] \in Running => vppUp /\ fresh'[a]
    BY <1>0, <1>1, Moves DEF AddOpen, DelOpen, TypeOK, Running, AddPc, DelPc
  <2> QED
    BY <2>1 DEF Outlived, Running
<1>2. CASE ~AddOpen(a) /\ ~DelOpen(a)
  <2>1. fresh' = fresh
    BY <1>2 DEF Invocation, AddStep, DelStep, proc, AddNoNetns, AddSaveVppConfig, AddIpam,
      AddOnContainer, DelUnknownDevice, DelFileCleanup, DelIpam, DelNetns, HungKilled, Killed,
      AddNetwork, AddFindBridge, DelFindBridge, AddFindMemifSocket, DelFindMemifSocket,
      DelFindMemifBySocket, DelFindMemifInterface, DelFindMemifSocketCnt, AddCreateMemifSocket,
      DelDeleteMemifSocket, AddCreateMemifInterface, AddCreateVhostUserInterface,
      DelDeleteMemifInterface, DelDeleteVhostUserInterface, AddSetState, AddSetMtu,
      AddBridgeInterface, DelRemoveBridgeInterface, AddCreateBridge, DelDeleteBridge
  <2>2. pc'[a] \in Running => pc[a] \in Running
    <3>1. CASE AddNoNetns(a)
      BY <1>0, <3>1, Moves DEF AddNoNetns, Running, AddPc, DelPc
    <3>2. CASE ~AddNoNetns(a)
      BY <1>2, <3>2 DEF Running, AddPc, DelPc, Invocation, AddStep, DelStep, AddSaveVppConfig,
        AddIpam, AddOnContainer, DelUnknownDevice, DelFileCleanup, DelIpam, DelNetns, HungKilled,
        Killed, DumpPc, AddNetwork, AddFindBridge, DelFindBridge, AddFindMemifSocket,
        DelFindMemifSocket, DelFindMemifBySocket, DelFindMemifInterface, DelFindMemifSocketCnt,
        AddCreateMemifSocket, DelDeleteMemifSocket, AddCreateMemifInterface,
        AddCreateVhostUserInterface, DelDeleteMemifInterface, DelDeleteVhostUserInterface,
        AddSetState, AddSetMtu, AddBridgeInterface, DelRemoveBridgeInterface, AddCreateBridge,
        DelDeleteBridge
    <3> QED
      BY <3>1, <3>2
  <2>3. ~fresh[a] => ifs' = ifs /\ socks' = socks
    <3>1. ~fresh[a] => ifs' = ifs
      BY <1>0, Changes DEF Sets, Creates, Deletes
    <3>2. ~fresh[a] => socks' = socks
      BY <1>0, OwnSocks DEF AddCreateMemifSocket, DelDeleteMemifSocket, Replied
    <3> QED
      BY <3>1, <3>2
  <2> QED
    BY <2>1, <2>2, <2>3 DEF Outlived, Running, InterfacesOf, SocksOf, Own
<1> QED
  BY <1>1, <1>2

\* Without a request that failed or timed out and without a killed invocation.
LEMMA CalmMoves ==
  ASSUME TypeOK, NEW a \in Att, Calm'
  PROVE  /\ \A ok, err : Replied(a, ok, err) => fresh[a] /\ pc'[a] = ok
         /\ \A can, err : Refused(a, can, err) => pc'[a] = err /\ (~fresh[a] \/ ~can)
         /\ ~Killed(a)
<1>1. \A f : Fault(f) => f \in seen'
  BY DEF Fault
<1>2. "timeout" \notin seen' /\ "api" \notin seen' /\ "kill" \notin seen'
  BY DEF Calm
<1> QED
  BY <1>1, <1>2, Moves DEF Replied, Refused, Killed

\* A memif on the socket an invocation holds is the attachment's.
LEMMA OnOwnSocket ==
  ASSUME IInv, NEW a \in Att, pc[a] \in HoldsSid, fresh[a]
  PROVE  /\ sid[a] \in SockId /\ socks[sid[a]] \in Own(a) /\ socks[sid[a]] # NoPath
         /\ MemifsOn(ifs, sid[a]) \subseteq InterfacesOf(a)
<1>1. sid[a] \in SockId /\ socks[sid[a]] \in Own(a)
  BY DEF IInv, AttInv, SidOwned
<1> QED
  BY <1>1, OwnApart DEF IInv, SocketsConsistent, MemifsOn, InterfacesOf

LEMMA OwnKept ==
  ASSUME Promised, NEW a \in Att, Invocation(a), Registered(a), Outlived(a), Kept(a)
  PROVE  Kept(a)'
<1> SUFFICES ASSUME Calm', SocksOf(a)' # {}, InterfacesOf(a)' = {}
             PROVE  pc'[a] \in {"aMemif", "dCnt", "dRmSock"}
  BY DEF Kept
<1>0. TypeOK /\ IInv /\ Fits(a) /\ AttInv(a)
  BY DEF Promised, IInv, SInv, RAtt
<1>1. Calm /\ "nopod" \notin seen
  BY SeenGrows DEF Calm
<1>2. CASE AddCreateMemifSocket(a)
  <2>1. CASE pc'[a] = "aMemif"
    BY <2>1
  <2>2. CASE UNCHANGED socks
    <3>1. ifs' = ifs /\ pc[a] = "aMkSock"
      BY <1>2 DEF AddCreateMemifSocket
    <3> QED
      BY <1>1, <2>2, <3>1 DEF Kept, SocksOf, InterfacesOf, Own
  <2> QED
    BY <1>0, <1>2, <2>1, <2>2, CalmMoves DEF AddCreateMemifSocket
<1>3. CASE DelDeleteMemifSocket(a)
  <2>1. ifs' = ifs /\ pc[a] = "dRmSock"
    BY <1>3 DEF DelDeleteMemifSocket
  <2>2. CASE fresh[a]
    <3>1. /\ sid[a] \in SockId /\ socks[sid[a]] \in Own(a) /\ socks[sid[a]] # NoPath
          /\ MemifsOn(ifs, sid[a]) \subseteq InterfacesOf(a)
      BY <1>0, <2>1, <2>2, OnOwnSocket DEF HoldsSid
    <3>2. InterfacesOf(a) = {}
      BY <2>1 DEF InterfacesOf, Own
    <3>3. CanDelSocket(ifs, socks, sid[a])
      BY <3>1, <3>2 DEF CanDelSocket
    <3>4. socks' = [socks EXCEPT ![sid[a]] = NoPath]
      BY <1>0, <1>3, <2>2, <3>3, CalmMoves DEF DelDeleteMemifSocket
    <3>5. \A s \in SockId : socks[s] \in Own(a) => s = sid[a]
      <4>1. Sighted(a) /\ SocketsConsistent
        BY DEF Promised, SInv, SAtt, IInv
      <4>2. \A s \in SockId : socks[s] \in Own(a) => socks[s] = PathOf(a)
        BY <1>1, <4>1 DEF Sighted
      <4> QED
        BY <3>1, <4>1, <4>2 DEF SocketsConsistent
    <3>6. \A s \in SockId : socks'[s] \notin Own(a)
      BY <1>0, <3>1, <3>4, <3>5, OwnApart DEF TypeOK
    <3> QED
      BY <3>6 DEF SocksOf, Own
  <2>3. CASE ~fresh[a]
    <3>1. socks' = socks
      BY <1>3, <2>3 DEF DelDeleteMemifSocket, Replied
    <3> QED
      BY <2>1, <2>3, <3>1 DEF Outlived, DelPc, SocksOf, Own
  <2> QED
    BY <2>2, <2>3
<1>4. CASE ~AddCreateMemifSocket(a) /\ ~DelDeleteMemifSocket(a)
  <2>1. SocksOf(a) # {} /\ Conf[a].ifType = "memif"
    BY <1>0, <1>4, OwnSocks DEF SocksOf, Own, Registered
  <2>2. pc[a] \in Running => fresh[a]
    BY <2>1 DEF Outlived, Running
  <2>3. CASE InterfacesOf(a) # {}
    <3>1. ifs' # ifs
      BY <2>3 DEF InterfacesOf, Own
    <3>2. CASE Sets(a)
      BY <2>3, <3>2 DEF Sets, InterfacesOf, Own
    <3>3. CASE Creates(a)
      BY <3>3 DEF Creates, InterfacesOf, Own
    <3>4. CASE Deletes(a)
      <4>1. DelDeleteMemifInterface(a)
        BY <2>1, <3>4 DEF Deletes, DelDeleteVhostUserInterface
      <4>2. pc'[a] = "dCnt"
        <5>1. IsKind(ifs, idx[a], "memif") /\ fresh[a]
          BY <2>1, <3>4 DEF Deletes, IsKind
        <5> QED
          BY <1>0, <4>1, <5>1, CalmMoves DEF DelDeleteMemifInterface
      <4> QED
        BY <4>2
    <3> QED
      BY <1>0, <3>1, <3>2, <3>3, <3>4, Changes
  <2>4. CASE InterfacesOf(a) = {}
    <3>1. pc[a] \in {"aMemif", "dCnt", "dRmSock"} /\ fresh[a]
      BY <1>1, <2>1, <2>2, <2>4 DEF Kept, Running, AddPc, DelPc
    <3>2. /\ sid[a] \in SockId /\ socks[sid[a]] # NoPath
          /\ MemifsOn(ifs, sid[a]) = {}
      BY <1>0, <2>4, <3>1, OnOwnSocket DEF HoldsSid
    <3>3. AddCreateMemifInterface(a) \/ DelFindMemifSocketCnt(a)
      <4>1. ~HungKilled(a) /\ ~Killed(a)
        BY <1>0, <3>1, CalmMoves DEF HungKilled
      <4> QED
        BY <1>4, <3>1, <4>1 DEF Invocation, AddStep, DelStep, AddOpen, AddNoNetns,
          AddSaveVppConfig, AddIpam, AddOnContainer, DelOpen, DelUnknownDevice, DelFileCleanup,
          DelIpam, DelNetns, AddNetwork, AddFindBridge, DelFindBridge, AddFindMemifSocket,
          DelFindMemifSocket, DelFindMemifBySocket, DelFindMemifInterface,
          AddCreateVhostUserInterface, DelDeleteMemifInterface, DelDeleteVhostUserInterface,
          AddSetState, AddSetMtu, AddBridgeInterface, DelRemoveBridgeInterface, AddCreateBridge,
          DelDeleteBridge
    <3>4. CASE AddCreateMemifInterface(a)
      <4>1. CanCreateMemif(ifs, socks, sid[a])
        BY <3>2 DEF CanCreateMemif
      <4>2. pc'[a] = "aState"
        BY <1>0, <3>1, <3>4, <4>1, CalmMoves DEF AddCreateMemifInterface
      <4>3. Creates(a)
        BY <1>0, <3>4, <4>2, CreatesOrNot
      <4> QED
        BY <4>3 DEF Creates, InterfacesOf, Own
    <3>5. CASE DelFindMemifSocketCnt(a)
      BY <1>0, <3>2, <3>5, Moves DEF DelFindMemifSocketCnt
    <3> QED
      BY <3>3, <3>4, <3>5
  <2> QED
    BY <2>3, <2>4
<1> QED
  BY <1>2, <1>3, <1>4

Late == {"dFindBd", "dRmBd", "dDevice", "dDelete"}

\* The interface of an attachment is one to VPP.
LEMMA OwnIsIndex ==
  ASSUME Promised, NEW a \in Att, NEW i \in InterfacesOf(a)
  PROVE  IsIndex(ifs, i)
<1>1. i \in SwIf /\ ifs[i].kind = Conf[a].ifType
  BY DEF Promised, SInv, SAtt, KindFits, InterfacesOf
<1> QED
  BY <1>1, CniVppAssumption DEF IsIndex, ConfType

LEMMA OwnUnbridged ==
  ASSUME Promised, NEW a \in Att, Invocation(a), MembersOwn, Outlived(a), Unbridged(a)
  PROVE  Unbridged(a)'
<1> SUFFICES ASSUME Calm', pc'[a] \in Late, idx'[a] \in InterfacesOf(a)'
             PROVE  ifs'[idx'[a]].bd = 0
  BY DEF Unbridged, Late
<1>0. TypeOK /\ IInv /\ Fits(a) /\ AttInv(a) /\ idx'[a] \in SwIf
  BY DEF Promised, IInv, SInv, RAtt, InterfacesOf
<1>1. Calm
  BY SeenGrows DEF Calm
<1>2. CASE pc[a] \in Late
  <2>1. DelFindBridge(a) \/ DelDeleteBridge(a) \/ DelFindMemifInterface(a)
        \/ DelDeleteMemifInterface(a) \/ DelDeleteVhostUserInterface(a) \/ DelUnknownDevice(a)
        \/ HungKilled(a) \/ Killed(a)
    BY <1>2 DEF Late, Invocation, AddStep, DelStep, AddOpen, AddNoNetns, AddSaveVppConfig, AddIpam,
      AddOnContainer, DelOpen, DelFileCleanup, DelIpam, DelNetns, AddNetwork, AddFindBridge,
      AddFindMemifSocket, DelFindMemifSocket, DelFindMemifBySocket, DelFindMemifSocketCnt,
      AddCreateMemifSocket, DelDeleteMemifSocket, AddCreateMemifInterface,
      AddCreateVhostUserInterface, AddSetState, AddSetMtu, AddBridgeInterface,
      DelRemoveBridgeInterface, AddCreateBridge
  <2>2. idx' = idx
    BY <2>1 DEF DelFindBridge, DelDeleteBridge, DelFindMemifInterface, DelDeleteMemifInterface,
      DelDeleteVhostUserInterface, DelUnknownDevice, HungKilled, Killed, proc
  <2>3. CASE ifs' = ifs
    BY <1>1, <1>2, <2>2, <2>3 DEF Unbridged, Late, InterfacesOf, Own
  <2>4. CASE Deletes(a)
    BY <2>2, <2>4 DEF Deletes, NoIf
  <2>5. ~Sets(a) /\ ~Creates(a)
    BY <1>2 DEF Late, Creates, Sets, FieldStep, AddSetState, AddSetMtu, AddBridgeInterface,
      DelRemoveBridgeInterface
  <2> QED
    BY <1>0, <2>3, <2>4, <2>5, Changes
<1>3. CASE pc[a] \notin Late
  <2>1. DelOpen(a) \/ DelFindMemifBySocket(a) \/ DelRemoveBridgeInterface(a)
    <3>1. ~HungKilled(a) /\ ~Killed(a)
      BY <1>0, Moves DEF HungKilled, Killed, Failed, Late
    <3>2. ~AddOpen(a) /\ ~AddNoNetns(a)
      BY <1>0, Moves DEF AddOpen, AddDevice, AddNoNetns, Late
    <3>3. ~AddStep(a)
      BY <1>0, Moves DEF Late, AddStep, AddSaveVppConfig, AddIpam, AddOnContainer, AddNetwork,
        AddFindBridge, AddFindMemifSocket, AddCreateMemifSocket, AddCreateMemifInterface,
        AddCreateVhostUserInterface, AddSetState, AddSetMtu, AddBridgeInterface, AddCreateBridge
    <3>4. DelStep(a) => DelFindMemifBySocket(a) \/ DelRemoveBridgeInterface(a)
      BY <1>0, <1>3, Moves DEF Late, DelStep, DelFindMemifSocket, DelFindBridge, DelDeleteBridge,
        DelFindMemifInterface, DelDeleteMemifInterface, DelFindMemifSocketCnt,
        DelDeleteMemifSocket, DelDeleteVhostUserInterface, DelUnknownDevice, DelFileCleanup,
        DelIpam, DelNetns
    <3> QED
      BY <3>1, <3>2, <3>3, <3>4 DEF Invocation
  <2>2. CASE DelOpen(a) \/ DelFindMemifBySocket(a)
    <3>1. ifs' = ifs /\ Conf[a].netType # "bridge"
      BY <1>0, <2>2, Moves DEF DelOpen, DelFindMemifBySocket, DelNetwork, vpp, Late
    <3> QED
      BY <3>1 DEF MembersOwn, InterfacesOf, Own
  <2>3. CASE DelRemoveBridgeInterface(a)
    <3>1. idx' = idx /\ pc[a] = "dUnbridge"
      BY <2>3 DEF DelRemoveBridgeInterface, proc
    <3>2. idx[a] \in InterfacesOf(a) /\ idx[a] # 0
      <4>1. ifs'[idx[a]].path = ifs[idx[a]].path
        BY <1>0, <2>3, <3>1, SetsOrNot DEF FieldStep, Sets
      <4> QED
        BY <1>0, <3>1, <4>1, VppAssumption DEF InterfacesOf, Own
    <3>3. fresh[a] /\ IsIndex(ifs, idx[a])
      BY <3>1, <3>2, OwnIsIndex DEF Outlived, DelPc
    <3>4. ifs' = [ifs EXCEPT ![idx[a]].bd = 0]
      BY <1>0, <2>3, <3>2, <3>3, CalmMoves DEF DelRemoveBridgeInterface
    <3>5. ifs \in [SwIf -> Iface] /\ ifs[idx[a]] \in Iface
      BY <1>0, <3>1 DEF TypeOK
    <3> QED
      BY <1>0, <3>1, <3>4, <3>5 DEF Iface
  <2> QED
    BY <2>1, <2>2, <2>3
<1> QED
  BY <1>2, <1>3

LEMMA MembersStay ==
  ASSUME Promised, MembersPlaced, MembersOwn, NEW a \in Att, Invocation(a)
  PROVE  MembersPlaced' /\ MembersOwn'
<1>0. TypeOK /\ IInv /\ Fits(a) /\ AttInv(a)
  BY DEF Promised, IInv, SInv, RAtt
<1>1. CASE ifs' = ifs
  BY <1>1 DEF MembersPlaced, MembersOwn, InterfacesOf, Own, AddBridgeDomain
<1>2. CASE Sets(a)
  <2>1. FieldStep(a) /\ \A j \in SwIf : ifs'[j].path = ifs[j].path
    BY <1>2 DEF Sets
  <2>2. \A c \in Att : InterfacesOf(c)' = InterfacesOf(c) /\ AddBridgeDomain(c)' = AddBridgeDomain(c)
    BY <2>1 DEF InterfacesOf, Own, AddBridgeDomain
  <2>3. ASSUME NEW j \in SwIf
        PROVE  \/ ifs'[j].bd \in {ifs[j].bd, 0}
               \/ /\ ifs[j].path \in Own(a) /\ ifs'[j].bd = AddBridgeDomain(a)
                  /\ Conf[a].netType = "bridge"
    <3>1. CASE AddBridgeInterface(a) /\ j = idx[a] /\ fresh[a] /\ ifs'[j].bd = AddBridgeDomain(a)
      <4>1. Holding(a) /\ pc[a] = "aJoin" /\ Conf[a].netType = "bridge"
        BY <1>0, <3>1 DEF AddBridgeInterface, AttInv, LabelFits, Bridging, Promised, WInv, WAtt
      <4> QED
        BY <3>1, <4>1 DEF Holding, Has, Device
    <3> QED
      BY <1>0, <2>1, <3>1, SetsBridge
  <2>4. Own(a) \subseteq Path /\ \A c \in Att : c # a => Own(c) \intersect Own(a) = {}
    BY OwnApart
  <2>5. MembersPlaced'
    BY <2>1, <2>3, <2>4 DEF MembersPlaced
  <2>6. MembersOwn'
    BY <2>2, <2>3, <2>4 DEF MembersOwn, InterfacesOf
  <2> QED
    BY <2>5, <2>6
<1>3. CASE Creates(a) \/ Deletes(a)
  <2>1. \A j \in SwIf : ifs'[j] = ifs[j] \/ ifs'[j].bd = 0
    BY <1>3 DEF Creates, Deletes, NoIf
  <2>2. \A c \in Att : AddBridgeDomain(c)' = AddBridgeDomain(c)
    BY DEF AddBridgeDomain
  <2> QED
    BY <2>1, <2>2 DEF MembersPlaced, MembersOwn, InterfacesOf, Own
<1> QED
  BY <1>0, <1>1, <1>2, <1>3, Changes

\* A bridge domain with members is kept by the attachment of one of them.
LEMMA MemberKeeps ==
  ASSUME MembersPlaced, MembersOwn, NEW b \in BdId, Members(ifs, b) # {}
  PROVE  \E a \in Att : /\ Conf[a].netType = "bridge" /\ AddBridgeDomain(a) = b
                        /\ \E i \in InterfacesOf(a) : ifs[i].bd = b
<1>1. PICK i \in SwIf : ifs[i].bd = b
  BY DEF Members
<1>2. b # 0
  BY VppAssumption
<1>3. PICK a \in Att : ifs[i].path \in Own(a)
  BY <1>1, <1>2 DEF MembersPlaced, Path, Own
<1> QED
  BY <1>1, <1>2, <1>3 DEF MembersOwn, InterfacesOf

\* The invocation that is about to join a bridge domain, or to delete it.
Minds(a) == pc[a] \in {"aJoin", "dFindBd", "dRmBd"} /\ fresh[a]

\* The attachment's interface is in the domain, and still is or the DEL minds it.
LEMMA MemberStays ==
  ASSUME Promised, NEW a \in Att, Invocation(a), Unbridged(a), Calm', Calm,
         NEW b \in BdId, AddBridgeDomain(a) = b, NEW i \in InterfacesOf(a), ifs[i].bd = b
  PROVE  (i \in InterfacesOf(a)' /\ ifs'[i].bd = b) \/ Minds(a)'
<1>0. TypeOK /\ IInv /\ Fits(a) /\ i \in SwIf /\ ifs[i].path \in Own(a) /\ b # 0
  BY VppAssumption DEF Promised, IInv, SInv, RAtt, InterfacesOf
<1>1. CASE ifs' = ifs
  BY <1>1 DEF InterfacesOf, Own
<1>2. CASE Sets(a)
  <2>1. FieldStep(a) /\ i \in InterfacesOf(a)'
    BY <1>0, <1>2 DEF Sets, InterfacesOf, Own
  <2>2. CASE DelRemoveBridgeInterface(a) /\ ifs'[i].bd = 0
    <3>1. ifs' # ifs
      BY <1>0, <2>2
    <3>2. fresh[a] /\ pc'[a] = "dFindBd" /\ fresh' = fresh
      BY <1>0, <2>2, <3>1, CalmMoves DEF DelRemoveBridgeInterface, proc
    <3> QED
      BY <3>2 DEF Minds
  <2> QED
    BY <1>0, <2>1, <2>2, SetsBridge
<1>3. CASE Creates(a)
  <2>1. i # idx'[a]
    BY <1>0, <1>3, OwnApart DEF Creates, NoIf
  <2> QED
    BY <1>0, <1>3, <2>1 DEF Creates, InterfacesOf, Own
<1>4. CASE Deletes(a)
  <2>1. i # idx[a]
    BY <1>0, <1>4 DEF Unbridged, Deletes, DelDeleteMemifInterface, DelDeleteVhostUserInterface
  <2> QED
    BY <1>0, <1>4, <2>1 DEF Deletes, InterfacesOf, Own
<1> QED
  BY <1>0, <1>1, <1>2, <1>3, <1>4, Changes

\* It minds the domain until its interface is in it, somebody's is, or it is deleted.
LEMMA MindsOn ==
  ASSUME SameBridge, Promised, MembersPlaced, MembersOwn, NEW a \in Att, Invocation(a), Calm',
         NEW b \in BdId, b \in bds, b \in bds', Conf[a].netType = "bridge",
         AddBridgeDomain(a) = b, Minds(a)
  PROVE  \E c \in Att : Keeps(c, b)'
<1>0. TypeOK /\ IInv /\ Holding(a) /\ DelBridgeDomain(a) = b
  BY DEF Promised, IInv, WInv, WAtt, SameBridge
<1>1. \A c \in Att : AddBridgeDomain(c)' = AddBridgeDomain(c)
  BY DEF AddBridgeDomain
<1>2. AddBridgeInterface(a) \/ DelFindBridge(a) \/ DelDeleteBridge(a)
  <2>1. ~HungKilled(a) /\ ~Killed(a)
    BY <1>0, CalmMoves DEF HungKilled, Minds
  <2> QED
    BY <2>1 DEF Minds, Invocation, AddStep, DelStep, AddOpen, AddNoNetns, AddSaveVppConfig, AddIpam,
      AddOnContainer, DelOpen, DelUnknownDevice, DelFileCleanup, DelIpam, DelNetns, AddNetwork,
      AddFindBridge, AddFindMemifSocket, DelFindMemifSocket, DelFindMemifBySocket,
      DelFindMemifInterface, DelFindMemifSocketCnt, AddCreateMemifSocket, DelDeleteMemifSocket,
      AddCreateMemifInterface, AddCreateVhostUserInterface, DelDeleteMemifInterface,
      DelDeleteVhostUserInterface, AddSetState, AddSetMtu, DelRemoveBridgeInterface,
      AddCreateBridge
<1>3. CASE AddBridgeInterface(a)
  <2>1. idx[a] \in SwIf /\ ifs[idx[a]].path \in Own(a) /\ idx[a] \in InterfacesOf(a)
    BY <1>0, <1>3 DEF AddBridgeInterface, Minds, Holding, Has, Device, InterfacesOf
  <2>2. ifs' = [ifs EXCEPT ![idx[a]].bd = b]
    BY <1>0, <1>3, <2>1, OwnIsIndex, CalmMoves DEF AddBridgeInterface, Minds
  <2>3. ifs \in [SwIf -> Iface] /\ ifs[idx[a]] \in Iface
    BY <1>0, <2>1 DEF TypeOK
  <2>4. ifs'[idx[a]].bd = b /\ ifs'[idx[a]].path = ifs[idx[a]].path
    BY <2>1, <2>2, <2>3 DEF Iface
  <2>5. idx[a] \in InterfacesOf(a)'
    BY <2>1, <2>4 DEF InterfacesOf, Own
  <2> QED
    BY <1>1, <2>4, <2>5 DEF Keeps
<1>4. ASSUME ifs' = ifs, Members(ifs, b) # {}
      PROVE  \E c \in Att : Keeps(c, b)'
  <2>1. PICK c \in Att : /\ Conf[c].netType = "bridge" /\ AddBridgeDomain(c) = b
                         /\ \E i \in InterfacesOf(c) : ifs[i].bd = b
    BY <1>4, MemberKeeps
  <2>2. InterfacesOf(c)' = InterfacesOf(c)
    BY <1>4 DEF InterfacesOf, Own
  <2> QED
    BY <1>1, <1>4, <2>1, <2>2 DEF Keeps
<1>5. CASE DelFindBridge(a)
  <2>1. ifs' = ifs /\ fresh' = fresh
    BY <1>5 DEF DelFindBridge, vpp, proc
  <2>2. CASE Members(ifs, b) = {}
    <3>1. CanDelBridge(ifs, bds, DelBridgeDomain(a))
      BY <1>0, <2>2 DEF CanDelBridge
    <3>2. pc'[a] = "dRmBd"
      BY <1>0, <1>5, <3>1, CalmMoves DEF DelFindBridge, Minds
    <3> QED
      BY <1>1, <2>1, <3>2 DEF Keeps, Minds
  <2> QED
    BY <1>4, <2>1, <2>2
<1>6. CASE DelDeleteBridge(a)
  <2>1. ifs' = ifs
    BY <1>6 DEF DelDeleteBridge
  <2>2. ~CanDelBridge(ifs, bds, DelBridgeDomain(a))
    BY <1>0, <1>6, CalmMoves DEF DelDeleteBridge, Minds
  <2>3. Members(ifs, b) # {}
    BY <1>0, <2>2 DEF CanDelBridge
  <2> QED
    BY <1>4, <2>1, <2>3
<1> QED
  BY <1>2, <1>3, <1>5, <1>6

LEMMA BridgedStays ==
  ASSUME Timely, SameBridge, Promised, LInv, NEW a \in Att, Invocation(a)
  PROVE  Bridged'
<1> SUFFICES ASSUME Calm', NEW b \in bds'
             PROVE  \E c \in Att : Keeps(c, b)'
  BY DEF Bridged
<1>0. TypeOK /\ IInv /\ AttInv(a) /\ Holding(a)
  BY DEF Promised, IInv, WInv, WAtt
<1>1. b \in BdId /\ TypeOK'
  BY <1>0, NextIInv DEF IInv, Next, Invocation, TypeOK
<1>2. Calm
  BY SeenGrows DEF Calm
<1>3. \A c \in Att : AddBridgeDomain(c)' = AddBridgeDomain(c)
  BY DEF AddBridgeDomain
<1>4. CASE b \notin bds
  <2>1. bds' # bds
    BY <1>4
  <2>2. AddCreateBridge(a) \/ AddBridgeInterface(a) \/ DelDeleteBridge(a)
    BY <2>1 DEF Invocation, AddStep, DelStep, vpp, AddNoNetns, AddSaveVppConfig, AddIpam,
      AddOnContainer, DelUnknownDevice, DelFileCleanup, DelIpam, DelNetns, HungKilled, Killed,
      AddNetwork, AddFindBridge, DelFindBridge, AddOpen, AddFindMemifSocket, DelOpen,
      DelFindMemifSocket, DelFindMemifBySocket, DelFindMemifInterface, DelFindMemifSocketCnt,
      AddCreateMemifSocket, DelDeleteMemifSocket, AddCreateMemifInterface,
      AddCreateVhostUserInterface, DelDeleteMemifInterface, DelDeleteVhostUserInterface,
      AddSetState, AddSetMtu, DelRemoveBridgeInterface
  <2>3. ~DelDeleteBridge(a)
    BY <1>4 DEF DelDeleteBridge
  <2>4. CASE AddCreateBridge(a)
    <3>1. /\ b = AddBridgeDomain(a) /\ Conf[a].netType = "bridge"
          /\ pc'[a] = "aJoin" /\ fresh[a] /\ fresh' = fresh
      BY <1>0, <1>4, <2>4, CalmMoves DEF AddCreateBridge, proc, AttInv, LabelFits, Bridging
    <3> QED
      BY <1>3, <3>1 DEF Keeps
  <2>5. CASE AddBridgeInterface(a)
    <3>1. /\ b = AddBridgeDomain(a) /\ Conf[a].netType = "bridge" /\ fresh[a] /\ pc[a] = "aJoin"
          /\ ifs' = [ifs EXCEPT ![idx[a]].bd = b]
      BY <1>0, <1>4, <2>5, CalmMoves DEF AddBridgeInterface, AttInv, LabelFits, Bridging
    <3>2. idx[a] \in SwIf /\ ifs[idx[a]].path \in Own(a)
      BY <1>0, <3>1 DEF Holding, Has, Device
    <3>3. ifs \in [SwIf -> Iface] /\ ifs[idx[a]] \in Iface
      BY <1>0, <3>2 DEF TypeOK
    <3>4. ifs'[idx[a]].bd = b /\ ifs'[idx[a]].path = ifs[idx[a]].path
      BY <3>1, <3>2, <3>3 DEF Iface
    <3>5. idx[a] \in InterfacesOf(a)'
      BY <3>2, <3>4 DEF InterfacesOf, Own
    <3> QED
      BY <1>3, <3>1, <3>4, <3>5 DEF Keeps
  <2> QED
    BY <2>2, <2>3, <2>4, <2>5
<1>5. CASE b \in bds
  <2>1. PICK c \in Att : Keeps(c, b)
    BY <1>2, <1>5 DEF LInv, Bridged
  <2>2. CASE c # a
    <3>1. /\ InterfacesOf(c)' = InterfacesOf(c) /\ \A i \in InterfacesOf(c) : ifs'[i] = ifs[i]
          /\ pc'[c] = pc[c] /\ fresh'[c] = fresh[c]
      BY <2>2, OthersSame
    <3> QED
      BY <1>3, <2>1, <3>1 DEF Keeps
  <2>3. CASE c = a /\ \E i \in InterfacesOf(a) : ifs[i].bd = b
    <3>1. PICK i \in InterfacesOf(a) : ifs[i].bd = b
      BY <2>3
    <3>2. Conf[a].netType = "bridge" /\ AddBridgeDomain(a) = b /\ Unbridged(a)
      BY <2>1, <2>3 DEF Keeps, LInv, LAtt
    <3>3. (i \in InterfacesOf(a)' /\ ifs'[i].bd = b) \/ Minds(a)'
      BY <1>1, <1>2, <3>1, <3>2, MemberStays
    <3> QED
      BY <1>3, <3>2, <3>3 DEF Keeps, Minds
  <2>4. CASE c = a /\ Minds(a)
    <3>1. Conf[a].netType = "bridge" /\ AddBridgeDomain(a) = b /\ MembersPlaced /\ MembersOwn
      BY <2>1, <2>4 DEF Keeps, LInv
    <3> QED
      BY <1>1, <1>5, <2>4, <3>1, MindsOn
  <2> QED
    BY <2>1, <2>2, <2>3, <2>4 DEF Keeps, Minds
<1> QED
  BY <1>4, <1>5

LEMMA InitLInv == Init => LInv
<1> SUFFICES ASSUME Init PROVE LInv
  OBVIOUS
<1>1. MembersPlaced /\ MembersOwn /\ Bridged
  BY DEF Init, MembersPlaced, MembersOwn, Bridged, InterfacesOf, NoIf
<1>2. ASSUME NEW a \in Att PROVE LAtt(a)
  <2>1. SocksOf(a) = {} /\ pc[a] = "none"
    BY OwnApart DEF Init, SocksOf
  <2> QED
    BY <2>1 DEF LAtt, Registered, Outlived, Kept, Unbridged, AddPc, DelPc
<1> QED
  BY <1>1, <1>2 DEF LInv

LEMMA NextLInv ==
  ASSUME Timely, SameBridge, Promised, LInv, [Next]_vars
  PROVE  LInv'
<1>1. CASE \E a \in Att : Invocation(a)
  <2>1. PICK a \in Att : Invocation(a)
    BY <1>1
  <2>2. MembersPlaced' /\ MembersOwn' /\ Bridged'
    BY <2>1, MembersStay, BridgedStays DEF LInv
  <2>3. LAtt(a)'
    BY <2>1, OwnRegistered, OwnOutlived, OwnKept, OwnUnbridged DEF LInv, LAtt
  <2>4. ASSUME NEW b \in Att \ {a} PROVE LAtt(b)'
    BY <2>1, OthersKeep DEF LInv
  <2> QED
    BY <2>2, <2>3, <2>4 DEF LInv
<1>2. CASE VppCrash
  <2>1. /\ bds' = {} /\ \A i \in SwIf : ifs'[i] = NoIf
        /\ \A s \in SockId : socks'[s] = NoPath
    BY <1>2 DEF VppCrash
  <2>2. \A a \in Att : InterfacesOf(a)' = {} /\ SocksOf(a)' = {}
    BY <2>1, OwnApart DEF InterfacesOf, SocksOf, Own, NoIf
  <2>3. MembersPlaced' /\ MembersOwn' /\ Bridged'
    BY <2>1, <2>2 DEF MembersPlaced, MembersOwn, Bridged, NoIf
  <2>4. ASSUME NEW a \in Att PROVE LAtt(a)'
    BY <2>2 DEF LAtt, Registered, Outlived, Kept, Unbridged
  <2> QED
    BY <2>3, <2>4 DEF LInv
<1>3. CASE VppStart \/ UNCHANGED vars
  <2>1. UNCHANGED <<ifs, socks, bds, pc, idx, fresh, seen>>
    BY <1>3 DEF VppStart, vars, vpp, proc, env
  <2>2. \A a \in Att : InterfacesOf(a)' = InterfacesOf(a) /\ SocksOf(a)' = SocksOf(a)
                         /\ AddBridgeDomain(a)' = AddBridgeDomain(a)
    BY <2>1 DEF InterfacesOf, SocksOf, Own, AddBridgeDomain
  <2>3. MembersPlaced' /\ MembersOwn'
    BY <2>1, <2>2 DEF LInv, MembersPlaced, MembersOwn
  <2>4. Bridged'
    BY <2>1, <2>2 DEF LInv, Bridged, Keeps, Calm
  <2>5. ASSUME NEW a \in Att PROVE LAtt(a)'
    BY <2>1, <2>2 DEF LInv, LAtt, Registered, Outlived, Kept, Unbridged, Calm
  <2> QED
    BY <2>3, <2>4, <2>5 DEF LInv
<1> QED
  BY <1>1, <1>2, <1>3, NextCases

(***************************************************************************)
(* When no attachment is left, neither is a bridge domain or a memif       *)
(* socket, for any number of attachments whose DELs and ADDs race for      *)
(* them, as long as no request failed and no invocation was cut short      *)
(* (LastDelReclaims), DEL is given the bridge domain that ADD was given    *)
(* (SameBridge) and no vhost-user DEL goes by an index of an earlier VPP.  *)
(***************************************************************************)
THEOREM LastDelStillReclaims ==
  ASSUME Timely, SameBridge
  PROVE  Spec => []LastDelReclaims
<1>1. Init => Promised /\ LInv
  BY InitIInv, InitWInv, InitSInv, InitLInv DEF Promised
<1>2. Promised /\ LInv /\ [Next]_vars => (Promised /\ LInv)'
  BY NextIInv, NextWInv, NextSInv, NextLInv DEF Promised
<1>3. ASSUME Promised, LInv PROVE LastDelReclaims
  <2> SUFFICES ASSUME \A a \in Att : pc[a] \in {"none", "deleted"}, Calm
               PROVE  bds = {} /\ \A s \in SockId : socks[s] = NoPath
    BY DEF LastDelReclaims, Calm
  <2>1. \A a \in Att : InterfacesOf(a) = {}
    BY <1>3 DEF Promised, SInv, SAtt, Sighted, First, Last, Calm
  <2>2. bds = {}
    BY <1>3, <2>1 DEF LInv, Bridged, Keeps
  <2>3. ASSUME NEW s \in SockId PROVE socks[s] = NoPath
    <3> SUFFICES ASSUME socks[s] # NoPath PROVE FALSE
      OBVIOUS
    <3>1. socks[s] \in Path
      BY <1>3 DEF Promised, IInv, TypeOK
    <3>2. PICK a \in Att : socks[s] \in Own(a)
      BY <3>1 DEF Path, Own
    <3>3. SocksOf(a) # {} /\ Kept(a) /\ pc[a] \in {"none", "deleted"}
      BY <1>3, <3>2 DEF SocksOf, LInv, LAtt
    <3> QED
      BY <2>1, <3>3 DEF Kept
  <2> QED
    BY <2>2, <2>3
<1> QED
  BY <1>1, <1>2, <1>3, PTL DEF Spec
=============================================================================
