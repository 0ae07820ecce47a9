---------------------------- MODULE CniVppProofs ----------------------------
(***************************************************************************)
(* Proofs about CniVpp, for any number of attachments, indexes, socket     *)
(* ids, bridge domains, faults and for any network configuration: its      *)
(* type invariant, SocketsConsistent and MemifTouchesOwn.                  *)
(*                                                                         *)
(* The argument: a memif invocation only ever acts on a socket id and an   *)
(* index it got from VPP for its own socket file (AttInv), and what it     *)
(* does there disturbs no socket and no memif of another attachment        *)
(* (StepOf), so that the others keep what they hold (Frame).               *)
(***************************************************************************)
EXTENDS CniVpp, TLAPS

-----------------------------------------------------------------------------
(* The inductive invariant.                                                *)

\* The memif invocations that hold a socket id they got for their own file.
HoldsSid == {"aMemif", "dFind", "dDelete", "dCnt", "dRmSock"}

\* The memif invocations that hold the index of their own interface.
HoldsIdx == {"aState", "aMtu", "aNet", "aFindBd", "aMkBd", "aJoin",
             "dUnbridge", "dFindBd", "dRmBd", "dDevice", "dDelete"}

\* The labels of the code for an attachment with a bridge.
Bridging == {"aFindBd", "aMkBd", "aJoin", "dUnbridge", "dFindBd", "dRmBd"}

\* The id to register is a socket id, and the file is not registered yet.
PicksId(a) ==
  pc[a] = "aMkSock" =>
    /\ sid[a] \in SockId
    /\ \A s \in SockId : socks[s] # SocketPath(a)

\* While VPP lives, nobody takes the socket away under an invocation.
SidOwned(a) ==
  pc[a] \in HoldsSid =>
    /\ sid[a] \in SockId
    /\ fresh[a] => socks[sid[a]] \in Own(a)

\* Nor its interface, whose index is therefore not reused.
IdxOwned(a) ==
  pc[a] \in HoldsIdx /\ Conf[a].ifType = "memif" /\ fresh[a] =>
    /\ idx[a] \in SwIf
    /\ ifs[idx[a]].kind = "memif"
    /\ ifs[idx[a]].path \in Own(a)

\* The code for a kind of device and for a bridge runs for those that have one.
LabelFits(a) ==
  /\ pc[a] = "aVhost" => Conf[a].ifType = "vhostuser"
  /\ pc[a] = "dDelete" => Conf[a].ifType = "memif"
  /\ pc[a] \in Bridging => Conf[a].netType = "bridge"

AttInv(a) == PicksId(a) /\ SidOwned(a) /\ IdxOwned(a) /\ LabelFits(a)

\* A memif is on a real socket id and file.
MemifPlaced ==
  \A i \in SwIf :
    ifs[i].kind = "memif" => ifs[i].sid \in SockId /\ ifs[i].path \in Path

IInv ==
  /\ TypeOK
  /\ \A a \in Att : AttInv(a)
  /\ MemifPlaced
  /\ SocketsConsistent

-----------------------------------------------------------------------------
(* The type invariant: what the control-flow operators contribute, then    *)
(* one step per action.                                                    *)

Label == AddPc \union DelPc \union Rest

PcEnvOK == /\ pc \in [Att -> Label]
           /\ budget \in 0..MaxFaults
           /\ seen \subseteq Faults

LEMMA FaultType ==
  ASSUME TypeOK, NEW f, Fault(f)
  PROVE  budget' \in 0..MaxFaults /\ seen' \subseteq Faults
BY CniVppAssumption DEF TypeOK, Fault

LEMMA EnvType ==
  ASSUME TypeOK, UNCHANGED env
  PROVE  budget' \in 0..MaxFaults /\ seen' \subseteq Faults
BY DEF TypeOK, env

LEMMA GotoType ==
  ASSUME TypeOK, NEW a \in Att, NEW l \in Label, Goto(a, l)
  PROVE  pc' \in [Att -> Label]
BY DEF TypeOK, Goto, Label

LEMMA RepliedType ==
  ASSUME TypeOK, NEW a \in Att, NEW ok \in Label, NEW err \in Label,
         Replied(a, ok, err)
  PROVE  PcEnvOK'
BY FaultType, EnvType, GotoType DEF Replied, PcEnvOK

LEMMA RefusedType ==
  ASSUME TypeOK, NEW a \in Att, NEW can, NEW err \in Label, Refused(a, can, err)
  PROVE  PcEnvOK'
BY FaultType, EnvType, GotoType DEF Refused, PcEnvOK

\* What the requests do to an interface makes an interface.
LEMMA IfaceType ==
  /\ NoIf \in Iface
  /\ \A r \in Iface : /\ [r EXCEPT !.up = TRUE] \in Iface
                      /\ [r EXCEPT !.mtu = TRUE] \in Iface
                      /\ \A b \in BdId \union {0} : [r EXCEPT !.bd = b] \in Iface
  /\ \A k \in {"memif", "vhostuser"}, p \in Path, s \in SockId \union {0} :
       NewIf(k, p, s) \in Iface
BY DEF Iface, NoIf, NewIf

\* A request about interface i changes nothing else, nor what i is and where.
LEMMA SetField ==
  ASSUME NEW f \in [SwIf -> Iface], NEW i, NEW b \in BdId \union {0},
         NEW g, g \in {[f EXCEPT ![i].up = TRUE], [f EXCEPT ![i].mtu = TRUE],
                       [f EXCEPT ![i].bd = b]}
  PROVE  /\ g \in [SwIf -> Iface]
         /\ \A j \in SwIf : /\ g[j].kind = f[j].kind
                            /\ g[j].path = f[j].path
                            /\ g[j].sid = f[j].sid
                            /\ j # i => g[j] = f[j]
<1>1. ASSUME NEW r \in Iface, NEW s,
             s \in {[r EXCEPT !.up = TRUE], [r EXCEPT !.mtu = TRUE], [r EXCEPT !.bd = b]}
      PROVE  s \in Iface /\ s.kind = r.kind /\ s.path = r.path /\ s.sid = r.sid
  BY <1>1 DEF Iface
<1>2. g \in [SwIf -> Iface]
  <2>1. ASSUME NEW j \in SwIf PROVE g[j] \in Iface
    BY <1>1, f[j] \in Iface
  <2>2. g = [j \in SwIf |-> g[j]]
    OBVIOUS
  <2> QED
    BY <2>1, <2>2
<1>3. ASSUME NEW j \in SwIf
      PROVE  /\ g[j].kind = f[j].kind
             /\ g[j].path = f[j].path
             /\ g[j].sid = f[j].sid
             /\ j # i => g[j] = f[j]
  BY <1>1, f[j] \in Iface
<1> QED
  BY <1>2, <1>3

LEMMA PathType == \A a \in Att : SocketPath(a) \in Own(a) /\ Own(a) \subseteq Path
BY DEF SocketPath, Own, Path

\* The bridge domain ADD joins is one.
LEMMA BridgeDomain ==
  ASSUME NEW a \in Att, Conf[a].netType = "bridge"
  PROVE  AddBridgeDomain(a) \in BdId
BY CniVppAssumption DEF AddBridgeDomain, ConfType

LEMMA TypeStep ==
  ASSUME TypeOK, \A a \in Att : AttInv(a), [Next]_vars
  PROVE  TypeOK'
<1> USE VppAssumption
<1>1. ASSUME NEW a \in Att, AddOpen(a) PROVE TypeOK'
  <2>1. PcEnvOK'
    BY <1>1, GotoType, EnvType, FaultType DEF AddOpen, PcEnvOK, Label, AddPc,
      DelPc, Rest, AddDevice, GetPod
  <2>2. pod' \in [Att -> BOOLEAN]
    BY <1>1 DEF AddOpen, TypeOK, GetPod
  <2>3. fresh' \in [Att -> BOOLEAN]
    BY <1>1 DEF AddOpen, TypeOK
  <2> QED
    BY <1>1, <2>1, <2>2, <2>3 DEF AddOpen, TypeOK, PcEnvOK, Label, vpp, disk,
      proc
<1>2. ASSUME NEW a \in Att, AddFindMemifSocket(a) PROVE TypeOK'
  <2>1. PcEnvOK'
    BY <1>2, GotoType, EnvType DEF AddFindMemifSocket, PcEnvOK, Label, AddPc,
      DelPc, Rest
  <2>2. sid' \in [Att -> SockId \union {0}]
    BY <1>2 DEF AddFindMemifSocket, TypeOK, SocketsOf, LowestUnused
  <2> QED
    BY <1>2, <2>1, <2>2 DEF AddFindMemifSocket, TypeOK, PcEnvOK, Label, vpp,
      disk, proc
<1>3. ASSUME NEW a \in Att, AddCreateMemifSocket(a) PROVE TypeOK'
  <2>1. PcEnvOK'
    BY <1>3, RepliedType, RefusedType DEF AddCreateMemifSocket, PcEnvOK, Label,
      AddPc, DelPc, Rest
  <2>2. socks' \in [SockId -> Path \union {NoPath}]
    BY <1>3, PathType DEF AddCreateMemifSocket, TypeOK
  <2> QED
    BY <1>3, <2>1, <2>2 DEF AddCreateMemifSocket, TypeOK, PcEnvOK, Label, vpp,
      disk, proc
<1>4. ASSUME NEW a \in Att, AddCreateMemifInterface(a) PROVE TypeOK'
  <2>1. PcEnvOK'
    BY <1>4, RepliedType, RefusedType DEF AddCreateMemifInterface, PcEnvOK,
      Label, AddPc, DelPc, Rest
  <2>2. sid[a] \in SockId
    BY <1>4 DEF AddCreateMemifInterface, AttInv, SidOwned, HoldsSid
  <2>3. CASE UNCHANGED <<ifs, idx, file>>
    BY <1>4, <2>1, <2>3 DEF AddCreateMemifInterface, TypeOK, PcEnvOK, Label
  <2>4. CASE /\ CanCreateMemif(ifs, socks, sid[a])
             /\ \E i \in FreeIndex(ifs) :
                  /\ ifs' = [ifs EXCEPT ![i] = NewIf("memif", socks[sid[a]], sid[a])]
                  /\ idx' = [idx EXCEPT ![a] = i]
             /\ file' \in {file, file \union {socks[sid[a]]}}
    <3>1. socks[sid[a]] \in Path
      BY <2>2, <2>4 DEF CanCreateMemif, TypeOK
    <3>2. PICK i \in SwIf :
            /\ ifs' = [ifs EXCEPT ![i] = NewIf("memif", socks[sid[a]], sid[a])]
            /\ idx' = [idx EXCEPT ![a] = i]
      BY <2>4 DEF FreeIndex
    <3>3. NewIf("memif", socks[sid[a]], sid[a]) \in Iface
      BY <2>2, <3>1, IfaceType
    <3>4. ifs' \in [SwIf -> Iface] /\ idx' \in [Att -> SwIf \union {0}]
      BY <3>2, <3>3 DEF TypeOK
    <3> QED
      BY <1>4, <2>1, <2>4, <3>1, <3>4 DEF AddCreateMemifInterface, TypeOK,
        PcEnvOK, Label
  <2> QED
    BY <1>4, <2>3, <2>4 DEF AddCreateMemifInterface
<1>5. ASSUME NEW a \in Att, AddCreateVhostUserInterface(a) PROVE TypeOK'
  <2>1. PcEnvOK'
    BY <1>5, RepliedType, RefusedType DEF AddCreateVhostUserInterface, PcEnvOK,
      Label, AddPc, DelPc, Rest
  <2>2. ifs' \in [SwIf -> Iface]
    BY <1>5, IfaceType, PathType DEF AddCreateVhostUserInterface, TypeOK,
      FreeIndex
  <2>3. idx' \in [Att -> SwIf \union {0}]
    BY <1>5 DEF AddCreateVhostUserInterface, TypeOK, FreeIndex
  <2>4. file' \subseteq Path
    BY <1>5, PathType DEF AddCreateVhostUserInterface, TypeOK
  <2> QED
    BY <1>5, <2>1, <2>2, <2>3, <2>4 DEF AddCreateVhostUserInterface, TypeOK,
      PcEnvOK, Label, vpp, disk, proc
<1>6. ASSUME NEW a \in Att, AddSetState(a) PROVE TypeOK'
  <2>1. PcEnvOK'
    BY <1>6, RepliedType, RefusedType DEF AddSetState, PcEnvOK, Label, AddPc,
      DelPc, Rest
  <2>2. ifs' \in [SwIf -> Iface]
    BY <1>6, SetField DEF AddSetState, TypeOK
  <2> QED
    BY <1>6, <2>1, <2>2 DEF AddSetState, TypeOK, PcEnvOK, Label, vpp, disk, proc
<1>7. ASSUME NEW a \in Att, AddSetMtu(a) PROVE TypeOK'
  <2>1. PcEnvOK'
    BY <1>7, RepliedType, RefusedType DEF AddSetMtu, PcEnvOK, Label, AddPc,
      DelPc, Rest
  <2>2. ifs' \in [SwIf -> Iface]
    BY <1>7, SetField DEF AddSetMtu, TypeOK
  <2> QED
    BY <1>7, <2>1, <2>2 DEF AddSetMtu, TypeOK, PcEnvOK, Label, vpp, disk, proc
<1>8. ASSUME NEW a \in Att, AddNetwork(a) PROVE TypeOK'
  <2>1. PcEnvOK'
    BY <1>8, GotoType, EnvType DEF AddNetwork, PcEnvOK, Label, AddPc, DelPc,
      Rest
  <2> QED
    BY <1>8, <2>1 DEF AddNetwork, TypeOK, PcEnvOK, Label, vpp, disk, proc
<1>9. ASSUME NEW a \in Att, AddFindBridge(a) PROVE TypeOK'
  <2>1. PcEnvOK'
    BY <1>9, RepliedType, GotoType, EnvType DEF AddFindBridge, PcEnvOK, Label,
      AddPc, DelPc, Rest
  <2> QED
    BY <1>9, <2>1 DEF AddFindBridge, TypeOK, PcEnvOK, Label, vpp, disk, proc
<1>10. ASSUME NEW a \in Att, AddCreateBridge(a) PROVE TypeOK'
  <2>1. PcEnvOK'
    BY <1>10, RepliedType, RefusedType DEF AddCreateBridge, PcEnvOK, Label,
      AddPc, DelPc, Rest
  <2>2. AddBridgeDomain(a) \in BdId
    BY <1>10, BridgeDomain DEF AddCreateBridge, AttInv, LabelFits, Bridging
  <2>3. bds' \subseteq BdId
    BY <1>10, <2>2 DEF AddCreateBridge, TypeOK
  <2> QED
    BY <1>10, <2>1, <2>2, <2>3 DEF AddCreateBridge, TypeOK, PcEnvOK, Label, vpp,
      disk, proc
<1>11. ASSUME NEW a \in Att, AddBridgeInterface(a) PROVE TypeOK'
  <2>1. PcEnvOK'
    BY <1>11, RepliedType, RefusedType DEF AddBridgeInterface, PcEnvOK, Label,
      AddPc, DelPc, Rest
  <2>2. AddBridgeDomain(a) \in BdId
    BY <1>11, BridgeDomain DEF AddBridgeInterface, AttInv, LabelFits, Bridging
  <2>3. ifs' \in [SwIf -> Iface]
    BY <1>11, SetField, <2>2 DEF AddBridgeInterface, TypeOK
  <2>4. bds' \subseteq BdId
    BY <1>11, <2>2 DEF AddBridgeInterface, TypeOK
  <2> QED
    BY <1>11, <2>1, <2>2, <2>3, <2>4 DEF AddBridgeInterface, TypeOK, PcEnvOK,
      Label, vpp, disk, proc
<1>12. ASSUME NEW a \in Att, AddSaveVppConfig(a) PROVE TypeOK'
  <2>1. PcEnvOK'
    BY <1>12, GotoType, EnvType, FaultType DEF AddSaveVppConfig, PcEnvOK, Label,
      AddPc, DelPc, Rest
  <2>2. saved' \in [Att -> SwIf \union {0, Torn}]
    BY <1>12 DEF AddSaveVppConfig, TypeOK
  <2> QED
    BY <1>12, <2>1, <2>2 DEF AddSaveVppConfig, TypeOK, PcEnvOK, Label, vpp,
      disk, proc
<1>13. ASSUME NEW a \in Att, AddIpam(a) PROVE TypeOK'
  <2>1. PcEnvOK'
    BY <1>13, GotoType, EnvType, FaultType DEF AddIpam, PcEnvOK, Label, AddPc,
      DelPc, Rest
  <2>2. ipam' \subseteq Att
    BY <1>13 DEF AddIpam, TypeOK
  <2> QED
    BY <1>13, <2>1, <2>2 DEF AddIpam, TypeOK, PcEnvOK, Label, vpp, disk, proc
<1>14. ASSUME NEW a \in Att, AddOnContainer(a) PROVE TypeOK'
  <2>1. PcEnvOK'
    BY <1>14, GotoType, EnvType, FaultType DEF AddOnContainer, PcEnvOK, Label,
      AddPc, DelPc, Rest
  <2> QED
    BY <1>14, <2>1 DEF AddOnContainer, TypeOK, PcEnvOK, Label, vpp, disk, proc
<1>14a. ASSUME NEW a \in Att, AddNoNetns(a) PROVE TypeOK'
  <2>1. PcEnvOK'
    BY <1>14a, GotoType, FaultType DEF AddNoNetns, PcEnvOK, Label, AddPc, DelPc, Rest
  <2> QED
    BY <1>14a, <2>1 DEF AddNoNetns, TypeOK, PcEnvOK, Label, vpp, disk, proc
<1>15. ASSUME NEW a \in Att, DelOpen(a) PROVE TypeOK'
  <2>1. PcEnvOK'
    BY <1>15, GotoType, EnvType, FaultType DEF DelOpen, PcEnvOK, Label, AddPc,
      DelPc, Rest, GetPod, DelNetwork
  <2>2. pod' \in [Att -> BOOLEAN]
    BY <1>15 DEF DelOpen, TypeOK, GetPod
  <2>3. fresh' \in [Att -> BOOLEAN]
    BY <1>15 DEF DelOpen, TypeOK
  <2>4. idx' \in [Att -> SwIf \union {0}]
    BY <1>15 DEF DelOpen, LoadVppConfig, TypeOK
  <2>5. saved' \in [Att -> SwIf \union {0, Torn}]
    BY <1>15 DEF DelOpen, LoadVppConfig, TypeOK
  <2> QED
    BY <1>15, <2>1, <2>2, <2>3, <2>4, <2>5 DEF DelOpen, TypeOK, PcEnvOK, Label,
      vpp, disk, proc
<1>16. ASSUME NEW a \in Att, DelFindMemifSocket(a) PROVE TypeOK'
  <2>1. PcEnvOK'
    BY <1>16, GotoType, EnvType DEF DelFindMemifSocket, PcEnvOK, Label, AddPc,
      DelPc, Rest
  <2>2. sid' \in [Att -> SockId \union {0}]
    BY <1>16 DEF DelFindMemifSocket, TypeOK, SocketsOf
  <2> QED
    BY <1>16, <2>1, <2>2 DEF DelFindMemifSocket, TypeOK, PcEnvOK, Label, vpp,
      disk, proc
<1>17. ASSUME NEW a \in Att, DelFindMemifBySocket(a) PROVE TypeOK'
  <2>1. PcEnvOK'
    BY <1>17, GotoType, EnvType DEF DelFindMemifBySocket, PcEnvOK, Label, AddPc,
      DelPc, Rest, DelNetwork
  <2>2. idx' \in [Att -> SwIf \union {0}]
    BY <1>17 DEF DelFindMemifBySocket, TypeOK, MemifsOn
  <2> QED
    BY <1>17, <2>1, <2>2 DEF DelFindMemifBySocket, TypeOK, PcEnvOK, Label, vpp,
      disk, proc
<1>18. ASSUME NEW a \in Att, DelRemoveBridgeInterface(a) PROVE TypeOK'
  <2>1. PcEnvOK'
    BY <1>18, RepliedType, RefusedType DEF DelRemoveBridgeInterface, PcEnvOK,
      Label, AddPc, DelPc, Rest
  <2>2. ifs' \in [SwIf -> Iface]
    BY <1>18, SetField DEF DelRemoveBridgeInterface, TypeOK
  <2> QED
    BY <1>18, <2>1, <2>2 DEF DelRemoveBridgeInterface, TypeOK, PcEnvOK, Label,
      vpp, disk, proc
<1>19. ASSUME NEW a \in Att, DelFindBridge(a) PROVE TypeOK'
  <2>1. PcEnvOK'
    BY <1>19, RepliedType, GotoType, EnvType DEF DelFindBridge, PcEnvOK, Label,
      AddPc, DelPc, Rest
  <2> QED
    BY <1>19, <2>1 DEF DelFindBridge, TypeOK, PcEnvOK, Label, vpp, disk, proc
<1>20. ASSUME NEW a \in Att, DelDeleteBridge(a) PROVE TypeOK'
  <2>1. PcEnvOK'
    BY <1>20, RepliedType, RefusedType DEF DelDeleteBridge, PcEnvOK, Label,
      AddPc, DelPc, Rest
  <2>2. bds' \subseteq BdId
    BY <1>20 DEF DelDeleteBridge, TypeOK
  <2> QED
    BY <1>20, <2>1, <2>2 DEF DelDeleteBridge, TypeOK, PcEnvOK, Label, vpp, disk,
      proc
<1>21. ASSUME NEW a \in Att, DelFindMemifInterface(a) PROVE TypeOK'
  <2>1. PcEnvOK'
    BY <1>21, GotoType, EnvType DEF DelFindMemifInterface, PcEnvOK, Label,
      AddPc, DelPc, Rest
  <2>2. sid' \in [Att -> SockId \union {0}]
    BY <1>21 DEF DelFindMemifInterface, TypeOK, IsKind, Iface
  <2> QED
    BY <1>21, <2>1, <2>2 DEF DelFindMemifInterface, TypeOK, PcEnvOK, Label, vpp,
      disk, proc
<1>22. ASSUME NEW a \in Att, DelDeleteMemifInterface(a) PROVE TypeOK'
  <2>1. PcEnvOK'
    BY <1>22, RepliedType, RefusedType DEF DelDeleteMemifInterface, PcEnvOK,
      Label, AddPc, DelPc, Rest
  <2>2. ifs' \in [SwIf -> Iface]
    BY <1>22, IfaceType DEF DelDeleteMemifInterface, TypeOK
  <2> QED
    BY <1>22, <2>1, <2>2 DEF DelDeleteMemifInterface, TypeOK, PcEnvOK, Label,
      vpp, disk, proc
<1>23. ASSUME NEW a \in Att, DelFindMemifSocketCnt(a) PROVE TypeOK'
  <2>1. PcEnvOK'
    BY <1>23, GotoType, EnvType DEF DelFindMemifSocketCnt, PcEnvOK, Label,
      AddPc, DelPc, Rest
  <2> QED
    BY <1>23, <2>1 DEF DelFindMemifSocketCnt, TypeOK, PcEnvOK, Label, vpp, disk,
      proc
<1>24. ASSUME NEW a \in Att, DelDeleteMemifSocket(a) PROVE TypeOK'
  <2>1. PcEnvOK'
    BY <1>24, RepliedType, RefusedType DEF DelDeleteMemifSocket, PcEnvOK, Label,
      AddPc, DelPc, Rest
  <2>2. socks' \in [SockId -> Path \union {NoPath}]
    BY <1>24 DEF DelDeleteMemifSocket, TypeOK
  <2> QED
    BY <1>24, <2>1, <2>2 DEF DelDeleteMemifSocket, TypeOK, PcEnvOK, Label, vpp,
      disk, proc
<1>25. ASSUME NEW a \in Att, DelDeleteVhostUserInterface(a) PROVE TypeOK'
  <2>1. PcEnvOK'
    BY <1>25, RepliedType, RefusedType DEF DelDeleteVhostUserInterface, PcEnvOK,
      Label, AddPc, DelPc, Rest
  <2>2. ifs' \in [SwIf -> Iface]
    BY <1>25, IfaceType DEF DelDeleteVhostUserInterface, TypeOK
  <2> QED
    BY <1>25, <2>1, <2>2 DEF DelDeleteVhostUserInterface, TypeOK, PcEnvOK,
      Label, vpp, disk, proc
<1>26. ASSUME NEW a \in Att, DelUnknownDevice(a) PROVE TypeOK'
  <2>1. PcEnvOK'
    BY <1>26, GotoType, EnvType DEF DelUnknownDevice, PcEnvOK, Label, AddPc,
      DelPc, Rest
  <2> QED
    BY <1>26, <2>1 DEF DelUnknownDevice, TypeOK, PcEnvOK, Label, vpp, disk, proc
<1>27. ASSUME NEW a \in Att, DelFileCleanup(a) PROVE TypeOK'
  <2>1. PcEnvOK'
    BY <1>27, GotoType, EnvType DEF DelFileCleanup, PcEnvOK, Label, AddPc,
      DelPc, Rest
  <2>2. file' \subseteq Path
    BY <1>27 DEF DelFileCleanup, TypeOK
  <2> QED
    BY <1>27, <2>1, <2>2 DEF DelFileCleanup, TypeOK, PcEnvOK, Label, vpp, disk,
      proc
<1>28. ASSUME NEW a \in Att, DelIpam(a) PROVE TypeOK'
  <2>1. PcEnvOK'
    BY <1>28, GotoType, EnvType, FaultType DEF DelIpam, PcEnvOK, Label, AddPc,
      DelPc, Rest
  <2>2. ipam' \subseteq Att
    BY <1>28 DEF DelIpam, TypeOK
  <2> QED
    BY <1>28, <2>1, <2>2 DEF DelIpam, TypeOK, PcEnvOK, Label, vpp, disk, proc
<1>29. ASSUME NEW a \in Att, DelNetns(a) PROVE TypeOK'
  <2>1. PcEnvOK'
    BY <1>29, GotoType, EnvType, FaultType DEF DelNetns, PcEnvOK, Label, AddPc,
      DelPc, Rest
  <2> QED
    BY <1>29, <2>1 DEF DelNetns, TypeOK, PcEnvOK, Label, vpp, disk, proc
<1>30. ASSUME NEW a \in Att, HungKilled(a) PROVE TypeOK'
  <2>1. PcEnvOK'
    BY <1>30, GotoType, EnvType DEF HungKilled, PcEnvOK, Label, AddPc, DelPc,
      Rest, Failed
  <2> QED
    BY <1>30, <2>1 DEF HungKilled, TypeOK, PcEnvOK, Label, vpp, disk, proc
<1>31. ASSUME NEW a \in Att, Killed(a) PROVE TypeOK'
  <2>1. PcEnvOK'
    BY <1>31, GotoType, EnvType, FaultType DEF Killed, PcEnvOK, Label, AddPc,
      DelPc, Rest, Failed
  <2> QED
    BY <1>31, <2>1 DEF Killed, TypeOK, PcEnvOK, Label, vpp, disk, proc
<1>32. CASE VppCrash
  BY <1>32, FaultType, IfaceType DEF VppCrash, TypeOK, disk
<1>33. CASE VppStart
  BY <1>33 DEF VppStart, TypeOK, vpp, disk, proc, env
<1>34. CASE UNCHANGED vars
  BY <1>34 DEF vars, TypeOK, vpp, disk, proc, env
<1> QED
  BY <1>1, <1>2, <1>3, <1>4, <1>5, <1>6, <1>7, <1>8, <1>9, <1>10, <1>11, <1>12,
    <1>13,
    <1>14, <1>15, <1>16, <1>17, <1>18, <1>19, <1>20, <1>21, <1>22, <1>23, <1>24, <1>25,
    <1>26, <1>27, <1>28, <1>29, <1>30, <1>31, <1>32, <1>33, <1>34, <1>14a DEF Next, AddStep,
    DelStep

-----------------------------------------------------------------------------
(* What a step of one invocation leaves alone.                             *)

\* It changes no other invocation.
Local(a) ==
  \A b \in Att \ {a} : /\ pc'[b] = pc[b]
                       /\ pod'[b] = pod[b]
                       /\ idx'[b] = idx[b]
                       /\ sid'[b] = sid[b]
                       /\ fresh'[b] = fresh[b]

\* It changes no socket registered for another attachment, and registers none.
SocksStep(a) ==
  \A s \in SockId : socks'[s] # socks[s] =>
    socks[s] \in Own(a) \union {NoPath} /\ socks'[s] \in Own(a) \union {NoPath}

\* The memif of another attachment stays what and where it is.
IfsStep(a) ==
  \A i \in SwIf : ifs[i].kind = "memif" /\ ifs[i].path \notin Own(a) =>
    ifs'[i].kind = "memif" /\ ifs'[i].path = ifs[i].path

\* The step of MemifTouchesOwn.
Touches(a) ==
  \A i \in SwIf : ifs'[i] # ifs[i] =>
    /\ ifs[i].path \in Own(a) \union {NoPath}
    /\ ifs'[i].path \in Own(a) \union {NoPath}

StepOf(a) ==
  /\ Local(a) /\ SocksStep(a) /\ IfsStep(a)
  /\ Conf[a].ifType = "memif" => Touches(a)

VppInv == MemifPlaced /\ SocketsConsistent

\* The files of two attachments differ, and none is NoPath.
LEMMA OwnApart ==
  /\ \A a \in Att : NoPath \notin Own(a) /\ Own(a) \subseteq Path /\ SocketPath(a) \in Own(a)
  /\ \A a, b \in Att : a # b => Own(a) \intersect Own(b) = {}
BY VppAssumption DEF Own, Path, SocketPath

LEMMA Frame ==
  ASSUME IInv, TypeOK', NEW a \in Att, StepOf(a), NEW b \in Att, b # a
  PROVE  AttInv(b)'
<1>1. AttInv(b)
  BY DEF IInv
<1>2. /\ pc'[b] = pc[b] /\ sid'[b] = sid[b] /\ idx'[b] = idx[b]
      /\ fresh'[b] = fresh[b] /\ pod'[b] = pod[b]
  BY DEF StepOf, Local
<1>3. SocketPath(b)' = SocketPath(b)
  BY <1>2 DEF SocketPath
<1>4. PicksId(b)'
  <2>1. ASSUME NEW s \in SockId, socks[s] # SocketPath(b) PROVE socks'[s] # SocketPath(b)
    BY <2>1, OwnApart DEF StepOf, SocksStep
  <2> QED
    BY <1>1, <1>2, <1>3, <2>1 DEF AttInv, PicksId
<1>5. SidOwned(b)'
  <2>1. ASSUME NEW s \in SockId, socks[s] \in Own(b) PROVE socks'[s] \in Own(b)
    BY <2>1, OwnApart DEF StepOf, SocksStep
  <2> QED
    BY <1>1, <1>2, <2>1 DEF AttInv, SidOwned
<1>6. IdxOwned(b)'
  <2>1. ASSUME NEW i \in SwIf, ifs[i].kind = "memif", ifs[i].path \in Own(b)
        PROVE  ifs'[i].kind = "memif" /\ ifs'[i].path \in Own(b)
    BY <2>1, OwnApart DEF StepOf, IfsStep
  <2> QED
    BY <1>1, <1>2, <2>1 DEF AttInv, IdxOwned
<1>7. LabelFits(b)'
  BY <1>1, <1>2 DEF AttInv, LabelFits
<1> QED
  BY <1>4, <1>5, <1>6, <1>7 DEF AttInv

\* Where an invocation goes.
LEMMA Moves ==
  ASSUME TypeOK, NEW a \in Att
  PROVE  /\ \A l : Goto(a, l) => pc'[a] = l /\ \A b \in Att \ {a} : pc'[b] = pc[b]
         /\ \A ok, err : Replied(a, ok, err) =>
              fresh[a] /\ pc'[a] \in {ok, err} /\ \A b \in Att \ {a} : pc'[b] = pc[b]
         /\ \A can, err : Refused(a, can, err) =>
              pc'[a] = err /\ \A b \in Att \ {a} : pc'[b] = pc[b]
BY DEF TypeOK, Goto, Replied, Refused

-----------------------------------------------------------------------------
(* The actions that change neither an interface nor a socket.              *)

LEMMA Quiet ==
  ASSUME IInv, NEW a \in Att, Local(a), UNCHANGED <<ifs, socks>>
  PROVE  StepOf(a) /\ VppInv'
BY DEF IInv, StepOf, SocksStep, IfsStep, Touches, VppInv, MemifPlaced,
  SocketsConsistent

\* Labels at which an invocation holds nothing.
Neutral == Label \ ({"aMkSock", "aVhost"} \union HoldsSid \union HoldsIdx)

LEMMA AtNeutral ==
  ASSUME NEW a \in Att, pc'[a] \in Neutral
  PROVE  AttInv(a)'
BY DEF Neutral, AttInv, PicksId, SidOwned, IdxOwned, LabelFits, HoldsSid,
  HoldsIdx, Bridging

\* An invocation that goes on with the index it holds.
LEMMA KeepsIdx ==
  ASSUME NEW a \in Att, AttInv(a), pc[a] \in HoldsIdx \ {"dDelete"},
         pc'[a] \in HoldsIdx \ {"dDelete"}, pc'[a] \in Bridging => Conf[a].netType = "bridge",
         UNCHANGED <<ifs, idx, fresh>>
  PROVE  AttInv(a)'
BY DEF AttInv, PicksId, SidOwned, IdxOwned, LabelFits, HoldsSid, HoldsIdx

\* The invocation ends, or it is past VPP.
EndStep(a) ==
  \/ AddNoNetns(a) \/ AddSaveVppConfig(a) \/ AddIpam(a) \/ AddOnContainer(a)
  \/ DelUnknownDevice(a) \/ DelFileCleanup(a) \/ DelIpam(a) \/ DelNetns(a)
  \/ HungKilled(a) \/ Killed(a)

LEMMA EndPreserves ==
  ASSUME IInv, NEW a \in Att, EndStep(a)
  PROVE  StepOf(a) /\ AttInv(a)' /\ VppInv'
<1>1. ASSUME AddSaveVppConfig(a)
      PROVE  pc'[a] \in Neutral /\ Local(a) /\ UNCHANGED <<ifs, socks>>
  BY <1>1, Moves DEF IInv, AddSaveVppConfig, Neutral, Label, AddPc, DelPc, Rest,
    HoldsSid, HoldsIdx, Local, vpp, disk, proc
<1>2. ASSUME AddIpam(a)
      PROVE  pc'[a] \in Neutral /\ Local(a) /\ UNCHANGED <<ifs, socks>>
  BY <1>2, Moves DEF IInv, AddIpam, Neutral, Label, AddPc, DelPc, Rest,
    HoldsSid, HoldsIdx, Local, vpp, disk, proc
<1>3. ASSUME AddOnContainer(a)
      PROVE  pc'[a] \in Neutral /\ Local(a) /\ UNCHANGED <<ifs, socks>>
  BY <1>3, Moves DEF IInv, AddOnContainer, Neutral, Label, AddPc, DelPc, Rest,
    HoldsSid, HoldsIdx, Local, vpp, disk, proc
<1>4. ASSUME DelUnknownDevice(a)
      PROVE  pc'[a] \in Neutral /\ Local(a) /\ UNCHANGED <<ifs, socks>>
  BY <1>4, Moves DEF IInv, DelUnknownDevice, Neutral, Label, AddPc, DelPc, Rest,
    HoldsSid, HoldsIdx, Local, vpp, disk, proc
<1>5. ASSUME DelFileCleanup(a)
      PROVE  pc'[a] \in Neutral /\ Local(a) /\ UNCHANGED <<ifs, socks>>
  BY <1>5, Moves DEF IInv, DelFileCleanup, Neutral, Label, AddPc, DelPc, Rest,
    HoldsSid, HoldsIdx, Local, vpp, disk, proc
<1>6. ASSUME DelIpam(a)
      PROVE  pc'[a] \in Neutral /\ Local(a) /\ UNCHANGED <<ifs, socks>>
  BY <1>6, Moves DEF IInv, DelIpam, Neutral, Label, AddPc, DelPc, Rest,
    HoldsSid, HoldsIdx, Local, vpp, disk, proc
<1>7. ASSUME DelNetns(a)
      PROVE  pc'[a] \in Neutral /\ Local(a) /\ UNCHANGED <<ifs, socks>>
  BY <1>7, Moves DEF IInv, DelNetns, Neutral, Label, AddPc, DelPc, Rest,
    HoldsSid, HoldsIdx, Local, vpp, disk, proc
<1>8. ASSUME HungKilled(a)
      PROVE  pc'[a] \in Neutral /\ Local(a) /\ UNCHANGED <<ifs, socks>>
  BY <1>8, Moves DEF IInv, HungKilled, Failed, Neutral, Label, AddPc, DelPc,
    Rest, HoldsSid, HoldsIdx, Local, vpp, disk, proc
<1>9. ASSUME Killed(a)
      PROVE  pc'[a] \in Neutral /\ Local(a) /\ UNCHANGED <<ifs, socks>>
  BY <1>9, Moves DEF IInv, Killed, Failed, Neutral, Label, AddPc, DelPc, Rest,
    HoldsSid, HoldsIdx, Local, vpp, disk, proc
<1>10. ASSUME AddNoNetns(a)
      PROVE  pc'[a] \in Neutral /\ Local(a) /\ UNCHANGED <<ifs, socks>>
  BY <1>10, Moves DEF IInv, AddNoNetns, Neutral, Label, AddPc, DelPc, Rest,
    HoldsSid, HoldsIdx, Local, vpp, disk, proc
<1> QED
  BY <1>1, <1>2, <1>3, <1>4, <1>5, <1>6, <1>7, <1>8, <1>9, <1>10, AtNeutral, Quiet
    DEF EndStep

\* The bridge requests and lookups, which need no more than the index.
BridgeStep(a) ==
  \/ AddNetwork(a) \/ AddFindBridge(a) \/ AddCreateBridge(a)
  \/ DelFindBridge(a) \/ DelDeleteBridge(a)

LEMMA BridgePreserves ==
  ASSUME IInv, NEW a \in Att, BridgeStep(a)
  PROVE  StepOf(a) /\ AttInv(a)' /\ VppInv'
<1>1. Local(a) /\ UNCHANGED <<ifs, socks, idx, fresh>>
  BY Moves DEF IInv, BridgeStep, AddNetwork, AddFindBridge, AddCreateBridge,
    DelFindBridge, DelDeleteBridge, Local, vpp, disk, proc
<1>2. pc[a] \in HoldsIdx \ {"dDelete"}
  BY DEF BridgeStep, AddNetwork, AddFindBridge, AddCreateBridge, DelFindBridge,
    DelDeleteBridge, HoldsIdx
<1>3. pc'[a] \in Neutral \union (HoldsIdx \ {"dDelete"})
  BY Moves DEF IInv, BridgeStep, AddNetwork, AddFindBridge, AddCreateBridge,
    DelFindBridge, DelDeleteBridge, Neutral, Label, AddPc, DelPc, Rest,
    HoldsSid, HoldsIdx
<1>4. pc'[a] \in Bridging => Conf[a].netType = "bridge"
  <2>1. LabelFits(a)
    BY DEF IInv, AttInv
  <2> QED
    BY <2>1, Moves DEF IInv, BridgeStep, AddNetwork, AddFindBridge,
      AddCreateBridge, DelFindBridge, DelDeleteBridge, LabelFits, Bridging
<1>5. AttInv(a)'
  BY <1>1, <1>2, <1>3, <1>4, AtNeutral, KeepsIdx DEF IInv
<1> QED
  BY <1>1, <1>5, Quiet

\* The steps by which an invocation gets a socket id or an index.
LookupStep(a) ==
  \/ AddOpen(a) \/ AddFindMemifSocket(a) \/ DelOpen(a)
  \/ DelFindMemifSocket(a) \/ DelFindMemifBySocket(a)
  \/ DelFindMemifInterface(a) \/ DelFindMemifSocketCnt(a)

LEMMA LookupPreserves ==
  ASSUME IInv, NEW a \in Att, LookupStep(a)
  PROVE  StepOf(a) /\ AttInv(a)' /\ VppInv'
<1>1. Local(a) /\ UNCHANGED <<ifs, socks>>
  BY Moves DEF IInv, TypeOK, LookupStep, AddOpen, AddFindMemifSocket, DelOpen,
    LoadVppConfig, DelFindMemifSocket, DelFindMemifBySocket,
    DelFindMemifInterface, DelFindMemifSocketCnt, GetPod, Local, vpp, disk, proc
<1>2. AttInv(a)
  BY DEF IInv
<1>3. ASSUME AddOpen(a) PROVE AttInv(a)'
  <2>1. pc'[a] \in Neutral \/ (pc'[a] = "aVhost" /\ Conf[a].ifType = "vhostuser")
    BY <1>3, Moves DEF IInv, AddOpen, AddDevice, Neutral, Label, AddPc, DelPc,
      Rest, HoldsSid, HoldsIdx
  <2> QED
    BY <2>1, AtNeutral DEF AttInv, PicksId, SidOwned, IdxOwned, LabelFits,
      HoldsSid, HoldsIdx, Bridging
<1>4. ASSUME AddFindMemifSocket(a) PROVE AttInv(a)'
  <2>1. CASE /\ pc'[a] = "aMemif"
             /\ \E s \in SocketsOf(socks, SocketPath(a)) : sid' = [sid EXCEPT ![a] = s]
    <3>1. sid'[a] \in SockId /\ socks'[sid'[a]] \in Own(a)
      BY <1>1, <2>1, OwnApart DEF IInv, TypeOK, SocketsOf
    <3> QED
      BY <2>1, <3>1 DEF AttInv, PicksId, SidOwned, IdxOwned, LabelFits,
        HoldsIdx, Bridging, Own
  <2>2. CASE /\ pc'[a] = "aMkSock"
             /\ SocketsOf(socks, SocketPath(a)) = {}
             /\ \E s \in LowestUnused(socks) : sid' = [sid EXCEPT ![a] = s]
    <3>1. sid'[a] \in SockId /\ \A s \in SockId : socks'[s] # SocketPath(a)
      BY <1>1, <2>2 DEF IInv, TypeOK, SocketsOf, LowestUnused
    <3>2. SocketPath(a)' = SocketPath(a)
      BY <1>4 DEF AddFindMemifSocket, SocketPath
    <3> QED
      BY <2>2, <3>1, <3>2 DEF AttInv, PicksId, SidOwned, IdxOwned, LabelFits,
        HoldsIdx, HoldsSid, Bridging
  <2> QED
    BY <1>4, <2>1, <2>2, Moves DEF IInv, AddFindMemifSocket
<1>5. ASSUME DelOpen(a) PROVE AttInv(a)'
  <2>1. \/ pc'[a] \in Neutral
        \/ /\ Conf[a].ifType # "memif"
           /\ pc'[a] \in {"dUnbridge", "dDevice"}
           /\ pc'[a] = "dUnbridge" => Conf[a].netType = "bridge"
    BY <1>5, Moves DEF IInv, DelOpen, DelNetwork, Neutral, Label, AddPc, DelPc,
      Rest, HoldsSid, HoldsIdx
  <2> QED
    BY <2>1, AtNeutral DEF AttInv, PicksId, SidOwned, IdxOwned, LabelFits,
      HoldsSid, HoldsIdx, Bridging
<1>6. ASSUME DelFindMemifSocket(a) PROVE AttInv(a)'
  <2>1. CASE /\ pc'[a] = "dFind"
             /\ \E s \in SocketsOf(socks, SocketPath(a)) : sid' = [sid EXCEPT ![a] = s]
    <3>1. sid'[a] \in SockId /\ socks'[sid'[a]] \in Own(a)
      BY <1>1, <2>1, OwnApart DEF IInv, TypeOK, SocketsOf
    <3> QED
      BY <2>1, <3>1 DEF AttInv, PicksId, SidOwned, IdxOwned, LabelFits,
        HoldsIdx, Bridging, Own
  <2>2. CASE pc'[a] = "dFile"
    BY <2>2, AtNeutral DEF Neutral, Label, DelPc, HoldsSid, HoldsIdx
  <2> QED
    BY <1>6, <2>1, <2>2, Moves DEF IInv, DelFindMemifSocket
<1>7. ASSUME DelFindMemifBySocket(a) PROVE AttInv(a)'
  <2>1. CASE /\ pc'[a] = DelNetwork(a)
             /\ \E i \in MemifsOn(ifs, sid[a]) : idx' = [idx EXCEPT ![a] = i]
    <3>1. fresh[a] /\ socks[sid[a]] \in Own(a)
      BY <1>2, <1>7 DEF DelFindMemifBySocket, AttInv, SidOwned, HoldsSid
    <3>2. /\ idx'[a] \in SwIf
          /\ ifs'[idx'[a]].kind = "memif"
          /\ ifs'[idx'[a]].path \in Own(a)
      BY <1>1, <2>1, <3>1 DEF IInv, TypeOK, MemifsOn, SocketsConsistent
    <3> QED
      BY <2>1, <3>2 DEF AttInv, PicksId, SidOwned, IdxOwned, LabelFits,
        HoldsIdx, HoldsSid, Bridging, Own, DelNetwork
  <2>2. CASE pc'[a] = "dFile"
    BY <2>2, AtNeutral DEF Neutral, Label, DelPc, HoldsSid, HoldsIdx
  <2> QED
    BY <1>7, <2>1, <2>2, Moves DEF IInv, DelFindMemifBySocket
<1>8. ASSUME DelFindMemifInterface(a) PROVE AttInv(a)'
  <2>1. CASE /\ pc'[a] = "dDelete"
             /\ sid' = [sid EXCEPT ![a] = ifs[idx[a]].sid]
    <3>1. /\ fresh[a] /\ Conf[a].ifType = "memif"
          /\ idx[a] \in SwIf /\ ifs[idx[a]].kind = "memif" /\ ifs[idx[a]].path \in Own(a)
      BY <1>2, <1>8 DEF DelFindMemifInterface, AttInv, IdxOwned, HoldsIdx
    <3>2. sid'[a] = ifs[idx[a]].sid
      BY <2>1 DEF IInv, TypeOK
    <3>3. sid'[a] \in SockId /\ socks'[sid'[a]] \in Own(a)
      BY <1>1, <3>1, <3>2 DEF IInv, MemifPlaced, SocketsConsistent
    <3>4. UNCHANGED <<idx, fresh>>
      BY <1>8 DEF DelFindMemifInterface
    <3> QED
      BY <1>1, <2>1, <3>1, <3>3, <3>4 DEF AttInv, PicksId, SidOwned, IdxOwned,
        LabelFits, Bridging, Own
  <2>2. CASE pc'[a] = "dFile"
    BY <2>2, AtNeutral DEF Neutral, Label, DelPc, HoldsSid, HoldsIdx
  <2> QED
    BY <1>8, <2>1, <2>2, Moves DEF IInv, DelFindMemifInterface
<1>9. ASSUME DelFindMemifSocketCnt(a) PROVE AttInv(a)'
  <2>1. CASE pc'[a] = "dRmSock"
    BY <1>1, <1>2, <1>9, <2>1 DEF DelFindMemifSocketCnt, proc, AttInv, PicksId,
      SidOwned, IdxOwned, LabelFits, HoldsSid, HoldsIdx, Bridging, Own
  <2>2. CASE pc'[a] = "dFile"
    BY <2>2, AtNeutral DEF Neutral, Label, DelPc, HoldsSid, HoldsIdx
  <2> QED
    BY <1>9, <2>1, <2>2, Moves DEF IInv, DelFindMemifSocketCnt
<1>10. AttInv(a)'
  BY <1>3, <1>4, <1>5, <1>6, <1>7, <1>8, <1>9 DEF LookupStep
<1> QED
  BY <1>1, <1>10, Quiet

-----------------------------------------------------------------------------
(* The requests that change VPP.                                           *)

\* Requests about the interface whose index the invocation holds.
FieldStep(a) ==
  \/ AddSetState(a) \/ AddSetMtu(a) \/ AddBridgeInterface(a)
  \/ DelRemoveBridgeInterface(a)

LEMMA FieldPreserves ==
  ASSUME IInv, NEW a \in Att, FieldStep(a)
  PROVE  StepOf(a) /\ AttInv(a)' /\ VppInv'
<1>1. Local(a) /\ UNCHANGED <<socks, idx, fresh>>
  BY Moves DEF IInv, FieldStep, AddSetState, AddSetMtu, AddBridgeInterface,
    DelRemoveBridgeInterface, Local, disk, proc
<1>2. AttInv(a) /\ pc[a] \in HoldsIdx \ {"dDelete"}
  BY DEF IInv, FieldStep, AddSetState, AddSetMtu, AddBridgeInterface,
    DelRemoveBridgeInterface, HoldsIdx
<1>3. \/ ifs' = ifs
      \/ /\ fresh[a]
         /\ \A j \in SwIf : /\ ifs'[j].kind = ifs[j].kind
                            /\ ifs'[j].path = ifs[j].path
                            /\ ifs'[j].sid = ifs[j].sid
                            /\ j # idx[a] => ifs'[j] = ifs[j]
  <2>1. ifs \in [SwIf -> Iface] /\ TypeOK
    BY DEF IInv, TypeOK
  <2>2. CASE AddSetState(a)
    BY <2>1, <2>2, SetField, Moves DEF AddSetState
  <2>3. CASE AddSetMtu(a)
    BY <2>1, <2>3, SetField, Moves DEF AddSetMtu
  <2>4. CASE AddBridgeInterface(a)
    <3>1. AddBridgeDomain(a) \in BdId
      BY <1>2, <2>4, BridgeDomain DEF AddBridgeInterface, AttInv, LabelFits,
        Bridging
    <3> QED
      BY <2>1, <2>4, <3>1, SetField, Moves DEF AddBridgeInterface
  <2>5. CASE DelRemoveBridgeInterface(a)
    BY <2>1, <2>5, SetField, Moves DEF DelRemoveBridgeInterface
  <2> QED
    BY <2>2, <2>3, <2>4, <2>5 DEF FieldStep
<1>4. \A j \in SwIf : /\ ifs'[j].kind = ifs[j].kind
                      /\ ifs'[j].path = ifs[j].path
                      /\ ifs'[j].sid = ifs[j].sid
  BY <1>3
<1>5. pc'[a] \in Neutral \union (HoldsIdx \ {"dDelete"})
  BY Moves DEF IInv, FieldStep, AddSetState, AddSetMtu, AddBridgeInterface,
    DelRemoveBridgeInterface, Neutral, Label, AddPc, DelPc, Rest, HoldsSid,
    HoldsIdx
<1>6. pc'[a] \in Bridging => Conf[a].netType = "bridge"
  BY <1>2, Moves DEF IInv, FieldStep, AddSetState, AddSetMtu,
    AddBridgeInterface, DelRemoveBridgeInterface, AttInv, LabelFits, Bridging
<1>7. AttInv(a)'
  <2>1. CASE pc'[a] \in Neutral
    BY <2>1, AtNeutral
  <2>2. CASE pc'[a] \in HoldsIdx \ {"dDelete"}
    BY <1>1, <1>2, <1>4, <1>6, <2>2 DEF AttInv, PicksId, SidOwned, IdxOwned,
      LabelFits, HoldsSid, HoldsIdx
  <2> QED
    BY <1>5, <2>1, <2>2
<1>8. VppInv'
  BY <1>1, <1>4 DEF IInv, VppInv, MemifPlaced, SocketsConsistent
<1>9. Conf[a].ifType = "memif" => Touches(a)
  BY <1>2, <1>3 DEF AttInv, IdxOwned, Touches
<1> QED
  BY <1>1, <1>4, <1>7, <1>8, <1>9 DEF StepOf, SocksStep, IfsStep

LEMMA CreateSocketPreserves ==
  ASSUME IInv, NEW a \in Att, AddCreateMemifSocket(a)
  PROVE  StepOf(a) /\ AttInv(a)' /\ VppInv'
<1>1. Local(a) /\ UNCHANGED <<ifs, idx, sid, fresh>>
  BY Moves DEF IInv, AddCreateMemifSocket, Local, disk, proc
<1>2. sid[a] \in SockId /\ \A s \in SockId : socks[s] # SocketPath(a)
  BY DEF IInv, AddCreateMemifSocket, AttInv, PicksId
<1>3. CASE UNCHANGED socks /\ pc'[a] = "addFailed"
  BY <1>1, <1>3, Quiet, AtNeutral DEF Neutral, Label, Rest, HoldsSid, HoldsIdx
<1>4. CASE /\ CanAddSocket(socks, sid[a], SocketPath(a))
           /\ socks' = [socks EXCEPT ![sid[a]] = SocketPath(a)]
           /\ pc'[a] \in {"aMemif", "addFailed"}
  <2>1. socks[sid[a]] = NoPath
    BY <1>2, <1>4 DEF CanAddSocket
  <2>2. socks'[sid[a]] = SocketPath(a) /\ \A s \in SockId \ {sid[a]} : socks'[s] = socks[s]
    BY <1>2, <1>4 DEF IInv, TypeOK
  <2>3. StepOf(a)
    BY <1>1, <2>1, <2>2, OwnApart DEF StepOf, SocksStep, IfsStep, Touches
  <2>4. AttInv(a)'
    BY <1>1, <1>2, <1>4, <2>2, OwnApart DEF AttInv, PicksId, SidOwned, IdxOwned,
      LabelFits, HoldsSid, HoldsIdx, Bridging, Own
  <2>5. \A i \in SwIf : ifs[i].kind = "memif" => ifs[i].sid # sid[a]
    BY <2>1, VppAssumption DEF IInv, MemifPlaced, SocketsConsistent
  <2>6. VppInv'
    BY <1>1, <1>2, <2>2, <2>5 DEF IInv, VppInv, MemifPlaced, SocketsConsistent
  <2> QED
    BY <2>3, <2>4, <2>6
<1> QED
  BY <1>3, <1>4, Moves DEF IInv, AddCreateMemifSocket

LEMMA CreateMemifPreserves ==
  ASSUME IInv, NEW a \in Att, AddCreateMemifInterface(a)
  PROVE  StepOf(a) /\ AttInv(a)' /\ VppInv'
<1>1. UNCHANGED <<socks, sid, fresh>>
  BY DEF AddCreateMemifInterface
<1>2. Local(a)
  BY Moves DEF IInv, TypeOK, AddCreateMemifInterface, Local
<1>3. sid[a] \in SockId /\ (fresh[a] => socks[sid[a]] \in Own(a))
  BY DEF IInv, AddCreateMemifInterface, AttInv, SidOwned, HoldsSid
<1>4. CASE UNCHANGED <<ifs, idx>> /\ pc'[a] = "addFailed"
  BY <1>1, <1>2, <1>4, Quiet, AtNeutral DEF Neutral, Label, Rest, HoldsSid,
    HoldsIdx
<1>5. CASE /\ fresh[a]
           /\ \E i \in FreeIndex(ifs) :
                /\ ifs' = [ifs EXCEPT ![i] = NewIf("memif", socks[sid[a]], sid[a])]
                /\ idx' = [idx EXCEPT ![a] = i]
           /\ pc'[a] \in {"aState", "addFailed"}
  <2>1. PICK i \in SwIf :
          /\ ifs[i] = NoIf
          /\ ifs' = [ifs EXCEPT ![i] = NewIf("memif", socks[sid[a]], sid[a])]
          /\ idx' = [idx EXCEPT ![a] = i]
    BY <1>5 DEF FreeIndex
  <2>2. /\ ifs[i].kind = "none" /\ ifs[i].path = NoPath
        /\ ifs'[i].kind = "memif" /\ ifs'[i].path = socks[sid[a]] /\ ifs'[i].sid = sid[a]
        /\ \A j \in SwIf \ {i} : ifs'[j] = ifs[j]
        /\ idx'[a] = i
    BY <2>1 DEF IInv, TypeOK, NoIf, NewIf
  <2>3. socks[sid[a]] \in Own(a) /\ socks[sid[a]] \in Path
    BY <1>3, <1>5, OwnApart
  <2>4. StepOf(a)
    BY <1>1, <1>2, <2>2, <2>3 DEF StepOf, SocksStep, IfsStep, Touches
  <2>5. AttInv(a)'
    BY <1>5, <2>2, <2>3 DEF AttInv, PicksId, SidOwned, IdxOwned, LabelFits,
      HoldsSid, HoldsIdx, Bridging, Own
  <2>6. VppInv'
    BY <1>1, <1>3, <2>2, <2>3 DEF IInv, VppInv, MemifPlaced, SocketsConsistent
  <2> QED
    BY <2>4, <2>5, <2>6
<1> QED
  BY <1>4, <1>5, Moves DEF IInv, AddCreateMemifInterface

LEMMA CreateVhostPreserves ==
  ASSUME IInv, NEW a \in Att, AddCreateVhostUserInterface(a)
  PROVE  StepOf(a) /\ AttInv(a)' /\ VppInv'
<1>1. UNCHANGED <<socks, sid, fresh>>
  BY DEF AddCreateVhostUserInterface
<1>2. Local(a)
  BY Moves DEF IInv, TypeOK, AddCreateVhostUserInterface, Local
<1>3. Conf[a].ifType = "vhostuser"
  BY DEF IInv, AddCreateVhostUserInterface, AttInv, LabelFits
<1>4. pc'[a] \in {"aState", "addFailed"}
  BY Moves DEF IInv, AddCreateVhostUserInterface
<1>5. AttInv(a)'
  BY <1>3, <1>4 DEF AttInv, PicksId, SidOwned, IdxOwned, LabelFits, HoldsSid,
    HoldsIdx, Bridging
<1>6. CASE UNCHANGED ifs
  BY <1>1, <1>2, <1>5, <1>6, Quiet
<1>7. CASE \E i \in FreeIndex(ifs) :
             ifs' = [ifs EXCEPT ![i] = NewIf("vhostuser", SocketPath(a), 0)]
  <2>1. PICK i \in SwIf :
          ifs[i] = NoIf /\ ifs' = [ifs EXCEPT ![i] = NewIf("vhostuser", SocketPath(a), 0)]
    BY <1>7 DEF FreeIndex
  <2>2. /\ ifs[i].kind = "none"
        /\ ifs'[i].kind = "vhostuser"
        /\ \A j \in SwIf \ {i} : ifs'[j] = ifs[j]
    BY <2>1 DEF IInv, TypeOK, NoIf, NewIf
  <2>3. StepOf(a)
    BY <1>1, <1>2, <1>3, <2>2 DEF StepOf, SocksStep, IfsStep
  <2>4. VppInv'
    BY <1>1, <2>2 DEF IInv, VppInv, MemifPlaced, SocketsConsistent
  <2> QED
    BY <1>5, <2>3, <2>4
<1> QED
  BY <1>6, <1>7 DEF AddCreateVhostUserInterface

LEMMA DeleteMemifPreserves ==
  ASSUME IInv, NEW a \in Att, DelDeleteMemifInterface(a)
  PROVE  StepOf(a) /\ AttInv(a)' /\ VppInv'
<1>1. Local(a) /\ UNCHANGED <<socks, idx, sid, fresh>>
  BY Moves DEF IInv, DelDeleteMemifInterface, Local, disk, proc
<1>2. AttInv(a) /\ pc[a] = "dDelete"
  BY DEF IInv, DelDeleteMemifInterface
<1>3. CASE UNCHANGED ifs /\ pc'[a] = "dFileErr"
  BY <1>1, <1>3, Quiet, AtNeutral DEF Neutral, Label, DelPc, HoldsSid, HoldsIdx
<1>4. CASE /\ fresh[a]
           /\ ifs' = [ifs EXCEPT ![idx[a]] = NoIf]
           /\ pc'[a] \in {"dCnt", "dFileErr"}
  <2>1. idx[a] \in SwIf /\ ifs[idx[a]].path \in Own(a)
    BY <1>2, <1>4 DEF AttInv, IdxOwned, LabelFits, HoldsIdx
  <2>2. /\ ifs'[idx[a]].kind = "none" /\ ifs'[idx[a]].path = NoPath
        /\ \A j \in SwIf \ {idx[a]} : ifs'[j] = ifs[j]
    BY <1>4, <2>1 DEF IInv, TypeOK, NoIf
  <2>3. StepOf(a)
    BY <1>1, <2>1, <2>2 DEF StepOf, SocksStep, IfsStep, Touches
  <2>4. AttInv(a)'
    BY <1>1, <1>2, <1>4 DEF AttInv, PicksId, SidOwned, IdxOwned, LabelFits,
      HoldsSid, HoldsIdx, Bridging, Own
  <2>5. VppInv'
    BY <1>1, <2>2 DEF IInv, VppInv, MemifPlaced, SocketsConsistent
  <2> QED
    BY <2>3, <2>4, <2>5
<1> QED
  BY <1>3, <1>4, Moves DEF IInv, DelDeleteMemifInterface

LEMMA DeleteSocketPreserves ==
  ASSUME IInv, NEW a \in Att, DelDeleteMemifSocket(a)
  PROVE  StepOf(a) /\ AttInv(a)' /\ VppInv'
<1>1. Local(a) /\ UNCHANGED ifs
  BY Moves DEF IInv, DelDeleteMemifSocket, Local, disk, proc
<1>2. AttInv(a)'
  BY Moves, AtNeutral DEF IInv, DelDeleteMemifSocket, Neutral, Label, DelPc,
    HoldsSid, HoldsIdx
<1>3. CASE UNCHANGED socks
  BY <1>1, <1>2, <1>3, Quiet
<1>4. CASE /\ fresh[a]
           /\ CanDelSocket(ifs, socks, sid[a])
           /\ socks' = [socks EXCEPT ![sid[a]] = NoPath]
  <2>1. sid[a] \in SockId /\ socks[sid[a]] \in Own(a)
    BY <1>4 DEF IInv, DelDeleteMemifSocket, AttInv, SidOwned, HoldsSid
  <2>2. socks'[sid[a]] = NoPath /\ \A s \in SockId \ {sid[a]} : socks'[s] = socks[s]
    BY <1>4, <2>1 DEF IInv, TypeOK
  <2>3. StepOf(a)
    BY <1>1, <2>1, <2>2 DEF StepOf, SocksStep, IfsStep, Touches
  <2>4. \A i \in SwIf : ifs[i].kind = "memif" => ifs[i].sid # sid[a]
    BY <1>4 DEF CanDelSocket, MemifsOn
  <2>5. VppInv'
    BY <1>1, <2>2, <2>4 DEF IInv, VppInv, MemifPlaced, SocketsConsistent
  <2> QED
    BY <1>2, <2>3, <2>5
<1> QED
  BY <1>3, <1>4, Moves DEF IInv, DelDeleteMemifSocket

LEMMA DeleteVhostPreserves ==
  ASSUME IInv, NEW a \in Att, DelDeleteVhostUserInterface(a)
  PROVE  StepOf(a) /\ AttInv(a)' /\ VppInv'
<1>1. Local(a) /\ UNCHANGED socks /\ Conf[a].ifType = "vhostuser"
  BY Moves DEF IInv, DelDeleteVhostUserInterface, Local, disk, proc
<1>2. AttInv(a)'
  BY Moves, AtNeutral DEF IInv, DelDeleteVhostUserInterface, Neutral, Label,
    DelPc, Rest, HoldsSid, HoldsIdx
<1>3. CASE UNCHANGED ifs
  BY <1>1, <1>2, <1>3, Quiet
<1>4. CASE /\ IsKind(ifs, idx[a], "vhostuser")
           /\ ifs' = [ifs EXCEPT ![idx[a]] = NoIf]
  <2>1. /\ idx[a] \in SwIf /\ ifs[idx[a]].kind = "vhostuser"
        /\ ifs'[idx[a]].kind = "none"
        /\ \A j \in SwIf \ {idx[a]} : ifs'[j] = ifs[j]
    BY <1>4 DEF IInv, TypeOK, NoIf, IsKind
  <2>2. StepOf(a)
    BY <1>1, <2>1 DEF StepOf, SocksStep, IfsStep
  <2>3. VppInv'
    BY <1>1, <2>1 DEF IInv, VppInv, MemifPlaced, SocketsConsistent
  <2> QED
    BY <1>2, <2>2, <2>3
<1> QED
  BY <1>3, <1>4 DEF DelDeleteVhostUserInterface

-----------------------------------------------------------------------------
(* The theorems.                                                           *)

Invocation(a) == AddOpen(a) \/ AddNoNetns(a) \/ AddStep(a) \/ DelOpen(a) \/ DelStep(a)
                   \/ HungKilled(a) \/ Killed(a)

LEMMA InvocationPreserves ==
  ASSUME IInv, NEW a \in Att, Invocation(a)
  PROVE  StepOf(a) /\ AttInv(a)' /\ VppInv'
BY EndPreserves, BridgePreserves, LookupPreserves, FieldPreserves,
  CreateSocketPreserves, CreateMemifPreserves, CreateVhostPreserves,
  DeleteMemifPreserves, DeleteSocketPreserves, DeleteVhostPreserves DEF
  Invocation, AddStep, DelStep, EndStep, BridgeStep, LookupStep, FieldStep

LEMMA NextCases ==
  ASSUME [Next]_vars
  PROVE  (\E a \in Att : Invocation(a)) \/ VppCrash \/ VppStart \/ UNCHANGED vars
BY DEF Next, Invocation

LEMMA InitIInv == Init => IInv
<1> SUFFICES ASSUME Init PROVE IInv
  OBVIOUS
<1>1. TypeOK
  BY VppAssumption, CniVppAssumption, IfaceType DEF Init, TypeOK, Rest
<1>2. ASSUME NEW a \in Att PROVE AttInv(a)
  BY <1>2 DEF Init, AttInv, PicksId, SidOwned, IdxOwned, LabelFits, HoldsSid,
    HoldsIdx, Bridging
<1>3. MemifPlaced /\ SocketsConsistent
  BY DEF Init, MemifPlaced, SocketsConsistent, NoIf
<1> QED
  BY <1>1, <1>2, <1>3 DEF IInv

LEMMA NextIInv ==
  ASSUME IInv, [Next]_vars
  PROVE  IInv'
<1>1. TypeOK'
  BY TypeStep DEF IInv
<1>2. CASE \E a \in Att : Invocation(a)
  <2>1. PICK a \in Att : Invocation(a)
    BY <1>2
  <2>2. StepOf(a) /\ AttInv(a)' /\ VppInv'
    BY <2>1, InvocationPreserves
  <2>3. ASSUME NEW b \in Att PROVE AttInv(b)'
    BY <1>1, <2>2, Frame
  <2> QED
    BY <1>1, <2>2, <2>3 DEF IInv, VppInv
<1>3. CASE VppCrash
  <2>1. ASSUME NEW a \in Att PROVE AttInv(a)'
    <3>1. AttInv(a)
      BY DEF IInv
    <3>2. pc'[a] = pc[a] /\ sid'[a] = sid[a] /\ fresh'[a] = FALSE
      BY <1>3 DEF VppCrash, IInv, TypeOK
    <3>3. \A s \in SockId : socks'[s] # SocketPath(a)'
      BY <1>3, OwnApart DEF VppCrash, SocketPath
    <3> QED
      BY <3>1, <3>2, <3>3 DEF AttInv, PicksId, SidOwned, IdxOwned, LabelFits
  <2>2. VppInv'
    BY <1>3 DEF VppCrash, VppInv, MemifPlaced, SocketsConsistent, NoIf
  <2> QED
    BY <1>1, <2>1, <2>2 DEF IInv, VppInv
<1>4. CASE VppStart \/ UNCHANGED vars
  <2>1. UNCHANGED <<ifs, socks, pc, pod, idx, sid, fresh>>
    BY <1>4 DEF VppStart, vars, vpp, proc
  <2>2. ASSUME NEW a \in Att PROVE AttInv(a)'
    BY <2>1 DEF IInv, AttInv, PicksId, SidOwned, IdxOwned, LabelFits,
      SocketPath, Own
  <2>3. VppInv'
    BY <2>1 DEF IInv, VppInv, MemifPlaced, SocketsConsistent
  <2> QED
    BY <1>1, <2>2, <2>3 DEF IInv, VppInv
<1> QED
  BY <1>2, <1>3, <1>4, NextCases

(***************************************************************************)
(* IInv is an invariant: at every step of an ADD or a DEL, the socket id   *)
(* and the index a memif invocation holds are those of its own socket      *)
(* file, as long as the VPP that gave them out lives.                      *)
(***************************************************************************)
THEOREM Invariance == Spec => []IInv
<1>1. Init => IInv
  BY InitIInv
<1>2. IInv /\ [Next]_vars => IInv'
  BY NextIInv
<1> QED
  BY <1>1, <1>2, PTL DEF Spec

(***************************************************************************)
(* Every variable keeps its type: in particular the file names and socket  *)
(* ids that are read back from VPP's tables (AddCreateMemifInterface,      *)
(* DelFindMemifInterface) are always ones that were registered there.      *)
(***************************************************************************)
THEOREM TypeCorrect == Spec => []TypeOK
<1>1. IInv => TypeOK
  BY DEF IInv
<1> QED
  BY <1>1, Invariance, PTL

(***************************************************************************)
(* However ADDs and DELs race for socket ids (findMemifSocket picks one,   *)
(* CreateMemifSocket registers it later), each memif is on the socket of   *)
(* its own file and no file gets two ids.                                  *)
(***************************************************************************)
THEOREM SocketsStayConsistent == Spec => []SocketsConsistent
<1>1. IInv => SocketsConsistent
  BY DEF IInv
<1> QED
  BY <1>1, Invariance, PTL

(***************************************************************************)
(* No step of a memif ADD or DEL touches another attachment's interface,   *)
(* for any number of pods, crashes and index reuses: resolving the index   *)
(* from the socket (DelFromHost) is enough.                                *)
(***************************************************************************)
THEOREM MemifTouchesOnlyOwn == Spec => MemifTouchesOwn
<1>1. ASSUME IInv, [Next]_vars, NEW a \in Att, Conf[a].ifType = "memif", pc'[a] # pc[a]
      PROVE  Touches(a)
  <2>1. CASE \E b \in Att : Invocation(b)
    <3>1. PICK b \in Att : Invocation(b)
      BY <2>1
    <3>2. StepOf(b)
      BY <1>1, <3>1, InvocationPreserves
    <3> QED
      BY <1>1, <3>2 DEF StepOf, Local
  <2>2. CASE VppCrash \/ VppStart \/ UNCHANGED vars
    BY <1>1, <2>2 DEF VppCrash, VppStart, vars
  <2> QED
    BY <1>1, <2>1, <2>2, NextCases
<1>2. IInv /\ [Next]_vars =>
        [\A a \in Att : Conf[a].ifType = "memif" /\ pc'[a] # pc[a] =>
           \A i \in SwIf : ifs'[i] # ifs[i] =>
             /\ ifs[i].path \in Own(a) \union {NoPath}
             /\ ifs'[i].path \in Own(a) \union {NoPath}]_vars
  BY <1>1 DEF Touches
<1> QED
  BY <1>2, Invariance, PTL DEF Spec, MemifTouchesOwn
=============================================================================
