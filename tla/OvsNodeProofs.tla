--------------------------- MODULE OvsNodeProofs ---------------------------
(***************************************************************************)
(* CNI ADD and CNI DEL with the OVS-DPDK engine, for any number of         *)
(* attachments, any configurations and any number of faults.               *)
(***************************************************************************)
EXTENDS OvsNode, TLAPS, FiniteSetTheorems

-----------------------------------------------------------------------------
(* The inductive invariant of the tables: first what holds of each         *)
(* attachment.                                                             *)

BeforePort == {"none", "aFindBr", "aMkBr", "aDir", "aMkdir", "aMount", "aPort"}
AfterPort  == {"aMove", "aMac", "aSave", "aRest", "added"}
MakesDir   == {"aDir", "aMkdir", "aMount", "aPort"}

\* The ports that deleting the bridge would take.
AtRisk(a) ==
  pc[a] \in {"dFindBr", "dRmBr"} =>
    \A n \in Name : ports[n].bridge = DelBridge(a) => n \in risk[a]

\* What DEL will know of the port.
Known(a) ==
  /\ saved[a].vhostname # NoName =>
       saved[a].vhostname = PortName(a) /\ pc[a] \in {"aRest", "added", "addFailed"}
  /\ name[a] # NoName =>
       name[a] = PortName(a) /\ pc[a] \in DelPc \union {"deleted", "delFailed"}
  /\ pc[a] \in {"aRest", "added"} => saved[a].vhostname # NoName
  /\ pc[a] \in MakesDir \union AfterPort \union DelPc \/ saved[a].vhostname # NoName
       => conf[a].ifType = "vhostuser"
  /\ pc[a] = "dRmPort" => name[a] # NoName
  /\ pc[a] \in DelPc \union {"deleted"} => saved[a] = NoData
  /\ saved[a] = Torn => "torn" \in seen
  /\ pc[a] \in AddPc \union DelPc => conn[a] \/ "down" \in seen

\* Its ADD was complete, and its DEL stands at one of pcs or has yet to begin.
Has(a, pcs) == saved[a].vhostname # NoName \/ (name[a] # NoName /\ pc[a] \in pcs)

BridgeThere(a) ==
  a \notin crossed =>
    /\ pc[a] \in MakesDir \union AfterPort \/ Has(a, DelPc \ {"dRest"})
         => bridges[AddBridge(a)] # 0
    /\ pc[a] = "dRmBr" => bridges[DelBridge(a)] = brRow[a] /\ brRow[a] # 0

PortThere(a) ==
  Undisturbed(a) /\ (pc[a] \in AfterPort \/ Has(a, {"dFindPort", "dRmPort"}))
    => ports[PortName(a)].owner = {a}

\* What DEL looked up is its own port, if there is one.
LookedUp(a) ==
  pc[a] = "dRmPort" /\ ports[PortName(a)].owner = {a} => portRow[a] = {a}

\* Its port is known to the invocation that will delete it.
PortKnown(a) ==
  \/ ports[PortName(a)].owner # {a}
  \/ pc[a] \in {"aMove", "aMac", "aSave"}
  \/ Has(a, {"dFindPort", "dRmPort"})
  \/ seen \intersect {"down", "error", "timeout", "kill", "torn"} # {}
  \/ Misdirected(a) \/ conf[a].netType # "bridge"

AttInv(a) ==
  /\ AtRisk(a) /\ Known(a) /\ BridgeThere(a)
  /\ PortThere(a) /\ LookedUp(a) /\ PortKnown(a)

(* Then what holds of the tables.                                          *)

\* The row that the ADD of c made, and when it may be there.
MadeBy(n, c) ==
  /\ ports[n] = [owner |-> {c}, bridge |-> AddBridge(c),
                 ifaceId |-> ResolveOvnArg(c, "ovnPort")]
  /\ n = PortName(c)
  /\ bridges[AddBridge(c)] # 0
  /\ pc[c] \notin BeforePort

PortsMade == \A n \in Name : ports[n] # NoPort => \E c \in Att : MadeBy(n, c)

\* An attachment that has yet to ask whether the bridge b is empty.
Asking == {"addFailed", "delFailed"} \union MakesDir \union AfterPort \union (DelPc \ {"dRest"})

WillAsk(c, b) == DelBridge(c) = b /\ pc[c] \in Asking

\* A bridge has a port, or someone will ask.
BridgesKept ==
  \A b \in Bridge \ {"br-int"} : bridges[b] # 0 =>
    (\E n \in Name : ports[n].bridge = b) \/ (\E c \in Att : WillAsk(c, b))

OInv == OvsTypeOK /\ PortsMade /\ BridgesKept /\ \A a \in Att : AttInv(a)

-----------------------------------------------------------------------------
(* What an invocation works on.                                            *)

LEMMA ConfFacts ==
  ASSUME conf \in Confs, NEW a \in Att
  PROVE  /\ conf[a] \in ConfType
         /\ conf[a].pod \in Att
         /\ AddBridge(a) \in Bridge /\ DelBridge(a) \in Bridge
         /\ PortName(a) \in Name /\ PortName(a) # NoName
         /\ ResolveOvnArg(a, "ovnPort") \in {"", "env", "cni"}
         /\ IfMac(a) \in {"env", "cni", "conf", "random"}
<1>1. conf[a] \in ConfType
  BY OvsAssumption
<1>2. /\ conf[a].pod \in Att /\ conf[a].bridge \in Bridge \union {""}
      /\ conf[a].sock \in {"", "socket"}
  <2>1. conf[a].pod \in Att
    BY <1>1 DEF ConfType
  <2>2. conf[a].bridge \in Bridge \union {""}
    BY <1>1 DEF ConfType
  <2>3. conf[a].sock \in {"", "socket"}
    BY <1>1 DEF ConfType
  <2> QED
    BY <2>1, <2>2, <2>3
<1>3. AddBridge(a) \in Bridge /\ DelBridge(a) \in Bridge
  BY <1>2 DEF AddBridge, DelBridge, Bridge
<1>4. PortName(a) \in Name /\ PortName(a) # NoName
  BY <1>2, OvsAssumption DEF PortName, Name, NoName
<1>5. \A key : ResolveOvnArg(a, key) \in {"", "env", "cni"}
  BY DEF ResolveOvnArg
<1>6. IfMac(a) \in {"env", "cni", "conf", "random"}
  BY <1>5 DEF IfMac
<1> QED
  BY <1>1, <1>2, <1>3, <1>4, <1>5, <1>6

\* DEL goes to the bridge that ADD chose, unless ADD chose br-int for an OVN port.
LEMMA SameBridge ==
  ASSUME NEW a \in Att
  PROVE  /\ ~Misdirected(a) => AddBridge(a) = DelBridge(a)
         /\ AddBridge(a) # "br-int" => AddBridge(a) = DelBridge(a)
         /\ ResolveOvnArg(a, "ovnPort") # "" <=> "ovnPort" \in conf[a].env \union conf[a].cni
<1>1. ResolveOvnArg(a, "ovnPort") # "" <=> "ovnPort" \in conf[a].env \union conf[a].cni
  <2>1. CASE "ovnPort" \in conf[a].env
    BY <2>1 DEF ResolveOvnArg
  <2>2. CASE "ovnPort" \notin conf[a].env /\ "ovnPort" \in conf[a].cni
    BY <2>2 DEF ResolveOvnArg
  <2>3. CASE "ovnPort" \notin conf[a].env /\ "ovnPort" \notin conf[a].cni
    BY <2>3 DEF ResolveOvnArg
  <2> QED
    BY <2>1, <2>2, <2>3
<1>2. CASE conf[a].bridge # ""
  BY <1>1, <1>2 DEF Misdirected, AddBridge, DelBridge
<1>3. CASE conf[a].bridge = ""
  BY <1>1, <1>3 DEF Misdirected, AddBridge, DelBridge
<1> QED
  BY <1>2, <1>3

\* The network configuration stays, and what is computed from it.
LEMMA ConfFixed ==
  ASSUME conf' = conf
  PROVE  \A a \in Att : /\ AddBridge(a)' = AddBridge(a) /\ DelBridge(a)' = DelBridge(a)
                        /\ PortName(a)' = PortName(a)
                        /\ ResolveOvnArg(a, "ovnPort")' = ResolveOvnArg(a, "ovnPort")
                        /\ Misdirected(a)' = Misdirected(a)
BY DEF AddBridge, DelBridge, PortName, ResolveOvnArg, Misdirected

LEMMA BridgeFinite == IsFiniteSet(Bridge)
<1>1. IsFiniteSet({"br0"}) /\ IsFiniteSet({"br0"} \union {"br1"})
  BY FS_Singleton, FS_AddElement
<1>2. IsFiniteSet(({"br0"} \union {"br1"}) \union {"br-int"})
  BY <1>1, FS_AddElement
<1>3. Bridge = ({"br0"} \union {"br1"}) \union {"br-int"}
  BY DEF Bridge
<1> QED
  BY <1>2, <1>3

\* There is always a row id to give to a new bridge.
LEMMA NewUuidFacts ==
  ASSUME OvsTypeOK
  PROVE  NewUuid \in Uuid /\ NewUuid # 0
<1> DEFINE T == {bridges[b] : b \in Bridge}
           R == {brRow[a] : a \in Att}
<1>1. IsFiniteSet(Bridge)
  BY BridgeFinite
<1>2. IsFiniteSet(T) /\ Cardinality(T) <= Cardinality(Bridge)
  <2>1. bridges \in Surjection(Bridge, T)
    BY DEF OvsTypeOK, Surjection
  <2> QED
    BY <1>1, <2>1, FS_Surjection
<1>3. IsFiniteSet(R) /\ Cardinality(R) <= Cardinality(Att)
  <2>1. brRow \in Surjection(Att, R)
    BY DEF OvsTypeOK, Surjection
  <2> QED
    BY <2>1, OvsAssumption, FS_Surjection
<1>4. IsFiniteSet(T \union R) /\ Cardinality(T \union R) <= Cardinality(Bridge) + Cardinality(Att)
  <2>1. /\ IsFiniteSet(T \union R)
        /\ Cardinality(T \union R) = Cardinality(T) + Cardinality(R) - Cardinality(T \intersect R)
    BY <1>2, <1>3, FS_Union
  <2>2. IsFiniteSet(T \intersect R)
    BY <1>2, FS_Intersection
  <2>3. /\ Cardinality(T) \in Nat /\ Cardinality(R) \in Nat /\ Cardinality(T \intersect R) \in Nat
        /\ Cardinality(Bridge) \in Nat /\ Cardinality(Att) \in Nat
    BY <1>1, <1>2, <1>3, <2>2, OvsAssumption, FS_CardinalityType
  <2> QED
    BY <1>2, <1>3, <2>1, <2>3
<1>5. ~(Uuid \subseteq T \union R)
  <2> SUFFICES ASSUME Uuid \subseteq T \union R PROVE FALSE
    OBVIOUS
  <2>1. Cardinality(Uuid) <= Cardinality(T \union R)
    BY <1>4, FS_Subset
  <2>2. /\ Cardinality(Uuid) \in Nat /\ Cardinality(T \union R) \in Nat
        /\ Cardinality(Bridge) \in Nat /\ Cardinality(Att) \in Nat
    BY <1>1, <1>4, OvsAssumption, FS_CardinalityType
  <2>3. Cardinality(Uuid) > Cardinality(Bridge) + Cardinality(Att)
    BY OvsAssumption
  <2> HIDE DEF T, R
  <2> QED
    BY <1>4, <2>1, <2>2, <2>3
<1>6. \E u \in Uuid : u \notin T \union R
  BY <1>5
<1>7. NewUuid \in Uuid
  BY <1>6 DEF NewUuid
<1> QED
  BY <1>7, OvsAssumption

-----------------------------------------------------------------------------
(* The steps for one attachment.                                           *)

Act(a) ==
  \/ AddOpen(a) \/ AddStep(a) \/ DelOpen(a) \/ DelStep(a) \/ AppListens(a) \/ Killed(a)

\* A step for a leaves the processes and saved data of the others alone.
Local(a) ==
  /\ conf' = conf /\ seen \subseteq seen' /\ crossed \subseteq crossed'
  /\ \A c \in Att \ {a} :
       /\ pc'[c] = pc[c] /\ saved'[c] = saved[c]
       /\ conn'[c] = conn[c] /\ name'[c] = name[c]
       /\ portRow'[c] = portRow[c] /\ brRow'[c] = brRow[c]
       /\ c \in blind' <=> c \in blind

\* Some faults, each of which the budget pays for.
EnvStep ==
  \/ UNCHANGED env
  \/ \E f \in FaultKind : Fault(f)
  \/ \E some \in SUBSET {"down", "nopod", "redel"} :
       /\ some \subseteq Faults /\ Cardinality(some) <= budget
       /\ budget' = budget - Cardinality(some)
       /\ seen' = seen \union some

LEMMA EnvFacts ==
  ASSUME OvsTypeOK, EnvStep
  PROVE  budget' \in 0..MaxFaults /\ seen \subseteq seen' /\ seen' \subseteq Faults
<1>1. CASE UNCHANGED env
  BY <1>1 DEF OvsTypeOK, env
<1>2. ASSUME NEW f \in FaultKind, Fault(f)
      PROVE  budget' \in 0..MaxFaults /\ seen \subseteq seen' /\ seen' \subseteq Faults
  <2>1. budget' \in 0..MaxFaults
    <3>1. budget \in 0..MaxFaults /\ budget > 0 /\ budget' = budget - 1
      BY <1>2 DEF OvsTypeOK, Fault
    <3>2. MaxFaults \in Nat
      BY OvsAssumption
    <3> QED
      BY <3>1, <3>2
  <2> QED
    BY <1>2, <2>1 DEF OvsTypeOK, Fault
<1>3. ASSUME NEW some \in SUBSET {"down", "nopod", "redel"},
             some \subseteq Faults, Cardinality(some) <= budget,
             budget' = budget - Cardinality(some), seen' = seen \union some
      PROVE  budget' \in 0..MaxFaults /\ seen \subseteq seen' /\ seen' \subseteq Faults
  <2>1. Cardinality(some) \in Nat
    <3>1. IsFiniteSet({"down"} \union {"nopod"} \union {"redel"})
      BY FS_Singleton, FS_AddElement
    <3>2. IsFiniteSet(some)
      <4>1. some \subseteq {"down"} \union {"nopod"} \union {"redel"}
        BY <1>3
      <4> QED
        BY <3>1, <4>1, FS_Subset
    <3> QED
      BY <3>2, FS_CardinalityType
  <2>2. budget \in 0..MaxFaults /\ MaxFaults \in Nat
    BY OvsAssumption DEF OvsTypeOK
  <2>3. ASSUME NEW k \in Nat, k <= budget, budget' = budget - k PROVE budget' \in 0..MaxFaults
    BY <2>2, <2>3
  <2>4. budget' \in 0..MaxFaults
    BY <1>3, <2>1, <2>3
  <2> QED
    BY <1>3, <2>4 DEF OvsTypeOK
<1> QED
  BY <1>1, <1>2, <1>3 DEF EnvStep

\* What an invocation begins with.
LEMMA OpensFacts ==
  ASSUME NEW a \in Att, NEW call \in SUBSET {"redel"}, Opens(a, call)
  PROVE  /\ EnvStep
         /\ \E v \in BOOLEAN : conn' = [conn EXCEPT ![a] = v] /\ (v \/ "down" \in seen')
         /\ blind' = blind \ {a} \/ (blind' = blind \union {a} /\ "nopod" \in seen')
<1>1. PICK failed \in SUBSET {"down", "nopod"} :
        LET all == failed \union call IN
        /\ all \subseteq Faults /\ Cardinality(all) <= budget
        /\ budget' = budget - Cardinality(all)
        /\ seen' = seen \union all
        /\ conn' = [conn EXCEPT ![a] = "down" \notin failed]
        /\ blind' = IF "nopod" \in failed THEN blind \union {a} ELSE blind \ {a}
  BY DEF Opens
<1>2. failed \union call \in SUBSET {"down", "nopod", "redel"}
  OBVIOUS
<1>3. EnvStep
  BY <1>1, <1>2 DEF EnvStep
<1>4. ("down" \notin failed) \in BOOLEAN /\ (("down" \notin failed) \/ "down" \in seen')
  BY <1>1
<1>5. \E v \in BOOLEAN : conn' = [conn EXCEPT ![a] = v] /\ (v \/ "down" \in seen')
  BY <1>1, <1>4
<1>6. blind' = blind \ {a} \/ (blind' = blind \union {a} /\ "nopod" \in seen')
  BY <1>1
<1> QED
  BY <1>3, <1>5, <1>6

LEMMA AddLocal ==
  ASSUME OvsTypeOK, NEW a \in Att, AddOpen(a) \/ AddStep(a)
  PROVE  Local(a) /\ EnvStep
<1> USE DEF OvsTypeOK, Local, Goto, disk, proc, ghost
<1>1. EnvStep
  <2>1. CASE AddOpen(a)
    BY <2>1, OpensFacts DEF AddOpen
  <2>2. CASE AddStatSharedDir(a) \/ AddMakeSharedDir(a) \/ AddMountSharedDir(a)
    BY <2>2 DEF AddStatSharedDir, AddMakeSharedDir, AddMountSharedDir, EnvStep, FaultKind
  <2>3. CASE AddFindBridge(a) \/ AddCreateBridge(a) \/ AddCreateVhostPort(a) \/ AddMoveSocket(a)
               \/ AddGetVhostPortMac(a) \/ AddSaveConfig(a) \/ AddOnContainer(a)
    BY <2>3 DEF AddFindBridge, AddCreateBridge, AddCreateVhostPort, AddMoveSocket,
      AddGetVhostPortMac, AddSaveConfig, AddOnContainer, EnvStep, NoAnswer, Executed, Refused,
      FaultKind
  <2> QED
    BY <2>1, <2>2, <2>3 DEF AddStep, AddCreateSharedDir
<1>2. seen \subseteq seen'
  BY <1>1, EnvFacts
<1>3. CASE AddOpen(a)
  <2>1. \E v \in BOOLEAN : conn' = [conn EXCEPT ![a] = v]
    BY <1>3, OpensFacts DEF AddOpen
  <2>2. blind' = blind \ {a} \/ blind' = blind \union {a}
    BY <1>3, OpensFacts DEF AddOpen
  <2> QED
    BY <1>1, <1>2, <1>3, <2>1, <2>2 DEF AddOpen
<1>4. CASE AddFindBridge(a) \/ AddGetVhostPortMac(a) \/ AddOnContainer(a)
  BY <1>2, <1>1, <1>4 DEF AddFindBridge, AddGetVhostPortMac, AddOnContainer
<1>5. CASE AddCreateBridge(a) \/ AddCreateVhostPort(a)
  BY <1>2, <1>1, <1>5 DEF AddCreateBridge, AddCreateVhostPort, Executed, Refused
<1>6. CASE AddCreateSharedDir(a) \/ AddMoveSocket(a)
  BY <1>2, <1>1, <1>6 DEF AddCreateSharedDir, AddStatSharedDir, AddMakeSharedDir,
    AddMountSharedDir, AddMoveSocket
<1>7. CASE AddSaveConfig(a)
  BY <1>2, <1>1, <1>7 DEF AddSaveConfig
<1> QED
  BY <1>3, <1>4, <1>5, <1>6, <1>7 DEF AddStep

LEMMA DelLocal ==
  ASSUME OvsTypeOK, NEW a \in Att, DelOpen(a) \/ DelStep(a) \/ AppListens(a) \/ Killed(a)
  PROVE  Local(a) /\ EnvStep
<1> USE DEF OvsTypeOK, Local, Goto, disk, proc, ghost
<1>1. EnvStep
  <2>1. CASE DelOpen(a)
    <3>1. Opens(a, {}) \/ Opens(a, {"redel"})
      BY <2>1 DEF DelOpen
    <3> QED
      BY <3>1, OpensFacts
  <2>2. CASE AppListens(a) \/ Killed(a)
    BY <2>2 DEF AppListens, Killed, EnvStep, FaultKind
  <2>3. CASE DelFindPort(a) \/ DelBridgeContainsInterfaces(a) \/ DelFindBridge(a) \/ DelRest(a)
    BY <2>3 DEF DelFindPort, DelBridgeContainsInterfaces, DelFindBridge, DelRest, EnvStep,
      NoAnswer, FaultKind
  <2>4. CASE DelDeleteVhostPort(a) \/ DelDeleteBridge(a)
    BY <2>4 DEF DelDeleteVhostPort, DelDeleteBridge, EnvStep, Executed, Refused, NoAnswer,
      FaultKind
  <2>5. CASE DelCleanDir(a)
    BY <2>5 DEF DelCleanDir, DelUnmount, DelRemoveFiles, EnvStep, FaultKind
  <2> QED
    BY <2>1, <2>2, <2>3, <2>4, <2>5 DEF DelStep
<1>2. seen \subseteq seen'
  BY <1>1, EnvFacts
<1>3. CASE DelOpen(a)
  <2>1. Opens(a, {}) \/ Opens(a, {"redel"})
    BY <1>3 DEF DelOpen
  <2>2. \E v \in BOOLEAN : conn' = [conn EXCEPT ![a] = v]
    BY <2>1, OpensFacts
  <2>3. blind' = blind \ {a} \/ blind' = blind \union {a}
    BY <2>1, OpensFacts
  <2> QED
    BY <1>1, <1>2, <1>3, <2>2, <2>3 DEF DelOpen, LoadConfig
<1>4. CASE AppListens(a) \/ Killed(a) \/ DelRest(a)
  BY <1>2, <1>1, <1>4 DEF AppListens, Killed, DelRest
<1>5. CASE DelFindPort(a) \/ DelBridgeContainsInterfaces(a) \/ DelFindBridge(a)
  BY <1>2, <1>1, <1>5 DEF DelFindPort, DelBridgeContainsInterfaces, DelFindBridge
<1>6. CASE DelDeleteVhostPort(a) \/ DelDeleteBridge(a)
  BY <1>2, <1>1, <1>6 DEF DelDeleteVhostPort, DelDeleteBridge, Executed, Refused
<1>7. CASE DelCleanDir(a)
  BY <1>2, <1>1, <1>7 DEF DelCleanDir, DelUnmount, DelRemoveFiles
<1> QED
  BY <1>3, <1>4, <1>5, <1>6, <1>7 DEF DelStep

LEMMA ActLocal ==
  ASSUME OvsTypeOK, NEW a \in Att, Act(a)
  PROVE  Local(a) /\ EnvStep
BY AddLocal, DelLocal DEF Act

-----------------------------------------------------------------------------
(* Type correctness, table by table.                                       *)

LEMMA PcType ==
  ASSUME OvsTypeOK, NEW a \in Att, Act(a)
  PROVE  pc' \in [Att -> AddPc \union DelPc \union Rest]
<1> USE DEF OvsTypeOK, Goto, AddPc, DelPc, Rest
<1>1. CASE AddOpen(a) \/ AddFindBridge(a) \/ AddCreateBridge(a) \/ AddCreateSharedDir(a)
  BY <1>1 DEF AddOpen, AddFindBridge, AddCreateBridge, AddCreateSharedDir, AddStatSharedDir,
    AddMakeSharedDir, AddMountSharedDir, AddDevice, Executed, Refused
<1>2. CASE AddCreateVhostPort(a) \/ AddMoveSocket(a) \/ AddGetVhostPortMac(a)
             \/ AddSaveConfig(a) \/ AddOnContainer(a)
  BY <1>2 DEF AddCreateVhostPort, AddMoveSocket, AddGetVhostPortMac, AddSaveConfig,
    AddOnContainer, Executed, Refused
<1>3. CASE DelOpen(a) \/ DelFindPort(a) \/ DelDeleteVhostPort(a)
  BY <1>3 DEF DelOpen, DelFindPort, DelDeleteVhostPort, Executed, Refused
<1>4. CASE DelCleanDir(a)
  BY <1>4 DEF DelCleanDir, DelUnmount, DelRemoveFiles
<1>5. CASE DelBridgeContainsInterfaces(a) \/ DelFindBridge(a) \/ DelDeleteBridge(a)
  BY <1>5 DEF DelBridgeContainsInterfaces, DelFindBridge, DelDeleteBridge, Executed, Refused
<1>6. CASE DelRest(a) \/ AppListens(a) \/ Killed(a)
  BY <1>6 DEF DelRest, AppListens, Killed
<1> QED
  BY <1>1, <1>2, <1>3, <1>4, <1>5, <1>6 DEF Act, AddStep, DelStep

LEMMA TableType ==
  ASSUME OvsTypeOK, NEW a \in Att, Act(a)
  PROVE  /\ bridges' \in [Bridge -> Uuid \union {0}]
         /\ ports' \in [Name -> PortRow \union {NoPort}]
         /\ risk' \in [Att -> SUBSET Name]
<1> USE DEF OvsTypeOK, ovsdb, ghost
<1>1. CASE AddCreateBridge(a)
  BY <1>1, NewUuidFacts, ConfFacts DEF AddCreateBridge
<1>2. CASE AddCreateVhostPort(a)
  <2>1. [owner |-> {a}, bridge |-> AddBridge(a),
         ifaceId |-> ResolveOvnArg(a, "ovnPort")] \in PortRow
    BY ConfFacts DEF PortRow
  <2>2. PortName(a) \in Name
    BY ConfFacts
  <2>3. ports' \in [Name -> PortRow \union {NoPort}]
    BY <1>2, <2>1, <2>2 DEF AddCreateVhostPort
  <2>4. risk' \in [Att -> SUBSET Name]
    BY <1>2, <2>2 DEF AddCreateVhostPort
  <2> QED
    BY <1>2, <2>3, <2>4 DEF AddCreateVhostPort
<1>3. CASE DelDeleteVhostPort(a) \/ DelDeleteBridge(a)
  BY <1>3, ConfFacts DEF DelDeleteVhostPort, DelDeleteBridge
<1>4. CASE DelOpen(a) \/ DelBridgeContainsInterfaces(a)
  BY <1>4 DEF DelOpen, DelBridgeContainsInterfaces
<1>5. CASE AddOpen(a) \/ AddFindBridge(a) \/ AddCreateSharedDir(a) \/ AddMoveSocket(a)
             \/ AddGetVhostPortMac(a) \/ AddSaveConfig(a) \/ AddOnContainer(a)
  BY <1>5 DEF AddOpen, AddFindBridge, AddCreateSharedDir, AddStatSharedDir,
    AddMakeSharedDir, AddMountSharedDir, AddMoveSocket, AddGetVhostPortMac, AddSaveConfig, AddOnContainer
<1>6. CASE DelFindPort(a) \/ DelCleanDir(a) \/ DelFindBridge(a) \/ DelRest(a)
             \/ AppListens(a) \/ Killed(a)
  BY <1>6 DEF DelFindPort, DelCleanDir, DelFindBridge, DelRest, AppListens, Killed
<1> QED
  BY <1>1, <1>2, <1>3, <1>4, <1>5, <1>6 DEF Act, AddStep, DelStep

\* The directories an invocation works on.
LEMMA DirFacts ==
  ASSUME conf \in Confs, NEW a \in Att
  PROVE  /\ SharedDir(a) \in {<<"volume", conf[a].pod>>, <<"default", conf[a].pod>>}
         /\ GetShortSharedDir(a) \in {SharedDir(a), <<"short", conf[a].pod>>}
         /\ SharedDir(a) \in Dir /\ GetShortSharedDir(a) \in Dir
         /\ ~IsShort(SharedDir(a)) /\ conf[a].pod \in Att
         /\ IsShort(GetShortSharedDir(a)) => GetShortSharedDir(a) = <<"short", conf[a].pod>>
         /\ Behind(GetShortSharedDir(a)) \in
              {<<"volume", conf[a].pod>>, <<"default", conf[a].pod>>, <<"short", conf[a].pod>>}
<1>1. conf[a].pod \in Att
  BY ConfFacts
<1>2. SharedDir(a) \in {<<"volume", conf[a].pod>>, <<"default", conf[a].pod>>}
  BY DEF SharedDir
<1>3. GetShortSharedDir(a) \in {SharedDir(a), <<"short", conf[a].pod>>}
  BY DEF GetShortSharedDir
<1>4. ~IsShort(SharedDir(a))
  BY <1>2 DEF IsShort
<1>5. Behind(GetShortSharedDir(a)) \in
        {<<"volume", conf[a].pod>>, <<"default", conf[a].pod>>, <<"short", conf[a].pod>>}
  BY <1>2, <1>3 DEF Behind
<1> QED
  BY <1>1, <1>2, <1>3, <1>4, <1>5 DEF Dir

DiskTypeOK ==
  /\ dirs \subseteq Dir
  /\ mounts \in [Att -> Nat]
  /\ \A d \in Att : mounts[d] > 0 => <<"short", d>> \in dirs
  /\ files \subseteq dirs \X Name

LEMMA DiskType ==
  ASSUME OvsTypeOK, NEW a \in Att, Act(a)
  PROVE  DiskTypeOK'
<1> DEFINE d  == conf[a].pod
           sh == GetShortSharedDir(a)
           sd == SharedDir(a)
<1>1. /\ d \in Att /\ PortName(a) \in Name /\ sh \in Dir /\ sd \in Dir /\ ~IsShort(sd)
      /\ IsShort(sh) => sh = <<"short", d>>
      /\ DiskTypeOK
  BY ConfFacts, DirFacts DEF OvsTypeOK, DiskTypeOK
<1>2. sd # <<"short", d>> /\ \A e \in Att : sd # <<"short", e>>
  BY <1>1 DEF IsShort
<1>3. ~IsShort(sh) => \A e \in Att : sh # <<"short", e>>
  BY DEF IsShort
<1> HIDE DEF d, sh, sd
<1>4. CASE AddCreateSharedDir(a)
  <2>1. CASE AddStatSharedDir(a)
    BY <1>1, <2>1 DEF AddStatSharedDir, disk, DiskTypeOK
  <2>2. CASE AddMakeSharedDir(a)
    <3>1. dirs' \in {dirs, dirs \union {sh}} /\ mounts' = mounts /\ files' = files
      BY <2>2 DEF AddMakeSharedDir, sh
    <3> QED
      BY <1>1, <3>1 DEF DiskTypeOK
  <2>3. CASE AddMountSharedDir(a)
    <3>1. dirs' = dirs /\ files' = files
      BY <2>3 DEF AddMountSharedDir
    <3>2. \/ mounts' = mounts
          \/ mounts' = [mounts EXCEPT ![d] = @ + 1] /\ <<"short", d>> \in dirs
      BY <2>3 DEF AddMountSharedDir, d
    <3>3. mounts' = mounts \/ (mounts'[d] \in Nat /\ mounts' \in [Att -> Nat] /\
             \A e \in Att \ {d} : mounts'[e] = mounts[e])
      BY <1>1, <3>2 DEF DiskTypeOK
    <3> QED
      BY <1>1, <3>1, <3>2, <3>3 DEF DiskTypeOK
  <2> QED
    BY <1>4, <2>1, <2>2, <2>3 DEF AddCreateSharedDir
<1>5. CASE AddMoveSocket(a) \/ AppListens(a)
  <2>1. dirs' = dirs /\ mounts' = mounts
    BY <1>5 DEF AddMoveSocket, AppListens
  <2>2. files' = files \/ \E e \in dirs : files' = files \union {<<e, PortName(a)>>}
    BY <1>5 DEF AddMoveSocket, AppListens, MovableSocket
  <2> QED
    BY <1>1, <2>1, <2>2 DEF DiskTypeOK
<1>6. CASE DelCleanDir(a)
  <2>1. CASE IsShort(sh) /\ DelUnmount(a)
    <3>1. files' = files
      BY <2>1 DEF DelUnmount
    <3>2. \/ dirs' = dirs /\ mounts' = mounts
          \/ dirs' = dirs /\ mounts' = [mounts EXCEPT ![d] = @ - 1] /\ mounts[d] > 0
          \/ /\ dirs' = dirs \ {sh} /\ mounts' = [mounts EXCEPT ![d] = @ - 1] /\ mounts[d] = 1
             /\ FilesIn(sh) = {}
      BY <2>1 DEF DelUnmount, sh, d
    <3>3. mounts[d] \in Nat
      BY <1>1 DEF DiskTypeOK
    <3>4. CASE dirs' = dirs /\ mounts' = mounts
      BY <1>1, <3>1, <3>4 DEF DiskTypeOK
    <3>5. CASE dirs' = dirs /\ mounts' = [mounts EXCEPT ![d] = @ - 1] /\ mounts[d] > 0
      <4>1. mounts[d] - 1 \in Nat
        BY <3>3, <3>5
      <4>2. mounts' \in [Att -> Nat] /\ \A e \in Att : mounts'[e] > 0 => mounts[e] > 0
        BY <1>1, <3>3, <3>5, <4>1 DEF DiskTypeOK
      <4> QED
        BY <1>1, <3>1, <3>5, <4>2 DEF DiskTypeOK
    <3>6. CASE /\ dirs' = dirs \ {sh} /\ mounts' = [mounts EXCEPT ![d] = @ - 1] /\ mounts[d] = 1
               /\ FilesIn(sh) = {}
      <4>1. mounts' \in [Att -> Nat] /\ mounts'[d] = 0 /\ \A e \in Att \ {d} : mounts'[e] = mounts[e]
        BY <1>1, <3>6 DEF DiskTypeOK
      <4>2. \A e \in Att \ {d} : <<"short", e>> # sh
        BY <1>1, <2>1
      <4>3. \A e \in Att : mounts'[e] > 0 => <<"short", e>> \in dirs'
        BY <1>1, <3>6, <4>1, <4>2 DEF DiskTypeOK
      <4>4. files' \subseteq dirs' \X Name
        BY <1>1, <3>1, <3>6 DEF DiskTypeOK, FilesIn
      <4> QED
        BY <1>1, <3>6, <4>1, <4>3, <4>4 DEF DiskTypeOK
    <3> QED
      BY <3>2, <3>4, <3>5, <3>6
  <2>2. CASE ~IsShort(sh) /\ DelRemoveFiles(a)
    <3>1. /\ mounts' = mounts /\ files' \subseteq files
          /\ dirs' = dirs \/ (dirs' = dirs \ {sh} /\ \A f \in files' : f[1] # sh)
      BY <2>2 DEF DelRemoveFiles, sh
    <3>2. files' \subseteq dirs' \X Name
      BY <1>1, <3>1 DEF DiskTypeOK
    <3> QED
      BY <1>1, <1>3, <2>2, <3>1, <3>2 DEF DiskTypeOK
  <2> QED
    BY <1>6, <2>1, <2>2 DEF DelCleanDir, sh
<1>7. CASE DelRest(a)
  <2>1. /\ mounts' = mounts /\ files' = files
        /\ dirs' = dirs \/ (dirs' = dirs \ {sd} /\ FilesIn(sd) = {})
    BY <1>7 DEF DelRest, sd
  <2>2. files' \subseteq dirs' \X Name
    BY <1>1, <2>1 DEF DiskTypeOK, FilesIn
  <2> QED
    BY <1>1, <1>2, <2>1, <2>2 DEF DiskTypeOK
<1>8. CASE AddOpen(a) \/ AddFindBridge(a) \/ AddCreateBridge(a) \/ AddCreateVhostPort(a)
             \/ AddGetVhostPortMac(a) \/ AddSaveConfig(a) \/ AddOnContainer(a)
  BY <1>1, <1>8 DEF disk, DiskTypeOK, AddOpen, AddFindBridge, AddCreateBridge, AddCreateVhostPort,
    AddGetVhostPortMac, AddSaveConfig, AddOnContainer
<1>9. CASE DelOpen(a) \/ DelFindPort(a) \/ DelDeleteVhostPort(a)
             \/ DelBridgeContainsInterfaces(a) \/ DelFindBridge(a) \/ DelDeleteBridge(a)
             \/ Killed(a)
  BY <1>1, <1>9 DEF disk, DiskTypeOK, DelOpen, DelFindPort, DelDeleteVhostPort, DelBridgeContainsInterfaces,
    DelFindBridge, DelDeleteBridge, Killed
<1> QED
  BY <1>4, <1>5, <1>6, <1>7, <1>8, <1>9 DEF Act, AddStep, DelStep

LEMMA Nothing ==
  /\ NoData.vhostname = NoName /\ Torn.vhostname = NoName /\ NoData # Torn
  /\ NoPort.owner = {} /\ NoPort.bridge = ""
BY DEF NoData, Torn, NoPort

LEMMA SavedFacts ==
  ASSUME OvsTypeOK, NEW a \in Att
  PROVE  saved[a].vhostname \in Name \union {NoName}
<1>1. saved[a] \in Data \union {NoData, Torn}
  BY DEF OvsTypeOK
<1>2. CASE saved[a] \in Data
  BY <1>2 DEF Data
<1>3. CASE saved[a] = NoData \/ saved[a] = Torn
  BY <1>3, Nothing
<1> QED
  BY <1>1, <1>2, <1>3

LEMMA RowFacts ==
  ASSUME OvsTypeOK, NEW n \in Name
  PROVE  /\ ports[n].owner \in {{}} \union {{b} : b \in Att}
         /\ ports[n] # NoPort => ports[n] \in PortRow /\ ports[n].bridge \in Bridge
<1>1. ports[n] \in PortRow \union {NoPort}
  BY DEF OvsTypeOK
<1>2. CASE ports[n] \in PortRow
  <2>1. ports[n].owner \in {{b} : b \in Att} /\ ports[n].bridge \in Bridge
    BY <1>2 DEF PortRow
  <2> QED
    BY <1>2, <2>1
<1>3. CASE ports[n] = NoPort
  BY <1>3, Nothing
<1> QED
  BY <1>1, <1>2, <1>3

LEMMA ProcType ==
  ASSUME OvsTypeOK, NEW a \in Att, Act(a)
  PROVE  /\ saved' \in [Att -> Data \union {NoData, Torn}]
         /\ name' \in [Att -> Name \union {NoName}]
         /\ portRow' \in [Att -> {{}} \union {{b} : b \in Att}]
         /\ brRow' \in [Att -> Uuid \union {0}]
         /\ crossed' \subseteq Att /\ astray' \subseteq Att
<1> USE DEF OvsTypeOK, disk, proc, ghost
<1>1. CASE AddSaveConfig(a)
  <2>1. AddedData(a) \in Data
    BY ConfFacts DEF AddedData, Data
  <2> QED
    BY <1>1, <2>1 DEF AddSaveConfig
<1>2. CASE DelOpen(a)
  <2>1. saved[a].vhostname \in Name \union {NoName}
    BY SavedFacts
  <2> QED
    BY <1>2, <2>1 DEF DelOpen, LoadConfig
<1>3. CASE DelFindPort(a)
  <2>1. name[a] # NoName => ports[name[a]].owner \in {{}} \union {{b} : b \in Att}
    BY RowFacts
  <2> QED
    BY <1>3, <2>1 DEF DelFindPort
<1>4. CASE DelFindBridge(a)
  <2>1. DelBridge(a) \in Bridge
    BY ConfFacts
  <2> QED
    BY <1>4, <2>1 DEF DelFindBridge
<1>5. CASE AddOpen(a) \/ AddFindBridge(a) \/ AddCreateBridge(a) \/ AddCreateSharedDir(a)
             \/ AddCreateVhostPort(a) \/ AddMoveSocket(a) \/ AddGetVhostPortMac(a)
             \/ AddOnContainer(a) \/ AppListens(a) \/ Killed(a)
  BY <1>5 DEF AddOpen, AddFindBridge, AddCreateBridge, AddCreateSharedDir, AddStatSharedDir,
    AddMakeSharedDir, AddMountSharedDir, AddCreateVhostPort, AddMoveSocket, AddGetVhostPortMac, AddOnContainer, AppListens, Killed
<1>6. CASE DelDeleteVhostPort(a) \/ DelCleanDir(a) \/ DelBridgeContainsInterfaces(a)
             \/ DelDeleteBridge(a) \/ DelRest(a)
  BY <1>6 DEF DelDeleteVhostPort, DelCleanDir, DelBridgeContainsInterfaces,
    DelDeleteBridge, DelRest
<1> QED
  BY <1>1, <1>2, <1>3, <1>4, <1>5, <1>6 DEF Act, AddStep, DelStep

LEMMA ActType ==
  ASSUME OvsTypeOK, NEW a \in Att, Act(a)
  PROVE  OvsTypeOK'
<1>1. conn' \in [Att -> BOOLEAN] /\ blind' \subseteq Att
  <2>1. CASE AddOpen(a) \/ DelOpen(a)
    <3>1. Opens(a, {}) \/ Opens(a, {"redel"})
      BY <2>1 DEF AddOpen, DelOpen
    <3>2. \E v \in BOOLEAN : conn' = [conn EXCEPT ![a] = v]
      BY <3>1, OpensFacts
    <3>3. blind' = blind \ {a} \/ blind' = blind \union {a}
      BY <3>1, OpensFacts
    <3> QED
      BY <3>2, <3>3 DEF OvsTypeOK
  <2>2. CASE ~(AddOpen(a) \/ DelOpen(a))
    <3>1. UNCHANGED <<conn, blind>>
      BY <2>2 DEF Act, AddStep, DelStep, AppListens, Killed, proc,
        AddFindBridge, AddCreateBridge, AddCreateSharedDir, AddStatSharedDir, AddMakeSharedDir,
        AddMountSharedDir, AddCreateVhostPort, AddMoveSocket,
        AddGetVhostPortMac, AddSaveConfig, AddOnContainer, DelFindPort, DelDeleteVhostPort,
        DelCleanDir, DelBridgeContainsInterfaces, DelFindBridge, DelDeleteBridge, DelRest
    <3> QED
      BY <3>1 DEF OvsTypeOK
  <2> QED
    BY <2>1, <2>2
<1>2. conf' = conf /\ budget' \in 0..MaxFaults /\ seen' \subseteq Faults
  BY ActLocal, EnvFacts DEF Local
<1>3. conf' \in Confs
  BY <1>2 DEF OvsTypeOK
<1> QED
  BY <1>1, <1>2, <1>3, PcType, TableType, DiskType, ProcType DEF OvsTypeOK, DiskTypeOK

-----------------------------------------------------------------------------
(* The other attachments.                                                  *)

\* What a step for a does to the tables, as far as another attachment relies on them.
Spares(a) ==
  \A c \in Att \ {a} :
    /\ InUse(c) /\ c \notin crossed' =>
         \A b \in {AddBridge(c), DelBridge(c)} : bridges[b] # 0 => bridges'[b] = bridges[b]
    /\ InUse(c) /\ Undisturbed(c)' /\ ports[PortName(c)].owner = {c} =>
         ports'[PortName(c)].owner = {c}
    /\ ports'[PortName(c)].owner = {c} => ports[PortName(c)].owner = {c}
    /\ AtRisk(c)'

LEMMA Others ==
  ASSUME OInv, OvsTypeOK', NEW a \in Att, Local(a), Spares(a), NEW c \in Att \ {a}
  PROVE  AttInv(c)'
<1>1. AttInv(c) /\ OvsTypeOK /\ conf' = conf /\ conf \in Confs
  BY DEF OInv, Local, OvsTypeOK
<1>2. /\ AddBridge(c)' = AddBridge(c) /\ DelBridge(c)' = DelBridge(c)
      /\ Misdirected(c)' = Misdirected(c)
      /\ \A d \in Att : PortName(d)' = PortName(d)
  BY <1>1, ConfFixed
<1>3. /\ pc'[c] = pc[c] /\ saved'[c] = saved[c] /\ conn'[c] = conn[c] /\ name'[c] = name[c]
      /\ portRow'[c] = portRow[c] /\ brRow'[c] = brRow[c]
      /\ seen \subseteq seen' /\ crossed \subseteq crossed'
  BY DEF Local
<1>4. PortName(c) \in Name
  BY <1>1, ConfFacts
<1>5. Undisturbed(c)' => Undisturbed(c) /\ c \notin crossed'
  BY <1>1, <1>2, <1>3 DEF Undisturbed, OvsTypeOK
<1>6. \A pcs : Has(c, pcs)' <=> Has(c, pcs)
  BY <1>3 DEF Has
<1>7. AtRisk(c)'
  BY DEF Spares
<1>8. Known(c)'
  BY <1>1, <1>2, <1>3 DEF AttInv, Known
<1>9. saved[c].vhostname # NoName \/ pc[c] \in DelPc \union AddPc \union {"added"} => InUse(c)
  BY <1>1 DEF AttInv, Known, InUse, DelPc, AddPc
<1>10. BridgeThere(c)'
  <2> SUFFICES ASSUME c \notin crossed'
               PROVE  BridgeThere(c)'
    BY DEF BridgeThere
  <2>1. BridgeThere(c) /\ c \notin crossed
    BY <1>1, <1>3 DEF AttInv
  <2>2. InUse(c) =>
          \A b \in {AddBridge(c), DelBridge(c)} : bridges[b] # 0 => bridges'[b] = bridges[b]
    BY DEF Spares
  <2>3. Has(c, DelPc \ {"dRest"})' <=> Has(c, DelPc \ {"dRest"})
    BY <1>6
  <2>4. Has(c, DelPc \ {"dRest"}) => InUse(c)
    BY <1>9 DEF Has
  <2>5. pc[c] \in {"dRmBr"} \union MakesDir \union AfterPort => InUse(c)
    BY DEF InUse, MakesDir, AfterPort
  <2>6. bridges[AddBridge(c)] # 0 /\ InUse(c) => bridges'[AddBridge(c)] # 0
    BY <2>2
  <2>7. bridges[DelBridge(c)] # 0 /\ InUse(c) => bridges'[DelBridge(c)] = bridges[DelBridge(c)]
    BY <2>2
  <2> QED
    BY <1>2, <1>3, <2>1, <2>3, <2>4, <2>5, <2>6, <2>7 DEF BridgeThere
<1>11. PortThere(c)'
  <2>1. Has(c, {"dFindPort", "dRmPort"}) => InUse(c)
    BY <1>9 DEF Has, DelPc
  <2>2. pc[c] \in AfterPort => InUse(c)
    BY DEF InUse, AfterPort
  <2>3. InUse(c) /\ Undisturbed(c)' /\ ports[PortName(c)].owner = {c} =>
          ports'[PortName(c)].owner = {c}
    BY <1>1 DEF Spares, AttInv
  <2> QED
    BY <1>1, <1>2, <1>3, <1>5, <1>6, <2>1, <2>2, <2>3 DEF AttInv, PortThere
<1>12. LookedUp(c)' /\ PortKnown(c)'
  <2>1. ports'[PortName(c)].owner = {c} => ports[PortName(c)].owner = {c}
    BY DEF Spares
  <2> QED
    BY <1>1, <1>2, <1>3, <1>6, <2>1 DEF AttInv, LookedUp, PortKnown
<1> QED
  BY <1>7, <1>8, <1>10, <1>11, <1>12 DEF AttInv

\* A step that touches no table spares the others.
LEMMA Quiet ==
  ASSUME OInv, NEW a \in Att, Local(a), UNCHANGED <<bridges, ports>>,
         \A c \in Att \ {a} : risk'[c] = risk[c]
  PROVE  Spares(a)
<1> SUFFICES ASSUME NEW c \in Att \ {a}
             PROVE  AtRisk(c)'
  BY DEF Spares
<1>1. AtRisk(c) /\ conf' = conf /\ pc'[c] = pc[c] /\ seen \subseteq seen'
  BY DEF OInv, AttInv, Local
<1>2. DelBridge(c)' = DelBridge(c)
  BY <1>1, ConfFixed
<1> QED
  BY <1>1, <1>2 DEF AtRisk

\* A step that touches no table keeps what is said of them, if it does not stop
\* asking about a bridge that has no port.
LEMMA TablesKept ==
  ASSUME OInv, NEW a \in Att, Local(a), UNCHANGED <<bridges, ports>>,
         pc[a] \notin BeforePort => pc'[a] \notin BeforePort,
         pc[a] \in Asking => pc'[a] \in Asking \/ ContainsInterfaces(DelBridge(a))
  PROVE  PortsMade' /\ BridgesKept'
<1>1. OvsTypeOK /\ PortsMade /\ BridgesKept /\ conf' = conf
  BY DEF OInv, Local
<1>2. \A c \in Att : /\ AddBridge(c)' = AddBridge(c) /\ DelBridge(c)' = DelBridge(c)
                     /\ PortName(c)' = PortName(c)
                     /\ ResolveOvnArg(c, "ovnPort")' = ResolveOvnArg(c, "ovnPort")
  BY <1>1, ConfFixed
<1>3. \A c \in Att \ {a} : pc'[c] = pc[c]
  BY DEF Local
<1>4. PortsMade'
  <2> SUFFICES ASSUME NEW n \in Name, ports[n] # NoPort
               PROVE  \E c \in Att : MadeBy(n, c)'
    BY DEF PortsMade
  <2>1. PICK c \in Att : MadeBy(n, c)
    BY <1>1 DEF PortsMade
  <2>2. MadeBy(n, c)'
    BY <1>2, <1>3, <2>1 DEF MadeBy
  <2> QED
    BY <2>2
<1>5. BridgesKept'
  <2> SUFFICES ASSUME NEW b \in Bridge \ {"br-int"}, bridges[b] # 0,
                      \A n \in Name : ports[n].bridge # b
               PROVE  \E c \in Att : WillAsk(c, b)'
    BY DEF BridgesKept
  <2>1. PICK c \in Att : WillAsk(c, b)
    BY <1>1 DEF BridgesKept
  <2>2. WillAsk(c, b)'
    BY <1>2, <1>3, <2>1 DEF WillAsk, ContainsInterfaces
  <2> QED
    BY <2>2
<1> QED
  BY <1>4, <1>5

\* What is left to show for a step that only moves the invocation on.
LEMMA MovesOn ==
  ASSUME OInv, OvsTypeOK', NEW a \in Att, Local(a),
         UNCHANGED <<bridges, ports>>,
         \A c \in Att \ {a} : risk'[c] = risk[c],
         pc[a] \notin BeforePort => pc'[a] \notin BeforePort,
         pc[a] \in Asking => pc'[a] \in Asking \/ ContainsInterfaces(DelBridge(a)),
         AttInv(a)'
  PROVE  OInv'
<1>1. PortsMade' /\ BridgesKept'
  BY TablesKept
<1>2. \A c \in Att \ {a} : AttInv(c)'
  BY Quiet, Others
<1> QED
  BY <1>1, <1>2 DEF OInv

-----------------------------------------------------------------------------
(* ADD.                                                                    *)

\* What is known of a before and after a step for it.
Own(a) ==
  /\ OvsTypeOK' /\ Local(a) /\ AttInv(a)
  /\ AddBridge(a)' = AddBridge(a) /\ DelBridge(a)' = DelBridge(a)
  /\ PortName(a)' = PortName(a) /\ Misdirected(a)' = Misdirected(a)
  /\ conf' = conf /\ seen \subseteq seen' /\ crossed \subseteq crossed'
  /\ Undisturbed(a)' => Undisturbed(a) /\ a \notin crossed'
  /\ \A d \in Att : PortName(d)' = PortName(d)
  /\ PortName(a) \in Name /\ PortName(a) # NoName

LEMMA OwnFacts ==
  ASSUME OInv, NEW a \in Att, Act(a)
  PROVE  Own(a)
<1>1. OvsTypeOK /\ OvsTypeOK' /\ Local(a) /\ AttInv(a)
  BY ActLocal, ActType DEF OInv, AttInv
<1>2. conf' = conf /\ seen \subseteq seen' /\ crossed \subseteq crossed'
  BY <1>1 DEF Local
<1>3. /\ AddBridge(a)' = AddBridge(a) /\ DelBridge(a)' = DelBridge(a)
      /\ Misdirected(a)' = Misdirected(a)
      /\ \A d \in Att : PortName(d)' = PortName(d)
  BY <1>2, ConfFixed
<1>4. Undisturbed(a)' => Undisturbed(a) /\ a \notin crossed'
  BY <1>1, <1>2, <1>3 DEF Undisturbed, OvsTypeOK
<1>5. PortName(a) \in Name /\ PortName(a) # NoName
  BY <1>1, ConfFacts DEF OvsTypeOK
<1> QED
  BY <1>1, <1>2, <1>3, <1>4, <1>5 DEF Own

LEMMA AddOpenKeeps ==
  ASSUME OInv, NEW a \in Att, AddOpen(a)
  PROVE  OInv'
<1>1. Own(a)
  BY OwnFacts DEF Act, AddStep, DelStep
<1>2. /\ pc[a] = "none" /\ pc'[a] = "aFindBr"
      /\ UNCHANGED <<bridges, ports, saved, name, crossed, risk>>
      /\ conn'[a] \/ "down" \in seen'
  <2>1. \E v \in BOOLEAN : conn' = [conn EXCEPT ![a] = v] /\ (v \/ "down" \in seen')
    BY OpensFacts DEF AddOpen
  <2>2. conn'[a] \/ "down" \in seen'
    BY <2>1 DEF OInv, OvsTypeOK
  <2> QED
    BY <2>2 DEF OInv, AddOpen, Goto, OvsTypeOK, ovsdb, disk, ghost
<1>3. AtRisk(a)'
  BY <1>1, <1>2 DEF Own, AttInv, AtRisk
<1>4. Known(a)'
  BY <1>1, <1>2 DEF Own, AttInv, Known, MakesDir, AfterPort, DelPc, AddPc
<1>5. BridgeThere(a)'
  BY <1>1, <1>2 DEF Own, AttInv, BridgeThere, Has, MakesDir, AfterPort, DelPc
<1>6. PortThere(a)'
  BY <1>1, <1>2 DEF Own, AttInv, PortThere, Has, AfterPort
<1>7. LookedUp(a)'
  BY <1>1, <1>2 DEF Own, AttInv, LookedUp
<1>8. PortKnown(a)'
  BY <1>1, <1>2 DEF Own, AttInv, PortKnown, Has
<1>9. AttInv(a)'
  BY <1>3, <1>4, <1>5, <1>6, <1>7, <1>8 DEF AttInv
<1> QED
  BY <1>1, <1>2, <1>9, MovesOn DEF Own, BeforePort, Asking, MakesDir, AfterPort, DelPc

LEMMA AddFindBridgeKeeps ==
  ASSUME OInv, NEW a \in Att, AddFindBridge(a)
  PROVE  OInv'
<1>1. Own(a)
  BY OwnFacts DEF Act, AddStep, DelStep
<1>2. /\ pc[a] = "aFindBr"
      /\ \/ pc'[a] \in {"aMkBr", "addFailed"}
         \/ pc'[a] = "aDir" /\ bridges[AddBridge(a)] # 0 /\ conf[a].ifType = "vhostuser"
      /\ UNCHANGED <<bridges, ports, name, crossed>>
      /\ UNCHANGED <<saved, conn, portRow, brRow, risk>>
  BY DEF OInv, OvsTypeOK, Goto, ovsdb, disk, proc, ghost, env, Fault, AddFindBridge, AddDevice
<1>3. AtRisk(a)'
  BY <1>1, <1>2 DEF Own, AttInv, AtRisk
<1>4. Known(a)'
  BY <1>1, <1>2 DEF Own, AttInv, Known, MakesDir, AfterPort, DelPc, AddPc
<1>5. BridgeThere(a)'
  BY <1>1, <1>2 DEF Own, AttInv, BridgeThere, Has, MakesDir, AfterPort, DelPc
<1>6. PortThere(a)'
  BY <1>1, <1>2 DEF Own, AttInv, PortThere, Has, AfterPort
<1>7. LookedUp(a)'
  BY <1>1, <1>2 DEF Own, AttInv, LookedUp
<1>8. PortKnown(a)'
  BY <1>1, <1>2 DEF Own, AttInv, PortKnown, Has
<1>9. AttInv(a)'
  BY <1>3, <1>4, <1>5, <1>6, <1>7, <1>8 DEF AttInv
<1> QED
  BY <1>1, <1>2, <1>9, MovesOn DEF Own, BeforePort, Asking, MakesDir, AfterPort, DelPc

LEMMA AddGetVhostPortMacKeeps ==
  ASSUME OInv, NEW a \in Att, AddGetVhostPortMac(a)
  PROVE  OInv'
<1>1. Own(a)
  BY OwnFacts DEF Act, AddStep, DelStep
<1>2. /\ pc[a] = "aMac"
      /\ \/ pc'[a] = "aSave"
         \/ /\ pc'[a] = "addFailed"
            /\ \/ ports[PortName(a)] = NoPort \/ conf[a].netType # "bridge"
               \/ ~conn[a] \/ "error" \in seen'
      /\ UNCHANGED <<bridges, ports, name, crossed>>
      /\ UNCHANGED <<saved, conn, portRow, brRow, risk>>
  BY DEF OInv, OvsTypeOK, Goto, ovsdb, disk, proc, ghost, env, Fault, AddGetVhostPortMac, NoAnswer
<1>3. AtRisk(a)'
  BY <1>1, <1>2 DEF Own, AttInv, AtRisk
<1>4. Known(a)'
  BY <1>1, <1>2 DEF Own, AttInv, Known, MakesDir, AfterPort, DelPc, AddPc
<1>5. BridgeThere(a)'
  BY <1>1, <1>2 DEF Own, AttInv, BridgeThere, Has, MakesDir, AfterPort, DelPc
<1>6. PortThere(a)'
  BY <1>1, <1>2 DEF Own, AttInv, PortThere, Has, AfterPort
<1>7. LookedUp(a)'
  BY <1>1, <1>2 DEF Own, AttInv, LookedUp
<1>8. PortKnown(a)'
  BY <1>1, <1>2, Nothing DEF Own, AttInv, PortKnown, Has, Known, AddPc
<1>9. AttInv(a)'
  BY <1>3, <1>4, <1>5, <1>6, <1>7, <1>8 DEF AttInv
<1> QED
  BY <1>1, <1>2, <1>9, MovesOn DEF Own, BeforePort, Asking, MakesDir, AfterPort, DelPc

LEMMA AddSaveConfigKeeps ==
  ASSUME OInv, NEW a \in Att, AddSaveConfig(a)
  PROVE  OInv'
<1>1. Own(a)
  BY OwnFacts DEF Act, AddStep, DelStep
<1>2. /\ pc[a] = "aSave"
      /\ \/ pc'[a] = "aRest" /\ saved'[a].vhostname = PortName(a)
         \/ pc'[a] = "addFailed" /\ saved'[a] \in {saved[a], Torn} /\ "torn" \in seen'
      /\ UNCHANGED <<bridges, ports, name, crossed>>
      /\ UNCHANGED <<conn, portRow, brRow, risk>>
  BY DEF OInv, OvsTypeOK, Goto, ovsdb, disk, proc, ghost, env, Fault, AddSaveConfig, AddedData
<1>3. AtRisk(a)'
  BY <1>1, <1>2 DEF Own, AttInv, AtRisk
<1>4. Known(a)'
  BY <1>1, <1>2, Nothing DEF Own, AttInv, Known, MakesDir, AfterPort, DelPc, AddPc
<1>5. BridgeThere(a)'
  BY <1>1, <1>2, Nothing DEF Own, AttInv, BridgeThere, Has, MakesDir, AfterPort, DelPc, Known
<1>6. PortThere(a)'
  BY <1>1, <1>2, Nothing DEF Own, AttInv, PortThere, Has, AfterPort, Known
<1>7. LookedUp(a)'
  BY <1>1, <1>2 DEF Own, AttInv, LookedUp
<1>8. PortKnown(a)'
  BY <1>1, <1>2, Nothing DEF Own, AttInv, PortKnown, Has, Known
<1>9. AttInv(a)'
  BY <1>3, <1>4, <1>5, <1>6, <1>7, <1>8 DEF AttInv
<1> QED
  BY <1>1, <1>2, <1>9, MovesOn DEF Own, BeforePort, Asking, MakesDir, AfterPort, DelPc

LEMMA AddOnContainerKeeps ==
  ASSUME OInv, NEW a \in Att, AddOnContainer(a)
  PROVE  OInv'
<1>1. Own(a)
  BY OwnFacts DEF Act, AddStep, DelStep
<1>2. /\ pc[a] = "aRest" /\ pc'[a] \in {"added", "addFailed"}
      /\ UNCHANGED <<bridges, ports, name, crossed>>
      /\ UNCHANGED <<saved, conn, portRow, brRow, risk>>
  BY DEF OInv, OvsTypeOK, Goto, ovsdb, disk, proc, ghost, env, Fault, AddOnContainer
<1>3. AtRisk(a)'
  BY <1>1, <1>2 DEF Own, AttInv, AtRisk
<1>4. Known(a)'
  BY <1>1, <1>2 DEF Own, AttInv, Known, MakesDir, AfterPort, DelPc, AddPc
<1>5. BridgeThere(a)'
  BY <1>1, <1>2 DEF Own, AttInv, BridgeThere, Has, MakesDir, AfterPort, DelPc, Known
<1>6. PortThere(a)'
  BY <1>1, <1>2 DEF Own, AttInv, PortThere, Has, AfterPort, Known
<1>7. LookedUp(a)'
  BY <1>1, <1>2 DEF Own, AttInv, LookedUp
<1>8. PortKnown(a)'
  BY <1>1, <1>2 DEF Own, AttInv, PortKnown, Has, Known
<1>9. AttInv(a)'
  BY <1>3, <1>4, <1>5, <1>6, <1>7, <1>8 DEF AttInv
<1> QED
  BY <1>1, <1>2, <1>9, MovesOn DEF Own, BeforePort, Asking, MakesDir, AfterPort, DelPc

LEMMA KilledKeeps ==
  ASSUME OInv, NEW a \in Att, Killed(a)
  PROVE  OInv'
<1>1. Own(a)
  BY OwnFacts DEF Act, AddStep, DelStep
<1>2. /\ \/ pc[a] \in AddPc /\ pc'[a] = "addFailed"
         \/ pc[a] \in DelPc /\ pc'[a] = "delFailed"
      /\ "kill" \in seen'
      /\ UNCHANGED <<bridges, ports, name, crossed>>
      /\ UNCHANGED <<saved, conn, portRow, brRow, risk>>
  BY DEF OInv, OvsTypeOK, Goto, ovsdb, disk, proc, ghost, env, Fault, Killed, AddPc, DelPc
<1>3. AtRisk(a)'
  BY <1>1, <1>2 DEF Own, AttInv, AtRisk
<1>4. Known(a)'
  BY <1>1, <1>2 DEF Own, AttInv, Known, MakesDir, AfterPort, DelPc, AddPc
<1>5. BridgeThere(a)'
  BY <1>1, <1>2 DEF Own, AttInv, BridgeThere, Has, MakesDir, AfterPort, DelPc, Known, DelPc, AddPc
<1>6. PortThere(a)'
  BY <1>1, <1>2 DEF Own, AttInv, PortThere, Has, AfterPort, Known, DelPc, AddPc
<1>7. LookedUp(a)'
  BY <1>1, <1>2 DEF Own, AttInv, LookedUp
<1>8. PortKnown(a)'
  BY <1>1, <1>2 DEF Own, AttInv, PortKnown, Has, Known, DelPc, AddPc
<1>9. AttInv(a)'
  BY <1>3, <1>4, <1>5, <1>6, <1>7, <1>8 DEF AttInv
<1> QED
  BY <1>1, <1>2, <1>9, MovesOn DEF Own, BeforePort, Asking, MakesDir, AfterPort, DelPc, AddPc

LEMMA DelOpenKeeps ==
  ASSUME OInv, NEW a \in Att, DelOpen(a)
  PROVE  OInv'
<1>1. Own(a)
  BY OwnFacts DEF Act, AddStep, DelStep
<1>2. /\ pc[a] \in {"added", "addFailed", "delFailed", "deleted"}
      /\ \/ pc'[a] = "delFailed" /\ name'[a] = NoName /\ saved[a] = Torn /\ saved' = saved
         \/ /\ name'[a] = saved[a].vhostname /\ saved'[a] = NoData
            /\ pc'[a] = IF conf[a].ifType = "vhostuser" THEN "dFindPort" ELSE "delFailed"
      /\ UNCHANGED <<bridges, ports, crossed>>
      /\ conn'[a] \/ "down" \in seen'
      /\ \A c \in Att \ {a} : risk'[c] = risk[c]
  <2>1. Opens(a, {}) \/ Opens(a, {"redel"})
    BY DEF DelOpen
  <2>2. \E v \in BOOLEAN : conn' = [conn EXCEPT ![a] = v] /\ (v \/ "down" \in seen')
    BY <2>1, OpensFacts
  <2>3. conn'[a] \/ "down" \in seen'
    BY <2>2 DEF OInv, OvsTypeOK
  <2> QED
    BY <2>3 DEF OInv, OvsTypeOK, Goto, ovsdb, disk, proc, ghost, DelOpen, LoadConfig
<1>3. AtRisk(a)'
  BY <1>1, <1>2 DEF Own, AttInv, AtRisk
<1>4. Known(a)'
  BY <1>1, <1>2, Nothing DEF Own, AttInv, Known, MakesDir, AfterPort, DelPc, AddPc
<1>5. BridgeThere(a)'
  BY <1>1, <1>2, Nothing DEF Own, AttInv, BridgeThere, Has, MakesDir, AfterPort, DelPc, Known, DelPc
<1>6. PortThere(a)'
  BY <1>1, <1>2, Nothing DEF Own, AttInv, PortThere, Has, AfterPort, Known, DelPc
<1>7. LookedUp(a)'
  BY <1>1, <1>2 DEF Own, AttInv, LookedUp
<1>8. PortKnown(a)'
  BY <1>1, <1>2, Nothing DEF Own, AttInv, PortKnown, Has, Known, DelPc
<1>9. AttInv(a)'
  BY <1>3, <1>4, <1>5, <1>6, <1>7, <1>8 DEF AttInv
<1> QED
  BY <1>1, <1>2, <1>9, MovesOn DEF Own, BeforePort, Asking, MakesDir, AfterPort, DelPc

LEMMA DelFindPortKeeps ==
  ASSUME OInv, NEW a \in Att, DelFindPort(a)
  PROVE  OInv'
<1>1. Own(a)
  BY OwnFacts DEF Act, AddStep, DelStep
<1>2. /\ pc[a] = "dFindPort"
      /\ \/ pc'[a] = "dRmPort" /\ name[a] # NoName /\ portRow'[a] = ports[name[a]].owner
         \/ /\ pc'[a] = "dDir"
            /\ \/ name[a] = NoName \/ ports[name[a]] = NoPort
               \/ ~conn[a] \/ "error" \in seen'
      /\ UNCHANGED <<bridges, ports, name, crossed>>
      /\ UNCHANGED <<saved, conn, brRow, risk>>
  BY DEF OInv, OvsTypeOK, Goto, ovsdb, disk, proc, ghost, env, Fault, DelFindPort, NoAnswer
<1>3. AtRisk(a)'
  BY <1>1, <1>2 DEF Own, AttInv, AtRisk
<1>4. Known(a)'
  BY <1>1, <1>2 DEF Own, AttInv, Known, MakesDir, AfterPort, DelPc, AddPc
<1>5. BridgeThere(a)'
  BY <1>1, <1>2 DEF Own, AttInv, BridgeThere, Has, MakesDir, AfterPort, DelPc, Known, DelPc
<1>6. PortThere(a)'
  BY <1>1, <1>2, Nothing DEF Own, AttInv, PortThere, Has, AfterPort, Known, DelPc
<1>7. LookedUp(a)'
  BY <1>1, <1>2 DEF Own, AttInv, LookedUp, Known, DelPc
<1>8. PortKnown(a)'
  BY <1>1, <1>2, Nothing DEF Own, AttInv, PortKnown, Has, Known, DelPc
<1>9. AttInv(a)'
  BY <1>3, <1>4, <1>5, <1>6, <1>7, <1>8 DEF AttInv
<1> QED
  BY <1>1, <1>2, <1>9, MovesOn DEF Own, BeforePort, Asking, MakesDir, AfterPort, DelPc

LEMMA DelBridgeContainsInterfacesKeeps ==
  ASSUME OInv, NEW a \in Att, DelBridgeContainsInterfaces(a)
  PROVE  OInv'
<1>1. Own(a)
  BY OwnFacts DEF Act, AddStep, DelStep
<1>2. /\ pc[a] = "dEmpty"
      /\ \/ pc'[a] = "dRest" /\ ContainsInterfaces(DelBridge(a))
         \/ pc'[a] = "dFindBr" /\ \A n \in Name : ports[n].bridge = DelBridge(a) => n \in risk'[a]
      /\ UNCHANGED <<bridges, ports, name, crossed>>
      /\ UNCHANGED <<saved, conn, portRow, brRow>>
      /\ \A c \in Att \ {a} : risk'[c] = risk[c]
  BY DEF OInv, OvsTypeOK, Goto, ovsdb, disk, proc, ghost, env, Fault,
    DelBridgeContainsInterfaces, ContainsInterfaces
<1>3. AtRisk(a)'
  BY <1>1, <1>2 DEF Own, AttInv, AtRisk
<1>4. Known(a)'
  BY <1>1, <1>2 DEF Own, AttInv, Known, MakesDir, AfterPort, DelPc, AddPc
<1>5. BridgeThere(a)'
  BY <1>1, <1>2 DEF Own, AttInv, BridgeThere, Has, MakesDir, AfterPort, DelPc, Known, DelPc
<1>6. PortThere(a)'
  BY <1>1, <1>2, Nothing DEF Own, AttInv, PortThere, Has, AfterPort, Known, DelPc
<1>7. LookedUp(a)'
  BY <1>1, <1>2 DEF Own, AttInv, LookedUp, Known, DelPc
<1>8. PortKnown(a)'
  BY <1>1, <1>2, Nothing DEF Own, AttInv, PortKnown, Has, Known, DelPc
<1>9. AttInv(a)'
  BY <1>3, <1>4, <1>5, <1>6, <1>7, <1>8 DEF AttInv
<1> QED
  BY <1>1, <1>2, <1>9, MovesOn DEF Own, BeforePort, Asking, MakesDir, AfterPort, DelPc

LEMMA DelFindBridgeKeeps ==
  ASSUME OInv, NEW a \in Att, DelFindBridge(a)
  PROVE  OInv'
<1>1. Own(a)
  BY OwnFacts DEF Act, AddStep, DelStep
<1>2. /\ pc[a] = "dFindBr"
      /\ \/ pc'[a] = "dRmBr" /\ bridges[DelBridge(a)] # 0 /\ brRow'[a] = bridges[DelBridge(a)]
         \/ /\ pc'[a] = "delFailed"
            /\ bridges[DelBridge(a)] = 0 \/ ~conn[a] \/ "error" \in seen'
      /\ UNCHANGED <<bridges, ports, name, crossed>>
      /\ UNCHANGED <<saved, conn, portRow, risk>>
  BY DEF OInv, OvsTypeOK, Goto, ovsdb, disk, proc, ghost, env, Fault, DelFindBridge, NoAnswer
<1>3. AtRisk(a)'
  BY <1>1, <1>2 DEF Own, AttInv, AtRisk
<1>4. Known(a)'
  BY <1>1, <1>2 DEF Own, AttInv, Known, MakesDir, AfterPort, DelPc, AddPc
<1>5. BridgeThere(a)'
  BY <1>1, <1>2 DEF Own, AttInv, BridgeThere, Has, MakesDir, AfterPort, DelPc, Known, DelPc
<1>6. PortThere(a)'
  BY <1>1, <1>2, Nothing DEF Own, AttInv, PortThere, Has, AfterPort, Known, DelPc
<1>7. LookedUp(a)'
  BY <1>1, <1>2 DEF Own, AttInv, LookedUp, Known, DelPc
<1>8. PortKnown(a)'
  BY <1>1, <1>2, Nothing DEF Own, AttInv, PortKnown, Has, Known, DelPc
<1>9. AttInv(a)'
  BY <1>3, <1>4, <1>5, <1>6, <1>7, <1>8 DEF AttInv
<1> QED
  BY <1>1, <1>2, <1>9, MovesOn DEF Own, BeforePort, Asking, MakesDir, AfterPort, DelPc

-----------------------------------------------------------------------------
(* The steps on the shared directories.                                    *)

LEMMA AddCreateSharedDirKeeps ==
  ASSUME OInv, NEW a \in Att, AddCreateSharedDir(a)
  PROVE  OInv'
<1>1. Own(a)
  BY OwnFacts DEF Act, AddStep, DelStep
<1>2. /\ pc[a] \in {"aDir", "aMkdir", "aMount"}
      /\ pc'[a] \in {"aMkdir", "aMount", "aPort", "addFailed"}
      /\ UNCHANGED <<bridges, ports, risk, saved, conn, name, portRow, brRow>>
  <2>1. CASE AddStatSharedDir(a)
    BY <2>1 DEF OInv, OvsTypeOK, Goto, ovsdb, disk, proc, AddStatSharedDir
  <2>2. CASE AddMakeSharedDir(a)
    BY <2>2 DEF OInv, OvsTypeOK, Goto, ovsdb, proc, ghost, AddMakeSharedDir
  <2>3. CASE AddMountSharedDir(a)
    BY <2>3 DEF OInv, OvsTypeOK, Goto, ovsdb, proc, AddMountSharedDir
  <2> QED
    BY <2>1, <2>2, <2>3 DEF AddCreateSharedDir
<1>3. AtRisk(a)'
  BY <1>1, <1>2 DEF Own, AttInv, AtRisk
<1>4. Known(a)'
  BY <1>1, <1>2 DEF Own, AttInv, Known, MakesDir, AfterPort, DelPc, AddPc
<1>5. BridgeThere(a)'
  BY <1>1, <1>2 DEF Own, AttInv, BridgeThere, Has, MakesDir, AfterPort, DelPc, Known
<1>6. PortThere(a)'
  BY <1>1, <1>2 DEF Own, AttInv, PortThere, Has, AfterPort, Known, DelPc
<1>7. LookedUp(a)'
  BY <1>1, <1>2 DEF Own, AttInv, LookedUp
<1>8. PortKnown(a)'
  BY <1>1, <1>2 DEF Own, AttInv, PortKnown, Has, Known, DelPc
<1>9. AttInv(a)'
  BY <1>3, <1>4, <1>5, <1>6, <1>7, <1>8 DEF AttInv
<1> QED
  BY <1>1, <1>2, <1>9, MovesOn DEF Own, BeforePort, Asking, MakesDir, AfterPort, DelPc

LEMMA AddMoveSocketKeeps ==
  ASSUME OInv, NEW a \in Att, AddMoveSocket(a)
  PROVE  OInv'
<1>1. Own(a)
  BY OwnFacts DEF Act, AddStep, DelStep
<1>2. /\ pc[a] = "aMove" /\ pc'[a] = "aMac"
      /\ UNCHANGED <<bridges, ports, risk, saved, conn, name, portRow, brRow>>
  BY DEF OInv, OvsTypeOK, Goto, ovsdb, disk, proc, ghost, env, Fault, AddMoveSocket
<1>3. AtRisk(a)'
  BY <1>1, <1>2 DEF Own, AttInv, AtRisk
<1>4. Known(a)'
  BY <1>1, <1>2 DEF Own, AttInv, Known, MakesDir, AfterPort, DelPc, AddPc
<1>5. BridgeThere(a)'
  BY <1>1, <1>2 DEF Own, AttInv, BridgeThere, Has, MakesDir, AfterPort, DelPc, Known
<1>6. PortThere(a)'
  BY <1>1, <1>2 DEF Own, AttInv, PortThere, Has, AfterPort, Known, DelPc
<1>7. LookedUp(a)'
  BY <1>1, <1>2 DEF Own, AttInv, LookedUp
<1>8. PortKnown(a)'
  BY <1>1, <1>2 DEF Own, AttInv, PortKnown, Has, Known, DelPc
<1>9. AttInv(a)'
  BY <1>3, <1>4, <1>5, <1>6, <1>7, <1>8 DEF AttInv
<1> QED
  BY <1>1, <1>2, <1>9, MovesOn DEF Own, BeforePort, Asking, MakesDir, AfterPort, DelPc

LEMMA AppListensKeeps ==
  ASSUME OInv, NEW a \in Att, AppListens(a)
  PROVE  OInv'
<1>1. Own(a)
  BY OwnFacts DEF Act, AddStep, DelStep
<1>2. /\ pc[a] = "added" /\ pc'[a] = "added"
      /\ UNCHANGED <<bridges, ports, risk, saved, conn, name, portRow, brRow>>
  BY DEF OInv, OvsTypeOK, Goto, ovsdb, disk, proc, ghost, env, Fault, AppListens
<1>3. AtRisk(a)'
  BY <1>1, <1>2 DEF Own, AttInv, AtRisk
<1>4. Known(a)'
  BY <1>1, <1>2 DEF Own, AttInv, Known, MakesDir, AfterPort, DelPc, AddPc
<1>5. BridgeThere(a)'
  BY <1>1, <1>2 DEF Own, AttInv, BridgeThere, Has, MakesDir, AfterPort, DelPc, Known
<1>6. PortThere(a)'
  BY <1>1, <1>2 DEF Own, AttInv, PortThere, Has, AfterPort, Known, DelPc
<1>7. LookedUp(a)'
  BY <1>1, <1>2 DEF Own, AttInv, LookedUp
<1>8. PortKnown(a)'
  BY <1>1, <1>2 DEF Own, AttInv, PortKnown, Has, Known, DelPc
<1>9. AttInv(a)'
  BY <1>3, <1>4, <1>5, <1>6, <1>7, <1>8 DEF AttInv
<1> QED
  BY <1>1, <1>2, <1>9, MovesOn DEF Own, BeforePort, Asking, MakesDir, AfterPort, DelPc

LEMMA DelRestKeeps ==
  ASSUME OInv, NEW a \in Att, DelRest(a)
  PROVE  OInv'
<1>1. Own(a)
  BY OwnFacts DEF Act, AddStep, DelStep
<1>2. /\ pc[a] = "dRest" /\ pc'[a] \in {"deleted", "delFailed"}
      /\ UNCHANGED <<bridges, ports, risk, saved, conn, name, portRow, brRow>>
  BY DEF OInv, OvsTypeOK, Goto, ovsdb, disk, proc, ghost, env, Fault, DelRest
<1>3. AtRisk(a)'
  BY <1>1, <1>2 DEF Own, AttInv, AtRisk
<1>4. Known(a)'
  BY <1>1, <1>2 DEF Own, AttInv, Known, MakesDir, AfterPort, DelPc, AddPc
<1>5. BridgeThere(a)'
  BY <1>1, <1>2 DEF Own, AttInv, BridgeThere, Has, MakesDir, AfterPort, DelPc, Known
<1>6. PortThere(a)'
  BY <1>1, <1>2 DEF Own, AttInv, PortThere, Has, AfterPort, Known, DelPc
<1>7. LookedUp(a)'
  BY <1>1, <1>2 DEF Own, AttInv, LookedUp
<1>8. PortKnown(a)'
  BY <1>1, <1>2 DEF Own, AttInv, PortKnown, Has, Known, DelPc
<1>9. AttInv(a)'
  BY <1>3, <1>4, <1>5, <1>6, <1>7, <1>8 DEF AttInv
<1> QED
  BY <1>1, <1>2, <1>9, MovesOn DEF Own, BeforePort, Asking, MakesDir, AfterPort, DelPc

LEMMA DelCleanDirKeeps ==
  ASSUME OInv, NEW a \in Att, DelCleanDir(a)
  PROVE  OInv'
<1>1. Own(a)
  BY OwnFacts DEF Act, AddStep, DelStep
<1>2. /\ pc[a] = "dDir" /\ pc'[a] \in {"dEmpty", "delFailed"}
      /\ UNCHANGED <<bridges, ports, risk, saved, conn, name, portRow, brRow>>
  <2>1. CASE DelUnmount(a)
    BY <2>1 DEF DelCleanDir, DelUnmount, OInv, OvsTypeOK, Goto, ovsdb, proc
  <2>2. CASE DelRemoveFiles(a)
    BY <2>2 DEF DelCleanDir, DelRemoveFiles, OInv, OvsTypeOK, Goto, ovsdb, proc
  <2> QED
    BY <2>1, <2>2 DEF DelCleanDir
<1>3. AtRisk(a)'
  BY <1>1, <1>2 DEF Own, AttInv, AtRisk
<1>4. Known(a)'
  BY <1>1, <1>2 DEF Own, AttInv, Known, MakesDir, AfterPort, DelPc, AddPc
<1>5. BridgeThere(a)'
  BY <1>1, <1>2 DEF Own, AttInv, BridgeThere, Has, MakesDir, AfterPort, DelPc, Known
<1>6. PortThere(a)'
  BY <1>1, <1>2 DEF Own, AttInv, PortThere, Has, AfterPort, Known, DelPc
<1>7. LookedUp(a)'
  BY <1>1, <1>2 DEF Own, AttInv, LookedUp
<1>8. PortKnown(a)'
  BY <1>1, <1>2 DEF Own, AttInv, PortKnown, Has, Known, DelPc
<1>9. AttInv(a)'
  BY <1>3, <1>4, <1>5, <1>6, <1>7, <1>8 DEF AttInv
<1> QED
  BY <1>1, <1>2, <1>9, MovesOn DEF Own, BeforePort, Asking, MakesDir, AfterPort, DelPc

-----------------------------------------------------------------------------
(* The steps on the OVSDB tables.                                          *)

\* What is left to show for them.
LEMMA OnTables ==
  ASSUME OInv, NEW a \in Att, Own(a),
         PortsMade', BridgesKept', AttInv(a)',
         \A c \in Att \ {a} :
           /\ InUse(c) /\ c \notin crossed' =>
                \A b \in {AddBridge(c), DelBridge(c)} : bridges[b] # 0 => bridges'[b] = bridges[b]
           /\ InUse(c) /\ Undisturbed(c)' /\ ports[PortName(c)].owner = {c} =>
                ports'[PortName(c)].owner = {c}
           /\ ports'[PortName(c)].owner = {c} => ports[PortName(c)].owner = {c}
           /\ AtRisk(c)'
  PROVE  OInv'
<1>1. Spares(a)
  BY DEF Spares
<1>2. \A c \in Att \ {a} : AttInv(c)'
  BY <1>1, Others DEF Own
<1> QED
  BY <1>2 DEF OInv, Own

\* The configuration as the other attachments see it.
LEMMA OthersSee ==
  ASSUME OInv, NEW a \in Att, Own(a), NEW c \in Att
  PROVE  /\ AddBridge(c)' = AddBridge(c) /\ DelBridge(c)' = DelBridge(c)
         /\ PortName(c)' = PortName(c)
         /\ ResolveOvnArg(c, "ovnPort")' = ResolveOvnArg(c, "ovnPort")
         /\ AddBridge(c) \in Bridge /\ DelBridge(c) \in Bridge /\ PortName(c) \in Name
         /\ AttInv(c) /\ (c # a => pc'[c] = pc[c])
<1>1. conf' = conf /\ conf \in Confs /\ AttInv(c) /\ (c # a => pc'[c] = pc[c])
  BY DEF OInv, OvsTypeOK, Own, Local
<1> QED
  BY <1>1, ConfFixed, ConfFacts

\* The attachment that a port belongs to, and where the port is.
LEMMA OwnPort ==
  ASSUME OInv, NEW n \in Name, NEW a \in Att, ports[n].owner = {a}
  PROVE  /\ n = PortName(a) /\ ports[n].bridge = AddBridge(a)
         /\ ports[n].ifaceId = ResolveOvnArg(a, "ovnPort")
         /\ bridges[AddBridge(a)] # 0 /\ pc[a] \notin BeforePort
<1>1. ports[n] # NoPort
  BY Nothing
<1>2. PICK c \in Att : MadeBy(n, c)
  BY <1>1 DEF OInv, PortsMade
<1>3. c = a
  BY <1>2 DEF MadeBy
<1> QED
  BY <1>2, <1>3 DEF MadeBy

LEMMA AddCreateBridgeKeeps ==
  ASSUME OInv, NEW a \in Att, AddCreateBridge(a)
  PROVE  OInv'
<1>1. Own(a)
  BY OwnFacts DEF Act, AddStep, DelStep
<1>2. /\ pc[a] = "aMkBr"
      /\ \/ bridges' = bridges /\ pc'[a] = "addFailed"
         \/ /\ bridges' = [bridges EXCEPT ![AddBridge(a)] = NewUuid] /\ bridges[AddBridge(a)] = 0
            /\ \/ pc'[a] = "addFailed"
               \/ pc'[a] = "aDir" /\ conf[a].ifType = "vhostuser"
      /\ UNCHANGED <<ports, saved, conn, name, portRow, brRow, risk, crossed>>
  BY DEF OInv, OvsTypeOK, Goto, ovsdb, disk, proc, ghost, env, Fault,
    AddCreateBridge, AddDevice, Executed, Refused
<1>3. /\ \A b \in Bridge : bridges[b] # 0 => bridges'[b] = bridges[b]
      /\ pc'[a] = "aDir" => bridges'[AddBridge(a)] # 0
  <2>1. AddBridge(a) \in Bridge
    BY <1>1, OthersSee
  <2>2. NewUuid # 0
    BY NewUuidFacts DEF OInv
  <2> QED
    BY <1>2, <2>1, <2>2 DEF OInv, OvsTypeOK
<1>4. AtRisk(a)'
  BY <1>1, <1>2 DEF Own, AttInv, AtRisk
<1>5. Known(a)'
  BY <1>1, <1>2 DEF Own, AttInv, Known, MakesDir, AfterPort, DelPc, AddPc
<1>6. BridgeThere(a)'
  BY <1>1, <1>2, <1>3 DEF Own, AttInv, BridgeThere, Has, MakesDir, AfterPort, DelPc, Known
<1>7. PortThere(a)'
  BY <1>1, <1>2 DEF Own, AttInv, PortThere, Has, AfterPort, Known
<1>8. LookedUp(a)'
  BY <1>1, <1>2 DEF Own, AttInv, LookedUp
<1>9. PortKnown(a)'
  BY <1>1, <1>2 DEF Own, AttInv, PortKnown, Has, Known
<1>10. AttInv(a)'
  BY <1>4, <1>5, <1>6, <1>7, <1>8, <1>9 DEF AttInv
<1>11. PortsMade'
  <2> SUFFICES ASSUME NEW n \in Name, ports'[n] # NoPort
               PROVE  \E c \in Att : MadeBy(n, c)'
    BY DEF PortsMade
  <2>1. PICK c \in Att : MadeBy(n, c)
    BY <1>1, <1>2 DEF OInv, PortsMade
  <2>2. MadeBy(n, c)'
    BY <1>1, <1>2, <1>3, <2>1, OthersSee DEF MadeBy, BeforePort
  <2> QED
    BY <2>2
<1>12. BridgesKept'
  <2> SUFFICES ASSUME NEW b \in Bridge \ {"br-int"}, bridges'[b] # 0,
                      \A n \in Name : ports'[n].bridge # b
               PROVE  \E c \in Att : WillAsk(c, b)'
    BY DEF BridgesKept
  <2>1. CASE bridges[b] # 0
    <3>1. PICK c \in Att : WillAsk(c, b)
      BY <1>2, <2>1 DEF OInv, BridgesKept
    <3>2. WillAsk(c, b)'
      BY <1>1, <1>2, <3>1, OthersSee DEF WillAsk, Asking, MakesDir, AfterPort, DelPc
    <3> QED
      BY <3>2
  <2>2. CASE bridges[b] = 0
    <3>1. b = AddBridge(a) /\ pc'[a] \in {"aDir", "addFailed"}
      BY <1>2, <2>2 DEF OInv, OvsTypeOK
    <3>2. b = DelBridge(a)'
      BY <1>1, <3>1, SameBridge DEF Own
    <3> QED
      BY <3>1, <3>2 DEF WillAsk, Asking, MakesDir
  <2> QED
    BY <2>1, <2>2
<1>13. ASSUME NEW c \in Att \ {a}
      PROVE  /\ InUse(c) /\ c \notin crossed' =>
                  \A b \in {AddBridge(c), DelBridge(c)} : bridges[b] # 0 => bridges'[b] = bridges[b]
             /\ InUse(c) /\ Undisturbed(c)' /\ ports[PortName(c)].owner = {c} =>
                  ports'[PortName(c)].owner = {c}
             /\ ports'[PortName(c)].owner = {c} => ports[PortName(c)].owner = {c}
             /\ AtRisk(c)'
  BY <1>1, <1>2, <1>3, OthersSee DEF AttInv, AtRisk
<1> QED
  BY <1>1, <1>2, <1>10, <1>11, <1>12, <1>13, OnTables

\* The row that createVhostPort inserts.
NewPort(a) ==
  [owner |-> {a}, bridge |-> AddBridge(a), ifaceId |-> ResolveOvnArg(a, "ovnPort")]

LEMMA NewPortFacts ==
  ASSUME NEW a \in Att
  PROVE  NewPort(a).owner = {a} /\ NewPort(a).bridge = AddBridge(a) /\ NewPort(a) # NoPort
<1>1. NewPort(a).owner = {a} /\ NewPort(a).bridge = AddBridge(a)
  BY DEF NewPort
<1> QED
  BY <1>1, Nothing

LEMMA AddCreateVhostPortKeeps ==
  ASSUME OInv, NEW a \in Att, AddCreateVhostPort(a)
  PROVE  OInv'
<1>1. Own(a)
  BY OwnFacts DEF Act, AddStep, DelStep
<1>2. /\ pc[a] = "aPort"
      /\ \/ pc'[a] = "aMove" /\ (ports' = ports => bridges[AddBridge(a)] = 0)
         \/ pc'[a] = "addFailed" /\ (ports' # ports => "timeout" \in seen')
      /\ UNCHANGED <<bridges, saved, conn, name, portRow, brRow, crossed>>
  <2>1. /\ PortName(a) \in Name /\ ports \in [Name -> PortRow \union {NoPort}]
        /\ pc \in [Att -> AddPc \union DelPc \union Rest]
    BY <1>1 DEF Own, OInv, OvsTypeOK
  <2>2. NewPort(a) # NoPort
    BY NewPortFacts
  <2>3. \/ ports' = ports
        \/ ports' = [ports EXCEPT ![PortName(a)] = NewPort(a)] /\ ports[PortName(a)] = NoPort
    BY DEF AddCreateVhostPort, NewPort
  <2> QED
    BY <2>1, <2>2, <2>3 DEF AddCreateVhostPort, NewPort, Executed, Refused, Goto, Fault, disk, proc
<1>3. \A n \in Name :
        ports'[n] = ports[n] \/
        /\ n = PortName(a) /\ ports[n] = NoPort /\ bridges[AddBridge(a)] # 0
        /\ ports'[n] = NewPort(a)
        /\ ports'[n].owner = {a} /\ ports'[n].bridge = AddBridge(a)
  <2>1. \/ ports' = ports
        \/ /\ ports' = [ports EXCEPT ![PortName(a)] = NewPort(a)] /\ ports[PortName(a)] = NoPort
           /\ bridges[AddBridge(a)] # 0
    BY DEF AddCreateVhostPort, NewPort
  <2> QED
    BY <2>1, NewPortFacts DEF OInv, OvsTypeOK
<1>4. \A c \in Att :
        /\ risk[c] \subseteq risk'[c]
        /\ pc[c] \in {"dFindBr", "dRmBr"} /\ DelBridge(c) = AddBridge(a) =>
             \A n \in Name : ports'[n] # ports[n] => n \in risk'[c]
  BY <1>3 DEF AddCreateVhostPort, OInv, OvsTypeOK
<1>5. AtRisk(a)'
  BY <1>1, <1>2 DEF Own, AttInv, AtRisk
<1>6. Known(a)'
  BY <1>1, <1>2 DEF Own, AttInv, Known, MakesDir, AfterPort, DelPc, AddPc
<1>7. BridgeThere(a)'
  BY <1>1, <1>2 DEF Own, AttInv, BridgeThere, Has, MakesDir, AfterPort, DelPc, Known
<1>8. PortThere(a)'
  <2>1. CASE pc'[a] = "addFailed"
    BY <1>1, <1>2, <2>1 DEF Own, AttInv, PortThere, Has, AfterPort, Known
  <2>2. CASE pc'[a] = "aMove"
    <3> SUFFICES ASSUME Undisturbed(a)'
                 PROVE  ports'[PortName(a)].owner = {a}
      BY <1>1 DEF PortThere, Own
    <3>1. bridges[AddBridge(a)] # 0
      BY <1>1, <1>2 DEF Own, AttInv, BridgeThere, MakesDir
    <3>2. \E n \in Name : ports'[n] # ports[n]
      BY <1>1, <1>2, <2>2, <3>1 DEF Own, OInv, OvsTypeOK
    <3> QED
      BY <1>3, <3>2
  <2> QED
    BY <1>2, <2>1, <2>2
<1>9. LookedUp(a)'
  BY <1>1, <1>2, <1>3 DEF Own, AttInv, LookedUp
<1>10. PortKnown(a)'
  BY <1>1, <1>2, <1>3 DEF Own, AttInv, PortKnown, Has, Known
<1>11. AttInv(a)'
  BY <1>5, <1>6, <1>7, <1>8, <1>9, <1>10 DEF AttInv
<1>12. PortsMade'
  <2> SUFFICES ASSUME NEW n \in Name, ports'[n] # NoPort
               PROVE  \E c \in Att : MadeBy(n, c)'
    BY DEF PortsMade
  <2>1. CASE ports'[n] # ports[n]
    <3>1. MadeBy(n, a)'
      BY <1>1, <1>2, <1>3, <2>1, OthersSee DEF MadeBy, BeforePort, NewPort
    <3> QED
      BY <3>1
  <2>2. CASE ports'[n] = ports[n]
    <3>1. PICK c \in Att : MadeBy(n, c)
      BY <2>2 DEF OInv, PortsMade
    <3>2. MadeBy(n, c)'
      BY <1>1, <1>2, <2>2, <3>1, OthersSee DEF MadeBy, BeforePort
    <3> QED
      BY <3>2
  <2> QED
    BY <2>1, <2>2
<1>13. BridgesKept'
  <2> SUFFICES ASSUME NEW b \in Bridge \ {"br-int"}, bridges'[b] # 0,
                      \A n \in Name : ports'[n].bridge # b
               PROVE  \E c \in Att : WillAsk(c, b)'
    BY DEF BridgesKept
  <2>1. \A n \in Name : ports[n].bridge # b
    BY <1>3, Nothing DEF Bridge
  <2>2. PICK c \in Att : WillAsk(c, b)
    BY <1>2, <2>1 DEF OInv, BridgesKept
  <2>3. WillAsk(c, b)'
    BY <1>1, <1>2, <2>2, OthersSee DEF WillAsk, Asking, MakesDir, AfterPort, DelPc
  <2> QED
    BY <2>3
<1>14. ASSUME NEW c \in Att \ {a}
      PROVE  /\ InUse(c) /\ c \notin crossed' =>
                  \A b \in {AddBridge(c), DelBridge(c)} : bridges[b] # 0 => bridges'[b] = bridges[b]
             /\ InUse(c) /\ Undisturbed(c)' /\ ports[PortName(c)].owner = {c} =>
                  ports'[PortName(c)].owner = {c}
             /\ ports'[PortName(c)].owner = {c} => ports[PortName(c)].owner = {c}
             /\ AtRisk(c)'
  <2> DEFINE n == PortName(c)
  <2>1. n \in Name /\ AttInv(c) /\ pc'[c] = pc[c] /\ DelBridge(c)' = DelBridge(c)
    BY <1>1, OthersSee
  <2>2. /\ ports'[n].owner = {c} => ports[n].owner = {c}
        /\ ports[n].owner = {c} => ports'[n].owner = {c}
    BY <1>3, <2>1, Nothing
  <2>3. AtRisk(c)'
    <3> SUFFICES ASSUME pc[c] \in {"dFindBr", "dRmBr"},
                        NEW m \in Name, ports'[m].bridge = DelBridge(c)
                 PROVE  m \in risk'[c]
      BY <2>1 DEF AtRisk
    <3>1. CASE ports'[m] = ports[m]
      BY <1>4, <2>1, <3>1 DEF AttInv, AtRisk
    <3>2. CASE ports'[m] # ports[m]
      BY <1>3, <1>4, <3>2
    <3> QED
      BY <3>1, <3>2
  <2> QED
    BY <1>2, <2>2, <2>3
<1> QED
  BY <1>1, <1>2, <1>11, <1>12, <1>13, <1>14, OnTables

LEMMA DelDeleteVhostPortKeeps ==
  ASSUME OInv, NEW a \in Att, DelDeleteVhostPort(a)
  PROVE  OInv'
<1>1. Own(a)
  BY OwnFacts DEF Act, AddStep, DelStep
<1>2. /\ pc[a] = "dRmPort" /\ name[a] = PortName(a)
      /\ \/ /\ ports' = [ports EXCEPT ![PortName(a)] = NoPort]
            /\ ports[PortName(a)] = NoPort \/ ports[PortName(a)].bridge = DelBridge(a)
            /\ pc'[a] = "dDir" \/ (pc'[a] = "delFailed" /\ "timeout" \in seen')
         \/ /\ ports' = ports /\ pc'[a] = "delFailed"
            /\ \/ ~conn[a] \/ "error" \in seen'
               \/ /\ ports[PortName(a)] # NoPort
                  /\ \/ ports[PortName(a)].owner # portRow[a]
                     \/ ports[PortName(a)].bridge # DelBridge(a)
      /\ UNCHANGED <<bridges, saved, conn, name, portRow, brRow, risk, crossed>>
  <2>1. pc[a] = "dRmPort"
    BY DEF DelDeleteVhostPort
  <2>2. name[a] = PortName(a)
    BY <1>1, <2>1 DEF Own, AttInv, Known
  <2> QED
    BY <2>1, <2>2 DEF DelDeleteVhostPort, Executed, Refused, NoAnswer, Goto, Fault, disk, proc,
      ghost, OInv, OvsTypeOK
<1>3. ASSUME ports[PortName(a)].owner = {a}, ports' = ports
      PROVE  seen' \intersect {"down", "error"} # {} \/ Misdirected(a)
  <2>1. portRow[a] = {a} /\ (~conn[a] => "down" \in seen')
    BY <1>1, <1>2, <1>3 DEF Own, AttInv, LookedUp, Known, DelPc
  <2>2. ports[PortName(a)].bridge = AddBridge(a) /\ ports[PortName(a)] # NoPort
    BY <1>1, <1>3, OwnPort, Nothing DEF Own
  <2>3. ~Misdirected(a) => ports[PortName(a)].bridge = DelBridge(a)
    BY <2>2, SameBridge
  <2>4. ports' # [ports EXCEPT ![PortName(a)] = NoPort]
    BY <1>1, <1>3, <2>2 DEF Own, OInv, OvsTypeOK
  <2> QED
    BY <1>2, <1>3, <2>1, <2>2, <2>3, <2>4
<1>4. ports' = ports \/ (ports'[PortName(a)] = NoPort /\ ports'[PortName(a)].owner # {a})
  BY <1>1, <1>2, Nothing DEF Own, OInv, OvsTypeOK
<1>5. AtRisk(a)'
  BY <1>1, <1>2 DEF Own, AttInv, AtRisk
<1>6. Known(a)'
  BY <1>1, <1>2 DEF Own, AttInv, Known, MakesDir, AfterPort, DelPc, AddPc
<1>7. BridgeThere(a)'
  BY <1>1, <1>2 DEF Own, AttInv, BridgeThere, Has, MakesDir, AfterPort, DelPc, Known, DelPc
<1>8. PortThere(a)'
  BY <1>1, <1>2, Nothing DEF Own, AttInv, PortThere, Has, AfterPort, Known, DelPc
<1>9. LookedUp(a)'
  BY <1>1, <1>2 DEF Own, AttInv, LookedUp
<1>10. PortKnown(a)'
  <2>1. CASE ports' = ports
    BY <1>1, <1>3, <2>1 DEF Own, PortKnown
  <2>2. CASE ports'[PortName(a)].owner # {a}
    BY <1>1, <2>2 DEF Own, PortKnown
  <2> QED
    BY <1>4, <2>1, <2>2
<1>11. AttInv(a)'
  BY <1>5, <1>6, <1>7, <1>8, <1>9, <1>10 DEF AttInv
<1>12. PortsMade'
  <2> SUFFICES ASSUME NEW n \in Name, ports'[n] # NoPort
               PROVE  \E c \in Att : MadeBy(n, c)'
    BY DEF PortsMade
  <2>1. ports'[n] = ports[n]
    BY <1>2 DEF OInv, OvsTypeOK
  <2>2. PICK c \in Att : MadeBy(n, c)
    BY <2>1 DEF OInv, PortsMade
  <2>3. MadeBy(n, c)'
    BY <1>1, <1>2, <2>1, <2>2, OthersSee DEF MadeBy, BeforePort
  <2> QED
    BY <2>3
<1>13. BridgesKept'
  <2> SUFFICES ASSUME NEW b \in Bridge \ {"br-int"}, bridges'[b] # 0,
                      \A n \in Name : ports'[n].bridge # b
               PROVE  \E c \in Att : WillAsk(c, b)'
    BY DEF BridgesKept
  <2>1. CASE \E n \in Name : ports[n].bridge = b
    <3>1. PICK n \in Name : ports[n].bridge = b /\ ports'[n] # ports[n]
      BY <2>1
    <3>2. b = DelBridge(a) /\ pc'[a] \in {"dDir", "delFailed"}
      BY <1>2, <3>1, Nothing DEF OInv, OvsTypeOK, Bridge
    <3> QED
      BY <1>1, <3>2 DEF WillAsk, Asking, DelPc, Own
  <2>2. CASE \A n \in Name : ports[n].bridge # b
    <3>1. PICK c \in Att : WillAsk(c, b)
      BY <1>2, <2>2 DEF OInv, BridgesKept
    <3>2. WillAsk(c, b)'
      BY <1>1, <1>2, <3>1, OthersSee DEF WillAsk, Asking, MakesDir, AfterPort, DelPc
    <3> QED
      BY <3>2
  <2> QED
    BY <2>1, <2>2
<1>14. ASSUME NEW c \in Att \ {a}
      PROVE  /\ InUse(c) /\ c \notin crossed' =>
                  \A b \in {AddBridge(c), DelBridge(c)} : bridges[b] # 0 => bridges'[b] = bridges[b]
             /\ InUse(c) /\ Undisturbed(c)' /\ ports[PortName(c)].owner = {c} =>
                  ports'[PortName(c)].owner = {c}
             /\ ports'[PortName(c)].owner = {c} => ports[PortName(c)].owner = {c}
             /\ AtRisk(c)'
  <2>1. PortName(c) \in Name /\ AttInv(c) /\ pc'[c] = pc[c] /\ DelBridge(c)' = DelBridge(c)
          /\ DelBridge(c) \in Bridge /\ PortName(c)' = PortName(c)
    BY <1>1, OthersSee
  <2>2. ASSUME InUse(c), Undisturbed(c)', ports[PortName(c)].owner = {c}
        PROVE  ports'[PortName(c)].owner = {c}
    <3>1. CASE PortName(c) = PortName(a)
      <4>1. Undisturbed(a)
        BY <1>1, <1>2, <2>1, <2>2, <3>1 DEF Undisturbed, Own, OInv, OvsTypeOK
      <4>2. ports[PortName(a)].owner = {a}
        BY <1>1, <1>2, <4>1 DEF Own, AttInv, PortThere, Has
      <4> QED
        BY <2>2, <3>1, <4>2
    <3>2. CASE PortName(c) # PortName(a)
      BY <1>2, <2>1, <2>2, <3>2 DEF OInv, OvsTypeOK
    <3> QED
      BY <3>1, <3>2
  <2>3. ports'[PortName(c)].owner = {c} => ports[PortName(c)].owner = {c}
    BY <1>2, <2>1, Nothing DEF OInv, OvsTypeOK
  <2>4. \A n \in Name : ports'[n] = ports[n] \/ ports'[n] = NoPort
    BY <1>2 DEF OInv, OvsTypeOK
  <2>5. AtRisk(c)'
    BY <1>2, <2>1, <2>4, Nothing DEF AttInv, AtRisk, Bridge
  <2> QED
    BY <1>2, <2>2, <2>3, <2>5
<1> QED
  BY <1>1, <1>2, <1>11, <1>12, <1>13, <1>14, OnTables

LEMMA DelDeleteBridgeKeeps ==
  ASSUME OInv, NEW a \in Att, DelDeleteBridge(a)
  PROVE  OInv'
<1>1. Own(a)
  BY OwnFacts DEF Act, AddStep, DelStep
<1>2. /\ pc[a] = "dRmBr"
      /\ \/ /\ bridges' = [bridges EXCEPT ![DelBridge(a)] = 0]
            /\ ports' = [n \in Name |-> IF ports[n].bridge = DelBridge(a) THEN NoPort ELSE ports[n]]
            /\ \A c \in Att \ {a} :
                 bridges[DelBridge(a)] # 0 /\ InUse(c) /\ DelBridge(a) \in {AddBridge(c), DelBridge(c)}
                   => c \in crossed'
            /\ pc'[a] = "dRest" \/ (pc'[a] = "delFailed" /\ "timeout" \in seen')
         \/ /\ bridges' = bridges /\ ports' = ports /\ pc'[a] = "delFailed"
            /\ ~conn[a] \/ "error" \in seen' \/ bridges[DelBridge(a)] # brRow[a]
      /\ UNCHANGED <<saved, conn, name, portRow, brRow, risk>>
  BY DEF OInv, OvsTypeOK, Goto, ovsdb, disk, proc, ghost, env, Fault,
    DelDeleteBridge, Executed, Refused, NoAnswer
<1>3. \A n \in Name : ports'[n] = ports[n] \/ (ports'[n] = NoPort /\ ports[n].bridge = DelBridge(a))
  BY <1>2
<1>4. \A b \in Bridge : bridges'[b] = bridges[b] \/ b = DelBridge(a)
  BY <1>2 DEF OInv, OvsTypeOK
<1>5. AtRisk(a)'
  BY <1>1, <1>2 DEF Own, AttInv, AtRisk
<1>6. Known(a)'
  BY <1>1, <1>2 DEF Own, AttInv, Known, MakesDir, AfterPort, DelPc, AddPc
<1>7. BridgeThere(a)'
  BY <1>1, <1>2, Nothing DEF Own, AttInv, BridgeThere, Has, MakesDir, AfterPort, DelPc, Known, DelPc
<1>8. PortThere(a)'
  BY <1>1, <1>2, Nothing DEF Own, AttInv, PortThere, Has, AfterPort, Known, DelPc
<1>9. LookedUp(a)'
  BY <1>1, <1>2 DEF Own, AttInv, LookedUp
<1>10. PortKnown(a)'
  BY <1>1, <1>2, <1>3, Nothing DEF Own, AttInv, PortKnown, Has, Known, DelPc
<1>11. AttInv(a)'
  BY <1>5, <1>6, <1>7, <1>8, <1>9, <1>10 DEF AttInv
<1>12. PortsMade'
  <2> SUFFICES ASSUME NEW n \in Name, ports'[n] # NoPort
               PROVE  \E c \in Att : MadeBy(n, c)'
    BY DEF PortsMade
  <2>1. ports'[n] = ports[n] /\ (bridges' = bridges \/ ports[n].bridge # DelBridge(a))
    BY <1>2, <1>3
  <2>2. PICK c \in Att : MadeBy(n, c)
    BY <2>1 DEF OInv, PortsMade
  <2>3. ports[n].bridge = AddBridge(c) /\ AddBridge(c) \in Bridge
    BY <1>1, <2>2, OthersSee DEF MadeBy
  <2>4. bridges'[AddBridge(c)] = bridges[AddBridge(c)]
    BY <1>2, <1>4, <2>1, <2>3
  <2>5. MadeBy(n, c)'
    BY <1>1, <1>2, <2>1, <2>2, <2>4, OthersSee DEF MadeBy, BeforePort
  <2> QED
    BY <2>5
<1>13. BridgesKept'
  <2> SUFFICES ASSUME NEW b \in Bridge \ {"br-int"}, bridges'[b] # 0,
                      \A n \in Name : ports'[n].bridge # b
               PROVE  \E c \in Att : WillAsk(c, b)'
    BY DEF BridgesKept
  <2>1. bridges[b] # 0 /\ \A n \in Name : ports[n].bridge # b
    BY <1>2, <1>3, <1>4 DEF OInv, OvsTypeOK
  <2>2. PICK c \in Att : WillAsk(c, b)
    BY <2>1 DEF OInv, BridgesKept
  <2>3. CASE c # a
    <3>1. WillAsk(c, b)'
      BY <1>1, <2>2, <2>3, OthersSee DEF WillAsk
    <3> QED
      BY <3>1
  <2>4. CASE c = a
    <3>1. pc'[a] = "delFailed"
      BY <1>2, <2>2, <2>4 DEF WillAsk, OInv, OvsTypeOK
    <3>2. WillAsk(c, b)'
      BY <1>1, <2>2, <2>4, <3>1, OthersSee DEF WillAsk, Asking, MakesDir
    <3> QED
      BY <3>2
  <2> QED
    BY <2>3, <2>4
<1>14. ASSUME NEW c \in Att \ {a}
      PROVE  /\ InUse(c) /\ c \notin crossed' =>
                  \A b \in {AddBridge(c), DelBridge(c)} : bridges[b] # 0 => bridges'[b] = bridges[b]
             /\ InUse(c) /\ Undisturbed(c)' /\ ports[PortName(c)].owner = {c} =>
                  ports'[PortName(c)].owner = {c}
             /\ ports'[PortName(c)].owner = {c} => ports[PortName(c)].owner = {c}
             /\ AtRisk(c)'
  <2>1. PortName(c) \in Name /\ AttInv(c) /\ pc'[c] = pc[c] /\ DelBridge(c)' = DelBridge(c)
          /\ AddBridge(c) \in Bridge /\ DelBridge(c) \in Bridge /\ PortName(c)' = PortName(c)
    BY <1>1, OthersSee
  <2>2. ASSUME InUse(c), c \notin crossed', NEW b \in {AddBridge(c), DelBridge(c)}, bridges[b] # 0
        PROVE  bridges'[b] = bridges[b]
    BY <1>2, <1>4, <2>1, <2>2
  <2>3. ASSUME InUse(c), Undisturbed(c)', ports[PortName(c)].owner = {c}
        PROVE  ports'[PortName(c)].owner = {c}
    <3>1. c \notin crossed'
      BY <2>1, <2>3 DEF Undisturbed
    <3>2. ports[PortName(c)].bridge = AddBridge(c) /\ bridges[AddBridge(c)] # 0
      BY <2>1, <2>3, OwnPort
    <3>3. ports'[PortName(c)] = ports[PortName(c)]
      BY <1>2, <2>1, <2>3, <3>1, <3>2
    <3> QED
      BY <2>3, <3>3
  <2>4. ports'[PortName(c)].owner = {c} => ports[PortName(c)].owner = {c}
    BY <1>3, <2>1, Nothing
  <2>5. AtRisk(c)'
    BY <1>2, <1>3, <2>1, Nothing DEF AttInv, AtRisk, Bridge
  <2> QED
    BY <2>2, <2>3, <2>4, <2>5
<1> QED
  BY <1>1, <1>2, <1>11, <1>12, <1>13, <1>14, OnTables

-----------------------------------------------------------------------------
(* The invariant.                                                          *)

LEMMA InitHolds ==
  ASSUME Init
  PROVE  OInv
<1>1. OvsTypeOK
  <2>1. \E u \in Uuid : TRUE
    <3> SUFFICES ASSUME Uuid = {} PROVE FALSE
      OBVIOUS
    <3>1. Cardinality(Uuid) = 0
      BY FS_EmptySet
    <3>2. Cardinality(Bridge) \in Nat /\ Cardinality(Att) \in Nat
      BY BridgeFinite, OvsAssumption, FS_CardinalityType
    <3>3. Cardinality(Uuid) > Cardinality(Bridge) + Cardinality(Att)
      BY OvsAssumption
    <3> QED
      BY <3>1, <3>2, <3>3
  <2>2. bridges \in [Bridge -> Uuid \union {0}]
    BY <2>1 DEF Init
  <2>3. budget \in 0..MaxFaults
    <3>1. budget = MaxFaults
      BY DEF Init
    <3>2. MaxFaults \in Nat
      BY OvsAssumption
    <3> QED
      BY <3>1, <3>2
  <2>4. pc \in [Att -> AddPc \union DelPc \union Rest]
    BY DEF Init, Rest
  <2>5. dirs \subseteq Dir
    <3>1. \A c \in Att : conf[c].pod \in Att
      BY ConfFacts DEF Init
    <3> QED
      BY <3>1 DEF Init, Dir
  <2> QED
    BY <2>2, <2>3, <2>4, <2>5 DEF Init, OvsTypeOK
<1>2. PortsMade
  BY DEF Init, PortsMade
<1>3. BridgesKept
  BY DEF Init, BridgesKept
<1>4. ASSUME NEW a \in Att PROVE AttInv(a)
  <2>1. /\ pc[a] = "none" /\ saved[a] = NoData /\ name[a] = NoName
        /\ PortName(a) \in Name => ports[PortName(a)].owner = {}
    BY Nothing DEF Init
  <2>2. PortName(a) \in Name
    BY <1>1, ConfFacts DEF OvsTypeOK
  <2>3. AtRisk(a) /\ LookedUp(a)
    BY <2>1 DEF AtRisk, LookedUp
  <2>4. Known(a)
    BY <2>1, Nothing DEF Known, MakesDir, AfterPort, AddPc, DelPc
  <2>5. BridgeThere(a) /\ PortThere(a)
    BY <2>1, Nothing DEF BridgeThere, PortThere, Has, MakesDir, AfterPort
  <2>6. PortKnown(a)
    BY <2>1, <2>2 DEF PortKnown
  <2> QED
    BY <2>3, <2>4, <2>5, <2>6 DEF AttInv
<1> QED
  BY <1>1, <1>2, <1>3, <1>4 DEF OInv

LEMMA StepKeeps ==
  ASSUME OInv, NEW a \in Att, Act(a)
  PROVE  OInv'
<1>1. CASE AddOpen(a) \/ AddStep(a)
  BY <1>1, AddOpenKeeps, AddFindBridgeKeeps, AddCreateBridgeKeeps, AddCreateSharedDirKeeps,
    AddCreateVhostPortKeeps, AddMoveSocketKeeps, AddGetVhostPortMacKeeps, AddSaveConfigKeeps,
    AddOnContainerKeeps DEF AddStep
<1>2. CASE DelOpen(a) \/ DelStep(a)
  BY <1>2, DelOpenKeeps, DelFindPortKeeps, DelDeleteVhostPortKeeps, DelCleanDirKeeps,
    DelBridgeContainsInterfacesKeeps, DelFindBridgeKeeps, DelDeleteBridgeKeeps, DelRestKeeps
    DEF DelStep
<1>3. CASE AppListens(a) \/ Killed(a)
  BY <1>3, AppListensKeeps, KilledKeeps
<1> QED
  BY <1>1, <1>2, <1>3 DEF Act

LEMMA StutterKeeps ==
  ASSUME OInv, UNCHANGED vars
  PROVE  OInv'
<1>1. /\ UNCHANGED <<conf, bridges, ports, dirs, mounts, files, saved, pc, blind, astray>>
      /\ UNCHANGED <<conn, name, portRow, brRow, risk, crossed, budget, seen>>
  BY DEF vars, ovsdb, disk, proc, ghost, env
<1>2. OvsTypeOK'
  BY <1>1 DEF OInv, OvsTypeOK
<1>3. \A a \in Att : /\ AddBridge(a)' = AddBridge(a) /\ DelBridge(a)' = DelBridge(a)
                     /\ PortName(a)' = PortName(a)
                     /\ ResolveOvnArg(a, "ovnPort")' = ResolveOvnArg(a, "ovnPort")
                     /\ Misdirected(a)' = Misdirected(a)
  BY <1>1, ConfFixed
<1>4. PortsMade' /\ BridgesKept'
  <2>1. \A n \in Name, c \in Att : MadeBy(n, c)' <=> MadeBy(n, c)
    BY <1>1, <1>3 DEF MadeBy
  <2>2. \A b \in Bridge, c \in Att : WillAsk(c, b)' <=> WillAsk(c, b)
    BY <1>1, <1>3 DEF WillAsk
  <2>3. PortsMade'
    BY <1>1, <2>1 DEF OInv, PortsMade
  <2>4. BridgesKept'
    BY <1>1, <2>2 DEF OInv, BridgesKept
  <2> QED
    BY <2>3, <2>4
<1>5. ASSUME NEW a \in Att PROVE AttInv(a)'
  <2>1. AttInv(a) /\ (Undisturbed(a)' <=> Undisturbed(a)) /\ \A pcs : Has(a, pcs)' <=> Has(a, pcs)
    BY <1>1, <1>3 DEF OInv, OvsTypeOK, Undisturbed, Has
  <2>2. AtRisk(a)' /\ Known(a)'
    BY <1>1, <1>3, <2>1 DEF AttInv, AtRisk, Known
  <2>3. BridgeThere(a)' /\ PortThere(a)'
    BY <1>1, <1>3, <2>1 DEF AttInv, BridgeThere, PortThere
  <2>4. LookedUp(a)' /\ PortKnown(a)'
    BY <1>1, <1>3, <2>1 DEF AttInv, LookedUp, PortKnown
  <2> QED
    BY <2>2, <2>3, <2>4 DEF AttInv
<1> QED
  BY <1>2, <1>4, <1>5 DEF OInv

LEMMA OInvHolds == Spec => []OInv
<1>1. Init => OInv
  BY InitHolds
<1>2. OInv /\ [Next]_vars => OInv'
  BY StepKeeps, StutterKeeps DEF Next, Act
<1> QED
  BY <1>1, <1>2, PTL DEF Spec

-----------------------------------------------------------------------------
(* What it gives.                                                          *)

\* The tables, the directories, the saved data and every invocation keep their
\* types: no bridge row without a new id, no socket file outside a directory
\* that is there, no mount without its directory.
THEOREM OvsTypeCorrect == Spec => []OvsTypeOK
<1>1. OInv => OvsTypeOK
  BY DEF OInv
<1> QED
  BY <1>1, OInvHolds, PTL

\* After the last DEL no bridge of the plugin is left without a port on it.
THEOREM OvsReclaims == Spec => []OvsLastDelReclaims
<1>1. OInv => OvsLastDelReclaims
  <2> SUFFICES ASSUME OInv, \A a \in Att : pc[a] \in {"none", "deleted"},
                      \A n \in Name : ports[n] = NoPort,
                      NEW b \in Bridge \ {"br-int"}, bridges[b] # 0
               PROVE  FALSE
    BY DEF OvsLastDelReclaims
  <2>1. \A n \in Name : ports[n].bridge # b
    BY Nothing DEF Bridge
  <2>2. PICK c \in Att : WillAsk(c, b)
    BY <2>1 DEF OInv, BridgesKept
  <2> QED
    BY <2>2 DEF WillAsk, Asking, MakesDir, AfterPort, DelPc
<1> QED
  BY <1>1, OInvHolds, PTL

\* The invocation of a took the port of c.
LEMMA PortTaken ==
  ASSUME OInv, NEW a \in Att, Act(a), NEW c \in Att \ {a}, NEW n \in PortsOf(c),
         ports'[n] # ports[n]
  PROVE  \/ pc[a] = "dRmBr" /\ n \in risk[a]
         \/ pc[a] = "dRmPort" /\ ~Undisturbed(a) /\ PortName(a) = PortName(c)
<1>1. n \in Name /\ ports[n].owner = {c} /\ ports[n] # NoPort
  <2>1. n \in Name /\ c \in ports[n].owner
    BY DEF PortsOf
  <2>2. ports[n].owner = {c}
    BY <2>1, RowFacts DEF OInv
  <2> QED
    BY <2>1, <2>2, Nothing
<1>2. n = PortName(c) /\ PortName(a) \in Name /\ AttInv(a)
  BY <1>1, OwnPort, ConfFacts DEF OInv, OvsTypeOK
<1>3. AddCreateVhostPort(a) \/ DelDeleteVhostPort(a) \/ DelDeleteBridge(a)
  BY DEF Act, AddStep, DelStep, AddOpen, DelOpen, AppListens, Killed, ovsdb,
    AddFindBridge, AddCreateBridge, AddCreateSharedDir, AddStatSharedDir, AddMakeSharedDir,
    AddMountSharedDir, AddMoveSocket,
    AddGetVhostPortMac, AddSaveConfig, AddOnContainer, DelFindPort,
    DelCleanDir, DelBridgeContainsInterfaces, DelFindBridge, DelRest
<1>4. CASE AddCreateVhostPort(a)
  BY <1>1, <1>2, <1>4 DEF AddCreateVhostPort, OInv, OvsTypeOK
<1>5. CASE DelDeleteVhostPort(a)
  <2>1. pc[a] = "dRmPort"
    BY <1>5 DEF DelDeleteVhostPort
  <2>2. name[a] = PortName(a)
    BY <1>2, <2>1 DEF AttInv, Known
  <2>3. n = PortName(a)
    BY <1>1, <1>2, <1>5, <2>2 DEF DelDeleteVhostPort, OInv, OvsTypeOK
  <2>4. ~Undisturbed(a)
    BY <1>1, <1>2, <2>1, <2>2, <2>3 DEF AttInv, PortThere, Has, NoName, Known
  <2> QED
    BY <1>2, <2>1, <2>3, <2>4
<1>6. CASE DelDeleteBridge(a)
  <2>1. pc[a] = "dRmBr" /\ ports[n].bridge = DelBridge(a)
    BY <1>1, <1>6 DEF DelDeleteBridge
  <2> QED
    BY <1>1, <1>2, <2>1 DEF AttInv, AtRisk
<1> QED
  BY <1>3, <1>4, <1>5, <1>6

\* The port of another attachment goes only with a bridge that delLocalNetworkBridge
\* found empty before the port was put there or could not ask about, or by its
\* Socketfile, which both share.
THEOREM OvsPortLost == Spec => PortLostOnlyWithBridge
<1> DEFINE Taken ==
      \A a, c \in Att : a # c /\ pc'[a] # pc[a] =>
        \A n \in PortsOf(c) : ports'[n] # ports[n] =>
          \/ pc[a] = "dRmBr" /\ n \in risk[a]
          \/ pc[a] = "dRmPort" /\ ~Undisturbed(a) /\ PortName(a) = PortName(c)
<1>1. OInv /\ [Next]_vars => [Taken]_vars
  <2> SUFFICES ASSUME OInv, NEW d \in Att, Act(d), NEW a \in Att, NEW c \in Att, a # c,
                      pc'[a] # pc[a], NEW n \in PortsOf(c), ports'[n] # ports[n]
               PROVE  \/ pc[a] = "dRmBr" /\ n \in risk[a]
                      \/ pc[a] = "dRmPort" /\ ~Undisturbed(a) /\ PortName(a) = PortName(c)
    BY DEF Next, Act
  <2>1. d = a
    BY ActLocal DEF OInv, Local
  <2> QED
    BY <2>1, PortTaken
<1> QED
  BY <1>1, OInvHolds, PTL DEF Spec, PortLostOnlyWithBridge

-----------------------------------------------------------------------------
(* The inductive invariant of the directories, for which that of the       *)
(* tables is needed.                                                       *)

AfterDir == {"dEmpty", "dFindBr", "dRmBr", "dRest", "deleted"}

\* Its directory exists, and if it has a short name, that is a mount of it.
There(a) ==
  /\ SharedDir(a) \in dirs
  /\ IsShort(GetShortSharedDir(a)) => <<"short", conf[a].pod>> \in dirs /\ mounts[conf[a].pod] > 0

DirThere(a) ==
  /\ a \notin crossed \union astray
  /\ \/ pc[a] \in {"aPort"} \union AfterPort
     \/ Has(a, {"dFindPort", "dRmPort", "dDir"}) /\ "nopod" \notin seen
  => There(a)

SocketThere(a) ==
  Undisturbed(a) /\ a \notin astray /\ pc[a] \in AfterPort \ {"aMove"} =>
    conf[a].client \/ "late" \in seen \/ <<SharedDir(a), PortName(a)>> \in files

\* No socket of it is in the directory dir of its pod.
GoneFrom(a, dir) ==
  \/ <<<<dir, conf[a].pod>>, PortName(a)>> \notin files
  \/ conf[a].volume = "long" /\ dir = "volume"
  \/ conf[a].volume # "none" /\ "nopod" \in seen
  \/ \E c \in Att \ {a} : conf[c].pod = conf[a].pod /\ PortName(c) = PortName(a)

SocketGone(a) == pc[a] \in AfterDir => GoneFrom(a, "volume") /\ GoneFrom(a, "default")

DelWorks(a) ==
  pc[a] = "delFailed" /\ name[a] # NoName /\ Undisturbed(a) =>
    seen \ {"late", "redel"} # {} \/ Misdirected(a) \/ Strayed(a)

AttDisk(a) == DirThere(a) /\ SocketThere(a) /\ SocketGone(a) /\ DelWorks(a)

\* The directories of a pod are those of its volume.
DirKinds(c) ==
  /\ <<"volume", conf[c].pod>> \in dirs => conf[c].volume # "none"
  /\ <<"short", conf[c].pod>> \in dirs => conf[c].volume = "long"
  /\ <<"default", conf[c].pod>> \in dirs => conf[c].volume = "none" \/ "nopod" \in seen

\* A mount upon another, and a socket that is not in the volume, have a known cause.
ShortOnce(c) ==
  mounts[conf[c].pod] > 1 \/ FilesIn(<<"short", conf[c].pod>>) # {} => Strayed(c)

\* An invocation has yet to remove a short directory.
Holds(e, c) == conf[e].pod = conf[c].pod /\ pc[e] \notin {"none"} \union AfterDir

ShortHeld(c) ==
  <<"short", conf[c].pod>> \in dirs => "nopod" \in seen \/ \E e \in Att : Holds(e, c)

BlindSeen == blind # {} => "nopod" \in seen

DInv ==
  /\ BlindSeen
  /\ \A c \in Att : DirKinds(c) /\ ShortOnce(c) /\ ShortHeld(c) /\ AttDisk(c)

-----------------------------------------------------------------------------
(* What a step does to the directories.                                    *)

LEMMA ThereMeans ==
  ASSUME conf \in Confs, NEW a \in Att
  PROVE  There(a) <=> /\ SharedDir(a) \in dirs /\ GetShortSharedDir(a) \in dirs
                      /\ Behind(GetShortSharedDir(a)) = SharedDir(a)
<1>1. CASE IsShort(GetShortSharedDir(a))
  <2>1. GetShortSharedDir(a) = <<"short", conf[a].pod>>
    BY <1>1, DirFacts
  <2>2. SharedDir(a) = <<"volume", conf[a].pod>>
    <3>1. GetShortSharedDir(a) # SharedDir(a)
      BY <1>1, DirFacts
    <3>2. SharedDir(a)[1] = "volume"
      BY <3>1 DEF GetShortSharedDir
    <3> QED
      BY <3>2, DirFacts
  <2>3. Behind(<<"short", conf[a].pod>>) =
          IF mounts[conf[a].pod] > 0 THEN <<"volume", conf[a].pod>> ELSE <<"short", conf[a].pod>>
    BY DEF Behind, IsShort
  <2> QED
    BY <1>1, <2>1, <2>2, <2>3 DEF There
<1>2. CASE ~IsShort(GetShortSharedDir(a))
  <2>1. GetShortSharedDir(a) = SharedDir(a)
    BY <1>2 DEF GetShortSharedDir, IsShort
  <2>2. Behind(GetShortSharedDir(a)) = SharedDir(a)
    BY <1>2, <2>1 DEF Behind
  <2> QED
    BY <1>2, <2>1, <2>2 DEF There
<1> QED
  BY <1>1, <1>2

\* The directories that a works on belong to its pod; what it puts there or takes
\* away, and what it marks.
DiskDoes(a) ==
  /\ astray \subseteq astray' /\ astray' \subseteq astray \union {a}
  /\ dirs' \subseteq dirs \union {GetShortSharedDir(a)}
  /\ \A d \in dirs \ dirs' : d[2] = conf[a].pod
  /\ \A g \in files' \ files :
       /\ g[1][2] = conf[a].pod /\ g[2] = PortName(a)
       /\ IsShort(g[1]) => a \in astray'
  /\ \A g \in files \ files' : g[1][2] = conf[a].pod
  /\ \A e \in Att \ {conf[a].pod} : mounts'[e] = mounts[e]
  /\ mounts'[conf[a].pod] > 1 => mounts[conf[a].pod] > 1 \/ a \in astray'
  /\ \/ /\ dirs \subseteq dirs' /\ files \subseteq files'
        /\ mounts[conf[a].pod] > 0 => mounts'[conf[a].pod] > 0
     \/ \A c \in Att \ {a} : InUse(c) /\ conf[c].pod = conf[a].pod => c \in crossed'

LEMMA DiskSteps ==
  ASSUME OInv, NEW a \in Att, Act(a)
  PROVE  DiskDoes(a)
<1> DEFINE d == conf[a].pod
<1>1. /\ d \in Att /\ mounts \in [Att -> Nat] /\ mounts[d] \in Nat
      /\ GetShortSharedDir(a)[2] = d /\ SharedDir(a)[2] = d
      /\ Behind(GetShortSharedDir(a))[2] = d
      /\ ~IsShort(SharedDir(a))
  <2>1. conf \in Confs /\ mounts \in [Att -> Nat]
    BY DEF OInv, OvsTypeOK
  <2>2. d \in Att
    BY <2>1, ConfFacts
  <2>3. /\ SharedDir(a) \in {<<"volume", d>>, <<"default", d>>}
        /\ GetShortSharedDir(a) \in {SharedDir(a), <<"short", d>>}
        /\ Behind(GetShortSharedDir(a)) \in {<<"volume", d>>, <<"default", d>>, <<"short", d>>}
        /\ ~IsShort(SharedDir(a))
    BY <2>1, DirFacts
  <2> QED
    BY <2>1, <2>2, <2>3
<1> HIDE DEF d
<1>2. CASE UNCHANGED <<dirs, mounts, files, astray>>
  BY <1>1, <1>2 DEF DiskDoes, d
<1>3. CASE AddStatSharedDir(a)
  <2>1. UNCHANGED <<dirs, mounts, files>> /\ astray' \in {astray, astray \union {a}}
    BY <1>3 DEF AddStatSharedDir, disk
  <2> QED
    BY <1>1, <2>1 DEF DiskDoes, d
<1>4. CASE AddMakeSharedDir(a)
  <2>1. /\ UNCHANGED <<mounts, files, astray>>
        /\ dirs' \in {dirs, dirs \union {GetShortSharedDir(a)}}
    BY <1>4 DEF AddMakeSharedDir, ghost
  <2> QED
    BY <1>1, <2>1 DEF DiskDoes, d
<1>5. CASE AddMountSharedDir(a)
  <2>1. /\ UNCHANGED <<dirs, files>>
        /\ mounts' = mounts \/ mounts' = [mounts EXCEPT ![d] = @ + 1]
        /\ astray' = IF mounts' # mounts /\ mounts[d] > 0 THEN astray \union {a} ELSE astray
    BY <1>5 DEF AddMountSharedDir, d
  <2>2. CASE mounts' = mounts
    BY <1>1, <2>1, <2>2 DEF DiskDoes, d
  <2>3. CASE mounts' = [mounts EXCEPT ![d] = @ + 1] /\ mounts' # mounts
    <3>1. mounts'[d] = mounts[d] + 1 /\ \A e \in Att \ {d} : mounts'[e] = mounts[e]
      BY <1>1, <2>3
    <3>2. mounts'[d] > 1 => a \in astray'
      BY <1>1, <2>1, <2>3, <3>1
    <3>3. mounts[d] > 0 => mounts'[d] > 0
      BY <1>1, <3>1
    <3> QED
      BY <2>1, <3>1, <3>2, <3>3 DEF DiskDoes, d
  <2> QED
    BY <2>1, <2>2, <2>3
<1>6. CASE AddMoveSocket(a)
  <2>1. /\ UNCHANGED <<dirs, mounts>>
        /\ files' = files \/ files' = files \union {<<Behind(GetShortSharedDir(a)), PortName(a)>>}
        /\ astray' = IF files' = files \/ Behind(GetShortSharedDir(a)) = SharedDir(a)
                     THEN astray ELSE astray \union {a}
    BY <1>6 DEF AddMoveSocket
  <2>2. CASE files' = files
    BY <1>1, <2>1, <2>2 DEF DiskDoes, d
  <2>3. CASE files' # files
    <3>1. IsShort(Behind(GetShortSharedDir(a))) => a \in astray'
      BY <1>1, <2>1, <2>3
    <3>2. astray \subseteq astray' /\ astray' \subseteq astray \union {a}
      BY <2>1
    <3>3. \A g \in files' \ files : g = <<Behind(GetShortSharedDir(a)), PortName(a)>>
      BY <2>1
    <3> QED
      BY <1>1, <2>1, <3>1, <3>2, <3>3 DEF DiskDoes, d
  <2> QED
    BY <2>2, <2>3
<1>7. CASE AppListens(a)
  <2>1. /\ UNCHANGED <<dirs, mounts, astray>>
        /\ files' = files \union {<<SharedDir(a), PortName(a)>>}
    BY <1>7 DEF AppListens, ghost
  <2> QED
    BY <1>1, <2>1 DEF DiskDoes, d
<1>8. CASE DelCleanDir(a)
  <2>1. /\ astray' = astray
        /\ \/ <<dirs', mounts', files'>> = <<dirs, mounts, files>>
           \/ \A c \in Att \ {a} : InUse(c) /\ conf[c].pod = d => c \in crossed'
    BY <1>8 DEF DelCleanDir, d
  <2>2. CASE DelUnmount(a)
    <3>1. /\ files' = files /\ dirs' \in {dirs, dirs \ {GetShortSharedDir(a)}}
          /\ mounts' = mounts \/ mounts' = [mounts EXCEPT ![d] = @ - 1]
      BY <2>2 DEF DelUnmount, d
    <3>2. \A e \in Att \ {d} : mounts'[e] = mounts[e]
      BY <1>1, <3>1
    <3>3. mounts'[d] > 1 => mounts[d] > 1
      BY <1>1, <3>1
    <3> QED
      BY <1>1, <2>1, <3>1, <3>2, <3>3 DEF DiskDoes, d
  <2>3. CASE DelRemoveFiles(a)
    <3>1. /\ mounts' = mounts /\ dirs' \in {dirs, dirs \ {GetShortSharedDir(a)}}
          /\ files' \subseteq files /\ \A g \in files \ files' : g[1] = GetShortSharedDir(a)
      BY <2>3 DEF DelRemoveFiles
    <3> QED
      BY <1>1, <2>1, <3>1 DEF DiskDoes, d
  <2> QED
    BY <1>8, <2>2, <2>3 DEF DelCleanDir
<1>9. CASE DelRest(a)
  <2>1. /\ UNCHANGED <<mounts, files, astray>>
        /\ \/ dirs' = dirs
           \/ /\ dirs' = dirs \ {SharedDir(a)}
              /\ \A c \in Att \ {a} : InUse(c) /\ conf[c].pod = d => c \in crossed'
    BY <1>9 DEF DelRest, d
  <2> QED
    BY <1>1, <2>1 DEF DiskDoes, d
<1>10. \/ AddStatSharedDir(a) \/ AddMakeSharedDir(a) \/ AddMountSharedDir(a) \/ AddMoveSocket(a)
       \/ AppListens(a) \/ DelCleanDir(a) \/ DelRest(a)
       \/ UNCHANGED <<dirs, mounts, files, astray>>
  BY DEF Act, AddStep, DelStep, AddCreateSharedDir, AddOpen, DelOpen, Killed, disk, ghost,
    AddFindBridge, AddCreateBridge, AddCreateVhostPort, AddGetVhostPortMac, AddSaveConfig,
    AddOnContainer, DelFindPort, DelDeleteVhostPort, DelBridgeContainsInterfaces,
    DelFindBridge, DelDeleteBridge, LoadConfig
<1> QED
  BY <1>2, <1>3, <1>4, <1>5, <1>6, <1>7, <1>8, <1>9, <1>10

-----------------------------------------------------------------------------
(* What the invariant says of the other attachments.                       *)

\* The configuration and the directories stay as they are for every attachment c
\* but, when an invocation begins, the one it is for.
DirsAs(c) ==
  /\ SharedDir(c)' = SharedDir(c) /\ GetShortSharedDir(c)' = GetShortSharedDir(c)
  /\ \A d : IsShort(d)' = IsShort(d)

LEMMA SameDirs ==
  ASSUME conf' = conf, NEW c \in Att, c \in blind' <=> c \in blind
  PROVE  DirsAs(c)
<1>1. SharedDir(c)' = SharedDir(c)
  BY DEF SharedDir
<1> QED
  BY <1>1 DEF DirsAs, GetShortSharedDir, IsShort

LEMMA OthersDisk ==
  ASSUME OInv, DInv, NEW a \in Att, Act(a), NEW c \in Att \ {a}
  PROVE  AttDisk(c)'
<1>1. /\ OvsTypeOK /\ conf \in Confs /\ AttDisk(c) /\ AttInv(c) /\ DiskDoes(a) /\ Local(a)
  BY ActLocal, DiskSteps DEF OInv, DInv, OvsTypeOK
<1>2. /\ conf' = conf /\ seen \subseteq seen' /\ crossed \subseteq crossed'
      /\ pc'[c] = pc[c] /\ saved'[c] = saved[c] /\ name'[c] = name[c]
      /\ astray \subseteq astray'
  BY <1>1 DEF Local, DiskDoes
<1>3. DirsAs(c)
  BY <1>1, <1>2, SameDirs DEF Local
<1>4. /\ Misdirected(c)' = Misdirected(c) /\ \A e \in Att : PortName(e)' = PortName(e)
      /\ \A pcs : Has(c, pcs)' <=> Has(c, pcs)
  BY <1>2, ConfFixed DEF Has
<1>5. Undisturbed(c)' => Undisturbed(c) /\ c \notin crossed'
  BY <1>1, <1>2, <1>4 DEF Undisturbed, OvsTypeOK
<1>6. /\ conf[c].pod \in Att /\ conf[a].pod \in Att
      /\ SharedDir(c)[2] = conf[c].pod
  <2>1. conf[c].pod \in Att /\ conf[a].pod \in Att
    BY <1>1, ConfFacts
  <2>2. SharedDir(c) \in {<<"volume", conf[c].pod>>, <<"default", conf[c].pod>>}
    BY <1>1, DirFacts
  <2> QED
    BY <2>1, <2>2
\* What it relies on stays, if it is not marked as crossed.
<1>7. ASSUME InUse(c), c \notin crossed'
      PROVE  /\ There(c) => There(c)'
             /\ \A n : <<SharedDir(c), n>> \in files => <<SharedDir(c), n>> \in files'
  <2>1. /\ SharedDir(c) \in dirs => SharedDir(c) \in dirs'
        /\ <<"short", conf[c].pod>> \in dirs => <<"short", conf[c].pod>> \in dirs'
        /\ \A n : <<SharedDir(c), n>> \in files => <<SharedDir(c), n>> \in files'
        /\ mounts[conf[c].pod] > 0 => mounts'[conf[c].pod] > 0
    <3>1. CASE conf[c].pod # conf[a].pod
      BY <1>1, <1>6, <3>1 DEF DiskDoes
    <3>2. CASE conf[c].pod = conf[a].pod
      BY <1>1, <1>7, <3>2 DEF DiskDoes
    <3> QED
      BY <3>1, <3>2
  <2> QED
    BY <1>2, <1>3, <2>1 DEF There, DirsAs
<1>8. saved[c].vhostname # NoName \/ pc[c] \in DelPc \union AddPc \union {"added"} => InUse(c)
  BY <1>1 DEF AttInv, Known, InUse, DelPc, AddPc
<1>9. DirThere(c)'
  <2> SUFFICES ASSUME c \notin crossed' \union astray',
                      \/ pc[c] \in {"aPort"} \union AfterPort
                      \/ Has(c, {"dFindPort", "dRmPort", "dDir"}) /\ "nopod" \notin seen'
               PROVE  There(c)'
    BY <1>2, <1>4 DEF DirThere
  <2>1. There(c)
    BY <1>1, <1>2 DEF AttDisk, DirThere
  <2>2. InUse(c)
    BY <1>8 DEF Has, DelPc, InUse, AfterPort
  <2> QED
    BY <1>7, <2>1, <2>2
<1>10. SocketThere(c)'
  <2> SUFFICES ASSUME Undisturbed(c)', c \notin astray', pc[c] \in AfterPort \ {"aMove"}
               PROVE  conf[c].client \/ "late" \in seen' \/ <<SharedDir(c), PortName(c)>> \in files'
    BY <1>2, <1>3, <1>4 DEF SocketThere, DirsAs
  <2>1. conf[c].client \/ "late" \in seen' \/ <<SharedDir(c), PortName(c)>> \in files
    BY <1>1, <1>2, <1>5 DEF AttDisk, SocketThere
  <2>2. InUse(c) /\ c \notin crossed'
    BY <1>5 DEF InUse, AfterPort
  <2> QED
    BY <1>7, <2>1, <2>2
<1>11. SocketGone(c)'
  <2>1. ASSUME NEW dir \in {"volume", "default"}, GoneFrom(c, dir) PROVE GoneFrom(c, dir)'
    <3> DEFINE g == <<<<dir, conf[c].pod>>, PortName(c)>>
    <3>1. g \in files' \ files => conf[c].pod = conf[a].pod /\ PortName(c) = PortName(a)
      <4>1. g[1][2] = conf[c].pod /\ g[2] = PortName(c)
        OBVIOUS
      <4> HIDE DEF g
      <4> QED
        BY <1>1, <4>1 DEF DiskDoes
    <3>2. CASE g \in files' \ files
      BY <1>2, <1>4, <3>1, <3>2 DEF GoneFrom
    <3>3. CASE g \notin files' \ files
      BY <1>2, <1>4, <2>1, <3>3 DEF GoneFrom
    <3> QED
      BY <3>2, <3>3
  <2> QED
    BY <1>1, <1>2, <2>1 DEF AttDisk, SocketGone
<1>12. DelWorks(c)'
  <2>1. Strayed(c) => Strayed(c)'
    BY <1>2 DEF Strayed
  <2> QED
    BY <1>1, <1>2, <1>4, <1>5, <2>1 DEF AttDisk, DelWorks
<1> QED
  BY <1>9, <1>10, <1>11, <1>12 DEF AttDisk

-----------------------------------------------------------------------------
(* What it says of the directories of a pod.                               *)

LEMMA BlindSeenKept ==
  ASSUME OInv, DInv, NEW a \in Att, Act(a)
  PROVE  BlindSeen'
<1>1. CASE AddOpen(a) \/ DelOpen(a)
  <2>1. Opens(a, {}) \/ Opens(a, {"redel"})
    BY <1>1 DEF AddOpen, DelOpen
  <2>2. blind' = blind \ {a} \/ (blind' = blind \union {a} /\ "nopod" \in seen')
    BY <2>1, OpensFacts
  <2>3. seen \subseteq seen'
    BY ActLocal DEF OInv, Local
  <2> QED
    BY <2>2, <2>3 DEF DInv, BlindSeen
<1>2. CASE ~(AddOpen(a) \/ DelOpen(a))
  <2>1. blind' = blind
    BY <1>2 DEF Act, AddStep, DelStep, AppListens, Killed, proc,
      AddFindBridge, AddCreateBridge, AddCreateSharedDir, AddStatSharedDir, AddMakeSharedDir,
      AddMountSharedDir, AddCreateVhostPort, AddMoveSocket,
      AddGetVhostPortMac, AddSaveConfig, AddOnContainer, DelFindPort, DelDeleteVhostPort,
      DelCleanDir, DelBridgeContainsInterfaces, DelFindBridge, DelDeleteBridge, DelRest
  <2>2. seen \subseteq seen'
    BY ActLocal DEF OInv, Local
  <2> QED
    BY <2>1, <2>2 DEF DInv, BlindSeen
<1> QED
  BY <1>1, <1>2

\* Attachments of one pod share its volume.
LEMMA SameVolume ==
  ASSUME OInv, NEW a \in Att, NEW c \in Att, conf[c].pod = conf[a].pod
  PROVE  conf[c].volume = conf[a].volume
BY OvsAssumption DEF OInv, OvsTypeOK

\* Which directory that is.
LEMMA WhichDir ==
  ASSUME OInv, DInv, NEW a \in Att
  PROVE  /\ "nopod" \notin seen => a \notin blind
         /\ a \notin blind /\ conf[a].volume = "none" =>
              /\ SharedDir(a) = <<"default", conf[a].pod>>
              /\ GetShortSharedDir(a) = <<"default", conf[a].pod>>
         /\ a \notin blind /\ conf[a].volume = "plain" =>
              /\ SharedDir(a) = <<"volume", conf[a].pod>>
              /\ GetShortSharedDir(a) = <<"volume", conf[a].pod>>
         /\ a \notin blind /\ conf[a].volume = "long" =>
              /\ SharedDir(a) = <<"volume", conf[a].pod>>
              /\ GetShortSharedDir(a) = <<"short", conf[a].pod>>
         /\ a \in blind => GetShortSharedDir(a) = <<"default", conf[a].pod>>
         /\ conf[a].volume = "none" => GetShortSharedDir(a) = <<"default", conf[a].pod>>
         /\ conf[a].volume \in {"none", "plain", "long"}
<1>1. "nopod" \notin seen => a \notin blind
  BY DEF DInv, BlindSeen
<1>2. conf[a].volume \in {"none", "plain", "long"}
  <2>1. conf[a] \in ConfType
    BY ConfFacts DEF OInv, OvsTypeOK
  <2> QED
    BY <2>1 DEF ConfType
<1> QED
  BY <1>1, <1>2 DEF SharedDir, GetShortSharedDir

LEMMA DirKindsKept ==
  ASSUME OInv, DInv, NEW a \in Att, Act(a), NEW c \in Att
  PROVE  DirKinds(c)'
<1>1. DirKinds(c) /\ DiskDoes(a) /\ conf' = conf /\ seen \subseteq seen'
  BY DiskSteps, ActLocal DEF OInv, DInv, Local
<1>2. dirs' \subseteq dirs \union {GetShortSharedDir(a)}
  BY <1>1 DEF DiskDoes
<1>3. CASE conf[c].pod = conf[a].pod
  <2>1. conf[c].volume = conf[a].volume
    BY <1>3, SameVolume
  <2>2. a \in blind => "nopod" \in seen
    BY WhichDir
  <2>3. /\ GetShortSharedDir(a) = <<"volume", conf[c].pod>> => conf[c].volume # "none"
        /\ GetShortSharedDir(a) = <<"short", conf[c].pod>> => conf[c].volume = "long"
        /\ GetShortSharedDir(a) = <<"default", conf[c].pod>> =>
             conf[c].volume = "none" \/ "nopod" \in seen
    BY <1>3, <2>1, <2>2, WhichDir
  <2> QED
    BY <1>1, <1>2, <2>3 DEF DirKinds
<1>4. CASE conf[c].pod # conf[a].pod
  <2>1. \A kind : GetShortSharedDir(a) # <<kind, conf[c].pod>>
    BY <1>4, DirFacts DEF OInv, OvsTypeOK
  <2> QED
    BY <1>1, <1>2, <2>1 DEF DirKinds
<1> QED
  BY <1>3, <1>4

LEMMA ShortOnceKept ==
  ASSUME OInv, DInv, NEW a \in Att, Act(a), NEW c \in Att
  PROVE  ShortOnce(c)'
<1>1. ShortOnce(c) /\ DiskDoes(a) /\ conf' = conf
  BY DiskSteps, ActLocal DEF OInv, DInv, Local
<1>2. conf[c].pod \in Att /\ conf[a].pod \in Att
  BY ConfFacts DEF OInv, OvsTypeOK
<1>3. Strayed(c) => Strayed(c)'
  BY <1>1 DEF Strayed, DiskDoes
<1>4. a \in astray' /\ conf[c].pod = conf[a].pod => Strayed(c)'
  BY <1>1 DEF Strayed
<1>5. mounts'[conf[c].pod] > 1 => Strayed(c)'
  <2>1. CASE conf[c].pod = conf[a].pod
    BY <1>1, <1>3, <1>4, <2>1 DEF ShortOnce, DiskDoes
  <2>2. CASE conf[c].pod # conf[a].pod
    BY <1>1, <1>2, <1>3, <2>2 DEF ShortOnce, DiskDoes
  <2> QED
    BY <2>1, <2>2
<1>6. ASSUME NEW g \in files', g[1] = <<"short", conf[c].pod>> PROVE Strayed(c)'
  <2>1. CASE g \in files
    BY <1>1, <1>3, <1>6, <2>1 DEF ShortOnce, FilesIn
  <2>2. CASE g \notin files
    <3>1. g[1][2] = conf[a].pod /\ (IsShort(g[1]) => a \in astray')
      BY <1>1, <2>2 DEF DiskDoes
    <3>2. IsShort(g[1]) /\ g[1][2] = conf[c].pod
      BY <1>6 DEF IsShort
    <3> QED
      BY <1>4, <3>1, <3>2
  <2> QED
    BY <2>1, <2>2
<1> QED
  BY <1>1, <1>5, <1>6 DEF ShortOnce, FilesIn

LEMMA ShortHeldKept ==
  ASSUME OInv, DInv, NEW a \in Att, Act(a), NEW c \in Att
  PROVE  ShortHeld(c)'
<1>1. /\ ShortHeld(c) /\ DirKinds(c) /\ DiskDoes(a) /\ Local(a) /\ conf' = conf
      /\ seen \subseteq seen' /\ OvsTypeOK
  BY DiskSteps, ActLocal DEF OInv, DInv, Local
<1> SUFFICES ASSUME <<"short", conf[c].pod>> \in dirs', "nopod" \notin seen'
             PROVE  \E e \in Att : Holds(e, c)'
  BY <1>1 DEF ShortHeld
<1>2. CASE <<"short", conf[c].pod>> \notin dirs
  <2>1. AddMakeSharedDir(a)
    <3>1. dirs' # dirs /\ ~(dirs' \subseteq dirs)
      BY <1>2
    <3>2. CASE DelCleanDir(a)
      <4>1. dirs' \subseteq dirs
        BY <3>2 DEF DelCleanDir, DelUnmount, DelRemoveFiles
      <4> QED
        BY <3>1, <4>1
    <3> QED
      BY <3>1, <3>2 DEF Act, AddStep, DelStep, AddCreateSharedDir, AddOpen, DelOpen, Killed, disk,
        AppListens, AddStatSharedDir, AddMountSharedDir, AddMoveSocket, DelRest,
        AddFindBridge, AddCreateBridge, AddCreateVhostPort, AddGetVhostPortMac, AddSaveConfig,
        AddOnContainer, DelFindPort, DelDeleteVhostPort, DelBridgeContainsInterfaces,
        DelFindBridge, DelDeleteBridge
  <2>2. pc'[a] \in {"aMount", "aPort", "addFailed"}
    BY <1>1, <2>1 DEF AddMakeSharedDir, Goto, OvsTypeOK
  <2>3. GetShortSharedDir(a) = <<"short", conf[c].pod>>
    BY <1>1, <1>2 DEF DiskDoes
  <2>4. conf[a].pod = conf[c].pod
    BY <2>3, DirFacts DEF OInv, OvsTypeOK
  <2> QED
    BY <1>1, <2>2, <2>4 DEF Holds, AfterDir
<1>3. CASE <<"short", conf[c].pod>> \in dirs
  <2>1. PICK e \in Att : Holds(e, c)
    BY <1>1, <1>3 DEF ShortHeld
  <2>2. CASE e # a
    BY <1>1, <2>1, <2>2 DEF Holds, Local
  <2>3. CASE e = a
    <3>1. pc'[a] \notin {"none"} \union AfterDir
      <4>1. pc[a] \notin {"none"} \union AfterDir /\ conf[a].pod = conf[c].pod
        BY <2>1, <2>3 DEF Holds
      <4>2. CASE DelCleanDir(a)
        <5>1. conf[a].volume = "long" /\ a \notin blind
          BY <1>1, <1>3, <4>1, SameVolume, WhichDir DEF DirKinds
        <5>2. GetShortSharedDir(a) = <<"short", conf[c].pod>>
          BY <4>1, <5>1, WhichDir
        <5>3. DelUnmount(a)
          BY <4>2, <5>2 DEF DelCleanDir, IsShort
        <5>4. pc'[a] = "delFailed"
          BY <1>1, <1>3, <5>2, <5>3 DEF DelUnmount, Goto, OvsTypeOK
        <5> QED
          BY <5>4 DEF AfterDir
      <4>3. CASE AddStep(a)
        BY <1>1, <4>1, <4>3 DEF AddStep, AddCreateSharedDir, AddStatSharedDir, AddMakeSharedDir,
          AddMountSharedDir, AddFindBridge, AddCreateBridge, AddDevice, AddCreateVhostPort,
          AddMoveSocket, AddGetVhostPortMac, AddSaveConfig, AddOnContainer, Executed, Refused,
          Goto, OvsTypeOK, AfterDir
      <4>4. CASE AddOpen(a) \/ DelOpen(a) \/ AppListens(a) \/ Killed(a) \/ DelFindPort(a)
                   \/ DelDeleteVhostPort(a)
        BY <1>1, <4>1, <4>4 DEF AddOpen, DelOpen, AppListens, Killed, DelFindPort,
          DelDeleteVhostPort, Executed, Refused, Goto, OvsTypeOK, AfterDir
      <4>5. CASE DelBridgeContainsInterfaces(a) \/ DelFindBridge(a) \/ DelDeleteBridge(a)
                   \/ DelRest(a)
        BY <4>1, <4>5 DEF DelBridgeContainsInterfaces, DelFindBridge, DelDeleteBridge, DelRest,
          AfterDir
      <4> QED
        BY <4>2, <4>3, <4>4, <4>5 DEF Act, DelStep
    <3> QED
      BY <1>1, <2>1, <2>3, <3>1 DEF Holds
  <2> QED
    BY <2>2, <2>3
<1> QED
  BY <1>2, <1>3

-----------------------------------------------------------------------------
(* What it says of the attachment itself.                                  *)

\* An attachment that relies on its directory.
Relies(a) ==
  \/ pc[a] \in {"aPort"} \union AfterPort
  \/ Has(a, {"dFindPort", "dRmPort", "dDir"}) /\ "nopod" \notin seen

LEMMA OwnDirThere ==
  ASSUME OInv, DInv, NEW a \in Att, Act(a)
  PROVE  DirThere(a)'
<1>1. Own(a) /\ DirThere(a) /\ DiskDoes(a) /\ OvsTypeOK /\ conf \in Confs
  BY OwnFacts, DiskSteps DEF OInv, DInv, AttDisk, OvsTypeOK
<1>2. conf' = conf /\ seen \subseteq seen' /\ crossed \subseteq crossed' /\ astray \subseteq astray'
  BY <1>1 DEF Own, DiskDoes
<1> SUFFICES ASSUME a \notin crossed' \union astray', Relies(a)'
             PROVE  There(a)'
  BY DEF DirThere, Relies
<1>3. ASSUME Relies(a), UNCHANGED <<dirs, mounts>>, a \in blind' <=> a \in blind
      PROVE  There(a)'
  <2>1. There(a)
    BY <1>1, <1>2, <1>3 DEF DirThere, Relies
  <2> QED
    BY <1>2, <1>3, <2>1, SameDirs DEF There, DirsAs
<1> USE DEF OvsTypeOK, Goto
<1>4. CASE AddOpen(a)
  <2>1. /\ pc[a] = "none" /\ pc'[a] = "aFindBr" /\ saved' = saved /\ name' = name
    BY <1>1, <1>4 DEF AddOpen, disk
  <2> QED
    BY <1>1, <2>1 DEF Own, AttInv, Known, Relies, Has, AfterPort, DelPc
<1>5. CASE DelOpen(a)
  <2>1. UNCHANGED <<dirs, mounts>>
    BY <1>5 DEF DelOpen
  <2>2. pc'[a] \in {"dFindPort", "delFailed"}
    BY <1>1, <1>5 DEF DelOpen
  <2>3. saved'[a] = NoData \/ (saved'[a] = Torn /\ name'[a] = NoName)
    BY <1>1, <1>5 DEF DelOpen, LoadConfig
  <2>4. saved'[a].vhostname = NoName
    BY <2>3, Nothing
  <2>5. name'[a] # NoName /\ "nopod" \notin seen'
    BY <2>2, <2>4 DEF Relies, Has, AfterPort
  <2>6. name'[a] = saved[a].vhostname
    BY <1>1, <1>5, <2>5 DEF DelOpen, LoadConfig
  <2>7. Relies(a)
    BY <1>2, <2>5, <2>6 DEF Relies, Has
  <2>8. blind' = blind \ {a} \/ "nopod" \in seen'
    <3>1. Opens(a, {}) \/ Opens(a, {"redel"})
      BY <1>5 DEF DelOpen
    <3> QED
      BY <3>1, OpensFacts
  <2>9. a \notin blind
    BY <1>2, <2>5, WhichDir
  <2> QED
    BY <1>3, <2>1, <2>5, <2>7, <2>8, <2>9
<1>6. CASE AddStatSharedDir(a)
  <2>1. UNCHANGED <<dirs, mounts, saved, blind, name>> /\ pc[a] = "aDir"
    BY <1>6 DEF AddStatSharedDir, disk, proc
  <2>2. CASE GetShortSharedDir(a) \in dirs
    <3>1. Behind(GetShortSharedDir(a)) = SharedDir(a) /\ SharedDir(a) \in dirs
      BY <1>6, <2>2 DEF AddStatSharedDir
    <3>2. There(a)
      BY <1>1, <2>2, <3>1, ThereMeans
    <3> QED
      BY <1>2, <2>1, <3>2, SameDirs DEF There, DirsAs
  <2>3. CASE GetShortSharedDir(a) \notin dirs
    <3>1. pc'[a] = "aMkdir"
      BY <1>1, <1>6, <2>3 DEF AddStatSharedDir
    <3> QED
      BY <1>1, <2>1, <3>1 DEF Own, AttInv, Known, Relies, Has, AfterPort, DelPc
  <2> QED
    BY <2>2, <2>3
<1>7. CASE AddMakeSharedDir(a)
  <2>1. UNCHANGED <<mounts, saved, blind, name>> /\ pc[a] = "aMkdir"
    BY <1>7 DEF AddMakeSharedDir, proc
  <2>2. saved[a].vhostname = NoName /\ name[a] = NoName
    BY <1>1, <2>1 DEF Own, AttInv, Known, DelPc
  <2>3. pc'[a] = "aPort"
    <3>1. pc'[a] \in {"aMount", "aPort", "addFailed"}
      BY <1>1, <1>7 DEF AddMakeSharedDir
    <3> QED
      BY <2>1, <2>2, <3>1 DEF Relies, Has, AfterPort
  <2>4. dirs' = dirs \union {GetShortSharedDir(a)} /\ ~IsShort(GetShortSharedDir(a))
    BY <1>1, <1>7, <2>3 DEF AddMakeSharedDir
  <2>5. GetShortSharedDir(a) = SharedDir(a)
    BY <1>1, <2>4, DirFacts DEF IsShort
  <2> QED
    BY <1>2, <2>1, <2>4, <2>5, SameDirs DEF There, DirsAs
<1>8. CASE AddMountSharedDir(a)
  <2>1. UNCHANGED <<dirs, saved, blind, name>> /\ pc[a] = "aMount"
    BY <1>8 DEF AddMountSharedDir, proc
  <2>2. saved[a].vhostname = NoName /\ name[a] = NoName
    BY <1>1, <2>1 DEF Own, AttInv, Known, DelPc
  <2>3. pc'[a] = "aPort"
    <3>1. pc'[a] \in {"aPort", "addFailed"}
      BY <1>1, <1>8 DEF AddMountSharedDir
    <3> QED
      BY <2>1, <2>2, <3>1 DEF Relies, Has, AfterPort
  <2>4. /\ mounts' = [mounts EXCEPT ![conf[a].pod] = @ + 1]
        /\ <<"short", conf[a].pod>> \in dirs /\ SharedDir(a) \in dirs
    BY <1>1, <1>8, <2>3 DEF AddMountSharedDir
  <2>5. mounts'[conf[a].pod] > 0
    <3>1. conf[a].pod \in Att /\ mounts[conf[a].pod] \in Nat
      BY <1>1, ConfFacts
    <3> QED
      BY <1>1, <2>4, <3>1
  <2> QED
    BY <1>2, <2>1, <2>4, <2>5, SameDirs DEF There, DirsAs
<1>9. CASE AddFindBridge(a) \/ AddCreateBridge(a)
  <2>1. /\ pc[a] \in {"aFindBr", "aMkBr"} /\ pc'[a] \in {"aMkBr", "aDir", "addFailed"}
        /\ UNCHANGED <<saved, name>>
    BY <1>1, <1>9 DEF AddFindBridge, AddCreateBridge, AddDevice, Executed, Refused, disk, proc
  <2> QED
    BY <1>1, <2>1 DEF Own, AttInv, Known, Relies, Has, AfterPort, DelPc
<1>10. CASE AddCreateVhostPort(a) \/ AddMoveSocket(a) \/ AddGetVhostPortMac(a)
              \/ AddSaveConfig(a) \/ AddOnContainer(a) \/ AppListens(a)
  <2>1. UNCHANGED <<dirs, mounts, blind>> /\ pc[a] \in {"aPort"} \union AfterPort
    BY <1>1, <1>10 DEF AddCreateVhostPort, AddMoveSocket, AddGetVhostPortMac, AddSaveConfig,
      AddOnContainer, AppListens, disk, proc, AfterPort
  <2> QED
    BY <1>3, <2>1 DEF Relies
<1>11. CASE Killed(a)
  <2>1. UNCHANGED <<dirs, mounts, blind, saved, name>> /\ pc'[a] \in {"addFailed", "delFailed"}
    BY <1>1, <1>11 DEF Killed, disk, proc
  <2>2. Relies(a)
    BY <1>2, <2>1 DEF Relies, Has, AfterPort
  <2> QED
    BY <1>3, <2>1, <2>2
<1>12. CASE DelFindPort(a) \/ DelDeleteVhostPort(a)
  <2>1. /\ UNCHANGED <<dirs, mounts, blind, saved, name>>
        /\ pc[a] \in {"dFindPort", "dRmPort"} /\ pc'[a] \in {"dRmPort", "dDir", "delFailed"}
    BY <1>1, <1>12 DEF DelFindPort, DelDeleteVhostPort, Executed, Refused, disk, proc
  <2>2. Relies(a)
    BY <1>2, <2>1 DEF Relies, Has, AfterPort
  <2> QED
    BY <1>3, <2>1, <2>2
<1>13. CASE DelCleanDir(a) \/ DelBridgeContainsInterfaces(a) \/ DelFindBridge(a)
              \/ DelDeleteBridge(a) \/ DelRest(a)
  <2>1. /\ UNCHANGED <<saved, name>>
        /\ pc[a] \in {"dDir", "dEmpty", "dFindBr", "dRmBr", "dRest"}
    BY <1>13 DEF DelCleanDir, DelBridgeContainsInterfaces, DelFindBridge, DelDeleteBridge,
      DelRest, disk, proc
  <2>2. pc'[a] \in {"dEmpty", "dFindBr", "dRmBr", "dRest", "deleted", "delFailed"}
    <3>1. CASE DelCleanDir(a)
      BY <1>1, <3>1 DEF DelCleanDir, DelUnmount, DelRemoveFiles
    <3>2. CASE DelBridgeContainsInterfaces(a) \/ DelFindBridge(a) \/ DelDeleteBridge(a) \/ DelRest(a)
      BY <1>1, <3>2 DEF DelBridgeContainsInterfaces, DelFindBridge, DelDeleteBridge, DelRest,
        Executed, Refused
    <3> QED
      BY <1>13, <3>1, <3>2
  <2>3. saved[a].vhostname = NoName
    BY <1>1, <2>1, Nothing DEF Own, AttInv, Known, DelPc
  <2> QED
    BY <2>1, <2>2, <2>3 DEF Relies, Has, AfterPort
<1> QED
  BY <1>4, <1>5, <1>6, <1>7, <1>8, <1>9, <1>10, <1>11, <1>12, <1>13
    DEF Act, AddStep, DelStep, AddCreateSharedDir

LEMMA OwnSocketThere ==
  ASSUME OInv, DInv, NEW a \in Att, Act(a)
  PROVE  SocketThere(a)'
<1>1. /\ Own(a) /\ DirThere(a) /\ SocketThere(a) /\ DiskDoes(a) /\ OvsTypeOK /\ conf \in Confs
  BY OwnFacts, DiskSteps DEF OInv, DInv, AttDisk, OvsTypeOK
<1>2. /\ conf' = conf /\ seen \subseteq seen' /\ astray \subseteq astray'
      /\ PortName(a)' = PortName(a) /\ (Undisturbed(a)' => Undisturbed(a) /\ a \notin crossed')
      /\ crossed \subseteq crossed'
  BY <1>1 DEF Own, DiskDoes
<1> SUFFICES ASSUME Undisturbed(a)', a \notin astray', pc'[a] \in AfterPort \ {"aMove"},
                    ~conf[a].client, "late" \notin seen'
             PROVE  <<SharedDir(a)', PortName(a)>> \in files'
  BY <1>2 DEF SocketThere
<1> USE DEF OvsTypeOK, Goto
<1>3. CASE AddMoveSocket(a)
  <2>1. pc[a] = "aMove" /\ blind' = blind
    BY <1>3 DEF AddMoveSocket, proc
  <2>2. There(a)
    BY <1>1, <1>2, <2>1 DEF DirThere, AfterPort
  <2>3. ports[PortName(a)] # NoPort
    BY <1>1, <1>2, <2>1, Nothing DEF Own, AttInv, PortThere, AfterPort
  <2>4. /\ SharedDir(a) \in dirs /\ GetShortSharedDir(a) \in dirs
        /\ Behind(GetShortSharedDir(a)) = SharedDir(a)
    BY <1>1, <2>2, ThereMeans
  <2>5. MovableSocket(a)
    BY <2>3, <2>4 DEF MovableSocket
  <2>6. <<SharedDir(a), PortName(a)>> \in files'
    BY <1>3, <2>4, <2>5 DEF AddMoveSocket, Fault
  <2> QED
    BY <1>2, <2>1, <2>6, SameDirs DEF DirsAs
<1>4. CASE AddGetVhostPortMac(a) \/ AddSaveConfig(a) \/ AddOnContainer(a) \/ AppListens(a)
  <2>1. pc[a] \in AfterPort \ {"aMove"} /\ files \subseteq files' /\ blind' = blind
    BY <1>4 DEF AddGetVhostPortMac, AddSaveConfig, AddOnContainer, AppListens, disk, proc, AfterPort
  <2>2. <<SharedDir(a), PortName(a)>> \in files
    BY <1>1, <1>2, <2>1 DEF SocketThere
  <2> QED
    BY <1>2, <2>1, <2>2, SameDirs DEF DirsAs
<1>5. CASE AddOpen(a) \/ AddFindBridge(a) \/ AddCreateBridge(a) \/ AddCreateVhostPort(a) \/ Killed(a)
  BY <1>1, <1>5 DEF AddOpen, AddFindBridge, AddCreateBridge, AddDevice, AddCreateVhostPort, Killed,
    Executed, Refused, AfterPort
<1>6. CASE AddStatSharedDir(a) \/ AddMakeSharedDir(a) \/ AddMountSharedDir(a)
  BY <1>1, <1>6 DEF AddStatSharedDir, AddMakeSharedDir, AddMountSharedDir, AfterPort
<1>7. CASE DelOpen(a) \/ DelFindPort(a) \/ DelDeleteVhostPort(a)
  BY <1>1, <1>7 DEF DelOpen, DelFindPort, DelDeleteVhostPort, Executed, Refused, AfterPort
<1>8. CASE DelCleanDir(a)
  BY <1>1, <1>8 DEF DelCleanDir, DelUnmount, DelRemoveFiles, AfterPort
<1>9. CASE DelBridgeContainsInterfaces(a) \/ DelFindBridge(a) \/ DelDeleteBridge(a) \/ DelRest(a)
  BY <1>1, <1>9 DEF DelBridgeContainsInterfaces, DelFindBridge, DelDeleteBridge, DelRest,
    Executed, Refused, AfterPort
<1> QED
  BY <1>3, <1>4, <1>5, <1>6, <1>7, <1>8, <1>9 DEF Act, AddStep, DelStep, AddCreateSharedDir

LEMMA OwnSocketGone ==
  ASSUME OInv, DInv, NEW a \in Att, Act(a)
  PROVE  SocketGone(a)'
<1>1. /\ Own(a) /\ SocketGone(a) /\ OvsTypeOK /\ conf \in Confs /\ DirKinds(a)
  BY OwnFacts DEF OInv, DInv, AttDisk, OvsTypeOK
<1>2. /\ conf' = conf /\ seen \subseteq seen' /\ \A d \in Att : PortName(d)' = PortName(d)
  BY <1>1 DEF Own
<1> SUFFICES ASSUME pc'[a] \in AfterDir, NEW dir \in {"volume", "default"}
             PROVE  GoneFrom(a, dir)'
  BY DEF SocketGone
<1> USE DEF OvsTypeOK, Goto
<1>3. CASE DelCleanDir(a)
  <2> SUFFICES ASSUME ~(conf[a].volume # "none" /\ "nopod" \in seen'),
                      ~(conf[a].volume = "long" /\ dir = "volume")
               PROVE  <<<<dir, conf[a].pod>>, PortName(a)>> \notin files'
    BY <1>2 DEF GoneFrom
  <2>1. files' \subseteq files
    BY <1>3 DEF DelCleanDir, DelUnmount, DelRemoveFiles
  <2>2. CASE GetShortSharedDir(a) = <<dir, conf[a].pod>>
    <3>1. DelRemoveFiles(a)
      BY <1>3, <2>2 DEF DelCleanDir, IsShort
    <3>2. pc'[a] = "dEmpty"
      BY <1>1, <3>1 DEF DelRemoveFiles, AfterDir
    <3>3. DelMatches(a, PortName(a))
      BY <1>1 DEF DelMatches, PortName, Own
    <3>4. files' = {f \in files : f[1] = GetShortSharedDir(a) => ~DelMatches(a, f[2])}
      BY <1>1, <3>1, <3>2 DEF DelRemoveFiles
    <3> QED
      BY <2>2, <3>3, <3>4
  <2>3. CASE GetShortSharedDir(a) # <<dir, conf[a].pod>>
    <3>1. <<dir, conf[a].pod>> \notin dirs
      BY <1>1, <1>2, <2>3, WhichDir DEF DirKinds
    <3> QED
      BY <1>1, <2>1, <3>1
  <2> QED
    BY <2>2, <2>3
<1>4. CASE DelBridgeContainsInterfaces(a) \/ DelFindBridge(a) \/ DelDeleteBridge(a) \/ DelRest(a)
  <2>1. pc[a] \in AfterDir /\ files' = files
    BY <1>4 DEF DelBridgeContainsInterfaces, DelFindBridge, DelDeleteBridge, DelRest, disk, AfterDir
  <2> QED
    BY <1>1, <1>2, <2>1 DEF SocketGone, GoneFrom
<1>5. CASE AddOpen(a) \/ AddFindBridge(a) \/ AddCreateBridge(a) \/ AddCreateVhostPort(a) \/ Killed(a)
  BY <1>1, <1>5 DEF AddOpen, AddFindBridge, AddCreateBridge, AddDevice, AddCreateVhostPort, Killed,
    Executed, Refused, AfterDir
<1>6. CASE AddStatSharedDir(a) \/ AddMakeSharedDir(a) \/ AddMountSharedDir(a)
  BY <1>1, <1>6 DEF AddStatSharedDir, AddMakeSharedDir, AddMountSharedDir, AfterDir
<1>7. CASE DelOpen(a) \/ DelFindPort(a) \/ DelDeleteVhostPort(a)
  BY <1>1, <1>7 DEF DelOpen, DelFindPort, DelDeleteVhostPort, Executed, Refused, AfterDir
<1>8. CASE AddMoveSocket(a) \/ AddGetVhostPortMac(a) \/ AddSaveConfig(a) \/ AddOnContainer(a)
             \/ AppListens(a)
  BY <1>1, <1>8 DEF AddMoveSocket, AddGetVhostPortMac, AddSaveConfig, AddOnContainer, AppListens,
    AfterDir
<1> QED
  BY <1>3, <1>4, <1>5, <1>6, <1>7, <1>8 DEF Act, AddStep, DelStep, AddCreateSharedDir

LEMMA OwnDelWorks ==
  ASSUME OInv, DInv, NEW a \in Att, Act(a)
  PROVE  DelWorks(a)'
<1>1. /\ Own(a) /\ AttInv(a) /\ DelWorks(a) /\ DirThere(a) /\ ShortOnce(a) /\ DiskDoes(a)
      /\ OvsTypeOK /\ conf \in Confs
  BY OwnFacts, DiskSteps DEF OInv, DInv, AttDisk, OvsTypeOK
<1>2. /\ conf' = conf /\ seen \subseteq seen' /\ astray \subseteq astray' /\ crossed \subseteq crossed'
      /\ Misdirected(a)' = Misdirected(a) /\ (Undisturbed(a)' => Undisturbed(a) /\ a \notin crossed')
      /\ PortName(a) \in Name
  BY <1>1 DEF Own, DiskDoes
<1>3. Strayed(a) => Strayed(a)'
  BY <1>2 DEF Strayed
<1> SUFFICES ASSUME pc'[a] = "delFailed", name'[a] # NoName, Undisturbed(a)',
                    seen' \subseteq {"late", "redel"}, ~Misdirected(a), ~Strayed(a)
             PROVE  FALSE
  BY <1>2, <1>3 DEF DelWorks
<1>4. "nopod" \notin seen' /\ "down" \notin seen' /\ \A f \in Faults : Fault(f) => f \in {"late", "redel"}
  BY DEF Fault
<1>5. a \notin crossed /\ a \notin astray
  BY <1>1, <1>2 DEF Strayed
<1>6. pc[a] \in DelPc => conn[a]
  BY <1>1, <1>2, <1>4 DEF AttInv, Known
<1> USE DEF OvsTypeOK, Goto
<1>7. CASE DelDeleteVhostPort(a)
  <2>1. pc[a] = "dRmPort" /\ name' = name
    BY <1>7 DEF DelDeleteVhostPort, proc
  <2>2. name[a] = PortName(a) /\ conn[a]
    BY <1>1, <1>6, <2>1 DEF AttInv, Known, DelPc
  <2>3. ports[PortName(a)].owner = {a}
    BY <1>1, <1>2, <2>1, <2>2 DEF AttInv, PortThere, Has, Own
  <2>4. portRow[a] = {a}
    BY <1>1, <2>1, <2>3 DEF AttInv, LookedUp
  <2>5. ports[PortName(a)].bridge = DelBridge(a)
    BY <1>2, <2>3, OwnPort, SameBridge
  <2> QED
    BY <1>1, <1>4, <1>7, <2>2, <2>3, <2>4, <2>5 DEF DelDeleteVhostPort, Executed, Refused, NoAnswer,
      Fault
<1>8. CASE DelCleanDir(a)
  <2>1. pc[a] = "dDir" /\ name' = name
    BY <1>8 DEF DelCleanDir, proc
  <2>2. There(a)
    BY <1>1, <1>2, <1>4, <1>5, <2>1 DEF DirThere, Has
  <2>3. SharedDir(a) \in dirs /\ GetShortSharedDir(a) \in dirs
    BY <1>1, <2>2, ThereMeans
  <2>4. CASE IsShort(GetShortSharedDir(a)) /\ DelUnmount(a)
    <3>1. GetShortSharedDir(a) = <<"short", conf[a].pod>>
      BY <1>1, <2>4, DirFacts
    <3>2. conf[a].pod \in Att /\ mounts[conf[a].pod] \in Nat
      BY <1>1, ConfFacts
    <3>3. mounts[conf[a].pod] > 0 /\ ~(mounts[conf[a].pod] > 1)
      BY <1>1, <2>2, <2>4 DEF There, ShortOnce
    <3>4. mounts[conf[a].pod] = 1
      BY <3>2, <3>3
    <3>5. FilesIn(GetShortSharedDir(a)) = {}
      BY <1>1, <3>1 DEF ShortOnce
    <3>6. pc'[a] = "dEmpty" \/ Fault("dir")
      BY <1>1, <2>3, <2>4, <3>4, <3>5 DEF DelUnmount
    <3> QED
      BY <3>6 DEF Fault
  <2>5. CASE DelRemoveFiles(a)
    BY <1>1, <2>3, <2>5 DEF DelRemoveFiles, Fault
  <2> QED
    BY <1>8, <2>4, <2>5 DEF DelCleanDir
<1>9. CASE DelFindBridge(a)
  <2>1. pc[a] = "dFindBr" /\ name' = name
    BY <1>9 DEF DelFindBridge
  <2>2. bridges[DelBridge(a)] # 0
    BY <1>1, <1>5, <2>1, SameBridge DEF AttInv, BridgeThere, Has, DelPc
  <2> QED
    BY <1>1, <1>6, <1>9, <2>1, <2>2 DEF DelFindBridge, NoAnswer, Fault, DelPc
<1>10. CASE DelDeleteBridge(a)
  <2>1. pc[a] = "dRmBr"
    BY <1>10 DEF DelDeleteBridge
  <2>2. bridges[DelBridge(a)] = brRow[a]
    BY <1>1, <1>5, <2>1 DEF AttInv, BridgeThere
  <2> QED
    BY <1>1, <1>6, <1>10, <2>1, <2>2 DEF DelDeleteBridge, Executed, Refused, NoAnswer, Fault, DelPc
<1>11. CASE DelOpen(a)
  <2>1. saved[a].vhostname # NoName /\ conf[a].ifType # "vhostuser"
    BY <1>1, <1>11 DEF DelOpen, LoadConfig
  <2> QED
    BY <1>1, <2>1 DEF AttInv, Known
<1>12. CASE DelRest(a) \/ Killed(a)
  BY <1>1, <1>12 DEF DelRest, Killed, Fault
<1>13. CASE DelFindPort(a) \/ DelBridgeContainsInterfaces(a)
  BY <1>1, <1>13 DEF DelFindPort, DelBridgeContainsInterfaces
<1>14. CASE AddOpen(a) \/ AddFindBridge(a) \/ AddCreateBridge(a) \/ AddCreateVhostPort(a)
  BY <1>1, <1>14 DEF AddOpen, AddFindBridge, AddCreateBridge, AddDevice, AddCreateVhostPort,
    Executed, Refused
<1>15. CASE AddStatSharedDir(a) \/ AddMakeSharedDir(a) \/ AddMountSharedDir(a)
  BY <1>1, <1>15 DEF AddStatSharedDir, AddMakeSharedDir, AddMountSharedDir
<1>16. CASE AddMoveSocket(a) \/ AddGetVhostPortMac(a) \/ AddSaveConfig(a) \/ AddOnContainer(a)
              \/ AppListens(a)
  BY <1>1, <1>16 DEF AddMoveSocket, AddGetVhostPortMac, AddSaveConfig, AddOnContainer, AppListens
<1> QED
  BY <1>7, <1>8, <1>9, <1>10, <1>11, <1>12, <1>13, <1>14, <1>15, <1>16
    DEF Act, AddStep, DelStep, AddCreateSharedDir

-----------------------------------------------------------------------------
(* The invariant.                                                          *)

LEMMA DInitHolds ==
  ASSUME Init
  PROVE  DInv
<1>1. conf \in Confs /\ OInv
  BY InitHolds DEF Init
<1>2. BlindSeen
  BY DEF Init, BlindSeen
<1>3. ASSUME NEW c \in Att PROVE DirKinds(c) /\ ShortOnce(c) /\ ShortHeld(c) /\ AttDisk(c)
  <2>1. conf[c].pod \in Att
    BY <1>1, ConfFacts
  <2>2. /\ pc[c] = "none" /\ saved[c] = NoData /\ name[c] = NoName
        /\ mounts[conf[c].pod] = 0 /\ files = {}
    BY <2>1 DEF Init
  <2>3. /\ <<"volume", conf[c].pod>> \in dirs => conf[c].volume # "none"
        /\ <<"short", conf[c].pod>> \notin dirs /\ <<"default", conf[c].pod>> \notin dirs
    <3>1. ASSUME NEW e \in Att, conf[e].pod = conf[c].pod PROVE conf[e].volume = conf[c].volume
      BY <1>1, <3>1, SameVolume
    <3> QED
      BY <3>1 DEF Init
  <2>4. DirKinds(c) /\ ShortHeld(c)
    BY <2>3 DEF DirKinds, ShortHeld
  <2>5. ShortOnce(c)
    BY <2>2 DEF ShortOnce, FilesIn
  <2>6. AttDisk(c)
    BY <2>2, Nothing DEF AttDisk, DirThere, SocketThere, SocketGone, DelWorks, Has, AfterPort, AfterDir
  <2> QED
    BY <2>4, <2>5, <2>6
<1> QED
  BY <1>2, <1>3 DEF DInv

LEMMA DStutter ==
  ASSUME OInv, DInv, UNCHANGED vars
  PROVE  DInv'
<1>1. /\ UNCHANGED <<conf, dirs, mounts, files, saved, pc, blind, astray>>
      /\ UNCHANGED <<name, crossed, seen>>
  BY DEF vars, ovsdb, disk, proc, ghost, env
<1>2. \A c \in Att : /\ DirsAs(c) /\ PortName(c)' = PortName(c) /\ Misdirected(c)' = Misdirected(c)
                     /\ (Undisturbed(c)' <=> Undisturbed(c)) /\ (Strayed(c)' <=> Strayed(c))
                     /\ \A pcs : Has(c, pcs)' <=> Has(c, pcs)
  <2>1. \A c \in Att : PortName(c)' = PortName(c) /\ Misdirected(c)' = Misdirected(c)
    BY <1>1, ConfFixed
  <2>2. \A c \in Att : DirsAs(c)
    BY <1>1, SameDirs
  <2> QED
    BY <1>1, <2>1, <2>2 DEF Undisturbed, Strayed, Has, OInv, OvsTypeOK
<1>3. BlindSeen'
  BY <1>1 DEF DInv, BlindSeen
<1>4. ASSUME NEW c \in Att PROVE (DirKinds(c) /\ ShortOnce(c) /\ ShortHeld(c) /\ AttDisk(c))'
  <2>1. DirKinds(c) /\ ShortOnce(c) /\ ShortHeld(c) /\ AttDisk(c)
    BY DEF DInv
  <2>2. DirKinds(c)' /\ ShortOnce(c)' /\ ShortHeld(c)'
    BY <1>1, <1>2, <2>1 DEF DirKinds, ShortOnce, ShortHeld, Holds, FilesIn
  <2>3. DirThere(c)' /\ SocketThere(c)'
    BY <1>1, <1>2, <2>1 DEF AttDisk, DirThere, There, SocketThere, DirsAs
  <2>4. SocketGone(c)' /\ DelWorks(c)'
    BY <1>1, <1>2, <2>1 DEF AttDisk, SocketGone, GoneFrom, DelWorks
  <2> QED
    BY <2>2, <2>3, <2>4 DEF AttDisk
<1> QED
  BY <1>3, <1>4 DEF DInv

LEMMA DStep ==
  ASSUME OInv, DInv, NEW a \in Att, Act(a)
  PROVE  DInv'
<1>1. BlindSeen'
  BY BlindSeenKept
<1>2. ASSUME NEW c \in Att PROVE DirKinds(c)' /\ ShortOnce(c)' /\ ShortHeld(c)'
  BY DirKindsKept, ShortOnceKept, ShortHeldKept
<1>3. AttDisk(a)'
  BY OwnDirThere, OwnSocketThere, OwnSocketGone, OwnDelWorks DEF AttDisk
<1>4. ASSUME NEW c \in Att \ {a} PROVE AttDisk(c)'
  BY OthersDisk
<1> QED
  BY <1>1, <1>2, <1>3, <1>4 DEF DInv

LEMMA DInvHolds == Spec => []DInv
<1>1. Init => DInv
  BY DInitHolds
<1>2. OInv /\ DInv /\ [Next]_vars => DInv'
  BY DStep, DStutter DEF Next, Act
<1> QED
  BY <1>1, <1>2, OInvHolds, PTL DEF Spec

-----------------------------------------------------------------------------
(* What it gives.                                                          *)

\* An ADD that returned success stays wired: AddOnHost left its port on its
\* bridge, bound to its OVN port, with the saved data and, unless it took over a
\* short directory as it was, the socket in the volume of the pod.  The
\* invocations of other attachments take none of it.
THEOREM OvsWired == Spec => []OvsAddedIsWired
<1>1. OInv /\ DInv => OvsAddedIsWired
  <2> SUFFICES ASSUME OInv, DInv, NEW a \in Att, pc[a] = "added", Undisturbed(a)
               PROVE  /\ PortsOf(a) = {PortName(a)}
                      /\ ports[PortName(a)].bridge = AddBridge(a)
                      /\ ports[PortName(a)].ifaceId # "" <=>
                           "ovnPort" \in conf[a].env \union conf[a].cni
                      /\ bridges[AddBridge(a)] # 0
                      /\ saved[a].vhostname = PortName(a)
                      /\ a \notin astray =>
                           /\ {SharedDir(a), GetShortSharedDir(a)} \subseteq dirs
                           /\ Behind(GetShortSharedDir(a)) = SharedDir(a)
                           /\ ~conf[a].client /\ "late" \notin seen =>
                                <<SharedDir(a), PortName(a)>> \in files
    BY DEF OvsAddedIsWired
  <2>1. AttInv(a) /\ AttDisk(a) /\ OvsTypeOK /\ a \notin crossed /\ PortName(a) \in Name
    BY ConfFacts DEF OInv, DInv, OvsTypeOK, Undisturbed
  <2>2. ports[PortName(a)].owner = {a}
    BY <2>1 DEF AttInv, PortThere, AfterPort
  <2>3. /\ ports[PortName(a)].bridge = AddBridge(a) /\ bridges[AddBridge(a)] # 0
        /\ ports[PortName(a)].ifaceId = ResolveOvnArg(a, "ovnPort")
    BY <2>1, <2>2, OwnPort
  <2>4. PortsOf(a) = {PortName(a)}
    <3>1. ASSUME NEW n \in Name, a \in ports[n].owner PROVE n = PortName(a)
      <4>1. ports[n].owner = {a}
        BY <2>1, <3>1, RowFacts
      <4> QED
        BY <4>1, OwnPort
    <3> QED
      BY <2>1, <2>2, <3>1 DEF PortsOf
  <2>5. ports[PortName(a)].ifaceId # "" <=> "ovnPort" \in conf[a].env \union conf[a].cni
    BY <2>3, SameBridge
  <2>6. saved[a].vhostname = PortName(a)
    BY <2>1 DEF AttInv, Known
  <2>7. a \notin astray => There(a)
    BY <2>1 DEF AttDisk, DirThere, AfterPort
  <2>8. a \notin astray =>
          /\ {SharedDir(a), GetShortSharedDir(a)} \subseteq dirs
          /\ Behind(GetShortSharedDir(a)) = SharedDir(a)
    BY <2>1, <2>7, ThereMeans DEF OvsTypeOK
  <2>9. a \notin astray /\ ~conf[a].client /\ "late" \notin seen =>
          <<SharedDir(a), PortName(a)>> \in files
    BY <2>1 DEF AttDisk, SocketThere, AfterPort
  <2> QED
    BY <2>3, <2>4, <2>5, <2>6, <2>8, <2>9
<1> QED
  BY <1>1, OInvHolds, DInvHolds, PTL

\* A DEL that returned success left no saved data, no socket in a directory that
\* it cleans, no short directory that nobody else uses, and no port, but for the
\* faults and configurations that OvsDeletedIsGone names.
THEOREM OvsGone == Spec => []OvsDeletedIsGone
<1>1. OInv /\ DInv => OvsDeletedIsGone
  <2> SUFFICES ASSUME OInv, DInv, NEW a \in Att, pc[a] = "deleted"
               PROVE  /\ saved[a] = NoData
                      /\ GoneFrom(a, "volume") /\ GoneFrom(a, "default")
                      /\ \/ <<"short", conf[a].pod>> \notin dirs
                         \/ "nopod" \in seen
                         \/ \E c \in Att : conf[c].pod = conf[a].pod /\ InUse(c)
                      /\ \/ PortsOf(a) = {}
                         \/ seen \intersect {"down", "error", "timeout", "kill", "torn"} # {}
                         \/ Misdirected(a) \/ conf[a].netType # "bridge"
    BY DEF OvsDeletedIsGone, GoneFrom
  <2>1. AttInv(a) /\ AttDisk(a) /\ ShortHeld(a) /\ OvsTypeOK
    BY DEF OInv, DInv
  <2>2. saved[a] = NoData
    BY <2>1 DEF AttInv, Known
  <2>3. GoneFrom(a, "volume") /\ GoneFrom(a, "default")
    BY <2>1 DEF AttDisk, SocketGone, AfterDir
  <2>4. \/ <<"short", conf[a].pod>> \notin dirs
        \/ "nopod" \in seen
        \/ \E c \in Att : conf[c].pod = conf[a].pod /\ InUse(c)
    BY <2>1 DEF ShortHeld, Holds, InUse, AfterDir
  <2>5. ASSUME NEW n \in Name, a \in ports[n].owner PROVE ports[PortName(a)].owner = {a}
    <3>1. ports[n].owner = {a}
      BY <2>1, <2>5, RowFacts
    <3> QED
      BY <3>1, OwnPort
  <2>6. \/ PortsOf(a) = {}
        \/ seen \intersect {"down", "error", "timeout", "kill", "torn"} # {}
        \/ Misdirected(a) \/ conf[a].netType # "bridge"
    BY <2>1, <2>2, <2>5, Nothing DEF AttInv, PortKnown, PortsOf, Has
  <2> QED
    BY <2>2, <2>3, <2>4, <2>6
<1> QED
  BY <1>1, OInvHolds, DInvHolds, PTL

\* A DEL that knows its port fails only when something failed under it, it was
\* sent to the wrong bridge, another invocation removed what it needs, or the
\* short directory of the pod was not one mount.
THEOREM OvsDelWorks == Spec => []OvsDelSucceeds
<1>1. DInv => OvsDelSucceeds
  BY DEF DInv, AttDisk, DelWorks, OvsDelSucceeds
<1> QED
  BY <1>1, DInvHolds, PTL

=============================================================================
