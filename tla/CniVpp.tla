------------------------------- MODULE CniVpp -------------------------------
(***************************************************************************)
(* CNI ADD and CNI DEL with the VPP engine: CmdAdd and CmdDel of           *)
(* userspace/cni/cni.go with AddOnHost, AddOnContainer, DelFromHost and    *)
(* DelFromContainer of cnivpp/cnivpp.go, down to the single requests of    *)
(* cnivpp/api.                                                             *)
(*                                                                         *)
(* Every invocation of the plugin is a process of its own.  An attachment  *)
(* has at most one at a time (the runtime serialises the calls of a        *)
(* sandbox), but those of different attachments interleave request by      *)
(* request, and VPP may crash and come back between any two of them.       *)
(* DEL is retried until it succeeds.  ADD is not retried (a new sandbox is *)
(* a new container) but may come again after a DEL, as when a container    *)
(* is disconnected from a network and connected to it again.               *)
(***************************************************************************)
EXTENDS VppApi

CONSTANTS
  Conf,       \* NetConf of each attachment, as far as the control flow reads it
  Faults,     \* the kinds of fault the environment may inject
  MaxFaults   \* how many of them (a bound of the model)

ConfType == [ifType  : {"memif", "vhostuser", "other"},
             role    : {"master", "slave", "bad"},   \* vhostuser: server, client;
                                                     \* bad: the role or the mode
             netType : {"bridge", "interface", "other"},
             bridgeName : BdId \union {0},           \* 0: not given
             bridgeId   : BdId \union {0},
             mtu     : BOOLEAN,                      \* an MTU is configured
             volume  : BOOLEAN]                      \* the pod has a shared-dir volume

FaultKind == {"crash",    \* VPP dies
              "api",      \* VPP answers a request with an error
              "timeout",  \* VPP executes a request, its reply does not arrive
              "kill",     \* the plugin process is killed
              "torn",     \* SaveVppConfig stops half way through its write
              "nopod",    \* GetPod fails
              "remote",   \* the netns, IPAM or the annotation fails
              "redel",    \* DEL is called again after it succeeded
              "readd"}    \* ADD is called again after DEL succeeded

ASSUME CniVppAssumption ==
  /\ Conf \in [Att -> ConfType]
  /\ \A a \in Att : /\ Conf[a].ifType = "vhostuser" => Conf[a].role # "bad"
                    /\ Conf[a].netType = "bridge" =>
                         Conf[a].bridgeName # 0 \/ Conf[a].bridgeId # 0
  /\ Faults \subseteq FaultKind
  /\ MaxFaults \in Nat

Torn == -1   \* stands for a saved file that does not parse

VARIABLES
  vppUp,   \* VPP runs
  ifs,     \* its interfaces
  socks,   \* its memif sockets
  bds,     \* its bridge domains
  file,    \* the socket files on disk
  saved,   \* local-<container>-<ifName>.json: the index, 0 (no file) or Torn
  ipam,    \* the attachments holding an IPAM address
  pc,      \* where the invocation for an attachment stands, or how it ended
  pod,     \* GetPod succeeded in this invocation
  idx,     \* data.InterfaceSwIfIndex of this invocation
  sid,     \* data.MemifSocketId, or the socket id looked up by DEL
  fresh,   \* VPP has not crashed since this invocation connected to it
  budget,  \* faults that may still be injected
  seen     \* history: the kinds of those that were

vpp  == <<ifs, socks, bds>>
disk == <<file, saved, ipam>>
proc == <<pod, idx, sid, fresh>>
env  == <<budget, seen>>
vars == <<vppUp, vpp, disk, pc, proc, env>>

AddPc == {"aSock", "aMkSock", "aMemif", "aVhost", "aState", "aMtu", "aNet",
          "aFindBd", "aMkBd", "aJoin", "aSave", "aIpam", "aCont"}
DelPc == {"dSock", "dFind", "dUnbridge", "dFindBd", "dRmBd", "dDevice", "dDelete",
          "dCnt", "dRmSock", "dFile", "dFileErr", "dIpam", "dNetns"}
Rest  == {"none", "added", "addFailed", "deleted", "delFailed"}

TypeOK ==
  /\ vppUp \in BOOLEAN
  /\ ifs \in [SwIf -> Iface]
  /\ socks \in [SockId -> Path \union {NoPath}]
  /\ bds \subseteq BdId
  /\ file \subseteq Path
  /\ saved \in [Att -> SwIf \union {0, Torn}]
  /\ ipam \subseteq Att
  /\ pc \in [Att -> AddPc \union DelPc \union Rest]
  /\ pod \in [Att -> BOOLEAN]
  /\ idx \in [Att -> SwIf \union {0}]
  /\ sid \in [Att -> SockId \union {0}]
  /\ fresh \in [Att -> BOOLEAN]
  /\ budget \in 0..MaxFaults
  /\ seen \subseteq Faults

Init ==
  /\ vppUp = TRUE
  /\ ifs = [i \in SwIf |-> NoIf]
  /\ socks = [s \in SockId |-> NoPath]
  /\ bds = {}
  /\ file = {}
  /\ saved = [a \in Att |-> 0]
  /\ ipam = {}
  /\ pc = [a \in Att |-> "none"]
  /\ pod = [a \in Att |-> FALSE]
  /\ idx = [a \in Att |-> 0]
  /\ sid = [a \in Att |-> 0]
  /\ fresh = [a \in Att |-> FALSE]
  /\ budget = MaxFaults
  /\ seen = {}

-----------------------------------------------------------------------------
(* Control flow of one invocation.                                         *)

Goto(a, label) == pc' = [pc EXCEPT ![a] = label]

Failed(a) == IF pc[a] \in AddPc THEN "addFailed" ELSE "delFailed"

Fault(f) ==
  /\ f \in Faults
  /\ budget > 0
  /\ budget' = budget - 1
  /\ seen' = seen \union {f}

(***************************************************************************)
(* VPP executed the request: its reply arrives and the invocation goes on  *)
(* at ok, or replyTimeout expires first and it goes on at err.             *)
(***************************************************************************)
Replied(a, ok, err) ==
  /\ fresh[a]
  /\ \/ Goto(a, ok) /\ UNCHANGED env
     \/ Goto(a, err) /\ Fault("timeout")

(***************************************************************************)
(* The request had no effect: the connection is gone with the VPP it was   *)
(* made to, VPP cannot do what it asks, or VPP fails it.                   *)
(***************************************************************************)
Refused(a, can, err) ==
  /\ Goto(a, err)
  /\ \/ (~fresh[a] \/ ~can) /\ UNCHANGED env
     \/ fresh[a] /\ Fault("api")

\* getMemifSocketfileName and getVhostSocketfileName under GetPodAndSharedDir.
SocketPath(a) == <<a, IF pod[a] /\ Conf[a].volume THEN "pod" ELSE "default">>

\* GetPod: an error is only logged, and the default directory is used.
GetPod(a) ==
  \/ pod' = [pod EXCEPT ![a] = TRUE] /\ UNCHANGED env
  \/ pod' = [pod EXCEPT ![a] = FALSE] /\ Fault("nopod")

-----------------------------------------------------------------------------
(* ADD: the device.                                                        *)

AddDevice(a) ==
  CASE Conf[a].ifType = "memif" /\ Conf[a].role # "bad" -> "aSock"
    [] Conf[a].ifType = "vhostuser" -> "aVhost"
    [] OTHER -> "addFailed"

AddOpen(a) ==
  /\ \/ pc[a] = "none" /\ GetPod(a)
     \/ pc[a] = "deleted" /\ Fault("readd") /\ pod' = [pod EXCEPT ![a] = TRUE]
  /\ Goto(a, IF vppUp THEN AddDevice(a) ELSE "addFailed")
  /\ fresh' = [fresh EXCEPT ![a] = vppUp]
  /\ UNCHANGED <<vppUp, vpp, disk, idx, sid>>

\* ns.GetNS fails, before anything is done.
AddNoNetns(a) ==
  /\ pc[a] = "none"
  /\ Goto(a, "addFailed")
  /\ Fault("remote")
  /\ UNCHANGED <<vppUp, vpp, disk, proc>>

AddFindMemifSocket(a) ==
  /\ pc[a] = "aSock"
  /\ fresh[a]
  /\ \/ \E s \in SocketsOf(socks, SocketPath(a)) :
          sid' = [sid EXCEPT ![a] = s] /\ Goto(a, "aMemif")
     \/ /\ SocketsOf(socks, SocketPath(a)) = {}
        /\ \E s \in LowestUnused(socks) :
             sid' = [sid EXCEPT ![a] = s] /\ Goto(a, "aMkSock")
  /\ UNCHANGED <<vppUp, vpp, disk, pod, idx, fresh, env>>

\* Mutant: a registration that timed out is tried again under another id.
AddCreateMemifSocketAgain(a) ==
  /\ pc[a] = "aMkSock"
  /\ CanAddSocket(socks, sid[a], SocketPath(a))
  /\ Replied(a, "aMemif", "aMkSock")
  /\ socks' = [socks EXCEPT ![sid[a]] = SocketPath(a)]
  /\ IF pc' = pc THEN \E s \in LowestUnused(socks') : sid' = [sid EXCEPT ![a] = s]
                 ELSE UNCHANGED sid
  /\ UNCHANGED <<vppUp, ifs, bds, disk, pod, idx, fresh>>

AddCreateMemifSocket(a) ==
  /\ pc[a] = "aMkSock"
  /\ LET can == CanAddSocket(socks, sid[a], SocketPath(a)) IN
     \/ /\ can
        /\ Replied(a, "aMemif", "addFailed")
        /\ socks' = [socks EXCEPT ![sid[a]] = SocketPath(a)]
     \/ Refused(a, can, "addFailed") /\ UNCHANGED socks
  /\ UNCHANGED <<vppUp, ifs, bds, disk, proc>>

\* A master listens: VPP creates the socket file.
AddCreateMemifInterface(a) ==
  /\ pc[a] = "aMemif"
  /\ LET can  == CanCreateMemif(ifs, socks, sid[a])
         path == socks[sid[a]] IN
     \/ /\ can
        /\ Replied(a, "aState", "addFailed")
        /\ \E i \in FreeIndex(ifs) :
             /\ ifs' = [ifs EXCEPT ![i] = NewIf("memif", path, sid[a])]
             /\ idx' = [idx EXCEPT ![a] = i]
        /\ file' = IF Conf[a].role = "master" THEN file \union {path} ELSE file
     \/ Refused(a, can, "addFailed") /\ UNCHANGED <<ifs, idx, file>>
  /\ UNCHANGED <<vppUp, socks, bds, saved, ipam, pod, sid, fresh>>

\* Mutant: server and client are swapped.
AddCreateVhostUserInterfaceSwapped(a) ==
  /\ pc[a] = "aVhost"
  /\ CanCreateVhost(ifs, SocketPath(a))
  /\ Replied(a, "aState", "addFailed")
  /\ \E i \in FreeIndex(ifs) :
       /\ ifs' = [ifs EXCEPT ![i] = NewIf("vhostuser", SocketPath(a), 0)]
       /\ idx' = [idx EXCEPT ![a] = i]
  /\ file' = IF Conf[a].role = "slave" THEN file \union {SocketPath(a)} ELSE file
  /\ UNCHANGED <<vppUp, socks, bds, saved, ipam, pod, sid, fresh>>

AddCreateVhostUserInterface(a) ==
  /\ pc[a] = "aVhost"
  /\ LET path == SocketPath(a)
         can  == CanCreateVhost(ifs, path) IN
     \/ /\ can
        /\ Replied(a, "aState", "addFailed")
        /\ \E i \in FreeIndex(ifs) :
             /\ ifs' = [ifs EXCEPT ![i] = NewIf("vhostuser", path, 0)]
             /\ idx' = [idx EXCEPT ![a] = i]
        /\ file' = IF Conf[a].role = "master" THEN file \union {path} ELSE file
     \/ Refused(a, can, "addFailed") /\ UNCHANGED <<ifs, idx, file>>
  /\ UNCHANGED <<vppUp, socks, bds, saved, ipam, pod, sid, fresh>>

\* Mutant: the error is dropped.
AddSetStateUnchecked(a) ==
  /\ pc[a] = "aState"
  /\ LET next == IF Conf[a].mtu THEN "aMtu" ELSE "aNet"
         can  == IsIndex(ifs, idx[a]) IN
     \/ can /\ Replied(a, next, next) /\ ifs' = [ifs EXCEPT ![idx[a]].up = TRUE]
     \/ Refused(a, can, next) /\ UNCHANGED ifs
  /\ UNCHANGED <<vppUp, socks, bds, disk, proc>>

AddSetState(a) ==
  /\ pc[a] = "aState"
  /\ LET can == IsIndex(ifs, idx[a]) IN
     \/ /\ can
        /\ Replied(a, IF Conf[a].mtu THEN "aMtu" ELSE "aNet", "addFailed")
        /\ ifs' = [ifs EXCEPT ![idx[a]].up = TRUE]
     \/ Refused(a, can, "addFailed") /\ UNCHANGED ifs
  /\ UNCHANGED <<vppUp, socks, bds, disk, proc>>

AddSetMtu(a) ==
  /\ pc[a] = "aMtu"
  /\ LET can == IsIndex(ifs, idx[a]) IN
     \/ /\ can
        /\ Replied(a, "aNet", "addFailed")
        /\ ifs' = [ifs EXCEPT ![idx[a]].mtu = TRUE]
     \/ Refused(a, can, "addFailed") /\ UNCHANGED ifs
  /\ UNCHANGED <<vppUp, socks, bds, disk, proc>>

-----------------------------------------------------------------------------
(* ADD: the network, the saved data and the container side.                *)

\* The result AddOnHost is given holds no address yet: "interface" does nothing.
AddNetwork(a) ==
  /\ pc[a] = "aNet"
  /\ Goto(a, CASE Conf[a].netType = "bridge" -> "aFindBd"
               [] Conf[a].netType = "interface" -> "aSave"
               [] OTHER -> "addFailed")
  /\ UNCHANGED <<vppUp, vpp, disk, proc, env>>

\* Mutant: bridgeId is not looked at.
AddBridgeDomainByName(a) == Conf[a].bridgeName

\* bridgeName, when given, takes precedence over the deprecated bridgeId.
AddBridgeDomain(a) ==
  IF Conf[a].bridgeName # 0 THEN Conf[a].bridgeName ELSE Conf[a].bridgeId

\* findBridge takes any error of the dump for "does not exist".
AddFindBridge(a) ==
  /\ pc[a] = "aFindBd"
  /\ \/ /\ fresh[a] /\ AddBridgeDomain(a) \in bds
        /\ Replied(a, "aJoin", "aMkBd")
     \/ /\ ~(fresh[a] /\ AddBridgeDomain(a) \in bds)
        /\ Goto(a, "aMkBd") /\ UNCHANGED env
  /\ UNCHANGED <<vppUp, vpp, disk, proc>>

AddCreateBridge(a) ==
  /\ pc[a] = "aMkBd"
  /\ LET can == AddBridgeDomain(a) \notin bds IN
     \/ /\ can
        /\ Replied(a, "aJoin", "addFailed")
        /\ bds' = bds \union {AddBridgeDomain(a)}
     \/ Refused(a, can, "addFailed") /\ UNCHANGED bds
  /\ UNCHANGED <<vppUp, ifs, socks, disk, proc>>

\* Mutant: the error is dropped.
AddBridgeInterfaceUnchecked(a) ==
  /\ pc[a] = "aJoin"
  /\ LET can == IsIndex(ifs, idx[a]) IN
     \/ /\ can
        /\ Replied(a, "aSave", "aSave")
        /\ bds' = bds \union {AddBridgeDomain(a)}
        /\ ifs' = [ifs EXCEPT ![idx[a]].bd = AddBridgeDomain(a)]
     \/ Refused(a, can, "aSave") /\ UNCHANGED <<bds, ifs>>
  /\ UNCHANGED <<vppUp, socks, disk, proc>>

\* VPP creates a bridge domain that was deleted in between.
AddBridgeInterface(a) ==
  /\ pc[a] = "aJoin"
  /\ LET can == IsIndex(ifs, idx[a]) IN
     \/ /\ can
        /\ Replied(a, "aSave", "addFailed")
        /\ bds' = bds \union {AddBridgeDomain(a)}
        /\ ifs' = [ifs EXCEPT ![idx[a]].bd = AddBridgeDomain(a)]
     \/ Refused(a, can, "addFailed") /\ UNCHANGED <<bds, ifs>>
  /\ UNCHANGED <<vppUp, socks, disk, proc>>

\* The write is not atomic: it may fail before, or after it has begun.
AddSaveVppConfig(a) ==
  /\ pc[a] = "aSave"
  /\ \/ /\ saved' = [saved EXCEPT ![a] = idx[a]]
        /\ Goto(a, "aIpam") /\ UNCHANGED env
     \/ /\ saved' \in {saved, [saved EXCEPT ![a] = Torn]}
        /\ Goto(a, "addFailed") /\ Fault("torn")
  /\ UNCHANGED <<vppUp, vpp, file, ipam, proc>>

\* ExecAdd fails, or what it returns is of no use and the address stays taken.
AddIpam(a) ==
  /\ pc[a] = "aIpam"
  /\ \/ ipam' = ipam \union {a} /\ Goto(a, "aCont") /\ UNCHANGED env
     \/ /\ ipam' \in {ipam, ipam \union {a}}
        /\ Goto(a, "addFailed") /\ Fault("remote")
  /\ UNCHANGED <<vppUp, vpp, file, saved, proc>>

\* SaveRemoteConfig needs the pod; nothing done before is rolled back.
AddOnContainer(a) ==
  /\ pc[a] = "aCont"
  /\ \/ pod[a] /\ Goto(a, "added") /\ UNCHANGED env
     \/ ~pod[a] /\ Goto(a, "addFailed") /\ UNCHANGED env
     \/ pod[a] /\ Goto(a, "addFailed") /\ Fault("remote")
  /\ UNCHANGED <<vppUp, vpp, disk, proc>>

-----------------------------------------------------------------------------
(* DEL: from the saved data to the interface.                              *)

DelNetwork(a) == IF Conf[a].netType = "bridge" THEN "dUnbridge" ELSE "dDevice"

\* Mutant: the saved file stays.
LoadVppConfigKeeps(a) ==
  /\ idx' = [idx EXCEPT ![a] = saved[a]]
  /\ UNCHANGED saved

\* A file that could be read is removed; without a file the index is 0.
LoadVppConfig(a) ==
  /\ idx' = [idx EXCEPT ![a] = saved[a]]
  /\ saved' = [saved EXCEPT ![a] = 0]

\* VppOpenCh, then LoadVppConfig, which fails on a file that does not parse.
DelOpen(a) ==
  /\ \/ pc[a] \in {"added", "addFailed", "delFailed"} /\ GetPod(a)
     \/ pc[a] = "deleted" /\ Fault("redel") /\ pod' = [pod EXCEPT ![a] = TRUE]
  /\ fresh' = [fresh EXCEPT ![a] = vppUp]
  /\ \/ /\ ~vppUp \/ saved[a] = Torn
        /\ Goto(a, "delFailed")
        /\ UNCHANGED <<saved, idx>>
     \/ /\ vppUp /\ saved[a] # Torn
        /\ LoadVppConfig(a)
        /\ Goto(a, IF Conf[a].ifType = "memif" THEN "dSock" ELSE DelNetwork(a))
  /\ UNCHANGED <<vppUp, vpp, file, ipam, sid>>

\* Mutant: DEL goes by the index saved at ADD.
DelFindMemifSocketSaved(a) ==
  /\ pc[a] = "dSock"
  /\ fresh[a]
  /\ Goto(a, DelNetwork(a))
  /\ UNCHANGED <<vppUp, vpp, disk, proc, env>>

\* Mutant: a socket that is gone is an error.
DelFindMemifSocketStrict(a) ==
  /\ pc[a] = "dSock"
  /\ fresh[a]
  /\ \/ \E s \in SocketsOf(socks, SocketPath(a)) :
          sid' = [sid EXCEPT ![a] = s] /\ Goto(a, "dFind")
     \/ /\ SocketsOf(socks, SocketPath(a)) = {}
        /\ Goto(a, "dFileErr") /\ UNCHANGED sid
  /\ UNCHANGED <<vppUp, vpp, disk, pod, idx, fresh, env>>

\* FindMemifBySocket, first dump.  No socket: the memif is gone.
DelFindMemifSocket(a) ==
  /\ pc[a] = "dSock"
  /\ fresh[a]
  /\ \/ \E s \in SocketsOf(socks, SocketPath(a)) :
          sid' = [sid EXCEPT ![a] = s] /\ Goto(a, "dFind")
     \/ /\ SocketsOf(socks, SocketPath(a)) = {}
        /\ Goto(a, "dFile") /\ UNCHANGED sid
  /\ UNCHANGED <<vppUp, vpp, disk, pod, idx, fresh, env>>

\* FindMemifBySocket, second dump: the current index replaces the saved one.
DelFindMemifBySocket(a) ==
  /\ pc[a] = "dFind"
  /\ fresh[a]
  /\ \/ \E i \in MemifsOn(ifs, sid[a]) :
          idx' = [idx EXCEPT ![a] = i] /\ Goto(a, DelNetwork(a))
     \/ /\ MemifsOn(ifs, sid[a]) = {}
        /\ Goto(a, "dFile") /\ UNCHANGED idx
  /\ UNCHANGED <<vppUp, vpp, disk, pod, sid, fresh, env>>

\* Errors are not fatal.  VPP takes an interface out of whatever bridge it is in.
DelRemoveBridgeInterface(a) ==
  /\ pc[a] = "dUnbridge"
  /\ LET can == IsIndex(ifs, idx[a]) IN
     \/ /\ can
        /\ Replied(a, "dFindBd", "dDevice")
        /\ ifs' = IF idx[a] = 0 THEN ifs ELSE [ifs EXCEPT ![idx[a]].bd = 0]
     \/ Refused(a, can, "dDevice") /\ UNCHANGED ifs
  /\ UNCHANGED <<vppUp, socks, bds, disk, proc>>

DelBridgeDomain(a) == Conf[a].bridgeId

DelFindBridge(a) ==
  /\ pc[a] = "dFindBd"
  /\ LET empty == fresh[a] /\ CanDelBridge(ifs, bds, DelBridgeDomain(a)) IN
     \/ empty /\ Replied(a, "dRmBd", "dDevice")
     \/ ~empty /\ Goto(a, "dDevice") /\ UNCHANGED env
  /\ UNCHANGED <<vppUp, vpp, disk, proc>>

DelDeleteBridge(a) ==
  /\ pc[a] = "dRmBd"
  /\ LET can == CanDelBridge(ifs, bds, DelBridgeDomain(a)) IN
     \/ /\ can
        /\ Replied(a, "dDevice", "dDevice")
        /\ bds' = bds \ {DelBridgeDomain(a)}
     \/ Refused(a, can, "dDevice") /\ UNCHANGED bds
  /\ UNCHANGED <<vppUp, ifs, socks, disk, proc>>

-----------------------------------------------------------------------------
(* DEL: the device, its socket and its files.                              *)

\* delLocalDeviceMemif: an absent memif is nothing to delete.
DelFindMemifInterface(a) ==
  /\ pc[a] = "dDevice"
  /\ Conf[a].ifType = "memif"
  /\ fresh[a]
  /\ LET found == IsKind(ifs, idx[a], "memif") IN
     /\ sid' = IF found THEN [sid EXCEPT ![a] = ifs[idx[a]].sid] ELSE sid
     /\ Goto(a, IF found THEN "dDelete" ELSE "dFile")
  /\ UNCHANGED <<vppUp, vpp, disk, pod, idx, fresh, env>>

\* Mutant: the error is dropped.
DelDeleteMemifInterfaceUnchecked(a) ==
  /\ pc[a] = "dDelete"
  /\ LET can == IsKind(ifs, idx[a], "memif") IN
     \/ can /\ Replied(a, "dCnt", "dCnt") /\ ifs' = [ifs EXCEPT ![idx[a]] = NoIf]
     \/ Refused(a, can, "dCnt") /\ UNCHANGED ifs
  /\ UNCHANGED <<vppUp, socks, bds, disk, proc>>

DelDeleteMemifInterface(a) ==
  /\ pc[a] = "dDelete"
  /\ LET can == IsKind(ifs, idx[a], "memif") IN
     \/ /\ can
        /\ Replied(a, "dCnt", "dFileErr")
        /\ ifs' = [ifs EXCEPT ![idx[a]] = NoIf]
     \/ Refused(a, can, "dFileErr") /\ UNCHANGED ifs
  /\ UNCHANGED <<vppUp, socks, bds, disk, proc>>

\* Mutant: the interface just deleted is counted.
DelFindMemifSocketCntOffByOne(a) ==
  /\ pc[a] = "dCnt"
  /\ fresh[a]
  /\ Goto(a, IF Cardinality(MemifsOn(ifs, sid[a])) = 1 THEN "dRmSock" ELSE "dFile")
  /\ UNCHANGED <<vppUp, vpp, disk, proc, env>>

DelFindMemifSocketCnt(a) ==
  /\ pc[a] = "dCnt"
  /\ fresh[a]
  /\ Goto(a, IF MemifsOn(ifs, sid[a]) = {} THEN "dRmSock" ELSE "dFile")
  /\ UNCHANGED <<vppUp, vpp, disk, proc, env>>

DelDeleteMemifSocket(a) ==
  /\ pc[a] = "dRmSock"
  /\ LET can == CanDelSocket(ifs, socks, sid[a]) IN
     \/ /\ can
        /\ Replied(a, "dFile", "dFileErr")
        /\ socks' = [socks EXCEPT ![sid[a]] = NoPath]
     \/ Refused(a, can, "dFileErr") /\ UNCHANGED socks
  /\ UNCHANGED <<vppUp, ifs, bds, disk, proc>>

\* Mutant: the error is dropped.
DelDeleteVhostUserInterfaceUnchecked(a) ==
  /\ pc[a] = "dDevice"
  /\ Conf[a].ifType = "vhostuser"
  /\ LET can == IsKind(ifs, idx[a], "vhostuser") IN
     \/ can /\ Replied(a, "dFile", "dFile") /\ ifs' = [ifs EXCEPT ![idx[a]] = NoIf]
     \/ Refused(a, can, "dFile") /\ UNCHANGED ifs
  /\ UNCHANGED <<vppUp, socks, bds, disk, proc>>

\* delLocalDeviceVhostUser deletes by the index saved at ADD; an error returns
\* before the clean-up of the socket file.
DelDeleteVhostUserInterface(a) ==
  /\ pc[a] = "dDevice"
  /\ Conf[a].ifType = "vhostuser"
  /\ LET can == IsKind(ifs, idx[a], "vhostuser") IN
     \/ /\ can
        /\ Replied(a, "dFile", "delFailed")
        /\ ifs' = [ifs EXCEPT ![idx[a]] = NoIf]
     \/ Refused(a, can, "delFailed") /\ UNCHANGED ifs
  /\ UNCHANGED <<vppUp, socks, bds, disk, proc>>

\* An unknown interface type is noticed last.
DelUnknownDevice(a) ==
  /\ pc[a] = "dDevice"
  /\ Conf[a].ifType = "other"
  /\ Goto(a, "delFailed")
  /\ UNCHANGED <<vppUp, vpp, disk, proc, env>>

\* For memif deferred, so that it also runs when the deletion failed.  DelFromContainer
\* also removes a directory that is empty by now; CreateMemifSocket makes a missing one.
DelFileCleanup(a) ==
  /\ pc[a] \in {"dFile", "dFileErr"}
  /\ file' = file \ {SocketPath(a)}
  /\ Goto(a, IF pc[a] = "dFile" THEN "dIpam" ELSE "delFailed")
  /\ UNCHANGED <<vppUp, vpp, saved, ipam, proc, env>>

DelIpam(a) ==
  /\ pc[a] = "dIpam"
  /\ \/ ipam' = ipam \ {a} /\ Goto(a, "dNetns") /\ UNCHANGED env
     \/ UNCHANGED ipam /\ Goto(a, "delFailed") /\ Fault("remote")
  /\ UNCHANGED <<vppUp, vpp, file, saved, proc>>

DelNetns(a) ==
  /\ pc[a] = "dNetns"
  /\ \/ Goto(a, "deleted") /\ UNCHANGED env
     \/ Goto(a, "delFailed") /\ Fault("remote")
  /\ UNCHANGED <<vppUp, vpp, disk, proc>>

-----------------------------------------------------------------------------
(* The environment.                                                        *)

\* The labels whose code loops over a dump until its last reply.
DumpPc == {"aSock", "dSock", "dFind", "dCnt"}

\* A dump over a dead connection never ends; the runtime gives up on the plugin.
HungKilled(a) ==
  /\ ~fresh[a]
  /\ pc[a] \in DumpPc \/ (pc[a] = "dDevice" /\ Conf[a].ifType = "memif")
  /\ Goto(a, Failed(a))
  /\ UNCHANGED <<vppUp, vpp, disk, proc, env>>

Killed(a) ==
  /\ pc[a] \in AddPc \union DelPc
  /\ Goto(a, Failed(a))
  /\ Fault("kill")
  /\ UNCHANGED <<vppUp, vpp, disk, proc>>

\* Nothing VPP holds survives it; the files do.
VppCrash ==
  /\ vppUp /\ Fault("crash")
  /\ vppUp' = FALSE
  /\ ifs' = [i \in SwIf |-> NoIf]
  /\ socks' = [s \in SockId |-> NoPath]
  /\ bds' = {}
  /\ fresh' = [a \in Att |-> FALSE]
  /\ UNCHANGED <<disk, pc, pod, idx, sid>>

VppStart ==
  /\ ~vppUp
  /\ vppUp' = TRUE
  /\ UNCHANGED <<vpp, disk, pc, proc, env>>

AddStep(a) ==
  \/ AddFindMemifSocket(a) \/ AddCreateMemifSocket(a)
  \/ AddCreateMemifInterface(a) \/ AddCreateVhostUserInterface(a)
  \/ AddSetState(a) \/ AddSetMtu(a) \/ AddNetwork(a)
  \/ AddFindBridge(a) \/ AddCreateBridge(a) \/ AddBridgeInterface(a)
  \/ AddSaveVppConfig(a) \/ AddIpam(a) \/ AddOnContainer(a)

DelStep(a) ==
  \/ DelFindMemifSocket(a) \/ DelFindMemifBySocket(a)
  \/ DelRemoveBridgeInterface(a) \/ DelFindBridge(a) \/ DelDeleteBridge(a)
  \/ DelFindMemifInterface(a) \/ DelDeleteMemifInterface(a)
  \/ DelFindMemifSocketCnt(a) \/ DelDeleteMemifSocket(a)
  \/ DelDeleteVhostUserInterface(a) \/ DelUnknownDevice(a)
  \/ DelFileCleanup(a) \/ DelIpam(a) \/ DelNetns(a)

Next ==
  \/ \E a \in Att : AddOpen(a) \/ AddNoNetns(a) \/ AddStep(a)
  \/ \E a \in Att : DelOpen(a) \/ DelStep(a)
  \/ \E a \in Att : HungKilled(a) \/ Killed(a)
  \/ VppCrash \/ VppStart

Spec == Init /\ [][Next]_vars

(***************************************************************************)
(* Fairness: a running invocation takes its next step, one that hangs is   *)
(* killed by the runtime, VPP is restarted by its supervisor, and the      *)
(* runtime calls DEL after a failed ADD and again after a failed DEL.      *)
(***************************************************************************)
Retry(a) == pc[a] \in {"addFailed", "delFailed"} /\ DelOpen(a)

Fairness ==
  /\ \A a \in Att : WF_vars(AddStep(a) \/ DelStep(a) \/ HungKilled(a))
  /\ \A a \in Att : WF_vars(Retry(a))
  /\ WF_vars(VppStart)

FairSpec == Spec /\ Fairness

-----------------------------------------------------------------------------
(* CniVpp implements MemifLifecycle.                                       *)

Own(a) == {a} \X {"pod", "default"}

InterfacesOf(a) == {i \in SwIf : ifs[i].path \in Own(a)}

Wired(a, i) ==
  /\ ifs[i].up
  /\ Conf[a].mtu => ifs[i].mtu
  /\ Conf[a].netType = "bridge" => ifs[i].bd = AddBridgeDomain(a)

StageOf(label) ==
  CASE label \in {"aSock", "aMkSock", "aMemif", "aVhost"} -> "adding"
    [] label \in {"aState", "aMtu", "aNet", "aFindBd", "aMkBd", "aJoin"} -> "created"
    [] label \in {"aSave", "aIpam", "aCont"} -> "configured"
    [] label \in {"dSock", "dFind", "dUnbridge", "dFindBd", "dRmBd", "dDevice",
                  "dDelete", "dCnt", "dRmSock", "dFileErr"} -> "deleting"
    [] label = "dFile" -> "removed"
    [] label \in {"dIpam", "dNetns"} -> "cleaned"
    [] OTHER -> label

MemOf(a) ==
  CASE InterfacesOf(a) = {} -> "absent"
    [] \E i \in InterfacesOf(a) : Wired(a, i) -> "wired"
    [] OTHER -> "bare"

Lifecycle == INSTANCE MemifLifecycle WITH
  Listen <- {a \in Att : Conf[a].role = "master"},
  st     <- [a \in Att |-> StageOf(pc[a])],
  mem    <- [a \in Att |-> MemOf(a)],
  file   <- {a \in Att : file \intersect Own(a) # {}},
  blind  <- "nopod" \in seen

(***************************************************************************)
(* Every step of the memif invocations is a step of the lifecycle of one   *)
(* attachment, or changes nothing of it.                                   *)
(***************************************************************************)
ImplementsLifecycle == Lifecycle!LifeSpec

-----------------------------------------------------------------------------
(* Properties.                                                             *)

(***************************************************************************)
(* Whatever the interleaving, the crashes and the reuse of indexes, a step *)
(* of a memif invocation changes no interface that is on another           *)
(* attachment's socket: DelFromHost resolves the current index from the    *)
(* socket, since the saved one "could touch the wrong interface".          *)
(***************************************************************************)
MemifTouchesOwn ==
  [][\A a \in Att : Conf[a].ifType = "memif" /\ pc'[a] # pc[a] =>
       \A i \in SwIf : ifs'[i] # ifs[i] =>
         /\ ifs[i].path \in Own(a) \union {NoPath}
         /\ ifs'[i].path \in Own(a) \union {NoPath}]_vars

(***************************************************************************)
(* The same for every kind of interface.  It holds as long as no index     *)
(* saved at ADD outlives the VPP that gave it out.                         *)
(***************************************************************************)
TouchesOwn ==
  [][\A a \in Att : pc'[a] # pc[a] =>
       \A i \in SwIf : ifs'[i] # ifs[i] =>
         /\ ifs[i].path \in Own(a) \union {NoPath}
         /\ ifs'[i].path \in Own(a) \union {NoPath}]_vars

(***************************************************************************)
(* As long as VPP lives, an ADD that returned success left the interface   *)
(* its NetConf asks for: there, up, with its MTU, in its bridge, listening *)
(* if it is to listen, and its index saved for DEL.  No ADD or DEL of      *)
(* another attachment takes any of it away.                                *)
(***************************************************************************)
AddedIsWired ==
  \A a \in Att : pc[a] = "added" /\ fresh[a] =>
    \E i \in InterfacesOf(a) :
      /\ saved[a] = i
      /\ ifs[i].kind = Conf[a].ifType
      /\ Wired(a, i)
      /\ ifs[i].bd # 0 => ifs[i].bd \in bds
      /\ Conf[a].role = "master" => ifs[i].path \in file

(***************************************************************************)
(* After a DEL that returned success nothing is left of the attachment: no *)
(* interface in VPP, no socket file ("CNI DELETE must still leave the      *)
(* shared dir clean"), no saved data and no address.  The exception is a   *)
(* GetPod that failed: that invocation worked on another directory.        *)
(***************************************************************************)
DeletedIsGone ==
  \A a \in Att : pc[a] = "deleted" =>
    /\ saved[a] = 0
    /\ a \notin ipam
    /\ "nopod" \notin seen => InterfacesOf(a) = {} /\ file \intersect Own(a) = {}

(***************************************************************************)
(* When no attachment is left, neither is a bridge domain or a memif       *)
(* socket: the last DEL deletes them (RemoveBridgeInterface "will delete   *)
(* Bridge if no more interfaces are associated with the Bridge"),          *)
(* whichever invocations interleave and whenever VPP restarts.  It takes   *)
(* an invocation cut short or a request VPP failed to leave one behind,    *)
(* because the next DEL no longer finds the interface to start from.       *)
(***************************************************************************)
LastDelReclaims ==
  /\ \A a \in Att : pc[a] \in {"none", "deleted"}
  /\ seen \subseteq {"crash", "remote", "redel", "readd", "torn"}
  => bds = {} /\ \A s \in SockId : socks[s] = NoPath

(***************************************************************************)
(* A memif interface is always on a socket that is registered for the file *)
(* the interface was created on, and no file is registered under two ids,  *)
(* although findMemifSocket picks an id from a dump, CreateMemifSocket     *)
(* registers it later, and DeleteMemifInterface deletes the socket on the  *)
(* word of an earlier count.                                               *)
(***************************************************************************)
SocketsConsistent ==
  /\ \A i \in SwIf : ifs[i].kind = "memif" => socks[ifs[i].sid] = ifs[i].path
  /\ \A s, t \in SockId : socks[s] = socks[t] /\ socks[s] # NoPath => s = t

(***************************************************************************)
(* DEL is retried to success: after a failed ADD or DEL, and for a DEL     *)
(* under way, the attachment is eventually deleted.                        *)
(***************************************************************************)
DelConverges ==
  \A a \in Att :
    pc[a] \in DelPc \union {"addFailed", "delFailed"} ~> pc[a] = "deleted"
=============================================================================
