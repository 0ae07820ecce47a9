------------------------------ MODULE OvsNode ------------------------------
(***************************************************************************)
(* CNI ADD and CNI DEL with the OVS-DPDK engine: AddOnHost and DelFromHost *)
(* of cniovs/cniovs.go down to the single OVSDB requests of                *)
(* cniovs/ovsdb.go, the shared directory and the saved data.               *)
(*                                                                         *)
(* Every invocation of the plugin is a process of its own with a           *)
(* connection of its own to ovsdb-server.  Each request is a transaction,  *)
(* and those of different attachments interleave.  The network             *)
(* configuration is chosen at the start and stays as it is.                *)
(***************************************************************************)
EXTENDS Naturals, FiniteSets

CONSTANTS
  Att,        \* attachments: a container and one of its interfaces
  Confs,      \* the configurations [Att -> ConfType] that may be chosen
  Uuid,       \* the row ids ovsdb-server gives to bridges
  Faults,     \* the kinds of fault the environment may inject
  MaxFaults   \* how many of them (a bound of the model)

Bridge == {"br0", "br1", "br-int"}

ConfType == [ifType  : {"vhostuser", "other"},
             client  : BOOLEAN,                    \* VhostConf.Mode is "client"
             netType : {"bridge", "interface"},    \* "" is taken for "bridge",
                                                   \* anything else is an error
             bridge  : Bridge \union {""},         \* BridgeConf.BridgeName
             env     : SUBSET {"ovnPort", "mac"},  \* given in CNI_ARGS
             cni     : SUBSET {"ovnPort", "mac"},  \* given in args.cni of the NetConf
             mac     : BOOLEAN,                    \* HostConf.MAC is given
             sock    : {"", "socket"},             \* VhostConf.Socketfile
             pod     : Att,                        \* whose container and volume it uses
             volume  : {"none", "plain", "long"}]  \* the pod's shared-dir volume, if any;
                                                   \* an emptyDir's path may be too long

FaultKind == {"down",     \* an invocation cannot connect to ovsdb-server
              "error",    \* a request fails and has no effect
              "timeout",  \* a transaction is executed, its reply does not arrive
              "kill",     \* the plugin process is killed
              "nopod",    \* GetPod fails: the default directory is taken
              "dir",      \* mkdir, mount, chown, unmount or remove fails
              "late",     \* the socket cannot be moved (yet)
              "torn",     \* SaveConfig stops half way through its write
              "remote",   \* IPAM, the annotation or the netns fails
              "redel"}    \* DEL is called again after it succeeded

ASSUME OvsAssumption ==
  /\ Confs \subseteq [Att -> ConfType]
  /\ \A f \in Confs, a, c \in Att : f[a].pod = f[c].pod => f[a].volume = f[c].volume
  /\ IsFiniteSet(Att) /\ IsFiniteSet(Uuid)
  /\ Uuid \subseteq Nat \ {0}
  /\ Cardinality(Uuid) > Cardinality(Bridge) + Cardinality(Att)
  /\ "socket" \notin Att /\ "" \notin Att
  /\ Faults \subseteq FaultKind
  /\ MaxFaults \in Nat

VARIABLES
  conf,     \* the chosen configuration
  bridges,  \* table Bridge: the row id of each name, 0 if there is none
  ports,    \* table Port (with its Interface): a row for each name, or NoPort
  dirs,     \* the directories that exist, of those in Dir
  mounts,   \* how many times the volume is mounted on the pod's short directory
  files,    \* the socket files: <<directory, name>>
  saved,    \* local-<container>-<ifName>.json: a record, NoData or Torn
  pc,       \* where the invocation for an attachment stands, or how it ended
  conn,     \* getOvsClient succeeded in this invocation
  blind,    \* the attachments whose invocation could not read the pod
  name,     \* data.Vhostname of a DEL, or NoName
  portRow,  \* the port row a DEL looked up, by its owner
  brRow,    \* the bridge row it looked up
  risk,     \* history: the ports put on the bridge since a DEL found it empty
  crossed,  \* history: attachments whose bridge or directory another one removed
  astray,   \* history: those whose ADD met, or moved its socket into, a short directory
            \* that was not one mount of the volume
  budget,   \* faults that may still be injected
  seen      \* history: the kinds of those that were

ovsdb == <<bridges, ports>>
disk  == <<dirs, mounts, files, saved>>
proc  == <<conn, blind, name, portRow, brRow>>
ghost == <<risk, crossed, astray>>
env   == <<budget, seen>>
vars  == <<conf, ovsdb, disk, pc, proc, ghost, env>>

NoName == ""
Name   == Att \union {"socket"}

\* The pod's volume, the container's default directory, and the short name of the
\* volume under DefaultHostVhostuserBaseDir.
Dir == {"volume", "default", "short"} \X Att

NoPort  == [owner |-> {}, bridge |-> "", ifaceId |-> ""]
PortRow == [owner : {{a} : a \in Att}, bridge : Bridge, ifaceId : {"", "env", "cni"}]

NoData == [vhostname |-> NoName, ifMac |-> ""]
Torn   == [vhostname |-> NoName, ifMac |-> "torn"]
Data   == [vhostname : Name, ifMac : {"env", "cni", "conf", "random"}]

AddPc == {"aFindBr", "aMkBr", "aDir", "aMkdir", "aMount", "aPort", "aMove", "aMac", "aSave", "aRest"}
DelPc == {"dFindPort", "dRmPort", "dDir", "dEmpty", "dFindBr", "dRmBr", "dRest"}
Rest  == {"none", "added", "addFailed", "deleted", "delFailed"}

OvsTypeOK ==
  /\ conf \in Confs
  /\ bridges \in [Bridge -> Uuid \union {0}]
  /\ ports \in [Name -> PortRow \union {NoPort}]
  /\ dirs \subseteq Dir
  /\ mounts \in [Att -> Nat]
  /\ \A d \in Att : mounts[d] > 0 => <<"short", d>> \in dirs
  /\ files \subseteq dirs \X Name
  /\ saved \in [Att -> Data \union {NoData, Torn}]
  /\ pc \in [Att -> AddPc \union DelPc \union Rest]
  /\ conn \in [Att -> BOOLEAN]
  /\ blind \subseteq Att
  /\ name \in [Att -> Name \union {NoName}]
  /\ portRow \in [Att -> {{}} \union {{b} : b \in Att}]
  /\ brRow \in [Att -> Uuid \union {0}]
  /\ risk \in [Att -> SUBSET Name]
  /\ crossed \subseteq Att
  /\ astray \subseteq Att
  /\ budget \in 0..MaxFaults
  /\ seen \subseteq Faults

\* br-int is there from the start, as OVN owns it, and so are the volumes of the pods.
Init ==
  /\ conf \in Confs
  /\ bridges = [b \in Bridge |-> IF b = "br-int" THEN CHOOSE u \in Uuid : TRUE ELSE 0]
  /\ ports = [n \in Name |-> NoPort]
  /\ dirs = {<<"volume", conf[a].pod>> : a \in {c \in Att : conf[c].volume # "none"}}
  /\ mounts = [d \in Att |-> 0]
  /\ files = {}
  /\ saved = [a \in Att |-> NoData]
  /\ pc = [a \in Att |-> "none"]
  /\ conn = [a \in Att |-> FALSE]
  /\ blind = {}
  /\ name = [a \in Att |-> NoName]
  /\ portRow = [a \in Att |-> {}]
  /\ brRow = [a \in Att |-> 0]
  /\ risk = [a \in Att |-> {}]
  /\ crossed = {}
  /\ astray = {}
  /\ budget = MaxFaults
  /\ seen = {}

-----------------------------------------------------------------------------
(* What an invocation works on.                                            *)

\* Mutant: args.cni, where Multus puts the cni-args of the annotation, is not read.
ResolveOvnArgEnv(a, key) == IF key \in conf[a].env THEN "env" ELSE ""

\* resolveOvnArgs: CNI_ARGS first, then args.cni; "" if neither gives the key.
ResolveOvnArg(a, key) ==
  IF key \in conf[a].env THEN "env" ELSE IF key \in conf[a].cni THEN "cni" ELSE ""

\* The annotation's MAC, else a fixed one, else a generated one.
IfMac(a) ==
  IF ResolveOvnArg(a, "mac") # "" THEN ResolveOvnArg(a, "mac")
  ELSE IF conf[a].mac THEN "conf" ELSE "random"

AddBridge(a) ==
  IF conf[a].bridge # "" THEN conf[a].bridge
  ELSE IF ResolveOvnArg(a, "ovnPort") # "" THEN "br-int" ELSE "br0"

\* Mutant: DEL takes the default bridge.
DelBridgeDefault(a) == "br0"

\* DEL does not ask for an OVN port.
DelBridge(a) == IF conf[a].bridge # "" THEN conf[a].bridge ELSE "br0"

\* VhostConf.Socketfile, or one made of the container and the interface.
PortName(a) == IF conf[a].sock # "" THEN conf[a].sock ELSE a

\* GetPodAndSharedDir: the volume, if the pod can be read and has one.
SharedDir(a) ==
  <<IF a \in blind \/ conf[a].volume = "none" THEN "default" ELSE "volume", conf[a].pod>>

\* getShortSharedDir.
GetShortSharedDir(a) ==
  IF SharedDir(a)[1] = "volume" /\ conf[a].volume = "long"
  THEN <<"short", conf[a].pod>> ELSE SharedDir(a)

IsShort(d) == d[1] = "short"

\* The directory that a path leads to.
Behind(d) == IF IsShort(d) /\ mounts[d[2]] > 0 THEN <<"volume", d[2]>> ELSE d

FilesIn(d) == {f \in files : f[1] = d}

\* Mutant: a set of one port comes back as a bare UUID and is taken for empty.
ContainsTwoInterfaces(b) ==
  Cardinality({n \in Name : ports[n].bridge = b}) > 1 \/ b = "br-int"

\* Mutant: a set of ports is taken for a non-empty one.
ContainsPortSet(b) == bridges[b] # 0

\* br-int also has OVN's own ports.
ContainsInterfaces(b) == b = "br-int" \/ \E n \in Name : ports[n].bridge = b

-----------------------------------------------------------------------------
(* Control flow of one invocation.                                         *)

Goto(a, label) == pc' = [pc EXCEPT ![a] = label]

Fault(f) ==
  /\ f \in Faults
  /\ budget > 0
  /\ budget' = budget - 1
  /\ seen' = seen \union {f}

\* A transaction is executed: its reply arrives, or ovsdbTimeout expires first.
Executed(a, ok, err) ==
  /\ conn[a]
  /\ \/ Goto(a, ok) /\ UNCHANGED env
     \/ Goto(a, err) /\ Fault("timeout")

\* A request has no effect: there is no connection, or it fails.
NoAnswer(a) ==
  \/ ~conn[a] /\ UNCHANGED env
  \/ conn[a] /\ Fault("error")

\* A transaction has no effect, also when ovsdb-server cannot commit it.
Refused(a, can, err) ==
  /\ Goto(a, err)
  /\ \/ NoAnswer(a)
     \/ conn[a] /\ ~can /\ UNCHANGED env

\* An invocation reads the pod, and its first request connects to ovsdb-server.
\* Neither failure ends it: both are remembered.
Opens(a, call) ==
  \E failed \in SUBSET {"down", "nopod"} :
    LET all == failed \union call IN
    /\ all \subseteq Faults /\ Cardinality(all) <= budget
    /\ budget' = budget - Cardinality(all)
    /\ seen' = seen \union all
    /\ conn' = [conn EXCEPT ![a] = "down" \notin failed]
    /\ blind' = IF "nopod" \in failed THEN blind \union {a} ELSE blind \ {a}

-----------------------------------------------------------------------------
(* ADD.                                                                    *)

AddOpen(a) ==
  /\ pc[a] = "none"
  /\ Opens(a, {})
  /\ Goto(a, "aFindBr")
  /\ UNCHANGED <<conf, ovsdb, disk, name, portRow, brRow, ghost>>

\* An unknown interface type is noticed when the bridge is there.
AddDevice(a) == IF conf[a].ifType = "vhostuser" THEN "aDir" ELSE "addFailed"

\* An error of the select is taken for "not found".
AddFindBridge(a) ==
  /\ pc[a] = "aFindBr"
  /\ \/ /\ conn[a] /\ UNCHANGED env
        /\ Goto(a, IF bridges[AddBridge(a)] # 0 THEN AddDevice(a) ELSE "aMkBr")
     \/ NoAnswer(a) /\ Goto(a, "aMkBr")
  /\ UNCHANGED <<conf, ovsdb, disk, proc, ghost>>

\* Any row id that no table holds and no invocation remembers.
NewUuid ==
  CHOOSE u \in Uuid : u \notin {bridges[b] : b \in Bridge} \union {brRow[a] : a \in Att}

\* The name of a bridge is unique.
AddCreateBridge(a) ==
  /\ pc[a] = "aMkBr"
  /\ LET can == bridges[AddBridge(a)] = 0 IN
     \/ /\ can
        /\ Executed(a, AddDevice(a), "addFailed")
        /\ bridges' = [bridges EXCEPT ![AddBridge(a)] = NewUuid]
     \/ Refused(a, can, "addFailed") /\ UNCHANGED bridges
  /\ UNCHANGED <<conf, ports, disk, proc, ghost>>

(***************************************************************************)
(* createSharedDir looks whether the directory exists, makes it and mounts *)
(* the volume on one with a short name; setSharedDirGroup follows.  Each   *)
(* may fail.  A directory that exists is taken as it is, mounted or not.   *)
(***************************************************************************)
AddStatSharedDir(a) ==
  /\ pc[a] = "aDir"
  /\ LET d == GetShortSharedDir(a) IN
     \/ d \notin dirs /\ Goto(a, "aMkdir") /\ UNCHANGED <<astray, env>>
     \/ /\ d \in dirs
        /\ \/ Goto(a, "aPort") /\ UNCHANGED env
           \/ Goto(a, "addFailed") /\ Fault("dir")
        /\ astray' = IF Behind(d) = SharedDir(a) /\ SharedDir(a) \in dirs
                     THEN astray ELSE astray \union {a}
  /\ UNCHANGED <<conf, ovsdb, disk, proc, risk, crossed>>

AddMakeSharedDir(a) ==
  /\ pc[a] = "aMkdir"
  /\ LET d == GetShortSharedDir(a) IN
     \/ /\ dirs' = dirs \union {d} /\ UNCHANGED env
        /\ Goto(a, IF IsShort(d) THEN "aMount" ELSE "aPort")
     \/ /\ dirs' \in {dirs, dirs \union {d}}
        /\ Goto(a, "addFailed") /\ Fault("dir")
  /\ UNCHANGED <<conf, ovsdb, mounts, files, saved, proc, ghost>>

\* The mount needs both directories; one on top of another hides it.
AddMountSharedDir(a) ==
  /\ pc[a] = "aMount"
  /\ LET d    == conf[a].pod
         can  == {<<"short", d>>, SharedDir(a)} \subseteq dirs
         bind == [mounts EXCEPT ![d] = @ + 1] IN
     \/ can /\ mounts' = bind /\ Goto(a, "aPort") /\ UNCHANGED env
     \/ ~can /\ Goto(a, "addFailed") /\ UNCHANGED <<mounts, env>>
     \/ /\ mounts' \in {mounts} \union {m \in {bind} : can}
        /\ Goto(a, "addFailed") /\ Fault("dir")
  /\ astray' = IF mounts' # mounts /\ mounts[conf[a].pod] > 0 THEN astray \union {a} ELSE astray
  /\ UNCHANGED <<conf, ovsdb, dirs, files, saved, proc, risk, crossed>>

AddCreateSharedDir(a) ==
  AddStatSharedDir(a) \/ AddMakeSharedDir(a) \/ AddMountSharedDir(a)

(***************************************************************************)
(* createVhostPort inserts the interface and the port and adds the port to *)
(* the bridge of that name, in one transaction.  The name of a port is     *)
(* unique.  If the bridge is gone nothing refers to the port, and          *)
(* ovsdb-server drops it again: the transaction succeeds all the same.     *)
(***************************************************************************)
AddCreateVhostPort(a) ==
  /\ pc[a] = "aPort"
  /\ LET n   == PortName(a)
         b   == AddBridge(a)
         can == ports[n] = NoPort IN
     \/ /\ can
        /\ Executed(a, "aMove", "addFailed")
        /\ IF bridges[b] = 0
           THEN UNCHANGED <<ports, risk>>
           ELSE /\ ports' = [ports EXCEPT ![n] =
                     [owner |-> {a}, bridge |-> b, ifaceId |-> ResolveOvnArg(a, "ovnPort")]]
                /\ risk' = [c \in Att |->
                     IF pc[c] \in {"dFindBr", "dRmBr"} /\ DelBridge(c) = b
                     THEN risk[c] \union {n} ELSE risk[c]]
     \/ Refused(a, can, "addFailed") /\ UNCHANGED <<ports, risk>>
  /\ UNCHANGED <<conf, bridges, disk, proc, crossed, astray>>

\* ovs-vswitchd as the server creates the socket; os.Rename needs the directory.
MovableSocket(a) ==
  /\ ~conf[a].client /\ ports[PortName(a)] # NoPort
  /\ {GetShortSharedDir(a), Behind(GetShortSharedDir(a))} \subseteq dirs

\* The socket is moved to the shared directory; a failure is only logged.
AddMoveSocket(a) ==
  /\ pc[a] = "aMove"
  /\ Goto(a, "aMac")
  /\ \/ /\ MovableSocket(a) /\ UNCHANGED env
        /\ files' = files \union {<<Behind(GetShortSharedDir(a)), PortName(a)>>}
     \/ ~MovableSocket(a) /\ UNCHANGED <<files, env>>
     \/ ~conf[a].client /\ Fault("late") /\ UNCHANGED files
  /\ astray' = IF files' = files \/ Behind(GetShortSharedDir(a)) = SharedDir(a)
               THEN astray ELSE astray \union {a}
  /\ UNCHANGED <<conf, ovsdb, dirs, mounts, saved, proc, risk, crossed>>

\* getVhostPortMac needs the port; an unsupported network is noticed after it.
AddGetVhostPortMac(a) ==
  /\ pc[a] = "aMac"
  /\ \/ /\ conn[a] /\ UNCHANGED env
        /\ Goto(a, IF ports[PortName(a)] # NoPort /\ conf[a].netType = "bridge"
                   THEN "aSave" ELSE "addFailed")
     \/ NoAnswer(a) /\ Goto(a, "addFailed")
  /\ UNCHANGED <<conf, ovsdb, disk, proc, ghost>>

\* Mutant: the Socketfile of the configuration is saved, not the name made for it.
AddedDataConf(a) == [vhostname |-> conf[a].sock, ifMac |-> IfMac(a)]

AddedData(a) == [vhostname |-> PortName(a), ifMac |-> IfMac(a)]

AddSaveConfig(a) ==
  /\ pc[a] = "aSave"
  /\ \/ /\ saved' = [saved EXCEPT ![a] = AddedData(a)]
        /\ Goto(a, "aRest") /\ UNCHANGED env
     \/ /\ saved' \in {saved, [saved EXCEPT ![a] = Torn]}
        /\ Goto(a, "addFailed") /\ Fault("torn")
  /\ UNCHANGED <<conf, ovsdb, dirs, mounts, files, proc, ghost>>

\* IPAM and the annotation, as for VPP: without the pod it cannot be written.
\* Nothing done before is rolled back.
AddOnContainer(a) ==
  /\ pc[a] = "aRest"
  /\ \/ Goto(a, IF a \in blind THEN "addFailed" ELSE "added") /\ UNCHANGED env
     \/ Goto(a, "addFailed") /\ Fault("remote")
  /\ UNCHANGED <<conf, ovsdb, disk, proc, ghost>>

-----------------------------------------------------------------------------
(* DEL: the port and the directory.                                        *)

\* The saved file is removed as soon as it was read; without one there is no name.
LoadConfig(a) ==
  /\ name' = [name EXCEPT ![a] = saved[a].vhostname]
  /\ saved' = [saved EXCEPT ![a] = NoData]

DelOpen(a) ==
  /\ \/ pc[a] \in {"added", "addFailed", "delFailed"} /\ Opens(a, {})
     \/ pc[a] = "deleted" /\ Opens(a, {"redel"})
  /\ portRow' = [portRow EXCEPT ![a] = {}]
  /\ brRow' = [brRow EXCEPT ![a] = 0]
  /\ risk' = [risk EXCEPT ![a] = {}]
  /\ \/ /\ saved[a] = Torn
        /\ Goto(a, "delFailed")
        /\ name' = [name EXCEPT ![a] = NoName] /\ UNCHANGED saved
     \/ /\ saved[a] # Torn
        /\ LoadConfig(a)
        /\ Goto(a, IF conf[a].ifType = "vhostuser" THEN "dFindPort" ELSE "delFailed")
  /\ UNCHANGED <<conf, ovsdb, dirs, mounts, files, crossed, astray>>

\* portUUID: a port that is not found, and any error, is a port already gone.
DelFindPort(a) ==
  /\ pc[a] = "dFindPort"
  /\ LET found == name[a] # NoName /\ ports[name[a]] # NoPort IN
     \/ /\ conn[a] /\ found /\ UNCHANGED env
        /\ portRow' = [portRow EXCEPT ![a] = ports[name[a]].owner]
        /\ Goto(a, "dRmPort")
     \/ /\ (conn[a] /\ ~found /\ UNCHANGED env) \/ NoAnswer(a)
        /\ Goto(a, "dDir") /\ UNCHANGED portRow
  /\ UNCHANGED <<conf, ovsdb, disk, conn, blind, name, brRow, ghost>>

(***************************************************************************)
(* deleteVhostPort deletes the rows of that name and takes the row looked  *)
(* up before out of the bridge.  ovsdb-server refuses to delete a row that *)
(* is still referred to: one on another bridge, or one made since.         *)
(***************************************************************************)
DelDeleteVhostPort(a) ==
  /\ pc[a] = "dRmPort"
  /\ LET port == ports[name[a]]
         can  == port # NoPort => port.owner = portRow[a] /\ port.bridge = DelBridge(a) IN
     \/ /\ can
        /\ Executed(a, "dDir", "delFailed")
        /\ ports' = [ports EXCEPT ![name[a]] = NoPort]
     \/ Refused(a, can, "delFailed") /\ UNCHANGED ports
  /\ UNCHANGED <<conf, bridges, disk, proc, ghost>>

InUse(a) == pc[a] \notin {"none", "deleted"}

\* Mutant: the interface name is compared in full, the Socketfile not at all.
DelMatchesOwn(a, n) == n = a

\* The last character of the interface name is optional in the pattern, so that it
\* also matches the sockets of the container's other interfaces (net1, net2).
DelMatches(a, n) ==
  \/ n \in Att /\ conf[n].pod = conf[a].pod
  \/ n = conf[a].sock

(***************************************************************************)
(* delLocalDeviceVhost on a directory with a short name: a mount to undo.  *)
(* What is in the volume stays there.  os.Remove fails while there is      *)
(* another mount below or a file in the directory itself.                  *)
(***************************************************************************)
DelUnmount(a) ==
  LET d      == conf[a].pod
      short  == GetShortSharedDir(a)
      umount == [mounts EXCEPT ![d] = @ - 1]
      last   == mounts[d] = 1 /\ FilesIn(short) = {} IN
  /\ UNCHANGED files
  /\ \/ short \notin dirs /\ UNCHANGED <<dirs, mounts, env>> /\ Goto(a, "dEmpty")
     \/ /\ short \in dirs /\ mounts[d] = 0
        /\ UNCHANGED <<dirs, mounts, env>> /\ Goto(a, "delFailed")
     \/ /\ short \in dirs /\ mounts[d] > 0 /\ UNCHANGED env
        /\ mounts' = umount
        /\ dirs' = IF last THEN dirs \ {short} ELSE dirs
        /\ Goto(a, IF last THEN "dEmpty" ELSE "delFailed")
     \/ /\ short \in dirs /\ mounts[d] > 0 /\ Fault("dir")
        /\ mounts' \in {mounts, umount} /\ UNCHANGED dirs
        /\ Goto(a, "delFailed")

\* On any other directory: the attachment's files, and the directory if these
\* were all it held.
DelRemoveFiles(a) ==
  LET d    == GetShortSharedDir(a)
      left == {f \in files : f[1] = d => ~DelMatches(a, f[2])} IN
  /\ UNCHANGED mounts
  /\ \/ d \notin dirs /\ UNCHANGED <<dirs, files, env>> /\ Goto(a, "delFailed")
     \/ /\ d \in dirs /\ UNCHANGED env
        /\ files' = left
        /\ dirs' = IF \E f \in left : f[1] = d THEN dirs ELSE dirs \ {d}
        /\ Goto(a, "dEmpty")
     \/ /\ d \in dirs /\ Fault("dir") /\ UNCHANGED dirs
        /\ files' \in {files, left}
        /\ Goto(a, "delFailed")

DelCleanDir(a) ==
  /\ pc[a] = "dDir"
  /\ IF IsShort(GetShortSharedDir(a)) THEN DelUnmount(a) ELSE DelRemoveFiles(a)
  /\ crossed' = crossed \union
       {c \in Att \ {a} : <<dirs', mounts', files'>> # <<dirs, mounts, files>> /\ InUse(c)
                          /\ conf[c].pod = conf[a].pod}
  /\ UNCHANGED <<conf, ovsdb, saved, proc, risk, astray>>

-----------------------------------------------------------------------------
(* DEL: the bridge.                                                        *)

\* A bridge that is missing, and an error, count as "no interfaces".
DelBridgeContainsInterfaces(a) ==
  /\ pc[a] = "dEmpty"
  /\ \/ /\ conn[a] /\ UNCHANGED <<env, risk>>
        /\ Goto(a, IF ContainsInterfaces(DelBridge(a)) THEN "dRest" ELSE "dFindBr")
     \/ /\ NoAnswer(a) /\ Goto(a, "dFindBr")
        /\ risk' = [risk EXCEPT ![a] = {n \in Name : ports[n].bridge = DelBridge(a)}]
  /\ UNCHANGED <<conf, ovsdb, disk, proc, crossed, astray>>

\* bridgeUUID: a bridge that does not exist is an error.
DelFindBridge(a) ==
  /\ pc[a] = "dFindBr"
  /\ \/ /\ conn[a] /\ UNCHANGED env
        /\ brRow' = [brRow EXCEPT ![a] = bridges[DelBridge(a)]]
        /\ Goto(a, IF bridges[DelBridge(a)] # 0 THEN "dRmBr" ELSE "delFailed")
     \/ NoAnswer(a) /\ Goto(a, "delFailed") /\ UNCHANGED brRow
  /\ UNCHANGED <<conf, ovsdb, disk, conn, blind, name, portRow, ghost>>

(***************************************************************************)
(* deleteBridge deletes the row of that name and takes the row looked up   *)
(* before out of Open_vSwitch.  The ports on the bridge go with it, as     *)
(* nothing else refers to them.  A bridge made since is still referred to, *)
(* and the transaction is refused.                                         *)
(***************************************************************************)
DelDeleteBridge(a) ==
  /\ pc[a] = "dRmBr"
  /\ LET b   == DelBridge(a)
         can == bridges[b] \in {0, brRow[a]} IN
     \/ /\ can
        /\ Executed(a, "dRest", "delFailed")
        /\ bridges' = [bridges EXCEPT ![b] = 0]
        /\ ports' = [n \in Name |-> IF ports[n].bridge = b THEN NoPort ELSE ports[n]]
        /\ crossed' = crossed \union
             {c \in Att \ {a} : bridges[b] # 0 /\ InUse(c) /\ b \in {AddBridge(c), DelBridge(c)}}
     \/ Refused(a, can, "delFailed") /\ UNCHANGED <<bridges, ports, crossed>>
  /\ UNCHANGED <<conf, disk, proc, risk, astray>>

\* DelFromContainer removes the directory if it is empty, the volume under its long
\* name too; then IPAM and the netns.
DelRest(a) ==
  /\ pc[a] = "dRest"
  /\ LET d     == SharedDir(a)
         empty == d \in dirs /\ FilesIn(d) = {} IN
     /\ dirs' = IF empty THEN dirs \ {d} ELSE dirs
     /\ crossed' = crossed \union
          {c \in Att \ {a} : empty /\ InUse(c) /\ conf[c].pod = conf[a].pod}
  /\ \/ Goto(a, "deleted") /\ UNCHANGED env
     \/ Goto(a, "delFailed") /\ Fault("remote")
  /\ UNCHANGED <<conf, ovsdb, mounts, files, saved, proc, risk, astray>>

-----------------------------------------------------------------------------
(* The environment.                                                        *)

\* In client mode the application in the pod creates the socket, in the volume.
AppListens(a) ==
  /\ pc[a] = "added"
  /\ conf[a].client /\ conf[a].volume # "none" /\ SharedDir(a) \in dirs
  /\ files' = files \union {<<SharedDir(a), PortName(a)>>}
  /\ UNCHANGED <<conf, ovsdb, dirs, mounts, saved, pc, proc, ghost, env>>

Killed(a) ==
  /\ pc[a] \in AddPc \union DelPc
  /\ Goto(a, IF pc[a] \in AddPc THEN "addFailed" ELSE "delFailed")
  /\ Fault("kill")
  /\ UNCHANGED <<conf, ovsdb, disk, proc, ghost>>

AddStep(a) ==
  \/ AddFindBridge(a) \/ AddCreateBridge(a) \/ AddCreateSharedDir(a)
  \/ AddCreateVhostPort(a) \/ AddMoveSocket(a) \/ AddGetVhostPortMac(a)
  \/ AddSaveConfig(a) \/ AddOnContainer(a)

DelStep(a) ==
  \/ DelFindPort(a) \/ DelDeleteVhostPort(a) \/ DelCleanDir(a)
  \/ DelBridgeContainsInterfaces(a) \/ DelFindBridge(a) \/ DelDeleteBridge(a)
  \/ DelRest(a)

Next ==
  \E a \in Att :
    \/ AddOpen(a) \/ AddStep(a)
    \/ DelOpen(a) \/ DelStep(a)
    \/ AppListens(a) \/ Killed(a)

Spec == Init /\ [][Next]_vars

-----------------------------------------------------------------------------
(* Properties.                                                             *)

PortsOf(a) == {n \in Name : a \in ports[n].owner}

\* No attachment with the same port name lost its bridge or directory to another.
Undisturbed(a) == \A c \in crossed : PortName(c) # PortName(a)

\* DEL of an OVN attachment without a bridgeName goes to another bridge than ADD.
Misdirected(a) == conf[a].bridge = "" /\ "ovnPort" \in conf[a].env \union conf[a].cni

(***************************************************************************)
(* An invocation that takes the port of another attachment away takes it   *)
(* away with its bridge, and only when the port was put there since        *)
(* delLocalNetworkBridge found the bridge empty ("Delete Bridge if         *)
(* empty"), or when that select failed.  The exception are attachments     *)
(* that share a Socketfile, once one of them had its bridge or directory   *)
(* removed under it.                                                       *)
(***************************************************************************)
PortLostOnlyWithBridge ==
  [][\A a, c \in Att : a # c /\ pc'[a] # pc[a] =>
       \A n \in PortsOf(c) : ports'[n] # ports[n] =>
         \/ pc[a] = "dRmBr" /\ n \in risk[a]
         \/ pc[a] = "dRmPort" /\ ~Undisturbed(a) /\ PortName(a) = PortName(c)]_vars

\* An ADD of the pod used a short directory that another one had made and not yet
\* mounted, or mounted too, or that was left without its mount.
Strayed(a) == \E c \in astray : conf[c].pod = conf[a].pod

(***************************************************************************)
(* An ADD that returned success left a port of its own on the bridge it    *)
(* chose, bound to the OVN port it was given, the data DEL needs and, with *)
(* ovs-vswitchd as the server, the socket in the pod's volume, if it has   *)
(* one: also when ovs-vswitchd was told the short name, as long as ADD did *)
(* not take over a short directory that was not mounted.  No other         *)
(* invocation takes any of it away, unless it removed the bridge or the    *)
(* directory both use, or did so to one that has the same Socketfile.      *)
(***************************************************************************)
OvsAddedIsWired ==
  \A a \in Att : pc[a] = "added" /\ Undisturbed(a) =>
    /\ PortsOf(a) = {PortName(a)}
    /\ ports[PortName(a)].bridge = AddBridge(a)
    /\ (ports[PortName(a)].ifaceId # "") <=> ("ovnPort" \in conf[a].env \union conf[a].cni)
    /\ bridges[AddBridge(a)] # 0
    /\ saved[a].vhostname = PortName(a)
    /\ a \notin astray =>
         /\ {SharedDir(a), GetShortSharedDir(a)} \subseteq dirs
         /\ Behind(GetShortSharedDir(a)) = SharedDir(a)
         /\ ~conf[a].client /\ "late" \notin seen => <<SharedDir(a), PortName(a)>> \in files

(***************************************************************************)
(* After a DEL that returned success, whatever failed before:              *)
(* - the saved data is gone;                                               *)
(* - no socket of it is left in a plain volume or the default directory,   *)
(*   unless ADD or DEL could not read the pod, which has a volume; one of  *)
(*   that name is another attachment's.  In an emptyDir with a short name  *)
(*   DEL leaves the socket to the kubelet;                                 *)
(* - the short directory is gone with its mount, unless an invocation      *)
(*   could not read the pod or another attachment of the pod uses it;      *)
(* - the port is gone, unless a request failed or an invocation was cut    *)
(*   short: LoadConfig removes the file first, and no later DEL knows the  *)
(*   name of the port any more.  A port that was never saved (an           *)
(*   unsupported NetType) or that DEL looks for on the wrong bridge (OVN   *)
(*   without a bridgeName) stays as well.                                  *)
(***************************************************************************)
OvsDeletedIsGone ==
  \A a \in Att : pc[a] = "deleted" =>
    /\ saved[a] = NoData
    /\ \A dir \in {"volume", "default"} :
         \/ <<<<dir, conf[a].pod>>, PortName(a)>> \notin files
         \/ conf[a].volume = "long" /\ dir = "volume"
         \/ conf[a].volume # "none" /\ "nopod" \in seen
         \/ \E c \in Att \ {a} : conf[c].pod = conf[a].pod /\ PortName(c) = PortName(a)
    /\ \/ <<"short", conf[a].pod>> \notin dirs
       \/ "nopod" \in seen
       \/ \E c \in Att : conf[c].pod = conf[a].pod /\ InUse(c)
    /\ \/ PortsOf(a) = {}
       \/ seen \intersect {"down", "error", "timeout", "kill", "torn"} # {}
       \/ Misdirected(a) \/ conf[a].netType # "bridge"

(***************************************************************************)
(* A DEL that has the data its ADD saved succeeds, unless something failed *)
(* under it, it goes to the wrong bridge, another invocation removed the   *)
(* bridge or the directory first, or ADDs of the pod made and mounted the  *)
(* short directory at once: a bridge that "does not exist", a directory    *)
(* that cannot be opened, one that is not mounted and one that is still in *)
(* use after the unmount are errors.                                       *)
(***************************************************************************)
OvsDelSucceeds ==
  \A a \in Att : pc[a] = "delFailed" /\ name[a] # NoName /\ Undisturbed(a) =>
    seen \ {"late", "redel"} # {} \/ Misdirected(a) \/ Strayed(a)

(***************************************************************************)
(* When every attachment was deleted, no bridge the plugin created is left *)
(* behind, whichever invocations interleave and whatever failed, unless a  *)
(* port was left behind on it.                                             *)
(***************************************************************************)
OvsLastDelReclaims ==
  /\ \A a \in Att : pc[a] \in {"none", "deleted"}
  /\ \A n \in Name : ports[n] = NoPort
  => \A b \in Bridge \ {"br-int"} : bridges[b] = 0
=============================================================================
