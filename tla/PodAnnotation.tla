--------------------------- MODULE PodAnnotation ---------------------------
(***************************************************************************)
(* The annotations of one pod, which is how an ADD tells the container and *)
(* the restore daemon what it made.  ADD reads the pod at its beginning    *)
(* (GetPod), adds its configuration-data to the copy it read and writes    *)
(* that copy back at its end (WritePodAnnotation of pkg/annotations and    *)
(* pkg/k8sclient), while the kubelet, Multus and other ADDs write the same *)
(* object.  The daemon turns the annotations and the networks of the pod   *)
(* into the memif masters it wants in VPP (pkg/daemon/desired.go).         *)
(*                                                                         *)
(* A pod may have several sandboxes, one after another or overlapping (the *)
(* kubelet gave up an ADD that still runs), and a sandbox may be added     *)
(* again after its DEL.  How AddOnHost and Reconcile go about it is the    *)
(* subject of CniVpp and RestoreDaemon: here each is one step, which may   *)
(* end half way.  An ADD or DEL that cannot read the pod works on another  *)
(* path and never gets to the annotation: it is left to CniVpp.            *)
(***************************************************************************)
EXTENDS Naturals, Sequences, FiniteSets

CONSTANTS
  Sandbox,    \* the sandboxes of the pod
  NetLists,   \* the lists of networks the pod may have, sequences of Network
  MaxOther,   \* how often others write the pod (a bound of the model)
  MaxAdds     \* how many ADDs there are in all (a bound)

IfNames == <<"net1", "net2", "net3">>   \* what Multus gives an unnamed interface
Mode    == {"", "ethernet", "ip"}
Text    == 99                           \* a bridgeName that is not a number

\* HostConf of a NAD, with the memif mode of its ContainerConf.  A NAD of another
\* plugin has none of it.
HostConf == [engine  : {"", "vpp", "ovs-dpdk"},
             ifType  : {"", "memif", "vhostuser"},
             role    : {"", "master", "slave"},
             netType : {"", "bridge", "interface"},
             bridgeName : {0, 7, Text},   \* 0: not given
             bridgeId   : {0, 5},
             mode     : Mode,
             contMode : Mode,
             sock     : {"", "memif.sock"}]

\* networkRef, and the NAD it names.
Network == [iface : {"", "a", "b"}, host : HostConf]

ASSUME AnnotationAssumption ==
  /\ IsFiniteSet(Sandbox)
  /\ \A list \in NetLists : list \in Seq(Network) /\ Len(list) \in 1..Len(IfNames)
  /\ \A list \in NetLists : \A i \in 1..Len(list) :
       \/ list[i].host.engine = "" /\ list[i].host.ifType = ""
       \/ list[i].host.engine = "vpp" /\ list[i].host.ifType = "memif" /\ list[i].host.role # ""
       \/ list[i].host.engine = "ovs-dpdk" /\ list[i].host.ifType = "vhostuser"
  /\ \A list \in NetLists : \A i, j \in 1..Len(list) :
       \* two networks on one interface would be one attachment: sandbox and interface
       \* name the socket and the saved data
       list[i].iface = list[j].iface => i = j \/ list[i].iface = ""
  /\ MaxOther \in Nat /\ MaxAdds \in Nat

VARIABLES
  nets,    \* parseNetworks of the pod's annotation
  volume,  \* the pod has a shared-dir volume
  api,     \* the pod as the API server has it
  copy,    \* the pod as each ADD read it
  pc,      \* where each ADD stands, or how it ended
  vpp,     \* the memifs in VPP
  synced,  \* the last Sync ended without an error, did not skip the pod, and nothing
           \* happened since
  again,   \* the attachments that were added again after a DEL
  others   \* writes of others so far

vars == <<nets, volume, api, copy, pc, vpp, synced, again, others>>

\* An attachment: a sandbox and a network of the pod, by its place in the list.
Att == Sandbox \X (1..Len(nets))

AllAtt == Sandbox \X (1..Len(IfNames))

IfName(a) == IF nets[a[2]].iface # "" THEN nets[a[2]].iface ELSE IfNames[a[2]]

\* ConfigurationData, and the two annotations of a pod with its resourceVersion.
Entry == [att : AllAtt, ifName : {"a", "b"} \union {IfNames[i] : i \in 1..Len(IfNames)}, mode : Mode]

Pod == [live : BOOLEAN, rv : Nat, entries : Seq(Entry), mapped : {"", "mount", "other"}]

NoPod == [live |-> FALSE, rv |-> 0, entries |-> <<>>, mapped |-> ""]

\* A file of the name the NAD gives, which is no attachment's own.
Named(file) == <<file, 0>>

\* half: who left it half made, neither up nor in its bridge domain.
Memif == [socket : {"volume", "default"} \X (AllAtt \union {Named("memif.sock")}),
          role : {"master", "slave"}, bd : {0, 5, 7}, mode : {"ethernet", "ip"},
          half : {"no", "add", "sync"}]

AnnotationTypeOK ==
  /\ nets \in NetLists
  /\ volume \in BOOLEAN
  /\ api \in Pod
  /\ copy \in [AllAtt -> Pod]
  /\ \A a \in Att : pc[a] = "update" => copy[a].rv <= api.rv
  /\ pc \in [AllAtt -> {"none", "host", "update", "added", "addFailed", "deleted"}]
  /\ vpp \subseteq Memif
  /\ synced \in BOOLEAN
  /\ again \subseteq AllAtt
  /\ others \in 0..MaxOther

-----------------------------------------------------------------------------
(* What ADD makes and what it writes.                                      *)

\* SocketFileName, in the directory GetPodAndSharedDir chooses.
Socket(a) ==
  LET file == nets[a[2]].host.sock IN
  <<IF volume THEN "volume" ELSE "default", IF file # "" THEN Named(file) ELSE a>>

\* AddOnHost: the name goes before the deprecated id.
AddBridgeDomain(h) == IF h.bridgeName # 0 THEN h.bridgeName ELSE h.bridgeId

\* addLocalDeviceMemif: an unset mode is "ethernet".
AddMode(h) == IF h.mode = "" THEN "ethernet" ELSE h.mode

AddedMemif(a) ==
  LET h == nets[a[2]].host IN
  [socket |-> Socket(a), role |-> h.role, mode |-> AddMode(h),
   bd |-> IF h.netType = "bridge" /\ AddBridgeDomain(h) # Text THEN AddBridgeDomain(h) ELSE 0,
   half |-> "no"]

\* What is left of it when a request after its creation fails.
HalfMade(m, by) == [m EXCEPT !.bd = 0, !.half = by]

\* SaveRemoteConfig: the container's mode is its own, or the host's with the
\* default already filled in.
EntryOf(a) ==
  LET h == nets[a[2]].host IN
  [att |-> a, ifName |-> IfName(a),
   mode |-> IF h.contMode # "" THEN h.contMode
            ELSE IF h.ifType = "memif" THEN AddMode(h) ELSE ""]

\* Both annotations have to be in the file the Downward API makes of them.
HasAnnotations(p) == p.mapped # "" /\ p.entries # <<>>

\* GetRemoteConfig, in the container: every entry, whichever sandbox it is of.
GetRemoteConfig(p) == IF HasAnnotations(p) THEN p.entries ELSE <<>>

Times(a, entries) == Cardinality({k \in 1..Len(entries) : entries[k].att = a})

-----------------------------------------------------------------------------
(* What the daemon wants.                                                  *)

IsVppMemif(h) == h.ifType = "memif" /\ h.engine \in {"", "vpp"}

\* Mutant: the deprecated id goes first.
BridgeDomainIDFirst(h) == IF h.bridgeId # 0 THEN h.bridgeId ELSE h.bridgeName

\* bridgeDomainID, which fails on Text.
BridgeDomainID(h) == IF h.bridgeName # 0 THEN h.bridgeName ELSE h.bridgeId

\* Every desired memif is created as a master.
DesiredMemif(e, h) ==
  [socket |-> <<"volume", IF h.sock # "" THEN Named(h.sock) ELSE e.att>>, role |-> "master",
   bd |-> IF h.netType = "bridge" THEN BridgeDomainID(h) ELSE 0,
   mode |-> IF (IF h.mode # "" THEN h.mode ELSE e.mode) = "ip" THEN "ip" ELSE "ethernet",
   half |-> "no"]

\* Mutant: the interface name is not compared.
NetworkOfFirst(e) == 1

\* The first network that may be the entry's, 0 if there is none.  A single
\* network is that of every entry.
NetworkOf(e) ==
  LET may == {i \in 1..Len(nets) : Len(nets) = 1 \/ nets[i].iface \in {"", e.ifName}} IN
  IF may = {} THEN 0 ELSE CHOOSE i \in may : \A j \in may : i <= j

Wanted(e) == NetworkOf(e) # 0 /\ IsVppMemif(nets[NetworkOf(e)].host)

\* The memif of the k-th entry, and whether it fails to be one.
HostOf(k)  == nets[NetworkOf(api.entries[k])].host
Want(k)    == DesiredMemif(api.entries[k], HostOf(k))
BadName(k) == HostOf(k).netType = "bridge" /\ BridgeDomainID(HostOf(k)) = Text

\* desiredForPod, by the entries it takes.
DesiredForPod ==
  LET wanted == {k \in 1..Len(api.entries) : Wanted(api.entries[k])} IN
  IF ~api.live \/ ~volume \/ (\E k \in wanted : BadName(k)) THEN {} ELSE wanted

-----------------------------------------------------------------------------
(* ADD and DEL.                                                            *)

Goto(a, label) == pc' = [pc EXCEPT ![a] = label]

Init ==
  /\ nets \in NetLists
  /\ volume \in BOOLEAN
  /\ \E m \in {"", "mount", "other"} :   \* the pod template may bring mapped-dir along
       api = [live |-> TRUE, rv |-> 1, entries |-> <<>>, mapped |-> m]
  /\ copy = [a \in AllAtt |-> NoPod]
  /\ pc = [a \in AllAtt |-> "none"]
  /\ vpp = {}
  /\ synced = FALSE
  /\ again = {}
  /\ others = 0

Handled(a) == nets[a[2]].host.engine # ""

\* Multus adds the networks of a sandbox one after another and stops at a failure.
Turn(a) == \A b \in Att : b[1] = a[1] /\ b[2] < a[2] /\ Handled(b) => pc[b] = "added"

Adds == Cardinality({a \in Att : pc[a] # "none"}) + Cardinality(again)

\* Without the pod ADD cannot end well: SaveRemoteConfig needs it.
GetPod(a) ==
  /\ Adds < MaxAdds
  /\ \/ pc[a] = "none" /\ UNCHANGED again
     \/ pc[a] = "deleted" /\ a \notin again /\ again' = again \union {a}
  /\ Handled(a) /\ Turn(a)
  /\ api.live
  /\ copy' = [copy EXCEPT ![a] = api]
  /\ Goto(a, "host")
  /\ UNCHANGED <<nets, volume, api, vpp, synced, others>>

\* AddOnHost, as a whole or up to the request that fails.  A memif is refused on a
\* socket that has one, and a bridge name that is not a number fails when the memif
\* is there; any other request may fail too.
AddOnHost(a) ==
  /\ pc[a] = "host"
  /\ LET h     == nets[a[2]].host
         free  == h.ifType = "memif" /\ \A m \in vpp : m.socket # Socket(a)
         half  == vpp \union {HalfMade(AddedMemif(a), "add")}
         named == h.netType = "bridge" /\ AddBridgeDomain(h) = Text IN
     \/ h.ifType = "vhostuser" /\ Goto(a, "update") /\ UNCHANGED vpp
     \/ free /\ ~named /\ Goto(a, "update") /\ vpp' = vpp \union {AddedMemif(a)}
     \/ free /\ Goto(a, "addFailed") /\ vpp' = half
     \/ Goto(a, "addFailed") /\ UNCHANGED vpp
  /\ copy' = IF pc'[a] = "update" THEN copy ELSE [copy EXCEPT ![a] = NoPod]
  /\ synced' = FALSE
  /\ UNCHANGED <<nets, volume, api, again, others>>

\* Where the containers mount the volume, or the default: the same for every ADD of
\* the pod, as its spec does not change.
MappedSharedDir == "mount"

\* setPodAnnotationMappedDir refuses to change the directory.
MappedDirOK(p) == p.mapped \in {"", MappedSharedDir}

\* setPodAnnotationConfigData and setPodAnnotationMappedDir on the copy.
Annotated(a) ==
  [copy[a] EXCEPT !.entries = Append(@, EntryOf(a)), !.mapped = MappedSharedDir, !.rv = @ + 1]

\* Mutant: the API server is not told which version was read.
FreshAny(a) == TRUE

\* UpdateStatus carries the resourceVersion of the copy.
Fresh(a) == copy[a].rv = api.rv

\* Mutant: the retry gets the pod again, as it is meant to, and updates that.
ConflictRetried(a) == Goto(a, "added") /\ api' = [api EXCEPT !.rv = @ + 1]

\* The retry asks for the pod by the name in the object that the failed
\* UpdateStatus returned, which is empty: Get refuses, and that is no conflict.
Conflict(a) == Goto(a, "addFailed") /\ UNCHANGED api

\* The reply to a write may be lost, and any request may fail.
WritePodAnnotation(a) ==
  /\ pc[a] = "update"
  /\ \/ /\ MappedDirOK(copy[a]) /\ api.live /\ Fresh(a)
        /\ api' = Annotated(a)
        /\ Goto(a, "added") \/ Goto(a, "addFailed")
     \/ MappedDirOK(copy[a]) /\ api.live /\ ~Fresh(a) /\ Conflict(a)
     \/ Goto(a, "addFailed") /\ UNCHANGED api
  /\ copy' = [copy EXCEPT ![a] = NoPod]
  /\ synced' = FALSE
  /\ UNCHANGED <<nets, volume, vpp, again, others>>

\* DEL finds the memif by its socket and leaves the annotation alone.
Del(a) ==
  /\ pc[a] \in {"added", "addFailed"}
  /\ vpp' = IF nets[a[2]].host.ifType = "memif"
            THEN {m \in vpp : m.socket # Socket(a)} ELSE vpp
  /\ Goto(a, "deleted")
  /\ synced' = FALSE
  /\ UNCHANGED <<nets, volume, api, copy, again, others>>

-----------------------------------------------------------------------------
(* The rest of the node.                                                   *)

\* The kubelet's status, Multus's network-status.
OtherWrite ==
  /\ api.live /\ others < MaxOther
  /\ api' = [api EXCEPT !.rv = @ + 1]
  /\ others' = others + 1
  /\ UNCHANGED <<nets, volume, copy, pc, vpp, synced, again>>

PodDeleted ==
  /\ api.live
  /\ api' = [api EXCEPT !.live = FALSE]
  /\ UNCHANGED <<nets, volume, copy, pc, vpp, synced, again, others>>

VppRestarts ==
  /\ vpp' = {} /\ synced' = FALSE
  /\ UNCHANGED <<nets, volume, api, copy, pc, again, others>>

(***************************************************************************)
(* Reconcile, as far as it creates: the desired memifs whose socket has no *)
(* master, one after another.  VPP refuses a second memif on a socket,     *)
(* which ends the round: on one desired twice, or on that of a slave.  So  *)
(* does a request of CreateMaster that fails, and if the memif was there   *)
(* by then it stays as it is: to later rounds it is a master like others.  *)
(***************************************************************************)
Sync ==
  LET missing  == {k \in DesiredForPod :
                     \A v \in vpp : v.role = "master" => v.socket # Want(k).socket}
      clash(k) == \/ \E v \in vpp : v.socket = Want(k).socket
                  \/ \E j \in missing : j < k /\ Want(j).socket = Want(k).socket
      created  == {k \in missing : \A j \in missing : j <= k => ~clash(j)} IN
  /\ \/ /\ vpp' = vpp \union {Want(k) : k \in created}
        /\ synced' = (created = missing)
     \/ /\ \E k \in created : \E left \in {{}, {HalfMade(Want(k), "sync")}} :
             vpp' = vpp \union {Want(j) : j \in {i \in created : i < k}} \union left
        /\ synced' = FALSE
  /\ UNCHANGED <<nets, volume, api, copy, pc, again, others>>

\* A NAD cannot be read: Sync logs it, skips the pod and returns no error.
SyncSkips ==
  /\ synced' = FALSE
  /\ UNCHANGED <<nets, volume, api, copy, pc, vpp, again, others>>

Next ==
  \/ \E a \in Att : GetPod(a) \/ AddOnHost(a) \/ WritePodAnnotation(a) \/ Del(a)
  \/ OtherWrite \/ PodDeleted \/ VppRestarts \/ Sync \/ SyncSkips

Spec == Init /\ [][Next]_vars

-----------------------------------------------------------------------------
(* Properties.                                                             *)

(***************************************************************************)
(* No write of the pod loses or changes an entry that another ADD put into *)
(* the annotation, though each writes back the whole list as it read it    *)
(* before AddOnHost: a write adds at most one entry, at the end.           *)
(***************************************************************************)
EntriesOnlyGrow ==
  [][/\ Len(api'.entries) <= Len(api.entries) + 1
     /\ SubSeq(api'.entries, 1, Len(api.entries)) = api.entries]_vars

(***************************************************************************)
(* What GetRemoteConfig reads in the container has every interface whose   *)
(* ADD returned success, with the directory to find its socket in.  No     *)
(* interface is there twice, whatever failed, unless it was added again    *)
(* after its DEL, and none if the pod came with another directory.         *)
(***************************************************************************)
AddedIsDelivered ==
  api.live =>
    \A a \in Att :
      /\ pc[a] = "added" => Times(a, GetRemoteConfig(api)) >= 1
      /\ a \notin again => Times(a, api.entries) <= 1
      /\ Times(a, api.entries) >= 1 => api.mapped = MappedSharedDir

\* The networks the pod lists before a's own all name their interface.
Identified(a) == \A j \in 1..(a[2] - 1) : nets[j].iface # ""

\* The two ends of the NAD agree on the mode, or leave it to the default.
OneMode(h) == h.mode # "" \/ h.contMode \in {"", "ethernet"}

\* What an ADD makes of an attachment, and what is left when it is half made.
MadeOf(a) ==
  {AddedMemif(a), HalfMade(AddedMemif(a), "add"), HalfMade(AddedMemif(a), "sync")}

\* AddOnHost has run for it.
Made(a) == pc[a] \notin {"none", "host"} \/ a \in again

(***************************************************************************)
(* The daemon never puts anything into VPP but what an ADD of the pod put  *)
(* there (a sandbox that is gone included, as nothing takes its entry out  *)
(* of the annotation): the same socket, mode and role, in the same bridge  *)
(* domain or, if a request failed half way, in none, if the pod's networks *)
(* can be told apart by their interface names, the host is the master and  *)
(* the NAD's two ends agree on the mode.                                   *)
(***************************************************************************)
DaemonOnlyRestores ==
  (\A a \in Att : /\ Identified(a)
                  /\ OneMode(nets[a[2]].host)
                  /\ nets[a[2]].host.role # "slave")
  => \A m \in vpp : \E a \in Att : Made(a) /\ m \in MadeOf(a)

(***************************************************************************)
(* After a Sync that reported no error and did not skip the pod, every     *)
(* interface whose ADD returned success is in VPP as that ADD made it, if  *)
(* the pod is there, has a shared-dir volume and no other attachment uses  *)
(* its Socketfile; but one that an earlier CreateMaster left half made is  *)
(* still so, which no Sync reports.                                        *)
(***************************************************************************)
SyncedIsAsAdded ==
  \A a \in Att :
    /\ synced /\ api.live /\ volume
    /\ pc[a] = "added" /\ nets[a[2]].host.ifType = "memif"
    /\ nets[a[2]].host.role = "master" /\ nets[a[2]].host.sock = ""
    /\ Identified(a) /\ OneMode(nets[a[2]].host)
    => AddedMemif(a) \in vpp \/ HalfMade(AddedMemif(a), "sync") \in vpp
=============================================================================
