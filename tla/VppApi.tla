------------------------------- MODULE VppApi -------------------------------
(***************************************************************************)
(* The part of the node VPP that userspace-cni drives through its binary   *)
(* API, and the lookups the wrappers in cnivpp/api make on a dump of it.   *)
(*                                                                         *)
(* The module has no variables.  Its operators are given the three tables  *)
(* of VPP: ifs (interfaces by sw_if_index), socks (memif socket files by   *)
(* socket id) and bds (bridge domains).  What VPP itself does with a       *)
(* request is external to the repository: the Can... operators say when    *)
(* VPP accepts one, as the wrappers and their comments rely on it.         *)
(***************************************************************************)
EXTENDS Integers, FiniteSets

CONSTANTS
  Att,      \* attachments: one (container id, interface name) pair each
  SwIf,     \* sw_if_index values VPP may hand out; 0 is VPP's own local0
  SockId,   \* memif socket ids; 0 is VPP's default socket
  BdId,     \* bridge-domain ids
  NoPath    \* no socket file

(***************************************************************************)
(* The socket file of an attachment, as a host path.  Its name is unique   *)
(* to the attachment; its directory is the shared-dir volume of the pod    *)
(* or the default directory of the plugin (GetPodAndSharedDir).            *)
(***************************************************************************)
Path == Att \X {"pod", "default"}

ASSUME VppAssumption ==
  /\ SwIf \subseteq Nat \ {0}
  /\ SockId \subseteq Nat \ {0}
  /\ BdId \subseteq Nat \ {0}
  /\ NoPath \notin Path

(***************************************************************************)
(* An interface: what it is, the socket file and socket id it was created  *)
(* on, whether it is up, whether the configured MTU was applied, and the   *)
(* bridge domain it is in (0: none).                                       *)
(***************************************************************************)
Iface == [kind : {"none", "memif", "vhostuser"},
          path : Path \union {NoPath},
          sid  : SockId \union {0},
          up   : BOOLEAN,
          mtu  : BOOLEAN,
          bd   : BdId \union {0}]

NoIf == [kind |-> "none", path |-> NoPath, sid |-> 0,
         up |-> FALSE, mtu |-> FALSE, bd |-> 0]

NewIf(kind, path, sid) ==
  [kind |-> kind, path |-> path, sid |-> sid,
   up |-> FALSE, mtu |-> FALSE, bd |-> 0]

-----------------------------------------------------------------------------
(* Lookups of cnivpp/api/memif and cnivpp/api/bridge on a dump.            *)

\* The socket ids registered for file p.
SocketsOf(socks, p) == {s \in SockId : socks[s] = p}

\* The lowest socket id no file is registered under, as a set of one id
\* (of none when SockId, a bound of the model, is used up).
LowestUnused(socks) ==
  {s \in SockId : /\ socks[s] = NoPath
                  /\ \A t \in SockId : t < s => socks[t] # NoPath}

\* The memif interfaces on socket id s.
MemifsOn(ifs, s) == {i \in SwIf : ifs[i].kind = "memif" /\ ifs[i].sid = s}

\* The interfaces bridged into domain b.
Members(ifs, b) == {i \in SwIf : ifs[i].bd = b}

-----------------------------------------------------------------------------
(* When VPP accepts a request.                                             *)

\* memif_socket_filename_add_del_v2, add: an id is registered for one file.
CanAddSocket(socks, s, p) == socks[s] \in {NoPath, p}

\* The same, delete: refused while an interface uses the socket.
CanDelSocket(ifs, socks, s) == socks[s] # NoPath /\ MemifsOn(ifs, s) = {}

\* memif_create_v2 with id 0: one interface per (socket, id).
CanCreateMemif(ifs, socks, s) == socks[s] # NoPath /\ MemifsOn(ifs, s) = {}

\* create_vhost_user_if_v2: one interface per socket file.
CanCreateVhost(ifs, p) ==
  \A i \in SwIf : ~(ifs[i].kind = "vhostuser" /\ ifs[i].path = p)

\* The free indexes, any of which VPP may hand out, a freed one included.
FreeIndex(ifs) == {i \in SwIf : ifs[i] = NoIf}

\* Requests about an existing interface of the given kind.
IsKind(ifs, i, kind) == i \in SwIf /\ ifs[i].kind = kind

\* sw_interface_* requests: any interface, local0 (index 0) included.
IsIndex(ifs, i) == i = 0 \/ (i \in SwIf /\ ifs[i].kind # "none")

\* bridge_domain_add_del_v2, delete: refused while it has members.
CanDelBridge(ifs, bds, b) == b \in bds /\ Members(ifs, b) = {}
=============================================================================
