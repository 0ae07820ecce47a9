----------------------------- MODULE MCOvsNode -----------------------------
(***************************************************************************)
(* Instances of OvsNode for TLC: the network configurations.               *)
(***************************************************************************)
EXTENDS OvsNode, TLC

CONSTANTS p, q   \* attachments

\* A server on the default bridge in the pod's volume, with everything else left out.
Plain(pod) ==
  [ifType |-> "vhostuser", client |-> FALSE, netType |-> "bridge", bridge |-> "",
   env |-> {}, cni |-> {}, mac |-> FALSE, sock |-> "", pod |-> pod, volume |-> "plain"]

\* Two pods on one bridge, one of them on a short directory and in client mode.
TwoPods ==
  (p :> Plain(p)) @@
  (q :> [Plain(q) EXCEPT !.bridge = "br0", !.client = TRUE, !.volume = "long", !.mac = TRUE])

\* Two interfaces of one pod in its directory, on bridges of their own.
OnePod ==
  (p :> [Plain(p) EXCEPT !.client = TRUE]) @@ (q :> [Plain(p) EXCEPT !.bridge = "br1"])

\* Two interfaces of one pod under a short directory, one of them an OVN port.
OvnPod ==
  (p :> [Plain(p) EXCEPT !.volume = "long"]) @@
  (q :> [Plain(p) EXCEPT !.volume = "long", !.env = {"ovnPort"}, !.cni = {"ovnPort", "mac"}])

\* Two pods of one network that names the Socketfile: both ports have that name.  One of
\* them has no volume.
SameSocket ==
  (p :> [Plain(p) EXCEPT !.sock = "socket", !.volume = "none"]) @@
  (q :> [Plain(q) EXCEPT !.sock = "socket"])

\* Two interfaces of one pod that both name it.
SamePodSocket ==
  (p :> [Plain(p) EXCEPT !.sock = "socket"]) @@ (q :> [Plain(p) EXCEPT !.sock = "socket"])

\* An OVN port on a bridge that is named, beside a network that is not supported.
OvnNamed ==
  (p :> [Plain(p) EXCEPT !.bridge = "br-int", !.cni = {"ovnPort"}]) @@
  (q :> [Plain(q) EXCEPT !.netType = "interface"])

\* An unknown interface type beside a plain one.
Unknown ==
  (p :> [Plain(p) EXCEPT !.volume = "none"]) @@ (q :> [Plain(q) EXCEPT !.ifType = "other"])

AllConfs == {TwoPods, OnePod, OvnPod, SameSocket, SamePodSocket, OvnNamed, Unknown}
=============================================================================
