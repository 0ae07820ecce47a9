------------------------------ MODULE MCCniVpp ------------------------------
(***************************************************************************)
(* Instances of CniVpp for TLC: the network configurations of the          *)
(* attachments.                                                            *)
(***************************************************************************)
EXTENDS CniVpp, TLC

CONSTANTS p, q, r   \* attachments

Memif(role, netType, bridgeName, bridgeId, mtu, volume) ==
  [ifType |-> "memif", role |-> role, netType |-> netType,
   bridgeName |-> bridgeName, bridgeId |-> bridgeId, mtu |-> mtu, volume |-> volume]

\* A host master with an MTU on the pod's volume, and a host slave in the
\* default directory, in the same bridge domain.
MemifPair ==
  (p :> Memif("master", "bridge", 0, 1, TRUE, TRUE)) @@
  (q :> Memif("slave", "bridge", 0, 1, FALSE, FALSE))

Other(ifType, role, netType, bridgeName, bridgeId) ==
  [ifType |-> ifType, role |-> role, netType |-> netType,
   bridgeName |-> bridgeName, bridgeId |-> bridgeId, mtu |-> FALSE, volume |-> TRUE]

\* A vhost-user server and an unknown interface type in one bridge domain,
\* beside a vhost-user client without a bridge.
Mixed ==
  (p :> Other("vhostuser", "master", "bridge", 1, 1)) @@
  (q :> Other("vhostuser", "slave", "interface", 0, 0)) @@
  (r :> Other("other", "master", "bridge", 0, 1))

\* A vhost-user server and a memif master, each in a bridge domain of its own.
VhostAndMemif ==
  (p :> Other("vhostuser", "master", "bridge", 0, 1)) @@
  (q :> Memif("master", "bridge", 0, 2, FALSE, TRUE))
=============================================================================
