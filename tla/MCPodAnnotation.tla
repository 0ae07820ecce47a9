-------------------------- MODULE MCPodAnnotation --------------------------
(***************************************************************************)
(* Instances of PodAnnotation for TLC: the networks of the pod.            *)
(***************************************************************************)
EXTENDS PodAnnotation, TLC

CONSTANTS s, t   \* sandboxes

\* A memif master on a bridge that is given both by name and by its old id.
Bridged ==
  [engine |-> "vpp", ifType |-> "memif", role |-> "master", netType |-> "bridge",
   bridgeName |-> 7, bridgeId |-> 5, mode |-> "", contMode |-> "", sock |-> ""]

\* One in IP mode without a bridge, two with the same Socketfile, one that is a slave,
\* one whose ends differ, one whose bridge name is not a number.
Routed    == [Bridged EXCEPT !.netType = "interface", !.mode = "ip"]
NamedSock == [Bridged EXCEPT !.bridgeName = 0, !.sock = "memif.sock"]
SameSock  == [NamedSock EXCEPT !.netType = "interface"]
Slave     == [Bridged EXCEPT !.role = "slave"]
TwoModes  == [Bridged EXCEPT !.contMode = "ip"]
TextName  == [Bridged EXCEPT !.bridgeName = Text]
Ovs       == [Bridged EXCEPT !.engine = "ovs-dpdk", !.ifType = "vhostuser", !.role = ""]
Foreign   == [Bridged EXCEPT !.engine = "", !.ifType = "", !.role = "", !.netType = "",
                             !.bridgeName = 0, !.bridgeId = 0]

Net(name, host) == [iface |-> name, host |-> host]

Lists ==
  { <<Net("", Bridged)>>,
    <<Net("", NamedSock)>>,
    <<Net("", TwoModes)>>,
    <<Net("", Slave)>>,
    <<Net("", Foreign), Net("", Bridged)>>,
    <<Net("a", Bridged), Net("b", Routed)>>,
    <<Net("a", NamedSock), Net("b", SameSock)>>,
    <<Net("a", Foreign), Net("b", Ovs), Net("", Bridged)>>,
    <<Net("a", Bridged), Net("b", TextName)>> }

Symmetry == Permutations({s, t})
=============================================================================
