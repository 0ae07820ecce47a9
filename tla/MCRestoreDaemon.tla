-------------------------- MODULE MCRestoreDaemon --------------------------
(***************************************************************************)
(* Instances of RestoreDaemon for TLC.                                     *)
(***************************************************************************)
EXTENDS RestoreDaemon, TLC

CONSTANTS p, q   \* attachments

\* Two pods on the same hostPath directory.
OwnPod == [a \in Att |-> a]
OneDir == [a \in Att |-> "dir"]

Symmetry == Permutations(Att)
=============================================================================
