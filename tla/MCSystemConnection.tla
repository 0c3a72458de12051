------------------------ MODULE MCSystemConnection ------------------------
(***************************************************************************)
(* Instances of SystemConnection for TLC.                                  *)
(***************************************************************************)
EXTENDS SystemConnection

CONSTANTS p, q

OneHome == [x \in Plugins |-> 1]
=============================================================================
