---------------------------- MODULE MCStreamEnvelope ----------------------------
(***************************************************************************)
(* Instances of StreamEnvelope for TLC.                                    *)
(***************************************************************************)
EXTENDS StreamEnvelope, TLC

\* Observers differ in nothing but their state.
Symmetry == Permutations(Observers)
=============================================================================
