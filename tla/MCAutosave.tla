----------------------------- MODULE MCAutosave -----------------------------
(* Small instances of Autosave for TLC.                                     *)
EXTENDS Autosave, TLC

\* Every operation has the same size.
MCUnitBytes == [op \in Ops |-> 1]

\* Operations of one class are interchangeable while their sizes agree.
MCSymmetry == Permutations(DirectOps) \cup Permutations(ControlOps)
                \cup Permutations(IntentOps) \cup Permutations(CaptureOps)
=============================================================================
