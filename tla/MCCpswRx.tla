------------------------------ MODULE MCCpswRx ------------------------------
(* Small instances of CpswRx for TLC. *)
EXTENDS CpswRx, TLC

CONSTANTS f1, f2, f3, f4, f5, f6

MCFrames5 == {f1, f2, f3, f4, f5}
MCFrames6 == {f1, f2, f3, f4, f5, f6}

\* Frames are interchangeable.
MCSymmetry == Permutations(Pkts)
=============================================================================
