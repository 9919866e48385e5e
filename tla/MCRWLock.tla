------------------------------ MODULE MCRWLock ------------------------------
(* Finite instances of RWLock for TLC.                                        *)
EXTENDS RWLockProps, TLC

CONSTANTS t1, t2, t3

MCThreads == {t1, t2, t3}
MCSymmetry == Permutations(MCThreads)
=============================================================================
