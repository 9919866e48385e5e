--------------------------- MODULE MCIkeSaManager ---------------------------
(* Finite instances of IkeSaManager for TLC.                                  *)
EXTENDS IkeSaManagerProps, TLC

CONSTANTS t0, t1, t2, t3, e1, e2, e3, m1, m2, h1, h2

OneWorker    == {t0, t1}
TwoWorkers   == {t0, t1, t2}
ThreeWorkers == {t0, t1, t2, t3}
OneSa        == {e1}
TwoSas       == {e1, e2}
ThreeSas     == {e1, e2, e3}
\* The worker threads are interchangeable, and so are the SAs.
MCSymmetry   == Permutations(Threads \ {Flusher}) \cup Permutations(Sas)
=============================================================================
