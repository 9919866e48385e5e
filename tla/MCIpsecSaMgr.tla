---------------------------- MODULE MCIpsecSaMgr ----------------------------
(* Finite instances of IpsecSaMgr for TLC. *)
EXTENDS IpsecSaMgrProps

CONSTANTS t1, t2, t3, t4, a1, a2, a3, s1, s2, s3

In(S)  == [spi : S, inbound : {TRUE}]
Out(S) == [spi : S, inbound : {FALSE}]

\* Four threads and one SA: two may wait while one uses the SA and one removes it.
Crowd == [threads |-> {t1, t2, t3, t4}, addrs |-> {a1}, kinds |-> Out({s1}),
          lives |-> {"none", "hard"}, sas |-> 1]
\* One address for one SA after the other, with expiry jobs left behind.
Reuse == [threads |-> {t1, t2, t3}, addrs |-> {a1}, kinds |-> In({s1}) \cup Out({s2}),
          lives |-> {"soft"}, sas |-> 3]
\* SAs come and go in the list while it is flushed.
Busy  == [threads |-> {t1, t2, t3}, addrs |-> {a1, a2}, kinds |-> Out({s1, s2}),
          lives |-> {"none"}, sas |-> 2]
Long  == [threads |-> {t1, t2}, addrs |-> {a1, a2, a3}, kinds |-> Out({s1, s2, s3}),
          lives |-> {"none"}, sas |-> 3]

MCScenarios == {Crowd, Reuse, Busy, Long}
=============================================================================
