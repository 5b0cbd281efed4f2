----------------------------- MODULE MCRepoLock -----------------------------
(* Instances of RepoLock for TLC.                                            *)
EXTENDS RepoLock

CONSTANTS e1, e2, s1, s2, u1, c1

(* The exclusive sessions share one host, the others another one.            *)
TwoHosts == [s \in Session |-> s \in Exclusive]
=============================================================================
