---------------------------- MODULE MCDomainMap ----------------------------
(* Small instances of DomainMap for TLC. *)
EXTENDS DomainMap, TLC

CONSTANTS d1, j1, j2, c1

MCDomains == {d1}
MCJobs == {j1, j2}
MCCfgs == {c1}

\* A ttl above the limit.
MCTtlOf == [c \in MCCfgs |-> 2]

MCSymmetry == Permutations(MCJobs)
=============================================================================
