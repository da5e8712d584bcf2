------------------------------- MODULE MCCache -------------------------------
(* The keys and entry options of the runs of Cache. *)
EXTENDS Cache, TLC

CONSTANTS k1, k2

Plain == [ttl |-> 1, tags |-> {}]
Tagged == [ttl |-> Never, tags |-> Tags]
Symm == Permutations({k1, k2})
BothOptions == {Plain, Tagged}
=============================================================================
