----------------------------- MODULE MCDiskBackend -----------------------------
(***************************************************************************)
(* A small instance of DiskBackend: two threads, of one process or of two, *)
(* a key inside and a key outside the namespace that is cleared.           *)
(***************************************************************************)
EXTENDS DiskBackend, TLC

CONSTANTS inside, outside

MCHomes == [Workers -> Instances]

(* The run has no liveness property. *)
MCSymmetry == Permutations(Values) \cup Permutations(Workers) \cup Permutations(Instances)

MCPrefixed == [n \in Namespaces |-> {inside}]

(* "No expiry", and one second. *)
MCTtls == { -1, 1 }
==============================================================================
