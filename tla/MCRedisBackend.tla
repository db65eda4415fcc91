---------------------------- MODULE MCRedisBackend ----------------------------
(***************************************************************************)
(* A small instance of RedisBackend: two concurrent calls, a key that the  *)
(* pattern of a namespace matches and one that it does not.                *)
(***************************************************************************)
EXTENDS RedisBackend

CONSTANTS inside, outside

MCMatched == [n \in Namespaces |-> {inside}]

(* None, half a second and two and a half. *)
MCTtls == { -10, 5, 25 }
==============================================================================
