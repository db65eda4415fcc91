------------------------------ MODULE CacheStore ------------------------------
(***************************************************************************)
(* A cache as the mixin relies on it: what a read may answer and what the  *)
(* operations of a CacheBackend (backends/base.py) may do to its entries.  *)
(***************************************************************************)
CONSTANTS
  Keys,       \* cache keys
  Values,     \* responses that can be stored
  NoEntry     \* the None that get() returns on a miss, not a response

VARIABLE store

(* A read answers with the entry or, fail-safe, with a miss. *)
Get(k, answer) ==
  /\ answer \in {store[k], NoEntry}
  /\ UNCHANGED store

(* A successful write; a bounded backend may evict other entries for it. *)
Put(k, v) ==
  \E kept \in SUBSET (Keys \ {k}) :
    store' = [j \in Keys |-> IF j = k THEN v ELSE
                             IF j \in kept THEN store[j] ELSE NoEntry]

(* A write that returned False or raised left the old entry in place. *)
PutFailed == UNCHANGED store

(* delete, clear, expiry and close only ever remove entries. *)
Lose(gone) ==
  store' = [k \in Keys |-> IF k \in gone THEN NoEntry ELSE store[k]]
==============================================================================
