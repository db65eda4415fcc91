---------------------------- MODULE CacheContract ----------------------------
(***************************************************************************)
(* What every CacheBackend promises its clients (backends/base.py): a      *)
(* response is stored under a key only by a set that was called with that  *)
(* key and that response, once for each such call and while it runs;       *)
(* entries may be lost at any time, and one that was lost, replaced or     *)
(* found expired does not come back; and a get answers with what was       *)
(* stored under its key at some moment of the call, or with a miss.        *)
(*                                                                         *)
(* calls[c] is what client c has called.  A set of a backend that needs no *)
(* await is only seen when it is done.                                     *)
(***************************************************************************)
EXTENDS CacheStore

CONSTANT Clients

VARIABLE calls

NoCall == [op |-> "none"]
Getting(k, answer) == [op |-> "get", key |-> k, answer |-> answer]
Setting(k, v) == [op |-> "set", key |-> k, value |-> v]
SetDone(k, v) == [op |-> "done", key |-> k, value |-> v]

Init ==
  /\ store = [k \in Keys |-> NoEntry]
  /\ calls = [c \in Clients |-> NoCall]

(* A call that begins, goes on or ends, a set among them that fails.  The  *)
(* answer of a get is found, or found to have expired, at this moment.     *)
Moves(c) ==
  \/ calls'[c] \in {calls[c], NoCall}
  \/ \E k \in Keys, v \in Values :
       calls[c].op # "set" /\ calls'[c] = Setting(k, v)
  \/ \E k \in Keys :
       \E answer \in {store[k], NoEntry} : calls'[c] = Getting(k, answer)

(* The write of a set that was called before, and ends with it. *)
SetLater(c) ==
  \E k \in Keys, v \in Values :
    calls[c] = Setting(k, v) /\ calls'[c] = NoCall /\ Put(k, v)

(* A set that is called and done in one step. *)
SetAtOnce(c) ==
  \E k \in Keys, v \in Values :
    /\ calls[c].op # "set"
    /\ calls'[c] = SetDone(k, v) /\ calls'[c] # calls[c]
    /\ Put(k, v)

Next ==
  /\ DOMAIN calls' = Clients
  /\ \/ /\ \E gone \in SUBSET Keys : Lose(gone)
        /\ \A c \in Clients : Moves(c)
     \/ \E c \in Clients :
          /\ SetLater(c) \/ SetAtOnce(c)
          /\ \A d \in Clients \ {c} : Moves(d)

Spec == Init /\ [][Next]_<< store, calls >>
==============================================================================
