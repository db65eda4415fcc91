--------------------------- MODULE MCMemoryBackend ---------------------------
(***************************************************************************)
(* A small instance of MemoryBackend: keys without a namespace, in the     *)
(* namespace "bot" and in the namespace "bot:eu".                          *)
(***************************************************************************)
EXTENDS MemoryBackend

MCKeys == { [namespace |-> << >>, digest |-> 1],
            [namespace |-> << "bot" >>, digest |-> 1],
            [namespace |-> << "bot", "eu" >>, digest |-> 1] }

(* "No expiry", and one second. *)
MCTtls == { -1, 1 }

MCNamespaces == { << "bot" >>, << "bot", "eu" >> }
==============================================================================
