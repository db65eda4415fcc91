--------------------------- MODULE MCTTSCacheMixin ---------------------------
(***************************************************************************)
(* Small instances of TTSCacheMixin: texts of one and of two words, a text *)
(* the service counts differently from _parse_words_from_text, and one     *)
(* whose key cannot be generated.                                          *)
(***************************************************************************)
EXTENDS TTSCacheMixin

MCWords == [t \in Texts |-> IF t \in {"pair", "odd"} THEN 2 ELSE 1]

(* The two words of "odd", say "well-known", are parsed as one. *)
MCParsed == [t \in Texts |-> IF t = "pair" THEN 2 ELSE 1]

(* "yes" is preceded by a sample of silence. *)
MCLead == [t \in Texts |-> IF t = "yes" THEN 1 ELSE 0]

==============================================================================
