---------------------------- MODULE MCSharedCache ----------------------------
(***************************************************************************)
(* SharedCache with the keys of CacheKey: profiles that differ from a      *)
(* common one in one or two respects.                                      *)
(***************************************************************************)
EXTENDS SharedCache, CacheKey, TLC

Cartesia == [kind |-> "service", id |-> 1]
Google   == [kind |-> "service", id |-> 2]
Mixed    == [kind |-> "other", id |-> 3]
Cached   == [kind |-> "cached", id |-> 4]

Ints(a, b) == << [int |-> a], [int |-> b] >>

Base == [namespace |-> "", mro |-> << Cached, Cartesia >>, rate |-> 16,
         settings |-> [voice |-> [str |-> 1], speed |-> [float |-> 10000000],
                       phonemes |-> [set |-> Ints(1, 2)]]]

Setting(p, name, v) ==
  [p EXCEPT !.settings = [x \in {name} |-> v] @@ @]

Config(speed, order) == [speed |-> [float |-> speed], order |-> order]

(* The ways to differ. *)
Variants(p) ==
  { [p EXCEPT !.namespace = "bot"],
    [p EXCEPT !.rate = 24],
    [p EXCEPT !.mro = << Cached, Google >>],
    [p EXCEPT !.mro = << Cached, Mixed, Cartesia >>],
    [p EXCEPT !.mro = << Cached, Cached, Google, Cartesia >>] }
  \cup { Setting(p, "voice", v) : v \in { [str |-> 2], None } }
  \cup { Setting(p, "model", v) : v \in { [str |-> 1], None } }
  \cup { Setting(p, "speed", v) : v \in
           { [float |-> 10000002], [float |-> 10000012], [int |-> 1], [bool |-> TRUE], None } }
  \cup { Setting(p, "phonemes", [set |-> v]) : v \in
           { Ints(2, 1), Ints(1, 3), << [int |-> 1] >>, << [int |-> 1], [str |-> 1] >>,
             << [int |-> 2], [float |-> 10000000] >> } }
  \cup { Setting(p, "style", v) : v \in { [str |-> 1], [enum |-> [str |-> 1]] } }
  \cup { Setting(p, "config", v) : v \in
           { [object |-> Config(2, [list |-> Ints(1, 2)])],
             [dict |-> Config(1, [tuple |-> Ints(1, 2)])],
             [dict |-> Config(2, [tuple |-> Ints(2, 1)])],
             [dict |-> Config(50, [list |-> Ints(1, 2)])],
             [dict |-> Config(2, Exotic)],
             [dict |-> [speed |-> [enum |-> [float |-> 1]],
                        order |-> [list |-> << [enum |-> [int |-> 1]], [int |-> 2] >>]]],
             [object |-> [speed |-> [float |-> 2]]] } }
  \cup { Setting(p, "api_key", [str |-> n]) : n \in {1, 2} }

AtStart == {Base} \cup Variants(Base)
           \cup Variants([Base EXCEPT !.mro = << Cached, Google >>])

(* One service is the common one, or has a model among its settings; the   *)
(* other is any of the variants.                                           *)
MCStarts(s) ==
  IF s = "a"
  THEN {Base, Setting(Base, "config", [object |-> Config(2, [list |-> Ints(1, 2)])])}
  ELSE AtStart

(* Another speed. *)
MCChanged(p) == { Setting(p, "speed", [float |-> 10000012]) }

MCProfiles == AtStart \cup UNION { MCChanged(p) : p \in AtStart }

MCTexts == { << "hello", "world" >>, << Space, "hello", Space, Space, "world" >>,
             << "hello" >>, << Space >> }

(* The profiles are of the kind that the theorems about keys are for. *)
ASSUME ProfilesUsual == \A p \in MCProfiles : UsualSettings(p.settings)

KeyTable == [p \in MCProfiles |-> [text \in MCTexts |-> GenerateKey(p, text)]]
MCKey(p, text) == KeyTable[p][text]
MCAlike(r, q) == SameSpeech(r.profile, r.text, q.profile, q.text)
==============================================================================
