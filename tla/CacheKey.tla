------------------------------- MODULE CacheKey -------------------------------
(***************************************************************************)
(* Cache keys (key_generator.py, and _generate_cache_key of mixin.py) as   *)
(* operators.  SHA-256 is taken to be injective, and json.dumps with       *)
(* sorted keys to write equal data equally, so that a key is its namespace *)
(* and the data that is hashed.                                            *)
(*                                                                         *)
(* A Python value is a record with one field, named for its type: [none],  *)
(* [bool], [int], [float] in tenths of a millionth, [str] by its place in  *)
(* the order of strings, [enum] around a value, [object] (a model or a     *)
(* dataclass) and [dict] from names to values, [list], [tuple], [set] as a *)
(* sequence in the order of iteration, and [exotic] for anything else.     *)
(***************************************************************************)
EXTENDS Integers, Sequences, Functions

CONSTANTS
  Space,     \* white space within a text, the rest of which are its words
  Excluded,  \* EXCLUDED_SETTINGS
  Unordered  \* the names, of settings and of fields within them, that hold sets

ASSUME SettingsAssumption == {"voice", "model"} \cap Excluded = {}

None   == [none |-> TRUE]
Exotic == [exotic |-> TRUE]
Is(v, type) == type \in DOMAIN v

-------------------------------------------------------------------------------
(* " ".join(text.strip().split()) *)
NormalizeText(text) == SelectSeq(text, LAMBDA part : part # Space)

(* round(value, 6) *)
Rounded(n) == ((n + 5) \div 10) * 10

One == 10000000

(* Where a number, or a string, comes when it is sorted. *)
Rank(v) ==
  CASE Is(v, "int")  -> v.int * One
    [] Is(v, "bool") -> IF v.bool THEN One ELSE 0
    [] Is(v, "float") -> v.float
    [] Is(v, "str")  -> v.str

IsNumber(v) == Is(v, "int") \/ Is(v, "bool") \/ Is(v, "float")

(* Only numbers, or only strings, can be sorted.  (So can tuples; sets of  *)
(* these are left out.)                                                    *)
Sortable(items) ==
  \/ Len(items) <= 1
  \/ \A i \in DOMAIN items : IsNumber(items[i])
  \/ \A i \in DOMAIN items : Is(items[i], "str")

Ascending(items) ==
  \A i, j \in DOMAIN items : i < j => Rank(items[i]) <= Rank(items[j])

Rearranged(items, p) == [i \in DOMAIN items |-> items[p[i]]]

InOrder(items) ==
  Rearranged(items, CHOOSE p \in Bijection(DOMAIN items, DOMAIN items) :
                      Ascending(Rearranged(items, p)))

IterationOrder(items) == [list |-> items]
Sorted(items) == IF Sortable(items) THEN [list |-> InOrder(items)] ELSE Exotic

(* value.value of an Enum *)
Bare(v) == IF Is(v, "enum") THEN v.enum ELSE v

Each(f, Part(_)) == [x \in DOMAIN f |-> Part(f[x])]

(* Of an object that is neither a model nor a dataclass nothing but its    *)
(* type is known.                                                          *)
TypeOnly(fields) == << >>
Dumped(fields) == fields

(* normalize_value, with the parts of a value by Part.  The calls in the   *)
(* code are recursive; here values are nested three deep at most.          *)
Normalize(v, Part(_)) ==
  LET value == Bare(v)
  IN  CASE Is(value, "float")  -> [float |-> Rounded(value.float)]
        [] Is(value, "object") -> [dict |-> Each(Dumped(value.object), Part)]
        [] Is(value, "dict")   -> [dict |-> Each(value.dict, Part)]
        [] Is(value, "list")   -> [list |-> Each(value.list, Part)]
        [] Is(value, "tuple")  -> [list |-> Each(value.tuple, Part)]
        [] Is(value, "set")    -> Sorted(Each(value.set, Part))
        [] OTHER               -> value

NormalizeFlat(v)    == Normalize(v, LAMBDA part : part)
NormalizeShallow(v) == Normalize(v, NormalizeFlat)
NormalizeValue(v)   == Normalize(v, NormalizeShallow)

(* json.dumps, or sorted before it, does not raise a TypeError. *)
Encodes(v, Part(_)) ==
  CASE Is(v, "dict") -> \A x \in DOMAIN v.dict : Part(v.dict[x])
    [] Is(v, "list") -> \A i \in DOMAIN v.list : Part(v.list[i])
    [] OTHER         -> DOMAIN v \subseteq {"none", "bool", "int", "float", "str"}

EncodesFlat(v)    == Encodes(v, LAMBDA part : FALSE)
EncodesShallow(v) == Encodes(v, EncodesFlat)
Serializable(v)   == Encodes(v, EncodesShallow)

FilterSettings(settings) ==
  [name \in { x \in DOMAIN settings : x \notin Excluded /\ settings[x] # None } |->
     NormalizeValue(settings[name])]

-------------------------------------------------------------------------------
(* _wrapped_service_id: the class of the first service in the MRO that is  *)
(* not itself a cached one; None when there is none.                       *)
WrappedServiceId(mro) ==
  LET services == SelectSeq(mro, LAMBDA class : class.kind = "service")
  IN  IF services = << >> THEN None ELSE [str |-> services[1].id]

(* key_data["provider"] = provider, when there is one *)
NoProvider(data, provider) == data
WithProvider(data, provider) ==
  IF provider = None THEN data
  ELSE [x \in DOMAIN data \cup {"provider"} |-> IF x = "provider" THEN provider ELSE data[x]]

KeyError == [raises |-> TRUE]

(* generate_cache_key of a text for a service with this profile: its MRO,  *)
(* settings and sample rate, and the namespace of its cache.               *)
GenerateKey(profile, text) ==
  LET given    == profile.settings
      Given(name) == IF name \in DOMAIN given THEN given[name] ELSE None
      settings == FilterSettings([x \in DOMAIN given \ {"voice", "model"} |-> given[x]])
      words    == NormalizeText(text)
      raises   == \/ words = << >>
                  \/ ~Serializable(Given("voice")) \/ ~Serializable(Given("model"))
                  \/ \E x \in DOMAIN settings : ~Serializable(settings[x])
  IN  IF raises
      THEN KeyError
      ELSE [namespace |-> profile.namespace,
            data |-> WithProvider(
                       [text |-> words, voice |-> Given("voice"), model |-> Given("model"),
                        rate |-> profile.rate, settings |-> settings],
                       WrappedServiceId(profile.mro))]

-------------------------------------------------------------------------------
(* The reference: when two requests ask for the same speech.  Numbers that *)
(* differ by less than half a millionth are the same, as long as nobody    *)
(* uses one in the middle between two millionths.                          *)

Fields(v) == IF Is(v, "dict") THEN v.dict ELSE v.object
Items(v)  == IF Is(v, "list") THEN v.list ELSE v.tuple

Close(m, n) == m - n \in -4..4

SameAs(v, w, Part(_, _)) ==
  LET a == Bare(v)
      b == Bare(w)
      SameParts(f, g) ==
        DOMAIN f = DOMAIN g /\ \A x \in DOMAIN f : Part(f[x], g[x])
      Both(types) == DOMAIN a \cup DOMAIN b \subseteq types
  IN  CASE Both({"float"}) -> Close(a.float, b.float)
        [] Both({"object", "dict"}) -> SameParts(Fields(a), Fields(b))
        [] Both({"list", "tuple"}) -> SameParts(Items(a), Items(b))
        [] Both({"set"}) ->
             /\ Len(a.set) = Len(b.set)
             /\ \A i \in DOMAIN a.set : \E j \in DOMAIN b.set : Part(a.set[i], b.set[j])
        [] OTHER -> a = b

SameFlat(v, w)    == SameAs(v, w, LAMBDA x, y : x = y)
SameShallow(v, w) == SameAs(v, w, SameFlat)
Same(v, w)        == SameAs(v, w, SameShallow)

SameSpeech(p, text1, q, text2) ==
  LET Asked(s) == { x \in DOMAIN s : x \notin Excluded /\ s[x] # None }
  IN  /\ p.namespace = q.namespace
      /\ NormalizeText(text1) = NormalizeText(text2)
      /\ p.rate = q.rate
      /\ WrappedServiceId(p.mro) = WrappedServiceId(q.mro)
      /\ Asked(p.settings) = Asked(q.settings)
      /\ \A x \in Asked(p.settings) : Same(p.settings[x], q.settings[x])

-------------------------------------------------------------------------------
(* The settings that services use: what the reference takes for granted,   *)
(* and the theorems about keys assume.                                     *)

(* A number is a whole number of millionths, but for an error of its       *)
(* representation.                                                         *)
Settled(n) == (n + 2) % 10 <= 4

Scalars ==
  [none : {TRUE}] \cup [bool : BOOLEAN] \cup [int : Int] \cup [str : Int]
  \cup {Exotic}

HasFields(v) == DOMAIN v = {"object"} \/ DOMAIN v = {"dict"}
HasItems(v)  == DOMAIN v = {"list"} \/ DOMAIN v = {"tuple"}
IsSet(v)     == DOMAIN v = {"set"}

(* A setting does not hold a set in one request and a list in another one: *)
(* the two are normalized alike.                                           *)
Typed(name, v) ==
  IF name \in Unordered THEN ~HasItems(Bare(v)) ELSE ~IsSet(Bare(v))

(* No two items of a set are the same number or the same string.  (Of 1    *)
(* and 1.0000001 a stable sort keeps the order in which they came.)        *)
Apart(v, w) ==
  LET a == Bare(v)
      b == Bare(w)
  IN  /\ IsNumber(a) /\ IsNumber(b) => ~Close(Rank(a), Rank(b))
      /\ Is(a, "str") /\ Is(b, "str") => a.str # b.str

UsualItems(items, Part(_)) ==
  /\ items \in Seq(Range(items))
  /\ \A i \in DOMAIN items : Part(items[i]) /\ ~IsSet(Bare(items[i]))

Usual(v, Part(_)) ==
  LET a == Bare(v)
  IN  \/ a \in Scalars
      \/ a \in [float : Int] /\ Settled(a.float)
      \/ /\ HasFields(a)
         /\ a = [x \in DOMAIN a |-> a[x]]
         /\ Fields(a) \in [DOMAIN Fields(a) -> Range(Fields(a))]
         /\ \A x \in DOMAIN Fields(a) : Part(Fields(a)[x]) /\ Typed(x, Fields(a)[x])
      \/ HasItems(a) /\ a = [x \in DOMAIN a |-> a[x]] /\ UsualItems(Items(a), Part)
      \/ /\ IsSet(a) /\ a = [x \in DOMAIN a |-> a[x]]
         /\ UsualItems(a.set, Part)
         /\ \A i, j \in DOMAIN a.set : i # j => Apart(a.set[i], a.set[j])

UsualFlat(v)    == Usual(v, LAMBDA part : TRUE)
UsualShallow(v) == Usual(v, UsualFlat)
UsualValue(v)   == Usual(v, UsualShallow)

(* A voice and a model are names. *)
UsualSettings(settings) ==
  \A x \in DOMAIN settings :
    IF x \in {"voice", "model"}
    THEN settings[x] = None \/ settings[x] \in [str : Int]
    ELSE UsualValue(settings[x]) /\ Typed(x, settings[x])
==============================================================================
