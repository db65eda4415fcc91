---------------------------- MODULE MemoryBackend ----------------------------
(***************************************************************************)
(* MemoryCacheBackend (backends/memory.py): an OrderedDict with a size     *)
(* limit and per-entry expiry.  Every operation runs to its end inside the *)
(* asyncio lock without another await, so each is one action.              *)
(*                                                                         *)
(* A key is [namespace, digest] with the namespace a sequence of segments: *)
(* <<"bot", "eu">> stands for the string "bot:eu", << >> for no namespace. *)
(***************************************************************************)
EXTENDS Integers, Sequences, FiniteSets

CONSTANTS
  Keys, Values, NoEntry,
  Namespaces,  \* namespaces handed to clear
  MaxSize,     \* max_size, any integer
  Ttls,        \* values of ttl; 0 and less stand for None
  MaxTime,     \* bound: the clock
  MaxUses      \* bound: sets and hits

ASSUME MemoryAssumption ==
  /\ MaxSize \in Int
  /\ Ttls \subseteq Int
  /\ MaxTime \in Nat
  /\ MaxUses \in Nat
  /\ NoEntry \notin Values

VARIABLES
  cache,    \* _cache without its order: key to [value, expiry]
  older,    \* the order of _cache: << a, b >> when a comes before b
  now,      \* time.time()
  answered, \* the get or set that ended last, for the properties
  uses,     \* sets and hits so far
  used,     \* for each key, the number of its last use, 0 when never used
  kept      \* for each key, what was last set and not removed or expired

history == << uses, used, kept >>
vars == << cache, older, now, answered, history >>

Entry == [value : Values, expiry : Nat]

ASSUME EntryAssumption == NoEntry \notin Entry

(* What a get answered, that a set was done, or that neither was called. *)
NoAnswer == [op |-> "none"]
GetAnswer(k, answer) == [op |-> "get", key |-> k, answer |-> answer]
SetAnswer(k, v) == [op |-> "done", key |-> k, value |-> v]
Answer == {NoAnswer}
          \cup { GetAnswer(k, v) : k \in Keys, v \in Values \cup {NoEntry} }
          \cup { SetAnswer(k, v) : k \in Keys, v \in Values }

(* max(1, max_size) *)
Capacity == IF MaxSize > 1 THEN MaxSize ELSE 1

TypeOK ==
  /\ DOMAIN cache \subseteq Keys
  /\ cache \in [DOMAIN cache -> Entry]
  /\ older \subseteq Keys \X Keys
  /\ now \in 0..MaxTime
  /\ answered \in Answer
  /\ uses \in 0..MaxUses
  /\ used \in [Keys -> 0..MaxUses]
  /\ kept \in [Keys -> Entry \cup {NoEntry}]

Init ==
  /\ cache = [k \in {} |-> NoEntry]
  /\ older = {}
  /\ now = 0
  /\ answered = NoAnswer
  /\ uses = 0
  /\ used = [k \in Keys |-> 0]
  /\ kept = [k \in Keys |-> NoEntry]

-------------------------------------------------------------------------------
Cached(k) == k \in DOMAIN cache

(* expiry > 0 and time.time() > expiry *)
Unexpiring(entry) == FALSE
ExpiredAtExpiry(entry) == entry.expiry > 0 /\ now >= entry.expiry
Expired(entry) == entry.expiry > 0 /\ now > entry.expiry

(* ttl <= 0 (and None) means no expiry. *)
ExpiryUnguarded(ttl) == now + ttl
ExpiryOf(ttl) == IF ttl > 0 THEN now + ttl ELSE 0

(* del self._cache[k] for the keys that go *)
Without(gone) == [k \in DOMAIN cache \ gone |-> cache[k]]
OrderWithout(gone) == { pair \in older : pair[1] \notin gone /\ pair[2] \notin gone }

(* move_to_end(k), where `present' are the keys of the dict *)
InPlace(k, present) ==
  { pair \in older : pair[1] \in present /\ pair[2] \in present }
  \cup { << j, k >> : j \in IF k \in DOMAIN cache THEN {} ELSE present \ {k} }
MovedToEnd(k, present) ==
  { pair \in older : pair[1] \in present \ {k} /\ pair[2] \in present \ {k} }
  \cup { << j, k >> : j \in present \ {k} }

(* The item popitem takes. *)
Newest == { k \in DOMAIN cache : \A j \in DOMAIN cache \ {k} : << j, k >> \in older }
Oldest == { k \in DOMAIN cache : \A j \in DOMAIN cache \ {k} : << k, j >> \in older }

Use(k) == uses < MaxUses /\ uses' = uses + 1 /\ used' = [used EXCEPT ![k] = uses']

Forget(gone) == kept' = [k \in Keys |-> IF k \in gone THEN NoEntry ELSE kept[k]]

-------------------------------------------------------------------------------
GetHit(k) ==
  /\ Cached(k) /\ ~Expired(cache[k])
  /\ answered' = GetAnswer(k, cache[k].value)
  /\ older' = MovedToEnd(k, DOMAIN cache)
  /\ Use(k)
  /\ UNCHANGED << cache, now, kept >>

(* An expired entry is deleted by the get that finds it. *)
GetMiss(k) ==
  /\ Cached(k) => Expired(cache[k])
  /\ answered' = GetAnswer(k, NoEntry)
  /\ cache' = Without({k})
  /\ older' = OrderWithout({k})
  /\ Forget({k} \cap DOMAIN cache)
  /\ UNCHANGED << now, uses, used >>

(* A new key makes room by popping the first item of a full dict. *)
NeedsRoomOverfull(k) == Cardinality(DOMAIN cache) > Capacity /\ ~Cached(k)
NeedsRoom(k) == Cardinality(DOMAIN cache) >= Capacity /\ ~Cached(k)

(* self._cache[k] = (response, expiry) *)
WrittenToAll(present, k, entry) == [j \in present |-> entry]
Written(present, k, entry) ==
  [j \in present |-> IF j = k THEN entry ELSE cache[j]]

Set(k, v, ttl) ==
  LET out     == IF NeedsRoom(k) THEN Oldest ELSE {}
      present == (DOMAIN cache \ out) \cup {k}
      entry   == [value |-> v, expiry |-> ExpiryOf(ttl)]
  IN  /\ Use(k)
      /\ cache' = Written(present, k, entry)
      /\ older' = MovedToEnd(k, present)
      /\ kept' = [kept EXCEPT ![k] = entry]
      /\ answered' = SetAnswer(k, v)
      /\ UNCHANGED now

Delete(k) ==
  /\ Cached(k)
  /\ answered' = NoAnswer
  /\ cache' = Without({k})
  /\ older' = OrderWithout({k})
  /\ Forget({k})
  /\ UNCHANGED << now, uses, used >>

(* clear() without a namespace, and close() *)
Clear ==
  /\ answered' = NoAnswer
  /\ cache' = Without(DOMAIN cache)
  /\ older' = {}
  /\ Forget(Keys)
  /\ UNCHANGED << now, uses, used >>

(* k.startswith(f"{namespace}:") *)
StartsWith(k, namespace) ==
  /\ Len(namespace) <= Len(k.namespace)
  /\ SubSeq(k.namespace, 1, Len(namespace)) = namespace

ClearNamespace(namespace) ==
  LET gone == { k \in DOMAIN cache : StartsWith(k, namespace) }
  IN  /\ answered' = NoAnswer
      /\ cache' = Without(gone)
      /\ older' = OrderWithout(gone)
      /\ Forget(gone)
      /\ UNCHANGED << now, uses, used >>

(* exists deletes an expired entry, and does not count as a use. *)
Exists(k) ==
  LET gone == { j \in {k} : Cached(j) /\ Expired(cache[j]) }
  IN  /\ answered' = NoAnswer
      /\ cache' = Without(gone)
      /\ older' = OrderWithout(gone)
      /\ Forget(gone)
      /\ UNCHANGED << now, uses, used >>

Tick ==
  /\ now < MaxTime
  /\ now' = now + 1
  /\ answered' = NoAnswer
  /\ UNCHANGED << cache, older, history >>

Next ==
  \/ \E k \in Keys : GetHit(k)
  \/ \E k \in Keys : GetMiss(k)
  \/ \E k \in Keys, v \in Values, ttl \in Ttls : Set(k, v, ttl)
  \/ \E k \in Keys : Delete(k)
  \/ Clear
  \/ \E namespace \in Namespaces : ClearNamespace(namespace)
  \/ \E k \in Keys : Exists(k)
  \/ Tick

Spec == Init /\ [][Next]_vars

-------------------------------------------------------------------------------
(***************************************************************************)
(* The dict never outgrows max(1, max_size), whatever sets, expiries and   *)
(* clears come before (set pops one item, and only for a new key).         *)
(***************************************************************************)
WithinCapacity == Cardinality(DOMAIN cache) <= Capacity

(***************************************************************************)
(* Of two entries the one nearer to eviction was used longer ago: gets,    *)
(* overwrites and removals keep the order of _cache the order of use, and  *)
(* exists leaves it alone.                                                 *)
(***************************************************************************)
OrderedByUse ==
  older = { pair \in (DOMAIN cache) \X (DOMAIN cache) : used[pair[1]] < used[pair[2]] }

(***************************************************************************)
(* Least recently used: an entry that was set and not removed or found     *)
(* expired is still there, with its value, as long as fewer keys than the  *)
(* capacity have been used since it was.                                   *)
(***************************************************************************)
MoreRecent(k) == { j \in Keys : used[j] > used[k] }

LruGuarantee ==
  \A k \in Keys :
    kept[k] # NoEntry /\ Cardinality(MoreRecent(k)) < Capacity =>
      Cached(k) /\ cache[k] = kept[k]

(***************************************************************************)
(* A get answers with the response last set for its key, up to and at its  *)
(* expiry, unless that was removed; and it misses such a response only     *)
(* when as many other keys as fit have been used since (get, set).         *)
(***************************************************************************)
InTime(entry) == entry.expiry = 0 \/ now <= entry.expiry

GetReturnsLastSet ==
  [][\A k \in Keys :
       /\ GetHit(k) => kept[k] # NoEntry /\ InTime(kept[k])
                         /\ answered'.answer = kept[k].value
       /\ GetMiss(k) => \/ kept[k] = NoEntry \/ ~InTime(kept[k])
                         \/ Cardinality(MoreRecent(k)) >= Capacity]_vars

(***************************************************************************)
(* The backend keeps the promise of CacheBackend (base.py): a get answers  *)
(* with nothing that no set put there or that was replaced, deleted,       *)
(* cleared, evicted or past its expiry, and only a set adds an entry, one  *)
(* at a time.                                                              *)
(***************************************************************************)
Client == "client"

Contract ==
  INSTANCE CacheContract
    WITH Clients <- {Client},
         store <- [k \in Keys |-> IF Cached(k) /\ InTime(cache[k])
                                   THEN cache[k].value ELSE NoEntry],
         calls <- [c \in {Client} |-> answered]

ImplementsContract == Contract!Spec
==============================================================================
