-------------------------- MODULE SharedCache_proofs --------------------------
(***************************************************************************)
(* Proofs about SharedCache, for every number of services, requests and    *)
(* changes of settings, and about the keys of CacheKey.                    *)
(***************************************************************************)
EXTENDS SharedCache, CacheKey, SequenceLemmas

(* A call that waits for the cache was keyed with the settings its service *)
(* had then, and still has if none have changed.                           *)
CallsKeyed ==
  \A s \in Services :
    call[s] # NoCall =>
      /\ IsCall(call[s])
      /\ call[s].key = KeyOf(call[s].request)
      /\ call[s].changed \/ call[s].request.profile = profile[s]

(* Speech under the key it was looked up with; it was made for the request *)
(* it was looked up for, unless the settings changed meanwhile.            *)
Keyed(k, v) ==
  /\ v \in Speech
  /\ k = KeyOf(v.asked) /\ k # NoKey
  /\ v.changed \/ v.made = v.asked

KeyedTask == [speech : Speech, key : { KeyOf(r) : r \in Requests }]

TasksKeyed ==
  /\ tasks \in [Services -> Seq(KeyedTask)]
  /\ \A s \in Services : \A i \in DOMAIN tasks[s] : Keyed(tasks[s][i].key, tasks[s][i].speech)

CacheKeyed ==
  /\ cache \in [DOMAIN cache -> Speech]
  /\ \A k \in DOMAIN cache : Keyed(k, cache[k])

(* What was heard was stored under the key of what was asked.               *)
HeardKeyed ==
  /\ heard \in [Services -> Replay \cup {NoEntry}]
  /\ \A s \in Services :
       heard[s] # NoEntry => Keyed(KeyOf(heard[s].asked), heard[s].speech)

Counted ==
  /\ profile \in [Services -> Profiles]
  /\ DOMAIN call = Services /\ call = [s \in Services |-> call[s]]
  /\ requests \in 0..MaxRequests
  /\ updates \in 0..MaxUpdates

SharedInv == CallsKeyed /\ TasksKeyed /\ CacheKeyed /\ HeardKeyed /\ Counted

(* The first states satisfy it. *)
LEMMA InitShared == Init => SharedInv
<1> SUFFICES ASSUME Init PROVE SharedInv
  OBVIOUS
<1>1. CallsKeyed /\ Counted
  BY SharedAssumption DEF Init, CallsKeyed, Counted
<1>2. TasksKeyed
  BY DEF Init, TasksKeyed
<1>3. CacheKeyed /\ HeardKeyed
  BY DEF Init, CacheKeyed, HeardKeyed
<1> QED
  BY <1>1, <1>2, <1>3 DEF SharedInv

(* And every step keeps it. *)
LEMMA NextShared ==
  ASSUME SharedInv, [Next]_vars PROVE SharedInv'
<1> USE DEF SharedInv
<1>1. ASSUME NEW s \in Services, NEW text \in Texts, Request(s, text) PROVE SharedInv'
  <2> DEFINE r == [profile |-> profile[s], text |-> text]
             c == [request |-> r, key |-> KeyOf(r), changed |-> FALSE]
  <2>1. r \in Requests
    BY DEF Requests, Counted
  <2>2. /\ KeyOf(r) # NoKey
        /\ call' = [call EXCEPT ![s] = c]
        /\ UNCHANGED << profile, tasks, cache, heard, updates >>
        /\ requests' \in 0..MaxRequests
    BY <1>1, SharedAssumption DEF Request, Cacheable, Counted
  <2>3. /\ call'[s] = c
        /\ \A u \in Services \ {s} : call'[u] = call[u]
        /\ DOMAIN call' = Services /\ call' = [u \in Services |-> call'[u]]
    BY <2>2 DEF Counted
  <2>4. CallsKeyed'
    <3> HIDE DEF r
    <3>1. /\ call'[s].request = r /\ call'[s].key = KeyOf(r) /\ call'[s].changed = FALSE
          /\ DOMAIN call'[s] = {"request", "key", "changed"}
      BY <2>3
    <3>2. r.profile = profile[s]
      BY DEF r
    <3> QED
      BY <2>1, <2>2, <2>3, <3>1, <3>2 DEF CallsKeyed, IsCall
  <2> QED
    BY <2>2, <2>3, <2>4 DEF TasksKeyed, CacheKeyed, HeardKeyed, Counted
<1>2. ASSUME NEW s \in Services, Hit(s) PROVE SharedInv'
  <2> DEFINE replay == [asked |-> call[s].request, speech |-> cache[call[s].key]]
  <2>1. /\ IsCall(call[s]) /\ call[s].key = KeyOf(call[s].request)
        /\ call[s].key \in DOMAIN cache
    BY <1>2 DEF Hit, CallsKeyed
  <2>2. replay \in Replay /\ Keyed(KeyOf(replay.asked), replay.speech)
    BY <2>1 DEF CacheKeyed, Keyed, IsCall, Replay
  <2>3. HeardKeyed'
    <3> HIDE DEF replay
    <3>1. heard' = [heard EXCEPT ![s] = replay]
      BY <1>2 DEF Hit, replay
    <3> QED
      BY <2>2, <3>1 DEF HeardKeyed
  <2>4. /\ call'[s] = NoCall /\ \A u \in Services \ {s} : call'[u] = call[u]
        /\ DOMAIN call' = Services /\ call' = [u \in Services |-> call'[u]]
    BY <1>2 DEF Hit, Counted
  <2>5. CallsKeyed'
    BY <1>2, <2>4 DEF Hit, CallsKeyed
  <2> QED
    BY <1>2, <2>3, <2>4, <2>5 DEF Hit, TasksKeyed, CacheKeyed, Counted
<1>3. ASSUME NEW s \in Services, Miss(s) PROVE SharedInv'
  <2> DEFINE asked == call[s].request
             speech == [asked |-> asked, made |-> [profile |-> profile[s], text |-> asked.text],
                        changed |-> call[s].changed]
             task == [speech |-> speech, key |-> call[s].key]
  <2>1. /\ IsCall(call[s]) /\ call[s].key = KeyOf(call[s].request)
        /\ call[s].changed \/ call[s].request.profile = profile[s]
    BY <1>3 DEF Miss, CallsKeyed
  <2>2. /\ speech \in Speech
        /\ speech.changed \/ speech.made = speech.asked
    BY <2>1 DEF IsCall, Requests, Speech, Counted
  <2>3. task \in KeyedTask /\ Keyed(task.key, task.speech)
    <3>1. call[s].key = KeyOf(speech.asked) /\ call[s].key # NoKey /\ speech.asked \in Requests
      BY <2>1 DEF IsCall
    <3> HIDE DEF speech
    <3> QED
      BY <2>2, <3>1 DEF KeyedTask, Keyed
  <2>4. tasks' = [tasks EXCEPT ![s] = Append(@, task)] /\ tasks \in [Services -> Seq(KeyedTask)]
    BY <1>3 DEF Miss, TasksKeyed
  <2>5. tasks' \in [Services -> Seq(KeyedTask)]
    <3> HIDE DEF task
    <3> QED
      BY <2>3, <2>4
  <2>6. ASSUME NEW u \in Services, NEW i \in DOMAIN tasks'[u]
        PROVE  Keyed(tasks'[u][i].key, tasks'[u][i].speech)
    <3>1. CASE u # s
      BY <2>4, <2>6, <3>1 DEF TasksKeyed
    <3>2. CASE u = s
      <4>1. tasks'[s] = Append(tasks[s], task) /\ tasks[s] \in Seq(KeyedTask)
        BY <2>4
      <4> HIDE DEF task
      <4>2. CASE i \in DOMAIN tasks[s]
        <5>1. tasks'[s][i] = tasks[s][i]
          BY <4>1, <4>2
        <5> QED
          BY <3>2, <4>2, <5>1 DEF TasksKeyed
      <4>3. CASE i \notin DOMAIN tasks[s]
        <5>1. tasks'[s][i] = task
          BY <2>6, <3>2, <4>1, <4>3
        <5> QED
          BY <2>3, <3>2, <5>1
      <4> QED
        BY <4>2, <4>3
    <3> QED
      BY <3>1, <3>2
  <2>7. TasksKeyed'
    BY <2>5, <2>6 DEF TasksKeyed
  <2>8. /\ call'[s] = NoCall /\ \A u \in Services \ {s} : call'[u] = call[u]
        /\ DOMAIN call' = Services /\ call' = [u \in Services |-> call'[u]]
    BY <1>3 DEF Miss, Counted
  <2>9. CallsKeyed'
    BY <1>3, <2>8 DEF Miss, CallsKeyed
  <2> QED
    BY <1>3, <2>7, <2>8, <2>9 DEF Miss, CacheKeyed, HeardKeyed, Counted
<1>4. ASSUME NEW s \in Services, Store(s) PROVE SharedInv'
  <2> DEFINE task == Head(tasks[s])
  <2>1. tasks[s] \in Seq(KeyedTask) /\ tasks[s] # << >>
    BY <1>4 DEF Store, TasksKeyed
  <2>2. 1 \in DOMAIN tasks[s] /\ task = tasks[s][1] /\ task \in KeyedTask
    BY <2>1
  <2>3. Keyed(task.key, task.speech)
    BY <2>2 DEF TasksKeyed
  <2>4. CacheKeyed'
    <3>1. CASE cache' = With(task.key, task.speech)
      <4> HIDE DEF task
      <4> QED
        BY <2>3, <3>1 DEF With, CacheKeyed, Keyed
    <3>2. CASE cache' = cache
      BY <3>2 DEF CacheKeyed
    <3> QED
      BY <1>4, <3>1, <3>2 DEF Store, KeyAtRequest
  <2>5. TasksKeyed'
    <3>1. tasks' = [tasks EXCEPT ![s] = Tail(@)] /\ tasks \in [Services -> Seq(KeyedTask)]
      BY <1>4 DEF Store, TasksKeyed
    <3>2. tasks' \in [Services -> Seq(KeyedTask)]
      BY <2>1, <3>1
    <3>3. ASSUME NEW u \in Services, NEW i \in DOMAIN tasks'[u]
          PROVE  Keyed(tasks'[u][i].key, tasks'[u][i].speech)
      <4>1. CASE u # s
        BY <3>1, <3>3, <4>1 DEF TasksKeyed
      <4>2. CASE u = s
        <5>1. tasks'[s] = Tail(tasks[s])
          BY <3>1
        <5>2. i + 1 \in DOMAIN tasks[s] /\ tasks'[s][i] = tasks[s][i + 1]
          BY <2>1, <3>3, <4>2, <5>1
        <5> QED
          BY <4>2, <5>2 DEF TasksKeyed
      <4> QED
        BY <4>1, <4>2
    <3> QED
      BY <3>2, <3>3 DEF TasksKeyed
  <2> QED
    BY <1>4, <2>4, <2>5 DEF Store, CallsKeyed, HeardKeyed, Counted
<1>5. ASSUME NEW s \in Services, Interrupt(s) PROVE SharedInv'
  <2>1. /\ call'[s] = NoCall /\ \A u \in Services \ {s} : call'[u] = call[u]
        /\ DOMAIN call' = Services /\ call' = [u \in Services |-> call'[u]]
    BY <1>5 DEF Interrupt, Counted
  <2>2. CallsKeyed'
    BY <1>5, <2>1 DEF Interrupt, CallsKeyed
  <2>3. TasksKeyed'
    BY <1>5 DEF Interrupt, TasksKeyed
  <2> QED
    BY <1>5, <2>1, <2>2, <2>3 DEF Interrupt, CacheKeyed, HeardKeyed, Counted
<1>6. ASSUME NEW s \in Services, UpdateSettings(s) PROVE SharedInv'
  <2>1. /\ profile' \in [Services -> Profiles]
        /\ \A u \in Services \ {s} : profile'[u] = profile[u]
        /\ updates' \in 0..MaxUpdates
    BY <1>6, SharedAssumption DEF UpdateSettings, Counted
  <2>2. /\ call'[s] = Overtaken(call[s]) /\ \A u \in Services \ {s} : call'[u] = call[u]
        /\ DOMAIN call' = Services /\ call' = [u \in Services |-> call'[u]]
    BY <1>6 DEF UpdateSettings, Counted
  <2>3. CallsKeyed'
    <3>1. ASSUME call'[s] # NoCall
          PROVE  /\ IsCall(call'[s]) /\ call'[s].changed
                 /\ call'[s].key = KeyOf(call'[s].request)
      <4>1. call[s] # NoCall /\ call'[s] = [call[s] EXCEPT !.changed = TRUE]
        BY <2>2, <3>1 DEF Overtaken
      <4>2. IsCall(call[s]) /\ call[s].key = KeyOf(call[s].request)
        BY <4>1 DEF CallsKeyed
      <4> QED
        BY <4>1, <4>2 DEF IsCall
    <3> QED
      BY <2>1, <2>2, <3>1 DEF CallsKeyed
  <2> QED
    BY <1>6, <2>1, <2>2, <2>3 DEF UpdateSettings, TasksKeyed, CacheKeyed, HeardKeyed, Counted
<1>7. ASSUME NEW k, Lose(k) PROVE SharedInv'
  <2>1. CacheKeyed'
    BY <1>7 DEF Lose, CacheKeyed
  <2> QED
    BY <1>7, <2>1 DEF Lose, CallsKeyed, TasksKeyed, HeardKeyed, Counted
<1>8. CASE UNCHANGED vars
  BY <1>8 DEF vars, CallsKeyed, TasksKeyed, CacheKeyed, HeardKeyed, Counted
<1> QED
  BY <1>1, <1>2, <1>3, <1>4, <1>5, <1>6, <1>7, <1>8 DEF Next

(* The inductive invariant: each call, task, entry and replay is keyed     *)
(* (run_tts, _PendingTask, _store_response).                               *)
THEOREM SharedInvariant == Spec => []SharedInv
<1> QED
  BY InitShared, NextShared, PTL DEF Spec

(* Type correctness of the shared cache (run_tts, _store_response).         *)
THEOREM SharedTypeCorrect == Spec => []TypeOK
<1>1. SharedInv => TypeOK
  <2> SUFFICES ASSUME SharedInv PROVE TypeOK
    OBVIOUS
  <2>1. ASSUME NEW s \in Services, NEW i \in DOMAIN tasks[s] PROVE IsTask(tasks[s][i])
    <3>1. tasks[s][i] \in KeyedTask /\ tasks[s][i].key # NoKey
      BY DEF SharedInv, TasksKeyed, Keyed
    <3> QED
      BY <3>1 DEF IsTask, KeyedTask
  <2> QED
    BY <2>1 DEF SharedInv, CallsKeyed, TasksKeyed, CacheKeyed, Keyed, HeardKeyed, Counted, TypeOK
<1> QED
  BY <1>1, SharedInvariant, PTL

(***************************************************************************)
(* Speech is written under the key of the request it was looked up for, for*)
(* any key function and however often settings change; if none changed     *)
(* during its lookup, that is the key of the request it was made for       *)
(* (cache_key of _PendingTask).                                            *)
(***************************************************************************)
THEOREM SpeechFiledUnderItsKey == Spec => []FiledUnderItsKey
<1>1. SharedInv => FiledUnderItsKey
  BY DEF SharedInv, TasksKeyed, CacheKeyed, Keyed, Filed, FiledUnderItsKey
<1> QED
  BY <1>1, SharedInvariant, PTL

(***************************************************************************)
(* When equal keys mean that the speech may be shared, no service replays  *)
(* speech that it should not, but for speech whose settings changed during *)
(* its lookup, whatever the services do (run_tts).                         *)
(***************************************************************************)
THEOREM SpeechHeardAsAsked ==
  ASSUME \A q, r \in Requests :
           KeyOf(q) = KeyOf(r) /\ KeyOf(q) # NoKey => Alike(q, r)
  PROVE  Spec => []HeardAsAsked
<1>1. SharedInv => HeardAsAsked
  <2> SUFFICES ASSUME SharedInv, NEW s \in Services, heard[s] # NoEntry
               PROVE  /\ Alike(heard[s].asked, heard[s].speech.asked)
                      /\ heard[s].speech.changed
                           \/ Alike(heard[s].asked, heard[s].speech.made)
    BY DEF HeardAsAsked
  <2>1. heard[s].asked \in Requests /\ Keyed(KeyOf(heard[s].asked), heard[s].speech)
    BY DEF SharedInv, HeardKeyed, Replay
  <2>2. heard[s].speech.asked \in Requests
    BY <2>1 DEF Keyed, Speech
  <2> QED
    BY <2>1, <2>2 DEF Keyed
<1> QED
  BY <1>1, SharedInvariant, PTL

-------------------------------------------------------------------------------
(* Keys                                                                    *)

(* given.get(name), and the settings that are neither voice nor model.      *)
GivenOf(p, name) == IF name \in DOMAIN p.settings THEN p.settings[name] ELSE None

OthersOf(p) ==
  FilterSettings([x \in DOMAIN p.settings \ {"voice", "model"} |-> p.settings[x]])

(* What is hashed, before the provider is added.                            *)
HashedOf(p, text) ==
  [text |-> NormalizeText(text), voice |-> GivenOf(p, "voice"),
   model |-> GivenOf(p, "model"), rate |-> p.rate, settings |-> OthersOf(p)]

(* Adding the provider, or none, hides no other field.                      *)
LEMMA FieldsApart ==
  ASSUME NEW f, NEW g, NEW a, NEW b,
         DOMAIN f = DOMAIN g, "provider" \notin DOMAIN f,
         f = [x \in DOMAIN f |-> f[x]], g = [x \in DOMAIN g |-> g[x]],
         WithProvider(f, a) = WithProvider(g, b)
  PROVE  f = g /\ a = b
<1>1. ASSUME NEW h, NEW c, "provider" \notin DOMAIN h
      PROVE  /\ DOMAIN WithProvider(h, c) =
                  IF c = None THEN DOMAIN h ELSE DOMAIN h \cup {"provider"}
             /\ c # None => WithProvider(h, c)["provider"] = c
  BY <1>1 DEF WithProvider
<1>2. \A x \in DOMAIN f : f[x] = g[x]
  <2>1. ASSUME NEW x \in DOMAIN f PROVE f[x] = g[x]
    <3>1. ASSUME NEW h, NEW c, x \in DOMAIN h, x # "provider"
          PROVE  WithProvider(h, c)[x] = h[x]
      BY <3>1 DEF WithProvider
    <3>2. x # "provider" /\ x \in DOMAIN g
      BY <2>1
    <3>3. WithProvider(f, a)[x] = f[x]
      BY <3>1, <3>2, <2>1
    <3>4. WithProvider(g, b)[x] = g[x]
      BY <3>1, <3>2
    <3> QED
      BY <3>3, <3>4
  <2> QED
    BY <2>1
<1>3. a = None <=> b = None
  <2>1. DOMAIN WithProvider(f, a) = IF a = None THEN DOMAIN f ELSE DOMAIN f \cup {"provider"}
    BY <1>1
  <2>2. DOMAIN WithProvider(g, b) = IF b = None THEN DOMAIN g ELSE DOMAIN g \cup {"provider"}
    BY <1>1
  <2> QED
    BY <2>1, <2>2
<1>4. a = b
  <2>1. CASE a # None
    <3>1. WithProvider(f, a)["provider"] = a
      BY <1>1, <2>1
    <3>2. WithProvider(g, b)["provider"] = b
      BY <1>1, <1>3, <2>1
    <3> QED
      BY <3>1, <3>2
  <2> QED
    BY <1>3, <2>1
<1> QED
  BY <1>2, <1>4

(***************************************************************************)
(* Two requests only share a key when nothing that the key is made of      *)
(* tells them apart: namespace, provider, words, voice, model, sample rate *)
(* and the other settings as they are written (generate_cache_key,         *)
(* _wrapped_service_id).                                                   *)
(***************************************************************************)
THEOREM EqualKeysEqualRequests ==
  ASSUME NEW p, NEW text1, NEW q, NEW text2,
         GenerateKey(p, text1) # KeyError,
         GenerateKey(p, text1) = GenerateKey(q, text2)
  PROVE  /\ p.namespace = q.namespace
         /\ WrappedServiceId(p.mro) = WrappedServiceId(q.mro)
         /\ NormalizeText(text1) = NormalizeText(text2)
         /\ GivenOf(p, "voice") = GivenOf(q, "voice")
         /\ GivenOf(p, "model") = GivenOf(q, "model")
         /\ p.rate = q.rate
         /\ OthersOf(p) = OthersOf(q)
<1> DEFINE Made(r, text) ==
      [namespace |-> r.namespace,
       data |-> WithProvider(HashedOf(r, text), WrappedServiceId(r.mro))]
<1>1. ASSUME NEW r, NEW text
      PROVE  GenerateKey(r, text) \in {KeyError, Made(r, text)}
  BY DEF GenerateKey, HashedOf, GivenOf, OthersOf
<1>2. Made(p, text1) = Made(q, text2)
  BY <1>1
<1>3. /\ p.namespace = q.namespace
      /\ WithProvider(HashedOf(p, text1), WrappedServiceId(p.mro))
           = WithProvider(HashedOf(q, text2), WrappedServiceId(q.mro))
  BY <1>2
<1>4. ASSUME NEW r, NEW text
      PROVE  /\ DOMAIN HashedOf(r, text) = {"text", "voice", "model", "rate", "settings"}
             /\ HashedOf(r, text) =
                  [x \in DOMAIN HashedOf(r, text) |-> HashedOf(r, text)[x]]
  BY DEF HashedOf
<1>5. /\ HashedOf(p, text1) = HashedOf(q, text2)
      /\ WrappedServiceId(p.mro) = WrappedServiceId(q.mro)
  BY <1>3, <1>4, FieldsApart
<1> QED
  BY <1>3, <1>5 DEF HashedOf

-------------------------------------------------------------------------------
(* Numbers and sorting                                                      *)

(* Numbers that are settled round to the same just when they are close.     *)
LEMMA RoundedSettled ==
  ASSUME NEW m \in Int, NEW n \in Int, Settled(m), Settled(n)
  PROVE  /\ Rounded(m) \in Int
         /\ Rounded(m) = Rounded(n) <=> Close(m, n)
<1>1. Rounded(m) \in Int
  BY DEF Rounded
<1> DEFINE a == (m + 5) \div 10
           b == (n + 5) \div 10
<1>2. /\ a \in Int /\ m - 10 * a \in -2..2
      /\ b \in Int /\ n - 10 * b \in -2..2
  BY DEF Settled
<1> HIDE DEF a, b
<1>3. 10 * a = 10 * b <=> m - n \in -4..4
  BY <1>2
<1>4. Rounded(m) = 10 * a /\ Rounded(n) = 10 * b
  BY <1>2 DEF Rounded, a, b
<1> QED
  BY <1>1, <1>3, <1>4 DEF Close

(* A whole number is settled and rounds to itself. *)
LEMMA RoundedWhole ==
  ASSUME NEW k \in Int
  PROVE  k * One \in Int /\ Settled(k * One) /\ Rounded(k * One) = k * One
<1> DEFINE x == k * One
<1>1. x \in Int /\ x = 10 * (k * 1000000)
  BY DEF One
<1> DEFINE y == k * 1000000
<1>2. y \in Int
  OBVIOUS
<1> HIDE DEF x, y
<1>3. x = 10 * y
  BY <1>1 DEF y
<1> QED
  BY <1>1, <1>2, <1>3 DEF Settled, Rounded, x

-------------------------------------------------------------------------------
(* The items of a sequence of n, each with an integer as its rank. *)
RankedItems(items, n) ==
  /\ DOMAIN items = 1..n
  /\ n > 1 => \A i \in 1..n : Rank(items[i]) \in Int

(* Such items are brought into ascending order. *)
LEMMA InOrderRearranges ==
  ASSUME NEW n \in Nat, NEW items, RankedItems(items, n)
  PROVE  \E p \in Bijection(1..n, 1..n) :
           /\ InOrder(items) = Rearranged(items, p)
           /\ Ascending(Rearranged(items, p))
<1> DEFINE r == [i \in 1..n |-> IF n > 1 THEN Rank(items[i]) ELSE 0]
<1>1. r \in [1..n -> Int]
  BY DEF RankedItems
<1> HIDE DEF r
<1>2. PICK p : Orders(p, r, n)
  BY <1>1, OrderExists
<1>3. p \in Bijection(1..n, 1..n) /\ \A i \in 1..n : p[i] \in 1..n
  BY <1>2 DEF Orders, Bijection, Injection
<1>4. DOMAIN Rearranged(items, p) = 1..n
      /\ \A i \in 1..n : Rearranged(items, p)[i] = items[p[i]]
  BY DEF Rearranged, RankedItems
<1>5. ASSUME NEW i \in 1..n, NEW j \in 1..n, i < j
      PROVE  Rank(items[p[i]]) <= Rank(items[p[j]])
  <2>1. n > 1
    BY <1>5
  <2>2. r[p[i]] <= r[p[j]]
    BY <1>2, <1>5 DEF Orders
  <2>3. r[p[i]] = Rank(items[p[i]]) /\ r[p[j]] = Rank(items[p[j]])
    BY <1>3, <2>1 DEF r
  <2> QED
    BY <2>2, <2>3
<1>6. Ascending(Rearranged(items, p))
  BY <1>4, <1>5 DEF Ascending
<1> DEFINE q == CHOOSE q \in Bijection(1..n, 1..n) : Ascending(Rearranged(items, q))
<1>7. q \in Bijection(1..n, 1..n) /\ Ascending(Rearranged(items, q))
  BY <1>3, <1>6
<1>8. InOrder(items) = Rearranged(items, q)
  BY DEF InOrder, RankedItems
<1> HIDE DEF q
<1> QED
  BY <1>7, <1>8

(* No two of the items have the same rank. *)
RanksApart(items) ==
  \A i, j \in DOMAIN items : i # j => Rank(items[i]) # Rank(items[j])

(* Rearranged items of different ranks ascend strictly. *)
LEMMA RearrangedApart ==
  ASSUME NEW n \in Nat, NEW items, RankedItems(items, n), RanksApart(items), n > 1,
         NEW p \in Bijection(1..n, 1..n), Ascending(Rearranged(items, p))
  PROVE  /\ [i \in 1..n |-> Rank(items[p[i]])] \in [1..n -> Int]
         /\ StrictlyAscends([i \in 1..n |-> Rank(items[p[i]])], n)
<1>1. /\ \A i \in 1..n : p[i] \in 1..n
      /\ \A i, j \in 1..n : p[i] = p[j] => i = j
  BY DEF Bijection, Injection, IsInjective
<1>2. \A i \in 1..n : Rank(items[p[i]]) \in Int
  BY <1>1 DEF RankedItems
<1>3. ASSUME NEW i \in 1..n, NEW j \in 1..n, i < j
      PROVE  Rank(items[p[i]]) < Rank(items[p[j]])
  <2>1. Rank(items[p[i]]) <= Rank(items[p[j]])
    BY <1>3 DEF Ascending, Rearranged, RankedItems
  <2>2. p[i] # p[j] /\ p[i] \in DOMAIN items /\ p[j] \in DOMAIN items
    BY <1>1, <1>3 DEF RankedItems
  <2>3. Rank(items[p[i]]) # Rank(items[p[j]])
    BY <2>2 DEF RanksApart
  <2> QED
    BY <1>2, <2>1, <2>3
<1> QED
  BY <1>2, <1>3 DEF StrictlyAscends

(***************************************************************************)
(* Sorting forgets the order of the items and nothing else: what is sorted *)
(* is equal just when there are as many items and each of the one is among *)
(* the other.                                                              *)
(***************************************************************************)
LEMMA InOrderEqual ==
  ASSUME NEW n \in Nat, NEW s, NEW t,
         RankedItems(s, n), RankedItems(t, n), RanksApart(s), RanksApart(t)
  PROVE  InOrder(s) = InOrder(t) <=> \A i \in 1..n : \E j \in 1..n : s[i] = t[j]
<1>1. PICK p \in Bijection(1..n, 1..n) :
        InOrder(s) = Rearranged(s, p) /\ Ascending(Rearranged(s, p))
  BY InOrderRearranges
<1>2. PICK q \in Bijection(1..n, 1..n) :
        InOrder(t) = Rearranged(t, q) /\ Ascending(Rearranged(t, q))
  BY InOrderRearranges
<1>3. /\ \A i \in 1..n : p[i] \in 1..n /\ q[i] \in 1..n
      /\ \A v \in 1..n : \E i \in 1..n : p[i] = v
      /\ \A v \in 1..n : \E i \in 1..n : q[i] = v
  BY DEF Bijection, Injection, Surjection
<1>4. ASSUME NEW u, DOMAIN u = 1..n, NEW f
      PROVE  /\ DOMAIN Rearranged(u, f) = 1..n
             /\ \A i \in 1..n : Rearranged(u, f)[i] = u[f[i]]
  BY <1>4 DEF Rearranged
<1>5. DOMAIN s = 1..n /\ DOMAIN t = 1..n
  BY DEF RankedItems
<1>6. ASSUME InOrder(s) = InOrder(t), NEW i \in 1..n PROVE \E j \in 1..n : s[i] = t[j]
  <2>1. PICK k \in 1..n : p[k] = i
    BY <1>3
  <2>2. s[p[k]] = t[q[k]]
    <3>1. Rearranged(s, p)[k] = s[p[k]] /\ Rearranged(t, q)[k] = t[q[k]]
      BY <1>4, <1>5
    <3> QED
      BY <1>1, <1>2, <1>6, <3>1
  <2> QED
    BY <1>3, <2>1, <2>2
<1>7. ASSUME \A i \in 1..n : \E j \in 1..n : s[i] = t[j] PROVE InOrder(s) = InOrder(t)
  <2>1. \A i \in 1..n : \E j \in 1..n : s[p[i]] = t[q[j]]
    <3> SUFFICES ASSUME NEW i \in 1..n PROVE \E j \in 1..n : s[p[i]] = t[q[j]]
      OBVIOUS
    <3>1. PICK k \in 1..n : s[p[i]] = t[k]
      BY <1>3, <1>7
    <3>2. PICK j \in 1..n : q[j] = k
      BY <1>3
    <3> QED
      BY <3>1, <3>2
  <2> DEFINE f == [i \in 1..n |-> CHOOSE j \in 1..n : s[p[i]] = t[q[j]]]
  <2>2. \A i \in 1..n : f[i] \in 1..n /\ s[p[i]] = t[q[f[i]]]
    BY <2>1
  <2>3. f \in [1..n -> 1..n]
    BY <2>2
  <2> HIDE DEF f
  <2>4. \A i \in 1..n : f[i] = i
    <3>1. CASE n > 1
      <4> DEFINE r == [i \in 1..n |-> Rank(s[p[i]])]
                 u == [i \in 1..n |-> Rank(t[q[i]])]
      <4>1. r \in [1..n -> Int] /\ StrictlyAscends(r, n)
        BY <1>1, <3>1, RearrangedApart
      <4>2. u \in [1..n -> Int] /\ StrictlyAscends(u, n)
        BY <1>2, <3>1, RearrangedApart
      <4>3. Picks(r, u, f, n)
        BY <2>2 DEF Picks
      <4> HIDE DEF r, u
      <4> QED
        BY <2>3, <4>1, <4>2, <4>3, AscendingUnique
    <3>2. CASE n <= 1
      BY <2>2, <3>2
    <3> QED
      BY <3>1, <3>2
  <2>5. \A i \in 1..n : s[p[i]] = t[q[i]]
    BY <2>2, <2>4
  <2>6. Rearranged(s, p) = Rearranged(t, q)
    BY <1>5, <2>5 DEF Rearranged
  <2> QED
    BY <1>1, <1>2, <2>6
<1> QED
  BY <1>6, <1>7

-------------------------------------------------------------------------------
(* One level of a value                                                     *)

(* Normalize, Encodes and SameAs of a bare value, with the parts by a      *)
(* function N, a set E and a set S of pairs.                               *)
NormalBy(a, N) ==
  CASE Is(a, "float")  -> [float |-> Rounded(a.float)]
    [] Is(a, "object") -> [dict |-> [x \in DOMAIN a.object |-> N[a.object[x]]]]
    [] Is(a, "dict")   -> [dict |-> [x \in DOMAIN a.dict |-> N[a.dict[x]]]]
    [] Is(a, "list")   -> [list |-> [x \in DOMAIN a.list |-> N[a.list[x]]]]
    [] Is(a, "tuple")  -> [list |-> [x \in DOMAIN a.tuple |-> N[a.tuple[x]]]]
    [] Is(a, "set")    -> Sorted([x \in DOMAIN a.set |-> N[a.set[x]]])
    [] OTHER           -> a

EncodesBy(v, E) ==
  CASE Is(v, "dict") -> \A x \in DOMAIN v.dict : v.dict[x] \in E
    [] Is(v, "list") -> \A i \in DOMAIN v.list : v.list[i] \in E
    [] OTHER         -> DOMAIN v \subseteq {"none", "bool", "int", "float", "str"}

SamePartsBy(f, g, S) == DOMAIN f = DOMAIN g /\ \A x \in DOMAIN f : << f[x], g[x] >> \in S

SameItemsBy(s, t, S) ==
  Len(s) = Len(t) /\ \A i \in DOMAIN s : \E j \in DOMAIN t : << s[i], t[j] >> \in S

SameBy(a, b, S) ==
  LET Both(types) == DOMAIN a \cup DOMAIN b \subseteq types
  IN  CASE Both({"float"}) -> Close(a.float, b.float)
        [] Both({"object", "dict"}) -> SamePartsBy(Fields(a), Fields(b), S)
        [] Both({"list", "tuple"}) -> SamePartsBy(Items(a), Items(b), S)
        [] Both({"set"}) -> SameItemsBy(a.set, b.set, S)
        [] OTHER -> a = b

Comparable(v, w) ==
  /\ ~(HasItems(Bare(v)) /\ IsSet(Bare(w)))
  /\ ~(IsSet(Bare(v)) /\ HasItems(Bare(w)))

(* Of the values of V, those that are the same have the same normal form. *)
Agree(N, E, S, V) ==
  \A v, w \in V :
    Comparable(v, w) /\ N[v] \in E /\ N[w] \in E => (N[v] = N[w] <=> << v, w >> \in S)

Through(N, f) == [x \in DOMAIN f |-> N[f[x]]]

(* Fields of the same names, and items at the same places.                  *)
LEMMA PartsAgree ==
  ASSUME NEW N, NEW E, NEW S, NEW V, Agree(N, E, S, V),
         NEW f, NEW g,
         \A x \in DOMAIN f : f[x] \in V /\ N[f[x]] \in E,
         \A x \in DOMAIN g : g[x] \in V /\ N[g[x]] \in E,
         \A x \in DOMAIN f \cap DOMAIN g : Comparable(f[x], g[x])
  PROVE  Through(N, f) = Through(N, g) <=> SamePartsBy(f, g, S)
<1>1. /\ DOMAIN Through(N, f) = DOMAIN f
      /\ \A x \in DOMAIN f : Through(N, f)[x] = N[f[x]]
      /\ DOMAIN Through(N, g) = DOMAIN g
      /\ \A x \in DOMAIN g : Through(N, g)[x] = N[g[x]]
  BY DEF Through
<1>2. ASSUME DOMAIN f = DOMAIN g, NEW x \in DOMAIN f
      PROVE  N[f[x]] = N[g[x]] <=> << f[x], g[x] >> \in S
  <2>1. x \in DOMAIN f \cap DOMAIN g
    BY <1>2
  <2>2. Comparable(f[x], g[x]) /\ f[x] \in V /\ g[x] \in V /\ N[f[x]] \in E /\ N[g[x]] \in E
    BY <2>1
  <2> QED
    BY <2>2 DEF Agree
<1>3. ASSUME Through(N, f) = Through(N, g) PROVE SamePartsBy(f, g, S)
  BY <1>1, <1>2, <1>3 DEF SamePartsBy
<1>4. ASSUME SamePartsBy(f, g, S) PROVE Through(N, f) = Through(N, g)
  <2>1. DOMAIN f = DOMAIN g /\ \A x \in DOMAIN f : N[f[x]] = N[g[x]]
    BY <1>2, <1>4 DEF SamePartsBy
  <2> QED
    BY <2>1 DEF Through
<1> QED
  BY <1>3, <1>4

(* What a set is sorted into. *)
LEMMA SetsAgree ==
  ASSUME NEW N, NEW E, NEW S, NEW V, Agree(N, E, S, V),
         NEW s \in Seq(V), NEW t \in Seq(V),
         \A i \in DOMAIN s : N[s[i]] \in E /\ ~IsSet(Bare(s[i])),
         \A i \in DOMAIN t : N[t[i]] \in E /\ ~IsSet(Bare(t[i])),
         RankedItems(Through(N, s), Len(s)), RanksApart(Through(N, s)),
         RankedItems(Through(N, t), Len(t)), RanksApart(Through(N, t))
  PROVE  InOrder(Through(N, s)) = InOrder(Through(N, t)) <=> SameItemsBy(s, t, S)
<1> DEFINE n == Len(s)
           u == Through(N, s)
           w == Through(N, t)
<1>1. /\ n \in Nat /\ DOMAIN s = 1..n /\ Len(t) \in Nat /\ DOMAIN t = 1..Len(t)
      /\ DOMAIN u = 1..n /\ DOMAIN w = 1..Len(t)
      /\ \A i \in 1..n : u[i] = N[s[i]] /\ s[i] \in V
      /\ \A i \in 1..Len(t) : w[i] = N[t[i]] /\ t[i] \in V
  BY DEF Through
<1>2. ASSUME NEW i \in DOMAIN s, NEW j \in DOMAIN t
      PROVE  u[i] = w[j] <=> << s[i], t[j] >> \in S
  <2>1. Comparable(s[i], t[j])
    BY DEF Comparable
  <2>2. s[i] \in V /\ t[j] \in V /\ N[s[i]] \in E /\ N[t[j]] \in E
    BY <1>1
  <2>3. u[i] = N[s[i]] /\ w[j] = N[t[j]]
    BY <1>1
  <2> QED
    BY <2>1, <2>2, <2>3 DEF Agree
<1>r. RankedItems(u, n) /\ RanksApart(u) /\ RankedItems(w, Len(t)) /\ RanksApart(w)
  OBVIOUS
<1> HIDE DEF u, w
<1>3. CASE Len(t) = n
  <2>1. InOrder(u) = InOrder(w) <=> \A i \in 1..n : \E j \in 1..n : u[i] = w[j]
    <3>1. n \in Nat
      BY <1>1
    <3>2. RankedItems(u, n) /\ RankedItems(w, n)
      BY <1>r, <1>3
    <3>3. RanksApart(u) /\ RanksApart(w)
      BY <1>r
    <3> HIDE DEF n
    <3> QED
      BY <3>1, <3>2, <3>3, InOrderEqual
  <2>2. (\A i \in 1..n : \E j \in 1..n : u[i] = w[j]) <=> SameItemsBy(s, t, S)
    BY <1>1, <1>2, <1>3 DEF SameItemsBy
  <2> QED
    BY <2>1, <2>2 DEF u, w
<1>4. CASE Len(t) # n
  <2>1. DOMAIN InOrder(u) = 1..n /\ DOMAIN InOrder(w) = 1..Len(t)
    BY <1>1 DEF InOrder, Rearranged
  <2>2. 1..n # 1..Len(t)
    <3>1. ASSUME NEW a \in Nat, NEW b \in Nat, a < b PROVE 1..a # 1..b
      <4>1. b \in 1..b /\ b \notin 1..a
        BY <3>1
      <4> QED
        BY <4>1
    <3>2. \A a, b \in Nat : a < b \/ b < a \/ a = b
      OBVIOUS
    <3>3. n \in Nat /\ Len(t) \in Nat
      BY <1>1
    <3> HIDE DEF n
    <3>4. n < Len(t) \/ Len(t) < n
      BY <1>4, <3>2, <3>3
    <3> QED
      BY <3>1, <3>3, <3>4
  <2>3. InOrder(u) # InOrder(w)
    BY <2>1, <2>2
  <2> QED
    BY <1>4, <2>3 DEF SameItemsBy, u, w
<1> QED
  BY <1>3, <1>4

ScalarTypes == {"none", "bool", "int", "str", "exotic"}

(* Normal forms, kind by kind. *)
LEMMA NormalKinds ==
  ASSUME NEW a, NEW N
  PROVE  /\ a \in Scalars => NormalBy(a, N) = a /\ \E k \in ScalarTypes : DOMAIN a = {k}
         /\ a \in [float : Int] => NormalBy(a, N) = [float |-> Rounded(a.float)]
         /\ HasFields(a) => NormalBy(a, N) = [dict |-> Through(N, Fields(a))]
         /\ HasItems(a) => NormalBy(a, N) = [list |-> Through(N, Items(a))]
         /\ IsSet(a) => NormalBy(a, N) = Sorted(Through(N, a.set))
<1>1. a \in Scalars => \E k \in ScalarTypes : DOMAIN a = {k}
  BY DEF Scalars, Exotic, ScalarTypes
<1>2. a \in Scalars => NormalBy(a, N) = a
  BY <1>1 DEF NormalBy, Is, ScalarTypes
<1>3. a \in [float : Int] => NormalBy(a, N) = [float |-> Rounded(a.float)]
  BY DEF NormalBy, Is
<1>4. HasFields(a) => NormalBy(a, N) = [dict |-> Through(N, Fields(a))]
  BY DEF NormalBy, Is, HasFields, Fields, Through
<1>5. HasItems(a) => NormalBy(a, N) = [list |-> Through(N, Items(a))]
  BY DEF NormalBy, Is, HasItems, Items, Through
<1>6. IsSet(a) => NormalBy(a, N) = Sorted(Through(N, a.set))
  BY DEF NormalBy, Is, IsSet, Through
<1> QED
  BY <1>1, <1>2, <1>3, <1>4, <1>5, <1>6

(* What of them can be encoded. *)
LEMMA EncodesKinds ==
  ASSUME NEW E, NEW f
  PROVE  /\ EncodesBy([dict |-> f], E) => \A x \in DOMAIN f : f[x] \in E
         /\ EncodesBy([list |-> f], E) => \A x \in DOMAIN f : f[x] \in E
         /\ ~EncodesBy(Exotic, E)
  BY DEF EncodesBy, Is, Exotic

(* And what is the same. *)
LEMMA SameKinds ==
  ASSUME NEW a, NEW b, NEW S
  PROVE  /\ a \in Scalars \/ b \in Scalars => (SameBy(a, b, S) <=> a = b)
         /\ a \in [float : Int] /\ b \in [float : Int] =>
              (SameBy(a, b, S) <=> Close(a.float, b.float))
         /\ HasFields(a) /\ HasFields(b) =>
              (SameBy(a, b, S) <=> SamePartsBy(Fields(a), Fields(b), S))
         /\ HasItems(a) /\ HasItems(b) =>
              (SameBy(a, b, S) <=> SamePartsBy(Items(a), Items(b), S))
         /\ IsSet(a) /\ IsSet(b) => (SameBy(a, b, S) <=> SameItemsBy(a.set, b.set, S))
<1> DEFINE Both(types) == DOMAIN a \cup DOMAIN b \subseteq types
<1>1. ASSUME a \in Scalars \/ b \in Scalars PROVE SameBy(a, b, S) <=> a = b
  <2>1. \E k \in ScalarTypes : k \in DOMAIN a \cup DOMAIN b
    BY <1>1, NormalKinds
  <2>2. /\ ~Both({"float"}) /\ ~Both({"object", "dict"}) /\ ~Both({"list", "tuple"})
        /\ ~Both({"set"})
    BY <2>1 DEF ScalarTypes
  <2> QED
    BY <2>2 DEF SameBy
<1>2. a \in [float : Int] /\ b \in [float : Int] =>
        (SameBy(a, b, S) <=> Close(a.float, b.float))
  BY DEF SameBy
<1>3. ASSUME HasFields(a), HasFields(b)
      PROVE  SameBy(a, b, S) <=> SamePartsBy(Fields(a), Fields(b), S)
  BY <1>3 DEF HasFields, SameBy
<1>4. ASSUME HasItems(a), HasItems(b)
      PROVE  SameBy(a, b, S) <=> SamePartsBy(Items(a), Items(b), S)
  BY <1>4 DEF HasItems, SameBy
<1>5. ASSUME IsSet(a), IsSet(b) PROVE SameBy(a, b, S) <=> SameItemsBy(a.set, b.set, S)
  BY <1>5 DEF IsSet, SameBy
<1> QED
  BY <1>1, <1>2, <1>3, <1>4, <1>5

(* Values of different kinds are not the same. *)
LEMMA DifferentKinds ==
  ASSUME NEW a, NEW b, NEW S, NEW j, NEW k, DOMAIN a = {j}, DOMAIN b = {k}, j # k,
         {j, k} # {"object", "dict"}, {j, k} # {"list", "tuple"}
  PROVE  ~SameBy(a, b, S)
<1> DEFINE Both(types) == DOMAIN a \cup DOMAIN b \subseteq types
<1>1. ASSUME NEW l, NEW m, j \in {l, m}, k \in {l, m} PROVE {j, k} = {l, m}
  BY <1>1
<1>2. /\ ~Both({"float"}) /\ ~Both({"object", "dict"}) /\ ~Both({"list", "tuple"})
      /\ ~Both({"set"})
  <2>1. \A types : Both(types) => j \in types /\ k \in types
    OBVIOUS
  <2> HIDE DEF Both
  <2> QED
    BY <1>1, <2>1
<1>3. a # b
  OBVIOUS
<1> QED
  BY <1>2, <1>3 DEF SameBy

(* The parts of v are among V. *)
Covers(V, v) ==
  LET a == Bare(v)
  IN  /\ HasFields(a) => \A x \in DOMAIN Fields(a) : Fields(a)[x] \in V
      /\ HasItems(a) => \A x \in DOMAIN Items(a) : Items(a)[x] \in V
      /\ IsSet(a) => a.set \in Seq(V)

(* The items of a set that can be sorted have ranks of their own. *)
WellRanked(N, v) ==
  LET items == Through(N, Bare(v).set)
  IN  IsSet(Bare(v)) /\ Sortable(items) =>
        RankedItems(items, Len(Bare(v).set)) /\ RanksApart(items)

(* The normal form of v, with the parts by N, can be encoded. *)
Ready(N, E, V, v) ==
  /\ UsualFlat(v)
  /\ Covers(V, v)
  /\ WellRanked(N, v)
  /\ EncodesBy(NormalBy(Bare(v), N), E)

IsScalar(a) == a \in Scalars /\ \E k \in ScalarTypes \ {"exotic"} : DOMAIN a = {k}
IsFloat(a)  == a \in [float : Int] /\ Settled(a.float)

(* What is known of a value that is ready, by its kind. *)
LEMMA ReadyKinds ==
  ASSUME NEW N, NEW E, NEW V, NEW v, Ready(N, E, V, v)
  PROVE  LET a == Bare(v)
             n == NormalBy(a, N)
         IN  \/ IsScalar(a) /\ n = a
             \/ IsFloat(a) /\ n = [float |-> Rounded(a.float)]
             \/ /\ HasFields(a) /\ n = [dict |-> Through(N, Fields(a))]
                /\ a = [x \in DOMAIN a |-> a[x]]
                /\ \A x \in DOMAIN Fields(a) :
                     /\ Fields(a)[x] \in V /\ N[Fields(a)[x]] \in E
                     /\ Typed(x, Fields(a)[x])
             \/ /\ HasItems(a) /\ n = [list |-> Through(N, Items(a))]
                /\ \A x \in DOMAIN Items(a) :
                     /\ Items(a)[x] \in V /\ N[Items(a)[x]] \in E
                     /\ ~IsSet(Bare(Items(a)[x]))
             \/ /\ IsSet(a) /\ n = [list |-> InOrder(Through(N, a.set))]
                /\ a.set \in Seq(V)
                /\ \A i \in DOMAIN a.set : N[a.set[i]] \in E /\ ~IsSet(Bare(a.set[i]))
                /\ RankedItems(Through(N, a.set), Len(a.set))
                /\ RanksApart(Through(N, a.set))
<1> DEFINE a == Bare(v)
           n == NormalBy(a, N)
<1>0. \A f : DOMAIN Through(N, f) = DOMAIN f /\ \A x \in DOMAIN f : Through(N, f)[x] = N[f[x]]
  BY DEF Through
<1>1. \/ a \in Scalars
      \/ IsFloat(a)
      \/ /\ HasFields(a) /\ a = [x \in DOMAIN a |-> a[x]]
         /\ \A x \in DOMAIN Fields(a) : Typed(x, Fields(a)[x])
      \/ HasItems(a) /\ \A i \in DOMAIN Items(a) : ~IsSet(Bare(Items(a)[i]))
      \/ /\ IsSet(a) /\ \A i \in DOMAIN a.set : ~IsSet(Bare(a.set[i]))
  BY DEF Ready, UsualFlat, Usual, UsualItems, IsFloat
<1>2. EncodesBy(n, E) /\ Covers(V, v) /\ WellRanked(N, v)
  BY DEF Ready
<1>3. CASE a \in Scalars
  <2>1. n = a /\ \E k \in ScalarTypes : DOMAIN a = {k}
    BY <1>3, NormalKinds
  <2>2. a # Exotic
    BY <1>2, <2>1, EncodesKinds
  <2>3. DOMAIN a # {"exotic"}
    BY <1>3, <2>2 DEF Scalars
  <2> QED
    BY <1>3, <2>1, <2>3 DEF IsScalar
<1>4. CASE IsFloat(a)
  BY <1>4, NormalKinds DEF IsFloat
<1>5. CASE /\ HasFields(a) /\ a = [x \in DOMAIN a |-> a[x]]
           /\ \A x \in DOMAIN Fields(a) : Typed(x, Fields(a)[x])
  <2>1. n = [dict |-> Through(N, Fields(a))]
    BY <1>5, NormalKinds
  <2>2. \A x \in DOMAIN Fields(a) : Fields(a)[x] \in V
    BY <1>2, <1>5 DEF Covers
  <2>3. \A x \in DOMAIN Through(N, Fields(a)) : Through(N, Fields(a))[x] \in E
    BY <1>2, <2>1, EncodesKinds
  <2>4. \A x \in DOMAIN Fields(a) : N[Fields(a)[x]] \in E
    BY <1>0, <2>3
  <2> QED
    BY <1>5, <2>1, <2>2, <2>4
<1>6. CASE HasItems(a) /\ \A i \in DOMAIN Items(a) : ~IsSet(Bare(Items(a)[i]))
  <2>1. n = [list |-> Through(N, Items(a))]
    BY <1>6, NormalKinds
  <2>2. \A x \in DOMAIN Items(a) : Items(a)[x] \in V
    BY <1>2, <1>6 DEF Covers
  <2>3. \A x \in DOMAIN Through(N, Items(a)) : Through(N, Items(a))[x] \in E
    BY <1>2, <2>1, EncodesKinds
  <2>4. \A x \in DOMAIN Items(a) : N[Items(a)[x]] \in E
    BY <1>0, <2>3
  <2> QED
    BY <1>6, <2>1, <2>2, <2>4
<1>7. CASE IsSet(a) /\ \A i \in DOMAIN a.set : ~IsSet(Bare(a.set[i]))
  <2> DEFINE items == Through(N, a.set)
  <2>1. n = Sorted(items)
    BY <1>7, NormalKinds
  <2>2. Sortable(items) /\ n = [list |-> InOrder(items)]
    BY <1>2, <2>1, EncodesKinds DEF Sorted
  <2>3. RankedItems(items, Len(a.set)) /\ RanksApart(items) /\ a.set \in Seq(V)
    BY <1>2, <1>7, <2>2 DEF WellRanked, Covers
  <2>4. \A i \in DOMAIN a.set : N[a.set[i]] \in E
    <3> DEFINE m == Len(a.set)
    <3>1. m \in Nat /\ DOMAIN a.set = 1..m
      BY <2>3
    <3>2. PICK p \in Bijection(1..m, 1..m) : InOrder(items) = Rearranged(items, p)
      <4> HIDE DEF m, items
      <4> QED
        BY <2>3, <3>1, InOrderRearranges DEF m
    <3>3. \A z \in 1..m : \E i \in 1..m : p[i] = z
      BY DEF Bijection, Surjection
    <3>4. \A i \in DOMAIN InOrder(items) : InOrder(items)[i] \in E
      BY <1>2, <2>2, EncodesKinds
    <3>5. DOMAIN items = 1..m
      BY <1>0, <3>1
    <3>6. DOMAIN InOrder(items) = 1..m /\ \A i \in 1..m : InOrder(items)[i] = items[p[i]]
      BY <3>2, <3>5 DEF Rearranged
    <3>7. \A i \in 1..m : items[i] \in E
      BY <3>3, <3>4, <3>6, ZenonT(40)
    <3> QED
      BY <1>0, <3>1, <3>7
  <2> QED
    BY <1>7, <2>2, <2>3, <2>4
<1> QED
  BY <1>1, <1>3, <1>4, <1>5, <1>6, <1>7

(* Records with one field. *)
LEMMA OneField ==
  ASSUME NEW f, NEW g
  PROVE  /\ [dict |-> f] = [dict |-> g] <=> f = g
         /\ [list |-> f] = [list |-> g] <=> f = g
         /\ [float |-> f] = [float |-> g] <=> f = g
         /\ DOMAIN [dict |-> f] = {"dict"} /\ DOMAIN [list |-> f] = {"list"}
         /\ DOMAIN [float |-> f] = {"float"}
<1>1. [dict |-> f].dict = f /\ [dict |-> g].dict = g
      /\ [list |-> f].list = f /\ [list |-> g].list = g
      /\ [float |-> f].float = f /\ [float |-> g].float = g
  OBVIOUS
<1> QED
  BY <1>1

(***************************************************************************)
(* Two values that can be keyed have the same normal form just when they   *)
(* are the same, if that is so of their parts (normalize_value).           *)
(***************************************************************************)
LEMMA NormalAgrees ==
  ASSUME NEW N, NEW E, NEW S, NEW V, Agree(N, E, S, V),
         NEW v, Ready(N, E, V, v), NEW w, Ready(N, E, V, w), Comparable(v, w)
  PROVE  NormalBy(Bare(v), N) = NormalBy(Bare(w), N) <=> SameBy(Bare(v), Bare(w), S)
<1> DEFINE a == Bare(v)
           b == Bare(w)
           n == NormalBy(a, N)
           m == NormalBy(b, N)
           Scalar(x, y) == IsScalar(x) /\ y = x
           Float(x, y)  == IsFloat(x) /\ y = [float |-> Rounded(x.float)]
           Dict(x, y) ==
             /\ HasFields(x) /\ y = [dict |-> Through(N, Fields(x))]
             /\ x = [z \in DOMAIN x |-> x[z]]
             /\ \A z \in DOMAIN Fields(x) :
                  Fields(x)[z] \in V /\ N[Fields(x)[z]] \in E /\ Typed(z, Fields(x)[z])
           List(x, y) ==
             /\ HasItems(x) /\ y = [list |-> Through(N, Items(x))]
             /\ \A z \in DOMAIN Items(x) :
                  Items(x)[z] \in V /\ N[Items(x)[z]] \in E /\ ~IsSet(Bare(Items(x)[z]))
           Set(x, y) ==
             /\ IsSet(x) /\ y = [list |-> InOrder(Through(N, x.set))]
             /\ x.set \in Seq(V)
             /\ \A i \in DOMAIN x.set : N[x.set[i]] \in E /\ ~IsSet(Bare(x.set[i]))
             /\ RankedItems(Through(N, x.set), Len(x.set))
             /\ RanksApart(Through(N, x.set))
           Kinds(x, y) ==
             Scalar(x, y) \/ Float(x, y) \/ Dict(x, y) \/ List(x, y) \/ Set(x, y)
<1>1. Kinds(a, n)
  BY ReadyKinds
<1>2. Kinds(b, m)
  BY ReadyKinds
<1>3. ASSUME NEW x, NEW y, Kinds(x, y)
      PROVE  \E j, k :
               /\ DOMAIN x = {j} /\ DOMAIN y = {k}
               /\ Scalar(x, y) => j = k /\ j \in ScalarTypes
               /\ Float(x, y) => j = "float" /\ k = "float"
               /\ Dict(x, y) => j \in {"dict", "object"} /\ k = "dict"
               /\ List(x, y) => j \in {"list", "tuple"} /\ k = "list"
               /\ Set(x, y) => j = "set" /\ k = "list"
  <2>1. CASE Scalar(x, y)
    BY <2>1 DEF IsScalar, IsFloat, HasFields, HasItems, IsSet, ScalarTypes
  <2>2. CASE Float(x, y)
    BY <2>2, OneField DEF IsScalar, IsFloat, HasFields, HasItems, IsSet, ScalarTypes
  <2>3. CASE Dict(x, y)
    BY <2>3, OneField DEF IsScalar, IsFloat, HasFields, HasItems, IsSet, ScalarTypes
  <2>4. CASE List(x, y)
    BY <2>4, OneField DEF IsScalar, IsFloat, HasFields, HasItems, IsSet, ScalarTypes
  <2>5. CASE Set(x, y)
    BY <2>5, OneField DEF IsScalar, IsFloat, HasFields, HasItems, IsSet, ScalarTypes
  <2> QED
    BY <1>3, <2>1, <2>2, <2>3, <2>4, <2>5
<1>4. ~(List(a, n) /\ Set(b, m)) /\ ~(Set(a, n) /\ List(b, m))
  BY DEF Comparable
<1>5. CASE Scalar(a, n) /\ Scalar(b, m)
  <2>1. n = a /\ m = b /\ a \in Scalars
    BY <1>5 DEF IsScalar
  <2> HIDE DEF n, m, a, b
  <2> QED
    BY <2>1, SameKinds DEF n, m, a, b
<1>6. CASE Float(a, n) /\ Float(b, m)
  <2>1. Rounded(a.float) = Rounded(b.float) <=> Close(a.float, b.float)
    BY <1>6, RoundedSettled DEF IsFloat
  <2>2. n = m <=> Rounded(a.float) = Rounded(b.float)
    BY <1>6, OneField
  <2>3. SameBy(a, b, S) <=> Close(a.float, b.float)
    BY <1>6, SameKinds DEF IsFloat
  <2> QED
    BY <2>1, <2>2, <2>3
<1>7. CASE Dict(a, n) /\ Dict(b, m)
  <2> DEFINE f == Fields(a)
             g == Fields(b)
  <2>1. n = m <=> Through(N, f) = Through(N, g)
    BY <1>7, OneField
  <2>2. SameBy(a, b, S) <=> SamePartsBy(f, g, S)
    BY <1>7, SameKinds
  <2>3. ASSUME NEW x \in DOMAIN f \cap DOMAIN g PROVE Comparable(f[x], g[x])
    <3>1. Typed(x, f[x]) /\ Typed(x, g[x])
      BY <1>7
    <3> HIDE DEF f, g
    <3> QED
      BY <3>1 DEF Typed, Comparable
  <2>4. /\ \A x \in DOMAIN f : f[x] \in V /\ N[f[x]] \in E
        /\ \A x \in DOMAIN g : g[x] \in V /\ N[g[x]] \in E
    BY <1>7
  <2>5. Through(N, f) = Through(N, g) <=> SamePartsBy(f, g, S)
    <3> HIDE DEF f, g
    <3> QED
      BY <2>3, <2>4, PartsAgree
  <2> QED
    BY <2>1, <2>2, <2>5
<1>8. CASE List(a, n) /\ List(b, m)
  <2> DEFINE f == Items(a)
             g == Items(b)
  <2>1. n = m <=> Through(N, f) = Through(N, g)
    BY <1>8, OneField
  <2>2. SameBy(a, b, S) <=> SamePartsBy(f, g, S)
    BY <1>8, SameKinds
  <2>3. ASSUME NEW x \in DOMAIN f \cap DOMAIN g PROVE Comparable(f[x], g[x])
    BY <1>8 DEF Comparable
  <2>4. /\ \A x \in DOMAIN f : f[x] \in V /\ N[f[x]] \in E
        /\ \A x \in DOMAIN g : g[x] \in V /\ N[g[x]] \in E
    BY <1>8
  <2>5. Through(N, f) = Through(N, g) <=> SamePartsBy(f, g, S)
    <3> HIDE DEF f, g
    <3> QED
      BY <2>3, <2>4, PartsAgree
  <2> QED
    BY <2>1, <2>2, <2>5
<1>9. CASE Set(a, n) /\ Set(b, m)
  <2> DEFINE s == a.set
             t == b.set
  <2>1. n = m <=> InOrder(Through(N, s)) = InOrder(Through(N, t))
    BY <1>9, OneField
  <2>2. SameBy(a, b, S) <=> SameItemsBy(s, t, S)
    BY <1>9, SameKinds
  <2>3. InOrder(Through(N, s)) = InOrder(Through(N, t)) <=> SameItemsBy(s, t, S)
    <3>1. /\ s \in Seq(V) /\ t \in Seq(V)
          /\ \A i \in DOMAIN s : N[s[i]] \in E /\ ~IsSet(Bare(s[i]))
          /\ \A i \in DOMAIN t : N[t[i]] \in E /\ ~IsSet(Bare(t[i]))
          /\ RankedItems(Through(N, s), Len(s)) /\ RanksApart(Through(N, s))
          /\ RankedItems(Through(N, t), Len(t)) /\ RanksApart(Through(N, t))
      BY <1>9
    <3> HIDE DEF s, t
    <3> QED
      BY <3>1, SetsAgree
  <2> QED
    BY <2>1, <2>2, <2>3
<1>10. CASE /\ ~(Scalar(a, n) /\ Scalar(b, m)) /\ ~(Float(a, n) /\ Float(b, m))
            /\ ~(Dict(a, n) /\ Dict(b, m)) /\ ~(List(a, n) /\ List(b, m))
            /\ ~(Set(a, n) /\ Set(b, m))
  <2>1. PICK j, k :
               /\ DOMAIN a = {j} /\ DOMAIN n = {k}
               /\ Scalar(a, n) => j = k /\ j \in ScalarTypes
               /\ Float(a, n) => j = "float" /\ k = "float"
               /\ Dict(a, n) => j \in {"dict", "object"} /\ k = "dict"
               /\ List(a, n) => j \in {"list", "tuple"} /\ k = "list"
               /\ Set(a, n) => j = "set" /\ k = "list"
    <3> HIDE DEF Kinds, Scalar, Float, Dict, List, Set, a, n
    <3> QED
      BY <1>1, <1>3
  <2>2. PICK i, l :
               /\ DOMAIN b = {i} /\ DOMAIN m = {l}
               /\ Scalar(b, m) => i = l /\ i \in ScalarTypes
               /\ Float(b, m) => i = "float" /\ l = "float"
               /\ Dict(b, m) => i \in {"dict", "object"} /\ l = "dict"
               /\ List(b, m) => i \in {"list", "tuple"} /\ l = "list"
               /\ Set(b, m) => i = "set" /\ l = "list"
    <3> HIDE DEF Kinds, Scalar, Float, Dict, List, Set, b, m
    <3> QED
      BY <1>2, <1>3
  <2> HIDE DEF Scalar, Float, Dict, List, Set, a, n, b, m
  <2>3. k # l
    BY <1>1, <1>2, <1>4, <1>10, <2>1, <2>2 DEF ScalarTypes
  <2>4. n # m
    BY <2>1, <2>2, <2>3
  <2>5. j # i /\ {j, i} # {"object", "dict"} /\ {j, i} # {"list", "tuple"}
    BY <1>1, <1>2, <1>10, <2>1, <2>2 DEF ScalarTypes
  <2>6. ~SameBy(a, b, S)
    BY <2>1, <2>2, <2>5, DifferentKinds
  <2> QED
    BY <2>4, <2>6 DEF n, m, a, b
<1> QED
  BY <1>5, <1>6, <1>7, <1>8, <1>9, <1>10

-------------------------------------------------------------------------------
(* The three levels of normalize_value                                      *)

(* The values within a bare one. *)
PartsOf(a) ==
  IF HasFields(a) THEN Range(Fields(a))
  ELSE IF HasItems(a) THEN Range(Items(a))
  ELSE IF IsSet(a) THEN Range(a.set) ELSE {}

(* The parts of a value are among its parts, by kind. *)
LEMMA PartsCovered ==
  ASSUME NEW v, UsualFlat(v), NEW V, PartsOf(Bare(v)) \subseteq V
  PROVE  Covers(V, v)
<1> DEFINE a == Bare(v)
<1>1. HasFields(a) => PartsOf(a) = Range(Fields(a))
  BY DEF PartsOf
<1>2. HasItems(a) => PartsOf(a) = Range(Items(a))
  BY DEF PartsOf, HasItems, HasFields
<1>3. IsSet(a) => PartsOf(a) = Range(a.set) /\ a.set \in Seq(Range(a.set))
  <2> SUFFICES ASSUME IsSet(a) PROVE PartsOf(a) = Range(a.set) /\ a.set \in Seq(Range(a.set))
    OBVIOUS
  <2>1. ~HasFields(a) /\ ~HasItems(a)
    BY DEF IsSet, HasItems, HasFields
  <2>2. PartsOf(a) = Range(a.set)
    BY <2>1 DEF PartsOf
  <2>3. a.set \in Seq(Range(a.set))
    <3>1. a \notin Scalars
      BY NormalKinds DEF IsSet, ScalarTypes
    <3>2. a \notin [float : Int]
      BY DEF IsSet
    <3> QED
      BY <2>1, <3>1, <3>2 DEF UsualFlat, Usual, UsualItems
  <2> QED
    BY <2>2, <2>3
<1>4. \A f : \A x \in DOMAIN f : f[x] \in Range(f)
  BY DEF Range
<1>5. ASSUME IsSet(a) PROVE a.set \in Seq(V)
  <2>1. a.set \in Seq(Range(a.set)) /\ Range(a.set) \subseteq V
    BY <1>3, <1>5
  <2> HIDE DEF a
  <2> QED
    BY <2>1
<1> QED
  BY <1>1, <1>2, <1>4, <1>5 DEF Covers

(* The kinds of value. *)
LEMMA UsualKinds ==
  ASSUME NEW v, UsualFlat(v)
  PROVE  LET a == Bare(v)
         IN  \/ a \in Scalars \/ IsFloat(a) \/ HasFields(a) \/ HasItems(a) \/ IsSet(a)
  BY DEF UsualFlat, Usual, IsFloat

(* normalize_value, level by level. *)
LEMMA FlatUnfolds ==
  ASSUME NEW v, UsualFlat(v), NEW V, PartsOf(Bare(v)) \subseteq V
  PROVE  NormalizeFlat(v) = NormalBy(Bare(v), [x \in V |-> x])
<1> DEFINE a == Bare(v)
           N == [x \in V |-> x]
<1>1. Covers(V, v)
  BY PartsCovered
<1>2. CASE a \in Scalars
  <2>1. \E k \in ScalarTypes : DOMAIN a = {k}
    BY <1>2, NormalKinds
  <2> QED
    BY <2>1 DEF NormalizeFlat, Normalize, NormalBy, Is, ScalarTypes
<1>3. CASE IsFloat(a)
  BY <1>3 DEF NormalizeFlat, Normalize, NormalBy, Is, IsFloat
<1>4. CASE HasFields(a)
  BY <1>1, <1>4 DEF Covers, HasFields, Fields, NormalizeFlat, Normalize, NormalBy,
                    Is, Each, Dumped
<1>5. CASE HasItems(a)
  BY <1>1, <1>5 DEF Covers, HasItems, Items, NormalizeFlat, Normalize, NormalBy, Is, Each
<1>6. CASE IsSet(a)
  <2>1. Each(a.set, LAMBDA part : part) = [x \in DOMAIN a.set |-> N[a.set[x]]]
    BY <1>1, <1>6 DEF Covers, IsSet, Each
  <2> QED
    BY <1>6, <2>1 DEF IsSet, NormalizeFlat, Normalize, NormalBy, Is, Each
<1> QED
  BY <1>2, <1>3, <1>4, <1>5, <1>6, UsualKinds

(* The same of a value with containers one level deep. *)
LEMMA ShallowUnfolds ==
  ASSUME NEW v, UsualFlat(v), NEW V, PartsOf(Bare(v)) \subseteq V
  PROVE  NormalizeShallow(v) = NormalBy(Bare(v), [x \in V |-> NormalizeFlat(x)])
<1> DEFINE a == Bare(v)
           N == [x \in V |-> NormalizeFlat(x)]
<1>1. Covers(V, v)
  BY PartsCovered
<1>2. CASE a \in Scalars
  <2>1. \E k \in ScalarTypes : DOMAIN a = {k}
    BY <1>2, NormalKinds
  <2> QED
    BY <2>1 DEF NormalizeShallow, Normalize, NormalBy, Is, ScalarTypes
<1>3. CASE IsFloat(a)
  BY <1>3 DEF NormalizeShallow, Normalize, NormalBy, Is, IsFloat
<1>4. CASE HasFields(a)
  BY <1>1, <1>4 DEF Covers, HasFields, Fields, NormalizeShallow, Normalize, NormalBy,
                    Is, Each, Dumped
<1>5. CASE HasItems(a)
  BY <1>1, <1>5 DEF Covers, HasItems, Items, NormalizeShallow, Normalize, NormalBy, Is, Each
<1>6. CASE IsSet(a)
  <2>1. Each(a.set, NormalizeFlat) = [x \in DOMAIN a.set |-> N[a.set[x]]]
    BY <1>1, <1>6 DEF Covers, IsSet, Each
  <2> QED
    BY <1>6, <2>1 DEF IsSet, NormalizeShallow, Normalize, NormalBy, Is, Each
<1> QED
  BY <1>2, <1>3, <1>4, <1>5, <1>6, UsualKinds

(* And two levels deep. *)
LEMMA ValueUnfolds ==
  ASSUME NEW v, UsualFlat(v), NEW V, PartsOf(Bare(v)) \subseteq V
  PROVE  NormalizeValue(v) = NormalBy(Bare(v), [x \in V |-> NormalizeShallow(x)])
<1> DEFINE a == Bare(v)
           N == [x \in V |-> NormalizeShallow(x)]
<1>1. Covers(V, v)
  BY PartsCovered
<1>2. CASE a \in Scalars
  <2>1. \E k \in ScalarTypes : DOMAIN a = {k}
    BY <1>2, NormalKinds
  <2> QED
    BY <2>1 DEF NormalizeValue, Normalize, NormalBy, Is, ScalarTypes
<1>3. CASE IsFloat(a)
  BY <1>3 DEF NormalizeValue, Normalize, NormalBy, Is, IsFloat
<1>4. CASE HasFields(a)
  BY <1>1, <1>4 DEF Covers, HasFields, Fields, NormalizeValue, Normalize, NormalBy,
                    Is, Each, Dumped
<1>5. CASE HasItems(a)
  BY <1>1, <1>5 DEF Covers, HasItems, Items, NormalizeValue, Normalize, NormalBy, Is, Each
<1>6. CASE IsSet(a)
  <2>1. Each(a.set, NormalizeShallow) = [x \in DOMAIN a.set |-> N[a.set[x]]]
    BY <1>1, <1>6 DEF Covers, IsSet, Each
  <2> QED
    BY <1>6, <2>1 DEF IsSet, NormalizeValue, Normalize, NormalBy, Is, Each
<1> QED
  BY <1>2, <1>3, <1>4, <1>5, <1>6, UsualKinds

(* Numbers and strings keep their rank, but for its rounding. *)
LEMMA NormalRanks ==
  ASSUME NEW v, UsualFlat(v), NEW N
  PROVE  LET a == Bare(v)
             n == NormalBy(a, N)
         IN  /\ IsNumber(n) => /\ IsNumber(a) /\ Rank(a) \in Int /\ Settled(Rank(a))
                               /\ Rank(n) = Rounded(Rank(a))
             /\ Is(n, "str") => Is(a, "str") /\ a.str \in Int /\ Rank(n) = a.str
<1> DEFINE a == Bare(v)
           n == NormalBy(a, N)
<1>1. CASE a \in Scalars
  <2>1. n = a
    BY <1>1, NormalKinds
  <2>2. IsNumber(a) => /\ Rank(a) \in Int /\ Settled(Rank(a)) /\ Rank(a) = Rounded(Rank(a))
    <3>1. CASE a \in [int : Int]
      <4>1. Rank(a) = a.int * One /\ a.int \in Int
        BY <3>1 DEF Rank, Is
      <4> QED
        BY <4>1, RoundedWhole
    <3>2. CASE a \in [bool : BOOLEAN]
      <4>1. a.bool \in BOOLEAN /\ Rank(a) = IF a.bool THEN One ELSE 0
        BY <3>2 DEF Rank, Is
      <4>2. Settled(One) /\ Settled(0) /\ Rounded(One) = One /\ Rounded(0) = 0
            /\ One \in Int /\ 0 \in Int
        BY DEF Settled, Rounded, One
      <4> QED
        BY <4>1, <4>2
    <3>3. CASE a \in [none : {TRUE}] \cup [str : Int] \cup {Exotic}
      <4>1. DOMAIN a \in {{"none"}, {"str"}, {"exotic"}}
        BY <3>3 DEF Exotic
      <4> QED
        BY <4>1 DEF IsNumber, Is
    <3> QED
      BY <1>1, <3>1, <3>2, <3>3 DEF Scalars
  <2>3. Is(a, "str") => a.str \in Int /\ Rank(a) = a.str
    <3>1. CASE a \in [str : Int]
      BY <3>1 DEF Rank, Is
    <3>2. CASE a \notin [str : Int]
      <4>1. DOMAIN a \in {{"none"}, {"bool"}, {"int"}, {"exotic"}}
        BY <1>1, <3>2 DEF Scalars, Exotic
      <4> QED
        BY <4>1 DEF Is
    <3> QED
      BY <3>1, <3>2
  <2> QED
    BY <2>1, <2>2, <2>3
<1>2. CASE IsFloat(a)
  <2>1. n = [float |-> Rounded(a.float)]
    BY <1>2, NormalKinds DEF IsFloat
  <2>2. Rank(n) = Rounded(a.float) /\ ~Is(n, "str")
    BY <2>1 DEF Rank, Is
  <2>3. IsNumber(a) /\ Rank(a) = a.float /\ Rank(a) \in Int /\ Settled(Rank(a))
    BY <1>2 DEF IsFloat, IsNumber, Rank, Is
  <2> QED
    BY <2>2, <2>3
<1>3. CASE HasFields(a) \/ HasItems(a) \/ IsSet(a)
  <2>1. n = Exotic \/ \E f : n = [dict |-> f] \/ n = [list |-> f]
    BY <1>3, NormalKinds DEF Sorted
  <2>2. ~IsNumber(n) /\ ~Is(n, "str")
    BY <2>1 DEF IsNumber, Is, Exotic
  <2> QED
    BY <2>2
<1> QED
  BY <1>1, <1>2, <1>3, UsualKinds

(* Items that are usual and apart are well ranked in their normal form. *)
LEMMA RanksKept ==
  ASSUME NEW v, UsualFlat(v), NEW N,
         \A i \in DOMAIN Bare(v).set :
           IsSet(Bare(v)) =>
             /\ UsualFlat(Bare(v).set[i])
             /\ \E M : N[Bare(v).set[i]] = NormalBy(Bare(Bare(v).set[i]), M)
  PROVE  WellRanked(N, v)
<1> SUFFICES ASSUME IsSet(Bare(v)), Sortable(Through(N, Bare(v).set))
             PROVE  /\ RankedItems(Through(N, Bare(v).set), Len(Bare(v).set))
                    /\ RanksApart(Through(N, Bare(v).set))
  BY DEF WellRanked
<1> DEFINE s == Bare(v).set
           n == Len(s)
           u == Through(N, s)
<1>1. /\ s \in Seq(Range(s))
      /\ \A i, j \in DOMAIN s : i # j => Apart(s[i], s[j])
  <2>1. Bare(v) \notin Scalars
    BY NormalKinds DEF IsSet, ScalarTypes
  <2>2. Bare(v) \notin [float : Int] /\ ~HasFields(Bare(v)) /\ ~HasItems(Bare(v))
    BY DEF IsSet, HasFields, HasItems
  <2> QED
    BY <2>1, <2>2 DEF UsualFlat, Usual, UsualItems
<1>2. n \in Nat /\ DOMAIN s = 1..n /\ DOMAIN u = 1..n /\ \A i \in 1..n : u[i] = N[s[i]]
  BY <1>1 DEF Through
<1>3. \A i \in 1..n : UsualFlat(s[i]) /\ \E M : u[i] = NormalBy(Bare(s[i]), M)
  BY <1>2
<1>4. Len(u) = n
  <2>1. u \in [1..n -> Range(u)]
    BY <1>2 DEF Range, Through
  <2> HIDE DEF u, n
  <2> QED
    BY <1>2, <2>1
<1>5. Len(u) <= 1 \/ (\A i \in 1..n : IsNumber(u[i])) \/ (\A i \in 1..n : Is(u[i], "str"))
  BY <1>2 DEF Sortable
<1> HIDE DEF u, n, s
<1>6. CASE n <= 1
  BY <1>2, <1>6 DEF RankedItems, RanksApart, s, n, u
<1>7. CASE \A i \in 1..n : IsNumber(u[i])
  <2>1. \A i \in 1..n : /\ IsNumber(Bare(s[i])) /\ Rank(Bare(s[i])) \in Int
                        /\ Settled(Rank(Bare(s[i])))
                        /\ Rank(u[i]) = Rounded(Rank(Bare(s[i])))
    BY <1>3, <1>7, NormalRanks
  <2>2. \A i \in 1..n : Rank(u[i]) \in Int
    BY <2>1, RoundedSettled
  <2>3. ASSUME NEW i \in 1..n, NEW j \in 1..n, i # j PROVE Rank(u[i]) # Rank(u[j])
    <3>1. ~Close(Rank(Bare(s[i])), Rank(Bare(s[j])))
      BY <1>1, <1>2, <2>1, <2>3 DEF Apart
    <3> QED
      BY <2>1, <3>1, RoundedSettled
  <2> QED
    BY <1>2, <2>2, <2>3 DEF RankedItems, RanksApart, s, n, u
<1>8. CASE \A i \in 1..n : Is(u[i], "str")
  <2>1. \A i \in 1..n : /\ Is(Bare(s[i]), "str") /\ Bare(s[i]).str \in Int
                        /\ Rank(u[i]) = Bare(s[i]).str
    BY <1>3, <1>8, NormalRanks
  <2>2. ASSUME NEW i \in 1..n, NEW j \in 1..n, i # j PROVE Rank(u[i]) # Rank(u[j])
    BY <1>1, <1>2, <2>1, <2>2 DEF Apart
  <2> QED
    BY <1>2, <2>1, <2>2 DEF RankedItems, RanksApart, s, n, u
<1> QED
  BY <1>4, <1>5, <1>6, <1>7, <1>8 DEF s, n, u

(* A usual value has one kind. *)
LEMMA OneKind ==
  ASSUME NEW v, UsualFlat(v)
  PROVE  LET a == Bare(v)
         IN  /\ DOMAIN a \subseteq {"object", "dict"} => HasFields(a)
             /\ DOMAIN a \subseteq {"list", "tuple"} => HasItems(a)
             /\ DOMAIN a \subseteq {"set"} => IsSet(a)
<1> DEFINE a == Bare(v)
<1>1. a \in Scalars => \E k \in ScalarTypes : DOMAIN a = {k}
  BY NormalKinds
<1>2. IsFloat(a) => DOMAIN a = {"float"}
  BY DEF IsFloat
<1>3. a \in Scalars \/ IsFloat(a) \/ HasFields(a) \/ HasItems(a) \/ IsSet(a)
  BY UsualKinds
<1> HIDE DEF a
<1>4. PICK k : DOMAIN a = {k} /\ (a \in Scalars => k \in ScalarTypes)
                /\ (IsFloat(a) => k = "float") /\ (HasFields(a) => k \in {"object", "dict"})
                /\ (HasItems(a) => k \in {"list", "tuple"}) /\ (IsSet(a) => k = "set")
  <2>1. CASE a \in Scalars
    BY <1>1, <1>2, <2>1 DEF ScalarTypes, HasFields, HasItems, IsSet
  <2>2. CASE IsFloat(a)
    BY <1>1, <1>2, <2>2 DEF ScalarTypes, HasFields, HasItems, IsSet
  <2>3. CASE HasFields(a) \/ HasItems(a) \/ IsSet(a)
    BY <1>1, <1>2, <2>3 DEF ScalarTypes, HasFields, HasItems, IsSet
  <2> QED
    BY <1>3, <2>1, <2>2, <2>3
<1>5. k \in DOMAIN a
  BY <1>4
<1>6. DOMAIN a \subseteq {"object", "dict"} => HasFields(a)
  BY <1>4, <1>5 DEF HasFields
<1>7. DOMAIN a \subseteq {"list", "tuple"} => HasItems(a)
  BY <1>4, <1>5 DEF HasItems
<1>8. DOMAIN a \subseteq {"set"} => IsSet(a)
  BY <1>4, <1>5 DEF IsSet
<1> QED
  BY <1>6, <1>7, <1>8 DEF a

(* The reference, level by level: what is the same at the last level. *)
LEMMA FlatSame ==
  ASSUME NEW v, UsualFlat(v), NEW w, UsualFlat(w), NEW V, Covers(V, v), Covers(V, w)
  PROVE  SameFlat(v, w) <=>
           SameBy(Bare(v), Bare(w), { p \in V \X V : p[1] = p[2] })
<1> DEFINE a == Bare(v)
           b == Bare(w)
           S == { p \in V \X V : p[1] = p[2] }
           Both(types) == DOMAIN a \cup DOMAIN b \subseteq types
<1>0. \A x, y \in V : << x, y >> \in S <=> x = y
  OBVIOUS
<1> HIDE DEF S
<1>1. CASE Both({"float"})
  BY <1>1 DEF SameFlat, SameAs, SameBy
<1>2. CASE Both({"object", "dict"}) /\ ~Both({"float"})
  <2>1. HasFields(a) /\ HasFields(b)
    BY <1>2, OneKind
  <2>2. /\ \A x \in DOMAIN Fields(a) : Fields(a)[x] \in V
        /\ \A x \in DOMAIN Fields(b) : Fields(b)[x] \in V
    BY <2>1 DEF Covers
  <2>3. SameBy(a, b, S) <=> SamePartsBy(Fields(a), Fields(b), S)
    BY <1>2 DEF SameBy
  <2>4. SameFlat(v, w) <=>
          /\ DOMAIN Fields(a) = DOMAIN Fields(b)
          /\ \A x \in DOMAIN Fields(a) : Fields(a)[x] = Fields(b)[x]
    BY <1>2 DEF SameFlat, SameAs
  <2> HIDE DEF a, b
  <2>5. SamePartsBy(Fields(a), Fields(b), S) <=>
          /\ DOMAIN Fields(a) = DOMAIN Fields(b)
          /\ \A x \in DOMAIN Fields(a) : Fields(a)[x] = Fields(b)[x]
    BY <1>0, <2>2 DEF SamePartsBy
  <2> QED
    BY <2>3, <2>4, <2>5 DEF a, b, S
<1>3. CASE Both({"list", "tuple"}) /\ ~Both({"float"}) /\ ~Both({"object", "dict"})
  <2>1. HasItems(a) /\ HasItems(b)
    BY <1>3, OneKind
  <2>2. /\ \A x \in DOMAIN Items(a) : Items(a)[x] \in V
        /\ \A x \in DOMAIN Items(b) : Items(b)[x] \in V
    BY <2>1 DEF Covers
  <2>3. SameBy(a, b, S) <=> SamePartsBy(Items(a), Items(b), S)
    BY <1>3 DEF SameBy
  <2>4. SameFlat(v, w) <=>
          /\ DOMAIN Items(a) = DOMAIN Items(b)
          /\ \A x \in DOMAIN Items(a) : Items(a)[x] = Items(b)[x]
    BY <1>3 DEF SameFlat, SameAs
  <2> HIDE DEF a, b
  <2>5. SamePartsBy(Items(a), Items(b), S) <=>
          /\ DOMAIN Items(a) = DOMAIN Items(b)
          /\ \A x \in DOMAIN Items(a) : Items(a)[x] = Items(b)[x]
    BY <1>0, <2>2 DEF SamePartsBy
  <2> QED
    BY <2>3, <2>4, <2>5 DEF a, b, S
<1>4. CASE /\ Both({"set"}) /\ ~Both({"float"}) /\ ~Both({"object", "dict"})
           /\ ~Both({"list", "tuple"})
  <2>1. IsSet(a) /\ IsSet(b)
    BY <1>4, OneKind
  <2>2. /\ \A i \in DOMAIN a.set : a.set[i] \in V
        /\ \A i \in DOMAIN b.set : b.set[i] \in V
    BY <2>1 DEF Covers
  <2>3. SameBy(a, b, S) <=> SameItemsBy(a.set, b.set, S)
    BY <1>4 DEF SameBy
  <2>4. SameFlat(v, w) <=>
          /\ Len(a.set) = Len(b.set)
          /\ \A i \in DOMAIN a.set : \E j \in DOMAIN b.set : a.set[i] = b.set[j]
    BY <1>4 DEF SameFlat, SameAs
  <2> HIDE DEF a, b
  <2>5. SameItemsBy(a.set, b.set, S) <=>
          /\ Len(a.set) = Len(b.set)
          /\ \A i \in DOMAIN a.set : \E j \in DOMAIN b.set : a.set[i] = b.set[j]
    <3>1. \A i \in DOMAIN a.set : \A j \in DOMAIN b.set :
            << a.set[i], b.set[j] >> \in S <=> a.set[i] = b.set[j]
      BY <1>0, <2>2
    <3> QED
      BY <3>1 DEF SameItemsBy
  <2> QED
    BY <2>3, <2>4, <2>5 DEF a, b, S
<1>5. CASE /\ ~Both({"float"}) /\ ~Both({"object", "dict"}) /\ ~Both({"list", "tuple"})
           /\ ~Both({"set"})
  BY <1>5 DEF SameFlat, SameAs, SameBy
<1> QED
  BY <1>1, <1>2, <1>3, <1>4, <1>5 DEF S

(* At the level above. *)
LEMMA ShallowSame ==
  ASSUME NEW v, UsualFlat(v), NEW w, UsualFlat(w), NEW V, Covers(V, v), Covers(V, w)
  PROVE  SameShallow(v, w) <=>
           SameBy(Bare(v), Bare(w), { p \in V \X V : SameFlat(p[1], p[2]) })
<1> DEFINE a == Bare(v)
           b == Bare(w)
           S == { p \in V \X V : SameFlat(p[1], p[2]) }
           Both(types) == DOMAIN a \cup DOMAIN b \subseteq types
<1>0. \A x, y \in V : << x, y >> \in S <=> SameFlat(x, y)
  OBVIOUS
<1> HIDE DEF S
<1>1. CASE Both({"float"})
  BY <1>1 DEF SameShallow, SameAs, SameBy
<1>2. CASE Both({"object", "dict"}) /\ ~Both({"float"})
  <2>1. HasFields(a) /\ HasFields(b)
    BY <1>2, OneKind
  <2>2. /\ \A x \in DOMAIN Fields(a) : Fields(a)[x] \in V
        /\ \A x \in DOMAIN Fields(b) : Fields(b)[x] \in V
    BY <2>1 DEF Covers
  <2>3. SameBy(a, b, S) <=> SamePartsBy(Fields(a), Fields(b), S)
    BY <1>2 DEF SameBy
  <2>4. SameShallow(v, w) <=>
          /\ DOMAIN Fields(a) = DOMAIN Fields(b)
          /\ \A x \in DOMAIN Fields(a) : SameFlat(Fields(a)[x], Fields(b)[x])
    BY <1>2 DEF SameShallow, SameAs
  <2> HIDE DEF a, b
  <2>5. SamePartsBy(Fields(a), Fields(b), S) <=>
          /\ DOMAIN Fields(a) = DOMAIN Fields(b)
          /\ \A x \in DOMAIN Fields(a) : SameFlat(Fields(a)[x], Fields(b)[x])
    BY <1>0, <2>2 DEF SamePartsBy
  <2> QED
    BY <2>3, <2>4, <2>5 DEF a, b, S
<1>3. CASE Both({"list", "tuple"}) /\ ~Both({"float"}) /\ ~Both({"object", "dict"})
  <2>1. HasItems(a) /\ HasItems(b)
    BY <1>3, OneKind
  <2>2. /\ \A x \in DOMAIN Items(a) : Items(a)[x] \in V
        /\ \A x \in DOMAIN Items(b) : Items(b)[x] \in V
    BY <2>1 DEF Covers
  <2>3. SameBy(a, b, S) <=> SamePartsBy(Items(a), Items(b), S)
    BY <1>3 DEF SameBy
  <2>4. SameShallow(v, w) <=>
          /\ DOMAIN Items(a) = DOMAIN Items(b)
          /\ \A x \in DOMAIN Items(a) : SameFlat(Items(a)[x], Items(b)[x])
    BY <1>3 DEF SameShallow, SameAs
  <2> HIDE DEF a, b
  <2>5. SamePartsBy(Items(a), Items(b), S) <=>
          /\ DOMAIN Items(a) = DOMAIN Items(b)
          /\ \A x \in DOMAIN Items(a) : SameFlat(Items(a)[x], Items(b)[x])
    BY <1>0, <2>2 DEF SamePartsBy
  <2> QED
    BY <2>3, <2>4, <2>5 DEF a, b, S
<1>4. CASE /\ Both({"set"}) /\ ~Both({"float"}) /\ ~Both({"object", "dict"})
           /\ ~Both({"list", "tuple"})
  <2>1. IsSet(a) /\ IsSet(b)
    BY <1>4, OneKind
  <2>2. /\ \A i \in DOMAIN a.set : a.set[i] \in V
        /\ \A i \in DOMAIN b.set : b.set[i] \in V
    BY <2>1 DEF Covers
  <2>3. SameBy(a, b, S) <=> SameItemsBy(a.set, b.set, S)
    BY <1>4 DEF SameBy
  <2>4. SameShallow(v, w) <=>
          /\ Len(a.set) = Len(b.set)
          /\ \A i \in DOMAIN a.set : \E j \in DOMAIN b.set : SameFlat(a.set[i], b.set[j])
    BY <1>4 DEF SameShallow, SameAs
  <2> HIDE DEF a, b
  <2>5. SameItemsBy(a.set, b.set, S) <=>
          /\ Len(a.set) = Len(b.set)
          /\ \A i \in DOMAIN a.set : \E j \in DOMAIN b.set : SameFlat(a.set[i], b.set[j])
    <3>1. \A i \in DOMAIN a.set : \A j \in DOMAIN b.set :
            << a.set[i], b.set[j] >> \in S <=> SameFlat(a.set[i], b.set[j])
      BY <1>0, <2>2
    <3> QED
      BY <3>1 DEF SameItemsBy
  <2> QED
    BY <2>3, <2>4, <2>5 DEF a, b, S
<1>5. CASE /\ ~Both({"float"}) /\ ~Both({"object", "dict"}) /\ ~Both({"list", "tuple"})
           /\ ~Both({"set"})
  BY <1>5 DEF SameShallow, SameAs, SameBy
<1> QED
  BY <1>1, <1>2, <1>3, <1>4, <1>5 DEF S

(* And at the first. *)
LEMMA ValueSame ==
  ASSUME NEW v, UsualFlat(v), NEW w, UsualFlat(w), NEW V, Covers(V, v), Covers(V, w)
  PROVE  Same(v, w) <=>
           SameBy(Bare(v), Bare(w), { p \in V \X V : SameShallow(p[1], p[2]) })
<1> DEFINE a == Bare(v)
           b == Bare(w)
           S == { p \in V \X V : SameShallow(p[1], p[2]) }
           Both(types) == DOMAIN a \cup DOMAIN b \subseteq types
<1>0. \A x, y \in V : << x, y >> \in S <=> SameShallow(x, y)
  OBVIOUS
<1> HIDE DEF S
<1>1. CASE Both({"float"})
  BY <1>1 DEF Same, SameAs, SameBy
<1>2. CASE Both({"object", "dict"}) /\ ~Both({"float"})
  <2>1. HasFields(a) /\ HasFields(b)
    BY <1>2, OneKind
  <2>2. /\ \A x \in DOMAIN Fields(a) : Fields(a)[x] \in V
        /\ \A x \in DOMAIN Fields(b) : Fields(b)[x] \in V
    BY <2>1 DEF Covers
  <2>3. SameBy(a, b, S) <=> SamePartsBy(Fields(a), Fields(b), S)
    BY <1>2 DEF SameBy
  <2>4. Same(v, w) <=>
          /\ DOMAIN Fields(a) = DOMAIN Fields(b)
          /\ \A x \in DOMAIN Fields(a) : SameShallow(Fields(a)[x], Fields(b)[x])
    BY <1>2 DEF Same, SameAs
  <2> HIDE DEF a, b
  <2>5. SamePartsBy(Fields(a), Fields(b), S) <=>
          /\ DOMAIN Fields(a) = DOMAIN Fields(b)
          /\ \A x \in DOMAIN Fields(a) : SameShallow(Fields(a)[x], Fields(b)[x])
    BY <1>0, <2>2 DEF SamePartsBy
  <2> QED
    BY <2>3, <2>4, <2>5 DEF a, b, S
<1>3. CASE Both({"list", "tuple"}) /\ ~Both({"float"}) /\ ~Both({"object", "dict"})
  <2>1. HasItems(a) /\ HasItems(b)
    BY <1>3, OneKind
  <2>2. /\ \A x \in DOMAIN Items(a) : Items(a)[x] \in V
        /\ \A x \in DOMAIN Items(b) : Items(b)[x] \in V
    BY <2>1 DEF Covers
  <2>3. SameBy(a, b, S) <=> SamePartsBy(Items(a), Items(b), S)
    BY <1>3 DEF SameBy
  <2>4. Same(v, w) <=>
          /\ DOMAIN Items(a) = DOMAIN Items(b)
          /\ \A x \in DOMAIN Items(a) : SameShallow(Items(a)[x], Items(b)[x])
    BY <1>3 DEF Same, SameAs
  <2> HIDE DEF a, b
  <2>5. SamePartsBy(Items(a), Items(b), S) <=>
          /\ DOMAIN Items(a) = DOMAIN Items(b)
          /\ \A x \in DOMAIN Items(a) : SameShallow(Items(a)[x], Items(b)[x])
    BY <1>0, <2>2 DEF SamePartsBy
  <2> QED
    BY <2>3, <2>4, <2>5 DEF a, b, S
<1>4. CASE /\ Both({"set"}) /\ ~Both({"float"}) /\ ~Both({"object", "dict"})
           /\ ~Both({"list", "tuple"})
  <2>1. IsSet(a) /\ IsSet(b)
    BY <1>4, OneKind
  <2>2. /\ \A i \in DOMAIN a.set : a.set[i] \in V
        /\ \A i \in DOMAIN b.set : b.set[i] \in V
    BY <2>1 DEF Covers
  <2>3. SameBy(a, b, S) <=> SameItemsBy(a.set, b.set, S)
    BY <1>4 DEF SameBy
  <2>4. Same(v, w) <=>
          /\ Len(a.set) = Len(b.set)
          /\ \A i \in DOMAIN a.set : \E j \in DOMAIN b.set : SameShallow(a.set[i], b.set[j])
    BY <1>4 DEF Same, SameAs
  <2> HIDE DEF a, b
  <2>5. SameItemsBy(a.set, b.set, S) <=>
          /\ Len(a.set) = Len(b.set)
          /\ \A i \in DOMAIN a.set : \E j \in DOMAIN b.set : SameShallow(a.set[i], b.set[j])
    <3>1. \A i \in DOMAIN a.set : \A j \in DOMAIN b.set :
            << a.set[i], b.set[j] >> \in S <=> SameShallow(a.set[i], b.set[j])
      BY <1>0, <2>2
    <3> QED
      BY <3>1 DEF SameItemsBy
  <2> QED
    BY <2>3, <2>4, <2>5 DEF a, b, S
<1>5. CASE /\ ~Both({"float"}) /\ ~Both({"object", "dict"}) /\ ~Both({"list", "tuple"})
           /\ ~Both({"set"})
  BY <1>5 DEF Same, SameAs, SameBy
<1> QED
  BY <1>1, <1>2, <1>3, <1>4, <1>5 DEF S

(* A usual value has usual parts. *)
LEMMA ShallowParts ==
  ASSUME NEW v, UsualShallow(v)
  PROVE  UsualFlat(v) /\ \A x \in PartsOf(Bare(v)) : UsualFlat(x)
<1> DEFINE a == Bare(v)
<1>1. UsualFlat(v)
  BY DEF UsualFlat, UsualShallow, Usual, UsualItems
<1>2. a \in Scalars => \E k \in ScalarTypes : DOMAIN a = {k}
  BY NormalKinds
<1>3. CASE HasFields(a)
  <2>1. a \notin Scalars /\ a \notin [float : Int] /\ ~HasItems(a) /\ ~IsSet(a)
    BY <1>2, <1>3 DEF HasFields, HasItems, IsSet, ScalarTypes
  <2>2. PartsOf(a) = Range(Fields(a))
    BY <1>3 DEF PartsOf
  <2>3. \A x \in DOMAIN Fields(a) : UsualFlat(Fields(a)[x])
    BY <2>1 DEF UsualShallow, Usual
  <2> QED
    BY <1>1, <2>2, <2>3 DEF Range
<1>4. CASE HasItems(a)
  <2>1. a \notin Scalars /\ a \notin [float : Int] /\ ~HasFields(a) /\ ~IsSet(a)
    BY <1>2, <1>4 DEF HasFields, HasItems, IsSet, ScalarTypes
  <2>2. PartsOf(a) = Range(Items(a))
    BY <1>4, <2>1 DEF PartsOf
  <2>3. \A x \in DOMAIN Items(a) : UsualFlat(Items(a)[x])
    BY <2>1 DEF UsualShallow, Usual, UsualItems
  <2> QED
    BY <1>1, <2>2, <2>3 DEF Range
<1>5. CASE IsSet(a)
  <2>1. a \notin Scalars /\ a \notin [float : Int] /\ ~HasFields(a) /\ ~HasItems(a)
    BY <1>2, <1>5 DEF HasFields, HasItems, IsSet, ScalarTypes
  <2>2. PartsOf(a) = Range(a.set)
    BY <1>5, <2>1 DEF PartsOf
  <2>3. \A x \in DOMAIN a.set : UsualFlat(a.set[x])
    BY <2>1 DEF UsualShallow, Usual, UsualItems
  <2> QED
    BY <1>1, <2>2, <2>3 DEF Range
<1>6. CASE ~HasFields(a) /\ ~HasItems(a) /\ ~IsSet(a)
  BY <1>1, <1>6 DEF PartsOf
<1> QED
  BY <1>3, <1>4, <1>5, <1>6, SMTT(30)

(* And one level up. *)
LEMMA ValueParts ==
  ASSUME NEW v, UsualValue(v)
  PROVE  UsualFlat(v) /\ \A x \in PartsOf(Bare(v)) : UsualShallow(x)
<1> DEFINE a == Bare(v)
<1>1. UsualFlat(v)
  BY DEF UsualFlat, UsualValue, Usual, UsualItems
<1>2. a \in Scalars => \E k \in ScalarTypes : DOMAIN a = {k}
  BY NormalKinds
<1>3. CASE HasFields(a)
  <2>1. a \notin Scalars /\ a \notin [float : Int] /\ ~HasItems(a) /\ ~IsSet(a)
    BY <1>2, <1>3 DEF HasFields, HasItems, IsSet, ScalarTypes
  <2>2. PartsOf(a) = Range(Fields(a))
    BY <1>3 DEF PartsOf
  <2>3. \A x \in DOMAIN Fields(a) : UsualShallow(Fields(a)[x])
    BY <2>1 DEF UsualValue, Usual
  <2> QED
    BY <1>1, <2>2, <2>3 DEF Range
<1>4. CASE HasItems(a)
  <2>1. a \notin Scalars /\ a \notin [float : Int] /\ ~HasFields(a) /\ ~IsSet(a)
    BY <1>2, <1>4 DEF HasFields, HasItems, IsSet, ScalarTypes
  <2>2. PartsOf(a) = Range(Items(a))
    BY <1>4, <2>1 DEF PartsOf
  <2>3. \A x \in DOMAIN Items(a) : UsualShallow(Items(a)[x])
    BY <2>1 DEF UsualValue, Usual, UsualItems
  <2> QED
    BY <1>1, <2>2, <2>3 DEF Range
<1>5. CASE IsSet(a)
  <2>1. a \notin Scalars /\ a \notin [float : Int] /\ ~HasFields(a) /\ ~HasItems(a)
    BY <1>2, <1>5 DEF HasFields, HasItems, IsSet, ScalarTypes
  <2>2. PartsOf(a) = Range(a.set)
    BY <1>5, <2>1 DEF PartsOf
  <2>3. \A x \in DOMAIN a.set : UsualShallow(a.set[x])
    BY <2>1 DEF UsualValue, Usual, UsualItems
  <2> QED
    BY <1>1, <2>2, <2>3 DEF Range
<1>6. CASE ~HasFields(a) /\ ~HasItems(a) /\ ~IsSet(a)
  BY <1>1, <1>6 DEF PartsOf
<1> QED
  BY <1>3, <1>4, <1>5, <1>6

(* What a normal form is made of. *)
Inside(n) ==
  IF Is(n, "dict") THEN Range(n.dict)
  ELSE IF Is(n, "list") THEN Range(n.list) ELSE {}

(* What can be encoded. *)
LEMMA FlatEncodes ==
  ASSUME NEW n, EncodesFlat(n) PROVE EncodesBy(n, {})
  BY DEF EncodesFlat, Encodes, EncodesBy

(* One level up, what can be encoded has parts that can. *)
LEMMA ShallowEncodes ==
  ASSUME NEW n, EncodesShallow(n), ~(Is(n, "dict") /\ Is(n, "list")),
         NEW W, Inside(n) \subseteq W
  PROVE  EncodesBy(n, { y \in W : EncodesFlat(y) })
<1> DEFINE E == { y \in W : EncodesFlat(y) }
<1>0. \A f : \A x \in DOMAIN f : f[x] \in Range(f)
  BY DEF Range
<1>1. CASE Is(n, "dict")
  <2>1. \A x \in DOMAIN n.dict : EncodesFlat(n.dict[x])
    BY <1>1 DEF EncodesShallow, Encodes
  <2>2. \A x \in DOMAIN n.dict : n.dict[x] \in E
    BY <1>0, <1>1, <2>1 DEF Inside
  <2> QED
    BY <1>1, <2>2 DEF EncodesBy
<1>2. CASE Is(n, "list") /\ ~Is(n, "dict")
  <2>1. \A x \in DOMAIN n.list : EncodesFlat(n.list[x])
    BY <1>2 DEF EncodesShallow, Encodes
  <2>2. \A x \in DOMAIN n.list : n.list[x] \in E
    BY <1>0, <1>2, <2>1 DEF Inside
  <2> QED
    BY <1>2, <2>2 DEF EncodesBy
<1>3. CASE ~Is(n, "list") /\ ~Is(n, "dict")
  BY <1>3 DEF EncodesShallow, Encodes, EncodesBy
<1> QED
  BY <1>1, <1>2, <1>3

(* And so at the first. *)
LEMMA ValueEncodes ==
  ASSUME NEW n, Serializable(n), ~(Is(n, "dict") /\ Is(n, "list")),
         NEW W, Inside(n) \subseteq W
  PROVE  EncodesBy(n, { y \in W : EncodesShallow(y) })
<1> DEFINE E == { y \in W : EncodesShallow(y) }
<1>0. \A f : \A x \in DOMAIN f : f[x] \in Range(f)
  BY DEF Range
<1>1. CASE Is(n, "dict")
  <2>1. \A x \in DOMAIN n.dict : EncodesShallow(n.dict[x])
    BY <1>1 DEF Serializable, Encodes
  <2>2. \A x \in DOMAIN n.dict : n.dict[x] \in E
    BY <1>0, <1>1, <2>1 DEF Inside
  <2> QED
    BY <1>1, <2>2 DEF EncodesBy
<1>2. CASE Is(n, "list") /\ ~Is(n, "dict")
  <2>1. \A x \in DOMAIN n.list : EncodesShallow(n.list[x])
    BY <1>2 DEF Serializable, Encodes
  <2>2. \A x \in DOMAIN n.list : n.list[x] \in E
    BY <1>0, <1>2, <2>1 DEF Inside
  <2> QED
    BY <1>2, <2>2 DEF EncodesBy
<1>3. CASE ~Is(n, "list") /\ ~Is(n, "dict")
  BY <1>3 DEF Serializable, Encodes, EncodesBy
<1> QED
  BY <1>1, <1>2, <1>3

(* A normal form is not of two kinds. *)
LEMMA NormalOneKind ==
  ASSUME NEW v, UsualFlat(v), NEW N
  PROVE  ~(Is(NormalBy(Bare(v), N), "dict") /\ Is(NormalBy(Bare(v), N), "list"))
<1> DEFINE a == Bare(v)
           n == NormalBy(a, N)
<1>1. CASE a \in Scalars
  BY <1>1, NormalKinds DEF Is, ScalarTypes
<1>2. CASE IsFloat(a)
  BY <1>2, NormalKinds, OneField DEF IsFloat, Is
<1>3. CASE HasFields(a) \/ HasItems(a) \/ IsSet(a)
  <2>1. n = Exotic \/ \E f : n = [dict |-> f] \/ n = [list |-> f]
    BY <1>3, NormalKinds DEF Sorted
  <2> HIDE DEF n
  <2>2. ~(Is(n, "dict") /\ Is(n, "list"))
    BY <2>1, OneField DEF Is, Exotic
  <2> QED
    BY <2>2 DEF n
<1> QED
  BY <1>1, <1>2, <1>3, UsualKinds

(* At the last level nothing is left within a container. *)
LEMMA FlatReady ==
  ASSUME NEW v, UsualFlat(v), NEW V, PartsOf(Bare(v)) \subseteq V,
         EncodesFlat(NormalizeFlat(v))
  PROVE  Ready([x \in V |-> x], {}, V, v)
<1> DEFINE N == [x \in V |-> x]
           a == Bare(v)
           items == Through(N, a.set)
<1>1. Covers(V, v)
  BY PartsCovered
<1>2. EncodesBy(NormalBy(a, N), {})
  BY FlatUnfolds, FlatEncodes
<1>3. ASSUME IsSet(a), Sortable(items)
      PROVE  RankedItems(items, Len(a.set)) /\ RanksApart(items)
  <2>1. a.set \in Seq(V)
    BY <1>1, <1>3 DEF Covers
  <2>2. DOMAIN items = DOMAIN a.set /\ DOMAIN InOrder(items) = DOMAIN items
    BY DEF Through, InOrder, Rearranged
  <2>3. NormalBy(a, N) = [list |-> InOrder(items)]
    BY <1>3, NormalKinds DEF Sorted
  <2>4. DOMAIN InOrder(items) = {}
    <3> HIDE DEF items, N
    <3> QED
      BY <1>2, <2>3, EncodesKinds
  <2>5. Len(a.set) = 0 /\ DOMAIN items = 1..Len(a.set)
    BY <2>1, <2>2, <2>4
  <2> QED
    BY <2>5 DEF RankedItems, RanksApart
<1> QED
  BY <1>1, <1>2, <1>3 DEF Ready, WellRanked

(* At the last level, values that can be encoded have one normal form just *)
(* when they are the same.                                                 *)
LEMMA FlatAgrees ==
  ASSUME NEW v, UsualFlat(v), NEW w, UsualFlat(w), Comparable(v, w),
         EncodesFlat(NormalizeFlat(v)), EncodesFlat(NormalizeFlat(w))
  PROVE  NormalizeFlat(v) = NormalizeFlat(w) <=> SameFlat(v, w)
<1> DEFINE V == PartsOf(Bare(v)) \cup PartsOf(Bare(w))
           N == [x \in V |-> x]
           S == { p \in V \X V : p[1] = p[2] }
<1>1. PartsOf(Bare(v)) \subseteq V /\ PartsOf(Bare(w)) \subseteq V
  OBVIOUS
<1> HIDE DEF V
<1>2. Ready(N, {}, V, v) /\ Ready(N, {}, V, w)
  BY <1>1, FlatReady
<1>3. Agree(N, {}, S, V)
  BY DEF Agree
<1>4. NormalizeFlat(v) = NormalBy(Bare(v), N) /\ NormalizeFlat(w) = NormalBy(Bare(w), N)
  BY <1>1, FlatUnfolds
<1>5. SameFlat(v, w) <=> SameBy(Bare(v), Bare(w), S)
  <2>1. Covers(V, v) /\ Covers(V, w)
    BY <1>1, PartsCovered
  <2> QED
    BY <2>1, FlatSame
<1> HIDE DEF N, S
<1> QED
  BY <1>2, <1>3, <1>4, <1>5, NormalAgrees

(* One level up, a value that can be encoded is ready. *)
LEMMA ShallowReady ==
  ASSUME NEW v, UsualShallow(v), NEW V, PartsOf(Bare(v)) \subseteq V,
         EncodesShallow(NormalizeShallow(v)), NEW W, Inside(NormalizeShallow(v)) \subseteq W
  PROVE  Ready([x \in V |-> NormalizeFlat(x)], { y \in W : EncodesFlat(y) }, V, v)
<1> DEFINE N == [x \in V |-> NormalizeFlat(x)]
           E == { y \in W : EncodesFlat(y) }
           a == Bare(v)
<1>0. UsualFlat(v) /\ \A x \in PartsOf(a) : UsualFlat(x)
  BY ShallowParts
<1>1. Covers(V, v)
  BY <1>0, PartsCovered
<1>2. EncodesBy(NormalBy(a, N), E)
  BY <1>0, ShallowUnfolds, ShallowEncodes, NormalOneKind
<1>3. ASSUME NEW i \in DOMAIN a.set, IsSet(a)
      PROVE  UsualFlat(a.set[i]) /\ \E M : N[a.set[i]] = NormalBy(Bare(a.set[i]), M)
  <2>1. PartsOf(a) = Range(a.set)
    BY <1>3 DEF PartsOf, IsSet, HasFields, HasItems
  <2>2. a.set[i] \in PartsOf(a) /\ a.set[i] \in V
    BY <2>1 DEF Range
  <2> DEFINE x == a.set[i]
  <2>3. UsualFlat(x)
    BY <1>0, <2>2
  <2> HIDE DEF x
  <2>4. \E M : NormalizeFlat(x) = NormalBy(Bare(x), M)
    <3> DEFINE X == PartsOf(Bare(x))
    <3>1. X \subseteq X
      OBVIOUS
    <3> HIDE DEF X
    <3>2. NormalizeFlat(x) = NormalBy(Bare(x), [z \in X |-> z])
      BY <2>3, <3>1, FlatUnfolds DEF X
    <3> QED
      BY <3>2
  <2> QED
    BY <2>2, <2>3, <2>4 DEF x
<1>4. WellRanked(N, v)
  <2> HIDE DEF N
  <2> QED
    BY <1>0, <1>3, RanksKept
<1> QED
  BY <1>0, <1>1, <1>2, <1>4 DEF Ready

(* And has the normal form of another one just when they are the same. *)
LEMMA ShallowAgrees ==
  ASSUME NEW v, UsualShallow(v), NEW w, UsualShallow(w), Comparable(v, w),
         EncodesShallow(NormalizeShallow(v)), EncodesShallow(NormalizeShallow(w))
  PROVE  NormalizeShallow(v) = NormalizeShallow(w) <=> SameShallow(v, w)
<1> DEFINE V == PartsOf(Bare(v)) \cup PartsOf(Bare(w))
           W == Inside(NormalizeShallow(v)) \cup Inside(NormalizeShallow(w))
           N == [x \in V |-> NormalizeFlat(x)]
           E == { y \in W : EncodesFlat(y) }
           S == { p \in V \X V : SameFlat(p[1], p[2]) }
<1>0. /\ UsualFlat(v) /\ UsualFlat(w)
      /\ \A x \in V : UsualFlat(x)
  BY ShallowParts
<1>1. /\ PartsOf(Bare(v)) \subseteq V /\ PartsOf(Bare(w)) \subseteq V
      /\ Inside(NormalizeShallow(v)) \subseteq W /\ Inside(NormalizeShallow(w)) \subseteq W
  OBVIOUS
<1> HIDE DEF V, W
<1>2. Ready(N, E, V, v) /\ Ready(N, E, V, w)
  BY <1>1, ShallowReady
<1>3. Agree(N, E, S, V)
  <2> SUFFICES ASSUME NEW x \in V, NEW y \in V, Comparable(x, y), N[x] \in E, N[y] \in E
               PROVE  N[x] = N[y] <=> << x, y >> \in S
    BY DEF Agree
  <2>1. EncodesFlat(NormalizeFlat(x)) /\ EncodesFlat(NormalizeFlat(y))
    OBVIOUS
  <2>2. NormalizeFlat(x) = NormalizeFlat(y) <=> SameFlat(x, y)
    BY <1>0, <2>1, FlatAgrees
  <2> QED
    BY <2>2
<1>4. NormalizeShallow(v) = NormalBy(Bare(v), N) /\ NormalizeShallow(w) = NormalBy(Bare(w), N)
  BY <1>0, <1>1, ShallowUnfolds
<1>5. SameShallow(v, w) <=> SameBy(Bare(v), Bare(w), S)
  <2>1. Covers(V, v) /\ Covers(V, w)
    BY <1>0, <1>1, PartsCovered
  <2> QED
    BY <1>0, <2>1, ShallowSame
<1> HIDE DEF N, E, S
<1> QED
  BY <1>2, <1>3, <1>4, <1>5, NormalAgrees

(* So is a value at the first level. *)
LEMMA ValueReady ==
  ASSUME NEW v, UsualValue(v), NEW V, PartsOf(Bare(v)) \subseteq V,
         Serializable(NormalizeValue(v)), NEW W, Inside(NormalizeValue(v)) \subseteq W
  PROVE  Ready([x \in V |-> NormalizeShallow(x)], { y \in W : EncodesShallow(y) }, V, v)
<1> DEFINE N == [x \in V |-> NormalizeShallow(x)]
           E == { y \in W : EncodesShallow(y) }
           a == Bare(v)
<1>0. UsualFlat(v) /\ \A x \in PartsOf(a) : UsualShallow(x)
  BY ValueParts
<1>1. Covers(V, v)
  BY <1>0, PartsCovered
<1>2. EncodesBy(NormalBy(a, N), E)
  BY <1>0, ValueUnfolds, ValueEncodes, NormalOneKind
<1>3. ASSUME NEW i \in DOMAIN a.set, IsSet(a)
      PROVE  UsualFlat(a.set[i]) /\ \E M : N[a.set[i]] = NormalBy(Bare(a.set[i]), M)
  <2>1. PartsOf(a) = Range(a.set)
    BY <1>3 DEF PartsOf, IsSet, HasFields, HasItems
  <2>2. a.set[i] \in PartsOf(a) /\ a.set[i] \in V
    BY <2>1 DEF Range
  <2> DEFINE x == a.set[i]
  <2>3. UsualFlat(x)
    BY <1>0, <2>2, ShallowParts
  <2> HIDE DEF x
  <2>4. \E M : NormalizeShallow(x) = NormalBy(Bare(x), M)
    <3> DEFINE X == PartsOf(Bare(x))
    <3>1. X \subseteq X
      OBVIOUS
    <3> HIDE DEF X
    <3>2. NormalizeShallow(x) = NormalBy(Bare(x), [z \in X |-> NormalizeFlat(z)])
      BY <2>3, <3>1, ShallowUnfolds DEF X
    <3> QED
      BY <3>2
  <2> QED
    BY <2>2, <2>3, <2>4 DEF x
<1>4. WellRanked(N, v)
  <2> HIDE DEF N
  <2> QED
    BY <1>0, <1>3, RanksKept
<1> QED
  BY <1>0, <1>1, <1>2, <1>4 DEF Ready

(* normalize_value decides: values that can be encoded have one normal     *)
(* form just when they are the same.                                       *)
LEMMA ValueAgrees ==
  ASSUME NEW v, UsualValue(v), NEW w, UsualValue(w), Comparable(v, w),
         Serializable(NormalizeValue(v)), Serializable(NormalizeValue(w))
  PROVE  NormalizeValue(v) = NormalizeValue(w) <=> Same(v, w)
<1> DEFINE V == PartsOf(Bare(v)) \cup PartsOf(Bare(w))
           W == Inside(NormalizeValue(v)) \cup Inside(NormalizeValue(w))
           N == [x \in V |-> NormalizeShallow(x)]
           E == { y \in W : EncodesShallow(y) }
           S == { p \in V \X V : SameShallow(p[1], p[2]) }
<1>0. /\ UsualFlat(v) /\ UsualFlat(w)
      /\ \A x \in V : UsualShallow(x)
  BY ValueParts
<1>1. /\ PartsOf(Bare(v)) \subseteq V /\ PartsOf(Bare(w)) \subseteq V
      /\ Inside(NormalizeValue(v)) \subseteq W /\ Inside(NormalizeValue(w)) \subseteq W
  OBVIOUS
<1> HIDE DEF V, W
<1>2. Ready(N, E, V, v) /\ Ready(N, E, V, w)
  BY <1>1, ValueReady
<1>3. Agree(N, E, S, V)
  <2> SUFFICES ASSUME NEW x \in V, NEW y \in V, Comparable(x, y), N[x] \in E, N[y] \in E
               PROVE  N[x] = N[y] <=> << x, y >> \in S
    BY DEF Agree
  <2>1. EncodesShallow(NormalizeShallow(x)) /\ EncodesShallow(NormalizeShallow(y))
    OBVIOUS
  <2>2. NormalizeShallow(x) = NormalizeShallow(y) <=> SameShallow(x, y)
    BY <1>0, <2>1, ShallowAgrees
  <2> QED
    BY <2>2
<1>4. NormalizeValue(v) = NormalBy(Bare(v), N) /\ NormalizeValue(w) = NormalBy(Bare(w), N)
  BY <1>0, <1>1, ValueUnfolds
<1>5. Same(v, w) <=> SameBy(Bare(v), Bare(w), S)
  <2>1. Covers(V, v) /\ Covers(V, w)
    BY <1>0, <1>1, PartsCovered
  <2> QED
    BY <1>0, <2>1, ValueSame
<1> HIDE DEF N, E, S
<1> QED
  BY <1>2, <1>3, <1>4, <1>5, NormalAgrees

-------------------------------------------------------------------------------
(* Whole keys, and the requests that are in flight                          *)

(* Names are the same when they are equal. *)
LEMMA NamesSame ==
  ASSUME NEW v \in [str : Int], NEW w \in [str : Int]
  PROVE  Same(v, w) <=> v = w
<1>1. DOMAIN v = {"str"} /\ DOMAIN w = {"str"}
  OBVIOUS
<1>2. Bare(v) = v /\ Bare(w) = w
  BY <1>1 DEF Bare, Is
<1>3. DOMAIN v \cup DOMAIN w = {"str"}
  BY <1>1
<1> QED
  BY <1>2, <1>3 DEF Same, SameAs

AskedOf(s) == { x \in DOMAIN s : x \notin Excluded /\ s[x] # None }

(* A voice or a model is given, and the same, just when it is asked for.    *)
LEMMA NamesAgree ==
  ASSUME NEW p, UsualSettings(p.settings), NEW q, UsualSettings(q.settings),
         NEW x \in {"voice", "model"}
  PROVE  GivenOf(p, x) = GivenOf(q, x) <=>
           /\ x \in AskedOf(p.settings) <=> x \in AskedOf(q.settings)
           /\ x \in AskedOf(p.settings) => Same(p.settings[x], q.settings[x])
<1>1. x \notin Excluded
  BY SettingsAssumption
<1>2. ASSUME NEW r, UsualSettings(r.settings)
      PROVE  /\ x \in AskedOf(r.settings) <=> GivenOf(r, x) # None
             /\ x \in AskedOf(r.settings) => /\ GivenOf(r, x) = r.settings[x]
                                             /\ r.settings[x] \in [str : Int]
  BY <1>1, <1>2 DEF AskedOf, GivenOf, UsualSettings
<1>3. CASE x \in AskedOf(p.settings) /\ x \in AskedOf(q.settings)
  BY <1>2, <1>3, NamesSame
<1>4. CASE ~(x \in AskedOf(p.settings) /\ x \in AskedOf(q.settings))
  BY <1>2, <1>4
<1> QED
  BY <1>3, <1>4

(* The settings that are hashed by themselves. *)
LEMMA OthersKept ==
  ASSUME NEW r
  PROVE  /\ DOMAIN OthersOf(r) = AskedOf(r.settings) \ {"voice", "model"}
         /\ \A x \in DOMAIN OthersOf(r) : OthersOf(r)[x] = NormalizeValue(r.settings[x])
         /\ OthersOf(r) = [x \in DOMAIN OthersOf(r) |-> OthersOf(r)[x]]
  BY DEF OthersOf, FilterSettings, AskedOf

(* They are equal just when the same are asked for alike. *)
LEMMA OthersAgree ==
  ASSUME NEW p, UsualSettings(p.settings), NEW q, UsualSettings(q.settings),
         \A x \in DOMAIN OthersOf(p) : Serializable(OthersOf(p)[x]),
         \A x \in DOMAIN OthersOf(q) : Serializable(OthersOf(q)[x])
  PROVE  OthersOf(p) = OthersOf(q) <=>
           /\ DOMAIN OthersOf(p) = DOMAIN OthersOf(q)
           /\ \A x \in DOMAIN OthersOf(p) : Same(p.settings[x], q.settings[x])
<1>1. ASSUME DOMAIN OthersOf(p) = DOMAIN OthersOf(q), NEW x \in DOMAIN OthersOf(p)
      PROVE  OthersOf(p)[x] = OthersOf(q)[x] <=> Same(p.settings[x], q.settings[x])
  <2>1. ASSUME NEW r, UsualSettings(r.settings), x \in DOMAIN OthersOf(r)
        PROVE  /\ UsualValue(r.settings[x]) /\ Typed(x, r.settings[x])
               /\ OthersOf(r)[x] = NormalizeValue(r.settings[x])
    BY <2>1, OthersKept DEF UsualSettings, AskedOf
  <2> DEFINE v == p.settings[x]
             w == q.settings[x]
  <2>2. /\ UsualValue(v) /\ Typed(x, v) /\ OthersOf(p)[x] = NormalizeValue(v)
        /\ UsualValue(w) /\ Typed(x, w) /\ OthersOf(q)[x] = NormalizeValue(w)
    BY <1>1, <2>1
  <2>3. Serializable(NormalizeValue(v)) /\ Serializable(NormalizeValue(w))
    <3>1. Serializable(OthersOf(p)[x]) /\ Serializable(OthersOf(q)[x])
      BY <1>1
    <3> HIDE DEF v, w
    <3> QED
      BY <2>2, <3>1
  <2> HIDE DEF v, w
  <2>4. Comparable(v, w)
    BY <2>2 DEF Typed, Comparable
  <2>5. NormalizeValue(v) = NormalizeValue(w) <=> Same(v, w)
    BY <2>2, <2>3, <2>4, ValueAgrees
  <2> QED
    BY <2>2, <2>5 DEF v, w
<1>2. /\ OthersOf(p) = [x \in DOMAIN OthersOf(p) |-> OthersOf(p)[x]]
      /\ OthersOf(q) = [x \in DOMAIN OthersOf(q) |-> OthersOf(q)[x]]
  BY OthersKept
<1>3. OthersOf(p) = OthersOf(q) <=>
        /\ DOMAIN OthersOf(p) = DOMAIN OthersOf(q)
        /\ \A x \in DOMAIN OthersOf(p) : OthersOf(p)[x] = OthersOf(q)[x]
  BY <1>2
<1> QED
  BY <1>1, <1>3

(* What a key is, when it can be made. *)
LEMMA KeyMade ==
  ASSUME NEW r, NEW text, GenerateKey(r, text) # KeyError
  PROVE  /\ GenerateKey(r, text) =
              [namespace |-> r.namespace,
               data |-> WithProvider(HashedOf(r, text), WrappedServiceId(r.mro))]
         /\ \A x \in DOMAIN OthersOf(r) : Serializable(OthersOf(r)[x])
  BY DEF GenerateKey, HashedOf, GivenOf, OthersOf

(***************************************************************************)
(* Of requests that can be keyed, with usual settings, those and only      *)
(* those that may share their speech share a key, whatever their words,    *)
(* their settings and the order in which their sets are iterated           *)
(* (generate_cache_key, normalize_value, filter_settings).                 *)
(***************************************************************************)
THEOREM KeysDecide ==
  ASSUME NEW p, NEW text1, NEW q, NEW text2,
         UsualSettings(p.settings), UsualSettings(q.settings),
         GenerateKey(p, text1) # KeyError, GenerateKey(q, text2) # KeyError
  PROVE  GenerateKey(p, text1) = GenerateKey(q, text2) <=> SameSpeech(p, text1, q, text2)
<1> DEFINE s == p.settings
           t == q.settings
           Equal == /\ p.namespace = q.namespace
                    /\ WrappedServiceId(p.mro) = WrappedServiceId(q.mro)
                    /\ NormalizeText(text1) = NormalizeText(text2)
                    /\ GivenOf(p, "voice") = GivenOf(q, "voice")
                    /\ GivenOf(p, "model") = GivenOf(q, "model")
                    /\ p.rate = q.rate
                    /\ OthersOf(p) = OthersOf(q)
<1>1. GenerateKey(p, text1) = GenerateKey(q, text2) => Equal
  BY EqualKeysEqualRequests
<1>2. Equal => GenerateKey(p, text1) = GenerateKey(q, text2)
  BY KeyMade DEF HashedOf
<1>3. SameSpeech(p, text1, q, text2) <=>
        /\ p.namespace = q.namespace
        /\ NormalizeText(text1) = NormalizeText(text2)
        /\ p.rate = q.rate
        /\ WrappedServiceId(p.mro) = WrappedServiceId(q.mro)
        /\ AskedOf(s) = AskedOf(t)
        /\ \A x \in AskedOf(s) : Same(s[x], t[x])
  BY DEF SameSpeech, AskedOf
<1>4. ASSUME NEW x \in {"voice", "model"}
      PROVE  GivenOf(p, x) = GivenOf(q, x) <=>
               /\ x \in AskedOf(s) <=> x \in AskedOf(t)
               /\ x \in AskedOf(s) => Same(s[x], t[x])
  BY NamesAgree
<1>5. OthersOf(p) = OthersOf(q) <=>
        /\ AskedOf(s) \ {"voice", "model"} = AskedOf(t) \ {"voice", "model"}
        /\ \A x \in AskedOf(s) \ {"voice", "model"} : Same(s[x], t[x])
  <2>1. /\ \A x \in DOMAIN OthersOf(p) : Serializable(OthersOf(p)[x])
        /\ \A x \in DOMAIN OthersOf(q) : Serializable(OthersOf(q)[x])
    BY KeyMade
  <2>2. OthersOf(p) = OthersOf(q) <=>
           /\ DOMAIN OthersOf(p) = DOMAIN OthersOf(q)
           /\ \A x \in DOMAIN OthersOf(p) : Same(s[x], t[x])
    BY <2>1, OthersAgree
  <2> QED
    BY <2>2, OthersKept
<1> HIDE DEF s, t
<1>6. /\ GivenOf(p, "voice") = GivenOf(q, "voice")
      /\ GivenOf(p, "model") = GivenOf(q, "model")
      /\ OthersOf(p) = OthersOf(q)
      <=> /\ AskedOf(s) = AskedOf(t)
          /\ \A x \in AskedOf(s) : Same(s[x], t[x])
  <2> DEFINE A == AskedOf(s)
             B == AskedOf(t)
             Both(x) == (x \in A <=> x \in B) /\ (x \in A => Same(s[x], t[x]))
  <2>1. A = B /\ (\A x \in A : Same(s[x], t[x])) <=>
          /\ Both("voice") /\ Both("model")
          /\ A \ {"voice", "model"} = B \ {"voice", "model"}
          /\ \A x \in A \ {"voice", "model"} : Same(s[x], t[x])
    <3> HIDE DEF A, B
    <3>1. ASSUME A = B, \A x \in A : Same(s[x], t[x])
          PROVE  /\ Both("voice") /\ Both("model")
                 /\ A \ {"voice", "model"} = B \ {"voice", "model"}
                 /\ \A x \in A \ {"voice", "model"} : Same(s[x], t[x])
      BY <3>1
    <3>2. ASSUME /\ Both("voice") /\ Both("model")
                 /\ A \ {"voice", "model"} = B \ {"voice", "model"}
                 /\ \A x \in A \ {"voice", "model"} : Same(s[x], t[x])
          PROVE  A = B /\ \A x \in A : Same(s[x], t[x])
      BY <3>2
    <3> QED
      BY <3>1, <3>2
  <2>2. (GivenOf(p, "voice") = GivenOf(q, "voice") <=> Both("voice"))
        /\ (GivenOf(p, "model") = GivenOf(q, "model") <=> Both("model"))
    BY <1>4
  <2> HIDE DEF Both
  <2> QED
    BY <1>5, <2>1, <2>2
<1> QED
  BY <1>1, <1>2, <1>3, <1>6

-------------------------------------------------------------------------------
(* Requests are keyed by generate_cache_key, their settings are usual, and *)
(* speech may be shared when it is the same.                               *)
KeysGenerated ==
  /\ NoKey = KeyError
  /\ \A r \in Requests :
       /\ KeyOf(r) = GenerateKey(r.profile, r.text)
       /\ UsualSettings(r.profile.settings)
  /\ \A r, q \in Requests :
       Alike(r, q) <=> SameSpeech(r.profile, r.text, q.profile, q.text)

(* Such requests share a key just when they may share their speech. *)
LEMMA SameKeysAlike ==
  ASSUME KeysGenerated, NEW r \in Requests, NEW q \in Requests,
         KeyOf(r) # NoKey, KeyOf(q) # NoKey
  PROVE  KeyOf(r) = KeyOf(q) <=> Alike(r, q)
  BY KeysDecide DEF KeysGenerated

(* Calls that wait for the cache at the same time. *)
LEMMA InFlightKeyed ==
  ASSUME SharedInv, NEW t \in InFlight
  PROVE  t.request \in Requests /\ t.key = KeyOf(t.request) /\ t.key # NoKey
  BY DEF SharedInv, CallsKeyed, IsCall, InFlight

(***************************************************************************)
(* Requests that share a key may share their speech ("so                   *)
(* speed/emotion/etc. isolate the cache": normalize_value).                *)
(***************************************************************************)
THEOREM RequestsIsolated ==
  ASSUME KeysGenerated PROVE Spec => []KeysIsolate
<1>1. SharedInv => KeysIsolate
  BY InFlightKeyed, SameKeysAlike DEF KeysIsolate
<1> QED
  BY <1>1, SharedInvariant, PTL

(***************************************************************************)
(* And requests that may share their speech share a key, so that one finds *)
(* what was stored for the other.                                          *)
(***************************************************************************)
THEOREM RequestsAgree ==
  ASSUME KeysGenerated PROVE Spec => []KeysAgree
<1>1. SharedInv => KeysAgree
  BY InFlightKeyed, SameKeysAlike DEF KeysAgree
<1> QED
  BY <1>1, SharedInvariant, PTL

(***************************************************************************)
(* No service hears speech that was looked up as, and but for a change     *)
(* during that lookup made for, a request that asks for anything else.     *)
(***************************************************************************)
THEOREM RequestsHeardAsAsked ==
  ASSUME KeysGenerated PROVE Spec => []HeardAsAsked
<1>1. \A q, r \in Requests : KeyOf(q) = KeyOf(r) /\ KeyOf(q) # NoKey => Alike(q, r)
  BY SameKeysAlike
<1> QED
  BY <1>1, SpeechHeardAsAsked
=============================================================================
