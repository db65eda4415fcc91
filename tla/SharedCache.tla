----------------------------- MODULE SharedCache -----------------------------
(***************************************************************************)
(* Several cached services on one backend (mixin.py with key_generator.py; *)
(* "one backend can be shared across services and processes").  Each makes *)
(* the key of a request from its settings when run_tts begins; the answer  *)
(* of the cache, the synthesis and the write come later, and settings      *)
(* change at any time in between.                                          *)
(*                                                                         *)
(* How the speech of a request is captured is the subject of TTSCacheMixin;*)
(* here it is known by the request it was made for.                        *)
(***************************************************************************)
EXTENDS Integers, Sequences

CONSTANTS
  Services,
  Profiles,        \* what the key of a request depends on besides its text
  Starts(_),       \* the profiles a service may be started with
  Changed(_),      \* the profiles that an update of the settings makes of one
  Texts,
  Key(_, _),       \* the key of a profile and a text, or NoKey
  NoKey,
  Alike(_, _),     \* whether two requests may share their speech
  NoEntry, NoCall,
  MaxRequests,     \* bound: calls of run_tts
  MaxUpdates       \* bound: changes of settings

Requests == [profile : Profiles, text : Texts]

KeyOf(r) == Key(r.profile, r.text)

ASSUME SharedAssumption ==
  /\ \A s \in Services : Starts(s) \subseteq Profiles
  /\ NoEntry \notin Requests
  /\ MaxRequests \in Nat /\ MaxUpdates \in Nat

VARIABLES
  profile,   \* of each service
  call,      \* the run_tts of each service that waits for the cache:
             \* [request, key, changed]
  tasks,     \* what each service is to write: [speech, key], oldest first
  cache,     \* under some keys, speech
  heard,     \* for each service, the last replay: [asked, speech]
  requests, updates

vars == << profile, call, tasks, cache, heard, requests, updates >>

(* Speech is known by the request it was looked up for and the request it  *)
(* was then made for, and whether the settings changed during that lookup. *)
Speech == [asked : Requests, made : Requests, changed : BOOLEAN]

Replay == [asked : Requests, speech : Speech]

IsCall(c) ==
  /\ DOMAIN c = {"request", "key", "changed"}
  /\ c.request \in Requests /\ c.key # NoKey /\ c.changed \in BOOLEAN

IsTask(t) == DOMAIN t = {"speech", "key"} /\ t.speech \in Speech /\ t.key # NoKey

TypeOK ==
  /\ profile \in [Services -> Profiles]
  /\ DOMAIN call = Services
  /\ \A s \in Services : call[s] # NoCall => IsCall(call[s])
  /\ DOMAIN tasks = Services
  /\ \A s \in Services : \A i \in DOMAIN tasks[s] : IsTask(tasks[s][i])
  /\ cache \in [DOMAIN cache -> Speech] /\ NoKey \notin DOMAIN cache
  /\ heard \in [Services -> Replay \cup {NoEntry}]
  /\ requests \in 0..MaxRequests
  /\ updates \in 0..MaxUpdates

Init ==
  /\ profile \in [Services -> Profiles]
  /\ \A s \in Services : profile[s] \in Starts(s)
  /\ call = [s \in Services |-> NoCall]
  /\ tasks = [s \in Services |-> << >>]
  /\ cache = [k \in {} |-> NoEntry]
  /\ heard = [s \in Services |-> NoEntry]
  /\ requests = 0 /\ updates = 0

-------------------------------------------------------------------------------
(* When no key can be made the text is spoken without the cache. *)
Anything(r) == TRUE
Cacheable(r) == KeyOf(r) # NoKey

(* run_tts up to the await of get *)
Request(s, text) ==
  LET r == [profile |-> profile[s], text |-> text]
  IN  /\ call[s] = NoCall
      /\ requests < MaxRequests
      /\ Cacheable(r)
      /\ call' = [call EXCEPT ![s] =
                     [request |-> r, key |-> KeyOf(r), changed |-> FALSE]]
      /\ requests' = requests + 1
      /\ UNCHANGED << profile, tasks, cache, heard, updates >>

Hit(s) ==
  /\ call[s] # NoCall
  /\ call[s].key \in DOMAIN cache
  /\ heard' = [heard EXCEPT ![s] = [asked |-> call[s].request,
                                    speech |-> cache[call[s].key]]]
  /\ call' = [call EXCEPT ![s] = NoCall]
  /\ UNCHANGED << profile, tasks, cache, requests, updates >>

(* Also when get fails.  The service speaks the text as it is set now. *)
Miss(s) ==
  LET asked == call[s].request
      speech == [asked |-> asked, made |-> [profile |-> profile[s], text |-> asked.text],
                 changed |-> call[s].changed]
  IN  /\ call[s] # NoCall
      /\ tasks' = [tasks EXCEPT ![s] = Append(@, [speech |-> speech, key |-> call[s].key])]
      /\ call' = [call EXCEPT ![s] = NoCall]
      /\ UNCHANGED << profile, cache, heard, requests, updates >>

(* The key is the one the request was looked up under. *)
KeyAtStore(s, task) == KeyOf([profile |-> profile[s], text |-> task.speech.asked.text])
KeyAtRequest(s, task) == task.key

With(k, speech) == [j \in DOMAIN cache \cup {k} |-> IF j = k THEN speech ELSE cache[j]]

(* _store_response.  The write may fail. *)
Store(s) ==
  /\ tasks[s] # << >>
  /\ \/ cache' = With(KeyAtRequest(s, Head(tasks[s])), Head(tasks[s]).speech)
     \/ UNCHANGED cache
  /\ tasks' = [tasks EXCEPT ![s] = Tail(@)]
  /\ UNCHANGED << profile, call, heard, requests, updates >>

(* _handle_interruption: what is not yet written is dropped. *)
Interrupt(s) ==
  /\ call' = [call EXCEPT ![s] = NoCall]
  /\ tasks' = [tasks EXCEPT ![s] = << >>]
  /\ UNCHANGED << profile, cache, heard, requests, updates >>

(* A call that waits for the cache does not keep the settings from         *)
(* changing; it keeps the key it has made.                                 *)
Overtaken(c) == IF c = NoCall THEN c ELSE [c EXCEPT !.changed = TRUE]

UpdateSettings(s) ==
  /\ updates < MaxUpdates
  /\ \E p \in Changed(profile[s]) \cap Profiles : profile' = [profile EXCEPT ![s] = p]
  /\ call' = [call EXCEPT ![s] = Overtaken(@)]
  /\ updates' = updates + 1
  /\ UNCHANGED << tasks, cache, heard, requests >>

(* clear_cache, expiry, eviction *)
Lose(k) ==
  /\ cache' = [j \in DOMAIN cache \ {k} |-> cache[j]]
  /\ UNCHANGED << profile, call, tasks, heard, requests, updates >>

Next ==
  \/ \E s \in Services :
       \/ \E text \in Texts : Request(s, text)
       \/ Hit(s)
       \/ Miss(s)
       \/ Store(s)
       \/ Interrupt(s)
       \/ UpdateSettings(s)
  \/ \E k \in DOMAIN cache : Lose(k)

Spec == Init /\ [][Next]_vars

-------------------------------------------------------------------------------
(***************************************************************************)
(* Speech is on its way to, and stored under, the key of the request it    *)
(* was looked up for, whatever settings change later (cache_key of         *)
(* _PendingTask).  That is the key of the request it was made for, except  *)
(* when the settings changed during the lookup: the await of get then ends *)
(* in a synthesis with the new settings, filed under the old key.          *)
(***************************************************************************)
Filed(k, speech) ==
  /\ k = KeyOf(speech.asked)
  /\ speech.changed \/ k = KeyOf(speech.made)

FiledUnderItsKey ==
  /\ \A s \in Services : \A i \in DOMAIN tasks[s] :
       Filed(tasks[s][i].key, tasks[s][i].speech)
  /\ \A k \in DOMAIN cache : Filed(k, cache[k])

(***************************************************************************)
(* A service only replays speech that was looked up as, and but for a      *)
(* change during that lookup made for, a request like the one it asks for: *)
(* with its words, by the same provider, at its sample rate, with settings *)
(* that sound the same, from its namespace, whichever service made it and  *)
(* whatever has changed since ("two different services that happen to      *)
(* share the same voice/model never collide").                             *)
(***************************************************************************)
HeardAsAsked ==
  \A s \in Services : heard[s] # NoEntry =>
    LET speech == heard[s].speech
    IN  /\ Alike(heard[s].asked, speech.asked)
        /\ speech.changed \/ Alike(heard[s].asked, speech.made)

(***************************************************************************)
(* Of two requests that are looked up at the same time, those that share a *)
(* key may share their speech (generate_cache_key).                        *)
(***************************************************************************)
InFlight == { call[s] : s \in Services } \ {NoCall}

KeysIsolate ==
  \A t, u \in InFlight : t.key = u.key => Alike(t.request, u.request)

(***************************************************************************)
(* And those that may share their speech share a key: no iteration order,  *)
(* spelling of white space, secret or absent setting keeps a process from  *)
(* finding what another one stored ("the key never depends on set          *)
(* iteration order").                                                      *)
(***************************************************************************)
KeysAgree ==
  \A t, u \in InFlight : Alike(t.request, u.request) => t.key = u.key
==============================================================================
