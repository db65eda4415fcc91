----------------------------- MODULE RedisBackend -----------------------------
(***************************************************************************)
(* RedisCacheBackend (backends/redis.py): concurrent calls of one instance *)
(* share a lazily made client; the server is shared with other programs.   *)
(* A call runs without interruption from one round trip to the next, so    *)
(* one step of a call is one round trip and what follows it.               *)
(*                                                                         *)
(* Of a client only matters whether _client refers to one: a command given *)
(* to a client that is closing, or that no longer is _client, still        *)
(* reaches the server, since redis-py connects again when it needs to.     *)
(***************************************************************************)
EXTENDS Integers, FiniteSets

CONSTANTS
  Keys, Values, NoEntry,
  Bad,          \* data in the server that is not a pickled response
  NoExpiry,     \* ex=None
  Namespaces,   \* namespaces handed to clear
  Matched,      \* for each of them, the keys its search pattern matches
  Ttls,         \* values of ttl in tenths of a second; 0 and less stand for None
  Callers       \* tasks that use the backend, each for one call at a time

ASSUME RedisAssumption ==
  /\ NoEntry \notin Values /\ Bad \notin Values /\ Bad # NoEntry
  /\ Matched \in [Namespaces -> SUBSET Keys]
  /\ Ttls \subseteq Int
  /\ NoExpiry \notin Int

VARIABLES
  server,     \* what the server holds under each key
  client,     \* _client is not None
  open,       \* clients made and neither closed nor given up
  disturbed,  \* a close has run at the same time as another call
  job         \* what each caller is doing

connection == << client, open, disturbed >>
vars == << server, connection, job >>

(* A call waits for the ping of the client it made, or for the answer to   *)
(* its own command.  A get that answered with a response leaves it behind  *)
(* for the properties, as `spared' is: the keys written while a clear was  *)
(* running.                                                                *)
Waits == {"ping", "reply"}
NoJob == [op |-> "none"]
Answered(k, answer) == [op |-> "none", key |-> k, answer |-> answer]
Job ==
  {NoJob} \cup [op : {"none"}, key : Keys, answer : Values]
  \cup [op : {"get", "heal", "delete"}, at : Waits, key : Keys]
  \cup [op : {"set"}, at : Waits, key : Keys, value : Values,
        ex : (Nat \ {0}) \cup {NoExpiry}]
  \cup [op : {"read", "close"}, at : Waits]
  \cup [op : {"clear"}, at : Waits, scope : SUBSET Keys, owed : SUBSET Keys,
        batch : SUBSET Keys, begun : BOOLEAN, spared : SUBSET Keys]

(* In particular, a get answers with responses only ("Invalid cached data  *)
(* type"), and no set sends an expiry the server refuses ("a float or a    *)
(* zero expiry").                                                          *)
TypeOK ==
  /\ server \in [Keys -> Values \cup {Bad, NoEntry}]
  /\ client \in BOOLEAN
  /\ open \in Nat
  /\ disturbed \in BOOLEAN
  /\ job \in [Callers -> Job]

Init ==
  /\ server = [k \in Keys |-> NoEntry]
  /\ client = FALSE
  /\ open = 0
  /\ disturbed = FALSE
  /\ job = [w \in Callers |-> NoJob]

-------------------------------------------------------------------------------
Idle(w) == job[w].op = "none"
Waiting(w, op, at) == job[w].op = op /\ job[w].at = at

Become(w, next) == job' = [job EXCEPT ![w] = next]

(* Clients are counted until a close disturbs the count. *)
Opened(n) == open' = IF disturbed' THEN 0 ELSE n

(* self._client = from_url(...), before the ping is awaited *)
AssignedAfterPing(before, pinged) == before \/ pinged
Assigned(before, pinged) == before \/ ~pinged

(* _get_client, up to its await *)
Enter(w, next) ==
  \/ /\ client
     /\ Become(w, [next EXCEPT !.at = "reply"])
     /\ Opened(open)
     /\ UNCHANGED client
  \/ /\ ~client
     /\ Become(w, [next EXCEPT !.at = "ping"])
     /\ Opened(open + 1)
     /\ client' = Assigned(client, FALSE)

Begin(w, next) ==
  /\ Idle(w)
  /\ disturbed' = (disturbed \/ \E u \in Callers : job[u].op = "close")
  /\ Enter(w, next)
  /\ UNCHANGED server

(* max(1, int(ttl)) if ttl and ttl > 0 else None *)
Seconds(ttl) == IF ttl > 0 THEN ttl \div 10 ELSE NoExpiry
ClampedSeconds(ttl) ==
  IF ttl > 0 THEN (IF ttl >= 20 THEN ttl \div 10 ELSE 1) ELSE NoExpiry

BeginGet(w, k) == Begin(w, [op |-> "get", at |-> "reply", key |-> k])

BeginSet(w, k, v, ttl) ==
  Begin(w, [op |-> "set", at |-> "reply", key |-> k, value |-> v,
            ex |-> ClampedSeconds(ttl)])

BeginDelete(w, k) == Begin(w, [op |-> "delete", at |-> "reply", key |-> k])

BeginClear(w, scope) ==
  Begin(w, [op |-> "clear", at |-> "reply", scope |-> scope, owed |-> {},
            batch |-> {}, begun |-> FALSE, spared |-> {}])

(* exists and get_stats *)
BeginRead(w) == Begin(w, [op |-> "read", at |-> "reply"])

BeginClose(w) ==
  /\ Idle(w) /\ client
  /\ Become(w, [op |-> "close", at |-> "reply"])
  /\ disturbed' = (disturbed \/ \E u \in Callers \ {w} : ~Idle(u))
  /\ Opened(open)
  /\ UNCHANGED << server, client >>

-------------------------------------------------------------------------------
(* Failure, of everything but close.                                       *)

(* get takes an error other than ConnectionError, the socket's timeout     *)
(* among them, for a bad entry.                                            *)
HealJob(w) == [op |-> "heal", at |-> "reply", key |-> job[w].key]

Failed(w) ==
  \/ Become(w, NoJob) /\ UNCHANGED << client, open >>
  \/ job[w].op = "get" /\ Enter(w, HealJob(w))

(* return self._client, which a close may have set to None meanwhile *)
PingAnswered(w) ==
  /\ UNCHANGED << server, disturbed >>
  /\ ~Idle(w) /\ job[w].at = "ping"
  /\ \/ /\ Assigned(client, TRUE)
        /\ Become(w, [job[w] EXCEPT !.at = "reply"])
        /\ client' = TRUE
        /\ UNCHANGED open
     \/ ~Assigned(client, TRUE) /\ Failed(w)

(* A get goes on to heal, by another client. *)
PingFailed(w) ==
  /\ UNCHANGED << server, disturbed >>
  /\ ~Idle(w) /\ job[w].at = "ping"
  /\ \/ /\ Become(w, NoJob)
        /\ client' = FALSE
        /\ Opened(IF client THEN open - 1 ELSE open)
     \/ /\ job[w].op = "get"
        /\ Become(w, [HealJob(w) EXCEPT !.at = "ping"])
        /\ client' = Assigned(FALSE, FALSE)
        /\ Opened(IF client THEN open ELSE open + 1)

CommandFailed(w) ==
  /\ UNCHANGED << server, disturbed >>
  /\ job[w].op \notin {"none", "close"} /\ job[w].at = "reply"
  /\ Failed(w)

(* Interruptions cancel a call, which no handler catches. *)
Cancelled(w) ==
  /\ job[w].op \notin {"none", "close"}
  /\ Become(w, NoJob)
  /\ UNCHANGED << server, connection >>

-------------------------------------------------------------------------------
(* The server's answers.  Where it carried out a command but the answer    *)
(* was lost, only what the call returns is different.                      *)

(* isinstance(response, CachedTTSResponse), and pickle.loads not raising *)
Anything(data) == TRUE
IsResponse(data) == data \in Values

GetReply(w) ==
  LET data == server[job[w].key]
  IN  /\ Waiting(w, "get", "reply")
      /\ UNCHANGED << server, disturbed >>
      /\ \/ /\ data = NoEntry
            /\ Become(w, NoJob)
            /\ UNCHANGED << client, open >>
         \/ /\ data # NoEntry /\ IsResponse(data)
            /\ Become(w, Answered(job[w].key, data))
            /\ UNCHANGED << client, open >>
         \/ /\ data # NoEntry /\ ~IsResponse(data)
            /\ Enter(w, HealJob(w))

(* A clear that is running need not remove what is written meanwhile. *)
Sparing(jobs, k) ==
  [u \in Callers |-> IF jobs[u].op = "clear"
                     THEN [jobs[u] EXCEPT !.spared = @ \cup {k}] ELSE jobs[u]]

(* The server stores under the prefixed key. *)
StoredForAll(k, v) == [j \in Keys |-> v]
Stored(k, v) == [server EXCEPT ![k] = v]

SetReply(w) ==
  /\ Waiting(w, "set", "reply")
  /\ server' = Stored(job[w].key, job[w].value)
  /\ job' = Sparing([job EXCEPT ![w] = NoJob], job[w].key)
  /\ UNCHANGED connection

(* What a scan owes its caller: the keys there from its start to its end. *)
Unowed(jobs, k) ==
  [u \in Callers |-> IF jobs[u].op = "clear"
                     THEN [jobs[u] EXCEPT !.owed = @ \ {k}] ELSE jobs[u]]

Removed(k) == [server EXCEPT ![k] = NoEntry]

(* delete, and the delete of _delete_quietly, which ends the get *)
GetAgain(w) ==
  IF job[w].op = "heal" THEN [op |-> "get", at |-> "reply", key |-> job[w].key] ELSE NoJob
Ended(w) == NoJob

DeleteReply(w) ==
  /\ job[w].op \in {"delete", "heal"} /\ job[w].at = "reply"
  /\ server' = Removed(job[w].key)
  /\ job' = Unowed([job EXCEPT ![w] = Ended(w)], job[w].key)
  /\ UNCHANGED connection

ReadReply(w) ==
  /\ Waiting(w, "read", "reply")
  /\ Become(w, NoJob)
  /\ UNCHANGED << server, connection >>

(* scan_iter asks again until the cursor is back at its start.  Here that  *)
(* is with the batch that returns the last key owed.                       *)
OneBatch(owed) == {}
OwedAfter(owed) == owed

ScanReply(w) ==
  LET present == { k \in job[w].scope : server[k] # NoEntry }
      owed == IF job[w].begun THEN job[w].owed ELSE present
  IN  /\ Waiting(w, "clear", "reply")
      /\ job[w].batch = {}
      /\ job[w].begun => owed # {}
      /\ \E batch \in SUBSET present :
           /\ owed # {} => batch \cap owed # {}
           /\ Become(w, [job[w] EXCEPT !.batch = batch, !.begun = TRUE,
                                       !.owed = OwedAfter(owed \ batch)])
      /\ UNCHANGED << server, connection >>

ClearDelete(w, k) ==
  /\ job[w].op = "clear"
  /\ k \in job[w].batch
  /\ server' = Removed(k)
  /\ job' = Unowed([job EXCEPT ![w].batch = @ \ {k}], k)
  /\ UNCHANGED connection

ClearReturn(w) ==
  /\ job[w].op = "clear" /\ job[w].begun
  /\ job[w].batch = {} /\ job[w].owed = {}
  /\ Become(w, NoJob)
  /\ UNCHANGED << server, connection >>

(* aclose, whether it returns, raises or is cancelled *)
CloseReply(w) ==
  /\ UNCHANGED << server, disturbed >>
  /\ Waiting(w, "close", "reply")
  /\ Become(w, NoJob)
  /\ client' = FALSE
  /\ Opened(open - 1)

-------------------------------------------------------------------------------
(* Expiry, eviction and other programs take a key away, or put something   *)
(* else there.                                                             *)
Vanish(k) ==
  /\ server[k] # NoEntry
  /\ server' = Removed(k)
  /\ job' = Unowed(job, k)
  /\ UNCHANGED connection

Spoil(k) ==
  /\ server' = [server EXCEPT ![k] = Bad]
  /\ job' = Sparing(job, k)
  /\ UNCHANGED connection

Start(w) ==
  \/ \E k \in Keys : BeginGet(w, k)
  \/ \E k \in Keys, v \in Values, ttl \in Ttls : BeginSet(w, k, v, ttl)
  \/ \E k \in Keys : BeginDelete(w, k)
  \/ BeginClear(w, Keys)
  \/ \E n \in Namespaces : BeginClear(w, Matched[n])
  \/ BeginRead(w)
  \/ BeginClose(w)

Continue(w) ==
  \/ PingAnswered(w)
  \/ PingFailed(w)
  \/ CommandFailed(w)
  \/ GetReply(w)
  \/ SetReply(w)
  \/ DeleteReply(w)
  \/ ReadReply(w)
  \/ ScanReply(w)
  \/ \E k \in Keys : ClearDelete(w, k)
  \/ ClearReturn(w)
  \/ CloseReply(w)

Next ==
  \/ \E w \in Callers : Start(w)
  \/ \E w \in Callers : Continue(w)
  \/ \E w \in Callers : Cancelled(w)
  \/ \E k \in Keys : Vanish(k)
  \/ \E k \in Keys : Spoil(k)

Spec == Init /\ [][Next]_vars

(* Every round trip ends, with socket_timeout at the latest. *)
FairSpec == Spec /\ \A w \in Callers : WF_vars(Continue(w))

-------------------------------------------------------------------------------
(***************************************************************************)
(* Unless a close overlaps other calls, all of them share the client that  *)
(* _client refers to: two calls that find none do not make one each, and a *)
(* client whose ping failed or was cancelled is not kept beside another    *)
(* (_get_client, awaited by every operation).                              *)
(***************************************************************************)
OneClient == ~disturbed => open = IF client THEN 1 ELSE 0

(***************************************************************************)
(* A clear that ran to its end removed every key its pattern matches that  *)
(* was there from its start and not written since, although SCAN answers   *)
(* in batches while other calls write, delete and expire keys (clear).     *)
(***************************************************************************)
ClearRemovesOld ==
  [][\A w \in Callers :
       ClearReturn(w) =>
         \A k \in job[w].scope \ job[w].spared : server[k] = NoEntry]_vars

(***************************************************************************)
(* Every call ends, also one that has to connect again to heal an entry    *)
(* while the server refuses connections (_delete_quietly swallows that).   *)
(***************************************************************************)
CallsEnd == \A w \in Callers : ~Idle(w) ~> Idle(w)

(***************************************************************************)
(* What redis.py:107 and CHANGELOG.md say of the delete after a failed     *)
(* get: it removes a bad entry, never a response that can be read.         *)
(***************************************************************************)
HealsOnlyBad ==
  [][\A w \in Callers :
       DeleteReply(w) /\ job[w].op = "heal" =>
         server[job[w].key] \notin Values]_vars

(***************************************************************************)
(* The backend keeps the promise of CacheBackend (base.py), with every     *)
(* other program of the server: a get answers with what the server held    *)
(* under its key during the call, when that is a response a set put there, *)
(* and with nothing else.                                                  *)
(***************************************************************************)
CallOf(w) ==
  CASE job[w].op \in {"get", "heal"} ->
         [op |-> "get", key |-> job[w].key, answer |-> NoEntry]
    [] job[w].op = "set" ->
         [op |-> "set", key |-> job[w].key, value |-> job[w].value]
    [] Idle(w) /\ job[w] # NoJob ->
         [op |-> "get", key |-> job[w].key, answer |-> job[w].answer]
    [] OTHER -> [op |-> "none"]

Contract ==
  INSTANCE CacheContract
    WITH Clients <- Callers,
         store <- [k \in Keys |-> IF server[k] = Bad THEN NoEntry ELSE server[k]],
         calls <- [w \in Callers |-> CallOf(w)]

ImplementsContract == Contract!Spec
==============================================================================
