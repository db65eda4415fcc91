-------------------------- MODULE RedisBackend_proofs --------------------------
(***************************************************************************)
(* Proofs about RedisBackend, for any number of concurrent calls and every *)
(* set of keys, responses and patterns.                                    *)
(***************************************************************************)
EXTENDS RedisBackend, TLAPS

KeyedJob == [op : {"get", "heal", "delete"}, at : Waits, key : Keys]
SetJob == [op : {"set"}, at : Waits, key : Keys, value : Values,
           ex : (Nat \ {0}) \cup {NoExpiry}]
PlainJob == [op : {"read", "close"}, at : Waits]
ClearJob == [op : {"clear"}, at : Waits, scope : SUBSET Keys, owed : SUBSET Keys,
             batch : SUBSET Keys, begun : BOOLEAN, spared : SUBSET Keys]

-------------------------------------------------------------------------------
(* Jobs                                                                    *)

(* The kind of a job tells its fields.                                      *)
LEMMA JobByOp ==
  ASSUME NEW j \in Job
  PROVE  /\ j.op \in {"get", "heal", "delete"} => j \in KeyedJob
         /\ j.op = "set" => j \in SetJob
         /\ j.op \in {"read", "close"} => j \in PlainJob
         /\ j.op = "clear" => j \in ClearJob
         /\ j.op \in {"none", "get", "heal", "delete", "set", "read", "close", "clear"}
BY DEF Job, NoJob, KeyedJob, SetJob, PlainJob, ClearJob

(* Calls of every kind are jobs, and so is what an idle caller is left with.*)
LEMMA JobKinds ==
  /\ KeyedJob \subseteq Job /\ SetJob \subseteq Job
  /\ PlainJob \subseteq Job /\ ClearJob \subseteq Job
  /\ NoJob \in Job /\ NoJob.op = "none"
  /\ \A k \in Keys, v \in Values : Answered(k, v) \in Job /\ Answered(k, v).op = "none"
BY DEF Job, KeyedJob, SetJob, PlainJob, ClearJob, NoJob, Answered

(* What a write, or a removal, changes of the calls that run: only clears.  *)
LEMMA SparingKeeps ==
  ASSUME NEW jobs \in [Callers -> Job], NEW k \in Keys
  PROVE  /\ Sparing(jobs, k) \in [Callers -> Job]
         /\ \A u \in Callers : /\ Sparing(jobs, k)[u].op = jobs[u].op
                               /\ jobs[u].op # "clear" => Sparing(jobs, k)[u] = jobs[u]
<1>1. ASSUME NEW j \in Job, j.op = "clear"
      PROVE  /\ [j EXCEPT !.spared = @ \cup {k}] \in Job
             /\ [j EXCEPT !.spared = @ \cup {k}].op = "clear"
  <2>1. j \in ClearJob
    BY <1>1, JobByOp
  <2>2. [j EXCEPT !.spared = @ \cup {k}] \in ClearJob
    BY <2>1 DEF ClearJob
  <2> QED
    BY <2>2, JobKinds DEF ClearJob
<1> QED
  BY <1>1 DEF Sparing

(* A key that is no longer owed changes no other call, and no clear in kind.*)
LEMMA UnowedKeeps ==
  ASSUME NEW jobs \in [Callers -> Job], NEW k \in Keys
  PROVE  /\ Unowed(jobs, k) \in [Callers -> Job]
         /\ \A u \in Callers : /\ Unowed(jobs, k)[u].op = jobs[u].op
                               /\ jobs[u].op # "clear" => Unowed(jobs, k)[u] = jobs[u]
<1>1. ASSUME NEW j \in Job, j.op = "clear"
      PROVE  /\ [j EXCEPT !.owed = @ \ {k}] \in Job
             /\ [j EXCEPT !.owed = @ \ {k}].op = "clear"
  <2>1. j \in ClearJob
    BY <1>1, JobByOp
  <2>2. [j EXCEPT !.owed = @ \ {k}] \in ClearJob
    BY <2>1 DEF ClearJob
  <2> QED
    BY <2>2, JobKinds DEF ClearJob
<1> QED
  BY <1>1 DEF Unowed

(* A call that waits, at whichever of its two places, is a job.             *)
Placed(next) ==
  /\ [next EXCEPT !.at = "reply"] \in Job
  /\ [next EXCEPT !.at = "ping"] \in Job
  /\ [next EXCEPT !.at = "reply"].op = next.op
  /\ [next EXCEPT !.at = "ping"].op = next.op

(* Every call may wait for a ping or for its reply.                        *)
LEMMA KeyedPlaced ==
  ASSUME NEW next \in KeyedJob \cup SetJob \cup PlainJob \cup ClearJob
  PROVE  Placed(next)
<1>1. CASE next \in KeyedJob
  <2>1. [next EXCEPT !.at = "reply"] \in KeyedJob /\ [next EXCEPT !.at = "ping"] \in KeyedJob
    BY <1>1 DEF KeyedJob, Waits
  <2> QED
    BY <1>1, <2>1, JobKinds DEF Placed, KeyedJob
<1>2. CASE next \in SetJob
  <2>1. [next EXCEPT !.at = "reply"] \in SetJob /\ [next EXCEPT !.at = "ping"] \in SetJob
    BY <1>2 DEF SetJob, Waits
  <2> QED
    BY <1>2, <2>1, JobKinds DEF Placed, SetJob
<1>3. CASE next \in PlainJob
  <2>1. [next EXCEPT !.at = "reply"] \in PlainJob /\ [next EXCEPT !.at = "ping"] \in PlainJob
    BY <1>3 DEF PlainJob, Waits
  <2> QED
    BY <1>3, <2>1, JobKinds DEF Placed, PlainJob
<1>4. CASE next \in ClearJob
  <2>1. [next EXCEPT !.at = "reply"] \in ClearJob /\ [next EXCEPT !.at = "ping"] \in ClearJob
    BY <1>4 DEF ClearJob, Waits
  <2> QED
    BY <1>4, <2>1, JobKinds DEF Placed, ClearJob
<1> QED
  BY <1>1, <1>2, <1>3, <1>4

-------------------------------------------------------------------------------
(* Types and the client.  An answer of the open count minus one is only a  *)
(* number because there is a client to be closed, and a close only knows   *)
(* that while it is the only call.                                         *)

(* A call of close waits for no ping, and is alone as long as no other call *)
(* was made beside it.                                                     *)
CloseAlone ==
  \A w \in Callers :
    job[w].op = "close" =>
      /\ job[w].at = "reply"
      /\ ~disturbed => client /\ \A u \in Callers \ {w} : job[u].op = "none"

ClientInv == TypeOK /\ OneClient /\ CloseAlone

(* A step of a call that is not a close makes no close.                     *)
LEMMA ClosePasses ==
  ASSUME CloseAlone, NEW u \in Callers, job[u].op \notin {"none", "close"},
         disturbed' = disturbed, job'[u].op # "close",
         \A w \in Callers \ {u} : /\ job'[w].op = job[w].op
                                  /\ job[w].op = "close" => job'[w] = job[w]
  PROVE  CloseAlone'
<1> SUFFICES ASSUME NEW w \in Callers, job'[w].op = "close"
             PROVE  job'[w].at = "reply" /\ disturbed'
  BY DEF CloseAlone
<1>1. w # u /\ job[w].op = "close" /\ job'[w] = job[w]
  OBVIOUS
<1> QED
  BY <1>1 DEF CloseAlone

(* What another program does changes no close.                              *)
LEMMA CloseStays ==
  ASSUME CloseAlone, UNCHANGED connection,
         \A w \in Callers : /\ job'[w].op = job[w].op
                            /\ job[w].op = "close" => job'[w] = job[w]
  PROVE  CloseAlone'
BY DEF CloseAlone, connection

(* _get_client up to its await leaves one client.                           *)
LEMMA Entering ==
  ASSUME TypeOK, OneClient, NEW w \in Callers, NEW next, Placed(next), Enter(w, next),
         disturbed' \in BOOLEAN, disturbed => disturbed'
  PROVE  /\ job' \in [Callers -> Job] /\ client' \in BOOLEAN /\ open' \in Nat
         /\ OneClient'
         /\ job'[w].op = next.op
         /\ \A u \in Callers \ {w} : job'[u] = job[u]
<1>1. /\ client' = TRUE
      /\ open' = IF disturbed' THEN 0 ELSE IF client THEN open ELSE open + 1
      /\ \/ job' = [job EXCEPT ![w] = [next EXCEPT !.at = "reply"]]
         \/ job' = [job EXCEPT ![w] = [next EXCEPT !.at = "ping"]]
  BY DEF Enter, Assigned, Opened, Become, TypeOK
<1>2. open' \in Nat /\ OneClient'
  BY <1>1 DEF TypeOK, OneClient
<1>3. job \in [Callers -> Job]
  BY DEF TypeOK
<1>4. /\ job' \in [Callers -> Job]
      /\ job'[w].op = next.op
      /\ \A u \in Callers \ {w} : job'[u] = job[u]
  BY <1>1, <1>3 DEF Placed
<1> QED
  BY <1>1, <1>2, <1>4

(* A call that begins keeps the clients.                                   *)
LEMMA Beginning ==
  ASSUME ClientInv, NEW w \in Callers, NEW next, Placed(next), next.op # "close",
         Begin(w, next)
  PROVE  ClientInv'
<1>1. disturbed' \in BOOLEAN /\ (disturbed => disturbed')
  BY DEF Begin, ClientInv, TypeOK
<1>2. /\ job' \in [Callers -> Job] /\ client' \in BOOLEAN /\ open' \in Nat
      /\ OneClient'
      /\ job'[w].op = next.op
      /\ \A u \in Callers \ {w} : job'[u] = job[u]
  BY <1>1, Entering DEF Begin, ClientInv
<1>3. TypeOK'
  BY <1>1, <1>2 DEF TypeOK, Begin, ClientInv
<1>4. CloseAlone'
  <2> SUFFICES ASSUME NEW u \in Callers, job'[u].op = "close"
               PROVE  job'[u].at = "reply" /\ disturbed'
    BY DEF CloseAlone
  <2>1. u # w /\ job'[u] = job[u]
    BY <1>2
  <2> QED
    BY <2>1 DEF CloseAlone, ClientInv, Begin
<1> QED
  BY <1>2, <1>3, <1>4 DEF ClientInv

(* A call that ends, or goes on to heal, having changed nothing else.       *)
LEMMA Ending ==
  ASSUME ClientInv, NEW u \in Callers, job[u].op \notin {"none", "close"},
         NEW next \in Job, next.op # "close", Become(u, next),
         UNCHANGED connection, server' \in [Keys -> Values \cup {Bad, NoEntry}]
  PROVE  ClientInv'
<1>1. job \in [Callers -> Job]
  BY DEF ClientInv, TypeOK
<1>2. job' = [job EXCEPT ![u] = next]
  BY DEF Become
<1>3. TypeOK' /\ OneClient'
  BY <1>1, <1>2 DEF ClientInv, TypeOK, OneClient, connection
<1>4. CloseAlone'
  BY <1>1, <1>2, ClosePasses DEF ClientInv, connection
<1> QED
  BY <1>3, <1>4 DEF ClientInv

(* The delete that heals is a job.                                         *)
LEMMA HealJobType ==
  ASSUME TypeOK, NEW w \in Callers, job[w].op = "get"
  PROVE  HealJob(w) \in KeyedJob /\ HealJob(w).op = "heal"
<1>1. job[w] \in KeyedJob
  BY JobByOp DEF TypeOK
<1> QED
  BY <1>1 DEF HealJob, KeyedJob, Waits

(* A get that goes on to heal keeps the clients.                           *)
LEMMA Healing ==
  ASSUME ClientInv, NEW u \in Callers, job[u].op = "get", Enter(u, HealJob(u)),
         UNCHANGED << server, disturbed >>
  PROVE  ClientInv'
<1>1. HealJob(u) \in KeyedJob /\ HealJob(u).op = "heal"
  BY HealJobType DEF ClientInv
<1>2. /\ job' \in [Callers -> Job] /\ client' \in BOOLEAN /\ open' \in Nat
      /\ OneClient'
      /\ job'[u].op = "heal"
      /\ \A v \in Callers \ {u} : job'[v] = job[v]
  <2>1. Placed(HealJob(u))
    BY <1>1, KeyedPlaced
  <2>2. disturbed' \in BOOLEAN /\ (disturbed => disturbed')
    BY DEF ClientInv, TypeOK
  <2> HIDE DEF HealJob
  <2> QED
    BY <1>1, <2>1, <2>2, Entering DEF ClientInv
<1>3. TypeOK'
  BY <1>2 DEF ClientInv, TypeOK
<1>4. CloseAlone'
  BY <1>2, ClosePasses DEF ClientInv
<1> QED
  BY <1>2, <1>3, <1>4 DEF ClientInv

(* So does a call that fails.                                              *)
LEMMA Failing ==
  ASSUME ClientInv, NEW u \in Callers, job[u].op \notin {"none", "close"}, Failed(u),
         UNCHANGED << server, disturbed >>
  PROVE  ClientInv'
<1>1. CASE Become(u, NoJob) /\ UNCHANGED << client, open >>
  BY <1>1, Ending, JobKinds DEF ClientInv, TypeOK, connection
<1>2. CASE job[u].op = "get" /\ Enter(u, HealJob(u))
  BY <1>2, Healing
<1> QED
  BY <1>1, <1>2 DEF Failed

(* A call that waits for a ping, not a close, may wait for its reply.      *)
LEMMA WaitingJob ==
  ASSUME ClientInv, NEW w \in Callers, ~Idle(w), job[w].at = "ping"
  PROVE  job[w].op \notin {"none", "close"} /\ Placed(job[w])
<1>1. job[w] \in Job
  BY DEF ClientInv, TypeOK
<1>2. job[w].op # "none" /\ job[w].op # "close"
  BY DEF Idle, ClientInv, CloseAlone
<1>3. job[w] \in KeyedJob \cup SetJob \cup PlainJob \cup ClearJob
  BY <1>1, <1>2, JobByOp
<1> QED
  BY <1>2, <1>3, KeyedPlaced

(* A ping that ends, well or not, keeps the clients.                       *)
LEMMA Pinging ==
  ASSUME ClientInv, NEW w \in Callers, PingAnswered(w) \/ PingFailed(w)
  PROVE  ClientInv'
<1>0. job \in [Callers -> Job] /\ open \in Nat /\ client \in BOOLEAN
  BY DEF ClientInv, TypeOK
<1>1. job[w].op \notin {"none", "close"} /\ Placed(job[w])
  BY WaitingJob DEF PingAnswered, PingFailed
<1>2. CASE PingAnswered(w)
  <2>1. CASE client /\ Become(w, [job[w] EXCEPT !.at = "reply"]) /\ client' = TRUE
             /\ UNCHANGED open
    <3> DEFINE next == [job[w] EXCEPT !.at = "reply"]
    <3>1. next \in Job /\ next.op # "close"
      BY <1>1 DEF Placed
    <3>2. UNCHANGED << client, open, disturbed, server >>
      BY <1>0, <1>2, <2>1 DEF PingAnswered
    <3>3. server' \in [Keys -> Values \cup {Bad, NoEntry}] /\ UNCHANGED connection
      BY <3>2 DEF ClientInv, TypeOK, connection
    <3>4. Become(w, next)
      BY <2>1
    <3> HIDE DEF next
    <3> QED
      BY <1>1, <3>1, <3>3, <3>4, Ending
  <2>2. CASE Failed(w)
    BY <1>1, <1>2, <2>2, Failing DEF PingAnswered
  <2> QED
    BY <1>2, <2>1, <2>2 DEF PingAnswered, Assigned
<1>3. CASE PingFailed(w)
  <2>1. UNCHANGED << server, disturbed >>
    BY <1>3 DEF PingFailed
  <2>2. PICK next \in Job : next.op # "close" /\ job' = [job EXCEPT ![w] = next]
    <3>1. CASE Become(w, NoJob)
      BY <3>1, JobKinds DEF Become
    <3>2. CASE job[w].op = "get" /\ Become(w, [HealJob(w) EXCEPT !.at = "ping"])
      <4>1. Placed(HealJob(w)) /\ HealJob(w).op = "heal"
        BY <3>2, HealJobType, KeyedPlaced DEF ClientInv
      <4> QED
        BY <3>2, <4>1 DEF Placed, Become
    <3> QED
      BY <1>3, <3>1, <3>2 DEF PingFailed
  <2>3. \/ client' = FALSE /\ Opened(IF client THEN open - 1 ELSE open)
        \/ client' = TRUE /\ Opened(IF client THEN open ELSE open + 1)
    BY <1>3 DEF PingFailed, Assigned
  <2>4. client' \in BOOLEAN /\ open' \in Nat /\ OneClient'
    <3>1. CASE disturbed
      <4>1. disturbed'
        BY <2>1, <3>1
      <4>2. open' = 0
        BY <2>3, <4>1 DEF Opened
      <4>3. client' \in BOOLEAN
        BY <2>3
      <4> QED
        BY <4>1, <4>2, <4>3 DEF OneClient
    <3>2. CASE ~disturbed
      <4>1. open = IF client THEN 1 ELSE 0
        BY <3>2 DEF ClientInv, OneClient
      <4>2. ~disturbed'
        BY <2>1, <3>2
      <4>3. CASE client' = FALSE /\ Opened(IF client THEN open - 1 ELSE open)
        <5>1. open' = 0
          BY <4>1, <4>2, <4>3 DEF Opened
        <5> QED
          BY <4>3, <5>1 DEF OneClient
      <4>4. CASE client' = TRUE /\ Opened(IF client THEN open ELSE open + 1)
        <5>1. open' = 1
          BY <4>1, <4>2, <4>4 DEF Opened
        <5> QED
          BY <4>4, <5>1 DEF OneClient
      <4> QED
        BY <2>3, <4>3, <4>4
    <3> QED
      BY <3>1, <3>2
  <2>5. TypeOK'
    BY <1>0, <2>1, <2>2, <2>4 DEF ClientInv, TypeOK
  <2>6. CloseAlone'
    BY <1>0, <1>1, <2>1, <2>2, ClosePasses DEF ClientInv
  <2> QED
    BY <2>4, <2>5, <2>6 DEF ClientInv
<1> QED
  BY <1>2, <1>3

(* So does a close.                                                        *)
LEMMA Closing ==
  ASSUME ClientInv, NEW w \in Callers, BeginClose(w) \/ CloseReply(w)
  PROVE  ClientInv'
<1>0. job \in [Callers -> Job] /\ open \in Nat /\ client \in BOOLEAN /\ disturbed \in BOOLEAN
  BY DEF ClientInv, TypeOK
<1>1. CASE BeginClose(w)
  <2>1. [op |-> "close", at |-> "reply"] \in Job
    BY JobKinds DEF PlainJob, Waits
  <2>2. /\ job' = [job EXCEPT ![w] = [op |-> "close", at |-> "reply"]]
        /\ client' = client /\ client
        /\ disturbed' = (disturbed \/ \E u \in Callers \ {w} : ~Idle(u))
        /\ open' = IF disturbed' THEN 0 ELSE open
        /\ server' = server
    BY <1>1 DEF BeginClose, Become, Opened
  <2>3. disturbed' \in BOOLEAN /\ open' \in Nat
    BY <1>0, <2>2
  <2>4. TypeOK' /\ OneClient'
    BY <1>0, <2>1, <2>2, <2>3 DEF ClientInv, TypeOK, OneClient
  <2>5. CloseAlone'
    BY <1>0, <2>2 DEF ClientInv, CloseAlone, Idle
  <2> QED
    BY <2>4, <2>5 DEF ClientInv
<1>2. CASE CloseReply(w)
  <2>1. /\ job' = [job EXCEPT ![w] = NoJob]
        /\ job[w].op = "close"
        /\ client' = FALSE /\ disturbed' = disturbed /\ server' = server
        /\ open' = IF disturbed' THEN 0 ELSE open - 1
    BY <1>2 DEF CloseReply, Become, Opened, Waiting
  <2>2. ~disturbed => client /\ open = 1
    BY <2>1 DEF ClientInv, CloseAlone, OneClient
  <2>3. open' \in Nat /\ OneClient'
    BY <2>1, <2>2 DEF OneClient
  <2>4. TypeOK'
    BY <1>0, <2>1, <2>3, JobKinds DEF ClientInv, TypeOK
  <2>5. \A u \in Callers : job'[u].op = "close" => job'[u] = job[u] /\ u # w
    BY <1>0, <2>1, JobKinds
  <2>6. CloseAlone'
    BY <2>1, <2>5 DEF ClientInv, CloseAlone
  <2> QED
    BY <2>3, <2>4, <2>6 DEF ClientInv
<1> QED
  BY <1>1, <1>2

(* What is sent as expiry is a positive number, or none.                   *)
LEMMA SecondsType ==
  ASSUME NEW ttl \in Ttls PROVE ClampedSeconds(ttl) \in (Nat \ {0}) \cup {NoExpiry}
<1>1. ttl \in Int
  BY RedisAssumption
<1>2. ttl >= 20 => ttl \div 10 \in Nat \ {0}
  BY <1>1
<1> QED
  BY <1>1, <1>2 DEF ClampedSeconds

(* Every call that starts keeps the client invariant.                      *)
LEMMA Starting ==
  ASSUME ClientInv, NEW w \in Callers, Start(w) PROVE ClientInv'
<1>1. ASSUME NEW k \in Keys, BeginGet(w, k) \/ BeginDelete(w, k) PROVE ClientInv'
  <2>1. PICK next \in KeyedJob : Begin(w, next)
    BY <1>1 DEF BeginGet, BeginDelete, KeyedJob, Waits
  <2> QED
    BY <2>1, KeyedPlaced, Beginning DEF KeyedJob
<1>2. ASSUME NEW k \in Keys, NEW v \in Values, NEW ttl \in Ttls, BeginSet(w, k, v, ttl)
      PROVE  ClientInv'
  <2> DEFINE next == [op |-> "set", at |-> "reply", key |-> k, value |-> v,
                      ex |-> ClampedSeconds(ttl)]
  <2>1. next \in SetJob
    BY SecondsType DEF SetJob, Waits
  <2>2. Begin(w, next)
    BY <1>2 DEF BeginSet
  <2>3. next.op # "close"
    OBVIOUS
  <2> HIDE DEF next
  <2> QED
    BY <2>1, <2>2, <2>3, KeyedPlaced, Beginning
<1>3. ASSUME NEW scope \in SUBSET Keys, BeginClear(w, scope) PROVE ClientInv'
  <2> DEFINE next == [op |-> "clear", at |-> "reply", scope |-> scope, owed |-> {},
                      batch |-> {}, begun |-> FALSE, spared |-> {}]
  <2>1. next \in ClearJob
    BY DEF ClearJob, Waits
  <2>2. Begin(w, next)
    BY <1>3 DEF BeginClear
  <2>3. next.op # "close"
    OBVIOUS
  <2> HIDE DEF next
  <2> QED
    BY <2>1, <2>2, <2>3, KeyedPlaced, Beginning
<1>4. ASSUME BeginRead(w) PROVE ClientInv'
  <2>1. [op |-> "read", at |-> "reply"] \in PlainJob
    BY DEF PlainJob, Waits
  <2> QED
    BY <1>4, <2>1, KeyedPlaced, Beginning DEF BeginRead
<1>5. \A n \in Namespaces : Matched[n] \in SUBSET Keys
  BY RedisAssumption
<1> QED
  BY <1>1, <1>2, <1>3, <1>4, <1>5, Closing DEF Start

(* The server's answers.                                                    *)
LEMMA Replying ==
  ASSUME ClientInv, NEW w \in Callers,
         \/ CommandFailed(w) \/ GetReply(w) \/ SetReply(w) \/ DeleteReply(w)
         \/ ReadReply(w) \/ ScanReply(w) \/ ClearReturn(w) \/ Cancelled(w)
  PROVE  ClientInv'
<1>0. job \in [Callers -> Job] /\ server \in [Keys -> Values \cup {Bad, NoEntry}]
  BY DEF ClientInv, TypeOK
<1>1. CASE CommandFailed(w)
  BY <1>1, Failing DEF CommandFailed
<1>2. CASE GetReply(w)
  <2>1. job[w].op = "get" /\ job[w].key \in Keys
    BY <1>0, <1>2, JobByOp DEF GetReply, Waiting, KeyedJob
  <2>2. CASE Enter(w, HealJob(w))
    BY <1>2, <2>1, <2>2, Healing DEF GetReply
  <2>3. CASE UNCHANGED << client, open >> /\ ~Enter(w, HealJob(w))
    <3>1. PICK next \in Job : next.op # "close" /\ Become(w, next)
      BY <1>0, <1>2, <2>1, <2>3, JobKinds DEF GetReply, IsResponse
    <3> QED
      BY <1>0, <1>2, <2>1, <2>3, <3>1, Ending DEF GetReply, connection
  <2> QED
    BY <1>2, <2>2, <2>3 DEF GetReply
<1>3. CASE SetReply(w)
  <2>1. job[w] \in SetJob
    BY <1>0, <1>3, JobByOp DEF SetReply, Waiting
  <2>2. job[w].op = "set" /\ job[w].key \in Keys /\ job[w].value \in Values
    BY <2>1 DEF SetJob
  <2> DEFINE jobs == [job EXCEPT ![w] = NoJob]
  <2>3. jobs \in [Callers -> Job]
    BY <1>0, JobKinds
  <2>4. job' = Sparing(jobs, job[w].key) /\ UNCHANGED connection
        /\ server' = [server EXCEPT ![job[w].key] = job[w].value]
    BY <1>3 DEF SetReply, Stored
  <2>5. jobs[w].op = "none" /\ \A u \in Callers \ {w} : jobs[u] = job[u]
    BY <1>0, JobKinds
  <2> HIDE DEF jobs
  <2>6. /\ job' \in [Callers -> Job]
        /\ job'[w].op = "none"
        /\ \A u \in Callers \ {w} : /\ job'[u].op = job[u].op
                                    /\ job[u].op # "clear" => job'[u] = job[u]
    BY <2>2, <2>3, <2>4, <2>5, SparingKeeps
  <2>7. TypeOK' /\ OneClient'
    BY <1>0, <2>2, <2>4, <2>6 DEF ClientInv, TypeOK, OneClient, connection
  <2>8. CloseAlone'
    BY <2>2, <2>4, <2>6, ClosePasses DEF ClientInv, connection
  <2> QED
    BY <2>7, <2>8 DEF ClientInv
<1>4. CASE DeleteReply(w)
  <2>1. job[w] \in KeyedJob
    BY <1>0, <1>4, JobByOp DEF DeleteReply
  <2>2. job[w].op \notin {"none", "close"} /\ job[w].key \in Keys
    BY <2>1 DEF KeyedJob
  <2> DEFINE jobs == [job EXCEPT ![w] = NoJob]
  <2>3. jobs \in [Callers -> Job]
    BY <1>0, JobKinds
  <2>4. job' = Unowed(jobs, job[w].key) /\ UNCHANGED connection
        /\ server' = [server EXCEPT ![job[w].key] = NoEntry]
    BY <1>4 DEF DeleteReply, Removed, Ended
  <2>5. jobs[w].op = "none" /\ \A u \in Callers \ {w} : jobs[u] = job[u]
    BY <1>0, JobKinds
  <2> HIDE DEF jobs
  <2>6. /\ job' \in [Callers -> Job]
        /\ job'[w].op = "none"
        /\ \A u \in Callers \ {w} : /\ job'[u].op = job[u].op
                                    /\ job[u].op # "clear" => job'[u] = job[u]
    BY <2>2, <2>3, <2>4, <2>5, UnowedKeeps
  <2>7. TypeOK' /\ OneClient'
    BY <1>0, <2>4, <2>6 DEF ClientInv, TypeOK, OneClient, connection
  <2>8. CloseAlone'
    BY <2>2, <2>4, <2>6, ClosePasses DEF ClientInv, connection
  <2> QED
    BY <2>7, <2>8 DEF ClientInv
<1>5. CASE ReadReply(w) \/ ClearReturn(w) \/ Cancelled(w)
  <2>1. /\ job[w].op \notin {"none", "close"} /\ Become(w, NoJob)
        /\ UNCHANGED << server, connection >>
    BY <1>5 DEF ReadReply, ClearReturn, Cancelled, Waiting
  <2> QED
    BY <1>0, <2>1, Ending, JobKinds
<1>6. CASE ScanReply(w)
  <2>1. job[w] \in ClearJob /\ job[w].op = "clear"
    BY <1>0, <1>6, JobByOp DEF ScanReply, Waiting
  <2>2. PICK batch \in SUBSET Keys, owed \in SUBSET Keys :
          Become(w, [job[w] EXCEPT !.batch = batch, !.begun = TRUE, !.owed = owed])
    <3>1. job[w].scope \subseteq Keys /\ job[w].owed \subseteq Keys
      BY <2>1, SMTT(30) DEF ClearJob
    <3> DEFINE present == { k \in job[w].scope : server[k] # NoEntry }
               owed == IF job[w].begun THEN job[w].owed ELSE present
    <3>2. PICK batch \in SUBSET present :
            Become(w, [job[w] EXCEPT !.batch = batch, !.begun = TRUE,
                                     !.owed = OwedAfter(owed \ batch)])
      BY <1>6 DEF ScanReply
    <3>3. batch \in SUBSET Keys /\ owed \ batch \in SUBSET Keys
      BY <3>1
    <3> HIDE DEF owed, present
    <3> QED
      BY <3>2, <3>3 DEF OwedAfter
  <2> DEFINE next == [job[w] EXCEPT !.batch = batch, !.begun = TRUE, !.owed = owed]
  <2>3. next \in Job /\ next.op # "close"
    BY <2>1, JobKinds DEF ClearJob
  <2>4. UNCHANGED << server, connection >> /\ Become(w, next)
    BY <1>6, <2>2 DEF ScanReply
  <2> HIDE DEF next
  <2> QED
    BY <1>0, <2>1, <2>3, <2>4, Ending, SMTT(30)
<1> QED
  BY <1>1, <1>2, <1>3, <1>4, <1>5, <1>6

(* A clear that removes a key of its batch.                                 *)
LEMMA Removing ==
  ASSUME ClientInv, NEW w \in Callers, NEW k \in Keys, ClearDelete(w, k)
  PROVE  ClientInv'
<1>0. job \in [Callers -> Job] /\ server \in [Keys -> Values \cup {Bad, NoEntry}]
  BY DEF ClientInv, TypeOK
<1>1. job[w] \in ClearJob /\ job[w].op = "clear"
  BY <1>0, JobByOp DEF ClearDelete
<1> DEFINE less == [job[w] EXCEPT !.batch = @ \ {k}]
           jobs == [job EXCEPT ![w] = less]
<1>2. less \in Job /\ less.op = "clear"
  BY <1>1, JobKinds DEF ClearJob
<1>3. [job EXCEPT ![w].batch = @ \ {k}] = jobs
  BY <1>0
<1> HIDE DEF less
<1>4. jobs \in [Callers -> Job] /\ \A u \in Callers : jobs[u].op = job[u].op
  BY <1>0, <1>1, <1>2
<1>5. \A u \in Callers : job[u].op # "clear" => jobs[u] = job[u]
  BY <1>0, <1>1
<1>6. job' = Unowed(jobs, k) /\ UNCHANGED connection
      /\ server' = [server EXCEPT ![k] = NoEntry]
  BY <1>3 DEF ClearDelete, Removed
<1> HIDE DEF jobs
<1>7. /\ job' \in [Callers -> Job]
      /\ \A u \in Callers : /\ job'[u].op = job[u].op
                            /\ job[u].op # "clear" => job'[u] = job[u]
  BY <1>4, <1>5, <1>6, UnowedKeeps
<1>8. TypeOK' /\ OneClient'
  BY <1>0, <1>6, <1>7 DEF ClientInv, TypeOK, OneClient, connection
<1>9. CloseAlone'
  BY <1>6, <1>7, CloseStays DEF ClientInv
<1> QED
  BY <1>8, <1>9 DEF ClientInv

(* Expiry, eviction and other programs.                                     *)
LEMMA Outside ==
  ASSUME ClientInv, NEW k \in Keys, Vanish(k) \/ Spoil(k) PROVE ClientInv'
<1>0. job \in [Callers -> Job] /\ server \in [Keys -> Values \cup {Bad, NoEntry}]
  BY DEF ClientInv, TypeOK
<1>1. /\ job' \in [Callers -> Job]
      /\ \A u \in Callers : /\ job'[u].op = job[u].op
                            /\ job[u].op # "clear" => job'[u] = job[u]
  BY <1>0, UnowedKeeps, SparingKeeps DEF Vanish, Spoil
<1>2. TypeOK' /\ OneClient'
  BY <1>0, <1>1 DEF ClientInv, TypeOK, OneClient, Vanish, Spoil, Removed, connection
<1>3. CloseAlone'
  BY <1>1, CloseStays DEF ClientInv, Vanish, Spoil
<1> QED
  BY <1>2, <1>3 DEF ClientInv

(* The first state satisfies it.                                           *)
LEMMA InitClient == Init => ClientInv
<1> SUFFICES ASSUME Init PROVE ClientInv
  OBVIOUS
<1>1. job = [w \in Callers |-> NoJob] /\ server = [k \in Keys |-> NoEntry]
      /\ client = FALSE /\ open = 0 /\ disturbed = FALSE
  BY DEF Init
<1>2. TypeOK
  BY <1>1, JobKinds DEF TypeOK
<1>3. OneClient
  BY <1>1 DEF OneClient
<1>4. CloseAlone
  BY <1>1, JobKinds DEF CloseAlone
<1> QED
  BY <1>2, <1>3, <1>4 DEF ClientInv

(* And every step keeps it.                                                *)
LEMMA NextClient ==
  ASSUME ClientInv, [Next]_vars PROVE ClientInv'
<1>1. ASSUME NEW w \in Callers, Continue(w) PROVE ClientInv'
  BY <1>1, Pinging, Replying, Removing, Closing DEF Continue
<1>2. CASE UNCHANGED vars
  BY <1>2 DEF vars, connection, ClientInv, TypeOK, OneClient, CloseAlone
<1> QED
  BY <1>1, <1>2, Starting, Replying, Outside DEF Next

(* The inductive invariant of the clients (_get_client, close).            *)
THEOREM ClientInvariant == Spec => []ClientInv
<1> QED
  BY InitClient, NextClient, PTL DEF Spec

(***************************************************************************)
(* Type correctness: in particular a get only ever answers with a response *)
(* and every expiry that is sent is a positive number of seconds or none   *)
(* (get, set).                                                             *)
(***************************************************************************)
THEOREM RedisTypeCorrect == Spec => []TypeOK
<1>1. ClientInv => TypeOK
  BY DEF ClientInv
<1> QED
  BY <1>1, ClientInvariant, PTL

(***************************************************************************)
(* However many calls meet while there is no client, and however their     *)
(* pings end, there is one client at most and _client refers to it, until  *)
(* a close overlaps another call (_get_client).                            *)
(***************************************************************************)
THEOREM ClientIsShared == Spec => []OneClient
<1>1. ClientInv => OneClient
  BY DEF ClientInv
<1> QED
  BY <1>1, ClientInvariant, PTL

-------------------------------------------------------------------------------
(* Clear.  Once its scan has begun, every key of its scope that was not    *)
(* written since is gone, in the batch at hand, or still owed.             *)

Past(j, data) ==
  j.op = "clear" /\ j.begun =>
    \A k \in j.scope \ j.spared : data[k] = NoEntry \/ k \in j.owed \cup j.batch

ClearInv == \A w \in Callers : Past(job[w], server)

(* Calls that are no clear are past nothing.                               *)
LEMMA OtherJobsPast ==
  ASSUME NEW j, NEW data, j.op # "clear" PROVE Past(j, data)
BY DEF Past

(* A clear that only waits for something else is past the same keys.       *)
LEMMA PlacedPast ==
  ASSUME NEW next \in Job, NEW data, next.op # "none", Past(next, data)
  PROVE  /\ Past([next EXCEPT !.at = "reply"], data)
         /\ Past([next EXCEPT !.at = "ping"], data)
<1>1. CASE next.op = "clear"
  <2>1. next \in ClearJob
    BY <1>1, JobByOp
  <2> QED
    BY <2>1 DEF Past, ClearJob
<1>2. CASE next.op # "clear"
  <2>1. next \in KeyedJob \cup SetJob \cup PlainJob
    BY <1>2, JobByOp
  <2>2. Placed(next)
    BY <2>1, KeyedPlaced
  <2> QED
    BY <1>2, <2>2, OtherJobsPast DEF Placed
<1> QED
  BY <1>1, <1>2

(* A step of one call that leaves the server alone.                         *)
LEMMA OneSteps ==
  ASSUME TypeOK, ClearInv, NEW w \in Callers, NEW next, Past(next, server),
         job' = [job EXCEPT ![w] = next], server' = server
  PROVE  ClearInv'
BY DEF ClearInv, TypeOK

(* So is one that takes a client.                                          *)
LEMMA EnterPast ==
  ASSUME TypeOK, ClearInv, NEW w \in Callers, NEW next \in Job, next.op # "none",
         Past(next, server), Enter(w, next), server' = server
  PROVE  ClearInv'
<1>1. PICK placed : job' = [job EXCEPT ![w] = placed] /\ Past(placed, server)
  BY PlacedPast DEF Enter, Become
<1> QED
  BY <1>1, OneSteps

(* A write spares its key, a removal is no longer owed.                     *)
LEMMA WritesSpare ==
  ASSUME NEW jobs \in [Callers -> Job], NEW data, NEW next, NEW k \in Keys,
         \A u \in Callers : Past(jobs[u], data),
         \A j \in Keys \ {k} : next[j] = data[j]
  PROVE  \A u \in Callers : Past(Sparing(jobs, k)[u], next)
<1> SUFFICES ASSUME NEW u \in Callers PROVE Past(Sparing(jobs, k)[u], next)
  OBVIOUS
<1>1. CASE jobs[u].op = "clear"
  <2>1. jobs[u] \in ClearJob
    BY <1>1, JobByOp
  <2>2. Sparing(jobs, k)[u] = [jobs[u] EXCEPT !.spared = @ \cup {k}]
    BY <1>1 DEF Sparing
  <2>3. Past(jobs[u], data)
    OBVIOUS
  <2>4. Past([jobs[u] EXCEPT !.spared = @ \cup {k}], next)
    BY <2>1, <2>3 DEF Past, ClearJob
  <2> QED
    BY <2>2, <2>4
<1>2. CASE jobs[u].op # "clear"
  BY <1>2, SparingKeeps, OtherJobsPast
<1> QED
  BY <1>1, <1>2

(* Removing keys does no harm to what a clear is past.                     *)
LEMMA RemovalsAreDone ==
  ASSUME NEW jobs \in [Callers -> Job], NEW data, NEW next, NEW k \in Keys,
         NEW beside, \A u \in Callers : jobs[u] = beside[u] \/ jobs[u].op # "clear" \/
           (jobs[u] = [beside[u] EXCEPT !.batch = @ \ {k}] /\ beside[u] \in ClearJob),
         \A u \in Callers : Past(beside[u], data),
         \A j \in Keys \ {k} : next[j] = data[j], next[k] = NoEntry
  PROVE  \A u \in Callers : Past(Unowed(jobs, k)[u], next)
<1> SUFFICES ASSUME NEW u \in Callers PROVE Past(Unowed(jobs, k)[u], next)
  OBVIOUS
<1>1. CASE jobs[u].op = "clear"
  <2>1. jobs[u] \in ClearJob
    BY <1>1, JobByOp
  <2>2. Unowed(jobs, k)[u] = [jobs[u] EXCEPT !.owed = @ \ {k}]
    BY <1>1 DEF Unowed
  <2>3. Past(beside[u], data)
    OBVIOUS
  <2>4. CASE jobs[u] = beside[u]
    <3>1. Past([jobs[u] EXCEPT !.owed = @ \ {k}], next)
      BY <2>1, <2>3, <2>4 DEF Past, ClearJob
    <3> QED
      BY <2>2, <3>1
  <2>5. CASE jobs[u] = [beside[u] EXCEPT !.batch = @ \ {k}] /\ beside[u] \in ClearJob
    <3>1. Past([jobs[u] EXCEPT !.owed = @ \ {k}], next)
      BY <2>1, <2>3, <2>5 DEF Past, ClearJob
    <3> QED
      BY <2>2, <3>1
  <2> QED
    BY <1>1, <2>4, <2>5
<1>2. CASE jobs[u].op # "clear"
  BY <1>2, UnowedKeeps, OtherJobsPast
<1> QED
  BY <1>1, <1>2

(* Neither does a call that starts ...                                     *)
LEMMA StartPast ==
  ASSUME TypeOK, ClearInv, NEW w \in Callers, Start(w) PROVE ClearInv'
<1>1. ASSUME NEW next \in Job, next.op # "none", Past(next, server), Begin(w, next)
      PROVE  ClearInv'
  BY <1>1, EnterPast DEF Begin
<1>2. ASSUME NEW k \in Keys, BeginGet(w, k) \/ BeginDelete(w, k) PROVE ClearInv'
  <2>1. PICK next \in KeyedJob : Begin(w, next)
    BY <1>2 DEF BeginGet, BeginDelete, KeyedJob, Waits
  <2> QED
    BY <1>1, <2>1, JobKinds DEF KeyedJob, Past
<1>3. ASSUME NEW k \in Keys, NEW v \in Values, NEW ttl \in Ttls, BeginSet(w, k, v, ttl)
      PROVE  ClearInv'
  <2> DEFINE next == [op |-> "set", at |-> "reply", key |-> k, value |-> v,
                      ex |-> ClampedSeconds(ttl)]
  <2>1. next \in SetJob /\ next.op = "set"
    BY SecondsType DEF SetJob, Waits
  <2>2. Begin(w, next)
    BY <1>3 DEF BeginSet
  <2> HIDE DEF next
  <2> QED
    BY <1>1, <2>1, <2>2, JobKinds, OtherJobsPast
<1>4. ASSUME NEW scope \in SUBSET Keys, BeginClear(w, scope) PROVE ClearInv'
  <2> DEFINE next == [op |-> "clear", at |-> "reply", scope |-> scope, owed |-> {},
                      batch |-> {}, begun |-> FALSE, spared |-> {}]
  <2>1. next \in ClearJob /\ next.op = "clear" /\ next.begun = FALSE
    BY DEF ClearJob, Waits
  <2>2. Begin(w, next)
    BY <1>4 DEF BeginClear
  <2> HIDE DEF next
  <2>3. Past(next, server)
    BY <2>1 DEF Past
  <2> QED
    BY <1>1, <2>1, <2>2, <2>3, JobKinds
<1>5. ASSUME BeginRead(w) PROVE ClearInv'
  <2>1. [op |-> "read", at |-> "reply"] \in PlainJob
    BY DEF PlainJob, Waits
  <2> QED
    BY <1>1, <1>5, <2>1, JobKinds DEF BeginRead, Past
<1>6. ASSUME BeginClose(w) PROVE ClearInv'
  BY <1>6, OneSteps DEF BeginClose, Become, Past
<1>7. \A n \in Namespaces : Matched[n] \in SUBSET Keys
  BY RedisAssumption
<1> QED
  BY <1>2, <1>3, <1>4, <1>5, <1>6, <1>7 DEF Start

(* ... or fails ...                                                        *)
LEMMA FailPast ==
  ASSUME TypeOK, ClearInv, NEW w \in Callers, Failed(w), server' = server
  PROVE  ClearInv'
<1>1. CASE Become(w, NoJob)
  BY <1>1, OneSteps, OtherJobsPast, JobKinds DEF Become
<1>2. CASE job[w].op = "get" /\ Enter(w, HealJob(w))
  <2>1. HealJob(w) \in Job /\ HealJob(w).op = "heal"
    BY <1>2, HealJobType, JobKinds
  <2> QED
    BY <1>2, <2>1, EnterPast, OtherJobsPast
<1> QED
  BY <1>1, <1>2 DEF Failed

(* ... or has its ping answered.                                           *)
LEMMA PingPast ==
  ASSUME ClientInv, ClearInv, NEW w \in Callers, PingAnswered(w) \/ PingFailed(w)
  PROVE  ClearInv'
<1>1. CASE PingAnswered(w)
  <2>1. CASE Become(w, [job[w] EXCEPT !.at = "reply"])
    <3>1. Past(job[w], server) /\ job[w] \in Job /\ job[w].op # "none"
      BY <1>1 DEF ClearInv, ClientInv, TypeOK, PingAnswered, Idle
    <3>2. Past([job[w] EXCEPT !.at = "reply"], server)
      BY <3>1, PlacedPast
    <3> QED
      BY <1>1, <2>1, <3>2, OneSteps DEF PingAnswered, Become, ClientInv
  <2>2. CASE Failed(w)
    BY <1>1, <2>2, FailPast DEF PingAnswered, ClientInv
  <2> QED
    BY <1>1, <2>1, <2>2 DEF PingAnswered
<1>2. CASE PingFailed(w)
  <2>1. CASE Become(w, NoJob)
    BY <1>2, <2>1, OneSteps, OtherJobsPast, JobKinds DEF Become, PingFailed, ClientInv
  <2>2. CASE job[w].op = "get" /\ Become(w, [HealJob(w) EXCEPT !.at = "ping"])
    <3>1. [HealJob(w) EXCEPT !.at = "ping"].op = "heal"
      BY <2>2, HealJobType, KeyedPlaced DEF ClientInv, Placed
    <3>2. Past([HealJob(w) EXCEPT !.at = "ping"], server)
      BY <3>1, OtherJobsPast
    <3> QED
      BY <1>2, <2>2, <3>2, OneSteps DEF Become, PingFailed, ClientInv
  <2> QED
    BY <1>2, <2>1, <2>2 DEF PingFailed
<1> QED
  BY <1>1, <1>2

(* Every step keeps what clears are past.                                  *)
LEMMA NextClear ==
  ASSUME ClientInv, ClearInv, [Next]_vars PROVE ClearInv'
<1>0. TypeOK /\ job \in [Callers -> Job] /\ server \in [Keys -> Values \cup {Bad, NoEntry}]
  BY DEF ClientInv, TypeOK
<1>1. ASSUME NEW w \in Callers, CommandFailed(w) PROVE ClearInv'
  BY <1>0, <1>1, FailPast DEF CommandFailed
<1>2. ASSUME NEW w \in Callers,
             ReadReply(w) \/ ClearReturn(w) \/ Cancelled(w) \/ CloseReply(w)
      PROVE  ClearInv'
  BY <1>0, <1>2, OneSteps, OtherJobsPast, JobKinds
  DEF ReadReply, ClearReturn, Cancelled, CloseReply, Become
<1>3. ASSUME NEW w \in Callers, GetReply(w) PROVE ClearInv'
  <2>1. CASE Enter(w, HealJob(w))
    <3>1. HealJob(w) \in Job /\ HealJob(w).op = "heal"
      BY <1>0, <1>3, HealJobType, JobKinds DEF GetReply, Waiting
    <3> QED
      BY <1>0, <1>3, <2>1, <3>1, EnterPast, OtherJobsPast DEF GetReply
  <2>2. CASE ~Enter(w, HealJob(w))
    <3>0. job[w].key \in Keys
      BY <1>0, <1>3, JobByOp DEF GetReply, Waiting, KeyedJob
    <3>1. PICK next : next.op = "none" /\ Become(w, next)
      BY <1>3, <2>2, <3>0, JobKinds DEF GetReply, IsResponse
    <3> QED
      BY <1>0, <1>3, <3>1, OneSteps, OtherJobsPast DEF GetReply, Become
  <2> QED
    BY <2>1, <2>2
<1>4. ASSUME NEW w \in Callers, SetReply(w) PROVE ClearInv'
  <2>1. job[w].key \in Keys
    BY <1>0, <1>4, JobByOp DEF SetReply, Waiting, SetJob
  <2> DEFINE jobs == [job EXCEPT ![w] = NoJob]
  <2>2. jobs \in [Callers -> Job] /\ \A u \in Callers : Past(jobs[u], server)
    BY <1>0, JobKinds DEF ClearInv, Past
  <2>3. job' = Sparing(jobs, job[w].key)
        /\ \A j \in Keys \ {job[w].key} : server'[j] = server[j]
    BY <1>0, <1>4 DEF SetReply, Stored
  <2> HIDE DEF jobs
  <2> QED
    BY <2>1, <2>2, <2>3, WritesSpare DEF ClearInv
<1>5. ASSUME NEW w \in Callers, DeleteReply(w) PROVE ClearInv'
  <2>1. job[w].key \in Keys
    BY <1>0, <1>5, JobByOp DEF DeleteReply, KeyedJob
  <2> DEFINE jobs == [job EXCEPT ![w] = NoJob]
  <2>2. jobs \in [Callers -> Job] /\ \A u \in Callers : Past(jobs[u], server)
    BY <1>0, JobKinds DEF ClearInv, Past
  <2>3. job' = Unowed(jobs, job[w].key)
        /\ server'[job[w].key] = NoEntry
        /\ \A j \in Keys \ {job[w].key} : server'[j] = server[j]
    BY <1>0, <1>5, <2>1 DEF DeleteReply, Removed, Ended
  <2> HIDE DEF jobs
  <2> QED
    BY <2>1, <2>2, <2>3, RemovalsAreDone DEF ClearInv
<1>6. ASSUME NEW w \in Callers, ScanReply(w) PROVE ClearInv'
  <2>1. job[w] \in ClearJob
    BY <1>0, <1>6, JobByOp DEF ScanReply, Waiting
  <2> DEFINE present == { k \in job[w].scope : server[k] # NoEntry }
             owed == IF job[w].begun THEN job[w].owed ELSE present
  <2>2. PICK batch \in SUBSET present :
          Become(w, [job[w] EXCEPT !.batch = batch, !.begun = TRUE,
                                   !.owed = OwedAfter(owed \ batch)])
    BY <1>6 DEF ScanReply
  <2> DEFINE next == [job[w] EXCEPT !.batch = batch, !.begun = TRUE, !.owed = owed \ batch]
  <2>3. /\ next.scope = job[w].scope /\ next.spared = job[w].spared
        /\ next.owed = owed \ batch /\ next.batch = batch
    BY <2>1 DEF ClearJob
  <2>4. \A k \in job[w].scope \ job[w].spared : server[k] = NoEntry \/ k \in owed
    BY <1>6 DEF ClearInv, Past, ScanReply, Waiting
  <2>5. job' = [job EXCEPT ![w] = next] /\ server' = server
    BY <1>6, <2>2 DEF Become, OwedAfter, ScanReply
  <2> HIDE DEF next, owed, present
  <2>6. Past(next, server)
    BY <2>3, <2>4 DEF Past
  <2> QED
    BY <1>0, <2>5, <2>6, OneSteps
<1>7. ASSUME NEW w \in Callers, NEW k \in Keys, ClearDelete(w, k) PROVE ClearInv'
  <2>1. job[w] \in ClearJob
    BY <1>0, <1>7, JobByOp DEF ClearDelete
  <2> DEFINE less == [job[w] EXCEPT !.batch = @ \ {k}]
             jobs == [job EXCEPT ![w] = less]
  <2>2. less \in Job
    BY <2>1, JobKinds DEF ClearJob
  <2>3. [job EXCEPT ![w].batch = @ \ {k}] = jobs
    BY <1>0
  <2>4. jobs \in [Callers -> Job]
    BY <1>0, <2>2
  <2>5. \A u \in Callers :
          jobs[u] = job[u] \/ jobs[u].op # "clear" \/
            (jobs[u] = [job[u] EXCEPT !.batch = @ \ {k}] /\ job[u] \in ClearJob)
    BY <1>0, <2>1
  <2>6. job' = Unowed(jobs, k) /\ server'[k] = NoEntry
        /\ \A j \in Keys \ {k} : server'[j] = server[j]
    BY <1>0, <1>7, <2>3 DEF ClearDelete, Removed
  <2>7. \A u \in Callers : Past(job[u], server)
    BY DEF ClearInv
  <2> HIDE DEF jobs
  <2> QED
    BY <2>4, <2>5, <2>6, <2>7, RemovalsAreDone DEF ClearInv
<1>8. ASSUME NEW k \in Keys, Vanish(k) PROVE ClearInv'
  <2>1. job' = Unowed(job, k) /\ server'[k] = NoEntry
        /\ \A j \in Keys \ {k} : server'[j] = server[j]
    BY <1>0, <1>8 DEF Vanish, Removed
  <2> QED
    BY <1>0, <2>1, RemovalsAreDone DEF ClearInv
<1>9. ASSUME NEW k \in Keys, Spoil(k) PROVE ClearInv'
  <2>1. job' = Sparing(job, k) /\ \A j \in Keys \ {k} : server'[j] = server[j]
    BY <1>0, <1>9 DEF Spoil
  <2> QED
    BY <1>0, <2>1, WritesSpare DEF ClearInv
<1>10. ASSUME NEW w \in Callers, Continue(w) PROVE ClearInv'
  BY <1>1, <1>2, <1>3, <1>4, <1>5, <1>6, <1>7, <1>10, PingPast DEF Continue
<1>11. CASE UNCHANGED vars
  BY <1>11 DEF vars, ClearInv
<1> QED
  BY <1>0, <1>2, <1>8, <1>9, <1>10, <1>11, StartPast DEF Next

(* At first there is no clear.                                             *)
LEMMA InitClear == Init => ClearInv
BY JobKinds DEF Init, ClearInv, Past

(***************************************************************************)
(* Whatever other calls write, delete or let expire between the batches of *)
(* a scan, a clear that runs to its end removed every key of its pattern   *)
(* that was there from its start and not written since (clear).            *)
(***************************************************************************)
THEOREM RedisClearsLeaveNothingOld == Spec => ClearRemovesOld
<1> DEFINE Empty(w) ==
      ClearReturn(w) => \A k \in job[w].scope \ job[w].spared : server[k] = NoEntry
<1>1. ClearInv /\ [Next]_vars => [\A w \in Callers : Empty(w)]_vars
  BY DEF ClearInv, Past, ClearReturn
<1> QED
  BY <1>1, InitClient, NextClient, InitClear, NextClear, PTL DEF Spec, ClearRemovesOld

-------------------------------------------------------------------------------
(* The contract                                                            *)

Shown == [k \in Keys |-> IF server[k] = Bad THEN NoEntry ELSE server[k]]
Called == [w \in Callers |-> CallOf(w)]

(* What a step may make of a call: it goes on, it ends, a get among them    *)
(* with what is stored, or another begins.                                  *)
Goes(w) ==
  \/ job'[w] = job[w]
  \/ job'[w] = NoJob
  \/ \E k \in Keys : server[k] \in Values /\ job'[w] = Answered(k, server[k])
  \/ job'[w].op \in {"get", "heal", "delete", "read", "close", "clear"}
  \/ /\ job'[w].op = "set"
     /\ job[w].op = "set" => job'[w].key = job[w].key /\ job'[w].value = job[w].value

(* Calls of this backend move as the contract says.                        *)
LEMMA GoesMoves ==
  ASSUME TypeOK, NEW w \in Callers, job'[w] \in Job, Goes(w)
  PROVE  Contract!Moves(w)
<1>0. job[w] \in Job /\ Called[w] = CallOf(w) /\ Called'[w] = CallOf(w)'
  BY DEF TypeOK, Called
<1>1. CASE job'[w] = job[w]
  <2>1. Called'[w] = Called[w]
    BY <1>0, <1>1 DEF CallOf, Idle
  <2> QED
    BY <2>1 DEF Contract!Moves, Called
<1>2. CASE job'[w] = NoJob \/ job'[w].op \in {"delete", "read", "close", "clear"}
  <2>1. Called'[w] = Contract!NoCall
    BY <1>0, <1>2 DEF CallOf, Idle, NoJob, Contract!NoCall
  <2> QED
    BY <2>1 DEF Contract!Moves, Called
<1>3. CASE \E k \in Keys : server[k] \in Values /\ job'[w] = Answered(k, server[k])
  <2>1. PICK k \in Keys : server[k] \in Values /\ job'[w] = Answered(k, server[k])
    BY <1>3
  <2>2. Shown[k] = server[k]
    BY <2>1, RedisAssumption DEF Shown
  <2>3. Called'[w] \in {Contract!NoCall, Contract!Getting(k, Shown[k])}
    BY <1>0, <2>1, <2>2
    DEF CallOf, Idle, Answered, Contract!NoCall, Contract!Getting
  <2> QED
    BY <2>3 DEF Contract!Moves, Called, Shown
<1>4. CASE job'[w].op \in {"get", "heal"}
  <2>1. job'[w].key \in Keys
    BY <1>4, JobByOp DEF KeyedJob
  <2>2. Called'[w] = Contract!Getting(job'[w].key, NoEntry)
    BY <1>0, <1>4 DEF CallOf, Idle, Contract!Getting
  <2> QED
    BY <2>1, <2>2 DEF Contract!Moves, Called
<1>5. CASE job'[w].op = "set"
  <2>1. job'[w].key \in Keys /\ job'[w].value \in Values
    BY <1>5, JobByOp DEF SetJob
  <2>2. Called'[w] = Contract!Setting(job'[w].key, job'[w].value)
    BY <1>0, <1>5 DEF CallOf, Idle, Contract!Setting
  <2>3. CASE job[w].op = "set"
    <3>0. job'[w] # NoJob /\ \A k, v : job'[w] # Answered(k, v)
      BY <1>5 DEF NoJob, Answered
    <3>1. job'[w].key = job[w].key /\ job'[w].value = job[w].value
      BY <1>5, <2>3, <3>0 DEF Goes
    <3>2. CallOf(w) = Contract!Setting(job[w].key, job[w].value)
      BY <2>3 DEF CallOf, Idle, Contract!Setting
    <3> QED
      BY <1>0, <2>2, <3>1, <3>2 DEF Contract!Moves, Called
  <2>4. CASE job[w].op # "set"
    <3>1. Called[w].op # "set"
      BY <1>0, <2>4 DEF CallOf, Idle
    <3> QED
      BY <2>1, <2>2, <3>1 DEF Contract!Moves, Called
  <2> QED
    BY <2>3, <2>4
<1> QED
  BY <1>1, <1>2, <1>3, <1>4, <1>5 DEF Goes

(* A step that leaves the responses alone, and one that loses one.          *)
LEMMA StoreStays ==
  ASSUME TypeOK, job' \in [Callers -> Job], server' = server, \A w \in Callers : Goes(w)
  PROVE  Contract!Next
<1>1. Contract!Lose({})
  BY DEF Contract!Lose, Shown
<1>2. \A w \in Callers : Contract!Moves(w)
  BY GoesMoves
<1> QED
  BY <1>1, <1>2 DEF Contract!Next

(* A key that is removed is lost.                                          *)
LEMMA LosesKey ==
  ASSUME TypeOK, job' \in [Callers -> Job], NEW k \in Keys, NEW data \in {Bad, NoEntry},
         server' = [server EXCEPT ![k] = data], \A w \in Callers : Goes(w)
  PROVE  Contract!Next
<1>1. Shown' = [j \in Keys |-> IF j \in {k} THEN NoEntry ELSE Shown[j]]
  BY DEF Shown, TypeOK
<1>2. Contract!Lose({k})
  BY <1>1 DEF Contract!Lose, Shown
<1>3. \A w \in Callers : Contract!Moves(w)
  BY GoesMoves
<1> QED
  BY <1>2, <1>3 DEF Contract!Next

(* A call that takes a step of its own.                                     *)
LEMMA OneGoes ==
  ASSUME TypeOK, NEW w \in Callers, NEW next, job' = [job EXCEPT ![w] = next], Goes(w)
  PROVE  \A u \in Callers : Goes(u)
BY DEF Goes, TypeOK

(* A call that takes a client goes on as the contract lets it.             *)
LEMMA EntersGoes ==
  ASSUME TypeOK, NEW w \in Callers, NEW next, Placed(next), Enter(w, next),
         \/ next.op \in {"get", "heal", "delete", "read", "clear"}
         \/ next.op = "set" /\ job[w].op # "set"
  PROVE  \A u \in Callers : Goes(u)
<1>1. \E at \in Waits : job' = [job EXCEPT ![w] = [next EXCEPT !.at = at]]
  BY DEF Enter, Become, Waits
<1>2. PICK at \in Waits : job' = [job EXCEPT ![w] = [next EXCEPT !.at = at]]
  BY <1>1
<1>3. job'[w].op = next.op
  BY <1>2 DEF Placed, Waits, TypeOK
<1>4. Goes(w)
  BY <1>3 DEF Goes
<1> QED
  BY <1>2, <1>4, OneGoes

(* A call that starts shows that it was called.                            *)
LEMMA StartGoes ==
  ASSUME TypeOK, NEW w \in Callers, Start(w) PROVE \A u \in Callers : Goes(u)
<1>1. ASSUME NEW k \in Keys, BeginGet(w, k) \/ BeginDelete(w, k) PROVE \A u \in Callers : Goes(u)
  <2>1. PICK next \in KeyedJob : next.op \in {"get", "delete"} /\ Begin(w, next)
    BY <1>1 DEF BeginGet, BeginDelete, KeyedJob, Waits
  <2> QED
    BY <2>1, KeyedPlaced, EntersGoes DEF Begin
<1>2. ASSUME NEW k \in Keys, NEW v \in Values, NEW ttl \in Ttls, BeginSet(w, k, v, ttl)
      PROVE  \A u \in Callers : Goes(u)
  <2> DEFINE next == [op |-> "set", at |-> "reply", key |-> k, value |-> v,
                      ex |-> ClampedSeconds(ttl)]
  <2>1. next \in SetJob /\ next.op = "set"
    BY SecondsType DEF SetJob, Waits
  <2>2. Enter(w, next) /\ job[w].op # "set"
    BY <1>2 DEF BeginSet, Begin, Idle
  <2> HIDE DEF next
  <2> QED
    BY <2>1, <2>2, KeyedPlaced, EntersGoes
<1>3. ASSUME NEW scope \in SUBSET Keys, BeginClear(w, scope) PROVE \A u \in Callers : Goes(u)
  <2> DEFINE next == [op |-> "clear", at |-> "reply", scope |-> scope, owed |-> {},
                      batch |-> {}, begun |-> FALSE, spared |-> {}]
  <2>1. next \in ClearJob /\ next.op = "clear"
    BY DEF ClearJob, Waits
  <2>2. Enter(w, next)
    BY <1>3 DEF BeginClear, Begin
  <2> HIDE DEF next
  <2> QED
    BY <2>1, <2>2, KeyedPlaced, EntersGoes
<1>4. ASSUME BeginRead(w) PROVE \A u \in Callers : Goes(u)
  <2>1. PICK next \in PlainJob : next.op = "read" /\ Begin(w, next)
    BY <1>4 DEF BeginRead, PlainJob, Waits
  <2> QED
    BY <2>1, KeyedPlaced, EntersGoes DEF Begin
<1>5. ASSUME BeginClose(w) PROVE \A u \in Callers : Goes(u)
  <2>1. job' = [job EXCEPT ![w] = [op |-> "close", at |-> "reply"]]
    BY <1>5 DEF BeginClose, Become
  <2>2. Goes(w)
    BY <2>1 DEF Goes, TypeOK
  <2> QED
    BY <2>1, <2>2, OneGoes
<1> QED
  BY <1>1, <1>2, <1>3, <1>4, <1>5, RedisAssumption DEF Start

(* A call that fails shows a miss, or nothing.                             *)
LEMMA FailGoes ==
  ASSUME TypeOK, NEW w \in Callers, Failed(w) PROVE \A u \in Callers : Goes(u)
<1>1. CASE Become(w, NoJob)
  <2>1. Goes(w)
    BY <1>1 DEF Become, Goes, TypeOK
  <2> QED
    BY <1>1, <2>1, OneGoes DEF Become
<1>2. CASE job[w].op = "get" /\ Enter(w, HealJob(w))
  <2>1. HealJob(w) \in KeyedJob /\ HealJob(w).op = "heal"
    BY <1>2, HealJobType
  <2> QED
    BY <1>2, <2>1, KeyedPlaced, EntersGoes
<1> QED
  BY <1>1, <1>2 DEF Failed

(* Neither does a ping show anything else.                                 *)
LEMMA PingGoes ==
  ASSUME ClientInv, NEW w \in Callers, PingAnswered(w) \/ PingFailed(w)
  PROVE  \A u \in Callers : Goes(u)
<1>0. TypeOK /\ job[w].op \notin {"none", "close"} /\ job[w] \in Job
  BY DEF ClientInv, TypeOK, PingAnswered, PingFailed, Idle, CloseAlone
<1>1. CASE Become(w, [job[w] EXCEPT !.at = "reply"])
  <2>1. job[w] \in KeyedJob \cup SetJob \cup PlainJob \cup ClearJob
    BY <1>0, JobByOp
  <2>2. [job[w] EXCEPT !.at = "reply"].op = job[w].op
    BY <2>1, KeyedPlaced DEF Placed
  <2>3. job[w].op = "set" =>
          /\ [job[w] EXCEPT !.at = "reply"].key = job[w].key
          /\ [job[w] EXCEPT !.at = "reply"].value = job[w].value
    BY <1>0, JobByOp DEF SetJob
  <2>4. job'[w] = [job[w] EXCEPT !.at = "reply"]
    BY <1>0, <1>1 DEF Become, TypeOK
  <2>5. job[w].op \in {"get", "heal", "delete", "read", "clear", "set"}
    BY <1>0, JobByOp
  <2>6. Goes(w)
    BY <2>2, <2>3, <2>4, <2>5 DEF Goes
  <2> QED
    BY <1>0, <1>1, <2>6, OneGoes DEF Become
<1>2. CASE Failed(w)
  BY <1>0, <1>2, FailGoes
<1>3. CASE Become(w, NoJob)
  BY <1>0, <1>3, OneGoes DEF Become, Goes, TypeOK
<1>4. CASE job[w].op = "get" /\ Become(w, [HealJob(w) EXCEPT !.at = "ping"])
  <2>1. [HealJob(w) EXCEPT !.at = "ping"].op = "heal"
    BY <1>0, <1>4, HealJobType, KeyedPlaced DEF Placed
  <2>2. Goes(w)
    BY <1>0, <1>4, <2>1 DEF Become, Goes, TypeOK
  <2> QED
    BY <1>0, <1>4, <2>2, OneGoes DEF Become
<1> QED
  BY <1>1, <1>2, <1>3, <1>4 DEF PingAnswered, PingFailed

(* What a write and a removal change of the clears that run is no call.     *)
LEMMA SparedGoes ==
  ASSUME NEW jobs \in [Callers -> Job], NEW k \in Keys, NEW u \in Callers,
         jobs[u] \in {job[u], NoJob} \/ jobs[u].op = "clear",
         job' = Sparing(jobs, k) \/ job' = Unowed(jobs, k)
  PROVE  Goes(u)
<1>1. job'[u].op = jobs[u].op /\ (jobs[u].op # "clear" => job'[u] = jobs[u])
  BY SparingKeeps, UnowedKeeps
<1> QED
  BY <1>1 DEF Goes

(* Every step is one of the contract, or leaves it unchanged.              *)
LEMMA StepImplements ==
  ASSUME ClientInv, TypeOK', [Next]_vars PROVE [Contract!Next]_<< Shown, Called >>
<1>0. TypeOK /\ job \in [Callers -> Job] /\ job' \in [Callers -> Job]
  BY DEF ClientInv, TypeOK
<1>1. ASSUME server' = server, \A w \in Callers : Goes(w) PROVE Contract!Next
  BY <1>0, <1>1, StoreStays
<1>2. ASSUME NEW w \in Callers, SetReply(w) PROVE Contract!Next
  <2>0. job[w] \in SetJob /\ job[w].op = "set"
    BY <1>0, <1>2, JobByOp DEF SetReply, Waiting
  <2>1. PICK k \in Keys, v \in Values : k = job[w].key /\ v = job[w].value
    BY <2>0 DEF SetJob
  <2>2. server' = [server EXCEPT ![k] = v]
    BY <1>2, <2>1 DEF SetReply, Stored
  <2>3. Shown' = [j \in Keys |-> IF j = k THEN v ELSE
                                 IF j \in Keys \ {k} THEN Shown[j] ELSE NoEntry]
    BY <1>0, <2>1, <2>2, RedisAssumption DEF Shown, TypeOK
  <2>4. Contract!Put(k, v)
    BY <2>3 DEF Contract!Put, Shown
  <2> DEFINE jobs == [job EXCEPT ![w] = NoJob]
  <2>5. jobs \in [Callers -> Job] /\ job' = Sparing(jobs, k)
    BY <1>0, <1>2, <2>1, JobKinds DEF SetReply
  <2>6. \A u \in Callers : jobs[u] \in {job[u], NoJob}
    BY <1>0
  <2>7. job'[w] = NoJob
    BY <1>0, <2>5, SparingKeeps, JobKinds
  <2>8. Called[w] = Contract!Setting(k, v) /\ Called'[w] = Contract!NoCall
    BY <2>0, <2>1, <2>7
    DEF Called, CallOf, Idle, NoJob, Contract!Setting, Contract!NoCall
  <2>9. Contract!SetLater(w)
    BY <2>4, <2>8 DEF Contract!SetLater, Called
  <2> HIDE DEF jobs
  <2>10. \A u \in Callers : Contract!Moves(u)
    BY <1>0, <2>5, <2>6, SparedGoes, GoesMoves
  <2> QED
    BY <2>9, <2>10 DEF Contract!Next
<1>3. ASSUME NEW w \in Callers, DeleteReply(w) PROVE Contract!Next
  <2>1. job[w].key \in Keys
    BY <1>0, <1>3, JobByOp DEF DeleteReply, KeyedJob
  <2> DEFINE jobs == [job EXCEPT ![w] = NoJob]
  <2>2. jobs \in [Callers -> Job] /\ job' = Unowed(jobs, job[w].key)
    BY <1>0, <1>3, JobKinds DEF DeleteReply, Ended
  <2>3. \A u \in Callers : jobs[u] \in {job[u], NoJob}
    BY <1>0
  <2> HIDE DEF jobs
  <2>4. \A u \in Callers : Goes(u)
    BY <2>1, <2>2, <2>3, SparedGoes
  <2> QED
    BY <1>0, <1>3, <2>1, <2>4, LosesKey DEF DeleteReply, Removed
<1>4. ASSUME NEW w \in Callers, NEW k \in Keys, ClearDelete(w, k) PROVE Contract!Next
  <2>1. job[w] \in ClearJob /\ job[w].op = "clear"
    BY <1>0, <1>4, JobByOp DEF ClearDelete
  <2> DEFINE less == [job[w] EXCEPT !.batch = @ \ {k}]
             jobs == [job EXCEPT ![w] = less]
  <2>2. less \in Job /\ less.op = "clear"
    BY <2>1, JobKinds DEF ClearJob
  <2>3. [job EXCEPT ![w].batch = @ \ {k}] = jobs
    BY <1>0
  <2>4. jobs \in [Callers -> Job] /\ job' = Unowed(jobs, k)
    BY <1>0, <1>4, <2>2, <2>3 DEF ClearDelete
  <2>5. \A u \in Callers : jobs[u] = job[u] \/ jobs[u].op = "clear"
    BY <1>0, <2>2
  <2> HIDE DEF jobs
  <2>6. \A u \in Callers : Goes(u)
    BY <2>4, <2>5, SparedGoes
  <2> QED
    BY <1>0, <1>4, <2>6, LosesKey DEF ClearDelete, Removed
<1>5. ASSUME NEW k \in Keys, Vanish(k) \/ Spoil(k) PROVE Contract!Next
  <2>1. \A u \in Callers : Goes(u)
    BY <1>0, <1>5, SparedGoes DEF Vanish, Spoil
  <2> QED
    BY <1>0, <1>5, <2>1, LosesKey DEF Vanish, Spoil, Removed
<1>6. ASSUME NEW w \in Callers, Start(w) PROVE Contract!Next
  <2>1. server' = server
    BY <1>6
    DEF Start, BeginGet, BeginSet, BeginDelete, BeginClear, BeginRead, BeginClose, Begin
  <2> QED
    BY <1>0, <1>1, <1>6, <2>1, StartGoes
<1>7. ASSUME NEW w \in Callers, PingAnswered(w) \/ PingFailed(w) PROVE Contract!Next
  BY <1>1, <1>7, PingGoes DEF PingAnswered, PingFailed
<1>8. ASSUME NEW w \in Callers, CommandFailed(w) PROVE Contract!Next
  BY <1>0, <1>1, <1>8, FailGoes DEF CommandFailed
<1>9. ASSUME NEW w \in Callers,
             ReadReply(w) \/ ClearReturn(w) \/ Cancelled(w) \/ CloseReply(w)
      PROVE  Contract!Next
  <2>1. job' = [job EXCEPT ![w] = NoJob] /\ server' = server
    BY <1>9 DEF ReadReply, ClearReturn, Cancelled, CloseReply, Become
  <2>2. Goes(w)
    BY <1>0, <2>1 DEF Goes
  <2> QED
    BY <1>0, <1>1, <2>1, <2>2, OneGoes
<1>10. ASSUME NEW w \in Callers, GetReply(w) PROVE Contract!Next
  <2>0. server' = server /\ job[w].op = "get" /\ job[w].key \in Keys
    BY <1>0, <1>10, JobByOp DEF GetReply, Waiting, KeyedJob
  <2>1. CASE Become(w, NoJob)
    BY <1>0, <1>1, <2>0, <2>1, OneGoes DEF Become, Goes
  <2>2. CASE IsResponse(server[job[w].key])
             /\ Become(w, Answered(job[w].key, server[job[w].key]))
    <3>1. Goes(w)
      BY <1>0, <2>0, <2>2 DEF Goes, Become, IsResponse
    <3> QED
      BY <1>0, <1>1, <2>0, <2>2, <3>1, OneGoes DEF Become
  <2>3. CASE Enter(w, HealJob(w))
    <3>1. HealJob(w) \in KeyedJob /\ HealJob(w).op = "heal"
      BY <1>0, <2>0, HealJobType
    <3> QED
      BY <1>0, <1>1, <2>0, <2>3, <3>1, KeyedPlaced, EntersGoes
  <2> QED
    BY <1>10, <2>1, <2>2, <2>3 DEF GetReply
<1>11. ASSUME NEW w \in Callers, ScanReply(w) PROVE Contract!Next
  <2>0. server' = server /\ job[w] \in ClearJob
    BY <1>0, <1>11, JobByOp DEF ScanReply, Waiting
  <2>1. PICK batch, owed :
          Become(w, [job[w] EXCEPT !.batch = batch, !.begun = TRUE, !.owed = owed])
    BY <1>11 DEF ScanReply
  <2>2. [job[w] EXCEPT !.batch = batch, !.begun = TRUE, !.owed = owed].op = "clear"
    BY <2>0 DEF ClearJob
  <2>3. Goes(w)
    BY <1>0, <2>1, <2>2 DEF Become, Goes
  <2> QED
    BY <1>0, <1>1, <2>0, <2>1, <2>3, OneGoes DEF Become
<1>12. CASE UNCHANGED vars
  <2>1. Shown' = Shown /\ job' = job
    BY <1>12 DEF vars, Shown
  <2>2. Called' = Called
    BY <2>1 DEF Called, CallOf, Idle
  <2> QED
    BY <2>1, <2>2
<1> QED
  BY <1>2, <1>3, <1>4, <1>5, <1>6, <1>7, <1>8, <1>9, <1>10, <1>11, <1>12
  DEF Next, Continue

(***************************************************************************)
(* Whatever the calls and the other programs do, the backend keeps the     *)
(* promise of CacheBackend (base.py): a get answers with a response that a *)
(* set put under its key and that the server still held during the get.    *)
(***************************************************************************)
THEOREM RedisImplementsContract == Spec => ImplementsContract
<1>1. Init => Contract!Init
  <2> SUFFICES ASSUME Init PROVE Contract!Init
    OBVIOUS
  <2>1. Shown = [k \in Keys |-> NoEntry]
    BY RedisAssumption DEF Init, Shown
  <2>2. Called = [w \in Callers |-> Contract!NoCall]
    BY DEF Init, Called, CallOf, Idle, NoJob, Contract!NoCall
  <2> QED
    BY <2>1, <2>2 DEF Contract!Init, Shown, Called
<1>2. ClientInv /\ TypeOK' /\ [Next]_vars => [Contract!Next]_<< Shown, Called >>
  BY StepImplements
<1> QED
  BY <1>1, <1>2, ClientInvariant, RedisTypeCorrect, PTL
  DEF Spec, ImplementsContract, Contract!Spec, Shown, Called
=============================================================================
