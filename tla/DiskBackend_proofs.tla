-------------------------- MODULE DiskBackend_proofs --------------------------
(***************************************************************************)
(* Proofs about DiskBackend, for every set of keys, of threads and of      *)
(* processes, and every assignment of the threads to the processes.        *)
(***************************************************************************)
EXTENDS DiskBackend, TLAPS

Locking == {"read", "count", "write", "cleanup"}

-------------------------------------------------------------------------------
(* Types                                                                   *)

(* The kind of a job tells its fields.                                      *)
LEMMA JobByOp ==
  ASSUME NEW j \in Job
  PROVE  /\ j.op = "none" => j = NoJob
         /\ j.op = "read" => j \in ReadJob
         /\ j.op = "count" => j \in CountJob
         /\ j.op = "write" => j \in WriteJob
         /\ j.op = "cleanup" => j \in CleanupJob
         /\ j.op = "clear" => j \in ClearJob
         /\ j.op \in Locking \cup {"none", "clear"}
BY DEF Job, NoJob, ReadJob, CountJob, WriteJob, CleanupJob, ClearJob, Locking

(* What a clear makes of itself stays a clear, with its scope.              *)
LEMMA SpareKeeps ==
  ASSUME NEW j \in Job, j.op = "clear", NEW k \in Keys
  PROVE  /\ Spare(j, k) \in ClearJob /\ Spare(j, k).op = "clear"
         /\ Spare(j, k).whole = j.whole /\ Spare(j, k).scope = j.scope
         /\ Spare(j, k).left = j.left /\ Spare(j, k).checked = j.checked
         /\ Spare(j, k).spared = j.spared \cup ({k} \cap j.scope)
<1>1. j \in ClearJob
  BY JobByOp
<1> QED
  BY <1>1 DEF Spare, ClearJob

(* Nor does sparing a key for every clear change what the others do.       *)
LEMMA SparingKeeps ==
  ASSUME NEW jobs \in [Workers -> Job], NEW k \in Keys
  PROVE  /\ Sparing(jobs, k) \in [Workers -> Job]
         /\ \A u \in Workers :
              /\ jobs[u].op # "clear" => Sparing(jobs, k)[u] = jobs[u]
              /\ jobs[u].op = "clear" => Sparing(jobs, k)[u] = Spare(jobs[u], k)
              /\ Sparing(jobs, k)[u].op = jobs[u].op
BY SpareKeeps DEF Sparing, Job

(* The jobs without fields.                                                *)
LEMMA JobKinds == NoJob \in Job /\ [op |-> "cleanup"] \in Job /\ NoJob.op = "none"
BY DEF Job, NoJob, CleanupJob

(* A get answers with a value or a miss.                                   *)
LEMMA ResponseType ==
  ASSUME NEW content \in Content PROVE Response(content) \in Values \cup {NoEntry}
BY ContentAssumption DEF Response, Content, Entry

(* The first states are well typed.                                        *)
LEMMA InitTypes == Init => TypeOK
<1> SUFFICES ASSUME Init PROVE TypeOK
  OBVIOUS
<1> QED
  BY DiskAssumption, JobKinds DEF Init, TypeOK, Content

(* And every step keeps the types.                                         *)
LEMMA NextTypes ==
  ASSUME TypeOK, [Next]_vars PROVE TypeOK'
<1> USE DEF TypeOK
<1>0. home \in [Workers -> Instances]
  BY DiskAssumption
<1>1. ASSUME NEW w \in Workers, NEW k \in Keys, NEW counted \in BOOLEAN,
             GetRead(w, k, counted)
      PROVE  TypeOK'
  <2>1. PICK fails \in BOOLEAN :
          Become(w, [op |-> "read", key |-> k, counted |-> counted,
                     found |-> IF fails THEN Damaged ELSE files[k],
                     kept |-> IF fails THEN NoEntry ELSE kept[k]])
    BY <1>1 DEF GetRead
  <2>2. [op |-> "read", key |-> k, counted |-> counted,
         found |-> IF fails THEN Damaged ELSE files[k],
         kept |-> IF fails THEN NoEntry ELSE kept[k]] \in Job
    BY DEF Job, ReadJob, Content
  <2>3. job' \in [Workers -> Job]
    BY <2>1, <2>2 DEF Become
  <2> QED
    BY <1>0, <1>1, <2>3 DEF GetRead, Acquire, counters
<1>2. ASSUME NEW w \in Workers, GetDecide(w) PROVE TypeOK'
  <2>1. job[w] \in ReadJob
    BY <1>2, JobByOp DEF GetDecide, Doing
  <2>2. Response(job[w].found) \in Values \cup {NoEntry}
    BY <2>1, ResponseType DEF ReadJob
  <2> DEFINE i == home[w]
             next == [op |-> "count", key |-> job[w].key,
                      answer |-> Response(job[w].found),
                      hits |-> hits[i] + (IF Response(job[w].found) # NoEntry THEN 1 ELSE 0),
                      misses |-> misses[i] + (IF Response(job[w].found) # NoEntry THEN 0 ELSE 1)]
  <2>3. hits[i] \in Nat /\ misses[i] \in Nat
    BY <1>0
  <2>4. next \in CountJob
    BY <2>1, <2>2, <2>3 DEF CountJob, ReadJob
  <2>5. job' = [job EXCEPT ![w] = next]
    BY <1>2 DEF GetDecide, Become
  <2>6. job' \in [Workers -> Job]
    BY <2>4, <2>5 DEF Job
  <2> QED
    BY <1>2, <2>6 DEF GetDecide, LeftAlone, counters
<1>3. ASSUME NEW w \in Workers, GetReturn(w) PROVE TypeOK'
  <2>1. job[w] \in CountJob
    BY <1>3, JobByOp DEF GetReturn, Doing
  <2>2. job' \in [Workers -> Job]
    BY <1>3, JobKinds DEF GetReturn, Become
  <2>3. /\ hits' \in [Instances -> Nat] /\ misses' \in [Instances -> Nat]
        /\ answered' \in [Instances -> Nat]
    BY <1>0, <1>3, <2>1 DEF GetReturn, CountJob, counters
  <2> QED
    BY <1>0, <1>3, <2>2, <2>3 DEF GetReturn, Unlocked
<1>4. ASSUME NEW w \in Workers, NEW k \in Keys, NEW v \in Values, NEW ttl \in Ttls,
             SetBegin(w, k, v, ttl)
      PROVE  TypeOK'
  <2>1. ExpiryOf(ttl) \in Nat
    BY DiskAssumption DEF ExpiryOf
  <2>2. [op |-> "write", key |-> k, entry |-> [value |-> v, expiry |-> ExpiryOf(ttl)]] \in Job
    BY <2>1 DEF Job, WriteJob, Entry
  <2>3. job' \in [Workers -> Job]
    BY <1>4, <2>2 DEF SetBegin, Become
  <2> QED
    BY <1>0, <1>4, <2>3 DEF SetBegin, Acquire, OpenedBeside, counters
<1>5. ASSUME NEW w \in Workers, SetReplace(w) PROVE TypeOK'
  <2>1. job[w] \in WriteJob
    BY <1>5, JobByOp DEF SetReplace, Doing
  <2>2. job[w].key \in Keys /\ job[w].entry \in Entry
    BY <2>1 DEF WriteJob
  <2>3. [job EXCEPT ![w] = [op |-> "cleanup"]] \in [Workers -> Job]
    BY JobKinds
  <2>5. job' \in [Workers -> Job]
    BY <1>5, <2>2, <2>3, SparingKeeps DEF SetReplace
  <2> QED
    BY <1>5, <2>2, <2>5 DEF SetReplace, Replaced, Content, counters
<1>6. ASSUME NEW w \in Workers, SetFail(w) PROVE TypeOK'
  BY <1>6, JobKinds DEF SetFail, Become, counters
<1>7. ASSUME NEW w \in Workers, SetReturn(w) PROVE TypeOK'
  BY <1>0, <1>7, JobKinds DEF SetReturn, Become, Unlocked, counters
<1>8. ASSUME NEW w \in Workers, NEW k \in Keys, Delete(w, k) PROVE TypeOK'
  BY <1>8 DEF Delete, Unlink, Content, counters
<1>9. ASSUME NEW w \in Workers, NEW whole \in BOOLEAN, NEW scope \in SUBSET Keys,
             ClearBegin(w, whole, scope)
      PROVE  TypeOK'
  <2>1. [op |-> "clear", whole |-> whole, scope |-> scope, left |-> Listing,
         checked |-> {}, spared |-> {}] \in Job
    BY DEF Job, ClearJob, Listing
  <2> QED
    BY <1>9, <2>1 DEF ClearBegin, Become, counters
<1>10. ASSUME NEW w \in Workers, NEW k \in Keys, ClearCheck(w, k) PROVE TypeOK'
  <2>1. job[w] \in ClearJob
    BY <1>10, JobByOp DEF ClearCheck
  <2>2. /\ [job[w] EXCEPT !.checked = {k}] \in Job
        /\ [job[w] EXCEPT !.left = @ \ {k}] \in Job
        /\ Spare([job[w] EXCEPT !.left = @ \ {k}], k) \in Job
    BY <2>1 DEF Job, ClearJob, Spare
  <2>3. job' \in [Workers -> Job]
    BY <1>10, <2>2 DEF ClearCheck, Become
  <2> QED
    BY <1>10, <2>3 DEF ClearCheck, counters
<1>11. ASSUME NEW w \in Workers, NEW k \in Keys, ClearUnlink(w, k) PROVE TypeOK'
  <2>1. job[w] \in ClearJob
    BY <1>11, JobByOp DEF ClearUnlink
  <2>2. /\ [job[w] EXCEPT !.left = @ \ {k}, !.checked = {}] \in Job
        /\ Spare([job[w] EXCEPT !.left = @ \ {k}, !.checked = {}], k) \in Job
    BY <2>1 DEF Job, ClearJob, Spare
  <2>3. job' \in [Workers -> Job]
    BY <1>11, <2>2 DEF ClearUnlink, Become
  <2>4. files' \in [Keys -> Content] /\ kept' \in [Keys -> Entry \cup {NoEntry}]
    BY <1>11 DEF ClearUnlink, Unlink, Content
  <2> QED
    BY <1>11, <2>3, <2>4 DEF ClearUnlink, counters
<1>12. ASSUME NEW w \in Workers, ClearReturn(w) PROVE TypeOK'
  BY <1>12, JobKinds DEF ClearReturn, Become, counters
<1>13. ASSUME NEW i \in Instances, Crash(i) PROVE TypeOK'
  BY <1>13, JobKinds DEF Crash
<1>14. ASSUME NEW k \in Keys, Corrupt(k) PROVE TypeOK'
  BY <1>14 DEF Corrupt, Content, counters
<1>15. ASSUME Tick PROVE TypeOK'
  BY <1>15, DiskAssumption DEF Tick, counters
<1>16. CASE UNCHANGED vars
  BY <1>16 DEF vars, counters
<1>17. ASSUME NEW w \in Workers, ExistsReturn(w) PROVE TypeOK'
  BY <1>0, <1>17, JobKinds DEF ExistsReturn, Become, Unlocked, LeftAlone, counters
<1>18. \A n \in Namespaces : Prefixed[n] \in SUBSET Keys
  BY DiskAssumption
<1>19. ASSUME NEW w \in Workers, Start(w) PROVE TypeOK'
  BY <1>1, <1>4, <1>8, <1>9, <1>18, <1>19 DEF Start
<1>20. ASSUME NEW w \in Workers, Continue(w) PROVE TypeOK'
  BY <1>2, <1>3, <1>5, <1>6, <1>7, <1>10, <1>11, <1>12, <1>20, <1>17 DEF Continue
<1> QED
  BY <1>13, <1>14, <1>15, <1>16, <1>19, <1>20 DEF Next

(***************************************************************************)
(* Type correctness: every file holds an entry or damage, every thread has *)
(* a job of a known kind and every expiry is a time.                       *)
(***************************************************************************)
THEOREM TypeCorrect == Spec => []TypeOK
<1> QED
  BY InitTypes, NextTypes, PTL DEF Spec

-------------------------------------------------------------------------------
(* The lock                                                                *)

(* A step that leaves the lock alone keeps threads inside or outside of it. *)
LEMMA LockUntouched ==
  ASSUME LocksOwned, lock' = lock, home' = home,
         \A u \in Workers : job'[u].op \in Locking <=> job[u].op \in Locking
  PROVE  LocksOwned'
BY DEF LocksOwned, Locking

(* One thread enters. *)
LEMMA LockTaken ==
  ASSUME TypeOK, LocksOwned, NEW w \in Workers, Acquire(w), home' = home,
         job'[w].op \in Locking, \A u \in Workers \ {w} : job'[u] = job[u]
  PROVE  LocksOwned'
<1>1. home \in [Workers -> Instances] /\ Free \notin Workers
  BY DiskAssumption DEF TypeOK
<1>2. lock[home[w]] = Free /\ lock' = [lock EXCEPT ![home[w]] = w]
  BY DEF Acquire, LockFree
<1>3. lock'[home[w]] = w
  BY <1>1, <1>2 DEF TypeOK
<1>4. ASSUME NEW u \in Workers, u # w, home[u] = home[w]
      PROVE  lock'[home'[u]] # u /\ job'[u].op \notin Locking
  BY <1>1, <1>2, <1>3, <1>4 DEF LocksOwned, Locking
<1>5. ASSUME NEW u \in Workers, home[u] # home[w]
      PROVE  lock'[home'[u]] = lock[home[u]] /\ job'[u] = job[u]
  BY <1>1, <1>2, <1>5 DEF TypeOK
<1> QED
  BY <1>3, <1>4, <1>5 DEF LocksOwned, Locking

(* A thread within clear stays there, and concerns nobody else.             *)
LEMMA ClearSteps ==
  ASSUME TypeOK, NEW w \in Workers, NEW k \in Keys, ClearCheck(w, k) \/ ClearUnlink(w, k)
  PROVE  /\ job[w].op = "clear" /\ job'[w].op = "clear"
         /\ \A u \in Workers \ {w} : job'[u] = job[u]
         /\ UNCHANGED << home, lock, counters >>
<1>1. job \in [Workers -> Job] /\ job[w].op = "clear" /\ job[w] \in ClearJob
  BY JobByOp DEF ClearCheck, ClearUnlink, TypeOK
<1>2. /\ [job[w] EXCEPT !.checked = {k}].op = "clear"
      /\ [job[w] EXCEPT !.left = @ \ {k}].op = "clear"
      /\ [job[w] EXCEPT !.left = @ \ {k}, !.checked = {}].op = "clear"
      /\ Spare([job[w] EXCEPT !.left = @ \ {k}], k).op = "clear"
      /\ Spare([job[w] EXCEPT !.left = @ \ {k}, !.checked = {}], k).op = "clear"
  BY <1>1 DEF ClearJob, Spare
<1>3. \E next : next.op = "clear" /\ Become(w, next)
  BY <1>2 DEF ClearCheck, ClearUnlink
<1> QED
  BY <1>1, <1>3 DEF ClearCheck, ClearUnlink, Become

(* The thread inside leaves. *)
LEMMA LockReturned ==
  ASSUME TypeOK, LocksOwned, NEW w \in Workers, job[w].op \in Locking,
         lock' = Unlocked(w), home' = home,
         job'[w].op \notin Locking, \A u \in Workers \ {w} : job'[u] = job[u]
  PROVE  LocksOwned'
<1>1. home \in [Workers -> Instances] /\ Free \notin Workers
  BY DiskAssumption DEF TypeOK
<1>2. lock[home[w]] = w /\ lock' = [lock EXCEPT ![home[w]] = Free]
  BY DEF Unlocked, LocksOwned, Locking
<1>3. lock'[home[w]] = Free
  BY <1>1, <1>2 DEF TypeOK
<1>4. ASSUME NEW u \in Workers, u # w, home[u] = home[w]
      PROVE  lock'[home'[u]] # u /\ job'[u].op \notin Locking
  BY <1>1, <1>2, <1>3, <1>4 DEF LocksOwned, Locking
<1>5. ASSUME NEW u \in Workers, home[u] # home[w]
      PROVE  lock'[home'[u]] = lock[home[u]] /\ job'[u] = job[u]
  BY <1>1, <1>2, <1>5 DEF TypeOK
<1> QED
  BY <1>1, <1>3, <1>4, <1>5 DEF LocksOwned, Locking

(* At first no lock is held.                                               *)
LEMMA InitLocks == Init => LocksOwned
<1> SUFFICES ASSUME Init PROVE LocksOwned
  OBVIOUS
<1>1. home \in [Workers -> Instances] /\ Free \notin Workers
  BY DiskAssumption DEF Init
<1> QED
  BY <1>1 DEF Init, LocksOwned, NoJob

(* Every step keeps the locks with those that are inside.                  *)
LEMMA NextLocks ==
  ASSUME TypeOK, LocksOwned, [Next]_vars PROVE LocksOwned'
<1>0. job \in [Workers -> Job] /\ home \in [Workers -> Instances]
  BY DiskAssumption DEF TypeOK
<1>1. ASSUME NEW w \in Workers, NEW k \in Keys, NEW counted \in BOOLEAN,
             GetRead(w, k, counted)
      PROVE  LocksOwned'
  <2>1. job'[w].op \in Locking /\ \A u \in Workers \ {w} : job'[u] = job[u]
    BY <1>0, <1>1 DEF GetRead, Become, Locking
  <2> QED
    BY <1>1, <2>1, LockTaken DEF GetRead
<1>2. ASSUME NEW w \in Workers, GetDecide(w) PROVE LocksOwned'
  <2>1. /\ job[w].op \in Locking /\ job'[w].op \in Locking
        /\ \A u \in Workers \ {w} : job'[u] = job[u]
    BY <1>0, <1>2 DEF GetDecide, Doing, Become, Locking
  <2> QED
    BY <1>2, <2>1, LockUntouched DEF GetDecide
<1>3. ASSUME NEW w \in Workers, GetReturn(w) \/ ExistsReturn(w) PROVE LocksOwned'
  <2>1. /\ job[w].op \in Locking /\ job'[w].op \notin Locking
        /\ \A u \in Workers \ {w} : job'[u] = job[u]
    BY <1>0, <1>3 DEF GetReturn, ExistsReturn, Doing, Become, Locking, NoJob
  <2> QED
    BY <1>3, <2>1, LockReturned DEF GetReturn, ExistsReturn
<1>4. ASSUME NEW w \in Workers, NEW k \in Keys, NEW v \in Values, NEW ttl \in Ttls,
             SetBegin(w, k, v, ttl)
      PROVE  LocksOwned'
  <2>1. job'[w].op \in Locking /\ \A u \in Workers \ {w} : job'[u] = job[u]
    BY <1>0, <1>4 DEF SetBegin, Become, Locking
  <2> QED
    BY <1>4, <2>1, LockTaken DEF SetBegin
<1>5. ASSUME NEW w \in Workers, SetReplace(w) PROVE LocksOwned'
  <2>1. [job EXCEPT ![w] = [op |-> "cleanup"]] \in [Workers -> Job]
    BY <1>0, JobKinds
  <2>2. job[w].key \in Keys
    BY <1>0, <1>5, JobByOp DEF SetReplace, Doing, WriteJob
  <2>3. /\ job[w].op \in Locking /\ job'[w].op \in Locking
        /\ \A u \in Workers \ {w} : job'[u].op = job[u].op
    BY <1>0, <1>5, <2>1, <2>2, SparingKeeps DEF SetReplace, Doing, Locking
  <2> QED
    BY <1>5, <2>3, LockUntouched DEF SetReplace
<1>6. ASSUME NEW w \in Workers, SetFail(w) PROVE LocksOwned'
  <2>1. /\ job[w].op \in Locking /\ job'[w].op \in Locking
        /\ \A u \in Workers \ {w} : job'[u] = job[u]
    BY <1>0, <1>6 DEF SetFail, Doing, Become, Locking
  <2> QED
    BY <1>6, <2>1, LockUntouched DEF SetFail
<1>7. ASSUME NEW w \in Workers, SetReturn(w) PROVE LocksOwned'
  <2>1. /\ job[w].op \in Locking /\ job'[w].op \notin Locking
        /\ \A u \in Workers \ {w} : job'[u] = job[u]
    BY <1>0, <1>7 DEF SetReturn, Doing, Become, Locking, NoJob
  <2> QED
    BY <1>7, <2>1, LockReturned DEF SetReturn
<1>8. ASSUME NEW w \in Workers, NEW k \in Keys, Delete(w, k) PROVE LocksOwned'
  BY <1>8, LockUntouched DEF Delete
<1>9. ASSUME NEW w \in Workers, NEW whole, NEW scope, ClearBegin(w, whole, scope)
      PROVE  LocksOwned'
  <2>1. /\ job[w].op \notin Locking /\ job'[w].op \notin Locking
        /\ \A u \in Workers \ {w} : job'[u] = job[u]
    BY <1>0, <1>9 DEF ClearBegin, Idle, NoJob, Become, Locking
  <2> QED
    BY <1>9, <2>1, LockUntouched DEF ClearBegin
<1>10. ASSUME NEW w \in Workers, NEW k \in Keys, ClearCheck(w, k) \/ ClearUnlink(w, k)
       PROVE  LocksOwned'
  BY <1>10, ClearSteps, LockUntouched DEF Locking
<1>11. ASSUME NEW w \in Workers, ClearReturn(w) PROVE LocksOwned'
  <2>1. /\ job[w].op \notin Locking /\ job'[w].op \notin Locking
        /\ \A u \in Workers \ {w} : job'[u] = job[u]
    BY <1>0, <1>11 DEF ClearReturn, NoJob, Become, Locking
  <2> QED
    BY <1>11, <2>1, LockUntouched DEF ClearReturn
<1>12. ASSUME NEW i \in Instances, Crash(i) PROVE LocksOwned'
  <2>1. \A u \in Workers : home[u] = i => job'[u] = NoJob /\ lock'[i] = Free
    BY <1>12 DEF Crash, TypeOK
  <2>2. \A u \in Workers : home[u] # i => job'[u] = job[u] /\ lock'[home[u]] = lock[home[u]]
    BY <1>0, <1>12 DEF Crash, TypeOK
  <2> QED
    BY <1>12, <2>1, <2>2, DiskAssumption DEF Crash, LocksOwned, NoJob
<1>13. ASSUME NEW k \in Keys, Corrupt(k) PROVE LocksOwned'
  BY <1>13, LockUntouched DEF Corrupt
<1>14. CASE Tick \/ UNCHANGED vars
  BY <1>14, LockUntouched DEF Tick, vars
<1>15. ASSUME NEW w \in Workers, Start(w) PROVE LocksOwned'
  BY <1>1, <1>4, <1>8, <1>9, <1>15 DEF Start
<1>16. ASSUME NEW w \in Workers, Continue(w) PROVE LocksOwned'
  BY <1>2, <1>3, <1>5, <1>6, <1>7, <1>10, <1>11, <1>16 DEF Continue
<1> QED
  BY <1>12, <1>13, <1>14, <1>15, <1>16 DEF Next

(***************************************************************************)
(* The lock of an instance is held by the one thread that is inside get,   *)
(* exists or set, for any number of threads and processes, whatever fails  *)
(* and whenever a process is killed (with self._lock).                     *)
(***************************************************************************)
THEOREM LocksAreOwned == Spec => []LocksOwned
<1> QED
  BY InitTypes, NextTypes, InitLocks, NextLocks, PTL DEF Spec

-------------------------------------------------------------------------------
(* The counters                                                            *)

(* A thread about to store the counters holds sums that are one ahead.  It *)
(* is the only one of its process: the others are kept out by the lock.    *)
SumsAhead ==
  \A w \in Workers :
    job[w].op = "count" =>
      job[w].hits + job[w].misses = hits[home[w]] + misses[home[w]] + 1

CountInv == CountsExact /\ SumsAhead

(* A step that keeps the counters, and every sum that is held.              *)
LEMMA CountsUntouched ==
  ASSUME CountInv, UNCHANGED counters, home' = home,
         \A u \in Workers : job'[u].op = "count" => job'[u] = job[u]
  PROVE  CountInv'
BY DEF CountInv, CountsExact, SumsAhead, counters

(* Every step keeps the counters exact, and the sums ahead of them.        *)
LEMMA NextCounts ==
  ASSUME TypeOK, LocksOwned, CountInv, [Next]_vars PROVE CountInv'
<1>0. /\ job \in [Workers -> Job] /\ home \in [Workers -> Instances]
      /\ hits \in [Instances -> Nat] /\ misses \in [Instances -> Nat]
      /\ answered \in [Instances -> Nat]
  BY DiskAssumption DEF TypeOK
<1>1. ASSUME NEW w \in Workers, GetDecide(w) PROVE CountInv'
  <2> DEFINE i == home[w]
             hit == IF Response(job[w].found) # NoEntry THEN 1 ELSE 0
             miss == IF Response(job[w].found) # NoEntry THEN 0 ELSE 1
  <2>1. /\ job'[w].hits = hits[i] + hit /\ job'[w].misses = misses[i] + miss
        /\ \A u \in Workers \ {w} : job'[u] = job[u]
    BY <1>0, <1>1 DEF GetDecide, Become
  <2>2. hits[i] \in Nat /\ misses[i] \in Nat /\ hit + miss = 1
        /\ hit \in Nat /\ miss \in Nat
    BY <1>0
  <2>3. job'[w].hits + job'[w].misses = hits[i] + misses[i] + 1
    BY <2>1, <2>2
  <2> QED
    BY <1>1, <2>1, <2>3 DEF GetDecide, CountInv, CountsExact, SumsAhead, counters
<1>2. ASSUME NEW w \in Workers, GetReturn(w) PROVE CountInv'
  <2>1. /\ job'[w].op = "none" /\ job[w].op = "count" /\ home' = home
        /\ \A u \in Workers \ {w} : job'[u] = job[u]
    BY <1>0, <1>2, JobKinds DEF GetReturn, Doing, Become
  <2>2. \A u \in Workers \ {w} : job[u].op = "count" => home[u] # home[w]
    BY <2>1 DEF LocksOwned
  <2>3. job[w] \in CountJob
    BY <1>0, <2>1, JobByOp
  <2>4. /\ hits' = [hits EXCEPT ![home[w]] = job[w].hits]
        /\ misses' = [misses EXCEPT ![home[w]] = job[w].misses]
        /\ answered' = [answered EXCEPT ![home[w]] = @ + 1]
    BY <1>2 DEF GetReturn
  <2>5. CountsExact'
    BY <1>0, <2>1, <2>3, <2>4 DEF CountInv, CountsExact, SumsAhead, CountJob
  <2>6. SumsAhead'
    BY <1>0, <2>1, <2>2, <2>4 DEF CountInv, SumsAhead
  <2> QED
    BY <2>5, <2>6 DEF CountInv
<1>3. ASSUME NEW w \in Workers, SetReplace(w) PROVE CountInv'
  <2>1. job[w].key \in Keys
    BY <1>0, <1>3, JobByOp DEF SetReplace, Doing, WriteJob
  <2>2. [job EXCEPT ![w] = [op |-> "cleanup"]] \in [Workers -> Job]
    BY <1>0, JobKinds
  <2>3. \A u \in Workers : job'[u].op = "count" => job'[u] = job[u]
    BY <1>0, <1>3, <2>1, <2>2, SparingKeeps DEF SetReplace
  <2> QED
    BY <1>3, <2>3, CountsUntouched DEF SetReplace
<1>4. ASSUME NEW w \in Workers, NEW next, Become(w, next), next.op # "count",
             UNCHANGED counters, home' = home
      PROVE  CountInv'
  <2>1. \A u \in Workers : job'[u].op = "count" => job'[u] = job[u]
    BY <1>0, <1>4 DEF Become
  <2> QED
    BY <1>4, <2>1, CountsUntouched
<1>5. ASSUME NEW w \in Workers, Start(w) PROVE CountInv'
  <2>1. ASSUME NEW k \in Keys, NEW counted \in BOOLEAN, GetRead(w, k, counted)
        PROVE  CountInv'
    BY <1>4, <2>1 DEF GetRead
  <2>2. ASSUME NEW k \in Keys, NEW v \in Values, NEW ttl \in Ttls, SetBegin(w, k, v, ttl)
        PROVE  CountInv'
    BY <1>4, <2>2 DEF SetBegin
  <2>3. ASSUME NEW k \in Keys, Delete(w, k) PROVE CountInv'
    BY <2>3, CountsUntouched DEF Delete
  <2>4. ASSUME NEW whole, NEW scope, ClearBegin(w, whole, scope) PROVE CountInv'
    BY <1>4, <2>4 DEF ClearBegin
  <2> QED
    BY <1>5, <2>1, <2>2, <2>3, <2>4 DEF Start
<1>6. ASSUME NEW w \in Workers, Continue(w) PROVE CountInv'
  <2>1. ASSUME ExistsReturn(w) \/ SetFail(w) \/ SetReturn(w) \/ ClearReturn(w)
        PROVE  CountInv'
    BY <1>4, <2>1, JobKinds DEF ExistsReturn, SetFail, SetReturn, ClearReturn
  <2>2. ASSUME NEW k \in Keys, ClearCheck(w, k) \/ ClearUnlink(w, k) PROVE CountInv'
    BY <2>2, ClearSteps, CountsUntouched
  <2> QED
    BY <1>1, <1>2, <1>3, <1>6, <2>1, <2>2 DEF Continue
<1>7. ASSUME NEW i \in Instances, Crash(i) PROVE CountInv'
  <2>1. CountsExact'
    BY <1>0, <1>7 DEF Crash, CountInv, CountsExact
  <2>2. SumsAhead'
    BY <1>0, <1>7, JobKinds DEF Crash, CountInv, SumsAhead
  <2> QED
    BY <2>1, <2>2 DEF CountInv
<1>8. ASSUME NEW k \in Keys, Corrupt(k) PROVE CountInv'
  BY <1>8, CountsUntouched DEF Corrupt
<1>9. CASE Tick \/ UNCHANGED vars
  BY <1>9, CountsUntouched DEF Tick, vars
<1> QED
  BY <1>5, <1>6, <1>7, <1>8, <1>9 DEF Next

(***************************************************************************)
(* No counted get is lost from the counters of its process, although they  *)
(* are read in one step and stored in a later one (_get inside the lock).  *)
(***************************************************************************)
THEOREM CountersAreExact == Spec => []CountsExact
<1>1. Init => CountInv
  <2> SUFFICES ASSUME Init PROVE CountInv
    OBVIOUS
  <2> QED
    BY JobKinds DEF Init, CountInv, CountsExact, SumsAhead
<1>2. CountInv => CountsExact
  BY DEF CountInv
<1> QED
  BY <1>1, <1>2, InitTypes, NextTypes, InitLocks, NextLocks, NextCounts, PTL DEF Spec

-------------------------------------------------------------------------------
(* Clears                                                                  *)

(* Everything a clear is past is gone, or its file could not be attributed *)
(* to the namespace; a clear of everything attributes nothing.  What it    *)
(* found attributed is in its scope, under whatever entry is there now.    *)
Past(j) == j.scope \ (j.spared \cup j.left)

Gone(j, k) == files[k] = NoFile \/ (~j.whole /\ files[k] = Damaged)

Progress(j) ==
  /\ j.whole => j.scope = Keys
  /\ j.checked \subseteq j.scope
  /\ \A k \in Past(j) : Gone(j, k)

ClearInv == \A w \in Workers : job[w].op = "clear" => Progress(job[w])

(* No file comes into being, and no clear advances. *)
LEMMA ClearsUntouched ==
  ASSUME TypeOK, ClearInv,
         \A k \in Keys : files'[k] = files[k] \/ files'[k] = NoFile
                         \/ files[k] \in Entry,
         \A u \in Workers : job'[u].op = "clear" => job'[u] = job[u]
  PROVE  ClearInv'
<1> SUFFICES ASSUME NEW w \in Workers, job'[w].op = "clear" PROVE Progress(job[w])'
  BY DEF ClearInv
<1>1. /\ job'[w] = job[w] /\ Progress(job[w]) /\ job[w] \in ClearJob
  BY JobByOp DEF ClearInv, TypeOK
<1>2. \A k \in Past(job[w]) : Gone(job[w], k)'
  BY <1>1, ContentAssumption DEF Progress, Past, Gone, ClearJob
<1> QED
  BY <1>1, <1>2 DEF Progress, Past

(* Every step keeps the progress of every clear.                           *)
LEMMA NextClears ==
  ASSUME TypeOK, ClearInv, [Next]_vars PROVE ClearInv'
<1>0. job \in [Workers -> Job] /\ files \in [Keys -> Content]
  BY DEF TypeOK
<1>1. ASSUME NEW w \in Workers, NEW next, Become(w, next), next.op # "clear",
             files' = files
      PROVE  ClearInv'
  <2>1. \A u \in Workers : job'[u].op = "clear" => job'[u] = job[u]
    BY <1>0, <1>1 DEF Become
  <2> QED
    BY <1>1, <2>1, ClearsUntouched
<1>2. ASSUME NEW w \in Workers, NEW whole \in BOOLEAN, NEW scope \in SUBSET Keys,
             whole => scope = Keys, ClearBegin(w, whole, scope)
      PROVE  ClearInv'
  <2> DEFINE next == [op |-> "clear", whole |-> whole, scope |-> scope, left |-> Listing,
                      checked |-> {}, spared |-> {}]
  <2>1. job'[w] = next /\ \A u \in Workers \ {w} : job'[u] = job[u]
    BY <1>0, <1>2 DEF ClearBegin, Become
  <2>2. Progress(next)
    BY <1>2 DEF Progress, Past, Gone, Listing
  <2>3. files' = files
    BY <1>2 DEF ClearBegin
  <2> QED
    BY <2>1, <2>2, <2>3 DEF ClearInv, Progress, Past, Gone
<1>3. ASSUME NEW w \in Workers, SetReplace(w) PROVE ClearInv'
  <2> DEFINE k == job[w].key
  <2>1. k \in Keys /\ job[w].op = "write"
    BY <1>0, <1>3, JobByOp DEF SetReplace, Doing, WriteJob
  <2>2. \A j \in Keys \ {k} : files'[j] = files[j]
    BY <1>0, <1>3, <2>1 DEF SetReplace, Replaced
  <2>3. ASSUME NEW u \in Workers, job'[u].op = "clear" PROVE Progress(job[u])'
    <3>0. [job EXCEPT ![w] = [op |-> "cleanup"]] \in [Workers -> Job]
      BY <1>0, JobKinds
    <3>1. u # w /\ job[u].op = "clear" /\ job'[u] = Spare(job[u], k)
      <4> DEFINE jobs == [job EXCEPT ![w] = [op |-> "cleanup"]]
      <4>1. job' = Sparing(jobs, k) /\ jobs \in [Workers -> Job]
        BY <1>3, <3>0 DEF SetReplace
      <4>2. /\ jobs[w].op = "cleanup"
            /\ \A v \in Workers \ {w} : jobs[v] = job[v]
        BY <1>0
      <4> HIDE DEF jobs
      <4>3. job'[u].op = jobs[u].op /\ job'[u] = Spare(jobs[u], k)
        BY <2>1, <2>3, <4>1, SparingKeeps
      <4> QED
        BY <2>3, <4>2, <4>3
    <3>2. job[u] \in ClearJob /\ Progress(job[u])
      BY <1>0, <3>1, JobByOp DEF ClearInv
    <3>3. /\ job'[u].whole = job[u].whole /\ job'[u].left = job[u].left
          /\ job'[u].checked = job[u].checked /\ job'[u].scope = job[u].scope
          /\ job'[u].spared = job[u].spared \cup ({k} \cap job[u].scope)
      BY <1>0, <2>1, <3>1, SpareKeeps
    <3>4. \A j \in Past(job[u])' : Gone(job[u], j)'
      BY <2>2, <3>2, <3>3 DEF Progress, Past, Gone, ClearJob
    <3> QED
      BY <3>2, <3>3, <3>4 DEF Progress
  <2> QED
    BY <2>3 DEF ClearInv
<1>4. ASSUME NEW w \in Workers, NEW k \in Keys, ClearCheck(w, k) PROVE ClearInv'
  <2>1. /\ job[w].op = "clear" /\ job[w] \in ClearJob /\ Progress(job[w])
        /\ files' = files /\ k \in job[w].left /\ ~job[w].whole
    BY <1>0, <1>4, JobByOp DEF ClearCheck, ClearInv
  <2>3. ASSUME Attributed(k, job[w].scope), job'[w] = [job[w] EXCEPT !.checked = {k}]
        PROVE  Progress(job[w])'
    BY <2>1, <2>3 DEF Progress, Past, Gone, ClearJob, Attributed
  <2>4. ASSUME ~Attributed(k, job[w].scope), job'[w] = [job[w] EXCEPT !.left = @ \ {k}]
        PROVE  Progress(job[w])'
    <3>1. k \in job[w].scope => Gone(job[w], k)
      BY <1>0, <2>1, <2>4 DEF Attributed, Gone, Content
    <3> QED
      BY <2>1, <2>4, <3>1 DEF Progress, Past, Gone, ClearJob
  <2>5. ASSUME job'[w] = Spare([job[w] EXCEPT !.left = @ \ {k}], k)
        PROVE  Progress(job[w])'
    BY <2>1, <2>5 DEF Progress, Past, Gone, ClearJob, Spare
  <2>6. Progress(job[w])'
    BY <1>0, <1>4, <2>3, <2>4, <2>5 DEF ClearCheck, Become
  <2> QED
    BY <1>4, <2>1, <2>6, ClearSteps DEF ClearInv, Progress, Past, Gone
<1>5. ASSUME NEW w \in Workers, NEW k \in Keys, ClearUnlink(w, k) PROVE ClearInv'
  <2>1. /\ job[w].op = "clear" /\ job[w] \in ClearJob /\ Progress(job[w])
        /\ k \in job[w].left
    BY <1>0, <1>5, JobByOp DEF ClearUnlink, ClearInv
  <2>2. \A j \in Keys : files'[j] = files[j] \/ files'[j] = NoFile
    BY <1>0, <1>5 DEF ClearUnlink, Unlink
  <2>3. ASSUME files'[k] = NoFile, job'[w] = [job[w] EXCEPT !.left = @ \ {k}, !.checked = {}]
        PROVE  Progress(job[w])'
    <3>1. files'[k] = NoFile
      BY <2>3
    <3> QED
      BY <2>1, <2>2, <2>3, <3>1 DEF Progress, Past, Gone, ClearJob
  <2>4. ASSUME job'[w] = Spare([job[w] EXCEPT !.left = @ \ {k}, !.checked = {}], k)
        PROVE  Progress(job[w])'
    BY <2>1, <2>2, <2>4 DEF Progress, Past, Gone, ClearJob, Spare
  <2>5. Progress(job[w])'
    BY <1>0, <1>5, <2>3, <2>4 DEF ClearUnlink, Unlink, Become
  <2>6. ASSUME NEW u \in Workers, u # w, job[u].op = "clear", job'[u] = job[u]
        PROVE  Progress(job[u])'
    <3>1. job[u] \in ClearJob /\ Progress(job[u])
      BY <1>0, <2>6, JobByOp DEF ClearInv
    <3> QED
      BY <2>2, <2>6, <3>1 DEF Progress, Past, Gone, ClearJob
  <2> QED
    BY <1>5, <2>5, <2>6, ClearSteps DEF ClearInv
<1>6. ASSUME NEW w \in Workers, Start(w) PROVE ClearInv'
  <2>1. ASSUME NEW k \in Keys, NEW counted \in BOOLEAN, GetRead(w, k, counted)
        PROVE  ClearInv'
    BY <1>1, <2>1 DEF GetRead
  <2>2. ASSUME NEW k \in Keys, NEW v \in Values, NEW ttl \in Ttls, SetBegin(w, k, v, ttl)
        PROVE  ClearInv'
    BY <1>1, <2>2 DEF SetBegin, OpenedBeside
  <2>3. ASSUME NEW k \in Keys, Delete(w, k) PROVE ClearInv'
    <3>1. \A j \in Keys : files'[j] = files[j] \/ files'[j] = NoFile
      BY <1>0, <2>3 DEF Delete, Unlink
    <3> QED
      BY <2>3, <3>1, ClearsUntouched DEF Delete
  <2>4. \A n \in Namespaces : Prefixed[n] \in SUBSET Keys
    BY DiskAssumption
  <2> QED
    BY <1>2, <1>6, <2>1, <2>2, <2>3, <2>4 DEF Start
<1>7. ASSUME NEW w \in Workers, Continue(w) PROVE ClearInv'
  <2>1. ASSUME GetDecide(w) PROVE ClearInv'
    BY <1>1, <2>1 DEF GetDecide, LeftAlone
  <2>2. ASSUME \/ GetReturn(w) \/ ExistsReturn(w)
               \/ SetFail(w) \/ SetReturn(w) \/ ClearReturn(w)
        PROVE  ClearInv'
    BY <1>1, <2>2, JobKinds
    DEF GetReturn, ExistsReturn, LeftAlone, SetFail, SetReturn, ClearReturn
  <2> QED
    BY <1>3, <1>4, <1>5, <1>7, <2>1, <2>2 DEF Continue
<1>8. ASSUME NEW i \in Instances, Crash(i) PROVE ClearInv'
  <2>1. \A u \in Workers : job'[u].op = "clear" => job'[u] = job[u]
    BY <1>0, <1>8, JobKinds DEF Crash
  <2> QED
    BY <1>8, <2>1, ClearsUntouched DEF Crash
<1>9. ASSUME NEW k \in Keys, Corrupt(k) PROVE ClearInv'
  <2>1. \A j \in Keys : files'[j] = files[j] \/ files[j] \in Entry
    BY <1>0, <1>9 DEF Corrupt
  <2> QED
    BY <1>9, <2>1, ClearsUntouched DEF Corrupt
<1>10. CASE Tick \/ UNCHANGED vars
  BY <1>10, ClearsUntouched DEF Tick, vars
<1> QED
  BY <1>6, <1>7, <1>8, <1>9, <1>10 DEF Next

(* At first there is no clear.                                             *)
LEMMA InitClears == Init => ClearInv
<1> SUFFICES ASSUME Init PROVE ClearInv
  OBVIOUS
<1> QED
  BY JobKinds DEF Init, ClearInv

(***************************************************************************)
(* A clear that runs to its end leaves no entry of its scope that was      *)
(* there before it and could be accessed, with writers, other clears and   *)
(* crashes of other processes in between (_clear).                         *)
(***************************************************************************)
THEOREM ClearsLeaveNothingOld == Spec => ClearLeavesNothingOld
<1> DEFINE Empty(w) ==
      ClearReturn(w) =>
        \A k \in job[w].scope \ job[w].spared :
          files[k] = NoFile \/ (~job[w].whole /\ files[k] = Damaged)
<1>1. ClearInv /\ [Next]_vars => [\A w \in Workers : Empty(w)]_vars
  BY DEF ClearInv, Progress, Past, Gone, ClearReturn
<1> QED
  BY <1>1, InitTypes, NextTypes, InitClears, NextClears, PTL
  DEF Spec, ClearLeavesNothingOld

-------------------------------------------------------------------------------
(* Entries and their readers                                               *)

(* The entry kept under a key is what its path holds, unless that is       *)
(* damaged or gone; a reader took the two together.  What a clear unlinks  *)
(* is in its scope (Progress above), so it is not kept either.             *)
EntryOf(content) == IF content \in Entry THEN content ELSE NoEntry

Mirrored == \A k \in Keys : kept[k] = EntryOf(files[k])

ReadsAgree ==
  \A w \in Workers : job[w].op = "read" => job[w].kept = EntryOf(job[w].found)

EntriesInv == Mirrored /\ ReadsAgree

(* A step that changes neither the files nor what a reader found.           *)
LEMMA FilesUntouched ==
  ASSUME EntriesInv, files' = files, kept' = kept,
         \A u \in Workers : job'[u].op = "read" => job'[u] = job[u]
  PROVE  EntriesInv'
BY DEF EntriesInv, Mirrored, ReadsAgree

(* Every step keeps what is kept in its file, and what readers found.      *)
LEMMA NextEntries ==
  ASSUME TypeOK, ClearInv, EntriesInv, [Next]_vars PROVE EntriesInv'
<1>0. /\ job \in [Workers -> Job] /\ files \in [Keys -> Content]
      /\ kept \in [Keys -> Entry \cup {NoEntry}]
  BY DEF TypeOK
<1>1. EntryOf(NoFile) = NoEntry /\ EntryOf(Damaged) = NoEntry /\ EntryOf(Undecodable) = NoEntry
  BY ContentAssumption DEF EntryOf
<1>2. ASSUME NEW w \in Workers, NEW k \in Keys, NEW counted \in BOOLEAN,
             GetRead(w, k, counted)
      PROVE  EntriesInv'
  <2>1. PICK fails \in BOOLEAN :
          Become(w, [op |-> "read", key |-> k, counted |-> counted,
                     found |-> IF fails THEN Damaged ELSE files[k],
                     kept |-> IF fails THEN NoEntry ELSE kept[k]])
    BY <1>2 DEF GetRead
  <2>2. job'[w].kept = EntryOf(job'[w].found)
    BY <1>0, <1>1, <2>1 DEF Become, EntriesInv, Mirrored
  <2>3. \A u \in Workers \ {w} : job'[u] = job[u]
    BY <1>0, <2>1 DEF Become
  <2> QED
    BY <1>2, <2>2, <2>3 DEF GetRead, EntriesInv, Mirrored, ReadsAgree
<1>3. ASSUME NEW w \in Workers, NEW next, Become(w, next), next.op # "read",
             files' = files, kept' = kept
      PROVE  EntriesInv'
  <2>1. \A u \in Workers : job'[u].op = "read" => job'[u] = job[u]
    BY <1>0, <1>3 DEF Become
  <2> QED
    BY <1>3, <2>1, FilesUntouched
<1>4. ASSUME NEW w \in Workers, SetReplace(w) PROVE EntriesInv'
  <2>1. job[w].key \in Keys /\ job[w].entry \in Entry
    BY <1>0, <1>4, JobByOp DEF SetReplace, Doing, WriteJob
  <2>2. Mirrored'
    BY <1>0, <1>4, <2>1 DEF SetReplace, Replaced, EntriesInv, Mirrored, EntryOf
  <2>3. [job EXCEPT ![w] = [op |-> "cleanup"]] \in [Workers -> Job]
    BY <1>0, JobKinds
  <2>4. \A u \in Workers : job'[u].op = "read" => job'[u] = job[u]
    BY <1>0, <1>4, <2>1, <2>3, SparingKeeps DEF SetReplace
  <2> QED
    BY <2>2, <2>4 DEF EntriesInv, ReadsAgree
<1>5. ASSUME NEW k \in Keys, Unlink(k, TRUE) PROVE Mirrored'
  BY <1>0, <1>1, <1>5 DEF Unlink, EntriesInv, Mirrored
<1>6. ASSUME NEW w \in Workers, Start(w) PROVE EntriesInv'
  <2>1. ASSUME NEW k \in Keys, NEW v \in Values, NEW ttl \in Ttls, SetBegin(w, k, v, ttl)
        PROVE  EntriesInv'
    BY <1>3, <2>1 DEF SetBegin, OpenedBeside
  <2>2. ASSUME NEW k \in Keys, Delete(w, k) PROVE EntriesInv'
    BY <1>5, <2>2 DEF Delete, EntriesInv, ReadsAgree
  <2>3. ASSUME NEW whole, NEW scope, ClearBegin(w, whole, scope) PROVE EntriesInv'
    BY <1>3, <2>3 DEF ClearBegin
  <2> QED
    BY <1>2, <1>6, <2>1, <2>2, <2>3 DEF Start
<1>7. ASSUME NEW w \in Workers, Continue(w) PROVE EntriesInv'
  <2>1. ASSUME GetDecide(w) PROVE EntriesInv'
    BY <1>3, <2>1 DEF GetDecide, LeftAlone
  <2>2. ASSUME \/ GetReturn(w) \/ ExistsReturn(w)
               \/ SetFail(w) \/ SetReturn(w) \/ ClearReturn(w)
        PROVE  EntriesInv'
    BY <1>3, <2>2, JobKinds
    DEF GetReturn, ExistsReturn, LeftAlone, SetFail, SetReturn, ClearReturn
  <2>3. ASSUME NEW k \in Keys, ClearCheck(w, k) \/ ClearUnlink(w, k) PROVE EntriesInv'
    <3>0. ClearUnlink(w, k) => k \in job[w].scope
      BY DEF ClearUnlink, ClearInv, Progress
    <3>1. Mirrored'
      BY <1>5, <2>3, <3>0 DEF ClearCheck, ClearUnlink, EntriesInv, Mirrored
    <3> QED
      BY <2>3, <3>1, ClearSteps DEF EntriesInv, ReadsAgree
  <2> QED
    BY <1>4, <1>7, <2>1, <2>2, <2>3 DEF Continue
<1>8. ASSUME NEW i \in Instances, Crash(i) PROVE EntriesInv'
  <2>1. \A u \in Workers : job'[u].op = "read" => job'[u] = job[u]
    BY <1>0, <1>8, JobKinds DEF Crash
  <2> QED
    BY <1>8, <2>1, FilesUntouched DEF Crash
<1>9. ASSUME NEW k \in Keys, Corrupt(k) PROVE EntriesInv'
  BY <1>0, <1>1, <1>9 DEF Corrupt, EntriesInv, Mirrored, ReadsAgree
<1>10. CASE Tick \/ UNCHANGED vars
  BY <1>10, FilesUntouched DEF Tick, vars
<1> QED
  BY <1>6, <1>7, <1>8, <1>9, <1>10 DEF Next

(* At first there is neither.                                              *)
LEMMA InitEntries == Init => EntriesInv
<1> SUFFICES ASSUME Init PROVE EntriesInv
  OBVIOUS
<1> QED
  BY ContentAssumption, JobKinds DEF Init, EntriesInv, Mirrored, ReadsAgree, EntryOf

(***************************************************************************)
(* What set moved into place stays there, complete, until it is replaced,  *)
(* damaged from outside, deleted, or unlinked by a clear whose namespace   *)
(* it is in, for any number of processes and at any crash (_set; "a failed *)
(* write preserves the old entry").                                        *)
(***************************************************************************)
THEOREM EntriesAreDurable == Spec => []DurableEntries
<1>1. EntriesInv => DurableEntries
  BY DEF EntriesInv, Mirrored, DurableEntries, EntryOf
<1> QED
  BY <1>1, InitTypes, NextTypes, InitClears, NextClears, InitEntries, NextEntries, PTL DEF Spec

(***************************************************************************)
(* A get that could read answers with exactly the entry that was in place, *)
(* unless it is past its time: it sees no gap and no half of a write in    *)
(* progress (_get against _set of another process).                        *)
(***************************************************************************)
THEOREM GetsAreWhole == Spec => GetsSeeWholeEntries
<1> DEFINE Right(w) ==
      GetDecide(w) =>
        LET entry == job[w].kept
            good  == entry # NoEntry /\ (entry.expiry = 0 \/ now <= entry.expiry)
        IN  job'[w].answer = IF good THEN entry.value ELSE NoEntry
<1>1. TypeOK /\ EntriesInv /\ [Next]_vars => [\A w \in Workers : Right(w)]_vars
  <2> SUFFICES ASSUME TypeOK, EntriesInv, NEW w \in Workers, GetDecide(w) PROVE Right(w)
    OBVIOUS
  <2>1. job'[w].answer = Response(job[w].found)
    BY DEF GetDecide, Become, TypeOK
  <2>2. job[w].kept = EntryOf(job[w].found)
    BY DEF GetDecide, Doing, EntriesInv, ReadsAgree
  <2> QED
    BY <2>1, <2>2, ContentAssumption DEF Response, Unexpired, EntryOf
<1> QED
  BY <1>1, InitTypes, NextTypes, InitClears, NextClears, InitEntries, NextEntries, PTL
  DEF Spec, GetsSeeWholeEntries

-------------------------------------------------------------------------------
(* The contract                                                            *)

Shown == [k \in Keys |-> InTime(files[k])]
Called == [w \in Workers |-> CallOf(w)]

(* What a thread is inside of tells what it has called.                     *)
LEMMA Calls ==
  ASSUME NEW w \in Workers
  PROVE  /\ job[w].op = "read" =>
              CallOf(w) = Contract!Getting(job[w].key, InTime(job[w].found))
         /\ job[w].op = "count" => CallOf(w) = Contract!Getting(job[w].key, job[w].answer)
         /\ job[w].op = "write" =>
              CallOf(w) = Contract!Setting(job[w].key, job[w].entry.value)
         /\ job[w].op \notin {"read", "count", "write"} => CallOf(w) = Contract!NoCall
BY DEF CallOf, Doing, Contract!Getting, Contract!Setting, Contract!NoCall

(* The same of the calls after a step.                                     *)
LEMMA CallsNext ==
  ASSUME NEW w \in Workers
  PROVE  /\ job'[w].op = "read" =>
              CallOf(w)' = Contract!Getting(job'[w].key, InTime(job[w].found)')
         /\ job'[w].op = "count" => CallOf(w)' = Contract!Getting(job'[w].key, job'[w].answer)
         /\ job'[w].op = "write" =>
              CallOf(w)' = Contract!Setting(job'[w].key, job'[w].entry.value)
         /\ job'[w].op \notin {"read", "count", "write"} => CallOf(w)' = Contract!NoCall
BY DEF CallOf, Doing, Contract!Getting, Contract!Setting, Contract!NoCall

(* Calls that go on, that end, and gets whose answer is stored now or is    *)
(* found to be none.                                                        *)
LEMMA Staying ==
  ASSUME NEW w \in Workers, now' = now, job'[w] = job[w] PROVE Contract!Moves(w)
<1>1. CallOf(w)' = CallOf(w)
  BY DEF CallOf, Doing, InTime
<1> QED
  BY <1>1 DEF Contract!Moves, Called

(* A call that ends moves.                                                 *)
LEMMA Ending ==
  ASSUME NEW w \in Workers, job'[w].op \notin {"read", "count", "write"}
  PROVE  Contract!Moves(w)
BY CallsNext DEF Contract!Moves

(* A call that answers with what is shown, or a miss, moves.               *)
LEMMA Answering ==
  ASSUME NEW w \in Workers, NEW k \in Keys, NEW answer \in {Shown[k], NoEntry},
         CallOf(w)' = Contract!Getting(k, answer)
  PROVE  Contract!Moves(w)
BY DEF Contract!Moves, Shown

(* Answers that stay or turn into misses are entries being lost.            *)
LEMMA Losing ==
  ASSUME \A k \in Keys : Shown'[k] \in {Shown[k], NoEntry},
         \A w \in Workers : Contract!Moves(w)
  PROVE  Contract!Next
<1> DEFINE gone == { k \in Keys : Shown'[k] = NoEntry }
<1>1. Shown' = [k \in Keys |-> IF k \in gone THEN NoEntry ELSE Shown[k]]
  BY DEF Shown
<1>2. Contract!Lose(gone)
  BY <1>1 DEF Contract!Lose, Shown
<1> QED
  BY <1>2 DEF Contract!Next

(* Files that stay, go or are damaged.                                      *)
LEMMA LosingFiles ==
  ASSUME now' = now,
         \A k \in Keys : files'[k] \in {files[k], NoFile, Damaged, Undecodable},
         \A w \in Workers : Contract!Moves(w)
  PROVE  Contract!Next
<1>1. \A k \in Keys : Shown'[k] \in {Shown[k], NoEntry}
  BY ContentAssumption DEF Shown, InTime
<1> QED
  BY <1>1, Losing

(* The job of one thread moves on, and no file with it.                     *)
LEMMA OneMoves ==
  ASSUME TypeOK, NEW w \in Workers, NEW next, Become(w, next), Contract!Moves(w),
         files' = files, now' = now
  PROVE  Contract!Next
<1>1. \A u \in Workers \ {w} : job'[u] = job[u]
  BY DEF Become, TypeOK
<1>2. \A u \in Workers : Contract!Moves(u)
  BY <1>1, Staying
<1> QED
  BY <1>2, LosingFiles

(* Every step is one of the contract, or leaves it unchanged.              *)
LEMMA StepImplements ==
  ASSUME TypeOK, [Next]_vars PROVE [Contract!Next]_<< Shown, Called >>
<1>0. files \in [Keys -> Content] /\ job \in [Workers -> Job] /\ now \in Nat
  BY DEF TypeOK
<1>1. ASSUME NEW w \in Workers, NEW k \in Keys, NEW counted \in BOOLEAN,
             GetRead(w, k, counted)
      PROVE  Contract!Next
  <2>1. PICK fails \in BOOLEAN :
          Become(w, [op |-> "read", key |-> k, counted |-> counted,
                     found |-> IF fails THEN Damaged ELSE files[k],
                     kept |-> IF fails THEN NoEntry ELSE kept[k]])
    BY <1>1 DEF GetRead
  <2>2. /\ job'[w].op = "read" /\ job'[w].key = k
        /\ job'[w].found = IF fails THEN Damaged ELSE files[k]
        /\ files' = files /\ now' = now
    BY <1>0, <1>1, <2>1 DEF Become, GetRead
  <2>3. InTime(job[w].found)' \in {Shown[k], NoEntry}
    BY <2>2, ContentAssumption DEF InTime, Shown
  <2>4. CallOf(w)' = Contract!Getting(k, InTime(job[w].found)')
    BY <2>2, CallsNext
  <2>5. Contract!Moves(w)
    BY <2>3, <2>4, Answering
  <2> QED
    BY <2>1, <2>2, <2>5, OneMoves
<1>2. ASSUME NEW w \in Workers, GetDecide(w) PROVE Contract!Next
  <2>1. /\ job[w].op = "read" /\ job'[w].op = "count" /\ job'[w].key = job[w].key
        /\ job'[w].answer = Response(job[w].found)
        /\ files' = files /\ now' = now
    BY <1>0, <1>2 DEF GetDecide, Doing, Become, LeftAlone
  <2>2. Response(job[w].found) = InTime(job[w].found)
    BY DEF Response, InTime, Unexpired
  <2>3. CallOf(w)' = CallOf(w)
    BY <2>1, <2>2, Calls, CallsNext
  <2>4. Contract!Moves(w)
    BY <2>3 DEF Contract!Moves
  <2> QED
    BY <1>2, <2>1, <2>4, OneMoves DEF GetDecide
<1>3. ASSUME NEW w \in Workers, NEW next, Become(w, next),
             next.op \notin {"read", "count", "write"}, files' = files, now' = now
      PROVE  Contract!Next
  <2>1. job'[w] = next
    BY <1>0, <1>3 DEF Become
  <2> QED
    BY <1>3, <2>1, Ending, OneMoves
<1>4. ASSUME NEW w \in Workers, NEW k \in Keys, NEW v \in Values, NEW ttl \in Ttls,
             SetBegin(w, k, v, ttl)
      PROVE  Contract!Next
  <2>1. /\ job'[w].op = "write" /\ job'[w].key = k /\ job'[w].entry.value = v
        /\ job[w] = NoJob /\ files' = files /\ now' = now
    BY <1>0, <1>4 DEF SetBegin, Idle, Become, OpenedBeside
  <2>2. CallOf(w)' = Contract!Setting(k, v) /\ CallOf(w) = Contract!NoCall
    BY <2>1, JobKinds, Calls, CallsNext
  <2>3. Contract!Moves(w)
    BY <2>2 DEF Contract!Moves, Contract!NoCall
  <2> QED
    BY <1>4, <2>1, <2>3, OneMoves DEF SetBegin
<1>5. ASSUME NEW w \in Workers, SetReplace(w) PROVE Contract!Next
  <2> DEFINE k == job[w].key
             entry == job[w].entry
  <2>1. k \in Keys /\ entry \in Entry /\ entry.value \in Values /\ job[w].op = "write"
    BY <1>0, <1>5, JobByOp DEF SetReplace, Doing, WriteJob, Entry
  <2>2. now' = now /\ files' = [files EXCEPT ![k] = entry]
    BY <1>5 DEF SetReplace, Replaced
  <2>3. \A j \in Keys \ {k} : Shown'[j] = Shown[j]
    BY <1>0, <2>2 DEF Shown, InTime
  <2>4. Shown'[k] \in {entry.value, NoEntry}
    BY <1>0, <2>1, <2>2 DEF Shown, InTime
  <2>5. [job EXCEPT ![w] = [op |-> "cleanup"]] \in [Workers -> Job]
    BY <1>0, JobKinds
  <2>6. /\ job'[w].op = "cleanup"
        /\ \A u \in Workers \ {w} : job'[u] = job[u] \/ job'[u].op = "clear"
    <3> DEFINE jobs == [job EXCEPT ![w] = [op |-> "cleanup"]]
    <3>1. job' = Sparing(jobs, k) /\ jobs \in [Workers -> Job]
      BY <1>5, <2>5 DEF SetReplace
    <3>2. jobs[w] = [op |-> "cleanup"] /\ \A u \in Workers \ {w} : jobs[u] = job[u]
      BY <1>0
    <3>3. jobs[w].op = "cleanup"
      BY <3>2
    <3> HIDE DEF jobs
    <3>4. \A u \in Workers :
            /\ jobs[u].op # "clear" => job'[u] = jobs[u]
            /\ job'[u].op = jobs[u].op
      BY <2>1, <3>1, SparingKeeps
    <3> QED
      BY <3>2, <3>3, <3>4
  <2>7. \A u \in Workers : Contract!Moves(u)
    BY <2>2, <2>6, Staying, Ending
  <2>8. CASE Shown'[k] = entry.value
    <3>1. Keys \ {k} \in SUBSET (Keys \ {k})
      OBVIOUS
    <3>2. Shown' = [j \in Keys |-> IF j = k THEN entry.value ELSE
                                   IF j \in Keys \ {k} THEN Shown[j] ELSE NoEntry]
      BY <2>1, <2>3, <2>8 DEF Shown
    <3>3. Contract!Put(k, entry.value)
      BY <3>1, <3>2 DEF Contract!Put, Shown
    <3>4. CallOf(w) = Contract!Setting(k, entry.value) /\ CallOf(w)' = Contract!NoCall
      BY <2>1, <2>6, Calls, CallsNext
    <3>5. Contract!SetLater(w)
      BY <2>1, <3>3, <3>4 DEF Contract!SetLater
    <3> QED
      BY <2>7, <3>5 DEF Contract!Next
  <2>9. CASE Shown'[k] = NoEntry
    <3>1. \A j \in Keys : Shown'[j] \in {Shown[j], NoEntry}
      BY <2>3, <2>9
    <3> QED
      BY <2>7, <3>1, Losing
  <2> QED
    BY <2>4, <2>8, <2>9
<1>6. ASSUME NEW w \in Workers, NEW k \in Keys, ClearCheck(w, k) \/ ClearUnlink(w, k)
      PROVE  Contract!Next
  <2>1. /\ job'[w].op = "clear" /\ now' = now
        /\ \A u \in Workers \ {w} : job'[u] = job[u]
    BY <1>6, ClearSteps DEF ClearCheck, ClearUnlink
  <2>2. \A j \in Keys : files'[j] \in {files[j], NoFile}
    BY <1>0, <1>6 DEF ClearCheck, ClearUnlink, Unlink
  <2>3. \A u \in Workers : Contract!Moves(u)
    BY <2>1, Staying, Ending
  <2>4. \A j \in Keys : files'[j] \in {files[j], NoFile, Damaged, Undecodable}
    BY <2>2
  <2> QED
    BY <2>1, <2>3, <2>4, LosingFiles, SMTT(30)
<1>7. ASSUME NEW w \in Workers, NEW k \in Keys, Delete(w, k) PROVE Contract!Next
  <2>1. \A j \in Keys : files'[j] \in {files[j], NoFile}
    BY <1>0, <1>7 DEF Delete, Unlink
  <2>2. \A u \in Workers : Contract!Moves(u)
    BY <1>7, Staying DEF Delete
  <2> QED
    BY <1>7, <2>1, <2>2, LosingFiles DEF Delete
<1>8. ASSUME NEW i \in Instances, Crash(i) PROVE Contract!Next
  <2>1. \A u \in Workers : job'[u] \in {job[u], NoJob} /\ now' = now /\ files' = files
    BY <1>0, <1>8 DEF Crash
  <2>2. \A u \in Workers : Contract!Moves(u)
    BY <2>1, JobKinds, Staying, Ending
  <2> QED
    BY <1>8, <2>2, LosingFiles DEF Crash
<1>9. ASSUME NEW k \in Keys, Corrupt(k) PROVE Contract!Next
  <2>1. \A j \in Keys : files'[j] \in {files[j], NoFile, Damaged, Undecodable}
    BY <1>0, <1>9 DEF Corrupt
  <2>2. \A u \in Workers : Contract!Moves(u)
    BY <1>9, Staying DEF Corrupt
  <2> QED
    BY <1>9, <2>1, <2>2, LosingFiles DEF Corrupt
<1>10. ASSUME Tick PROVE Contract!Next
  <2>0. now' = now + 1 /\ files' = files /\ job' = job
    BY <1>10 DEF Tick
  <2>1. \A content \in Content : InTime(content)' \in {InTime(content), NoEntry}
    BY <1>0, <2>0 DEF InTime, Entry
  <2>2. \A k \in Keys : Shown'[k] \in {Shown[k], NoEntry}
    BY <1>0, <2>0, <2>1 DEF Shown
  <2>3. ASSUME NEW w \in Workers PROVE Contract!Moves(w)
    <3>1. CASE job[w].op = "read"
      <4>1. job[w].key \in Keys /\ job[w].found \in Content
        BY <1>0, <3>1, JobByOp DEF ReadJob
      <4>2. /\ CallOf(w) = Contract!Getting(job[w].key, InTime(job[w].found))
            /\ CallOf(w)' = Contract!Getting(job[w].key, InTime(job[w].found)')
        BY <2>0, <3>1, Calls, CallsNext
      <4>3. InTime(job[w].found)' \in {InTime(job[w].found), NoEntry}
        BY <2>0, <2>1, <4>1
      <4>4. CASE InTime(job[w].found)' = InTime(job[w].found)
        BY <4>2, <4>4 DEF Contract!Moves
      <4>5. CASE InTime(job[w].found)' = NoEntry
        BY <4>1, <4>2, <4>5, Answering
      <4> QED
        BY <4>3, <4>4, <4>5
    <3>2. CASE job[w].op # "read"
      <4>1. CallOf(w)' = CallOf(w)
        BY <2>0, <3>2 DEF CallOf, Doing
      <4> QED
        BY <4>1 DEF Contract!Moves
    <3> QED
      BY <3>1, <3>2
  <2> QED
    BY <2>2, <2>3, Losing
<1>11. ASSUME NEW w \in Workers, Start(w) PROVE Contract!Next
  <2>1. ASSUME NEW whole, NEW scope, ClearBegin(w, whole, scope) PROVE Contract!Next
    BY <1>3, <2>1 DEF ClearBegin
  <2> QED
    BY <1>1, <1>4, <1>7, <1>11, <2>1 DEF Start
<1>12. ASSUME NEW w \in Workers, Continue(w) PROVE Contract!Next
  <2>1. ASSUME \/ GetReturn(w) \/ ExistsReturn(w)
               \/ SetFail(w) \/ SetReturn(w) \/ ClearReturn(w)
        PROVE  Contract!Next
    BY <1>3, <2>1, JobKinds
    DEF GetReturn, ExistsReturn, LeftAlone, SetFail, SetReturn, ClearReturn
  <2> QED
    BY <1>2, <1>5, <1>6, <1>12, <2>1 DEF Continue
<1>13. CASE UNCHANGED vars
  BY <1>13 DEF vars, Shown, Called, CallOf, Doing, InTime
<1> QED
  BY <1>8, <1>9, <1>10, <1>11, <1>12, <1>13 DEF Next

(***************************************************************************)
(* Whatever the threads and processes do, the backend keeps the promise of *)
(* CacheBackend (base.py): a get answers with a response that a set moved  *)
(* into place under its key and that was there, and in its time, when the  *)
(* get read it.                                                            *)
(***************************************************************************)
THEOREM DiskImplementsContract == Spec => ImplementsContract
<1>1. Init => Contract!Init
  <2> SUFFICES ASSUME Init PROVE Contract!Init
    OBVIOUS
  <2>1. Shown = [k \in Keys |-> NoEntry]
    BY ContentAssumption DEF Init, Shown, InTime
  <2>2. Called = [w \in Workers |-> Contract!NoCall]
    BY JobKinds, Calls DEF Init, Called
  <2> QED
    BY <2>1, <2>2 DEF Contract!Init, Shown, Called
<1>2. TypeOK /\ [Next]_vars => [Contract!Next]_<< Shown, Called >>
  BY StepImplements
<1> QED
  BY <1>1, <1>2, InitTypes, NextTypes, PTL
  DEF Spec, ImplementsContract, Contract!Spec, Shown, Called
=============================================================================
