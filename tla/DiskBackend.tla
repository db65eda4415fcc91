------------------------------ MODULE DiskBackend ------------------------------
(***************************************************************************)
(* DiskCacheBackend (backends/disk.py): one file per key in a directory    *)
(* that several processes share.  Calls run in worker threads; get, exists *)
(* and set hold the lock of their instance, delete and clear do not, and   *)
(* no lock is shared between processes.                                    *)
(*                                                                         *)
(* A path is the SHA-256 of its key, so a file is known by its key.  What  *)
(* _read refuses (checksum, version, key, expiry) is Damaged; what it      *)
(* takes and _decode_response refuses is Undecodable.  One step of a       *)
(* worker is one access to the directory or to what the instance shares; a *)
(* process may be killed between any two.                                  *)
(***************************************************************************)
EXTENDS Integers, FiniteSets

CONSTANTS
  Keys, Values, NoEntry,
  NoFile,            \* what a path can hold besides an entry
  Damaged, Undecodable,
  Namespaces,        \* namespaces handed to clear
  Prefixed,          \* for each of them, the keys it is a prefix of
  Workers,           \* threads
  Instances,         \* processes, each with one DiskCacheBackend
  Homes,             \* which process each thread may belong to
  Free,              \* nobody holds the lock
  Ttls,              \* values of ttl; 0 and less stand for None
  MaxTime,           \* bound: the clock
  MaxExpiry,         \* bound: the expiries that are stored
  MaxGets            \* bound: counted gets of an instance

ASSUME DiskAssumption ==
  /\ NoEntry \notin Values
  /\ Prefixed \in [Namespaces -> SUBSET Keys]
  /\ Homes \subseteq [Workers -> Instances]
  /\ Free \notin Workers
  /\ Ttls \subseteq Int
  /\ MaxTime \in Nat /\ MaxExpiry \in Nat
  /\ MaxGets \in Nat

Entry == [value : Values, expiry : Nat]

ASSUME ContentAssumption ==
  /\ Entry \cap {NoFile, Damaged, Undecodable, NoEntry} = {}
  /\ NoFile \notin {Damaged, Undecodable} /\ Damaged # Undecodable

Content == Entry \cup {NoFile, Damaged, Undecodable}

(* What a worker is doing.  `kept' and `spared' are for the properties: the *)
(* entry a get should have found, and the keys that were written, or could *)
(* not be accessed, while a clear was running.                             *)
NoJob == [op |-> "none"]
ReadJob == [op : {"read"}, key : Keys, counted : BOOLEAN, found : Content,
            kept : Entry \cup {NoEntry}]
CountJob == [op : {"count"}, key : Keys, answer : Values \cup {NoEntry},
             hits : Nat, misses : Nat]
WriteJob == [op : {"write"}, key : Keys, entry : Entry]
CleanupJob == [op : {"cleanup"}]
ClearJob == [op : {"clear"}, whole : BOOLEAN, scope : SUBSET Keys,
             left : SUBSET Keys, checked : SUBSET Keys, spared : SUBSET Keys]
Job == {NoJob} \cup ReadJob \cup CountJob \cup WriteJob \cup CleanupJob \cup ClearJob

VARIABLES
  home,          \* the process of each thread; never changes
  files,         \* what the path of each key holds
  lock,          \* _lock of each instance
  hits, misses,  \* _hits and _misses of each instance
  job,           \* what each worker is doing
  now,           \* time.time()
  kept,          \* for each key, the entry last moved into place and not removed
  answered       \* counted gets of each instance that came to an end

counters  == << hits, misses, answered >>
vars == << home, files, lock, counters, job, now, kept >>

TypeOK ==
  /\ home \in Homes
  /\ files \in [Keys -> Content]
  /\ lock \in [Instances -> Workers \cup {Free}]
  /\ hits \in [Instances -> Nat] /\ misses \in [Instances -> Nat]
  /\ job \in [Workers -> Job]
  /\ now \in 0..MaxTime
  /\ kept \in [Keys -> Entry \cup {NoEntry}]
  /\ answered \in [Instances -> Nat]

Init ==
  /\ home \in Homes
  /\ files = [k \in Keys |-> NoFile]
  /\ lock = [i \in Instances |-> Free]
  /\ hits = [i \in Instances |-> 0] /\ misses = [i \in Instances |-> 0]
  /\ job = [w \in Workers |-> NoJob]
  /\ now = 0
  /\ kept = [k \in Keys |-> NoEntry]
  /\ answered = [i \in Instances |-> 0]

-------------------------------------------------------------------------------
Idle(w) == job[w] = NoJob
Doing(w, op) == job[w].op = op

Become(w, next) == job' = [job EXCEPT ![w] = next]

(* with self._lock *)
AnyTime(w) == TRUE
LockFree(w) == lock[home[w]] = Free
Acquire(w) == LockFree(w) /\ lock' = [lock EXCEPT ![home[w]] = w]
StillLocked(w) == lock
Unlocked(w) == [lock EXCEPT ![home[w]] = Free]

(* expiry == 0 or time.time() <= expiry *)
NeverStale(entry) == TRUE
Unexpired(entry) == entry.expiry = 0 \/ now <= entry.expiry

(* time.time() + ttl if ttl and ttl > 0 else 0.0 *)
ExpiryUnguarded(ttl) == now + ttl
ExpiryOf(ttl) == IF ttl > 0 THEN now + ttl ELSE 0

-------------------------------------------------------------------------------
(* _get, for get (counted) and exists.                                     *)

(* read_bytes; any failure but a missing file reads as damage. *)
GetRead(w, k, counted) ==
  /\ Idle(w)
  /\ counted => \A i \in Instances : answered[i] < MaxGets
  /\ Acquire(w)
  /\ \E fails \in BOOLEAN :
       Become(w, [op |-> "read", key |-> k, counted |-> counted,
                  found |-> IF fails THEN Damaged ELSE files[k],
                  kept |-> IF fails THEN NoEntry ELSE kept[k]])
  /\ UNCHANGED << home, files, counters, now, kept >>

Response(content) ==
  IF content \in Entry /\ Unexpired(content) THEN content.value ELSE NoEntry

(* A file that is not answered is left where it is.                        *)
RemovedIfStale(k, content) ==
  IF Response(content) = NoEntry THEN [files EXCEPT ![k] = NoFile] ELSE files
LeftAlone(k, content) == files

(* self._hits += ... and self._misses += ...: the sums, then the stores.   *)
GetDecide(w) ==
  LET i == home[w]
      response == Response(job[w].found)
  IN  /\ Doing(w, "read") /\ job[w].counted
      /\ files' = LeftAlone(job[w].key, job[w].found)
      /\ Become(w, [op |-> "count", key |-> job[w].key, answer |-> response,
                    hits |-> hits[i] + (IF response # NoEntry THEN 1 ELSE 0),
                    misses |-> misses[i] + (IF response # NoEntry THEN 0 ELSE 1)])
      /\ UNCHANGED << home, lock, counters, now, kept >>

GetReturn(w) ==
  LET i == home[w]
  IN  /\ Doing(w, "count")
      /\ hits' = [hits EXCEPT ![i] = job[w].hits]
      /\ misses' = [misses EXCEPT ![i] = job[w].misses]
      /\ answered' = [answered EXCEPT ![i] = @ + 1]
      /\ lock' = Unlocked(w)
      /\ Become(w, NoJob)
      /\ UNCHANGED << home, files, now, kept >>

(* exists counts nothing; it answers whether get would find a response.    *)
ExistsReturn(w) ==
  /\ Doing(w, "read") /\ ~job[w].counted
  /\ files' = LeftAlone(job[w].key, job[w].found)
  /\ lock' = Unlocked(w)
  /\ Become(w, NoJob)
  /\ UNCHANGED << home, counters, now, kept >>

-------------------------------------------------------------------------------
(* _set                                                                    *)

(* The temporary file is not the file of the key. *)
OpenedInPlace(k) == [files EXCEPT ![k] = Damaged]
OpenedBeside(k) == files

(* The entry is encoded and written to a temporary file, that nobody else  *)
(* opens. *)
SetBegin(w, k, v, ttl) ==
  /\ Idle(w)
  /\ ExpiryOf(ttl) <= MaxExpiry
  /\ Acquire(w)
  /\ files' = OpenedBeside(k)
  /\ Become(w, [op |-> "write", key |-> k,
                entry |-> [value |-> v, expiry |-> ExpiryOf(ttl)]])
  /\ UNCHANGED << home, counters, now, kept >>

(* A clear that is running need not remove what is written meanwhile. *)
Spare(clear, k) == [clear EXCEPT !.spared = @ \cup ({k} \cap clear.scope)]
Sparing(jobs, k) ==
  [u \in Workers |-> IF jobs[u].op = "clear" THEN Spare(jobs[u], k) ELSE jobs[u]]

(* The path depends on the key. *)
ReplacedForAll(k, entry) == [j \in Keys |-> entry]
Replaced(k, entry) == [files EXCEPT ![k] = entry]

(* os.replace, once the temporary file is flushed, synced and closed *)
SetReplace(w) ==
  LET k == job[w].key
  IN  /\ Doing(w, "write")
      /\ files' = Replaced(k, job[w].entry)
      /\ kept' = [kept EXCEPT ![k] = job[w].entry]
      /\ job' = Sparing([job EXCEPT ![w] = [op |-> "cleanup"]], k)
      /\ UNCHANGED << home, lock, counters, now >>

(* Validation, encoding, the temporary file or os.replace fail. *)
SetFail(w) ==
  /\ Doing(w, "write")
  /\ Become(w, [op |-> "cleanup"])
  /\ UNCHANGED << home, files, lock, counters, now, kept >>

(* finally: the temporary file is removed, if it can be. *)
SetReturn(w) ==
  /\ Doing(w, "cleanup")
  /\ lock' = Unlocked(w)
  /\ Become(w, NoJob)
  /\ UNCHANGED << home, files, counters, now, kept >>

-------------------------------------------------------------------------------
(* delete and clear, without the lock.                                     *)

(* path.unlink(), of what the caller asked to have removed, or not. *)
Unlink(k, asked) ==
  /\ files' = [files EXCEPT ![k] = NoFile]
  /\ kept' = IF asked THEN [kept EXCEPT ![k] = NoEntry] ELSE kept

Delete(w, k) ==
  /\ Idle(w)
  /\ files[k] # NoFile
  /\ Unlink(k, TRUE)
  /\ UNCHANGED << home, lock, counters, job, now >>

(* _entries lists every path of the form _path makes, readable or not. *)
ReadableListing == { k \in Keys : files[k] \in Entry }
Listing == { k \in Keys : files[k] # NoFile }

ClearBegin(w, whole, scope) ==
  /\ Idle(w)
  /\ Become(w, [op |-> "clear", whole |-> whole, scope |-> scope,
                left |-> Listing, checked |-> {}, spared |-> {}])
  /\ UNCHANGED << home, files, lock, counters, now, kept >>

(* Only a file that _read takes is attributed to a namespace. *)
Attributable(k, scope) == files[k] \in Entry \cup {Undecodable}
Attributed(k, scope) == files[k] \in Entry \cup {Undecodable} /\ k \in scope

(* self._read(path)["key"].startswith(...), of a namespaced clear *)
ClearCheck(w, k) ==
  /\ job[w].op = "clear" /\ ~job[w].whole
  /\ k \in job[w].left /\ job[w].checked = {}
  /\ \/ /\ Attributed(k, job[w].scope)
        /\ Become(w, [job[w] EXCEPT !.checked = {k}])
     \/ /\ ~Attributed(k, job[w].scope)
        /\ Become(w, [job[w] EXCEPT !.left = @ \ {k}])
     \/ Become(w, Spare([job[w] EXCEPT !.left = @ \ {k}], k))
  /\ UNCHANGED << home, files, lock, counters, now, kept >>

(* The path may have been replaced or unlinked since; unlink may fail. *)
ClearUnlink(w, k) ==
  /\ job[w].op = "clear"
  /\ k \in job[w].left /\ (job[w].whole \/ k \in job[w].checked)
  /\ \/ /\ Unlink(k, k \in job[w].scope)
        /\ Become(w, [job[w] EXCEPT !.left = @ \ {k}, !.checked = {}])
     \/ /\ Become(w, Spare([job[w] EXCEPT !.left = @ \ {k}, !.checked = {}], k))
        /\ UNCHANGED << files, kept >>
  /\ UNCHANGED << home, lock, counters, now >>

ClearReturn(w) ==
  /\ job[w].op = "clear" /\ job[w].left = {}
  /\ Become(w, NoJob)
  /\ UNCHANGED << home, files, lock, counters, now, kept >>

-------------------------------------------------------------------------------
(* The host.                                                               *)

(* A process is killed and restarted: its threads, lock and counters are   *)
(* gone; a temporary file that stays is never read again.                  *)
Crash(i) ==
  /\ job' = [w \in Workers |-> IF home[w] = i THEN NoJob ELSE job[w]]
  /\ lock' = [lock EXCEPT ![i] = Free]
  /\ hits' = [hits EXCEPT ![i] = 0]
  /\ misses' = [misses EXCEPT ![i] = 0]
  /\ answered' = [answered EXCEPT ![i] = 0]
  /\ UNCHANGED << home, files, now, kept >>

(* Something else truncates or overwrites a file. *)
Corrupt(k) ==
  /\ files[k] \in Entry
  /\ \E damage \in {Damaged, Undecodable} : files' = [files EXCEPT ![k] = damage]
  /\ kept' = [kept EXCEPT ![k] = NoEntry]
  /\ UNCHANGED << home, lock, counters, job, now >>

Tick ==
  /\ now < MaxTime
  /\ now' = now + 1
  /\ UNCHANGED << home, files, lock, counters, job, kept >>

Start(w) ==
  \/ \E k \in Keys, counted \in BOOLEAN : GetRead(w, k, counted)
  \/ \E k \in Keys, v \in Values, ttl \in Ttls : SetBegin(w, k, v, ttl)
  \/ \E k \in Keys : Delete(w, k)
  \/ ClearBegin(w, TRUE, Keys)
  \/ \E n \in Namespaces : ClearBegin(w, FALSE, Prefixed[n])

Continue(w) ==
  \/ GetDecide(w)
  \/ GetReturn(w)
  \/ ExistsReturn(w)
  \/ SetReplace(w)
  \/ SetFail(w)
  \/ SetReturn(w)
  \/ \E k \in Keys : ClearCheck(w, k)
  \/ \E k \in Keys : ClearUnlink(w, k)
  \/ ClearReturn(w)

Next ==
  \/ \E w \in Workers : Start(w)
  \/ \E w \in Workers : Continue(w)
  \/ \E i \in Instances : Crash(i)
  \/ \E k \in Keys : Corrupt(k)
  \/ Tick

Spec == Init /\ [][Next]_vars

-------------------------------------------------------------------------------
(***************************************************************************)
(* What set moved into place stays readable, complete and under its key    *)
(* until it is replaced, damaged from outside, deleted, or unlinked by a   *)
(* clear whose namespace it is in: no write that fails or is killed        *)
(* half-way, no reader that finds an older file expired, and no clear of   *)
(* another namespace takes it away ("a stale reader must not unlink a      *)
(* fresh write"; "a failed write preserves the old entry").  A clear of    *)
(* its own namespace may take away a write it did not see (_clear).        *)
(***************************************************************************)
DurableEntries == \A k \in Keys : kept[k] # NoEntry => files[k] = kept[k]

(***************************************************************************)
(* A get that could read answers with exactly the entry that was in place  *)
(* when it read, unless that is past its time, and with a miss only if     *)
(* there was none: a write in progress in another process shows neither    *)
(* its new entry nor a gap, and a restart keeps no entry beyond its time   *)
(* (_get against _set of another instance; expires_at is absolute).        *)
(***************************************************************************)
GetsSeeWholeEntries ==
  [][\A w \in Workers :
       GetDecide(w) =>
         LET entry == job[w].kept
             good  == entry # NoEntry /\ (entry.expiry = 0 \/ now <= entry.expiry)
         IN  job'[w].answer = IF good THEN entry.value ELSE NoEntry]_vars

(***************************************************************************)
(* The counters of an instance account for every counted get, although     *)
(* they are read and written in separate steps by several threads (_get    *)
(* updates them inside the lock).                                          *)
(***************************************************************************)
CountsExact ==
  \A i \in Instances : hits[i] + misses[i] = answered[i]

(***************************************************************************)
(* A clear that ran to its end removed every entry in its scope but those  *)
(* written, or not accessible, while it ran; a namespaced one also leaves  *)
(* what cannot be read (_clear lists first and unlinks path by path).      *)
(***************************************************************************)
ClearLeavesNothingOld ==
  [][\A w \in Workers :
       ClearReturn(w) =>
         \A k \in job[w].scope \ job[w].spared :
           files[k] = NoFile \/ (~job[w].whole /\ files[k] = Damaged)]_vars

(***************************************************************************)
(* The lock of an instance is held by the one thread that is inside get,   *)
(* exists or set, and by nobody else: a call that fails or is killed gives *)
(* it back, so the next one is not kept waiting ("with self._lock").       *)
(***************************************************************************)
LocksOwned ==
  \A w \in Workers :
    lock[home[w]] = w <=> job[w].op \in {"read", "count", "write", "cleanup"}

(***************************************************************************)
(* The backend keeps the promise of CacheBackend (base.py), for readers    *)
(* and writers in several processes, with files that are damaged and       *)
(* threads that are killed: a get of one process answers with nothing      *)
(* that a set did not put there, that is past its time, or that was gone   *)
(* or replaced when the get began.                                         *)
(***************************************************************************)
InTime(content) ==
  IF content \in Entry /\ (content.expiry = 0 \/ now <= content.expiry)
  THEN content.value ELSE NoEntry

CallOf(w) ==
  CASE Doing(w, "read")  -> [op |-> "get", key |-> job[w].key, answer |-> InTime(job[w].found)]
    [] Doing(w, "count") -> [op |-> "get", key |-> job[w].key, answer |-> job[w].answer]
    [] Doing(w, "write") -> [op |-> "set", key |-> job[w].key, value |-> job[w].entry.value]
    [] OTHER             -> [op |-> "none"]

Contract ==
  INSTANCE CacheContract
    WITH Clients <- Workers,
         store <- [k \in Keys |-> InTime(files[k])],
         calls <- [w \in Workers |-> CallOf(w)]

ImplementsContract == Contract!Spec
==============================================================================
