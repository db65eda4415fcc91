# A formal model of pipecat-tts-cache

TLA+ modules, TLC configurations and machine-checked proofs for
`pipecat-tts-cache`: a mixin that captures the speech of a Pipecat
text-to-speech service, stores it in a cache backend, and replays it.
Paths below are relative to the repository; `mixin.py`, `memory.py` and so on
are under `src/pipecat_tts_cache/`.

## 1. The system

| Component | State | Operations | Talks to |
|---|---|---|---|
| `TTSCacheMixin` (`mixin.py`) | `_contexts` (captures by audio context), hit and miss counters | `run_tts`, `push_frame`, `add_word_timestamps`, `_finalize_context`, `_handle_interruption`, `clear_cache`, `get_cache_stats` | the wrapped service by `super()`, a backend by `await` |
| Splitting (`_store_split_tasks`, `_store_task`) | none | audio, timestamps and tasks of one context to one response per text | called by `_finalize_context` |
| `CacheBackend` (`backends/base.py`) | abstract | `get set delete clear exists get_stats close` | implemented by the next three |
| `MemoryCacheBackend` (`backends/memory.py`) | `OrderedDict`, counters, asyncio lock | as above, LRU and expiry | nothing |
| `DiskCacheBackend` (`backends/disk.py`) | files, counters, thread lock | as above, in worker threads | file system, other processes |
| `RedisCacheBackend` (`backends/redis.py`) | lazily connected client | as above | a Redis server, other clients |
| Cache key (`key_generator.py`, `_generate_cache_key`) | none | request identity to key | called by `run_tts` |
| Pipecat `TTSService` (external) | audio contexts, player and receiver tasks | calls the mixin's overrides | the provider |

How they interact: the base class calls `run_tts` for each sentence of a turn,
reusing one audio context for all of them. On a hit the frames are yielded into
that context and marked as of cache origin. On a miss the sentence is
registered in the context's capture and the service is asked for it; its
word timestamps come back through `add_word_timestamps` when they *arrive*, its
audio through `push_frame` when it is *played*. The `TTSStoppedFrame` that
closes the context makes `push_frame` pop the capture, split it and write it.
An interruption empties `_contexts` and throws the base class's state away.

What is hard about it:

* registering, receiving, playing and finalising are separate tasks that
  interleave at every `await`; captured timestamps run ahead of captured audio;
* one context carries cached and live speech, of texts that hit, miss, cannot be
  keyed or fail half-way;
* the split relies on counts and times made by two different parties;
* finalisation awaits the backend once per text, with the Stopped frame held
  back, and requests, turns, interruptions and evictions go on meanwhile;
* a key is made when `run_tts` begins and used for a write much later, after
  settings may have changed; services with different settings share a backend;
* the disk backend's threads and processes share a directory but no lock, and a
  process may be killed between any two accesses;
* the Redis backend's calls share a client that is made on first use and may
  fail, and SCAN runs across the writes of others.

What makes each part correct:

* mixin: an entry holds exactly the speech of its text; timestamps point at
  their words; a capture never holds speech that is not its own, loses or doubles
  none, and is always released; playing is never held up for good; cached and
  live speech keep their order;
* splitting: every sample goes to the text whose word it belongs to, up to the
  rounding of times to samples;
* backends: what is read is what was last written, or a miss; the memory
  backend is bounded and forgets the least recently used entry first; on disk
  what was moved into place survives failures and kills; `clear` removes all that
  was there in its namespace, and nothing of another;
* key: requests share a key exactly when they may share their speech, and speech
  is only heard where it was asked for.

## 2. Modules

| Module | Models |
|---|---|
| `AudioSplit` | splitting, as operators on one capture |
| `MCAudioSplit` | every small capture, and the reference definition |
| `CacheStore` | what a read may answer, and what operations may do to the entries |
| `CacheContract` | what every backend promises, on `CacheStore`: who may store what, and what a get answers |
| `TTSCacheMixin` | the capture-and-replay protocol, on `AudioSplit` and an instance of `CacheStore` |
| `MCTTSCacheMixin` | small services and texts |
| `MemoryBackend` | `memory.py`, and its refinement of `CacheContract` |
| `DiskBackend` | `disk.py`: threads of several processes on one directory, kills; refinement of `CacheContract` |
| `RedisBackend` | `redis.py`: round trips of concurrent calls; refinement of `CacheContract` |
| `CacheKey` | `key_generator.py` as operators, and a reference: when two requests ask for the same speech |
| `SharedCache` | several services with changing settings on one cache, for any key function |
| `MCMemoryBackend`, `MCDiskBackend`, `MCRedisBackend` | small instances of the backends |
| `MCSharedCache` | `SharedCache` with the keys of `CacheKey` |
| `SequenceLemmas` | induction over the natural numbers, and lemmas about joined and sorted sequences |
| `AudioSplit_proofs` | splitting agrees with the reference, for captures of any size and any rounding |
| `TTSCacheMixin_proofs` | types; no capture is left behind; the order of playing; whose speech captures and entries are |
| `TTSCacheMixinSpeech_proofs` | captures conserve the speech due to their texts; entries are all of it, with timestamps that fit |
| `MemoryBackend_proofs`, `DiskBackend_proofs`, `RedisBackend_proofs` | every property of these backends but liveness |
| `SharedCache_proofs` | what is filed and heard for any key function; keys are shared exactly by requests that ask for the same speech |

The parts meet in three places. `TTSCacheMixin` puts and reads entries with the
operators of `CacheStore`, and so does the contract that each backend implements.
`AudioSplit` is used inside `TTSCacheMixin` and checked on its own against a
reference. `MCSharedCache` puts the key of `CacheKey` into `SharedCache`; there a
request stands for its speech, whose capture is `TTSCacheMixin`'s subject.

### The contract of a backend

`CacheContract` has the entries (`store`) and what each client has called (`calls`).
A response comes under a key only by a set that was called with that key and
that response, once for each such call; anything may be lost at any time, nothing
that is gone comes back without a set; and the answer of a get was under its
key at a moment of the call, or is a miss. So an answer that is stale, invented,
resurrected, or of another key is not a step of the contract. That a get does *not*
miss, no backend promises its clients: `GetReturnsLastSet` of the memory backend and
`GetsSeeWholeEntries` of the disk backend say when it does not.

Each backend maps its state to the answers a get would find, an entry past its
expiry being none, and its calls to those of the contract: in the memory backend a
call is one step, which `answered` remembers; a job of `DiskBackend` that has read
a file is a get with its answer, a job that writes is a set that was called; a
call of `RedisBackend` that waits is one that was called, and a get that
answered leaves its answer in `job`.

What holds of the mixin rests on the store alone, which it reads and writes in single
steps (`Hit`, `Miss`, `StoreResponse`): a get is answered in the step in which
`run_tts` goes on. With a backend that takes several steps, an answer is one that
was stored a little earlier; the mixin does nothing between the call and the answer
but wait, and whatever was stored under a key stays speech of its text when the
entry is lost, so this makes no difference to its properties.

### Times and samples

The code keeps times as floats and cuts audio at `int(time * sample_rate *
bytes_per_sample)`, rounded down to a sample. A duration is a quotient, and taking it
back need not give the length: at 24 kHz mono 96010 bytes become 2.0002083..
seconds, which become byte 96009 and then 96008, and the last task of a split loses
one sample. `SampleAt` therefore cuts the times in `CutEarly` one sample early and
those in `CutLate` one late. These are constants, of which `RoundingAssumption` says
what a float, rounded to the nearest, guarantees: the order of times is kept, no
start of a sample is cut late, and 0 is exact. `MatchesReference` says what is left: no
sample is ever in two responses, only the sample at a border may move, and only the
last of the audio may be dropped. The run has times of both kinds, and among them the
duration of an audio.

In `TTSCacheMixin` the unit of sound is a word's worth of samples, next to which one
sample does not count; `GrainAssumption` says that there nothing is rounded. What the
mixin's properties say of an entry is therefore meant up to one sample at each end.
The last digit of a timestamp, that is a difference of floats, is not modelled either.

### State and actions of `TTSCacheMixin`

`contexts` is `_contexts`; `call` is the `run_tts` in progress; `finalizing` is
the player between two awaits of `_finalize_context`; `cache` is the backend.
`wire[c]` and `queue[c]` are the base class: what the provider still has to
send for context `c`, and what waits in the audio context. `clock` is what a
provider's cumulative timestamps count. `turn` is the context of the turn
being spoken, and `faulted` remembers, for the properties, which contexts had a
failed request.

| Action | Code |
|---|---|
| `StartRequest` | `run_tts` up to the await of `get` |
| `BypassRequest` | key generation raised: capture dropped, text synthesized |
| `Hit` | the response is replayed into the audio context |
| `Miss` | a miss or a failing `get`: text registered, then synthesized |
| `SynthReturn`, `SynthFail` | the service's `run_tts` ends, or raises with part of its speech sent |
| `ReceiveSpeech` | `add_word_timestamps`, audio appended to the audio context |
| `PushAudio` | `push_frame` of audio, live or cached |
| `PushStopped`, `StoreResponse` | `push_frame` of the Stopped frame: `_finalize_context` up to its first write, then one write each; the frame is forwarded by the last |
| `Interrupt` | `_handle_interruption` and the base class's own handling |
| `EndTurn`, `ReceiveStop` | the base class closes the context |
| `Lose` | `clear_cache`, expiry, eviction, other clients of the backend |

A replay is one frame and one step. In the code it is one frame per chunk;
an interruption between two chunks discards both what was queued and the
rest, and neither is captured, so only the order of chunks against live frames
is lost, and `doc_order` shows that order broken already.

### State and actions of the backends

`MemoryBackend`: `cache` and `older` are the `OrderedDict`, `now` the clock; `used`
and `kept` remember, for the properties, when each key was last used and what was
last set, `answered` what was answered last. Each call is one step: it never awaits
inside the lock.

`DiskBackend`: `files` is what the path of each key holds, `lock`, `hits` and
`misses` belong to an instance, `job` is what a thread is doing, between two
accesses. `kept` remembers what was last moved into place.

| Action | Code |
|---|---|
| `GetRead`, `GetDecide`, `GetReturn`, `ExistsReturn` | `_get`: lock and `read_bytes`; expiry and the sums of the counters; the stores and the unlock. `exists` is a get that is not counted |
| `SetBegin`, `SetReplace`, `SetFail`, `SetReturn` | `_set`: lock and temporary file; `os.replace`; any exception; cleanup and unlock |
| `Delete` | `delete`, without the lock |
| `ClearBegin`, `ClearCheck`, `ClearUnlink`, `ClearReturn` | `_clear`: the listing, then each path's `_read` and `_unlink`, in any order, either of which may fail |
| `Crash`, `Corrupt`, `Tick` | a kill, damage from outside, the clock |

Reading the sums and storing them are two steps, since a thread may be suspended
there; in the lock that is invisible, which is what `CountsExact` says. What `_read`
refuses is the value `Damaged`; a file that it takes and `_decode_response` refuses is
`Undecodable`. Neither is answered, but a namespaced clear calls `_read` alone: it
removes the second and leaves the first. What it looked at may have been replaced or
damaged when it unlinks the path. The path belongs to one key, so what goes is of its
namespace all the same, and may be a write that came after the clear began.

`RedisBackend`: `server` is what the server holds, `client` whether `_client` is
set, `open` how many clients were made and not closed, `job` the call of each
task. A call goes from one round trip to the next without a pause. `Enter` is
`_get_client` up to its await: with a client the command goes out at once, without
one `_client` is set and the ping goes out first.

| Action | Code |
|---|---|
| `BeginGet` ... `BeginClose` | each operation up to its first await (`BeginRead` is `exists` and `get_stats`) |
| `PingAnswered`, `PingFailed` | the end of `_get_client`; a failing ping resets `_client`, and a `get` goes on to `_delete_quietly`, which connects again |
| `CommandFailed`, `Cancelled` | any error after the ping; cancellation, which no handler catches |
| `GetReply`, `SetReply`, `DeleteReply`, `ReadReply` | the server carries a command out; bad data makes a get go on to heal |
| `ScanReply`, `ClearDelete`, `ClearReturn` | one batch of `scan_iter`, the delete of each of its keys, the end |
| `CloseReply` | `aclose`, after which `_client` is forgotten |
| `Vanish`, `Spoil` | expiry, eviction and other programs |

SCAN may return any keys that match, but by its end has returned every key that
was there all the time (`owed`); in the model the scan ends with the batch that
returns the last of them. An answer that is lost after the server carried out
the command only changes what the call returns, which is not modelled for writes.
Whether a command goes to a client that is closing is not told apart: redis-py
connects again.

### State and actions of `SharedCache`

`profile` is what a service's keys depend on (namespace, class, settings, sample
rate), `call` the request whose `get` is awaited, `tasks` what is to be written,
`cache` what is stored, `heard` the last replay and what was asked for. Speech is
known by the request it was looked up for and the one it was made for.
`Request`, `Hit`, `Miss`, `Store` and `Interrupt` are `run_tts`, `_store_response` and
`_handle_interruption`; `UpdateSettings` is a change of the settings, at any moment.

Settings that change while `get` is awaited (`mixin.py:171`) do not change the key
that was made, but the synthesis that follows a miss: speech with the new settings is
then filed under the key of the old ones, and replayed to whoever asks with those.
Nothing in `run_tts` prevents that; whether Pipecat handles a settings frame while a
`run_tts` is in progress is decided outside the repository. The model lets it happen
and remembers it (`changed`); `FiledUnderItsKey` and `HeardAsAsked` say what holds in
any case, that speech is filed and heard under the key it was looked up with, and what
holds when no setting changed during that lookup, that it was made for that request.
Changes at any other time, before the write or between write and replay, do no harm.

In `CacheKey` a Python value is a record named for its type. `normalize_value` is
recursive, here it is unrolled three deep; SHA-256 is taken to be injective and
`json.dumps` with sorted keys to write equal data equally. The names in a dict are
strings. A set is a sequence in the order of its iteration, and `sorted` a choice of a
rearrangement in which numbers, of any type, or strings ascend.

The reference `SameSpeech` is not about all values. `UsualSettings` says which it is
about: numbers are whole millionths up to the error of their representation, voice and
model are strings or absent, a setting that holds a set in one request does not hold a
list in another, and no two items of a set are numbers that round alike. Outside of that
the code tells values apart, or not, by chance: 1.0000005 and 1.0000004 have different
keys; a set and a list of the same items have the same; `{1, 1.0000001}` is normalized
to 1 and 1.0, which a stable sort leaves in the order of iteration. `MCSharedCache`
assumes of its profiles, and TLC evaluates, that they are usual (`ProfilesUsual`).
Two values are written alike in the model and not in the code: zero and the negative
zero that rounding a tiny negative number gives, which `json.dumps` tells apart. The
namespaces `None` and `""` make the same key (`key_generator.py:152`) and are one.

### Assumptions about the environment

These describe Pipecat, whose code is not in the repository; the repository's
text they are taken from is named.

* One `run_tts` at a time, for the context of the open turn, and sentences of
  a turn share a context (`mixin.py:53-55`).
* The base class brackets every context, and its Stopped frame follows the last
  audio of the context (`mixin.py:216`). A context is not used again once it
  was given up.
* Messages of one context keep their order on the wire.
* A provider speaks one message per word, possibly after a lead-in of silence;
  its timestamps, if any, are cumulative over the context, or restart with each
  text, the case the guard of `mixin.py:350-353` is for.
* An interruption cancels the call in progress. It then either drops what is in
  flight, or what was received is still played while the service is cut off;
  both are possible at every step.

## 3. What the runs check

Runs expected to pass:

| Run | Instance | Shows |
|---|---|---|
| `mixin_cumulative` | websocket, cumulative timestamps, 2 turns, 4 requests, one text counted differently by service and parser | `TypeOK`, `CapturePure`, `NoOrphanCapture`, `SpokenExact`, `StampsPointAtWords`, `CaptureConserved` |
| `mixin_faults` | synthesis and key generation may fail, 3 requests, fairness | contexts without a fault of their own keep `NoOrphanCapture`, `SpokenExact`; every ended turn drains: `TurnsDrain`, `CapturesReleased` |
| `mixin_http` | no timestamps, speech complete before `run_tts` returns, synthesis may fail | `PlayedInRequestOrder`, `SpokenExact`, `OwnSpeechOnly`, `CaptureConserved` |
| `split` | all captures of 2 or 3 texts of up to 2 words, with up to 3 timestamps and 3 samples, times between samples, some cut early or late | `MatchesReference`, `StampsFollowTheirTask` |
| `memory` | 3 keys, capacity 2, 5 uses | bound, order of use, LRU guarantee, a get answers with what was last set, also at its expiry, refinement of `CacheContract` |
| `disk` | 2 threads in one process or in two, a key inside and one outside the namespace cleared, kills, failures, files that cannot be read or not be decoded | `DurableEntries`, `GetsSeeWholeEntries`, `CountsExact`, `LocksOwned`, `ClearLeavesNothingOld`, refinement of `CacheContract` |
| `redis` | 2 calls at a time, 2 keys, other programs, every failure | `OneClient`, `ClearRemovesOld`, every call ends: `CallsEnd`, refinement of `CacheContract` |
| `shared` | 2 services out of 40 and more that differ in namespace, class, rate, voice, model, numbers, sets, enums, objects, tuples, secrets; 4 texts | `FiledUnderItsKey`, `HeardAsAsked`, `KeysIsolate`, `KeysAgree` |

The properties with `faulted` in them say what holds for contexts in which no
request failed; `doc_bypass` shows what happens where one did. It and the other
runs expected to fail each give a shortest counterexample to something the
repository's text says:

| Run | Shows |
|---|---|
| `doc_bypass` | "yes" and the un-keyable "pair" in one turn: "pair" is bypassed, "yes" then registers the same context, and the speech of "pair", still on the wire, is captured and stored under "yes" |
| `doc_reset` | timestamps that restart with a sentence of one word do not decrease, pass the guard, and cut the sentences wrongly |
| `doc_order` | with a websocket service a hit is queued before live speech of an earlier request has arrived |
| `doc_heal` | a get whose reply did not come in time, or that found no client after a `close`, deletes a response that can be read |

What `doc_bypass` shows of a bypass (`mixin.py:166`) also happens through a request
that fails after part of its speech was sent, which drops the capture in the same
way (`mixin.py:197`).

The quoted passages are in `PROJECT.json` under `findings`.

### Bounds

`MaxContexts` turns and `MaxRequests` calls bound the mixin; the rest of its
state follows from them. Two turns suffice for a turn to be finalised while the
next one speaks, or after it was interrupted; the mixin keeps nothing else from
one turn to another but the cache. Four requests suffice for two misses of a
reused context, a hit between them, and a later turn that hits what the first
one stored. Texts of one and two words, one with a lead-in, make slices of
different lengths, boundaries that are and are not word 1, and a shared context
longer than each text. In `split` a sample is two ticks, so times fall on and
between samples, and reach past the end of the audio; words need not match the
timestamps. The starts of two samples, one of them the end of the longest audio, are
cut early, and a time between two samples is cut late. In `memory` `MaxUses` bounds sets and hits, `MaxTime` the clock: two
evictions after an overwrite, and an entry that expires unnoticed, fit in it.

In `disk` two threads are enough for a writer or a clear against a reader, a writer
or another clear, within one lock or across two; every action concerns one or
two threads. `MaxTime` is one tick past `MaxExpiry`, so an entry is read before, at
and after its expiry; one counted get per instance at a time is one addition to
lose, and two threads are counting at once when the lock is taken away (the
mutant of `CountsExact`). Threads and processes are interchangeable, so the run
uses symmetry; it has no liveness property. In `redis` two calls are enough to
meet in `_get_client`, in `close` and in the middle of a scan; nothing needs a
bound there, as the open clients stay few (`OneClient`, and the count stops with the
first overlapping `close`). In `shared` two requests are a write and its hit, with
one change of settings anywhere before, in or between them. The proofs of section 4 remove
these bounds.

### Fairness

`FairSpec` has weak fairness for the pending call, for the service's answer, and
per context for receiver and player: asyncio runs every task that is ready, a
backend call ends with an answer or an exception, and the service's `run_tts`
ends or raises. Nothing is assumed of users (`StartRequest`, `EndTurn`,
`Interrupt`), failures, losses, or of which outcome a choice has. A backend
that never answers is excluded: it does hold up the player, since `push_frame`
awaits the writes.

In `RedisBackend` `FairSpec` has weak fairness for every call that was begun: a round
trip ends at `socket_timeout` at the latest (`redis.py:66`). Nothing is assumed of
which way it ends, of cancellation or of other programs.

No run disables the deadlock check: in `mixin_*`, `AllTurnsOver` is the one state in
which the mixin may stop, with every turn spent and every frame played.

## 4. What is proved

### The mixin

The proofs hold for every set of texts, all counts and lead-ins, both ways of
delivery, every kind of timestamps and any number of turns and requests, where not
said otherwise below; they rest on `ServiceAssumption`, `GrainAssumption`,
`BoundAssumption` and `TicksAssumption` alone.

* `TypeCorrect`: `Spec => []TypeOK`. `TypeOK` is not inductive: `StoreResponse`
  is well typed only if the slice of a task lies inside the capture. `TypeInv`
  adds that tasks of a capture are numbered by their words (`WellNumbered`), that
  a finalisation's remaining tasks are among those its guards let through and
  its Stopped frame is still at the head of the queue (`FinalizationOK`), and
  that a call belongs to the open turn. `SliceType`, `StoredTaskInRange` and
  `ResponseType` are the lemmas about `AudioSplit`.
* `NoCaptureLeftBehind`: `Spec => []NoOrphanCapture`, from `TurnInv`: stops exist
  only for turns that were given up, and such a turn is never registered again;
  so a popped capture does not come back and one that is registered still has a
  stop ahead of it or will be given one.
* `SpeechPlayedInOrder`: `Spec => []PlayedInRequestOrder`, for services that deliver
  before they return (`Delivery = "http"`; for the others `doc_order` shows the
  opposite). The property says nothing of what starts a request, so `OrderInv` adds
  that what is on the wire of the open turn belongs to the request in progress, that
  queue and wire are ordered, and that nothing answers a request that was not made
  yet.
* `CapturesArePure`: `Spec => []CapturePure`, from `PureInv`: the speech
  outstanding for a context that is registered, or may yet be, is speech of its
  registered texts. `faulted` is needed here: bypass and failure drop the
  registration and leave speech outstanding, which is what `doc_bypass` exploits.
* `EntriesAreOwnSpeech`: `Spec => []OwnSpeechOnly`, from `EntryInv`: without
  timestamps no capture of several texts passes the guards, and a lone text's
  pure capture is its own speech.
* `SpeechConserved`: `Spec => []CaptureConserved`, for every kind of service. Two
  invariants carry it. `StopInv`: nothing is ever behind the stop of a context,
  neither in its queue nor on its wire. `ConserveInv`: of every context whose
  capture is registered, or may yet be, what was captured and what is on its way
  are the speech and the timestamps of the registered texts, and the service's
  clock stands where that speech ends, which is why the timestamps of the next text
  fit.
* `EntriesSpokenExactly` and `StampsShowTheirWords`: `Spec => []SpokenExact` and
  `Spec => []StampsPointAtWords`, from `ExactInv`. By `StopInv` and `ConserveInv` a
  capture that `push_frame` pops is complete (`CompleteInv`); of a complete capture
  `UtteredAt` and `TimedAt` say where each sample and each timestamp of a text lies,
  `WordsAgree` that the words counted for each text are the ones it has timestamps
  for, `ShareSpoken` that its slice is its words and then the silence before the next
  text, and `ShareFaithful` that the shifted timestamps still point at their words.

The last two theorems assume `TellsTime`: the service has no word timestamps, or they
are cumulative and the parser errs in one direction only (`MiscountsOneWay`): for no
two texts does it find a word too few in the one and a word too many in the other.
Both parts are needed. Timestamps that restart with each text are cut wrongly
(`doc_reset`); and the guard compares totals, so two opposite miscounts in one
context ("well-known" spoken as two words, "10 000" as one) cancel out, and a word of
the one is stored under the other. Texts that are counted wrongly in one direction
are covered: when totals agree, every text of the context was counted right, which
is `WordsAgree`.

### Splitting

`AudioSplit_proofs`, for any number of tasks, words, timestamps and samples, any times,
any `TicksPerSample` and any times that are cut early or late, from `SizeAssumption`,
`TicksAssumption` and `RoundingAssumption`:
`SplitMatchesReference` and `SplitStampsFollow` state `MatchesReference` and
`StampsFollowTheirTask`. The invariant `SplitInv` only says what captures look like and
that what is written is what the operators of `AudioSplit` give; the work is in the
lemmas. `WordOwner`: the reference's list of whose word is whose (`TaskOfWord`, a
`FlattenSeq`) says task `i` just for the words behind its `first` and up to its end.
`WordAtBegun`: as times do not decrease, a word has begun when a sample plays just if it
is not after the last that has (`WordAt`). `CutNear`: a cut is at most one sample from
its time, and never behind the start of a sample; `CutsOrdered`: a later time is never cut
before an earlier one, which is why neighbours share no sample and lose none, however
times are rounded. `CutWordNear` says that the word a sample is cut to is spoken in it or
in one beside it, `HoldersOfSample` that the responses hold it accordingly.
`ShareOfTask` puts them together, `SliceLists` says what a slice holds. The mixin's
theorems use the operators on the captures it really makes; these say that the operators
are right on any.

### Sequences

`SequenceLemmas` is what the proofs of the mixin and of splitting know of sequences. Its
`InductionUpTo` is an induction principle without an operator parameter, obtained from
the least element of a set of natural numbers (`WFMin`, `NatLessThanWellFounded`); with
it `FlattenJoins` unfolds the recursive function inside `FlattenSeq`, and the rest
follows: joining distributes over concatenation, appending and taking the head.
`OrderExists` sorts by insertion: integers have an ascending rearrangement.
`AscendingUnique` says that two strictly ascending sequences of one length, of which one
holds nothing the other does not, are equal.

### The backends

For every set of keys and values, and any number of threads, processes or calls.

* `MemoryBackend_proofs`: `MemoryTypeCorrect`, `NeverOverfull`, `OrderIsUse`,
  `LeastRecentlyUsed`, `HitsAreLastSet` and `MemoryImplementsContract`, from
  `MemoryInv`. `LruGuarantee` alone is not inductive: that an evicted entry had as
  many others used after it as fit (`Evicted`) needs the order of the dict to be the
  order of use, the times of use to differ (`Numbered`), and what is cached to be
  what was set (`KeptIfCached`).
* `DiskBackend_proofs`: `TypeCorrect`, `LocksAreOwned`, `CountersAreExact`,
  `EntriesAreDurable`, `GetsAreWhole`, `ClearsLeaveNothingOld` and
  `DiskImplementsContract`. `CountInv` adds to `CountsExact` that a sum that is held is
  one ahead of the counters, which the lock keeps true; `EntriesInv` that a reader
  found what was in place when it read; `ClearInv` that every file of the scope
  which a clear has passed is gone, unreadable or spared, and that a path which was
  checked is in the scope, which holds although its content changes because the
  content of a path belongs to one key.
* `RedisBackend_proofs`: `RedisTypeCorrect` and `ClientIsShared`, from `ClientInv`, which
  adds that a `close` that overlaps nothing still has its client (`CloseAlone`);
  `RedisClearsLeaveNothingOld`, from `ClearInv`: once a scan has begun, a key of its
  scope is gone, in the batch at hand, still owed, or written since;
  `RedisImplementsContract`.

The refinements map a store to the answers that a get would give, at the present time
(`Shown`), and the calls as section 2 says (`Called`). Expiry is then an entry being
lost, by a step of the clock; what is read from a file, or from the server, has to be
what is shown at that moment and has to stay the answer while the call goes on. In the
memory backend a set that repeats the one before it changes nothing that the contract
sees, which is a step of it too (`SetIsSeen`).

### Services that share a cache

`SharedCache_proofs`, for any services, profiles and key function, with settings that
change at any time: `SharedTypeCorrect`; `SpeechFiledUnderItsKey`, from `SharedInv`, by
which the key of every call, task, entry and replay is the key of the request it was
looked up for, which is the request the speech was made for unless settings changed
during the lookup; `SpeechHeardAsAsked`, under the assumption that equal keys mean
requests that may share their speech.

With the keys of `CacheKey` the assumption is a theorem. `EqualKeysEqualRequests`, for
any values at all: equal keys mean the same namespace, provider, words, voice, model,
sample rate and settings as they are normalized. `KeysDecide`, for settings that are
usual (`UsualSettings`, see above) and requests that can be keyed: two keys are equal
exactly when `SameSpeech` holds. From it follow `RequestsIsolated` (`KeysIsolate`),
`RequestsAgree` (`KeysAgree`) and `RequestsHeardAsAsked` (`HeardAsAsked`), which assume
`KeysGenerated`: that requests are keyed by `GenerateKey`, that settings are usual and
that speech may be shared when it is the same. The instance of the run is such a one.

`KeysDecide` rests on `NormalAgrees`, one level of `normalize_value`: if the normal
forms of parts are equal exactly when the parts are the same, so it is with values made
of them, kind by kind. Fields and items are compared place by place (`PartsAgree`).
For sets (`SetsAgree`) sorting has to forget the order of iteration and nothing else
(`InOrderEqual`): a sorted list is a rearrangement, and the ranks of items that are
apart stay apart when they are normalized (`RanksKept`), so that there is one ascending
order. `FlatAgrees`, `ShallowAgrees` and `ValueAgrees` take the three levels in turn.
The level is written with a function for the parts (`NormalBy`, `EncodesBy`, `SameBy`)
because the provers cannot instantiate a lemma with an operator; `FlatUnfolds`,
`FlatSame` and their like say that the definitions of `CacheKey` are of this form.

### Only model-checked

Liveness (`TurnsDrain`, `CapturesReleased`, `CallsEnd`), which the prover does not reach.
Every invariant and action property that a run checks is also proved.

## 5. What is not modelled

* The pass-through of the mixin without a backend: it calls the service and keeps
  no state.
* `get_cache_stats`, `get_stats`, the hit and miss counters of the mixin and the
  counters of the memory backend: nothing else reads them, and they change
  without an await in between. The disk backend's counters, which threads share,
  are modelled.
* Sample formats, which are uniform in a context; the fields of the response
  dataclasses, which have no behaviour.
* A provider that drops out mid-context, when the base class closes the context
  early: whether and when it does is decided outside the repository. For the same
  reason a Stopped frame that never comes is not modelled: that the base class closes
  every context it does not drop is assumed, and if it did not, the capture would stay.
* A backend call that never ends (see Fairness).
* A command that the Redis server carries out after its call has been given up at the
  timeout: a set that returned False may still be stored, a delete still remove.
* Two texts of one context whose miscounted words cancel out: the guard compares
  totals, so they are split at the wrong place. No instance has such a pair, and the
  theorems about the exact content of an entry exclude it (`MiscountsOneWay`).
* Temporary files that a kill leaves in the cache directory: nothing reads or removes
  them.
* A clock that is set back, which brings expired entries back to life in the memory
  and disk backends.
* Characters with a meaning in SCAN patterns in a namespace (`redis.py:163`): the keys a
  pattern matches are a constant of `RedisBackend`. The other backends take a
  namespace literally.
* Package surface (`__init__.py`), examples, and logging.

The hazards of these parts are listed in `PROJECT.json`, with the reason why no
property covers them.

What would add most next: a composition of the mixin with a service that closes a
context early.
