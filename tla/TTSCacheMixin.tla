---------------------------- MODULE TTSCacheMixin ----------------------------
(***************************************************************************)
(* The capture-and-replay protocol of mixin.py, one mixin instance on top  *)
(* of a Pipecat TTS service and a cache backend.                           *)
(*                                                                         *)
(* A request is a text; it stands for the whole identity its cache key is  *)
(* made of.  The speech of a turn flows through three places:              *)
(*                                                                         *)
(*   wire[c]   what the service has still to send for audio context c      *)
(*   queue[c]  frames waiting in the audio context, in playing order       *)
(*   contexts  what push_frame and add_word_timestamps captured so far     *)
(*                                                                         *)
(* run_tts, the receiver of the service's messages, the player that calls  *)
(* push_frame and an interruption are separate tasks: between two awaits   *)
(* of one of them, which is where an action ends, the others run.          *)
(***************************************************************************)
EXTENDS AudioSplit, SequencesExt

CONSTANTS
  Texts,
  Words,        \* words the service speaks for a text, a unit of sound each
  Parsed,       \* words _parse_words_from_text finds in it
  Lead,         \* units it plays before the first word
  Delivery,     \* "http", all of a text's speech before run_tts returns,
                \* or "websocket", when the receiver gets it
  Timestamps,   \* "none", "cumulative" over the context, or "reset" per text
  Unkeyable,    \* texts whose key generation raises
  MayFail,      \* the service's run_tts may raise
  MaxContexts,  \* bound: turns, each with one audio context
  MaxRequests,  \* bound: calls of run_tts
  NoEntry

ASSUME ServiceAssumption ==
  /\ Words \in [Texts -> Nat \ {0}]
  /\ Parsed \in [Texts -> Nat]
  /\ Lead \in [Texts -> Nat]
  /\ Delivery \in {"http", "websocket"}
  /\ Timestamps \in {"none", "cumulative", "reset"}
  /\ Unkeyable \subseteq Texts
  /\ MayFail \in BOOLEAN

(* A unit of sound stands here for what AudioSplit calls a sample.  It is a *)
(* word's worth of samples, next to which the one sample that rounding may *)
(* move at a border (AudioSplit) does not count.                           *)
ASSUME GrainAssumption == CutEarly = {} /\ CutLate = {}

ASSUME BoundAssumption == MaxContexts \in Nat \ {0} /\ MaxRequests \in Nat

Contexts == 1..MaxContexts

(* A unit is known by the word it belongs to; word 0 is the lead-in. *)
Unit  == [text : Texts, word : Nat]
Stamp == [unit : Unit, time : Int]
Task  == [text : Texts, words : Nat, first : Nat]

Capture == [tasks : Seq(Task), audio : Seq(Unit), stamps : Seq(Stamp)]
EmptyCapture == [tasks |-> << >>, audio |-> << >>, stamps |-> << >>]

(* What the service sends: speech with its word timestamp, or the end of   *)
(* the context.  req is the request that speech, or a frame, answers.      *)
Message == [kind : {"speech", "stop"}, req : Nat,
            units : Seq(Unit), stamps : Seq(Stamp)]
StopMessage == [kind |-> "stop", req |-> 0, units |-> << >>, stamps |-> << >>]

(* "cached" is an audio frame that carries _CACHE_ORIGIN_ATTR. *)
Frame == [kind : {"audio", "cached", "stop"}, req : Nat, units : Seq(Unit)]
StopFrame == [kind |-> "stop", req |-> 0, units |-> << >>]

(* from: the audio context a response was captured in, for the properties. *)
Response == [audio : Seq(Unit), stamps : Seq(Stamp), from : Contexts]

NoCall == [at |-> "idle"]
Call == [at : {"lookup", "synth", "bypass"}, text : Texts] \cup {NoCall}

(* _finalize_context between two writes: its capture, the tasks left. *)
Finalizing == [cap : Capture, left : SUBSET Nat]
NotFinalizing == [cap |-> EmptyCapture, left |-> {}]

VARIABLES
  contexts,    \* _contexts, a dict from context_id to capture
  call,        \* the run_tts call in progress, always for context `turn'
  wire, queue, \* speech on its way, by context
  clock,       \* units the service was asked for, by context
  finalizing,  \* the player inside _finalize_context, by context
  cache,       \* what the backend holds
  hits, misses,
  turn,        \* the context of the current turn; older ones have ended
  started,     \* requests so far
  faulted      \* contexts that lost their capture to a failed request

counters == << hits, misses >>
history  == << started, faulted >>
vars == << contexts, call, wire, queue, clock, finalizing, cache, turn,
           counters, history >>

Backend == INSTANCE CacheStore
             WITH Keys <- Texts, Values <- Response, store <- cache

TypeOK ==
  /\ DOMAIN contexts \subseteq Contexts
  /\ contexts \in [DOMAIN contexts -> Capture]
  /\ call \in Call
  /\ wire \in [Contexts -> Seq(Message)]
  /\ queue \in [Contexts -> Seq(Frame)]
  /\ clock \in [Contexts -> Nat]
  /\ finalizing \in [Contexts -> Finalizing]
  /\ cache \in [Texts -> Response \cup {NoEntry}]
  /\ hits \in Nat /\ misses \in Nat
  /\ turn \in 1..MaxContexts + 1
  /\ started \in 0..MaxRequests
  /\ faulted \subseteq Contexts

Init ==
  /\ contexts = [c \in {} |-> EmptyCapture]
  /\ call = NoCall
  /\ wire = [c \in Contexts |-> << >>]
  /\ queue = [c \in Contexts |-> << >>]
  /\ clock = [c \in Contexts |-> 0]
  /\ finalizing = [c \in Contexts |-> NotFinalizing]
  /\ cache = [t \in Texts |-> NoEntry]
  /\ hits = 0 /\ misses = 0
  /\ turn = 1
  /\ started = 0
  /\ faulted = {}

-------------------------------------------------------------------------------
(* The service: one message per word, in the order of the text.            *)

LeadIn(t, w) ==
  IF w = 1 THEN [i \in 1..Lead[t] |-> [text |-> t, word |-> 0]] ELSE << >>

WordTime(t, w, start) ==
  LET within == Lead[t] + w - 1
  IN  TicksPerSample * (IF Timestamps = "reset" THEN within ELSE start + within)

WordStamps(t, w, start) ==
  IF Timestamps = "none" THEN << >>
  ELSE << [unit |-> [text |-> t, word |-> w], time |-> WordTime(t, w, start)] >>

Speech(t, start, req) ==
  [w \in 1..Words[t] |->
     [kind   |-> "speech", req |-> req,
      units  |-> LeadIn(t, w) \o << [text |-> t, word |-> w] >>,
      stamps |-> WordStamps(t, w, start)]]

(* super().run_tts(text, context_id) *)
Synthesize(t, req) ==
  /\ wire' = [wire EXCEPT ![turn] = @ \o Speech(t, clock[turn], req)]
  /\ clock' = [clock EXCEPT ![turn] = @ + Lead[t] + Words[t]]

-------------------------------------------------------------------------------
(* The dict of captures.                                                   *)

Registered(c) == c \in DOMAIN contexts

(* self._contexts.pop(c, None) *)
KeepInstead(c) == contexts
Without(c) == [d \in DOMAIN contexts \ {c} |-> contexts[d]]

(* self._contexts.get(c), with an empty capture for None *)
CaptureOf(c) == IF Registered(c) THEN contexts[c] ELSE EmptyCapture

(* setdefault(c, _ContextCapture()).tasks.append(task) *)
WithFreshTask(c, t) ==
  [d \in DOMAIN contexts \cup {c} |->
     IF d = c THEN [EmptyCapture EXCEPT !.tasks =
                      << [text |-> t, words |-> Parsed[t], first |-> 0] >>]
     ELSE contexts[d]]
WithTaskMisnumbered(c, t) ==
  [d \in DOMAIN contexts \cup {c} |->
     IF d = c THEN [CaptureOf(c) EXCEPT !.tasks = Append(@,
                      [text |-> t, words |-> Parsed[t],
                       first |-> TotalWords(CaptureOf(c).tasks) - 1])]
     ELSE contexts[d]]
WithTask(c, t) ==
  LET cap  == CaptureOf(c)
      task == [text |-> t, words |-> Parsed[t], first |-> TotalWords(cap.tasks)]
  IN  [d \in DOMAIN contexts \cup {c} |->
         IF d = c THEN [cap EXCEPT !.tasks = Append(@, task)] ELSE contexts[d]]

(* .word_timestamps.extend(word_times) *)
WithoutStamps(c, stamps) == contexts
WithStamps(c, stamps) ==
  [d \in DOMAIN contexts |->
     IF d = c THEN [contexts[d] EXCEPT !.stamps = @ \o stamps] ELSE contexts[d]]

(* .audio.append(chunk), for a frame that is not of cache origin *)
WithAnyAudio(c, frame) ==
  [d \in DOMAIN contexts |->
     IF d = c THEN [contexts[d] EXCEPT !.audio = @ \o frame.units] ELSE contexts[d]]
WithAudio(c, frame) ==
  [d \in DOMAIN contexts |->
     IF d = c /\ frame.kind = "audio"
     THEN [contexts[d] EXCEPT !.audio = @ \o frame.units] ELSE contexts[d]]

-------------------------------------------------------------------------------
(* run_tts                                                                 *)

MayStart == call = NoCall /\ turn <= MaxContexts /\ started < MaxRequests

(* The key is generated, then the call awaits the backend. *)
StartRequest(t) ==
  /\ MayStart
  /\ t \notin Unkeyable
  /\ started' = started + 1
  /\ call' = [at |-> "lookup", text |-> t]
  /\ UNCHANGED << contexts, wire, queue, clock, finalizing, cache, turn, faulted,
                  counters >>

(* Key generation raised: drop the capture of the context, synthesize. *)
BypassRequest(t) ==
  /\ MayStart
  /\ t \in Unkeyable
  /\ started' = started + 1
  /\ contexts' = Without(turn)
  /\ faulted' = faulted \cup {turn}
  /\ Synthesize(t, started')
  /\ call' = [at |-> "bypass", text |-> t]
  /\ UNCHANGED << queue, finalizing, cache, turn, counters >>

(* Replay into the audio context; the timestamps go to the base class only. *)
CachedFrame(response) ==
  [kind |-> "cached", req |-> started, units |-> response.audio]

PushedAtOnce(frames, frame) == << frame >> \o frames
IntoAudioContext(frames, frame) == Append(frames, frame)

Hit ==
  /\ call.at = "lookup"
  /\ cache[call.text] # NoEntry
  /\ Backend!Get(call.text, cache[call.text])
  /\ queue' = [queue EXCEPT ![turn] =
                  IntoAudioContext(@, CachedFrame(cache[call.text]))]
  /\ hits' = hits + 1
  /\ call' = NoCall
  /\ UNCHANGED << contexts, wire, clock, finalizing, misses, turn, history >>

(* A miss, or a backend that raised: register the text, then synthesize. *)
Miss ==
  /\ call.at = "lookup"
  /\ Backend!Get(call.text, NoEntry)
  /\ misses' = misses + 1
  /\ contexts' = WithTask(turn, call.text)
  /\ Synthesize(call.text, started)
  /\ call' = [call EXCEPT !.at = "synth"]
  /\ UNCHANGED << queue, finalizing, hits, turn, history >>

(* The service's run_tts returned; over a websocket its speech may still be *)
(* on the wire.                                                            *)
SynthReturn ==
  /\ call.at \in {"synth", "bypass"}
  /\ Delivery = "http" => wire[turn] = << >>
  /\ call' = NoCall
  /\ UNCHANGED << contexts, wire, queue, clock, finalizing, cache, turn,
                  counters, history >>

(* The service's run_tts raised and what it had not sent is lost.  A keyed *)
(* call drops the capture of the context and raises again.                 *)
SynthFail ==
  /\ MayFail
  /\ call.at \in {"synth", "bypass"}
  /\ \E n \in 0..Len(wire[turn]) :
       /\ \A i \in 1..Len(wire[turn]) : wire[turn][i].req = started <=> i > n
       /\ wire' = [wire EXCEPT ![turn] = SubSeq(@, 1, n)]
  /\ contexts' = IF call.at = "synth" THEN Without(turn) ELSE contexts
  /\ faulted' = faulted \cup {turn}
  /\ call' = NoCall
  /\ UNCHANGED << queue, clock, finalizing, cache, turn, started, counters >>

-------------------------------------------------------------------------------
(* The receiver of the service's messages.                                 *)

(* The base class closes the context once the LLM's turn is complete. *)
EndTurn ==
  /\ call = NoCall
  /\ turn <= MaxContexts
  /\ wire' = [wire EXCEPT ![turn] = Append(@, StopMessage)]
  /\ turn' = turn + 1
  /\ UNCHANGED << contexts, call, queue, clock, finalizing, cache, counters,
                  history >>

(* add_word_timestamps, and the audio into the audio context. *)
ReceiveSpeech(c) ==
  /\ wire[c] # << >>
  /\ LET message == Head(wire[c])
     IN  /\ message.kind = "speech"
         /\ contexts' = WithStamps(c, message.stamps)
         /\ queue' = [queue EXCEPT ![c] =
                        Append(@, [kind |-> "audio", req |-> message.req,
                                   units |-> message.units])]
  /\ wire' = [wire EXCEPT ![c] = Tail(@)]
  /\ UNCHANGED << call, clock, finalizing, cache, turn, counters, history >>

ReceiveStop(c) ==
  /\ wire[c] # << >>
  /\ Head(wire[c]).kind = "stop"
  /\ queue' = [queue EXCEPT ![c] = Append(@, StopFrame)]
  /\ wire' = [wire EXCEPT ![c] = Tail(@)]
  /\ UNCHANGED << contexts, call, clock, finalizing, cache, turn, counters,
                  history >>

-------------------------------------------------------------------------------
(* The player: push_frame, frame by frame.                                 *)

(* super().push_frame(frame, direction) *)
Withheld(frames) == frames
Forwarded(frames) == Tail(frames)

PushAudio(c) ==
  /\ queue[c] # << >>
  /\ Head(queue[c]).kind \in {"audio", "cached"}
  /\ contexts' = WithAudio(c, Head(queue[c]))
  /\ queue' = [queue EXCEPT ![c] = Forwarded(@)]
  /\ UNCHANGED << call, wire, clock, finalizing, cache, turn, counters, history >>

(* _finalize_context takes the capture before its first await; the Stopped *)
(* frame is pushed on at once when there is nothing to write.              *)
PushStopped(c) ==
  /\ queue[c] # << >>
  /\ Head(queue[c]).kind = "stop"
  /\ finalizing[c].left = {}
  /\ LET cap == CaptureOf(c)
     IN  IF StoredTasks(cap) = {}
         THEN /\ queue' = [queue EXCEPT ![c] = Forwarded(@)]
              /\ UNCHANGED finalizing
         ELSE /\ finalizing' = [finalizing EXCEPT ![c] =
                                  [cap |-> cap, left |-> StoredTasks(cap)]]
              /\ UNCHANGED queue
  /\ contexts' = Without(c)
  /\ UNCHANGED << call, wire, clock, cache, turn, counters, history >>

ResponseOf(cap, i, c) ==
  [audio |-> ResponseAudio(cap, i), stamps |-> ResponseStamps(cap, i), from |-> c]

(* The loop of _store_split_tasks goes through the tasks in order. *)
IsNext(i, left) == i \in left /\ \A j \in left : i <= j

(* _store_response: the backend stores, or refuses or raises, and either   *)
(* way the loop goes on; after its last write the Stopped frame is pushed. *)
StoreResponse(c) ==
  \E i \in finalizing[c].left :
    LET cap  == finalizing[c].cap
        left == finalizing[c].left \ {i}
    IN  /\ IsNext(i, finalizing[c].left)
        /\ \/ Backend!Put(cap.tasks[i].text, ResponseOf(cap, i, c))
           \/ Backend!PutFailed
        /\ finalizing' = [finalizing EXCEPT ![c] =
                            IF left = {} THEN NotFinalizing
                                         ELSE [cap |-> cap, left |-> left]]
        /\ queue' = IF left = {} THEN [queue EXCEPT ![c] = Forwarded(@)] ELSE queue
        /\ UNCHANGED << contexts, call, wire, clock, turn, counters, history >>

-------------------------------------------------------------------------------
(* Interruption, and entries leaving the backend.                          *)

(* self._contexts.clear() *)
ContextsKept == contexts
AfterInterruption == [c \in {} |-> EmptyCapture]

(* An interruption cancels the call and gives up the turn.  The base class *)
(* then drops the frames in flight and cancels the player; or, late, what  *)
(* was received is still played and only the service is cut off.           *)
CutOff(c) ==
  IF c = turn \/ wire[c] # << >> THEN << StopMessage >> ELSE << >>

Interrupt(late) ==
  /\ turn <= MaxContexts
  /\ contexts' = AfterInterruption
  /\ call' = NoCall
  /\ turn' = turn + 1
  /\ IF late
     THEN /\ wire' = [c \in Contexts |-> CutOff(c)]
          /\ UNCHANGED << queue, finalizing >>
     ELSE /\ wire' = [c \in Contexts |-> << >>]
          /\ queue' = [c \in Contexts |-> << >>]
          /\ finalizing' = [c \in Contexts |-> NotFinalizing]
  /\ UNCHANGED << clock, cache, counters, history >>

(* clear_cache, expiry, or another client of the backend. *)
Lose ==
  /\ \E gone \in SUBSET { t \in Texts : cache[t] # NoEntry } :
       gone # {} /\ Backend!Lose(gone)
  /\ UNCHANGED << contexts, call, wire, queue, clock, finalizing, turn, counters,
                  history >>

(* Every turn has been used up and has been played to its end. *)
AllTurnsOver ==
  /\ turn > MaxContexts
  /\ \A c \in Contexts : wire[c] = << >> /\ queue[c] = << >>
  /\ UNCHANGED vars

Next ==
  \/ \E t \in Texts : StartRequest(t)
  \/ \E t \in Texts : BypassRequest(t)
  \/ Hit
  \/ Miss
  \/ SynthReturn
  \/ SynthFail
  \/ EndTurn
  \/ \E c \in Contexts : ReceiveSpeech(c)
  \/ \E c \in Contexts : ReceiveStop(c)
  \/ \E c \in Contexts : PushAudio(c)
  \/ \E c \in Contexts : PushStopped(c)
  \/ \E c \in Contexts : StoreResponse(c)
  \/ \E late \in BOOLEAN : Interrupt(late)
  \/ Lose
  \/ AllTurnsOver

Spec == Init /\ [][Next]_vars

(* The event loop runs every task that is ready, the backend answers, and  *)
(* the service's run_tts comes to an end.                                  *)
Fairness ==
  /\ WF_vars(Hit \/ Miss)
  /\ WF_vars(SynthReturn \/ SynthFail)
  /\ \A c \in Contexts :
       /\ WF_vars(ReceiveSpeech(c) \/ ReceiveStop(c))
       /\ WF_vars(PushAudio(c) \/ PushStopped(c) \/ StoreResponse(c))

FairSpec == Spec /\ Fairness

-------------------------------------------------------------------------------
(* Safety                                                                  *)

TaskTexts(cap) == { cap.tasks[i].text : i \in DOMAIN cap.tasks }

Pure(cap) == \A p \in DOMAIN cap.audio : cap.audio[p].text \in TaskTexts(cap)

(***************************************************************************)
(* While no request of a context failed, its capture only holds speech of  *)
(* texts registered in that capture: neither replayed speech nor speech of *)
(* a request that left no task behind.  push_frame captures long after     *)
(* run_tts registered, with other calls, turns and interruptions between.  *)
(***************************************************************************)
CapturePure ==
  \A c \in Contexts \ faulted :
    /\ Pure(CaptureOf(c))
    /\ Pure(finalizing[c].cap)

(***************************************************************************)
(* No capture is left behind: while one is registered its turn is still    *)
(* open, or the Stopped frame that will make push_frame pop it is on its   *)
(* way.  A capture nobody pops would stay in _contexts for the life of the *)
(* service.                                                                *)
(***************************************************************************)
StopAhead(c) ==
  \/ \E i \in DOMAIN wire[c] : wire[c][i].kind = "stop"
  \/ \E i \in DOMAIN queue[c] : queue[c][i].kind = "stop"

NoOrphanCapture ==
  \A c \in DOMAIN contexts : c < turn => StopAhead(c)

(***************************************************************************)
(* While no request of a context failed, nothing it owes its texts is lost,*)
(* doubled or reordered: the captured audio, the live frames queued behind *)
(* it and the speech still on the wire make up, in order, the speech of    *)
(* the registered texts; the timestamps captured and on the wire are those *)
(* of their words.                                                         *)
(***************************************************************************)
Sentence(t) == [w \in 1..Words[t] |-> [text |-> t, word |-> w]]

Silence(t) == [i \in 1..Lead[t] |-> [text |-> t, word |-> 0]]

Uttered(texts) ==
  FlattenSeq([i \in DOMAIN texts |-> Silence(texts[i]) \o Sentence(texts[i])])

Pointers(t, start) ==
  IF Timestamps = "none" THEN << >>
  ELSE [w \in 1..Words[t] |->
          [unit |-> Sentence(t)[w], time |-> WordTime(t, w, start)]]

Timed(texts) ==
  FlattenSeq([i \in DOMAIN texts |->
                Pointers(texts[i], Len(Uttered(SubSeq(texts, 1, i - 1))))])

TextsOf(cap) == [i \in DOMAIN cap.tasks |-> cap.tasks[i].text]

LiveUnits(frames) ==
  FlattenSeq([i \in DOMAIN frames |->
                IF frames[i].kind = "audio" THEN frames[i].units ELSE << >>])

UnitsSent(messages) == FlattenSeq([i \in DOMAIN messages |-> messages[i].units])
StampsSent(messages) == FlattenSeq([i \in DOMAIN messages |-> messages[i].stamps])

CaptureConserved ==
  \A c \in DOMAIN contexts \ faulted :
    LET cap == contexts[c]
    IN  /\ cap.audio \o LiveUnits(queue[c]) \o UnitsSent(wire[c]) = Uttered(TextsOf(cap))
        /\ cap.stamps \o StampsSent(wire[c]) = Timed(TextsOf(cap))

(***************************************************************************)
(* Unless a request of its context failed, the entry of a text holds every *)
(* word of that text once, in order and without a gap, and otherwise only  *)
(* silence: whatever was reused, split, interrupted or replayed on the way *)
(* to _store_response.                                                     *)
(***************************************************************************)
Speaks(audio, t) ==
  \E from \in 0..Len(audio) - Words[t] :
    \A p \in DOMAIN audio :
      IF p \in from+1..from+Words[t] THEN audio[p] = Sentence(t)[p - from]
                                     ELSE audio[p].word = 0

SpokenExact ==
  \A t \in Texts :
    cache[t] # NoEntry /\ cache[t].from \notin faulted => Speaks(cache[t].audio, t)

(***************************************************************************)
(* A service without word timestamps only ever has lone tasks cached, so   *)
(* there the entry of a text holds no sample of another one, not even the  *)
(* silence before it.                                                      *)
(***************************************************************************)
OwnSpeechOnly ==
  Timestamps = "none" =>
    \A t \in Texts :
      cache[t] # NoEntry /\ cache[t].from \notin faulted =>
        \A p \in DOMAIN cache[t].audio : cache[t].audio[p].text = t

(***************************************************************************)
(* A replayed timestamp shows its word when the audio stored with it plays *)
(* it, although timestamps are captured when the service sends them and    *)
(* audio when it is pushed, and a slice is shifted to begin at 0.          *)
(***************************************************************************)
StampsPointAtWords ==
  \A t \in Texts :
    cache[t] # NoEntry /\ cache[t].from \notin faulted =>
      \A i \in DOMAIN cache[t].stamps :
        LET p == SampleAt(cache[t].stamps[i].time) + 1
        IN  /\ p \in DOMAIN cache[t].audio
            /\ cache[t].audio[p] = cache[t].stamps[i].unit

(***************************************************************************)
(* Within an audio context speech is played in the order it was asked for, *)
(* cached or live: no frame overtakes speech of an earlier request that is *)
(* still queued or on the wire (_yield_cached_frames).                     *)
(***************************************************************************)
PlayedInRequestOrder ==
  \A c \in Contexts : \A i \in DOMAIN queue[c] :
    /\ \A j \in DOMAIN queue[c] :
         i < j /\ queue[c][j].kind # "stop" => queue[c][i].req <= queue[c][j].req
    /\ \A j \in DOMAIN wire[c] :
         wire[c][j].kind = "speech" => queue[c][i].req <= wire[c][j].req

(***************************************************************************)
(* What the documentation says of the faulty cases, without the exception  *)
(* for them made above.  The code does not keep these.                     *)
(***************************************************************************)

(* An un-keyed request never reaches the cache under a sibling's text.      *)
BypassedNeverCached ==
  \A t \in Texts : cache[t] # NoEntry =>
    \A p \in DOMAIN cache[t].audio : cache[t].audio[p].text \notin Unkeyable

(* An entry never holds words of another text.                              *)
NothingMisattributed ==
  \A t \in Texts : cache[t] # NoEntry =>
    \A p \in DOMAIN cache[t].audio :
      cache[t].audio[p].word > 0 => cache[t].audio[p].text = t

-------------------------------------------------------------------------------
(* Liveness                                                                *)

(***************************************************************************)
(* Whatever the backend answers, the speech and the Stopped frame of a     *)
(* turn that has ended are all forwarded: a capture or a write never       *)
(* blocks the player (push_frame awaits _finalize_context).                *)
(***************************************************************************)
TurnsDrain ==
  \A c \in Contexts : turn > c ~> wire[c] = << >> /\ queue[c] = << >>

(* The capture of a turn that has ended is released (_finalize_context). *)
CapturesReleased == \A c \in Contexts : turn > c ~> ~Registered(c)
==============================================================================
