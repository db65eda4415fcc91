------------------------- MODULE TTSCacheMixin_proofs -------------------------
(***************************************************************************)
(* Proofs about TTSCacheMixin, for every set of texts, every number of     *)
(* contexts and requests, and every service of the modelled kinds: types,  *)
(* turns and the stops that end them, the order speech is played in, and   *)
(* whose speech captures and entries are.                                  *)
(***************************************************************************)
EXTENDS TTSCacheMixin, TLAPS

(* Later tasks of a capture begin after the words of the earlier ones. *)
WellNumbered(cap) ==
  \A i, j \in 1..Len(cap.tasks) :
    i < j => cap.tasks[i].first + cap.tasks[i].words <= cap.tasks[j].first

(* A finalisation only writes what its capture justifies, and holds the    *)
(* Stopped frame back while it does.                                       *)
FinalizationOK(c) ==
  /\ WellNumbered(finalizing[c].cap)
  /\ finalizing[c].left \subseteq StoredTasks(finalizing[c].cap)
  /\ finalizing[c].left # {} => queue[c] # << >> /\ Head(queue[c]).kind = "stop"

(* A run_tts call belongs to the open turn. *)
CallInTurn == call # NoCall => turn \in Contexts

TypeInv ==
  /\ TypeOK
  /\ CallInTurn
  /\ \A c \in DOMAIN contexts : WellNumbered(contexts[c])
  /\ \A c \in Contexts : FinalizationOK(c)

-------------------------------------------------------------------------------
(* AudioSplit                                                              *)

(* Cutting audio at any two times yields audio of the same samples.         *)
LEMMA SliceType ==
  ASSUME NEW S, NEW audio \in Seq(S), NEW start \in Int, NEW end \in Int
  PROVE  /\ Slice(audio, start, end) \in Seq(S)
         /\ \A p \in DOMAIN Slice(audio, start, end) :
              \E q \in DOMAIN audio : Slice(audio, start, end)[p] = audio[q]
<1>1. SampleAt(start) \in Int /\ SampleAt(end) \in Int
  BY TicksAssumption DEF SampleAt
<1> DEFINE from == IF SampleAt(start) > 0 THEN SampleAt(start) ELSE 0
           to   == IF SampleAt(end) < Len(audio) THEN SampleAt(end) ELSE Len(audio)
           len  == IF from < to THEN to - from ELSE 0
<1>2. from \in Nat /\ to \in Int /\ to <= Len(audio) /\ len \in Nat
  BY <1>1
<1>3. \A p \in 1..len : from + p \in DOMAIN audio
  BY <1>2
<1>4. Slice(audio, start, end) = [p \in 1..len |-> audio[from + p]]
  BY DEF Slice
<1> QED
  BY <1>2, <1>3, <1>4, SMTT(30)

(* The words of a task that is stored lie within the captured timestamps,   *)
(* so that its times, audio and timestamps are defined.                     *)
LEMMA StoredTaskInRange ==
  ASSUME NEW cap \in Capture, WellNumbered(cap),
         NEW i \in StoredTasks(cap), Len(cap.tasks) > 1
  PROVE  /\ i \in 1..Len(cap.tasks)
         /\ cap.tasks[i].words > 0
         /\ cap.tasks[i].first + cap.tasks[i].words <= Len(cap.stamps)
<1>0. cap.tasks \in Seq(Task) /\ Len(cap.tasks) \in Nat
  BY DEF Capture
<1>1. /\ i \in 1..Len(cap.tasks)
      /\ Splittable(cap) /\ cap.tasks[i].words > 0
      /\ cap.tasks # << >>
  BY <1>0 DEF StoredTasks, Splittable
<1>2. cap.tasks[i] \in Task /\ cap.tasks[Len(cap.tasks)] \in Task
  BY <1>0, <1>1
<1>3. cap.tasks[i].first + cap.tasks[i].words <= TotalWords(cap.tasks)
  <2> DEFINE n == Len(cap.tasks)
  <2>1. CASE i = n
    BY <1>1, <1>2, <2>1 DEF TotalWords, Task
  <2>2. CASE i # n
    <3>1. i < n /\ n \in 1..Len(cap.tasks)
      BY <1>1, <2>2 DEF Capture
    <3>2. cap.tasks[i].first + cap.tasks[i].words <= cap.tasks[n].first
      BY <1>1, <3>1 DEF WellNumbered
    <3> QED
      BY <1>1, <1>2, <3>2 DEF TotalWords, Task
  <2> QED
    BY <2>1, <2>2
<1> QED
  BY <1>1, <1>3 DEF Splittable

(* What is written for a stored task is a response, of captured samples.    *)
LEMMA ResponseType ==
  ASSUME NEW cap \in Capture, WellNumbered(cap),
         NEW i \in StoredTasks(cap), NEW c \in Contexts
  PROVE  /\ i \in 1..Len(cap.tasks)
         /\ ResponseOf(cap, i, c) \in Response
         /\ \A p \in DOMAIN ResponseOf(cap, i, c).audio :
              \E q \in DOMAIN cap.audio : ResponseOf(cap, i, c).audio[p] = cap.audio[q]
<1>0. cap.audio \in Seq(Unit) /\ cap.stamps \in Seq(Stamp) /\ cap.tasks \in Seq(Task)
  BY DEF Capture
<1>1. CASE ~(Len(cap.tasks) > 1)
  <2>1. i \in 1..Len(cap.tasks)
    BY DEF StoredTasks
  <2> QED
    BY <1>0, <1>1, <2>1 DEF ResponseOf, ResponseAudio, ResponseStamps, Response
<1>2. CASE Len(cap.tasks) > 1
  <2>1. /\ i \in 1..Len(cap.tasks)
        /\ cap.tasks[i].words > 0
        /\ cap.tasks[i].first + cap.tasks[i].words <= Len(cap.stamps)
    BY <1>2, StoredTaskInRange
  <2>2. cap.tasks[i].first \in Nat /\ cap.tasks[i].words \in Nat
    <3>1. cap.tasks[i] \in Task
      BY <1>0, <2>1
    <3> QED
      BY <3>1 DEF Task
  <2>3. \A j \in 1..cap.tasks[i].words : cap.stamps[cap.tasks[i].first + j] \in Stamp
    BY <1>0, <2>1, <2>2, SMTT(30)
  <2>4. StartTime(cap, i) \in Int
    BY <1>0, <2>1, <2>2, <2>3, SMTT(30) DEF StartTime, Stamp
  <2>5. EndTime(cap, i) \in Int
    <3>1. Duration(cap.audio) \in Int
      BY <1>0, TicksAssumption DEF Duration
    <3>2. CASE cap.tasks[i].first + cap.tasks[i].words + 1 <= Len(cap.stamps)
      <4>1. cap.stamps[cap.tasks[i].first + cap.tasks[i].words + 1] \in Stamp
        BY <1>0, <2>2, <3>2, SMTT(30)
      <4> QED
        BY <3>2, <4>1 DEF EndTime, Stamp
    <3> QED
      BY <3>1, <3>2 DEF EndTime
  <2>6. /\ ResponseAudio(cap, i) \in Seq(Unit)
        /\ \A p \in DOMAIN ResponseAudio(cap, i) :
             \E q \in DOMAIN cap.audio : ResponseAudio(cap, i)[p] = cap.audio[q]
    BY <1>0, <1>2, <2>4, <2>5, SliceType DEF ResponseAudio, TaskAudio
  <2>7. ResponseStamps(cap, i) \in Seq(Stamp)
    <3>1. \A j \in 1..cap.tasks[i].words :
            LET stamp == cap.stamps[cap.tasks[i].first + j]
            IN  [unit |-> stamp.unit, time |-> stamp.time - StartTime(cap, i)] \in Stamp
      BY <2>3, <2>4 DEF Stamp
    <3>2. Normalized(cap, i) \in [1..cap.tasks[i].words -> Stamp]
      BY <3>1 DEF Normalized
    <3>3. ResponseStamps(cap, i) = Normalized(cap, i)
      BY <1>2 DEF ResponseStamps
    <3> QED
      BY <2>2, <3>2, <3>3
  <2> QED
    BY <2>1, <2>6, <2>7 DEF ResponseOf, Response
<1> QED
  BY <1>1, <1>2

-------------------------------------------------------------------------------
(* Captures and messages                                                   *)

(* The dict of captures is well formed. *)
CapturesOK(dict) ==
  /\ DOMAIN dict \subseteq Contexts
  /\ dict \in [DOMAIN dict -> Capture]
  /\ \A c \in DOMAIN dict : WellNumbered(dict[c])

(* What WithTask starts a capture from. *)
LEMMA EmptyCaptureOK == EmptyCapture \in Capture /\ WellNumbered(EmptyCapture)
  BY DEF EmptyCapture, Capture, WellNumbered

(* Replacing one field of a capture. *)
LEMMA CaptureExcept ==
  ASSUME NEW cap \in Capture
  PROVE  /\ \A v \in Seq(Task) :
              LET new == [cap EXCEPT !.tasks = v]
              IN  /\ new \in Capture /\ new.tasks = v
                  /\ new.audio = cap.audio /\ new.stamps = cap.stamps
         /\ \A v \in Seq(Unit) :
              LET new == [cap EXCEPT !.audio = v]
              IN  /\ new \in Capture /\ new.audio = v
                  /\ new.tasks = cap.tasks /\ new.stamps = cap.stamps
         /\ \A v \in Seq(Stamp) :
              LET new == [cap EXCEPT !.stamps = v]
              IN  /\ new \in Capture /\ new.stamps = v
                  /\ new.tasks = cap.tasks /\ new.audio = cap.audio
  BY DEF Capture

(* A capture that is read is a capture, registered or not. *)
LEMMA CaptureOfOK ==
  ASSUME CapturesOK(contexts), NEW c \in Contexts
  PROVE  CaptureOf(c) \in Capture /\ WellNumbered(CaptureOf(c))
  BY EmptyCaptureOK DEF CapturesOK, CaptureOf, Registered

(* Dropping a capture leaves captures. *)
LEMMA WithoutOK ==
  ASSUME CapturesOK(contexts), NEW c
  PROVE  CapturesOK(Without(c))
  BY DEF CapturesOK, Without

(* A task appended to a capture begins after all words before it. *)
LEMMA WithTaskOK ==
  ASSUME CapturesOK(contexts), NEW c \in Contexts, NEW t \in Texts
  PROVE  CapturesOK(WithTask(c, t))
<1> DEFINE cap  == CaptureOf(c)
           task == [text |-> t, words |-> Parsed[t], first |-> TotalWords(cap.tasks)]
           new  == [cap EXCEPT !.tasks = Append(@, task)]
<1>1. cap \in Capture /\ WellNumbered(cap)
  BY CaptureOfOK
<1>2. cap.tasks \in Seq(Task) /\ Len(cap.tasks) \in Nat
  BY <1>1 DEF Capture
<1>3. \A i \in 1..Len(cap.tasks) :
        cap.tasks[i].first \in Nat /\ cap.tasks[i].words \in Nat
  <2>1. \A i \in 1..Len(cap.tasks) : cap.tasks[i] \in Task
    BY <1>2
  <2> QED
    BY <2>1 DEF Task
<1>4. TotalWords(cap.tasks) \in Nat
  BY <1>2, <1>3 DEF TotalWords
<1>5. \A i \in 1..Len(cap.tasks) :
        cap.tasks[i].first + cap.tasks[i].words <= TotalWords(cap.tasks)
  <2> SUFFICES ASSUME NEW i \in 1..Len(cap.tasks)
               PROVE  cap.tasks[i].first + cap.tasks[i].words <= TotalWords(cap.tasks)
    OBVIOUS
  <2> DEFINE n == Len(cap.tasks)
  <2>1. CASE i = n
    BY <1>2, <1>3, <2>1 DEF TotalWords
  <2>2. CASE i < n
    <3>1. n \in 1..Len(cap.tasks)
      BY <1>2
    <3>2. cap.tasks[i].first + cap.tasks[i].words <= cap.tasks[n].first
      BY <1>1, <2>2, <3>1 DEF WellNumbered
    <3>3. /\ cap.tasks[n].first \in Nat /\ cap.tasks[n].words \in Nat
          /\ cap.tasks[i].first \in Nat /\ cap.tasks[i].words \in Nat
      BY <1>3, <3>1
    <3>4. TotalWords(cap.tasks) = cap.tasks[n].first + cap.tasks[n].words
      BY <1>2, <3>1 DEF TotalWords
    <3> QED
      BY <3>2, <3>3, <3>4, SMTT(30)
  <2> QED
    BY <1>2, <2>1, <2>2
<1>6. task \in Task
  BY <1>4, ServiceAssumption DEF Task
<1>7. new \in Capture /\ new.tasks = Append(cap.tasks, task)
  <2>1. Append(cap.tasks, task) \in Seq(Task)
    BY <1>2, <1>6
  <2> QED
    BY <1>1, <2>1, CaptureExcept
<1>8. WellNumbered(new)
  <2> SUFFICES ASSUME NEW i \in 1..Len(cap.tasks)+1, NEW j \in 1..Len(cap.tasks)+1, i < j
               PROVE  new.tasks[i].first + new.tasks[i].words <= new.tasks[j].first
    <3> HIDE DEF new
    <3>1. Len(new.tasks) = Len(cap.tasks) + 1
      BY <1>2, <1>6, <1>7
    <3> QED
      BY <3>1 DEF WellNumbered
  <2>1. i \in 1..Len(cap.tasks) /\ new.tasks[i] = cap.tasks[i]
    BY <1>2, <1>6, <1>7
  <2>2. CASE j \in 1..Len(cap.tasks)
    BY <1>1, <1>2, <1>6, <1>7, <2>1, <2>2 DEF WellNumbered
  <2>3. CASE j = Len(cap.tasks) + 1
    BY <1>2, <1>5, <1>6, <1>7, <2>1, <2>3
  <2> QED
    BY <1>2, <2>2, <2>3
<1> QED
  BY <1>7, <1>8 DEF CapturesOK, WithTask

(* Captured speech leaves the tasks of a capture alone. *)
LEMMA WithStampsOK ==
  ASSUME CapturesOK(contexts), NEW c, NEW stamps \in Seq(Stamp)
  PROVE  CapturesOK(WithStamps(c, stamps))
<1>1. ASSUME NEW d \in DOMAIN contexts
      PROVE  LET new == [contexts[d] EXCEPT !.stamps = @ \o stamps]
             IN  new \in Capture /\ new.tasks = contexts[d].tasks
  <2>1. contexts[d] \in Capture
    BY DEF CapturesOK
  <2>2. contexts[d].stamps \o stamps \in Seq(Stamp)
    BY <2>1 DEF Capture
  <2> QED
    BY <2>1, <2>2, CaptureExcept
<1> QED
  BY <1>1 DEF CapturesOK, WithStamps, WellNumbered

(* Capturing the audio of a frame leaves captures. *)
LEMMA WithAudioOK ==
  ASSUME CapturesOK(contexts), NEW c, NEW frame \in Frame
  PROVE  CapturesOK(WithAudio(c, frame))
<1>1. ASSUME NEW d \in DOMAIN contexts
      PROVE  LET new == [contexts[d] EXCEPT !.audio = @ \o frame.units]
             IN  new \in Capture /\ new.tasks = contexts[d].tasks
  <2>1. contexts[d] \in Capture
    BY DEF CapturesOK
  <2>2. contexts[d].audio \o frame.units \in Seq(Unit)
    BY <2>1 DEF Capture, Frame
  <2> QED
    BY <2>1, <2>2, CaptureExcept
<1> QED
  BY <1>1 DEF CapturesOK, WithAudio, WellNumbered

(* The service speaks in messages of the text it was given. *)
LEMMA SpeechType ==
  ASSUME NEW t \in Texts, NEW start \in Nat, NEW req \in Nat
  PROVE  /\ Speech(t, start, req) \in Seq(Message)
         /\ \A w \in DOMAIN Speech(t, start, req) :
              /\ Speech(t, start, req)[w].kind = "speech"
              /\ Timestamps = "none" => Speech(t, start, req)[w].stamps = << >>
              /\ \A p \in DOMAIN Speech(t, start, req)[w].units :
                   Speech(t, start, req)[w].units[p].text = t
<1>0. Words[t] \in Nat /\ Lead[t] \in Nat
  BY ServiceAssumption
<1> DEFINE speech == Speech(t, start, req)
           Good(message) ==
             /\ message \in Message
             /\ message.kind = "speech"
             /\ Timestamps = "none" => message.stamps = << >>
             /\ \A p \in DOMAIN message.units : message.units[p].text = t
<1> SUFFICES ASSUME NEW w \in 1..Words[t]
             PROVE  Good(speech[w])
  <2>1. DOMAIN speech = 1..Words[t]
    BY DEF Speech
  <2>2. speech \in Seq(Message)
    <3>1. speech \in [1..Words[t] -> Message]
      BY DEF Speech
    <3> QED
      BY <1>0, <3>1
  <2> QED
    BY <2>1, <2>2
<1>1. [text |-> t, word |-> 0] \in Unit /\ [text |-> t, word |-> w] \in Unit
  BY <1>0 DEF Unit
<1>2. /\ LeadIn(t, w) \in Seq(Unit)
      /\ \A p \in DOMAIN LeadIn(t, w) : LeadIn(t, w)[p].text = t
  BY <1>0, <1>1 DEF LeadIn
<1> DEFINE units == LeadIn(t, w) \o << [text |-> t, word |-> w] >>
<1>3. /\ units \in Seq(Unit)
      /\ \A p \in DOMAIN units : units[p].text = t
  BY <1>1, <1>2
<1>4. WordTime(t, w, start) \in Int
  BY <1>0, TicksAssumption DEF WordTime
<1>5. WordStamps(t, w, start) \in Seq(Stamp)
  <2>1. [unit |-> [text |-> t, word |-> w], time |-> WordTime(t, w, start)] \in Stamp
    BY <1>1, <1>4 DEF Stamp
  <2>2. << [unit |-> [text |-> t, word |-> w], time |-> WordTime(t, w, start)] >>
          \in Seq(Stamp)
    BY <2>1
  <2> QED
    BY <2>2 DEF WordStamps
<1>6. Timestamps = "none" => WordStamps(t, w, start) = << >>
  BY DEF WordStamps
<1> QED
  BY <1>3, <1>5, <1>6 DEF Speech, Message

(* Asking the service for speech only extends what is on the wire. *)
LEMMA SynthesizeType ==
  ASSUME TypeOK, turn \in Contexts, NEW t \in Texts, NEW req \in Nat, Synthesize(t, req)
  PROVE  wire' \in [Contexts -> Seq(Message)] /\ clock' \in [Contexts -> Nat]
<1>1. wire[turn] \in Seq(Message) /\ clock[turn] \in Nat
  BY DEF TypeOK
<1>2. Words[t] \in Nat /\ Lead[t] \in Nat
  BY ServiceAssumption
<1>3. Speech(t, clock[turn], req) \in Seq(Message)
  BY <1>1, SpeechType
<1>4. wire[turn] \o Speech(t, clock[turn], req) \in Seq(Message)
  BY <1>1, <1>3
<1>5. clock[turn] + Lead[t] + Words[t] \in Nat
  BY <1>1, <1>2
<1> QED
  BY <1>4, <1>5 DEF Synthesize, TypeOK

-------------------------------------------------------------------------------
(* Type correctness                                                        *)

(* The invariant types the captures. *)
LEMMA TypeInvCaptures == TypeInv => CapturesOK(contexts)
  BY DEF TypeInv, TypeOK, CapturesOK

(* A finalisation is undisturbed by what leaves its Stopped frame in place. *)
LEMMA FinalizationKept ==
  ASSUME TypeInv, UNCHANGED finalizing,
         \A c \in Contexts :
           queue[c] # << >> /\ Head(queue[c]).kind = "stop" =>
             queue'[c] # << >> /\ Head(queue'[c]) = Head(queue[c])
  PROVE  \A c \in Contexts : FinalizationOK(c)'
  BY DEF TypeInv, FinalizationOK

(* A frame put into an audio context leaves the head of its queue. *)
LEMMA AppendFrame ==
  ASSUME TypeOK, NEW c \in Contexts, NEW f \in Frame,
         queue' = [queue EXCEPT ![c] = Append(@, f)]
  PROVE  /\ queue' \in [Contexts -> Seq(Frame)]
         /\ \A d \in Contexts :
              queue[d] # << >> => queue'[d] # << >> /\ Head(queue'[d]) = Head(queue[d])
<1>1. queue[c] \in Seq(Frame)
  BY DEF TypeOK
<1>2. /\ Append(queue[c], f) \in Seq(Frame)
      /\ queue[c] # << >> => /\ Append(queue[c], f) # << >>
                             /\ Head(Append(queue[c], f)) = Head(queue[c])
  BY <1>1
<1> QED
  BY <1>2 DEF TypeOK

(* The invariant holds in the beginning. *)
LEMMA InitTypeInv == Init => TypeInv
<1> SUFFICES ASSUME Init PROVE TypeInv
  OBVIOUS
<1>1. NotFinalizing \in Finalizing
  BY EmptyCaptureOK DEF NotFinalizing, Finalizing
<1>2. TypeOK
  BY <1>1, BoundAssumption DEF Init, TypeOK, Call, Contexts
<1>3. \A c \in Contexts : FinalizationOK(c)
  BY EmptyCaptureOK DEF Init, FinalizationOK, NotFinalizing
<1> QED
  BY <1>2, <1>3 DEF Init, TypeInv, CallInTurn

(* Every step preserves it. *)
LEMMA NextTypeInv == TypeInv /\ [Next]_vars => TypeInv'
<1> SUFFICES ASSUME TypeInv, [Next]_vars PROVE TypeInv'
  OBVIOUS
<1>0. TypeOK /\ CapturesOK(contexts)
  BY TypeInvCaptures DEF TypeInv
<1>1. ASSUME NEW t \in Texts, StartRequest(t) PROVE TypeInv'
  <2>1. \A c \in Contexts : FinalizationOK(c)'
    BY <1>1, FinalizationKept DEF StartRequest
  <2>2. call' \in Call /\ started' \in 0..MaxRequests /\ turn \in Contexts
    BY <1>0, <1>1, BoundAssumption DEF StartRequest, MayStart, TypeOK, Call, Contexts
  <2> QED
    BY <1>0, <1>1, <2>1, <2>2
    DEF StartRequest, TypeInv, TypeOK, CallInTurn, counters
<1>2. ASSUME NEW t \in Texts, BypassRequest(t) PROVE TypeInv'
  <2>1. \A c \in Contexts : FinalizationOK(c)'
    BY <1>2, FinalizationKept DEF BypassRequest
  <2>2. call' \in Call /\ started' \in 0..MaxRequests /\ turn \in Contexts
    BY <1>0, <1>2, BoundAssumption DEF BypassRequest, MayStart, TypeOK, Call, Contexts
  <2>3. CapturesOK(contexts')
    BY <1>0, <1>2, WithoutOK DEF BypassRequest
  <2>4. wire' \in [Contexts -> Seq(Message)] /\ clock' \in [Contexts -> Nat]
    <3>1. Synthesize(t, started') /\ started' \in Nat
      BY <1>2, <2>2, BoundAssumption DEF BypassRequest
    <3> QED
      BY <1>0, <2>2, <3>1, SynthesizeType
  <2> QED
    BY <1>0, <1>2, <2>1, <2>2, <2>3, <2>4
    DEF BypassRequest, TypeInv, TypeOK, CapturesOK, CallInTurn, counters
<1>3. ASSUME Hit PROVE TypeInv'
  <2>1. call \in Call /\ call # NoCall /\ turn \in Contexts
    BY <1>0, <1>3 DEF Hit, TypeInv, CallInTurn, NoCall, TypeOK
  <2>2. call.text \in Texts
    BY <1>3, <2>1 DEF Call, NoCall, Hit
  <2>3. cache[call.text] \in Response
    BY <1>0, <1>3, <2>2 DEF Hit, TypeOK
  <2>4. CachedFrame(cache[call.text]) \in Frame
    BY <1>0, <2>3, BoundAssumption DEF CachedFrame, Frame, Response, TypeOK
  <2>5. queue' = [queue EXCEPT ![turn] = Append(@, CachedFrame(cache[call.text]))]
    BY <1>3 DEF Hit, IntoAudioContext
  <2>6. queue' \in [Contexts -> Seq(Frame)]
    BY <1>0, <2>1, <2>4, <2>5, AppendFrame
  <2>7. \A c \in Contexts : FinalizationOK(c)'
    BY <1>0, <1>3, <2>1, <2>4, <2>5, AppendFrame, FinalizationKept DEF Hit
  <2>8. cache' = cache /\ hits' \in Nat
    BY <1>0, <1>3 DEF Hit, Backend!Get, TypeOK
  <2> QED
    BY <1>0, <1>3, <2>6, <2>7, <2>8
    DEF Hit, TypeInv, TypeOK, CallInTurn, Call, history
<1>4. ASSUME Miss PROVE TypeInv'
  <2>1. call \in Call /\ call # NoCall /\ turn \in Contexts
    BY <1>0, <1>4 DEF Miss, TypeInv, CallInTurn, NoCall, TypeOK
  <2>2. call.text \in Texts /\ call' \in Call
    BY <1>4, <2>1 DEF Call, NoCall, Miss
  <2>3. CapturesOK(contexts')
    BY <1>0, <1>4, <2>1, <2>2, WithTaskOK DEF Miss
  <2>4. wire' \in [Contexts -> Seq(Message)] /\ clock' \in [Contexts -> Nat]
    <3>1. Synthesize(call.text, started) /\ started \in Nat
      BY <1>0, <1>4, BoundAssumption DEF Miss, TypeOK
    <3> QED
      BY <1>0, <2>1, <2>2, <3>1, SynthesizeType
  <2>5. \A c \in Contexts : FinalizationOK(c)'
    BY <1>4, FinalizationKept DEF Miss
  <2>6. cache' = cache /\ misses' \in Nat
    BY <1>0, <1>4 DEF Miss, Backend!Get, TypeOK
  <2> QED
    BY <1>0, <1>4, <2>1, <2>2, <2>3, <2>4, <2>5, <2>6
    DEF Miss, TypeInv, TypeOK, CapturesOK, CallInTurn, history
<1>5. ASSUME SynthReturn PROVE TypeInv'
  <2>1. \A c \in Contexts : FinalizationOK(c)'
    BY <1>5, FinalizationKept DEF SynthReturn
  <2> QED
    BY <1>0, <1>5, <2>1
    DEF SynthReturn, TypeInv, TypeOK, CallInTurn, Call, counters, history
<1>6. ASSUME SynthFail PROVE TypeInv'
  <2>1. \A c \in Contexts : FinalizationOK(c)'
    BY <1>6, FinalizationKept DEF SynthFail
  <2>2. CapturesOK(contexts')
    BY <1>0, <1>6, WithoutOK DEF SynthFail
  <2>3. turn \in Contexts
    BY <1>0, <1>6 DEF SynthFail, TypeInv, CallInTurn, NoCall
  <2>4. wire' \in [Contexts -> Seq(Message)]
    <3>1. PICK n \in 0..Len(wire[turn]) :
            wire' = [wire EXCEPT ![turn] = SubSeq(@, 1, n)]
      BY <1>6 DEF SynthFail
    <3>2. wire[turn] \in Seq(Message)
      BY <1>0, <2>3 DEF TypeOK
    <3>3. SubSeq(wire[turn], 1, n) \in Seq(Message)
      BY <3>1, <3>2
    <3> QED
      BY <1>0, <3>1, <3>3 DEF TypeOK
  <2> QED
    BY <1>0, <1>6, <2>1, <2>2, <2>3, <2>4
    DEF SynthFail, TypeInv, TypeOK, CapturesOK, CallInTurn, Call, counters
<1>7. ASSUME EndTurn PROVE TypeInv'
  <2>1. \A c \in Contexts : FinalizationOK(c)'
    BY <1>7, FinalizationKept DEF EndTurn
  <2>2. turn \in Contexts /\ turn' \in 1..MaxContexts + 1
    BY <1>0, <1>7, BoundAssumption DEF EndTurn, TypeOK, Contexts
  <2>3. wire' \in [Contexts -> Seq(Message)]
    <3>1. StopMessage \in Message
      BY DEF StopMessage, Message
    <3>2. Append(wire[turn], StopMessage) \in Seq(Message)
      BY <1>0, <2>2, <3>1 DEF TypeOK
    <3> QED
      BY <1>0, <1>7, <3>2 DEF EndTurn, TypeOK
  <2> QED
    BY <1>0, <1>7, <2>1, <2>2, <2>3
    DEF EndTurn, TypeInv, TypeOK, CallInTurn, counters, history
<1>8. ASSUME NEW c \in Contexts, ReceiveSpeech(c) PROVE TypeInv'
  <2> DEFINE message == Head(wire[c])
             f == [kind |-> "audio", req |-> message.req, units |-> message.units]
  <2>1. message \in Message /\ wire' \in [Contexts -> Seq(Message)]
    <3>1. wire[c] \in Seq(Message) /\ wire[c] # << >>
      BY <1>0, <1>8 DEF ReceiveSpeech, TypeOK
    <3>2. Head(wire[c]) \in Message /\ Tail(wire[c]) \in Seq(Message)
      BY <3>1
    <3> QED
      BY <1>0, <1>8, <3>2 DEF ReceiveSpeech, TypeOK
  <2>2. message.stamps \in Seq(Stamp) /\ f \in Frame
    BY <2>1 DEF Message, Frame
  <2>3. CapturesOK(contexts')
    BY <1>0, <1>8, <2>2, WithStampsOK DEF ReceiveSpeech
  <2>4. queue' = [queue EXCEPT ![c] = Append(@, f)]
    BY <1>8 DEF ReceiveSpeech
  <2>5. /\ queue' \in [Contexts -> Seq(Frame)]
        /\ \A d \in Contexts : FinalizationOK(d)'
    BY <1>0, <1>8, <2>2, <2>4, AppendFrame, FinalizationKept DEF ReceiveSpeech
  <2> QED
    BY <1>0, <1>8, <2>1, <2>3, <2>5
    DEF ReceiveSpeech, TypeInv, TypeOK, CapturesOK, CallInTurn, counters, history
<1>9. ASSUME NEW c \in Contexts, ReceiveStop(c) PROVE TypeInv'
  <2>1. wire' \in [Contexts -> Seq(Message)]
    <3>1. wire[c] \in Seq(Message) /\ wire[c] # << >>
      BY <1>0, <1>9 DEF ReceiveStop, TypeOK
    <3>2. Tail(wire[c]) \in Seq(Message)
      BY <3>1
    <3> QED
      BY <1>0, <1>9, <3>2 DEF ReceiveStop, TypeOK
  <2>2. StopFrame \in Frame /\ queue' = [queue EXCEPT ![c] = Append(@, StopFrame)]
    BY <1>9 DEF ReceiveStop, StopFrame, Frame
  <2>3. /\ queue' \in [Contexts -> Seq(Frame)]
        /\ \A d \in Contexts : FinalizationOK(d)'
    BY <1>0, <1>9, <2>2, AppendFrame, FinalizationKept DEF ReceiveStop
  <2> QED
    BY <1>0, <1>9, <2>1, <2>3
    DEF ReceiveStop, TypeInv, TypeOK, CallInTurn, counters, history
<1>10. ASSUME NEW c \in Contexts, PushAudio(c) PROVE TypeInv'
  <2>1. queue[c] \in Seq(Frame) /\ queue[c] # << >>
    BY <1>0, <1>10 DEF PushAudio, TypeOK
  <2>2. Head(queue[c]) \in Frame /\ Tail(queue[c]) \in Seq(Frame)
    BY <2>1
  <2>3. CapturesOK(contexts')
    BY <1>0, <1>10, <2>2, WithAudioOK DEF PushAudio
  <2>4. queue' = [queue EXCEPT ![c] = Tail(@)] /\ Head(queue[c]).kind # "stop"
    BY <1>10 DEF PushAudio, Forwarded
  <2>5. queue' \in [Contexts -> Seq(Frame)]
    BY <1>0, <2>2, <2>4 DEF TypeOK
  <2>6. \A d \in Contexts : FinalizationOK(d)'
    <3>1. \A d \in Contexts \ {c} : queue'[d] = queue[d]
      BY <1>0, <2>4 DEF TypeOK
    <3> QED
      BY <1>10, <2>4, <3>1, FinalizationKept DEF PushAudio
  <2> QED
    BY <1>0, <1>10, <2>3, <2>5, <2>6
    DEF PushAudio, TypeInv, TypeOK, CapturesOK, CallInTurn, counters, history
<1>11. ASSUME NEW c \in Contexts, PushStopped(c) PROVE TypeInv'
  <2> DEFINE cap == CaptureOf(c)
  <2>1. cap \in Capture /\ WellNumbered(cap) /\ StoredTasks(cap) \subseteq Nat
    BY <1>0, CaptureOfOK DEF StoredTasks
  <2>2. CapturesOK(contexts')
    BY <1>0, <1>11, WithoutOK DEF PushStopped
  <2>3. /\ queue[c] \in Seq(Frame) /\ queue[c] # << >>
        /\ Tail(queue[c]) \in Seq(Frame)
    BY <1>0, <1>11 DEF PushStopped, TypeOK
  <2>4. CASE StoredTasks(cap) = {}
    <3>1. queue' = [queue EXCEPT ![c] = Tail(@)] /\ finalizing' = finalizing
      BY <1>11, <2>4 DEF PushStopped, Forwarded
    <3>2. queue' \in [Contexts -> Seq(Frame)]
      BY <1>0, <2>3, <3>1 DEF TypeOK
    <3>3. \A d \in Contexts : FinalizationOK(d)'
      BY <1>0, <1>11, <3>1 DEF PushStopped, TypeInv, TypeOK, FinalizationOK
    <3> QED
      BY <1>0, <1>11, <2>2, <3>1, <3>2, <3>3
      DEF PushStopped, TypeInv, TypeOK, CapturesOK, CallInTurn, counters, history
  <2>5. CASE StoredTasks(cap) # {}
    <3> DEFINE new == [cap |-> cap, left |-> StoredTasks(cap)]
    <3>1. queue' = queue /\ finalizing' = [finalizing EXCEPT ![c] = new]
      BY <1>11, <2>5 DEF PushStopped
    <3>2. new \in Finalizing
      BY <2>1 DEF Finalizing
    <3>3. \A d \in Contexts : FinalizationOK(d)'
      BY <1>0, <1>11, <2>1, <3>1 DEF PushStopped, TypeInv, TypeOK, FinalizationOK
    <3> QED
      BY <1>0, <1>11, <2>2, <3>1, <3>2, <3>3
      DEF PushStopped, TypeInv, TypeOK, CapturesOK, CallInTurn, counters, history
  <2> QED
    BY <2>4, <2>5
<1>12. ASSUME NEW c \in Contexts, StoreResponse(c) PROVE TypeInv'
  <2> DEFINE cap == finalizing[c].cap
  <2>1. PICK i \in finalizing[c].left :
          LET left == finalizing[c].left \ {i}
          IN  /\ \/ Backend!Put(cap.tasks[i].text, ResponseOf(cap, i, c))
                 \/ Backend!PutFailed
              /\ finalizing' = [finalizing EXCEPT ![c] =
                                  IF left = {} THEN NotFinalizing
                                               ELSE [cap |-> cap, left |-> left]]
              /\ queue' = IF left = {} THEN [queue EXCEPT ![c] = Tail(@)] ELSE queue
              /\ UNCHANGED << contexts, call, wire, clock, turn, counters, history >>
    BY <1>12 DEF StoreResponse, Forwarded
  <2> DEFINE left == finalizing[c].left \ {i}
  <2>2. /\ cap \in Capture /\ WellNumbered(cap)
        /\ finalizing[c].left \subseteq StoredTasks(cap)
        /\ finalizing[c].left \subseteq Nat
        /\ queue[c] # << >> /\ Head(queue[c]).kind = "stop"
    BY <1>0, <2>1 DEF TypeInv, TypeOK, FinalizationOK, Finalizing
  <2>3. cache' \in [Texts -> Response \cup {NoEntry}]
    <3>1. ResponseOf(cap, i, c) \in Response
      BY <2>1, <2>2, ResponseType
    <3>2. CASE Backend!Put(cap.tasks[i].text, ResponseOf(cap, i, c))
      BY <1>0, <3>1, <3>2 DEF Backend!Put, TypeOK
    <3>3. CASE Backend!PutFailed
      BY <1>0, <3>3 DEF Backend!PutFailed, TypeOK
    <3> QED
      BY <2>1, <3>2, <3>3
  <2>4. queue[c] \in Seq(Frame) /\ Tail(queue[c]) \in Seq(Frame)
    BY <1>0, <2>2 DEF TypeOK
  <2>5. CASE left = {}
    <3>1. /\ queue' = [queue EXCEPT ![c] = Tail(@)]
          /\ finalizing' = [finalizing EXCEPT ![c] = NotFinalizing]
      BY <2>1, <2>5
    <3>2. queue' \in [Contexts -> Seq(Frame)]
      BY <1>0, <2>4, <3>1 DEF TypeOK
    <3>3. finalizing' \in [Contexts -> Finalizing]
      BY <1>0, <3>1, EmptyCaptureOK DEF TypeOK, NotFinalizing, Finalizing
    <3>4. \A d \in Contexts : FinalizationOK(d)'
      BY <1>0, <3>1, EmptyCaptureOK DEF TypeInv, TypeOK, FinalizationOK, NotFinalizing
    <3> QED
      BY <1>0, <2>1, <2>3, <3>2, <3>3, <3>4
      DEF TypeInv, TypeOK, CallInTurn, counters, history
  <2>6. CASE left # {}
    <3>1. /\ queue' = queue
          /\ finalizing' = [finalizing EXCEPT ![c] = [cap |-> cap, left |-> left]]
      BY <2>1, <2>6
    <3>2. finalizing' \in [Contexts -> Finalizing]
      BY <1>0, <2>2, <3>1 DEF TypeOK, Finalizing
    <3>3. \A d \in Contexts : FinalizationOK(d)'
      BY <1>0, <2>2, <3>1 DEF TypeInv, TypeOK, FinalizationOK
    <3> QED
      BY <1>0, <2>1, <2>3, <3>1, <3>2, <3>3
      DEF TypeInv, TypeOK, CallInTurn, counters, history
  <2> QED
    BY <2>5, <2>6
<1>13. ASSUME NEW late \in BOOLEAN, Interrupt(late) PROVE TypeInv'
  <2>1. CapturesOK(contexts')
    BY <1>13 DEF Interrupt, AfterInterruption, CapturesOK
  <2>2. call' \in Call /\ call' = NoCall /\ turn' \in 1..MaxContexts + 1
    BY <1>0, <1>13, BoundAssumption DEF Interrupt, Call, TypeOK
  <2>3. wire' \in [Contexts -> Seq(Message)]
    <3>1. << StopMessage >> \in Seq(Message) /\ << >> \in Seq(Message)
      BY DEF StopMessage, Message
    <3>2. \A c \in Contexts : CutOff(c) \in Seq(Message)
      BY <3>1 DEF CutOff
    <3>3. CASE late
      <4>1. wire' = [c \in Contexts |-> CutOff(c)]
        BY <1>13, <3>3 DEF Interrupt
      <4> QED
        BY <3>2, <4>1
    <3>4. CASE ~late
      <4>1. wire' = [c \in Contexts |-> << >>]
        BY <1>13, <3>4 DEF Interrupt
      <4> QED
        BY <3>1, <4>1
    <3> QED
      BY <3>3, <3>4
  <2>4. CASE late
    <3>1. queue' = queue /\ finalizing' = finalizing
      BY <1>13, <2>4 DEF Interrupt
    <3>2. \A c \in Contexts : FinalizationOK(c)'
      BY <3>1 DEF TypeInv, FinalizationOK
    <3> QED
      BY <1>0, <1>13, <2>1, <2>2, <2>3, <3>1, <3>2
      DEF Interrupt, TypeInv, TypeOK, CapturesOK, CallInTurn, counters, history
  <2>5. CASE ~late
    <3>1. /\ queue' = [c \in Contexts |-> << >>]
          /\ finalizing' = [c \in Contexts |-> NotFinalizing]
      BY <1>13, <2>5 DEF Interrupt
    <3>2. NotFinalizing \in Finalizing
      BY EmptyCaptureOK DEF NotFinalizing, Finalizing
    <3>3. \A c \in Contexts : FinalizationOK(c)'
      BY <3>1, EmptyCaptureOK DEF FinalizationOK, NotFinalizing
    <3> QED
      BY <1>0, <1>13, <2>1, <2>2, <2>3, <3>1, <3>2, <3>3
      DEF Interrupt, TypeInv, TypeOK, CapturesOK, CallInTurn, counters, history
  <2> QED
    BY <2>4, <2>5
<1>14. ASSUME Lose PROVE TypeInv'
  <2>1. cache' \in [Texts -> Response \cup {NoEntry}]
    BY <1>0, <1>14 DEF Lose, Backend!Lose, TypeOK
  <2>2. \A c \in Contexts : FinalizationOK(c)'
    BY <1>14, FinalizationKept DEF Lose
  <2> QED
    BY <1>0, <1>14, <2>1, <2>2
    DEF Lose, TypeInv, TypeOK, CallInTurn, counters, history
<1>15. CASE UNCHANGED vars
  BY <1>15 DEF vars, counters, history, TypeInv, TypeOK, CallInTurn, FinalizationOK
<1> QED
  BY <1>1, <1>2, <1>3, <1>4, <1>5, <1>6, <1>7, <1>8, <1>9, <1>10, <1>11, <1>12,
     <1>13, <1>14, <1>15
  DEF Next, AllTurnsOver

(***************************************************************************)
(* Type correctness, for every instance: in particular every slice the     *)
(* finalisation takes of a capture lies inside it, so that what is written *)
(* to the backend is a response (_store_split_tasks).                      *)
(***************************************************************************)
THEOREM TypeInvariant == Spec => []TypeInv
<1>1. Init => TypeInv
  BY InitTypeInv
<1>2. TypeInv /\ [Next]_vars => TypeInv'
  BY NextTypeInv
<1> QED
  BY <1>1, <1>2, PTL DEF Spec

(* Type correctness of the mixin (run_tts, push_frame, _finalize_context). *)
THEOREM TypeCorrect == Spec => []TypeOK
<1>1. TypeInv => TypeOK
  BY DEF TypeInv
<1> QED
  BY <1>1, TypeInvariant, PTL

-------------------------------------------------------------------------------
(* Turns and stops                                                         *)

HasStop(s) == \E i \in DOMAIN s : s[i].kind = "stop"

(***************************************************************************)
(* Captures, stops and finalisations against the turn.  A stop is only     *)
(* sent when a turn is given up, and a turn once given up gets no further  *)
(* request, so a capture popped by push_frame is not registered again.     *)
(***************************************************************************)
TurnInv ==
  /\ \A c \in DOMAIN contexts : c <= turn
  /\ \A c \in DOMAIN contexts : c < turn => HasStop(wire[c]) \/ HasStop(queue[c])
  /\ \A c \in Contexts : wire[c] # << >> => c <= turn
  /\ \A c \in Contexts : HasStop(wire[c]) \/ HasStop(queue[c]) => c < turn
  /\ \A c \in Contexts : finalizing[c].left # {} => c < turn /\ c \notin DOMAIN contexts

-------------------------------------------------------------------------------
(* Stops in a sequence of messages or frames                               *)

(* Stops of a sequence that grows by one element. *)
LEMMA StopAppended ==
  ASSUME NEW S, NEW s \in Seq(S), NEW e \in S
  PROVE  HasStop(Append(s, e)) <=> HasStop(s) \/ e.kind = "stop"
<1>1. /\ DOMAIN Append(s, e) = 1..Len(s)+1
      /\ \A i \in 1..Len(s) : Append(s, e)[i] = s[i]
      /\ Append(s, e)[Len(s)+1] = e
      /\ Len(s) \in Nat
  OBVIOUS
<1>2. DOMAIN s = 1..Len(s)
  OBVIOUS
<1>3. \A i \in 1..Len(s)+1 : i \in 1..Len(s) \/ i = Len(s)+1
  BY <1>1
<1>4. \A i \in 1..Len(s) : i \in 1..Len(s)+1
  BY <1>1
<1>5. Len(s)+1 \in 1..Len(s)+1
  BY <1>1
<1> QED
  BY <1>1, <1>2, <1>3, <1>4, <1>5 DEF HasStop

(* Stops of a sequence whose head is taken. *)
LEMMA StopTail ==
  ASSUME NEW S, NEW s \in Seq(S), s # << >>
  PROVE  /\ HasStop(Tail(s)) => HasStop(s)
         /\ HasStop(s) => HasStop(Tail(s)) \/ Head(s).kind = "stop"
<1>1. /\ DOMAIN Tail(s) = 1..Len(s)-1
      /\ \A i \in 1..Len(s)-1 : Tail(s)[i] = s[i+1]
      /\ Head(s) = s[1]
      /\ Len(s) \in Nat /\ DOMAIN s = 1..Len(s)
  OBVIOUS
<1>2. \A i \in 1..Len(s)-1 : i + 1 \in 1..Len(s)
  BY <1>1
<1>3. ASSUME NEW i \in 1..Len(s), s[i].kind = "stop", s[1].kind # "stop"
      PROVE  HasStop(Tail(s))
  <2>1. i - 1 \in 1..Len(s)-1 /\ (i - 1) + 1 = i
    BY <1>1, <1>3
  <2>2. Tail(s)[i-1] = s[i]
    BY <1>1, <2>1
  <2> QED
    BY <1>1, <1>3, <2>1, <2>2 DEF HasStop
<1>4. HasStop(Tail(s)) => HasStop(s)
  BY <1>1, <1>2 DEF HasStop
<1> QED
  BY <1>1, <1>3, <1>4 DEF HasStop

(* Stops of two sequences in a row. *)
LEMMA StopConcat ==
  ASSUME NEW S, NEW s \in Seq(S), NEW r \in Seq(S),
         \A i \in DOMAIN r : r[i].kind # "stop"
  PROVE  HasStop(s \o r) <=> HasStop(s)
<1>1. /\ DOMAIN (s \o r) = 1..Len(s)+Len(r)
      /\ \A i \in 1..Len(s) : (s \o r)[i] = s[i]
      /\ \A i \in Len(s)+1..Len(s)+Len(r) : (s \o r)[i] = r[i - Len(s)]
      /\ DOMAIN s = 1..Len(s) /\ DOMAIN r = 1..Len(r)
      /\ Len(s) \in Nat /\ Len(r) \in Nat
  OBVIOUS
<1>2. \A i \in 1..Len(s)+Len(r) :
        i \in 1..Len(s) \/ (i \in Len(s)+1..Len(s)+Len(r) /\ i - Len(s) \in 1..Len(r))
  BY <1>1
<1>3. \A i \in 1..Len(s) : i \in 1..Len(s)+Len(r)
  BY <1>1
<1> QED
  BY <1>1, <1>2, <1>3 DEF HasStop

(* A prefix has no stop of its own. *)
LEMMA StopPrefix ==
  ASSUME NEW S, NEW s \in Seq(S), NEW n \in 0..Len(s)
  PROVE  HasStop(SubSeq(s, 1, n)) => HasStop(s)
<1>1. /\ DOMAIN SubSeq(s, 1, n) = 1..n
      /\ \A i \in 1..n : SubSeq(s, 1, n)[i] = s[i] /\ i \in 1..Len(s)
      /\ DOMAIN s = 1..Len(s)
  OBVIOUS
<1> QED
  BY <1>1 DEF HasStop

(* Asking for speech sends no stop. *)
LEMMA SynthesizeStops ==
  ASSUME TypeOK, turn \in Contexts, NEW t \in Texts, NEW req \in Nat, Synthesize(t, req)
  PROVE  \A c \in Contexts : /\ HasStop(wire'[c]) <=> HasStop(wire[c])
                             /\ c # turn => wire'[c] = wire[c]
<1> DEFINE speech == Speech(t, clock[turn], req)
<1>1. wire[turn] \in Seq(Message) /\ clock[turn] \in Nat
  BY DEF TypeOK
<1>2. speech \in Seq(Message) /\ \A w \in DOMAIN speech : speech[w].kind # "stop"
  BY <1>1, SpeechType
<1>3. HasStop(wire[turn] \o speech) <=> HasStop(wire[turn])
  BY <1>1, <1>2, StopConcat
<1> QED
  BY <1>3 DEF Synthesize, TypeOK

-------------------------------------------------------------------------------
(* No capture is left behind                                               *)

(* The invariant holds in the beginning. *)
LEMMA InitTurnInv == Init => TurnInv
  BY DEF Init, TurnInv, HasStop, NotFinalizing, Contexts

(* Every step preserves it. *)
LEMMA NextTurnInv == TypeInv /\ TurnInv /\ [Next]_vars => TurnInv'
<1> SUFFICES ASSUME TypeInv, TurnInv, [Next]_vars PROVE TurnInv'
  OBVIOUS
<1>0. /\ TypeOK /\ CallInTurn
      /\ turn \in Nat /\ Contexts \subseteq Nat
      /\ DOMAIN contexts \subseteq Contexts
      /\ \A c \in Contexts : wire[c] \in Seq(Message) /\ queue[c] \in Seq(Frame)
  BY BoundAssumption, SMTT(30) DEF TypeInv, TypeOK, Contexts
<1>1. ASSUME NEW t \in Texts, StartRequest(t) PROVE TurnInv'
  BY <1>1 DEF StartRequest, TurnInv
<1>2. ASSUME NEW t \in Texts, BypassRequest(t) PROVE TurnInv'
  <2>1. turn \in Contexts /\ started' \in Nat
    BY <1>0, <1>2, BoundAssumption DEF BypassRequest, MayStart, TypeOK, Contexts
  <2>2. \A c \in Contexts : /\ HasStop(wire'[c]) <=> HasStop(wire[c])
                            /\ c # turn => wire'[c] = wire[c]
    BY <1>0, <1>2, <2>1, SynthesizeStops DEF BypassRequest
  <2>3. DOMAIN contexts' \subseteq DOMAIN contexts
    BY <1>2 DEF BypassRequest, Without
  <2> QED
    BY <1>0, <1>2, <2>1, <2>2, <2>3 DEF BypassRequest, TurnInv
<1>3. ASSUME Hit PROVE TurnInv'
  <2>1. call \in Call /\ call # NoCall /\ turn \in Contexts
    BY <1>0, <1>3 DEF Hit, CallInTurn, NoCall, TypeOK
  <2>2. call.text \in Texts
    BY <1>3, <2>1 DEF Call, NoCall, Hit
  <2>3. CachedFrame(cache[call.text]) \in Frame
    <3>1. cache[call.text] \in Response
      BY <1>0, <1>3, <2>2 DEF Hit, TypeOK
    <3> QED
      BY <1>0, <3>1, BoundAssumption DEF CachedFrame, Frame, Response, TypeOK
  <2>4. \A c \in Contexts : HasStop(queue'[c]) <=> HasStop(queue[c])
    <3>1. queue' = [queue EXCEPT ![turn] = Append(@, CachedFrame(cache[call.text]))]
      BY <1>3 DEF Hit, IntoAudioContext
    <3>2. CachedFrame(cache[call.text]).kind # "stop"
      BY DEF CachedFrame
    <3>3. HasStop(Append(queue[turn], CachedFrame(cache[call.text])))
            <=> HasStop(queue[turn])
      BY <1>0, <2>1, <2>3, <3>2, StopAppended
    <3> QED
      BY <1>0, <3>1, <3>3 DEF TypeOK
  <2> QED
    BY <1>0, <1>3, <2>4 DEF Hit, TurnInv
<1>4. ASSUME Miss PROVE TurnInv'
  <2>1. call \in Call /\ call # NoCall /\ turn \in Contexts /\ started \in Nat
    BY <1>0, <1>4, BoundAssumption DEF Miss, CallInTurn, NoCall, TypeOK
  <2>2. call.text \in Texts
    BY <1>4, <2>1 DEF Call, NoCall, Miss
  <2>3. \A c \in Contexts : /\ HasStop(wire'[c]) <=> HasStop(wire[c])
                            /\ c # turn => wire'[c] = wire[c]
    BY <1>0, <1>4, <2>1, <2>2, SynthesizeStops DEF Miss
  <2>4. DOMAIN contexts' = DOMAIN contexts \cup {turn}
    BY <1>4 DEF Miss, WithTask
  <2> QED
    BY <1>0, <1>4, <2>1, <2>3, <2>4 DEF Miss, TurnInv
<1>5. ASSUME SynthReturn PROVE TurnInv'
  BY <1>5 DEF SynthReturn, TurnInv
<1>6. ASSUME SynthFail PROVE TurnInv'
  <2>1. turn \in Contexts
    BY <1>0, <1>6 DEF SynthFail, CallInTurn, NoCall
  <2>2. \A c \in Contexts : /\ HasStop(wire'[c]) => HasStop(wire[c])
                            /\ c # turn => wire'[c] = wire[c]
    <3>1. PICK n \in 0..Len(wire[turn]) :
            wire' = [wire EXCEPT ![turn] = SubSeq(@, 1, n)]
      BY <1>6 DEF SynthFail
    <3>2. HasStop(SubSeq(wire[turn], 1, n)) => HasStop(wire[turn])
      BY <1>0, <2>1, StopPrefix
    <3> QED
      BY <1>0, <3>1, <3>2 DEF TypeOK
  <2>3. DOMAIN contexts' \subseteq DOMAIN contexts
    BY <1>6 DEF SynthFail, Without
  <2> QED
    BY <1>0, <1>6, <2>1, <2>2, <2>3 DEF SynthFail, TurnInv
<1>7. ASSUME EndTurn PROVE TurnInv'
  <2>1. turn \in Contexts
    BY <1>0, <1>7, BoundAssumption DEF EndTurn, TypeOK, Contexts
  <2>2. /\ HasStop(wire'[turn])
        /\ \A c \in Contexts \ {turn} : wire'[c] = wire[c]
    <3>1. StopMessage \in Message /\ StopMessage.kind = "stop"
      BY DEF StopMessage, Message
    <3>2. HasStop(Append(wire[turn], StopMessage))
      BY <1>0, <2>1, <3>1, StopAppended
    <3> QED
      BY <1>0, <1>7, <2>1, <3>2 DEF EndTurn, TypeOK
  <2>3. turn' = turn + 1 /\ UNCHANGED << contexts, queue, finalizing >>
    BY <1>7 DEF EndTurn
  <2>4. \A c \in Contexts : c <= turn => c < turn'
    BY <1>0, <2>3
  <2>5. \A c \in DOMAIN contexts : c \in Contexts /\ (c = turn \/ c < turn)
    <3>1. \A c \in DOMAIN contexts : c <= turn
      BY DEF TurnInv
    <3>2. turn \in Nat /\ \A c \in DOMAIN contexts : c \in Nat /\ c \in Contexts
      BY <1>0
    <3> QED
      BY <3>1, <3>2
  <2>6. \A c \in DOMAIN contexts' : HasStop(wire'[c]) \/ HasStop(queue'[c])
    BY <2>2, <2>3, <2>5 DEF TurnInv
  <2>7. \A c \in Contexts : wire'[c] # << >> \/ HasStop(queue'[c]) => c <= turn
    BY <1>0, <2>1, <2>2, <2>3 DEF TurnInv
  <2>8. \A c \in Contexts : HasStop(wire'[c]) => wire'[c] # << >>
    BY DEF HasStop
  <2> QED
    BY <1>0, <2>3, <2>4, <2>5, <2>6, <2>7, <2>8 DEF TurnInv
<1>8. ASSUME NEW c \in Contexts, ReceiveSpeech(c) PROVE TurnInv'
  <2> DEFINE message == Head(wire[c])
             f == [kind |-> "audio", req |-> message.req, units |-> message.units]
  <2>1. wire[c] # << >> /\ message.kind = "speech" /\ message \in Message
    BY <1>0, <1>8 DEF ReceiveSpeech
  <2>2. f \in Frame /\ f.kind # "stop"
    BY <2>1 DEF Frame, Message
  <2>3. HasStop(Tail(wire[c])) <=> HasStop(wire[c])
    BY <1>0, <2>1, StopTail
  <2>4. HasStop(Append(queue[c], f)) <=> HasStop(queue[c])
    BY <1>0, <2>2, StopAppended
  <2>5. \A d \in Contexts : /\ HasStop(wire'[d]) <=> HasStop(wire[d])
                            /\ HasStop(queue'[d]) <=> HasStop(queue[d])
                            /\ wire'[d] # << >> => wire[d] # << >>
    BY <1>0, <1>8, <2>1, <2>3, <2>4 DEF ReceiveSpeech, TypeOK
  <2>6. DOMAIN contexts' = DOMAIN contexts
    BY <1>8 DEF ReceiveSpeech, WithStamps
  <2> QED
    BY <1>0, <1>8, <2>5, <2>6 DEF ReceiveSpeech, TurnInv
<1>9. ASSUME NEW c \in Contexts, ReceiveStop(c) PROVE TurnInv'
  <2>1. wire[c] # << >> /\ HasStop(wire[c])
    BY <1>0, <1>9 DEF ReceiveStop, HasStop
  <2>2. HasStop(Append(queue[c], StopFrame))
    <3>1. StopFrame \in Frame /\ StopFrame.kind = "stop"
      BY DEF StopFrame, Frame
    <3> QED
      BY <1>0, <3>1, StopAppended
  <2>3. HasStop(Tail(wire[c])) => HasStop(wire[c])
    BY <1>0, <2>1, StopTail
  <2>4. /\ wire' = [wire EXCEPT ![c] = Tail(@)]
        /\ queue' = [queue EXCEPT ![c] = Append(@, StopFrame)]
    BY <1>9 DEF ReceiveStop
  <2>5. /\ HasStop(queue'[c]) /\ (HasStop(wire'[c]) => HasStop(wire[c]))
        /\ \A d \in Contexts \ {c} : wire'[d] = wire[d] /\ queue'[d] = queue[d]
    BY <1>0, <2>2, <2>3, <2>4 DEF TypeOK
  <2> QED
    BY <1>0, <1>9, <2>1, <2>5 DEF ReceiveStop, TurnInv
<1>10. ASSUME NEW c \in Contexts, PushAudio(c) PROVE TurnInv'
  <2>1. queue[c] # << >> /\ Head(queue[c]).kind # "stop"
    BY <1>10 DEF PushAudio
  <2>2. HasStop(Tail(queue[c])) <=> HasStop(queue[c])
    BY <1>0, <2>1, StopTail
  <2>3. \A d \in Contexts : HasStop(queue'[d]) <=> HasStop(queue[d])
    BY <1>0, <1>10, <2>2 DEF PushAudio, Forwarded, TypeOK
  <2>4. DOMAIN contexts' = DOMAIN contexts
    BY <1>10 DEF PushAudio, WithAudio
  <2> QED
    BY <1>0, <1>10, <2>3, <2>4 DEF PushAudio, TurnInv
<1>11. ASSUME NEW c \in Contexts, PushStopped(c) PROVE TurnInv'
  <2>1. queue[c] # << >> /\ HasStop(queue[c])
    BY <1>0, <1>11 DEF PushStopped, HasStop
  <2>2. HasStop(Tail(queue[c])) => HasStop(queue[c])
    BY <1>0, <2>1, StopTail
  <2>3. /\ HasStop(queue'[c]) => HasStop(queue[c])
        /\ \A d \in Contexts \ {c} :
             queue'[d] = queue[d] /\ finalizing'[d] = finalizing[d]
    BY <1>0, <1>11, <2>2 DEF PushStopped, Forwarded, TypeOK
  <2>4. DOMAIN contexts' = DOMAIN contexts \ {c}
    BY <1>11 DEF PushStopped, Without
  <2> QED
    BY <1>0, <1>11, <2>1, <2>3, <2>4 DEF PushStopped, TurnInv
<1>12. ASSUME NEW c \in Contexts, StoreResponse(c) PROVE TurnInv'
  <2>1. finalizing[c].left # {} /\ queue[c] # << >>
    BY <1>12 DEF StoreResponse, TypeInv, FinalizationOK
  <2>2. HasStop(Tail(queue[c])) => HasStop(queue[c])
    BY <1>0, <2>1, StopTail
  <2>3. /\ HasStop(queue'[c]) => HasStop(queue[c])
        /\ \A d \in Contexts \ {c} :
             queue'[d] = queue[d] /\ finalizing'[d] = finalizing[d]
        /\ UNCHANGED << contexts, wire, turn >>
    BY <1>0, <1>12, <2>2 DEF StoreResponse, Forwarded, TypeOK
  <2> QED
    BY <1>0, <2>1, <2>3 DEF TurnInv
<1>13. ASSUME NEW late \in BOOLEAN, Interrupt(late) PROVE TurnInv'
  <2>1. DOMAIN contexts' = {} /\ turn' = turn + 1
    BY <1>13 DEF Interrupt, AfterInterruption
  <2>2. \A c \in Contexts : /\ wire'[c] # << >> => c <= turn
                            /\ HasStop(wire'[c]) => wire'[c] # << >>
    <3>1. \A c \in Contexts : wire[c] # << >> => c <= turn
      BY DEF TurnInv
    <3>2. \A c \in Contexts : wire'[c] # << >> => c = turn \/ wire[c] # << >>
      BY <1>13 DEF Interrupt, CutOff
    <3>3. turn <= turn
      BY <1>0
    <3>4. \A c \in Contexts : HasStop(wire'[c]) => wire'[c] # << >>
      BY DEF HasStop
    <3> QED
      BY <3>1, <3>2, <3>3, <3>4
  <2>3. \A c \in Contexts : /\ HasStop(queue'[c]) => HasStop(queue[c])
                            /\ finalizing'[c].left # {} => finalizing[c].left # {}
    BY <1>13 DEF Interrupt, NotFinalizing, HasStop
  <2>4. \A c \in Contexts : c <= turn => c < turn' /\ c <= turn'
    BY <1>0, <2>1
  <2>5. \A c \in Contexts : HasStop(wire'[c]) \/ HasStop(queue'[c]) => c <= turn
    BY <1>0, <2>2, <2>3 DEF TurnInv
  <2>6. \A c \in Contexts : finalizing'[c].left # {} => c <= turn
    <3>1. \A c \in Contexts : finalizing[c].left # {} => c < turn
      BY DEF TurnInv
    <3>2. \A c \in Contexts : c < turn => c <= turn
      BY <1>0
    <3> QED
      BY <2>3, <3>1, <3>2
  <2> QED
    BY <2>1, <2>2, <2>4, <2>5, <2>6 DEF TurnInv
<1>14. ASSUME Lose PROVE TurnInv'
  BY <1>14 DEF Lose, TurnInv
<1>15. CASE UNCHANGED vars
  BY <1>15 DEF vars, TurnInv
<1> QED
  BY <1>1, <1>2, <1>3, <1>4, <1>5, <1>6, <1>7, <1>8, <1>9, <1>10, <1>11, <1>12,
     <1>13, <1>14, <1>15
  DEF Next, AllTurnsOver

(***************************************************************************)
(* However turns, failures and interruptions interleave, a registered      *)
(* capture has its turn open or the Stopped frame that pops it on the way  *)
(* (_finalize_context, _handle_interruption).                              *)
(***************************************************************************)
THEOREM NoCaptureLeftBehind == Spec => []NoOrphanCapture
<1>1. Init => TypeInv /\ TurnInv
  BY InitTypeInv, InitTurnInv
<1>2. TypeInv /\ TurnInv /\ [Next]_vars => (TypeInv /\ TurnInv)'
  BY NextTypeInv, NextTurnInv
<1>3. TypeInv /\ TurnInv => NoOrphanCapture
  BY DEF TurnInv, NoOrphanCapture, StopAhead, HasStop
<1> QED
  BY <1>1, <1>2, <1>3, PTL DEF Spec

-------------------------------------------------------------------------------
(* Speech keeps the order of the requests                                  *)

Rising(s) ==
  \A i, j \in DOMAIN s : i < j /\ s[j].kind # "stop" => s[i].req <= s[j].req

Before(frames, messages) ==
  \A i \in DOMAIN frames, j \in DOMAIN messages :
    messages[j].kind = "speech" => frames[i].req <= messages[j].req

UpTo(s, n) == \A i \in DOMAIN s : s[i].req <= n

(***************************************************************************)
(* Over HTTP a request is served before the next one is looked up: what is *)
(* on the wire of the open turn belongs to the request in progress.        *)
(***************************************************************************)
OrderAt(c) ==
  /\ Rising(queue[c]) /\ Rising(wire[c]) /\ Before(queue[c], wire[c])
  /\ UpTo(queue[c], started) /\ UpTo(wire[c], started)
  /\ c = turn /\ wire[c] # << >> =>
       /\ call.at \in {"synth", "bypass"}
       /\ \A i \in DOMAIN wire[c] : wire[c][i].req = started

OrderInv == \A c \in Contexts : OrderAt(c)

(* Nothing is in any order. *)
LEMMA RisingEmpty ==
  \A n : Rising(<< >>) /\ UpTo(<< >>, n) /\ (\A s : Before(<< >>, s) /\ Before(s, << >>))
  BY DEF Rising, UpTo, Before

(* The elements of a sequence that grows by one. *)
LEMMA AppendedParts ==
  ASSUME NEW S, NEW s \in Seq(S), NEW e \in S
  PROVE  \A i \in DOMAIN Append(s, e) :
           \/ i \in DOMAIN s /\ Append(s, e)[i] = s[i] /\ i < Len(s) + 1
           \/ i = Len(s) + 1 /\ Append(s, e)[i] = e
  OBVIOUS

(* The elements of a sequence whose head is taken. *)
LEMMA TailParts ==
  ASSUME NEW S, NEW s \in Seq(S), s # << >>
  PROVE  /\ \A i \in DOMAIN Tail(s) : i \in Nat /\ i + 1 \in DOMAIN s /\ 1 < i + 1
                                      /\ Tail(s)[i] = s[i+1]
         /\ 1 \in DOMAIN s /\ Head(s) = s[1]
  OBVIOUS

(* A sequence keeps its order when a later request is added, or a stop. *)
LEMMA RisingAppended ==
  ASSUME NEW S, NEW s \in Seq(S), NEW e \in S, Rising(s),
         e.kind = "stop" \/ UpTo(s, e.req)
  PROVE  Rising(Append(s, e))
<1> DEFINE r == Append(s, e)
<1>1. \A i \in DOMAIN r : \/ i \in DOMAIN s /\ r[i] = s[i] /\ i < Len(s) + 1
                          \/ i = Len(s) + 1 /\ r[i] = e
  BY AppendedParts
<1>2. Len(s) \in Nat /\ DOMAIN s = 1..Len(s)
  OBVIOUS
<1> HIDE DEF r
<1>3. ASSUME NEW i \in DOMAIN r, NEW j \in DOMAIN r, i < j, r[j].kind # "stop"
      PROVE  r[i].req <= r[j].req
  <2>1. i \in DOMAIN s /\ r[i] = s[i]
    BY <1>1, <1>2, <1>3
  <2>2. CASE j \in DOMAIN s /\ r[j] = s[j]
    BY <1>3, <2>1, <2>2 DEF Rising
  <2>3. CASE r[j] = e
    BY <1>3, <2>1, <2>3 DEF UpTo
  <2> QED
    BY <1>1, <2>2, <2>3
<1> QED
  BY <1>3 DEF Rising, r

(* A sequence keeps its order when its head is taken. *)
LEMMA RisingTail ==
  ASSUME NEW S, NEW s \in Seq(S), s # << >>, Rising(s)
  PROVE  Rising(Tail(s))
<1>1. \A i \in DOMAIN Tail(s) : i \in Nat /\ i + 1 \in DOMAIN s /\ Tail(s)[i] = s[i+1]
  BY TailParts
<1>2. \A i, j \in DOMAIN Tail(s) : i < j => i + 1 < j + 1
  BY <1>1
<1> QED
  BY <1>1, <1>2 DEF Rising

(* What is queued stays ahead of the wire when either head is taken. *)
LEMMA BeforeTails ==
  ASSUME NEW S, NEW T, NEW q \in Seq(S), NEW w \in Seq(T), Before(q, w)
  PROVE  /\ q # << >> => Before(Tail(q), w)
         /\ w # << >> => Before(q, Tail(w))
<1>1. q # << >> => \A i \in DOMAIN Tail(q) : i + 1 \in DOMAIN q /\ Tail(q)[i] = q[i+1]
  BY TailParts
<1>2. w # << >> => \A i \in DOMAIN Tail(w) : i + 1 \in DOMAIN w /\ Tail(w)[i] = w[i+1]
  BY TailParts
<1> QED
  BY <1>1, <1>2 DEF Before

(* It stays ahead when a frame of no later request is queued. *)
LEMMA BeforeAppended ==
  ASSUME NEW S, NEW T, NEW q \in Seq(S), NEW w \in Seq(T), NEW f \in S, Before(q, w),
         \A j \in DOMAIN w : w[j].kind = "speech" => f.req <= w[j].req
  PROVE  Before(Append(q, f), w)
<1> DEFINE r == Append(q, f)
<1>1. \A i \in DOMAIN r : \/ i \in DOMAIN q /\ r[i] = q[i]
                          \/ r[i] = f
  BY AppendedParts
<1> HIDE DEF r
<1> QED
  BY <1>1 DEF Before, r

(* A bound on the requests survives taking the head and adding within it. *)
LEMMA UpToParts ==
  ASSUME NEW S, NEW s \in Seq(S), NEW n, UpTo(s, n)
  PROVE  /\ s # << >> => UpTo(Tail(s), n) /\ Head(s).req <= n
         /\ \A e \in S : e.req <= n => UpTo(Append(s, e), n)
<1>1. s # << >> => /\ \A i \in DOMAIN Tail(s) : i + 1 \in DOMAIN s /\ Tail(s)[i] = s[i+1]
                   /\ 1 \in DOMAIN s /\ Head(s) = s[1]
  BY TailParts
<1>2. ASSUME NEW e \in S, e.req <= n PROVE UpTo(Append(s, e), n)
  <2> DEFINE r == Append(s, e)
  <2>1. \A i \in DOMAIN r : (i \in DOMAIN s /\ r[i] = s[i]) \/ r[i] = e
    BY AppendedParts
  <2> HIDE DEF r
  <2> QED
    BY <1>2, <2>1 DEF UpTo, r
<1> QED
  BY <1>1, <1>2 DEF UpTo

(* More requests change nothing for those that are on their way. *)
LEMMA UpToMore ==
  ASSUME NEW s, NEW n \in Nat, NEW m \in Nat, n <= m, UpTo(s, n),
         \A i \in DOMAIN s : s[i].req \in Nat
  PROVE  UpTo(s, m)
  BY DEF UpTo

(* Frames and messages answer requests by number. *)
LEMMA ReqType ==
  /\ \A s \in Seq(Frame) : \A i \in DOMAIN s : s[i].req \in Nat
  /\ \A s \in Seq(Message) : \A i \in DOMAIN s : s[i].req \in Nat
<1>1. \A f \in Frame : f.req \in Nat
  BY DEF Frame
<1>2. \A m \in Message : m.req \in Nat
  BY DEF Message
<1> QED
  BY <1>1, <1>2

(* What one request puts on a wire that is empty. *)
LEMMA SpeechInOrder ==
  ASSUME NEW t \in Texts, NEW start \in Nat, NEW req \in Nat
  PROVE  /\ Speech(t, start, req) \in Seq(Message)
         /\ \A i \in DOMAIN Speech(t, start, req) : Speech(t, start, req)[i].req = req
         /\ Rising(Speech(t, start, req)) /\ UpTo(Speech(t, start, req), req)
<1> DEFINE s == Speech(t, start, req)
<1>1. s \in Seq(Message)
  BY SpeechType
<1>2. \A i \in DOMAIN s : s[i].req = req
  BY DEF Speech
<1> HIDE DEF s
<1>3. Rising(s) /\ UpTo(s, req)
  BY <1>2 DEF Rising, UpTo
<1> QED
  BY <1>1, <1>2, <1>3 DEF s

(* An open turn between two requests has nothing on the wire. *)
LEMMA IdleWire ==
  ASSUME OrderInv, turn \in Contexts, call.at \notin {"synth", "bypass"}
  PROVE  wire[turn] = << >>
  BY DEF OrderInv, OrderAt

(* A step elsewhere leaves the order of a context. *)
LEMMA OrderUndisturbed ==
  ASSUME TypeOK, NEW d \in Contexts, OrderAt(d),
         queue'[d] = queue[d], wire'[d] = wire[d], started' \in Nat, started <= started',
         d = turn' /\ wire[d] # << >> =>
           d = turn /\ call' = call /\ started' = started
  PROVE  OrderAt(d)'
<1>1. queue[d] \in Seq(Frame) /\ wire[d] \in Seq(Message) /\ started \in Nat
  BY BoundAssumption DEF TypeOK
<1>2. UpTo(queue[d], started') /\ UpTo(wire[d], started')
  BY <1>1, UpToMore, ReqType DEF OrderAt
<1> QED
  BY <1>2 DEF OrderAt

(* A request that reaches the service finds the wire of its turn empty. *)
LEMMA OrderSynthesized ==
  ASSUME TypeInv, OrderInv, turn \in Contexts, wire[turn] = << >>, NEW t \in Texts,
         Synthesize(t, started'), queue' = queue, turn' = turn,
         started' \in Nat, started <= started', call'.at \in {"synth", "bypass"},
         NEW d \in Contexts
  PROVE  OrderAt(d)'
<1>0. TypeOK /\ OrderAt(d)
  BY DEF TypeInv, OrderInv
<1>1. CASE d # turn
  <2>1. wire'[d] = wire[d]
    BY <1>0, <1>1 DEF Synthesize, TypeOK
  <2> QED
    BY <1>0, <1>1, <2>1, OrderUndisturbed
<1>2. CASE d = turn
  <2> DEFINE s == Speech(t, clock[turn], started')
  <2>0. clock[turn] \in Nat /\ queue[d] \in Seq(Frame) /\ started \in Nat
    BY <1>0, BoundAssumption DEF TypeOK
  <2>1. /\ s \in Seq(Message)
        /\ \A i \in DOMAIN s : s[i].req = started'
        /\ Rising(s) /\ UpTo(s, started')
    BY <2>0, SpeechInOrder
  <2>2. wire'[d] = wire[d] \o s
    BY <1>0, <1>2 DEF Synthesize, TypeOK
  <2> HIDE DEF s
  <2>3. wire'[d] = s
    <3>1. << >> \o s = s
      BY ONLY <2>1
    <3> QED
      BY <1>2, <2>2, <3>1
  <2>4. UpTo(queue[d], started')
    BY <1>0, <2>0, UpToMore, ReqType DEF OrderAt
  <2>5. Before(queue[d], s)
    BY <2>1, <2>4 DEF UpTo, Before
  <2> QED
    BY <1>0, <2>1, <2>3, <2>4, <2>5 DEF OrderAt
<1> QED
  BY <1>1, <1>2

(* The player takes frames off one queue, one at a time. *)
LEMMA QueueForwarded ==
  ASSUME TypeOK, NEW c \in Contexts, NEW d \in Contexts, queue[c] # << >>,
         queue' = queue \/ queue' = [queue EXCEPT ![c] = Tail(@)]
  PROVE  queue'[d] = queue[d] \/ (queue[d] # << >> /\ queue'[d] = Tail(queue[d]))
<1>1. queue \in [Contexts -> Seq(Frame)]
  BY DEF TypeOK
<1>2. CASE d = c
  BY <1>1, <1>2
<1>3. CASE d # c
  BY <1>1, <1>3
<1> QED
  BY <1>2, <1>3

(* The invariant holds in the beginning. *)
LEMMA InitOrderInv == Init => OrderInv
<1> SUFFICES ASSUME Init, NEW c \in Contexts PROVE OrderAt(c)
  BY DEF OrderInv
<1>1. queue[c] = << >> /\ wire[c] = << >>
  BY DEF Init
<1> QED
  BY <1>1, RisingEmpty DEF OrderAt

(* Over HTTP every step preserves it. *)
LEMMA NextOrderInv ==
  ASSUME Delivery = "http", TypeInv, TurnInv, OrderInv, [Next]_vars
  PROVE  OrderInv'
<1> SUFFICES ASSUME NEW d \in Contexts PROVE OrderAt(d)'
  BY DEF OrderInv
<1>0. /\ TypeOK /\ CallInTurn /\ OrderAt(d)
      /\ queue[d] \in Seq(Frame) /\ wire[d] \in Seq(Message)
      /\ started \in Nat
      /\ turn \in Nat
  BY BoundAssumption DEF TypeInv, TypeOK, OrderInv
<1>1. ASSUME NEW t \in Texts, StartRequest(t) PROVE OrderAt(d)'
  <2>1. turn \in Contexts /\ call.at \notin {"synth", "bypass"}
    BY <1>0, <1>1 DEF StartRequest, MayStart, NoCall, TypeOK, Contexts
  <2>2. wire[turn] = << >>
    BY <2>1, IdleWire
  <2>3. started' \in Nat /\ started <= started'
    BY <1>0, <1>1 DEF StartRequest
  <2> QED
    BY <1>0, <1>1, <2>2, <2>3, OrderUndisturbed DEF StartRequest
<1>2. ASSUME NEW t \in Texts, BypassRequest(t) PROVE OrderAt(d)'
  <2>1. turn \in Contexts /\ call.at \notin {"synth", "bypass"}
    BY <1>0, <1>2 DEF BypassRequest, MayStart, NoCall, TypeOK, Contexts
  <2>2. wire[turn] = << >>
    BY <2>1, IdleWire
  <2>3. started' \in Nat /\ started <= started'
    BY <1>0, <1>2 DEF BypassRequest
  <2>4. Synthesize(t, started') /\ queue' = queue /\ turn' = turn /\ call'.at = "bypass"
    BY <1>2 DEF BypassRequest
  <2> QED
    BY <2>1, <2>2, <2>3, <2>4, OrderSynthesized
<1>3. ASSUME Hit PROVE OrderAt(d)'
  <2>1. turn \in Contexts /\ call.at = "lookup" /\ call.text \in Texts
    BY <1>0, <1>3 DEF Hit, CallInTurn, NoCall, TypeOK, Call
  <2>2. wire[turn] = << >>
    BY <2>1, IdleWire
  <2> DEFINE f == CachedFrame(cache[call.text])
  <2>3. queue' = [queue EXCEPT ![turn] = Append(@, f)]
    BY <1>3 DEF Hit, IntoAudioContext
  <2>4. f \in Frame /\ f.req = started
    <3>1. cache[call.text] \in Response
      BY <1>0, <1>3, <2>1 DEF Hit, TypeOK
    <3> QED
      BY <1>0, <3>1 DEF CachedFrame, Frame, Response
  <2> HIDE DEF f
  <2>5. CASE d # turn
    <3>1. queue'[d] = queue[d]
      BY <1>0, <2>3, <2>5 DEF TypeOK
    <3> QED
      BY <1>0, <1>3, <2>5, <3>1, OrderUndisturbed DEF Hit, history
  <2>6. CASE d = turn
    <3>1. queue'[d] = Append(queue[d], f)
      BY <1>0, <2>3, <2>6 DEF TypeOK
    <3>2. Rising(Append(queue[d], f)) /\ UpTo(Append(queue[d], f), started)
      <4>1. Rising(queue[d]) /\ UpTo(queue[d], started) /\ UpTo(queue[d], f.req)
        BY <1>0, <2>4 DEF OrderAt
      <4>2. f.req <= started
        BY <1>0, <2>4
      <4> QED
        BY <1>0, <2>4, <4>1, <4>2, RisingAppended, UpToParts
    <3>3. wire'[d] = << >> /\ started' = started
      BY <1>3, <2>2, <2>6 DEF Hit, history
    <3> QED
      BY <3>1, <3>2, <3>3, RisingEmpty DEF OrderAt
  <2> QED
    BY <2>5, <2>6
<1>4. ASSUME Miss PROVE OrderAt(d)'
  <2>1. turn \in Contexts /\ call.at = "lookup" /\ call.text \in Texts
    BY <1>0, <1>4 DEF Miss, CallInTurn, NoCall, TypeOK, Call
  <2>2. wire[turn] = << >>
    BY <2>1, IdleWire
  <2>3. started' = started /\ queue' = queue /\ turn' = turn
    BY <1>4 DEF Miss, history
  <2>4. call'.at = "synth"
    <3>1. call \in [at : {"lookup", "synth", "bypass"}, text : Texts]
      BY <1>0, <2>1 DEF TypeOK, Call, NoCall
    <3> QED
      BY <1>4, <3>1 DEF Miss
  <2>5. Synthesize(call.text, started')
    BY <1>4, <2>3 DEF Miss
  <2> QED
    BY <1>0, <2>1, <2>2, <2>3, <2>4, <2>5, OrderSynthesized
<1>5. ASSUME SynthReturn PROVE OrderAt(d)'
  <2>1. wire[turn] = << >>
    BY <1>5 DEF SynthReturn
  <2> QED
    BY <1>0, <1>5, <2>1, OrderUndisturbed DEF SynthReturn, history
<1>6. ASSUME SynthFail PROVE OrderAt(d)'
  <2>1. turn \in Contexts
    BY <1>0, <1>6 DEF SynthFail, CallInTurn, NoCall
  <2>2. PICK n \in 0..Len(wire[turn]) :
          /\ \A i \in 1..Len(wire[turn]) : wire[turn][i].req = started <=> i > n
          /\ wire' = [wire EXCEPT ![turn] = SubSeq(@, 1, n)]
    BY <1>6 DEF SynthFail
  <2>3. /\ queue' = queue /\ started' = started /\ turn' = turn
    BY <1>6 DEF SynthFail
  <2>4. CASE d # turn
    <3>1. wire'[d] = wire[d]
      BY <1>0, <2>2, <2>4 DEF TypeOK
    <3> QED
      BY <1>0, <2>3, <2>4, <3>1, OrderUndisturbed
  <2>5. CASE d = turn
    <3>1. n = 0
      <4>1. CASE Len(wire[d]) = 0
        BY <2>2, <2>5, <4>1
      <4>2. CASE Len(wire[d]) # 0
        <5>1. 1 \in 1..Len(wire[d]) /\ wire[d] # << >> /\ DOMAIN wire[d] = 1..Len(wire[d])
          BY <1>0, <4>2
        <5>2. wire[d][1].req = started
          BY <1>0, <2>5, <5>1 DEF OrderAt
        <5> QED
          BY <2>2, <2>5, <5>1, <5>2
      <4> QED
        BY <4>1, <4>2
    <3>2. wire'[d] = SubSeq(wire[d], 1, 0)
      BY <1>0, <2>2, <2>5, <3>1 DEF TypeOK
    <3>3. SubSeq(wire[d], 1, 0) = << >>
      BY <1>0
    <3> QED
      BY <1>0, <2>3, <3>2, <3>3, RisingEmpty DEF OrderAt
  <2> QED
    BY <2>4, <2>5
<1>7. ASSUME EndTurn PROVE OrderAt(d)'
  <2>1. turn \in Contexts
    BY <1>0, <1>7 DEF EndTurn, TypeOK, Contexts
  <2>2. /\ wire' = [wire EXCEPT ![turn] = Append(@, StopMessage)]
        /\ queue' = queue /\ started' = started /\ turn' = turn + 1
    BY <1>7 DEF EndTurn, history
  <2>3. CASE d # turn
    <3>1. wire'[d] = wire[d]
      BY <1>0, <2>2, <2>3 DEF TypeOK
    <3>2. d = turn + 1 => wire[d] = << >>
      BY <1>0, <2>3 DEF TurnInv
    <3> QED
      BY <1>0, <2>2, <3>1, <3>2, OrderUndisturbed
  <2>4. CASE d = turn
    <3>1. wire'[d] = Append(wire[d], StopMessage)
      BY <1>0, <2>2, <2>4 DEF TypeOK
    <3>2. StopMessage \in Message /\ StopMessage.kind = "stop" /\ StopMessage.req = 0
      BY DEF StopMessage, Message
    <3>3. Rising(wire[d]) /\ UpTo(wire[d], started) /\ Rising(queue[d])
          /\ UpTo(queue[d], started) /\ Before(queue[d], wire[d])
      BY <1>0 DEF OrderAt
    <3>4. Rising(Append(wire[d], StopMessage))
      BY <1>0, <3>2, <3>3, RisingAppended
    <3>5. UpTo(Append(wire[d], StopMessage), started)
      <4>1. StopMessage.req <= started
        BY <1>0, <3>2
      <4> QED
        BY <1>0, <3>2, <3>3, <4>1, UpToParts
    <3>6. Before(queue[d], Append(wire[d], StopMessage))
      <4> DEFINE r == Append(wire[d], StopMessage)
      <4>1. \A j \in DOMAIN r : (j \in DOMAIN wire[d] /\ r[j] = wire[d][j])
                                 \/ r[j] = StopMessage
        BY <1>0, <3>2, AppendedParts
      <4> HIDE DEF r
      <4>2. Before(queue[d], r)
        BY <3>2, <3>3, <4>1 DEF Before
      <4> QED
        BY <4>2 DEF r
    <3>7. d # turn'
      BY <1>0, <2>2, <2>4
    <3> QED
      BY <2>2, <3>1, <3>3, <3>4, <3>5, <3>6, <3>7 DEF OrderAt
  <2> QED
    BY <2>3, <2>4
<1>8. ASSUME NEW c \in Contexts, ReceiveSpeech(c) PROVE OrderAt(d)'
  <2> DEFINE m == Head(wire[c])
             f == [kind |-> "audio", req |-> m.req, units |-> m.units]
  <2>1. /\ wire[c] # << >> /\ m.kind = "speech"
        /\ queue' = [queue EXCEPT ![c] = Append(@, f)]
        /\ wire' = [wire EXCEPT ![c] = Tail(@)]
        /\ call' = call /\ turn' = turn /\ started' = started
    BY <1>8 DEF ReceiveSpeech, history
  <2>2. CASE d # c
    <3>1. queue'[d] = queue[d] /\ wire'[d] = wire[d]
      BY <1>0, <2>1, <2>2 DEF TypeOK
    <3> QED
      BY <1>0, <2>1, <3>1, OrderUndisturbed
  <2>3. CASE d = c
    <3>0. 1 \in DOMAIN wire[d] /\ m = wire[d][1] /\ m \in Message
      BY <1>0, <2>1, <2>3, TailParts
    <3>1. queue'[d] = Append(queue[d], f) /\ wire'[d] = Tail(wire[d])
      BY <1>0, <2>1, <2>3 DEF TypeOK
    <3>2. f \in Frame /\ f.req = m.req
      BY <3>0 DEF Frame, Message
    <3>3. /\ Rising(wire[d]) /\ UpTo(wire[d], started) /\ Rising(queue[d])
          /\ UpTo(queue[d], started) /\ Before(queue[d], wire[d])
      BY <1>0 DEF OrderAt
    <3>4. Rising(Tail(wire[d])) /\ UpTo(Tail(wire[d]), started) /\ m.req <= started
      BY <1>0, <2>1, <2>3, <3>3, RisingTail, UpToParts
    <3>5. UpTo(queue[d], f.req)
      BY <2>1, <3>0, <3>2, <3>3 DEF Before, UpTo
    <3>6. \A j \in DOMAIN Tail(wire[d]) :
            Tail(wire[d])[j].kind = "speech" => f.req <= Tail(wire[d])[j].req
      <4>1. \A j \in DOMAIN Tail(wire[d]) :
              j + 1 \in DOMAIN wire[d] /\ 1 < j + 1 /\ Tail(wire[d])[j] = wire[d][j+1]
        BY <1>0, <2>1, <2>3, TailParts
      <4> QED
        BY <3>0, <3>2, <3>3, <4>1 DEF Rising
    <3>7. Before(queue[d], Tail(wire[d]))
      BY <1>0, <2>1, <2>3, <3>3, BeforeTails
    <3>8. wire[d] # << >> /\ Tail(wire[d]) \in Seq(Message)
      BY <1>0, <2>1, <2>3
    <3>9. d = turn => /\ call.at \in {"synth", "bypass"}
                      /\ \A i \in DOMAIN Tail(wire[d]) : Tail(wire[d])[i].req = started
      <4>1. \A i \in DOMAIN Tail(wire[d]) :
              i + 1 \in DOMAIN wire[d] /\ Tail(wire[d])[i] = wire[d][i+1]
        BY <1>0, <3>8, TailParts
      <4> QED
        BY <1>0, <3>8, <4>1 DEF OrderAt
    <3> HIDE DEF f, m
    <3>10. Rising(Append(queue[d], f))
      BY <1>0, <3>2, <3>3, <3>5, RisingAppended
    <3>11. UpTo(Append(queue[d], f), started)
      <4>1. f.req <= started
        BY <3>2, <3>4
      <4> QED
        BY <1>0, <3>2, <3>3, <4>1, UpToParts
    <3>12. Before(Append(queue[d], f), Tail(wire[d]))
      <4> DEFINE later == Tail(wire[d])
      <4>1. later \in Seq(Message) /\ Before(queue[d], later)
        BY <3>8, <3>7
      <4>2. \A j \in DOMAIN later : later[j].kind = "speech" => f.req <= later[j].req
        BY <3>6
      <4> HIDE DEF later
      <4>3. Before(Append(queue[d], f), later)
        BY <1>0, <3>2, <4>1, <4>2, BeforeAppended
      <4> QED
        BY <4>3 DEF later
    <3> QED
      BY <2>1, <3>1, <3>4, <3>9, <3>10, <3>11, <3>12 DEF OrderAt
  <2> QED
    BY <2>2, <2>3
<1>9. ASSUME NEW c \in Contexts, ReceiveStop(c) PROVE OrderAt(d)'
  <2>1. /\ wire[c] # << >>
        /\ queue' = [queue EXCEPT ![c] = Append(@, StopFrame)]
        /\ wire' = [wire EXCEPT ![c] = Tail(@)]
        /\ call' = call /\ turn' = turn /\ started' = started
    BY <1>9 DEF ReceiveStop, history
  <2>2. CASE d # c
    <3>1. queue'[d] = queue[d] /\ wire'[d] = wire[d]
      BY <1>0, <2>1, <2>2 DEF TypeOK
    <3> QED
      BY <1>0, <2>1, <3>1, OrderUndisturbed
  <2>3. CASE d = c
    <3>1. queue'[d] = Append(queue[d], StopFrame) /\ wire'[d] = Tail(wire[d])
      BY <1>0, <2>1, <2>3 DEF TypeOK
    <3>2. StopFrame \in Frame /\ StopFrame.kind = "stop" /\ StopFrame.req = 0
      BY DEF StopFrame, Frame
    <3>3. /\ Rising(wire[d]) /\ UpTo(wire[d], started) /\ Rising(queue[d])
          /\ UpTo(queue[d], started) /\ Before(queue[d], wire[d])
      BY <1>0 DEF OrderAt
    <3>4. wire[d] # << >> /\ Tail(wire[d]) \in Seq(Message)
      BY <1>0, <2>1, <2>3
    <3>5. Rising(Tail(wire[d])) /\ UpTo(Tail(wire[d]), started)
      BY <1>0, <3>3, <3>4, RisingTail, UpToParts
    <3>6. Before(queue[d], Tail(wire[d]))
      BY <1>0, <3>3, <3>4, BeforeTails
    <3>7. \A j \in DOMAIN Tail(wire[d]) : Tail(wire[d])[j].req \in Nat
      BY <3>4, ReqType
    <3>8. \A j \in DOMAIN Tail(wire[d]) :
            Tail(wire[d])[j].kind = "speech" => StopFrame.req <= Tail(wire[d])[j].req
      BY <3>2, <3>7
    <3>9. d = turn => /\ call.at \in {"synth", "bypass"}
                      /\ \A i \in DOMAIN Tail(wire[d]) : Tail(wire[d])[i].req = started
      <4>1. \A i \in DOMAIN Tail(wire[d]) :
              i + 1 \in DOMAIN wire[d] /\ Tail(wire[d])[i] = wire[d][i+1]
        BY <1>0, <3>4, TailParts
      <4> QED
        BY <1>0, <3>4, <4>1 DEF OrderAt
    <3>10. Rising(Append(queue[d], StopFrame))
      BY <1>0, <3>2, <3>3, RisingAppended
    <3>11. UpTo(Append(queue[d], StopFrame), started)
      <4>1. StopFrame.req <= started
        BY <1>0, <3>2
      <4> QED
        BY <1>0, <3>2, <3>3, <4>1, UpToParts
    <3>12. Before(Append(queue[d], StopFrame), Tail(wire[d]))
      <4> DEFINE later == Tail(wire[d])
      <4>1. later \in Seq(Message) /\ Before(queue[d], later)
        BY <3>4, <3>6
      <4>2. \A j \in DOMAIN later : later[j].kind = "speech" => StopFrame.req <= later[j].req
        BY <3>8
      <4> HIDE DEF later
      <4>3. Before(Append(queue[d], StopFrame), later)
        BY <1>0, <3>2, <4>1, <4>2, BeforeAppended
      <4> QED
        BY <4>3 DEF later
    <3> QED
      BY <2>1, <3>1, <3>5, <3>9, <3>10, <3>11, <3>12 DEF OrderAt
  <2> QED
    BY <2>2, <2>3
<1>10. ASSUME wire' = wire, call' = call, turn' = turn, started' = started,
              queue'[d] = queue[d] \/ (queue[d] # << >> /\ queue'[d] = Tail(queue[d]))
       PROVE  OrderAt(d)'
  <2>1. CASE queue'[d] = queue[d]
    BY <1>0, <1>10, <2>1, OrderUndisturbed
  <2>2. CASE queue[d] # << >> /\ queue'[d] = Tail(queue[d])
    <3>1. Rising(queue[d]) /\ UpTo(queue[d], started) /\ Before(queue[d], wire[d])
      BY <1>0 DEF OrderAt
    <3>2. /\ Rising(Tail(queue[d])) /\ UpTo(Tail(queue[d]), started)
          /\ Before(Tail(queue[d]), wire[d])
      BY <1>0, <2>2, <3>1, RisingTail, UpToParts, BeforeTails
    <3> QED
      BY <1>0, <1>10, <2>2, <3>2 DEF OrderAt
  <2> QED
    BY <1>10, <2>1, <2>2
<1>11. ASSUME NEW c \in Contexts, PushAudio(c) PROVE OrderAt(d)'
  <2>1. queue'[d] = queue[d] \/ (queue[d] # << >> /\ queue'[d] = Tail(queue[d]))
    BY <1>0, <1>11, QueueForwarded DEF PushAudio, Forwarded
  <2> QED
    BY <1>10, <1>11, <2>1 DEF PushAudio, history
<1>12. ASSUME NEW c \in Contexts, PushStopped(c) PROVE OrderAt(d)'
  <2>1. /\ queue[c] # << >>
        /\ queue' = queue \/ queue' = [queue EXCEPT ![c] = Tail(@)]
    BY <1>12 DEF PushStopped, Forwarded
  <2>2. queue'[d] = queue[d] \/ (queue[d] # << >> /\ queue'[d] = Tail(queue[d]))
    BY <1>0, <2>1, QueueForwarded
  <2> QED
    BY <1>10, <1>12, <2>2 DEF PushStopped, history
<1>13. ASSUME NEW c \in Contexts, StoreResponse(c) PROVE OrderAt(d)'
  <2>1. /\ \/ queue' = queue
           \/ queue' = [queue EXCEPT ![c] = Tail(@)]
        /\ finalizing[c].left # {}
        /\ wire' = wire /\ call' = call /\ turn' = turn /\ started' = started
    BY <1>13 DEF StoreResponse, Forwarded, history
  <2>2. queue[c] # << >>
    BY <2>1 DEF TypeInv, FinalizationOK
  <2>3. queue'[d] = queue[d] \/ (queue[d] # << >> /\ queue'[d] = Tail(queue[d]))
    BY <1>0, <2>1, <2>2, QueueForwarded
  <2> QED
    BY <1>10, <2>1, <2>3
<1>14. ASSUME NEW late \in BOOLEAN, Interrupt(late) PROVE OrderAt(d)'
  <2>1. /\ turn \in Contexts /\ turn' = turn + 1 /\ started' = started
        /\ \/ wire' = [c \in Contexts |-> CutOff(c)] /\ queue' = queue
           \/ wire' = [c \in Contexts |-> << >>] /\ queue' = [c \in Contexts |-> << >>]
    BY <1>0, <1>14, SMTT(30) DEF Interrupt, history, TypeOK, Contexts
  <2>2. CASE wire'[d] = << >> /\ (queue'[d] = << >> \/ queue'[d] = queue[d])
    BY <1>0, <2>1, <2>2, RisingEmpty DEF OrderAt
  <2>3. CASE /\ queue'[d] = queue[d] /\ wire'[d] = << StopMessage >>
             /\ (d = turn \/ wire[d] # << >>)
    <3>1. d # turn'
      BY <1>0, <2>1, <2>3 DEF TurnInv
    <3> DEFINE r == << StopMessage >>
    <3>2. \A i \in DOMAIN r : r[i] = StopMessage
      OBVIOUS
    <3> HIDE DEF r
    <3>3. StopMessage.kind = "stop" /\ StopMessage.req = 0
      BY DEF StopMessage
    <3>4. Rising(r) /\ UpTo(r, started) /\ Before(queue[d], r)
      BY <1>0, <3>2, <3>3 DEF Rising, UpTo, Before
    <3> QED
      BY <1>0, <2>1, <2>3, <3>1, <3>4 DEF OrderAt, r
  <2> QED
    BY <2>1, <2>2, <2>3 DEF CutOff
<1>15. ASSUME Lose PROVE OrderAt(d)'
  BY <1>0, <1>15, OrderUndisturbed DEF Lose, history
<1>16. ASSUME UNCHANGED vars PROVE OrderAt(d)'
  BY <1>0, <1>16, OrderUndisturbed DEF vars, history
<1> QED
  BY <1>1, <1>2, <1>3, <1>4, <1>5, <1>6, <1>7, <1>8, <1>9, <1>11, <1>12, <1>13,
     <1>14, <1>15, <1>16 DEF Next, AllTurnsOver

(***************************************************************************)
(* A service that delivers a text before its run_tts returns has cached    *)
(* and live speech of a context queued in the order of the requests        *)
(* (_yield_cached_frames).  Over a websocket it has not: a hit overtakes   *)
(* the speech that is still on the wire.                                   *)
(***************************************************************************)
THEOREM SpeechPlayedInOrder ==
  ASSUME Delivery = "http"
  PROVE  Spec => []PlayedInRequestOrder
<1>1. Init => TypeInv /\ TurnInv /\ OrderInv
  BY InitTypeInv, InitTurnInv, InitOrderInv
<1>2. TypeInv /\ TurnInv /\ OrderInv /\ [Next]_vars => (TypeInv /\ TurnInv /\ OrderInv)'
  BY NextTypeInv, NextTurnInv, NextOrderInv
<1>3. OrderInv => PlayedInRequestOrder
  BY DEF OrderInv, OrderAt, Rising, Before, PlayedInRequestOrder
<1> QED
  BY <1>1, <1>2, <1>3, PTL DEF Spec
-------------------------------------------------------------------------------
(* Captures are pure                                                       *)

OfTexts(units, T) == \A p \in DOMAIN units : units[p].text \in T

(* All speech of a sequence of messages or frames, kind being the live one, *)
(* is speech of the texts T.                                               *)
Within(s, kind, T) ==
  \A i \in DOMAIN s : s[i].kind = kind => OfTexts(s[i].units, T)

(***************************************************************************)
(* Speech outstanding for a context that is registered, or that may yet be *)
(* (its turn has not been given up), is speech of its registered tasks.    *)
(* That a context may still be registered is what keeps a bypassed or a    *)
(* failed request out of here: it drops the capture while its own speech   *)
(* is outstanding.                                                         *)
(***************************************************************************)
PureAt(c) ==
  /\ Pure(CaptureOf(c))
  /\ Pure(finalizing[c].cap)
  /\ c \in DOMAIN contexts \/ ~(c < turn) =>
       /\ Within(wire[c], "speech", TaskTexts(CaptureOf(c)))
       /\ Within(queue[c], "audio", TaskTexts(CaptureOf(c)))

PureInv == \A c \in Contexts \ faulted : PureAt(c)

(* The same elements, and one more. *)
LEMMA WithinAppended ==
  ASSUME NEW S, NEW s \in Seq(S), NEW e \in S, NEW kind, NEW T,
         Within(s, kind, T), e.kind = kind => OfTexts(e.units, T)
  PROVE  Within(Append(s, e), kind, T)
<1>1. \A i \in DOMAIN Append(s, e) :
        \/ i \in DOMAIN s /\ Append(s, e)[i] = s[i]
        \/ Append(s, e)[i] = e
  OBVIOUS
<1> QED
  BY <1>1 DEF Within

(* Taking the head leaves the others. *)
LEMMA WithinTail ==
  ASSUME NEW S, NEW s \in Seq(S), s # << >>, NEW kind, NEW T, Within(s, kind, T)
  PROVE  /\ Within(Tail(s), kind, T)
         /\ Head(s).kind = kind => OfTexts(Head(s).units, T)
<1>1. \A i \in DOMAIN Tail(s) : i + 1 \in DOMAIN s /\ Tail(s)[i] = s[i+1]
  OBVIOUS
<1>2. 1 \in DOMAIN s /\ Head(s) = s[1]
  OBVIOUS
<1> QED
  BY <1>1, <1>2 DEF Within

(* Two sequences in a row. *)
LEMMA WithinConcat ==
  ASSUME NEW S, NEW s \in Seq(S), NEW r \in Seq(S), NEW kind, NEW T,
         Within(s, kind, T), Within(r, kind, T)
  PROVE  Within(s \o r, kind, T)
<1>1. \A i \in DOMAIN (s \o r) :
        \/ i \in DOMAIN s /\ (s \o r)[i] = s[i]
        \/ i - Len(s) \in DOMAIN r /\ (s \o r)[i] = r[i - Len(s)]
  OBVIOUS
<1> QED
  BY <1>1 DEF Within

(* More texts allow more speech. *)
LEMMA WithinMore ==
  ASSUME NEW s, NEW kind, NEW T, NEW U, T \subseteq U, Within(s, kind, T)
  PROVE  Within(s, kind, U)
  BY DEF Within, OfTexts

(* Registering a text adds it to the texts of the capture, and only that.  *)
LEMMA TaskTextsWithTask ==
  ASSUME CapturesOK(contexts), NEW c \in Contexts, NEW t \in Texts,
         contexts' = WithTask(c, t)
  PROVE  /\ TaskTexts(CaptureOf(c)') = TaskTexts(CaptureOf(c)) \cup {t}
         /\ CaptureOf(c)'.audio = CaptureOf(c).audio
         /\ \A d \in Contexts \ {c} : CaptureOf(d)' = CaptureOf(d)
         /\ DOMAIN contexts' = DOMAIN contexts \cup {c}
<1> DEFINE cap  == CaptureOf(c)
           task == [text |-> t, words |-> Parsed[t], first |-> TotalWords(cap.tasks)]
<1>1. cap \in Capture
  BY CaptureOfOK
<1>2. cap.tasks \in Seq(Task)
  BY <1>1 DEF Capture
<1>3. CaptureOf(c)' = [cap EXCEPT !.tasks = Append(@, task)]
  BY DEF WithTask, CaptureOf, Registered
<1>4. /\ CaptureOf(c)'.tasks = Append(cap.tasks, task)
      /\ CaptureOf(c)'.audio = cap.audio
  <2> HIDE DEF cap, task
  <2> QED
    BY <1>1, <1>3 DEF Capture
<1>5. { Append(cap.tasks, task)[i].text : i \in DOMAIN Append(cap.tasks, task) }
        = TaskTexts(cap) \cup {t}
  <2> DEFINE new == Append(cap.tasks, task)
  <2>1. /\ DOMAIN new = 1..Len(cap.tasks)+1 /\ DOMAIN cap.tasks = 1..Len(cap.tasks)
        /\ \A i \in 1..Len(cap.tasks) : new[i] = cap.tasks[i]
        /\ new[Len(cap.tasks)+1] = task
        /\ Len(cap.tasks) \in Nat
    BY <1>2
  <2>2. task.text = t
    OBVIOUS
  <2>3. 1..Len(cap.tasks)+1 = (1..Len(cap.tasks)) \cup {Len(cap.tasks)+1}
    BY <2>1
  <2> HIDE DEF new, task, cap
  <2>4. { new[i].text : i \in DOMAIN new }
          = { new[i].text : i \in 1..Len(cap.tasks) } \cup { new[Len(cap.tasks)+1].text }
    BY <2>1, <2>3
  <2>5. { new[i].text : i \in 1..Len(cap.tasks) }
          = { cap.tasks[i].text : i \in DOMAIN cap.tasks }
    BY <2>1
  <2> QED
    BY <2>1, <2>2, <2>4, <2>5 DEF new, TaskTexts
<1>6. /\ DOMAIN contexts' = DOMAIN contexts \cup {c}
      /\ \A d \in Contexts \ {c} : CaptureOf(d)' = CaptureOf(d)
  BY DEF WithTask, CaptureOf, Registered
<1> QED
  BY <1>4, <1>5, <1>6 DEF TaskTexts

(* Captured timestamps touch neither tasks nor audio. *)
LEMMA CaptureWithStamps ==
  ASSUME CapturesOK(contexts), NEW c \in Contexts, NEW stamps \in Seq(Stamp),
         contexts' = WithStamps(c, stamps)
  PROVE  /\ DOMAIN contexts' = DOMAIN contexts
         /\ \A d \in Contexts : /\ CaptureOf(d)'.tasks = CaptureOf(d).tasks
                                /\ CaptureOf(d)'.audio = CaptureOf(d).audio
<1>1. ASSUME NEW d \in DOMAIN contexts
      PROVE  LET new == [contexts[d] EXCEPT !.stamps = @ \o stamps]
             IN  new.tasks = contexts[d].tasks /\ new.audio = contexts[d].audio
  <2>1. contexts[d] \in Capture
    BY DEF CapturesOK
  <2>2. contexts[d].stamps \o stamps \in Seq(Stamp)
    BY <2>1 DEF Capture
  <2> QED
    BY <2>1, <2>2, CaptureExcept
<1> QED
  BY <1>1 DEF WithStamps, CaptureOf, Registered

(* Captured audio is that of live frames. *)
LEMMA CaptureWithAudio ==
  ASSUME CapturesOK(contexts), NEW c \in Contexts, NEW frame \in Frame,
         contexts' = WithAudio(c, frame)
  PROVE  /\ DOMAIN contexts' = DOMAIN contexts
         /\ \A d \in Contexts :
              /\ CaptureOf(d)'.tasks = CaptureOf(d).tasks
              /\ \/ CaptureOf(d)'.audio = CaptureOf(d).audio
                 \/ /\ d = c /\ frame.kind = "audio" /\ d \in DOMAIN contexts
                    /\ CaptureOf(d)'.audio = CaptureOf(d).audio \o frame.units
<1>1. ASSUME NEW d \in DOMAIN contexts
      PROVE  LET new == [contexts[d] EXCEPT !.audio = @ \o frame.units]
             IN  /\ new.tasks = contexts[d].tasks
                 /\ new.audio = contexts[d].audio \o frame.units
  <2>1. contexts[d] \in Capture
    BY DEF CapturesOK
  <2>2. contexts[d].audio \o frame.units \in Seq(Unit)
    BY <2>1 DEF Capture, Frame
  <2> QED
    BY <2>1, <2>2, CaptureExcept
<1> QED
  BY <1>1 DEF WithAudio, CaptureOf, Registered

(* A capture stays pure when audio of its texts is added. *)
LEMMA PureConcat ==
  ASSUME NEW audio \in Seq(Unit), NEW units \in Seq(Unit), NEW T,
         OfTexts(audio, T), OfTexts(units, T)
  PROVE  OfTexts(audio \o units, T)
<1>1. \A i \in DOMAIN (audio \o units) :
        \/ i \in DOMAIN audio /\ (audio \o units)[i] = audio[i]
        \/ i - Len(audio) \in DOMAIN units /\ (audio \o units)[i] = units[i - Len(audio)]
  OBVIOUS
<1> QED
  BY <1>1 DEF OfTexts

(* A context is as pure as it was when only less speech is outstanding. *)
LEMMA PureKept ==
  ASSUME NEW c \in Contexts, PureAt(c),
         CaptureOf(c)'.tasks = CaptureOf(c).tasks,
         CaptureOf(c)'.audio = CaptureOf(c).audio,
         finalizing'[c].cap = finalizing[c].cap,
         c \in DOMAIN contexts' \/ ~(c < turn') =>
           /\ c \in DOMAIN contexts \/ ~(c < turn)
           /\ \A T : Within(wire[c], "speech", T) /\ Within(queue[c], "audio", T) =>
                       Within(wire'[c], "speech", T) /\ Within(queue'[c], "audio", T)
  PROVE  PureAt(c)'
<1>1. TaskTexts(CaptureOf(c)') = TaskTexts(CaptureOf(c))
  BY SMTT(30) DEF TaskTexts
<1>2. Pure(CaptureOf(c))' /\ Pure(finalizing[c].cap)'
  BY <1>1 DEF PureAt, Pure, TaskTexts
<1> QED
  BY <1>1, <1>2 DEF PureAt

(* An empty capture is pure. *)
LEMMA EmptyCapturePure == Pure(EmptyCapture) /\ Pure(NotFinalizing.cap)
  BY DEF Pure, EmptyCapture, NotFinalizing

(* The invariant holds in the beginning. *)
LEMMA InitPureInv == Init => PureInv
<1> SUFFICES ASSUME Init, NEW c \in Contexts PROVE PureAt(c)
  BY DEF PureInv
<1>1. CaptureOf(c) = EmptyCapture /\ finalizing[c] = NotFinalizing
  BY DEF Init, CaptureOf, Registered
<1>2. wire[c] = << >> /\ queue[c] = << >>
  BY DEF Init
<1> QED
  BY <1>1, <1>2, EmptyCapturePure DEF PureAt, Within

(* The speech the service is asked for is speech of the text. *)
LEMMA SynthesizeWithin ==
  ASSUME TypeOK, turn \in Contexts, NEW t \in Texts, NEW req \in Nat, Synthesize(t, req)
  PROVE  /\ \A c \in Contexts : c # turn => wire'[c] = wire[c]
         /\ \A T : t \in T /\ Within(wire[turn], "speech", T) =>
                     Within(wire'[turn], "speech", T)
<1> DEFINE speech == Speech(t, clock[turn], req)
<1>1. wire[turn] \in Seq(Message) /\ clock[turn] \in Nat
  BY DEF TypeOK
<1>2. speech \in Seq(Message)
  BY <1>1, SpeechType
<1>3. ASSUME NEW T, t \in T PROVE Within(speech, "speech", T)
  <2>1. \A w \in DOMAIN speech : \A p \in DOMAIN speech[w].units :
          speech[w].units[p].text = t
    BY <1>1, SpeechType, ZenonT(40)
  <2> HIDE DEF speech
  <2> QED
    BY <1>3, <2>1 DEF Within, OfTexts
<1>4. wire' = [wire EXCEPT ![turn] = wire[turn] \o speech]
  BY DEF Synthesize
<1>5. wire'[turn] = wire[turn] \o speech /\ \A c \in Contexts : c # turn => wire'[c] = wire[c]
  BY <1>4 DEF TypeOK
<1> HIDE DEF speech
<1> QED
  BY <1>1, <1>2, <1>3, <1>5, WithinConcat

(* Every step preserves it. *)
LEMMA NextPureInv == TypeInv /\ TurnInv /\ PureInv /\ [Next]_vars => PureInv'
<1> SUFFICES ASSUME TypeInv, TurnInv, PureInv, [Next]_vars,
                    NEW d \in Contexts \ faulted'
             PROVE  PureAt(d)'
  BY DEF PureInv, Contexts
<1>0. /\ TypeOK /\ CallInTurn /\ CapturesOK(contexts)
      /\ turn \in Nat /\ Contexts \subseteq Nat
      /\ DOMAIN contexts \subseteq Contexts
      /\ \A c \in Contexts : wire[c] \in Seq(Message) /\ queue[c] \in Seq(Frame)
  <2>1. TypeOK /\ CallInTurn /\ CapturesOK(contexts)
    BY TypeInvCaptures DEF TypeInv
  <2>2. /\ turn \in Nat /\ Contexts \subseteq Nat
        /\ DOMAIN contexts \subseteq Contexts
        /\ \A c \in Contexts : wire[c] \in Seq(Message) /\ queue[c] \in Seq(Frame)
    BY <2>1, BoundAssumption DEF TypeOK, Contexts
  <2> QED
    BY <2>1, <2>2
<1>f. faulted \subseteq faulted' => d \notin faulted /\ PureAt(d)
  BY DEF PureInv
<1>1. ASSUME NEW t \in Texts, StartRequest(t) PROVE PureAt(d)'
  BY <1>1, <1>f DEF StartRequest, PureAt, CaptureOf, Registered
<1>2. ASSUME NEW t \in Texts, BypassRequest(t) PROVE PureAt(d)'
  <2>1. turn \in Contexts /\ started' \in Nat
    BY <1>0, <1>2, BoundAssumption, SMTT(30) DEF BypassRequest, MayStart, TypeOK, Contexts
  <2>2. d # turn /\ PureAt(d)
    BY <1>2, <1>f DEF BypassRequest
  <2>3. wire'[d] = wire[d] /\ CaptureOf(d)' = CaptureOf(d)
        /\ (d \in DOMAIN contexts' <=> d \in DOMAIN contexts)
    BY <1>0, <1>2, <2>1, <2>2, SynthesizeWithin
    DEF BypassRequest, Without, CaptureOf, Registered
  <2> QED
    BY <1>2, <2>2, <2>3, PureKept DEF BypassRequest
<1>3. ASSUME Hit PROVE PureAt(d)'
  <2>1. call \in Call /\ call # NoCall /\ turn \in Contexts
    BY <1>0, <1>3 DEF Hit, CallInTurn, NoCall, TypeOK
  <2>2. call.text \in Texts
    BY <1>3, <2>1 DEF Call, NoCall, Hit
  <2>3. CachedFrame(cache[call.text]) \in Frame
    <3>1. cache[call.text] \in Response
      BY <1>0, <1>3, <2>2 DEF Hit, TypeOK
    <3> QED
      BY <1>0, <3>1, BoundAssumption DEF CachedFrame, Frame, Response, TypeOK
  <2>4. \A T : Within(queue[d], "audio", T) => Within(queue'[d], "audio", T)
    <3>1. queue' = [queue EXCEPT ![turn] = Append(@, CachedFrame(cache[call.text]))]
      BY <1>3 DEF Hit, IntoAudioContext
    <3>2. CachedFrame(cache[call.text]).kind # "audio"
      BY DEF CachedFrame
    <3>3. CASE d # turn
      BY <3>1, <3>3
    <3>4. CASE d = turn
      <4>1. queue'[d] = Append(queue[d], CachedFrame(cache[call.text]))
        BY <1>0, <3>1, <3>4 DEF TypeOK
      <4> QED
        BY <1>0, <2>3, <3>2, <4>1, WithinAppended
    <3> QED
      BY <3>3, <3>4
  <2> QED
    BY <1>3, <1>f, <2>4, PureKept DEF Hit, history, CaptureOf, Registered
<1>4. ASSUME Miss PROVE PureAt(d)'
  <2>1. call \in Call /\ call # NoCall /\ turn \in Contexts /\ started \in Nat
    BY <1>0, <1>4, BoundAssumption DEF Miss, CallInTurn, NoCall, TypeOK
  <2>2. call.text \in Texts
    BY <1>4, <2>1 DEF Call, NoCall, Miss
  <2>3. /\ \A c \in Contexts : c # turn => wire'[c] = wire[c]
        /\ \A V : call.text \in V /\ Within(wire[turn], "speech", V) =>
                    Within(wire'[turn], "speech", V)
    BY <1>0, <1>4, <2>1, <2>2, SynthesizeWithin DEF Miss
  <2>4. /\ PureAt(d) /\ UNCHANGED << queue, finalizing, turn >>
        /\ contexts' = WithTask(turn, call.text)
    BY <1>4, <1>f DEF Miss, history
  <2>5. CASE d # turn
    <3>1. CaptureOf(d)' = CaptureOf(d) /\ (d \in DOMAIN contexts' <=> d \in DOMAIN contexts)
      BY <2>4, <2>5 DEF WithTask, CaptureOf, Registered
    <3> QED
      BY <2>3, <2>4, <2>5, <3>1, PureKept
  <2>6. CASE d = turn
    <3> DEFINE T == TaskTexts(CaptureOf(d))
               U == T \cup {call.text}
    <3>1. /\ TaskTexts(CaptureOf(d)') = U
          /\ CaptureOf(d)'.audio = CaptureOf(d).audio
      BY <1>0, <2>2, <2>4, <2>6, TaskTextsWithTask
    <3>2. /\ Pure(CaptureOf(d)) /\ Pure(finalizing[d].cap)
          /\ Within(wire[d], "speech", T) /\ Within(queue[d], "audio", T)
      BY <1>0, <2>4, <2>6 DEF PureAt
    <3>3. Pure(CaptureOf(d))'
      BY <3>1, <3>2 DEF Pure
    <3> HIDE DEF T
    <3>4. Within(wire'[d], "speech", U) /\ Within(queue'[d], "audio", U)
      <4>1. Within(wire[d], "speech", U) /\ Within(queue[d], "audio", U)
        BY <3>2, WithinMore
      <4> QED
        BY <2>3, <2>4, <2>6, <4>1
    <3>5. Pure(finalizing[d].cap)'
      BY <2>4, <3>2
    <3> HIDE DEF U
    <3> QED
      BY <3>1, <3>3, <3>4, <3>5 DEF PureAt
  <2> QED
    BY <2>5, <2>6
<1>5. ASSUME SynthReturn PROVE PureAt(d)'
  BY <1>5, <1>f DEF SynthReturn, PureAt, CaptureOf, Registered, history
<1>6. ASSUME SynthFail PROVE PureAt(d)'
  <2>1. d # turn /\ PureAt(d)
    BY <1>6, <1>f DEF SynthFail
  <2>2. wire'[d] = wire[d] /\ CaptureOf(d)' = CaptureOf(d)
        /\ (d \in DOMAIN contexts' <=> d \in DOMAIN contexts)
    BY <1>6, <2>1 DEF SynthFail, Without, CaptureOf, Registered
  <2> QED
    BY <1>6, <2>1, <2>2, PureKept DEF SynthFail
<1>7. ASSUME EndTurn PROVE PureAt(d)'
  <2>1. turn \in Contexts /\ StopMessage \in Message /\ StopMessage.kind # "speech"
    BY <1>0, <1>7, BoundAssumption
    DEF EndTurn, TypeOK, Contexts, StopMessage, Message
  <2>2. \A T : Within(wire[d], "speech", T) => Within(wire'[d], "speech", T)
    <3>1. CASE d # turn
      BY <1>7, <3>1 DEF EndTurn
    <3>2. CASE d = turn
      <4>1. wire'[d] = Append(wire[d], StopMessage)
        BY <1>0, <1>7, <3>2 DEF EndTurn, TypeOK
      <4> QED
        BY <1>0, <2>1, <4>1, WithinAppended
    <3> QED
      BY <3>1, <3>2
  <2>3. ~(d < turn') => ~(d < turn)
    BY <1>0, <1>7 DEF EndTurn
  <2> QED
    BY <1>7, <1>f, <2>2, <2>3, PureKept DEF EndTurn, history, CaptureOf, Registered
<1>8. ASSUME NEW c \in Contexts, ReceiveSpeech(c) PROVE PureAt(d)'
  <2> DEFINE message == Head(wire[c])
             f == [kind |-> "audio", req |-> message.req, units |-> message.units]
  <2>1. wire[c] # << >> /\ message.kind = "speech" /\ message \in Message
    BY <1>0, <1>8 DEF ReceiveSpeech
  <2>2. f \in Frame /\ message.stamps \in Seq(Stamp)
    BY <2>1 DEF Frame, Message
  <2>3. /\ DOMAIN contexts' = DOMAIN contexts
        /\ CaptureOf(d)'.tasks = CaptureOf(d).tasks
        /\ CaptureOf(d)'.audio = CaptureOf(d).audio
    BY <1>0, <1>8, <2>2, CaptureWithStamps DEF ReceiveSpeech
  <2>4. /\ wire' = [wire EXCEPT ![c] = Tail(wire[c])]
        /\ queue' = [queue EXCEPT ![c] = Append(queue[c], f)]
    BY <1>8 DEF ReceiveSpeech
  <2>5. ASSUME NEW T, Within(wire[d], "speech", T), Within(queue[d], "audio", T)
        PROVE  Within(wire'[d], "speech", T) /\ Within(queue'[d], "audio", T)
    <3>1. CASE d # c
      BY <2>4, <2>5, <3>1
    <3>2. CASE d = c
      <4>1. wire'[d] = Tail(wire[c]) /\ queue'[d] = Append(queue[c], f)
        BY <1>0, <2>4, <3>2 DEF TypeOK
      <4>2. Within(Tail(wire[c]), "speech", T) /\ OfTexts(f.units, T)
        BY <1>0, <2>1, <2>5, <3>2, WithinTail
      <4> HIDE DEF f
      <4>3. Within(Append(queue[c], f), "audio", T)
        BY <1>0, <2>2, <2>5, <3>2, <4>2, WithinAppended
      <4> QED
        BY <4>1, <4>2, <4>3
    <3> QED
      BY <3>1, <3>2
  <2> QED
    BY <1>8, <1>f, <2>3, <2>5, PureKept DEF ReceiveSpeech, history
<1>9. ASSUME NEW c \in Contexts, ReceiveStop(c) PROVE PureAt(d)'
  <2>1. wire[c] # << >> /\ StopFrame \in Frame /\ StopFrame.kind # "audio"
    BY <1>9 DEF ReceiveStop, StopFrame, Frame
  <2>2. /\ wire' = [wire EXCEPT ![c] = Tail(wire[c])]
        /\ queue' = [queue EXCEPT ![c] = Append(queue[c], StopFrame)]
    BY <1>9 DEF ReceiveStop
  <2>3. ASSUME NEW T, Within(wire[d], "speech", T), Within(queue[d], "audio", T)
        PROVE  Within(wire'[d], "speech", T) /\ Within(queue'[d], "audio", T)
    <3>1. CASE d # c
      BY <2>2, <2>3, <3>1
    <3>2. CASE d = c
      <4>1. wire'[d] = Tail(wire[c]) /\ queue'[d] = Append(queue[c], StopFrame)
        BY <1>0, <2>2, <3>2 DEF TypeOK
      <4>2. Within(Tail(wire[c]), "speech", T)
        BY <1>0, <2>1, <2>3, <3>2, WithinTail
      <4>3. Within(Append(queue[c], StopFrame), "audio", T)
        BY <1>0, <2>1, <2>3, <3>2, WithinAppended
      <4> QED
        BY <4>1, <4>2, <4>3
    <3> QED
      BY <3>1, <3>2
  <2> QED
    BY <1>9, <1>f, <2>3, PureKept DEF ReceiveStop, history, CaptureOf, Registered
<1>10. ASSUME NEW c \in Contexts, PushAudio(c) PROVE PureAt(d)'
  <2> DEFINE frame == Head(queue[c])
             T == TaskTexts(CaptureOf(d))
  <2>1. queue[c] # << >> /\ frame \in Frame /\ contexts' = WithAudio(c, frame)
    BY <1>0, <1>10 DEF PushAudio
  <2>2. queue' = [queue EXCEPT ![c] = Tail(queue[c])]
    BY <1>10 DEF PushAudio, Forwarded
  <2>3. /\ UNCHANGED << wire, finalizing, turn >>
        /\ PureAt(d)
    BY <1>10, <1>f DEF PushAudio, history
  <2> HIDE DEF frame
  <2>4. /\ DOMAIN contexts' = DOMAIN contexts
        /\ CaptureOf(d)'.tasks = CaptureOf(d).tasks
        /\ \/ CaptureOf(d)'.audio = CaptureOf(d).audio
           \/ /\ d = c /\ frame.kind = "audio" /\ d \in DOMAIN contexts
              /\ CaptureOf(d)'.audio = CaptureOf(d).audio \o frame.units
    BY <1>0, <2>1, CaptureWithAudio
  <2>5. ASSUME NEW V, Within(queue[d], "audio", V)
        PROVE  Within(queue'[d], "audio", V)
    <3>1. CASE d # c
      BY <2>2, <2>5, <3>1
    <3>2. CASE d = c
      <4>1. queue'[d] = Tail(queue[c])
        BY <1>0, <2>2, <3>2 DEF TypeOK
      <4> QED
        BY <1>0, <2>1, <2>5, <3>2, <4>1, WithinTail
    <3> QED
      BY <3>1, <3>2
  <2>6. CASE CaptureOf(d)'.audio = CaptureOf(d).audio
    BY <2>3, <2>4, <2>5, <2>6, PureKept
  <2>7. CASE /\ d = c /\ frame.kind = "audio" /\ d \in DOMAIN contexts
             /\ CaptureOf(d)'.audio = CaptureOf(d).audio \o frame.units
    <3>1. TaskTexts(CaptureOf(d)') = T
      BY <2>4 DEF TaskTexts
    <3> HIDE DEF T
    <3>2. /\ OfTexts(CaptureOf(d).audio, T)
          /\ Within(wire[d], "speech", T) /\ Within(queue[d], "audio", T)
      BY <2>3, <2>7 DEF PureAt, Pure, OfTexts, T
    <3>3. OfTexts(frame.units, T)
      BY <1>0, <2>1, <2>7, <3>2, WithinTail DEF frame
    <3>4. CaptureOf(d).audio \in Seq(Unit) /\ frame.units \in Seq(Unit)
      <4>1. CaptureOf(d) \in Capture
        BY <1>0, CaptureOfOK
      <4> QED
        BY <2>1, <4>1 DEF Capture, Frame
    <3>5. OfTexts(CaptureOf(d)'.audio, T)
      BY <2>7, <3>2, <3>3, <3>4, PureConcat
    <3>6. Pure(CaptureOf(d))'
      BY <3>1, <3>5 DEF Pure, OfTexts
    <3>7. Pure(finalizing[d].cap)'
      BY <2>3 DEF PureAt
    <3> QED
      BY <2>3, <2>5, <3>1, <3>2, <3>6, <3>7 DEF PureAt
  <2> QED
    BY <2>4, <2>6, <2>7
<1>11. ASSUME NEW c \in Contexts, PushStopped(c) PROVE PureAt(d)'
  <2>1. queue[c] # << >> /\ HasStop(queue[c]) /\ c < turn
    BY <1>0, <1>11 DEF PushStopped, HasStop, TurnInv
  <2>2. /\ UNCHANGED << wire, turn >> /\ PureAt(d)
        /\ contexts' = Without(c)
    BY <1>11, <1>f DEF PushStopped, history
  <2>3. CASE d = c
    <3>1. d \notin DOMAIN contexts' /\ CaptureOf(d)' = EmptyCapture /\ d < turn'
      BY <2>1, <2>2, <2>3 DEF Without, CaptureOf, Registered
    <3>2. finalizing'[d] = finalizing[d] \/ finalizing'[d].cap = CaptureOf(d)
      BY <1>0, <1>11, <2>3 DEF PushStopped, TypeOK
    <3>3. Pure(finalizing[d].cap)'
      BY <2>2, <3>2 DEF PureAt
    <3> QED
      BY <3>1, <3>3, EmptyCapturePure DEF PureAt
  <2>4. CASE d # c
    <3>1. /\ CaptureOf(d)' = CaptureOf(d)
          /\ d \in DOMAIN contexts' <=> d \in DOMAIN contexts
      BY <2>2, <2>4 DEF Without, CaptureOf, Registered
    <3>2. queue'[d] = queue[d] /\ finalizing'[d] = finalizing[d]
      BY <1>0, <1>11, <2>4 DEF PushStopped, TypeOK
    <3> QED
      BY <2>2, <3>1, <3>2, PureKept
  <2> QED
    BY <2>3, <2>4
<1>12. ASSUME NEW c \in Contexts, StoreResponse(c) PROVE PureAt(d)'
  <2>1. queue[c] # << >>
    BY <1>12 DEF StoreResponse, TypeInv, FinalizationOK
  <2>2. UNCHANGED << contexts, wire, turn >> /\ PureAt(d)
    BY <1>12, <1>f DEF StoreResponse, history
  <2>3. /\ queue'[d] = queue[d] \/ (d = c /\ queue'[d] = Tail(queue[c]))
        /\ \/ finalizing'[d].cap = finalizing[d].cap
           \/ finalizing'[d] = NotFinalizing
    BY <1>0, <1>12 DEF StoreResponse, Forwarded, TypeOK
  <2>4. \A T : Within(queue[d], "audio", T) => Within(queue'[d], "audio", T)
    BY <1>0, <2>1, <2>3, WithinTail
  <2>5. Pure(finalizing[d].cap)'
    BY <2>2, <2>3, EmptyCapturePure DEF PureAt
  <2>6. CaptureOf(d)' = CaptureOf(d)
    BY <2>2 DEF CaptureOf, Registered
  <2> QED
    BY <2>2, <2>4, <2>5, <2>6 DEF PureAt
<1>13. ASSUME NEW late \in BOOLEAN, Interrupt(late) PROVE PureAt(d)'
  <2>1. /\ contexts' = [c \in {} |-> EmptyCapture] /\ turn' = turn + 1
        /\ PureAt(d)
    BY <1>13, <1>f DEF Interrupt, AfterInterruption, history
  <2>2. CaptureOf(d)' = EmptyCapture /\ d \notin DOMAIN contexts'
    BY <2>1 DEF CaptureOf, Registered
  <2>3. Pure(finalizing[d].cap)'
    BY <1>13, <2>1, EmptyCapturePure DEF Interrupt, PureAt
  <2>4. ASSUME ~(d < turn')
        PROVE  Within(wire'[d], "speech", {}) /\ Within(queue'[d], "audio", {})
    <3>1. d # turn /\ d > turn /\ ~(d < turn)
      BY <1>0, <2>1, <2>4
    <3>2. d \notin DOMAIN contexts /\ wire[d] = << >>
      BY <1>0, <3>1 DEF TurnInv
    <3>3. TaskTexts(CaptureOf(d)) = {}
      BY <3>2 DEF CaptureOf, Registered, TaskTexts, EmptyCapture
    <3>4. Within(queue[d], "audio", {})
      BY <2>1, <3>1, <3>3 DEF PureAt
    <3>5. wire'[d] = << >> /\ (queue'[d] = queue[d] \/ queue'[d] = << >>)
      BY <1>13, <3>1, <3>2 DEF Interrupt, CutOff
    <3> QED
      BY <3>4, <3>5 DEF Within
  <2>5. TaskTexts(EmptyCapture) = {}
    BY DEF TaskTexts, EmptyCapture
  <2> QED
    BY <2>2, <2>3, <2>4, <2>5, EmptyCapturePure DEF PureAt
<1>14. ASSUME Lose PROVE PureAt(d)'
  BY <1>14, <1>f DEF Lose, PureAt, CaptureOf, Registered, history
<1>15. CASE UNCHANGED vars
  BY <1>15, <1>f DEF vars, history, PureAt, CaptureOf, Registered
<1> QED
  BY <1>1, <1>2, <1>3, <1>4, <1>5, <1>6, <1>7, <1>8, <1>9, <1>10, <1>11, <1>12,
     <1>13, <1>14, <1>15
  DEF Next, AllTurnsOver

(***************************************************************************)
(* While no request of a context failed, a capture, and the one that is    *)
(* being written to the backend, only hold speech of their own texts       *)
(* (run_tts, push_frame, _finalize_context).                               *)
(***************************************************************************)
THEOREM CapturesArePure == Spec => []CapturePure
<1>1. Init => TypeInv /\ TurnInv /\ PureInv
  BY InitTypeInv, InitTurnInv, InitPureInv
<1>2. TypeInv /\ TurnInv /\ PureInv /\ [Next]_vars => (TypeInv /\ TurnInv /\ PureInv)'
  BY NextTypeInv, NextTurnInv, NextPureInv
<1>3. PureInv => CapturePure
  BY DEF PureInv, PureAt, CapturePure
<1> QED
  BY <1>1, <1>2, <1>3, PTL DEF Spec

-------------------------------------------------------------------------------
(* Without word timestamps                                                 *)

Unstamped(s) == \A i \in DOMAIN s : s[i].stamps = << >>

EntryOwn(t) ==
  cache[t] # NoEntry /\ cache[t].from \notin faulted =>
    \A p \in DOMAIN cache[t].audio : cache[t].audio[p].text = t

(***************************************************************************)
(* No timestamp ever reaches a capture, so a capture of several tasks is   *)
(* never split, and what is stored of a lone task is its pure capture.     *)
(***************************************************************************)
EntryInv ==
  /\ \A c \in DOMAIN contexts : contexts[c].stamps = << >>
  /\ \A c \in Contexts : finalizing[c].cap.stamps = << >>
  /\ \A c \in Contexts : Unstamped(wire[c])
  /\ \A t \in Texts : EntryOwn(t)

(* Messages without timestamps, and one more. *)
LEMMA UnstampedAppended ==
  ASSUME NEW s \in Seq(Message), NEW e \in Message, Unstamped(s), e.stamps = << >>
  PROVE  Unstamped(Append(s, e))
<1>1. \A i \in DOMAIN Append(s, e) :
        \/ i \in DOMAIN s /\ Append(s, e)[i] = s[i]
        \/ Append(s, e)[i] = e
  OBVIOUS
<1> QED
  BY <1>1 DEF Unstamped

(* Two such sequences in a row. *)
LEMMA UnstampedConcat ==
  ASSUME NEW s \in Seq(Message), NEW r \in Seq(Message), Unstamped(s), Unstamped(r)
  PROVE  Unstamped(s \o r)
<1>1. \A i \in DOMAIN (s \o r) :
        \/ i \in DOMAIN s /\ (s \o r)[i] = s[i]
        \/ i - Len(s) \in DOMAIN r /\ (s \o r)[i] = r[i - Len(s)]
  OBVIOUS
<1> QED
  BY <1>1 DEF Unstamped

(* A part of such a sequence. *)
LEMMA UnstampedParts ==
  ASSUME NEW s \in Seq(Message), Unstamped(s)
  PROVE  /\ s # << >> => Unstamped(Tail(s)) /\ Head(s).stamps = << >>
         /\ \A n \in 0..Len(s) : Unstamped(SubSeq(s, 1, n))
<1>1. ASSUME s # << >> PROVE Unstamped(Tail(s)) /\ Head(s).stamps = << >>
  <2>1. \A i \in DOMAIN Tail(s) : i + 1 \in DOMAIN s /\ Tail(s)[i] = s[i+1]
    BY <1>1
  <2>2. 1 \in DOMAIN s /\ Head(s) = s[1]
    BY <1>1
  <2> QED
    BY <2>1, <2>2 DEF Unstamped
<1>2. ASSUME NEW n \in 0..Len(s) PROVE Unstamped(SubSeq(s, 1, n))
  <2>1. \A i \in DOMAIN SubSeq(s, 1, n) : i \in DOMAIN s /\ SubSeq(s, 1, n)[i] = s[i]
    OBVIOUS
  <2> QED
    BY <2>1 DEF Unstamped
<1> QED
  BY <1>1, <1>2

(* Without timestamps only a lone task is stored, and with all its audio.  *)
LEMMA LoneTaskStored ==
  ASSUME NEW cap \in Capture, cap.stamps = << >>, NEW i \in StoredTasks(cap),
         NEW c \in Contexts, Pure(cap)
  PROVE  \A p \in DOMAIN ResponseOf(cap, i, c).audio :
           ResponseOf(cap, i, c).audio[p].text = cap.tasks[i].text
<1>1. cap.tasks \in Seq(Task) /\ Len(cap.tasks) \in Nat
  BY DEF Capture
<1>2. ~(Len(cap.tasks) > 1) /\ i \in 1..Len(cap.tasks)
  BY DEF StoredTasks, Splittable
<1>3. i = 1 /\ DOMAIN cap.tasks = {1}
  BY <1>1, <1>2
<1>4. ResponseOf(cap, i, c).audio = cap.audio
  BY <1>2 DEF ResponseOf, ResponseAudio
<1>5. TaskTexts(cap) = {cap.tasks[i].text}
  BY <1>3 DEF TaskTexts
<1> QED
  BY <1>4, <1>5 DEF Pure

(* The invariant holds in the beginning. *)
LEMMA InitEntryInv == Init => EntryInv
  BY DEF Init, EntryInv, EntryOwn, Unstamped, NotFinalizing, EmptyCapture

(* Entries are as good as before when only entries went and faults came.   *)
LEMMA EntriesKept ==
  ASSUME \A t \in Texts : EntryOwn(t),
         \A t \in Texts : cache'[t] = cache[t] \/ cache'[t] = NoEntry,
         faulted \subseteq faulted'
  PROVE  \A t \in Texts : EntryOwn(t)'
  BY DEF EntryOwn

(* Without word timestamps every step preserves it. *)
LEMMA NextEntryInv ==
  ASSUME Timestamps = "none", TypeInv, PureInv, EntryInv, [Next]_vars
  PROVE  EntryInv'
<1>0. /\ TypeOK /\ CallInTurn /\ CapturesOK(contexts)
      /\ \A c \in Contexts : wire[c] \in Seq(Message)
  BY TypeInvCaptures DEF TypeInv, TypeOK
<1>q. /\ \A c \in DOMAIN contexts : contexts[c].stamps = << >>
      /\ \A c \in Contexts : finalizing[c].cap.stamps = << >>
      /\ \A c \in Contexts : Unstamped(wire[c])
      /\ \A t \in Texts : EntryOwn(t)
  BY DEF EntryInv
<1>s. ASSUME NEW t \in Texts, NEW req \in Nat, turn \in Contexts, Synthesize(t, req)
      PROVE  \A c \in Contexts : Unstamped(wire'[c])
  <2> DEFINE speech == Speech(t, clock[turn], req)
  <2>1. clock[turn] \in Nat /\ wire[turn] \in Seq(Message)
    BY <1>0, <1>s DEF TypeOK
  <2>2. speech \in Seq(Message) /\ \A w \in DOMAIN speech : speech[w].stamps = << >>
    BY <2>1, SpeechType
  <2>3. wire' = [wire EXCEPT ![turn] = wire[turn] \o speech]
    BY <1>s DEF Synthesize
  <2> HIDE DEF speech
  <2>4. Unstamped(wire[turn] \o speech)
    BY <1>q, <1>s, <2>1, <2>2, UnstampedConcat DEF Unstamped
  <2> QED
    BY <1>0, <1>q, <2>3, <2>4 DEF TypeOK
<1>1. ASSUME NEW t \in Texts, StartRequest(t) PROVE EntryInv'
  BY <1>1, <1>q, EntriesKept DEF StartRequest, EntryInv
<1>2. ASSUME NEW t \in Texts, BypassRequest(t) PROVE EntryInv'
  <2>1. turn \in Contexts /\ started' \in Nat /\ Synthesize(t, started')
    BY <1>0, <1>2, BoundAssumption DEF BypassRequest, MayStart, TypeOK, Contexts
  <2>2. \A c \in Contexts : Unstamped(wire'[c])
    BY <1>s, <2>1
  <2>3. \A c \in DOMAIN contexts' : contexts'[c].stamps = << >>
    BY <1>2, <1>q DEF BypassRequest, Without
  <2>4. /\ UNCHANGED finalizing /\ UNCHANGED cache
        /\ faulted \subseteq faulted'
    BY <1>2 DEF BypassRequest
  <2> QED
    BY <1>q, <2>2, <2>3, <2>4, EntriesKept DEF EntryInv
<1>3. ASSUME Hit PROVE EntryInv'
  <2>1. UNCHANGED << contexts, finalizing, wire, cache, faulted >>
    BY <1>3 DEF Hit, Backend!Get, history
  <2> QED
    BY <1>q, <2>1, EntriesKept DEF EntryInv
<1>4. ASSUME Miss PROVE EntryInv'
  <2>1. call \in Call /\ call # NoCall /\ turn \in Contexts /\ started \in Nat
    BY <1>0, <1>4, BoundAssumption DEF Miss, CallInTurn, NoCall, TypeOK
  <2>2. call.text \in Texts
    BY <1>4, <2>1 DEF Call, NoCall, Miss
  <2>3. \A c \in Contexts : Unstamped(wire'[c])
    BY <1>s, <1>4, <2>1, <2>2 DEF Miss
  <2>4. UNCHANGED << finalizing, cache, faulted >> /\ contexts' = WithTask(turn, call.text)
    BY <1>4 DEF Miss, Backend!Get, history
  <2>5. \A c \in DOMAIN contexts' : contexts'[c].stamps = << >>
    <3> DEFINE cap  == CaptureOf(turn)
               task == [text  |-> call.text, words |-> Parsed[call.text],
                        first |-> TotalWords(cap.tasks)]
               new  == [cap EXCEPT !.tasks = Append(@, task)]
    <3>1. cap \in Capture /\ cap.stamps = << >>
      BY <1>0, <1>q, <2>1, CaptureOfOK DEF CaptureOf, Registered, EmptyCapture
    <3>2. new.stamps = << >>
      <4> HIDE DEF cap, task
      <4> QED
        BY <3>1 DEF Capture
    <3>3. contexts' = [c \in DOMAIN contexts \cup {turn} |->
                         IF c = turn THEN new ELSE contexts[c]]
      BY <2>4 DEF WithTask
    <3> HIDE DEF new
    <3> QED
      BY <1>q, <3>2, <3>3
  <2> QED
    BY <1>q, <2>3, <2>4, <2>5, EntriesKept DEF EntryInv
<1>5. ASSUME SynthReturn PROVE EntryInv'
  BY <1>5, <1>q, EntriesKept DEF SynthReturn, EntryInv, history
<1>6. ASSUME SynthFail PROVE EntryInv'
  <2>1. turn \in Contexts
    BY <1>0, <1>6 DEF SynthFail, CallInTurn, NoCall
  <2>2. \A c \in Contexts : Unstamped(wire'[c])
    <3>1. PICK n \in 0..Len(wire[turn]) :
            wire' = [wire EXCEPT ![turn] = SubSeq(@, 1, n)]
      BY <1>6 DEF SynthFail
    <3>2. Unstamped(SubSeq(wire[turn], 1, n))
      BY <1>0, <1>q, <2>1, UnstampedParts
    <3> QED
      BY <1>0, <1>q, <3>1, <3>2 DEF TypeOK
  <2>3. \A c \in DOMAIN contexts' : contexts'[c].stamps = << >>
    BY <1>6, <1>q DEF SynthFail, Without
  <2>4. UNCHANGED << finalizing, cache >> /\ faulted \subseteq faulted'
    BY <1>6 DEF SynthFail
  <2> QED
    BY <1>q, <2>2, <2>3, <2>4, EntriesKept DEF EntryInv
<1>7. ASSUME EndTurn PROVE EntryInv'
  <2>1. turn \in Contexts
    BY <1>0, <1>7, BoundAssumption DEF EndTurn, TypeOK, Contexts
  <2>2. Unstamped(Append(wire[turn], StopMessage))
    <3>1. StopMessage \in Message /\ StopMessage.stamps = << >>
      BY DEF StopMessage, Message
    <3> QED
      BY <1>0, <1>q, <2>1, <3>1, UnstampedAppended
  <2>3. wire' = [wire EXCEPT ![turn] = Append(wire[turn], StopMessage)]
        /\ UNCHANGED << contexts, finalizing, cache, faulted >>
    BY <1>7 DEF EndTurn, history
  <2>4. \A c \in Contexts : Unstamped(wire'[c])
    BY <1>0, <1>q, <2>2, <2>3 DEF TypeOK
  <2> QED
    BY <1>q, <2>3, <2>4, EntriesKept DEF EntryInv
<1>8. ASSUME NEW c \in Contexts, ReceiveSpeech(c) PROVE EntryInv'
  <2> DEFINE message == Head(wire[c])
  <2>1. wire[c] # << >> /\ message.stamps = << >> /\ Unstamped(Tail(wire[c]))
    BY <1>0, <1>8, <1>q, UnstampedParts DEF ReceiveSpeech
  <2>2. /\ contexts' = WithStamps(c, message.stamps)
        /\ wire' = [wire EXCEPT ![c] = Tail(wire[c])]
        /\ UNCHANGED << finalizing, cache, faulted >>
    BY <1>8 DEF ReceiveSpeech, history
  <2>3. \A d \in Contexts : Unstamped(wire'[d])
    BY <1>0, <1>q, <2>1, <2>2 DEF TypeOK
  <2>4. \A d \in DOMAIN contexts' : contexts'[d].stamps = << >>
    <3> SUFFICES ASSUME NEW d \in DOMAIN contexts PROVE contexts'[d].stamps = << >>
      BY <2>2 DEF WithStamps
    <3>1. contexts[d] \in Capture /\ contexts[d].stamps = << >>
      BY <1>0, <1>q DEF CapturesOK
    <3>2. contexts[d].stamps \o << >> = << >>
      BY <3>1
    <3>3. [contexts[d] EXCEPT !.stamps = @ \o << >>].stamps = << >>
      BY <3>1, <3>2 DEF Capture
    <3> QED
      BY <2>1, <2>2, <3>1, <3>3 DEF WithStamps
  <2> QED
    BY <1>q, <2>2, <2>3, <2>4, EntriesKept DEF EntryInv
<1>9. ASSUME NEW c \in Contexts, ReceiveStop(c) PROVE EntryInv'
  <2>1. wire[c] # << >> /\ Unstamped(Tail(wire[c]))
    BY <1>0, <1>9, <1>q, UnstampedParts DEF ReceiveStop
  <2>2. /\ wire' = [wire EXCEPT ![c] = Tail(wire[c])]
        /\ UNCHANGED << contexts, finalizing, cache, faulted >>
    BY <1>9 DEF ReceiveStop, history
  <2>3. \A d \in Contexts : Unstamped(wire'[d])
    BY <1>0, <1>q, <2>1, <2>2 DEF TypeOK
  <2> QED
    BY <1>q, <2>2, <2>3, EntriesKept DEF EntryInv
<1>10. ASSUME NEW c \in Contexts, PushAudio(c) PROVE EntryInv'
  <2> DEFINE frame == Head(queue[c])
  <2>1. /\ contexts' = WithAudio(c, frame)
        /\ UNCHANGED << wire, finalizing, cache, faulted >>
    BY <1>10 DEF PushAudio, history
  <2>2. frame.units \in Seq(Unit)
    <3>1. queue[c] \in Seq(Frame) /\ queue[c] # << >>
      BY <1>0, <1>10 DEF PushAudio, TypeOK
    <3>2. frame \in Frame
      BY <3>1
    <3> QED
      BY <3>2 DEF Frame
  <2> HIDE DEF frame
  <2>3. \A d \in DOMAIN contexts' : contexts'[d].stamps = << >>
    <3> SUFFICES ASSUME NEW d \in DOMAIN contexts PROVE contexts'[d].stamps = << >>
      BY <2>1 DEF WithAudio
    <3>1. contexts[d] \in Capture /\ contexts[d].stamps = << >>
      BY <1>0, <1>q DEF CapturesOK
    <3>2. contexts[d].audio \o frame.units \in Seq(Unit)
      BY <2>2, <3>1 DEF Capture
    <3>3. [contexts[d] EXCEPT !.audio = @ \o frame.units].stamps = << >>
      BY <3>1, <3>2, CaptureExcept
    <3> QED
      BY <2>1, <3>1, <3>3 DEF WithAudio
  <2> QED
    BY <1>q, <2>1, <2>3, EntriesKept DEF EntryInv
<1>11. ASSUME NEW c \in Contexts, PushStopped(c) PROVE EntryInv'
  <2>1. contexts' = Without(c) /\ UNCHANGED << wire, cache, faulted >>
    BY <1>11 DEF PushStopped, history
  <2>2. CaptureOf(c).stamps = << >>
    BY <1>q DEF CaptureOf, Registered, EmptyCapture
  <2>3. \A d \in Contexts : finalizing'[d].cap.stamps = << >>
    BY <1>0, <1>11, <1>q, <2>2, SMTT(30) DEF PushStopped, TypeOK
  <2>4. \A d \in DOMAIN contexts' : contexts'[d].stamps = << >>
    BY <1>q, <2>1 DEF Without
  <2> QED
    BY <1>q, <2>1, <2>3, <2>4, EntriesKept DEF EntryInv
<1>12. ASSUME NEW c \in Contexts, StoreResponse(c) PROVE EntryInv'
  <2> DEFINE cap == finalizing[c].cap
  <2>1. PICK i \in finalizing[c].left :
          /\ \/ Backend!Put(cap.tasks[i].text, ResponseOf(cap, i, c))
             \/ Backend!PutFailed
          /\ UNCHANGED << contexts, wire, faulted >>
    BY <1>12 DEF StoreResponse, history
  <2>2. \A d \in Contexts : finalizing'[d].cap.stamps = << >>
    BY <1>0, <1>12, <1>q
    DEF StoreResponse, NotFinalizing, EmptyCapture, TypeOK
  <2>3. \A t \in Texts : EntryOwn(t)'
    <3>1. CASE Backend!PutFailed
      BY <1>q, <2>1, <3>1, EntriesKept DEF Backend!PutFailed
    <3>2. CASE Backend!Put(cap.tasks[i].text, ResponseOf(cap, i, c))
      <4>1. cap \in Capture /\ i \in StoredTasks(cap) /\ cap.stamps = << >>
        <5>1. finalizing[c] \in Finalizing /\ FinalizationOK(c)
          BY <1>0 DEF TypeInv, TypeOK
        <5> QED
          BY <1>q, <5>1 DEF Finalizing, FinalizationOK
      <4>2. c \notin faulted => Pure(cap)
        BY DEF PureInv, PureAt
      <4>3. ResponseOf(cap, i, c).from = c
        BY DEF ResponseOf
      <4> DEFINE r == ResponseOf(cap, i, c)
      <4>4. c \notin faulted => \A p \in DOMAIN r.audio : r.audio[p].text = cap.tasks[i].text
        BY <4>1, <4>2, LoneTaskStored
      <4>5. \A t \in Texts : \/ t = cap.tasks[i].text /\ cache'[t] = r
                             \/ cache'[t] = cache[t]
                             \/ cache'[t] = NoEntry
        BY <3>2 DEF Backend!Put
      <4> HIDE DEF r, cap
      <4>6. r.from = c
        BY <4>3 DEF r
      <4> QED
        BY <1>q, <2>1, <4>4, <4>5, <4>6 DEF EntryOwn
    <3> QED
      BY <2>1, <3>1, <3>2
  <2> QED
    BY <1>q, <2>1, <2>2, <2>3 DEF EntryInv
<1>13. ASSUME NEW late \in BOOLEAN, Interrupt(late) PROVE EntryInv'
  <2>1. contexts' = [c \in {} |-> EmptyCapture] /\ UNCHANGED << cache, faulted >>
    BY <1>13 DEF Interrupt, AfterInterruption, history
  <2>2. \A c \in Contexts : finalizing'[c].cap.stamps = << >>
    BY <1>13, <1>q DEF Interrupt, NotFinalizing, EmptyCapture
  <2>3. \A c \in Contexts : Unstamped(wire'[c])
    <3>1. \A c \in Contexts : wire'[c] = << StopMessage >> \/ wire'[c] = << >>
      BY <1>13 DEF Interrupt, CutOff
    <3>2. Unstamped(<< StopMessage >>) /\ Unstamped(<< >>)
      BY DEF Unstamped, StopMessage
    <3> QED
      BY <3>1, <3>2
  <2> QED
    BY <1>q, <2>1, <2>2, <2>3, EntriesKept DEF EntryInv
<1>14. ASSUME Lose PROVE EntryInv'
  <2>1. /\ UNCHANGED << contexts, finalizing, wire, faulted >>
        /\ \A t \in Texts : cache'[t] = cache[t] \/ cache'[t] = NoEntry
    BY <1>14 DEF Lose, Backend!Lose, history
  <2> QED
    BY <1>q, <2>1, EntriesKept DEF EntryInv
<1>15. CASE UNCHANGED vars
  BY <1>15, <1>q, EntriesKept DEF vars, history, EntryInv
<1> QED
  BY <1>1, <1>2, <1>3, <1>4, <1>5, <1>6, <1>7, <1>8, <1>9, <1>10, <1>11, <1>12,
     <1>13, <1>14, <1>15
  DEF Next, AllTurnsOver

(***************************************************************************)
(* A service without word timestamps never has the speech of one text      *)
(* cached under another, unless a request of the context failed: the text  *)
(* of every stored sample is the text of the key (_finalize_context).      *)
(***************************************************************************)
THEOREM EntriesAreOwnSpeech == Spec => []OwnSpeechOnly
<1>1. CASE Timestamps # "none"
  <2>1. OwnSpeechOnly
    BY <1>1 DEF OwnSpeechOnly
  <2> QED
    BY <2>1, PTL
<1>2. CASE Timestamps = "none"
  <2>1. Init => TypeInv /\ TurnInv /\ PureInv /\ EntryInv
    BY InitTypeInv, InitTurnInv, InitPureInv, InitEntryInv
  <2>2. TypeInv /\ TurnInv /\ PureInv /\ EntryInv /\ [Next]_vars
        => (TypeInv /\ TurnInv /\ PureInv /\ EntryInv)'
    BY <1>2, NextTypeInv, NextTurnInv, NextPureInv, NextEntryInv
  <2>3. EntryInv => OwnSpeechOnly
    BY DEF EntryInv, EntryOwn, OwnSpeechOnly
  <2> QED
    BY <2>1, <2>2, <2>3, PTL DEF Spec
<1> QED
  BY <1>1, <1>2

==============================================================================
