---------------------- MODULE TTSCacheMixinSpeech_proofs -----------------------
(***************************************************************************)
(* Where the speech of TTSCacheMixin goes.  A capture holds or still gets  *)
(* all the speech due to its texts; for a service without word timestamps, *)
(* or with timestamps that run on over a context, an entry is all of its   *)
(* text's speech, and its timestamps point at their words.                 *)
(***************************************************************************)
EXTENDS TTSCacheMixin_proofs, SequenceLemmas

-------------------------------------------------------------------------------
(* Speech and timestamps as the model spreads them over its sequences      *)

Voice    == [t \in Texts |-> Silence(t) \o Sentence(t)]
Live     == [f \in Frame |-> IF f.kind = "audio" THEN f.units ELSE << >>]
UnitsOf  == [m \in Message |-> m.units]
StampsOf == [m \in Message |-> m.stamps]

(* The speech of a text: its silence, then a sample for every word. *)
LEMMA VoiceType ==
  ASSUME NEW t \in Texts
  PROVE  /\ Silence(t) \in Seq(Unit) /\ Len(Silence(t)) = Lead[t]
         /\ Sentence(t) \in Seq(Unit) /\ Len(Sentence(t)) = Words[t]
         /\ Silence(t) \o Sentence(t) \in Seq(Unit)
         /\ Len(Silence(t) \o Sentence(t)) = Lead[t] + Words[t]
<1>1. Words[t] \in Nat /\ Lead[t] \in Nat
  BY ServiceAssumption
<1>2. \A w \in Nat : [text |-> t, word |-> w] \in Unit
  BY DEF Unit
<1>3. Silence(t) \in Seq(Unit) /\ Len(Silence(t)) = Lead[t]
  BY <1>1, <1>2 DEF Silence
<1>4. Sentence(t) \in Seq(Unit) /\ Len(Sentence(t)) = Words[t]
  BY <1>1, <1>2 DEF Sentence
<1> QED
  BY <1>3, <1>4

(* The four mappings, typed. *)
LEMMA SpreadsTyped ==
  /\ OnSet(Voice, Texts, Seq(Unit))
  /\ OnSet(Live, Frame, Seq(Unit))
  /\ OnSet(UnitsOf, Message, Seq(Unit))
  /\ OnSet(StampsOf, Message, Seq(Stamp))
<1>1. OnSet(Voice, Texts, Seq(Unit))
  BY VoiceType DEF OnSet, Voice
<1>2. \A f \in Frame : f.units \in Seq(Unit)
  BY DEF Frame
<1>3. OnSet(Live, Frame, Seq(Unit))
  BY <1>2 DEF OnSet, Live
<1>4. \A m \in Message : m.units \in Seq(Unit) /\ m.stamps \in Seq(Stamp)
  BY DEF Message
<1>5. OnSet(UnitsOf, Message, Seq(Unit)) /\ OnSet(StampsOf, Message, Seq(Stamp))
  BY <1>4 DEF OnSet, UnitsOf, StampsOf
<1> QED
  BY <1>1, <1>3, <1>5

(* Uttered in terms of Voice. *)
LEMMA UtteredSpread ==
  ASSUME NEW texts \in Seq(Texts)
  PROVE  Uttered(texts) = Spread(Voice, texts)
<1>1. \A i \in DOMAIN texts : texts[i] \in Texts
  OBVIOUS
<1>2. Mapped(Voice, texts) = [i \in DOMAIN texts |-> Silence(texts[i]) \o Sentence(texts[i])]
  BY <1>1 DEF Mapped, Voice
<1> QED
  BY <1>2 DEF Uttered, Spread

(* LiveUnits in terms of Live. *)
LEMMA LiveSpread ==
  ASSUME NEW frames \in Seq(Frame)
  PROVE  LiveUnits(frames) = Spread(Live, frames)
<1>1. \A i \in DOMAIN frames : frames[i] \in Frame
  OBVIOUS
<1>2. Mapped(Live, frames) =
        [i \in DOMAIN frames |-> IF frames[i].kind = "audio" THEN frames[i].units ELSE << >>]
  BY <1>1 DEF Mapped, Live
<1> QED
  BY <1>2 DEF LiveUnits, Spread

(* UnitsSent and StampsSent in terms of UnitsOf and StampsOf. *)
LEMMA SentSpread ==
  ASSUME NEW messages \in Seq(Message)
  PROVE  /\ UnitsSent(messages) = Spread(UnitsOf, messages)
         /\ StampsSent(messages) = Spread(StampsOf, messages)
<1>1. \A i \in DOMAIN messages : messages[i] \in Message
  OBVIOUS
<1>2. Mapped(UnitsOf, messages) = [i \in DOMAIN messages |-> messages[i].units]
  BY <1>1 DEF Mapped, UnitsOf
<1>3. Mapped(StampsOf, messages) = [i \in DOMAIN messages |-> messages[i].stamps]
  BY <1>1 DEF Mapped, StampsOf
<1> QED
  BY <1>2, <1>3 DEF UnitsSent, StampsSent, Spread

(* What a text is worth in audio and in timestamps. *)
LEMMA UtteredAppend ==
  ASSUME NEW texts \in Seq(Texts), NEW t \in Texts
  PROVE  /\ Uttered(texts) \in Seq(Unit)
         /\ Uttered(Append(texts, t)) = Uttered(texts) \o (Silence(t) \o Sentence(t))
<1>1. Spread(Voice, Append(texts, t)) = Spread(Voice, texts) \o Voice[t]
  BY SpreadsTyped, SpreadAppend
<1>2. Spread(Voice, texts) \in Seq(Unit)
  BY SpreadsTyped, SpreadType
<1>3. Append(texts, t) \in Seq(Texts)
  OBVIOUS
<1>4. Voice[t] = Silence(t) \o Sentence(t)
  BY DEF Voice
<1>5. Uttered(Append(texts, t)) = Spread(Voice, Append(texts, t))
      /\ Uttered(texts) = Spread(Voice, texts)
  BY <1>3, UtteredSpread
<1> QED
  BY <1>1, <1>2, <1>4, <1>5

(* The speech of two sequences of texts, one after the other. *)
LEMMA UtteredConcat ==
  ASSUME NEW texts \in Seq(Texts), NEW more \in Seq(Texts)
  PROVE  Uttered(texts \o more) = Uttered(texts) \o Uttered(more)
<1>1. texts \o more \in Seq(Texts)
  OBVIOUS
<1>2. Spread(Voice, texts \o more) = Spread(Voice, texts) \o Spread(Voice, more)
  BY SpreadsTyped, SpreadConcat
<1> QED
  BY <1>1, <1>2, UtteredSpread

(* The frames of an audio context, as they come and go. *)
LEMMA LiveQueue ==
  ASSUME NEW frames \in Seq(Frame)
  PROVE  /\ LiveUnits(frames) \in Seq(Unit)
         /\ LiveUnits(<< >>) = << >>
         /\ \A f \in Frame : LiveUnits(Append(frames, f)) = LiveUnits(frames) \o Live[f]
         /\ frames # << >> =>
              LiveUnits(frames) = Live[Head(frames)] \o LiveUnits(Tail(frames))
<1>1. LiveUnits(frames) = Spread(Live, frames)
  BY LiveSpread
<1>2. << >> \in Seq(Frame)
  OBVIOUS
<1>3. LiveUnits(<< >>) = Spread(Live, << >>)
  BY <1>2, LiveSpread
<1>4. Spread(Live, frames) \in Seq(Unit) /\ Spread(Live, << >>) = << >>
  BY SpreadsTyped, SpreadType
<1>5. ASSUME NEW f \in Frame
      PROVE  LiveUnits(Append(frames, f)) = LiveUnits(frames) \o Live[f]
  <2>1. Append(frames, f) \in Seq(Frame)
    OBVIOUS
  <2>2. LiveUnits(Append(frames, f)) = Spread(Live, Append(frames, f))
    BY <2>1, LiveSpread
  <2>3. Spread(Live, Append(frames, f)) = Spread(Live, frames) \o Live[f]
    BY SpreadsTyped, SpreadAppend
  <2> QED
    BY <1>1, <2>2, <2>3
<1>6. ASSUME frames # << >>
      PROVE  LiveUnits(frames) = Live[Head(frames)] \o LiveUnits(Tail(frames))
  <2>1. Tail(frames) \in Seq(Frame)
    BY <1>6
  <2>2. LiveUnits(Tail(frames)) = Spread(Live, Tail(frames))
    BY <2>1, LiveSpread
  <2>3. Spread(Live, frames) = Live[Head(frames)] \o Spread(Live, Tail(frames))
    BY <1>6, SpreadsTyped, SpreadHead
  <2> QED
    BY <1>1, <2>2, <2>3
<1> QED
  BY <1>1, <1>3, <1>4, <1>5, <1>6

(* The messages of a service, as they come and go. *)
LEMMA SentMessages ==
  ASSUME NEW messages \in Seq(Message)
  PROVE  /\ UnitsSent(messages) \in Seq(Unit) /\ StampsSent(messages) \in Seq(Stamp)
         /\ UnitsSent(<< >>) = << >> /\ StampsSent(<< >>) = << >>
<1>1. << >> \in Seq(Message)
  OBVIOUS
<1>2. UnitsSent(messages) = Spread(UnitsOf, messages)
      /\ StampsSent(messages) = Spread(StampsOf, messages)
  BY SentSpread
<1>3. UnitsSent(<< >>) = Spread(UnitsOf, << >>) /\ StampsSent(<< >>) = Spread(StampsOf, << >>)
  BY <1>1, SentSpread
<1>4. Spread(UnitsOf, messages) \in Seq(Unit) /\ Spread(UnitsOf, << >>) = << >>
  BY SpreadsTyped, SpreadType
<1>5. Spread(StampsOf, messages) \in Seq(Stamp) /\ Spread(StampsOf, << >>) = << >>
  BY SpreadsTyped, SpreadType
<1> QED
  BY <1>2, <1>3, <1>4, <1>5

(* What is sent is what the first message carries, then the rest. *)
LEMMA SentHead ==
  ASSUME NEW messages \in Seq(Message), messages # << >>
  PROVE  /\ UnitsSent(messages) = Head(messages).units \o UnitsSent(Tail(messages))
         /\ StampsSent(messages) = Head(messages).stamps \o StampsSent(Tail(messages))
<1>1. Tail(messages) \in Seq(Message) /\ Head(messages) \in Message
  OBVIOUS
<1>2. UnitsOf[Head(messages)] = Head(messages).units
      /\ StampsOf[Head(messages)] = Head(messages).stamps
  BY <1>1 DEF UnitsOf, StampsOf
<1>3. Spread(UnitsOf, messages) = UnitsOf[Head(messages)] \o Spread(UnitsOf, Tail(messages))
  BY SpreadsTyped, SpreadHead
<1>4. Spread(StampsOf, messages) = StampsOf[Head(messages)] \o Spread(StampsOf, Tail(messages))
  BY SpreadsTyped, SpreadHead
<1>5. UnitsSent(messages) = Spread(UnitsOf, messages)
      /\ StampsSent(messages) = Spread(StampsOf, messages)
  BY SentSpread
<1>6. UnitsSent(Tail(messages)) = Spread(UnitsOf, Tail(messages))
      /\ StampsSent(Tail(messages)) = Spread(StampsOf, Tail(messages))
  BY <1>1, SentSpread
<1> QED
  BY <1>2, <1>3, <1>4, <1>5, <1>6

(* What two sequences of messages carry. *)
LEMMA SentConcat ==
  ASSUME NEW messages \in Seq(Message), NEW more \in Seq(Message)
  PROVE  /\ UnitsSent(messages \o more) = UnitsSent(messages) \o UnitsSent(more)
         /\ StampsSent(messages \o more) = StampsSent(messages) \o StampsSent(more)
<1>1. messages \o more \in Seq(Message)
  OBVIOUS
<1>2. Spread(UnitsOf, messages \o more) = Spread(UnitsOf, messages) \o Spread(UnitsOf, more)
  BY SpreadsTyped, SpreadConcat
<1>3. Spread(StampsOf, messages \o more) = Spread(StampsOf, messages) \o Spread(StampsOf, more)
  BY SpreadsTyped, SpreadConcat
<1> QED
  BY <1>1, <1>2, <1>3, SentSpread

(* What one more message adds. *)
LEMMA SentAppend ==
  ASSUME NEW messages \in Seq(Message), NEW m \in Message
  PROVE  /\ UnitsSent(Append(messages, m)) = UnitsSent(messages) \o m.units
         /\ StampsSent(Append(messages, m)) = StampsSent(messages) \o m.stamps
<1>1. Append(messages, m) \in Seq(Message)
  OBVIOUS
<1>2. Spread(UnitsOf, Append(messages, m)) = Spread(UnitsOf, messages) \o UnitsOf[m]
  BY SpreadsTyped, SpreadAppend
<1>3. Spread(StampsOf, Append(messages, m)) = Spread(StampsOf, messages) \o StampsOf[m]
  BY SpreadsTyped, SpreadAppend
<1>4. UnitsOf[m] = m.units /\ StampsOf[m] = m.stamps
  BY DEF UnitsOf, StampsOf
<1>5. UnitsSent(Append(messages, m)) = Spread(UnitsOf, Append(messages, m))
      /\ StampsSent(Append(messages, m)) = Spread(StampsOf, Append(messages, m))
  BY <1>1, SentSpread
<1>6. UnitsSent(messages) = Spread(UnitsOf, messages)
      /\ StampsSent(messages) = Spread(StampsOf, messages)
  BY SentSpread
<1> QED
  BY <1>2, <1>3, <1>4, <1>5, <1>6

(* The timestamps of a text are timestamps. *)
LEMMA PointersType ==
  ASSUME NEW t \in Texts, NEW start \in Nat
  PROVE  Pointers(t, start) \in Seq(Stamp)
<1>1. Words[t] \in Nat /\ Lead[t] \in Nat
  BY ServiceAssumption
<1>2. ASSUME NEW w \in 1..Words[t] PROVE WordTime(t, w, start) \in Int
  BY <1>1, TicksAssumption DEF WordTime
<1>3. ASSUME NEW w \in 1..Words[t]
      PROVE  [unit |-> Sentence(t)[w], time |-> WordTime(t, w, start)] \in Stamp
  BY <1>1, <1>2 DEF Sentence, Unit, Stamp
<1> QED
  BY <1>1, <1>3 DEF Pointers

(* The timestamps of one more text begin where its speech does. *)
LEMMA TimedAppend ==
  ASSUME NEW texts \in Seq(Texts), NEW t \in Texts
  PROVE  /\ Timed(texts) \in Seq(Stamp)
         /\ Timed(Append(texts, t)) = Timed(texts) \o Pointers(t, Len(Uttered(texts)))
<1> DEFINE P(s, i) == Pointers(s[i], Len(Uttered(SubSeq(s, 1, i - 1))))
           n == Len(texts)
           e == P(Append(texts, t), n + 1)
           parts == [i \in DOMAIN texts |-> P(texts, i)]
           more == [i \in DOMAIN Append(texts, t) |-> P(Append(texts, t), i)]
<1>0. n \in Nat /\ DOMAIN texts = 1..n
  OBVIOUS
<1>1. \A s \in Seq(Texts), i \in Nat : i \in 1..Len(s) => P(s, i) \in Seq(Stamp)
  <2> SUFFICES ASSUME NEW s \in Seq(Texts), NEW i \in 1..Len(s) PROVE P(s, i) \in Seq(Stamp)
    OBVIOUS
  <2>1. s[i] \in Texts /\ SubSeq(s, 1, i - 1) \in Seq(Texts)
    OBVIOUS
  <2>2. Len(Uttered(SubSeq(s, 1, i - 1))) \in Nat
    <3>1. Uttered(SubSeq(s, 1, i - 1)) \in Seq(Unit)
      BY <2>1, UtteredAppend
    <3> QED
      BY <3>1
  <2> QED
    BY <2>1, <2>2, PointersType
<1>2. parts \in Seq(Seq(Stamp)) /\ e \in Seq(Stamp)
  <2>1. \A i \in 1..n : P(texts, i) \in Seq(Stamp)
    BY <1>0, <1>1
  <2>2. Append(texts, t) \in Seq(Texts) /\ n + 1 \in 1..Len(Append(texts, t)) /\ n + 1 \in Nat
    BY <1>0
  <2> HIDE DEF P
  <2>3. parts \in Seq(Seq(Stamp))
    BY <1>0, <2>1
  <2>4. e \in Seq(Stamp)
    BY <1>1, <2>2
  <2> QED
    BY <2>3, <2>4
<1>3. e = Pointers(t, Len(Uttered(texts)))
  <2>1. Append(texts, t)[n + 1] = t /\ SubSeq(Append(texts, t), 1, n) = texts /\ (n + 1) - 1 = n
    BY <1>0
  <2> QED
    BY <2>1
<1>4. \A i \in 1..n : P(Append(texts, t), i) = P(texts, i)
  <2> SUFFICES ASSUME NEW i \in 1..n PROVE P(Append(texts, t), i) = P(texts, i)
    OBVIOUS
  <2>1. Append(texts, t)[i] = texts[i]
    BY <1>0
  <2>2. SubSeq(Append(texts, t), 1, i - 1) = SubSeq(texts, 1, i - 1)
    BY <1>0
  <2> QED
    BY <2>1, <2>2
<1>5. DOMAIN Append(texts, t) = 1..n+1
  BY <1>0
<1> HIDE DEF P, n
<1>6. more = Append(parts, e)
  <2>1. /\ DOMAIN parts = 1..n /\ DOMAIN more = 1..n+1 /\ more[n+1] = e
        /\ \A i \in 1..n : more[i] = parts[i]
    BY <1>0, <1>4, <1>5
  <2>2. DOMAIN Append(parts, e) = 1..n+1 /\ Append(parts, e)[n+1] = e
        /\ \A i \in 1..n : Append(parts, e)[i] = parts[i]
    BY <1>0, <1>2, <2>1
  <2>3. more = [i \in 1..n+1 |-> more[i]] /\ Append(parts, e) = [i \in 1..n+1 |-> Append(parts, e)[i]]
    BY <1>0, <1>2, <1>5, <2>1
  <2> DEFINE last == Append(parts, e)
  <2> HIDE DEF parts, more, e, last
  <2>4. \A i \in 1..n+1 : i \in 1..n \/ i = n+1
    BY <1>0
  <2>5. \A i \in 1..n+1 : more[i] = last[i]
    BY <2>1, <2>2, <2>4 DEF last
  <2>6. more = last
    BY <2>3, <2>5 DEF last
  <2> QED
    BY <2>6 DEF last
<1> HIDE DEF parts, more, e
<1>7. FlattenSeq(parts) \in Seq(Stamp) /\ FlattenSeq(Append(parts, e)) = FlattenSeq(parts) \o e
  BY <1>2, FlattenType, FlattenAppend
<1>8. Timed(texts) = FlattenSeq(parts) /\ Timed(Append(texts, t)) = FlattenSeq(more)
  BY DEF Timed, P, parts, more
<1> QED
  BY <1>3, <1>6, <1>7, <1>8

(* A context without texts owes nothing. *)
LEMMA NothingDue == Uttered(<< >>) = << >> /\ Timed(<< >>) = << >>
<1>1. << >> \in Seq(Texts)
  OBVIOUS
<1>2. Spread(Voice, << >>) = << >>
  BY <1>1, SpreadsTyped, SpreadType
<1>3. Uttered(<< >>) = << >>
  BY <1>1, <1>2, UtteredSpread
<1>4. Timed(<< >>) = FlattenSeq(<< >>)
  BY DEF Timed
<1> QED
  BY <1>3, <1>4, FlattenEmpty

(* The first element of a sequence, as its prefix. *)
LEMMA FirstAlone ==
  ASSUME NEW S, NEW s \in Seq(S), Len(s) > 0
  PROVE  SubSeq(s, 1, 1) = << s[1] >>
<1>1. Len(SubSeq(s, 1, 1)) = 1 /\ SubSeq(s, 1, 1)[1] = s[1] /\ SubSeq(s, 1, 1) \in Seq(S)
  OBVIOUS
<1>2. << s[1] >> \in Seq(S) /\ Len(<< s[1] >>) = 1 /\ << s[1] >>[1] = s[1]
  OBVIOUS
<1> DEFINE a == SubSeq(s, 1, 1)
           b == << s[1] >>
<1>3. \A i \in 1..1 : a[i] = b[i]
  BY <1>1, <1>2
<1>4. a \in Seq(S) /\ b \in Seq(S) /\ Len(a) = 1 /\ Len(b) = 1
  BY <1>1, <1>2
<1> HIDE DEF a, b
<1>5. a = b
  BY <1>3, <1>4, SeqEqual
<1> QED
  BY <1>5 DEF a, b

(* What the service sends for a text is its speech, word by word. *)
LEMMA SpeechSent ==
  ASSUME NEW t \in Texts, NEW start \in Nat, NEW req \in Nat
  PROVE  /\ UnitsSent(Speech(t, start, req)) = Silence(t) \o Sentence(t)
         /\ StampsSent(Speech(t, start, req)) = Pointers(t, start)
<1> DEFINE speech == Speech(t, start, req)
           n == Words[t]
           quiet == Silence(t)
           said == Sentence(t)
           pointed == Pointers(t, start)
           v == [k \in 0..n |-> IF k = 0 THEN << >> ELSE quiet \o SubSeq(said, 1, k)]
           u == [k \in 0..n |-> IF k = 0 \/ Timestamps = "none" THEN << >>
                                 ELSE SubSeq(pointed, 1, k)]
<1>1. n \in Nat \ {0} /\ Lead[t] \in Nat
  BY ServiceAssumption
<1>2. speech \in Seq(Message) /\ Len(speech) = n
  <2>1. speech \in Seq(Message)
    BY SpeechType
  <2>2. DOMAIN speech = 1..n
    BY DEF Speech
  <2> QED
    BY <1>1, <2>1, <2>2
<1>3. quiet \in Seq(Unit) /\ said \in Seq(Unit) /\ Len(said) = n
  BY VoiceType
<1>4. \A k \in 1..n : speech[k].units = LeadIn(t, k) \o << said[k] >>
  BY DEF Speech, Sentence
<1>5. \A k \in 1..n : LeadIn(t, k) = IF k = 1 THEN quiet ELSE << >>
  BY DEF LeadIn, Silence
<1>6. \A k \in 1..n : speech[k] \in Message
  BY <1>2
<1>7. Accumulates(v, UnitsOf, speech, Unit)
  <2>1. \A k \in 1..n : said[k] \in Unit /\ SubSeq(said, 1, k) \in Seq(Unit)
    BY <1>1, <1>3
  <2>2. v \in [0..n -> Seq(Unit)]
    <3> HIDE DEF quiet, said
    <3>1. \A k \in 1..n : quiet \o SubSeq(said, 1, k) \in Seq(Unit)
      BY <1>3, <2>1
    <3>2. \A k \in 0..n : k = 0 \/ k \in 1..n
      BY <1>1
    <3> QED
      BY <3>1, <3>2
  <2>3. ASSUME NEW k \in 1..n PROVE v[k] = v[k-1] \o UnitsOf[speech[k]]
    <3>1. UnitsOf[speech[k]] = LeadIn(t, k) \o << said[k] >>
      BY <1>4, <1>6 DEF UnitsOf
    <3>2. k \in 0..n /\ k - 1 \in 0..n /\ k # 0
      BY <1>1
    <3>3. v[k] = quiet \o SubSeq(said, 1, k)
      BY <3>2
    <3>4. LeadIn(t, k) = IF k = 1 THEN quiet ELSE << >>
      BY <1>5
    <3> HIDE DEF quiet, said, speech
    <3>5. CASE k = 1
      <4>0. v[k-1] = << >>
        BY <3>2, <3>5
      <4>1. v[k-1] = << >> /\ SubSeq(said, 1, k) = << said[k] >>
        <5> HIDE DEF v
        <5>1. SubSeq(said, 1, 1) = << said[1] >>
          BY <1>1, <1>3, FirstAlone
        <5> QED
          BY <3>5, <4>0, <5>1
      <4>2. v[k] = quiet \o << said[k] >> /\ UnitsOf[speech[k]] = quiet \o << said[k] >>
        BY <3>1, <3>3, <3>4, <3>5, <4>1
      <4>3. << said[k] >> \in Seq(Unit)
        BY <2>1
      <4>4. quiet \o << said[k] >> \in Seq(Unit)
        BY <1>3, <4>3
      <4>5. << >> \o (quiet \o << said[k] >>) = quiet \o << said[k] >>
        BY <4>4
      <4> QED
        BY <4>1, <4>2, <4>5
    <3>6. CASE k # 1
      <4>1. v[k-1] = quiet \o SubSeq(said, 1, k-1)
        BY <3>2, <3>6
      <4>2. SubSeq(said, 1, k) = SubSeq(said, 1, k-1) \o << said[k] >>
        BY <1>1, <1>3, <3>2, <3>6
      <4>3. UnitsOf[speech[k]] = << said[k] >>
        <5>1. << said[k] >> \in Seq(Unit)
          BY <2>1
        <5> QED
          BY <3>1, <3>4, <3>6, <5>1
      <4>4. SubSeq(said, 1, k-1) \in Seq(Unit) /\ << said[k] >> \in Seq(Unit)
        <5>1. k - 1 \in 1..n
          BY <1>1, <3>2, <3>6
        <5> QED
          BY <2>1, <5>1
      <4> DEFINE a == SubSeq(said, 1, k-1)
                 b == << said[k] >>
      <4>5. a \in Seq(Unit) /\ b \in Seq(Unit)
        BY <4>4
      <4> HIDE DEF a, b, v
      <4>6. quiet \o (a \o b) = (quiet \o a) \o b
        BY <1>3, <4>5, SMTT(30)
      <4> QED
        BY <3>3, <4>1, <4>2, <4>3, <4>6 DEF a, b
    <3> QED
      BY <3>5, <3>6
  <2>4. v[0] = << >>
    BY <1>1
  <2> HIDE DEF v, speech
  <2> QED
    BY <1>2, <2>2, <2>3, <2>4 DEF Accumulates
<1>8. Accumulates(u, StampsOf, speech, Stamp)
  <2>1. pointed \in Seq(Stamp)
    BY PointersType
  <2>2. Timestamps # "none" => Len(pointed) = n
    BY <1>1 DEF Pointers
  <2>3. ASSUME NEW k \in 1..n
        PROVE  StampsOf[speech[k]] = IF Timestamps = "none" THEN << >> ELSE << pointed[k] >>
    <3>1. StampsOf[speech[k]] = WordStamps(t, k, start)
      BY <1>6 DEF StampsOf, Speech
    <3> QED
      BY <3>1 DEF WordStamps, Pointers, Sentence
  <2> HIDE DEF pointed, speech
  <2>4. u \in [0..n -> Seq(Stamp)]
    <3>1. \A k \in 1..n : Timestamps # "none" => SubSeq(pointed, 1, k) \in Seq(Stamp)
      BY <1>1, <2>1, <2>2
    <3>2. \A k \in 0..n : k = 0 \/ k \in 1..n
      BY <1>1
    <3> QED
      BY <3>1, <3>2
  <2>5. ASSUME NEW k \in 1..n PROVE u[k] = u[k-1] \o StampsOf[speech[k]]
    <3>1. k \in 0..n /\ k - 1 \in 0..n /\ k # 0
      BY <1>1
    <3>2. CASE Timestamps = "none"
      BY <2>3, <3>1, <3>2
    <3>3. CASE Timestamps # "none"
      <4>1. StampsOf[speech[k]] = << pointed[k] >> /\ u[k] = SubSeq(pointed, 1, k)
        BY <2>3, <3>1, <3>3
      <4>2. u[k-1] = SubSeq(pointed, 1, k-1)
        <5>1. CASE k = 1
          BY <1>1, <2>1, <2>2, <3>1, <3>3, <5>1
        <5>2. CASE k # 1
          BY <3>1, <3>3, <5>2
        <5> QED
          BY <5>1, <5>2
      <4>3. SubSeq(pointed, 1, k) = SubSeq(pointed, 1, k-1) \o << pointed[k] >>
        BY <1>1, <2>1, <2>2, <3>1, <3>3
      <4> QED
        BY <4>1, <4>2, <4>3
    <3> QED
      BY <3>2, <3>3
  <2>6. u[0] = << >>
    BY <1>1
  <2> HIDE DEF u
  <2> QED
    BY <1>2, <2>4, <2>5, <2>6 DEF Accumulates
<1>9. v[n] = quiet \o said
  <2>1. SubSeq(said, 1, n) = said
    BY <1>3
  <2> HIDE DEF said, quiet
  <2> QED
    BY <1>1, <2>1, SMTT(30)
<1>10. u[n] = pointed
  <2>1. pointed \in Seq(Stamp)
    BY PointersType
  <2>2. Timestamps # "none" => Len(pointed) = n
    BY <1>1 DEF Pointers
  <2>3. Timestamps = "none" => pointed = << >>
    BY DEF Pointers
  <2> HIDE DEF pointed
  <2>4. Timestamps # "none" => SubSeq(pointed, 1, n) = pointed
    BY <2>1, <2>2
  <2> QED
    BY <1>1, <2>3, <2>4
<1> HIDE DEF speech, u, v, n, quiet, said, pointed
<1>11. Spread(UnitsOf, speech) = v[n]
  <2>1. OnSet(UnitsOf, Message, Seq(Unit))
    BY SpreadsTyped
  <2>2. Spread(UnitsOf, speech) = v[Len(speech)]
    BY <1>2, <1>7, <2>1, SpreadAccumulated
  <2> QED
    BY <1>2, <2>2
<1>12. Spread(StampsOf, speech) = u[n]
  <2>1. OnSet(StampsOf, Message, Seq(Stamp))
    BY SpreadsTyped
  <2>2. Spread(StampsOf, speech) = u[Len(speech)]
    BY <1>2, <1>8, <2>1, SpreadAccumulated
  <2> QED
    BY <1>2, <2>2
<1>13. UnitsSent(speech) = Spread(UnitsOf, speech) /\ StampsSent(speech) = Spread(StampsOf, speech)
  BY <1>2, SentSpread
<1> QED
  BY <1>9, <1>10, <1>11, <1>12, <1>13 DEF speech, quiet, said, pointed

-------------------------------------------------------------------------------
(* Concatenation, where nothing more than this is needed of it             *)

(* The type and the length of a concatenation. *)
LEMMA JoinedType ==
  ASSUME NEW S, NEW a \in Seq(S), NEW b \in Seq(S)
  PROVE  a \o b \in Seq(S) /\ Len(a \o b) = Len(a) + Len(b)
  OBVIOUS

(* Joining nothing. *)
LEMMA JoinedNothing ==
  ASSUME NEW S, NEW a \in Seq(S)
  PROVE  a \o << >> = a /\ << >> \o a = a
  OBVIOUS

(* What joins to nothing is nothing. *)
LEMMA NothingJoined ==
  ASSUME NEW S, NEW a \in Seq(S), NEW b \in Seq(S), a \o b = << >>
  PROVE  a = << >> /\ b = << >>
<1>1. Len(a) + Len(b) = 0
  BY JoinedType
<1>2. Len(a) \in Nat /\ Len(b) \in Nat
  OBVIOUS
<1>3. Len(a) = 0 /\ Len(b) = 0
  BY <1>1, <1>2
<1> QED
  BY <1>3

(* Concatenation is associative. *)
LEMMA JoinedAssociative ==
  ASSUME NEW S, NEW a \in Seq(S), NEW b \in Seq(S), NEW c \in Seq(S)
  PROVE  (a \o b) \o c = a \o (b \o c)
  OBVIOUS

(* The first part of what is joined is left as it is. *)
LEMMA JoinedAt ==
  ASSUME NEW S, NEW a \in Seq(S), NEW b \in Seq(S), NEW p \in 1..Len(a)
  PROVE  (a \o b)[p] = a[p]
  OBVIOUS

(* ... with a part handed on, from the wire to the queue or from the queue *)
(* to the capture.                                                         *)
LEMMA TakenOver ==
  ASSUME NEW S, NEW a \in Seq(S), NEW b \in Seq(S), NEW c \in Seq(S), NEW d \in Seq(S)
  PROVE  (a \o (b \o c)) \o d = ((a \o b) \o c) \o d
<1>1. a \o (b \o c) = (a \o b) \o c
  OBVIOUS
<1> QED
  BY <1>1

-------------------------------------------------------------------------------
(* Frames that are queued                                                  *)

(* A hit replays a response as a cached frame. *)
LEMMA HitFrame ==
  ASSUME TypeOK, Hit
  PROVE  /\ call.text \in Texts /\ cache[call.text] \in Response
         /\ CachedFrame(cache[call.text]) \in Frame
<1>1. call \in Call /\ call # NoCall
  BY DEF Hit, NoCall, TypeOK
<1>2. call.text \in Texts
  BY <1>1 DEF Call, NoCall, Hit
<1>3. cache[call.text] \in Response
  BY <1>2 DEF Hit, TypeOK
<1> QED
  BY <1>2, <1>3, BoundAssumption DEF CachedFrame, Frame, Response, TypeOK

(* A message taken from the wire, and the frame made of it. *)
LEMMA HeadMessage ==
  ASSUME NEW messages \in Seq(Message), messages # << >>
  PROVE  LET m == Head(messages)
             f == [kind |-> "audio", req |-> m.req, units |-> m.units]
         IN  /\ m \in Message /\ m.units \in Seq(Unit) /\ m.stamps \in Seq(Stamp)
             /\ m.req \in Nat
             /\ f \in Frame /\ f.kind = "audio" /\ f.units = m.units /\ f.req = m.req
<1>1. Head(messages) \in Message
  OBVIOUS
<1> QED
  BY <1>1 DEF Message, Frame

-------------------------------------------------------------------------------
(* The stop ends its context                                               *)

StopOnlyLast(s, stop) ==
  \A i \in DOMAIN s : s[i].kind = "stop" => i = Len(s) /\ s[i] = stop

(***************************************************************************)
(* Nothing is ever behind the stop of a context, neither in the queue nor  *)
(* on the wire: when push_frame comes to it, everything was captured.      *)
(***************************************************************************)
StopAt(c) ==
  /\ StopOnlyLast(wire[c], StopMessage) /\ StopOnlyLast(queue[c], StopFrame)
  /\ HasStop(queue[c]) => wire[c] = << >>

StopInv == \A c \in Contexts : StopAt(c)

(* Without a stop there is nothing to ask of it. *)
LEMMA StopFree ==
  ASSUME NEW s, NEW stop, ~HasStop(s)
  PROVE  StopOnlyLast(s, stop)
  BY DEF HasStop, StopOnlyLast

(* A stop is added behind everything else. *)
LEMMA StopAppendedLast ==
  ASSUME NEW S, NEW s \in Seq(S), NEW e \in S, ~HasStop(s)
  PROVE  StopOnlyLast(Append(s, e), e)
<1>1. \A i \in DOMAIN Append(s, e) :
        (i = Len(Append(s, e)) /\ Append(s, e)[i] = e) \/ (i \in DOMAIN s /\ Append(s, e)[i] = s[i])
  OBVIOUS
<1> QED
  BY <1>1 DEF HasStop, StopOnlyLast

(* The stop comes to the head of its sequence alone. *)
LEMMA StopTailLast ==
  ASSUME NEW S, NEW s \in Seq(S), NEW stop, s # << >>, StopOnlyLast(s, stop)
  PROVE  /\ StopOnlyLast(Tail(s), stop)
         /\ Head(s).kind = "stop" => Tail(s) = << >> /\ Head(s) = stop
<1>1. \A i \in DOMAIN Tail(s) : i + 1 \in DOMAIN s /\ Tail(s)[i] = s[i+1]
                               /\ (i + 1 = Len(s) => i = Len(Tail(s)))
  OBVIOUS
<1>2. 1 \in DOMAIN s /\ Head(s) = s[1]
  OBVIOUS
<1>3. ASSUME 1 = Len(s) PROVE Tail(s) = << >>
  <2> DEFINE r == Tail(s)
  <2>1. r \in Seq(S) /\ Len(r) = 0
    BY <1>3
  <2> HIDE DEF r
  <2>2. r = << >>
    BY <2>1
  <2> QED
    BY <2>2 DEF r
<1> QED
  BY <1>1, <1>2, <1>3 DEF StopOnlyLast

(* The invariant holds in the beginning. *)
LEMMA InitStopInv == Init => StopInv
  BY DEF Init, StopInv, StopAt, StopOnlyLast, HasStop

(* Every step preserves it. *)
LEMMA NextStopInv == TypeInv /\ TurnInv /\ StopInv /\ [Next]_vars => StopInv'
<1> SUFFICES ASSUME TypeInv, TurnInv, StopInv, [Next]_vars, NEW d \in Contexts
             PROVE  StopAt(d)'
  BY DEF StopInv, Contexts
<1>0. /\ TypeOK /\ CallInTurn
      /\ turn \in Nat /\ Contexts \subseteq Nat
      /\ wire \in [Contexts -> Seq(Message)] /\ queue \in [Contexts -> Seq(Frame)]
  BY BoundAssumption, SMTT(30) DEF TypeInv, TypeOK, Contexts
<1>w. wire[d] \in Seq(Message) /\ queue[d] \in Seq(Frame) /\ StopAt(d)
  BY <1>0 DEF StopInv
<1>k. ASSUME wire'[d] = wire[d], queue'[d] = queue[d] PROVE StopAt(d)'
  BY <1>w, <1>k DEF StopAt, StopOnlyLast, HasStop
<1>t. d = turn => ~HasStop(wire[d]) /\ ~HasStop(queue[d])
  BY <1>0 DEF TurnInv
<1>s. ASSUME NEW t \in Texts, NEW req \in Nat, turn \in Contexts, Synthesize(t, req),
             UNCHANGED queue
      PROVE  StopAt(d)'
  <2>1. /\ HasStop(wire'[d]) <=> HasStop(wire[d])
        /\ d # turn => wire'[d] = wire[d]
    BY <1>0, <1>s, SynthesizeStops
  <2>2. CASE d = turn
    <3>1. ~HasStop(wire'[d]) /\ ~HasStop(queue'[d])
      BY <1>s, <1>t, <2>1, <2>2
    <3> QED
      BY <3>1, StopFree DEF StopAt, HasStop, StopOnlyLast
  <2> QED
    BY <1>k, <1>s, <2>1, <2>2
<1>1. ASSUME NEW t \in Texts, StartRequest(t) PROVE StopAt(d)'
  BY <1>1, <1>k DEF StartRequest
<1>2. ASSUME NEW t \in Texts, BypassRequest(t) PROVE StopAt(d)'
  <2>1. turn \in Contexts /\ started' \in Nat
    BY <1>0, <1>2, BoundAssumption, SMTT(30) DEF BypassRequest, MayStart, TypeOK, Contexts
  <2> QED
    BY <1>2, <1>s, <2>1 DEF BypassRequest
<1>3. ASSUME Hit PROVE StopAt(d)'
  <2>1. UNCHANGED wire /\ queue' = [queue EXCEPT ![turn] = Append(@, CachedFrame(cache[call.text]))]
        /\ turn \in Contexts
    BY <1>0, <1>3 DEF Hit, IntoAudioContext, CallInTurn, NoCall
  <2>2. CachedFrame(cache[call.text]) \in Frame
    BY <1>0, <1>3, HitFrame
  <2>3. CASE d = turn
    <3>1. ~HasStop(Append(queue[d], CachedFrame(cache[call.text])))
      <4>1. CachedFrame(cache[call.text]).kind # "stop"
        BY DEF CachedFrame
      <4> QED
        BY <1>w, <1>t, <2>2, <2>3, <4>1, StopAppended
    <3>2. ~HasStop(queue'[d])
      BY <1>0, <2>1, <2>3, <3>1
    <3>3. ~HasStop(wire'[d])
      BY <1>t, <2>1, <2>3
    <3> QED
      BY <3>2, <3>3 DEF StopAt, HasStop, StopOnlyLast
  <2>4. CASE d # turn
    BY <1>0, <1>k, <2>1, <2>4
  <2> QED
    BY <2>3, <2>4
<1>4. ASSUME Miss PROVE StopAt(d)'
  <2>1. call \in Call /\ call # NoCall /\ turn \in Contexts /\ started \in Nat
    BY <1>0, <1>4, BoundAssumption DEF Miss, CallInTurn, NoCall, TypeOK
  <2>2. call.text \in Texts
    BY <1>4, <2>1 DEF Call, NoCall, Miss
  <2> QED
    BY <1>4, <1>s, <2>1, <2>2 DEF Miss
<1>5. ASSUME SynthReturn PROVE StopAt(d)'
  BY <1>5, <1>k DEF SynthReturn
<1>6. ASSUME SynthFail PROVE StopAt(d)'
  <2>1. turn \in Contexts /\ UNCHANGED queue
    BY <1>0, <1>6 DEF SynthFail, CallInTurn, NoCall
  <2>2. PICK n \in 0..Len(wire[turn]) :
          wire' = [wire EXCEPT ![turn] = SubSeq(@, 1, n)]
    BY <1>6 DEF SynthFail
  <2>3. CASE d = turn
    <3>1. ~HasStop(SubSeq(wire[d], 1, n))
      BY <1>w, <1>t, <2>2, <2>3, StopPrefix
    <3>2. ~HasStop(wire'[d]) /\ ~HasStop(queue'[d])
      BY <1>0, <1>t, <2>1, <2>2, <2>3, <3>1
    <3> QED
      BY <3>2 DEF StopAt, HasStop, StopOnlyLast
  <2>4. CASE d # turn
    BY <1>0, <1>k, <2>1, <2>2, <2>4
  <2> QED
    BY <2>3, <2>4
<1>7. ASSUME EndTurn PROVE StopAt(d)'
  <2>1. wire' = [wire EXCEPT ![turn] = Append(@, StopMessage)] /\ UNCHANGED queue
    BY <1>7 DEF EndTurn
  <2>2. CASE d = turn
    <3>1. StopMessage \in Message
      BY DEF StopMessage, Message
    <3>2. StopOnlyLast(Append(wire[d], StopMessage), StopMessage)
      BY <1>w, <1>t, <2>2, <3>1, StopAppendedLast
    <3>3. wire'[d] = Append(wire[d], StopMessage) /\ queue'[d] = queue[d]
      BY <1>0, <2>1, <2>2
    <3> QED
      BY <1>w, <1>t, <2>2, <3>2, <3>3 DEF StopAt, HasStop, StopOnlyLast
  <2>3. CASE d # turn
    BY <1>0, <1>k, <2>1, <2>3
  <2> QED
    BY <2>2, <2>3
<1>8. ASSUME NEW c \in Contexts, ReceiveSpeech(c) PROVE StopAt(d)'
  <2> DEFINE frame == [kind |-> "audio", req |-> Head(wire[c]).req, units |-> Head(wire[c]).units]
  <2>1. /\ wire[c] # << >>
        /\ wire' = [wire EXCEPT ![c] = Tail(@)]
        /\ queue' = [queue EXCEPT ![c] = Append(@, frame)]
    BY <1>8 DEF ReceiveSpeech
  <2>2. CASE d = c
    <3>1. frame \in Frame /\ frame.kind # "stop"
      BY <1>w, <2>1, <2>2, HeadMessage
    <3>2. ~HasStop(Append(queue[d], frame))
      <4> HIDE DEF frame
      <4> QED
        BY <1>w, <2>1, <2>2, <3>1, StopAppended DEF StopAt
    <3>3. StopOnlyLast(Tail(wire[d]), StopMessage)
      BY <1>w, <2>1, <2>2, StopTailLast DEF StopAt
    <3>4. wire'[d] = Tail(wire[d]) /\ queue'[d] = Append(queue[d], frame)
      BY <1>0, <2>1, <2>2
    <3> QED
      BY <3>2, <3>3, <3>4 DEF StopAt, HasStop, StopOnlyLast
  <2>3. CASE d # c
    BY <1>0, <1>k, <2>1, <2>3
  <2> QED
    BY <2>2, <2>3
<1>9. ASSUME NEW c \in Contexts, ReceiveStop(c) PROVE StopAt(d)'
  <2>1. /\ wire[c] # << >> /\ Head(wire[c]).kind = "stop"
        /\ wire' = [wire EXCEPT ![c] = Tail(@)]
        /\ queue' = [queue EXCEPT ![c] = Append(@, StopFrame)]
    BY <1>9 DEF ReceiveStop
  <2>2. CASE d = c
    <3>1. Tail(wire[d]) = << >>
      BY <1>w, <2>1, <2>2, StopTailLast DEF StopAt
    <3>2. StopFrame \in Frame
      BY DEF StopFrame, Frame
    <3>3. StopOnlyLast(Append(queue[d], StopFrame), StopFrame)
      BY <1>w, <2>1, <2>2, <3>2, StopAppendedLast DEF StopAt
    <3>4. wire'[d] = << >> /\ queue'[d] = Append(queue[d], StopFrame)
      BY <1>0, <2>1, <2>2, <3>1
    <3> QED
      BY <3>3, <3>4 DEF StopAt, HasStop, StopOnlyLast
  <2>3. CASE d # c
    BY <1>0, <1>k, <2>1, <2>3
  <2> QED
    BY <2>2, <2>3
<1>p. ASSUME NEW c \in Contexts, queue[c] # << >>, UNCHANGED wire,
             queue' = [queue EXCEPT ![c] = Tail(@)]
      PROVE  StopAt(d)'
  <2>1. CASE d = c
    <3>1. StopOnlyLast(Tail(queue[d]), StopFrame) /\ (HasStop(Tail(queue[d])) => HasStop(queue[d]))
      BY <1>w, <1>p, <2>1, StopTailLast, StopTail DEF StopAt
    <3>2. wire'[d] = wire[d] /\ queue'[d] = Tail(queue[d])
      BY <1>0, <1>p, <2>1
    <3> QED
      BY <1>w, <3>1, <3>2 DEF StopAt, HasStop, StopOnlyLast
  <2>2. CASE d # c
    BY <1>0, <1>k, <1>p, <2>2
  <2> QED
    BY <2>1, <2>2
<1>10. ASSUME NEW c \in Contexts, PushAudio(c) PROVE StopAt(d)'
  BY <1>10, <1>p DEF PushAudio, Forwarded
<1>11. ASSUME NEW c \in Contexts, PushStopped(c) PROVE StopAt(d)'
  <2>1. queue[c] # << >> /\ UNCHANGED wire
        /\ (UNCHANGED queue \/ queue' = [queue EXCEPT ![c] = Tail(@)])
    BY <1>11 DEF PushStopped, Forwarded
  <2> QED
    BY <1>k, <1>p, <2>1
<1>12. ASSUME NEW c \in Contexts, StoreResponse(c) PROVE StopAt(d)'
  <2>1. UNCHANGED wire /\ (UNCHANGED queue \/ queue' = [queue EXCEPT ![c] = Tail(@)])
    BY <1>12 DEF StoreResponse, Forwarded
  <2>2. queue[c] # << >>
    BY <1>12 DEF StoreResponse, TypeInv, FinalizationOK
  <2> QED
    BY <1>k, <1>p, <2>1, <2>2
<1>13. ASSUME NEW late \in BOOLEAN, Interrupt(late) PROVE StopAt(d)'
  <2>1. StopOnlyLast(<< StopMessage >>, StopMessage) /\ ~HasStop(<< >>)
        /\ \A stop : StopOnlyLast(<< >>, stop)
    BY DEF StopOnlyLast, HasStop, StopMessage
  <2>2. CASE late
    <3>1. wire'[d] = CutOff(d) /\ queue'[d] = queue[d]
      BY <1>13, <2>2 DEF Interrupt
    <3>2. StopOnlyLast(wire'[d], StopMessage)
      BY <2>1, <3>1 DEF CutOff
    <3>3. HasStop(queue'[d]) => wire'[d] = << >>
      <4>1. HasStop(queue[d]) => wire[d] = << >> /\ d # turn
        BY <1>w, <1>t DEF StopAt
      <4> QED
        BY <3>1, <4>1 DEF CutOff
    <3> QED
      BY <1>w, <3>1, <3>2, <3>3 DEF StopAt, HasStop, StopOnlyLast
  <2>3. CASE ~late
    <3>1. wire'[d] = << >> /\ queue'[d] = << >>
      BY <1>13, <2>3 DEF Interrupt
    <3> QED
      BY <2>1, <3>1 DEF StopAt, HasStop, StopOnlyLast
  <2> QED
    BY <2>2, <2>3
<1>14. ASSUME Lose PROVE StopAt(d)'
  BY <1>14, <1>k DEF Lose
<1>15. CASE UNCHANGED vars
  BY <1>15, <1>k DEF vars
<1> QED
  BY <1>1, <1>2, <1>3, <1>4, <1>5, <1>6, <1>7, <1>8, <1>9, <1>10, <1>11, <1>12,
     <1>13, <1>14, <1>15
  DEF Next, AllTurnsOver

-------------------------------------------------------------------------------
(* Nothing is lost, doubled or reordered                                   *)

(* A context whose capture is registered, or may still be. *)
Open(c) == c \in DOMAIN contexts \/ ~(c < turn)

Heard(c) == CaptureOf(c).audio \o LiveUnits(queue[c]) \o UnitsSent(wire[c])
Noted(c) == CaptureOf(c).stamps \o StampsSent(wire[c])

(***************************************************************************)
(* The service's clock runs with what a context owes, so the timestamps of *)
(* a text added to it begin where its speech will.                         *)
(***************************************************************************)
ConservedAt(c) ==
  LET texts == TextsOf(CaptureOf(c))
  IN  /\ Heard(c) = Uttered(texts)
      /\ Noted(c) = Timed(texts)
      /\ clock[c] = Len(Uttered(texts))

ConserveInv == \A c \in Contexts \ faulted : Open(c) => ConservedAt(c)

(* A context that nothing is added to or taken from. *)
LEMMA ConservedUnchanged ==
  ASSUME NEW c, ConservedAt(c),
         CaptureOf(c)' = CaptureOf(c), LiveUnits(queue[c])' = LiveUnits(queue[c]),
         UnitsSent(wire[c])' = UnitsSent(wire[c]), StampsSent(wire[c])' = StampsSent(wire[c]),
         clock'[c] = clock[c]
  PROVE  ConservedAt(c)'
  BY DEF ConservedAt, Heard, Noted

(* The texts of a capture, one for each of its tasks. *)
LEMMA TextsType ==
  ASSUME NEW cap \in Capture
  PROVE  /\ TextsOf(cap) \in Seq(Texts) /\ Len(TextsOf(cap)) = Len(cap.tasks)
         /\ \A i \in 1..Len(cap.tasks) : TextsOf(cap)[i] = cap.tasks[i].text
<1>1. cap.tasks \in Seq(Task)
  BY DEF Capture
<1>2. \A i \in DOMAIN cap.tasks : cap.tasks[i].text \in Texts
  <2>1. \A i \in DOMAIN cap.tasks : cap.tasks[i] \in Task
    BY <1>1
  <2> QED
    BY <2>1 DEF Task
<1> QED
  BY <1>1, <1>2 DEF TextsOf

(* Registering a task adds its text. *)
LEMMA TextsAppended ==
  ASSUME NEW cap \in Capture, NEW more \in Capture, NEW task \in Task,
         more.tasks = Append(cap.tasks, task)
  PROVE  TextsOf(more) = Append(TextsOf(cap), task.text)
<1>0. cap.tasks \in Seq(Task) /\ task.text \in Texts
  BY DEF Capture, Task
<1> DEFINE a == TextsOf(more)
           texts == TextsOf(cap)
           b == Append(texts, task.text)
           n == Len(cap.tasks)
<1>1. /\ a \in Seq(Texts) /\ Len(a) = Len(more.tasks)
      /\ \A i \in 1..Len(more.tasks) : a[i] = more.tasks[i].text
  BY TextsType
<1>2. /\ texts \in Seq(Texts) /\ Len(texts) = n
      /\ \A i \in 1..n : texts[i] = cap.tasks[i].text
  BY TextsType
<1>3. n \in Nat /\ Len(more.tasks) = n + 1 /\ more.tasks[n+1] = task
      /\ \A i \in 1..n : more.tasks[i] = cap.tasks[i]
  BY <1>0
<1> HIDE DEF a, texts, n
<1>4. b \in Seq(Texts) /\ Len(b) = n + 1 /\ b[n+1] = task.text
      /\ \A i \in 1..n : b[i] = texts[i]
  BY <1>0, <1>2, <1>3
<1> HIDE DEF b
<1>5. \A i \in 1..n+1 : i \in 1..n \/ i = n + 1
  BY <1>3
<1>6. ASSUME NEW i \in 1..n+1 PROVE a[i] = b[i]
  <2>1. a[i] = more.tasks[i].text
    BY <1>1, <1>3
  <2>2. CASE i = n + 1
    BY <1>3, <1>4, <2>1, <2>2
  <2>3. CASE i \in 1..n
    BY <1>2, <1>3, <1>4, <2>1, <2>3
  <2> QED
    BY <1>5, <2>2, <2>3
<1>7. a = b
  BY <1>1, <1>3, <1>4, <1>6, SeqEqual
<1> QED
  BY <1>7 DEF a, b, texts

(* What a handler leaves of the captures. *)
LEMMA CaptureAfterTask ==
  ASSUME CapturesOK(contexts), NEW c \in Contexts, NEW t \in Texts,
         contexts' = WithTask(c, t)
  PROVE  /\ LET cap == CaptureOf(c)
                 task == [text |-> t, words |-> Parsed[t], first |-> TotalWords(cap.tasks)]
             IN  /\ task \in Task
                 /\ CaptureOf(c)' \in Capture
                 /\ CaptureOf(c)'.tasks = Append(cap.tasks, task)
                 /\ CaptureOf(c)'.audio = cap.audio /\ CaptureOf(c)'.stamps = cap.stamps
         /\ \A d : d # c => CaptureOf(d)' = CaptureOf(d)
<1> DEFINE cap  == CaptureOf(c)
           task == [text |-> t, words |-> Parsed[t], first |-> TotalWords(cap.tasks)]
           new  == [cap EXCEPT !.tasks = Append(@, task)]
<1>1. cap \in Capture
  BY CaptureOfOK
<1>2. task \in Task
  <2>1. cap.tasks \in Seq(Task)
    <3> HIDE DEF cap
    <3> QED
      BY <1>1 DEF Capture
  <2>2. TotalWords(cap.tasks) \in Nat
    <3> DEFINE tasks == cap.tasks
    <3>1. tasks # << >> => tasks[Len(tasks)] \in Task
      BY <2>1
    <3>2. tasks # << >> => tasks[Len(tasks)].first \in Nat /\ tasks[Len(tasks)].words \in Nat
      BY <3>1 DEF Task
    <3> QED
      BY <3>2 DEF TotalWords
  <2>3. Parsed[t] \in Nat
    BY ServiceAssumption
  <2> QED
    BY <2>2, <2>3 DEF Task
<1>3. contexts' = [d \in DOMAIN contexts \cup {c} |-> IF d = c THEN new ELSE contexts[d]]
  BY DEF WithTask
<1>4. new \in Capture /\ new.tasks = Append(cap.tasks, task)
      /\ new.audio = cap.audio /\ new.stamps = cap.stamps
  <2> HIDE DEF task, cap
  <2>1. Append(cap.tasks, task) \in Seq(Task)
    BY <1>1, <1>2 DEF Capture
  <2> QED
    BY <1>1, <2>1, CaptureExcept
<1> HIDE DEF new
<1>5. CaptureOf(c)' = new
  BY <1>3 DEF CaptureOf, Registered
<1>6. \A d : d # c => CaptureOf(d)' = CaptureOf(d)
  BY <1>3 DEF CaptureOf, Registered
<1> QED
  BY <1>2, <1>4, <1>5, <1>6

(* add_word_timestamps extends the timestamps of one capture only. *)
LEMMA CaptureAfterStamps ==
  ASSUME CapturesOK(contexts), NEW c \in Contexts, NEW stamps \in Seq(Stamp),
         contexts' = WithStamps(c, stamps)
  PROVE  /\ DOMAIN contexts' = DOMAIN contexts
         /\ c \in DOMAIN contexts =>
              /\ CaptureOf(c)'.stamps = CaptureOf(c).stamps \o stamps
              /\ CaptureOf(c)'.tasks = CaptureOf(c).tasks
              /\ CaptureOf(c)'.audio = CaptureOf(c).audio
         /\ c \notin DOMAIN contexts => CaptureOf(c)' = CaptureOf(c)
         /\ \A d : d # c => CaptureOf(d)' = CaptureOf(d)
<1>1. contexts' = [d \in DOMAIN contexts |->
         IF d = c THEN [contexts[d] EXCEPT !.stamps = @ \o stamps] ELSE contexts[d]]
  BY DEF WithStamps
<1> DEFINE new == [contexts[c] EXCEPT !.stamps = @ \o stamps]
<1>2. ASSUME c \in DOMAIN contexts
      PROVE  /\ new.stamps = contexts[c].stamps \o stamps
             /\ new.tasks = contexts[c].tasks /\ new.audio = contexts[c].audio
  <2>1. contexts[c] \in Capture
    BY <1>2 DEF CapturesOK
  <2>2. contexts[c].stamps \o stamps \in Seq(Stamp)
    BY <2>1 DEF Capture
  <2> QED
    BY <2>1, <2>2, CaptureExcept
<1>3. /\ DOMAIN contexts' = DOMAIN contexts
      /\ c \in DOMAIN contexts => contexts'[c] = new
      /\ \A d \in DOMAIN contexts : d # c => contexts'[d] = contexts[d]
  BY <1>1
<1> HIDE DEF new
<1>4. \A d : d # c => CaptureOf(d)' = CaptureOf(d)
  BY <1>3 DEF CaptureOf, Registered
<1>5. c \notin DOMAIN contexts => CaptureOf(c)' = CaptureOf(c)
  BY <1>3 DEF CaptureOf, Registered
<1>6. c \in DOMAIN contexts => CaptureOf(c)' = new /\ CaptureOf(c) = contexts[c]
  BY <1>3 DEF CaptureOf, Registered
<1> QED
  BY <1>2, <1>3, <1>4, <1>5, <1>6

(* push_frame extends the audio of one capture, by live frames only. *)
LEMMA CaptureAfterAudio ==
  ASSUME CapturesOK(contexts), NEW c \in Contexts, NEW frame \in Frame,
         contexts' = WithAudio(c, frame)
  PROVE  /\ DOMAIN contexts' = DOMAIN contexts
         /\ c \in DOMAIN contexts =>
              /\ CaptureOf(c)'.audio = CaptureOf(c).audio \o Live[frame]
              /\ CaptureOf(c)'.tasks = CaptureOf(c).tasks
              /\ CaptureOf(c)'.stamps = CaptureOf(c).stamps
         /\ c \notin DOMAIN contexts => CaptureOf(c)' = CaptureOf(c)
         /\ \A d : d # c => CaptureOf(d)' = CaptureOf(d)
<1>1. contexts' = [d \in DOMAIN contexts |->
         IF d = c /\ frame.kind = "audio"
         THEN [contexts[d] EXCEPT !.audio = @ \o frame.units] ELSE contexts[d]]
  BY DEF WithAudio
<1> DEFINE new == [contexts[c] EXCEPT !.audio = @ \o frame.units]
           after == IF frame.kind = "audio" THEN new ELSE contexts[c]
<1>2. Live[frame] = IF frame.kind = "audio" THEN frame.units ELSE << >>
  BY DEF Live
<1>3. ASSUME c \in DOMAIN contexts
      PROVE  /\ after.audio = contexts[c].audio \o Live[frame]
             /\ after.tasks = contexts[c].tasks /\ after.stamps = contexts[c].stamps
  <2>1. contexts[c] \in Capture
    BY <1>3 DEF CapturesOK
  <2>2. contexts[c].audio \o frame.units \in Seq(Unit)
    BY <2>1 DEF Capture, Frame
  <2>3. contexts[c].audio \o << >> = contexts[c].audio
    BY <2>1 DEF Capture
  <2>4. new.audio = contexts[c].audio \o frame.units
        /\ new.tasks = contexts[c].tasks /\ new.stamps = contexts[c].stamps
    BY <2>1, <2>2, CaptureExcept, ZenonT(40)
  <2> HIDE DEF new
  <2> QED
    BY <1>2, <2>3, <2>4
<1>4. /\ DOMAIN contexts' = DOMAIN contexts
      /\ c \in DOMAIN contexts => contexts'[c] = after
      /\ \A d \in DOMAIN contexts : d # c => contexts'[d] = contexts[d]
  BY <1>1
<1> HIDE DEF after
<1>5. \A d : d # c => CaptureOf(d)' = CaptureOf(d)
  BY <1>4 DEF CaptureOf, Registered
<1>6. c \notin DOMAIN contexts => CaptureOf(c)' = CaptureOf(c)
  BY <1>4 DEF CaptureOf, Registered
<1>7. c \in DOMAIN contexts => CaptureOf(c)' = after /\ CaptureOf(c) = contexts[c]
  BY <1>4 DEF CaptureOf, Registered
<1> QED
  BY <1>3, <1>4, <1>5, <1>6, <1>7

(* The invariant holds in the beginning. *)
LEMMA InitConserveInv == Init => ConserveInv
<1> SUFFICES ASSUME Init, NEW c \in Contexts PROVE ConservedAt(c)
  BY DEF ConserveInv
<1>1. /\ CaptureOf(c) = EmptyCapture /\ queue[c] = << >> /\ wire[c] = << >> /\ clock[c] = 0
  BY DEF Init, CaptureOf, Registered
<1>2. TextsOf(EmptyCapture) = << >>
  BY DEF TextsOf, EmptyCapture
<1>3. Uttered(<< >>) = << >> /\ Timed(<< >>) = << >>
  BY NothingDue
<1>4. << >> \in Seq(Frame) /\ << >> \in Seq(Message)
  OBVIOUS
<1>5. LiveUnits(<< >>) = << >> /\ UnitsSent(<< >>) = << >> /\ StampsSent(<< >>) = << >>
  BY <1>4, LiveQueue, SentMessages
<1>6. << >> \o << >> \o << >> = << >> /\ << >> \o << >> = << >> /\ Len(<< >>) = 0
  OBVIOUS
<1>7. EmptyCapture.audio = << >> /\ EmptyCapture.stamps = << >>
  BY DEF EmptyCapture
<1>8. Heard(c) = << >>
  BY <1>1, <1>5, <1>6, <1>7 DEF Heard
<1>9. Noted(c) = << >>
  BY <1>1, <1>5, <1>6, <1>7 DEF Noted
<1> QED
  BY <1>1, <1>2, <1>3, <1>6, <1>8, <1>9 DEF ConservedAt

(* Asking for the speech of a text adds to the wire what its task will owe. *)
LEMMA SynthesizeSends ==
  ASSUME TypeOK, turn \in Contexts, NEW t \in Texts, NEW req \in Nat, Synthesize(t, req)
  PROVE  /\ UnitsSent(wire'[turn]) = UnitsSent(wire[turn]) \o (Silence(t) \o Sentence(t))
         /\ StampsSent(wire'[turn]) = StampsSent(wire[turn]) \o Pointers(t, clock[turn])
         /\ clock'[turn] = clock[turn] + Lead[t] + Words[t]
         /\ \A c \in Contexts : c # turn => wire'[c] = wire[c] /\ clock'[c] = clock[c]
<1> DEFINE speech == Speech(t, clock[turn], req)
<1>1. wire[turn] \in Seq(Message) /\ clock[turn] \in Nat
      /\ wire \in [Contexts -> Seq(Message)] /\ clock \in [Contexts -> Nat]
  BY DEF TypeOK
<1>2. speech \in Seq(Message)
  BY <1>1, SpeechType
<1>3. UnitsSent(speech) = Silence(t) \o Sentence(t)
      /\ StampsSent(speech) = Pointers(t, clock[turn])
  BY <1>1, SpeechSent
<1>4. wire' = [wire EXCEPT ![turn] = wire[turn] \o speech]
      /\ clock' = [clock EXCEPT ![turn] = clock[turn] + Lead[t] + Words[t]]
  BY DEF Synthesize
<1> HIDE DEF speech
<1>5. UnitsSent(wire[turn] \o speech) = UnitsSent(wire[turn]) \o UnitsSent(speech)
      /\ StampsSent(wire[turn] \o speech) = StampsSent(wire[turn]) \o StampsSent(speech)
  BY <1>1, <1>2, SentConcat
<1> QED
  BY <1>1, <1>3, <1>4, <1>5

(* A context that is not registered but still open has nothing under way.  *)
LEMMA OpenEmpty ==
  ASSUME TypeOK, NEW c \in Contexts, c \notin DOMAIN contexts, ConservedAt(c)
  PROVE  LiveUnits(queue[c]) = << >> /\ UnitsSent(wire[c]) = << >> /\ StampsSent(wire[c]) = << >>
<1> DEFINE q == LiveUnits(queue[c])
           u == UnitsSent(wire[c])
           s == StampsSent(wire[c])
<1>1. CaptureOf(c) = EmptyCapture
  BY DEF CaptureOf, Registered
<1>2. Uttered(TextsOf(EmptyCapture)) = << >> /\ Timed(TextsOf(EmptyCapture)) = << >>
  BY NothingDue DEF TextsOf, EmptyCapture
<1>3. (<< >> \o q) \o u = << >> /\ << >> \o s = << >>
  BY <1>1, <1>2 DEF ConservedAt, Heard, Noted, EmptyCapture
<1>4. wire[c] \in Seq(Message) /\ queue[c] \in Seq(Frame)
  BY DEF TypeOK
<1>5. q \in Seq(Unit) /\ u \in Seq(Unit) /\ s \in Seq(Stamp)
  BY <1>4, LiveQueue, SentMessages
<1> HIDE DEF q, u, s
<1>6. << >> \in Seq(Unit) /\ << >> \o q = q /\ << >> \o s = s
  BY <1>5
<1>7. q \o u = << >> /\ s = << >>
  BY <1>3, <1>6
<1>8. q = << >> /\ u = << >>
  BY <1>5, <1>7, NothingJoined
<1> QED
  BY <1>7, <1>8 DEF q, u, s

(* Every step preserves it. *)
LEMMA NextConserveInv ==
  TypeInv /\ TurnInv /\ StopInv /\ ConserveInv /\ [Next]_vars => ConserveInv'
<1> SUFFICES ASSUME TypeInv, TurnInv, StopInv, ConserveInv, [Next]_vars,
                    NEW d \in Contexts \ faulted', Open(d)'
             PROVE  ConservedAt(d)'
  BY DEF ConserveInv, Contexts
<1>0. /\ TypeOK /\ CallInTurn /\ CapturesOK(contexts)
      /\ turn \in Nat /\ Contexts \subseteq Nat /\ DOMAIN contexts \subseteq Contexts
      /\ wire \in [Contexts -> Seq(Message)] /\ queue \in [Contexts -> Seq(Frame)]
      /\ clock \in [Contexts -> Nat]
  <2>1. TypeOK /\ CallInTurn
    BY DEF TypeInv
  <2>2. CapturesOK(contexts)
    BY TypeInvCaptures
  <2>3. turn \in Nat /\ Contexts \subseteq Nat
    BY <2>1, BoundAssumption DEF TypeOK, Contexts
  <2> QED
    BY <2>1, <2>2, <2>3 DEF TypeOK
<1>w. /\ d \in Contexts /\ wire[d] \in Seq(Message) /\ queue[d] \in Seq(Frame)
      /\ CaptureOf(d) \in Capture
  BY <1>0, CaptureOfOK
<1>u. /\ CaptureOf(d).audio \in Seq(Unit) /\ CaptureOf(d).stamps \in Seq(Stamp)
      /\ LiveUnits(queue[d]) \in Seq(Unit)
      /\ UnitsSent(wire[d]) \in Seq(Unit) /\ StampsSent(wire[d]) \in Seq(Stamp)
  BY <1>w, LiveQueue, SentMessages DEF Capture
<1>c. Open(d) /\ d \notin faulted => ConservedAt(d)
  BY DEF ConserveInv
<1>k. ASSUME Open(d), d \notin faulted, UNCHANGED << contexts, wire, queue, clock >>
      PROVE  ConservedAt(d)'
  BY <1>c, <1>k, ConservedUnchanged DEF CaptureOf, Registered
<1>1. ASSUME NEW t \in Texts, StartRequest(t) PROVE ConservedAt(d)'
  BY <1>1, <1>k DEF StartRequest, Open
<1>2. ASSUME NEW t \in Texts, BypassRequest(t) PROVE ConservedAt(d)'
  <2>1. /\ turn \in Contexts /\ started' \in Nat /\ Synthesize(t, started')
        /\ faulted' = faulted \cup {turn} /\ contexts' = Without(turn)
        /\ UNCHANGED << queue, turn >>
    BY <1>0, <1>2, BoundAssumption, SMTT(30) DEF BypassRequest, MayStart, TypeOK, Contexts
  <2>2. d # turn /\ d \notin faulted
    BY <2>1
  <2>3. wire'[d] = wire[d] /\ clock'[d] = clock[d]
    BY <1>0, <2>1, <2>2, SynthesizeSends
  <2>4. CaptureOf(d)' = CaptureOf(d) /\ Open(d)
    BY <2>1, <2>2 DEF Without, CaptureOf, Registered, Open
  <2> QED
    BY <1>c, <2>1, <2>2, <2>3, <2>4, ConservedUnchanged
<1>3. ASSUME Hit PROVE ConservedAt(d)'
  <2> DEFINE frame == CachedFrame(cache[call.text])
  <2>1. /\ UNCHANGED << contexts, wire, clock, turn, faulted >>
        /\ queue' = [queue EXCEPT ![turn] = Append(@, frame)]
    BY <1>3 DEF Hit, IntoAudioContext, history
  <2>2. frame \in Frame /\ frame.kind = "cached"
    BY <1>0, <1>3, HitFrame DEF CachedFrame
  <2> HIDE DEF frame
  <2>3. Live[frame] = << >>
    BY <2>2 DEF Live
  <2>4. LiveUnits(Append(queue[d], frame)) = LiveUnits(queue[d]) \o Live[frame]
    BY <1>w, <2>2, LiveQueue
  <2>5. LiveUnits(Append(queue[d], frame)) = LiveUnits(queue[d])
    BY <1>u, <2>3, <2>4, JoinedNothing
  <2>6. queue'[d] = queue[d] \/ queue'[d] = Append(queue[d], frame)
    BY <1>0, <2>1
  <2>7. LiveUnits(queue[d])' = LiveUnits(queue[d])
    BY <2>5, <2>6
  <2>8. Open(d) /\ d \notin faulted /\ CaptureOf(d)' = CaptureOf(d)
    BY <2>1 DEF Open, CaptureOf, Registered
  <2> QED
    BY <1>c, <2>1, <2>7, <2>8, ConservedUnchanged
<1>4. ASSUME Miss PROVE ConservedAt(d)'
  <2>1. call \in Call /\ call # NoCall /\ turn \in Contexts /\ started \in Nat
    BY <1>0, <1>4, BoundAssumption DEF Miss, CallInTurn, NoCall, TypeOK
  <2>2. call.text \in Texts
    BY <1>4, <2>1 DEF Call, NoCall, Miss
  <2> DEFINE t == call.text
  <2>3. /\ contexts' = WithTask(turn, t) /\ Synthesize(t, started)
        /\ UNCHANGED << queue, turn, faulted >>
    BY <1>4 DEF Miss, history
  <2>4. t \in Texts
    BY <2>2
  <2> HIDE DEF t
  <2>5. CASE d # turn
    <3>1. wire'[d] = wire[d] /\ clock'[d] = clock[d]
      BY <1>0, <2>1, <2>3, <2>4, <2>5, SynthesizeSends
    <3>2. CaptureOf(d)' = CaptureOf(d)
      BY <1>0, <2>1, <2>3, <2>4, <2>5, CaptureAfterTask
    <3>3. Open(d)
      BY <2>3, <2>5 DEF Open, WithTask
    <3> QED
      BY <1>c, <2>3, <3>1, <3>2, <3>3, ConservedUnchanged
  <2>6. CASE d = turn
    <3>1. ConservedAt(d)
      BY <1>0, <1>c, <2>3, <2>6 DEF Open
    <3> DEFINE cap   == CaptureOf(d)
               texts == TextsOf(cap)
               q == LiveUnits(queue[d])
               u == UnitsSent(wire[d])
               s == StampsSent(wire[d])
               task == [text |-> t, words |-> Parsed[t], first |-> TotalWords(cap.tasks)]
               voice == Silence(t) \o Sentence(t)
               marks == Pointers(t, Len(Uttered(texts)))
    <3>2. /\ UnitsSent(wire'[d]) = u \o voice
          /\ StampsSent(wire'[d]) = s \o Pointers(t, clock[d])
          /\ clock'[d] = clock[d] + Lead[t] + Words[t]
      BY <1>0, <2>1, <2>3, <2>4, <2>6, SynthesizeSends
    <3>3. /\ task \in Task /\ CaptureOf(d)' \in Capture
          /\ CaptureOf(d)'.tasks = Append(cap.tasks, task)
          /\ CaptureOf(d)'.audio = cap.audio /\ CaptureOf(d)'.stamps = cap.stamps
      BY <1>0, <2>1, <2>3, <2>4, <2>6, CaptureAfterTask
    <3>4. texts \in Seq(Texts)
      BY <1>w, TextsType
    <3>5. TextsOf(CaptureOf(d)') = Append(texts, t)
      <4>1. task.text = t
        OBVIOUS
      <4> DEFINE more == CaptureOf(d)'
      <4>2. more \in Capture /\ more.tasks = Append(cap.tasks, task)
        BY <3>3
      <4> HIDE DEF task, cap, more
      <4>3. TextsOf(more) = Append(TextsOf(cap), task.text)
        BY <1>w, <3>3, <4>2, TextsAppended DEF cap
      <4> QED
        BY <4>1, <4>3 DEF more
    <3>6. clock[d] = Len(Uttered(texts)) /\ (cap.audio \o q) \o u = Uttered(texts)
          /\ cap.stamps \o s = Timed(texts)
      BY <3>1 DEF ConservedAt, Heard, Noted
    <3>7. /\ Uttered(texts) \in Seq(Unit) /\ Timed(texts) \in Seq(Stamp)
          /\ Uttered(Append(texts, t)) = Uttered(texts) \o voice
          /\ Timed(Append(texts, t)) = Timed(texts) \o marks
      BY <2>4, <3>4, UtteredAppend, TimedAppend
    <3>8. voice \in Seq(Unit) /\ Len(voice) = Lead[t] + Words[t] /\ marks \in Seq(Stamp)
      <4>1. Len(Uttered(texts)) \in Nat
        BY <3>7
      <4> QED
        BY <2>4, <4>1, VoiceType, PointersType
    <3>9. /\ cap.audio \in Seq(Unit) /\ cap.stamps \in Seq(Stamp)
          /\ q \in Seq(Unit) /\ u \in Seq(Unit) /\ s \in Seq(Stamp)
      BY <1>u
    <3> HIDE DEF cap, texts, q, u, s, task, voice, marks
    <3>10. (cap.audio \o q) \o (u \o voice) = Uttered(Append(texts, t))
      <4> DEFINE audio == cap.audio
      <4>t. audio \in Seq(Unit)
        BY <3>9
      <4> HIDE DEF audio
      <4>a. audio \in Seq(Unit) /\ q \in Seq(Unit) /\ u \in Seq(Unit) /\ voice \in Seq(Unit)
        BY <3>8, <3>9, <4>t
      <4>1. (audio \o q) \o (u \o voice) = ((audio \o q) \o u) \o voice
        <5> DEFINE aq == audio \o q
        <5>1. aq \in Seq(Unit)
          BY ONLY <4>a, JoinedType
        <5> HIDE DEF aq
        <5>2. (aq \o u) \o voice = aq \o (u \o voice)
          BY ONLY <4>a, <5>1, SMTT(30)
        <5> QED
          BY <5>2 DEF aq
      <4> QED
        BY <3>6, <3>7, <4>1 DEF audio
    <3>11. cap.stamps \o (s \o marks) = Timed(Append(texts, t))
      <4> DEFINE stamps == cap.stamps
      <4>t. stamps \in Seq(Stamp)
        BY <3>9
      <4> HIDE DEF stamps
      <4>a. stamps \in Seq(Stamp) /\ s \in Seq(Stamp) /\ marks \in Seq(Stamp)
        BY <3>8, <3>9, <4>t
      <4>1. (stamps \o s) \o marks = stamps \o (s \o marks)
        BY ONLY <4>a, JoinedAssociative
      <4> QED
        BY <3>6, <3>7, <4>1 DEF stamps
    <3>12. Len(Uttered(texts) \o voice) = Len(Uttered(texts)) + Len(voice)
      BY <3>7, <3>8, JoinedType
    <3>13. clock'[d] = Len(Uttered(Append(texts, t)))
      <4>1. clock[d] \in Nat /\ Lead[t] \in Nat /\ Words[t] \in Nat
        BY <1>0, <1>w, <2>4, ServiceAssumption
      <4>2. Len(Uttered(Append(texts, t))) = clock[d] + (Lead[t] + Words[t])
        BY <3>6, <3>7, <3>8, <3>12
      <4> QED
        BY <3>2, <4>1, <4>2
    <3>14. Heard(d)' = (cap.audio \o q) \o (u \o voice)
      BY <2>3, <3>2, <3>3 DEF Heard, cap, q
    <3>15. Noted(d)' = cap.stamps \o (s \o marks)
      BY <3>2, <3>3, <3>6 DEF Noted, marks
    <3> QED
      BY <3>5, <3>10, <3>11, <3>13, <3>14, <3>15 DEF ConservedAt
  <2> QED
    BY <2>5, <2>6
<1>5. ASSUME SynthReturn PROVE ConservedAt(d)'
  BY <1>5, <1>k DEF SynthReturn, Open, history
<1>6. ASSUME SynthFail PROVE ConservedAt(d)'
  <2>1. /\ faulted' = faulted \cup {turn} /\ UNCHANGED << queue, turn, clock >>
        /\ contexts' = Without(turn) \/ contexts' = contexts
    BY <1>6 DEF SynthFail
  <2>2. d # turn /\ d \notin faulted
    BY <2>1
  <2>3. wire'[d] = wire[d]
    <3>1. PICK n \in 0..Len(wire[turn]) :
            wire' = [wire EXCEPT ![turn] = SubSeq(@, 1, n)]
      BY <1>6 DEF SynthFail
    <3> QED
      BY <1>0, <2>2, <3>1
  <2>4. CaptureOf(d)' = CaptureOf(d) /\ Open(d)
    BY <2>1, <2>2 DEF Without, CaptureOf, Registered, Open
  <2> QED
    BY <1>c, <2>1, <2>2, <2>3, <2>4, ConservedUnchanged
<1>7. ASSUME EndTurn PROVE ConservedAt(d)'
  <2>1. /\ wire' = [wire EXCEPT ![turn] = Append(@, StopMessage)] /\ turn' = turn + 1
        /\ UNCHANGED << contexts, queue, clock, faulted >>
    BY <1>7 DEF EndTurn, history
  <2>2. Open(d) /\ d \notin faulted /\ CaptureOf(d)' = CaptureOf(d)
    BY <1>0, <2>1 DEF Open, CaptureOf, Registered
  <2>3. StopMessage \in Message /\ StopMessage.units = << >> /\ StopMessage.stamps = << >>
    BY DEF StopMessage, Message
  <2>4. UnitsSent(Append(wire[d], StopMessage)) = UnitsSent(wire[d])
        /\ StampsSent(Append(wire[d], StopMessage)) = StampsSent(wire[d])
    <3>1. UnitsSent(Append(wire[d], StopMessage)) = UnitsSent(wire[d]) \o << >>
          /\ StampsSent(Append(wire[d], StopMessage)) = StampsSent(wire[d]) \o << >>
      BY <1>w, <2>3, SentAppend
    <3> QED
      BY <1>u, <3>1, JoinedNothing
  <2>5. wire'[d] = wire[d] \/ wire'[d] = Append(wire[d], StopMessage)
    BY <1>0, <2>1
  <2> QED
    BY <1>c, <2>1, <2>2, <2>4, <2>5, ConservedUnchanged
<1>8. ASSUME NEW c \in Contexts, ReceiveSpeech(c) PROVE ConservedAt(d)'
  <2> DEFINE m     == Head(wire[c])
             frame == [kind |-> "audio", req |-> m.req, units |-> m.units]
  <2>1. /\ wire[c] # << >> /\ contexts' = WithStamps(c, m.stamps)
        /\ wire' = [wire EXCEPT ![c] = Tail(@)]
        /\ queue' = [queue EXCEPT ![c] = Append(@, frame)]
        /\ UNCHANGED << clock, turn, faulted >>
    BY <1>8 DEF ReceiveSpeech, history
  <2>2. /\ m \in Message /\ m.units \in Seq(Unit) /\ m.stamps \in Seq(Stamp)
        /\ frame \in Frame /\ frame.kind = "audio" /\ frame.units = m.units
    BY <1>0, <2>1, HeadMessage
  <2> HIDE DEF m, frame
  <2>3. Live[frame] = m.units
    BY <2>2 DEF Live
  <2>4. /\ DOMAIN contexts' = DOMAIN contexts
        /\ c \in DOMAIN contexts =>
             /\ CaptureOf(c)'.stamps = CaptureOf(c).stamps \o m.stamps
             /\ CaptureOf(c)'.tasks = CaptureOf(c).tasks
             /\ CaptureOf(c)'.audio = CaptureOf(c).audio
        /\ c \notin DOMAIN contexts => CaptureOf(c)' = CaptureOf(c)
        /\ \A e : e # c => CaptureOf(e)' = CaptureOf(e)
    BY <1>0, <2>1, <2>2, CaptureAfterStamps
  <2>5. Open(d) /\ d \notin faulted
    BY <2>1, <2>4 DEF Open
  <2>6. CASE d # c
    BY <1>0, <1>c, <2>1, <2>4, <2>5, <2>6, ConservedUnchanged
  <2>7. CASE d = c
    <3>1. wire'[d] = Tail(wire[d]) /\ queue'[d] = Append(queue[d], frame)
      BY <1>0, <2>1, <2>7
    <3> DEFINE a == CaptureOf(d).audio
               b == CaptureOf(d).stamps
               q == LiveUnits(queue[d])
               u == UnitsSent(Tail(wire[d]))
               s == StampsSent(Tail(wire[d]))
    <3>2. UnitsSent(wire[d]) = m.units \o u /\ StampsSent(wire[d]) = m.stamps \o s
      BY <1>w, <2>1, <2>7, SentHead DEF m
    <3>3. u \in Seq(Unit) /\ s \in Seq(Stamp)
      <4>1. Tail(wire[d]) \in Seq(Message)
        BY <1>w, <2>1, <2>7
      <4> QED
        BY <4>1, SentMessages
    <3>4. LiveUnits(queue'[d]) = q \o m.units
      BY <1>w, <2>2, <2>3, <3>1, LiveQueue
    <3>5. a \in Seq(Unit) /\ b \in Seq(Stamp) /\ q \in Seq(Unit)
      BY <1>u
    <3>6. UnitsSent(wire'[d]) = u /\ StampsSent(wire'[d]) = s
      BY <3>1
    <3>7. CASE d \in DOMAIN contexts
      <4>1. (a \o q) \o (m.units \o u) = Uttered(TextsOf(CaptureOf(d)))
            /\ b \o (m.stamps \o s) = Timed(TextsOf(CaptureOf(d)))
            /\ clock[d] = Len(Uttered(TextsOf(CaptureOf(d))))
        BY <1>c, <2>5, <3>2 DEF ConservedAt, Heard, Noted
      <4>2. CaptureOf(d)'.audio = a /\ CaptureOf(d)'.stamps = b \o m.stamps
            /\ CaptureOf(d)'.tasks = CaptureOf(d).tasks
        BY <2>4, <2>7, <3>7
      <4>3. TextsOf(CaptureOf(d)') = TextsOf(CaptureOf(d))
        BY <4>2 DEF TextsOf
      <4> HIDE DEF a, b, q, u, s
      <4> DEFINE units  == m.units
                 stamps == m.stamps
      <4>t. units \in Seq(Unit) /\ stamps \in Seq(Stamp)
        BY <2>2
      <4> HIDE DEF units, stamps
      <4>u. a \in Seq(Unit) /\ q \in Seq(Unit) /\ u \in Seq(Unit)
        BY <3>3, <3>5
      <4>v. a \in Seq(Unit) /\ q \in Seq(Unit) /\ units \in Seq(Unit)
        BY <4>t, <4>u
      <4>x. (a \o (q \o units)) \o u = (a \o q) \o (units \o u)
        <5>1. (a \o q) \o units = a \o (q \o units)
          BY ONLY <4>v, JoinedAssociative, SMTT(30)
        <5> DEFINE aq == a \o q
        <5>2. aq \in Seq(Unit)
          BY ONLY <4>v, JoinedType
        <5> HIDE DEF aq
        <5>3. aq \in Seq(Unit) /\ units \in Seq(Unit) /\ u \in Seq(Unit)
          BY <4>u, <4>v, <5>2
        <5>4. (aq \o units) \o u = aq \o (units \o u)
          BY ONLY <5>3, JoinedAssociative
        <5> QED
          BY <5>1, <5>4 DEF aq
      <4>y. (b \o stamps) \o s = b \o (stamps \o s)
        BY <3>3, <3>5, <4>t, JoinedAssociative, SMTT(30)
      <4>4. (a \o (q \o m.units)) \o u = (a \o q) \o (m.units \o u)
        BY <4>x DEF units
      <4>5. (b \o m.stamps) \o s = b \o (m.stamps \o s)
        BY <4>y DEF stamps
      <4>6. Heard(d)' = (a \o (q \o m.units)) \o u
        BY <3>4, <3>6, <4>2 DEF Heard
      <4>7. Noted(d)' = (b \o m.stamps) \o s
        BY <3>6, <4>2 DEF Noted
      <4> QED
        BY <2>1, <4>1, <4>3, <4>4, <4>5, <4>6, <4>7 DEF ConservedAt
    <3>8. CASE d \notin DOMAIN contexts
      <4>1. q = << >> /\ UnitsSent(wire[d]) = << >> /\ StampsSent(wire[d]) = << >>
        BY <1>0, <1>w, <1>c, <2>5, <3>8, OpenEmpty
      <4> HIDE DEF q, u, s
      <4>2. m.units = << >> /\ u = << >>
        BY <2>2, <3>2, <3>3, <4>1, NothingJoined
      <4>3. s = << >>
        BY <2>2, <3>2, <3>3, <4>1, NothingJoined
      <4>4. LiveUnits(queue'[d]) = q
        BY <3>4, <3>5, <4>2, JoinedNothing
      <4>5. CaptureOf(d)' = CaptureOf(d)
        BY <2>4, <2>7, <3>8
      <4>6. LiveUnits(queue[d])' = LiveUnits(queue[d])
        BY <4>4 DEF q
      <4>7. UnitsSent(wire[d])' = UnitsSent(wire[d]) /\ StampsSent(wire[d])' = StampsSent(wire[d])
        BY <3>6, <4>1, <4>2, <4>3
      <4> QED
        BY <1>c, <2>1, <2>5, <4>5, <4>6, <4>7, ConservedUnchanged
    <3> QED
      BY <3>7, <3>8
  <2> QED
    BY <2>6, <2>7
<1>9. ASSUME NEW c \in Contexts, ReceiveStop(c) PROVE ConservedAt(d)'
  <2>1. /\ wire[c] # << >> /\ Head(wire[c]).kind = "stop"
        /\ wire' = [wire EXCEPT ![c] = Tail(@)]
        /\ queue' = [queue EXCEPT ![c] = Append(@, StopFrame)]
        /\ UNCHANGED << contexts, clock, turn, faulted >>
    BY <1>9 DEF ReceiveStop, history
  <2>2. Open(d) /\ d \notin faulted /\ CaptureOf(d)' = CaptureOf(d)
    BY <2>1 DEF Open, CaptureOf, Registered
  <2>3. StopFrame \in Frame /\ Live[StopFrame] = << >>
    BY DEF StopFrame, Frame, Live
  <2>4. LiveUnits(Append(queue[d], StopFrame)) = LiveUnits(queue[d])
    <3>1. LiveUnits(Append(queue[d], StopFrame)) = LiveUnits(queue[d]) \o << >>
      BY <1>w, <2>3, LiveQueue
    <3> QED
      BY <1>u, <3>1, JoinedNothing
  <2>5. CASE d # c
    BY <1>0, <1>c, <2>1, <2>2, <2>5, ConservedUnchanged
  <2>6. CASE d = c
    <3>1. wire'[d] = Tail(wire[d]) /\ queue'[d] = Append(queue[d], StopFrame)
      BY <1>0, <2>1, <2>6
    <3>2. UnitsSent(Tail(wire[d])) = UnitsSent(wire[d])
          /\ StampsSent(Tail(wire[d])) = StampsSent(wire[d])
      <4> DEFINE m == Head(wire[d])
                 r == Tail(wire[d])
      <4>1. m.units = << >> /\ m.stamps = << >>
        <5>1. StopOnlyLast(wire[d], StopMessage)
          BY <1>w DEF StopInv, StopAt
        <5>2. m = StopMessage
          BY <1>w, <2>1, <2>6, <5>1, StopTailLast
        <5> QED
          BY <5>2 DEF StopMessage
      <4>2. UnitsSent(wire[d]) = m.units \o UnitsSent(r)
            /\ StampsSent(wire[d]) = m.stamps \o StampsSent(r)
        BY <1>w, <2>1, <2>6, SentHead
      <4>3. r \in Seq(Message)
        BY <1>w, <2>1, <2>6
      <4> HIDE DEF m, r
      <4>4. UnitsSent(r) \in Seq(Unit) /\ StampsSent(r) \in Seq(Stamp)
        BY <4>3, SentMessages
      <4>5. << >> \o UnitsSent(r) = UnitsSent(r) /\ << >> \o StampsSent(r) = StampsSent(r)
        BY <4>4, JoinedNothing
      <4> QED
        BY <4>1, <4>2, <4>5 DEF r
    <3> QED
      BY <1>c, <2>1, <2>2, <2>4, <3>1, <3>2, ConservedUnchanged
  <2> QED
    BY <2>5, <2>6
<1>10. ASSUME NEW c \in Contexts, PushAudio(c) PROVE ConservedAt(d)'
  <2> DEFINE frame == Head(queue[c])
  <2>1. /\ queue[c] # << >> /\ contexts' = WithAudio(c, frame)
        /\ queue' = [queue EXCEPT ![c] = Tail(@)]
        /\ UNCHANGED << wire, clock, turn, faulted >>
    BY <1>10 DEF PushAudio, Forwarded, history
  <2>2. frame \in Frame
    BY <1>0, <2>1
  <2> HIDE DEF frame
  <2>3. Live[frame] \in Seq(Unit)
    BY <2>2 DEF Live, Frame
  <2>4. /\ DOMAIN contexts' = DOMAIN contexts
        /\ c \in DOMAIN contexts =>
             /\ CaptureOf(c)'.audio = CaptureOf(c).audio \o Live[frame]
             /\ CaptureOf(c)'.tasks = CaptureOf(c).tasks
             /\ CaptureOf(c)'.stamps = CaptureOf(c).stamps
        /\ c \notin DOMAIN contexts => CaptureOf(c)' = CaptureOf(c)
        /\ \A e : e # c => CaptureOf(e)' = CaptureOf(e)
    BY <1>0, <2>1, <2>2, CaptureAfterAudio
  <2>5. Open(d) /\ d \notin faulted
    BY <2>1, <2>4 DEF Open
  <2>6. CASE d # c
    BY <1>0, <1>c, <2>1, <2>4, <2>5, <2>6, ConservedUnchanged
  <2>7. CASE d = c
    <3> DEFINE a == CaptureOf(d).audio
               h == Live[frame]
               q == LiveUnits(Tail(queue[d]))
               u == UnitsSent(wire[d])
    <3>1. queue'[d] = Tail(queue[d])
      BY <1>0, <2>1, <2>7
    <3>2. LiveUnits(queue[d]) = h \o q
      BY <1>w, <2>1, <2>7, LiveQueue DEF frame
    <3>3. a \in Seq(Unit) /\ h \in Seq(Unit) /\ u \in Seq(Unit)
      BY <1>u, <2>3
    <3>4. q \in Seq(Unit)
      <4>1. Tail(queue[d]) \in Seq(Frame)
        BY <1>w, <2>1, <2>7
      <4> QED
        BY <4>1, LiveQueue
    <3>5. LiveUnits(queue'[d]) = q
      BY <3>1
    <3>6. CASE d \in DOMAIN contexts
      <4>1. (a \o (h \o q)) \o u = Uttered(TextsOf(CaptureOf(d)))
            /\ Noted(d) = Timed(TextsOf(CaptureOf(d)))
            /\ clock[d] = Len(Uttered(TextsOf(CaptureOf(d))))
        BY <1>c, <2>5, <3>2 DEF ConservedAt, Heard
      <4>2. CaptureOf(d)'.audio = a \o h /\ CaptureOf(d)'.tasks = CaptureOf(d).tasks
            /\ CaptureOf(d)'.stamps = CaptureOf(d).stamps
        BY <2>4, <2>7, <3>6
      <4>3. TextsOf(CaptureOf(d)') = TextsOf(CaptureOf(d))
        BY <4>2 DEF TextsOf
      <4> HIDE DEF a, h, q, u
      <4>4. (a \o (h \o q)) \o u = ((a \o h) \o q) \o u
        BY <3>3, <3>4, TakenOver, SMTT(30)
      <4>5. Heard(d)' = ((a \o h) \o q) \o u
        BY <2>1, <3>5, <4>2 DEF Heard, u
      <4>6. Noted(d)' = Noted(d)
        BY <2>1, <4>2 DEF Noted
      <4> QED
        BY <2>1, <4>1, <4>3, <4>4, <4>5, <4>6 DEF ConservedAt
    <3>7. CASE d \notin DOMAIN contexts
      <4>1. LiveUnits(queue[d]) = << >>
        BY <1>0, <1>w, <1>c, <2>5, <3>7, OpenEmpty
      <4>2. CaptureOf(d)' = CaptureOf(d)
        BY <2>4, <2>7, <3>7
      <4> HIDE DEF h, q
      <4>3. q = << >>
        BY <3>2, <3>3, <3>4, <4>1, NothingJoined
      <4>4. LiveUnits(queue[d])' = LiveUnits(queue[d])
        BY <3>5, <4>1, <4>3
      <4> QED
        BY <1>c, <2>1, <2>5, <4>2, <4>4, ConservedUnchanged
    <3> QED
      BY <3>6, <3>7
  <2> QED
    BY <2>6, <2>7
<1>11. ASSUME NEW c \in Contexts, PushStopped(c) PROVE ConservedAt(d)'
  <2>1. /\ queue[c] # << >> /\ Head(queue[c]).kind = "stop" /\ contexts' = Without(c)
        /\ UNCHANGED queue \/ queue' = [queue EXCEPT ![c] = Tail(@)]
        /\ UNCHANGED << wire, clock, turn, faulted >>
    BY <1>11 DEF PushStopped, Forwarded, history
  <2>2. c < turn
    <3>1. HasStop(queue[c])
      <4>1. 1 \in DOMAIN queue[c] /\ Head(queue[c]) = queue[c][1]
        BY <1>0, <2>1
      <4> QED
        BY <2>1, <4>1 DEF HasStop
    <3> QED
      BY <3>1 DEF TurnInv
  <2>3. d # c
    BY <1>0, <2>1, <2>2 DEF Open, Without
  <2>4. queue'[d] = queue[d]
    BY <1>0, <2>1, <2>3
  <2>5. CaptureOf(d)' = CaptureOf(d) /\ Open(d) /\ d \notin faulted
    BY <2>1, <2>3 DEF Without, CaptureOf, Registered, Open
  <2> QED
    BY <1>c, <2>1, <2>4, <2>5, ConservedUnchanged
<1>12. ASSUME NEW c \in Contexts, StoreResponse(c) PROVE ConservedAt(d)'
  <2>1. /\ finalizing[c].left # {}
        /\ UNCHANGED queue \/ queue' = [queue EXCEPT ![c] = Tail(@)]
        /\ UNCHANGED << contexts, wire, clock, turn, faulted >>
    BY <1>12 DEF StoreResponse, Forwarded, history
  <2>2. d # c
    BY <1>0, <2>1 DEF TurnInv, Open
  <2>3. queue'[d] = queue[d]
    BY <1>0, <2>1, <2>2
  <2>4. CaptureOf(d)' = CaptureOf(d) /\ Open(d) /\ d \notin faulted
    BY <2>1 DEF CaptureOf, Registered, Open
  <2> QED
    BY <1>c, <2>1, <2>3, <2>4, ConservedUnchanged
<1>13. ASSUME NEW late \in BOOLEAN, Interrupt(late) PROVE ConservedAt(d)'
  <2>1. /\ turn' = turn + 1 /\ contexts' = [e \in {} |-> EmptyCapture]
        /\ UNCHANGED << clock, faulted >>
    BY <1>13 DEF Interrupt, AfterInterruption, history
  <2>2. d > turn /\ d \in Nat
    BY <1>0, <2>1 DEF Open
  <2>3. d \notin DOMAIN contexts /\ wire[d] = << >>
    BY <1>0, <2>2 DEF TurnInv
  <2>4. Open(d) /\ d \notin faulted
    BY <1>0, <2>1, <2>2 DEF Open
  <2>5. CaptureOf(d)' = CaptureOf(d)
    BY <2>1, <2>3 DEF CaptureOf, Registered
  <2>6. wire'[d] = << >>
    BY <1>0, <1>13, <2>2, <2>3 DEF Interrupt, CutOff
  <2>7. LiveUnits(queue'[d]) = LiveUnits(queue[d])
    <3>1. queue'[d] = queue[d] \/ queue'[d] = << >>
      BY <1>13 DEF Interrupt
    <3>2. LiveUnits(queue[d]) = << >>
      BY <1>0, <1>w, <1>c, <2>3, <2>4, OpenEmpty
    <3>3. LiveUnits(<< >>) = << >>
      BY <1>w, LiveQueue
    <3> QED
      BY <3>1, <3>2, <3>3
  <2> QED
    BY <1>c, <2>1, <2>3, <2>4, <2>5, <2>6, <2>7, ConservedUnchanged
<1>14. ASSUME Lose PROVE ConservedAt(d)'
  BY <1>14, <1>k DEF Lose, Open, history
<1>15. CASE UNCHANGED vars
  BY <1>15, <1>k DEF vars, Open, history
<1> QED
  BY <1>1, <1>2, <1>3, <1>4, <1>5, <1>6, <1>7, <1>8, <1>9, <1>10, <1>11, <1>12,
     <1>13, <1>14, <1>15
  DEF Next, AllTurnsOver

(***************************************************************************)
(* However handlers, the receiver, the player and interruptions            *)
(* interleave, what a registered capture holds and what is on its way to   *)
(* it are, in order, exactly the speech and the timestamps of its texts,   *)
(* while no request of the context failed (push_frame,                     *)
(* add_word_timestamps).                                                   *)
(***************************************************************************)
THEOREM SpeechConserved == Spec => []CaptureConserved
<1>1. Init => TypeInv /\ TurnInv /\ StopInv /\ ConserveInv
  BY InitTypeInv, InitTurnInv, InitStopInv, InitConserveInv
<1>2. TypeInv /\ TurnInv /\ StopInv /\ ConserveInv /\ [Next]_vars
      => (TypeInv /\ TurnInv /\ StopInv /\ ConserveInv)'
  BY NextTypeInv, NextTurnInv, NextStopInv, NextConserveInv
<1>3. TypeInv /\ ConserveInv => CaptureConserved
  <2> SUFFICES ASSUME TypeInv, ConserveInv, NEW c \in DOMAIN contexts \ faulted
               PROVE  ConservedAt(c) /\ CaptureOf(c) = contexts[c]
    BY DEF CaptureConserved, ConservedAt, Heard, Noted
  <2> QED
    BY DEF TypeInv, TypeOK, ConserveInv, Open, CaptureOf, Registered
<1> QED
  BY <1>1, <1>2, <1>3, PTL DEF Spec
-------------------------------------------------------------------------------
(* Where the speech of the texts of a context lies                         *)

Said(texts, k)  == Len(Uttered(SubSeq(texts, 1, k)))
Shown(texts, k) == Len(Timed(SubSeq(texts, 1, k)))

(* The speech of a context is a sequence of samples. *)
LEMMA UtteredType ==
  ASSUME NEW texts \in Seq(Texts)
  PROVE  Uttered(texts) \in Seq(Unit)
<1>1. Spread(Voice, texts) \in Seq(Unit)
  BY SpreadsTyped, SpreadType
<1> QED
  BY <1>1, UtteredSpread

(* Its timestamps are a sequence of timestamps. *)
LEMMA TimedType ==
  ASSUME NEW texts \in Seq(Texts)
  PROVE  Timed(texts) \in Seq(Stamp)
<1>1. CASE texts = << >>
  <2>1. Timed(texts) = << >>
    BY <1>1, NothingDue
  <2> QED
    BY <2>1
<1>2. CASE texts # << >>
  <2>1. texts[1] \in Texts
    BY <1>2
  <2> QED
    BY <2>1, TimedAppend
<1> QED
  BY <1>1, <1>2

(* The first i texts are the first i-1 texts and one more. *)
LEMMA OneMore ==
  ASSUME NEW texts \in Seq(Texts), NEW i \in 1..Len(texts)
  PROVE  /\ texts[i] \in Texts
         /\ SubSeq(texts, 1, i - 1) \in Seq(Texts)
         /\ SubSeq(texts, 1, i) \in Seq(Texts)
         /\ SubSeq(texts, 1, i) = Append(SubSeq(texts, 1, i - 1), texts[i])
<1>1. i - 1 \in 0..Len(texts)-1 /\ (i - 1) + 1 = i /\ texts[i] \in Texts
  OBVIOUS
<1>2. SubSeq(texts, 1, i - 1) \in Seq(Texts) /\ SubSeq(texts, 1, i) \in Seq(Texts)
  OBVIOUS
<1>3. SubSeq(texts, 1, i) = Append(SubSeq(texts, 1, i - 1), texts[i])
  BY <1>1
<1> QED
  BY <1>1, <1>2, <1>3

(* The speech of the first k texts has a length. *)
LEMMA SaidType ==
  ASSUME NEW texts \in Seq(Texts), NEW k \in 0..Len(texts)
  PROVE  Said(texts, k) \in Nat
<1>1. SubSeq(texts, 1, k) \in Seq(Texts)
  OBVIOUS
<1>2. Uttered(SubSeq(texts, 1, k)) \in Seq(Unit)
  BY <1>1, UtteredType
<1> QED
  BY <1>2 DEF Said

(* Before the first text nothing was said or shown. *)
LEMMA SaidStart ==
  ASSUME NEW texts \in Seq(Texts)
  PROVE  Said(texts, 0) = 0 /\ Shown(texts, 0) = 0
<1> DEFINE none == SubSeq(texts, 1, 0)
<1>1. none = << >>
  OBVIOUS
<1> HIDE DEF none
<1>2. Uttered(none) = << >> /\ Timed(none) = << >>
  BY <1>1, NothingDue
<1>3. Len(Uttered(none)) = 0 /\ Len(Timed(none)) = 0
  BY <1>2
<1> QED
  BY <1>3 DEF Said, Shown, none

(* The speech of a text follows that of the texts before it. *)
LEMMA SaidStep ==
  ASSUME NEW texts \in Seq(Texts), NEW i \in 1..Len(texts)
  PROVE  Said(texts, i) = Said(texts, i - 1) + Lead[texts[i]] + Words[texts[i]]
<1> DEFINE before == SubSeq(texts, 1, i - 1)
           voice  == Silence(texts[i]) \o Sentence(texts[i])
<1>1. /\ before \in Seq(Texts) /\ texts[i] \in Texts
      /\ SubSeq(texts, 1, i) = Append(before, texts[i])
  BY OneMore
<1>2. voice \in Seq(Unit) /\ Len(voice) = Lead[texts[i]] + Words[texts[i]]
  BY <1>1, VoiceType
<1>3. Lead[texts[i]] \in Nat /\ Words[texts[i]] \in Nat
  BY <1>1, ServiceAssumption
<1> HIDE DEF before
<1>4. Uttered(before) \in Seq(Unit)
      /\ Uttered(Append(before, texts[i])) = Uttered(before) \o voice
  BY <1>1, UtteredAppend
<1> DEFINE b == Uttered(before)
<1> HIDE DEF voice, b
<1>5. b \in Seq(Unit) /\ Uttered(Append(before, texts[i])) = b \o voice
  BY <1>4 DEF b
<1>6. Len(b \o voice) = Len(b) + Len(voice) /\ Len(b) \in Nat
  BY <1>2, <1>5, JoinedType
<1>7. Said(texts, i) = Len(b \o voice)
  BY <1>1, <1>5 DEF Said
<1>8. Said(texts, i - 1) = Len(b)
  BY DEF Said, before, b
<1> QED
  BY <1>2, <1>3, <1>6, <1>7, <1>8, SMTT(30)

(* Where each sample of a text lies in the speech of its context. *)
LEMMA UtteredAt ==
  ASSUME NEW texts \in Seq(Texts), NEW i \in 1..Len(texts),
         NEW p \in 1..Lead[texts[i]] + Words[texts[i]]
  PROVE  /\ Said(texts, i - 1) + p \in 1..Len(Uttered(texts))
         /\ Uttered(texts)[Said(texts, i - 1) + p]
              = (Silence(texts[i]) \o Sentence(texts[i]))[p]
<1> DEFINE before == SubSeq(texts, 1, i - 1)
           upto   == SubSeq(texts, 1, i)
           rest   == SubSeq(texts, i + 1, Len(texts))
           t      == texts[i]
           voice  == Silence(t) \o Sentence(t)
           b      == Uttered(before)
           r      == Uttered(rest)
<1>1. before \in Seq(Texts) /\ t \in Texts /\ upto \in Seq(Texts) /\ upto = Append(before, t)
  BY OneMore
<1>2. rest \in Seq(Texts) /\ texts = upto \o rest
  <2>1. i \in Nat /\ i <= Len(texts) /\ Len(texts) \in Nat
    OBVIOUS
  <2>2. rest \in Seq(Texts)
    OBVIOUS
  <2>3. texts = upto \o rest
    BY <2>1, <2>2
  <2> QED
    BY <2>2, <2>3
<1>3. voice \in Seq(Unit) /\ Len(voice) = Lead[t] + Words[t] /\ Lead[t] \in Nat /\ Words[t] \in Nat
  BY <1>1, VoiceType, ServiceAssumption
<1> HIDE DEF before, rest, upto, voice
<1>4. b \in Seq(Unit) /\ Uttered(Append(before, t)) = b \o voice
  BY <1>1, UtteredAppend DEF voice
<1>5. r \in Seq(Unit)
  BY <1>2, UtteredAppend
<1>6. Uttered(upto \o rest) = Uttered(upto) \o r
  BY <1>1, <1>2, UtteredConcat
<1>7. Uttered(texts) = (b \o voice) \o r
  BY <1>1, <1>2, <1>4, <1>6
<1>8. Said(texts, i - 1) = Len(b)
  BY DEF Said, before
<1> HIDE DEF b, r, t
<1>9. p \in 1..Len(voice)
  BY <1>3 DEF t
<1>10. /\ Len(b) + p \in 1..Len((b \o voice) \o r)
       /\ ((b \o voice) \o r)[Len(b) + p] = voice[p]
  <2>1. Len(b) \in Nat /\ Len(voice) \in Nat /\ Len(r) \in Nat
    BY <1>3, <1>4, <1>5
  <2>2. b \o voice \in Seq(Unit) /\ Len(b \o voice) = Len(b) + Len(voice)
    BY <1>3, <1>4
  <2>3. (b \o voice)[Len(b) + p] = voice[p]
    BY <1>3, <1>4, <1>9, <2>1
  <2> DEFINE bv == b \o voice
  <2> HIDE DEF bv
  <2>4. Len(bv) = Len(b) + Len(voice) /\ bv \in Seq(Unit) /\ bv[Len(b) + p] = voice[p]
    BY <2>2, <2>3 DEF bv
  <2>5. Len(bv \o r) = Len(bv) + Len(r) /\ bv \o r \in Seq(Unit)
    BY ONLY <1>5, <2>4, JoinedType
  <2>6. Len(b) + p \in 1..Len(bv) /\ Len(b) + p \in 1..Len(bv \o r)
    BY ONLY <1>9, <2>1, <2>4, <2>5
  <2>7. (bv \o r)[Len(b) + p] = bv[Len(b) + p]
    BY ONLY <1>5, <2>4, <2>6, JoinedAt
  <2> QED
    BY <2>4, <2>6, <2>7 DEF bv
<1> QED
  BY <1>7, <1>8, <1>10 DEF voice, t

(* The timestamps of the text k of a context, and where they lie. *)
LEMMA ShownType ==
  ASSUME NEW texts \in Seq(Texts), NEW k \in 0..Len(texts)
  PROVE  Shown(texts, k) \in Nat
<1>1. SubSeq(texts, 1, k) \in Seq(Texts)
  OBVIOUS
<1>2. Timed(SubSeq(texts, 1, k)) \in Seq(Stamp)
  BY <1>1, TimedType
<1> QED
  BY <1>2 DEF Shown

(* The timestamps of a text, one for each word of a service that has any. *)
LEMMA PointersAt ==
  ASSUME NEW t \in Texts, NEW start \in Nat
  PROVE  /\ Timestamps = "none" => Len(Pointers(t, start)) = 0
         /\ Timestamps # "none" =>
              /\ Len(Pointers(t, start)) = Words[t]
              /\ \A w \in 1..Words[t] : Pointers(t, start)[w] =
                   [unit |-> Sentence(t)[w], time |-> WordTime(t, w, start)]
<1>1. Words[t] \in Nat
  BY ServiceAssumption
<1>2. CASE Timestamps = "none"
  <2>1. Pointers(t, start) = << >>
    BY <1>2 DEF Pointers
  <2> QED
    BY <1>2, <2>1
<1>3. CASE Timestamps # "none"
  <2>1. Pointers(t, start) =
          [w \in 1..Words[t] |-> [unit |-> Sentence(t)[w], time |-> WordTime(t, w, start)]]
    BY <1>3 DEF Pointers
  <2> QED
    BY <1>1, <1>3, <2>1
<1> QED
  BY <1>2, <1>3

(* The timestamps of a text follow those of the texts before it. *)
LEMMA TimedStep ==
  ASSUME NEW texts \in Seq(Texts), NEW i \in 1..Len(texts)
  PROVE  LET marks == Pointers(texts[i], Said(texts, i - 1))
         IN  /\ marks \in Seq(Stamp)
             /\ Timed(SubSeq(texts, 1, i - 1)) \in Seq(Stamp)
             /\ Timed(SubSeq(texts, 1, i)) = Timed(SubSeq(texts, 1, i - 1)) \o marks
             /\ Shown(texts, i) = Shown(texts, i - 1) + Len(marks)
<1> DEFINE before == SubSeq(texts, 1, i - 1)
           start  == Said(texts, i - 1)
           marks  == Pointers(texts[i], start)
           b      == Timed(before)
<1>1. /\ before \in Seq(Texts) /\ texts[i] \in Texts
      /\ SubSeq(texts, 1, i) = Append(before, texts[i])
  BY OneMore
<1>2. start \in Nat /\ i - 1 \in 0..Len(texts)
  <2>1. i - 1 \in 0..Len(texts)
    OBVIOUS
  <2> QED
    BY <2>1, SaidType
<1>3. start = Len(Uttered(before))
  BY DEF Said
<1> HIDE DEF before, start
<1>4. marks \in Seq(Stamp)
  BY <1>1, <1>2, PointersType
<1>5. b \in Seq(Stamp) /\ Timed(Append(before, texts[i])) = b \o marks
  BY <1>1, <1>3, TimedAppend
<1>6. Timed(SubSeq(texts, 1, i)) = b \o marks
  BY <1>1, <1>5
<1>7. Shown(texts, i - 1) = Len(b)
  BY DEF Shown, before
<1> HIDE DEF b, marks
<1>8. Len(b \o marks) = Len(b) + Len(marks)
  BY <1>4, <1>5, JoinedType
<1>9. Shown(texts, i) = Len(b \o marks)
  BY <1>6 DEF Shown
<1> QED
  BY <1>4, <1>5, <1>6, <1>7, <1>8, <1>9 DEF b, marks, before, start

(* v is the timestamp x of the first k texts. *)
Reached(texts, k, x, v) ==
  x \in 1..Shown(texts, k) /\ Timed(SubSeq(texts, 1, k))[x] = v

(* The timestamps of the i-th text are reached with it. *)
LEMMA ReachedHere ==
  ASSUME NEW texts \in Seq(Texts), NEW i \in 1..Len(texts),
         NEW w \in 1..Len(Pointers(texts[i], Said(texts, i - 1)))
  PROVE  Reached(texts, i, Shown(texts, i - 1) + w,
                 Pointers(texts[i], Said(texts, i - 1))[w])
<1> DEFINE marks == Pointers(texts[i], Said(texts, i - 1))
           b     == Timed(SubSeq(texts, 1, i - 1))
           more  == Timed(SubSeq(texts, 1, i))
<1>1. /\ marks \in Seq(Stamp) /\ b \in Seq(Stamp) /\ more = b \o marks
      /\ Shown(texts, i) = Shown(texts, i - 1) + Len(marks)
  BY TimedStep
<1>2. Shown(texts, i - 1) = Len(b)
  BY DEF Shown
<1>3. w \in 1..Len(marks)
  OBVIOUS
<1> HIDE DEF marks, b, more
<1>4. Len(b) \in Nat /\ Len(marks) \in Nat
  BY <1>1
<1>5. (b \o marks)[Len(b) + w] = marks[w]
  BY <1>1, <1>3, <1>4
<1>6. Len(b) + w \in 1..Len(b) + Len(marks)
  BY <1>3, <1>4
<1> QED
  BY <1>1, <1>2, <1>5, <1>6 DEF Reached, marks, more

(* Further texts leave them where they are. *)
LEMMA ReachedKept ==
  ASSUME NEW texts \in Seq(Texts), NEW i \in 1..Len(texts), NEW x, NEW v,
         Reached(texts, i - 1, x, v)
  PROVE  Reached(texts, i, x, v)
<1> DEFINE marks == Pointers(texts[i], Said(texts, i - 1))
           b     == Timed(SubSeq(texts, 1, i - 1))
           more  == Timed(SubSeq(texts, 1, i))
<1>1. /\ marks \in Seq(Stamp) /\ b \in Seq(Stamp) /\ more = b \o marks
      /\ Shown(texts, i) = Shown(texts, i - 1) + Len(marks)
  BY TimedStep
<1>2. Shown(texts, i - 1) = Len(b)
  BY DEF Shown
<1>3. x \in 1..Len(b) /\ b[x] = v
  BY <1>2 DEF Reached
<1> HIDE DEF marks, b, more
<1>4. Len(b) \in Nat /\ Len(marks) \in Nat
  BY <1>1
<1>5. (b \o marks)[x] = b[x]
  BY <1>1, <1>3, <1>4
<1>6. x \in 1..Len(b) + Len(marks)
  BY <1>3, <1>4
<1> QED
  BY <1>1, <1>2, <1>3, <1>5, <1>6 DEF Reached, more

(* Where each timestamp of a text lies among those of its context. *)
LEMMA TimedAt ==
  ASSUME NEW texts \in Seq(Texts), NEW i \in 1..Len(texts),
         NEW w \in 1..Len(Pointers(texts[i], Said(texts, i - 1)))
  PROVE  /\ Shown(texts, i - 1) + w \in 1..Len(Timed(texts))
         /\ Timed(texts)[Shown(texts, i - 1) + w] = Pointers(texts[i], Said(texts, i - 1))[w]
<1> DEFINE n == Len(texts)
           x == Shown(texts, i - 1) + w
           v == Pointers(texts[i], Said(texts, i - 1))[w]
           P == { j \in 0..n : j >= i => Reached(texts, j, x, v) }
<1>0. n \in Nat /\ i \in 1..n
  OBVIOUS
<1>1. Reached(texts, i, x, v)
  BY ReachedHere
<1> HIDE DEF x, v
<1>2. 0 \in P
  BY <1>0
<1>3. ASSUME NEW k \in 0..n-1, k \in P PROVE k + 1 \in P
  <2>1. k + 1 \in 1..n /\ (k + 1) - 1 = k /\ k + 1 \in 0..n
    BY <1>0
  <2>2. k >= i => Reached(texts, k + 1, x, v)
    <3>1. ASSUME k >= i PROVE Reached(texts, k + 1, x, v)
      <4>1. Reached(texts, (k + 1) - 1, x, v)
        BY <1>3, <2>1, <3>1
      <4> QED
        BY <2>1, <4>1, ReachedKept
    <3> QED
      BY <3>1
  <2>3. k + 1 >= i => k >= i \/ k + 1 = i
    BY <1>0
  <2> QED
    BY <1>1, <2>1, <2>2, <2>3
<1>4. n \in P
  <2> HIDE DEF P, n
  <2>1. \A k \in 0..n : k \in P
    BY <1>0, <1>2, <1>3, InductionUpTo
  <2> QED
    BY <1>0, <2>1
<1>5. Reached(texts, n, x, v)
  BY <1>0, <1>4
<1>6. SubSeq(texts, 1, n) = texts
  OBVIOUS
<1> QED
  BY <1>5, <1>6 DEF Reached, Shown, x, v

-------------------------------------------------------------------------------
(* Complete captures                                                       *)

(* The tasks number their words as _parse_words_from_text counts them. *)
Counted(cap) ==
  \A i \in DOMAIN cap.tasks :
    /\ cap.tasks[i].words = Parsed[cap.tasks[i].text]
    /\ cap.tasks[i].first = IF i = 1 THEN 0
                            ELSE cap.tasks[i-1].first + cap.tasks[i-1].words

(* What the capture holds is all of the speech of its texts. *)
Complete(cap) ==
  /\ cap.audio = Uttered(TextsOf(cap))
  /\ cap.stamps = Timed(TextsOf(cap))

(* _parse_words_from_text never errs in both directions: it only finds     *)
(* fewer words than the service speaks, or only more.                      *)
MiscountsOneWay ==
  \/ \A t \in Texts : Parsed[t] <= Words[t]
  \/ \A t \in Texts : Words[t] <= Parsed[t]

(* The i-th task of a capture, and its text. *)
LEMMA TaskAt ==
  ASSUME NEW cap \in Capture, NEW i \in 1..Len(cap.tasks)
  PROVE  /\ cap.tasks[i].text \in Texts /\ cap.tasks[i].words \in Nat
         /\ cap.tasks[i].first \in Nat
         /\ TextsOf(cap)[i] = cap.tasks[i].text
         /\ i \in 1..Len(TextsOf(cap)) /\ Len(TextsOf(cap)) = Len(cap.tasks)
<1>1. cap.tasks \in Seq(Task)
  BY DEF Capture
<1>2. cap.tasks[i] \in Task
  BY <1>1
<1> QED
  BY <1>2, TextsType DEF Task

(* Miscounts in one direction do not cancel out: equal totals, equal words.*)
LEMMA WordsAgree ==
  ASSUME NEW cap \in Capture, Counted(cap), Complete(cap), Timestamps # "none",
         MiscountsOneWay, TotalWords(cap.tasks) = Len(cap.stamps)
  PROVE  \A i \in 1..Len(cap.tasks) :
           /\ cap.tasks[i].first = Shown(TextsOf(cap), i - 1)
           /\ cap.tasks[i].words = Words[cap.tasks[i].text]
<1> DEFINE n     == Len(cap.tasks)
           texts == TextsOf(cap)
           seen  == [k \in 0..n |-> Shown(texts, k)]
           v     == [k \in 0..n |-> IF k = 0 THEN 0
                                     ELSE cap.tasks[k].first + cap.tasks[k].words]
<1>1. n \in Nat /\ texts \in Seq(Texts) /\ Len(texts) = n
  <2>1. cap.tasks \in Seq(Task)
    BY DEF Capture
  <2> QED
    BY <2>1, TextsType
<1>2. \A i \in 1..n : /\ cap.tasks[i].text \in Texts /\ cap.tasks[i].words \in Nat
                       /\ cap.tasks[i].first \in Nat /\ texts[i] = cap.tasks[i].text
  BY TaskAt
<1>3. \A i \in 1..n : /\ cap.tasks[i].words = Parsed[texts[i]]
                       /\ cap.tasks[i].first = v[i-1] /\ i - 1 \in 0..n /\ i \in 0..n
                       /\ v[i] = v[i-1] + Parsed[texts[i]]
  <2> SUFFICES ASSUME NEW i \in 1..n
               PROVE  /\ cap.tasks[i].words = Parsed[texts[i]]
                      /\ cap.tasks[i].first = v[i-1] /\ i - 1 \in 0..n /\ i \in 0..n
                      /\ v[i] = v[i-1] + Parsed[texts[i]]
    OBVIOUS
  <2>1. i \in DOMAIN cap.tasks
    BY DEF Capture
  <2>2. cap.tasks[i].words = Parsed[texts[i]]
        /\ cap.tasks[i].first = IF i = 1 THEN 0
                                ELSE cap.tasks[i-1].first + cap.tasks[i-1].words
    BY <1>2, <2>1 DEF Counted
  <2>3. i - 1 \in 0..n /\ i \in 0..n /\ i # 0 /\ (i - 1 = 0 <=> i = 1)
    BY <1>1
  <2>4. cap.tasks[i].first = v[i-1]
    BY <2>2, <2>3
  <2>5. v[i] = cap.tasks[i].first + cap.tasks[i].words
    BY <2>3
  <2> QED
    BY <2>2, <2>3, <2>4, <2>5
<1>4. \A k \in 0..n : v[k] \in Nat
  BY <1>2
<1>5. \A k \in 0..n : seen[k] \in Nat
  BY <1>1, ShownType
<1>6. \A i \in 1..n : seen[i] = seen[i-1] + Words[texts[i]]
  <2> SUFFICES ASSUME NEW i \in 1..n PROVE seen[i] = seen[i-1] + Words[texts[i]]
    OBVIOUS
  <2>1. i \in 0..n /\ i - 1 \in 0..n /\ texts[i] \in Texts
    BY <1>1
  <2>2. Said(texts, i - 1) \in Nat
    BY <1>1, <2>1, SaidType
  <2>3. Len(Pointers(texts[i], Said(texts, i - 1))) = Words[texts[i]]
    BY <2>1, <2>2, PointersAt
  <2>4. Shown(texts, i) = Shown(texts, i - 1) + Len(Pointers(texts[i], Said(texts, i - 1)))
    BY <1>1, TimedStep
  <2> QED
    BY <2>1, <2>3, <2>4
<1>7. v[0] = 0 /\ seen[0] = 0 /\ 0 \in 0..n /\ n \in 0..n
  BY <1>1, SaidStart
<1>8. v[n] = seen[n]
  <2>1. seen[n] = Len(cap.stamps)
    <3>1. SubSeq(texts, 1, n) = texts
      BY <1>1
    <3>2. Shown(texts, n) = Len(Timed(texts))
      BY <3>1 DEF Shown
    <3> QED
      BY <1>7, <3>2 DEF Complete
  <2>2. v[n] = TotalWords(cap.tasks)
    <3>1. cap.tasks = << >> <=> n = 0
      <4>1. cap.tasks \in Seq(Task)
        BY DEF Capture
      <4> QED
        BY <4>1
    <3> QED
      BY <1>7, <3>1 DEF TotalWords
  <2> QED
    BY <2>1, <2>2
<1>9. \A i \in 1..n : texts[i] \in Texts /\ Parsed[texts[i]] \in Nat /\ Words[texts[i]] \in Nat
  BY <1>2, ServiceAssumption
<1> HIDE DEF n, texts, seen, v
<1>10. \A k \in 0..n : seen[k] = v[k]
  <2>1. CASE \A t \in Texts : Parsed[t] <= Words[t]
    <3> DEFINE d == [k \in 0..n |-> seen[k] - v[k]]
    <3>1. d \in [0..n -> Int] /\ d[n] = d[0] /\ d[0] = 0
      BY <1>4, <1>5, <1>7, <1>8
    <3>2. \A i \in 1..n : d[i-1] <= d[i]
      <4> SUFFICES ASSUME NEW i \in 1..n PROVE d[i-1] <= d[i]
        OBVIOUS
      <4>1. Parsed[texts[i]] <= Words[texts[i]] /\ i - 1 \in 0..n /\ i \in 0..n
        BY <1>3, <1>9, <2>1
      <4>2. d[i-1] = seen[i-1] - v[i-1] /\ d[i] = seen[i] - v[i]
        BY <4>1
      <4>3. /\ v[i] = v[i-1] + Parsed[texts[i]] /\ seen[i] = seen[i-1] + Words[texts[i]]
            /\ v[i-1] \in Nat /\ seen[i-1] \in Nat
            /\ Parsed[texts[i]] \in Nat /\ Words[texts[i]] \in Nat
        BY <1>3, <1>4, <1>5, <1>6, <1>9, <4>1
      <4> QED
        BY <4>1, <4>2, <4>3, SMTT(30)
    <3> DEFINE flat == \A k \in 0..n : d[k] = d[0]
    <3>3. flat
      <4> HIDE DEF d
      <4> QED
        BY <1>1, <3>1, <3>2, NeverGrew
    <3>4. \A k \in 0..n : d[k] = 0
      BY <3>1, <3>3
    <3> QED
      BY <1>4, <1>5, <3>4
  <2>2. CASE \A t \in Texts : Words[t] <= Parsed[t]
    <3> DEFINE d == [k \in 0..n |-> v[k] - seen[k]]
    <3>1. d \in [0..n -> Int] /\ d[n] = d[0] /\ d[0] = 0
      BY <1>4, <1>5, <1>7, <1>8
    <3>2. \A i \in 1..n : d[i-1] <= d[i]
      <4> SUFFICES ASSUME NEW i \in 1..n PROVE d[i-1] <= d[i]
        OBVIOUS
      <4>1. Words[texts[i]] <= Parsed[texts[i]] /\ i - 1 \in 0..n /\ i \in 0..n
        BY <1>3, <1>9, <2>2
      <4>2. d[i-1] = v[i-1] - seen[i-1] /\ d[i] = v[i] - seen[i]
        BY <4>1
      <4>3. /\ v[i] = v[i-1] + Parsed[texts[i]] /\ seen[i] = seen[i-1] + Words[texts[i]]
            /\ v[i-1] \in Nat /\ seen[i-1] \in Nat
            /\ Parsed[texts[i]] \in Nat /\ Words[texts[i]] \in Nat
        BY <1>3, <1>4, <1>5, <1>6, <1>9, <4>1
      <4> QED
        BY <4>1, <4>2, <4>3, SMTT(30)
    <3> DEFINE flat == \A k \in 0..n : d[k] = d[0]
    <3>3. flat
      <4> HIDE DEF d
      <4> QED
        BY <1>1, <3>1, <3>2, NeverGrew
    <3>4. \A k \in 0..n : d[k] = 0
      BY <3>1, <3>3
    <3> QED
      BY <1>4, <1>5, <3>4
  <2> QED
    BY <2>1, <2>2 DEF MiscountsOneWay
<1>11. ASSUME NEW i \in 1..n
       PROVE  /\ cap.tasks[i].first = seen[i-1]
              /\ cap.tasks[i].words = Words[texts[i]]
  <2>1. i - 1 \in 0..n /\ i \in 0..n /\ cap.tasks[i].first = v[i-1]
    BY <1>3
  <2>2. seen[i-1] = v[i-1] /\ seen[i] = v[i]
    BY <1>10, <2>1
  <2>3. v[i] = v[i-1] + Parsed[texts[i]] /\ seen[i] = seen[i-1] + Words[texts[i]]
    BY <1>3, <1>6
  <2>4. v[i-1] \in Nat /\ Parsed[texts[i]] \in Nat /\ Words[texts[i]] \in Nat
    BY <1>4, <1>9, <2>1
  <2>5. Parsed[texts[i]] = Words[texts[i]]
    BY <2>2, <2>3, <2>4, SMTT(30)
  <2> QED
    BY <1>3, <2>1, <2>2, <2>5
<1> QED
  BY <1>1, <1>2, <1>3, <1>11 DEF n, texts, seen

-------------------------------------------------------------------------------
(* The share of a text, cut at word timestamps                              *)

(* A time that is a whole number of samples is the offset of that sample. *)
LEMMA WholeSamples ==
  ASSUME NEW k \in Int
  PROVE  SampleAt(TicksPerSample * k) = k /\ SampleAt(k * TicksPerSample) = k
<1> DEFINE m == TicksPerSample
           q == (m * k) \div m
           r == (m * k) % m
<1>1. m \in Nat /\ m > 0
  BY TicksAssumption
<1>2. m * k \in Int /\ k * m = m * k
  BY <1>1
<1>3. q = k
  BY <1>1, <1>2
<1> QED
  BY <1>2, <1>3, GrainAssumption DEF SampleAt

(* A cut between two samples within the audio, sample by sample. *)
LEMMA SliceBetween ==
  ASSUME NEW S, NEW audio \in Seq(S), NEW start, NEW end,
         NEW a \in Nat, NEW b \in Nat, a <= b, b <= Len(audio),
         SampleAt(start) = a, SampleAt(end) = b
  PROVE  /\ Slice(audio, start, end) = [p \in 1..b-a |-> audio[a + p]]
         /\ Len(Slice(audio, start, end)) = b - a
<1> DEFINE from == IF SampleAt(start) > 0 THEN SampleAt(start) ELSE 0
           to   == IF SampleAt(end) < Len(audio) THEN SampleAt(end) ELSE Len(audio)
           len  == IF from < to THEN to - from ELSE 0
<1>1. from = a /\ to = b /\ Len(audio) \in Nat
  OBVIOUS
<1>2. len = b - a /\ b - a \in Nat
  BY <1>1
<1>3. Slice(audio, start, end) = [p \in 1..len |-> audio[from + p]]
  BY DEF Slice
<1> HIDE DEF from, len
<1>4. Slice(audio, start, end) = [p \in 1..b-a |-> audio[a + p]]
  BY <1>1, <1>2, <1>3
<1>5. Len([p \in 1..b-a |-> audio[a + p]]) = b - a
  BY <1>2
<1> QED
  BY <1>4, <1>5

(* What the proofs below assume of a capture and of its service. *)
Splits(cap) ==
  /\ cap \in Capture /\ Counted(cap) /\ Complete(cap)
  /\ Timestamps = "cumulative" /\ MiscountsOneWay
  /\ TotalWords(cap.tasks) = Len(cap.stamps)

(* The timestamp that a task counts as that of its j-th word is. *)
LEMMA StampAt ==
  ASSUME NEW cap, Splits(cap), NEW i \in 1..Len(cap.tasks),
         NEW j \in 1..Words[cap.tasks[i].text]
  PROVE  LET t  == cap.tasks[i].text
             at == cap.tasks[i].first + j
         IN  /\ at \in 1..Len(cap.stamps)
             /\ cap.stamps[at].unit = Sentence(t)[j]
             /\ cap.stamps[at].time =
                  TicksPerSample * (Said(TextsOf(cap), i - 1) + (Lead[t] + j - 1))
<1> DEFINE t     == cap.tasks[i].text
           texts == TextsOf(cap)
           start == Said(texts, i - 1)
           marks == Pointers(t, start)
<1>1. /\ t \in Texts /\ texts[i] = t /\ i \in 1..Len(texts) /\ texts \in Seq(Texts)
      /\ Words[t] \in Nat /\ j \in 1..Words[t]
  BY TaskAt, TextsType, ServiceAssumption DEF Splits
<1>2. start \in Nat
  <2>1. i - 1 \in 0..Len(texts)
    BY <1>1
  <2> QED
    BY <1>1, <2>1, SaidType
<1>3. cap.tasks[i].first = Shown(texts, i - 1)
  BY WordsAgree DEF Splits
<1>4. Timestamps # "none" /\ Timestamps # "reset" /\ cap.stamps = Timed(texts)
  BY DEF Splits, Complete
<1> HIDE DEF t, texts, start
<1>5. /\ Len(marks) = Words[t]
      /\ marks[j] = [unit |-> Sentence(t)[j], time |-> WordTime(t, j, start)]
  BY <1>1, <1>2, <1>4, PointersAt
<1>6. WordTime(t, j, start) = TicksPerSample * (start + (Lead[t] + j - 1))
  BY <1>4 DEF WordTime
<1>7. /\ Shown(texts, i - 1) + j \in 1..Len(Timed(texts))
      /\ Timed(texts)[Shown(texts, i - 1) + j] = Pointers(texts[i], Said(texts, i - 1))[j]
  <2>1. j \in 1..Len(Pointers(texts[i], Said(texts, i - 1)))
    BY <1>1, <1>5 DEF start
  <2> QED
    BY <1>1, <2>1, TimedAt
<1>8. Timed(texts)[Shown(texts, i - 1) + j] = marks[j]
  BY <1>1, <1>7 DEF start
<1> QED
  BY <1>3, <1>4, <1>5, <1>6, <1>7, <1>8 DEF t, texts, start

(* The silence before the text after i, if there is one. *)
NextLead(texts, i) == IF i < Len(texts) THEN Lead[texts[i+1]] ELSE 0

(* The share of a task begins at the first word of its text. *)
LEMMA ShareBegins ==
  ASSUME NEW cap, Splits(cap), NEW i \in 1..Len(cap.tasks)
  PROVE  SampleAt(StartTime(cap, i))
           = Said(TextsOf(cap), i - 1) + Lead[cap.tasks[i].text]
<1> DEFINE t     == cap.tasks[i].text
           start == Said(TextsOf(cap), i - 1)
<1>1. t \in Texts /\ Words[t] \in Nat /\ Words[t] > 0 /\ Lead[t] \in Nat
  BY TaskAt, ServiceAssumption DEF Splits
<1>2. start \in Nat
  <2>1. TextsOf(cap) \in Seq(Texts) /\ i - 1 \in 0..Len(TextsOf(cap))
    BY TextsType DEF Splits
  <2> QED
    BY <2>1, SaidType
<1>3. 1 \in 1..Words[t]
  BY <1>1
<1>4. StartTime(cap, i) = TicksPerSample * (start + (Lead[t] + 1 - 1))
  BY <1>3, StampAt DEF StartTime
<1> HIDE DEF t, start
<1>5. start + (Lead[t] + 1 - 1) = start + Lead[t] /\ start + Lead[t] \in Int
  BY <1>1, <1>2
<1>6. SampleAt(TicksPerSample * (start + Lead[t])) = start + Lead[t]
  BY <1>5, WholeSamples
<1> QED
  BY <1>4, <1>5, <1>6 DEF t, start

(* It ends where the first word of the next text begins. *)
LEMMA ShareEnds ==
  ASSUME NEW cap, Splits(cap), NEW i \in 1..Len(cap.tasks)
  PROVE  /\ SampleAt(EndTime(cap, i))
              = Said(TextsOf(cap), i) + NextLead(TextsOf(cap), i)
         /\ Said(TextsOf(cap), i) + NextLead(TextsOf(cap), i) <= Len(cap.audio)
<1> DEFINE n     == Len(cap.tasks)
           texts == TextsOf(cap)
           task  == cap.tasks[i]
           next  == task.first + task.words + 1
<1>1. /\ texts \in Seq(Texts) /\ Len(texts) = n /\ n \in Nat /\ i \in 1..n
      /\ task.first \in Nat /\ task.words \in Nat /\ task.text \in Texts
      /\ texts[i] = task.text
  BY TaskAt, TextsType DEF Splits
<1>2. /\ task.first = Shown(texts, i - 1) /\ task.words = Words[task.text]
  BY WordsAgree DEF Splits
<1>3. Said(texts, i) \in Nat /\ i \in 0..n
  BY <1>1, SaidType
<1>4. cap.audio = Uttered(texts) /\ cap.audio \in Seq(Unit) /\ Len(cap.audio) \in Nat
  <2>1. cap.audio = Uttered(texts) /\ cap.audio \in Seq(Unit)
    BY DEF Splits, Complete, Capture
  <2> QED
    BY <2>1
<1>5. CASE i < n
  <2> DEFINE t == texts[i+1]
  <2>1. i + 1 \in 1..n /\ (i + 1) - 1 = i
    BY <1>1, <1>5
  <2>2. cap.tasks[i+1].text = t /\ t \in Texts
    BY <2>1, TaskAt DEF Splits
  <2>3. Words[t] \in Nat /\ Words[t] > 0 /\ Lead[t] \in Nat /\ 1 \in 1..Words[t]
    BY <2>2, ServiceAssumption
  <2>4. cap.tasks[i+1].first = task.first + task.words
    <3>1. i + 1 # 1
      BY <1>1
    <3>2. i + 1 \in DOMAIN cap.tasks
      BY <2>1 DEF Splits, Capture
    <3> QED
      BY <2>1, <3>1, <3>2 DEF Splits, Counted
  <2>5. /\ next \in 1..Len(cap.stamps)
        /\ cap.stamps[next].time = TicksPerSample * (Said(texts, i) + (Lead[t] + 1 - 1))
    <3>1. 1 \in 1..Words[cap.tasks[i+1].text]
      BY <2>2, <2>3
    <3>2. LET at == cap.tasks[i+1].first + 1
          IN  /\ at \in 1..Len(cap.stamps)
              /\ cap.stamps[at].time =
                   TicksPerSample * (Said(texts, (i + 1) - 1)
                                       + (Lead[cap.tasks[i+1].text] + 1 - 1))
      BY <2>1, <3>1, StampAt
    <3> QED
      BY <2>1, <2>2, <2>4, <3>2
  <2>6. EndTime(cap, i) = TicksPerSample * (Said(texts, i) + (Lead[t] + 1 - 1))
    BY <2>5 DEF EndTime
  <2>7. NextLead(texts, i) = Lead[t]
    BY <1>1, <1>5 DEF NextLead
  <2>8. Said(texts, i) + (Lead[t] + Words[t]) \in 1..Len(cap.audio)
    <3>1. i + 1 \in 1..Len(texts) /\ Lead[t] + Words[t] \in 1..Lead[texts[i+1]] + Words[texts[i+1]]
      BY <1>1, <2>1, <2>3
    <3>2. Said(texts, (i + 1) - 1) + (Lead[t] + Words[t]) \in 1..Len(Uttered(texts))
      BY <1>1, <3>1, UtteredAt
    <3> QED
      BY <1>4, <2>1, <3>2
  <2> HIDE DEF t, n, texts, task, next
  <2>9. Said(texts, i) + (Lead[t] + 1 - 1) = Said(texts, i) + Lead[t]
        /\ Said(texts, i) + Lead[t] \in Int
    BY <1>3, <2>3
  <2>10. SampleAt(TicksPerSample * (Said(texts, i) + Lead[t])) = Said(texts, i) + Lead[t]
    BY <2>9, WholeSamples
  <2>11. Said(texts, i) + Lead[t] <= Len(cap.audio)
    BY <1>3, <1>4, <2>3, <2>8
  <2> QED
    BY <2>6, <2>7, <2>9, <2>10, <2>11 DEF texts
<1>6. CASE i = n
  <2>1. NextLead(texts, i) = 0
    BY <1>1, <1>6 DEF NextLead
  <2>2. Said(texts, i) = Len(cap.audio)
    <3>1. SubSeq(texts, 1, i) = texts
      BY <1>1, <1>6
    <3> QED
      BY <1>4, <3>1 DEF Said
  <2>3. task.first + task.words = Len(cap.stamps)
    <3>1. cap.tasks # << >>
      BY <1>1
    <3> QED
      BY <1>6, <3>1 DEF Splits, TotalWords
  <2>4. EndTime(cap, i) = Len(cap.audio) * TicksPerSample
    <3>1. ~(next <= Len(cap.stamps))
      BY <1>1, <2>3
    <3> QED
      BY <3>1 DEF EndTime, Duration
  <2>5. SampleAt(Len(cap.audio) * TicksPerSample) = Len(cap.audio)
    BY <1>4, WholeSamples
  <2>6. Said(texts, i) + NextLead(texts, i) = Len(cap.audio)
    BY <1>3, <2>1, <2>2
  <2> QED
    BY <1>4, <2>4, <2>5, <2>6 DEF texts
<1> QED
  BY <1>1, <1>5, <1>6

(* The speech of a text, sample by sample. *)
LEMMA VoiceAt ==
  ASSUME NEW t \in Texts
  PROVE  /\ \A p \in 1..Lead[t] : (Silence(t) \o Sentence(t))[p].word = 0
         /\ \A p \in 1..Words[t] : (Silence(t) \o Sentence(t))[Lead[t] + p] = Sentence(t)[p]
<1> DEFINE a == Silence(t)
           b == Sentence(t)
<1>1. /\ a \in Seq(Unit) /\ Len(a) = Lead[t]
      /\ b \in Seq(Unit) /\ Len(b) = Words[t]
      /\ Lead[t] \in Nat /\ Words[t] \in Nat
  BY VoiceType, ServiceAssumption
<1>2. \A p \in 1..Lead[t] : a[p].word = 0
  BY DEF Silence
<1> HIDE DEF a, b
<1>3. \A p \in 1..Lead[t] : (a \o b)[p] = a[p]
  BY <1>1
<1>4. \A p \in 1..Words[t] : (a \o b)[Lead[t] + p] = b[p]
  BY <1>1, SMTT(30)
<1> QED
  BY <1>2, <1>3, <1>4 DEF a, b

(* The share is the text's words, then the silence before the next text. *)
LEMMA ShareSpoken ==
  ASSUME NEW cap, Splits(cap), NEW i \in 1..Len(cap.tasks)
  PROVE  LET t     == cap.tasks[i].text
             share == TaskAudio(cap, i)
         IN  /\ DOMAIN share = 1..Len(share)
             /\ Len(share) = Words[t] + NextLead(TextsOf(cap), i)
             /\ \A p \in 1..Len(share) : IF p <= Words[t] THEN share[p] = Sentence(t)[p]
                                                          ELSE share[p].word = 0
<1> DEFINE n     == Len(cap.tasks)
           texts == TextsOf(cap)
           t     == cap.tasks[i].text
           a     == Said(texts, i - 1) + Lead[t]
           b     == Said(texts, i) + NextLead(texts, i)
           share == TaskAudio(cap, i)
<1>1. /\ texts \in Seq(Texts) /\ Len(texts) = n /\ n \in Nat /\ i \in 1..n
      /\ t \in Texts /\ texts[i] = t
      /\ cap.audio \in Seq(Unit) /\ cap.audio = Uttered(texts)
  BY TaskAt, TextsType DEF Splits, Capture, Complete
<1>2. Words[t] \in Nat /\ Lead[t] \in Nat
  BY <1>1, ServiceAssumption
<1>3. /\ i - 1 \in 0..n /\ i \in 0..n
      /\ Said(texts, i - 1) \in Nat /\ Said(texts, i) \in Nat
      /\ Said(texts, i) = Said(texts, i - 1) + Lead[t] + Words[t]
  <2>1. i - 1 \in 0..n /\ i \in 0..n
    BY <1>1
  <2>2. Said(texts, i) = Said(texts, i - 1) + Lead[texts[i]] + Words[texts[i]]
    BY <1>1, SaidStep
  <2> QED
    BY <1>1, <2>1, <2>2, SaidType
<1>4. NextLead(texts, i) \in Nat
  <2>1. ASSUME i < Len(texts) PROVE Lead[texts[i+1]] \in Nat
    <3>1. texts[i+1] \in Texts
      BY <1>1, <2>1
    <3> QED
      BY <3>1, ServiceAssumption
  <2> QED
    BY <2>1 DEF NextLead
<1>5. SampleAt(StartTime(cap, i)) = a
  BY ShareBegins
<1>6. SampleAt(EndTime(cap, i)) = b /\ b <= Len(cap.audio)
  BY ShareEnds
<1> HIDE DEF texts, t, n
<1>7. a \in Nat /\ b \in Nat /\ a <= b /\ b - a = Words[t] + NextLead(texts, i)
  BY <1>2, <1>3, <1>4, SMTT(30)
<1>8. /\ share = [p \in 1..b-a |-> cap.audio[a + p]]
      /\ Len(share) = b - a
  <2> HIDE DEF a, b
  <2> QED
    BY <1>1, <1>5, <1>6, <1>7, SliceBetween DEF TaskAudio
<1>9. DOMAIN share = 1..Len(share) /\ \A p \in 1..Len(share) : share[p] = cap.audio[a + p]
  BY <1>8
<1>10. ASSUME NEW p \in 1..Len(share), p <= Words[t] PROVE share[p] = Sentence(t)[p]
  <2>1. p \in 1..Words[t] /\ Lead[t] + p \in 1..Lead[t] + Words[t]
    BY <1>2, <1>7, <1>8, <1>10
  <2>2. Uttered(texts)[Said(texts, i - 1) + (Lead[t] + p)]
          = (Silence(t) \o Sentence(t))[Lead[t] + p]
    <3>1. Lead[t] + p \in 1..Lead[texts[i]] + Words[texts[i]] /\ i \in 1..Len(texts)
      BY <1>1, <2>1
    <3>2. Uttered(texts)[Said(texts, i - 1) + (Lead[t] + p)]
            = (Silence(texts[i]) \o Sentence(texts[i]))[Lead[t] + p]
      BY <1>1, <3>1, UtteredAt
    <3> QED
      BY <1>1, <3>2
  <2>3. (Silence(t) \o Sentence(t))[Lead[t] + p] = Sentence(t)[p]
    BY <1>1, <2>1, VoiceAt
  <2>4. a + p = Said(texts, i - 1) + (Lead[t] + p)
    BY <1>2, <1>3, <2>1
  <2> QED
    BY <1>1, <1>9, <2>2, <2>3, <2>4
<1>11. ASSUME NEW p \in 1..Len(share), ~(p <= Words[t]) PROVE share[p].word = 0
  <2> DEFINE q == p - Words[t]
             u == texts[i+1]
  <2>1. q \in 1..NextLead(texts, i)
    BY <1>2, <1>4, <1>7, <1>8, <1>11, SMTT(30)
  <2>2. i < Len(texts) /\ NextLead(texts, i) = Lead[u]
    BY <1>4, <2>1 DEF NextLead
  <2>3. i + 1 \in 1..Len(texts) /\ (i + 1) - 1 = i /\ u \in Texts
    BY <1>1, <2>2
  <2>4. Lead[u] \in Nat /\ Words[u] \in Nat
    BY <2>3, ServiceAssumption
  <2>5. q \in 1..Lead[texts[i+1]] + Words[texts[i+1]]
    BY <2>1, <2>2, <2>4
  <2>6. Uttered(texts)[Said(texts, (i + 1) - 1) + q]
          = (Silence(texts[i+1]) \o Sentence(texts[i+1]))[q]
    <3> HIDE DEF q, u
    <3> QED
      BY <1>1, <2>3, <2>5, UtteredAt
  <2>7. (Silence(u) \o Sentence(u))[q].word = 0
    <3> HIDE DEF q, u
    <3> QED
      BY <2>1, <2>2, <2>3, VoiceAt
  <2>8. a + p = Said(texts, i) + q
    BY <1>2, <1>3, <1>11, SMTT(30)
  <2> QED
    BY <1>1, <1>9, <2>3, <2>6, <2>7, <2>8
<1> HIDE DEF share
<1> QED
  BY <1>7, <1>8, <1>9, <1>10, <1>11 DEF texts, t, share

(* A response is as SpokenExact and StampsPointAtWords want the entry of t. *)
PointsAtWords(r) ==
  \A i \in DOMAIN r.stamps :
    LET p == SampleAt(r.stamps[i].time) + 1
    IN  /\ p \in DOMAIN r.audio
        /\ r.audio[p] = r.stamps[i].unit

Faithful(r, t) == Speaks(r.audio, t) /\ PointsAtWords(r)

(* Shifting a time by whole samples shifts its sample. *)
LEMMA SampleDifference ==
  ASSUME NEW a \in Int, NEW b \in Int
  PROVE  SampleAt(TicksPerSample * a - TicksPerSample * b) = a - b
<1>1. TicksPerSample \in Int
  BY TicksAssumption
<1>2. TicksPerSample * a - TicksPerSample * b = TicksPerSample * (a - b) /\ a - b \in Int
  BY <1>1
<1> QED
  BY <1>2, WholeSamples

(* A share is a faithful response. *)
LEMMA ShareFaithful ==
  ASSUME NEW cap, Splits(cap), NEW i \in 1..Len(cap.tasks), Len(cap.tasks) > 1, NEW c
  PROVE  Faithful(ResponseOf(cap, i, c), cap.tasks[i].text)
<1> DEFINE t     == cap.tasks[i].text
           share == TaskAudio(cap, i)
           r     == ResponseOf(cap, i, c)
           marks == Normalized(cap, i)
           start == Said(TextsOf(cap), i - 1)
           lead  == NextLead(TextsOf(cap), i)
<1>1. r.audio = share /\ r.stamps = marks
  BY DEF ResponseOf, ResponseAudio, ResponseStamps
<1>2. /\ DOMAIN share = 1..Len(share)
      /\ Len(share) = Words[t] + lead
      /\ \A p \in 1..Len(share) : IF p <= Words[t] THEN share[p] = Sentence(t)[p]
                                                   ELSE share[p].word = 0
  BY ShareSpoken
<1>3. t \in Texts /\ Words[t] \in Nat /\ Words[t] > 0 /\ Lead[t] \in Nat
  BY TaskAt, ServiceAssumption DEF Splits
<1>4. lead \in Nat /\ start \in Nat
  <2>1. TextsOf(cap) \in Seq(Texts) /\ i - 1 \in 0..Len(TextsOf(cap))
    BY TextsType DEF Splits
  <2>2. ASSUME i < Len(TextsOf(cap)) PROVE Lead[TextsOf(cap)[i+1]] \in Nat
    <3>1. TextsOf(cap)[i+1] \in Texts
      BY <2>1, <2>2
    <3> QED
      BY <3>1, ServiceAssumption
  <2> QED
    BY <2>1, <2>2, SaidType DEF NextLead
<1>5. cap.tasks[i].words = Words[t]
  BY WordsAgree DEF Splits
<1>6. ASSUME NEW j \in 1..Words[t]
      PROVE  /\ marks[j].unit = Sentence(t)[j]
             /\ SampleAt(marks[j].time) + 1 = j
  <2>1. 1 \in 1..Words[t]
    BY <1>3
  <2>2. /\ cap.stamps[cap.tasks[i].first + j].unit = Sentence(t)[j]
        /\ cap.stamps[cap.tasks[i].first + j].time
             = TicksPerSample * (start + (Lead[t] + j - 1))
    BY StampAt
  <2>3. StartTime(cap, i) = TicksPerSample * (start + (Lead[t] + 1 - 1))
    <3>1. \A k \in 1..Words[t] : cap.stamps[cap.tasks[i].first + k].time
                                    = TicksPerSample * (start + (Lead[t] + k - 1))
      BY StampAt, ZenonT(40)
    <3>2. StartTime(cap, i) = cap.stamps[cap.tasks[i].first + 1].time
      BY DEF StartTime
    <3> HIDE DEF t, start
    <3> QED
      BY <2>1, <3>1, <3>2
  <2>4. marks[j] = [unit |-> cap.stamps[cap.tasks[i].first + j].unit,
                    time |-> cap.stamps[cap.tasks[i].first + j].time - StartTime(cap, i)]
    BY <1>5 DEF Normalized
  <2> HIDE DEF marks, t, start
  <2>5. marks[j].unit = Sentence(t)[j]
        /\ marks[j].time = TicksPerSample * (start + (Lead[t] + j - 1))
                             - TicksPerSample * (start + (Lead[t] + 1 - 1))
    BY <2>2, <2>3, <2>4
  <2>6. /\ start + (Lead[t] + j - 1) \in Int /\ start + (Lead[t] + 1 - 1) \in Int
        /\ (start + (Lead[t] + j - 1)) - (start + (Lead[t] + 1 - 1)) = j - 1
    BY <1>3, <1>4, SMTT(30)
  <2> DEFINE x == start + (Lead[t] + j - 1)
             y == start + (Lead[t] + 1 - 1)
  <2>7. SampleAt(TicksPerSample * x - TicksPerSample * y) = x - y
    <3>1. x \in Int /\ y \in Int
      BY <2>6
    <3> HIDE DEF x, y
    <3> QED
      BY <3>1, SampleDifference
  <2>8. SampleAt(marks[j].time) = j - 1
    BY <2>5, <2>6, <2>7
  <2> QED
    BY <2>5, <2>8
<1>7. DOMAIN marks = 1..Words[t]
  BY <1>5 DEF Normalized
<1> HIDE DEF share, marks, r, t, lead
<1>8. Speaks(share, t)
  <2>1. 0 \in 0..Len(share) - Words[t]
    BY <1>2, <1>3, <1>4
  <2>2. \A p \in DOMAIN share :
          IF p \in 0+1..0+Words[t] THEN share[p] = Sentence(t)[p - 0] ELSE share[p].word = 0
    BY <1>2, <1>3
  <2> QED
    BY <2>1, <2>2 DEF Speaks
<1>9. ASSUME NEW j \in DOMAIN marks
      PROVE  /\ SampleAt(marks[j].time) + 1 \in DOMAIN share
             /\ share[SampleAt(marks[j].time) + 1] = marks[j].unit
  <2>1. j \in 1..Words[t] /\ j \in 1..Len(share) /\ j <= Words[t]
    BY <1>2, <1>3, <1>4, <1>7, SMTT(30)
  <2> QED
    BY <1>2, <1>6, <2>1
<1> QED
  BY <1>1, <1>8, <1>9 DEF Faithful, PointsAtWords, r, t

(* So is the whole capture of a lone text. *)
LEMMA LoneFaithful ==
  ASSUME NEW cap \in Capture, Complete(cap), Len(cap.tasks) = 1,
         NEW c
  PROVE  Faithful(ResponseOf(cap, 1, c), cap.tasks[1].text)
<1> DEFINE t     == cap.tasks[1].text
           texts == TextsOf(cap)
           r     == ResponseOf(cap, 1, c)
           marks == Pointers(t, 0)
           voice == Silence(t) \o Sentence(t)
<1>1. r.audio = cap.audio /\ r.stamps = cap.stamps
  BY DEF ResponseOf, ResponseAudio, ResponseStamps
<1>2. 1 \in 1..Len(cap.tasks)
  OBVIOUS
<1>3. /\ texts \in Seq(Texts) /\ Len(texts) = 1 /\ texts[1] = t /\ t \in Texts
  BY <1>2, TaskAt, TextsType
<1>4. Words[t] \in Nat /\ Words[t] > 0 /\ Lead[t] \in Nat
  BY <1>3, ServiceAssumption
<1>5. texts = Append(<< >>, t) /\ << >> \in Seq(Texts)
  BY <1>3
<1>6. cap.audio = voice /\ cap.stamps = marks
  <2>1. Uttered(Append(<< >>, t)) = Uttered(<< >>) \o voice
    BY <1>3, <1>5, UtteredAppend
  <2>2. Timed(Append(<< >>, t)) = Timed(<< >>) \o Pointers(t, Len(Uttered(<< >>)))
    BY <1>3, <1>5, TimedAppend
  <2>3. Uttered(<< >>) = << >> /\ Timed(<< >>) = << >> /\ Len(<< >>) = 0
    BY NothingDue
  <2>4. voice \in Seq(Unit) /\ marks \in Seq(Stamp)
    BY <1>3, VoiceType, PointersType
  <2>5. Pointers(t, Len(Uttered(<< >>))) = marks
    BY <2>3
  <2> HIDE DEF voice, marks
  <2>6. << >> \o voice = voice /\ << >> \o marks = marks
    BY <2>4, JoinedNothing
  <2>7. Uttered(texts) = voice /\ Timed(texts) = marks
    BY <1>5, <2>1, <2>2, <2>3, <2>5, <2>6
  <2> QED
    BY <2>7 DEF Complete
<1>7. /\ DOMAIN voice = 1..Len(voice) /\ Len(voice) = Lead[t] + Words[t]
      /\ \A p \in 1..Lead[t] : voice[p].word = 0
      /\ \A p \in 1..Words[t] : voice[Lead[t] + p] = Sentence(t)[p]
  <2>1. voice \in Seq(Unit) /\ Len(voice) = Lead[t] + Words[t]
    BY <1>3, VoiceType
  <2>2. /\ \A p \in 1..Lead[t] : voice[p].word = 0
        /\ \A p \in 1..Words[t] : voice[Lead[t] + p] = Sentence(t)[p]
    BY <1>3, VoiceAt
  <2> HIDE DEF voice, t
  <2>3. DOMAIN voice = 1..Len(voice)
    BY <2>1
  <2> QED
    BY <2>1, <2>2, <2>3
<1> HIDE DEF t, texts, r, voice
<1>8. Speaks(voice, t)
  <2>1. Lead[t] \in 0..Len(voice) - Words[t]
    BY <1>4, <1>7
  <2>2. ASSUME NEW p \in DOMAIN voice
        PROVE  IF p \in Lead[t]+1..Lead[t]+Words[t]
               THEN voice[p] = Sentence(t)[p - Lead[t]] ELSE voice[p].word = 0
    <3>1. CASE p \in 1..Lead[t]
      BY <1>4, <1>7, <3>1
    <3>2. CASE p - Lead[t] \in 1..Words[t]
      <4>1. voice[Lead[t] + (p - Lead[t])] = Sentence(t)[p - Lead[t]]
        BY <1>7, <3>2
      <4>2. Lead[t] + (p - Lead[t]) = p /\ p \in Lead[t]+1..Lead[t]+Words[t]
        BY <1>4, <1>7, <3>2
      <4> QED
        BY <4>1, <4>2
    <3> QED
      BY <1>4, <1>7, <3>1, <3>2
  <2> QED
    BY <2>1, <2>2 DEF Speaks
<1>9. ASSUME NEW j \in DOMAIN marks
      PROVE  /\ SampleAt(marks[j].time) + 1 \in DOMAIN voice
             /\ voice[SampleAt(marks[j].time) + 1] = marks[j].unit
  <2>1. /\ j \in 1..Words[t]
        /\ marks[j] = [unit |-> Sentence(t)[j], time |-> WordTime(t, j, 0)]
    <3>1. 0 \in Nat /\ marks \in Seq(Stamp)
      BY <1>3, PointersType
    <3>2. DOMAIN marks = 1..Len(marks)
      BY <3>1
    <3>3. /\ Timestamps = "none" => Len(marks) = 0
          /\ Timestamps # "none" =>
               /\ Len(marks) = Words[t]
               /\ \A w \in 1..Words[t] : marks[w] =
                    [unit |-> Sentence(t)[w], time |-> WordTime(t, w, 0)]
      BY <1>3, <3>1, PointersAt
    <3> HIDE DEF marks
    <3>4. Timestamps # "none"
      BY <3>2, <3>3
    <3> QED
      BY <3>2, <3>3, <3>4
  <2> HIDE DEF marks
  <2>2. marks[j].time = TicksPerSample * (Lead[t] + j - 1)
    <3>1. 0 + (Lead[t] + j - 1) = Lead[t] + j - 1
      BY <1>4, <2>1
    <3> QED
      BY <2>1, <3>1 DEF WordTime
  <2>3. Lead[t] + j - 1 \in Int
    BY <1>4, <2>1
  <2>4. SampleAt(TicksPerSample * (Lead[t] + j - 1)) = Lead[t] + j - 1
    BY <2>3, WholeSamples
  <2>5. SampleAt(marks[j].time) + 1 = Lead[t] + j /\ Lead[t] + j \in 1..Len(voice)
    BY <1>4, <1>7, <2>1, <2>2, <2>4
  <2> QED
    BY <1>7, <2>1, <2>5
<1> QED
  BY <1>1, <1>6, <1>8, <1>9 DEF Faithful, PointsAtWords, r, t, voice

(***************************************************************************)
(* What has to be known of the service's timestamps for the entries to be  *)
(* exact.  With timestamps that start again at every text a slice is cut   *)
(* out of the wrong text; and the count guard of _finalize_context, which  *)
(* compares totals, lets a context through when _parse_words_from_text     *)
(* finds a word too few in one text and one too many in another.  Run      *)
(* doc_reset shows the first.                                              *)
(***************************************************************************)
TellsTime == Timestamps = "none" \/ (Timestamps = "cumulative" /\ MiscountsOneWay)

(* A service without word timestamps shows nothing. *)
LEMMA NothingTimed ==
  ASSUME Timestamps = "none", NEW texts \in Seq(Texts)
  PROVE  Timed(texts) = << >>
<1> DEFINE n == Len(texts)
           P == { k \in 0..n : Shown(texts, k) = 0 }
<1>0. n \in Nat
  OBVIOUS
<1>1. 0 \in P
  BY <1>0, SaidStart
<1>2. ASSUME NEW k \in 0..n-1, k \in P PROVE k + 1 \in P
  <2>1. k + 1 \in 1..n /\ (k + 1) - 1 = k /\ k \in 0..n /\ k + 1 \in 0..n /\ texts[k+1] \in Texts
    BY <1>0
  <2>2. Said(texts, k) \in Nat
    BY <2>1, SaidType
  <2>3. Len(Pointers(texts[k+1], Said(texts, k))) = 0
    BY <2>1, <2>2, PointersAt
  <2>4. Shown(texts, k + 1)
          = Shown(texts, (k + 1) - 1) + Len(Pointers(texts[k+1], Said(texts, (k + 1) - 1)))
    BY <2>1, TimedStep
  <2>5. Shown(texts, k) = 0
    BY <1>2
  <2> QED
    BY <2>1, <2>3, <2>4, <2>5
<1>3. n \in P
  <2> HIDE DEF P, n
  <2>1. \A k \in 0..n : k \in P
    BY <1>0, <1>1, <1>2, InductionUpTo
  <2> QED
    BY <1>0, <2>1
<1>4. SubSeq(texts, 1, n) = texts
  OBVIOUS
<1>5. Len(Timed(texts)) = 0
  BY <1>3, <1>4 DEF Shown
<1>6. Timed(texts) \in Seq(Stamp)
  BY TimedType
<1> DEFINE stamps == Timed(texts)
<1> HIDE DEF stamps
<1>7. stamps \in Seq(Stamp) /\ Len(stamps) = 0
  BY <1>5, <1>6 DEF stamps
<1>8. stamps = << >>
  BY <1>7
<1> QED
  BY <1>8 DEF stamps

(* What _finalize_context stores of a complete capture is faithful. *)
LEMMA StoredFaithful ==
  ASSUME TellsTime, NEW cap \in Capture, Counted(cap), Complete(cap),
         NEW i \in StoredTasks(cap), NEW c
  PROVE  Faithful(ResponseOf(cap, i, c), cap.tasks[i].text)
<1>1. i \in 1..Len(cap.tasks) /\ (Len(cap.tasks) > 1 => Splittable(cap))
  BY DEF StoredTasks
<1>2. cap.tasks \in Seq(Task) /\ Len(cap.tasks) \in Nat
  BY DEF Capture
<1>3. CASE Len(cap.tasks) > 1
  <2>1. cap.stamps # << >> /\ TotalWords(cap.tasks) = Len(cap.stamps)
    BY <1>1, <1>3 DEF Splittable
  <2>2. Timestamps # "none"
    <3>1. TextsOf(cap) \in Seq(Texts)
      BY TextsType
    <3> QED
      BY <2>1, <3>1, NothingTimed DEF Complete
  <2>3. Splits(cap)
    BY <2>1, <2>2 DEF Splits, TellsTime
  <2> QED
    BY <1>1, <1>3, <2>3, ShareFaithful
<1>4. CASE ~(Len(cap.tasks) > 1)
  <2>1. Len(cap.tasks) = 1 /\ i = 1
    <3> DEFINE n == Len(cap.tasks)
    <3>1. i \in 1..n /\ n \in Nat /\ ~(n > 1)
      BY <1>1, <1>2, <1>4
    <3> HIDE DEF n
    <3>2. n = 1 /\ i = 1
      BY <3>1
    <3> QED
      BY <3>2 DEF n
  <2> QED
    BY <2>1, LoneFaithful
<1> QED
  BY <1>3, <1>4

-------------------------------------------------------------------------------
(* Captures are complete when they are finalised                           *)

(* Only the tasks are counted. *)
LEMMA CountedSame ==
  ASSUME NEW a, NEW b, Counted(a), a.tasks = b.tasks
  PROVE  Counted(b)
  BY DEF Counted

(* An empty capture is counted. *)
LEMMA CountedEmpty == Counted(EmptyCapture)
  BY DEF Counted, EmptyCapture

(* WithTask goes on counting where the last task ended. *)
LEMMA CountedMore ==
  ASSUME NEW cap \in Capture, NEW more, NEW t \in Texts, Counted(cap), NEW task,
         task = [text |-> t, words |-> Parsed[t], first |-> TotalWords(cap.tasks)],
         task \in Task, more.tasks = Append(cap.tasks, task)
  PROVE  Counted(more)
<1> DEFINE n == Len(cap.tasks)
<1>1. cap.tasks \in Seq(Task) /\ n \in Nat
  BY DEF Capture
<1>2. /\ DOMAIN more.tasks = 1..n+1 /\ more.tasks[n+1] = task
      /\ \A i \in 1..n : more.tasks[i] = cap.tasks[i]
  BY <1>1
<1>3. task.text = t /\ task.words = Parsed[t] /\ task.first = TotalWords(cap.tasks)
  OBVIOUS
<1>4. TotalWords(cap.tasks) = IF n = 0 THEN 0 ELSE cap.tasks[n].first + cap.tasks[n].words
  <2>1. cap.tasks = << >> <=> n = 0
    BY <1>1
  <2> QED
    BY <2>1 DEF TotalWords
<1>5. DOMAIN cap.tasks = 1..n
  BY <1>1
<1> HIDE DEF n
<1>6. ASSUME NEW i \in 1..n+1
      PROVE  /\ more.tasks[i].words = Parsed[more.tasks[i].text]
             /\ more.tasks[i].first = IF i = 1 THEN 0
                  ELSE more.tasks[i-1].first + more.tasks[i-1].words
  <2>1. CASE i = n + 1
    <3>1. more.tasks[i] = task
      BY <1>2, <2>1
    <3>2. i = 1 <=> n = 0
      BY <1>1, <2>1
    <3>3. ASSUME n # 0 PROVE more.tasks[i-1] = cap.tasks[n]
      BY <1>1, <1>2, <2>1, <3>3
    <3>4. more.tasks[i].text = t /\ more.tasks[i].words = Parsed[t]
          /\ more.tasks[i].first = TotalWords(cap.tasks)
      BY <1>3, <3>1
    <3>5. CASE n = 0
      BY <1>4, <3>2, <3>4, <3>5
    <3>6. CASE n # 0
      <4>1. TotalWords(cap.tasks) = cap.tasks[n].first + cap.tasks[n].words
        BY <1>4, <3>6
      <4>2. i # 1 /\ more.tasks[i-1] = cap.tasks[n]
        BY <3>2, <3>3, <3>6
      <4> QED
        BY <3>4, <4>1, <4>2
    <3> QED
      BY <3>5, <3>6
  <2>2. CASE i \in 1..n
    <3>1. more.tasks[i] = cap.tasks[i]
      BY <1>2, <2>2
    <3>2. ASSUME i # 1 PROVE more.tasks[i-1] = cap.tasks[i-1]
      BY <1>1, <1>2, <2>2, <3>2
    <3>3. /\ cap.tasks[i].words = Parsed[cap.tasks[i].text]
          /\ cap.tasks[i].first = IF i = 1 THEN 0
               ELSE cap.tasks[i-1].first + cap.tasks[i-1].words
      BY <1>5, <2>2 DEF Counted
    <3>4. CASE i = 1
      BY <3>1, <3>3, <3>4
    <3>5. CASE i # 1
      <4>1. more.tasks[i-1] = cap.tasks[i-1]
        BY <3>2, <3>5
      <4>2. cap.tasks[i].first = cap.tasks[i-1].first + cap.tasks[i-1].words
        BY <3>3, <3>5
      <4> QED
        BY <3>1, <3>3, <3>5, <4>1, <4>2
    <3> QED
      BY <3>4, <3>5
  <2>3. i = n + 1 \/ i \in 1..n
    BY <1>1
  <2> QED
    BY <2>1, <2>2, <2>3
<1> QED
  BY <1>2, <1>6 DEF Counted

CountInv == \A c \in Contexts : Counted(CaptureOf(c))

(* The invariant holds in the beginning. *)
LEMMA InitCountInv == Init => CountInv
<1> SUFFICES ASSUME Init PROVE CountInv
  OBVIOUS
<1>1. \A c : CaptureOf(c) = EmptyCapture
  BY DEF Init, CaptureOf, Registered
<1> QED
  BY <1>1, CountedEmpty DEF CountInv

(* Every step preserves it. *)
LEMMA NextCountInv == TypeInv /\ CountInv /\ [Next]_vars => CountInv'
<1> SUFFICES ASSUME TypeInv, CountInv, [Next]_vars, NEW d \in Contexts
             PROVE  Counted(CaptureOf(d)')
  BY DEF CountInv, Contexts
<1>0. TypeOK /\ CallInTurn /\ CapturesOK(contexts) /\ turn \in Nat
  BY BoundAssumption, TypeInvCaptures DEF TypeInv, TypeOK
<1>c. Counted(CaptureOf(d))
  BY DEF CountInv
<1>k. ASSUME UNCHANGED contexts PROVE Counted(CaptureOf(d)')
  <2>1. CaptureOf(d)' = CaptureOf(d)
    BY <1>k DEF CaptureOf, Registered
  <2> QED
    BY <1>c, <2>1
<1>w. ASSUME NEW c, contexts' = Without(c) PROVE Counted(CaptureOf(d)')
  <2>1. CaptureOf(d)' = CaptureOf(d) \/ CaptureOf(d)' = EmptyCapture
    BY <1>w DEF Without, CaptureOf, Registered
  <2> QED
    BY <1>c, <2>1, CountedEmpty
<1>1. ASSUME NEW t \in Texts, StartRequest(t) PROVE Counted(CaptureOf(d)')
  BY <1>1, <1>k DEF StartRequest
<1>2. ASSUME NEW t \in Texts, BypassRequest(t) PROVE Counted(CaptureOf(d)')
  BY <1>2, <1>w DEF BypassRequest
<1>3. ASSUME Hit PROVE Counted(CaptureOf(d)')
  BY <1>3, <1>k DEF Hit
<1>4. ASSUME Miss PROVE Counted(CaptureOf(d)')
  <2>1. call \in Call /\ call # NoCall /\ turn \in Contexts
    BY <1>0, <1>4 DEF Miss, CallInTurn, NoCall, TypeOK
  <2> DEFINE t == call.text
  <2>2. t \in Texts /\ contexts' = WithTask(turn, t)
    BY <1>4, <2>1 DEF Call, NoCall, Miss
  <2> HIDE DEF t
  <2>3. CASE d = turn
    <3> DEFINE cap  == CaptureOf(d)
               task == [text |-> t, words |-> Parsed[t], first |-> TotalWords(cap.tasks)]
    <3>1. task \in Task /\ CaptureOf(d)'.tasks = Append(cap.tasks, task)
      BY <1>0, <2>2, <2>3, CaptureAfterTask
    <3>2. cap \in Capture
      BY <1>0, CaptureOfOK
    <3> DEFINE more == CaptureOf(d)'
    <3>3. /\ task = [text |-> t, words |-> Parsed[t], first |-> TotalWords(cap.tasks)]
          /\ more.tasks = Append(cap.tasks, task)
      BY <3>1
    <3> HIDE DEF cap, task, more
    <3>4. Counted(more)
      BY <1>c, <2>2, <3>1, <3>2, <3>3, CountedMore DEF cap
    <3> QED
      BY <3>4 DEF more
  <2>4. CASE d # turn
    <3>1. CaptureOf(d)' = CaptureOf(d)
      BY <2>2, <2>4 DEF WithTask, CaptureOf, Registered
    <3> QED
      BY <1>c, <3>1
  <2> QED
    BY <2>3, <2>4
<1>5. ASSUME SynthReturn PROVE Counted(CaptureOf(d)')
  BY <1>5, <1>k DEF SynthReturn
<1>6. ASSUME SynthFail PROVE Counted(CaptureOf(d)')
  BY <1>6, <1>k, <1>w DEF SynthFail
<1>7. ASSUME EndTurn PROVE Counted(CaptureOf(d)')
  BY <1>7, <1>k DEF EndTurn
<1>8. ASSUME NEW c \in Contexts, ReceiveSpeech(c) PROVE Counted(CaptureOf(d)')
  <2> DEFINE stamps == Head(wire[c]).stamps
  <2>1. wire[c] # << >> /\ contexts' = WithStamps(c, stamps)
    BY <1>8 DEF ReceiveSpeech
  <2>2. stamps \in Seq(Stamp)
    <3>1. wire[c] \in Seq(Message)
      BY <1>0 DEF TypeOK
    <3> QED
      BY <2>1, <3>1, HeadMessage
  <2> HIDE DEF stamps
  <2>3. CaptureOf(d)'.tasks = CaptureOf(d).tasks
    BY <1>0, <2>1, <2>2, CaptureAfterStamps
  <2> QED
    BY <1>c, <2>3, CountedSame
<1>9. ASSUME NEW c \in Contexts, ReceiveStop(c) PROVE Counted(CaptureOf(d)')
  BY <1>9, <1>k DEF ReceiveStop
<1>10. ASSUME NEW c \in Contexts, PushAudio(c) PROVE Counted(CaptureOf(d)')
  <2> DEFINE frame == Head(queue[c])
  <2>1. queue[c] # << >> /\ contexts' = WithAudio(c, frame)
    BY <1>10 DEF PushAudio
  <2>2. frame \in Frame
    BY <1>0, <2>1 DEF TypeOK
  <2> HIDE DEF frame
  <2>3. CaptureOf(d)'.tasks = CaptureOf(d).tasks
    BY <1>0, <2>1, <2>2, CaptureAfterAudio
  <2> QED
    BY <1>c, <2>3, CountedSame
<1>11. ASSUME NEW c \in Contexts, PushStopped(c) PROVE Counted(CaptureOf(d)')
  BY <1>11, <1>w DEF PushStopped
<1>12. ASSUME NEW c \in Contexts, StoreResponse(c) PROVE Counted(CaptureOf(d)')
  BY <1>12, <1>k DEF StoreResponse
<1>13. ASSUME NEW late \in BOOLEAN, Interrupt(late) PROVE Counted(CaptureOf(d)')
  <2>1. CaptureOf(d)' = EmptyCapture
    BY <1>13 DEF Interrupt, AfterInterruption, CaptureOf, Registered
  <2> QED
    BY <2>1, CountedEmpty
<1>14. ASSUME Lose PROVE Counted(CaptureOf(d)')
  BY <1>14, <1>k DEF Lose
<1>15. CASE UNCHANGED vars
  BY <1>15, <1>k DEF vars
<1> QED
  BY <1>1, <1>2, <1>3, <1>4, <1>5, <1>6, <1>7, <1>8, <1>9, <1>10, <1>11, <1>12,
     <1>13, <1>14, <1>15
  DEF Next, AllTurnsOver

(***************************************************************************)
(* A finalisation works on a capture that is complete, unless a request of *)
(* its context failed; and what it has written is faithful to its text.    *)
(***************************************************************************)
CompleteInv ==
  /\ \A c \in Contexts : Counted(finalizing[c].cap)
  /\ \A c \in Contexts \ faulted : Complete(finalizing[c].cap)

EntryFaithful(t) ==
  cache[t] # NoEntry /\ cache[t].from \notin faulted => Faithful(cache[t], t)

FaithfulInv == \A t \in Texts : EntryFaithful(t)

(* An empty capture is complete. *)
LEMMA EmptyComplete == Counted(EmptyCapture) /\ Complete(EmptyCapture)
  BY CountedEmpty, NothingDue DEF Complete, TextsOf, EmptyCapture

(* Both hold in the beginning. *)
LEMMA InitCompleteInv == Init => CompleteInv /\ FaithfulInv
  BY EmptyComplete DEF Init, CompleteInv, FaithfulInv, EntryFaithful, NotFinalizing

(* A context that lost a capture is never trusted again. *)
LEMMA FaultsStay == [Next]_vars => faulted \subseteq faulted'
<1> SUFFICES ASSUME [Next]_vars PROVE faulted \subseteq faulted'
  BY SMTT(30)
<1>1. CASE Next
  BY <1>1 DEF Next, StartRequest, BypassRequest, Hit, Miss, SynthReturn, SynthFail, EndTurn,
     ReceiveSpeech, ReceiveStop, PushAudio, PushStopped, StoreResponse, Interrupt, Lose,
     AllTurnsOver, vars, history
<1>2. CASE UNCHANGED vars
  BY <1>2 DEF vars, history
<1> QED
  BY <1>1, <1>2

(* Where the capture of a finalisation comes from. *)
LEMMA FinalizingSteps ==
  ASSUME TypeOK, [Next]_vars, NEW d \in Contexts
  PROVE  \/ finalizing'[d].cap = finalizing[d].cap
         \/ finalizing'[d].cap = EmptyCapture
         \/ /\ PushStopped(d) /\ StoredTasks(CaptureOf(d)) # {}
            /\ finalizing'[d].cap = CaptureOf(d)
<1>0. finalizing \in [Contexts -> Finalizing]
  BY DEF TypeOK
<1>1. ASSUME NEW c \in Contexts, PushStopped(c)
      PROVE  \/ finalizing'[d].cap = finalizing[d].cap
             \/ /\ PushStopped(d) /\ StoredTasks(CaptureOf(d)) # {}
                /\ finalizing'[d].cap = CaptureOf(d)
  <2>1. CASE StoredTasks(CaptureOf(c)) = {}
    BY <1>1, <2>1 DEF PushStopped
  <2>2. CASE StoredTasks(CaptureOf(c)) # {}
    <3>1. finalizing' = [finalizing EXCEPT ![c] =
             [cap |-> CaptureOf(c), left |-> StoredTasks(CaptureOf(c))]]
      BY <1>1, <2>2 DEF PushStopped
    <3>2. CASE d = c
      BY <1>0, <1>1, <2>2, <3>1, <3>2
    <3>3. CASE d # c
      BY <1>0, <3>1, <3>3
    <3> QED
      BY <3>2, <3>3
  <2> QED
    BY <2>1, <2>2
<1>2. ASSUME NEW c \in Contexts, StoreResponse(c)
      PROVE  finalizing'[d].cap = finalizing[d].cap \/ finalizing'[d].cap = EmptyCapture
  <2>1. PICK left : finalizing' = [finalizing EXCEPT ![c] =
           IF left = {} THEN NotFinalizing ELSE [cap |-> finalizing[c].cap, left |-> left]]
    BY <1>2 DEF StoreResponse
  <2>2. NotFinalizing.cap = EmptyCapture
    BY DEF NotFinalizing
  <2> QED
    BY <1>0, <2>1, <2>2
<1>3. ASSUME NEW late \in BOOLEAN, Interrupt(late)
      PROVE  finalizing'[d].cap = finalizing[d].cap \/ finalizing'[d].cap = EmptyCapture
  BY <1>3 DEF Interrupt, NotFinalizing
<1>4. CASE UNCHANGED finalizing
  BY <1>4
<1>5. \/ UNCHANGED finalizing
      \/ \E c \in Contexts : PushStopped(c) \/ StoreResponse(c)
      \/ \E late \in BOOLEAN : Interrupt(late)
  BY DEF Next, StartRequest, BypassRequest, Hit, Miss, SynthReturn, SynthFail, EndTurn,
     ReceiveSpeech, ReceiveStop, PushAudio, Lose, AllTurnsOver, vars
<1> QED
  BY <1>1, <1>2, <1>3, <1>4, <1>5

(* push_frame comes to the Stopped frame once everything else was pushed. *)
LEMMA CompleteAtStop ==
  ASSUME TypeInv, TurnInv, StopInv, ConserveInv, NEW d \in Contexts \ faulted,
         PushStopped(d), StoredTasks(CaptureOf(d)) # {}
  PROVE  Complete(CaptureOf(d))
<1> DEFINE cap == CaptureOf(d)
<1>0. /\ TypeOK /\ CapturesOK(contexts) /\ StopAt(d)
      /\ queue[d] \in Seq(Frame) /\ wire[d] \in Seq(Message)
  BY TypeInvCaptures DEF TypeInv, TypeOK, StopInv
<1>1. cap \in Capture
  BY <1>0, CaptureOfOK
<1>2. queue[d] # << >> /\ Head(queue[d]).kind = "stop"
  BY DEF PushStopped
<1>3. Tail(queue[d]) = << >> /\ Head(queue[d]) = StopFrame
  BY <1>0, <1>2, StopTailLast DEF StopAt
<1>4. wire[d] = << >>
  <2>1. HasStop(queue[d])
    <3>1. 1 \in DOMAIN queue[d] /\ Head(queue[d]) = queue[d][1]
      BY <1>0, <1>2
    <3> QED
      BY <1>2, <3>1 DEF HasStop
  <2> QED
    BY <1>0, <2>1 DEF StopAt
<1>5. d \in DOMAIN contexts
  <2>1. cap.audio # << >>
    BY DEF StoredTasks
  <2> QED
    BY <2>1 DEF CaptureOf, Registered, EmptyCapture
<1>6. ConservedAt(d)
  BY <1>5 DEF ConserveInv, Open
<1>7. LiveUnits(queue[d]) = << >>
  <2> DEFINE h == Head(queue[d])
  <2>1. h \in Frame
    BY <1>0, <1>2
  <2>2. Live[h] = << >>
    BY <1>2, <2>1 DEF Live
  <2>3. LiveUnits(queue[d]) = Live[h] \o LiveUnits(Tail(queue[d]))
    BY <1>0, <1>2, LiveQueue
  <2>4. LiveUnits(<< >>) = << >>
    BY <1>0, LiveQueue
  <2> HIDE DEF h
  <2>5. LiveUnits(queue[d]) = << >> \o << >>
    BY <1>3, <2>2, <2>3, <2>4
  <2> QED
    BY <2>5
<1>8. UnitsSent(wire[d]) = << >> /\ StampsSent(wire[d]) = << >>
  BY <1>0, <1>4, SentMessages
<1>9. cap.audio \in Seq(Unit) /\ cap.stamps \in Seq(Stamp)
  BY <1>1 DEF Capture
<1> HIDE DEF cap
<1>10. (cap.audio \o << >>) \o << >> = cap.audio /\ cap.stamps \o << >> = cap.stamps
  <2> DEFINE a == cap.audio
             s == cap.stamps
  <2>1. a \in Seq(Unit) /\ s \in Seq(Stamp)
    BY <1>9
  <2> HIDE DEF a, s
  <2>2. a \o << >> = a /\ s \o << >> = s
    BY <2>1
  <2> QED
    BY <2>2 DEF a, s
<1>11. Heard(d) = cap.audio /\ Noted(d) = cap.stamps
  BY <1>7, <1>8, <1>10 DEF Heard, Noted, cap
<1> QED
  BY <1>6, <1>11 DEF ConservedAt, Complete, cap

(* Every step preserves it. *)
LEMMA NextCompleteInv ==
  ASSUME TypeInv, TurnInv, StopInv, ConserveInv, CountInv, CompleteInv, [Next]_vars
  PROVE  CompleteInv'
<1>1. TypeOK /\ faulted \subseteq faulted'
  BY FaultsStay DEF TypeInv
<1>2. ASSUME NEW d \in Contexts
      PROVE  /\ Counted(finalizing'[d].cap)
             /\ d \notin faulted' => Complete(finalizing'[d].cap)
  <2>1. Counted(finalizing[d].cap) /\ Counted(CaptureOf(d))
    BY DEF CompleteInv, CountInv
  <2>2. d \notin faulted => Complete(finalizing[d].cap)
    BY DEF CompleteInv
  <2>3. CASE finalizing'[d].cap = finalizing[d].cap
    BY <1>1, <2>1, <2>2, <2>3
  <2>4. CASE finalizing'[d].cap = EmptyCapture
    BY <2>4, EmptyComplete
  <2>5. CASE /\ PushStopped(d) /\ StoredTasks(CaptureOf(d)) # {}
             /\ finalizing'[d].cap = CaptureOf(d)
    <3>1. ASSUME d \notin faulted' PROVE Complete(CaptureOf(d))
      <4>1. d \in Contexts \ faulted
        BY <1>1, <3>1
      <4> QED
        BY <2>5, <4>1, CompleteAtStop
    <3> QED
      BY <2>1, <2>5, <3>1
  <2> QED
    BY <1>1, <2>3, <2>4, <2>5, FinalizingSteps
<1> QED
  BY <1>2 DEF CompleteInv, Contexts

-------------------------------------------------------------------------------
(* What is written is faithful                                             *)

(* Only StoreResponse writes an entry. *)
LEMMA CacheSteps ==
  ASSUME [Next]_vars
  PROVE  \/ \A t \in Texts : cache'[t] = cache[t] \/ cache'[t] = NoEntry
         \/ \E c \in Contexts : \E i \in finalizing[c].left :
              \A t \in Texts :
                \/ cache'[t] = cache[t] \/ cache'[t] = NoEntry
                \/ /\ t = finalizing[c].cap.tasks[i].text
                   /\ cache'[t] = ResponseOf(finalizing[c].cap, i, c)
<1>1. ASSUME NEW c \in Contexts, StoreResponse(c)
      PROVE  \/ UNCHANGED cache
             \/ \E i \in finalizing[c].left : \A t \in Texts :
                  \/ cache'[t] = cache[t] \/ cache'[t] = NoEntry
                  \/ /\ t = finalizing[c].cap.tasks[i].text
                     /\ cache'[t] = ResponseOf(finalizing[c].cap, i, c)
  <2> DEFINE cap == finalizing[c].cap
  <2>1. PICK i \in finalizing[c].left :
          \/ Backend!Put(cap.tasks[i].text, ResponseOf(cap, i, c))
          \/ Backend!PutFailed
    BY <1>1 DEF StoreResponse
  <2>2. CASE Backend!PutFailed
    BY <2>2 DEF Backend!PutFailed
  <2>3. CASE Backend!Put(cap.tasks[i].text, ResponseOf(cap, i, c))
    <3> DEFINE r == ResponseOf(cap, i, c)
               k == cap.tasks[i].text
    <3> HIDE DEF r, k
    <3>1. Backend!Put(k, r)
      BY <2>3 DEF r, k
    <3>2. \A t \in Texts : \/ cache'[t] = cache[t] \/ cache'[t] = NoEntry
                           \/ t = k /\ cache'[t] = r
      BY <3>1 DEF Backend!Put
    <3> QED
      BY <3>2 DEF r, k
  <2> QED
    BY <2>1, <2>2, <2>3
<1>2. ASSUME Lose PROVE \A t \in Texts : cache'[t] = cache[t] \/ cache'[t] = NoEntry
  BY <1>2 DEF Lose, Backend!Lose
<1>3. \/ UNCHANGED cache \/ Lose
      \/ \E c \in Contexts : StoreResponse(c)
  BY DEF Next, StartRequest, BypassRequest, Hit, Miss, SynthReturn, SynthFail, EndTurn,
     ReceiveSpeech, ReceiveStop, PushAudio, PushStopped, Interrupt, AllTurnsOver, vars,
     Backend!Get
<1> QED
  BY <1>1, <1>2, <1>3

(* Every step preserves it. *)
LEMMA NextFaithfulInv ==
  ASSUME TellsTime, TypeInv, CompleteInv, FaithfulInv, [Next]_vars
  PROVE  FaithfulInv'
<1>1. faulted \subseteq faulted'
  BY FaultsStay
<1>2. ASSUME NEW t \in Texts, cache'[t] = cache[t] \/ cache'[t] = NoEntry
      PROVE  EntryFaithful(t)'
  BY <1>1, <1>2 DEF FaithfulInv, EntryFaithful
<1>3. ASSUME NEW c \in Contexts, NEW i \in finalizing[c].left, NEW t \in Texts,
             t = finalizing[c].cap.tasks[i].text,
             cache'[t] = ResponseOf(finalizing[c].cap, i, c)
      PROVE  EntryFaithful(t)'
  <2> DEFINE cap == finalizing[c].cap
             r   == ResponseOf(cap, i, c)
  <2>1. cap \in Capture /\ i \in StoredTasks(cap) /\ Counted(cap)
    <3>1. finalizing[c] \in Finalizing /\ FinalizationOK(c)
      BY DEF TypeInv, TypeOK
    <3> QED
      BY <3>1 DEF Finalizing, FinalizationOK, CompleteInv
  <2>2. r.from = c
    BY DEF ResponseOf
  <2>3. c \notin faulted => Complete(cap)
    BY DEF CompleteInv
  <2>4. t = cap.tasks[i].text /\ cache'[t] = r
    BY <1>3
  <2>5. ASSUME c \notin faulted PROVE Faithful(r, t)
    <3>1. Complete(cap)
      BY <2>3, <2>5
    <3> HIDE DEF cap
    <3>2. Faithful(ResponseOf(cap, i, c), cap.tasks[i].text)
      BY <2>1, <3>1, StoredFaithful
    <3> QED
      BY <2>4, <3>2
  <2> HIDE DEF cap, r
  <2> QED
    BY <1>1, <2>2, <2>4, <2>5 DEF EntryFaithful
<1>4. ASSUME NEW t \in Texts PROVE EntryFaithful(t)'
  BY <1>2, <1>3, CacheSteps
<1> QED
  BY <1>4 DEF FaithfulInv

ExactInv == TypeInv /\ TurnInv /\ StopInv /\ ConserveInv /\ CountInv /\ CompleteInv /\ FaithfulInv

(* Every entry of a service that tells the time is faithful. *)
LEMMA EntriesFaithful ==
  ASSUME TellsTime PROVE Spec => []FaithfulInv
<1>1. Init => ExactInv
  BY InitTypeInv, InitTurnInv, InitStopInv, InitConserveInv, InitCountInv, InitCompleteInv
  DEF ExactInv
<1>2. ExactInv /\ [Next]_vars => ExactInv'
  <2> SUFFICES ASSUME ExactInv, [Next]_vars PROVE ExactInv'
    OBVIOUS
  <2>0. /\ TypeInv /\ TurnInv /\ StopInv /\ ConserveInv /\ CountInv
        /\ CompleteInv /\ FaithfulInv
    BY DEF ExactInv
  <2>1. TypeInv' /\ TurnInv' /\ StopInv' /\ ConserveInv' /\ CountInv'
    BY <2>0, NextTypeInv, NextTurnInv, NextStopInv, NextConserveInv, NextCountInv
  <2>2. CompleteInv'
    BY <2>0, NextCompleteInv
  <2>3. FaithfulInv'
    BY <2>0, NextFaithfulInv
  <2> QED
    BY <2>1, <2>2, <2>3 DEF ExactInv
<1>3. ExactInv => FaithfulInv
  BY DEF ExactInv
<1> QED
  BY <1>1, <1>2, <1>3, PTL DEF Spec

(***************************************************************************)
(* Unless a request of its context failed, the entry of a text is that     *)
(* text's speech, whole and in order: capturing, the count guard of        *)
(* _finalize_context and the cuts of _store_split_tasks keep every word    *)
(* of the text and take none of another.                                   *)
(***************************************************************************)
THEOREM EntriesSpokenExactly ==
  ASSUME TellsTime PROVE Spec => []SpokenExact
<1>1. FaithfulInv => SpokenExact
  BY DEF FaithfulInv, EntryFaithful, Faithful, SpokenExact
<1> QED
  BY <1>1, EntriesFaithful, PTL

(***************************************************************************)
(* The timestamps stored with an entry point at the samples of their words *)
(* in its audio: _split_audio and _normalize_timestamps shift by the same  *)
(* amount, and neither loses a word.                                       *)
(***************************************************************************)
THEOREM StampsShowTheirWords ==
  ASSUME TellsTime PROVE Spec => []StampsPointAtWords
<1>1. FaithfulInv => StampsPointAtWords
  BY DEF FaithfulInv, EntryFaithful, Faithful, PointsAtWords, StampsPointAtWords
<1> QED
  BY <1>1, EntriesFaithful, PTL
==============================================================================
