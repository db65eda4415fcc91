------------------------------ MODULE AudioSplit ------------------------------
(***************************************************************************)
(* How a finished capture becomes cache responses: _finalize_context,      *)
(* _store_task and _store_split_tasks of mixin.py, without the writes.     *)
(*                                                                         *)
(* A capture is [tasks, audio, stamps].  A task is [text, words, first]:   *)
(* the number of words parsed from its text, and the value word_idx has    *)
(* when the loop of _store_split_tasks reaches it, that is, the words of   *)
(* the tasks before it.  Audio is a sequence of PCM samples, one element   *)
(* for all channels, so a byte offset rounded down to a whole sample is a  *)
(* number of samples.                                                      *)
(*                                                                         *)
(* The code keeps times as floats, in seconds, and multiplies them by the  *)
(* sample rate.  Here a time is the number of seconds that was meant, in   *)
(* ticks.  Its float, and the product, are the nearest ones, which may lie *)
(* across the border of a sample: SampleAt is then one sample off.         *)
(***************************************************************************)
EXTENDS Integers, Sequences

CONSTANTS
  TicksPerSample,
  CutEarly, \* times whose product falls short of the sample they begin in
  CutLate   \* times whose product is rounded up to the next sample

(* The byte offset of a time: int(time * sample_rate * bytes_per_sample),  *)
(* cut to a whole sample.                                                  *)
SampleAt(time) ==
  (time \div TicksPerSample)
    + (IF time \in CutLate THEN 1 ELSE 0) - (IF time \in CutEarly THEN 1 ELSE 0)

ASSUME TicksAssumption == TicksPerSample \in Nat \ {0}

(* Which times are cut early or late depends on the sample rate.  Floats   *)
(* are rounded to the nearest: a later time is never cut before an earlier *)
(* one, the start of a sample never after it, and 0 is exact.              *)
ASSUME RoundingAssumption ==
  /\ CutEarly \subseteq Nat /\ CutLate \subseteq Nat
  /\ \A t \in CutEarly : t >= TicksPerSample /\ SampleAt(t-1) <= SampleAt(t)
  /\ \A t \in CutLate : t % TicksPerSample # 0 /\ SampleAt(t) <= SampleAt(t+1)

(* The seconds of an audio; SampleAt may take them back one sample short.  *)
Duration(audio) == Len(audio) * TicksPerSample

(* all_audio[start_byte:end_byte], empty when the two cross. *)
Slice(audio, start, end) ==
  LET from == IF SampleAt(start) > 0 THEN SampleAt(start) ELSE 0
      to   == IF SampleAt(end) < Len(audio) THEN SampleAt(end) ELSE Len(audio)
      len  == IF from < to THEN to - from ELSE 0
  IN  [p \in 1..len |-> audio[from + p]]

(* total_expected, the words of all tasks of a capture. *)
TotalWords(tasks) ==
  IF tasks = << >> THEN 0
  ELSE tasks[Len(tasks)].first + tasks[Len(tasks)].words

Monotonic(stamps) ==
  \A i \in 1..Len(stamps)-1 : stamps[i].time <= stamps[i+1].time

(* The three integrity guards; when one fails the whole batch is skipped. *)
SplittableIgnoringCount(cap) ==
  /\ cap.stamps # << >>
  /\ TotalWords(cap.tasks) <= Len(cap.stamps)
  /\ Monotonic(cap.stamps)
Splittable(cap) ==
  /\ cap.stamps # << >>
  /\ TotalWords(cap.tasks) = Len(cap.stamps)
  /\ Monotonic(cap.stamps)

(* A task's share of the audio begins with its own first word ... *)
StartTime(cap, i) == cap.stamps[cap.tasks[i].first + 1].time

(* ... and ends where the next word begins, or with the audio. *)
EndTimeOfLastWord(cap, i) == cap.stamps[cap.tasks[i].first + cap.tasks[i].words].time
EndTime(cap, i) ==
  LET next == cap.tasks[i].first + cap.tasks[i].words + 1
  IN  IF next <= Len(cap.stamps) THEN cap.stamps[next].time
                                 ELSE Duration(cap.audio)

TaskAudio(cap, i) == Slice(cap.audio, StartTime(cap, i), EndTime(cap, i))

(* Timestamps of the task's words, counted from the first of them; the     *)
(* last digit a float subtraction may lose is left out.                    *)
NormalizedFromZero(cap, i) ==
  [j \in 1..cap.tasks[i].words |-> cap.stamps[cap.tasks[i].first + j]]
Normalized(cap, i) ==
  [j \in 1..cap.tasks[i].words |->
     LET stamp == cap.stamps[cap.tasks[i].first + j]
     IN  [unit |-> stamp.unit, time |-> stamp.time - StartTime(cap, i)]]

(* The tasks whose response is written, a lone task or a slice of several: *)
(* tasks without words, or whose slice is empty, are left uncached.        *)
StoredTasks(cap) ==
  { i \in 1..Len(cap.tasks) :
      /\ cap.audio # << >>
      /\ Len(cap.tasks) > 1 => /\ Splittable(cap)
                               /\ cap.tasks[i].words > 0
                               /\ TaskAudio(cap, i) # << >> }

(* A lone task keeps all the audio, and its timestamps as they came. *)
ResponseAudio(cap, i) ==
  IF Len(cap.tasks) > 1 THEN TaskAudio(cap, i) ELSE cap.audio
ResponseStamps(cap, i) ==
  IF Len(cap.tasks) > 1 THEN Normalized(cap, i) ELSE cap.stamps
==============================================================================
