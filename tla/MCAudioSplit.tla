----------------------------- MODULE MCAudioSplit -----------------------------
(***************************************************************************)
(* Evaluates AudioSplit on every small multi-task capture and compares it  *)
(* with a sample-by-sample definition of whom a sample belongs to.         *)
(***************************************************************************)
EXTENDS AudioSplit, SequencesExt

CONSTANTS
  MaxTasks,    \* tasks in a capture, at least two
  MaxWords,    \* words in a task
  MaxStamps,   \* timestamps in a capture
  MaxSamples   \* samples of audio

ASSUME SizeAssumption ==
  MaxTasks \in Nat /\ MaxWords \in Nat /\ MaxStamps \in Nat /\ MaxSamples \in Nat

VARIABLES
  cap,       \* the capture handed to _finalize_context
  finalized, \* _finalize_context returned
  written    \* the responses written for it, by index of their task
vars == << cap, finalized, written >>

(* Each task begins after the words of the one before it. *)
Numbered(words, first) ==
  \A i \in DOMAIN words : first[i] = IF i = 1 THEN 0 ELSE first[i-1] + words[i-1]

(* Times reach one tick past the end of the longest audio; the words need  *)
(* not add up to the number of timestamps.                                 *)
Init ==
  /\ finalized = FALSE
  /\ written = << >>
  /\ \E len \in 0..MaxSamples, n \in 0..MaxStamps, count \in 2..MaxTasks :
     \E words \in [1..count -> 0..MaxWords],
        first \in [1..count -> 0..MaxTasks * MaxWords] :
       /\ Numbered(words, first)
       /\ \E times \in [1..n -> 0..(MaxSamples * TicksPerSample + 1)] :
            cap = [tasks  |-> [i \in 1..count |->
                                 [text |-> i, words |-> words[i], first |-> first[i]]],
                   audio  |-> [p \in 1..len |-> p],
                   stamps |-> [i \in 1..n |-> [unit |-> i, time |-> times[i]]]]

Next ==
  /\ finalized' = TRUE
  /\ written' = [i \in StoredTasks(cap) |->
                   [audio |-> ResponseAudio(cap, i), stamps |-> ResponseStamps(cap, i)]]
  /\ UNCHANGED cap

Spec == Init /\ [][Next]_vars

-------------------------------------------------------------------------------
(* Reference: the task each timestamped word was spoken for, in order. *)
TaskOfWord ==
  FlattenSeq([i \in DOMAIN cap.tasks |-> [j \in 1..cap.tasks[i].words |-> i]])

WordsOf(i) == { j \in DOMAIN cap.stamps : TaskOfWord[j] = i }

(* The last word that has begun when sample p plays, 0 before the first. *)
WordAt(p) ==
  Max({0} \cup { j \in DOMAIN cap.stamps :
                   cap.stamps[j].time < p * TicksPerSample })

(* The words spoken in sample p or in one beside it. *)
WordsNear(p) == { j \in WordAt(p-1)..WordAt(p+1) : j > 0 }

(* The first word has begun when sample p begins. *)
SpeechBegun(p) == cap.stamps[1].time <= (p-1) * TicksPerSample

(* The responses that hold sample p. *)
Holders(p) ==
  { i \in DOMAIN written : \E x \in DOMAIN written[i].audio : written[i].audio[x] = p }

Ascending(s) == \A x, y \in DOMAIN s : x < y => s[x] < s[y]

(* s is the elements of S, in order. *)
Lists(s, S) ==
  /\ { s[x] : x \in DOMAIN s } = S
  /\ Ascending(s)

(***************************************************************************)
(* No sample of a multi-task capture is cached under two texts, and none   *)
(* under a text that has no word in it or in a sample beside it: rounding  *)
(* may move the sample at the border of two texts and no other.  Every     *)
(* sample from the first word on is cached, except that rounding may drop  *)
(* the last of the audio.  A response is never empty or out of order, and  *)
(* a batch that fails a guard has none (_store_split_tasks).               *)
(***************************************************************************)
MatchesReference ==
  /\ \A i \in DOMAIN written :
       Splittable(cap) /\ written[i].audio # << >> /\ Ascending(written[i].audio)
  /\ finalized /\ Splittable(cap) =>
       \A p \in DOMAIN cap.audio :
         /\ \A i, k \in Holders(p) : i = k
         /\ Holders(p) \subseteq { TaskOfWord[j] : j \in WordsNear(p) }
         /\ SpeechBegun(p) /\ p < Len(cap.audio) => Holders(p) # {}

(***************************************************************************)
(* The timestamps of a response are those of its own words, counted from   *)
(* the first of them: they start at 0, keep the distances the provider     *)
(* measured, and none is dropped (_store_split_tasks).                     *)
(***************************************************************************)
StampsFollowTheirTask ==
  \A i \in DOMAIN written :
    LET stamps == written[i].stamps
    IN  /\ Lists([j \in DOMAIN stamps |-> stamps[j].unit], WordsOf(i))
        /\ \A j \in DOMAIN stamps :
             stamps[j].time = cap.stamps[stamps[j].unit].time
                                - cap.stamps[stamps[1].unit].time
==============================================================================
