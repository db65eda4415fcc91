--------------------------- MODULE AudioSplit_proofs ---------------------------
(***************************************************************************)
(* That splitting a capture agrees with the sample-by-sample reference of  *)
(* MCAudioSplit, for captures of any size, any number of words of a task,  *)
(* any times and any sample rate.                                          *)
(***************************************************************************)
EXTENDS MCAudioSplit, SequenceLemmas

(* The word behind the last of task i. *)
EndOf(i) == cap.tasks[i].first + cap.tasks[i].words

(* A capture of several tasks, each numbered from where the one before it  *)
(* ends, whose samples and timestamps are named by their positions.        *)
TasksOk ==
  /\ cap.tasks \in Seq([text : Nat, words : Nat, first : Nat])
  /\ Len(cap.tasks) > 1
  /\ cap.tasks[1].first = 0
  /\ \A i \in 1..Len(cap.tasks)-1 : cap.tasks[i+1].first = EndOf(i)

AudioOk ==
  /\ cap.audio \in Seq(Nat)
  /\ \A p \in 1..Len(cap.audio) : cap.audio[p] = p

StampsOk ==
  /\ cap.stamps \in Seq([unit : Nat, time : Nat])
  /\ \A i \in 1..Len(cap.stamps) : cap.stamps[i].unit = i

CaptureOk == TasksOk /\ AudioOk /\ StampsOk

Responses ==
  [i \in StoredTasks(cap) |->
     [audio |-> ResponseAudio(cap, i), stamps |-> ResponseStamps(cap, i)]]

(* Nothing is written yet, or everything is. *)
SplitInv == CaptureOk /\ written = IF finalized THEN Responses ELSE << >>

-------------------------------------------------------------------------------
(* The inductive invariant                                                 *)

(* The captures of Init are numbered and named as said. *)
LEMMA SplitInit == Init => SplitInv
<1> SUFFICES ASSUME Init PROVE SplitInv
  OBVIOUS
<1>1. PICK len \in 0..MaxSamples, n \in 0..MaxStamps, count \in 2..MaxTasks :
        \E words \in [1..count -> 0..MaxWords],
           first \in [1..count -> 0..MaxTasks * MaxWords] :
          /\ Numbered(words, first)
          /\ \E times \in [1..n -> 0..(MaxSamples * TicksPerSample + 1)] :
               cap = [tasks  |-> [i \in 1..count |->
                                    [text |-> i, words |-> words[i], first |-> first[i]]],
                      audio  |-> [p \in 1..len |-> p],
                      stamps |-> [i \in 1..n |-> [unit |-> i, time |-> times[i]]]]
  BY DEF Init
<1>2. PICK words \in [1..count -> 0..MaxWords],
           first \in [1..count -> 0..MaxTasks * MaxWords] :
          /\ Numbered(words, first)
          /\ \E times \in [1..n -> 0..(MaxSamples * TicksPerSample + 1)] :
               cap = [tasks  |-> [i \in 1..count |->
                                    [text |-> i, words |-> words[i], first |-> first[i]]],
                      audio  |-> [p \in 1..len |-> p],
                      stamps |-> [i \in 1..n |-> [unit |-> i, time |-> times[i]]]]
  BY <1>1
<1>3. PICK times \in [1..n -> 0..(MaxSamples * TicksPerSample + 1)] :
        cap = [tasks  |-> [i \in 1..count |->
                             [text |-> i, words |-> words[i], first |-> first[i]]],
               audio  |-> [p \in 1..len |-> p],
               stamps |-> [i \in 1..n |-> [unit |-> i, time |-> times[i]]]]
  BY <1>2
<1>4. /\ cap.tasks = [i \in 1..count |->
                        [text |-> i, words |-> words[i], first |-> first[i]]]
      /\ cap.audio = [p \in 1..len |-> p]
      /\ cap.stamps = [i \in 1..n |-> [unit |-> i, time |-> times[i]]]
  BY <1>3
<1>5. count \in Nat /\ count > 1 /\ len \in Nat /\ n \in Nat
  OBVIOUS
<1>6. TasksOk
  <2>1. \A i \in 1..count : words[i] \in Nat /\ first[i] \in Nat
    <3>1. \A i \in 1..count : words[i] \in 0..MaxWords
      OBVIOUS
    <3>2. \A i \in 1..count : first[i] \in 0..MaxTasks * MaxWords
      OBVIOUS
    <3> QED
      BY <3>1, <3>2, SizeAssumption
  <2>2. /\ cap.tasks \in Seq([text : Nat, words : Nat, first : Nat])
        /\ Len(cap.tasks) = count
        /\ \A i \in 1..count :
             cap.tasks[i].first = first[i] /\ cap.tasks[i].words = words[i]
    BY <1>4, <1>5, <2>1
  <2>3. \A i \in 1..count : first[i] = IF i = 1 THEN 0 ELSE first[i-1] + words[i-1]
    BY <1>2 DEF Numbered
  <2>4. cap.tasks[1].first = 0
    <3>1. 1 \in 1..count
      BY <1>5
    <3>2. first[1] = 0
      BY <2>3, <3>1
    <3> QED
      BY <2>2, <3>1, <3>2
  <2>5. ASSUME NEW i \in 1..count-1 PROVE cap.tasks[i+1].first = EndOf(i)
    <3>1. i + 1 \in 1..count /\ i \in 1..count /\ i + 1 # 1 /\ (i + 1) - 1 = i
      BY <1>5
    <3>2. first[i+1] = first[i] + words[i]
      BY <2>3, <3>1
    <3> QED
      BY <2>2, <3>1, <3>2 DEF EndOf
  <2> QED
    BY <1>5, <2>2, <2>4, <2>5 DEF TasksOk
<1>7. AudioOk
  BY <1>4, <1>5 DEF AudioOk
<1>8. StampsOk
  <2>1. \A i \in 1..n : times[i] \in Nat
    <3>1. MaxSamples * TicksPerSample + 1 \in Nat
      <4>1. ASSUME NEW a \in Nat, NEW b \in Nat PROVE a * b \in Nat
        BY ONLY a \in Nat, b \in Nat, SMT
      <4> DEFINE ticks == MaxSamples * TicksPerSample
      <4>2. MaxSamples \in Nat /\ TicksPerSample \in Nat
        BY TicksAssumption, SizeAssumption
      <4>3. ticks \in Nat
        BY <4>1, <4>2
      <4> HIDE DEF ticks
      <4>4. ticks + 1 \in Nat
        BY <4>3
      <4> QED
        BY <4>4 DEF ticks
    <3> QED
      BY <3>1
  <2> QED
    BY <1>4, <1>5, <2>1 DEF StampsOk
<1> QED
  BY <1>6, <1>7, <1>8 DEF Init, SplitInv, CaptureOk

(* A capture is not changed, and its responses are written together. *)
LEMMA SplitStep == SplitInv /\ [Next]_vars => SplitInv'
<1> SUFFICES ASSUME SplitInv, [Next]_vars PROVE SplitInv'
  OBVIOUS
<1>1. cap' = cap
  BY DEF Next, vars
<1>2. CaptureOk'
  BY <1>1 DEF SplitInv, CaptureOk, TasksOk, AudioOk, StampsOk, EndOf
<1>3. Responses' = Responses
  BY <1>1 DEF Responses
<1>4. CASE Next
  <2>1. finalized' /\ written' = Responses
    BY <1>4 DEF Next, Responses
  <2> QED
    BY <1>2, <1>3, <2>1 DEF SplitInv
<1>5. CASE UNCHANGED vars
  <2>1. finalized' = finalized /\ written' = written
    BY <1>5 DEF vars
  <2> QED
    BY <1>2, <1>3, <2>1 DEF SplitInv
<1> QED
  BY <1>4, <1>5

(* The invariant holds of every behaviour. *)
LEMMA SplitCorrect == Spec => []SplitInv
BY SplitInit, SplitStep, PTL DEF Spec

-------------------------------------------------------------------------------
(* Whose a word is                                                         *)

(* What a task holds. *)
LEMMA TasksTyped ==
  ASSUME TasksOk
  PROVE  /\ Len(cap.tasks) \in Nat /\ DOMAIN cap.tasks = 1..Len(cap.tasks)
         /\ Len(cap.tasks) # 0 /\ cap.tasks # << >>
         /\ \A i \in 1..Len(cap.tasks) :
              /\ cap.tasks[i].first \in Nat /\ cap.tasks[i].words \in Nat
              /\ EndOf(i) = cap.tasks[i].first + cap.tasks[i].words
              /\ EndOf(i) \in Nat
<1> DEFINE T == cap.tasks
           R == [text : Nat, words : Nat, first : Nat]
<1>1. T \in Seq(R) /\ Len(T) > 1
  BY DEF TasksOk
<1> HIDE DEF T, R
<1>2. Len(T) \in Nat /\ DOMAIN T = 1..Len(T) /\ Len(T) # 0 /\ T # << >>
  BY <1>1
<1>3. \A i \in 1..Len(T) : T[i] \in R
  BY <1>1
<1>4. \A i \in 1..Len(T) : T[i].first \in Nat /\ T[i].words \in Nat
  BY <1>3 DEF R
<1> QED
  BY <1>2, <1>4 DEF EndOf, T

(* The words of the tasks follow one another. *)
LEMMA EndsGrow ==
  ASSUME TasksOk
  PROVE  \A k \in 1..Len(cap.tasks) : \A i \in 1..k :
           /\ EndOf(i) \in Nat /\ cap.tasks[i].first \in Nat /\ cap.tasks[i].words \in Nat
           /\ EndOf(i) = cap.tasks[i].first + cap.tasks[i].words
           /\ EndOf(i) <= EndOf(k)
           /\ i < k => EndOf(i) <= cap.tasks[k].first
<1> DEFINE n == Len(cap.tasks)
           P == { k \in 0..n : \A i \in 1..k :
                    EndOf(i) <= EndOf(k) /\ (i < k => EndOf(i) <= cap.tasks[k].first) }
<1>1. n \in Nat
      /\ \A i \in 1..n : /\ cap.tasks[i].first \in Nat /\ cap.tasks[i].words \in Nat
                         /\ EndOf(i) = cap.tasks[i].first + cap.tasks[i].words
                         /\ EndOf(i) \in Nat
  BY TasksTyped
<1>2. 0 \in P
  BY <1>1
<1>3. ASSUME NEW k \in 0..n-1, k \in P PROVE k + 1 \in P
  <2>1. k + 1 \in 0..n /\ k + 1 \in 1..n
    BY <1>1
  <2>2. ASSUME NEW i \in 1..k+1
        PROVE  EndOf(i) <= EndOf(k+1) /\ (i < k+1 => EndOf(i) <= cap.tasks[k+1].first)
    <3>1. CASE i = k + 1
      BY <1>1, <2>1, <3>1
    <3>2. CASE i <= k
      <4>1. i \in 1..k /\ i \in 1..n /\ k \in 1..n-1 /\ k \in 1..n
        BY <1>1, <3>2
      <4>2. EndOf(i) <= EndOf(k)
        BY <1>3, <4>1
      <4>3. cap.tasks[k+1].first = EndOf(k)
        BY <4>1 DEF TasksOk
      <4>4. EndOf(k+1) >= cap.tasks[k+1].first
        BY <1>1, <2>1
      <4>5. EndOf(i) \in Nat /\ EndOf(k) \in Nat /\ EndOf(k+1) \in Nat
        BY <1>1, <2>1, <4>1
      <4> QED
        BY <4>2, <4>3, <4>4, <4>5
    <3> QED
      BY <3>1, <3>2
  <2> QED
    BY <2>1, <2>2
<1>4. \A k \in 0..n : k \in P
  <2> HIDE DEF P
  <2> QED
    BY <1>1, <1>2, <1>3, InductionUpTo
<1>5. \A k \in 1..n : \A i \in 1..k :
        EndOf(i) <= EndOf(k) /\ (i < k => EndOf(i) <= cap.tasks[k].first)
  <2> SUFFICES ASSUME NEW k \in 1..n
               PROVE \A i \in 1..k :
                       EndOf(i) <= EndOf(k) /\ (i < k => EndOf(i) <= cap.tasks[k].first)
    OBVIOUS
  <2>1. k \in P
    BY <1>1, <1>4
  <2> QED
    BY <2>1
<1> QED
  BY <1>1, <1>5

(* The words of task i are those behind its first and up to its end. *)
Mine(i) == cap.tasks[i].first + 1 .. EndOf(i)

(* w names the tasks of the words of the first k tasks. *)
NamesTasks(w, k) ==
  /\ Len(w) = IF k = 0 THEN 0 ELSE EndOf(k)
  /\ \A j \in 1..Len(w) : w[j] \in 1..k /\ j \in Mine(w[j])

(* Naming one task more. *)
LEMMA NamesOneMore ==
  ASSUME TasksOk, NEW k \in 0..Len(cap.tasks)-1, NEW w \in Seq(Nat), NamesTasks(w, k),
         NEW v \in Seq(Nat), Len(v) = cap.tasks[k+1].words,
         \A j \in 1..Len(v) : v[j] = k + 1
  PROVE  NamesTasks(w \o v, k + 1)
<1> DEFINE n == Len(cap.tasks)
           wv == w \o v
<1>1. n \in Nat /\ k + 1 \in 1..n /\ k + 1 # 0
  BY TasksTyped
<1>2. /\ cap.tasks[k+1].first \in Nat /\ cap.tasks[k+1].words \in Nat
      /\ EndOf(k+1) = cap.tasks[k+1].first + cap.tasks[k+1].words
  BY <1>1, TasksTyped
<1>3. Len(w) = cap.tasks[k+1].first
  <2>1. CASE k = 0
    BY <2>1 DEF TasksOk, NamesTasks
  <2>2. CASE k # 0
    <3>1. k \in 1..n-1
      BY <1>1, <2>2
    <3> QED
      BY <2>2, <3>1 DEF TasksOk, NamesTasks
  <2> QED
    BY <2>1, <2>2
<1>4. /\ wv \in Seq(Nat) /\ Len(wv) = Len(w) + Len(v)
      /\ \A j \in 1..Len(w) : wv[j] = w[j]
      /\ \A j \in Len(w)+1..Len(w)+Len(v) : wv[j] = v[j - Len(w)]
  BY ONLY w \in Seq(Nat), v \in Seq(Nat)
<1> HIDE DEF wv
<1>5. Len(wv) = EndOf(k+1)
  BY <1>2, <1>3, <1>4
<1>6. ASSUME NEW j \in 1..Len(wv) PROVE wv[j] \in 1..k+1 /\ j \in Mine(wv[j])
  <2>1. CASE j <= Len(w)
    <3>1. j \in 1..Len(w)
      BY <2>1
    <3>2. w[j] \in 1..k /\ j \in Mine(w[j])
      BY <3>1 DEF NamesTasks
    <3>3. w[j] \in 1..k+1
      BY <3>2
    <3> QED
      BY <1>4, <3>1, <3>2, <3>3
  <2>2. CASE j > Len(w)
    <3>0. Len(w) \in Nat /\ Len(v) \in Nat
      OBVIOUS
    <3>1. j \in Len(w)+1..Len(w)+Len(v) /\ j - Len(w) \in 1..Len(v)
      <4> DEFINE a == Len(w)
                 b == Len(v)
      <4>1. a \in Nat /\ b \in Nat /\ j \in 1..a+b /\ j > a
        BY <1>4, <2>2, <3>0
      <4> HIDE DEF a, b
      <4>2. j \in a+1..a+b /\ j - a \in 1..b
        BY <4>1
      <4> QED
        BY <4>2 DEF a, b
    <3>2. wv[j] = k + 1
      BY <1>4, <3>1
    <3>3. j \in cap.tasks[k+1].first + 1 .. EndOf(k+1)
      BY <1>2, <1>3, <3>1
    <3> QED
      BY <1>1, <3>2, <3>3 DEF Mine
  <2> QED
    BY <2>1, <2>2
<1> QED
  BY <1>1, <1>5, <1>6 DEF NamesTasks, wv

(* TaskOfWord names the tasks of all words. *)
LEMMA TaskOfWordNames ==
  ASSUME TasksOk
  PROVE  TaskOfWord \in Seq(Nat) /\ NamesTasks(TaskOfWord, Len(cap.tasks))
<1> DEFINE n == Len(cap.tasks)
           ss == [i \in DOMAIN cap.tasks |-> [j \in 1..cap.tasks[i].words |-> i]]
<1>1. n \in Nat /\ n # 0 /\ DOMAIN cap.tasks = 1..n
      /\ \A i \in 1..n : cap.tasks[i].words \in Nat
  BY TasksTyped
<1>2. /\ ss \in Seq(Seq(Nat)) /\ Len(ss) = n
      /\ \A i \in 1..n : /\ ss[i] \in Seq(Nat) /\ Len(ss[i]) = cap.tasks[i].words
                         /\ \A j \in 1..Len(ss[i]) : ss[i][j] = i
  <2>1. \A i \in 1..n : ss[i] = [j \in 1..cap.tasks[i].words |-> i]
    BY <1>1
  <2>2. ASSUME NEW i \in 1..n
        PROVE  /\ ss[i] \in Seq(Nat) /\ Len(ss[i]) = cap.tasks[i].words
               /\ \A j \in 1..Len(ss[i]) : ss[i][j] = i
    <3> DEFINE c == cap.tasks[i].words
    <3>1. c \in Nat /\ i \in Nat /\ ss[i] = [j \in 1..c |-> i]
      BY <1>1, <2>1
    <3> HIDE DEF c, ss
    <3> QED
      BY <3>1 DEF c
  <2>3. ss = [i \in 1..n |-> ss[i]]
    BY <1>1
  <2> DEFINE W == Seq(Nat)
  <2>4. \A i \in 1..n : ss[i] \in W
    BY <2>2
  <2> HIDE DEF ss, W
  <2>5. ss \in Seq(W) /\ Len(ss) = n
    BY <1>1, <2>3, <2>4
  <2> QED
    BY <2>2, <2>5 DEF W
<1>3. TaskOfWord = FlattenSeq(ss)
  BY DEF TaskOfWord
<1> HIDE DEF ss
<1>4. PICK f : Joins(f, ss, Nat) /\ FlattenSeq(ss) = f[Len(ss)]
  BY <1>2, FlattenJoins
<1>5. f \in [0..n -> Seq(Nat)] /\ f[0] = << >> /\ \A i \in 1..n : f[i] = f[i-1] \o ss[i]
  BY <1>2, <1>4 DEF Joins
<1> DEFINE P == { k \in 0..n : NamesTasks(f[k], k) }
<1>6. 0 \in P
  BY <1>1, <1>5 DEF NamesTasks
<1>7. ASSUME NEW k \in 0..n-1, k \in P PROVE k + 1 \in P
  <2>1. k + 1 \in 0..n /\ k + 1 \in 1..n /\ (k + 1) - 1 = k /\ k \in 0..n
    BY <1>1
  <2>2. f[k] \in Seq(Nat) /\ NamesTasks(f[k], k)
    BY <1>5, <1>7, <2>1
  <2>3. /\ ss[k+1] \in Seq(Nat) /\ Len(ss[k+1]) = cap.tasks[k+1].words
        /\ \A j \in 1..Len(ss[k+1]) : ss[k+1][j] = k + 1
    BY <1>2, <2>1
  <2>4. NamesTasks(f[k] \o ss[k+1], k + 1)
    BY <2>2, <2>3, NamesOneMore
  <2>5. f[k+1] = f[k] \o ss[k+1]
    BY <1>5, <2>1
  <2> QED
    BY <2>1, <2>4, <2>5
<1>8. \A k \in 0..n : k \in P
  <2> HIDE DEF P
  <2> QED
    BY <1>1, <1>6, <1>7, InductionUpTo
<1>9. n \in P /\ n \in 0..n
  BY <1>1, <1>8
<1> QED
  BY <1>2, <1>3, <1>4, <1>5, <1>9

(* When the totals agree, a timestamp is a word of task i just if it lies *)
(* behind the first and up to the end of i.                                *)
Counted == TotalWords(cap.tasks) = Len(cap.stamps)

(* The list of whose word is whose says task i just for its own words.     *)
LEMMA WordOwner ==
  ASSUME TasksOk, StampsOk, Counted
  PROVE  /\ EndOf(Len(cap.tasks)) = Len(cap.stamps)
         /\ \A i \in 1..Len(cap.tasks), j \in 1..Len(cap.stamps) :
              TaskOfWord[j] = i <=> j \in Mine(i)
<1> DEFINE n == Len(cap.tasks)
           m == Len(cap.stamps)
           w == TaskOfWord
<1>1. n \in Nat /\ n # 0 /\ m \in Nat /\ cap.tasks # << >>
  BY TasksTyped DEF StampsOk
<1>2. EndOf(n) = m
  BY <1>1 DEF Counted, TotalWords, EndOf
<1>3. Len(w) = m /\ \A j \in 1..m : w[j] \in 1..n /\ j \in Mine(w[j])
  BY <1>1, <1>2, TaskOfWordNames DEF NamesTasks
<1>4. ASSUME NEW i \in 1..n, NEW j \in 1..m PROVE w[j] = i <=> j \in Mine(i)
  <2>1. w[j] \in 1..n /\ j \in Mine(w[j])
    BY <1>3
  <2>2. ASSUME j \in Mine(i), w[j] # i PROVE FALSE
    <3> DEFINE k == w[j]
    <3>0. k \in 1..n /\ j \in Mine(k) /\ k # i
      BY <2>1, <2>2
    <3> HIDE DEF k
    <3>1. /\ i < k => EndOf(i) <= cap.tasks[k].first
          /\ k < i => EndOf(k) <= cap.tasks[i].first
      <4>1. i < k => i \in 1..k
        BY <3>0
      <4>2. k < i => k \in 1..i
        BY <3>0
      <4> QED
        BY <3>0, <4>1, <4>2, EndsGrow
    <3>2. /\ EndOf(i) \in Nat /\ EndOf(k) \in Nat
          /\ cap.tasks[i].first \in Nat /\ cap.tasks[k].first \in Nat
      BY <3>0, TasksTyped
    <3>3. /\ j > cap.tasks[i].first /\ j <= EndOf(i)
          /\ j > cap.tasks[k].first /\ j <= EndOf(k)
      BY <2>2, <3>0, <3>2, SMTT(30) DEF Mine
    <3>4. i < k \/ k < i
      BY <3>0
    <3> QED
      BY <3>1, <3>2, <3>3, <3>4
  <2> QED
    BY <2>1, <2>2
<1> QED
  BY <1>2, <1>4

-------------------------------------------------------------------------------
(* Which word has begun at a sample                                        *)

(* What a timestamp holds. *)
LEMMA StampsTyped ==
  ASSUME StampsOk
  PROVE  /\ Len(cap.stamps) \in Nat /\ DOMAIN cap.stamps = 1..Len(cap.stamps)
         /\ \A j \in 1..Len(cap.stamps) :
              cap.stamps[j].time \in Nat /\ cap.stamps[j].unit = j
<1> DEFINE S == cap.stamps
           R == [unit : Nat, time : Nat]
<1>1. S \in Seq(R) /\ \A j \in 1..Len(S) : S[j].unit = j
  BY DEF StampsOk
<1> HIDE DEF S, R
<1>2. Len(S) \in Nat /\ DOMAIN S = 1..Len(S) /\ \A j \in 1..Len(S) : S[j] \in R
  BY <1>1
<1>3. \A j \in 1..Len(S) : S[j].time \in Nat
  BY <1>2 DEF R
<1> QED
  BY <1>1, <1>2, <1>3 DEF S

(* Times that never decrease from one timestamp to the next never decrease. *)
LEMMA TimesOrdered ==
  ASSUME StampsOk, Monotonic(cap.stamps)
  PROVE  \A k \in 1..Len(cap.stamps) : \A j \in 1..k :
           cap.stamps[j].time <= cap.stamps[k].time
<1> DEFINE m == Len(cap.stamps)
           time(j) == cap.stamps[j].time
           P == { k \in 0..m : \A j \in 1..k : time(j) <= time(k) }
<1>1. m \in Nat /\ \A j \in 1..m : time(j) \in Nat
  BY StampsTyped
<1>2. \A j \in 1..m-1 : time(j) <= time(j+1)
  BY DEF Monotonic
<1> HIDE DEF m, time
<1>3. 0 \in P
  BY <1>1
<1>4. ASSUME NEW k \in 0..m-1, k \in P PROVE k + 1 \in P
  <2>1. k + 1 \in 0..m /\ k + 1 \in 1..m
    BY <1>1
  <2>2. ASSUME NEW j \in 1..k+1 PROVE time(j) <= time(k+1)
    <3>1. CASE j = k + 1
      BY <1>1, <2>1, <3>1
    <3>2. CASE j <= k
      <4>1. j \in 1..k /\ k \in 1..m-1 /\ k \in 1..m /\ j \in 1..m
        BY <1>1, <3>2
      <4>2. time(j) <= time(k) /\ time(k) <= time(k+1)
        BY <1>2, <1>4, <4>1
      <4>3. time(j) \in Nat /\ time(k) \in Nat /\ time(k+1) \in Nat
        BY <1>1, <2>1, <4>1
      <4> QED
        BY <4>2, <4>3
    <3> QED
      BY <3>1, <3>2
  <2> QED
    BY <2>1, <2>2
<1>5. \A k \in 0..m : k \in P
  <2> HIDE DEF P
  <2> QED
    BY <1>1, <1>3, <1>4, InductionUpTo
<1>6. \A k \in 1..m : \A j \in 1..k : time(j) <= time(k)
  BY <1>1, <1>5
<1> QED
  BY <1>6 DEF m, time

(* The words that have begun when sample p plays. *)
Begun(p) == { j \in DOMAIN cap.stamps : cap.stamps[j].time < p * TicksPerSample }

(* A set of numbers up to m with an element has a greatest one. *)
LEMMA GreatestUpTo ==
  ASSUME NEW m \in Nat, NEW C \in SUBSET (0..m), C # {}
  PROVE  Max(C) \in C /\ \A y \in C : Max(C) >= y
<1> DEFINE D == { m - x : x \in C }
<1>1. D \in SUBSET Nat /\ D # {}
  <2>1. \A x \in C : m - x \in Nat
    OBVIOUS
  <2> QED
    BY <2>1
<1>2. PICK d \in D : \A e \in D : d <= e
  <2> HIDE DEF D
  <2> QED
    BY <1>1, LeastNatural
<1>3. PICK x \in C : d = m - x
  BY <1>2
<1>4. \A y \in C : x >= y
  <2> SUFFICES ASSUME NEW y \in C PROVE x >= y
    OBVIOUS
  <2>1. m - y \in D
    OBVIOUS
  <2>2. m - x <= m - y
    BY <1>2, <1>3, <2>1
  <2>3. x \in 0..m /\ y \in 0..m
    OBVIOUS
  <2> QED
    BY <2>2, <2>3
<1> QED
  BY <1>4 DEF Max

(* A word has begun when sample p plays just if it is not after WordAt(p). *)
LEMMA WordAtBegun ==
  ASSUME StampsOk, Monotonic(cap.stamps), NEW p \in Nat
  PROVE  /\ WordAt(p) \in 0..Len(cap.stamps)
         /\ \A j \in 1..Len(cap.stamps) :
              cap.stamps[j].time < p * TicksPerSample <=> j <= WordAt(p)
<1> DEFINE m == Len(cap.stamps)
           C == {0} \cup Begun(p)
           w == WordAt(p)
           now == p * TicksPerSample
<1>1. /\ m \in Nat /\ DOMAIN cap.stamps = 1..m
      /\ \A j \in 1..m : cap.stamps[j].time \in Nat
  BY StampsTyped
<1>2. C \in SUBSET (0..m) /\ C # {}
  BY <1>1 DEF Begun
<1>3. w = Max(C)
  BY DEF WordAt, Begun
<1>4. now \in Nat
  BY TicksAssumption
<1>5. \A j \in 1..m : j \in C <=> cap.stamps[j].time < now
  BY <1>1 DEF Begun
<1> HIDE DEF C, w, now
<1>6. w \in C /\ \A y \in C : w >= y
  BY <1>1, <1>2, <1>3, GreatestUpTo
<1>7. w \in 0..m
  BY <1>2, <1>6
<1>8. ASSUME NEW j \in 1..m PROVE cap.stamps[j].time < now <=> j <= w
  <2>1. ASSUME cap.stamps[j].time < now PROVE j <= w
    BY <1>5, <1>6, <1>7, <2>1
  <2>2. ASSUME j <= w PROVE cap.stamps[j].time < now
    <3>1. w \in 1..m /\ j \in 1..w
      BY <1>1, <1>7, <2>2
    <3>2. cap.stamps[w].time < now
      BY <1>5, <1>6, <3>1
    <3>3. cap.stamps[j].time <= cap.stamps[w].time
      BY <3>1, TimesOrdered
    <3>4. cap.stamps[j].time \in Nat /\ cap.stamps[w].time \in Nat
      BY <1>1, <3>1
    <3> QED
      BY <1>4, <3>2, <3>3, <3>4
  <2> QED
    BY <2>1, <2>2
<1> QED
  BY <1>7, <1>8 DEF w, now

(* A time is before the end of a sample just if it is in it or before it. *)
LEMMA TimeBeforeSample ==
  ASSUME NEW t \in Nat, NEW p \in Nat
  PROVE  /\ t \div TicksPerSample \in Nat
         /\ t < p * TicksPerSample <=> t \div TicksPerSample < p
<1> DEFINE d == TicksPerSample
           q == t \div d
           r == t % d
<1>1. d \in Nat /\ d > 0
  BY TicksAssumption
<1>2. q \in Nat /\ r \in Nat /\ r < d /\ t = d * q + r
  BY <1>1
<1> HIDE DEF d, q, r
<1>3. ASSUME q < p PROVE t < p * d
  <2>1. p - (q + 1) \in Nat
    BY <1>2, <1>3
  <2>2. (p - (q + 1)) * d >= 0
    BY <1>1, <2>1
  <2>3. p * d = (p - (q + 1)) * d + d * q + d
    BY <1>1, <1>2
  <2> QED
    BY <1>1, <1>2, <2>2, <2>3
<1>4. ASSUME ~(q < p) PROVE ~(t < p * d)
  <2>1. q - p \in Nat
    BY <1>2, <1>4
  <2>2. (q - p) * d >= 0
    BY <1>1, <2>1
  <2>3. d * q = (q - p) * d + p * d
    BY <1>1, <1>2
  <2> QED
    BY <1>1, <1>2, <2>2, <2>3
<1> QED
  BY <1>2, <1>3, <1>4 DEF d, q

(* A cut is at most one sample from its time, and never behind the start   *)
(* of a sample.                                                            *)
LEMMA CutNear ==
  ASSUME NEW t \in Nat
  PROVE  /\ SampleAt(t) \in Nat
         /\ \A p \in Nat \ {0} :
              /\ SampleAt(t) < p => t < (p + 1) * TicksPerSample
              /\ t < (p - 1) * TicksPerSample => SampleAt(t) < p
              /\ t <= (p - 1) * TicksPerSample => SampleAt(t) < p
<1> DEFINE d == TicksPerSample
           q == t \div d
<1>1. d \in Nat /\ d > 0 /\ t \in Int /\ q \in Nat
  BY TicksAssumption, TimeBeforeSample
<1>2. SampleAt(t) = q + (IF t \in CutLate THEN 1 ELSE 0) - (IF t \in CutEarly THEN 1 ELSE 0)
  BY DEF SampleAt
<1>3. SampleAt(t) \in Int /\ SampleAt(t) <= q + 1 /\ SampleAt(t) >= q - 1
  BY <1>1, <1>2
<1>4. SampleAt(t) >= 0
  <2>1. CASE t \in CutEarly
    <3>1. t >= d
      BY <2>1, RoundingAssumption
    <3>2. ~(q < 1)
      <4>1. 1 \in Nat /\ 1 * d = d
        BY <1>1
      <4>2. t < 1 * d <=> q < 1
        BY <4>1, TimeBeforeSample
      <4> QED
        BY <1>1, <3>1, <4>1, <4>2
    <3> QED
      BY <1>1, <1>3, <3>2
  <2>2. CASE t \notin CutEarly
    BY <1>1, <1>2, <2>2
  <2> QED
    BY <2>1, <2>2
<1>5. ASSUME NEW p \in Nat \ {0}
      PROVE  /\ SampleAt(t) < p => t < (p + 1) * d
             /\ t < (p - 1) * d => SampleAt(t) < p
             /\ t <= (p - 1) * d => SampleAt(t) < p
  <2>1. p - 1 \in Nat /\ p + 1 \in Nat /\ p \in Nat
    OBVIOUS
  <2>2. /\ t < (p + 1) * d <=> q < p + 1
        /\ t < (p - 1) * d <=> q < p - 1
        /\ t < p * d <=> q < p
    BY <2>1, TimeBeforeSample
  <2>3. ASSUME t = (p - 1) * d PROVE SampleAt(t) < p
    <3>1. t % d = 0
      <4> DEFINE k == p - 1
      <4>1. k \in Nat /\ t = k * d
        BY <2>1, <2>3
      <4> HIDE DEF k, d
      <4>2. k * d = d * k /\ (d * k) % d = 0
        BY <1>1, <4>1
      <4> QED
        BY <4>1, <4>2
    <3>2. t \notin CutLate
      BY <3>1, RoundingAssumption
    <3>3. SampleAt(t) <= q
      BY <1>1, <1>2, <3>2
    <3>4. q < p
      <4>1. p * d = (p - 1) * d + d
        BY <1>1, <2>1
      <4>2. (p - 1) * d \in Nat
        BY <1>1, <2>1
      <4> QED
        BY <1>1, <2>2, <2>3, <4>1, <4>2
    <3> QED
      BY <1>1, <1>3, <2>1, <3>3, <3>4
  <2>4. (p - 1) * d \in Int
    BY <1>1, <2>1
  <2> HIDE DEF d, q
  <2>5. t < (p - 1) * d => SampleAt(t) < p
    BY <1>1, <1>3, <2>1, <2>2
  <2>6. SampleAt(t) < p => t < (p + 1) * d
    BY <1>1, <1>3, <2>1, <2>2
  <2> QED
    BY <1>1, <2>3, <2>4, <2>5, <2>6
<1> QED
  BY <1>3, <1>4, <1>5

(* A later time is never cut before an earlier one. *)
LEMMA CutsOrdered ==
  ASSUME NEW t \in Nat, NEW u \in Nat, t <= u
  PROVE  SampleAt(t) <= SampleAt(u)
<1> DEFINE P == { k \in 0..u - t : SampleAt(t) <= SampleAt(t + k) }
<1>1. u - t \in Nat /\ t + 0 = t /\ t + (u - t) = u
  OBVIOUS
<1>2. \A k \in Nat : SampleAt(t + k) \in Nat
  BY CutNear
<1>3. 0 \in P
  BY <1>1, CutNear
<1>4. ASSUME NEW k \in 0..(u - t)-1, k \in P PROVE k + 1 \in P
  <2> DEFINE v == t + k
  <2>1. v \in Nat /\ k + 1 \in 0..u - t /\ t + (k + 1) = v + 1 /\ (v + 1) - 1 = v
    BY <1>1
  <2> HIDE DEF v
  <2>2. SampleAt(v) <= SampleAt(v + 1)
    <3>1. CASE v \in CutLate
      BY <3>1, RoundingAssumption
    <3>2. CASE v + 1 \in CutEarly
      BY <2>1, <3>2, RoundingAssumption
    <3>3. CASE v \notin CutLate /\ v + 1 \notin CutEarly
      <4> DEFINE d == TicksPerSample
                 q == v \div d
                 r == (v + 1) \div d
      <4>1. q \in Nat /\ r \in Nat
        BY <2>1, TimeBeforeSample
      <4>2. q <= r
        <5>1. r + 1 \in Nat
          BY <4>1
        <5>2. /\ v + 1 < (r + 1) * d <=> r < r + 1
              /\ v < (r + 1) * d <=> q < r + 1
          BY <2>1, <5>1, TimeBeforeSample
        <5>3. (r + 1) * d \in Int
          BY <5>1, TicksAssumption
        <5> HIDE DEF d, q, r
        <5>4. v < (r + 1) * d
          BY <2>1, <4>1, <5>2, <5>3
        <5> QED
          BY <4>1, <5>2, <5>4
      <4>3. SampleAt(v) = q + 0 - (IF v \in CutEarly THEN 1 ELSE 0)
        BY <3>3 DEF SampleAt
      <4>4. SampleAt(v + 1) = r + (IF v + 1 \in CutLate THEN 1 ELSE 0) - 0
        BY <3>3 DEF SampleAt
      <4> HIDE DEF d, q, r
      <4> QED
        BY <4>1, <4>2, <4>3, <4>4
    <3> QED
      BY <3>1, <3>2, <3>3
  <2>3. SampleAt(v) \in Nat /\ SampleAt(v + 1) \in Nat /\ SampleAt(t) \in Nat
    BY <2>1, CutNear
  <2>4. SampleAt(t) <= SampleAt(v)
    BY <1>4 DEF v
  <2> QED
    BY <2>1, <2>2, <2>3, <2>4
<1>5. u - t \in P
  <2>1. \A k \in 0..u - t : k \in P
    <3> HIDE DEF P
    <3> QED
      BY <1>1, <1>3, <1>4, InductionUpTo
  <2> QED
    BY <1>1, <2>1
<1> QED
  BY <1>1, <1>5

(* The last word whose cut is before sample p, 0 before the first. *)
CutWord(p) ==
  Max({0} \cup { j \in DOMAIN cap.stamps : SampleAt(cap.stamps[j].time) < p })

(* A word is cut before sample p just if it is not after CutWord(p). *)
LEMMA CutWordAt ==
  ASSUME StampsOk, Monotonic(cap.stamps), NEW p \in Nat
  PROVE  /\ CutWord(p) \in 0..Len(cap.stamps)
         /\ \A j \in 1..Len(cap.stamps) :
              SampleAt(cap.stamps[j].time) < p <=> j <= CutWord(p)
<1> DEFINE m == Len(cap.stamps)
           cut(j) == SampleAt(cap.stamps[j].time)
           C == {0} \cup { j \in DOMAIN cap.stamps : cut(j) < p }
           w == CutWord(p)
<1>1. /\ m \in Nat /\ DOMAIN cap.stamps = 1..m
      /\ \A j \in 1..m : cap.stamps[j].time \in Nat
  BY StampsTyped
<1>2. \A j \in 1..m : cut(j) \in Nat
  BY <1>1, CutNear
<1>3. \A k \in 1..m : \A j \in 1..k : cut(j) <= cut(k)
  <2> SUFFICES ASSUME NEW k \in 1..m, NEW j \in 1..k PROVE cut(j) <= cut(k)
    OBVIOUS
  <2>1. j \in 1..m /\ k \in 1..m
    BY <1>1
  <2>2. cap.stamps[j].time <= cap.stamps[k].time
    BY TimesOrdered
  <2> QED
    BY <1>1, <2>1, <2>2, CutsOrdered
<1>4. C \in SUBSET (0..m) /\ C # {} /\ w = Max(C)
  BY <1>1 DEF CutWord
<1>5. \A j \in 1..m : j \in C <=> cut(j) < p
  BY <1>1
<1> HIDE DEF C, w, cut, m
<1>6. w \in C /\ \A y \in C : w >= y
  BY <1>1, <1>4, GreatestUpTo
<1>7. w \in 0..m
  BY <1>4, <1>6
<1>8. ASSUME NEW j \in 1..m PROVE cut(j) < p <=> j <= w
  <2>1. ASSUME cut(j) < p PROVE j <= w
    BY <1>5, <1>6, <1>7, <2>1
  <2>2. ASSUME j <= w PROVE cut(j) < p
    <3>1. w \in 1..m /\ j \in 1..w
      BY <1>1, <1>7, <2>2
    <3>2. cut(w) < p /\ cut(j) <= cut(w)
      BY <1>3, <1>5, <1>6, <3>1
    <3> QED
      BY <1>2, <3>1, <3>2
  <2> QED
    BY <2>1, <2>2
<1> QED
  BY <1>7, <1>8 DEF w, m, cut

(* The word cut at a sample is spoken in it or in one beside it. *)
LEMMA CutWordNear ==
  ASSUME StampsOk, Monotonic(cap.stamps), NEW p \in Nat \ {0}
  PROVE  CutWord(p) \in WordAt(p-1)..WordAt(p+1)
<1> DEFINE m == Len(cap.stamps)
           w == CutWord(p)
           a == WordAt(p-1)
           b == WordAt(p+1)
           time(j) == cap.stamps[j].time
<1>1. m \in Nat /\ \A j \in 1..m : time(j) \in Nat
  BY StampsTyped
<1>2. p \in Nat /\ p - 1 \in Nat /\ p + 1 \in Nat
  OBVIOUS
<1>3. w \in 0..m /\ \A j \in 1..m : SampleAt(time(j)) < p <=> j <= w
  BY <1>2, CutWordAt
<1>4. a \in 0..m /\ \A j \in 1..m : time(j) < (p-1) * TicksPerSample <=> j <= a
  BY <1>2, WordAtBegun
<1>5. b \in 0..m /\ \A j \in 1..m : time(j) < (p+1) * TicksPerSample <=> j <= b
  BY <1>2, WordAtBegun
<1>6. \A j \in 1..m : /\ SampleAt(time(j)) < p => time(j) < (p+1) * TicksPerSample
                      /\ time(j) < (p-1) * TicksPerSample => SampleAt(time(j)) < p
  BY <1>1, CutNear
<1> HIDE DEF m, w, a, b, time
<1>7. a <= w
  <2>1. CASE a = 0
    BY <1>3, <2>1
  <2>2. CASE a \in 1..m
    <3>1. SampleAt(time(a)) < p
      BY <1>4, <1>6, <2>2
    <3> QED
      BY <1>3, <2>2, <3>1
  <2> QED
    BY <1>1, <1>4, <2>1, <2>2
<1>8. w <= b
  <2>1. CASE w = 0
    BY <1>5, <2>1
  <2>2. CASE w \in 1..m
    <3>1. time(w) < (p+1) * TicksPerSample
      BY <1>3, <1>6, <2>2
    <3> QED
      BY <1>5, <2>2, <3>1
  <2> QED
    BY <1>1, <1>3, <2>1, <2>2
<1> QED
  BY <1>1, <1>3, <1>4, <1>5, <1>7, <1>8 DEF w, a, b

-------------------------------------------------------------------------------
(* The share of a task                                                     *)

(* What an audio holds. *)
LEMMA AudioTyped ==
  ASSUME AudioOk
  PROVE  /\ Len(cap.audio) \in Nat /\ DOMAIN cap.audio = 1..Len(cap.audio)
         /\ \A p \in 1..Len(cap.audio) : cap.audio[p] = p
  BY DEF AudioOk

(* The samples a slice from start to end is to hold. *)
Between(start, end) ==
  { p \in DOMAIN cap.audio : SampleAt(start) < p /\ p <= SampleAt(end) }

(* A slice lists the samples between its times. *)
LEMMA SliceLists ==
  ASSUME AudioOk, NEW start \in Nat, NEW end \in Nat
  PROVE  /\ Lists(Slice(cap.audio, start, end), Between(start, end))
         /\ Slice(cap.audio, start, end) # << >> <=> Between(start, end) # {}
<1> DEFINE m == Len(cap.audio)
           a == SampleAt(start)
           b == SampleAt(end)
           from == IF a > 0 THEN a ELSE 0
           to == IF b < m THEN b ELSE m
           len == IF from < to THEN to - from ELSE 0
           s == Slice(cap.audio, start, end)
<1>1. a \in Nat /\ b \in Nat /\ m \in Nat /\ DOMAIN cap.audio = 1..m
  BY CutNear, AudioTyped
<1>2. s = [p \in 1..len |-> cap.audio[from + p]]
  BY DEF Slice
<1>3. Between(start, end) = { p \in 1..m : a < p /\ p <= b }
  BY <1>1 DEF Between
<1> HIDE DEF a, b, m, s
<1>4. from = a /\ to \in Nat /\ len \in Nat
  BY <1>1
<1>5. \A p \in 1..len : a + p \in 1..m /\ a + p <= b
  BY <1>1
<1>6. \A q \in 1..m : a < q /\ q <= b => q - a \in 1..len
  BY <1>1
<1> HIDE DEF from, to, len
<1>7. DOMAIN s = 1..len /\ \A p \in 1..len : s[p] = a + p
  <2>1. \A p \in 1..len : cap.audio[a + p] = a + p
    BY <1>5, AudioTyped DEF m
  <2> QED
    BY <1>2, <1>4, <2>1
<1>8. { s[x] : x \in DOMAIN s } = Between(start, end)
  <2>1. ASSUME NEW p \in 1..len PROVE s[p] \in Between(start, end)
    <3>1. a + p \in 1..m /\ a + p <= b
      BY <1>5
    <3>2. a < a + p
      BY <1>1, <1>4
    <3> QED
      BY <1>3, <1>7, <3>1, <3>2
  <2>2. ASSUME NEW q \in Between(start, end) PROVE \E p \in 1..len : s[p] = q
    <3>1. q \in 1..m /\ a < q /\ q <= b
      BY <1>3
    <3>2. q - a \in 1..len
      BY <1>6, <3>1
    <3>3. a + (q - a) = q
      BY <1>1, <3>1
    <3> QED
      BY <1>7, <3>2, <3>3
  <2> QED
    BY <1>7, <2>1, <2>2
<1>9. \A x, y \in DOMAIN s : x < y => s[x] < s[y]
  BY <1>1, <1>4, <1>7
<1>10. s # << >> <=> len # 0
  <2>1. ASSUME len = 0 PROVE s = << >>
    BY <1>2, <2>1
  <2>2. ASSUME len # 0 PROVE s # << >>
    <3>1. 1 \in DOMAIN s
      BY <1>4, <1>7, <2>2
    <3> QED
      BY <3>1
  <2> QED
    BY <2>1, <2>2
<1>11. len # 0 <=> Between(start, end) # {}
  <2>1. len # 0 <=> \E p \in 1..len : TRUE
    <3>1. len # 0 => 1 \in 1..len
      BY <1>4
    <3> QED
      BY <1>4, <3>1
  <2> QED
    BY <1>7, <1>8, <2>1
<1> QED
  BY <1>8, <1>9, <1>10, <1>11 DEF Lists, Ascending, s

(* The times a slice is cut at. *)
LEMMA SliceTimes ==
  ASSUME TasksOk, StampsOk, AudioOk, Counted,
         NEW i \in 1..Len(cap.tasks), cap.tasks[i].words > 0
  PROVE  /\ cap.tasks[i].first + 1 \in 1..Len(cap.stamps)
         /\ EndOf(i) \in 1..Len(cap.stamps)
         /\ StartTime(cap, i) = cap.stamps[cap.tasks[i].first + 1].time
         /\ EndTime(cap, i) = IF EndOf(i) < Len(cap.stamps)
                              THEN cap.stamps[EndOf(i) + 1].time ELSE Duration(cap.audio)
         /\ StartTime(cap, i) \in Nat /\ EndTime(cap, i) \in Nat
<1> DEFINE n == Len(cap.tasks)
           m == Len(cap.stamps)
           e == EndOf(i)
           f == cap.tasks[i].first
           c == cap.tasks[i].words
<1>1. /\ n \in Nat /\ n \in 1..n /\ m \in Nat /\ f \in Nat /\ c \in Nat /\ e \in Nat
      /\ e = f + c /\ c > 0
  BY TasksTyped, StampsTyped
<1>2. e <= m
  <2>1. EndOf(n) = m
    BY WordOwner
  <2>2. EndOf(i) <= EndOf(n)
    BY <1>1, EndsGrow
  <2> QED
    BY <2>1, <2>2
<1>3. Duration(cap.audio) \in Nat
  BY AudioTyped, TicksAssumption DEF Duration
<1>4. /\ StartTime(cap, i) = cap.stamps[f + 1].time
      /\ EndTime(cap, i) = IF f + c + 1 <= m THEN cap.stamps[f + c + 1].time
                                             ELSE Duration(cap.audio)
  BY DEF StartTime, EndTime
<1> HIDE DEF n, m, e, f, c
<1>5. /\ f + 1 \in 1..m /\ e \in 1..m /\ f + c + 1 = e + 1
      /\ f + c + 1 <= m <=> e < m
      /\ e < m => e + 1 \in 1..m
  BY <1>1, <1>2
<1>6. EndTime(cap, i) = IF e < m THEN cap.stamps[e + 1].time ELSE Duration(cap.audio)
  BY <1>4, <1>5
<1>7. \A j \in 1..m : cap.stamps[j].time \in Nat
  BY StampsTyped DEF m
<1>8. StartTime(cap, i) \in Nat /\ EndTime(cap, i) \in Nat
  BY <1>3, <1>4, <1>5, <1>6, <1>7
<1> QED
  BY <1>4, <1>5, <1>6, <1>8 DEF m, e, f

(* The slice of a task with words is the samples cut at one of its words,  *)
(* but for the last sample of the audio.                                   *)
LEMMA ShareOfTask ==
  ASSUME TasksOk, StampsOk, AudioOk, Counted, Monotonic(cap.stamps),
         NEW i \in 1..Len(cap.tasks), cap.tasks[i].words > 0,
         NEW p \in DOMAIN cap.audio
  PROVE  /\ p \in Between(StartTime(cap, i), EndTime(cap, i))
               => CutWord(p) > 0 /\ TaskOfWord[CutWord(p)] = i
         /\ p < Len(cap.audio) /\ CutWord(p) > 0 /\ TaskOfWord[CutWord(p)] = i
               => p \in Between(StartTime(cap, i), EndTime(cap, i))
<1> DEFINE m == Len(cap.stamps)
           e == EndOf(i)
           f == cap.tasks[i].first
           start == StartTime(cap, i)
           end == EndTime(cap, i)
           w == CutWord(p)
           l == Len(cap.audio)
<1>1. /\ m \in Nat /\ f \in Nat /\ e \in Nat /\ f + 1 \in 1..m /\ e \in 1..m
      /\ start \in Nat /\ end \in Nat
      /\ start = cap.stamps[f + 1].time
      /\ end = IF e < m THEN cap.stamps[e + 1].time ELSE Duration(cap.audio)
  BY TasksTyped, StampsTyped, SliceTimes
<1>2. p \in 1..l /\ p \in Nat /\ l \in Nat
  BY AudioTyped
<1>3. w \in 0..m /\ \A j \in 1..m : SampleAt(cap.stamps[j].time) < p <=> j <= w
  BY <1>2, CutWordAt
<1>4. \A j \in 1..m : TaskOfWord[j] = i <=> j \in f+1..e
  BY WordOwner DEF Mine
<1>5. SampleAt(start) \in Nat /\ SampleAt(end) \in Nat
  BY <1>1, CutNear
<1>6. p < l => p <= SampleAt(Duration(cap.audio))
  <2> SUFFICES ASSUME p < l, ~(p <= SampleAt(Duration(cap.audio))) PROVE FALSE
    OBVIOUS
  <2> DEFINE d == TicksPerSample
             dur == Duration(cap.audio)
  <2>1. dur = l * d /\ d \in Nat /\ d > 0
    BY TicksAssumption DEF Duration
  <2>2. dur \in Nat
    BY <1>2, <2>1
  <2>3. SampleAt(dur) \in Nat /\ SampleAt(dur) < p
    BY <1>2, <2>2, CutNear
  <2>4. p \in Nat \ {0}
    BY <1>2
  <2>5. dur < (p + 1) * d
    BY <2>2, <2>3, <2>4, CutNear
  <2> HIDE DEF dur, d, l
  <2>6. l - (p + 1) \in Nat
    BY <1>2
  <2>7. (l - (p + 1)) * d >= 0
    BY <2>1, <2>6
  <2>8. l * d = (l - (p + 1)) * d + (p + 1) * d
    BY <1>2, <2>1
  <2>9. (p + 1) * d \in Int /\ (l - (p + 1)) * d \in Int
    BY <1>2, <2>1, <2>6
  <2> QED
    BY <2>1, <2>5, <2>7, <2>8, <2>9
<1> HIDE DEF m, e, f, start, end, w, l
<1>7. (w > 0 /\ TaskOfWord[w] = i) <=> (f + 1 <= w /\ w <= e)
  BY <1>1, <1>3, <1>4
<1>8. f + 1 <= w <=> SampleAt(start) < p
  BY <1>1, <1>3
<1>9. (p <= SampleAt(end) => w <= e) /\ (p < l /\ w <= e => p <= SampleAt(end))
  <2>1. CASE e < m
    <3>1. e + 1 \in 1..m /\ end = cap.stamps[e + 1].time
      BY <1>1, <2>1
    <3>2. SampleAt(end) < p <=> e + 1 <= w
      BY <1>3, <3>1
    <3> QED
      BY <1>1, <1>2, <1>3, <1>5, <3>2
  <2>2. CASE ~(e < m)
    <3>1. e = m /\ w <= e /\ end = Duration(cap.audio)
      BY <1>1, <1>3, <2>2
    <3> QED
      BY <1>6, <3>1
  <2> QED
    BY <2>1, <2>2
<1>10. p \in Between(start, end) <=> SampleAt(start) < p /\ p <= SampleAt(end)
  BY DEF Between
<1> QED
  BY <1>7, <1>8, <1>9, <1>10 DEF start, end, w, l

-------------------------------------------------------------------------------
(* The properties                                                          *)

(* A batch that fails a guard has no responses. *)
LEMMA NothingWritten ==
  ASSUME SplitInv, ~(finalized /\ Splittable(cap))
  PROVE  DOMAIN written = {}
<1>1. CASE ~finalized
  BY <1>1 DEF SplitInv
<1>2. CASE finalized
  <2>1. written = Responses /\ Len(cap.tasks) > 1 /\ ~Splittable(cap)
    BY <1>2 DEF SplitInv, CaptureOk, TasksOk
  <2>2. StoredTasks(cap) = {}
    BY <2>1 DEF StoredTasks
  <2> QED
    BY <2>1, <2>2 DEF Responses
<1> QED
  BY <1>1, <1>2

(* What there is of the responses of any other. *)
LEMMA WrittenResponses ==
  ASSUME SplitInv, finalized, Splittable(cap)
  PROVE  /\ TasksOk /\ StampsOk /\ AudioOk /\ Counted /\ Monotonic(cap.stamps)
         /\ \A i \in 1..Len(cap.tasks) :
              i \in DOMAIN written <=>
                cap.tasks[i].words > 0 /\ TaskAudio(cap, i) # << >>
         /\ \A i \in DOMAIN written :
              /\ i \in 1..Len(cap.tasks)
              /\ written[i].audio = TaskAudio(cap, i)
              /\ written[i].stamps = Normalized(cap, i)
<1>1. TasksOk /\ StampsOk /\ AudioOk /\ written = Responses
  BY DEF SplitInv, CaptureOk
<1>2. Len(cap.tasks) > 1
  BY <1>1 DEF TasksOk
<1>5. Counted /\ Monotonic(cap.stamps)
  BY DEF Splittable, Counted
<1>6. \A i \in 1..Len(cap.tasks) :
        i \in StoredTasks(cap) <=>
          cap.audio # << >> /\ cap.tasks[i].words > 0 /\ TaskAudio(cap, i) # << >>
  BY <1>2 DEF StoredTasks
<1>7. ASSUME NEW i \in 1..Len(cap.tasks), cap.tasks[i].words > 0,
             TaskAudio(cap, i) # << >>
      PROVE  cap.audio # << >>
  <2>1. Between(StartTime(cap, i), EndTime(cap, i)) # {}
    <3>1. StartTime(cap, i) \in Nat /\ EndTime(cap, i) \in Nat
      BY <1>1, <1>5, <1>7, SliceTimes
    <3> QED
      BY <1>1, <1>7, <3>1, SliceLists DEF TaskAudio
  <2>2. PICK p : p \in DOMAIN cap.audio
    BY <2>1 DEF Between
  <2> QED
    BY <2>2
<1>8. DOMAIN written = StoredTasks(cap) /\ StoredTasks(cap) \subseteq 1..Len(cap.tasks)
  BY <1>1 DEF Responses, StoredTasks
<1>9. \A i \in StoredTasks(cap) :
        /\ written[i].audio = TaskAudio(cap, i)
        /\ written[i].stamps = Normalized(cap, i)
  BY <1>1, <1>2 DEF Responses, ResponseAudio, ResponseStamps
<1> QED
  BY <1>1, <1>5, <1>6, <1>7, <1>8, <1>9

(* A sample is held by the task of the word cut at it and by no other; it  *)
(* is held if there is such a word and it is not the last.                 *)
LEMMA HoldersOfSample ==
  ASSUME SplitInv, finalized, Splittable(cap), NEW p \in DOMAIN cap.audio
  PROVE  /\ \A i \in Holders(p) : CutWord(p) > 0 /\ TaskOfWord[CutWord(p)] = i
         /\ CutWord(p) > 0 /\ p < Len(cap.audio) => Holders(p) # {}
<1>1. /\ TasksOk /\ StampsOk /\ AudioOk /\ Counted /\ Monotonic(cap.stamps)
      /\ \A i \in 1..Len(cap.tasks) :
           i \in DOMAIN written <=> cap.tasks[i].words > 0 /\ TaskAudio(cap, i) # << >>
      /\ \A i \in DOMAIN written :
           i \in 1..Len(cap.tasks) /\ written[i].audio = TaskAudio(cap, i)
  BY WrittenResponses
<1>2. ASSUME NEW i \in 1..Len(cap.tasks), cap.tasks[i].words > 0
      PROVE  /\ { TaskAudio(cap, i)[x] : x \in DOMAIN TaskAudio(cap, i) }
                   = Between(StartTime(cap, i), EndTime(cap, i))
             /\ TaskAudio(cap, i) # << >>
                   <=> Between(StartTime(cap, i), EndTime(cap, i)) # {}
  <2>1. StartTime(cap, i) \in Nat /\ EndTime(cap, i) \in Nat
    BY <1>1, <1>2, SliceTimes
  <2> QED
    BY <1>1, <2>1, SliceLists DEF Lists, TaskAudio
<1>3. ASSUME NEW i \in Holders(p)
      PROVE  CutWord(p) > 0 /\ TaskOfWord[CutWord(p)] = i
  <2>1. PICK x \in DOMAIN written[i].audio : i \in DOMAIN written /\ written[i].audio[x] = p
    BY DEF Holders
  <2>2. i \in 1..Len(cap.tasks) /\ cap.tasks[i].words > 0
        /\ written[i].audio = TaskAudio(cap, i)
    BY <1>1, <2>1
  <2>3. p \in Between(StartTime(cap, i), EndTime(cap, i))
    BY <1>2, <2>1, <2>2
  <2> QED
    BY <1>1, <2>2, <2>3, ShareOfTask
<1>4. ASSUME CutWord(p) > 0, p < Len(cap.audio) PROVE Holders(p) # {}
  <2> DEFINE w == CutWord(p)
             i == TaskOfWord[w]
  <2>1. p \in Nat
    BY <1>1, AudioTyped
  <2>2. w \in 1..Len(cap.stamps)
    BY <1>1, <1>4, <2>1, CutWordAt
  <2>3. i \in 1..Len(cap.tasks) /\ w \in Mine(i)
    <3>1. Len(cap.tasks) \in Nat /\ Len(cap.tasks) # 0
      BY <1>1, TasksTyped
    <3>2. EndOf(Len(cap.tasks)) = Len(cap.stamps)
      BY <1>1, WordOwner
    <3>3. Len(TaskOfWord) = Len(cap.stamps)
      BY <1>1, <3>1, <3>2, TaskOfWordNames DEF NamesTasks
    <3> QED
      BY <1>1, <2>2, <3>3, TaskOfWordNames DEF NamesTasks
  <2>4. cap.tasks[i].words > 0
    <3>1. /\ EndOf(i) = cap.tasks[i].first + cap.tasks[i].words
          /\ cap.tasks[i].first \in Nat /\ cap.tasks[i].words \in Nat
      BY <1>1, <2>3, TasksTyped
    <3> HIDE DEF i, w
    <3> QED
      BY <2>3, <3>1 DEF Mine
  <2>5. p \in Between(StartTime(cap, i), EndTime(cap, i))
    BY <1>1, <1>4, <2>3, <2>4, ShareOfTask
  <2> HIDE DEF i
  <2>6. i \in DOMAIN written
    BY <1>1, <1>2, <2>3, <2>4, <2>5
  <2>7. \E x \in DOMAIN written[i].audio : written[i].audio[x] = p
    BY <1>1, <1>2, <2>3, <2>4, <2>5, <2>6
  <2> QED
    BY <2>6, <2>7 DEF Holders
<1> QED
  BY <1>3, <1>4

(* What is written agrees with the reference. *)
LEMMA SplitMatches == SplitInv => MatchesReference
<1> SUFFICES ASSUME SplitInv PROVE MatchesReference
  OBVIOUS
<1>1. ASSUME NEW i \in DOMAIN written
      PROVE  Splittable(cap) /\ written[i].audio # << >> /\ Ascending(written[i].audio)
  <2>1. finalized /\ Splittable(cap)
    BY NothingWritten
  <2>2. /\ TasksOk /\ StampsOk /\ AudioOk /\ Counted
        /\ i \in 1..Len(cap.tasks) /\ cap.tasks[i].words > 0
        /\ written[i].audio = TaskAudio(cap, i) /\ TaskAudio(cap, i) # << >>
    BY <2>1, WrittenResponses
  <2>3. StartTime(cap, i) \in Nat /\ EndTime(cap, i) \in Nat
    BY <2>2, SliceTimes
  <2> QED
    BY <2>1, <2>2, <2>3, SliceLists DEF Lists, TaskAudio
<1>2. ASSUME finalized, Splittable(cap), NEW p \in DOMAIN cap.audio
      PROVE  /\ \A i, k \in Holders(p) : i = k
             /\ Holders(p) \subseteq { TaskOfWord[j] : j \in WordsNear(p) }
             /\ SpeechBegun(p) /\ p < Len(cap.audio) => Holders(p) # {}
  <2>1. StampsOk /\ AudioOk /\ Monotonic(cap.stamps) /\ cap.stamps # << >>
    BY <1>2 DEF SplitInv, CaptureOk, Splittable
  <2>2. p \in Nat \ {0}
    BY <2>1, AudioTyped
  <2>3. CutWord(p) \in WordAt(p-1)..WordAt(p+1)
    BY <2>1, <2>2, CutWordNear
  <2>4. CutWord(p) > 0 => CutWord(p) \in WordsNear(p)
    BY <2>3 DEF WordsNear
  <2>5. SpeechBegun(p) => CutWord(p) > 0
    <3> SUFFICES ASSUME SpeechBegun(p) PROVE CutWord(p) > 0
      OBVIOUS
    <3>1. Len(cap.stamps) \in Nat
      BY <2>1, StampsTyped
    <3>2. Len(cap.stamps) # 0
      BY <2>1 DEF StampsOk
    <3>3. 1 \in 1..Len(cap.stamps)
      BY <3>1, <3>2
    <3>4. cap.stamps[1].time \in Nat
      BY <2>1, <3>3, StampsTyped
    <3>5. SampleAt(cap.stamps[1].time) < p
      BY <2>2, <3>4, CutNear DEF SpeechBegun
    <3>6. CutWord(p) \in 0..Len(cap.stamps) /\ 1 <= CutWord(p)
      BY <2>1, <2>2, <3>3, <3>5, CutWordAt
    <3> QED
      BY <3>6
  <2> QED
    BY <1>2, <2>4, <2>5, HoldersOfSample
<1> QED
  BY <1>1, <1>2 DEF MatchesReference

(***************************************************************************)
(* For captures of every size and any sample rate, whatever its products   *)
(* are rounded to (RoundingAssumption): no sample is cached under two      *)
(* texts, one is moved at most to the text beside it, and none after the   *)
(* first word is dropped but the last (_store_split_tasks).                *)
(***************************************************************************)
THEOREM SplitMatchesReference == Spec => []MatchesReference
<1>1. Spec => []SplitInv
  BY SplitCorrect
<1> QED
  BY <1>1, SplitMatches, PTL

(* The normalized timestamps of a task are those of its words. *)
LEMMA StampsOfTask ==
  ASSUME TasksOk, StampsOk, AudioOk, Counted,
         NEW i \in 1..Len(cap.tasks), cap.tasks[i].words > 0
  PROVE  LET stamps == Normalized(cap, i)
         IN  /\ Lists([j \in DOMAIN stamps |-> stamps[j].unit], WordsOf(i))
             /\ \A j \in DOMAIN stamps :
                  stamps[j].time = cap.stamps[stamps[j].unit].time
                                     - cap.stamps[stamps[1].unit].time
<1> DEFINE m == Len(cap.stamps)
           f == cap.tasks[i].first
           c == cap.tasks[i].words
           r == Normalized(cap, i)
           u == [j \in DOMAIN r |-> r[j].unit]
<1>1. /\ m \in Nat /\ f \in Nat /\ c \in Nat /\ c > 0 /\ EndOf(i) = f + c /\ f + c \in 1..m
      /\ DOMAIN cap.stamps = 1..m
      /\ \A j \in 1..m : cap.stamps[j].unit = j
  BY TasksTyped, StampsTyped, SliceTimes
<1>2. StartTime(cap, i) = cap.stamps[f + 1].time
  BY SliceTimes
<1>3. r = [j \in 1..c |-> [unit |-> cap.stamps[f + j].unit,
                           time |-> cap.stamps[f + j].time - cap.stamps[f + 1].time]]
  BY <1>2 DEF Normalized
<1>4. WordsOf(i) = { j \in 1..m : j \in f+1..f+c }
  <2>1. \A j \in 1..m : TaskOfWord[j] = i <=> j \in f+1..f+c
    BY <1>1, WordOwner DEF Mine
  <2> QED
    BY <1>1, <2>1 DEF WordsOf
<1> HIDE DEF m, f, c, r
<1>5. \A j \in 1..c : f + j \in 1..m /\ f + j \in f+1..f+c
  BY <1>1
<1>6. /\ DOMAIN r = 1..c
      /\ \A j \in 1..c : /\ r[j].unit = f + j
                         /\ r[j].time = cap.stamps[f + j].time - cap.stamps[f + 1].time
  BY <1>1, <1>3, <1>5
<1>7. DOMAIN u = 1..c /\ \A j \in 1..c : u[j] = f + j
  BY <1>6
<1> HIDE DEF u
<1>8. { u[x] : x \in DOMAIN u } = WordsOf(i)
  <2>1. \A j \in 1..c : u[j] \in WordsOf(i)
    BY <1>4, <1>5, <1>7
  <2>2. ASSUME NEW q \in WordsOf(i) PROVE \E j \in 1..c : u[j] = q
    <3>1. q \in 1..m /\ q \in f+1..f+c
      BY <1>4
    <3>2. q - f \in 1..c
      BY <1>1, <3>1
    <3>3. f + (q - f) = q
      BY <1>1, <3>1
    <3> QED
      BY <1>7, <3>2, <3>3
  <2> QED
    BY <1>7, <2>1, <2>2
<1>9. \A x, y \in DOMAIN u : x < y => u[x] < u[y]
  BY <1>1, <1>7
<1>10. Lists(u, WordsOf(i))
  BY <1>8, <1>9 DEF Lists, Ascending
<1>11. 1 \in 1..c
  BY <1>1
<1>12. \A j \in DOMAIN r :
         r[j].time = cap.stamps[r[j].unit].time - cap.stamps[r[1].unit].time
  BY <1>6, <1>11
<1> QED
  BY <1>10, <1>12 DEF r, u

(* So are those of every response. *)
LEMMA SplitStamps == SplitInv => StampsFollowTheirTask
<1> SUFFICES ASSUME SplitInv, NEW i \in DOMAIN written
             PROVE  LET stamps == written[i].stamps
                    IN  /\ Lists([j \in DOMAIN stamps |-> stamps[j].unit], WordsOf(i))
                        /\ \A j \in DOMAIN stamps :
                             stamps[j].time = cap.stamps[stamps[j].unit].time
                                                - cap.stamps[stamps[1].unit].time
  BY DEF StampsFollowTheirTask
<1>1. finalized /\ Splittable(cap)
  BY NothingWritten
<1>2. /\ TasksOk /\ StampsOk /\ AudioOk /\ Counted
      /\ i \in 1..Len(cap.tasks) /\ cap.tasks[i].words > 0
      /\ written[i].stamps = Normalized(cap, i)
  BY <1>1, WrittenResponses
<1> QED
  BY <1>2, StampsOfTask

(***************************************************************************)
(* For captures of every size, the timestamps of a response are those of   *)
(* its own words, all of them, counted from the first                      *)
(* (_store_split_tasks).                                                   *)
(***************************************************************************)
THEOREM SplitStampsFollow == Spec => []StampsFollowTheirTask
<1>1. Spec => []SplitInv
  BY SplitCorrect
<1> QED
  BY <1>1, SplitStamps, PTL
================================================================================
