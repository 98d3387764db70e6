-------------------------- MODULE DashboardProofs --------------------------
(* Theorems about Dashboard and its pool, for any sizes of pool, history,  *)
(* queues and intervals: the alarms, the history, and the order of what a  *)
(* reader of the pool or of the page sees.                                 *)
EXTENDS Dashboard, TLAPS

Sample == [ts : Int, fast : BOOLEAN]

(* What alarm_consumer rests on: the samples travel whole from the source  *)
(* to its queue, and its own clock of the last alarm agrees with the one   *)
(* that an observer of the alarms keeps.                                   *)
AlarmInv ==
  /\ samples \in Seq(Sample) /\ wall \in Int
  /\ publishing \in Nat
  /\ busQueue \in Seq(Nat) /\ alarmQueue \in Seq(Nat)
  /\ sinceAlarm \in 0 .. Cooldown
  /\ sinceRaised = sinceAlarm

(* A step that leaves the alarms alone. *)
AlarmsAlone ==
  /\ UNCHANGED <<alarms, sinceAlarm, sinceRaised>>
  /\ Among(alarmQueue) \subseteq Among(alarmQueue')

AlarmStep ==
  /\ alarms' # alarms => sinceRaised = Cooldown
  /\ \A k \in Among(alarmQueue) \ Among(alarmQueue') :
       samples[k].fast => sinceRaised' < Cooldown

LEMMA AloneIsFine == AlarmsAlone => AlarmStep
  BY DEF AlarmsAlone, AlarmStep

(* Put() keeps a queue of numbers, and whatever is in it. *)
LEMMA PutKeeps ==
  ASSUME NEW q \in Seq(Nat), NEW k \in Nat
  PROVE  Put(q, k) \in Seq(Nat) /\ Among(q) \subseteq Among(Put(q, k))
<1>1. CASE Len(q) < QueueCap
  <2>1. Put(q, k) = Append(q, k)  BY <1>1 DEF Put
  <2>2. \A i \in DOMAIN q : i \in DOMAIN Append(q, k) /\ Append(q, k)[i] = q[i]  OBVIOUS
  <2> QED  BY <2>1, <2>2 DEF Among
<1>2. CASE ~(Len(q) < QueueCap)
  BY <1>2 DEF Put
<1> QED  BY <1>1, <1>2

LEMMA AlarmInit == Init => AlarmInv
  BY DashboardAssumption, PoolAssumption DEF Init, PoolInit, AlarmInv, Sample

(* A sample made is appended to the history, and is about to be published. *)
LEMMA MakeSampleStep ==
  ASSUME AlarmInv, NEW ts \in Int, NEW fast \in BOOLEAN, MakeSample(ts, fast)
  PROVE  AlarmInv' /\ AlarmsAlone
<1>1. [ts |-> ts, fast |-> fast] \in Sample  BY DEF Sample
<1>2. samples' \in Seq(Sample) /\ Len(samples') \in Nat
  BY <1>1 DEF AlarmInv, MakeSample, Produce
<1>3. UNCHANGED <<wall, busQueue, alarmQueue, sinceAlarm, sinceRaised, alarms>>
  BY DEF MakeSample, clockVars, pageVars, busVars, alarmVars
<1>4. publishing' \in Nat  BY <1>2 DEF MakeSample
<1> QED  BY <1>2, <1>3, <1>4 DEF AlarmInv, AlarmsAlone

(* Time passes for both clocks of the alarms alike. *)
LEMMA TickStep ==
  ASSUME AlarmInv, Tick
  PROVE  AlarmInv' /\ AlarmStep
<1>1. UNCHANGED <<samples, publishing, busQueue, alarmQueue, alarms>>
  BY DEF Tick, sourceVars, busVars
<1>2. sinceAlarm' = Capped(sinceAlarm + 1) /\ sinceRaised' = sinceAlarm'
  BY DEF Tick, AlarmInv
<1>3. sinceAlarm' \in 0 .. Cooldown
  BY <1>2, DashboardAssumption DEF AlarmInv, Capped
<1>4. wall' \in Int  BY DEF Tick, AlarmInv
<1> QED  BY <1>1, <1>2, <1>3, <1>4 DEF AlarmInv, AlarmStep

(* The sample at the head is answered: by a new alarm, or by one that is   *)
(* less than a cooldown old.                                               *)
LEMMA AlarmConsumeStep ==
  ASSUME AlarmInv, AlarmConsume
  PROVE  AlarmInv' /\ AlarmStep
<1> DEFINE k     == Head(alarmQueue)
           raise == samples[k].fast /\ sinceAlarm = Cooldown
<1>1. UNCHANGED <<samples, wall, publishing, busQueue>>
  BY DEF AlarmConsume, sourceVars, clockVars
<1>2. /\ alarmQueue # <<>> /\ alarmQueue' = Tail(alarmQueue)
      /\ sinceAlarm' = IF raise THEN 0 ELSE sinceAlarm
      /\ sinceRaised' = IF raise THEN 0 ELSE sinceRaised
      /\ alarms' = IF raise THEN alarms + 1 ELSE alarms
  BY DEF AlarmConsume
<1>3. AlarmInv'
  BY <1>1, <1>2, DashboardAssumption DEF AlarmInv
<1>4. \A j \in Among(alarmQueue) \ Among(alarmQueue') : j = k
  <2>1. alarmQueue \in Seq(Nat) /\ alarmQueue # <<>>  BY <1>2 DEF AlarmInv
  <2>2. \A i \in DOMAIN alarmQueue : i # 1 =>
          i - 1 \in DOMAIN Tail(alarmQueue) /\ Tail(alarmQueue)[i - 1] = alarmQueue[i]
    BY <2>1
  <2>3. \A i \in DOMAIN alarmQueue : i # 1 => alarmQueue[i] \in Among(alarmQueue')
    BY <2>2, <1>2 DEF Among
  <2>4. k = alarmQueue[1]  BY <2>1
  <2> QED  BY <2>3, <2>4 DEF Among
<1>5. alarms' # alarms => sinceRaised = Cooldown
  BY <1>2 DEF AlarmInv
<1>6. samples[k].fast => sinceRaised' < Cooldown
  BY <1>2, DashboardAssumption DEF AlarmInv
<1> QED  BY <1>3, <1>4, <1>5, <1>6 DEF AlarmStep

LEMMA AlarmNext ==
  ASSUME AlarmInv, [Next]_vars
  PROVE  AlarmInv' /\ AlarmStep
<1> USE DEF AlarmInv, AlarmsAlone
<1>1. CASE UNCHANGED vars
  BY <1>1 DEF vars, AlarmStep, sourceVars, clockVars, pageVars, busVars, alarmVars
<1>2. CASE Tick
  BY <1>2, TickStep
<1>3. CASE SetClockBack
  BY <1>3, AloneIsFine DEF SetClockBack, sourceVars, pageVars, busVars, alarmVars
<1>4. CASE OpenCan \/ OpenShm
  BY <1>4, AloneIsFine DEF OpenCan, OpenShm, clockVars, pageVars, busVars, alarmVars
<1>5. CASE CanFrame \/ ShmSample \/ Generate
  <2>1. wall \in Int /\ ShmStamps \subseteq Int  BY PoolAssumption, DashboardAssumption
  <2> QED  BY <1>5, <2>1, AloneIsFine, MakeSampleStep DEF CanFrame, ShmSample, Generate
<1>6. CASE Publish
  <2>1. UNCHANGED <<samples, wall, alarmQueue, alarms, sinceAlarm, sinceRaised>>
    BY <1>6 DEF Publish, clockVars, alarmVars
  <2>2. busQueue' \in Seq(Nat) /\ publishing' \in Nat
    BY <1>6, PutKeeps DEF Publish
  <2> QED  BY <2>1, <2>2, AloneIsFine
<1>7. CASE Consumer \/ HttpGet
  BY <1>7, AloneIsFine
  DEF Consumer, Drain, DrainTake, DrainPush, DrainEmpty, HttpGet, TakeSnapshot,
      sourceVars, clockVars, pageVars, busVars, alarmVars
<1>8. CASE Dispatch
  <2>1. UNCHANGED <<samples, wall, publishing, alarms, sinceAlarm, sinceRaised>>
    BY <1>8 DEF Dispatch, sourceVars, clockVars, alarmVars
  <2>2. Head(busQueue) \in Nat /\ Tail(busQueue) \in Seq(Nat)
    BY <1>8 DEF Dispatch
  <2>3. busQueue' = Tail(busQueue) /\ alarmQueue' = Put(alarmQueue, Head(busQueue))
    BY <1>8 DEF Dispatch
  <2> QED  BY <2>1, <2>2, <2>3, PutKeeps, AloneIsFine
<1>9. CASE PageStep
  BY <1>9, AloneIsFine
  DEF PageStep, WsConsume, WsTimeout, WsCheck, Broadcast, sourceVars, clockVars, busVars, alarmVars
<1>10. CASE AlarmConsume
  BY <1>10, AlarmConsumeStep
<1> QED
  BY <1>1, <1>2, <1>3, <1>4, <1>5, <1>6, <1>7, <1>8, <1>9, <1>10 DEF Next, Clocks, Source

(* Two alarms are a cooldown or more apart, and a fast sample that is      *)
(* taken from alarm_q is answered by an alarm less than a cooldown old     *)
(* (main.cpp:327).                                                         *)
THEOREM AlarmsAreOnTime == Spec => AlarmsOnTime
<1>1. Init => AlarmInv  BY AlarmInit
<1>2. AlarmInv /\ [Next]_vars => AlarmInv'  BY AlarmNext
<1>3. AlarmInv /\ [Next]_vars => [AlarmStep]_vars  BY AlarmNext
<1> QED  BY <1>1, <1>2, <1>3, PTL DEF Spec, AlarmsOnTime, AlarmStep

----------------------------------------------------------------------------
(* Sequences of numbers that rise.                                         *)

LEMMA AppendFacts ==
  ASSUME NEW S, NEW q \in Seq(S), NEW k \in S
  PROVE  /\ Append(q, k) \in Seq(S) /\ Len(q) \in Nat /\ Len(Append(q, k)) = Len(q) + 1
         /\ DOMAIN q = 1 .. Len(q) /\ DOMAIN Append(q, k) = 1 .. (Len(q) + 1)
         /\ \A i \in 1 .. Len(q) : Append(q, k)[i] = q[i]
         /\ Append(q, k)[Len(q) + 1] = k
         /\ Append(q, k) # <<>>
OBVIOUS

LEMMA TailFacts ==
  ASSUME NEW S, NEW q \in Seq(S), q # <<>>
  PROVE  /\ Tail(q) \in Seq(S) /\ Len(q) \in Nat \ {0} /\ Len(Tail(q)) = Len(q) - 1
         /\ DOMAIN q = 1 .. Len(q) /\ DOMAIN Tail(q) = 1 .. (Len(q) - 1)
         /\ \A i \in 1 .. (Len(q) - 1) : Tail(q)[i] = q[i + 1]
         /\ Head(q) = q[1] /\ Head(q) \in S
OBVIOUS

LEMMA SeqFacts ==
  ASSUME NEW S, NEW q \in Seq(S)
  PROVE  /\ Len(q) \in Nat /\ DOMAIN q = 1 .. Len(q)
         /\ \A i \in DOMAIN q : q[i] \in S
         /\ q = <<>> <=> Len(q) = 0
OBVIOUS

LEMMA SeqGrows ==
  ASSUME NEW S, NEW T, S \subseteq T, NEW q \in Seq(S)
  PROVE  q \in Seq(T)
OBVIOUS

LEMMA AmongFacts ==
  ASSUME NEW S, NEW q \in Seq(S)
  PROVE  /\ Among(q) \subseteq S
         /\ \A k \in S : Among(Append(q, k)) = Among(q) \cup {k}
         /\ q # <<>> => /\ Head(q) \in Among(q)
                        /\ Among(Tail(q)) \subseteq Among(q)
<1>1. Among(q) \subseteq S
  BY SeqFacts DEF Among
<1>2. ASSUME NEW k \in S PROVE Among(Append(q, k)) = Among(q) \cup {k}
  <2>1. DOMAIN Append(q, k) = DOMAIN q \cup {Len(q) + 1}
    BY AppendFacts
  <2> QED  BY <2>1, AppendFacts DEF Among
<1>3. ASSUME q # <<>> PROVE Head(q) \in Among(q) /\ Among(Tail(q)) \subseteq Among(q)
  <2>1. 1 \in DOMAIN q /\ \A i \in DOMAIN Tail(q) : i + 1 \in DOMAIN q /\ Tail(q)[i] = q[i + 1]
    BY <1>3, TailFacts
  <2> QED  BY <1>3, <2>1, TailFacts DEF Among
<1> QED  BY <1>1, <1>2, <1>3

(* The last number of a rising sequence is the largest. *)
LEMMA RisingNewest ==
  ASSUME NEW q \in Seq(Nat), Rising(q)
  PROVE  /\ Newest(q) \in Nat
         /\ \A k \in Among(q) : k <= Newest(q)
         /\ q # <<>> => Newest(q) \in Among(q)
<1>1. Newest(q) \in Nat  BY SeqFacts DEF Newest
<1>2. ASSUME NEW i \in DOMAIN q PROVE q[i] <= Newest(q)
  <2>1. Len(q) \in DOMAIN q /\ Newest(q) = q[Len(q)] /\ i <= Len(q)
    BY SeqFacts DEF Newest
  <2> QED  BY <2>1, SeqFacts DEF Rising
<1>3. q # <<>> => Newest(q) \in Among(q)
  BY SeqFacts DEF Newest, Among
<1> QED  BY <1>1, <1>2, <1>3 DEF Among

LEMMA RisingAppend ==
  ASSUME NEW q \in Seq(Nat), NEW k \in Nat, Rising(q), Newest(q) < k
  PROVE  Rising(Append(q, k)) /\ Newest(Append(q, k)) = k
<1>1. ASSUME NEW i \in DOMAIN q PROVE q[i] < k
  <2>1. q[i] \in Among(q) /\ q[i] \in Nat  BY SeqFacts DEF Among
  <2> QED  BY <2>1, RisingNewest
<1>2. Newest(Append(q, k)) = k
  BY AppendFacts DEF Newest
<1>3. ASSUME NEW i \in DOMAIN Append(q, k), NEW j \in DOMAIN Append(q, k), i < j
      PROVE  Append(q, k)[i] < Append(q, k)[j]
  <2>1. i \in 1 .. Len(q) /\ Append(q, k)[i] = q[i]
    BY <1>3, AppendFacts
  <2>2. CASE j = Len(q) + 1
    BY <1>1, <2>1, <2>2, AppendFacts
  <2>3. CASE j \in 1 .. Len(q)
    BY <1>3, <2>1, <2>3, AppendFacts DEF Rising
  <2> QED  BY <2>2, <2>3, AppendFacts
<1> QED  BY <1>2, <1>3 DEF Rising

LEMMA RisingTail ==
  ASSUME NEW q \in Seq(Nat), Rising(q), q # <<>>
  PROVE  /\ Rising(Tail(q)) /\ \A k \in Among(Tail(q)) : Head(q) < k
         /\ Newest(Tail(q)) <= Newest(q)
         /\ Tail(q) # <<>> => Newest(Tail(q)) = Newest(q)
<1>1. \A i \in DOMAIN Tail(q) : i + 1 \in DOMAIN q /\ Tail(q)[i] = q[i + 1] /\ i + 1 > 1
  BY TailFacts
<1>2. Rising(Tail(q))
  <2>1. \A i, j \in DOMAIN Tail(q) : i < j => i + 1 < j + 1
    BY TailFacts
  <2> QED  BY <1>1, <2>1 DEF Rising
<1>3. \A i \in DOMAIN Tail(q) : Head(q) < Tail(q)[i]
  BY <1>1, TailFacts DEF Rising
<1>4. Tail(q) # <<>> => Newest(Tail(q)) = Newest(q)
  <2> HAVE Tail(q) # <<>>
  <2>1. Len(Tail(q)) \in DOMAIN Tail(q) /\ Len(Tail(q)) + 1 = Len(q)
    BY TailFacts, SeqFacts
  <2> QED  BY <1>1, <2>1 DEF Newest
<1>5. Newest(Tail(q)) <= Newest(q)
  BY <1>4, RisingNewest DEF Newest
<1> QED  BY <1>2, <1>3, <1>4, <1>5 DEF Among

----------------------------------------------------------------------------
(* The history of the pool.                                                *)

(* History h thins out the samples T. *)
Thinned(h, T) ==
  /\ \A i \in 1 .. Len(h) - 1 : Minus(Stamp(h[i + 1]), Stamp(h[i])) >= Interval
  /\ \A i \in DOMAIN h, k \in T :
       /\ k > h[i]
       /\ i < Len(h) => k < h[i + 1]
       => Minus(Stamp(k), Stamp(h[i])) < Interval

LEMMA ThinnedIsSampled ==
  HistoryIsSampled <=> Thinned(history, Handled) /\ (history = <<>> => Handled = {})
BY DEF HistoryIsSampled, Thinned

(* The oldest sample leaves a full history. *)
LEMMA ThinnedTail ==
  ASSUME NEW h \in Seq(Nat), NEW T, Thinned(h, T), h # <<>>
  PROVE  Thinned(Tail(h), T)
<1>1. \A i \in 1 .. (Len(h) - 1) : i + 1 \in DOMAIN h /\ Tail(h)[i] = h[i + 1]
  BY TailFacts
<1>2. ASSUME NEW i \in 1 .. Len(Tail(h)) - 1
      PROVE  Minus(Stamp(Tail(h)[i + 1]), Stamp(Tail(h)[i])) >= Interval
  <2>1. i + 1 \in 1 .. Len(h) - 1 /\ Tail(h)[i + 1] = h[i + 1 + 1] /\ Tail(h)[i] = h[i + 1]
    BY <1>1, TailFacts
  <2> QED  BY <2>1 DEF Thinned
<1>3. ASSUME NEW i \in DOMAIN Tail(h), NEW k \in T,
             k > Tail(h)[i], i < Len(Tail(h)) => k < Tail(h)[i + 1]
      PROVE  Minus(Stamp(k), Stamp(Tail(h)[i])) < Interval
  <2>1. i + 1 \in DOMAIN h /\ Tail(h)[i] = h[i + 1]
    BY <1>1, TailFacts
  <2>2. i + 1 < Len(h) => k < h[i + 1 + 1]
    BY <1>1, <1>3, TailFacts
  <2> QED  BY <1>3, <2>1, <2>2 DEF Thinned
<1> QED  BY <1>2, <1>3 DEF Thinned

(* A sample that is due enters it. *)
LEMMA ThinnedAppend ==
  ASSUME NEW h \in Seq(Nat), NEW T \in SUBSET Nat, NEW k \in Nat, Thinned(h, T),
         \A t \in T : t <= k, \A i \in DOMAIN h : h[i] < k,
         h # <<>> => Minus(Stamp(k), Stamp(Newest(h))) >= Interval
  PROVE  Thinned(Append(h, k), T \cup {k})
<1> DEFINE g == Append(h, k)
           n == Len(h)
<1>1. /\ n \in Nat /\ Len(g) = n + 1 /\ DOMAIN g = 1 .. (n + 1) /\ DOMAIN h = 1 .. n
      /\ g[n + 1] = k /\ \A i \in 1 .. n : g[i] = h[i] /\ h[i] \in Nat
  BY AppendFacts, SeqFacts
<1> HIDE DEF g, n
<1>2. ASSUME NEW i \in 1 .. Len(g) - 1
      PROVE  Minus(Stamp(g[i + 1]), Stamp(g[i])) >= Interval
  <2>1. CASE i = n
    <3>1. h # <<>> /\ Newest(h) = g[i] /\ g[i + 1] = k
      BY <1>1, <1>2, <2>1, SeqFacts DEF Newest, n
    <3> QED  BY <3>1
  <2>2. CASE i # n
    <3>1. i \in 1 .. n - 1 /\ i \in 1 .. n /\ i + 1 \in 1 .. n
      BY <1>1, <1>2, <2>2
    <3>2. g[i + 1] = h[i + 1] /\ g[i] = h[i]
      BY <1>1, <3>1
    <3> QED  BY <3>1, <3>2 DEF Thinned, n
  <2> QED  BY <2>1, <2>2
<1>3. ASSUME NEW i \in DOMAIN g, NEW t \in T \cup {k},
             t > g[i], i < Len(g) => t < g[i + 1]
      PROVE  Minus(Stamp(t), Stamp(g[i])) < Interval
  <2>1. t <= k /\ t \in Nat /\ i \in 1 .. n
    BY <1>1, <1>3
  <2>2. g[i] = h[i] /\ t < g[i + 1] /\ (i < n => g[i + 1] = h[i + 1])
    BY <1>1, <1>3, <2>1
  <2>3. t # k
    <3>1. CASE i = n
      BY <1>1, <2>2, <3>1
    <3>2. CASE i < n
      <4>1. i + 1 \in 1 .. n /\ h[i + 1] < k /\ g[i + 1] = h[i + 1]
        BY <1>1, <2>1, <3>2
      <4> QED  BY <1>1, <2>1, <2>2, <4>1
    <3> QED  BY <1>1, <2>1, <3>1, <3>2
  <2> QED  BY <1>1, <1>3, <2>1, <2>2, <2>3 DEF Thinned, n
<1> QED  BY <1>2, <1>3 DEF Thinned, g

(* A sample that is not due stays out. *)
LEMMA ThinnedSkip ==
  ASSUME NEW h \in Seq(Nat), NEW T, NEW k \in Nat, Thinned(h, T), h # <<>>,
         \A i \in DOMAIN h : h[i] < k,
         Minus(Stamp(k), Stamp(Newest(h))) < Interval
  PROVE  Thinned(h, T \cup {k})
<1>1. ASSUME NEW i \in DOMAIN h, i < Len(h) => k < h[i + 1]
      PROVE  Minus(Stamp(k), Stamp(h[i])) < Interval
  <2>1. i = Len(h)
    <3> SUFFICES ASSUME i # Len(h) PROVE FALSE  OBVIOUS
    <3>1. i + 1 \in DOMAIN h /\ i < Len(h) /\ h[i + 1] \in Nat  BY SeqFacts
    <3>2. k < h[i + 1] /\ h[i + 1] < k  BY <1>1, <3>1
    <3> QED  BY <3>1, <3>2
  <2> QED  BY <2>1 DEF Newest
<1> QED  BY <1>1 DEF Thinned

----------------------------------------------------------------------------
(* The steps of the pool.                                                  *)

(* The difference to zero is the number itself. *)
LEMMA MinusZero ==
  ASSUME NEW a \in 0 .. Width - 1
  PROVE  Minus(a, 0) = a
BY PoolAssumption DEF Minus

LEMMA PoolFacts ==
  ASSUME PoolInv
  PROVE  /\ Len(samples) \in Nat /\ Numbers = 1 .. Len(samples) /\ Numbers \subseteq Nat
         /\ ring \in Seq(Numbers) /\ ring \in Seq(Nat)
         /\ taken \in Seq(Numbers) /\ taken \in Seq(Nat)
         /\ history \in Seq(Numbers) /\ history \in Seq(Nat)
         /\ shown.history \in Seq(Numbers) /\ shown.history \in Seq(Nat)
         /\ held \in Nat /\ latest \in Nat /\ shown.latest \in Nat
         /\ \A k \in Numbers : Stamp(k) \in 0 .. Width - 1 /\ Stamp(k) >= Interval
<1>1. Len(samples) \in Nat /\ Numbers = 1 .. Len(samples) /\ Numbers \subseteq Nat
  BY SeqFacts DEF PoolInv, PoolTypeOK, Numbers
<1>2. \A k \in Numbers : Stamp(k) \in 0 .. Width - 1 /\ Stamp(k) >= Interval
  <2> DEFINE T == [ts : 0 .. Width - 1, fast : BOOLEAN]
  <2>1. samples \in Seq(T)  BY DEF PoolInv, PoolTypeOK
  <2>2. \A t \in T : t.ts \in 0 .. Width - 1  OBVIOUS
  <2> HIDE DEF T
  <2>3. \A k \in Numbers : samples[k] \in T  BY <2>1, SeqFacts DEF Numbers
  <2> QED  BY <2>2, <2>3 DEF Stamp, PoolInv
<1>3. /\ ring \in Seq(Numbers) /\ taken \in Seq(Numbers) /\ history \in Seq(Numbers)
      /\ shown.history \in Seq(Numbers) /\ held \in 0 .. Len(samples)
      /\ latest \in 0 .. Len(samples) /\ shown.latest \in 0 .. Len(samples)
  BY DEF PoolInv, PoolTypeOK
<1> HIDE DEF Numbers
<1>4. /\ ring \in Seq(Nat) /\ taken \in Seq(Nat) /\ history \in Seq(Nat)
      /\ shown.history \in Seq(Nat)
  BY <1>1, <1>3, SeqGrows
<1> QED  BY <1>1, <1>2, <1>3, <1>4

(* What Handled is in the two cases. *)
LEMMA HandledFacts ==
  ASSUME PoolInv
  PROVE  /\ Handled \subseteq Among(taken) /\ Handled \in SUBSET Nat
         /\ dpc # "push" => Handled = Among(taken)
         /\ dpc = "push" => Among(taken) = Handled \cup {held}
<1>1. /\ taken \in Seq(Nat) /\ Len(taken) \in Nat /\ DOMAIN taken = 1 .. Len(taken)
      /\ Among(taken) \subseteq Nat
  BY PoolFacts, SeqFacts, AmongFacts
<1>2. CASE dpc = "push"
  <2>1. taken # <<>> /\ held = Newest(taken)  BY <1>2 DEF PoolInv
  <2>2. Len(taken) \in DOMAIN taken /\ held = taken[Len(taken)]
    BY <1>1, <2>1, SeqFacts DEF Newest
  <2>3. DOMAIN taken = (1 .. Len(taken) - 1) \cup {Len(taken)}
    BY <1>1, <2>2
  <2>4. Handled = {taken[i] : i \in 1 .. Len(taken) - 1}  BY <1>2 DEF Handled
  <2> QED  BY <1>1, <1>2, <2>2, <2>3, <2>4 DEF Among
<1>3. CASE dpc # "push"
  <2>1. Handled = Among(taken)  BY <1>1, <1>3 DEF Handled, Among
  <2> QED  BY <1>1, <1>3, <2>1
<1> QED  BY <1>2, <1>3

LEMMA PoolUnchanged ==
  ASSUME PoolInv, UNCHANGED <<samples, poolVars>>
  PROVE  PoolInv'
<1> USE DEF poolVars, PoolInv
<1>1. PoolTypeOK'  BY DEF PoolTypeOK, Numbers
<1>2. SnapshotsInOrder'  BY DEF SnapshotsInOrder, Rising, Newest
<1>3. HistoryIsSampled'
  <2>1. Handled' = Handled  BY DEF Handled
  <2>2. HistoryIsSampled /\ UNCHANGED <<samples, history>>  OBVIOUS
  <2> HIDE DEF poolVars, PoolInv
  <2> QED  BY <2>1, <2>2 DEF HistoryIsSampled, Stamp
<1>4. /\ \A k \in Numbers' : Stamp(k)' >= Interval
      /\ Rising(ring)' /\ \A k \in Among(ring)' : Newest(taken)' < k
  BY DEF Numbers, Stamp, Rising, Among, Newest
<1>5. Newest(taken)' = Newest(taken) /\ Newest(history)' = Newest(history)
  BY DEF Newest
<1> QED  BY <1>1, <1>2, <1>3, <1>4, <1>5 DEF Stamp

LEMMA PoolStarts == PoolInit => PoolInv
<1> SUFFICES ASSUME PoolInit PROVE PoolInv  OBVIOUS
<1>1. PoolTypeOK
  BY PoolAssumption DEF PoolInit, PoolTypeOK, Numbers
<1>2. Handled = {} /\ Among(<<>>) = {} /\ Numbers = {}
  BY DEF PoolInit, Handled, Among, Numbers
<1> QED
  BY <1>1, <1>2 DEF PoolInit, PoolInv, SnapshotsInOrder, HistoryIsSampled, Rising, Newest

(* A sample is made: it is newer than all the others. *)
LEMMA ProduceKeeps ==
  ASSUME PoolInv, NEW t \in Interval .. Width - 1, NEW fast \in BOOLEAN,
         Produce([ts |-> t, fast |-> fast])
  PROVE  /\ PoolInv' /\ Len(samples') = Len(samples) + 1
         /\ \A k \in Numbers : samples'[k] = samples[k]
<1> DEFINE T == [ts : 0 .. Width - 1, fast : BOOLEAN]
           new == [ts |-> t, fast |-> fast]
<1> PICK n : n = Len(samples)
  OBVIOUS
<1>1. new \in T /\ new.ts = t /\ t >= Interval
  BY PoolAssumption
<1>2. samples \in Seq(T) /\ samples' = Append(samples, new)
  BY DEF PoolInv, PoolTypeOK, Produce
<1> HIDE DEF T, new
<1>3. /\ samples' \in Seq(T) /\ n \in Nat /\ Len(samples') = n + 1 /\ Numbers = 1 .. n
      /\ Numbers' = 1 .. (n + 1)
      /\ \A k \in Numbers : samples'[k] = samples[k]
      /\ samples'[n + 1] = new
  BY <1>1, <1>2, AppendFacts DEF Numbers
<1>4. /\ Numbers \subseteq Numbers' /\ n + 1 \in Numbers'
      /\ \A k \in Numbers : samples'[k].ts = Stamp(k)
      /\ samples'[n + 1].ts = t
  BY <1>1, <1>3 DEF Stamp
<1>5. UNCHANGED <<dpc, held, lastKept, history, latest, taken, shown>>
  BY DEF Produce
<1> HIDE DEF Numbers
<1>6. /\ ring \in Seq(Numbers) /\ taken \in Seq(Numbers) /\ history \in Seq(Numbers)
      /\ ring \in Seq(Nat) /\ taken \in Seq(Nat) /\ history \in Seq(Nat)
      /\ shown.history \in Seq(Numbers) /\ Numbers \subseteq Nat
  BY PoolFacts
<1>7. \A q \in Seq(Numbers) : q \in Seq(Numbers')
  BY <1>4, SeqGrows
<1>8. Newest(taken) < n + 1 /\ Newest(ring) < n + 1
  <2>1. \A q \in Seq(Numbers) : Newest(q) < n + 1
    <3> TAKE q \in Seq(Numbers)
    <3>1. q # <<>> => q[Len(q)] \in Numbers  BY SeqFacts
    <3> QED  BY <1>3, <3>1 DEF Newest
  <2> QED  BY <1>6, <2>1
<1>9. /\ ring' \in Seq(Numbers') /\ Len(ring') <= RingCap
      /\ Rising(ring') /\ \A k \in Among(ring') : Newest(taken) < k
  <2>1. /\ Rising(ring) /\ Len(ring) <= RingCap /\ Len(ring) \in Nat
        /\ \A k \in Among(ring) : Newest(taken) < k
    BY <1>6, SeqFacts DEF PoolInv, PoolTypeOK
  <2>2. CASE Len(ring) < RingCap
    <3>1. ring' = Append(ring, n + 1)
      BY <1>3, <2>2 DEF Produce
    <3>2. ring' \in Seq(Numbers') /\ Len(ring') = Len(ring) + 1
      BY <1>4, <1>6, <1>7, <3>1, AppendFacts
    <3>3. Rising(ring')
      BY <1>3, <1>6, <1>8, <2>1, <3>1, RisingAppend
    <3>4. Among(Append(ring, n + 1)) = Among(ring) \cup {n + 1}
      <4>1. n + 1 \in Nat /\ ring \in Seq(Nat)  BY <1>3, <1>6
      <4> QED  BY <4>1, AmongFacts
    <3> QED  BY <1>8, <2>1, <2>2, <3>1, <3>2, <3>3, <3>4, PoolAssumption
  <2>3. CASE ~(Len(ring) < RingCap)
    <3>1. ring' = ring  BY <2>3 DEF Produce
    <3> QED  BY <1>6, <1>7, <2>1, <3>1
  <2> QED  BY <2>2, <2>3
<1>10. PoolTypeOK'
  <2>1. samples' \in Seq([ts : 0 .. Width - 1, fast : BOOLEAN])
    BY <1>3 DEF T
  <2>2. /\ held' \in 0 .. Len(samples') /\ latest' \in 0 .. Len(samples')
        /\ shown'.latest \in 0 .. Len(samples')
    <3>1. held \in 0 .. n /\ latest \in 0 .. n /\ shown.latest \in 0 .. n
      BY DEF PoolInv, PoolTypeOK
    <3>2. 0 .. n \subseteq 0 .. Len(samples')  BY <1>3
    <3> QED  BY <1>5, <3>1, <3>2
  <2>3. /\ dpc' \in {"rest", "drain", "push"} /\ lastKept' \in 0 .. Width - 1
        /\ Len(history') <= HistoryCap
    BY <1>5 DEF PoolInv, PoolTypeOK
  <2>4. taken' \in Seq(Numbers') /\ history' \in Seq(Numbers') /\ shown'.history \in Seq(Numbers')
    BY <1>5, <1>6, <1>7
  <2> QED  BY <1>9, <2>1, <2>2, <2>3, <2>4 DEF PoolTypeOK
<1>11. SnapshotsInOrder'
  BY <1>5 DEF PoolInv, SnapshotsInOrder, Rising, Newest
<1>12. Handled' = Handled /\ Handled \subseteq Numbers
  BY <1>5, <1>6, HandledFacts, AmongFacts DEF Handled
<1>13. \A i \in DOMAIN history : history[i] \in Numbers
  BY <1>6, SeqFacts
<1>14. HistoryIsSampled'
  <2>1. \A i \in 1 .. Len(history) - 1 : i \in DOMAIN history /\ i + 1 \in DOMAIN history
    BY <1>6, SeqFacts
  <2>2. \A i \in 1 .. Len(history) - 1 :
          Minus(samples'[history[i + 1]].ts, samples'[history[i]].ts) >= Interval
    BY <1>4, <1>13, <2>1 DEF PoolInv, HistoryIsSampled
  <2>3. \A i \in DOMAIN history, k \in Handled :
          /\ k > history[i]
          /\ i < Len(history) => k < history[i + 1]
          => Minus(samples'[k].ts, samples'[history[i]].ts) < Interval
    BY <1>4, <1>12, <1>13 DEF PoolInv, HistoryIsSampled
  <2>4. history = <<>> => Handled = {}
    BY DEF PoolInv, HistoryIsSampled
  <2> QED
    BY <1>5, <1>12, <2>2, <2>3, <2>4 DEF HistoryIsSampled, Minus, Stamp
<1>15. \A k \in Numbers' : samples'[k].ts >= Interval
  <2>1. \A k \in Numbers' : k \in Numbers \/ k = n + 1  BY <1>3
  <2> QED  BY <1>1, <1>4, <2>1, PoolFacts
<1>16. /\ dpc' # "push" => lastKept' = IF history = <<>> THEN 0 ELSE samples'[Newest(history)].ts
       /\ dpc' = "push" =>
            /\ lastKept' = samples'[held].ts /\ Newest(history') < held'
            /\ history # <<>> => Minus(lastKept, samples'[Newest(history)].ts) >= Interval
  <2>1. history # <<>> => Newest(history) \in Numbers
    BY <1>6, SeqFacts DEF Newest
  <2>2. dpc = "push" => held \in Numbers
    <3> HAVE dpc = "push"
    <3>1. taken # <<>> /\ held = Newest(taken)  BY DEF PoolInv
    <3> QED  BY <1>6, <3>1, SeqFacts DEF Newest
  <2> QED  BY <1>4, <1>5, <2>1, <2>2 DEF PoolInv
<1>17. /\ dpc' # "rest" => taken' # <<>> /\ held' = Newest(taken')
       /\ latest' <= Newest(taken') /\ Newest(history') <= Newest(taken')
  BY <1>5 DEF PoolInv
<1>18. PoolInv'
  BY <1>5, <1>9, <1>10, <1>11, <1>14, <1>15, <1>16, <1>17
  DEF PoolInv, Newest, Minus, Stamp, Rising, Among
<1> QED  BY <1>3, <1>18

(* drain() takes the oldest sample of the ring, the newest it has taken. *)
LEMMA DrainTakeKeeps ==
  ASSUME PoolInv, DrainTake
  PROVE  PoolInv'
<1> PICK k : k = Head(ring)
  OBVIOUS
<1>1. /\ dpc \in {"rest", "drain"} /\ ring # <<>> /\ held' = k /\ ring' = Tail(ring)
      /\ taken' = Append(taken, k)
      /\ UNCHANGED <<samples, history, latest, shown>>
  BY DEF DrainTake
<1>2. \/ /\ DueForHistory(k) /\ lastKept' = Stamp(k) /\ dpc' = "push"
      \/ /\ ~DueForHistory(k) /\ lastKept' = lastKept /\ dpc' = "drain"
  BY <1>1 DEF DrainTake, Stamp, DueForHistory, Minus
<1>3. /\ Numbers \subseteq Nat /\ Numbers' = Numbers
      /\ ring \in Seq(Numbers) /\ ring \in Seq(Nat)
      /\ taken \in Seq(Numbers) /\ taken \in Seq(Nat)
      /\ history \in Seq(Nat) /\ latest \in Nat
      /\ \A i \in Numbers : Stamp(i) \in 0 .. Width - 1 /\ Stamp(i) >= Interval
  BY <1>1, PoolFacts DEF Numbers
<1> HIDE DEF Numbers
<1>4. k \in Numbers /\ k \in Among(ring) /\ Newest(taken) < k /\ k \in Nat
  <2>1. k \in Numbers  BY <1>1, <1>3, TailFacts
  <2>2. k \in Among(ring)  BY <1>1, <1>3, AmongFacts
  <2> QED  BY <1>3, <2>1, <2>2 DEF PoolInv
<1>5. /\ Rising(taken) /\ Rising(ring) /\ Rising(history) /\ Newest(history) \in Nat
      /\ latest <= Newest(taken) /\ Newest(history) <= Newest(taken)
      /\ Newest(taken) \in Nat
  BY <1>3, RisingNewest DEF PoolInv, SnapshotsInOrder
<1>6. /\ ring' \in Seq(Numbers) /\ Len(ring') <= RingCap
      /\ Rising(ring') /\ \A j \in Among(ring') : k < j
  <2>1. ring' \in Seq(Numbers) /\ Len(ring') = Len(ring) - 1 /\ Len(ring) \in Nat
    BY <1>1, <1>3, TailFacts
  <2>2. Rising(Tail(ring)) /\ \A j \in Among(Tail(ring)) : k < j
    BY <1>1, <1>3, <1>5, RisingTail
  <2>3. Len(ring) <= RingCap  BY DEF PoolInv, PoolTypeOK
  <2> QED  BY <1>1, <2>1, <2>2, <2>3, PoolAssumption
<1>7. /\ taken' \in Seq(Numbers) /\ taken' # <<>> /\ Rising(taken')
      /\ Newest(taken') = k /\ Among(taken') = Among(taken) \cup {k}
  <2>1. Append(taken, k) \in Seq(Numbers) /\ Append(taken, k) # <<>>
    <3>1. taken \in Seq(Numbers) /\ k \in Numbers  BY <1>3, <1>4
    <3> QED  BY <3>1, AppendFacts
  <2>2. Rising(Append(taken, k)) /\ Newest(Append(taken, k)) = k
    BY <1>3, <1>4, <1>5, RisingAppend
  <2>3. Among(Append(taken, k)) = Among(taken) \cup {k}
    BY <1>3, <1>4, AmongFacts
  <2> QED  BY <1>1, <2>1, <2>2, <2>3
<1>8. PoolTypeOK'
  <2>1. held' \in 0 .. Len(samples') /\ lastKept' \in 0 .. Width - 1
    <3>1. Stamp(k) \in 0 .. Width - 1 /\ lastKept \in 0 .. Width - 1
      BY <1>3, <1>4 DEF PoolInv, PoolTypeOK
    <3>2. k \in 0 .. Len(samples)  BY <1>4, PoolFacts
    <3> QED  BY <1>1, <1>2, <3>1, <3>2
  <2>2. dpc' \in {"rest", "drain", "push"}  BY <1>2
  <2> QED  BY <1>1, <1>3, <1>6, <1>7, <2>1, <2>2 DEF PoolInv, PoolTypeOK
<1>9. SnapshotsInOrder'
  <2>1. Rising(history)' /\ Rising(shown.history)' /\ Rising(taken)'
    BY <1>1, <1>7 DEF PoolInv, SnapshotsInOrder, Rising
  <2>2. /\ shown'.latest <= latest' /\ Newest(shown.history)' <= Newest(history)'
    BY <1>1 DEF PoolInv, SnapshotsInOrder, Newest
  <2> QED  BY <1>2, <2>1, <2>2 DEF SnapshotsInOrder
<1>10. Handled = Among(taken) /\ Thinned(history, Handled) /\ (history = <<>> => Handled = {})
  BY <1>1, HandledFacts, ThinnedIsSampled DEF PoolInv
<1>11. \A i \in DOMAIN history : history[i] < k
  <2> TAKE i \in DOMAIN history
  <2>1. history[i] \in Among(history) /\ history[i] \in Nat  BY <1>3, SeqFacts DEF Among
  <2> QED  BY <1>3, <1>4, <1>5, <2>1, RisingNewest
<1>12. lastKept = IF history = <<>> THEN 0 ELSE Stamp(Newest(history))
  BY <1>1 DEF PoolInv
<1>13. /\ \A j \in Numbers' : Stamp(j)' >= Interval
       /\ Rising(ring)' /\ \A j \in Among(ring)' : Newest(taken)' < j
       /\ taken' # <<>> /\ held' = Newest(taken)'
       /\ latest' <= Newest(taken)' /\ Newest(history)' <= Newest(taken)'
  <2>1. \A j \in Numbers' : Stamp(j)' >= Interval
    BY <1>1, <1>3 DEF Stamp
  <2>2. /\ Newest(taken') = Newest(taken)' /\ Among(ring') = Among(ring)'
        /\ Newest(history)' = Newest(history)
    BY <1>1 DEF Newest, Among
  <2>3. latest <= k /\ Newest(history) <= k  BY <1>3, <1>4, <1>5
  <2> QED  BY <1>1, <1>6, <1>7, <2>1, <2>2, <2>3 DEF Rising
<1>14. CASE dpc' = "push"
  <2>1. DueForHistory(k) /\ lastKept' = Stamp(k)  BY <1>2, <1>14
  <2>2. Handled' = Among(taken)
    <3>1. Handled' = {Append(taken, k)[i] : i \in 1 .. Len(Append(taken, k)) - 1}
      BY <1>1, <1>14 DEF Handled
    <3>2. /\ Len(Append(taken, k)) - 1 = Len(taken) /\ DOMAIN taken = 1 .. Len(taken)
          /\ \A i \in 1 .. Len(taken) : Append(taken, k)[i] = taken[i]
      BY <1>3, <1>4, AppendFacts
    <3> QED  BY <3>1, <3>2 DEF Among
  <2>3. HistoryIsSampled'
    BY <1>1, <1>10, <2>2 DEF HistoryIsSampled, Thinned, Stamp
  <2>4. history # <<>> => Minus(Stamp(k), Stamp(Newest(history))) >= Interval
    BY <1>12, <2>1 DEF DueForHistory
  <2>5. Newest(history) < k  BY <1>3, <1>4, <1>5
  <2>6. /\ lastKept' = Stamp(held)' /\ Newest(history)' < held'
        /\ history' # <<>> => Minus(lastKept', Stamp(Newest(history))') >= Interval
    BY <1>1, <2>1, <2>4, <2>5 DEF Stamp, Newest
  <2> QED
    BY <1>8, <1>9, <1>13, <1>14, <2>3, <2>6 DEF PoolInv, Minus
<1>15. CASE dpc' = "drain"
  <2>1. ~DueForHistory(k) /\ lastKept' = lastKept  BY <1>2, <1>15
  <2>2. Stamp(k) \in 0 .. Width - 1 /\ Stamp(k) >= Interval  BY <1>3, <1>4
  <2>3. history # <<>>
    BY <1>12, <2>1, <2>2, MinusZero, PoolAssumption DEF DueForHistory
  <2>4. Minus(Stamp(k), Stamp(Newest(history))) < Interval
    <3>1. Minus(Stamp(k), lastKept) \in Int
      BY <1>3, <1>4, <2>2, PoolAssumption DEF Minus, PoolInv, PoolTypeOK
    <3> QED  BY <1>12, <2>1, <2>3, <3>1, PoolAssumption DEF DueForHistory
  <2>5. Thinned(history, Among(taken) \cup {k})
    BY <1>3, <1>4, <1>10, <1>11, <2>3, <2>4, ThinnedSkip
  <2>6. Handled' = Among(taken) \cup {k}
    BY <1>1, <1>3, <1>7, <1>15, SeqFacts DEF Handled, Among
  <2>7. HistoryIsSampled'
    BY <1>1, <2>3, <2>5, <2>6 DEF HistoryIsSampled, Thinned, Stamp
  <2>8. lastKept' = IF history' = <<>> THEN 0 ELSE Stamp(Newest(history))'
    BY <1>1, <1>12, <2>1 DEF Stamp, Newest
  <2> QED
    BY <1>8, <1>9, <1>13, <1>15, <2>7, <2>8 DEF PoolInv
<1> QED  BY <1>2, <1>14, <1>15

(* It puts the sample into the history, from which the oldest may fall. *)
LEMMA DrainPushKeeps ==
  ASSUME PoolInv, DrainPush
  PROVE  PoolInv'
<1>1. /\ dpc = "push" /\ dpc' = "drain"
      /\ UNCHANGED <<samples, ring, held, lastKept, latest, taken, shown>>
  BY DEF DrainPush
<1> DEFINE kept == IF Len(history) < HistoryCap THEN history ELSE Tail(history)
<1>2. history' = Append(kept, held)
  BY DEF DrainPush
<1>3. /\ Numbers' = Numbers /\ Numbers \subseteq Nat /\ history \in Seq(Numbers)
      /\ history \in Seq(Nat) /\ taken \in Seq(Numbers) /\ taken \in Seq(Nat) /\ latest \in Nat
  BY <1>1, PoolFacts DEF Numbers
<1> HIDE DEF Numbers
<1>4. /\ held = Newest(taken) /\ taken # <<>> /\ Rising(taken) /\ Rising(history)
      /\ held \in Among(taken) /\ held \in Numbers /\ held \in Nat
      /\ \A k \in Among(taken) : k <= held
      /\ lastKept = Stamp(held) /\ Newest(history) < held /\ Newest(history) \in Nat
      /\ history # <<>> => Minus(Stamp(held), Stamp(Newest(history))) >= Interval
  BY <1>1, <1>3, RisingNewest, AmongFacts DEF PoolInv, SnapshotsInOrder
<1>5. Thinned(history, Handled)  BY ThinnedIsSampled DEF PoolInv
<1>6. /\ kept \in Seq(Numbers) /\ kept \in Seq(Nat) /\ Len(kept) < HistoryCap
      /\ Rising(kept) /\ Thinned(kept, Handled) /\ Newest(kept) <= Newest(history)
      /\ kept # <<>> => history # <<>> /\ Newest(kept) = Newest(history)
  <2>1. CASE Len(history) < HistoryCap
    BY <1>3, <1>4, <1>5, <2>1
  <2>2. CASE ~(Len(history) < HistoryCap)
    <3>1. Len(history) <= HistoryCap /\ Len(history) \in Nat
      BY <1>3, SeqFacts DEF PoolInv, PoolTypeOK
    <3>2. Len(history) = HistoryCap /\ history # <<>> /\ kept = Tail(history)
      BY <1>3, <2>2, <3>1, PoolAssumption, SeqFacts
    <3>3. Tail(history) \in Seq(Numbers) /\ Tail(history) \in Seq(Nat)
          /\ Len(Tail(history)) < HistoryCap
      BY <1>3, <3>1, <3>2, TailFacts
    <3>4. Thinned(Tail(history), Handled)
      BY <1>3, <1>5, <3>2, ThinnedTail
    <3> HIDE DEF kept
    <3> QED  BY <1>3, <1>4, <3>2, <3>3, <3>4, RisingTail
  <2> QED  BY <2>1, <2>2
<1> HIDE DEF kept
<1>7. Newest(kept) < held /\ Newest(kept) \in Nat
  BY <1>4, <1>6, RisingNewest
<1>8. /\ history' \in Seq(Numbers) /\ Len(history') <= HistoryCap /\ history' # <<>>
      /\ Rising(history') /\ Newest(history') = held
  <2>1. /\ Append(kept, held) \in Seq(Numbers) /\ Len(Append(kept, held)) = Len(kept) + 1
        /\ Len(kept) \in Nat /\ Append(kept, held) # <<>>
    BY <1>4, <1>6, AppendFacts
  <2>2. Rising(Append(kept, held)) /\ Newest(Append(kept, held)) = held
    BY <1>4, <1>6, <1>7, RisingAppend
  <2> QED  BY <1>2, <1>6, <2>1, <2>2, PoolAssumption
<1>9. Handled' = Handled \cup {held}
  <2>1. Among(taken) = Handled \cup {held}  BY <1>1, HandledFacts
  <2>2. Handled' = Among(taken)  BY <1>1, <1>3, SeqFacts DEF Handled, Among
  <2> QED  BY <2>1, <2>2
<1>10. Thinned(Append(kept, held), Handled \cup {held})
  <2>1. \A i \in DOMAIN kept : kept[i] < held
    <3> TAKE i \in DOMAIN kept
    <3>1. kept[i] \in Among(kept) /\ kept[i] \in Nat  BY <1>6, SeqFacts DEF Among
    <3> QED  BY <1>4, <1>6, <1>7, <3>1, RisingNewest
  <2>2. Handled \in SUBSET Nat /\ \A k \in Handled : k <= held
    BY <1>4, HandledFacts
  <2>3. kept # <<>> => Minus(Stamp(held), Stamp(Newest(kept))) >= Interval
    BY <1>4, <1>6
  <2> QED  BY <1>4, <1>6, <2>1, <2>2, <2>3, ThinnedAppend
<1>11. HistoryIsSampled'
  BY <1>1, <1>2, <1>8, <1>9, <1>10 DEF HistoryIsSampled, Thinned, Stamp
<1>12. PoolTypeOK'
  <2>1. dpc' \in {"rest", "drain", "push"}  BY <1>1
  <2> QED  BY <1>1, <1>3, <1>8, <2>1 DEF PoolInv, PoolTypeOK
<1>13. SnapshotsInOrder'
  <2>1. Newest(shown.history) <= Newest(history) /\ shown.latest <= latest
        /\ Rising(shown.history) /\ shown.history \in Seq(Nat)
    BY PoolFacts DEF PoolInv, SnapshotsInOrder
  <2>2. Newest(shown.history) \in Nat  BY <2>1, RisingNewest
  <2>3. Newest(shown.history) <= Newest(history')
    BY <1>4, <1>8, <2>1, <2>2
  <2> QED
    BY <1>1, <1>4, <1>8, <2>1, <2>3 DEF SnapshotsInOrder, Newest, Rising
<1>14. lastKept' = Stamp(Newest(history'))
  BY <1>1, <1>4, <1>8
<1> QED
  BY <1>1, <1>3, <1>4, <1>8, <1>11, <1>12, <1>13, <1>14
  DEF PoolInv, Stamp, Newest, Rising, Among

(* It finds the ring empty: what it holds is the latest sample. *)
LEMMA DrainEmptyKeeps ==
  ASSUME PoolInv, DrainEmpty
  PROVE  PoolInv'
<1>1. /\ dpc = "drain" /\ dpc' = "rest" /\ latest' = held /\ held' = 0
      /\ UNCHANGED <<samples, ring, lastKept, history, taken, shown>>
  BY DEF DrainEmpty
<1>2. held = Newest(taken) /\ taken # <<>> /\ held \in 0 .. Len(samples) /\ held \in Nat
  BY <1>1, PoolFacts DEF PoolInv, PoolTypeOK
<1>3. PoolTypeOK'
  <2>1. 0 \in 0 .. Len(samples)  BY PoolFacts
  <2> QED  BY <1>1, <1>2, <2>1 DEF PoolInv, PoolTypeOK, Numbers
<1>4. SnapshotsInOrder'
  <2>1. /\ shown.latest \in Nat /\ latest \in Nat /\ Newest(history) \in Nat
        /\ shown.latest <= latest /\ latest <= held /\ Newest(history) <= held
    BY <1>2, PoolFacts, RisingNewest DEF PoolInv, SnapshotsInOrder
  <2>2. shown.latest <= held /\ ~(held < Newest(history))  BY <1>2, <2>1
  <2> QED  BY <1>1, <1>2, <2>2 DEF PoolInv, SnapshotsInOrder, Newest, Rising
<1>5. HistoryIsSampled'
  <2>1. Handled' = Handled  BY <1>1 DEF Handled
  <2> QED  BY <1>1, <2>1 DEF PoolInv, HistoryIsSampled, Stamp
<1> QED
  BY <1>1, <1>2, <1>3, <1>4, <1>5 DEF PoolInv, Numbers, Stamp, Newest, Rising, Among

LEMMA SnapshotKeeps ==
  ASSUME PoolInv, TakeSnapshot
  PROVE  PoolInv'
<1>1. /\ shown'.latest = latest /\ shown'.history = history
      /\ UNCHANGED <<samples, ring, dpc, held, lastKept, history, latest, taken>>
  BY DEF TakeSnapshot
<1>2. PoolTypeOK'
  BY <1>1 DEF PoolInv, PoolTypeOK, Numbers
<1>3. SnapshotsInOrder'
  <2>1. latest \in Nat /\ Newest(history) \in Nat
    BY PoolFacts, RisingNewest DEF PoolInv, SnapshotsInOrder
  <2> QED  BY <1>1, <2>1 DEF PoolInv, SnapshotsInOrder, Newest, Rising
<1>4. HistoryIsSampled'
  <2>1. Handled' = Handled  BY <1>1 DEF Handled
  <2> QED  BY <1>1, <2>1 DEF PoolInv, HistoryIsSampled, Stamp
<1> QED
  BY <1>1, <1>2, <1>3, <1>4 DEF PoolInv, Numbers, Stamp, Newest, Rising, Among

----------------------------------------------------------------------------
(* The queues of the bus, the page and the alarms.                         *)

(* Put() keeps a rising queue of numbers of S. *)
LEMMA PutFacts ==
  ASSUME NEW S, S \subseteq Nat, NEW q \in Seq(S), NEW k \in S, Len(q) <= QueueCap
  PROVE  /\ Put(q, k) \in Seq(S) /\ Len(Put(q, k)) <= QueueCap
         /\ Among(q) \subseteq Among(Put(q, k)) /\ Among(Put(q, k)) \subseteq Among(q) \cup {k}
         /\ Rising(q) /\ (\A j \in Among(q) : j < k) /\ 0 < k => Rising(Put(q, k))
<1>1. Len(q) \in Nat /\ q \in Seq(Nat) /\ QueueCap \in Nat /\ k \in Nat
  BY SeqFacts, SeqGrows, DashboardAssumption
<1>2. CASE Len(q) < QueueCap
  <2>1. Put(q, k) = Append(q, k)  BY <1>2 DEF Put
  <2>2. Append(q, k) \in Seq(S) /\ Len(Append(q, k)) = Len(q) + 1
    BY AppendFacts
  <2>3. Among(Append(q, k)) = Among(q) \cup {k}
    BY AmongFacts
  <2>4. ASSUME Rising(q), \A j \in Among(q) : j < k, 0 < k PROVE Rising(Append(q, k))
    <3>1. Newest(q) < k
      <4>1. CASE q = <<>>  BY <2>4, <4>1 DEF Newest
      <4>2. CASE q # <<>>  BY <1>1, <2>4, <4>2, RisingNewest
      <4> QED  BY <4>1, <4>2
    <3> QED  BY <1>1, <2>4, <3>1, RisingAppend
  <2> QED  BY <1>1, <1>2, <2>1, <2>2, <2>3, <2>4
<1>3. CASE ~(Len(q) < QueueCap)
  <2>1. Put(q, k) = q  BY <1>3 DEF Put
  <2> QED  BY <2>1
<1> QED  BY <1>2, <1>3

(* Taking the oldest message off a queue. *)
LEMMA TakeFacts ==
  ASSUME NEW S, S \subseteq Nat, NEW q \in Seq(S), q # <<>>, Rising(q), Len(q) <= QueueCap
  PROVE  /\ Tail(q) \in Seq(S) /\ Len(Tail(q)) <= QueueCap /\ Rising(Tail(q))
         /\ Head(q) \in Among(q) /\ Head(q) \in S /\ Head(q) \in Nat
         /\ Among(Tail(q)) \subseteq Among(q) /\ Among(q) \subseteq S
         /\ \A k \in Among(Tail(q)) : Head(q) < k
<1>1. q \in Seq(Nat) /\ QueueCap \in Nat  BY SeqGrows, DashboardAssumption
<1>2. /\ Tail(q) \in Seq(S) /\ Len(Tail(q)) = Len(q) - 1 /\ Len(q) \in Nat /\ Head(q) \in S
  BY TailFacts
<1>3. Rising(Tail(q)) /\ \A k \in Among(Tail(q)) : Head(q) < k
  BY <1>1, RisingTail
<1>4. Head(q) \in Among(q) /\ Among(Tail(q)) \subseteq Among(q) /\ Among(q) \subseteq S
  BY AmongFacts
<1> QED  BY <1>1, <1>2, <1>3, <1>4

(* The parts of the invariant besides the pool. *)
SourceInv ==
  /\ source \in {"openCan", "openShm", "can", "shm", "generator"}
  /\ tries \in 0 .. OpenTries - 1 /\ lastFast \in BOOLEAN
  /\ publishing \in {0, Len(samples)} /\ setBack \in BOOLEAN
  /\ wall \in FirstStamp - (IF setBack THEN 1 ELSE 0) .. FirstStamp + MaxWall

QueueTypes ==
  /\ busQueue \in Seq(Numbers) /\ Len(busQueue) <= QueueCap
  /\ wsQueue \in Seq(Numbers) /\ Len(wsQueue) <= QueueCap
  /\ alarmQueue \in Seq(Numbers) /\ Len(alarmQueue) <= QueueCap
  /\ merged \in 0 .. Len(samples) /\ alarms \in 0 .. Len(samples)

InOrder(bus, ws, alarm, new, shownLast, raised) ==
  /\ Rising(bus) /\ Rising(ws) /\ Rising(alarm)
  /\ new # 0 =>
       /\ \A k \in Among(bus) \cup Among(ws) \cup Among(alarm) : k < new
       /\ shownLast < new /\ raised < new
  /\ \A k \in Among(bus), j \in Among(ws) \cup Among(alarm) : j < k
  /\ \A k \in Among(bus) \cup Among(ws) : shownLast < k
  /\ \A k \in Among(bus) \cup Among(alarm) : raised < k

QueueOrder == InOrder(busQueue, wsQueue, alarmQueue, publishing, merged, alarms)

LEMMA OrderNext ==
  InOrder(busQueue', wsQueue', alarmQueue', publishing', merged', alarms') => QueueOrder'
BY DEF QueueOrder, InOrder, Rising, Among

PageInv ==
  /\ wpc \in {"take", "check"} /\ dueTicks \in 0 .. MaxLate
  /\ page \in 0 .. Len(samples)
  /\ deferred \in Seq(0 .. Len(samples)) /\ dueTicks + Len(deferred) <= MaxLate
  /\ \A i \in DOMAIN deferred : page <= deferred[i] /\ deferred[i] <= merged
  /\ page <= merged
  /\ \A i, j \in DOMAIN deferred : i < j => deferred[i] <= deferred[j]

ClockInv == sinceAlarm \in 0 .. Cooldown /\ sinceRaised \in 0 .. Cooldown

(* No clock ever shows less than an interval. *)
LEMMA WallFacts ==
  ASSUME SourceInv
  PROVE  wall \in Interval .. Width - 1 /\ wall \in 0 .. Width - 1
BY PoolAssumption, DashboardAssumption DEF SourceInv

LEMMA ViewsParts ==
  ViewsInv <=> PoolInv /\ SourceInv /\ QueueTypes /\ QueueOrder /\ PageInv /\ ClockInv
<1>1. ASSUME ViewsInv
      PROVE  PoolInv /\ SourceInv /\ QueueTypes /\ QueueOrder /\ PageInv /\ ClockInv
  <2> USE <1>1 DEF ViewsInv, ViewsInOrder, DashboardTypeOK
  <2>1. PoolInv /\ SourceInv /\ ClockInv  BY DEF SourceInv, ClockInv
  <2>2. QueueTypes  BY DEF QueueTypes
  <2>3. QueueOrder  BY DEF QueueOrder, InOrder
  <2>4. PageInv  BY DEF PageInv
  <2> QED  BY <2>1, <2>2, <2>3, <2>4
<1>2. ASSUME PoolInv, SourceInv, QueueTypes, QueueOrder, PageInv, ClockInv
      PROVE  ViewsInv
  <2>1. DashboardTypeOK
    BY <1>2, WallFacts DEF DashboardTypeOK, PoolInv, SourceInv, QueueTypes, PageInv, ClockInv
  <2>2. ViewsInOrder
    BY <1>2, <2>1 DEF ViewsInOrder, PoolInv, QueueOrder, InOrder, PageInv
  <2> QED
    BY <1>2, <2>2 DEF ViewsInv, SourceInv, QueueOrder, InOrder, PageInv
<1> QED  BY <1>1, <1>2

LEMMA ViewsPartsNext ==
  PoolInv' /\ SourceInv' /\ QueueTypes' /\ QueueOrder' /\ PageInv' /\ ClockInv' => ViewsInv'
BY ViewsParts, PTL

LEMMA ViewsInit == Init => ViewsInv
<1> SUFFICES ASSUME Init PROVE ViewsInv  OBVIOUS
<1> USE DEF Init
<1>1. PoolInv  BY PoolStarts
<1>2. ClockInv  BY DashboardAssumption DEF ClockInv
<1>7. SourceInv
  <2>1. wall \in FirstStamp - (IF setBack THEN 1 ELSE 0) .. FirstStamp + MaxWall
    BY DashboardAssumption
  <2>2. tries \in 0 .. OpenTries - 1  BY DashboardAssumption
  <2> QED  BY <2>1, <2>2 DEF SourceInv
<1>3. /\ Len(samples) = 0 /\ Among(<<>>) = {} /\ Rising(<<>>)
      /\ \A S : <<>> \in Seq(S)
  BY DEF PoolInit, Among, Rising
<1>4. QueueTypes  BY <1>3, DashboardAssumption DEF QueueTypes
<1>5. QueueOrder  BY <1>3 DEF QueueOrder, InOrder
<1>6. PageInv  BY <1>3, DashboardAssumption DEF PageInv
<1> QED  BY <1>1, <1>2, <1>7, <1>4, <1>5, <1>6, ViewsParts

(* A step makes a sample, or leaves the samples alone. *)
Making ==
  \E ts \in ShmStamps \cup {wall}, fast \in BOOLEAN :
    MakeSample(ts, fast) /\ lastFast' \in {lastFast, fast}

LEMMA MakingKinds ==
  ASSUME [Next]_vars
  PROVE  \/ Making
         \/ samples' = samples
<1>1. CASE CanFrame \/ ShmSample \/ Generate
  BY <1>1 DEF Making, CanFrame, ShmSample, Generate
<1>2. CASE Clocks \/ OpenCan \/ OpenShm \/ Publish \/ Dispatch \/ AlarmConsume
  BY <1>2 DEF Clocks, Tick, SetClockBack, OpenCan, OpenShm, Publish, Dispatch, AlarmConsume
<1>3. CASE Consumer \/ HttpGet
  BY <1>3 DEF Consumer, Drain, DrainTake, DrainPush, DrainEmpty, HttpGet, TakeSnapshot
<1>4. CASE PageStep
  BY <1>4 DEF PageStep, WsConsume, WsTimeout, WsCheck, Broadcast
<1>5. CASE UNCHANGED vars
  BY <1>5 DEF vars
<1> QED  BY <1>1, <1>2, <1>3, <1>4, <1>5 DEF Next, Source

LEMMA MakingKeeps ==
  ASSUME ViewsInv, Making
  PROVE  ViewsInv'
<1>1. PICK ts \in ShmStamps \cup {wall}, fast \in BOOLEAN :
        MakeSample(ts, fast) /\ lastFast' \in {lastFast, fast}
  BY DEF Making
<1>2. PoolInv /\ SourceInv /\ QueueTypes /\ QueueOrder /\ PageInv /\ ClockInv
  BY ViewsParts
<1> PICK n : n = Len(samples)  OBVIOUS
<1>3. ts \in Interval .. Width - 1  BY <1>2, WallFacts, DashboardAssumption
<1>4. Produce([ts |-> ts, fast |-> fast])  BY <1>1 DEF MakeSample
<1>5. /\ PoolInv' /\ Len(samples') = n + 1 /\ n \in Nat
      /\ Numbers = 1 .. n /\ Numbers' = 1 .. (n + 1)
  <2>1. PoolInv' /\ Len(samples') = Len(samples) + 1  BY <1>2, <1>3, <1>4, ProduceKeeps
  <2> QED  BY <1>2, <2>1, PoolFacts DEF Numbers
<1>6. /\ publishing = 0 /\ publishing' = n + 1 /\ UNCHANGED <<source, tries, clockVars, pageVars>>
      /\ SourceInv'
  BY <1>1, <1>2, <1>5 DEF MakeSample, SourceInv, clockVars
<1>7. UNCHANGED <<busQueue, wsQueue, alarmQueue, wpc, merged, dueTicks, deferred, page,
                  sinceAlarm, alarms, sinceRaised>>
  BY <1>6 DEF pageVars, busVars, wsVars, alarmVars
<1>8. ClockInv'  BY <1>2, <1>7 DEF ClockInv
<1>9. /\ \A q \in Seq(Numbers) : q \in Seq(Numbers')
      /\ \A q \in Seq(0 .. n) : q \in Seq(0 .. (n + 1))
  <2>1. Numbers \subseteq Numbers' /\ 0 .. n \subseteq 0 .. (n + 1)  BY <1>5
  <2> QED  BY <2>1, SeqGrows
<1>10. QueueTypes'
  <2>1. merged \in 0 .. (n + 1) /\ alarms \in 0 .. (n + 1)
    BY <1>2, <1>5 DEF QueueTypes
  <2> QED  BY <1>2, <1>5, <1>7, <1>9, <2>1 DEF QueueTypes
<1>11. QueueOrder'
  <2>1. \A k \in Among(busQueue) \cup Among(wsQueue) \cup Among(alarmQueue) : k < n + 1
    <3>1. \A q \in Seq(Numbers) : Among(q) \subseteq Numbers  BY AmongFacts
    <3> QED  BY <1>2, <1>5, <3>1 DEF QueueTypes
  <2>2. merged < n + 1 /\ alarms < n + 1  BY <1>2, <1>5 DEF QueueTypes
  <2> QED  BY <1>2, <1>6, <1>7, <2>1, <2>2, OrderNext DEF QueueOrder, InOrder
<1>12. PageInv'
  <2>1. page \in 0 .. (n + 1)  BY <1>2, <1>5 DEF PageInv
  <2>2. deferred \in Seq(0 .. (n + 1))  BY <1>2, <1>9 DEF PageInv
  <2> QED  BY <1>2, <1>5, <1>7, <2>1, <2>2 DEF PageInv
<1> QED  BY <1>5, <1>6, <1>8, <1>10, <1>11, <1>12, ViewsPartsNext

(* The other steps, part by part. *)
LEMMA OtherPool ==
  ASSUME ViewsInv, [Next]_vars, ~Making
  PROVE  PoolInv'
<1>1. PoolInv  BY ViewsParts
<1>2. CASE Clocks \/ OpenCan \/ OpenShm \/ Publish \/ Dispatch \/ AlarmConsume
  BY <1>1, <1>2, PoolUnchanged
  DEF Clocks, Tick, SetClockBack, OpenCan, OpenShm, Publish, Dispatch, AlarmConsume
<1>3. CASE PageStep
  BY <1>1, <1>3, PoolUnchanged DEF PageStep, WsConsume, WsTimeout, WsCheck, Broadcast
<1>4. CASE UNCHANGED vars
  BY <1>1, <1>4, PoolUnchanged DEF vars
<1>5. CASE Consumer \/ HttpGet
  BY <1>1, <1>5, DrainTakeKeeps, DrainPushKeeps, DrainEmptyKeeps, SnapshotKeeps
  DEF Consumer, Drain, HttpGet
<1>6. CASE CanFrame \/ ShmSample \/ Generate
  BY <1>6 DEF Making, CanFrame, ShmSample, Generate
<1> QED  BY <1>2, <1>3, <1>4, <1>5, <1>6 DEF Next, Source

LEMMA OtherSource ==
  ASSUME ViewsInv, [Next]_vars, ~Making
  PROVE  SourceInv'
<1>1. SourceInv /\ samples' = samples  BY ViewsParts, MakingKinds
<1>2. CASE Tick
  <2>1. UNCHANGED <<source, tries, lastFast, publishing, setBack>>
    BY <1>2 DEF Tick, sourceVars
  <2>2. wall' \in FirstStamp - (IF setBack THEN 1 ELSE 0) .. FirstStamp + MaxWall
    BY <1>1, <1>2, DashboardAssumption DEF Tick, SourceInv
  <2> QED  BY <1>1, <2>1, <2>2 DEF SourceInv
<1>3. CASE SetClockBack
  <2>1. /\ UNCHANGED <<source, tries, lastFast, publishing>>
        /\ ~setBack /\ setBack' = TRUE /\ wall' = wall - 1
    BY <1>3 DEF SetClockBack, sourceVars
  <2>2. wall' \in FirstStamp - 1 .. FirstStamp + MaxWall
    BY <1>1, <2>1, DashboardAssumption DEF SourceInv
  <2> QED  BY <1>1, <2>1, <2>2 DEF SourceInv
<1>4. CASE OpenCan \/ OpenShm
  BY <1>1, <1>4, DashboardAssumption DEF OpenCan, OpenShm, SourceInv, clockVars
<1>5. CASE Publish
  BY <1>1, <1>5 DEF Publish, SourceInv, clockVars
<1>6. CASE UNCHANGED <<sourceVars, clockVars>>
  BY <1>1, <1>6 DEF SourceInv, sourceVars, clockVars
<1>7. CASE Dispatch \/ AlarmConsume \/ Consumer \/ HttpGet
  BY <1>6, <1>7 DEF Dispatch, AlarmConsume, Consumer, HttpGet
<1>8. CASE PageStep
  BY <1>6, <1>8 DEF PageStep, WsConsume, WsTimeout, WsCheck, Broadcast
<1>9. CASE UNCHANGED vars
  BY <1>6, <1>9 DEF vars
<1>10. CASE CanFrame \/ ShmSample \/ Generate
  BY <1>10 DEF Making, CanFrame, ShmSample, Generate
<1> QED
  BY <1>2, <1>3, <1>4, <1>5, <1>7, <1>8, <1>9, <1>10 DEF Next, Clocks, Source

LEMMA OtherQueues ==
  ASSUME ViewsInv, [Next]_vars, ~Making
  PROVE  QueueTypes' /\ QueueOrder'
<1>1. /\ QueueTypes /\ QueueOrder /\ SourceInv /\ samples' = samples
      /\ Len(samples) \in Nat /\ Numbers = 1 .. Len(samples) /\ Numbers' = Numbers
      /\ Numbers \subseteq Nat
  BY ViewsParts, MakingKinds, PoolFacts DEF Numbers
<1>2. /\ Among(busQueue) \subseteq Numbers /\ Among(wsQueue) \subseteq Numbers
      /\ Among(alarmQueue) \subseteq Numbers /\ merged \in Nat /\ alarms \in Nat
  BY <1>1, AmongFacts DEF QueueTypes
<1> HIDE DEF Numbers
<1>3. /\ busQueue \in Seq(Numbers) /\ Len(busQueue) <= QueueCap /\ Rising(busQueue)
      /\ wsQueue \in Seq(Numbers) /\ Len(wsQueue) <= QueueCap /\ Rising(wsQueue)
      /\ alarmQueue \in Seq(Numbers) /\ Len(alarmQueue) <= QueueCap /\ Rising(alarmQueue)
      /\ merged \in 0 .. Len(samples) /\ alarms \in 0 .. Len(samples)
      /\ Numbers \subseteq Nat
  BY <1>1 DEF QueueTypes, QueueOrder, InOrder
<1>4. InOrder(busQueue, wsQueue, alarmQueue, publishing, merged, alarms)
  BY <1>1 DEF QueueOrder
<1>5. CASE Publish
  <2> PICK k : k = publishing  OBVIOUS
  <2> PICK q : q = Put(busQueue, k)  OBVIOUS
  <2>1. /\ k # 0 /\ busQueue' = q /\ publishing' = 0
        /\ UNCHANGED <<wsQueue, alarmQueue, merged, alarms>>
    BY <1>5 DEF Publish, wsVars, alarmVars
  <2>2. k \in Numbers /\ k \in Nat /\ 0 < k  BY <1>1, <2>1 DEF SourceInv
  <2>3. \A j \in Among(busQueue) : j < k  BY <1>4, <2>1 DEF InOrder
  <2>4. /\ q \in Seq(Numbers) /\ Len(q) <= QueueCap /\ Rising(q)
        /\ Among(q) \subseteq Among(busQueue) \cup {k}
    BY <1>3, <2>2, <2>3, PutFacts
  <2>5. QueueTypes'  BY <1>1, <1>3, <2>1, <2>4 DEF QueueTypes
  <2>6. InOrder(q, wsQueue, alarmQueue, 0, merged, alarms)
    BY <1>4, <2>1, <2>4 DEF InOrder
  <2> QED  BY <2>1, <2>5, <2>6, OrderNext
<1>6. CASE Dispatch
  <2> PICK k : k = Head(busQueue)  OBVIOUS
  <2> PICK q : q = Tail(busQueue)  OBVIOUS
  <2> PICK w : w = Put(wsQueue, k)  OBVIOUS
  <2> PICK a : a = Put(alarmQueue, k)  OBVIOUS
  <2>1. /\ busQueue # <<>> /\ busQueue' = q /\ wsQueue' = w /\ alarmQueue' = a
        /\ UNCHANGED <<publishing, merged, alarms>>
    BY <1>6 DEF Dispatch, wsVars, alarmVars, sourceVars
  <2>2. /\ q \in Seq(Numbers) /\ Len(q) <= QueueCap /\ Rising(q)
        /\ k \in Among(busQueue) /\ k \in Numbers /\ k \in Nat
        /\ Among(q) \subseteq Among(busQueue)
        /\ \A j \in Among(q) : k < j
    BY <1>3, <2>1, TakeFacts
  <2>3. \A j \in Among(wsQueue) \cup Among(alarmQueue) : j < k
    BY <1>4, <2>2 DEF InOrder
  <2>4. 0 < k  BY <1>1, <2>2
  <2>5. /\ w \in Seq(Numbers) /\ Len(w) <= QueueCap /\ Rising(w)
        /\ Among(w) \subseteq Among(wsQueue) \cup {k}
    BY <1>3, <2>2, <2>3, <2>4, PutFacts
  <2>6. /\ a \in Seq(Numbers) /\ Len(a) <= QueueCap /\ Rising(a)
        /\ Among(a) \subseteq Among(alarmQueue) \cup {k}
    BY <1>3, <2>2, <2>3, <2>4, PutFacts
  <2>7. QueueTypes'  BY <1>1, <1>3, <2>1, <2>2, <2>5, <2>6 DEF QueueTypes
  <2>8. InOrder(q, w, a, publishing, merged, alarms)
    BY <1>4, <2>2, <2>5, <2>6 DEF InOrder
  <2> QED  BY <2>1, <2>7, <2>8, OrderNext
<1>7. CASE WsConsume
  <2> PICK k : k = Head(wsQueue)  OBVIOUS
  <2> PICK w : w = Tail(wsQueue)  OBVIOUS
  <2>1. /\ wsQueue # <<>> /\ wsQueue' = w /\ merged' = k
        /\ UNCHANGED <<publishing, busQueue, alarmQueue, alarms>>
    BY <1>7 DEF WsConsume, alarmVars, sourceVars
  <2>2. /\ w \in Seq(Numbers) /\ Len(w) <= QueueCap /\ Rising(w)
        /\ k \in Among(wsQueue) /\ k \in Numbers
        /\ Among(w) \subseteq Among(wsQueue)
        /\ \A j \in Among(w) : k < j
    BY <1>3, <2>1, TakeFacts
  <2>3. k \in 0 .. Len(samples)  BY <1>1, <2>2
  <2>4. QueueTypes'  BY <1>1, <1>3, <2>1, <2>2, <2>3 DEF QueueTypes
  <2>5. InOrder(busQueue, w, alarmQueue, publishing, k, alarms)
    BY <1>4, <2>2 DEF InOrder
  <2> QED  BY <2>1, <2>4, <2>5, OrderNext
<1>8. CASE AlarmConsume
  <2> PICK k : k = Head(alarmQueue)  OBVIOUS
  <2> PICK a : a = Tail(alarmQueue)  OBVIOUS
  <2> PICK r : r = alarms'  OBVIOUS
  <2>1. /\ alarmQueue # <<>> /\ alarmQueue' = a /\ r \in {alarms, alarms + 1}
        /\ UNCHANGED <<publishing, busQueue, wsQueue, merged>>
    BY <1>8 DEF AlarmConsume, wsVars, sourceVars
  <2>2. /\ a \in Seq(Numbers) /\ Len(a) <= QueueCap /\ Rising(a)
        /\ k \in Among(alarmQueue) /\ k \in Numbers /\ k \in Nat
        /\ Among(a) \subseteq Among(alarmQueue)
        /\ \A j \in Among(a) : k < j
    BY <1>3, <2>1, TakeFacts
  <2>3. alarms < k  BY <1>4, <2>2 DEF InOrder
  <2>4. r <= k /\ r \in Nat  BY <1>2, <2>1, <2>2, <2>3
  <2>5. r \in 0 .. Len(samples)  BY <1>1, <2>2, <2>4
  <2>6. QueueTypes'  BY <1>1, <1>3, <2>1, <2>2, <2>5 DEF QueueTypes
  <2>7. \A j \in Among(a) \cup Among(busQueue) : r < j
    <3>1. \A j \in Among(busQueue) : k < j  BY <1>4, <2>2 DEF InOrder
    <3>2. \A j \in Among(a) \cup Among(busQueue) : j \in Nat  BY <1>1, <1>2, <2>2
    <3> QED  BY <2>2, <2>4, <3>1, <3>2
  <2>8. publishing # 0 => r < publishing
    <3>1. publishing \in Nat  BY <1>1 DEF SourceInv
    <3>2. publishing # 0 => k < publishing  BY <1>4, <2>2 DEF InOrder
    <3> QED  BY <2>2, <2>4, <3>1, <3>2
  <2>9. InOrder(busQueue, wsQueue, a, publishing, merged, r)
    BY <1>4, <2>2, <2>7, <2>8 DEF InOrder
  <2> QED  BY <2>1, <2>6, <2>9, OrderNext
<1>9. CASE UNCHANGED <<busVars, publishing, merged, alarms>>
  <2>1. QueueTypes'  BY <1>1, <1>9 DEF QueueTypes, busVars
  <2>2. QueueOrder'  BY <1>4, <1>9, OrderNext DEF busVars
  <2> QED  BY <2>1, <2>2
<1>10. CASE Clocks \/ OpenCan \/ OpenShm \/ Consumer \/ HttpGet
  BY <1>9, <1>10 DEF Clocks, Tick, SetClockBack, OpenCan, OpenShm, Consumer, HttpGet,
     sourceVars, pageVars, wsVars, alarmVars
<1>11. CASE WsTimeout \/ WsCheck \/ Broadcast
  BY <1>9, <1>11 DEF WsTimeout, WsCheck, Broadcast, sourceVars, alarmVars
<1>12. CASE UNCHANGED vars
  BY <1>9, <1>12 DEF vars, sourceVars, pageVars, wsVars, alarmVars
<1>13. CASE CanFrame \/ ShmSample \/ Generate
  BY <1>13 DEF Making, CanFrame, ShmSample, Generate
<1> QED
  BY <1>5, <1>6, <1>7, <1>8, <1>10, <1>11, <1>12, <1>13 DEF Next, Source, PageStep

LEMMA OtherPage ==
  ASSUME ViewsInv, [Next]_vars, ~Making
  PROVE  PageInv'
<1>1. /\ PageInv /\ QueueTypes /\ QueueOrder /\ samples' = samples /\ Len(samples) \in Nat
      /\ MaxLate \in Nat \ {0} /\ Numbers = 1 .. Len(samples)
  BY ViewsParts, MakingKinds, PoolFacts, DashboardAssumption
<1> PICK n : n = Len(samples)  OBVIOUS
<1>2. /\ deferred \in Seq(0 .. n) /\ Len(deferred) \in Nat /\ DOMAIN deferred = 1 .. Len(deferred)
      /\ merged \in 0 .. n /\ page \in 0 .. n /\ n \in Nat
      /\ \A i \in DOMAIN deferred : deferred[i] \in 0 .. n
  BY <1>1, SeqFacts DEF PageInv, QueueTypes
<1>3. CASE Tick
  <2>1. dueTicks' \in 0 .. MaxLate /\ dueTicks' + Len(deferred) <= MaxLate
    BY <1>1, <1>2, <1>3 DEF Tick, PageInv
  <2> QED  BY <1>1, <1>3, <2>1 DEF Tick, PageInv
<1>4. CASE WsConsume
  <2>1. /\ wsQueue # <<>> /\ merged' = Head(wsQueue) /\ wpc' = "check"
        /\ UNCHANGED <<dueTicks, deferred, page>>
    BY <1>4 DEF WsConsume
  <2>2. merged < merged' /\ merged' \in Nat
    <3>1. /\ Head(wsQueue) \in Among(wsQueue) /\ Among(wsQueue) \subseteq Numbers
      BY <1>1, <2>1, AmongFacts DEF QueueTypes
    <3> QED  BY <1>1, <2>1, <3>1 DEF QueueOrder, InOrder
  <2>3. page <= merged' /\ \A i \in DOMAIN deferred : deferred[i] <= merged'
    BY <1>1, <1>2, <2>2 DEF PageInv
  <2> QED  BY <1>1, <2>1, <2>3 DEF PageInv
<1>5. CASE WsTimeout
  BY <1>1, <1>5 DEF WsTimeout, PageInv
<1>6. CASE WsCheck
  <2>1. wpc' = "take" /\ UNCHANGED <<merged, page>>
    BY <1>6 DEF WsCheck
  <2>2. CASE dueTicks > 0
    <3>1. dueTicks' = dueTicks - 1 /\ deferred' = Append(deferred, merged)
      BY <1>6, <2>2 DEF WsCheck
    <3>2. /\ deferred' \in Seq(0 .. n) /\ Len(deferred') = Len(deferred) + 1
          /\ DOMAIN deferred' = 1 .. (Len(deferred) + 1)
          /\ \A i \in 1 .. Len(deferred) : deferred'[i] = deferred[i]
          /\ deferred'[Len(deferred) + 1] = merged
      BY <1>2, <3>1, AppendFacts
    <3>3. dueTicks' \in 0 .. MaxLate /\ dueTicks' + Len(deferred') <= MaxLate
      BY <1>1, <1>2, <2>1, <2>2, <3>1, <3>2 DEF PageInv
    <3>4. \A i \in DOMAIN deferred' : page <= deferred'[i] /\ deferred'[i] <= merged
      <4>1. /\ page <= merged /\ merged <= merged
            /\ \A i \in 1 .. Len(deferred) : page <= deferred[i] /\ deferred[i] <= merged
        BY <1>1, <1>2 DEF PageInv
      <4> TAKE i \in DOMAIN deferred'
      <4>2. i \in 1 .. Len(deferred) \/ i = Len(deferred) + 1
        BY <1>2, <3>2
      <4> QED  BY <3>2, <4>1, <4>2
    <3>5. \A i, j \in DOMAIN deferred' : i < j => deferred'[i] <= deferred'[j]
      <4> TAKE i, j \in DOMAIN deferred'
      <4> HAVE i < j
      <4>1. i \in 1 .. Len(deferred)  BY <1>2, <3>2
      <4>2. CASE j = Len(deferred) + 1  BY <1>2, <3>2, <3>4, <4>2
      <4>3. CASE j \in 1 .. Len(deferred)  BY <1>1, <1>2, <3>2, <4>1, <4>3 DEF PageInv
      <4> QED  BY <1>2, <3>2, <4>2, <4>3
    <3>6. wpc' \in {"take", "check"}  BY <2>1
    <3> QED  BY <1>1, <2>1, <3>2, <3>3, <3>4, <3>5, <3>6 DEF PageInv
  <2>3. CASE ~(dueTicks > 0)
    BY <1>1, <1>6, <2>1, <2>3 DEF WsCheck, PageInv
  <2> QED  BY <2>2, <2>3
<1>7. CASE Broadcast
  <2>1. /\ deferred # <<>> /\ page' = Head(deferred) /\ deferred' = Tail(deferred)
        /\ UNCHANGED <<wpc, merged, dueTicks>>
    BY <1>7 DEF Broadcast
  <2>2. /\ deferred' \in Seq(0 .. n) /\ Len(deferred') = Len(deferred) - 1
        /\ DOMAIN deferred' = 1 .. (Len(deferred) - 1) /\ Len(deferred) \in Nat \ {0}
        /\ \A i \in 1 .. (Len(deferred) - 1) : deferred'[i] = deferred[i + 1]
        /\ page' = deferred[1] /\ page' \in 0 .. n
    BY <1>2, <2>1, TailFacts
  <2>3. 1 \in DOMAIN deferred  BY <1>2, <2>2
  <2>8. ASSUME NEW i \in DOMAIN deferred'
        PROVE  /\ i \in Nat /\ i + 1 \in DOMAIN deferred /\ 1 < i + 1
               /\ deferred'[i] = deferred[i + 1]
    <3>1. i \in 1 .. (Len(deferred) - 1)  BY <2>2
    <3>2. deferred'[i] = deferred[i + 1]  BY <2>2, <3>1
    <3>3. i \in Nat /\ i + 1 \in 1 .. Len(deferred) /\ 1 < i + 1  BY <2>2, <3>1
    <3> QED  BY <1>2, <3>2, <3>3
  <2>4. \A i \in DOMAIN deferred' : page' <= deferred'[i] /\ deferred'[i] <= merged
    BY <1>1, <2>2, <2>3, <2>8 DEF PageInv
  <2>5. page' <= merged
    BY <1>1, <2>2, <2>3 DEF PageInv
  <2>6. \A i, j \in DOMAIN deferred' : i < j => deferred'[i] <= deferred'[j]
    <3> TAKE i, j \in DOMAIN deferred'
    <3> HAVE i < j
    <3>1. i + 1 < j + 1  BY <2>8
    <3> QED  BY <1>1, <2>8, <3>1 DEF PageInv
  <2>7. dueTicks' + Len(deferred') <= MaxLate  BY <1>1, <1>2, <2>1, <2>2 DEF PageInv
  <2> QED  BY <1>1, <2>1, <2>2, <2>4, <2>5, <2>6, <2>7 DEF PageInv
<1>8. CASE UNCHANGED wsVars
  BY <1>1, <1>8 DEF PageInv, wsVars
<1>9. CASE SetClockBack \/ OpenCan \/ OpenShm \/ Consumer \/ HttpGet
  BY <1>8, <1>9 DEF SetClockBack, OpenCan, OpenShm, Consumer, HttpGet, pageVars
<1>10. CASE Publish \/ Dispatch \/ AlarmConsume
  BY <1>8, <1>10 DEF Publish, Dispatch, AlarmConsume
<1>11. CASE UNCHANGED vars
  BY <1>8, <1>11 DEF vars, pageVars
<1>12. CASE CanFrame \/ ShmSample \/ Generate
  BY <1>12 DEF Making, CanFrame, ShmSample, Generate
<1> QED
  BY <1>3, <1>4, <1>5, <1>6, <1>7, <1>9, <1>10, <1>11, <1>12 DEF Next, Clocks, Source, PageStep

LEMMA OtherClocks ==
  ASSUME ViewsInv, [Next]_vars, ~Making
  PROVE  ClockInv'
<1>1. ClockInv /\ Cooldown \in Nat \ {0}  BY ViewsParts, DashboardAssumption
<1>2. CASE Tick
  BY <1>1, <1>2 DEF Tick, ClockInv, Capped
<1>3. CASE AlarmConsume
  <2>1. sinceAlarm' \in {0, sinceAlarm} /\ sinceRaised' \in {0, sinceRaised}
    BY <1>3 DEF AlarmConsume
  <2> QED  BY <1>1, <2>1 DEF ClockInv
<1>4. CASE UNCHANGED alarmVars
  BY <1>1, <1>4 DEF ClockInv, alarmVars
<1>5. CASE SetClockBack \/ OpenCan \/ OpenShm \/ Consumer \/ HttpGet
  BY <1>4, <1>5 DEF SetClockBack, OpenCan, OpenShm, Consumer, HttpGet, pageVars
<1>6. CASE Publish \/ Dispatch \/ PageStep
  BY <1>4, <1>6 DEF Publish, Dispatch, PageStep, WsConsume, WsTimeout, WsCheck, Broadcast
<1>7. CASE UNCHANGED vars
  BY <1>4, <1>7 DEF vars, pageVars
<1>8. CASE CanFrame \/ ShmSample \/ Generate
  BY <1>8 DEF Making, CanFrame, ShmSample, Generate
<1> QED
  BY <1>2, <1>3, <1>5, <1>6, <1>7, <1>8 DEF Next, Clocks, Source

LEMMA ViewsNext == ViewsInv /\ [Next]_vars => ViewsInv'
<1> SUFFICES ASSUME ViewsInv, [Next]_vars PROVE ViewsInv'  OBVIOUS
<1>1. CASE Making
  BY <1>1, MakingKeeps
<1>2. CASE ~Making
  <2>1. PoolInv' /\ SourceInv' /\ QueueTypes' /\ QueueOrder' /\ PageInv' /\ ClockInv'
    BY <1>2, OtherPool, OtherSource, OtherQueues, OtherPage, OtherClocks
  <2> QED  BY <2>1, ViewsPartsNext
<1> QED  BY <1>1, <1>2

(* Snapshots and the page are in order, for any sizes of pool and queues,  *)
(* however late the threads are.                                           *)
THEOREM ViewsAreInOrder == Spec => []ViewsInOrder
<1>1. ViewsInv => ViewsInOrder  BY DEF ViewsInv
<1> QED  BY <1>1, ViewsInit, ViewsNext, PTL DEF Spec

(* The history of the pool thins the samples out and does nothing else.    *)
THEOREM HistoryIsThinned == Spec => []HistoryIsSampled
<1>1. ViewsInv => HistoryIsSampled  BY DEF ViewsInv, PoolInv
<1> QED  BY <1>1, ViewsInit, ViewsNext, PTL DEF Spec
=============================================================================
