------------------------------ MODULE Dashboard ------------------------------
(* The threads of main.cpp around the pool and the bus: the source, the    *)
(* consumer that drains the pool, the two subscribers that feed the page   *)
(* and raise alarms, and the HTTP reader. The bus is one step from its     *)
(* queue to the queues of the subscribers; TopicBus has the details. One   *)
(* tick is 50 ms, the period of the page.                                  *)
(*                                                                         *)
(* running is never cleared: app.run() does not return, and a signal ends  *)
(* the process where it stands (main.cpp:368).                             *)
EXTENDS DataPool

CONSTANTS
  QueueCap,     \* messages the bus, ws_q and alarm_q hold
  Cooldown,     \* kCooldown, in ticks
  OpenTries,    \* attempts to open the shared memory
  FirstStamp,   \* the least the wall clock shows at the start
  ShmStamps,    \* stamps of the process that writes the shared memory
  MaxSamples,   \* bound: samples the source makes
  MaxWall,      \* bound: ticks the wall clock is followed after FirstStamp
  MaxLate       \* bound: periods ws_consumer and the event loop are late, together

ASSUME DashboardAssumption ==
  /\ QueueCap \in Nat \ {0} /\ Cooldown \in Nat \ {0} /\ OpenTries \in Nat \ {0}
  /\ FirstStamp \in Nat /\ FirstStamp > Interval /\ FirstStamp + MaxWall < Width
  /\ ShmStamps \subseteq Interval .. Width - 1
  /\ MaxSamples \in Nat /\ MaxWall \in Nat /\ MaxLate \in Nat \ {0}

VARIABLES
  source, tries, lastFast,      \* the data thread
  publishing,                   \* the sample it is about to publish, or 0
  wall, setBack,                \* system_clock, and whether it was set back
  busQueue, wsQueue, alarmQueue,
  wpc, merged, dueTicks,        \* ws_consumer: its snapshot and its timer
  deferred, page,               \* what loop->defer() holds, what the page shows
  sinceAlarm,                   \* now - last_alarm
  alarms, sinceRaised           \* history: the alarms seen from outside

sourceVars == <<source, tries, lastFast, publishing>>
clockVars  == <<wall, setBack>>
busVars    == <<busQueue, wsQueue, alarmQueue>>
wsVars     == <<wpc, merged, dueTicks, deferred, page>>
alarmVars  == <<sinceAlarm, alarms, sinceRaised>>

pageVars == <<busVars, wsVars, alarmVars>>
vars     == <<samples, poolVars, sourceVars, clockVars, pageVars>>

Capped(n) == IF n < Cooldown THEN n ELSE Cooldown

(* A bounded queue that refuses when it is full. *)
Put(q, k) == IF Len(q) < QueueCap THEN Append(q, k) ELSE q

Init ==
  /\ PoolInit
  /\ source \in {"openCan", "openShm", "generator"}
  /\ tries = 0 /\ lastFast = FALSE /\ publishing = 0
  /\ wall \in FirstStamp .. FirstStamp + MaxWall /\ setBack = FALSE
  /\ busQueue = <<>> /\ wsQueue = <<>> /\ alarmQueue = <<>>
  /\ wpc = "take" /\ merged = 0 /\ dueTicks = 0
  /\ deferred = <<>> /\ page = 0
  /\ sinceAlarm = Cooldown
  /\ alarms = 0 /\ sinceRaised = Cooldown

----------------------------------------------------------------------------
(* The clocks. The wall clock may be set back, the others are steady. A    *)
(* period of the page is lost to the model only when MaxLate are behind.   *)

Tick ==
  /\ dueTicks' = IF dueTicks + Len(deferred) < MaxLate THEN dueTicks + 1 ELSE dueTicks
  /\ sinceAlarm' = Capped(sinceAlarm + 1)
  /\ sinceRaised' = Capped(sinceRaised + 1)
  /\ wall' = IF wall < FirstStamp + MaxWall THEN wall + 1 ELSE wall
  /\ UNCHANGED <<samples, poolVars, sourceVars, setBack, busVars,
                 wpc, merged, deferred, page, alarms>>

SetClockBack ==
  /\ ~setBack /\ setBack' = TRUE
  /\ wall' = wall - 1
  /\ UNCHANGED <<samples, poolVars, sourceVars, pageVars>>

----------------------------------------------------------------------------
(* The data thread: CAN, shared memory, or the generator in their place. *)

OpenCan ==
  /\ source = "openCan"
  /\ source' \in {"can", "generator"}
  /\ UNCHANGED <<samples, poolVars, tries, lastFast, publishing, clockVars, pageVars>>

OpenShm ==
  /\ source = "openShm"
  /\ \/ source' = "shm" /\ tries' = 0
     \/ tries + 1 < OpenTries /\ tries' = tries + 1 /\ UNCHANGED source
     \/ tries + 1 = OpenTries /\ tries' = 0 /\ source' = "generator"
  /\ UNCHANGED <<samples, poolVars, lastFast, publishing, clockVars, pageVars>>

(* A sample goes to the pool, *)
MakeSample(ts, fast) ==
  /\ publishing = 0
  /\ Len(samples) < MaxSamples
  /\ Produce([ts |-> ts, fast |-> fast])
  /\ publishing' = Len(samples')
  /\ UNCHANGED <<source, tries, clockVars, pageVars>>

(* stamped with the wall clock for a CAN frame, which has a speed or a     *)
(* temperature; the other value is the last one seen;                      *)
CanFrame ==
  /\ source = "can"
  /\ lastFast' \in BOOLEAN
  /\ MakeSample(wall, lastFast')

(* as the other process stamped it when it comes from the shared memory,   *)
(* whose stamps need not rise: it may be from an earlier life of a writer; *)
ShmSample ==
  /\ source = "shm"
  /\ UNCHANGED lastFast
  /\ \E ts \in ShmStamps, fast \in BOOLEAN : MakeSample(ts, fast)

(* with the wall clock again when it is generated.                         *)
Generate ==
  /\ source = "generator"
  /\ UNCHANGED lastFast
  /\ \E fast \in BOOLEAN : MakeSample(wall, fast)

(* Then it goes to the bus; nobody looks at the answer.                    *)
Publish ==
  /\ publishing # 0
  /\ busQueue' = Put(busQueue, publishing)
  /\ publishing' = 0
  /\ UNCHANGED <<samples, poolVars, source, tries, lastFast, clockVars,
                 wsQueue, alarmQueue, wsVars, alarmVars>>

Dispatch ==
  /\ busQueue # <<>>
  /\ busQueue' = Tail(busQueue)
  /\ wsQueue' = Put(wsQueue, Head(busQueue))
  /\ alarmQueue' = Put(alarmQueue, Head(busQueue))
  /\ UNCHANGED <<samples, poolVars, sourceVars, clockVars, wsVars, alarmVars>>

----------------------------------------------------------------------------
(* ws_consumer: whatever came is merged into one sample, which is handed   *)
(* to the event loop once for every 50 ms that passed.                     *)

WsConsume ==
  /\ wpc = "take" /\ wsQueue # <<>>
  /\ merged' = Head(wsQueue)
  /\ wsQueue' = Tail(wsQueue)
  /\ wpc' = "check"
  /\ UNCHANGED <<samples, poolVars, sourceVars, clockVars, busQueue, alarmQueue,
                 dueTicks, deferred, page, alarmVars>>

(* A mistake no action makes: nothing new, nothing to show. *)
WsSkip ==
  /\ wpc = "take" /\ wsQueue = <<>>
  /\ dueTicks > 0
  /\ dueTicks' = dueTicks - 1
  /\ UNCHANGED <<samples, poolVars, sourceVars, clockVars, busVars,
                 wpc, merged, deferred, page, alarmVars>>

(* 20 ms without a message; of interest when the page is due. *)
WsTimeout ==
  /\ wpc = "take" /\ wsQueue = <<>>
  /\ dueTicks > 0
  /\ wpc' = "check"
  /\ UNCHANGED <<samples, poolVars, sourceVars, clockVars, busVars,
                 merged, dueTicks, deferred, page, alarmVars>>

WsCheck ==
  /\ wpc = "check"
  /\ IF dueTicks > 0
       THEN dueTicks' = dueTicks - 1 /\ deferred' = Append(deferred, merged)
       ELSE UNCHANGED <<dueTicks, deferred>>
  /\ wpc' = "take"
  /\ UNCHANGED <<samples, poolVars, sourceVars, clockVars, busVars, merged, page, alarmVars>>

(* The event loop sends the sample to the page. *)
Broadcast ==
  /\ deferred # <<>>
  /\ page' = Head(deferred)
  /\ deferred' = Tail(deferred)
  /\ UNCHANGED <<samples, poolVars, sourceVars, clockVars, busVars,
                 wpc, merged, dueTicks, alarmVars>>

----------------------------------------------------------------------------
(* A mistake no action makes: every fast sample starts the cooldown anew. *)
AlarmRestartsCooldown ==
  /\ alarmQueue # <<>>
  /\ alarmQueue' = Tail(alarmQueue)
  /\ LET k     == Head(alarmQueue)
         fast  == samples[k].fast
         raise == fast /\ sinceAlarm = Cooldown
     IN /\ sinceAlarm' = IF fast THEN 0 ELSE sinceAlarm
        /\ sinceRaised' = IF raise THEN 0 ELSE sinceRaised
        /\ alarms' = IF raise THEN alarms + 1 ELSE alarms
  /\ UNCHANGED <<samples, poolVars, sourceVars, clockVars, busQueue, wsQueue, wsVars>>

(* alarm_consumer: a fast sample raises an alarm unless one was raised     *)
(* within the cooldown.                                                    *)
AlarmConsume ==
  /\ alarmQueue # <<>>
  /\ alarmQueue' = Tail(alarmQueue)
  /\ LET k     == Head(alarmQueue)
         fast  == samples[k].fast
         raise == fast /\ sinceAlarm = Cooldown
     IN /\ sinceAlarm' = IF raise THEN 0 ELSE sinceAlarm
        /\ sinceRaised' = IF raise THEN 0 ELSE sinceRaised
        /\ alarms' = IF raise THEN alarms + 1 ELSE alarms
  /\ UNCHANGED <<samples, poolVars, sourceVars, clockVars, busQueue, wsQueue, wsVars>>

----------------------------------------------------------------------------
(* The groups of threads. What they share is the clock, the source and,   *)
(* for the two subscribers, the bus.                                       *)
Clocks == Tick \/ SetClockBack

Source == OpenCan \/ OpenShm \/ CanFrame \/ ShmSample \/ Generate \/ Publish

PageStep == WsConsume \/ WsTimeout \/ WsCheck \/ Broadcast

(* The consumer drains the pool, *)
Consumer == Drain /\ UNCHANGED <<sourceVars, clockVars, pageVars>>

(* an HTTP request reads it. *)
HttpGet == TakeSnapshot /\ UNCHANGED <<sourceVars, clockVars, pageVars>>

Next ==
  \/ Clocks
  \/ Source
  \/ Consumer \/ HttpGet
  \/ Dispatch
  \/ PageStep
  \/ AlarmConsume

Spec == Init /\ [][Next]_vars

(* Scheduling: every thread runs on and time passes; no source is obliged  *)
(* to make a sample, no clock to be set back and nobody to ask for a       *)
(* snapshot.                                                               *)
Fairness ==
  /\ WF_vars(Tick)
  /\ WF_vars(Publish) /\ WF_vars(Dispatch)
  /\ WF_vars(Consumer)
  /\ WF_vars(WsConsume \/ WsTimeout \/ WsCheck) /\ WF_vars(Broadcast)
  /\ WF_vars(AlarmConsume)

FairSpec == Spec /\ Fairness

----------------------------------------------------------------------------
DashboardTypeOK ==
  /\ PoolTypeOK
  /\ source \in {"openCan", "openShm", "can", "shm", "generator"}
  /\ tries \in 0 .. OpenTries - 1 /\ lastFast \in BOOLEAN
  /\ publishing \in {0, Len(samples)}
  /\ wall \in 0 .. Width - 1 /\ setBack \in BOOLEAN
  /\ \A q \in {busQueue, wsQueue, alarmQueue} : q \in Seq(Numbers) /\ Len(q) <= QueueCap
  /\ wpc \in {"take", "check"} /\ dueTicks \in 0 .. MaxLate
  /\ merged \in 0 .. Len(samples) /\ page \in 0 .. Len(samples)
  /\ deferred \in Seq(0 .. Len(samples)) /\ dueTicks + Len(deferred) <= MaxLate
  /\ sinceAlarm \in 0 .. Cooldown /\ sinceRaised \in 0 .. Cooldown
  /\ alarms \in 0 .. Len(samples)

(* Everything a reader sees is in order: snapshots of the pool (see        *)
(* SnapshotsInOrder) and the page, which is never ahead of what waits for  *)
(* it, so that it never goes back either.                                  *)
ViewsInOrder ==
  /\ DashboardTypeOK
  /\ SnapshotsInOrder
  /\ Rising(busQueue) /\ Rising(wsQueue)
  /\ \A i \in DOMAIN deferred : page <= deferred[i] /\ deferred[i] <= merged
  /\ page <= merged
  /\ \A k \in Among(wsQueue) : merged < k

(* What the pool took is its latest sample in the end, also when drain()   *)
(* is in the middle of its loop,                                           *)
PoolSettled == ring = <<>> /\ dpc = "rest" /\ latest = Newest(taken)

(* and what ws_q took last is on the page, also when the source falls      *)
(* silent right after (README.md:212: the page keeps the last value).      *)
PageSettled == wsQueue = <<>> /\ deferred \in Seq({merged}) /\ page = merged

(* Two alarms are a cooldown or more apart, and none is swallowed, the     *)
(* first one included (main.cpp:329): when a fast sample is taken from     *)
(* alarm_q, an alarm is raised now or was less than a cooldown ago.        *)
AlarmsOnTime ==
  [][/\ alarms' # alarms => sinceRaised = Cooldown
     /\ \A k \in Among(alarmQueue) \ Among(alarmQueue') :
          samples[k].fast => sinceRaised' < Cooldown]_vars

----------------------------------------------------------------------------
(* Why it works: the inductive invariant behind the theorems of            *)
(* DashboardProofs. A sample is published right after it was made; the     *)
(* queues of the bus hold ever newer samples, and there are no more alarms *)
(* than samples that left alarm_q.                                         *)
ViewsInv ==
  /\ ViewsInOrder /\ PoolInv
  /\ wall \in FirstStamp - (IF setBack THEN 1 ELSE 0) .. FirstStamp + MaxWall
  /\ publishing # 0 =>
       /\ \A k \in Among(busQueue) \cup Among(wsQueue) \cup Among(alarmQueue) : k < publishing
       /\ merged < publishing /\ alarms < publishing
  /\ \A k \in Among(busQueue), j \in Among(wsQueue) \cup Among(alarmQueue) : j < k
  /\ \A k \in Among(busQueue) : merged < k
  /\ \A k \in Among(busQueue) \cup Among(alarmQueue) : alarms < k
  /\ Rising(alarmQueue)
  /\ \A i, j \in DOMAIN deferred : i < j => deferred[i] <= deferred[j]
=============================================================================
