---------------------------- MODULE LoggerProofs ----------------------------
(***************************************************************************)
(* Theorems about BlockingQueue and about Logger, which is built upon it.  *)
(* Those about the queue hold for any sets of threads that produce,        *)
(* consume and stop; those about the logger assume LoggerRoles, that one   *)
(* thread consumes and one stops, and hold for any number of threads that  *)
(* log, any capacity of the queue and any number of entries.               *)
(***************************************************************************)
EXTENDS Logger, TicketQueueProofs

----------------------------------------------------------------------------
(* The mutex.                                                              *)

(* At first nobody holds the mutex. *)
LEMMA InitMutex == Init => MutexInv
BY RoleAssumption
DEF Init, MutexInv, Threads, ProducerPcs, ConsumerPcs, StopperPcs, Holding

(* Every step hands the mutex on as the code does. *)
LEMMA NextMutex == MutexInv /\ [Next]_vars => MutexInv'
<1> SUFFICES ASSUME MutexInv, [Next]_vars PROVE MutexInv'
  OBVIOUS
<1> USE RoleAssumption
    DEF MutexInv, Threads, ProducerPcs, ConsumerPcs, StopperPcs, Holding, Goto, Lock, Unlock
<1>1. ASSUME NEW p \in Producers, CallProduce(p) \/ ProduceStep(p) PROVE MutexInv'
  BY <1>1 DEF CallProduce, ProduceStep, ProduceFull, ClaimSlot, PublishMessage
<1>2. ASSUME NEW p \in Producers, NotifyOne(p) PROVE MutexInv'
  BY <1>2 DEF NotifyOne, Waiting
<1>3. ASSUME NEW c \in Consumers, NEW withTimeout \in BOOLEAN, CallConsume(c, withTimeout)
      PROVE  MutexInv'
  BY <1>3 DEF CallConsume
<1>4. ASSUME NEW c \in Consumers, Acquire(c) PROVE MutexInv'
  BY <1>4 DEF Acquire
<1>5. ASSUME NEW c \in Consumers, ConsumeStep(c) PROVE MutexInv'
  <2>1. CASE ReturnStopped(c)
    BY <2>1 DEF ReturnStopped
  <2>2. CASE TakeMessage(c)
    BY <2>2 DEF TakeMessage
  <2>3. CASE ReturnMessage(c)
    BY <2>3 DEF ReturnMessage
  <2>4. CASE FindEmpty(c)
    BY <2>4 DEF FindEmpty
  <2>5. CASE Wait(c)
    BY <2>5 DEF Wait
  <2>6. CASE ExpireWait(c)
    BY <2>6 DEF ExpireWait
  <2>7. CASE ReturnTimedOut(c)
    BY <2>7 DEF ReturnTimedOut
  <2>8. CASE TryReturn(c)
    BY <2>8 DEF TryReturn
  <2> QED
    BY <1>5, <2>1, <2>2, <2>3, <2>4, <2>5, <2>6, <2>7, <2>8 DEF ConsumeStep
<1>6. ASSUME NEW c \in Consumers, TryTake(c) \/ WakeSpuriously(c) \/ Tick(c) PROVE MutexInv'
  BY <1>6 DEF TryTake, WakeSpuriously, Tick
<1>7. ASSUME NEW s \in Stoppers, SetStop(s) PROVE MutexInv'
  BY <1>7 DEF SetStop
<1>8. ASSUME NEW s \in Stoppers, NotifyAll(s) PROVE MutexInv'
  BY <1>8 DEF NotifyAll, Waiting
<1>9. CASE UNCHANGED vars
  BY <1>9 DEF vars
<1> QED
  BY <1>1, <1>2, <1>3, <1>4, <1>5, <1>6, <1>7, <1>8, <1>9 DEF Next

(* The mutex has one holder, and it is the consumer the code says it is.   *)
THEOREM MutexDiscipline == Spec => []MutexInv
BY InitMutex, NextMutex, PTL DEF Spec

----------------------------------------------------------------------------
(* stop().                                                                 *)

(* Every step preserves what stop() establishes. *)
LEMMA NextStop == MutexInv /\ StopInv /\ [Next]_vars => StopInv'
<1> SUFFICES ASSUME MutexInv, StopInv, [Next]_vars PROVE StopInv'
  OBVIOUS
<1> USE RoleAssumption
    DEF MutexInv, StopInv, Waiting, Threads, ProducerPcs, ConsumerPcs, StopperPcs,
        Holding, Goto, Lock, Unlock
<1>1. ASSUME NEW p \in Producers, CallProduce(p) \/ ProduceStep(p) PROVE StopInv'
  BY <1>1 DEF CallProduce, ProduceStep, ProduceFull, ClaimSlot, PublishMessage
<1>2. ASSUME NEW p \in Producers, NotifyOne(p) PROVE StopInv'
  BY <1>2 DEF NotifyOne
<1>3. ASSUME NEW c \in Consumers, NEW withTimeout \in BOOLEAN, CallConsume(c, withTimeout)
      PROVE  StopInv'
  BY <1>3 DEF CallConsume
<1>4. ASSUME NEW c \in Consumers, Acquire(c) PROVE StopInv'
  BY <1>4 DEF Acquire
<1>5. ASSUME NEW c \in Consumers, ConsumeStep(c) PROVE StopInv'
  <2>1. CASE ReturnStopped(c)
    BY <2>1 DEF ReturnStopped
  <2>2. CASE TakeMessage(c)
    BY <2>2 DEF TakeMessage
  <2>3. CASE ReturnMessage(c)
    BY <2>3 DEF ReturnMessage
  <2>4. CASE FindEmpty(c)
    BY <2>4 DEF FindEmpty
  <2>5. CASE Wait(c)
    BY <2>5 DEF Wait
  <2>6. CASE ExpireWait(c)
    BY <2>6 DEF ExpireWait
  <2>7. CASE ReturnTimedOut(c)
    BY <2>7 DEF ReturnTimedOut
  <2>8. CASE TryReturn(c)
    BY <2>8 DEF TryReturn
  <2> QED
    BY <1>5, <2>1, <2>2, <2>3, <2>4, <2>5, <2>6, <2>7, <2>8 DEF ConsumeStep
<1>6. ASSUME NEW c \in Consumers, TryTake(c) \/ WakeSpuriously(c) \/ Tick(c) PROVE StopInv'
  BY <1>6 DEF TryTake, WakeSpuriously, Tick
(* The flag is set while nobody holds the mutex: nobody is about to wait.  *)
<1>7. ASSUME NEW s \in Stoppers, SetStop(s) PROVE StopInv'
  BY <1>7 DEF SetStop
<1>8. ASSUME NEW s \in Stoppers, NotifyAll(s) PROVE StopInv'
  BY <1>8 DEF NotifyAll
<1>9. CASE UNCHANGED vars
  BY <1>9 DEF vars
<1> QED
  BY <1>1, <1>2, <1>3, <1>4, <1>5, <1>6, <1>7, <1>8, <1>9 DEF Next

(* Once stop() has notified, no consumer sleeps or is about to, whatever   *)
(* the number of consumers, producers and callers of stop().               *)
THEOREM StopWakesAll == Spec => []NobodyWaitsAfterStop
<1>1. Init => StopInv
  BY RoleAssumption DEF Init, StopInv, Waiting, Threads
<1>2. StopInv => NobodyWaitsAfterStop
  BY DEF StopInv, NobodyWaitsAfterStop, Waiting
<1> QED
  BY <1>1, <1>2, MutexDiscipline, NextStop, PTL DEF Spec

----------------------------------------------------------------------------
(* The tickets keep their type.                                            *)

(* A new ticket is a message and a stage. *)
LEMMA ClaimType ==
  ASSUME TicketTypeOK, NEW v \in Values, Claim(v)
  PROVE  TicketTypeOK' /\ Len(hist') \in Nat
BY DEF TicketTypeOK, Claim, Stages

(* A ticket that changes its stage stays a ticket. *)
LEMMA StageType ==
  ASSUME TicketTypeOK, NEW i, Publish(i) \/ Take(i) \/ Free(i)
  PROVE  TicketTypeOK'
<1> DEFINE T == [val : Values, stage : Stages]
<1>1. PICK s \in Stages : hist' = [hist EXCEPT ![i].stage = s]
  <2>1. CASE Publish(i)
    <3>1. hist' = [hist EXCEPT ![i].stage = "ready"]
      BY <2>1 DEF Publish
    <3> QED
      BY <3>1 DEF Stages
  <2>2. CASE Take(i)
    <3>1. hist' = [hist EXCEPT ![i].stage = "taken"]
      BY <2>2 DEF Take
    <3> QED
      BY <3>1 DEF Stages
  <2>3. CASE Free(i)
    <3>1. hist' = [hist EXCEPT ![i].stage = "freed"]
      BY <2>3 DEF Free
    <3> QED
      BY <3>1 DEF Stages
  <2> QED
    BY <2>1, <2>2, <2>3
<1>2. hist \in Seq(T)
  BY DEF TicketTypeOK
<1>3. \A t \in T : [t EXCEPT !.stage = s] \in T
  OBVIOUS
<1> HIDE DEF T
<1>4. hist \in [1 .. Len(hist) -> T] /\ Len(hist) \in Nat
  BY <1>2
<1>5. hist' \in [1 .. Len(hist) -> T]
  BY <1>1, <1>3, <1>4
<1>6. hist' \in Seq(T)
  BY <1>4, <1>5
<1> QED
  BY <1>6 DEF T, TicketTypeOK

(* Every step of BlockingQueue leaves the tickets alone or is one of the   *)
(* operations of TicketQueue.                                              *)
LEMMA HistSteps ==
  ASSUME [Next]_vars
  PROVE  \/ hist' = hist
         \/ \E p \in Producers, v \in Values : ClaimSlot(p, v)
         \/ \E p \in Producers : PublishMessage(p)
         \/ \E c \in Consumers : TakeMessage(c) \/ ReturnMessage(c)
                                  \/ TryTake(c) \/ TryReturn(c)
BY DEF Next, vars, ProduceStep, ConsumeStep, CallProduce, ProduceFull, NotifyOne,
       CallConsume, Acquire, ReturnStopped, FindEmpty, Wait, WakeSpuriously, Tick,
       ExpireWait, ReturnTimedOut, SetStop, NotifyAll

(* Every step keeps the tickets' type. *)
LEMMA NextTicketType == TicketTypeOK /\ [Next]_vars => TicketTypeOK'
<1> SUFFICES ASSUME TicketTypeOK, [Next]_vars PROVE TicketTypeOK'
  OBVIOUS
<1>1. CASE hist' = hist
  BY <1>1 DEF TicketTypeOK
<1>2. CASE \E p \in Producers, v \in Values : ClaimSlot(p, v)
  BY <1>2, ClaimType DEF ClaimSlot
<1>3. CASE \E p \in Producers : PublishMessage(p)
  BY <1>3, StageType DEF PublishMessage
<1>4. CASE \E c \in Consumers : TakeMessage(c) \/ ReturnMessage(c)
                                \/ TryTake(c) \/ TryReturn(c)
  BY <1>4, StageType DEF TakeMessage, ReturnMessage, TryTake, TryReturn
<1> QED
  BY <1>1, <1>2, <1>3, <1>4, HistSteps

(* The variables the mutex and the tickets do not speak about. *)
CallTypeOK ==
  /\ mtx \in Consumers \cup {NoThread}
  /\ stop \in BOOLEAN
  /\ ticket \in [Threads -> Nat]
  /\ timed \in [Consumers -> BOOLEAN]
  /\ left \in [Consumers -> Nat]

(* Every step keeps the types. *)
LEMMA NextType == BlockingTypeOK /\ [Next]_vars => BlockingTypeOK'
<1> SUFFICES ASSUME BlockingTypeOK, [Next]_vars PROVE BlockingTypeOK'
  OBVIOUS
<1>1. TicketTypeOK' /\ MutexInv'
  BY NextTicketType, NextMutex DEF BlockingTypeOK
<1>2. CallTypeOK /\ Tickets \subseteq Nat
  BY DEF BlockingTypeOK, CallTypeOK, TicketTypeOK, Tickets
<1>3. CallTypeOK'
  <2> USE <1>2 DEF CallTypeOK, callVars, Lock, Unlock, Threads
  <2>1. ASSUME NEW p \in Producers,
               CallProduce(p) \/ ProduceFull(p) \/ PublishMessage(p) \/ NotifyOne(p)
        PROVE  CallTypeOK'
    BY <2>1 DEF CallProduce, ProduceFull, PublishMessage, NotifyOne
  <2>2. ASSUME NEW p \in Producers, NEW v \in Values, ClaimSlot(p, v) PROVE CallTypeOK'
    <3>1. Len(hist') \in Nat
      BY <2>2, ClaimType DEF BlockingTypeOK, ClaimSlot
    <3> QED
      BY <2>2, <3>1 DEF ClaimSlot
  <2>3. ASSUME NEW c \in Consumers, NEW withTimeout \in BOOLEAN, CallConsume(c, withTimeout)
        PROVE  CallTypeOK'
    BY <2>3 DEF CallConsume
  <2>4. ASSUME NEW c \in Consumers, ConsumeStep(c) PROVE CallTypeOK'
    <3>1. CASE ReturnStopped(c) \/ FindEmpty(c) \/ ExpireWait(c) \/ ReturnTimedOut(c)
      BY <3>1 DEF ReturnStopped, FindEmpty, ExpireWait, ReturnTimedOut
    <3>2. CASE TakeMessage(c)
      BY <3>2 DEF TakeMessage
    <3>3. CASE ReturnMessage(c) \/ TryReturn(c)
      BY <3>3 DEF ReturnMessage, TryReturn
    <3>4. CASE Wait(c)
      BY <3>4, TimeoutAssumption DEF Wait
    <3> QED
      BY <2>4, <3>1, <3>2, <3>3, <3>4 DEF ConsumeStep
  <2>5. ASSUME NEW c \in Consumers,
               Acquire(c) \/ TryTake(c) \/ WakeSpuriously(c) \/ Tick(c)
        PROVE  CallTypeOK'
    <3>1. CASE Acquire(c) \/ WakeSpuriously(c)
      BY <3>1 DEF Acquire, WakeSpuriously
    <3>2. CASE TryTake(c)
      BY <3>2 DEF TryTake
    <3>3. CASE Tick(c)
      BY <3>3 DEF Tick
    <3> QED
      BY <2>5, <3>1, <3>2, <3>3
  <2>6. ASSUME NEW s \in Stoppers, SetStop(s) \/ NotifyAll(s) PROVE CallTypeOK'
    BY <2>6 DEF SetStop, NotifyAll
  <2>7. CASE UNCHANGED vars
    BY <2>7 DEF vars
  <2> QED
    BY <2>1, <2>2, <2>3, <2>4, <2>5, <2>6, <2>7 DEF Next, ProduceStep
<1> QED
  BY <1>1, <1>3 DEF BlockingTypeOK, CallTypeOK

(* At first they have their types. *)
LEMMA InitType == Init => BlockingTypeOK
<1> SUFFICES ASSUME Init PROVE BlockingTypeOK
  OBVIOUS
<1>1. MutexInv
  BY InitMutex
<1>2. TicketTypeOK
  BY DEF Init, TInit, TicketTypeOK
<1> QED
  BY <1>1, <1>2 DEF Init, BlockingTypeOK

(* Every variable of the queue has its type, and the mutex its holder. *)
THEOREM TypeCorrect == Spec => []BlockingTypeOK
BY InitType, NextType, PTL DEF Spec

----------------------------------------------------------------------------
(* No lost wakeup.                                                         *)

(* A ticket that was only claimed shows no consumer anything new.          *)
LEMMA ClaimShowsNothing ==
  ASSUME TicketTypeOK, NEW v \in Values, Claim(v), HeadReady'
  PROVE  HeadReady
<1> DEFINE n == Len(hist)
           h == hist'
<1>1. /\ hist \in Seq([val : Values, stage : Stages]) /\ n \in Nat
      /\ h = Append(hist, [val |-> v, stage |-> "claimed"])
  BY DEF TicketTypeOK, Claim
<1>2. /\ DOMAIN h = 1 .. (n + 1) /\ DOMAIN hist = 1 .. n
      /\ h[n + 1] = [val |-> v, stage |-> "claimed"]
      /\ \A i \in 1 .. n : h[i] = hist[i]
  BY <1>1
<1>3. PICK i \in 1 .. (n + 1) :
        /\ h[i].stage \notin {"taken", "freed"}
        /\ \A j \in 1 .. (i - 1) : h[j].stage \in {"taken", "freed"}
        /\ h[i].stage = "ready"
  BY <1>2 DEF HeadReady, Tickets, IsHead, Out
<1>4. i \in 1 .. n
  BY <1>1, <1>2, <1>3
<1> QED
  BY <1>1, <1>2, <1>3, <1>4 DEF HeadReady, Tickets, IsHead, Out

(* With one consumer, whoever makes a message visible will also notify.    *)
LEMMA NextWake ==
  ASSUME NEW c, Consumers = {c}, TicketTypeOK, MutexInv, StopInv, WakeInv, [Next]_vars
  PROVE  WakeInv'
<1> USE RoleAssumption
    DEF MutexInv, WakeInv, Waiting, Threads, ProducerPcs, ConsumerPcs, StopperPcs,
        Holding, Goto, Lock, Unlock
<1>0. hist' = hist => HeadReady' = HeadReady
  BY DEF HeadReady, Tickets, IsHead, Out
<1>1. ASSUME NEW p \in Producers, CallProduce(p) \/ ProduceFull(p) PROVE WakeInv'
  BY <1>0, <1>1 DEF CallProduce, ProduceFull
<1>2. ASSUME NEW p \in Producers, NEW v \in Values, ClaimSlot(p, v) PROVE WakeInv'
  <2>1. HeadReady' => HeadReady
    BY <1>2, ClaimShowsNothing DEF ClaimSlot
  <2> QED
    BY <1>2, <2>1 DEF ClaimSlot
<1>3. ASSUME NEW p \in Producers, PublishMessage(p) PROVE WakeInv'
  BY <1>3 DEF PublishMessage
<1>4. ASSUME NEW p \in Producers, NotifyOne(p) PROVE WakeInv'
  BY <1>0, <1>4 DEF NotifyOne
<1>5. ASSUME NEW withTimeout \in BOOLEAN, CallConsume(c, withTimeout) PROVE WakeInv'
  BY <1>0, <1>5 DEF CallConsume
<1>6. ASSUME ConsumeStep(c) PROVE WakeInv'
  <2>1. CASE ReturnStopped(c) \/ ReturnMessage(c) \/ ReturnTimedOut(c) \/ TryReturn(c)
    BY <2>1 DEF ReturnStopped, ReturnMessage, ReturnTimedOut, TryReturn
  <2>2. CASE TakeMessage(c)
    BY <2>2 DEF TakeMessage
  <2>3. CASE FindEmpty(c)
    BY <1>0, <2>3 DEF FindEmpty
  <2>4. CASE Wait(c)
    BY <1>0, <2>4 DEF Wait
  <2>5. CASE ExpireWait(c)
    BY <1>0, <2>5 DEF ExpireWait
  <2> QED
    BY <1>6, <2>1, <2>2, <2>3, <2>4, <2>5 DEF ConsumeStep
<1>7. ASSUME Acquire(c) \/ TryTake(c) \/ WakeSpuriously(c) PROVE WakeInv'
  BY <1>7 DEF Acquire, TryTake, WakeSpuriously
<1>8. ASSUME Tick(c) PROVE WakeInv'
  BY <1>0, <1>8 DEF Tick
<1>9. ASSUME NEW s \in Stoppers, SetStop(s) PROVE WakeInv'
  BY <1>0, <1>9 DEF SetStop
<1>10. ASSUME NEW s \in Stoppers, NotifyAll(s) PROVE WakeInv'
  BY <1>0, <1>10 DEF NotifyAll
<1>11. CASE UNCHANGED vars
  BY <1>0, <1>11 DEF vars
<1> QED
  BY <1>1, <1>2, <1>3, <1>4, <1>5, <1>6, <1>7, <1>8, <1>9, <1>10, <1>11
  DEF Next, ProduceStep

(* A queue with one consumer loses no wakeup, whatever the number of       *)
(* producers: the queues of main.cpp and the one of Logger are of this     *)
(* kind.                                                                   *)
THEOREM OneConsumerIsWoken ==
  ASSUME NEW c, Consumers = {c}
  PROVE  Spec => []NoLostWakeup
<1>1. Init => TicketTypeOK /\ StopInv /\ WakeInv
  BY RoleAssumption DEF Init, TInit, TicketTypeOK, StopInv, WakeInv, Waiting, Threads
<1>2. TicketTypeOK /\ MutexInv /\ StopInv /\ WakeInv /\ [Next]_vars => WakeInv'
  BY NextWake
<1>3. WakeInv => NoLostWakeup
  BY DEF WakeInv, NoLostWakeup, Waiting, LookingAgain
<1> QED
  BY <1>1, <1>2, <1>3, MutexDiscipline, NextTicketType, NextStop, PTL DEF Spec

----------------------------------------------------------------------------
(* The logger.                                                             *)

(* The flush thread is the only consumer. *)
LEMMA Roles ==
  ASSUME LoggerRoles
  PROVE  /\ Consumers = {Flusher} /\ Stoppers = {Main} /\ MaxLives \in Nat
         /\ Flusher \in Threads /\ Main \in Threads /\ Flusher # Main
         /\ \A p \in Producers : p \in Threads /\ p # Flusher /\ p # Main
BY RoleAssumption DEF LoggerRoles, Threads

----------------------------------------------------------------------------
(* What the steps are to the queue below.                                  *)

(* The steps of the logger that are no step of the queue. *)
OwnStep ==
  \/ CallInit \/ OpenFile \/ OpenFails \/ CallShutdown \/ JoinAndClose
  \/ WriteLine \/ CheckRunning \/ DrainEnds
  \/ UNCHANGED allVars

(* Steps of the threads that log. *)
LogCall == \E p \in Producers : Log(p) \/ Enqueue(p)

(* Steps of the flush thread inside its calls of the queue, and what wakes *)
(* it from outside. *)
FlushCall ==
  \/ WaitForEntry \/ InsideCall \/ GetEntry \/ GetNothing
  \/ DrainTake \/ DrainGet \/ Relock \/ OutsideCause

(* Steps of shutdown() inside stop(). *)
StopCall == StopQueue \/ StopQueueAgain \/ StoppedQueue

LEMMA StepKinds ==
  ASSUME [LogNext]_allVars
  PROVE  OwnStep \/ LogCall \/ FlushCall \/ StopCall
BY DEF LogNext, MainStep, FlushStep, OwnStep, LogCall, FlushCall, StopCall

(* Every step is one of the queue, or the second stop() of the same queue, *)
(* or leaves the queue alone.                                              *)
LEMMA QueueSteps ==
  ASSUME LoggerRoles, [LogNext]_allVars
  PROVE  [Next]_vars \/ StopQueueAgain
<1> USE Roles
<1>1. CASE OwnStep
  BY <1>1 DEF OwnStep, CallInit, OpenFile, OpenFails, CallShutdown, JoinAndClose,
     WriteLine, CheckRunning, DrainEnds, allVars, vars
<1>2. CASE LogCall
  BY <1>2 DEF LogCall, Log, Enqueue, Next
<1>3. CASE FlushCall
  <2>1. CASE WaitForEntry
    BY <2>1 DEF WaitForEntry, Next
  <2>2. CASE ~WaitForEntry
    BY <1>3, <2>2 DEF FlushCall, InsideCall, GetEntry, GetNothing, DrainTake, DrainGet,
       Relock, OutsideCause, Next, ConsumeStep
  <2> QED
    BY <2>1, <2>2
<1>4. CASE StopCall
  BY <1>4 DEF StopCall, StopQueue, StoppedQueue, Next
<1> QED
  BY <1>1, <1>2, <1>3, <1>4, StepKinds

(* The types of the queue. *)
LEMMA QueueType ==
  ASSUME LoggerRoles
  PROVE  BlockingTypeOK /\ [LogNext]_allVars => BlockingTypeOK'
<1> SUFFICES ASSUME BlockingTypeOK, [LogNext]_allVars PROVE BlockingTypeOK'
  OBVIOUS
<1>1. CASE [Next]_vars
  BY <1>1, NextType
<1>2. CASE StopQueueAgain
  <2>1. TicketTypeOK'
    BY <1>2 DEF StopQueueAgain, BlockingTypeOK, TicketTypeOK
  <2>2. MutexInv'
    BY <1>2, Roles
       DEF StopQueueAgain, BlockingTypeOK, MutexInv, Goto, StopperPcs, ConsumerPcs, Holding
  <2> QED
    BY <1>2, <2>1, <2>2 DEF StopQueueAgain, BlockingTypeOK, callVars
<1> QED
  BY <1>1, <1>2, QueueSteps

----------------------------------------------------------------------------
(* The invariant holds of a logger that was never opened. *)
LEMMA InitLogInv ==
  ASSUME LoggerRoles
  PROVE  LogInit => LogInv
<1> SUFFICES ASSUME LogInit PROVE LogInv
  OBVIOUS
<1> USE DEF LogInit
<1>1. BlockingTypeOK
  BY InitType
<1>2. Tickets = {} /\ Lines = {} /\ pc[Flusher] = "idle" /\ pc[Main] = "idle"
      /\ \A p \in Producers : pc[p] = "idle"
  BY Roles DEF Init, TInit, Tickets, Lines
<1>3. LoggerTypeOK
  <2>1. file \in Seq(Nat) /\ flushed \in 0 .. Len(file)
    OBVIOUS
  <2>2. lives \in 0 .. MaxLives /\ known \subseteq Nat /\ line \in Nat
    BY Roles
  <2>3. running \in BOOLEAN /\ (mpc \in {"open", "ready"} <=> running)
    OBVIOUS
  <2> QED
    BY <1>1, <2>1, <2>2, <2>3 DEF LoggerTypeOK
<1>4. CallsInv /\ FileInOrder /\ EntriesInv /\ KnownInv
  BY <1>2 DEF CallsInv, FileInOrder, EntriesInv, KnownInv, Taking, Writing
<1> QED
  BY <1>3, <1>4 DEF LogInv

----------------------------------------------------------------------------
(* The types, and where the threads are.                                   *)

(* A line goes to the end of the file. *)
LEMMA LineFacts ==
  ASSUME LoggerTypeOK, file' = Append(file, line)
  PROVE  /\ file' \in Seq(Nat) /\ Len(file') = Len(file) + 1 /\ Len(file) \in Nat
         /\ DOMAIN file = 1 .. Len(file) /\ DOMAIN file' = 1 .. (Len(file) + 1)
         /\ \A k \in 1 .. Len(file) : file'[k] = file[k]
         /\ file'[Len(file) + 1] = line
         /\ Lines' = Lines \cup {line}
<1>1. file \in Seq(Nat) /\ line \in Nat /\ Len(file) \in Nat /\ DOMAIN file = 1 .. Len(file)
  BY DEF LoggerTypeOK
<1>2. /\ file' \in Seq(Nat) /\ Len(file') = Len(file) + 1
      /\ \A k \in 1 .. Len(file) : file'[k] = file[k]
      /\ file'[Len(file) + 1] = line
  BY <1>1, AppendProperties
<1>3. DOMAIN file' = 1 .. (Len(file) + 1)
  BY <1>1, <1>2
<1>4. Lines' = Lines \cup {line}
  <2>1. DOMAIN file' = DOMAIN file \cup {Len(file) + 1}
    BY <1>1, <1>3
  <2>2. \A k \in DOMAIN file : file'[k] = file[k]
    BY <1>1, <1>2
  <2> QED
    BY <1>2, <2>1, <2>2 DEF Lines
<1> QED
  BY <1>1, <1>2, <1>3, <1>4

(* The data of the logger, and where its two threads are. *)
FileTypeOK ==
  /\ file \in Seq(Nat)
  /\ flushed \in 0 .. Len(file)
  /\ line \in Nat
  /\ lives \in 0 .. MaxLives
  /\ known \subseteq Nat

LifeTypeOK ==
  /\ running \in BOOLEAN
  /\ fpc \in {"none", "call", "inCall", "write", "empty", "drain", "drainWrite", "exited"}
  /\ mpc \in {"closed", "open", "ready", "stop", "join"}
  /\ mpc \in {"open", "ready"} <=> running
  /\ mpc = "closed" => fpc \in {"none", "exited"}

LEMMA FileTypeStep ==
  ASSUME LoggerRoles, LogInv, [LogNext]_allVars
  PROVE  FileTypeOK'
<1>1. LoggerTypeOK /\ FileTypeOK /\ Len(file) \in Nat /\ MaxLives \in Nat
      /\ ticket[Flusher] \in Nat
  BY Roles DEF LogInv, LoggerTypeOK, FileTypeOK, BlockingTypeOK
<1> USE <1>1 DEF FileTypeOK, logVars
<1>2. CASE OwnStep
  <2>1. CASE OpenFile
    <3>1. lives' \in 0 .. MaxLives
      BY <2>1 DEF OpenFile, LogInv, CallsInv
    <3> QED
      BY <2>1, <3>1 DEF OpenFile
  <2>2. CASE CallShutdown
    <3>1. known' \subseteq Nat
      BY <2>2, HistFacts DEF CallShutdown, LoggerTypeOK, BlockingTypeOK
    <3> QED
      BY <2>2, <3>1 DEF CallShutdown
  <2>3. CASE JoinAndClose \/ CheckRunning \/ DrainEnds
    <3>1. flushed' \in {flushed, Len(file)} /\ UNCHANGED <<file, line, lives, known>>
      BY <2>3 DEF JoinAndClose, CheckRunning, DrainEnds
    <3> QED
      BY <3>1
  <2>4. CASE WriteLine
    <3>1. file' = Append(file, line)
      BY <2>4 DEF WriteLine
    <3>2. file' \in Seq(Nat) /\ Len(file') = Len(file) + 1
      BY <3>1, LineFacts
    <3>3. flushed' \in 0 .. Len(file')
      BY <2>4, <3>2 DEF WriteLine
    <3> QED
      BY <2>4, <3>2, <3>3 DEF WriteLine
  <2>5. CASE CallInit \/ OpenFails \/ UNCHANGED allVars
    BY <2>5 DEF CallInit, OpenFails, allVars
  <2> QED
    BY <1>2, <2>1, <2>2, <2>3, <2>4, <2>5 DEF OwnStep
<1>3. CASE LogCall
  <2>1. UNCHANGED logVars
    BY <1>3 DEF LogCall, Log, Enqueue
  <2> QED
    BY <2>1
<1>4. CASE FlushCall
  BY <1>4 DEF FlushCall, WaitForEntry, InsideCall, GetEntry, GetNothing, DrainTake,
     DrainGet, Relock, OutsideCause
<1>5. CASE StopCall
  BY <1>5 DEF StopCall, StopQueue, StopQueueAgain, StoppedQueue
<1> QED
  BY <1>2, <1>3, <1>4, <1>5, StepKinds

LEMMA LifeTypeStep ==
  ASSUME LoggerRoles, LogInv, [LogNext]_allVars
  PROVE  LifeTypeOK'
<1>1. LifeTypeOK /\ CallsInv
  BY DEF LogInv, LoggerTypeOK, LifeTypeOK
<1> USE DEF logVars
<1>2. CASE OwnStep
  <2> USE <1>1 DEF LifeTypeOK, CallsInv
  <2>1. CASE CallInit
    BY <2>1 DEF CallInit
  <2>2. CASE OpenFile
    BY <2>2 DEF OpenFile
  <2>3. CASE OpenFails
    BY <2>3 DEF OpenFails
  <2>4. CASE CallShutdown
    BY <2>4 DEF CallShutdown
  <2>5. CASE JoinAndClose
    BY <2>5 DEF JoinAndClose
  <2>6. CASE WriteLine
    BY <2>6 DEF WriteLine
  <2>7. CASE CheckRunning \/ DrainEnds
    <3>1. /\ fpc \in {"empty", "drain"} /\ fpc' \in {"call", "drain", "exited"}
          /\ running' = running /\ mpc' = mpc
      BY <2>7 DEF CheckRunning, DrainEnds
    <3> QED
      BY <3>1
  <2>8. CASE UNCHANGED allVars
    BY <2>8 DEF allVars
  <2> QED
    BY <1>2, <2>1, <2>2, <2>3, <2>4, <2>5, <2>6, <2>7, <2>8 DEF OwnStep
<1>3. CASE LogCall
  <2>1. UNCHANGED logVars
    BY <1>3 DEF LogCall, Log, Enqueue
  <2> QED
    BY <1>1, <2>1 DEF LifeTypeOK
<1>4. CASE FlushCall
  <2>1. /\ running' = running /\ mpc' = mpc
        /\ \/ fpc' = fpc
           \/ fpc \notin {"none", "exited"} /\ fpc' \in {"inCall", "write", "empty", "drainWrite"}
    <3>1. CASE WaitForEntry \/ InsideCall
      BY <3>1 DEF WaitForEntry, InsideCall
    <3>2. CASE GetEntry \/ GetNothing \/ DrainGet
      <4>1. pc[Flusher] # "idle" /\ fpc' \in {"write", "empty", "drainWrite"}
            /\ running' = running /\ mpc' = mpc
        BY <3>2 DEF GetEntry, GetNothing, DrainGet, ReturnMessage, ReturnStopped,
           ReturnTimedOut, TryReturn
      <4> QED
        BY <1>1, <4>1 DEF CallsInv
    <3>3. CASE DrainTake \/ Relock \/ OutsideCause
      BY <3>3 DEF DrainTake, Relock, OutsideCause
    <3> QED
      BY <1>4, <3>1, <3>2, <3>3 DEF FlushCall
  <2> QED
    BY <1>1, <2>1 DEF LifeTypeOK
<1>5. CASE StopCall
  <2>1. CASE StopQueue \/ StopQueueAgain
    BY <1>1, <2>1 DEF StopQueue, StopQueueAgain, LifeTypeOK
  <2>2. CASE StoppedQueue
    <3>1. mpc = "stop" /\ mpc' = "join" /\ running' = running /\ fpc' = fpc
      BY <1>1, <2>2 DEF StoppedQueue, NotifyAll, CallsInv
    <3> QED
      BY <1>1, <3>1 DEF LifeTypeOK
  <2> QED
    BY <1>5, <2>1, <2>2 DEF StopCall
<1> QED
  BY <1>2, <1>3, <1>4, <1>5, StepKinds

LEMMA TypeStep ==
  ASSUME LoggerRoles, LogInv, [LogNext]_allVars
  PROVE  LoggerTypeOK'
<1>1. BlockingTypeOK'
  BY QueueType DEF LogInv, LoggerTypeOK
<1> QED
  BY <1>1, FileTypeStep, LifeTypeStep DEF LoggerTypeOK, FileTypeOK, LifeTypeOK

(* A log() call moves its own thread, and wakes a waiting consumer at most. *)
LEMMA LogCallMoves ==
  ASSUME LoggerRoles, BlockingTypeOK, LogCall
  PROVE  /\ UNCHANGED logVars
         /\ pc'[Main] = pc[Main]
         /\ pc'[Flusher] = pc[Flusher] \/ (pc[Flusher] = "waiting" /\ pc'[Flusher] = "woken")
         /\ ticket'[Flusher] = ticket[Flusher]
         /\ \/ /\ hist' = hist /\ ticket' = ticket
               /\ \A p \in Producers : pc'[p] = "claimed" => pc[p] = "claimed"
            \/ \E p \in Producers, v \in Values : ClaimSlot(p, v)
            \/ \E p \in Producers : PublishMessage(p)
<1> USE Roles DEF Goto
<1>1. /\ pc \in [Threads -> ProducerPcs \cup ConsumerPcs \cup StopperPcs]
      /\ ticket \in [Threads -> Nat]
  BY DEF BlockingTypeOK, MutexInv
<1>2. PICK p \in Producers : Log(p) \/ Enqueue(p)
  BY DEF LogCall
<1>3. UNCHANGED logVars
  BY <1>2 DEF Log, Enqueue
<1>4. CASE CallProduce(p) \/ ProduceFull(p)
  BY <1>1, <1>3, <1>4 DEF CallProduce, ProduceFull
<1>5. CASE NotifyOne(p)
  <2>1. CASE Waiting = {}
    BY <1>1, <1>3, <1>5, <2>1 DEF NotifyOne
  <2>2. CASE Waiting # {}
    <3>1. PICK c \in Waiting : pc' = [pc EXCEPT ![p] = "idle", ![c] = "woken"]
      BY <1>5, <2>2 DEF NotifyOne
    <3>2. c = Flusher /\ pc[c] = "waiting"
      BY DEF Waiting
    <3>3. pc'[Flusher] = "woken" /\ \A t \in Threads : t # Flusher => pc'[t] \in {pc[t], "idle"}
      BY <1>1, <3>1, <3>2
    <3>4. pc'[Main] = pc[Main]
      BY <1>1, <3>1, <3>2
    <3>5. hist' = hist /\ ticket' = ticket
      BY <1>5 DEF NotifyOne
    <3> QED
      BY <1>3, <3>2, <3>3, <3>4, <3>5
  <2> QED
    BY <2>1, <2>2
<1>6. CASE \E v \in Values : ClaimSlot(p, v)
  <2>1. PICK v \in Values : ClaimSlot(p, v)
    BY <1>6
  <2> QED
    BY <1>1, <1>3, <2>1 DEF ClaimSlot
<1>7. CASE PublishMessage(p)
  BY <1>1, <1>3, <1>7 DEF PublishMessage
<1> QED
  BY <1>2, <1>4, <1>5, <1>6, <1>7 DEF Log, Enqueue, ProduceStep

(* Nobody but the flush thread takes entries out of the queue. *)
Moved(from, to) == pc[Flusher] \in from /\ pc'[Flusher] \in to

LEMMA FlushCallMoves ==
  ASSUME LoggerRoles, BlockingTypeOK, FlushCall
  PROVE  /\ UNCHANGED <<mpc, known, file, lives, running>>
         /\ \A t \in Threads \ {Flusher} : pc'[t] = pc[t] /\ ticket'[t] = ticket[t]
         /\ \/ fpc = "call" /\ fpc' = "inCall" /\ Moved({"idle"}, {"lock"})
               /\ UNCHANGED <<hist, ticket, line>>
            \/ fpc' = fpc /\ Moved({"lock", "woken", "timedOut", "check", "goWait", "waiting"},
                                   {"lock", "woken", "timedOut", "check", "lastTry", "goWait", "waiting"})
               /\ UNCHANGED <<hist, ticket, line>>
            \/ fpc = "inCall" /\ fpc' = "inCall" /\ Moved({"check", "lastTry"}, {"taking"})
               /\ TakeMessage(Flusher) /\ line' = line
            \/ GetEntry /\ Moved({"taking"}, {"idle"})
            \/ GetNothing /\ Moved({"check", "lastTry"}, {"idle"}) /\ UNCHANGED <<hist, ticket>>
            \/ DrainTake /\ Moved({"idle"}, {"tryTaking"}) /\ fpc = "drain" /\ fpc' = "drain"
               /\ line' = line
            \/ DrainGet /\ Moved({"tryTaking"}, {"idle"})
<1> USE Roles DEF Goto, Moved
<1>1. /\ pc \in [Threads -> ProducerPcs \cup ConsumerPcs \cup StopperPcs]
      /\ ticket \in [Threads -> Nat]
  BY DEF BlockingTypeOK, MutexInv
<1> USE <1>1 DEF logVars
<1>2. CASE WaitForEntry
  BY <1>2 DEF WaitForEntry, CallConsume
<1>3. CASE InsideCall
  <2>1. CASE TakeMessage(Flusher)
    BY <1>3, <2>1 DEF InsideCall, TakeMessage
  <2>2. CASE FindEmpty(Flusher)
    BY <1>3, <2>2 DEF InsideCall, FindEmpty
  <2>3. CASE Wait(Flusher)
    BY <1>3, <2>3 DEF InsideCall, Wait
  <2>4. CASE ExpireWait(Flusher)
    BY <1>3, <2>4 DEF InsideCall, ExpireWait
  <2> QED
    BY <1>3, <2>1, <2>2, <2>3, <2>4 DEF InsideCall
<1>4. CASE GetEntry
  BY <1>4 DEF GetEntry, ReturnMessage
<1>5. CASE GetNothing
  BY <1>5 DEF GetNothing, ReturnStopped, ReturnTimedOut
<1>6. CASE DrainTake
  BY <1>6 DEF DrainTake, TryTake
<1>7. CASE DrainGet
  BY <1>7 DEF DrainGet, TryReturn
<1>8. CASE Relock
  BY <1>8 DEF Relock, Acquire
<1>9. CASE OutsideCause
  BY <1>9 DEF OutsideCause, WakeSpuriously, Tick
<1> QED
  BY <1>2, <1>3, <1>4, <1>5, <1>6, <1>7, <1>8, <1>9 DEF FlushCall

(* stop() leaves the entries alone; it may wake the flush thread. *)
LEMMA StopCallMoves ==
  ASSUME LoggerRoles, BlockingTypeOK, StopCall
  PROVE  /\ UNCHANGED <<hist, ticket, running, file, flushed, line, fpc, lives, known>>
         /\ \A p \in Producers : pc'[p] = pc[p]
         /\ pc'[Flusher] = pc[Flusher] \/ (pc[Flusher] = "waiting" /\ pc'[Flusher] = "woken")
         /\ \/ mpc = "stop" /\ mpc' = "stop"
            \/ pc[Main] = "notifyAll" /\ mpc' = "join" /\ pc'[Main] = "stopped"
<1> USE Roles DEF Goto
<1>1. pc \in [Threads -> ProducerPcs \cup ConsumerPcs \cup StopperPcs]
  BY DEF BlockingTypeOK, MutexInv
<1>2. CASE StopQueue
  BY <1>1, <1>2 DEF StopQueue, SetStop, logVars
<1>3. CASE StopQueueAgain
  BY <1>1, <1>3 DEF StopQueueAgain, logVars
<1>4. CASE StoppedQueue
  BY <1>1, <1>4 DEF StoppedQueue, NotifyAll, Waiting
<1> QED
  BY <1>2, <1>3, <1>4 DEF StopCall

----------------------------------------------------------------------------
(* Where the threads are in their calls.                                   *)

LEMMA CallsStep ==
  ASSUME LoggerRoles, LogInv, [LogNext]_allVars
  PROVE  CallsInv'
<1> USE Roles
<1>1. /\ BlockingTypeOK /\ CallsInv /\ LifeTypeOK /\ lives \in 0 .. MaxLives
      /\ Len(hist) \in Nat /\ Tickets = 1 .. Len(hist)
  BY HistFacts DEF LogInv, LoggerTypeOK, LifeTypeOK, BlockingTypeOK
<1>2. CASE OwnStep
  <2> USE <1>1 DEF CallsInv, LifeTypeOK
  <2>1. UNCHANGED vars
    BY <1>2 DEF OwnStep, CallInit, OpenFile, OpenFails, CallShutdown, JoinAndClose,
       WriteLine, CheckRunning, DrainEnds, allVars
  <2>2. UNCHANGED <<pc, ticket>> /\ Tickets' = Tickets
    BY <2>1 DEF vars, Tickets
  <2>3. CASE CallInit
    BY <2>2, <2>3 DEF CallInit
  <2>4. CASE OpenFile
    BY <2>2, <2>4 DEF OpenFile
  <2>5. CASE OpenFails
    BY <2>2, <2>5 DEF OpenFails
  <2>6. CASE CallShutdown
    BY <2>2, <2>6 DEF CallShutdown
  <2>7. CASE JoinAndClose
    BY <2>2, <2>7 DEF JoinAndClose
  <2>8. CASE WriteLine
    BY <2>2, <2>8 DEF WriteLine
  <2>9. CASE CheckRunning
    BY <2>2, <2>9 DEF CheckRunning
  <2>10. CASE DrainEnds
    BY <2>2, <2>10 DEF DrainEnds
  <2>11. CASE UNCHANGED allVars
    BY <2>2, <2>11 DEF allVars, logVars
  <2> QED
    BY <1>2, <2>3, <2>4, <2>5, <2>6, <2>7, <2>8, <2>9, <2>10, <2>11 DEF OwnStep
<1>3. CASE LogCall
  <2>1. /\ UNCHANGED logVars
        /\ pc'[Main] = pc[Main]
        /\ pc'[Flusher] = pc[Flusher] \/ (pc[Flusher] = "waiting" /\ pc'[Flusher] = "woken")
    BY <1>1, <1>3, LogCallMoves
  <2>2. ASSUME NEW p \in Producers, pc'[p] = "claimed" PROVE ticket'[p] \in Tickets'
    <3>1. CASE hist' = hist /\ ticket' = ticket /\ (pc'[p] = "claimed" => pc[p] = "claimed")
      BY <1>1, <2>2, <3>1 DEF CallsInv, Tickets
    <3>2. ASSUME NEW r \in Producers, NEW v \in Values, ClaimSlot(r, v)
          PROVE  ticket'[p] \in Tickets'
      <4>1. Len(hist') = Len(hist) + 1 /\ Tickets' = 1 .. (Len(hist) + 1)
        BY <1>1, <3>2, ClaimFacts DEF ClaimSlot, BlockingTypeOK
      <4>2. /\ pc' = [pc EXCEPT ![r] = "claimed"] /\ ticket' = [ticket EXCEPT ![r] = Len(hist')]
            /\ ticket \in [Threads -> Nat]
            /\ pc \in [Threads -> ProducerPcs \cup ConsumerPcs \cup StopperPcs]
        BY <1>1, <3>2 DEF ClaimSlot, Goto, BlockingTypeOK, MutexInv
      <4>3. CASE p = r
        BY <1>1, <4>1, <4>2, <4>3
      <4>4. CASE p # r
        <5>1. pc[p] = "claimed" /\ ticket'[p] = ticket[p]
          BY <2>2, <4>2, <4>4
        <5> QED
          BY <1>1, <4>1, <5>1 DEF CallsInv
      <4> QED
        BY <4>3, <4>4
    <3>3. ASSUME NEW r \in Producers, PublishMessage(r)
          PROVE  ticket'[p] \in Tickets'
      <4>1. /\ pc' = [pc EXCEPT ![r] = "notify"] /\ ticket' = [ticket EXCEPT ![r] = 0]
            /\ ticket \in [Threads -> Nat]
            /\ pc \in [Threads -> ProducerPcs \cup ConsumerPcs \cup StopperPcs]
            /\ pc[r] = "claimed" /\ Publish(ticket[r])
        BY <1>1, <3>3 DEF PublishMessage, Goto, BlockingTypeOK, MutexInv
      <4>2. p # r /\ pc[p] = "claimed" /\ ticket'[p] = ticket[p]
        BY <2>2, <4>1
      <4>3. ticket[r] \in Tickets /\ ticket[p] \in Tickets
        BY <1>1, <4>1, <4>2 DEF CallsInv
      <4>4. Tickets' = Tickets
        BY <1>1, <4>1, <4>3, StageFacts DEF Publish, Stages, BlockingTypeOK
      <4> QED
        BY <4>2, <4>3, <4>4
    <3> QED
      BY <1>1, <1>3, <3>1, <3>2, <3>3, LogCallMoves
  <2> QED
    BY <1>1, <2>1, <2>2 DEF CallsInv, logVars
<1>4. CASE FlushCall
  <2>1. /\ UNCHANGED <<mpc, known, file, lives, running>>
        /\ \A t \in Threads \ {Flusher} : pc'[t] = pc[t] /\ ticket'[t] = ticket[t]
    BY <1>1, <1>4, FlushCallMoves
  <2>2. /\ fpc' = "inCall" => pc'[Flusher] \notin {"idle", "tryTaking"}
        /\ fpc' = "drain" => pc'[Flusher] \in {"idle", "tryTaking"}
        /\ fpc' \notin {"inCall", "drain"} => pc'[Flusher] = "idle"
        /\ fpc' = fpc \/ (fpc \in {"call", "inCall"} /\ fpc' \in {"inCall", "write", "empty"})
           \/ (fpc = "drain" /\ fpc' = "drainWrite")
    <3>1. CASE GetEntry
      BY <1>1, <3>1, Roles DEF GetEntry, CallsInv, ReturnMessage, Goto, BlockingTypeOK, MutexInv
    <3>2. CASE GetNothing
      BY <1>1, <3>2, Roles
         DEF GetNothing, CallsInv, ReturnStopped, ReturnTimedOut, Goto, BlockingTypeOK, MutexInv
    <3>3. CASE DrainGet
      BY <1>1, <3>3, Roles DEF DrainGet, CallsInv, TryReturn, Goto, BlockingTypeOK, MutexInv
    <3>4. CASE ~(GetEntry \/ GetNothing \/ DrainGet)
      BY <1>1, <1>4, <3>4, FlushCallMoves DEF Moved, CallsInv
    <3> QED
      BY <3>1, <3>2, <3>3, <3>4
  <2>3. Tickets \subseteq Tickets'
    <3>1. CASE hist' = hist
      BY <3>1 DEF Tickets
    <3>2. CASE TakeMessage(Flusher) \/ DrainTake
      <4>1. PICK i \in Tickets : Take(i)
        BY <3>2 DEF TakeMessage, DrainTake, TryTake
      <4> QED
        BY <1>1, <4>1, StageFacts DEF Take, Stages, BlockingTypeOK
    <3>3. CASE GetEntry \/ DrainGet
      <4>1. Free(ticket[Flusher]) /\ Taking
        BY <3>3 DEF GetEntry, DrainGet, ReturnMessage, TryReturn, Taking
      <4>2. ticket[Flusher] \in Tickets
        BY <4>1 DEF LogInv, EntriesInv, Newest
      <4> QED
        BY <1>1, <4>1, <4>2, StageFacts DEF Free, Stages, BlockingTypeOK
    <3> QED
      BY <1>1, <1>4, <3>1, <3>2, <3>3, FlushCallMoves
  <2> QED
    BY <1>1, <2>1, <2>2, <2>3 DEF CallsInv
<1>5. CASE StopCall
  <2>1. /\ UNCHANGED <<hist, ticket, running, file, flushed, line, fpc, lives, known>>
        /\ \A p \in Producers : pc'[p] = pc[p]
        /\ pc'[Flusher] = pc[Flusher] \/ (pc[Flusher] = "waiting" /\ pc'[Flusher] = "woken")
        /\ \/ mpc = "stop" /\ mpc' = "stop"
           \/ pc[Main] = "notifyAll" /\ mpc' = "join" /\ pc'[Main] = "stopped"
    BY <1>1, <1>5, StopCallMoves
  <2>2. Tickets' = Tickets
    BY <2>1 DEF Tickets
  <2> QED
    BY <1>1, <2>1, <2>2 DEF CallsInv
<1> QED
  BY <1>2, <1>3, <1>4, <1>5, StepKinds

----------------------------------------------------------------------------
(* What becomes of the tickets.                                            *)

(* A ticket stays, and never goes back. *)
Forward ==
  /\ Tickets \subseteq Tickets'
  /\ \A i \in Tickets : /\ Out(i) => Out(i)'
                        /\ hist[i].stage # "claimed" => hist'[i].stage # "claimed"

(* No ticket leaves the queue; new ones come after the others. *)
Steady ==
  /\ Tickets \subseteq Tickets' /\ Tickets' \subseteq Nat
  /\ \A i \in Tickets : /\ Out(i)' <=> Out(i)
                        /\ Out(i) => hist'[i].stage = hist[i].stage
                        /\ hist[i].stage # "claimed" => hist'[i].stage # "claimed"
  /\ \A i \in Tickets' \ Tickets : ~Out(i)' /\ \A j \in Tickets : j < i

LEMMA SteadyForward == Steady => Forward
BY DEF Steady, Forward

LEMMA SteadyUnchanged ==
  ASSUME TicketTypeOK, hist' = hist
  PROVE  Steady
BY HistFacts DEF Steady, Tickets, Out

LEMMA SteadyClaim ==
  ASSUME TicketTypeOK, NEW v \in Values, Claim(v)
  PROVE  Steady
<1>1. Len(hist) \in Nat /\ Tickets = 1 .. Len(hist)
  BY HistFacts
<1>2. /\ Tickets' = 1 .. (Len(hist) + 1)
      /\ \A i \in Tickets : hist'[i] = hist[i]
      /\ hist'[Len(hist) + 1] = [val |-> v, stage |-> "claimed"]
  BY ClaimFacts
<1> QED
  BY <1>1, <1>2 DEF Steady, Out

LEMMA SteadyPublish ==
  ASSUME TicketTypeOK, NEW i \in Tickets, Publish(i)
  PROVE  Steady
<1>1. Tickets \subseteq Nat
  BY HistFacts
<1>2. hist[i].stage = "claimed" /\ hist' = [hist EXCEPT ![i].stage = "ready"] /\ "ready" \in Stages
  BY DEF Publish, Stages
<1>3. /\ Tickets' = Tickets /\ hist'[i].stage = "ready"
      /\ \A j \in Tickets : j # i => hist'[j] = hist[j]
  BY <1>2, StageFacts
<1> QED
  BY <1>1, <1>2, <1>3 DEF Steady, Out

(* Nothing leaves the queue but by a step of the flush thread. *)
LEMMA SteadyLog ==
  ASSUME LoggerRoles, LogInv, LogCall
  PROVE  Steady
<1>1. TicketTypeOK /\ BlockingTypeOK /\ CallsInv
  BY DEF LogInv, LoggerTypeOK, BlockingTypeOK
<1>2. CASE hist' = hist
  BY <1>1, <1>2, SteadyUnchanged
<1>3. ASSUME NEW p \in Producers, NEW v \in Values, ClaimSlot(p, v) PROVE Steady
  BY <1>1, <1>3, SteadyClaim DEF ClaimSlot
<1>4. ASSUME NEW p \in Producers, PublishMessage(p) PROVE Steady
  <2>1. ticket[p] \in Tickets /\ Publish(ticket[p])
    BY <1>1, <1>4 DEF CallsInv, PublishMessage
  <2> QED
    BY <1>1, <2>1, SteadyPublish
<1> QED
  BY <1>1, <1>2, <1>3, <1>4, LogCallMoves

(* An entry is taken, then its slot is freed. *)
LEMMA TakeForward ==
  ASSUME TicketTypeOK, NEW i \in Tickets, Take(i)
  PROVE  /\ Forward /\ Tickets \subseteq Nat /\ Tickets' = Tickets
         /\ \A j \in Tickets : j # i => hist'[j] = hist[j]
         /\ hist[i].stage = "ready" /\ hist'[i].stage = "taken"
<1>1. Tickets \subseteq Nat
  BY HistFacts
<1>2. hist[i].stage = "ready" /\ hist' = [hist EXCEPT ![i].stage = "taken"] /\ "taken" \in Stages
  BY DEF Take, Stages
<1>3. /\ Tickets' = Tickets /\ hist'[i].stage = "taken"
      /\ \A j \in Tickets : j # i => hist'[j] = hist[j]
  BY <1>2, StageFacts
<1> QED
  BY <1>1, <1>2, <1>3 DEF Forward, Out

LEMMA FreeForward ==
  ASSUME TicketTypeOK, NEW i \in Tickets, Free(i)
  PROVE  /\ Forward /\ Tickets \subseteq Nat /\ Tickets' = Tickets
         /\ \A j \in Tickets : j # i => hist'[j] = hist[j]
         /\ hist[i].stage = "taken" /\ hist'[i].stage = "freed"
<1>1. Tickets \subseteq Nat
  BY HistFacts
<1>2. hist[i].stage = "taken" /\ hist' = [hist EXCEPT ![i].stage = "freed"] /\ "freed" \in Stages
  BY DEF Free, Stages
<1>3. /\ Tickets' = Tickets /\ hist'[i].stage = "freed"
      /\ \A j \in Tickets : j # i => hist'[j] = hist[j]
  BY <1>2, StageFacts
<1> QED
  BY <1>1, <1>2, <1>3 DEF Forward, Out

----------------------------------------------------------------------------
(* The entries on their way from the queue to the file.                    *)

(* Where nothing leaves the queue and the flush thread keeps what it has,  *)
(* the entries stay as they are.                                           *)
LEMMA SteadyKeeps ==
  ASSUME FileInOrder, EntriesInv, Steady, UNCHANGED <<file, line>>,
         ticket'[Flusher] = ticket[Flusher], Taking' <=> Taking, Writing' <=> Writing
  PROVE  FileInOrder' /\ EntriesInv'
<1>1. Lines' = Lines
  BY DEF Lines
<1>2. FileInOrder'
  BY <1>1 DEF FileInOrder, Steady, Out
<1>3. \A i \in Tickets' : Out(i)' => i \in Tickets /\ Out(i)
  BY DEF Steady
<1>4. Tickets \subseteq Nat /\ Tickets' \subseteq Nat
  BY DEF Steady
<1>5. \A i, j \in Tickets' : j < i /\ Out(i)' => Out(j)'
  <2> TAKE i, j \in Tickets'
  <2> HAVE j < i /\ Out(i)'
  <2>1. i \in Tickets /\ Out(i)
    BY <1>3
  <2>2. j \in Tickets
    BY <1>4, <2>1 DEF Steady
  <2> QED
    BY <2>1, <2>2 DEF EntriesInv, Steady
<1>6. ASSUME NEW i \in Tickets, Newest(i), Out(i) PROVE Newest(i)' /\ hist'[i].stage = hist[i].stage
  BY <1>3, <1>6 DEF Newest, Steady
<1>7. Taking' => Newest(ticket[Flusher])' /\ hist'[ticket'[Flusher]].stage = "taken"
  <2> HAVE Taking'
  <2>1. PICK n : n = ticket[Flusher]
    OBVIOUS
  <2>2. n \in Tickets /\ Newest(n) /\ hist[n].stage = "taken"
    BY <2>1 DEF EntriesInv, Newest
  <2>3. Newest(n)' /\ hist'[n].stage = "taken"
    BY <1>6, <2>2 DEF Out
  <2> QED
    BY <2>1, <2>3 DEF Newest
<1>8. Writing' => /\ Newest(line)' /\ hist'[line'].stage = "freed"
                  /\ \A i \in Lines' : i < line'
  <2> HAVE Writing'
  <2>1. PICK n : n = line
    OBVIOUS
  <2>2. n \in Tickets /\ Newest(n) /\ hist[n].stage = "freed" /\ \A i \in Lines : i < n
    BY <2>1 DEF EntriesInv, Newest
  <2>3. Newest(n)' /\ hist'[n].stage = "freed"
    BY <1>6, <2>2 DEF Out
  <2> QED
    BY <1>1, <2>1, <2>2, <2>3 DEF Newest
<1>9. \A i \in Tickets' : Out(i)' => \/ i \in Lines'
                                     \/ Taking' /\ i = ticket'[Flusher]
                                     \/ Writing' /\ i = line'
  BY <1>1, <1>3 DEF EntriesInv
<1> QED
  BY <1>2, <1>5, <1>7, <1>8, <1>9 DEF EntriesInv, Newest

(* The flush thread takes the oldest entry that is in the queue. *)
LEMMA TakeKeeps ==
  ASSUME TicketTypeOK, FileInOrder, EntriesInv, NEW i \in Tickets, Take(i),
         ticket'[Flusher] = i, Taking', ~Taking, ~Writing, ~Writing', UNCHANGED file
  PROVE  FileInOrder' /\ EntriesInv'
<1>1. Lines' = Lines /\ ~Out(i) /\ \A j \in 1 .. (i - 1) : Out(j)
  BY DEF Lines, Take, IsHead
<1>2. Tickets \subseteq Nat /\ \A j \in Tickets : j >= 1
  BY HistFacts
<1>3. /\ Tickets' = Tickets
      /\ \A j \in Tickets : j # i => hist'[j] = hist[j]
      /\ hist[i].stage = "ready" /\ hist'[i].stage = "taken"
  BY TakeForward
<1>4. /\ Tickets \subseteq Nat /\ Tickets' = Tickets /\ Lines' = Lines
      /\ \A j \in Tickets : j # i => hist'[j] = hist[j]
      /\ hist[i].stage = "ready" /\ hist'[i].stage = "taken"
      /\ \A j \in 1 .. (i - 1) : Out(j)
      /\ \A j \in Tickets : j >= 1
  BY <1>1, <1>2, <1>3
<1>5. ~Out(i) /\ Out(i)'
  BY <1>4 DEF Out
<1>6. \A j \in Tickets : j # i => (Out(j)' <=> Out(j))
  BY <1>4 DEF Out
<1>7. \A j \in Tickets : i < j => ~Out(j)
  BY <1>5 DEF EntriesInv
<1>8. \A j \in Tickets : j < i => Out(j)
  BY <1>4
<1>9. FileInOrder'
  BY <1>4 DEF FileInOrder
<1>10. Newest(i)'
  BY <1>4, <1>6, <1>7 DEF Newest
<1>11. \A k, j \in Tickets' : j < k /\ Out(k)' => Out(j)'
  <2> TAKE k, j \in Tickets'
  <2> HAVE j < k /\ Out(k)'
  <2>1. k = i \/ Out(k)
    BY <1>4, <1>6
  <2>2. j = i \/ Out(j)
    BY <1>4, <1>8, <2>1 DEF EntriesInv
  <2> QED
    BY <1>4, <1>5, <1>6, <2>2
<1>12. \A j \in Tickets' : Out(j)' => j \in Lines' \/ (Taking' /\ j = ticket'[Flusher])
  BY <1>4, <1>6 DEF EntriesInv
<1> QED
  BY <1>4, <1>9, <1>10, <1>11, <1>12 DEF EntriesInv, Newest

(* It has copied the entry and frees the slot. *)
LEMMA GetKeeps ==
  ASSUME LoggerTypeOK, FileInOrder, EntriesInv, Free(ticket[Flusher]), line' = ticket[Flusher],
         Taking, ~Taking', ~Writing, Writing', UNCHANGED file
  PROVE  FileInOrder' /\ EntriesInv'
<1>1. PICK n : n = ticket[Flusher]
  OBVIOUS
<1>2. Newest(n) /\ n \in Tickets /\ Free(n) /\ TicketTypeOK
  BY <1>1 DEF EntriesInv, Newest, LoggerTypeOK, BlockingTypeOK
<1>3. /\ Tickets \subseteq Nat /\ Tickets' = Tickets /\ Lines' = Lines
      /\ \A j \in Tickets : j # n => hist'[j] = hist[j]
      /\ hist[n].stage = "taken" /\ hist'[n].stage = "freed"
  BY <1>2, FreeForward DEF Lines
<1>4. \A j \in Tickets : Out(j)' <=> Out(j)
  BY <1>3 DEF Out
<1>5. FileInOrder'
  BY <1>3 DEF FileInOrder
<1>6. Newest(n)'
  BY <1>2, <1>3, <1>4 DEF Newest
<1>7. \A i \in Lines : i < n
  <2> TAKE i \in Lines
  <2>1. i \in Tickets /\ hist[i].stage = "freed"
    BY DEF FileInOrder
  <2>2. Out(i) /\ i # n
    BY <1>3, <2>1 DEF Out
  <2> QED
    BY <1>2, <1>3, <2>1, <2>2 DEF Newest
<1>8. \A i, j \in Tickets' : j < i /\ Out(i)' => Out(j)'
  BY <1>3, <1>4 DEF EntriesInv
<1>9. \A j \in Tickets' : Out(j)' => j \in Lines' \/ j = n
  BY <1>1, <1>3, <1>4 DEF EntriesInv
<1> QED
  BY <1>1, <1>3, <1>5, <1>6, <1>7, <1>8, <1>9 DEF EntriesInv, Newest

(* It writes the entry. *)
LEMMA WriteKeeps ==
  ASSUME LoggerTypeOK, CallsInv, FileInOrder, EntriesInv, WriteLine
  PROVE  FileInOrder' /\ EntriesInv'
<1>1. Writing /\ ~Writing' /\ file' = Append(file, line)
  BY DEF WriteLine, Writing
<1>2. /\ Len(file) \in Nat /\ DOMAIN file = 1 .. Len(file) /\ DOMAIN file' = 1 .. (Len(file) + 1)
      /\ \A k \in 1 .. Len(file) : file'[k] = file[k]
      /\ file'[Len(file) + 1] = line
      /\ Lines' = Lines \cup {line}
  BY <1>1, LineFacts
<1>3. ~Taking /\ ~Taking' /\ hist' = hist /\ Tickets' = Tickets
  BY DEF WriteLine, CallsInv, Taking, vars, Tickets
<1>4. /\ line \in Tickets /\ hist[line].stage = "freed" /\ \A i \in Lines : i < line
      /\ \A k \in 1 .. Len(file) : file[k] \in Lines
  BY <1>1, <1>2 DEF EntriesInv, Newest, Lines
<1>5. \A k, l \in DOMAIN file' : k < l => file'[k] < file'[l]
  <2> TAKE k, l \in DOMAIN file'
  <2> HAVE k < l
  <2>1. k \in 1 .. Len(file) /\ file'[k] = file[k]
    BY <1>2
  <2>2. CASE l = Len(file) + 1
    BY <1>2, <1>4, <2>1, <2>2
  <2>3. CASE l \in 1 .. Len(file)
    BY <1>2, <2>1, <2>3 DEF FileInOrder
  <2> QED
    BY <1>2, <2>2, <2>3
<1>6. FileInOrder'
  BY <1>2, <1>3, <1>4, <1>5 DEF FileInOrder
<1>7. EntriesInv'
  BY <1>1, <1>2, <1>3 DEF EntriesInv, Out
<1> QED
  BY <1>6, <1>7

LEMMA FileStep ==
  ASSUME LoggerRoles, LogInv, [LogNext]_allVars
  PROVE  FileInOrder' /\ EntriesInv' /\ Forward
<1> USE Roles
<1>1. /\ LoggerTypeOK /\ BlockingTypeOK /\ TicketTypeOK /\ CallsInv /\ FileInOrder /\ EntriesInv
      /\ pc \in [Threads -> ProducerPcs \cup ConsumerPcs \cup StopperPcs]
      /\ ticket \in [Threads -> Nat]
  BY DEF LogInv, LoggerTypeOK, BlockingTypeOK, MutexInv
<1>2. CASE OwnStep
  <2>1. UNCHANGED vars
    BY <1>2 DEF OwnStep, CallInit, OpenFile, OpenFails, CallShutdown, JoinAndClose,
       WriteLine, CheckRunning, DrainEnds, allVars
  <2>2. Steady /\ (Taking' <=> Taking) /\ ticket'[Flusher] = ticket[Flusher]
    BY <1>1, <2>1, SteadyUnchanged DEF Taking, vars
  <2>3. CASE WriteLine
    BY <1>1, <2>2, <2>3, WriteKeeps, SteadyForward
  <2>4. CASE ~WriteLine
    <3>1. UNCHANGED <<file, line>> /\ (Writing' <=> Writing)
      <4>1. CASE CallInit \/ OpenFails \/ CallShutdown \/ JoinAndClose
        BY <4>1 DEF CallInit, OpenFails, CallShutdown, JoinAndClose, Writing
      <4>2. CASE OpenFile
        BY <1>1, <4>2 DEF OpenFile, Writing, CallsInv
      <4>3. CASE CheckRunning \/ DrainEnds
        BY <4>3 DEF CheckRunning, DrainEnds, Writing
      <4>4. CASE UNCHANGED allVars
        BY <4>4 DEF allVars, logVars, Writing
      <4> QED
        BY <1>2, <2>4, <4>1, <4>2, <4>3, <4>4 DEF OwnStep
    <3> QED
      BY <1>1, <2>2, <3>1, SteadyKeeps, SteadyForward
  <2> QED
    BY <2>3, <2>4
<1>3. CASE LogCall
  <2>1. Steady
    BY <1>3, SteadyLog
  <2>2. /\ UNCHANGED <<file, line>> /\ ticket'[Flusher] = ticket[Flusher]
        /\ (Taking' <=> Taking) /\ (Writing' <=> Writing)
    BY <1>1, <1>3, LogCallMoves DEF Taking, Writing, logVars
  <2> QED
    BY <1>1, <2>1, <2>2, SteadyKeeps, SteadyForward
<1>4. CASE FlushCall
  <2>1. CASE /\ UNCHANGED <<hist, ticket, line, file>>
             /\ ~Taking /\ ~Taking' /\ (Writing' <=> Writing)
    <3>1. Steady
      BY <1>1, <2>1, SteadyUnchanged
    <3> QED
      BY <1>1, <2>1, <3>1, SteadyKeeps, SteadyForward
  <2>2. CASE TakeMessage(Flusher) \/ DrainTake
    <3>1. PICK i \in Tickets : Take(i) /\ ticket' = [ticket EXCEPT ![Flusher] = i]
      BY <2>2 DEF TakeMessage, DrainTake, TryTake
    <3>2. ticket'[Flusher] = i
      BY <1>1, <3>1
    <3>3. CASE TakeMessage(Flusher)
      <4>1. pc[Flusher] \in {"check", "lastTry"} /\ pc' = [pc EXCEPT ![Flusher] = "taking"]
        BY <3>3 DEF TakeMessage, Goto
      <4>2. pc'[Flusher] = "taking"
        BY <1>1, <4>1
      <4>3. UNCHANGED file /\ fpc = "inCall" /\ fpc' = "inCall"
        BY <1>1, <1>4, <4>2, FlushCallMoves DEF Moved
      <4>4. ~Taking /\ Taking' /\ ~Writing /\ ~Writing'
        BY <4>1, <4>2, <4>3 DEF Taking, Writing
      <4> QED
        BY <1>1, <3>1, <3>2, <4>3, <4>4, TakeKeeps, TakeForward
    <3>4. CASE DrainTake
      <4>1. /\ UNCHANGED <<file, fpc>> /\ fpc = "drain"
            /\ pc[Flusher] = "idle" /\ pc' = [pc EXCEPT ![Flusher] = "tryTaking"]
        BY <3>4 DEF DrainTake, TryTake, Goto, logVars
      <4>2. ~Taking /\ Taking' /\ ~Writing /\ ~Writing'
        BY <1>1, <4>1 DEF Taking, Writing
      <4> QED
        BY <1>1, <3>1, <3>2, <4>1, <4>2, TakeKeeps, TakeForward
    <3> QED
      BY <2>2, <3>3, <3>4
  <2>3. CASE GetEntry \/ DrainGet
    <3>1. /\ Free(ticket[Flusher]) /\ line' = ticket[Flusher]
          /\ Taking /\ Writing' /\ UNCHANGED file
          /\ pc' = [pc EXCEPT ![Flusher] = "idle"]
      BY <2>3 DEF GetEntry, DrainGet, ReturnMessage, TryReturn, Goto, Taking, Writing
    <3>2. ~Taking' /\ ~Writing
      BY <1>1, <3>1 DEF Taking, Writing, CallsInv
    <3>3. ticket[Flusher] \in Tickets
      BY <1>1, <3>1 DEF EntriesInv, Newest
    <3> QED
      BY <1>1, <3>1, <3>2, <3>3, GetKeeps, FreeForward
  <2>4. CASE GetNothing
    <3>1. UNCHANGED <<hist, ticket, line, file>> /\ ~Taking /\ ~Taking' /\ (Writing' <=> Writing)
      <4>1. /\ pc[Flusher] \in {"check", "lastTry"} /\ pc' = [pc EXCEPT ![Flusher] = "idle"]
            /\ UNCHANGED <<hist, ticket, line, file>> /\ fpc' = "empty"
        BY <2>4 DEF GetNothing, ReturnStopped, ReturnTimedOut, Goto
      <4> QED
        BY <1>1, <4>1 DEF Taking, Writing, CallsInv
    <3> QED
      BY <2>1, <3>1
  <2>5. CASE ~(TakeMessage(Flusher) \/ DrainTake \/ GetEntry \/ DrainGet \/ GetNothing)
    BY <1>1, <1>4, <2>1, <2>5, FlushCallMoves DEF Moved, Taking, Writing
  <2> QED
    BY <2>2, <2>3, <2>4, <2>5
<1>5. CASE StopCall
  <2>1. /\ UNCHANGED <<hist, ticket, file, line, fpc>>
        /\ pc'[Flusher] = pc[Flusher] \/ (pc[Flusher] = "waiting" /\ pc'[Flusher] = "woken")
    BY <1>1, <1>5, StopCallMoves
  <2>2. Steady /\ (Taking' <=> Taking) /\ (Writing' <=> Writing)
    BY <1>1, <2>1, SteadyUnchanged DEF Taking, Writing
  <2> QED
    BY <1>1, <2>1, <2>2, SteadyKeeps, SteadyForward
<1> QED
  BY <1>2, <1>3, <1>4, <1>5, StepKinds

----------------------------------------------------------------------------
(* What shutdown() found.                                                  *)

(* The entries known to shutdown() stay published, and go on.              *)
LEMMA KnownKept ==
  ASSUME KnownInv, Forward, known' = known,
         mpc' \in {"stop", "join"} => mpc \in {"stop", "join"},
         mpc \in {"stop", "join"} /\ fpc' = "exited" => fpc = "exited"
  PROVE  KnownInv'
<1> SUFFICES ASSUME mpc' \in {"stop", "join"}, NEW i \in known
             PROVE  /\ i \in Tickets' /\ hist'[i].stage # "claimed"
                    /\ fpc' = "exited" /\ (\A j \in 1 .. i : j \in known) => Out(i)'
  BY DEF KnownInv
<1> QED
  BY DEF KnownInv, Forward

LEMMA KnownStep ==
  ASSUME LoggerRoles, LogInv, [LogNext]_allVars
  PROVE  KnownInv'
<1>1. /\ TicketTypeOK /\ BlockingTypeOK /\ CallsInv /\ KnownInv /\ Forward
  BY FileStep DEF LogInv, LoggerTypeOK, BlockingTypeOK
<1>2. CASE OwnStep
  <2>1. CASE CallShutdown
    <3>1. /\ known' = {i \in Tickets : hist[i].stage # "claimed"}
          /\ hist' = hist /\ Tickets' = Tickets
          /\ fpc' # "exited"
      BY <1>1, <2>1 DEF CallShutdown, vars, Tickets, CallsInv
    <3> QED
      BY <3>1 DEF KnownInv
  <2>2. CASE DrainEnds
    <3>1. /\ hist' = hist /\ known' = known /\ mpc' = mpc /\ Tickets' = Tickets /\ ~HeadReady
      BY <2>2 DEF DrainEnds, vars, Tickets
    <3>2. ASSUME mpc' \in {"stop", "join"}, NEW i \in known',
                 fpc' = "exited", \A j \in 1 .. i : j \in known'
          PROVE  Out(i)'
      <4>1. i \in Tickets /\ \A j \in 1 .. i : hist[j].stage # "claimed"
        BY <1>1, <3>1, <3>2 DEF KnownInv
      <4>2. Out(i)
        BY <1>1, <3>1, <4>1, NothingReady
      <4> QED
        BY <3>1, <4>2 DEF Out
    <3>3. ASSUME mpc' \in {"stop", "join"}, NEW i \in known'
          PROVE  i \in Tickets' /\ hist'[i].stage # "claimed"
      BY <1>1, <3>1, <3>3 DEF KnownInv
    <3> QED
      BY <3>2, <3>3 DEF KnownInv
  <2>3. CASE ~CallShutdown /\ ~DrainEnds
    <3>1. /\ known' = known
          /\ mpc' \in {"stop", "join"} => mpc \in {"stop", "join"}
          /\ mpc \in {"stop", "join"} /\ fpc' = "exited" => fpc = "exited"
      <4>1. CASE CallInit \/ OpenFile \/ OpenFails \/ JoinAndClose
        BY <4>1 DEF CallInit, OpenFile, OpenFails, JoinAndClose
      <4>2. CASE WriteLine \/ CheckRunning
        BY <4>2 DEF WriteLine, CheckRunning
      <4>3. CASE UNCHANGED allVars
        BY <4>3 DEF allVars, logVars
      <4> QED
        BY <1>2, <2>3, <4>1, <4>2, <4>3 DEF OwnStep
    <3> QED
      BY <1>1, <3>1, KnownKept
  <2> QED
    BY <2>1, <2>2, <2>3
<1>3. CASE LogCall
  <2>1. UNCHANGED logVars
    BY <1>1, <1>3, LogCallMoves
  <2> QED
    BY <1>1, <2>1, KnownKept DEF logVars
<1>4. CASE FlushCall
  <2>1. known' = known /\ mpc' = mpc
    BY <1>1, <1>4, FlushCallMoves
  <2>2. fpc' = "exited" => fpc = "exited"
    BY <1>1, <1>4, FlushCallMoves DEF GetEntry, GetNothing, DrainGet
  <2> QED
    BY <1>1, <2>1, <2>2, KnownKept
<1>5. CASE StopCall
  <2>1. /\ known' = known /\ fpc' = fpc
        /\ \/ mpc = "stop" /\ mpc' = "stop"
           \/ pc[Main] = "notifyAll" /\ mpc' = "join"
    BY <1>1, <1>5, StopCallMoves
  <2>2. mpc = "stop"
    BY <1>1, <2>1 DEF CallsInv
  <2> QED
    BY <1>1, <2>1, <2>2, KnownKept
<1> QED
  BY <1>2, <1>3, <1>4, <1>5, StepKinds

----------------------------------------------------------------------------
LEMMA NextLogInv ==
  ASSUME LoggerRoles
  PROVE  LogInv /\ [LogNext]_allVars => LogInv'
<1> SUFFICES ASSUME LogInv, [LogNext]_allVars PROVE LogInv'
  OBVIOUS
<1> QED
  BY TypeStep, CallsStep, FileStep, KnownStep DEF LogInv

(* The state of the logger is always that of one of these threads.         *)
THEOREM LoggerInvariant ==
  ASSUME LoggerRoles
  PROVE  LogSpec => []LogInv
BY InitLogInv, NextLogInv, PTL DEF LogSpec

(* Types, and where the two threads can be.                                *)
THEOREM LoggerTypeCorrect ==
  ASSUME LoggerRoles
  PROVE  LogSpec => []LoggerTypeOK
<1>1. LogInv => LoggerTypeOK
  BY DEF LogInv
<1> QED
  BY <1>1, LoggerInvariant, PTL

(* Every line of the file was logged, once, in the order of the calls.     *)
THEOREM LinesInOrder ==
  ASSUME LoggerRoles
  PROVE  LogSpec => []FileInOrder
<1>1. LogInv => FileInOrder
  BY DEF LogInv
<1> QED
  BY <1>1, LoggerInvariant, PTL

(* When shutdown() returns, what it found complete and not hidden is in    *)
(* the file, and out of the stream's buffer.                               *)
THEOREM RemainingIsFlushed ==
  ASSUME LoggerRoles
  PROVE  LogSpec => ShutdownFlushes
<1>1. LogInv /\ [LogNext]_allVars =>
        [mpc = "join" /\ mpc' = "closed" =>
           /\ \A i \in known : (\A j \in 1 .. i : j \in known) => i \in Lines'
           /\ flushed' = Len(file')]_allVars
  <2> SUFFICES ASSUME LogInv, [LogNext]_allVars, mpc = "join", mpc' = "closed"
               PROVE  /\ \A i \in known : (\A j \in 1 .. i : j \in known) => i \in Lines'
                      /\ flushed' = Len(file')
    OBVIOUS
  <2>1. BlockingTypeOK /\ CallsInv /\ EntriesInv /\ KnownInv
    BY DEF LogInv, LoggerTypeOK
  <2>2. JoinAndClose
    <3>1. CASE OwnStep
      BY <3>1 DEF OwnStep, CallInit, OpenFile, OpenFails, CallShutdown, WriteLine,
         CheckRunning, DrainEnds, allVars, logVars
    <3>2. CASE LogCall
      BY <2>1, <3>2, LogCallMoves DEF logVars
    <3>3. CASE FlushCall
      BY <2>1, <3>3, FlushCallMoves
    <3>4. CASE StopCall
      BY <2>1, <3>4, StopCallMoves
    <3> QED
      BY <3>1, <3>2, <3>3, <3>4, StepKinds
  <2>3. fpc = "exited" /\ flushed' = Len(file) /\ file' = file
    BY <2>2 DEF JoinAndClose
  <2>4. ~Taking /\ ~Writing /\ Lines' = Lines
    BY <2>1, <2>3 DEF CallsInv, Taking, Writing, Lines
  <2>5. ASSUME NEW i \in known, \A j \in 1 .. i : j \in known PROVE i \in Lines
    <3>1. i \in Tickets /\ Out(i)
      BY <2>1, <2>3, <2>5 DEF KnownInv
    <3> QED
      BY <2>1, <2>4, <3>1 DEF EntriesInv
  <2> QED
    BY <2>3, <2>4, <2>5
<1> QED
  BY <1>1, LoggerInvariant, PTL DEF LogSpec, ShutdownFlushes
=============================================================================
