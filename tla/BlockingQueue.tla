--------------------------- MODULE BlockingQueue ---------------------------
(***************************************************************************)
(* BlockingQueue<T> of include/blocking_queue.hpp: a condition variable    *)
(* around MpmcQueue. Messages go through the lock-free queue; the mutex    *)
(* and the condition variable only serve the threads that wait.            *)
(*                                                                         *)
(* The lock-free queue is the one TicketQueue describes, which MpmcQueue   *)
(* is checked to implement: a call to it is a claim followed by a publish, *)
(* or a take followed by a free, with other threads in between. The        *)
(* producers do not hold the mutex while they publish, which is what makes *)
(* the wait path delicate.                                                 *)
(***************************************************************************)
EXTENDS TicketQueue

CONSTANTS
  Producers,    \* the threads that call produce()
  Consumers,    \* the threads that call consume_blocking() and try_consume()
  Stoppers,     \* the threads that call stop(), once each
  NoThread,     \* the mutex is free
  Timeout       \* timeout_ms of the calls that have one, in ticks

ASSUME RoleAssumption ==
  /\ Producers \cap Consumers = {}
  /\ Stoppers \cap (Producers \cup Consumers) = {}
  /\ NoThread \notin Producers \cup Consumers \cup Stoppers

ASSUME TimeoutAssumption == Timeout \in Nat

VARIABLES
  mtx,      \* the holder of mtx_
  stop,     \* stop_
  pc,       \* where each thread is in its call
  ticket,   \* the ticket a thread owns in the queue
  timed,    \* the call of the consumer has timeout_ms >= 0
  left      \* ticks before its wait_for expires

vars == <<hist, mtx, stop, pc, ticket, timed, left>>

callVars == <<timed, left>>

Threads == Producers \cup Consumers \cup Stoppers

Goto(t, label) == pc' = [pc EXCEPT ![t] = label]

Lock(t) == mtx = NoThread /\ mtx' = t

Unlock == mtx' = NoThread

Init ==
  /\ TInit
  /\ mtx = NoThread
  /\ stop = FALSE
  /\ pc = [t \in Threads |-> "idle"]
  /\ ticket = [t \in Threads |-> 0]
  /\ timed = [c \in Consumers |-> FALSE]
  /\ left = [c \in Consumers |-> 0]

Waiting == {c \in Consumers : pc[c] = "waiting"}

----------------------------------------------------------------------------
(* Mistakes one could make in this code. No action of the specification    *)
(* uses them: they stand in for one action at a time, to see that the      *)
(* properties below notice.                                                *)

(* produce() does not notify. *)
PublishSilently(p) ==
  /\ pc[p] = "claimed"
  /\ Publish(ticket[p])
  /\ ticket' = [ticket EXCEPT ![p] = 0]
  /\ Goto(p, "idle")
  /\ UNCHANGED <<mtx, stop, callVars>>

(* produce() notifies without the mutex. *)
NotifyUnlocked(p) ==
  /\ pc[p] = "notify"
  /\ IF Waiting = {}
       THEN Goto(p, "idle")
       ELSE \E c \in Waiting : pc' = [pc EXCEPT ![p] = "idle", ![c] = "woken"]
  /\ UNCHANGED <<hist, mtx, stop, ticket, callVars>>

(* stop() sets the flag without the mutex. *)
SetStopUnlocked(s) ==
  /\ pc[s] = "idle"
  /\ stop' = TRUE
  /\ Goto(s, "notifyAll")
  /\ UNCHANGED <<hist, mtx, ticket, callVars>>

----------------------------------------------------------------------------
(* produce(v) *)

CallProduce(p) ==
  /\ pc[p] = "idle"
  /\ Goto(p, "produce")
  /\ UNCHANGED <<hist, mtx, stop, ticket, callVars>>

ProduceFull(p) ==
  /\ pc[p] = "produce"
  /\ Full
  /\ Goto(p, "idle")
  /\ UNCHANGED <<hist, mtx, stop, ticket, callVars>>

ClaimSlot(p, v) ==
  /\ pc[p] = "produce"
  /\ Len(hist) < MaxPut
  /\ Claim(v)
  /\ ticket' = [ticket EXCEPT ![p] = Len(hist')]
  /\ Goto(p, "claimed")
  /\ UNCHANGED <<mtx, stop, callVars>>

PublishMessage(p) ==
  /\ pc[p] = "claimed"
  /\ Publish(ticket[p])
  /\ ticket' = [ticket EXCEPT ![p] = 0]
  /\ Goto(p, "notify")
  /\ UNCHANGED <<mtx, stop, callVars>>

(* lock_guard; notify_one: nobody else runs under the mutex meanwhile, so  *)
(* the section is one step. Any one of the waiters may be picked.          *)
NotifyOne(p) ==
  /\ pc[p] = "notify"
  /\ mtx = NoThread
  /\ IF Waiting = {}
       THEN Goto(p, "idle")
       ELSE \E c \in Waiting : pc' = [pc EXCEPT ![p] = "idle", ![c] = "woken"]
  /\ UNCHANGED <<hist, mtx, stop, ticket, callVars>>

----------------------------------------------------------------------------
(* consume_blocking(out, timeout_ms) *)

CallConsume(c, withTimeout) ==
  /\ pc[c] = "idle"
  /\ timed' = [timed EXCEPT ![c] = withTimeout]
  /\ Goto(c, "lock")
  /\ UNCHANGED <<hist, mtx, stop, ticket, left>>

(* unique_lock, and the relock at the end of a wait. *)
Acquire(c) ==
  /\ pc[c] \in {"lock", "woken", "timedOut"}
  /\ Lock(c)
  /\ Goto(c, IF pc[c] = "timedOut" THEN "lastTry" ELSE "check")
  /\ UNCHANGED <<hist, stop, ticket, callVars>>

ReturnStopped(c) ==
  /\ pc[c] = "check"
  /\ stop
  /\ Unlock
  /\ Goto(c, "idle")
  /\ UNCHANGED <<hist, stop, ticket, callVars>>

(* queue_.consume(out) succeeds: in the loop, or after the timeout. *)
TakeMessage(c) ==
  /\ \/ pc[c] = "check" /\ ~stop
     \/ pc[c] = "lastTry"
  /\ \E i \in Tickets :
       /\ Take(i)
       /\ ticket' = [ticket EXCEPT ![c] = i]
  /\ Goto(c, "taking")
  /\ UNCHANGED <<mtx, stop, callVars>>

ReturnMessage(c) ==
  /\ pc[c] = "taking"
  /\ Free(ticket[c])
  /\ ticket' = [ticket EXCEPT ![c] = 0]
  /\ Unlock
  /\ Goto(c, "idle")
  /\ UNCHANGED <<stop, callVars>>

(* queue_.consume(out) fails; the mutex is still held. *)
FindEmpty(c) ==
  /\ pc[c] = "check"
  /\ ~stop
  /\ ~HeadReady
  /\ Goto(c, "goWait")
  /\ UNCHANGED <<hist, mtx, stop, ticket, callVars>>

(* cv_.wait or cv_.wait_for: unlock and block in one step. Each wait_for   *)
(* starts with the whole of timeout_ms.                                    *)
Wait(c) ==
  /\ pc[c] = "goWait"
  /\ Unlock
  /\ left' = [left EXCEPT ![c] = IF timed[c] THEN Timeout ELSE 0]
  /\ Goto(c, "waiting")
  /\ UNCHANGED <<hist, stop, ticket, timed>>

WakeSpuriously(c) ==
  /\ pc[c] = "waiting"
  /\ Goto(c, "woken")
  /\ UNCHANGED <<hist, mtx, stop, ticket, callVars>>

Tick(c) ==
  /\ pc[c] = "waiting"
  /\ left[c] > 0
  /\ left' = [left EXCEPT ![c] = @ - 1]
  /\ UNCHANGED <<hist, mtx, stop, pc, ticket, timed>>

ExpireWait(c) ==
  /\ pc[c] = "waiting"
  /\ timed[c]
  /\ left[c] = 0
  /\ Goto(c, "timedOut")
  /\ UNCHANGED <<hist, mtx, stop, ticket, callVars>>

ReturnTimedOut(c) ==
  /\ pc[c] = "lastTry"
  /\ ~HeadReady
  /\ Unlock
  /\ Goto(c, "idle")
  /\ UNCHANGED <<hist, stop, ticket, callVars>>

----------------------------------------------------------------------------
(* try_consume(out): the lock-free path; it changes nothing when it fails. *)

TryTake(c) ==
  /\ pc[c] = "idle"
  /\ \E i \in Tickets :
       /\ Take(i)
       /\ ticket' = [ticket EXCEPT ![c] = i]
  /\ Goto(c, "tryTaking")
  /\ UNCHANGED <<mtx, stop, callVars>>

TryReturn(c) ==
  /\ pc[c] = "tryTaking"
  /\ Free(ticket[c])
  /\ ticket' = [ticket EXCEPT ![c] = 0]
  /\ Goto(c, "idle")
  /\ UNCHANGED <<mtx, stop, callVars>>

----------------------------------------------------------------------------
(* stop(): the flag under the mutex, the notification after it. *)

SetStop(s) ==
  /\ pc[s] = "idle"
  /\ mtx = NoThread
  /\ stop' = TRUE
  /\ Goto(s, "notifyAll")
  /\ UNCHANGED <<hist, mtx, ticket, callVars>>

NotifyAll(s) ==
  /\ pc[s] = "notifyAll"
  /\ pc' = [t \in Threads |-> CASE t = s -> "stopped"
                                [] t \in Waiting -> "woken"
                                [] OTHER -> pc[t]]
  /\ UNCHANGED <<hist, mtx, stop, ticket, callVars>>

----------------------------------------------------------------------------
ProduceStep(p) ==
  \/ ProduceFull(p)
  \/ \E v \in Values : ClaimSlot(p, v)
  \/ PublishMessage(p)

ConsumeStep(c) ==
  \/ ReturnStopped(c)
  \/ TakeMessage(c)
  \/ ReturnMessage(c)
  \/ FindEmpty(c)
  \/ Wait(c)
  \/ ExpireWait(c)
  \/ ReturnTimedOut(c)
  \/ TryReturn(c)

Next ==
  \/ \E p \in Producers : CallProduce(p) \/ ProduceStep(p) \/ NotifyOne(p)
  \/ \E c \in Consumers, withTimeout \in BOOLEAN : CallConsume(c, withTimeout)
  \/ \E c \in Consumers : ConsumeStep(c) \/ Acquire(c) \/ TryTake(c)
  \/ \E c \in Consumers : WakeSpuriously(c) \/ Tick(c)
  \/ \E s \in Stoppers : SetStop(s) \/ NotifyAll(s)

Spec == Init /\ [][Next]_vars

(* Scheduling: a thread inside a call goes on, and a thread that asks for  *)
(* the mutex gets it in the end. A consumer that returned calls again, as  *)
(* the loops of main.cpp and of Logger::flushLoop do; a producer need not. *)
Fairness ==
  /\ \A p \in Producers : WF_vars(ProduceStep(p)) /\ SF_vars(NotifyOne(p))
  /\ \A c \in Consumers :
       /\ WF_vars(ConsumeStep(c))
       /\ SF_vars(Acquire(c))
       /\ WF_vars(CallConsume(c, FALSE))
  /\ \A s \in Stoppers : WF_vars(NotifyAll(s))

FairSpec == Spec /\ Fairness

----------------------------------------------------------------------------
Holding == {"check", "lastTry", "goWait", "taking"}

ProducerPcs == {"idle", "produce", "claimed", "notify"}
ConsumerPcs == Holding \cup {"idle", "lock", "waiting", "woken", "timedOut", "tryTaking"}
StopperPcs  == {"idle", "notifyAll", "stopped"}

(* The holder of the mutex is the one consumer between acquiring and       *)
(* releasing it.                                                           *)
MutexInv ==
  /\ pc \in [Threads -> ProducerPcs \cup ConsumerPcs \cup StopperPcs]
  /\ \A p \in Producers : pc[p] \in ProducerPcs
  /\ \A c \in Consumers : pc[c] \in ConsumerPcs
  /\ \A s \in Stoppers : pc[s] \in StopperPcs
  /\ \A c \in Consumers : pc[c] \in Holding <=> mtx = c

BlockingTypeOK ==
  /\ TicketTypeOK
  /\ MutexInv
  /\ mtx \in Consumers \cup {NoThread}
  /\ stop \in BOOLEAN
  /\ ticket \in [Threads -> Nat]
  /\ timed \in [Consumers -> BOOLEAN]
  /\ left \in [Consumers -> Nat]

(* Somebody is about to look at the queue, or to wake somebody who will.   *)
(* A consumer that is leaving with a message is not such a one.            *)
LookingAgain ==
  \/ \E p \in Producers : pc[p] = "notify"
  \/ \E c \in Consumers : pc[c] \in {"lock", "woken", "timedOut", "check", "lastTry"}
  \/ \E s \in Stoppers : pc[s] = "notifyAll"

(* No lost wakeup: while a message is there to be taken, no consumer       *)
(* sleeps unless somebody is looking again (blocking_queue.hpp:9 and :40). *)
NoLostWakeup == HeadReady /\ Waiting # {} => LookingAgain

(* Once stop() has notified, nobody sleeps and nobody is about to: no      *)
(* consumer can slip into its wait between the flag and the notification   *)
(* (blocking_queue.hpp:59 and :62).                                        *)
NobodyWaitsAfterStop ==
  stop /\ (\A s \in Stoppers : pc[s] # "notifyAll") =>
    \A c \in Consumers : pc[c] \notin {"waiting", "goWait"}

(* The inductive invariant behind NobodyWaitsAfterStop. *)
StopInv ==
  /\ \A c \in Consumers : pc[c] = "goWait" => ~stop
  /\ stop /\ Waiting # {} => \E s \in Stoppers : pc[s] = "notifyAll"

(* The inductive invariant behind NoLostWakeup for a single consumer. From *)
(* its failed consume() to its wait only a producer may be relied upon.    *)
WakeInv ==
  \A c \in Consumers :
    /\ HeadReady /\ pc[c] = "goWait" => \E p \in Producers : pc[p] = "notify"
    /\ HeadReady /\ pc[c] = "waiting" =>
         \/ \E p \in Producers : pc[p] = "notify"
         \/ \E s \in Stoppers : pc[s] = "notifyAll"

(* Until stop() is called, every published message is handed to a consumer *)
(* in the end, without the help of a timeout or of a spurious wakeup.      *)
Delivery ==
  \A i \in 1 .. MaxPut :
    (i \in Tickets /\ hist[i].stage = "ready") ~> (stop \/ (i \in Tickets /\ Out(i)))

(* After stop() every call of consume_blocking() returns.                  *)
StopReturns ==
  \A c \in Consumers : stop /\ pc[c] # "idle" ~> pc[c] = "idle"
=============================================================================
