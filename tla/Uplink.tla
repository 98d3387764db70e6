------------------------------- MODULE Uplink -------------------------------
(* What the two TCP reporters of the dashboard share: the queue net_q they *)
(* empty, the connection to the server, the clock, and the thread that     *)
(* stop() joins. EpollReporter and NetReporter extend this module.         *)
(*                                                                         *)
(* One tick is 50 ms: the interval of a sample and of the shorter sleeps.  *)
(* The thread takes no time for what it computes, only for what it waits   *)
(* for, so the clock ticks while it waits (Idle). Messages are numbered in *)
(* the order of publication; a line on the wire has two halves, since the  *)
(* kernel may take a part of what it is offered.                           *)
EXTENDS Integers, Sequences

CONSTANTS
  QCap,         \* messages net_q holds (main.cpp:224)
  Rate,         \* messages published in a tick, at most
  RoomCap,      \* half lines the kernel buffers for the peer
  BaseBackoff,  \* the first back-off, in ticks
  MaxBackoff,   \* the longest
  MaxMsgs,      \* bound: messages published in all
  MaxFaults     \* bound: failures of the network, the peer and the kernel

ASSUME UplinkAssumption ==
  /\ QCap \in Nat \ {0} /\ Rate \in Nat \ {0} /\ RoomCap \in Nat \ {0}
  /\ BaseBackoff \in Nat \ {0} /\ MaxBackoff \in Nat
  /\ BaseBackoff <= MaxBackoff
  /\ MaxMsgs \in Nat /\ MaxFaults \in Nat

VARIABLES
  queue, offered, rate,           \* net_q; published in all, and in this tick
  link, room, reply, stuck,       \* the socket as the kernel and the peer see it
  faults,
  kind, pc, running, stopper,     \* the reporter's thread and the caller of stop()
  buf,                            \* half lines still to send
  backoff, retryIn, sampleIn, sleepFor,     \* timers, as the time that is left
  last, fails, waited, behind, outcome      \* history: see the properties

queueVars  == <<queue, offered, rate>>
peerVars   == <<link, room, reply, stuck>>
threadVars == <<kind, pc, running, stopper>>
timerVars  == <<backoff, retryIn, sampleIn, sleepFor>>
histVars   == <<last, fails, waited, behind, outcome>>

uplinkVars == <<queueVars, peerVars, faults, threadVars, buf, timerVars, histVars>>

Least(a, b) == IF a < b THEN a ELSE b
Less(n)     == IF n = 0 THEN 0 ELSE n - 1

(* The back-off that follows one of b ticks, *)
Double(b) == Least(2 * b, MaxBackoff)

(* and the one that is due after the k-th failure in a row. *)
Power[n \in Nat] == IF n = 0 THEN 1 ELSE 2 * Power[n - 1]
Due(k) == Least(BaseBackoff * Power[k - 1], MaxBackoff)

(* The failures in a row are counted up to where Due no longer grows. *)
MostFails == CHOOSE k \in 1 .. MaxBackoff + 1 :
               /\ Due(k) = MaxBackoff
               /\ \A j \in 1 .. k - 1 : Due(j) < MaxBackoff

(* A message becomes a line of two halves. *)
Halves(msgs) ==
  [k \in 1 .. 2 * Len(msgs) |->
     [msg |-> msgs[(k + 1) \div 2], half |-> IF k % 2 = 1 THEN 1 ELSE 2]]

UplinkInit ==
  /\ queue = <<>> /\ offered = 0 /\ rate = 0
  /\ link = "none" /\ room = 0 /\ reply = FALSE /\ stuck = FALSE
  /\ faults = 0
  /\ kind = "none" /\ pc = "new" /\ running = FALSE /\ stopper = "idle"
  /\ buf = <<>>
  /\ backoff = BaseBackoff /\ retryIn = 0 /\ sampleIn = 0 /\ sleepFor = 0
  /\ last = [msg |-> 0, half |-> 2, here |-> FALSE]
  /\ fails = 0 /\ waited = 0 /\ behind = FALSE /\ outcome = "never"

----------------------------------------------------------------------------
(* The bus publishes; a full net_q refuses the message, which is counted   *)
(* as dropped (topic_bus.hpp:156).                                         *)
Offer ==
  /\ offered < MaxMsgs /\ rate < Rate
  /\ offered' = offered + 1
  /\ rate' = rate + 1
  /\ queue' = IF Len(queue) < QCap THEN Append(queue, offered') ELSE queue
  /\ UNCHANGED <<peerVars, faults, threadVars, buf, timerVars, histVars>>

(* The thread waits: it sleeps, it is in epoll_wait and no sample is due,  *)
(* or it is in a call that blocks.                                         *)
Idle ==
  \/ pc \in {"sleep", "slice"} /\ sleepFor > 0
  \/ pc = "wait" /\ sampleIn > 0
  \/ pc = "take" /\ queue = <<>>
  \/ pc = "connect" /\ link = "syn"
  \/ pc = "send" /\ link \in {"up", "fin"} /\ room = 0

(* History: the thread is behind when it let time pass without a look at   *)
(* the queue, until it has seen the queue empty.                           *)
Tick ==
  /\ Idle
  /\ rate' = 0
  /\ retryIn' = Less(retryIn)
  /\ sampleIn' = Less(sampleIn)
  /\ sleepFor' = Less(sleepFor)
  /\ waited' = IF link = "none" THEN Least(waited + 1, MaxBackoff) ELSE 0
  /\ behind' = (behind \/ pc \in {"sleep", "connect", "send"})
  /\ UNCHANGED <<queue, offered, peerVars, faults, threadVars, buf, backoff,
                 last, fails, outcome>>

(* The network and the peer. A peer that is stuck neither reads nor        *)
(* accepts any more, and a connection attempt then times out.              *)
Fault == faults < MaxFaults /\ faults' = faults + 1

Others == UNCHANGED <<queueVars, threadVars, buf, timerVars, histVars>>

Establish ==
  /\ link = "syn" /\ ~stuck
  /\ link' = "up" /\ room' = RoomCap
  /\ UNCHANGED <<reply, stuck, faults>> /\ Others

Refuse ==
  /\ link = "syn"
  /\ link' = "reset"
  /\ \/ Fault
     \/ stuck /\ UNCHANGED faults
  /\ UNCHANGED <<room, reply, stuck>> /\ Others

PeerReads ==
  /\ link = "up" /\ ~stuck /\ room < RoomCap
  /\ room' = room + 1
  /\ UNCHANGED <<link, reply, stuck, faults>> /\ Others

PeerReplies ==
  /\ link = "up" /\ ~reply /\ Fault
  /\ reply' = TRUE
  /\ UNCHANGED <<link, room, stuck>> /\ Others

PeerCloses ==
  /\ link = "up" /\ Fault
  /\ link' = "fin"
  /\ UNCHANGED <<room, reply, stuck>> /\ Others

(* What is on the way to a peer that has closed is answered with a reset. *)
PeerAnswers ==
  /\ link = "fin" /\ room < RoomCap
  /\ link' = "reset"
  /\ UNCHANGED <<room, reply, stuck, faults>> /\ Others

ConnectionResets ==
  /\ link = "up" /\ Fault
  /\ link' = "reset"
  /\ UNCHANGED <<room, reply, stuck>> /\ Others

PeerSticks ==
  /\ ~stuck /\ Fault
  /\ stuck' = TRUE
  /\ UNCHANGED <<link, room, reply>> /\ Others

Network ==
  \/ Establish \/ Refuse
  \/ PeerReads \/ PeerReplies \/ PeerCloses \/ PeerAnswers
  \/ ConnectionResets \/ PeerSticks

----------------------------------------------------------------------------
(* start(), stop() and what the two loops have in common *)

Start(k) ==
  /\ kind = "none"
  /\ kind' = k /\ running' = TRUE
  /\ UNCHANGED <<queueVars, peerVars, stopper, buf, timerVars, histVars>>

Stop ==
  /\ running
  /\ running' = FALSE
  /\ stopper' = "join"
  /\ UNCHANGED <<queueVars, peerVars, faults, kind, pc, buf, timerVars, histVars>>

Join ==
  /\ stopper = "join" /\ pc = "ended"
  /\ stopper' = "joined"
  /\ UNCHANGED <<queueVars, peerVars, faults, kind, pc, running, buf, timerVars, histVars>>

Goto(l) == pc' = l /\ UNCHANGED <<kind, running, stopper>>

(* The socket is closed; *)
Hangup == link' = "none" /\ room' = 0 /\ reply' = FALSE /\ UNCHANGED stuck

(* history: one more failure in a row that is answered with a back-off,    *)
CountFailure ==
  /\ fails' = Least(fails + 1, MostFails)
  /\ waited' = 0
  /\ outcome' = "failed"

Failed == CountFailure /\ UNCHANGED <<last, behind>>

(* a new connection, *)
Attempt == last' = [last EXCEPT !.here = FALSE] /\ waited' = 0 /\ outcome' = "open"

(* A mistake no action makes: after a part was taken nothing is kept.      *)
SendHalfForgetRest ==
  /\ buf # <<>>
  /\ link \in {"up", "fin"} /\ room > 0
  /\ last' = [msg |-> Head(buf).msg, half |-> Head(buf).half, here |-> TRUE]
  /\ buf' = <<>>
  /\ room' = room - 1
  /\ UNCHANGED <<queueVars, link, reply, stuck, faults, threadVars, timerVars,
                 fails, waited, behind, outcome>>

(* and a half line handed to the kernel.                                   *)
SendHalf ==
  /\ buf # <<>>
  /\ link \in {"up", "fin"} /\ room > 0
  /\ last' = [msg |-> Head(buf).msg, half |-> Head(buf).half, here |-> TRUE]
  /\ buf' = Tail(buf)
  /\ room' = room - 1
  /\ UNCHANGED <<queueVars, link, reply, stuck, faults, threadVars, timerVars,
                 fails, waited, behind, outcome>>
=============================================================================
