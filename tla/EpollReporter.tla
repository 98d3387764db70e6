---------------------------- MODULE EpollReporter ----------------------------
(* The reporter of the dashboard: one thread, a socket that does not block *)
(* and an epoll instance (epoll_reporter.hpp). The steps of run() are cut  *)
(* where another party can come between: what epoll_wait saw (ev) may be   *)
(* out of date when handleEvent() acts on it.                              *)
EXTENDS Uplink

CONSTANTS
  Batch,    \* messages taken for one sample, at most (line 228)
  BufCap    \* half lines in the send buffer from which no more are added

ASSUME EpollAssumption == Batch \in Nat \ {0} /\ BufCap \in Nat \ {0}

VARIABLES
  connecting, wantWrite,
  armed,      \* epoll reports that the socket can be written
  ev          \* the events epoll_wait returned

socketVars == <<connecting, wantWrite, armed>>
epollVars  == <<socketVars, ev>>

EpollInit == connecting = FALSE /\ wantWrite = FALSE /\ armed = FALSE /\ ev = {}

----------------------------------------------------------------------------
EpollStart ==
  /\ Start("epoll")
  /\ \/ pc' = "top" /\ UNCHANGED faults
     \/ pc' = "ended" /\ Fault             \* epoll_create1 failed
  /\ UNCHANGED epollVars

(* A mistake no action makes: want_write_ is not reset. *)
CloseKeepWantWrite ==
  /\ Hangup
  /\ connecting' = FALSE /\ wantWrite' = wantWrite /\ armed' = FALSE

CloseSocket ==
  /\ Hangup
  /\ connecting' = FALSE /\ wantWrite' = FALSE /\ armed' = FALSE

(* The events are dealt with; back to the top of the loop. *)
LoopAgain == Goto("top") /\ ev' = {}

(* A mistake no action makes: the back-off is not doubled. *)
BackOffOnce ==
  /\ retryIn' = backoff
  /\ UNCHANGED <<backoff, sampleIn>>
  /\ Failed

(* After a failure: close, and try again when the back-off is over. *)
BackOff ==
  /\ retryIn' = backoff
  /\ backoff' = Double(backoff)
  /\ UNCHANGED sampleIn
  /\ Failed

LoseConnection ==
  /\ CloseSocket /\ BackOff
  /\ LoopAgain
  /\ UNCHANGED <<queueVars, faults, buf, sleepFor>>

EndThread ==
  /\ CloseSocket
  /\ Goto("ended")
  /\ UNCHANGED <<queueVars, buf, timerVars, histVars, ev>>

Leave == pc = "top" /\ ~running /\ EndThread /\ UNCHANGED faults

----------------------------------------------------------------------------
(* The top of the loop without a connection *)

Retrying == pc = "top" /\ running /\ link = "none" /\ retryIn = 0

(* connect() succeeds at once or is in progress. *)
TryConnect ==
  /\ Retrying
  /\ link' \in {"syn", "up"}
  /\ room' = IF link' = "up" THEN RoomCap ELSE 0
  /\ connecting' = (link' = "syn")
  /\ wantWrite' = connecting'
  /\ armed' = connecting'
  /\ Attempt
  /\ fails' = IF connecting' THEN fails ELSE 0
  /\ Goto("sample")
  /\ UNCHANGED <<queueVars, reply, stuck, faults, buf, timerVars, behind, ev>>

(* tryConnect() returns false when socket() or connect() fails, with       *)
(* connecting_ as it was, or when epoll_ctl() fails: connecting_ is then   *)
(* what connect() said, though the socket is closed again.                 *)
TryConnectFails == connecting' \in BOOLEAN /\ UNCHANGED <<wantWrite, armed, ev>>

(* Then the queue is emptied, and the thread sleeps for 100 ms.            *)
ConnectFailsAtOnce ==
  /\ Retrying
  /\ Fault
  /\ TryConnectFails
  /\ retryIn' = backoff /\ backoff' = Double(backoff)
  /\ queue' = <<>>
  /\ sleepFor' = 2
  /\ CountFailure /\ behind' = FALSE
  /\ Goto("sleep")
  /\ UNCHANGED <<offered, rate, peerVars, buf, sampleIn, last>>

(* The back-off is not over: the thread sleeps, and leaves the queue. *)
HoldOff ==
  /\ pc = "top" /\ running /\ link = "none" /\ retryIn > 0
  /\ sleepFor' = 1
  /\ Goto("sleep")
  /\ UNCHANGED <<queueVars, peerVars, faults, buf, backoff, retryIn, sampleIn, histVars, epollVars>>

WakeUp ==
  /\ pc = "sleep" /\ sleepFor = 0
  /\ Goto("top")
  /\ UNCHANGED <<queueVars, peerVars, faults, buf, timerVars, histVars, epollVars>>

----------------------------------------------------------------------------
(* The loop with a connection, or one under way: the sample, *)

(* drainQueueToBuf() looks at the room in the buffer after it took a       *)
(* message, which is then lost, and stops there.                           *)
Avail  == Least(Len(queue), Batch)
Fits   == IF Len(buf) < BufCap THEN (BufCap - Len(buf) + 1) \div 2 ELSE 0
Kept   == Least(Avail, Fits)
Taken  == Least(Avail, Fits + 1)

DrainQueueToBuf ==
  /\ buf' = buf \o Halves(SubSeq(queue, 1, Kept))
  /\ queue' = SubSeq(queue, Taken + 1, Len(queue))
  /\ behind' = (queue' # <<>> /\ (behind \/ Taken > Kept))

(* then the interest in writing, when there is something to write. *)
SampleAndArm ==
  /\ \/ pc = "sample"
     \/ pc = "top" /\ running /\ link # "none"
  /\ IF sampleIn = 0
       THEN sampleIn' = 1 /\ DrainQueueToBuf
       ELSE UNCHANGED <<sampleIn, queue, buf, behind>>
  /\ wantWrite' = (wantWrite \/ buf' # <<>>)
  /\ armed' = IF buf' # <<>> /\ ~wantWrite THEN TRUE ELSE armed
  /\ Goto("wait")
  /\ UNCHANGED <<offered, rate, peerVars, faults, backoff, retryIn, sleepFor,
                 last, fails, waited, outcome, connecting, ev>>

(* What epoll_wait reports of the socket. *)
Events ==
  {e \in {"err", "in", "out"} :
     \/ e = "err" /\ link \in {"fin", "reset"}
     \/ e = "in"  /\ (reply \/ link \in {"fin", "reset"})
     \/ e = "out" /\ armed /\ link \in {"up", "fin"} /\ room > 0
     \/ e = "out" /\ armed /\ link = "reset"}

EpollWait ==
  /\ pc = "wait"
  /\ Events # {}
  /\ ev' = Events
  /\ Goto("handle")
  /\ UNCHANGED <<queueVars, peerVars, faults, buf, timerVars, histVars, socketVars>>

(* It times out or is interrupted; only a return that has something to do  *)
(* is of interest.                                                         *)
EpollWaitTimesOut ==
  /\ pc = "wait"
  /\ Events = {}
  /\ sampleIn = 0 \/ ~running
  /\ Goto("top")
  /\ UNCHANGED <<queueVars, peerVars, faults, buf, timerVars, histVars, epollVars>>

(* It fails: the thread ends, and running_ stays set. *)
EpollWaitFails == pc = "wait" /\ Fault /\ EndThread

----------------------------------------------------------------------------
(* handleEvent() *)

HandleError == pc = "handle" /\ "err" \in ev /\ LoseConnection

Connects == connecting /\ "out" \in ev

(* The connection is there unless SO_ERROR says otherwise. *)
HandleConnected ==
  /\ pc = "handle" /\ "err" \notin ev /\ Connects
  /\ link # "reset"
  /\ connecting' = FALSE
  /\ backoff' = BaseBackoff
  /\ sampleIn' = 0
  /\ fails' = 0
  /\ Goto("recv")
  /\ UNCHANGED <<queueVars, peerVars, faults, buf, retryIn, sleepFor,
                 last, waited, behind, outcome, wantWrite, armed, ev>>

HandleConnectFailed ==
  /\ pc = "handle" /\ "err" \notin ev /\ Connects
  /\ link = "reset"
  /\ LoseConnection

(* What the peer sent is read and thrown away; the end of the stream or an *)
(* error closes the socket, this time without a back-off.                  *)
Receive ==
  /\ \/ pc = "recv"
     \/ pc = "handle" /\ "err" \notin ev /\ ~Connects
  /\ IF "in" \in ev /\ link # "up"
       THEN CloseSocket /\ outcome' = "closed"
       ELSE /\ reply' = (reply /\ "in" \notin ev)
            /\ UNCHANGED <<link, room, stuck, socketVars, outcome>>
  /\ Goto("flush")
  /\ UNCHANGED <<queueVars, faults, buf, timerVars, last, fails, waited, behind, ev>>

Flushing == pc = "flush" /\ "out" \in ev /\ ~connecting

NoFlush ==
  /\ pc = "flush" /\ ~("out" \in ev /\ ~connecting)
  /\ LoopAgain
  /\ UNCHANGED <<queueVars, peerVars, faults, buf, timerVars, histVars, socketVars>>

FlushHalf == Flushing /\ SendHalf /\ UNCHANGED epollVars

(* A mistake no action makes: flushSendBuf() is left only when the kernel  *)
(* has room again.                                                         *)
FlushWaits ==
  /\ Flushing /\ buf # <<>>
  /\ link \in {"up", "fin"} /\ room > 0
  /\ LoopAgain
  /\ UNCHANGED <<queueVars, peerVars, faults, buf, timerVars, histVars, socketVars>>

FlushBlocked ==
  /\ Flushing /\ buf # <<>>
  /\ link \in {"up", "fin"} /\ room = 0
  /\ LoopAgain
  /\ UNCHANGED <<queueVars, peerVars, faults, buf, timerVars, histVars, socketVars>>

(* The socket is broken, or was closed by Receive. *)
FlushFails == Flushing /\ buf # <<>> /\ link \in {"none", "reset"} /\ LoseConnection

(* A mistake no action makes: want_write_ stays set. *)
FlushedKeepWantWrite ==
  /\ Flushing /\ buf = <<>>
  /\ armed' = FALSE
  /\ LoopAgain
  /\ UNCHANGED <<queueVars, peerVars, faults, buf, timerVars, histVars, connecting, wantWrite>>

Flushed ==
  /\ Flushing /\ buf = <<>>
  /\ wantWrite' = FALSE
  /\ armed' = IF wantWrite THEN FALSE ELSE armed
  /\ LoopAgain
  /\ UNCHANGED <<queueVars, peerVars, faults, buf, timerVars, histVars, connecting>>

----------------------------------------------------------------------------
EpollStep ==
  \/ Leave
  \/ TryConnect \/ HoldOff \/ WakeUp
  \/ SampleAndArm \/ EpollWait \/ EpollWaitTimesOut
  \/ HandleError \/ HandleConnected \/ HandleConnectFailed
  \/ Receive \/ NoFlush \/ FlushHalf \/ FlushBlocked \/ FlushFails \/ Flushed

EpollNext == EpollStep \/ ConnectFailsAtOnce \/ EpollWaitFails
=============================================================================
