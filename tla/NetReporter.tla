----------------------------- MODULE NetReporter -----------------------------
(* The reporter with blocking calls that EpollReporter replaced            *)
(* (net_reporter.hpp). It takes each message as it comes and sends at most *)
(* one in a tick; sampleIn is the time to next_send.                       *)
EXTENDS Uplink

NetStart == Start("net") /\ pc' = "top" /\ UNCHANGED faults

(* stop() also wakes the thread, from the wait between two attempts and    *)
(* from consume_blocking(): both look at running_ and leave.               *)
NetStop == Stop

----------------------------------------------------------------------------
NetLeave ==
  /\ pc = "top" /\ ~running
  /\ Goto("ended")
  /\ UNCHANGED <<queueVars, peerVars, faults, buf, timerVars, histVars>>

(* connect() blocks until the peer or the network has answered. *)
NetConnect ==
  /\ pc = "top" /\ running
  /\ link' = "syn"
  /\ Attempt
  /\ Goto("connect")
  /\ UNCHANGED <<queueVars, room, reply, stuck, faults, buf, timerVars, fails, behind>>

NetConnected ==
  /\ pc = "connect" /\ link \in {"up", "fin"}
  /\ backoff' = BaseBackoff
  /\ sampleIn' = 0
  /\ fails' = 0
  /\ Goto("take")
  /\ UNCHANGED <<queueVars, peerVars, faults, buf, retryIn, sleepFor,
                 last, waited, behind, outcome>>

(* Whatever is left of the line is given up with the connection. *)
NetFails ==
  /\ Hangup
  /\ buf' = <<>>
  /\ retryIn' = backoff
  /\ Failed
  /\ Goto("backoff")
  /\ UNCHANGED <<queueVars, faults, backoff, sampleIn, sleepFor>>

NetConnectFails == pc = "connect" /\ link = "reset" /\ NetFails

----------------------------------------------------------------------------
(* backoffWaitAndDrain(): slices of 50 ms, the queue emptied after each *)

NetSlice ==
  /\ pc = "backoff" /\ running /\ retryIn > 0
  /\ sleepFor' = 1
  /\ Goto("slice")
  /\ UNCHANGED <<queueVars, peerVars, faults, buf, backoff, retryIn, sampleIn, histVars>>

(* A mistake no action makes, and the code once did (README.md:286): the   *)
(* queue is left alone during the back-off.                                *)
NetWakeOnly ==
  /\ pc = "slice" /\ running /\ sleepFor = 0
  /\ Goto("backoff")
  /\ UNCHANGED <<queueVars, peerVars, faults, buf, timerVars, histVars>>

NetDrain ==
  /\ pc = "slice" /\ running /\ sleepFor = 0
  /\ queue' = <<>>
  /\ behind' = FALSE
  /\ Goto("backoff")
  /\ UNCHANGED <<offered, rate, peerVars, faults, buf, timerVars,
                 last, fails, waited, outcome>>

NetStopsWaiting ==
  /\ pc \in {"backoff", "slice"} /\ ~running
  /\ Goto("ended")
  /\ UNCHANGED <<queueVars, peerVars, faults, buf, timerVars, histVars>>

NetRetry ==
  /\ pc = "backoff" /\ running /\ retryIn = 0
  /\ backoff' = Double(backoff)
  /\ Goto("top")
  /\ UNCHANGED <<queueVars, peerVars, faults, buf, retryIn, sampleIn, sleepFor, histVars>>

----------------------------------------------------------------------------
(* The loop with a connection *)

NetTake ==
  /\ pc = "take" /\ running /\ queue # <<>>
  /\ queue' = Tail(queue)
  /\ behind' = (behind /\ queue' # <<>>)
  /\ IF sampleIn > 0
       THEN UNCHANGED <<sampleIn, buf>> /\ Goto("take")
       ELSE /\ sampleIn' = 1
            /\ buf' = Halves(<<Head(queue)>>)
            /\ Goto("send")
  /\ UNCHANGED <<offered, rate, peerVars, faults, backoff, retryIn, sleepFor,
                 last, fails, waited, outcome>>

NetSendHalf == pc = "send" /\ SendHalf

(* send() returns when the kernel has the line, or when the connection     *)
(* breaks after a part of it: that counts as sent as well.                 *)
NetSent ==
  /\ pc = "send"
  /\ \/ buf = <<>>
     \/ link = "reset" /\ Len(buf) = 1
  /\ buf' = <<>>
  /\ Goto("take")
  /\ UNCHANGED <<queueVars, peerVars, faults, timerVars, histVars>>

NetSendFails == pc = "send" /\ link = "reset" /\ Len(buf) = 2 /\ NetFails

NetHangUp ==
  /\ pc = "take" /\ ~running
  /\ Hangup
  /\ Goto("top")
  /\ UNCHANGED <<queueVars, faults, buf, timerVars, histVars>>

----------------------------------------------------------------------------
NetStep ==
  \/ NetLeave \/ NetConnect \/ NetConnected \/ NetConnectFails
  \/ NetSlice \/ NetDrain \/ NetStopsWaiting \/ NetRetry
  \/ NetTake \/ NetSendHalf \/ NetSent \/ NetSendFails \/ NetHangUp
=============================================================================
