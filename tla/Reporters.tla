------------------------------ MODULE Reporters ------------------------------
(* One of the two reporters between net_q and the server: main.cpp starts  *)
(* an EpollReporter, where it started a NetReporter before.                *)
EXTENDS EpollReporter, NetReporter

(* The source makes 1000 samples a second (main.cpp:218), 50 in a tick; a  *)
(* batch is 128 (epoll_reporter.hpp:229) and net_q holds 4096.             *)
ASSUME PaceAssumption == Rate <= Batch /\ 2 * Rate <= QCap

vars == <<uplinkVars, epollVars>>

Init == UplinkInit /\ EpollInit

EpollPart == kind = "epoll" /\ EpollNext
NetPart   == kind = "net" /\ NetStep /\ UNCHANGED epollVars

Next ==
  \/ EpollStart
  \/ EpollPart
  \/ NetPart
  \/ /\ \/ NetStart
        \/ Offer \/ Tick \/ Network
        \/ kind = "epoll" /\ Stop
        \/ kind = "net" /\ NetStop
        \/ Join
     /\ UNCHANGED epollVars

Spec == Init /\ [][Next]_vars

(* Scheduling: the thread runs on, time passes, a connection attempt is    *)
(* answered, a peer that is not stuck reads. Nobody is obliged to fail, to *)
(* publish or to stop.                                                     *)
Fairness ==
  /\ WF_vars(kind = "epoll" /\ EpollStep)
  /\ WF_vars(NetPart)
  /\ WF_vars(Tick /\ UNCHANGED epollVars)
  /\ WF_vars((Establish \/ Refuse) /\ UNCHANGED epollVars)
  /\ WF_vars((PeerReads \/ PeerAnswers) /\ UNCHANGED epollVars)
  /\ WF_vars(Join /\ UNCHANGED epollVars)

FairSpec == Spec /\ Fairness

----------------------------------------------------------------------------
UplinkTypeOK ==
  /\ queue \in Seq(1 .. offered) /\ Len(queue) <= QCap
  /\ offered \in 0 .. MaxMsgs /\ rate \in 0 .. Rate
  /\ link \in {"none", "syn", "up", "fin", "reset"}
  /\ room \in 0 .. RoomCap /\ reply \in BOOLEAN /\ stuck \in BOOLEAN
  /\ faults \in 0 .. MaxFaults
  /\ kind \in {"none", "epoll", "net"}
  /\ pc \in {"new", "top", "ended", "sleep", "sample", "wait", "handle", "recv", "flush",
             "connect", "backoff", "slice", "take", "send"}
  /\ running \in BOOLEAN /\ stopper \in {"idle", "join", "joined"}
  /\ buf \in Seq([msg : 1 .. offered, half : {1, 2}])
  /\ backoff \in BaseBackoff .. MaxBackoff
  /\ retryIn \in 0 .. MaxBackoff /\ sampleIn \in 0 .. 1 /\ sleepFor \in 0 .. 2
  /\ last \in [msg : 0 .. offered, half : {1, 2}, here : BOOLEAN]
  /\ fails \in 0 .. MostFails /\ waited \in 0 .. MaxBackoff /\ behind \in BOOLEAN
  /\ outcome \in {"never", "open", "failed", "closed"}
  /\ connecting \in BOOLEAN /\ wantWrite \in BOOLEAN /\ armed \in BOOLEAN
  /\ ev \subseteq {"err", "in", "out"}
  /\ armed = wantWrite
  /\ pc = "wait" /\ buf # <<>> => armed
  /\ Len(buf) < BufCap + 2

(* Where the thread of each reporter can be, and what that says of the     *)
(* socket. While the connection is under way epoll watches for EPOLLOUT,   *)
(* the peer has sent nothing and nothing was sent: so epoll_wait returns   *)
(* with EPOLLOUT or an error, and handleEvent() comes to recv() only with  *)
(* a connection. Without a socket connecting_ may be set too, left over    *)
(* from an epoll_ctl() that failed (epoll_reporter.hpp:139): then the      *)
(* thread sleeps or tries again, and no event is looked at meanwhile.      *)
EpollPlaces == {"top", "sleep", "sample", "wait", "handle", "recv", "flush", "ended"}
NetPlaces   == {"top", "connect", "take", "send", "backoff", "slice", "ended"}

PlacesInv ==
  /\ kind = "none" => pc = "new" /\ link = "none" /\ ~connecting
  /\ kind = "epoll" => pc \in EpollPlaces
  /\ kind = "net" => pc \in NetPlaces /\ ~connecting
  /\ kind = "net" /\ pc \in {"top", "backoff", "slice"} => link = "none"
  /\ kind # "epoll" /\ pc # "send" => buf = <<>>
  /\ pc \in {"sample", "wait", "handle", "recv"} => link # "none"
  /\ link \in {"none", "syn"} => ~reply
  /\ connecting /\ link = "none" => pc \in {"top", "sleep"}
  /\ connecting /\ link # "none" =>
       /\ armed
       /\ link \in {"up", "fin"} => room = RoomCap
       /\ pc \notin {"recv", "flush"}
       /\ pc = "handle" => "err" \in ev \/ "out" \in ev

(* What is still to send continues what the kernel has: the buffer after   *)
(* the half line sent last, the queue after the buffer. Half a line on     *)
(* this connection whose other half is given up is the last of it.         *)
Follows(a, b) ==
  IF b.half = 2 THEN a.half = 1 /\ a.msg = b.msg
  ELSE a.half = 2 /\ a.msg < b.msg

WireInv ==
  /\ \A i, j \in DOMAIN queue : i < j => queue[i] < queue[j]
  /\ \A i \in DOMAIN queue : last.msg < queue[i]
  /\ \A i \in DOMAIN queue, k \in DOMAIN buf : buf[k].msg < queue[i]
  /\ \A k \in DOMAIN buf : k > 1 => Follows(buf[k - 1], buf[k])
  /\ buf # <<>> =>
       /\ buf[Len(buf)].half = 2
       /\ IF buf[1].half = 2 THEN last.half = 1 /\ last.msg = buf[1].msg
          ELSE last.msg < buf[1].msg
  /\ last.half = 1 /\ last.here /\ (buf # <<>> => buf[1].half = 1)
       => link \in {"none", "reset"}

(* The timers know of the failures: the back-off is no shorter than what   *)
(* is due after the next one, and what is left of the pause together with  *)
(* what has passed of it is no shorter than what is due now. Only a        *)
(* connection that was made ends the count; without a socket the count is  *)
(* zero only before the first attempt and after the close in recv().       *)
RetryInv ==
  /\ pc \in {"backoff", "slice"} => fails > 0 /\ backoff >= Due(fails)
  /\ pc \notin {"backoff", "slice", "ended"} => backoff >= Due(fails + 1)
  /\ link = "none" /\ fails > 0 /\ pc # "ended" => waited + retryIn >= Due(fails)
  /\ link = "none" /\ fails = 0 /\ running /\ pc # "ended" => outcome \in {"never", "closed"}
  /\ kind = "none" => fails = 0 /\ outcome = "never"
  /\ kind = "epoll" /\ link # "none" /\ ~connecting => fails = 0
  /\ pc \in {"take", "send"} => fails = 0
  /\ kind = "net" /\ pc = "top" /\ fails > 0 => retryIn = 0

(* A reporter that is not behind has seen, or taken, all but what came     *)
(* since its last look: in this tick, or in this and the one before.       *)
PaceInv ==
  ~behind /\ pc # "ended" =>
    Len(queue) <= IF \/ kind = "epoll" /\ sampleIn = 0
                     \/ kind = "net" /\ pc = "slice" /\ sleepFor = 0
                    THEN Rate + rate ELSE rate

UplinkInv ==
  /\ UplinkTypeOK
  /\ kind # "epoll" => sleepFor \in 0 .. 1
  /\ PlacesInv /\ WireInv /\ RetryInv /\ PaceInv

(* What reaches the kernel is in the order of publication and nothing      *)
(* twice, across partial sends, a buffer that survives the connection and  *)
(* reconnects; on one connection half a line is followed by its other half *)
(* (epoll_reporter.hpp:202, net_reporter.hpp:120). EpollReporter sends the *)
(* rest of a line to the next connection, NetReporter drops it.            *)
Continues(a, b) ==
  IF b.half = 2 THEN a.half = 1 /\ a.msg = b.msg
  ELSE b.msg > a.msg /\ ~(a.half = 1 /\ a.here)

OnceAndInOrder ==
  [][<<last'.msg, last'.half>> # <<last.msg, last.half>> => Continues(last, last')]_vars

(* A step that tries to connect, whether it gets a socket or not. *)
Attempts == link = "none" /\ (link' # "none" \/ ConnectFailsAtOnce)

(* After k failures in a row, of a connection or of an attempt, the next   *)
(* attempt comes no sooner than the k-th back-off: 1 s, doubled up to 30 s *)
(* (README.md:231). There is one exception besides the first attempt of    *)
(* all, and no other: the close in recv() (epoll_reporter.hpp:188) sets no *)
(* back-off, and unless flushSendBuf() fails right after it the next       *)
(* attempt comes at once, against README.md:231.                           *)
SpacedRetries ==
  [][Attempts => IF fails > 0 THEN waited >= Due(fails)
                              ELSE outcome \in {"never", "closed"}]_vars

(* A message is dropped only if, since the reporter last saw the queue     *)
(* empty, it slept in a back-off, met a full send buffer or was held in a  *)
(* blocking call (README.md:204: dropped grows when the peer or its window *)
(* fails, not because of the sampling) - or when its thread has ended.     *)
KeepsUp ==
  [][offered' # offered /\ queue' = queue => behind \/ pc \in {"new", "ended"}]_vars

(* stop() returns, whatever the network does; NetReporter may hang in its  *)
(* send() when the peer no longer reads (net_reporter.hpp:45).             *)
ReporterStops ==
  stopper = "join" ~> stopper = "joined" \/ (kind = "net" /\ stuck)

(* A reporter without a connection gets one again, and what EpollReporter  *)
(* has in its buffer leaves it, once the failures are over: no interest in *)
(* EPOLLOUT is forgotten and no timer is left unset.                       *)
Goes == running /\ pc # "ended" /\ ~stuck

SendsOn ==
  /\ (Goes /\ link = "none" /\ kind # "none") ~> (link = "up" \/ ~Goes)
  /\ (Goes /\ buf # <<>>) ~> (buf = <<>> \/ ~Goes)

(* In a back-off, once 100 ms of it are over, nothing is dropped: the      *)
(* reporter keeps draining the queue while it waits to try again           *)
(* (README.md:231; epoll_reporter.hpp:69).                                 *)
DrainsWhileBackingOff ==
  [][offered' # offered /\ queue' = queue =>
       link # "none" \/ waited <= 2 \/ pc \in {"new", "ended"}]_vars
=============================================================================
