------------------------------- MODULE Logger -------------------------------
(***************************************************************************)
(* Logger of include/logger.hpp: any thread puts an entry into a           *)
(* BlockingQueue and goes on; one thread takes the entries out and writes  *)
(* them to the file; the main thread opens and closes the whole.           *)
(*                                                                         *)
(* The steps of the queue are those of BlockingQueue, combined here with   *)
(* what the logger does around each call. An entry is its ticket. A call   *)
(* of log() that sees running_ false, or a level below min_level_, changes *)
(* nothing and is not a step. One thread at a time calls init() and        *)
(* shutdown(); the logger may be opened again after it was shut down, but  *)
(* its queue stays stopped (logger.hpp:63).                                *)
(***************************************************************************)
EXTENDS BlockingQueue

CONSTANTS
  Flusher, Main,
  MaxLives      \* bound: times the file is opened

(* Who uses the queue below; the theorems of LoggerProofs assume it. *)
LoggerRoles == Consumers = {Flusher} /\ Stoppers = {Main} /\ MaxLives \in Nat

VARIABLES
  running,   \* running_
  file,      \* the lines written, by ticket
  flushed,   \* how many of them are out of the stream's buffer
  line,      \* e: the entry the flush thread holds
  fpc,       \* where flushLoop() is
  mpc,       \* where init() and shutdown() are
  lives,     \* times the file was opened
  known      \* history: the entries published when shutdown() is called

logVars == <<running, file, flushed, line, fpc, mpc, lives, known>>
allVars == <<vars, logVars>>

LogInit ==
  /\ Init
  /\ running = FALSE
  /\ file = <<>>
  /\ flushed = 0
  /\ line = 0
  /\ fpc = "none"
  /\ mpc = "closed"
  /\ lives = 0
  /\ known = {}

----------------------------------------------------------------------------
(* Mistakes one could make in this code; no action of the specification    *)
(* uses them.                                                              *)

(* The result of consume_blocking() is not looked at. *)
WriteWhateverCame ==
  /\ ReturnStopped(Flusher) \/ ReturnTimedOut(Flusher)
  /\ fpc' = "write"
  /\ UNCHANGED <<running, file, flushed, line, mpc, lives, known>>

(* The thread ends without the second loop. *)
EndWithoutDrain ==
  /\ fpc = "empty"
  /\ IF running
       THEN fpc' = "call" /\ flushed' = Len(file)
       ELSE fpc' = "exited" /\ UNCHANGED flushed
  /\ UNCHANGED <<vars, running, file, line, mpc, lives, known>>

(* The first empty wait ends the first loop. *)
EndWhenIdle ==
  /\ fpc = "empty"
  /\ fpc' = "drain"
  /\ UNCHANGED <<vars, running, file, flushed, line, mpc, lives, known>>

(* running_ is not looked at. *)
NeverEnd ==
  /\ fpc = "empty"
  /\ fpc' = "call"
  /\ flushed' = Len(file)
  /\ UNCHANGED <<vars, running, file, line, mpc, lives, known>>

(* shutdown() closes the file without joining the thread. *)
CloseAtOnce ==
  /\ mpc = "join"
  /\ mpc' = "closed"
  /\ flushed' = Len(file)
  /\ UNCHANGED <<vars, running, file, line, fpc, lives, known>>

----------------------------------------------------------------------------
(* init() *)

CallInit ==
  /\ mpc = "closed"
  /\ lives < MaxLives
  /\ running' = TRUE
  /\ mpc' = "open"
  /\ UNCHANGED <<vars, file, flushed, line, fpc, lives, known>>

OpenFile ==
  /\ mpc = "open"
  /\ mpc' = "ready"
  /\ lives' = lives + 1
  /\ fpc' = "call"
  /\ UNCHANGED <<vars, running, file, flushed, line, known>>

OpenFails ==
  /\ mpc = "open"
  /\ running' = FALSE
  /\ mpc' = "closed"
  /\ UNCHANGED <<vars, file, flushed, line, fpc, lives, known>>

(* shutdown(): first the flag, then the queue, then the thread *)

CallShutdown ==
  /\ mpc = "ready"
  /\ running' = FALSE
  /\ mpc' = "stop"
  /\ known' = {i \in Tickets : hist[i].stage # "claimed"}
  /\ UNCHANGED <<vars, file, flushed, line, fpc, lives>>

StopQueue ==
  /\ mpc = "stop"
  /\ SetStop(Main)
  /\ UNCHANGED logVars

(* The queue is stopped already: stop() of a later shutdown(). *)
StopQueueAgain ==
  /\ mpc = "stop"
  /\ pc[Main] = "stopped"
  /\ mtx = NoThread
  /\ Goto(Main, "notifyAll")
  /\ UNCHANGED <<hist, mtx, stop, ticket, callVars, logVars>>

StoppedQueue ==
  /\ NotifyAll(Main)
  /\ mpc' = "join"
  /\ UNCHANGED <<running, file, flushed, line, fpc, lives, known>>

JoinAndClose ==
  /\ mpc = "join"
  /\ fpc = "exited"
  /\ mpc' = "closed"
  /\ flushed' = Len(file)
  /\ UNCHANGED <<vars, running, file, line, fpc, lives, known>>

----------------------------------------------------------------------------
(* log(): running_ is read once, before the entry is built and enqueued. *)

Log(p) ==
  /\ running
  /\ CallProduce(p)
  /\ UNCHANGED logVars

Enqueue(p) ==
  /\ ProduceStep(p) \/ NotifyOne(p)
  /\ UNCHANGED logVars

----------------------------------------------------------------------------
(* flushLoop() *)

WaitForEntry ==
  /\ fpc = "call"
  /\ CallConsume(Flusher, TRUE)
  /\ fpc' = "inCall"
  /\ UNCHANGED <<running, file, flushed, line, mpc, lives, known>>

InsideCall ==
  /\ fpc = "inCall"
  /\ \/ TakeMessage(Flusher)
     \/ FindEmpty(Flusher)
     \/ Wait(Flusher)
     \/ ExpireWait(Flusher)
  /\ UNCHANGED logVars

Relock ==
  /\ Acquire(Flusher)
  /\ UNCHANGED logVars

OutsideCause ==
  /\ WakeSpuriously(Flusher) \/ Tick(Flusher)
  /\ UNCHANGED logVars

GetEntry ==
  /\ ReturnMessage(Flusher)
  /\ line' = ticket[Flusher]
  /\ fpc' = "write"
  /\ UNCHANGED <<running, file, flushed, mpc, lives, known>>

GetNothing ==
  /\ ReturnStopped(Flusher) \/ ReturnTimedOut(Flusher)
  /\ fpc' = "empty"
  /\ UNCHANGED <<running, file, flushed, line, mpc, lives, known>>

WriteLine ==
  /\ fpc \in {"write", "drainWrite"}
  /\ file' = Append(file, line)
  /\ fpc' = IF fpc = "write" THEN "call" ELSE "drain"
  /\ UNCHANGED <<vars, running, flushed, line, mpc, lives, known>>

(* Nothing came: flush, or leave the loop. *)
CheckRunning ==
  /\ fpc = "empty"
  /\ IF running
       THEN fpc' = "call" /\ flushed' = Len(file)
       ELSE fpc' = "drain" /\ UNCHANGED flushed
  /\ UNCHANGED <<vars, running, file, line, mpc, lives, known>>

DrainTake ==
  /\ fpc = "drain"
  /\ TryTake(Flusher)
  /\ UNCHANGED logVars

DrainGet ==
  /\ TryReturn(Flusher)
  /\ line' = ticket[Flusher]
  /\ fpc' = "drainWrite"
  /\ UNCHANGED <<running, file, flushed, mpc, lives, known>>

DrainEnds ==
  /\ fpc = "drain"
  /\ pc[Flusher] = "idle"
  /\ ~HeadReady
  /\ fpc' = "exited"
  /\ flushed' = Len(file)
  /\ UNCHANGED <<vars, running, file, line, mpc, lives, known>>

----------------------------------------------------------------------------
FlushStep ==
  \/ WaitForEntry
  \/ InsideCall
  \/ GetEntry
  \/ GetNothing
  \/ WriteLine
  \/ CheckRunning
  \/ DrainTake
  \/ DrainGet
  \/ DrainEnds

MainStep ==
  \/ OpenFile
  \/ OpenFails
  \/ StopQueue \/ StopQueueAgain
  \/ StoppedQueue
  \/ JoinAndClose

LogNext ==
  \/ CallInit
  \/ CallShutdown
  \/ MainStep
  \/ \E p \in Producers : Log(p) \/ Enqueue(p)
  \/ FlushStep
  \/ Relock
  \/ OutsideCause

LogSpec == LogInit /\ [][LogNext]_allVars

(* Scheduling: every thread inside a call runs on, and gets the mutex in   *)
(* the end. Nobody is obliged to call.                                     *)
LogFairness ==
  /\ WF_allVars(FlushStep)
  /\ SF_allVars(Relock)
  /\ SF_allVars(MainStep)
  /\ \A p \in Producers : SF_allVars(Enqueue(p))

FairLogSpec == LogSpec /\ LogFairness

----------------------------------------------------------------------------
Lines == {file[k] : k \in DOMAIN file}

LoggerTypeOK ==
  /\ BlockingTypeOK
  /\ running \in BOOLEAN
  /\ file \in Seq(Nat)
  /\ flushed \in 0 .. Len(file)
  /\ line \in Nat
  /\ fpc \in {"none", "call", "inCall", "write", "empty", "drain", "drainWrite", "exited"}
  /\ mpc \in {"closed", "open", "ready", "stop", "join"}
  /\ lives \in 0 .. MaxLives
  /\ known \subseteq Nat
  /\ mpc \in {"open", "ready"} <=> running
  /\ mpc = "closed" => fpc \in {"none", "exited"}

(* Every line of the file is an entry that was logged, no entry is written *)
(* twice, and the lines are in the order of the calls that claimed their   *)
(* place (logger.hpp:123 and :131).                                        *)
FileInOrder ==
  /\ \A k, l \in DOMAIN file : k < l => file[k] < file[l]
  /\ \A i \in Lines : i \in Tickets /\ hist[i].stage = "freed"

(* "The remaining log is flushed before the exit" (logger.hpp:130), as far *)
(* as the code keeps it: when shutdown() returns, the file holds every     *)
(* entry that was complete when it was called and that no call of log()    *)
(* still under way was hiding.                                             *)
ShutdownFlushes ==
  [][mpc = "join" /\ mpc' = "closed" =>
       /\ \A i \in known : (\A j \in 1 .. i : j \in known) => i \in Lines'
       /\ flushed' = Len(file')]_allVars

(* shutdown() returns. *)
ShutdownReturns == mpc = "stop" ~> mpc = "closed"

(* While the logger runs, every published entry reaches the file. After it *)
(* was opened again the entries wait for the next shutdown(), since its    *)
(* consume_blocking() returns at once (blocking_queue.hpp:38).             *)
EntriesAreWritten ==
  \A i \in 1 .. MaxPut :
    (mpc = "ready" /\ ~stop /\ i \in Tickets /\ hist[i].stage = "ready")
      ~> (mpc # "ready" \/ i \in Lines)

----------------------------------------------------------------------------
(* Why it works: the inductive invariant behind the theorems of            *)
(* LoggerProofs.                                                           *)

(* The flush thread has taken an entry out of the queue, or holds it. *)
Taking  == pc[Flusher] \in {"taking", "tryTaking"}
Writing == fpc \in {"write", "drainWrite"}

(* Where the two threads are in their calls of the queue; the flush thread *)
(* lives from init() to the join, and drains only after shutdown().        *)
CallsInv ==
  /\ \A p \in Producers : pc[p] = "claimed" => ticket[p] \in Tickets
  /\ fpc = "inCall" => pc[Flusher] \notin {"idle", "tryTaking"}
  /\ fpc = "drain" => pc[Flusher] \in {"idle", "tryTaking"}
  /\ fpc \notin {"inCall", "drain"} => pc[Flusher] = "idle"
  /\ pc[Main] = "notifyAll" => mpc = "stop"
  /\ mpc = "open" => lives < MaxLives
  /\ mpc \in {"closed", "open"} => fpc \in {"none", "exited"}
  /\ mpc = "ready" => fpc \in {"call", "inCall", "write", "empty"}

(* Ticket i is the last one that left the queue. *)
Newest(i) == /\ i \in Tickets
             /\ \A j \in Tickets : i < j => ~Out(j)

(* The entries leave the queue one by one; the one that is not in the file *)
(* yet is in the hands of the flush thread.                                *)
EntriesInv ==
  /\ \A i, j \in Tickets : j < i /\ Out(i) => Out(j)
  /\ Taking => Newest(ticket[Flusher]) /\ hist[ticket[Flusher]].stage = "taken"
  /\ Writing => /\ Newest(line) /\ hist[line].stage = "freed"
                /\ \A i \in Lines : i < line
  /\ \A i \in Tickets : Out(i) => \/ i \in Lines
                                  \/ Taking /\ i = ticket[Flusher]
                                  \/ Writing /\ i = line

(* What shutdown() found complete is there, and out of the queue when the  *)
(* flush thread is gone.                                                   *)
KnownInv ==
  mpc \in {"stop", "join"} =>
    \A i \in known :
      /\ i \in Tickets /\ hist[i].stage # "claimed"
      /\ fpc = "exited" /\ (\A j \in 1 .. i : j \in known) => Out(i)

LogInv ==
  /\ LoggerTypeOK
  /\ CallsInv
  /\ FileInOrder
  /\ EntriesInv
  /\ KnownInv
=============================================================================
