------------------------------ MODULE ShmRing ------------------------------
(***************************************************************************)
(* ShmRing<T> of include/shm_ring.hpp, the queue between the process that  *)
(* reads the CAN bus (src/can_reader.cpp) and the dashboard                *)
(* (shmSourceThread of src/main.cpp): a ring in a named region of shared   *)
(* memory. The region outlives the processes; they die and come back at    *)
(* any point.                                                              *)
(*                                                                         *)
(* push() and pop() run the algorithm of MpmcQueue, and a complete region  *)
(* keeps the promise of TicketQueue as that queue does. There every load   *)
(* and CAS is a step; here the loads and the CAS of a call are one, and    *)
(* what is kept apart is what a death or a half-initialised region can     *)
(* come between: the sizes a call reads from the header when it begins,    *)
(* the claim, the copy, the store to seq. The stores of create() take      *)
(* effect in the order in which they are written.                          *)
(***************************************************************************)
EXTENDS Integers, Sequences

CONSTANTS
  Writers,      \* processes that create() and push()
  Readers,      \* processes that open() and pop()
  Capacity,     \* the capacity given to create()
  MaxRegions,   \* bound: regions made
  MaxSent,      \* bound: messages pushed
  MaxPops,      \* bound: messages popped from one region
  MaxCrashes,   \* bound: deaths of processes
  MaxCloses     \* bound: calls of close()

ASSUME CapacityAssumption == Capacity \in Nat \ {0, 1}   \* else create() refuses
ASSUME BoundsAssumption ==
  /\ MaxRegions \in Nat /\ MaxSent \in Nat /\ MaxPops \in Nat
  /\ MaxCrashes \in Nat /\ MaxCloses \in Nat

VARIABLES
  name,      \* the region the name stands for, or 0
  made,      \* regions made so far; their numbers are 1 .. made
  header,    \* [sized, magic, capacity, mask] of each region
  head, tail, seq, data,   \* the cursors and slots of each region
  pc,        \* what each process is doing
  at,        \* the region it has mapped, or 0
  owns,      \* owns_
  lmask, lcap,             \* mask and cap, as read at the start of a call
  pos, item,               \* the position it claimed, the message it copies
  crashes, closes          \* counted for the bounds

VARIABLES    \* history, for the properties
  sent,      \* messages given to push() so far; they are numbered
  put,       \* the messages of each region by position
  got,       \* [pos, msg] that pop() returned, by region
  complete,  \* the regions whose create() ended
  early,     \* the regions used before that: pushed into, or read by one of several
  fresh      \* the process's create() made the region it returned

regionVars == <<name, made, header, complete>>
ringVars   == <<head, tail, seq, data, sent, put, got, early>>
procVars   == <<at, owns, fresh>>
callVars   == <<lmask, lcap, pos, item>>
exits      == <<crashes, closes>>
vars == <<regionVars, ringVars, procVars, callVars, pc, crashes, closes>>

Processes == Writers \cup Readers
Regions == 1 .. MaxRegions
Slots == 0 .. (Capacity - 1)
Messages == 0 .. MaxSent     \* 0: no message yet

Slot(n, mask) == n % (mask + 1)

(* src/shm_reader.cpp may read next to the dashboard. *)
SoleReader == \A c, d \in Readers : c = d

Init ==
  /\ name = 0
  /\ made = 0
  /\ header = [r \in Regions |-> [sized |-> FALSE, magic |-> FALSE, capacity |-> 0, mask |-> 0]]
  /\ head = [r \in Regions |-> 0]
  /\ tail = [r \in Regions |-> 0]
  /\ seq = [r \in Regions |-> [i \in Slots |-> 0]]
  /\ data = [r \in Regions |-> [i \in Slots |-> 0]]
  /\ pc = [p \in Processes |-> "down"]
  /\ at = [p \in Processes |-> 0]
  /\ owns = [p \in Processes |-> FALSE]
  /\ lmask = [p \in Processes |-> 0]
  /\ lcap = [p \in Processes |-> 0]
  /\ pos = [p \in Processes |-> 0]
  /\ item = [p \in Processes |-> 0]
  /\ crashes = 0
  /\ closes = 0
  /\ sent = 0
  /\ put = [r \in Regions |-> <<>>]
  /\ got = [r \in Regions |-> <<>>]
  /\ complete = {}
  /\ early = {}
  /\ fresh = [p \in Processes |-> FALSE]

Goto(p, label) == pc' = [pc EXCEPT ![p] = label]

(* The process has no mapping any more and its locals are gone. *)
Forget(p) ==
  /\ Goto(p, "down")
  /\ at' = [at EXCEPT ![p] = 0]
  /\ owns' = [owns EXCEPT ![p] = FALSE]
  /\ fresh' = [fresh EXCEPT ![p] = FALSE]
  /\ lmask' = [lmask EXCEPT ![p] = 0]
  /\ lcap' = [lcap EXCEPT ![p] = 0]
  /\ pos' = [pos EXCEPT ![p] = 0]
  /\ item' = [item EXCEPT ![p] = 0]

(* push() or pop() returns; its locals are gone. *)
EndCall(p) ==
  /\ Goto(p, "ready")
  /\ lmask' = [lmask EXCEPT ![p] = 0]
  /\ lcap' = [lcap EXCEPT ![p] = 0]
  /\ pos' = [pos EXCEPT ![p] = 0]
  /\ item' = [item EXCEPT ![p] = 0]

SetHeader(p, field, value) == header' = [header EXCEPT ![at[p]][field] = value]

----------------------------------------------------------------------------
(* Mistakes one could make in this code; no action of the specification    *)
(* uses them.                                                              *)

(* A message that is claimed but not yet published counts as ready. *)
ClaimHeadTooSoon(r) ==
  LET g == at[r] IN
  /\ pc[r] = "pop"
  /\ head[g] < tail[g]
  /\ seq[g][Slot(head[g], lmask[r])] \in {head[g], head[g] + 1}
  /\ head' = [head EXCEPT ![g] = @ + 1]
  /\ pos' = [pos EXCEPT ![r] = head[g]]
  /\ Goto(r, "read")
  /\ UNCHANGED <<regionVars, tail, seq, data, sent, put, got, early, procVars, lmask, lcap, item, exits>>

(* Whoever opens the region unlinks it as well. *)
CheckMagicAndOwn(p) ==
  /\ pc[p] = "checkMagic"
  /\ header[at[p]].magic
  /\ owns' = [owns EXCEPT ![p] = TRUE]
  /\ Goto(p, "ready")
  /\ UNCHANGED <<regionVars, ringVars, at, fresh, callVars, exits>>

(* The slot is published by the claim. *)
ClaimAndPublish(p) ==
  LET r == at[p]
      i == Slot(tail[r], lmask[p]) IN
  /\ pc[p] = "push"
  /\ seq[r][i] = tail[r]
  /\ tail' = [tail EXCEPT ![r] = @ + 1]
  /\ seq' = [seq EXCEPT ![r][i] = tail[r] + 1]
  /\ put' = [put EXCEPT ![r] = Append(@, item[p])]
  /\ pos' = [pos EXCEPT ![p] = tail[r]]
  /\ Goto(p, "write")
  /\ UNCHANGED <<regionVars, head, data, sent, got, early, procVars, lmask, lcap, item, exits>>

(* A message that is ready counts as missing. *)
ReturnEmptyTooSoon(r) ==
  LET g == at[r] IN
  /\ pc[r] = "pop"
  /\ seq[g][Slot(head[g], lmask[r])] <= head[g] + 1
  /\ EndCall(r)
  /\ UNCHANGED <<regionVars, ringVars, procVars, exits>>

(* open() refuses a region and keeps it mapped. *)
WrongMagicStaysMapped(p) ==
  /\ pc[p] = "checkMagic"
  /\ ~header[at[p]].magic
  /\ Goto(p, "down")
  /\ UNCHANGED <<regionVars, ringVars, procVars, callVars, exits>>

----------------------------------------------------------------------------
(* create(): probe the name, then open what is there or make a new one *)

CallCreate(w) ==
  /\ pc[w] = "down"
  /\ Goto(w, IF name # 0 THEN "open" ELSE "exclusive")
  /\ UNCHANGED <<regionVars, ringVars, procVars, callVars, exits>>

(* shm_open with O_CREAT and O_EXCL *)
MakeRegion(w) ==
  /\ pc[w] = "exclusive"
  /\ name = 0
  /\ made < MaxRegions
  /\ made' = made + 1
  /\ name' = made'
  /\ at' = [at EXCEPT ![w] = made']
  /\ Goto(w, "truncate")
  /\ UNCHANGED <<header, complete, ringVars, owns, fresh, callVars, exits>>

LoseRace(w) ==
  /\ pc[w] = "exclusive"
  /\ name # 0
  /\ Goto(w, "down")
  /\ UNCHANGED <<regionVars, ringVars, procVars, callVars, exits>>

(* ftruncate and mmap: the region has its size and is all zeros. *)
Truncate(w) ==
  /\ pc[w] = "truncate"
  /\ SetHeader(w, "sized", TRUE)
  /\ owns' = [owns EXCEPT ![w] = TRUE]
  /\ Goto(w, "magic")
  /\ UNCHANGED <<name, made, complete, ringVars, at, fresh, callVars, exits>>

TruncateFails(w) ==
  /\ pc[w] = "truncate"
  /\ name' = 0
  /\ Forget(w)
  /\ UNCHANGED <<made, header, complete, ringVars, exits>>

(* Magic and version: from here on open() accepts the region. *)
WriteMagic(w) ==
  /\ pc[w] = "magic"
  /\ SetHeader(w, "magic", TRUE)
  /\ Goto(w, "capacity")
  /\ UNCHANGED <<name, made, complete, ringVars, procVars, callVars, exits>>

WriteCapacity(w) ==
  /\ pc[w] = "capacity"
  /\ SetHeader(w, "capacity", Capacity)
  /\ Goto(w, "mask")
  /\ UNCHANGED <<name, made, complete, ringVars, procVars, callVars, exits>>

WriteMask(w) ==
  /\ pc[w] = "mask"
  /\ SetHeader(w, "mask", Capacity - 1)
  /\ Goto(w, "slots")
  /\ UNCHANGED <<name, made, complete, ringVars, procVars, callVars, exits>>

InitSlots(w) ==
  /\ pc[w] = "slots"
  /\ seq' = [seq EXCEPT ![at[w]] = [i \in Slots |-> i]]
  /\ fresh' = [fresh EXCEPT ![w] = TRUE]
  /\ complete' = complete \cup {at[w]}
  /\ Goto(w, "ready")
  /\ UNCHANGED <<name, made, header, head, tail, data, sent, put, got, early, at, owns, callVars, exits>>

----------------------------------------------------------------------------
(* open() *)

CallOpen(r) ==
  /\ pc[r] = "down"
  /\ Goto(r, "open")
  /\ UNCHANGED <<regionVars, ringVars, procVars, callVars, exits>>

(* A region without its size cannot be mapped. *)
OpenName(p) ==
  /\ pc[p] = "open"
  /\ name # 0
  /\ header[name].sized
  /\ at' = [at EXCEPT ![p] = name]
  /\ Goto(p, "checkMagic")
  /\ UNCHANGED <<regionVars, ringVars, owns, fresh, callVars, exits>>

OpenFails(p) ==
  /\ pc[p] = "open"
  /\ name # 0 => ~header[name].sized
  /\ Forget(p)
  /\ UNCHANGED <<regionVars, ringVars, exits>>

CheckMagic(p) ==
  /\ pc[p] = "checkMagic"
  /\ header[at[p]].magic
  /\ Goto(p, "ready")
  /\ UNCHANGED <<regionVars, ringVars, procVars, callVars, exits>>

WrongMagic(p) ==
  /\ pc[p] = "checkMagic"
  /\ ~header[at[p]].magic
  /\ Forget(p)
  /\ UNCHANGED <<regionVars, ringVars, exits>>

----------------------------------------------------------------------------
(* push(v) *)

CallPush(w) ==
  /\ pc[w] = "ready"
  /\ sent < MaxSent
  /\ sent' = sent + 1
  /\ item' = [item EXCEPT ![w] = sent']
  /\ early' = IF at[w] \in complete THEN early ELSE early \cup {at[w]}
  /\ lmask' = [lmask EXCEPT ![w] = header[at[w]].mask]
  /\ Goto(w, "push")
  /\ UNCHANGED <<regionVars, head, tail, seq, data, put, got, procVars, lcap, pos, exits>>

(* A larger seq makes the loop go round again: no step. *)
ClaimTail(w) ==
  LET r == at[w] IN
  /\ pc[w] = "push"
  /\ seq[r][Slot(tail[r], lmask[w])] = tail[r]
  /\ tail' = [tail EXCEPT ![r] = @ + 1]
  /\ put' = [put EXCEPT ![r] = Append(@, item[w])]
  /\ pos' = [pos EXCEPT ![w] = tail[r]]
  /\ Goto(w, "write")
  /\ UNCHANGED <<regionVars, head, seq, data, sent, got, early, procVars, lmask, lcap, item, exits>>

ReturnFull(w) ==
  LET r == at[w] IN
  /\ pc[w] = "push"
  /\ seq[r][Slot(tail[r], lmask[w])] < tail[r]
  /\ EndCall(w)
  /\ UNCHANGED <<regionVars, ringVars, procVars, exits>>

WriteData(w) ==
  /\ pc[w] = "write"
  /\ data' = [data EXCEPT ![at[w]][Slot(pos[w], lmask[w])] = item[w]]
  /\ Goto(w, "publish")
  /\ UNCHANGED <<regionVars, head, tail, seq, sent, put, got, early, procVars, callVars, exits>>

PublishSlot(w) ==
  /\ pc[w] = "publish"
  /\ seq' = [seq EXCEPT ![at[w]][Slot(pos[w], lmask[w])] = pos[w] + 1]
  /\ EndCall(w)
  /\ UNCHANGED <<regionVars, head, tail, data, sent, put, got, early, procVars, exits>>

----------------------------------------------------------------------------
(* pop(out): the mask and the capacity are two loads. From a region that   *)
(* has its capacity but, for ever, not its mask, pop() returns the same    *)
(* slot again and again: hence a bound of its own.                         *)

CallPop(r) ==
  /\ pc[r] = "ready"
  /\ Len(got[at[r]]) < MaxPops
  /\ lmask' = [lmask EXCEPT ![r] = header[at[r]].mask]
  /\ early' = IF at[r] \in complete \/ SoleReader THEN early ELSE early \cup {at[r]}
  /\ Goto(r, "loadCap")
  /\ UNCHANGED <<regionVars, head, tail, seq, data, sent, put, got, procVars, lcap, pos, item, exits>>

LoadCapacity(r) ==
  /\ pc[r] = "loadCap"
  /\ lcap' = [lcap EXCEPT ![r] = header[at[r]].capacity]
  /\ Goto(r, "pop")
  /\ UNCHANGED <<regionVars, ringVars, procVars, lmask, pos, item, exits>>

ClaimHead(r) ==
  LET g == at[r] IN
  /\ pc[r] = "pop"
  /\ seq[g][Slot(head[g], lmask[r])] = head[g] + 1
  /\ head' = [head EXCEPT ![g] = @ + 1]
  /\ pos' = [pos EXCEPT ![r] = head[g]]
  /\ Goto(r, "read")
  /\ UNCHANGED <<regionVars, tail, seq, data, sent, put, got, early, procVars, lmask, lcap, item, exits>>

ReturnEmpty(r) ==
  LET g == at[r] IN
  /\ pc[r] = "pop"
  /\ seq[g][Slot(head[g], lmask[r])] < head[g] + 1
  /\ EndCall(r)
  /\ UNCHANGED <<regionVars, ringVars, procVars, exits>>

ReadData(r) ==
  /\ pc[r] = "read"
  /\ item' = [item EXCEPT ![r] = data[at[r]][Slot(pos[r], lmask[r])]]
  /\ Goto(r, "free")
  /\ UNCHANGED <<regionVars, ringVars, procVars, lmask, lcap, pos, exits>>

FreeSlot(r) ==
  LET g == at[r] IN
  /\ pc[r] = "free"
  /\ seq' = [seq EXCEPT ![g][Slot(pos[r], lmask[r])] = pos[r] + lcap[r]]
  /\ got' = [got EXCEPT ![g] = Append(@, [pos |-> pos[r], msg |-> item[r]])]
  /\ EndCall(r)
  /\ UNCHANGED <<regionVars, head, tail, data, sent, put, early, procVars, exits>>

----------------------------------------------------------------------------
(* close(): unmap; the maker of the region also unlinks the name, whatever *)
(* it stands for now.                                                      *)
Close(p) ==
  /\ pc[p] = "ready"
  /\ closes < MaxCloses
  /\ closes' = closes + 1
  /\ name' = IF owns[p] THEN 0 ELSE name
  /\ Forget(p)
  /\ UNCHANGED <<made, header, complete, ringVars, crashes>>

(* A process dies. The dashboard also ends this way (main.cpp:368). *)
Crash(p) ==
  /\ pc[p] # "down"
  /\ crashes < MaxCrashes
  /\ crashes' = crashes + 1
  /\ Forget(p)
  /\ UNCHANGED <<regionVars, ringVars, closes>>

----------------------------------------------------------------------------
CreateStep(w) ==
  \/ CallCreate(w)
  \/ MakeRegion(w)
  \/ LoseRace(w)
  \/ Truncate(w)
  \/ WriteMagic(w)
  \/ WriteCapacity(w)
  \/ WriteMask(w)
  \/ InitSlots(w)

OpenStep(p) ==
  \/ OpenName(p)
  \/ OpenFails(p)
  \/ CheckMagic(p)
  \/ WrongMagic(p)

PushStep(w) ==
  \/ CallPush(w)
  \/ ClaimTail(w)
  \/ ReturnFull(w)
  \/ WriteData(w)
  \/ PublishSlot(w)

PopStep(r) ==
  \/ CallPop(r)
  \/ LoadCapacity(r)
  \/ ClaimHead(r)
  \/ ReturnEmpty(r)
  \/ ReadData(r)
  \/ FreeSlot(r)

Next ==
  \/ \E w \in Writers : CreateStep(w) \/ TruncateFails(w) \/ PushStep(w)
  \/ \E r \in Readers : CallOpen(r) \/ PopStep(r)
  \/ \E p \in Processes : OpenStep(p) \/ Close(p) \/ Crash(p)

Spec == Init /\ [][Next]_vars

(* Scheduling: every process runs on, is started again when it is down,    *)
(* and the dashboard tries to open the region again and again.             *)
Fairness ==
  /\ \A w \in Writers :
       WF_vars(CreateStep(w) \/ PushStep(w) \/ OpenStep(w))
  /\ \A r \in Readers :
       WF_vars(CallOpen(r) \/ OpenStep(r) \/ PopStep(r))

FairSpec == Spec /\ Fairness

----------------------------------------------------------------------------
(* The tickets of TicketQueue, read off the cursors and slots of a region  *)
(* that is complete and was not used before. The message of a published    *)
(* ticket is the one its slot really holds.                                *)

Place(n) == Slot(n, Capacity - 1)

StageOf(r, n) ==
  IF seq[r][Place(n)] = n + 1 THEN IF n < head[r] THEN "taken" ELSE "ready"
                              ELSE IF n < head[r] THEN "freed" ELSE "claimed"

TicketOf(r, n) ==
  [val   |-> IF StageOf(r, n) \in {"ready", "taken"} THEN data[r][Place(n)]
                                                    ELSE put[r][n + 1],
   stage |-> StageOf(r, n)]

tickets(r) ==
  IF r \in complete \ early THEN [i \in 1 .. tail[r] |-> TicketOf(r, i - 1)] ELSE <<>>

TQ(r) == INSTANCE TicketQueue
         WITH hist <- tickets(r), Values <- Messages, MaxPut <- MaxSent

(* Every region that was not used before it was complete is a queue as     *)
(* TicketQueue describes it, whoever dies in it and wherever: a message is *)
(* handed out at most once, whole, in the order in which push() claimed    *)
(* the tail, and its slot is not used again before pop() has freed it. A   *)
(* death leaves a ticket claimed or taken for ever, and what is claimed    *)
(* hides all behind it (shm_ring.hpp:139, :144, :165 and :170).            *)
ImplementsTicketQueue ==
  /\ \A r \in Regions : TQ(r)!TInit
  /\ [][\A r \in Regions : [TQ(r)!TNext]_(tickets(r))]_vars

----------------------------------------------------------------------------
Labels ==
  {"down", "exclusive", "truncate", "magic", "capacity", "mask", "slots",
   "open", "checkMagic", "ready", "push", "write", "publish",
   "loadCap", "pop", "read", "free"}

TypeOK ==
  /\ name \in 0 .. made
  /\ made \in 0 .. MaxRegions
  /\ header \in [Regions -> [sized : BOOLEAN, magic : BOOLEAN,
                             capacity : {0, Capacity}, mask : {0, Capacity - 1}]]
  /\ head \in [Regions -> Nat]
  /\ tail \in [Regions -> Nat]
  /\ seq \in [Regions -> [Slots -> Nat]]
  /\ data \in [Regions -> [Slots -> Messages]]
  /\ pc \in [Processes -> Labels]
  /\ at \in [Processes -> 0 .. made]
  /\ owns \in [Processes -> BOOLEAN]
  /\ fresh \in [Processes -> BOOLEAN]
  /\ lmask \in [Processes -> {0, Capacity - 1}]
  /\ lcap \in [Processes -> {0, Capacity}]
  /\ complete \subseteq 1 .. made
  /\ early \subseteq 1 .. made
  /\ pos \in [Processes -> Nat]
  /\ item \in [Processes -> Messages]
  /\ \A p \in Processes : pc[p] \in {"down", "exclusive", "open"} <=> at[p] = 0
  /\ sent \in Messages /\ crashes \in Nat /\ closes \in Nat
  /\ put \in [Regions -> Seq(Messages)] /\ \A r \in Regions : Len(put[r]) = tail[r]
  /\ got \in [Regions -> Seq([pos : Nat, msg : Messages])]

(* Whatever a reader gets was pushed into the same region, at the position *)
(* the reader claimed, whole; and no position is read twice, nor, by a     *)
(* single reader, out of order - also when that reader came before         *)
(* create() was through, or a death left a push or a pop unfinished        *)
(* (shm_ring.hpp:139 and :165). Not so in a region whose create() a death  *)
(* cut short, or that was used before it was complete by a second writer   *)
(* or by one of several readers: there messages are overwritten, or read   *)
(* with the mask of another slot.                                          *)
ReadsWhatWasPut ==
  \A r \in complete \ early :
    /\ \A k \in DOMAIN got[r] :
         got[r][k].pos < tail[r] /\ got[r][k].msg = put[r][got[r][k].pos + 1]
    /\ \A k, l \in DOMAIN got[r] :
         k < l => IF SoleReader THEN got[r][k].pos < got[r][l].pos
                               ELSE got[r][k].pos # got[r][l].pos

(* A region loses its name only to the process that made it, however the   *)
(* processes come and go: no process unlinks the ring that others made     *)
(* (shm_ring.hpp:85, :124 and :183).                                       *)
UnlinksOwnRegion ==
  [][name # 0 /\ name' # name =>
       /\ name' = 0
       /\ \E w \in Writers :
            /\ pc'[w] = "down"
            /\ at[w] = name
            /\ fresh[w] \/ pc[w] = "truncate"]_vars

(* "The queue is full" (shm_ring.hpp:148): push() refuses only when        *)
(* Capacity messages wait, or a reader has not given back the slot.        *)
FullMeansFull ==
  [][\A w \in Writers :
       pc[w] = "push" /\ pc'[w] = "ready" =>
         LET r == at[w] IN
         \/ tail[r] - head[r] = Capacity
         \/ \E d \in Readers : at[d] = r /\ pc[d] \in {"read", "free"}]_vars

(* What was published in the region a reader has open, and is not behind a *)
(* message that its writer has not published, is read in the end, as long  *)
(* as the reader keeps the region open (src/main.cpp:164).                 *)
PublishedIsRead ==
  \A r \in Regions, n \in 0 .. (MaxSent - 1), d \in Readers :
    (/\ at[d] = r /\ pc[d] # "checkMagic"
     /\ r \in complete \ early
     /\ n < tail[r]
     /\ \A k \in head[r] .. n : seq[r][k % Capacity] = k + 1)
      ~> (head[r] > n \/ at[d] # r)

----------------------------------------------------------------------------
(* Why it works: the inductive invariant behind the theorems of            *)
(* ShmRingProofs.                                                          *)

Making  == {"truncate", "magic", "capacity", "mask", "slots"}
Pushing == {"push", "write", "publish"}
Popping == {"loadCap", "pop", "read", "free"}

(* The name stands for the region of the process that makes or owns one;   *)
(* so there is at most one such process, and an owner that is through with *)
(* create() made its region.                                               *)
MakerInv ==
  /\ \A p \in Processes :
       pc[p] \in Making \/ owns[p] => p \in Writers /\ name # 0 /\ at[p] = name
  /\ \A p, q \in Processes :
       (pc[p] \in Making \/ owns[p]) /\ (pc[q] \in Making \/ owns[q]) => p = q
  /\ \A p \in Processes : pc[p] \in Making => at[p] \notin complete
  /\ \A p \in Processes : owns[p] /\ pc[p] \notin Making => fresh[p]
  /\ \A p \in Processes : /\ pc[p] \in Pushing => p \in Writers
                          /\ pc[p] \in Popping => p \in Readers

(* The sizes are written once, and are there when the region is complete.  *)
HeaderInv ==
  /\ \A r \in complete : header[r].mask = Capacity - 1 /\ header[r].capacity = Capacity
  /\ \A p \in Processes :
       /\ pc[p] \in {"mask", "slots"} => header[at[p]].capacity = Capacity
       /\ pc[p] = "slots" => header[at[p]].mask = Capacity - 1

(* Nobody touched the ring before it is complete. *)
Untouched(r) ==
  /\ head[r] = 0 /\ tail[r] = 0 /\ put[r] = <<>> /\ got[r] = <<>>
  /\ \A i \in Slots : seq[r][i] = 0
  /\ \A p \in Processes : at[p] = r => pc[p] \notin Pushing \cup {"read", "free"}

(* The positions of the window from the head: a message or its claim up to *)
(* the tail, then slots that may be free. Slots that a dead process left   *)
(* behind stay in it for ever.                                             *)
Window(r) ==
  /\ head[r] <= tail[r] /\ tail[r] <= head[r] + Capacity
  /\ \A n \in head[r] .. tail[r] - 1 :
       \/ seq[r][Place(n)] = n
       \/ seq[r][Place(n)] = n + 1 /\ data[r][Place(n)] = put[r][n + 1]
  /\ \A n \in tail[r] .. head[r] + Capacity - 1 : seq[r][Place(n)] <= n

(* A writer past its claim has a slot of the window for itself, *)
WriterOwns(r, p) ==
  /\ pos[p] \in head[r] .. tail[r] - 1
  /\ seq[r][Place(pos[p])] = pos[p]
  /\ item[p] = put[r][pos[p] + 1]
  /\ pc[p] = "publish" => data[r][Place(pos[p])] = item[p]

(* a reader past its claim a slot that left it less than a lap ago. Who    *)
(* read a mask of 0 from a header that was not written yet is at the first *)
(* slot, where the mask makes no difference.                               *)
ReaderOwns(r, p) ==
  /\ pos[p] < head[r] /\ tail[r] <= pos[p] + Capacity
  /\ lmask[p] = Capacity - 1 \/ pos[p] = 0
  /\ seq[r][Place(pos[p])] = pos[p] + 1
  /\ data[r][Place(pos[p])] = put[r][pos[p] + 1]
  /\ pc[p] = "free" => item[p] = put[r][pos[p] + 1]
  /\ \A k \in DOMAIN got[r] : IF SoleReader THEN got[r][k].pos < pos[p]
                                           ELSE got[r][k].pos # pos[p]

CallInv(r, p) ==
  /\ pc[p] \in Pushing => lmask[p] = Capacity - 1
  /\ pc[p] \in {"write", "publish"} => WriterOwns(r, p)
  /\ pc[p] \in {"loadCap", "pop"} =>
         lmask[p] = Capacity - 1 \/ (SoleReader /\ head[r] = 0)
  /\ pc[p] \in {"read", "free"} => ReaderOwns(r, p)

OwnersApart(r) ==
  \A p, q \in Processes :
    /\ at[p] = r /\ at[q] = r /\ p # q
    /\ \/ pc[p] \in {"write", "publish"} /\ pc[q] \in {"write", "publish"}
       \/ pc[p] \in {"read", "free"} /\ pc[q] \in {"read", "free"}
    => pos[p] # pos[q]

GotInv(r) ==
  /\ \A k \in DOMAIN got[r] :
       got[r][k].pos < head[r] /\ got[r][k].msg = put[r][got[r][k].pos + 1]
  /\ \A k, l \in DOMAIN got[r] :
       k < l => IF SoleReader THEN got[r][k].pos < got[r][l].pos
                             ELSE got[r][k].pos # got[r][l].pos

RingInv(r) ==
  /\ IF r \in complete THEN Window(r) /\ OwnersApart(r) /\ GotInv(r) ELSE Untouched(r)
  /\ \A p \in Processes : at[p] = r => CallInv(r, p)

ShmInv ==
  /\ TypeOK
  /\ MakerInv
  /\ HeaderInv
  /\ \A r \in Regions \ early : RingInv(r)
=============================================================================
