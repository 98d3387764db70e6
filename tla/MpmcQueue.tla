----------------------------- MODULE MpmcQueue -----------------------------
(***************************************************************************)
(* MpmcQueue<T> of include/mpmc_queue.hpp: a bounded multi-producer,       *)
(* multi-consumer ring after Vyukov. Each slot carries a sequence number   *)
(* that says which position of the two cursors may use it next.            *)
(*                                                                         *)
(* One action is one atomic access of the code: the load of a cursor, the  *)
(* load of the slot's sequence number with the branch on it, the CAS, the  *)
(* copy of the message, the store that publishes or frees the slot.        *)
(* Threads interleave between any two of them, and a thread that takes no  *)
(* further step is one that was suspended or killed there. Memory is       *)
(* sequentially consistent: the acquire/release pairs on seq order the     *)
(* copies, and a relaxed load that returns an old cursor is the same as a  *)
(* load followed by a delay. Cursors are natural numbers: 2^64 positions   *)
(* are out of reach.                                                       *)
(***************************************************************************)
EXTENDS Integers, Sequences

CONSTANTS
  Producers, Consumers,   \* the threads that call produce() and consume()
  Values,                 \* the messages
  NoValue,                \* a default-constructed T
  Capacity,               \* capacity_, after round_up_pow2
  MaxPut                  \* bound: no call to produce() from this tail on

ASSUME CapacityAssumption ==
  /\ Capacity \in Nat \ {0}
  /\ \E k \in 0 .. Capacity : Capacity = 2 ^ k

ASSUME MaxPutAssumption == MaxPut \in Nat

ASSUME ThreadAssumption == Producers \cap Consumers = {}

VARIABLES
  head, tail,   \* the cursors
  seq, data,    \* the cells
  pc,           \* the next atomic access of each thread
  pos,          \* its local copy of the cursor
  item,         \* produce's v, consume's out
  put           \* history: the message of every claimed position

vars == <<head, tail, seq, data, pc, pos, item, put>>

Threads == Producers \cup Consumers
Slots == 0 .. (Capacity - 1)

(* pos & mask_, for a capacity that is a power of two *)
Slot(n) == n % Capacity

Init ==
  /\ head = 0
  /\ tail = 0
  /\ seq  = [i \in Slots |-> i]
  /\ data = [i \in Slots |-> NoValue]
  /\ pc   = [t \in Threads |-> "idle"]
  /\ pos  = [t \in Threads |-> 0]
  /\ item = [t \in Threads |-> NoValue]
  /\ put  = <<>>

Goto(t, label) == pc' = [pc EXCEPT ![t] = label]

(* The call ends and its locals with it. *)
Return(t) ==
  /\ Goto(t, "idle")
  /\ pos'  = [pos EXCEPT ![t] = 0]
  /\ item' = [item EXCEPT ![t] = NoValue]

(* diff, as produce() and consume() compute it *)
DiffFree(p)  == seq[Slot(pos[p])] - pos[p]
DiffReady(c) == seq[Slot(pos[c])] - (pos[c] + 1)

----------------------------------------------------------------------------
(* Mistakes one could make in this code. No action of the specification    *)
(* uses them: they stand in for one action at a time, to see that the      *)
(* properties below notice.                                                *)

(* A stale tail is taken for a full ring. *)
ReturnFullIfStale(p) ==
  /\ pc[p] = "diffFree"
  /\ DiffFree(p) # 0
  /\ Return(p)
  /\ UNCHANGED <<head, tail, seq, data, put>>

(* tail_ is stored, not compared and exchanged. *)
StoreTail(p) ==
  /\ pc[p] = "casTail"
  /\ tail' = pos[p] + 1
  /\ put' = IF tail = pos[p] THEN Append(put, item[p]) ELSE put
  /\ Goto(p, "write")
  /\ UNCHANGED <<head, seq, data, pos, item>>

(* The slot is published before the message is copied in. *)
ClaimAndPublish(p) ==
  /\ pc[p] = "casTail"
  /\ tail = pos[p]
  /\ tail' = tail + 1
  /\ put' = Append(put, item[p])
  /\ seq' = [seq EXCEPT ![Slot(pos[p])] = pos[p] + 1]
  /\ Goto(p, "write")
  /\ UNCHANGED <<head, data, pos, item>>

(* A consumer retries on an empty ring. *)
RetryOnEmpty(c) ==
  /\ pc[c] = "diffReady"
  /\ DiffReady(c) < 0
  /\ Goto(c, "loadHead")
  /\ UNCHANGED <<head, tail, seq, data, pos, item, put>>

(* A stale head is taken for an empty ring. *)
ReturnEmptyIfStale(c) ==
  /\ pc[c] = "diffReady"
  /\ DiffReady(c) # 0
  /\ Return(c)
  /\ UNCHANGED <<head, tail, seq, data, put>>

(* head_ is stored, not compared and exchanged. *)
StoreHead(c) ==
  /\ pc[c] = "casHead"
  /\ head' = pos[c] + 1
  /\ Goto(c, "read")
  /\ UNCHANGED <<tail, seq, data, pos, item, put>>

(* The slot is freed before the message is copied out. *)
ClaimAndFree(c) ==
  /\ pc[c] = "casHead"
  /\ head = pos[c]
  /\ head' = head + 1
  /\ seq' = [seq EXCEPT ![Slot(pos[c])] = pos[c] + Capacity]
  /\ Goto(c, "read")
  /\ UNCHANGED <<tail, data, pos, item, put>>

(* The lap is subtracted. *)
FreePreviousLap(c) ==
  /\ pc[c] = "free"
  /\ seq' = [seq EXCEPT ![Slot(pos[c])] = pos[c] - Capacity]
  /\ Return(c)
  /\ UNCHANGED <<head, tail, data, put>>

----------------------------------------------------------------------------
(* produce(v) *)

CallProduce(p, v) ==
  /\ pc[p] = "idle"
  /\ tail < MaxPut
  /\ item' = [item EXCEPT ![p] = v]
  /\ Goto(p, "loadTail")
  /\ UNCHANGED <<head, tail, seq, data, pos, put>>

LoadTail(p) ==
  /\ pc[p] = "loadTail"
  /\ pos' = [pos EXCEPT ![p] = tail]
  /\ Goto(p, "diffFree")
  /\ UNCHANGED <<head, tail, seq, data, item, put>>

SlotIsFree(p) ==
  /\ pc[p] = "diffFree"
  /\ DiffFree(p) = 0
  /\ Goto(p, "casTail")
  /\ UNCHANGED <<head, tail, seq, data, pos, item, put>>

ReturnFull(p) ==
  /\ pc[p] = "diffFree"
  /\ DiffFree(p) < 0
  /\ Return(p)
  /\ UNCHANGED <<head, tail, seq, data, put>>

TailMovedOn(p) ==
  /\ pc[p] = "diffFree"
  /\ DiffFree(p) > 0
  /\ Goto(p, "loadTail")
  /\ UNCHANGED <<head, tail, seq, data, pos, item, put>>

ClaimTail(p) ==
  /\ pc[p] = "casTail"
  /\ tail = pos[p]
  /\ tail' = tail + 1
  /\ put' = Append(put, item[p])
  /\ Goto(p, "write")
  /\ UNCHANGED <<head, seq, data, pos, item>>

(* The cursor moved, or compare_exchange_weak failed spuriously. *)
CasTailFails(p) ==
  /\ pc[p] = "casTail"
  /\ Goto(p, "loadTail")
  /\ UNCHANGED <<head, tail, seq, data, pos, item, put>>

WriteData(p) ==
  /\ pc[p] = "write"
  /\ data' = [data EXCEPT ![Slot(pos[p])] = item[p]]
  /\ Goto(p, "publish")
  /\ UNCHANGED <<head, tail, seq, pos, item, put>>

PublishSlot(p) ==
  /\ pc[p] = "publish"
  /\ seq' = [seq EXCEPT ![Slot(pos[p])] = pos[p] + 1]
  /\ Return(p)
  /\ UNCHANGED <<head, tail, data, put>>

----------------------------------------------------------------------------
(* consume(out) *)

CallConsume(c) ==
  /\ pc[c] = "idle"
  /\ Goto(c, "loadHead")
  /\ UNCHANGED <<head, tail, seq, data, pos, item, put>>

LoadHead(c) ==
  /\ pc[c] = "loadHead"
  /\ pos' = [pos EXCEPT ![c] = head]
  /\ Goto(c, "diffReady")
  /\ UNCHANGED <<head, tail, seq, data, item, put>>

SlotIsReady(c) ==
  /\ pc[c] = "diffReady"
  /\ DiffReady(c) = 0
  /\ Goto(c, "casHead")
  /\ UNCHANGED <<head, tail, seq, data, pos, item, put>>

ReturnEmpty(c) ==
  /\ pc[c] = "diffReady"
  /\ DiffReady(c) < 0
  /\ Return(c)
  /\ UNCHANGED <<head, tail, seq, data, put>>

HeadMovedOn(c) ==
  /\ pc[c] = "diffReady"
  /\ DiffReady(c) > 0
  /\ Goto(c, "loadHead")
  /\ UNCHANGED <<head, tail, seq, data, pos, item, put>>

ClaimHead(c) ==
  /\ pc[c] = "casHead"
  /\ head = pos[c]
  /\ head' = head + 1
  /\ Goto(c, "read")
  /\ UNCHANGED <<tail, seq, data, pos, item, put>>

CasHeadFails(c) ==
  /\ pc[c] = "casHead"
  /\ Goto(c, "loadHead")
  /\ UNCHANGED <<head, tail, seq, data, pos, item, put>>

ReadData(c) ==
  /\ pc[c] = "read"
  /\ item' = [item EXCEPT ![c] = data[Slot(pos[c])]]
  /\ Goto(c, "free")
  /\ UNCHANGED <<head, tail, seq, data, pos, put>>

FreeSlot(c) ==
  /\ pc[c] = "free"
  /\ seq' = [seq EXCEPT ![Slot(pos[c])] = pos[c] + Capacity]
  /\ Return(c)
  /\ UNCHANGED <<head, tail, data, put>>

----------------------------------------------------------------------------
ProduceStep(p) ==
  \/ LoadTail(p)
  \/ SlotIsFree(p)
  \/ ReturnFull(p)
  \/ TailMovedOn(p)
  \/ ClaimTail(p)
  \/ CasTailFails(p)
  \/ WriteData(p)
  \/ PublishSlot(p)

ConsumeStep(c) ==
  \/ LoadHead(c)
  \/ SlotIsReady(c)
  \/ ReturnEmpty(c)
  \/ HeadMovedOn(c)
  \/ ClaimHead(c)
  \/ CasHeadFails(c)
  \/ ReadData(c)
  \/ FreeSlot(c)

Next ==
  \/ \E p \in Producers, v \in Values : CallProduce(p, v)
  \/ \E c \in Consumers : CallConsume(c)
  \/ \E p \in Producers : ProduceStep(p)
  \/ \E c \in Consumers : ConsumeStep(c)

Spec == Init /\ [][Next]_vars

(* Scheduling. Without it a thread may stop anywhere, as a killed or       *)
(* starved one does. A thread in Alive keeps running, and a CAS whose      *)
(* cursor did not move does not fail for ever (on x86-64 it never fails).  *)
CONSTANT Alive
ASSUME AliveAssumption == Alive \subseteq Threads

Fairness ==
  /\ \A p \in Producers \cap Alive :
       WF_vars(ProduceStep(p)) /\ SF_vars(ClaimTail(p))
  /\ \A c \in Consumers \cap Alive :
       WF_vars(ConsumeStep(c)) /\ SF_vars(ClaimHead(c))

FairSpec == Spec /\ Fairness

----------------------------------------------------------------------------
(* The tickets of TicketQueue, read off the cursors and the cells. The     *)
(* message of a published ticket is the one its slot really holds.         *)

StageOf(n) ==
  CASE seq[Slot(n)] = n -> "claimed"
    [] seq[Slot(n)] = n + 1 -> IF n < head THEN "taken" ELSE "ready"
    [] OTHER -> "freed"

TicketOf(n) ==
  [val   |-> IF StageOf(n) \in {"ready", "taken"} THEN data[Slot(n)] ELSE put[n + 1],
   stage |-> StageOf(n)]

tickets == [i \in 1 .. tail |-> TicketOf(i - 1)]

TQ == INSTANCE TicketQueue WITH hist <- tickets

(* The lock-free queue keeps the promise of TicketQueue: every accepted    *)
(* message is handed out exactly once, whole, and in the order in which    *)
(* produce() claimed the tail. The benchmark of the repository compares    *)
(* counts only and leaves "no duplicate" unverified (README.md:296).       *)
ImplementsTicketQueue == TQ!TSpec

----------------------------------------------------------------------------
ProducerPcs == {"idle", "loadTail", "diffFree", "casTail", "write", "publish"}
ConsumerPcs == {"idle", "loadHead", "diffReady", "casHead", "read", "free"}

TypeOK ==
  /\ head \in Nat
  /\ tail \in Nat
  /\ seq  \in [Slots -> Nat]
  /\ data \in [Slots -> Values \cup {NoValue}]
  /\ pc   \in [Threads -> ProducerPcs \cup ConsumerPcs]
  /\ pos  \in [Threads -> Nat]
  /\ item \in [Threads -> Values \cup {NoValue}]
  /\ put  \in Seq(Values)

(* The threads that own a slot: between a successful CAS and the store     *)
(* that publishes or frees it.                                             *)
Writers == {p \in Producers : pc[p] \in {"write", "publish"}}
Readers == {c \in Consumers : pc[c] \in {"read", "free"}}

(* No two threads ever touch the same slot between their CAS and their     *)
(* store to seq: the unsynchronised copies c.data = v and out = c.data     *)
(* never race (mpmc_queue.hpp:42 and :66).                                *)
SlotExclusive ==
  \A t, u \in Writers \cup Readers :
    t # u => Slot(pos[t]) # Slot(pos[u])

(* A consumer that claimed position n leaves with the message that the     *)
(* producer of position n brought, never a torn, stale or later one.       *)
ReadsWhatWasPut ==
  \A c \in Consumers : pc[c] = "free" => item[c] = put[pos[c] + 1]

(* The ring never holds more messages than it has slots, and the head      *)
(* cursor never overtakes the tail.                                        *)
NeverOverfull == head <= tail /\ tail - head <= Capacity

(* produce() refuses a message only for a reason: Capacity messages are    *)
(* waiting, or a consumer is still copying out of the slot one lap back.   *)
(* A pos that went stale before seq was loaded never refuses one.          *)
FullIsReal ==
  [][\A p \in Producers :
       pc[p] = "diffFree" /\ pc'[p] = "idle" =>
         \/ tail - head = Capacity
         \/ \E c \in Readers : pos[c] = tail - Capacity]_vars

(* consume() reports an empty queue only when nothing is waiting or the    *)
(* oldest message is still being copied in.                                *)
EmptyIsReal ==
  [][\A c \in Consumers :
       pc[c] = "diffReady" /\ pc'[c] = "idle" =>
         \/ head = tail
         \/ \E p \in Writers : pos[p] = head]_vars

(* Both: a call of produce() or consume() that fails has its reason in the *)
(* ring, never in a cursor or sequence number that went stale.             *)
RefusalsAreReal == FullIsReal /\ EmptyIsReal

(* The sequence number of a slot only grows: what README.md:194 rests the  *)
(* absence of ABA on.                                                      *)
SeqMonotone == [][\A i \in Slots : seq'[i] >= seq[i]]_vars

(* No thread waits for another: the calls of a thread that keeps running   *)
(* return even when every other thread was suspended in the middle of one, *)
(* since a claimed slot makes them fail, not spin.                         *)
CallsReturn ==
  \A t \in Alive : pc[t] # "idle" ~> pc[t] = "idle"

----------------------------------------------------------------------------
(* Why it works: the inductive invariant behind the theorems of            *)
(* MpmcQueueProofs. The positions head .. head + Capacity - 1 meet every   *)
(* slot once; those below tail are claimed, the others open.               *)

Claimed == head .. (tail - 1)
Open    == tail .. (head + Capacity - 1)

CursorsInv ==
  /\ head <= tail
  /\ tail <= head + Capacity
  /\ Len(put) = tail

(* A claimed slot is being written by its producer, or published. *)
ClaimedInv ==
  \A n \in Claimed :
    \/ seq[Slot(n)] = n /\ \E p \in Writers : pos[p] = n
    \/ seq[Slot(n)] = n + 1 /\ data[Slot(n)] = put[n + 1]

(* An open slot is free for position n, or its consumer is one lap back. *)
OpenInv ==
  \A n \in Open :
    \/ seq[Slot(n)] = n
    \/ /\ seq[Slot(n)] = n - Capacity + 1
       /\ \E c \in Readers : pos[c] = n - Capacity

WriterInv ==
  \A p \in Writers :
    /\ pos[p] \in Claimed
    /\ seq[Slot(pos[p])] = pos[p]
    /\ item[p] = put[pos[p] + 1]
    /\ pc[p] = "publish" => data[Slot(pos[p])] = item[p]
    /\ \A q \in Writers : p # q => pos[p] # pos[q]

ReaderInv ==
  \A c \in Readers :
    /\ pos[c] < head /\ tail <= pos[c] + Capacity
    /\ seq[Slot(pos[c])] = pos[c] + 1
    /\ data[Slot(pos[c])] = put[pos[c] + 1]
    /\ pc[c] = "free" => item[c] = put[pos[c] + 1]
    /\ \A d \in Readers : c # d => pos[c] # pos[d]

(* What a thread that has not claimed anything yet may rely on. *)
ProducerAhead(p) ==
  /\ pc[p] \in {"loadTail", "diffFree", "casTail"} => item[p] \in Values
  /\ pc[p] \in {"diffFree", "casTail"} =>
       /\ pos[p] <= tail
       /\ pos[p] < tail => seq[Slot(pos[p])] >= pos[p]
  /\ pc[p] = "casTail" /\ pos[p] = tail => seq[Slot(tail)] = tail

ConsumerAhead(c) ==
  /\ pc[c] \in {"diffReady", "casHead"} =>
       /\ pos[c] <= head
       /\ pos[c] < head => seq[Slot(pos[c])] >= pos[c] + 1
  /\ pc[c] = "casHead" /\ pos[c] = head => seq[Slot(head)] = head + 1

ProducerAheadInv == \A p \in Producers : ProducerAhead(p)
ConsumerAheadInv == \A c \in Consumers : ConsumerAhead(c)

ThreadKindInv ==
  /\ \A p \in Producers : pc[p] \in ProducerPcs
  /\ \A c \in Consumers : pc[c] \in ConsumerPcs

IInv ==
  /\ TypeOK
  /\ ThreadKindInv
  /\ CursorsInv
  /\ ClaimedInv
  /\ OpenInv
  /\ WriterInv
  /\ ReaderInv
  /\ ProducerAheadInv
  /\ ConsumerAheadInv
=============================================================================
