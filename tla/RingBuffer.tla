----------------------------- MODULE RingBuffer -----------------------------
(***************************************************************************)
(* RingBuffer<T> of include/ring_buffer.hpp: one producer and one consumer *)
(* over an array, with no lock and no CAS. Only the producer stores        *)
(* tail_, only the consumer stores head_; each loads the other's cursor    *)
(* once per call. A step is one access of shared memory.                   *)
(***************************************************************************)
EXTENDS Integers, Sequences

CONSTANTS
  Values,    \* the messages
  Zero,      \* what the buffer is filled with
  Size,      \* buffer_.size(); one slot always stays empty
  MaxSent    \* bound: push() accepts this many messages

ASSUME ZeroAssumption == Zero \in Values
ASSUME SizeAssumption == Size \in Nat \ {0, 1}   \* with one slot every push() fails
ASSUME MaxSentAssumption == MaxSent \in Nat

VARIABLES
  buffer, head, tail,
  ppc, item, curTail,     \* push(): where it is, its argument, cur_tail
  cpc, out, curHead       \* pop(): where it is, its result, cur_head

VARIABLES       \* history, for the properties
  sent,         \* the messages push() found room for
  received      \* the messages pop() returned

producerVars == <<ppc, item, curTail, sent>>
consumerVars == <<cpc, out, curHead, received>>
vars == <<buffer, head, tail, producerVars, consumerVars>>

Slots == 0 .. (Size - 1)

NextSlot(i) == (i + 1) % Size

Init ==
  /\ buffer = [i \in Slots |-> Zero]
  /\ head = 0
  /\ tail = 0
  /\ ppc = "idle"
  /\ item = Zero
  /\ curTail = 0
  /\ cpc = "idle"
  /\ out = Zero
  /\ curHead = 0
  /\ sent = <<>>
  /\ received = <<>>

----------------------------------------------------------------------------
(* Mistakes one could make in this code; no action of the specification    *)
(* uses them.                                                              *)

(* All slots are used: full looks like empty. *)
FindRoomInAll ==
  /\ ppc = "check"
  /\ ppc' = "write"
  /\ sent' = Append(sent, item)
  /\ UNCHANGED <<buffer, head, tail, item, curTail, consumerVars>>

(* The tail is stored before the message. *)
FindRoomAndPublish ==
  /\ ppc = "check"
  /\ NextSlot(curTail) # head
  /\ tail' = NextSlot(curTail)
  /\ ppc' = "write"
  /\ sent' = Append(sent, item)
  /\ UNCHANGED <<buffer, head, item, curTail, consumerVars>>

(* The tail does not wrap. *)
PublishTailUnwrapped ==
  /\ ppc = "publish"
  /\ tail' = curTail + 1
  /\ ppc' = "idle"
  /\ UNCHANGED <<buffer, head, item, curTail, sent, consumerVars>>

(* A slot too many is kept free. *)
ReturnFullEarly ==
  /\ ppc = "check"
  /\ NextSlot(curTail) = head \/ NextSlot(NextSlot(curTail)) = head
  /\ ppc' = "idle"
  /\ UNCHANGED <<buffer, head, tail, item, curTail, sent, consumerVars>>

(* The last message is kept back. *)
ReturnEmptyEarly ==
  /\ cpc = "check"
  /\ curHead = tail \/ NextSlot(curHead) = tail
  /\ cpc' = "idle"
  /\ UNCHANGED <<buffer, head, tail, producerVars, out, curHead, received>>

----------------------------------------------------------------------------
(* push(item) *)

CallPush(v) ==
  /\ ppc = "idle"
  /\ Len(sent) < MaxSent
  /\ item' = v
  /\ curTail' = tail
  /\ ppc' = "check"
  /\ UNCHANGED <<buffer, head, tail, sent, consumerVars>>

ReturnFull ==
  /\ ppc = "check"
  /\ NextSlot(curTail) = head
  /\ ppc' = "idle"
  /\ UNCHANGED <<buffer, head, tail, item, curTail, sent, consumerVars>>

FindRoom ==
  /\ ppc = "check"
  /\ NextSlot(curTail) # head
  /\ ppc' = "write"
  /\ sent' = Append(sent, item)
  /\ UNCHANGED <<buffer, head, tail, item, curTail, consumerVars>>

WriteData ==
  /\ ppc = "write"
  /\ buffer' = [buffer EXCEPT ![curTail] = item]
  /\ ppc' = "publish"
  /\ UNCHANGED <<head, tail, item, curTail, sent, consumerVars>>

PublishTail ==
  /\ ppc = "publish"
  /\ tail' = NextSlot(curTail)
  /\ ppc' = "idle"
  /\ UNCHANGED <<buffer, head, item, curTail, sent, consumerVars>>

----------------------------------------------------------------------------
(* pop(item) *)

CallPop ==
  /\ cpc = "idle"
  /\ curHead' = head
  /\ cpc' = "check"
  /\ UNCHANGED <<buffer, head, tail, producerVars, out, received>>

ReturnEmpty ==
  /\ cpc = "check"
  /\ curHead = tail
  /\ cpc' = "idle"
  /\ UNCHANGED <<buffer, head, tail, producerVars, out, curHead, received>>

FindMessage ==
  /\ cpc = "check"
  /\ curHead # tail
  /\ cpc' = "read"
  /\ UNCHANGED <<buffer, head, tail, producerVars, out, curHead, received>>

ReadData ==
  /\ cpc = "read"
  /\ out' = buffer[curHead]
  /\ cpc' = "free"
  /\ UNCHANGED <<buffer, head, tail, producerVars, curHead, received>>

FreeSlot ==
  /\ cpc = "free"
  /\ head' = NextSlot(curHead)
  /\ received' = Append(received, out)
  /\ cpc' = "idle"
  /\ UNCHANGED <<buffer, tail, producerVars, out, curHead>>

----------------------------------------------------------------------------
Push == ReturnFull \/ FindRoom \/ WriteData \/ PublishTail

Pop == CallPop \/ ReturnEmpty \/ FindMessage \/ ReadData \/ FreeSlot

Next ==
  \/ \E v \in Values : CallPush(v)
  \/ Push
  \/ Pop

Spec == Init /\ [][Next]_vars

(* Scheduling: a call of push() runs on, and the consumer calls pop()      *)
(* again and again (test_ring.cpp:60 and bench_mpmc.cpp).                  *)
FairSpec == Spec /\ WF_vars(Push) /\ WF_vars(Pop)

----------------------------------------------------------------------------
Writing == ppc \in {"write", "publish"}
Reading == cpc \in {"read", "free"}

Published == IF Writing THEN Len(sent) - 1 ELSE Len(sent)

RingTypeOK ==
  /\ buffer \in [Slots -> Values]
  /\ head \in Slots
  /\ tail \in Slots
  /\ ppc \in {"idle", "check", "write", "publish"}
  /\ item \in Values
  /\ curTail \in Slots
  /\ cpc \in {"idle", "check", "read", "free"}
  /\ out \in Values
  /\ curHead \in Slots
  /\ sent \in Seq(Values)
  /\ received \in Seq(Values)

(* What pop() returns is what push() accepted, nothing lost, nothing       *)
(* twice, in the same order (test_ring.cpp:45).                            *)
Fifo ==
  /\ Len(received) <= Published
  /\ \A k \in 1 .. Len(received) : received[k] = sent[k]

(* The producer never writes the slot the consumer reads                   *)
(* (ring_buffer.hpp:16 and :27).                                           *)
NoRaceOnSlots == Writing /\ Reading => curTail # curHead

(* push() fails only when Size - 1 messages have not been popped, and      *)
(* pop() only when there is none (test_ring.cpp:35).                       *)
RefusalsAreReal ==
  [][/\ ppc = "check" /\ ppc' = "idle" => Len(sent) - Len(received) = Size - 1
     /\ cpc = "check" /\ cpc' = "idle" => Len(received) = Published]_vars

(* The inductive invariant behind Fifo: how the cursors, the buffer and    *)
(* the locals of a call under way follow from what was sent and received.  *)
SlotOf(n) == n % Size

CursorInv ==
  /\ head = SlotOf(Len(received))
  /\ tail = SlotOf(Published)
  /\ Published \in Nat
  /\ Len(received) <= Published
  /\ Len(sent) < Len(received) + Size

ProducerInv ==
  /\ ppc # "idle" => curTail = tail
  /\ Writing => sent[Len(sent)] = item
  /\ ppc = "publish" => buffer[curTail] = item

ConsumerInv ==
  /\ cpc # "idle" => curHead = head
  /\ Reading => Len(received) < Published
  /\ cpc = "free" => out = sent[Len(received) + 1]

BufferInv ==
  \A n \in Len(received) .. (Published - 1) : buffer[SlotOf(n)] = sent[n + 1]

RingInv ==
  /\ RingTypeOK
  /\ CursorInv
  /\ ProducerInv
  /\ ConsumerInv
  /\ BufferInv
  /\ Fifo

(* The tickets: a message is claimed when push() finds room for it and     *)
(* taken when pop() finds it.                                              *)
Stage(i) ==
  IF i <= Len(received) THEN "freed"
  ELSE IF Reading /\ i = Len(received) + 1 THEN "taken"
  ELSE IF i <= Published THEN "ready"
  ELSE "claimed"

Tickets == [i \in 1 .. Len(sent) |-> [val |-> sent[i], stage |-> Stage(i)]]

TQ == INSTANCE TicketQueue
        WITH Capacity <- Size - 1, MaxPut <- MaxSent, hist <- Tickets

(* The ring keeps the promise of TicketQueue with one message less than    *)
(* it has slots (ring_buffer.hpp:13).                                      *)
ImplementsTicketQueue == TQ!TSpec

(* Every message push() accepted is popped in the end.                     *)
EverythingArrives ==
  \A n \in 1 .. MaxSent : Len(sent) >= n ~> Len(received) >= n
=============================================================================
