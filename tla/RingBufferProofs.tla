-------------------------- MODULE RingBufferProofs --------------------------
(***************************************************************************)
(* Theorems about RingBuffer, for every set of messages and every size of  *)
(* at least two slots: it is a FIFO queue, and it implements TicketQueue.  *)
(***************************************************************************)
EXTENDS RingBuffer, SequenceTheorems, TLAPS

----------------------------------------------------------------------------
(* The n-th message, counted from 0, lies in slot n % Size.                *)

(* There are at least two slots. *)
LEMMA SizeType == Size \in Nat /\ Size >= 2
BY SizeAssumption

(* SlotOf gives a slot. *)
LEMMA SlotOfType ==
  ASSUME NEW n \in Nat
  PROVE  SlotOf(n) \in Slots
BY SizeType DEF SlotOf, Slots

(* A number is its quotient by Size times Size, plus its slot. *)
LEMMA SlotOfDivision ==
  ASSUME NEW n \in Nat
  PROVE  (n \div Size) \in Int /\ n = Size * (n \div Size) + SlotOf(n)
BY SizeType DEF SlotOf

(* Quotient and remainder are unique. *)
LEMMA RemainderUnique ==
  ASSUME NEW a \in Int, NEW b \in Int, NEW r \in Slots, NEW s \in Slots,
         Size * a + r = Size * b + s
  PROVE  a = b /\ r = s
<1> DEFINE k == a - b
<1>1. r \in Int /\ s \in Int /\ s - r < Size /\ r - s < Size
  BY SizeType DEF Slots
<1>2. k \in Int /\ Size * k = s - r
  BY <1>1, SizeType
<1>3. k = 0 => a = b /\ r = s
  <2> SUFFICES ASSUME k = 0 PROVE a = b /\ r = s
    OBVIOUS
  <2>1. a = b
    OBVIOUS
  <2> QED
    BY <1>1, <2>1, SizeType
<1> HIDE DEF k
<1>4. ~(k <= -1)
  BY <1>1, <1>2, SizeType
<1>5. ~(k >= 1)
  BY <1>1, <1>2, SizeType
<1> QED
  BY <1>2, <1>3, <1>4, <1>5

(* The slot of the next message is the next slot, across the wrap. *)
LEMMA NextSlotOf ==
  ASSUME NEW n \in Nat
  PROVE  NextSlot(SlotOf(n)) = SlotOf(n + 1)
<1> DEFINE r == SlotOf(n)
           a == n \div Size
           b == (n + 1) \div Size
<1>1. a \in Int /\ n = Size * a + r /\ r \in Slots
  BY SlotOfDivision, SlotOfType
<1>2. b \in Int /\ n + 1 = Size * b + SlotOf(n + 1) /\ SlotOf(n + 1) \in Slots
  BY SlotOfDivision, SlotOfType
<1> HIDE DEF a, b, r
<1>3. CASE r + 1 < Size
  <2>1. NextSlot(r) = r + 1 /\ r + 1 \in Slots
    BY <1>1, <1>3, SizeType DEF NextSlot, Slots
  <2>2. Size * a + (r + 1) = Size * b + SlotOf(n + 1)
    BY <1>1, <1>2, SizeType DEF Slots
  <2>3. r + 1 = SlotOf(n + 1)
    BY <1>1, <1>2, <2>1, <2>2, RemainderUnique
  <2> QED
    BY <2>1, <2>3 DEF r
<1>4. CASE r + 1 = Size
  <2>1. NextSlot(r) = 0 /\ 0 \in Slots
    BY <1>1, <1>4, SizeType DEF NextSlot, Slots
  <2>2. a + 1 \in Int /\ Size * (a + 1) = Size * a + Size
    BY <1>1, SizeType
  <2>3. Size * (a + 1) + 0 = Size * b + SlotOf(n + 1)
    BY <1>1, <1>2, <1>4, <2>2, SizeType DEF Slots
  <2>4. 0 = SlotOf(n + 1)
    BY <1>2, <2>1, <2>2, <2>3, RemainderUnique
  <2> QED
    BY <2>1, <2>4 DEF r
<1> QED
  BY <1>1, <1>3, <1>4, SizeType DEF Slots

(* Two messages share a slot only if they are a lap apart. *)
LEMMA SlotsApart ==
  ASSUME NEW m \in Nat, NEW n \in Nat, m < n, n < m + Size
  PROVE  SlotOf(m) # SlotOf(n)
<1> DEFINE k == (n \div Size) - (m \div Size)
<1> SUFFICES ASSUME SlotOf(m) = SlotOf(n) PROVE FALSE
  OBVIOUS
<1>1. (m \div Size) \in Int /\ m = Size * (m \div Size) + SlotOf(m)
  BY SlotOfDivision
<1>2. (n \div Size) \in Int /\ n = Size * (n \div Size) + SlotOf(n)
  BY SlotOfDivision
<1>3. SlotOf(m) \in Int /\ SlotOf(n) \in Int
  BY SlotOfType, SizeType DEF Slots
<1>4. k \in Int /\ n - m = Size * k
  BY <1>1, <1>2, <1>3, SizeType
<1> HIDE DEF k
<1>5. ~(k <= 0)
  BY <1>4, SizeType
<1>6. ~(k >= 1)
  BY <1>4, SizeType
<1> QED
  BY <1>4, <1>5, <1>6

(* and then they do. *)
LEMMA SlotOfNextLap ==
  ASSUME NEW n \in Nat
  PROVE  SlotOf(n + Size) = SlotOf(n)
<1> DEFINE a == n \div Size
           b == (n + Size) \div Size
<1>1. a \in Int /\ n = Size * a + SlotOf(n) /\ SlotOf(n) \in Slots
  BY SlotOfDivision, SlotOfType
<1>2. n + Size \in Nat
  BY SizeType
<1>3. b \in Int /\ n + Size = Size * b + SlotOf(n + Size) /\ SlotOf(n + Size) \in Slots
  BY <1>2, SlotOfDivision, SlotOfType
<1> HIDE DEF a, b
<1>4. a + 1 \in Int /\ Size * (a + 1) = Size * a + Size
  BY <1>1, SizeType
<1>5. Size * (a + 1) + SlotOf(n) = Size * b + SlotOf(n + Size)
  BY <1>1, <1>3, <1>4, SizeType DEF Slots
<1> QED
  BY <1>1, <1>3, <1>4, <1>5, RemainderUnique

----------------------------------------------------------------------------
(* The inductive invariant.                                                *)

(* The empty ring satisfies the invariant. *)
LEMMA InitRingInv == Init => RingInv
<1> SUFFICES ASSUME Init PROVE RingInv
  OBVIOUS
<1> USE SizeType DEF Init
<1>1. Published = 0 /\ Len(received) = 0 /\ Len(sent) = 0
  BY DEF Published, Writing
<1>2. SlotOf(0) = 0 /\ 0 \in Slots
  BY DEF SlotOf, Slots
<1>3. RingTypeOK
  BY <1>2, ZeroAssumption DEF RingTypeOK, Slots
<1>4. CursorInv
  BY <1>1, <1>2 DEF CursorInv
<1>5. ProducerInv /\ ConsumerInv
  BY DEF ProducerInv, ConsumerInv, Writing, Reading
<1>6. BufferInv /\ Fifo
  BY <1>1 DEF BufferInv, Fifo
<1> QED
  BY <1>3, <1>4, <1>5, <1>6 DEF RingInv

(* The counts are naturals, and one message at most is on its way in. *)
LEMMA Counts ==
  ASSUME RingInv
  PROVE  /\ Len(sent) \in Nat /\ Len(received) \in Nat /\ Published \in Nat
         /\ Published = IF Writing THEN Len(sent) - 1 ELSE Len(sent)
         /\ Published <= Len(sent)
         /\ Len(received) <= Published
         /\ Len(sent) < Len(received) + Size
BY SizeType DEF RingInv, RingTypeOK, CursorInv, Published

(* push() sees the next slot taken exactly when the ring is full. *)
LEMMA FullAtHead ==
  ASSUME RingInv, ppc = "check"
  PROVE  NextSlot(curTail) = head <=> Len(sent) + 1 = Len(received) + Size
<1>1. Published = Len(sent) /\ curTail = SlotOf(Len(sent)) /\ head = SlotOf(Len(received))
  BY Counts DEF RingInv, CursorInv, ProducerInv, Writing
<1>2. NextSlot(curTail) = SlotOf(Len(sent) + 1)
  BY <1>1, Counts, NextSlotOf
<1>3. CASE Len(sent) + 1 = Len(received) + Size
  BY <1>1, <1>2, <1>3, Counts, SlotOfNextLap
<1>4. CASE Len(sent) + 1 < Len(received) + Size
  <2>1. SlotOf(Len(received)) # SlotOf(Len(sent) + 1)
    BY <1>1, <1>4, Counts, SlotsApart
  <2> QED
    BY <1>1, <1>2, <1>4, <2>1, Counts, SizeType
<1> QED
  BY <1>3, <1>4, Counts, SizeType

(* pop() sees the cursors meet exactly when nothing is published. *)
LEMMA EmptyAtTail ==
  ASSUME RingInv, cpc = "check"
  PROVE  curHead = tail <=> Len(received) = Published
<1>1. curHead = SlotOf(Len(received)) /\ tail = SlotOf(Published)
  BY DEF RingInv, CursorInv, ConsumerInv
<1>2. CASE Len(received) = Published
  BY <1>1, <1>2
<1>3. CASE Len(received) < Published
  BY <1>1, <1>3, Counts, SizeType, SlotsApart
<1> QED
  BY <1>2, <1>3, Counts

(* The call reads the tail it owns. *)
LEMMA CallPushStep ==
  ASSUME RingInv, NEW v \in Values, CallPush(v)
  PROVE  RingInv'
<1> USE DEF RingInv, CallPush, consumerVars
<1>1. ~Writing /\ ~Writing' /\ (Reading' <=> Reading) /\ Published' = Published
  BY DEF Writing, Reading, Published
<1>2. RingTypeOK'
  BY DEF RingTypeOK
<1>3. CursorInv'
  BY <1>1 DEF CursorInv
<1>4. ProducerInv'
  BY <1>1 DEF ProducerInv
<1>5. ConsumerInv'
  BY <1>1 DEF ConsumerInv
<1>6. BufferInv' /\ Fifo'
  BY <1>1 DEF BufferInv, Fifo
<1> QED
  BY <1>2, <1>3, <1>4, <1>5, <1>6

(* A refused call changes nothing. *)
LEMMA ReturnFullStep ==
  ASSUME RingInv, ReturnFull
  PROVE  RingInv'
<1> USE DEF RingInv, ReturnFull, consumerVars
<1>1. ~Writing /\ ~Writing' /\ (Reading' <=> Reading) /\ Published' = Published
  BY DEF Writing, Reading, Published
<1>2. RingTypeOK'
  BY DEF RingTypeOK
<1>3. CursorInv'
  BY <1>1 DEF CursorInv
<1>4. ProducerInv'
  BY <1>1 DEF ProducerInv
<1>5. ConsumerInv'
  BY <1>1 DEF ConsumerInv
<1>6. BufferInv' /\ Fifo'
  BY <1>1 DEF BufferInv, Fifo
<1> QED
  BY <1>2, <1>3, <1>4, <1>5, <1>6

(* Where room is found the ring holds less than Size - 1 messages. *)
LEMMA FindRoomStep ==
  ASSUME RingInv, FindRoom
  PROVE  RingInv'
<1> USE DEF FindRoom, consumerVars
<1>1. ~Writing /\ Writing' /\ (Reading' <=> Reading)
  BY DEF Writing, Reading
<1>2. RingTypeOK /\ RingTypeOK'
  BY DEF RingInv, RingTypeOK
<1>3. /\ sent' = Append(sent, item) /\ Len(sent') = Len(sent) + 1
      /\ sent'[Len(sent')] = item
      /\ \A k \in 1 .. Len(sent) : sent'[k] = sent[k]
  BY <1>2 DEF RingTypeOK
<1>4. Published' = Published /\ Published = Len(sent)
  BY <1>1, <1>3, Counts DEF Published
<1>5. Len(sent) + 1 < Len(received) + Size
  BY FullAtHead, Counts, SizeType
<1> HIDE DEF FindRoom
<1>6. CursorInv'
  BY <1>3, <1>4, <1>5 DEF RingInv, CursorInv, FindRoom
<1>7. ProducerInv'
  BY <1>3 DEF RingInv, ProducerInv, FindRoom
<1>8. ConsumerInv'
  BY <1>1, <1>3, <1>4, Counts DEF RingInv, ConsumerInv, FindRoom, Reading
<1>9. BufferInv'
  BY <1>3, <1>4, Counts DEF RingInv, BufferInv, FindRoom
<1>10. Fifo'
  BY <1>3, <1>4, Counts DEF RingInv, Fifo, FindRoom
<1> QED
  BY <1>2, <1>6, <1>7, <1>8, <1>9, <1>10 DEF RingInv

(* The message is written outside the slots that hold published ones. *)
LEMMA WriteDataStep ==
  ASSUME RingInv, WriteData
  PROVE  RingInv'
<1> USE DEF WriteData, consumerVars
<1>1. Writing /\ Writing' /\ (Reading' <=> Reading) /\ Published' = Published
  BY DEF Writing, Reading, Published
<1>2. RingTypeOK'
  BY DEF RingInv, RingTypeOK
<1>3. CursorInv'
  BY <1>1 DEF RingInv, CursorInv
<1>4. buffer'[curTail] = item /\ \A i \in Slots : i # curTail => buffer'[i] = buffer[i]
  BY DEF RingInv, RingTypeOK
<1>5. ProducerInv'
  BY <1>1, <1>4 DEF RingInv, ProducerInv
<1>6. ConsumerInv'
  BY <1>1 DEF RingInv, ConsumerInv
<1>7. ASSUME NEW n \in Len(received) .. (Published - 1)
      PROVE  buffer'[SlotOf(n)] = sent[n + 1]
  <2>1. curTail = SlotOf(Published)
    BY DEF RingInv, CursorInv, ProducerInv
  <2>2. n \in Nat /\ n < Published /\ Published < n + Size
    BY <1>1, Counts, SizeType
  <2>3. SlotOf(n) \in Slots /\ SlotOf(n) # curTail
    BY <2>1, <2>2, Counts, SlotsApart, SlotOfType
  <2> QED
    BY <1>4, <2>3 DEF RingInv, BufferInv
<1>8. BufferInv'
  BY <1>1, <1>7 DEF BufferInv
<1>9. Fifo'
  BY <1>1 DEF RingInv, Fifo
<1> QED
  BY <1>2, <1>3, <1>5, <1>6, <1>8, <1>9 DEF RingInv

(* The new tail publishes exactly the message just written. *)
LEMMA PublishTailStep ==
  ASSUME RingInv, PublishTail
  PROVE  RingInv'
<1> USE DEF PublishTail, consumerVars
<1>1. Writing /\ ~Writing' /\ (Reading' <=> Reading)
  BY DEF Writing, Reading
<1>2. Published' = Len(sent) /\ Published = Len(sent) - 1
  BY <1>1 DEF Published
<1>3. curTail = SlotOf(Published) /\ sent[Len(sent)] = item /\ buffer[curTail] = item
  BY <1>1 DEF RingInv, CursorInv, ProducerInv
<1>4. tail' = SlotOf(Published')
  BY <1>2, <1>3, Counts, NextSlotOf
<1>5. RingTypeOK'
  BY <1>2, <1>4, Counts, SlotOfType DEF RingInv, RingTypeOK
<1>6. CursorInv'
  BY <1>2, <1>4, Counts DEF RingInv, CursorInv
<1>7. ProducerInv'
  BY <1>1 DEF ProducerInv
<1>8. ConsumerInv'
  BY <1>1, <1>2, Counts DEF RingInv, ConsumerInv
<1>9. ASSUME NEW n \in Len(received) .. (Published' - 1)
      PROVE  buffer[SlotOf(n)] = sent[n + 1]
  <2>1. CASE n = Published
    BY <1>2, <1>3, <2>1, Counts
  <2>2. CASE n # Published
    BY <1>2, <2>2, Counts DEF RingInv, BufferInv
  <2> QED
    BY <2>1, <2>2
<1>10. BufferInv'
  BY <1>9 DEF BufferInv
<1>11. Fifo'
  BY <1>2, Counts DEF RingInv, Fifo
<1> QED
  BY <1>5, <1>6, <1>7, <1>8, <1>10, <1>11 DEF RingInv

(* The call reads the head it owns. *)
LEMMA CallPopStep ==
  ASSUME RingInv, CallPop
  PROVE  RingInv'
<1> USE DEF RingInv, CallPop, producerVars
<1>1. (Writing' <=> Writing) /\ ~Reading' /\ Published' = Published
  BY DEF Writing, Reading, Published
<1>2. RingTypeOK'
  BY DEF RingTypeOK
<1>3. CursorInv' /\ ProducerInv' /\ ConsumerInv'
  BY <1>1 DEF CursorInv, ProducerInv, ConsumerInv
<1>4. BufferInv' /\ Fifo'
  BY <1>1 DEF BufferInv, Fifo
<1> QED
  BY <1>2, <1>3, <1>4

(* A call that finds nothing changes nothing. *)
LEMMA ReturnEmptyStep ==
  ASSUME RingInv, ReturnEmpty
  PROVE  RingInv'
<1> USE DEF RingInv, ReturnEmpty, producerVars
<1>1. (Writing' <=> Writing) /\ ~Reading' /\ Published' = Published
  BY DEF Writing, Reading, Published
<1>2. RingTypeOK'
  BY DEF RingTypeOK
<1>3. CursorInv' /\ ProducerInv' /\ ConsumerInv'
  BY <1>1 DEF CursorInv, ProducerInv, ConsumerInv
<1>4. BufferInv' /\ Fifo'
  BY <1>1 DEF BufferInv, Fifo
<1> QED
  BY <1>2, <1>3, <1>4

(* Where a message is found one is published. *)
LEMMA FindMessageStep ==
  ASSUME RingInv, FindMessage
  PROVE  RingInv' /\ Len(received) < Published
<1> USE DEF FindMessage, producerVars
<1>1. (Writing' <=> Writing) /\ Published' = Published
  BY DEF Writing, Published
<1>2. Len(received) < Published
  BY EmptyAtTail, Counts
<1> USE DEF RingInv
<1>3. RingTypeOK'
  BY DEF RingTypeOK
<1>4. CursorInv' /\ ProducerInv'
  BY <1>1 DEF CursorInv, ProducerInv
<1>5. ConsumerInv'
  BY <1>1, <1>2 DEF ConsumerInv
<1>6. BufferInv' /\ Fifo'
  BY <1>1 DEF BufferInv, Fifo
<1> QED
  BY <1>2, <1>3, <1>4, <1>5, <1>6

(* The copy out is the oldest message. *)
LEMMA ReadDataStep ==
  ASSUME RingInv, ReadData
  PROVE  RingInv'
<1> USE DEF ReadData, producerVars
<1>1. (Writing' <=> Writing) /\ Reading /\ Reading' /\ Published' = Published
  BY DEF Writing, Reading, Published
<1>2. Len(received) < Published /\ curHead = SlotOf(Len(received))
  BY <1>1 DEF RingInv, CursorInv, ConsumerInv
<1>3. buffer[curHead] = sent[Len(received) + 1]
  BY <1>2, Counts DEF RingInv, BufferInv
<1> USE DEF RingInv
<1>4. RingTypeOK'
  BY DEF RingTypeOK
<1>5. CursorInv' /\ ProducerInv'
  BY <1>1 DEF CursorInv, ProducerInv
<1>6. ConsumerInv'
  BY <1>1, <1>2, <1>3 DEF ConsumerInv
<1>7. BufferInv' /\ Fifo'
  BY <1>1 DEF BufferInv, Fifo
<1> QED
  BY <1>4, <1>5, <1>6, <1>7

(* The new head takes exactly that message out of the ring. *)
LEMMA FreeSlotStep ==
  ASSUME RingInv, FreeSlot
  PROVE  RingInv'
<1> USE DEF FreeSlot, producerVars
<1>1. (Writing' <=> Writing) /\ Reading /\ ~Reading' /\ Published' = Published
  BY DEF Writing, Reading, Published
<1>2. /\ Len(received) < Published
      /\ out = sent[Len(received) + 1]
      /\ curHead = SlotOf(Len(received))
  BY <1>1 DEF RingInv, CursorInv, ConsumerInv
<1>3. RingTypeOK
  BY DEF RingInv
<1>4. /\ received' \in Seq(Values)
      /\ Len(received') = Len(received) + 1
      /\ received'[Len(received')] = out
      /\ \A k \in 1 .. Len(received) : received'[k] = received[k]
  BY <1>3 DEF RingTypeOK
<1>5. head' = SlotOf(Len(received'))
  BY <1>2, <1>4, Counts, NextSlotOf
<1>6. RingTypeOK'
  BY <1>3, <1>4, <1>5, Counts, SlotOfType DEF RingTypeOK
<1>7. CursorInv'
  BY <1>1, <1>2, <1>4, <1>5, Counts, SizeType DEF RingInv, CursorInv
<1>8. ProducerInv'
  BY <1>1 DEF RingInv, ProducerInv
<1>9. ConsumerInv'
  BY <1>1 DEF ConsumerInv
<1>10. BufferInv'
  BY <1>1, <1>4, Counts DEF RingInv, BufferInv
<1>11. Fifo'
  <2>1. ASSUME NEW k \in 1 .. Len(received')
        PROVE  received'[k] = sent[k]
    <3>1. CASE k = Len(received')
      BY <1>2, <1>4, <3>1, Counts
    <3>2. CASE k # Len(received')
      BY <1>4, <3>2, Counts DEF RingInv, Fifo
    <3> QED
      BY <3>1, <3>2
  <2> QED
    BY <1>1, <1>2, <1>4, <2>1, Counts DEF Fifo
<1> QED
  BY <1>6, <1>7, <1>8, <1>9, <1>10, <1>11 DEF RingInv

(* Every step preserves the invariant. *)
LEMMA NextRingInv == RingInv /\ [Next]_vars => RingInv'
<1> SUFFICES ASSUME RingInv, [Next]_vars PROVE RingInv'
  OBVIOUS
<1>1. ASSUME NEW v \in Values, CallPush(v) PROVE RingInv'
  BY <1>1, CallPushStep
<1>2. CASE Push
  BY <1>2, ReturnFullStep, FindRoomStep, WriteDataStep, PublishTailStep DEF Push
<1>3. CASE Pop
  BY <1>3, CallPopStep, ReturnEmptyStep, FindMessageStep, ReadDataStep, FreeSlotStep DEF Pop
<1>4. CASE UNCHANGED vars
  <2>1. UNCHANGED <<buffer, head, tail, ppc, item, curTail, cpc, out, curHead, sent, received>>
    BY <1>4 DEF vars, producerVars, consumerVars
  <2>2. Published' = Published /\ (Writing' <=> Writing) /\ (Reading' <=> Reading)
    BY <2>1 DEF Published, Writing, Reading
  <2>3. RingTypeOK'
    BY <2>1 DEF RingInv, RingTypeOK
  <2>4. CursorInv' /\ ProducerInv' /\ ConsumerInv'
    BY <2>1, <2>2 DEF RingInv, CursorInv, ProducerInv, ConsumerInv
  <2>5. BufferInv' /\ Fifo'
    BY <2>1, <2>2 DEF RingInv, BufferInv, Fifo
  <2> QED
    BY <2>3, <2>4, <2>5 DEF RingInv
<1> QED
  BY <1>1, <1>2, <1>3, <1>4 DEF Next

(* The inductive invariant holds in every reachable state. *)
THEOREM RingInvariance == Spec => []RingInv
<1> QED
  BY InitRingInv, NextRingInv, PTL DEF Spec

(* Every variable keeps its type. *)
THEOREM RingTypeCorrect == Spec => []RingTypeOK
<1>1. RingInv => RingTypeOK
  BY DEF RingInv
<1> QED
  BY <1>1, RingInvariance, PTL

(* What pop() returned is a prefix of what push() accepted: no message is  *)
(* lost, repeated, overtaken or torn.                                      *)
THEOREM PrefixDelivered == Spec => []Fifo
<1>1. RingInv => Fifo
  BY DEF RingInv
<1> QED
  BY <1>1, RingInvariance, PTL

(* The two threads never work on the same slot. *)
THEOREM SlotsExclusive == Spec => []NoRaceOnSlots
<1>1. RingInv => NoRaceOnSlots
  <2> SUFFICES ASSUME RingInv, Writing, Reading PROVE curTail # curHead
    BY DEF NoRaceOnSlots
  <2>1. /\ curTail = SlotOf(Published) /\ curHead = SlotOf(Len(received))
        /\ Len(received) < Published
    BY DEF RingInv, CursorInv, ProducerInv, ConsumerInv, Writing, Reading
  <2> QED
    BY <2>1, Counts, SizeType, SlotsApart
<1> QED
  BY <1>1, RingInvariance, PTL

(* push() and pop() refuse only a full and an empty ring. *)
THEOREM HonestRefusals == Spec => RefusalsAreReal
<1> DEFINE Honest ==
      /\ ppc = "check" /\ ppc' = "idle" => Len(sent) - Len(received) = Size - 1
      /\ cpc = "check" /\ cpc' = "idle" => Len(received) = Published
<1>1. RingInv /\ [Next]_vars => [Honest]_vars
  <2> SUFFICES ASSUME RingInv, Next PROVE Honest
    OBVIOUS
  <2>1. ASSUME ppc = "check", ppc' = "idle"
        PROVE  Len(sent) - Len(received) = Size - 1
    <3>1. ReturnFull
      BY <2>1 DEF Next, CallPush, Push, Pop, ReturnFull, FindRoom, WriteData, PublishTail,
         CallPop, ReturnEmpty, FindMessage, ReadData, FreeSlot, producerVars
    <3> QED
      BY <2>1, <3>1, FullAtHead, Counts, SizeType DEF ReturnFull
  <2>2. ASSUME cpc = "check", cpc' = "idle"
        PROVE  Len(received) = Published
    <3>1. ReturnEmpty
      BY <2>2 DEF Next, CallPush, Push, Pop, ReturnFull, FindRoom, WriteData, PublishTail,
         CallPop, ReturnEmpty, FindMessage, ReadData, FreeSlot, consumerVars
    <3> QED
      BY <2>2, <3>1, EmptyAtTail DEF ReturnEmpty
  <2> QED
    BY <2>1, <2>2
<1> QED
  BY <1>1, RingInvariance, PTL DEF Spec, RefusalsAreReal

----------------------------------------------------------------------------
(* The refinement of TicketQueue.                                          *)

(* The tickets, spelled out: one for each message sent. *)
LEMMA TicketsAre ==
  ASSUME RingInv
  PROVE  /\ Tickets \in Seq([val : Values, stage : TQ!Stages])
         /\ DOMAIN Tickets = 1 .. Len(sent)
         /\ Len(Tickets) = Len(sent)
         /\ \A i \in 1 .. Len(sent) :
              Tickets[i].val = sent[i] /\ Tickets[i].stage = Stage(i)
<1>1. sent \in Seq(Values) /\ Len(sent) \in Nat
  BY DEF RingInv, RingTypeOK
<1>2. \A i \in 1 .. Len(sent) : sent[i] \in Values /\ Stage(i) \in TQ!Stages
  BY <1>1 DEF Stage, TQ!Stages
<1> QED
  BY <1>1, <1>2 DEF Tickets

(* A step that keeps the messages and their stages is a stutter. *)
LEMMA SameTickets ==
  ASSUME sent' = sent, \A i \in 1 .. Len(sent) : Stage(i)' = Stage(i)
  PROVE  Tickets' = Tickets
BY DEF Tickets

(* A step that moves one message on moves one ticket on. *)
LEMMA OneTicketMoves ==
  ASSUME RingInv, sent' = sent,
         NEW n \in 1 .. Len(sent), NEW stage \in TQ!Stages,
         Stage(n)' = stage,
         \A i \in 1 .. Len(sent) : i # n => Stage(i)' = Stage(i)
  PROVE  Tickets' = [Tickets EXCEPT ![n].stage = stage]
BY TicketsAre DEF Tickets

(* No message, no ticket. *)
LEMMA InitTickets == Init => TQ!TInit
BY DEF Init, TQ!TInit, Tickets

(* Finding room claims the next ticket. *)
LEMMA ClaimTicket ==
  ASSUME RingInv, FindRoom
  PROVE  TQ!Claim(item)
<1>1. /\ ~Writing /\ Writing' /\ (Reading' <=> Reading)
      /\ received' = received
      /\ sent' = Append(sent, item)
  BY DEF FindRoom, Writing, Reading, consumerVars
<1>2. sent \in Seq(Values) /\ Len(sent) \in Nat
  BY DEF RingInv, RingTypeOK
<1>3. /\ Len(sent') = Len(sent) + 1
      /\ sent'[Len(sent) + 1] = item
      /\ \A i \in 1 .. Len(sent) : sent'[i] = sent[i]
  BY <1>1, <1>2
<1>4. Published = Len(sent) /\ Published' = Len(sent)
  BY <1>1, <1>3, Counts DEF Published
<1>5. Len(received) <= Len(sent) /\ Len(sent) + 1 < Len(received) + Size
  BY <1>4, FullAtHead, Counts, SizeType DEF FindRoom
<1>6. \A i \in 1 .. Len(sent) : Stage(i)' = Stage(i)
  BY <1>1, <1>4 DEF Stage
<1> PICK n \in Nat : n = Len(sent) + 1
  BY <1>2
<1>7. Stage(n)' = "claimed"
  <2>1. Reading => Len(received) < Len(sent)
    BY <1>4 DEF RingInv, ConsumerInv
  <2> QED
    BY <1>1, <1>4, <1>5, <2>1, Counts DEF Stage
<1>8. Tickets' = Append(Tickets, [val |-> item, stage |-> "claimed"])
  <2> DEFINE new == [val |-> item, stage |-> "claimed"]
  <2>1. Tickets' = [i \in 1 .. n |-> [val |-> sent'[i], stage |-> Stage(i)']]
    BY <1>3 DEF Tickets
  <2>2. \A i \in 1 .. Len(sent) :
          [val |-> sent'[i], stage |-> Stage(i)'] = Tickets[i]
    BY <1>3, <1>6 DEF Tickets
  <2>3. [val |-> sent'[n], stage |-> Stage(n)'] = new
    BY <1>3, <1>7
  <2> DEFINE T == [val : Values, stage : TQ!Stages]
  <2>4. new \in T
    BY DEF RingInv, RingTypeOK, TQ!Stages
  <2>5. Tickets \in Seq(T) /\ Len(Tickets) + 1 = n
    BY <1>2, TicketsAre
  <2> HIDE DEF new, T
  <2>6. \A i \in 1 .. n : i # n => i \in 1 .. Len(sent) /\ Tickets[i] \in T
    BY <1>2, <2>5
  <2>7. Tickets' \in Seq(T) /\ Len(Tickets') = n
    BY <1>2, <2>1, <2>2, <2>3, <2>4, <2>6
  <2>8. /\ Append(Tickets, new) \in Seq(T) /\ Len(Append(Tickets, new)) = n
        /\ \A i \in 1 .. n :
              Append(Tickets, new)[i] = IF i = n THEN new ELSE Tickets[i]
    BY <2>4, <2>5, AppendProperties
  <2>9. \A i \in 1 .. n : Tickets'[i] = IF i = n THEN new ELSE Tickets[i]
    BY <2>1, <2>2, <2>3, <2>6
  <2>10. Tickets' = Append(Tickets, new)
    BY <2>7, <2>8, <2>9, SeqEqual
  <2> QED
    BY <2>10 DEF new
<1>9. ~TQ!Full
  <2> SUFFICES ASSUME Len(Tickets) >= Size - 1
               PROVE  Tickets[Len(Tickets) - (Size - 1) + 1].stage = "freed"
    BY DEF TQ!Full
  <2> DEFINE i == Len(sent) - (Size - 1) + 1
  <2>1. i \in 1 .. Len(sent) /\ i <= Len(received)
    BY <1>5, TicketsAre, Counts, SizeType
  <2>2. Stage(i) = "freed"
    BY <2>1 DEF Stage
  <2> QED
    BY <2>1, <2>2, TicketsAre
<1> QED
  BY <1>8, <1>9 DEF TQ!Claim

(* The store to tail_ publishes the ticket claimed last. *)
LEMMA PublishTicket ==
  ASSUME RingInv, PublishTail
  PROVE  TQ!Publish(Len(sent)) /\ Len(sent) \in DOMAIN Tickets
<1>1. /\ Writing /\ ~Writing' /\ (Reading' <=> Reading)
      /\ sent' = sent /\ received' = received
  BY DEF PublishTail, Writing, Reading, consumerVars
<1>2. Published = Len(sent) - 1 /\ Published' = Len(sent)
  BY <1>1 DEF Published
<1>3. Len(sent) \in 1 .. Len(sent) /\ Len(received) < Len(sent)
  BY <1>2, Counts
<1>4. Reading => Len(received) + 1 # Len(sent)
  BY <1>2, Counts DEF RingInv, ConsumerInv
<1>5. Stage(Len(sent)) = "claimed" /\ Stage(Len(sent))' = "ready"
  BY <1>1, <1>2, <1>3, <1>4, Counts DEF Stage
<1>6. \A i \in 1 .. Len(sent) : i # Len(sent) => Stage(i)' = Stage(i)
  BY <1>1, <1>2, <1>3, Counts DEF Stage
<1>7. Tickets' = [Tickets EXCEPT ![Len(sent)].stage = "ready"]
  BY <1>1, <1>3, <1>5, <1>6, OneTicketMoves DEF TQ!Stages
<1> QED
  BY <1>3, <1>5, <1>7, TicketsAre DEF TQ!Publish

(* Finding a message takes the ticket at the head. *)
LEMMA TakeTicket ==
  ASSUME RingInv, FindMessage
  PROVE  TQ!Take(Len(received) + 1) /\ Len(received) + 1 \in DOMAIN Tickets
<1> DEFINE n == Len(received) + 1
<1>1. /\ ~Reading /\ Reading' /\ (Writing' <=> Writing)
      /\ sent' = sent /\ received' = received
  BY DEF FindMessage, Writing, Reading, producerVars
<1>2. Published' = Published
  BY <1>1 DEF Published
<1>3. n \in 1 .. Len(sent) /\ n <= Published /\ ~(n <= Len(received))
  BY FindMessageStep, Counts
<1>4. Stage(n) = "ready" /\ Stage(n)' = "taken"
  BY <1>1, <1>3 DEF Stage
<1>5. \A i \in 1 .. Len(sent) : i # n => Stage(i)' = Stage(i)
  BY <1>1, <1>2 DEF Stage
<1>6. Tickets' = [Tickets EXCEPT ![n].stage = "taken"]
  BY <1>1, <1>3, <1>4, <1>5, OneTicketMoves DEF TQ!Stages
<1>7. TQ!IsHead(n)
  <2>1. \A i \in 1 .. (n - 1) : i \in 1 .. Len(sent) /\ Stage(i) = "freed"
    BY <1>3, Counts DEF Stage
  <2> QED
    BY <1>3, <1>4, <2>1, TicketsAre DEF TQ!IsHead, TQ!Out
<1> QED
  BY <1>3, <1>4, <1>6, <1>7, TicketsAre DEF TQ!Take

(* The store to head_ frees the ticket taken. *)
LEMMA FreeTicket ==
  ASSUME RingInv, FreeSlot
  PROVE  TQ!Free(Len(received) + 1) /\ Len(received) + 1 \in DOMAIN Tickets
<1> PICK n \in Nat : n = Len(received) + 1
  BY DEF RingInv, RingTypeOK
<1>1. /\ Reading /\ ~Reading' /\ (Writing' <=> Writing)
      /\ sent' = sent /\ received' = Append(received, out)
  BY DEF FreeSlot, Writing, Reading, producerVars
<1>2. Published' = Published
  BY <1>1 DEF Published
<1>3. Len(received') = Len(received) + 1
  BY <1>1 DEF RingInv, RingTypeOK
<1>4. n \in 1 .. Len(sent) /\ n <= Published /\ ~(n <= Len(received))
  BY <1>1, Counts DEF RingInv, ConsumerInv
<1>5. Stage(n) = "taken" /\ Stage(n)' = "freed"
  BY <1>1, <1>3, <1>4, Counts DEF Stage
<1>6. \A i \in 1 .. Len(sent) : i # n => Stage(i)' = Stage(i)
  BY <1>1, <1>2, <1>3, Counts DEF Stage
<1>7. Tickets' = [Tickets EXCEPT ![n].stage = "freed"]
  BY <1>1, <1>4, <1>5, <1>6, OneTicketMoves DEF TQ!Stages
<1> QED
  BY <1>4, <1>5, <1>7, TicketsAre DEF TQ!Free

(* Every step of the ring is a step of the tickets, or none. *)
LEMMA StepRefines == RingInv /\ [Next]_vars => [TQ!TNext]_Tickets
<1> SUFFICES ASSUME RingInv, [Next]_vars PROVE TQ!TNext \/ Tickets' = Tickets
  OBVIOUS
<1>1. ASSUME sent' = sent, received' = received,
             (Writing' <=> Writing), (Reading' <=> Reading)
      PROVE  Tickets' = Tickets
  <2>1. Published' = Published
    BY <1>1 DEF Published
  <2> QED
    BY <1>1, <2>1, SameTickets DEF Stage
<1>2. ASSUME NEW v \in Values, CallPush(v) PROVE Tickets' = Tickets
  BY <1>1, <1>2 DEF CallPush, Writing, Reading, consumerVars
<1>3. CASE Push
  <2>1. CASE ReturnFull
    BY <1>1, <2>1 DEF ReturnFull, Writing, Reading, consumerVars
  <2>2. CASE FindRoom
    <3>1. item \in Values
      BY DEF RingInv, RingTypeOK
    <3> QED
      BY <2>2, <3>1, ClaimTicket DEF TQ!TNext
  <2>3. CASE WriteData
    BY <1>1, <2>3 DEF WriteData, Writing, Reading, consumerVars
  <2>4. CASE PublishTail
    BY <2>4, PublishTicket DEF TQ!TNext, TQ!Tickets
  <2> QED
    BY <1>3, <2>1, <2>2, <2>3, <2>4 DEF Push
<1>4. CASE Pop
  <2>1. CASE CallPop \/ ReturnEmpty \/ ReadData
    BY <1>1, <2>1 DEF CallPop, ReturnEmpty, ReadData, Writing, Reading, producerVars
  <2>2. CASE FindMessage
    BY <2>2, TakeTicket DEF TQ!TNext, TQ!Tickets
  <2>3. CASE FreeSlot
    BY <2>3, FreeTicket DEF TQ!TNext, TQ!Tickets
  <2> QED
    BY <1>4, <2>1, <2>2, <2>3 DEF Pop
<1>5. CASE UNCHANGED vars
  BY <1>1, <1>5 DEF vars, producerVars, consumerVars, Writing, Reading
<1> QED
  BY <1>2, <1>3, <1>4, <1>5 DEF Next

(* The ring keeps the promise of TicketQueue: it hands messages out in the *)
(* order of their tickets, and holds at most Size - 1 of them.             *)
THEOREM Refinement == Spec => ImplementsTicketQueue
<1> QED
  BY InitTickets, StepRefines, RingInvariance, PTL
     DEF Spec, ImplementsTicketQueue, TQ!TSpec
=============================================================================
