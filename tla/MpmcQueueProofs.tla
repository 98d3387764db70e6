-------------------------- MODULE MpmcQueueProofs --------------------------
(***************************************************************************)
(* Theorems about MpmcQueue, for every set of threads, every set of        *)
(* messages and every capacity of at least two slots.                      *)
(***************************************************************************)
EXTENDS MpmcQueue, SequenceTheorems, TLAPS

----------------------------------------------------------------------------
(* The facts about pos & mask_ that the proofs need.                       *)

(* There is at least one slot. *)
LEMMA CapacityType == Capacity \in Nat /\ Capacity >= 1
BY CapacityAssumption

(* Quotient and remainder are unique. *)
LEMMA DivisionUnique ==
  ASSUME NEW c \in Nat, c >= 1,
         NEW a \in Int, NEW b \in Int,
         NEW r \in 0 .. (c - 1), NEW s \in 0 .. (c - 1),
         c * a + r = c * b + s
  PROVE  r = s
<1> DEFINE k == a - b
<1>1. k \in Int /\ c * k = s - r
  OBVIOUS
<1> HIDE DEF k
<1>2. CASE k <= -1
  BY <1>1, <1>2
<1>3. CASE k >= 1
  BY <1>1, <1>3
<1>4. CASE k = 0
  BY <1>1, <1>4
<1> QED
  BY <1>1, <1>2, <1>3, <1>4

(* Slot gives a slot. *)
LEMMA SlotType ==
  ASSUME NEW n \in Nat
  PROVE  Slot(n) \in Slots
BY CapacityType DEF Slot, Slots

(* A position is its lap times Capacity, plus its slot. *)
LEMMA SlotDivision ==
  ASSUME NEW n \in Nat
  PROVE  /\ (n \div Capacity) \in Int
         /\ n = Capacity * (n \div Capacity) + Slot(n)
BY CapacityType DEF Slot

(* The first positions are the slots themselves. *)
LEMMA SlotFirstLap ==
  ASSUME NEW n \in Slots
  PROVE  Slot(n) = n
BY CapacityType DEF Slot, Slots

(* A lap later the slot is the same. *)
LEMMA SlotNextLap ==
  ASSUME NEW n \in Nat
  PROVE  Slot(n + Capacity) = Slot(n)
<1> DEFINE a == (n + Capacity) \div Capacity
           b == n \div Capacity
<1>1. n + Capacity \in Nat
  BY CapacityType
<1>2. a \in Int /\ n + Capacity = Capacity * a + Slot(n + Capacity)
  BY <1>1, SlotDivision
<1>3. b \in Int /\ n = Capacity * b + Slot(n)
  BY SlotDivision
<1>4. Slot(n) \in 0 .. (Capacity - 1) /\ Slot(n + Capacity) \in 0 .. (Capacity - 1)
  BY <1>1, SlotType DEF Slots
<1> HIDE DEF a, b
<1>5. Capacity * (b + 1) = Capacity * b + Capacity
  BY <1>3, CapacityType
<1>6. Capacity * a + Slot(n + Capacity) = Capacity * (b + 1) + Slot(n)
  BY <1>2, <1>3, <1>4, <1>5, CapacityType
<1>7. b + 1 \in Int
  BY <1>3
<1> QED
  BY <1>2, <1>4, <1>6, <1>7, CapacityType, DivisionUnique

(* Two positions share a slot only if they are at least a lap apart. *)
LEMMA SlotInjective ==
  ASSUME NEW m \in Nat, NEW n \in Nat, m < n, n < m + Capacity
  PROVE  Slot(m) # Slot(n)
<1> DEFINE a == m \div Capacity
           b == n \div Capacity
           k == b - a
<1> SUFFICES ASSUME Slot(m) = Slot(n) PROVE FALSE
  OBVIOUS
<1>1. a \in Int /\ m = Capacity * a + Slot(m)
  BY SlotDivision
<1>2. b \in Int /\ n = Capacity * b + Slot(n)
  BY SlotDivision
<1>3. Slot(m) \in Int /\ Slot(n) \in Int
  BY SlotType, CapacityType DEF Slots
<1> HIDE DEF a, b
<1>4. k \in Int /\ n - m = Capacity * k
  BY <1>1, <1>2, <1>3, CapacityType
<1> HIDE DEF k
<1>5. CASE k <= 0
  BY <1>4, <1>5, CapacityType
<1>6. CASE k >= 1
  BY <1>4, <1>6, CapacityType
<1> QED
  BY <1>4, <1>5, <1>6

COROLLARY SlotsApart ==
  ASSUME NEW m \in Nat, NEW n \in Nat, m # n, n < m + Capacity, m < n + Capacity
  PROVE  Slot(m) # Slot(n)
BY SlotInjective, CapacityType

----------------------------------------------------------------------------
(* Init.                                                                   *)

(* The empty ring satisfies the invariant. *)
LEMMA InitIInv == Init => IInv
<1> SUFFICES ASSUME Init PROVE IInv
  OBVIOUS
<1> USE CapacityType DEF Init
<1>1. TypeOK
  BY DEF TypeOK, Slots
<1>2. ThreadKindInv /\ Writers = {} /\ Readers = {}
  BY DEF ThreadKindInv, ProducerPcs, ConsumerPcs, Writers, Readers, Threads
<1>3. CursorsInv
  BY DEF CursorsInv
<1>4. ClaimedInv
  BY DEF ClaimedInv, Claimed
<1>5. OpenInv
  BY SlotFirstLap DEF OpenInv, Open, Slots
<1>6. WriterInv /\ ReaderInv
  BY <1>2 DEF WriterInv, ReaderInv
<1>7. ProducerAheadInv /\ ConsumerAheadInv
  BY DEF ProducerAheadInv, ConsumerAheadInv, ProducerAhead, ConsumerAhead, Threads
<1> QED
  BY <1>1, <1>2, <1>3, <1>4, <1>5, <1>6, <1>7 DEF IInv

----------------------------------------------------------------------------
(* The steps that touch nothing but the locals of one thread, which owns   *)
(* no slot before or after: only what the thread itself relies on can be   *)
(* disturbed.                                                              *)

Owning == {"write", "publish", "read", "free"}

(* A step of one thread that touches neither cursors nor cells. *)
LEMMA QuietStep ==
  ASSUME IInv, NEW t \in Threads,
         UNCHANGED <<head, tail, seq, data, put>>,
         pc' = [pc EXCEPT ![t] = pc'[t]],
         pos' = [pos EXCEPT ![t] = pos'[t]],
         item' = [item EXCEPT ![t] = item'[t]],
         pc[t] \notin Owning, pc'[t] \notin Owning,
         pos'[t] \in Nat, item'[t] \in Values \cup {NoValue},
         t \in Producers => pc'[t] \in ProducerPcs /\ ProducerAhead(t)',
         t \in Consumers => pc'[t] \in ConsumerPcs /\ ConsumerAhead(t)'
  PROVE  IInv'
<1> USE DEF IInv
<1>1. TypeOK'
  BY DEF TypeOK, Threads, ProducerPcs, ConsumerPcs
<1>2. ThreadKindInv'
  BY DEF ThreadKindInv, TypeOK, Threads
<1>3. /\ Writers' = Writers /\ Readers' = Readers
      /\ \A u \in Writers \cup Readers :
           u # t /\ pc'[u] = pc[u] /\ pos'[u] = pos[u] /\ item'[u] = item[u]
  BY DEF Writers, Readers, Owning, TypeOK, Threads
<1>4. CursorsInv'
  BY DEF CursorsInv
<1>5. ClaimedInv'
  BY <1>3 DEF ClaimedInv, Claimed
<1>6. OpenInv'
  BY <1>3 DEF OpenInv, Open
<1>7. WriterInv'
  BY <1>3 DEF WriterInv, Claimed
<1>8. ReaderInv'
  BY <1>3 DEF ReaderInv
<1>9. ProducerAheadInv'
  BY DEF ProducerAheadInv, ProducerAhead, TypeOK, Threads
<1>10. ConsumerAheadInv'
  BY DEF ConsumerAheadInv, ConsumerAhead, TypeOK, Threads
<1> QED
  BY <1>1, <1>2, <1>4, <1>5, <1>6, <1>7, <1>8, <1>9, <1>10

(* Such a step of a producer, outside its copy. *)
LEMMA QuietProducerStep ==
  ASSUME IInv, NEW p \in Producers,
         \/ \E v \in Values : CallProduce(p, v)
         \/ LoadTail(p) \/ SlotIsFree(p) \/ ReturnFull(p)
         \/ TailMovedOn(p) \/ CasTailFails(p)
  PROVE  IInv'
<1> USE DEF IInv, Goto, Return
<1>0. p \in Threads /\ p \notin Consumers
  BY ThreadAssumption DEF Threads
<1>1. CASE \E v \in Values : CallProduce(p, v)
  <2>1. PICK v \in Values : CallProduce(p, v)
    BY <1>1
  <2> QED
    BY <1>0, <2>1, QuietStep
    DEF CallProduce, Owning, ProducerPcs, ProducerAhead, TypeOK
<1>2. CASE LoadTail(p)
  <2>1. /\ pos'[p] = tail /\ pc'[p] = "diffFree" /\ item'[p] = item[p]
        /\ tail \in Nat /\ tail' = tail
    BY <1>0, <1>2 DEF LoadTail, TypeOK
  <2>2. item[p] \in Values
    BY <1>2 DEF LoadTail, ProducerAheadInv, ProducerAhead
  <2>3. ProducerAhead(p)'
    BY <2>1, <2>2 DEF ProducerAhead
  <2> QED
    BY <1>0, <1>2, <2>1, <2>2, <2>3, QuietStep DEF LoadTail, Owning, ProducerPcs, TypeOK
<1>3. CASE SlotIsFree(p)
  <2>1. pos[p] \in Nat /\ seq[Slot(pos[p])] \in Nat /\ ProducerAhead(p)
    BY <1>0, SlotType DEF TypeOK, ProducerAheadInv
  <2>2. seq[Slot(pos[p])] = pos[p]
    BY <1>3, <2>1 DEF SlotIsFree, DiffFree
  <2> QED
    BY <1>0, <1>3, <2>1, <2>2, QuietStep
    DEF SlotIsFree, Owning, ProducerPcs, ProducerAhead, TypeOK
<1>4. CASE ReturnFull(p)
  BY <1>0, <1>4, QuietStep
  DEF ReturnFull, Owning, ProducerPcs, ProducerAhead, TypeOK
<1>5. CASE TailMovedOn(p)
  BY <1>0, <1>5, QuietStep
  DEF TailMovedOn, Owning, ProducerPcs, ProducerAhead, ProducerAheadInv, TypeOK
<1>6. CASE CasTailFails(p)
  BY <1>0, <1>6, QuietStep
  DEF CasTailFails, Owning, ProducerPcs, ProducerAhead, ProducerAheadInv, TypeOK
<1> QED
  BY <1>1, <1>2, <1>3, <1>4, <1>5, <1>6

(* Such a step of a consumer, outside its copy. *)
LEMMA QuietConsumerStep ==
  ASSUME IInv, NEW c \in Consumers,
         \/ CallConsume(c) \/ LoadHead(c) \/ SlotIsReady(c) \/ ReturnEmpty(c)
         \/ HeadMovedOn(c) \/ CasHeadFails(c)
  PROVE  IInv'
<1> USE DEF IInv, Goto, Return
<1>0. c \in Threads /\ c \notin Producers
  BY ThreadAssumption DEF Threads
<1>1. CASE CallConsume(c)
  BY <1>0, <1>1, QuietStep
  DEF CallConsume, Owning, ConsumerPcs, ConsumerAhead, TypeOK
<1>2. CASE LoadHead(c)
  <2>1. /\ pos'[c] = head /\ pc'[c] = "diffReady" /\ item'[c] = item[c]
        /\ head \in Nat /\ head' = head
    BY <1>0, <1>2 DEF LoadHead, TypeOK
  <2>2. ConsumerAhead(c)'
    BY <2>1 DEF ConsumerAhead
  <2> QED
    BY <1>0, <1>2, <2>1, <2>2, QuietStep DEF LoadHead, Owning, ConsumerPcs, TypeOK
<1>3. CASE SlotIsReady(c)
  <2>1. pos[c] \in Nat /\ seq[Slot(pos[c])] \in Nat /\ ConsumerAhead(c)
    BY <1>0, SlotType DEF TypeOK, ConsumerAheadInv
  <2>2. seq[Slot(pos[c])] = pos[c] + 1
    BY <1>3, <2>1 DEF SlotIsReady, DiffReady
  <2> QED
    BY <1>0, <1>3, <2>1, <2>2, QuietStep
    DEF SlotIsReady, Owning, ConsumerPcs, ConsumerAhead, TypeOK
<1>4. CASE ReturnEmpty(c)
  BY <1>0, <1>4, QuietStep
  DEF ReturnEmpty, Owning, ConsumerPcs, ConsumerAhead, TypeOK
<1>5. CASE HeadMovedOn(c)
  BY <1>0, <1>5, QuietStep
  DEF HeadMovedOn, Owning, ConsumerPcs, ConsumerAhead, TypeOK
<1>6. CASE CasHeadFails(c)
  BY <1>0, <1>6, QuietStep
  DEF CasHeadFails, Owning, ConsumerPcs, ConsumerAhead, TypeOK
<1> QED
  BY <1>1, <1>2, <1>3, <1>4, <1>5, <1>6

----------------------------------------------------------------------------
(* A successful CAS on tail_. *)
LEMMA ClaimTailStep ==
  ASSUME IInv, Capacity >= 2, NEW p \in Producers, ClaimTail(p)
  PROVE  IInv'
<1> USE CapacityType
<1>0. p \in Threads /\ p \notin Consumers /\ Producers \subseteq Threads
  BY ThreadAssumption DEF Threads
<1>1. /\ TypeOK /\ pos[p] = tail /\ seq[Slot(tail)] = tail
      /\ item[p] \in Values /\ pc[p] = "casTail"
  BY DEF IInv, ClaimTail, ProducerAheadInv, ProducerAhead
<1>2. /\ head \in Nat /\ tail \in Nat /\ head <= tail /\ tail <= head + Capacity
      /\ Len(put) = tail /\ put \in Seq(Values)
  BY <1>1 DEF IInv, CursorsInv, TypeOK
<1>3. /\ head' = head /\ tail' = tail + 1 /\ seq' = seq /\ data' = data
      /\ pos' = pos /\ item' = item /\ pc' = [pc EXCEPT ![p] = "write"]
      /\ put' = Append(put, item[p])
  BY DEF ClaimTail, Goto
<1>4. /\ Len(put') = tail + 1 /\ put' \in Seq(Values) /\ put'[tail + 1] = item[p]
      /\ \A i \in 1 .. tail : put'[i] = put[i]
  BY <1>1, <1>2, <1>3
<1>5. Writers' = Writers \cup {p} /\ Readers' = Readers /\ p \notin Writers
  BY <1>0, <1>1, <1>3 DEF Writers, Readers, TypeOK
(* The slot is free: its last message was claimed a lap ago and is gone. *)
<1>6. tail < head + Capacity
  <2> SUFFICES ASSUME tail = head + Capacity PROVE FALSE
    BY <1>2
  <2>1. head \in Claimed
    BY <1>2 DEF Claimed
  <2>2. seq[Slot(head)] = head \/ seq[Slot(head)] = head + 1
    BY <2>1 DEF IInv, ClaimedInv
  <2>3. Slot(tail) = Slot(head)
    BY <1>2, SlotNextLap
  <2> QED
    BY <1>1, <1>2, <2>2, <2>3
<1>7. TypeOK'
  <2>1. pc' \in [Threads -> ProducerPcs \cup ConsumerPcs]
    BY <1>1, <1>3 DEF TypeOK, ProducerPcs, ConsumerPcs
  <2> QED
    BY <1>1, <1>2, <1>3, <1>4, <2>1 DEF TypeOK
<1>8. ThreadKindInv'
  <2>1. pc'[p] = "write" /\ \A t \in Threads \ {p} : pc'[t] = pc[t]
    BY <1>0, <1>1, <1>3 DEF TypeOK
  <2> QED
    BY <1>0, <2>1 DEF IInv, ThreadKindInv, ProducerPcs, Threads
<1>9. CursorsInv'
  BY <1>2, <1>3, <1>4, <1>6 DEF CursorsInv
<1>10. ClaimedInv'
  <2> SUFFICES ASSUME NEW n \in Claimed'
               PROVE  \/ seq[Slot(n)] = n /\ \E q \in Writers' : pos[q] = n
                      \/ seq[Slot(n)] = n + 1 /\ data[Slot(n)] = put'[n + 1]
    BY <1>3 DEF ClaimedInv
  <2>1. CASE n = tail
    BY <1>1, <1>5, <2>1
  <2>2. CASE n # tail
    <3>1. n \in Claimed /\ n + 1 \in 1 .. tail
      BY <1>2, <1>3, <2>2 DEF Claimed
    <3> QED
      BY <1>4, <1>5, <3>1 DEF IInv, ClaimedInv
  <2> QED
    BY <2>1, <2>2
<1>11. OpenInv'
  BY <1>2, <1>3, <1>5 DEF IInv, OpenInv, Open
<1>12. WriterInv'
  <2> SUFFICES ASSUME NEW q \in Writers'
               PROVE  /\ pos[q] \in head .. tail
                      /\ seq[Slot(pos[q])] = pos[q]
                      /\ item[q] = put'[pos[q] + 1]
                      /\ pc'[q] = "publish" => data[Slot(pos[q])] = item[q]
                      /\ \A r \in Writers' : q # r => pos[q] # pos[r]
    BY <1>2, <1>3 DEF WriterInv, Claimed
  <2>1. \A r \in Writers : pos[r] \in head .. (tail - 1)
    BY DEF IInv, WriterInv, Claimed
  <2>2. CASE q = p
    <3>1. pc'[p] = "write" /\ pos[p] \in head .. tail
      BY <1>0, <1>1, <1>2, <1>3 DEF TypeOK
    <3>2. \A r \in Writers' : p # r => pos[p] # pos[r]
      BY <1>1, <1>2, <1>5, <2>1
    <3> QED
      BY <1>1, <1>4, <2>2, <3>1, <3>2
  <2>3. CASE q # p
    <3>1. q \in Writers /\ pc'[q] = pc[q] /\ pos[q] \in head .. (tail - 1)
      BY <1>0, <1>1, <1>3, <1>5, <2>1, <2>3 DEF TypeOK
    <3>2. pos[q] + 1 \in 1 .. tail
      BY <1>2, <3>1
    <3>3. /\ seq[Slot(pos[q])] = pos[q] /\ item[q] = put[pos[q] + 1]
          /\ pc[q] = "publish" => data[Slot(pos[q])] = item[q]
          /\ \A r \in Writers : q # r => pos[q] # pos[r]
      BY <3>1 DEF IInv, WriterInv
    <3> QED
      BY <1>1, <1>2, <1>4, <1>5, <3>1, <3>2, <3>3
  <2> QED
    BY <2>2, <2>3
<1>13. ReaderInv'
  <2> SUFFICES ASSUME NEW c \in Readers
               PROVE  /\ pos[c] < head /\ tail + 1 <= pos[c] + Capacity
                      /\ seq[Slot(pos[c])] = pos[c] + 1
                      /\ data[Slot(pos[c])] = put'[pos[c] + 1]
                      /\ pc[c] = "free" => item[c] = put'[pos[c] + 1]
                      /\ \A d \in Readers : c # d => pos[c] # pos[d]
    <3>1. \A c \in Readers : pc'[c] = pc[c]
      BY <1>0, <1>1, <1>3 DEF Readers, TypeOK, Threads
    <3> QED
      BY <1>3, <1>5, <3>1 DEF ReaderInv
  <2>1. /\ pos[c] < head /\ tail <= pos[c] + Capacity
        /\ seq[Slot(pos[c])] = pos[c] + 1
        /\ data[Slot(pos[c])] = put[pos[c] + 1]
        /\ pc[c] = "free" => item[c] = put[pos[c] + 1]
        /\ \A d \in Readers : c # d => pos[c] # pos[d]
    BY DEF IInv, ReaderInv
  <2>2. pos[c] \in Nat
    BY <1>1 DEF TypeOK, Readers, Threads
  <2>3. tail # pos[c] + Capacity
    <3>1. Slot(pos[c] + Capacity) = Slot(pos[c])
      BY <2>2, SlotNextLap
    <3> QED
      BY <1>1, <1>2, <2>1, <2>2, <3>1
  <2>4. pos[c] + 1 \in 1 .. tail
    BY <1>2, <2>1, <2>2
  <2> QED
    BY <1>2, <1>4, <2>1, <2>2, <2>3, <2>4
<1>14. ProducerAheadInv'
  <2> SUFFICES ASSUME NEW q \in Producers PROVE ProducerAhead(q)'
    BY DEF ProducerAheadInv
  <2>1. ProducerAhead(q) /\ pos[q] \in Nat
    BY <1>0, <1>1 DEF IInv, ProducerAheadInv, TypeOK
  <2>2. CASE q = p
    BY <1>0, <1>1, <1>3, <2>2 DEF ProducerAhead, TypeOK
  <2>3. CASE q # p
    <3>1. pc'[q] = pc[q]
      BY <1>0, <1>1, <1>3, <2>3 DEF TypeOK
    <3>2. pc[q] \in {"diffFree", "casTail"} =>
            pos[q] < tail + 1 /\ seq[Slot(pos[q])] >= pos[q]
      BY <1>1, <1>2, <2>1 DEF ProducerAhead
    <3> QED
      BY <1>2, <1>3, <2>1, <3>1, <3>2 DEF ProducerAhead
  <2> QED
    BY <2>2, <2>3
<1>15. ConsumerAheadInv'
  BY <1>0, <1>1, <1>3 DEF IInv, ConsumerAheadInv, ConsumerAhead, TypeOK
<1> QED
  BY <1>7, <1>8, <1>9, <1>10, <1>11, <1>12, <1>13, <1>14, <1>15 DEF IInv

(* c.data = v *)
LEMMA WriteDataStep ==
  ASSUME IInv, NEW p \in Producers, WriteData(p)
  PROVE  IInv'
<1> USE CapacityType
<1>0. p \in Threads /\ p \notin Consumers /\ Producers \subseteq Threads
  BY ThreadAssumption DEF Threads
<1>1. /\ TypeOK /\ CursorsInv /\ head \in Nat /\ tail \in Nat
      /\ p \in Writers /\ pc[p] = "write" /\ pos[p] \in head .. (tail - 1)
      /\ seq[Slot(pos[p])] = pos[p] /\ pos[p] \in Nat /\ Slot(pos[p]) \in Slots
      /\ \A q \in Writers : p # q => pos[p] # pos[q]
  BY <1>0, SlotType DEF IInv, WriteData, Writers, WriterInv, Claimed, TypeOK
<1>2. /\ head' = head /\ tail' = tail /\ seq' = seq /\ put' = put
      /\ pos' = pos /\ item' = item /\ pc'[p] = "publish"
      /\ \A t \in Threads \ {p} : pc'[t] = pc[t]
      /\ data'[Slot(pos[p])] = item[p]
      /\ \A i \in Slots \ {Slot(pos[p])} : data'[i] = data[i]
  BY <1>0, <1>1 DEF WriteData, Goto, TypeOK
<1>3. Writers' = Writers /\ Readers' = Readers
  BY <1>0, <1>1, <1>2 DEF Writers, Readers, Threads
<1>4. TypeOK'
  <2>1. pc' \in [Threads -> ProducerPcs \cup ConsumerPcs]
    BY <1>1 DEF WriteData, Goto, TypeOK, ProducerPcs, ConsumerPcs
  <2>2. data' \in [Slots -> Values \cup {NoValue}]
    BY <1>0, <1>1 DEF WriteData, TypeOK
  <2> QED
    BY <1>1, <1>2, <2>1, <2>2 DEF TypeOK
<1>5. ThreadKindInv'
  BY <1>0, <1>2 DEF IInv, ThreadKindInv, ProducerPcs, Threads
(* The other claimed positions live in other slots. *)
<1>6. \A n \in Nat : n # pos[p] /\ tail <= n + Capacity /\ n < tail =>
        data'[Slot(n)] = data[Slot(n)]
  <2> TAKE n \in Nat
  <2> HAVE n # pos[p] /\ tail <= n + Capacity /\ n < tail
  <2>1. n < pos[p] + Capacity /\ pos[p] < n + Capacity
    BY <1>1 DEF CursorsInv
  <2> QED
    BY <1>1, <1>2, <2>1, SlotsApart, SlotType
<1>7. CursorsInv'
  BY <1>1, <1>2 DEF CursorsInv
<1>8. ClaimedInv'
  <2> SUFFICES ASSUME NEW n \in Claimed
               PROVE  \/ seq[Slot(n)] = n /\ \E q \in Writers : pos[q] = n
                      \/ seq[Slot(n)] = n + 1 /\ data'[Slot(n)] = put[n + 1]
    BY <1>2, <1>3 DEF ClaimedInv, Claimed
  <2>1. n \in Nat /\ tail <= n + Capacity /\ n < tail
    BY <1>1 DEF Claimed, CursorsInv
  <2> QED
    BY <1>1, <1>6, <2>1 DEF IInv, ClaimedInv
<1>9. OpenInv'
  BY <1>2, <1>3 DEF IInv, OpenInv, Open
<1>10. WriterInv'
  <2> SUFFICES ASSUME NEW q \in Writers
               PROVE  pc'[q] = "publish" => data'[Slot(pos[q])] = item[q]
    BY <1>2, <1>3 DEF IInv, WriterInv, Claimed
  <2>1. CASE q = p
    BY <1>2, <2>1
  <2>2. CASE q # p
    <3>1. pos[q] \in Nat /\ tail <= pos[q] + Capacity /\ pos[q] < tail /\ pos[q] # pos[p]
      BY <1>1, <2>2 DEF IInv, WriterInv, Claimed, CursorsInv
    <3>2. pc'[q] = pc[q]
      BY <1>0, <1>2, <2>2 DEF Writers
    <3> QED
      BY <1>6, <3>1, <3>2 DEF IInv, WriterInv
  <2> QED
    BY <2>1, <2>2
<1>11. ReaderInv'
  <2> SUFFICES ASSUME NEW c \in Readers
               PROVE  /\ pc'[c] = pc[c]
                      /\ data'[Slot(pos[c])] = data[Slot(pos[c])]
    BY <1>2, <1>3 DEF IInv, ReaderInv
  <2>1. c \in Threads \ {p} /\ pos[c] \in Nat
    BY <1>0, <1>1 DEF Readers, Threads, TypeOK
  <2>2. tail <= pos[c] + Capacity /\ pos[c] < head
    BY DEF IInv, ReaderInv
  <2> QED
    BY <1>1, <1>2, <1>6, <2>1, <2>2
<1>12. ProducerAheadInv'
  BY <1>0, <1>2 DEF IInv, ProducerAheadInv, ProducerAhead
<1>13. ConsumerAheadInv'
  BY <1>0, <1>2 DEF IInv, ConsumerAheadInv, ConsumerAhead, Threads
<1> QED
  BY <1>4, <1>5, <1>7, <1>8, <1>9, <1>10, <1>11, <1>12, <1>13 DEF IInv

(* c.seq.store(pos + 1): the message is published. *)
LEMMA PublishSlotStep ==
  ASSUME IInv, NEW p \in Producers, PublishSlot(p)
  PROVE  IInv'
<1> USE CapacityType
<1>0. p \in Threads /\ p \notin Consumers /\ Producers \subseteq Threads
  BY ThreadAssumption DEF Threads
<1>1. /\ TypeOK /\ CursorsInv /\ head \in Nat /\ tail \in Nat
      /\ p \in Writers /\ pc[p] = "publish" /\ pos[p] \in head .. (tail - 1)
      /\ seq[Slot(pos[p])] = pos[p] /\ pos[p] \in Nat /\ Slot(pos[p]) \in Slots
      /\ data[Slot(pos[p])] = put[pos[p] + 1]
      /\ \A q \in Writers : p # q => pos[p] # pos[q]
  BY <1>0, SlotType DEF IInv, PublishSlot, Writers, WriterInv, Claimed, TypeOK
<1>2. /\ head' = head /\ tail' = tail /\ data' = data /\ put' = put
      /\ pc'[p] = "idle" /\ pos'[p] = 0 /\ item'[p] = NoValue
      /\ \A t \in Threads \ {p} : pc'[t] = pc[t] /\ pos'[t] = pos[t] /\ item'[t] = item[t]
      /\ seq'[Slot(pos[p])] = pos[p] + 1
      /\ \A i \in Slots \ {Slot(pos[p])} : seq'[i] = seq[i]
  BY <1>0, <1>1 DEF PublishSlot, Goto, Return, TypeOK
<1>3. /\ Writers' = Writers \ {p} /\ Readers' = Readers
      /\ Writers \subseteq Threads /\ Readers \subseteq Threads \ {p}
  BY <1>0, <1>1, <1>2 DEF Writers, Readers, Threads
<1>4. TypeOK'
  <2>1. pc' \in [Threads -> ProducerPcs \cup ConsumerPcs]
    BY <1>1 DEF PublishSlot, Return, Goto, TypeOK, ProducerPcs, ConsumerPcs
  <2>2. pos' \in [Threads -> Nat] /\ item' \in [Threads -> Values \cup {NoValue}]
    BY <1>1 DEF PublishSlot, Return, TypeOK
  <2>3. seq' \in [Slots -> Nat]
    BY <1>1 DEF PublishSlot, TypeOK
  <2> QED
    BY <1>1, <1>2, <2>1, <2>2, <2>3 DEF TypeOK
<1>5. ThreadKindInv'
  BY <1>0, <1>2 DEF IInv, ThreadKindInv, ProducerPcs, Threads
<1>6. \A n \in Nat : n # pos[p] /\ n < pos[p] + Capacity /\ pos[p] < n + Capacity =>
        seq'[Slot(n)] = seq[Slot(n)]
  BY <1>1, <1>2, SlotsApart, SlotType
<1>7. CursorsInv'
  BY <1>1, <1>2 DEF CursorsInv
<1>8. ClaimedInv'
  <2> SUFFICES ASSUME NEW n \in Claimed
               PROVE  \/ seq'[Slot(n)] = n /\ \E q \in Writers' : pos'[q] = n
                      \/ seq'[Slot(n)] = n + 1 /\ data[Slot(n)] = put[n + 1]
    BY <1>2 DEF ClaimedInv, Claimed
  <2>1. CASE n = pos[p]
    BY <1>1, <1>2, <2>1
  <2>2. CASE n # pos[p]
    <3>1. n \in Nat /\ n < pos[p] + Capacity /\ pos[p] < n + Capacity
      BY <1>1 DEF Claimed, CursorsInv
    <3>2. seq'[Slot(n)] = seq[Slot(n)]
      BY <1>6, <2>2, <3>1
    <3> QED
      BY <1>2, <1>3, <2>2, <3>2 DEF IInv, ClaimedInv
  <2> QED
    BY <2>1, <2>2
<1>9. OpenInv'
  <2> SUFFICES ASSUME NEW n \in Open
               PROVE  \/ seq'[Slot(n)] = n
                      \/ /\ seq'[Slot(n)] = n - Capacity + 1
                         /\ \E c \in Readers' : pos'[c] = n - Capacity
    BY <1>2 DEF OpenInv, Open
  <2>1. n \in Nat /\ n # pos[p] /\ n < pos[p] + Capacity /\ pos[p] < n + Capacity
    BY <1>1 DEF Open, CursorsInv
  <2>2. seq'[Slot(n)] = seq[Slot(n)]
    BY <1>6, <2>1
  <2> QED
    BY <1>2, <1>3, <2>2 DEF IInv, OpenInv
<1>10. WriterInv'
  <2> SUFFICES ASSUME NEW q \in Writers \ {p}
               PROVE  seq'[Slot(pos[q])] = seq[Slot(pos[q])]
    BY <1>2, <1>3 DEF IInv, WriterInv, Claimed
  <2>1. pos[q] \in head .. (tail - 1) /\ pos[q] # pos[p]
    BY <1>1 DEF IInv, WriterInv, Claimed
  <2> QED
    BY <1>1, <1>6, <2>1 DEF CursorsInv
<1>11. ReaderInv'
  <2> SUFFICES ASSUME NEW c \in Readers
               PROVE  seq'[Slot(pos[c])] = seq[Slot(pos[c])]
    BY <1>2, <1>3 DEF IInv, ReaderInv
  <2>1. pos[c] \in Nat /\ pos[c] < head /\ tail <= pos[c] + Capacity
    BY <1>1, <1>3 DEF IInv, ReaderInv, TypeOK
  <2> QED
    BY <1>1, <1>6, <2>1 DEF CursorsInv
(* The sequence number only grew, and not at a position some cursor rests on. *)
<1>12. \A i \in Slots : seq'[i] \in Nat /\ seq[i] \in Nat /\ seq'[i] >= seq[i]
  <2> TAKE i \in Slots
  <2>1. seq'[i] \in Nat /\ seq[i] \in Nat
    BY <1>1, <1>4 DEF TypeOK
  <2>2. CASE i = Slot(pos[p])
    BY <1>1, <1>2, <2>1, <2>2
  <2>3. CASE i # Slot(pos[p])
    BY <1>2, <2>1, <2>3
  <2> QED
    BY <2>1, <2>2, <2>3
<1>13. ProducerAheadInv'
  <2> SUFFICES ASSUME NEW q \in Producers PROVE ProducerAhead(q)'
    BY DEF ProducerAheadInv
  <2>1. CASE q = p
    BY <1>2, <2>1 DEF ProducerAhead
  <2>2. CASE q # p
    <3>1. /\ q \in Threads /\ pos[q] \in Nat /\ ProducerAhead(q)
          /\ pc'[q] = pc[q] /\ pos'[q] = pos[q] /\ item'[q] = item[q]
      BY <1>0, <1>1, <1>2, <2>2 DEF IInv, ProducerAheadInv, TypeOK
    <3>2. pos[q] < tail /\ seq[Slot(pos[q])] >= pos[q] => seq'[Slot(pos[q])] >= pos[q]
      BY <1>12, <3>1, SlotType
    <3>3. seq[Slot(tail)] = tail => seq'[Slot(tail)] = tail
      BY <1>1, <1>2, SlotType
    <3> QED
      BY <1>2, <3>1, <3>2, <3>3 DEF ProducerAhead
  <2> QED
    BY <2>1, <2>2
<1>14. ConsumerAheadInv'
  <2> SUFFICES ASSUME NEW c \in Consumers PROVE ConsumerAhead(c)'
    BY DEF ConsumerAheadInv
  <2>1. /\ c \in Threads /\ pos[c] \in Nat /\ ConsumerAhead(c)
        /\ pc'[c] = pc[c] /\ pos'[c] = pos[c]
    BY <1>0, <1>1, <1>2 DEF IInv, ConsumerAheadInv, TypeOK, Threads
  <2>2. seq[Slot(pos[c])] >= pos[c] + 1 => seq'[Slot(pos[c])] >= pos[c] + 1
    BY <1>12, <2>1, SlotType
  <2>3. seq[Slot(head)] = head + 1 => seq'[Slot(head)] = head + 1
    <3>1. CASE pos[p] = head
      BY <1>1, <1>2, <3>1
    <3>2. CASE pos[p] # head
      BY <1>1, <1>6, <3>2 DEF CursorsInv
    <3> QED
      BY <3>1, <3>2
  <2> QED
    BY <1>2, <2>1, <2>2, <2>3 DEF ConsumerAhead
<1> QED
  BY <1>4, <1>5, <1>7, <1>8, <1>9, <1>10, <1>11, <1>13, <1>14 DEF IInv

(* A successful CAS on head_. *)
LEMMA ClaimHeadStep ==
  ASSUME IInv, NEW c \in Consumers, ClaimHead(c)
  PROVE  IInv'
<1> USE CapacityType
<1>0. c \in Threads /\ c \notin Producers /\ Consumers \subseteq Threads
  BY ThreadAssumption DEF Threads
<1>1. /\ TypeOK /\ CursorsInv /\ head \in Nat /\ tail \in Nat
      /\ pc[c] = "casHead" /\ pos[c] = head /\ seq[Slot(head)] = head + 1
      /\ c \notin Readers
  BY DEF IInv, ClaimHead, ConsumerAheadInv, ConsumerAhead, TypeOK, Readers
<1>2. /\ head' = head + 1 /\ tail' = tail /\ seq' = seq /\ data' = data
      /\ put' = put /\ pos' = pos /\ item' = item /\ pc'[c] = "read"
      /\ \A t \in Threads \ {c} : pc'[t] = pc[t]
  BY <1>0, <1>1 DEF ClaimHead, Goto, TypeOK
<1>3. /\ Readers' = Readers \cup {c} /\ Writers' = Writers
      /\ Readers \subseteq Threads /\ Writers \subseteq Threads \ {c}
  BY <1>0, <1>1, <1>2 DEF Writers, Readers, Threads
(* The slot is published, so the position is claimed. *)
<1>4. head < tail
  <2> SUFFICES ASSUME head = tail PROVE FALSE
    BY <1>1 DEF CursorsInv
  <2>1. head \in Open
    BY <1>1 DEF Open
  <2>2. seq[Slot(head)] = head \/ seq[Slot(head)] = head - Capacity + 1
    BY <2>1 DEF IInv, OpenInv
  <2> QED
    BY <1>1, <2>2
<1>5. data[Slot(head)] = put[head + 1]
  <2>1. head \in Claimed
    BY <1>1, <1>4 DEF Claimed
  <2> QED
    BY <1>1, <2>1 DEF IInv, ClaimedInv
<1>6. TypeOK'
  <2>1. pc' \in [Threads -> ProducerPcs \cup ConsumerPcs]
    BY <1>1 DEF ClaimHead, Goto, TypeOK, ProducerPcs, ConsumerPcs
  <2> QED
    BY <1>1, <1>2, <2>1 DEF TypeOK
<1>7. ThreadKindInv'
  BY <1>0, <1>2 DEF IInv, ThreadKindInv, ConsumerPcs, Threads
<1>8. CursorsInv'
  BY <1>1, <1>2, <1>4 DEF CursorsInv
<1>9. ClaimedInv'
  BY <1>1, <1>2, <1>3 DEF IInv, ClaimedInv, Claimed
<1>10. OpenInv'
  <2> SUFFICES ASSUME NEW n \in tail .. (head + Capacity)
               PROVE  \/ seq[Slot(n)] = n
                      \/ /\ seq[Slot(n)] = n - Capacity + 1
                         /\ \E d \in Readers' : pos[d] = n - Capacity
    BY <1>1, <1>2 DEF OpenInv, Open
  <2>1. CASE n = head + Capacity
    BY <1>1, <1>3, <2>1, SlotNextLap
  <2>2. CASE n # head + Capacity
    BY <1>1, <1>3, <2>2 DEF IInv, OpenInv, Open
  <2> QED
    BY <2>1, <2>2
<1>11. WriterInv'
  <2> SUFFICES ASSUME NEW q \in Writers PROVE pos[q] \in (head + 1) .. (tail - 1)
    BY <1>2, <1>3 DEF IInv, WriterInv, Claimed
  <2>1. pos[q] \in head .. (tail - 1) /\ seq[Slot(pos[q])] = pos[q]
    BY DEF IInv, WriterInv, Claimed
  <2> QED
    BY <1>1, <2>1
<1>12. ReaderInv'
  <2>0. \A d \in Readers : pos[d] \in Nat /\ pos[d] < head /\ tail <= pos[d] + Capacity
    BY <1>1, <1>3 DEF IInv, ReaderInv, TypeOK
  <2> SUFFICES ASSUME NEW d \in Readers'
               PROVE  /\ pos[d] < head + 1 /\ tail <= pos[d] + Capacity
                      /\ seq[Slot(pos[d])] = pos[d] + 1
                      /\ data[Slot(pos[d])] = put[pos[d] + 1]
                      /\ pc'[d] = "free" => item[d] = put[pos[d] + 1]
                      /\ \A e \in Readers' : d # e => pos[d] # pos[e]
    BY <1>2 DEF ReaderInv
  <2>1. CASE d = c
    <3>1. \A e \in Readers' : d # e => pos[d] # pos[e]
      BY <1>1, <1>3, <2>0, <2>1
    <3> QED
      BY <1>1, <1>2, <1>5, <2>1, <3>1 DEF CursorsInv
  <2>2. CASE d # c
    <3>1. d \in Readers /\ pc'[d] = pc[d] /\ pos[d] # pos[c]
      BY <1>1, <1>2, <1>3, <2>0, <2>2
    <3> QED
      BY <1>1, <1>3, <2>0, <3>1 DEF IInv, ReaderInv
  <2> QED
    BY <2>1, <2>2
<1>13. ProducerAheadInv'
  BY <1>0, <1>2 DEF IInv, ProducerAheadInv, ProducerAhead, Threads
<1>14. ConsumerAheadInv'
  <2> SUFFICES ASSUME NEW d \in Consumers PROVE ConsumerAhead(d)'
    BY DEF ConsumerAheadInv
  <2>1. ConsumerAhead(d) /\ pos[d] \in Nat
    BY <1>0, <1>1 DEF IInv, ConsumerAheadInv, TypeOK
  <2>2. CASE d = c
    BY <1>2, <2>2 DEF ConsumerAhead
  <2>3. CASE d # c
    <3>1. pc'[d] = pc[d]
      BY <1>0, <1>2, <2>3
    <3>2. pc[d] \in {"diffReady", "casHead"} =>
            pos[d] < head + 1 /\ seq[Slot(pos[d])] >= pos[d] + 1
      BY <1>1, <2>1 DEF ConsumerAhead
    <3> QED
      BY <1>1, <1>2, <2>1, <3>1, <3>2 DEF ConsumerAhead
  <2> QED
    BY <2>2, <2>3
<1> QED
  BY <1>6, <1>7, <1>8, <1>9, <1>10, <1>11, <1>12, <1>13, <1>14 DEF IInv

(* out = c.data *)
LEMMA ReadDataStep ==
  ASSUME IInv, NEW c \in Consumers, ReadData(c)
  PROVE  IInv'
<1>0. c \in Threads /\ c \notin Producers /\ Consumers \subseteq Threads
  BY ThreadAssumption DEF Threads
<1>1. TypeOK /\ c \in Readers /\ pc[c] = "read" /\ pos[c] \in Nat /\ Slot(pos[c]) \in Slots
  BY <1>0, SlotType DEF IInv, ReadData, Readers, TypeOK
<1>2. /\ head' = head /\ tail' = tail /\ seq' = seq /\ data' = data
      /\ put' = put /\ pos' = pos /\ pc'[c] = "free"
      /\ \A t \in Threads \ {c} : pc'[t] = pc[t] /\ item'[t] = item[t]
      /\ item'[c] = data[Slot(pos[c])]
  BY <1>0, <1>1 DEF ReadData, Goto, TypeOK
<1>3. /\ Readers' = Readers /\ Writers' = Writers
      /\ Readers \subseteq Threads /\ Writers \subseteq Threads \ {c}
  BY <1>0, <1>1, <1>2 DEF Writers, Readers, Threads
<1>4. TypeOK'
  <2>1. pc' \in [Threads -> ProducerPcs \cup ConsumerPcs]
    BY <1>1 DEF ReadData, Goto, TypeOK, ProducerPcs, ConsumerPcs
  <2>2. item' \in [Threads -> Values \cup {NoValue}]
    BY <1>0, <1>1 DEF ReadData, TypeOK
  <2> QED
    BY <1>1, <1>2, <2>1, <2>2 DEF TypeOK
<1>5. ThreadKindInv'
  BY <1>0, <1>2 DEF IInv, ThreadKindInv, ConsumerPcs, Threads
<1>6. CursorsInv' /\ ClaimedInv' /\ OpenInv'
  BY <1>2, <1>3 DEF IInv, CursorsInv, ClaimedInv, Claimed, OpenInv, Open
<1>7. WriterInv'
  BY <1>2, <1>3 DEF IInv, WriterInv, Claimed
<1>8. ReaderInv'
  <2> SUFFICES ASSUME NEW d \in Readers
               PROVE  /\ data[Slot(pos[d])] = put[pos[d] + 1]
                      /\ pc'[d] = "free" => item'[d] = put[pos[d] + 1]
    BY <1>2, <1>3 DEF IInv, ReaderInv
  <2>1. CASE d = c
    BY <1>1, <1>2, <2>1 DEF IInv, ReaderInv
  <2>2. CASE d # c
    BY <1>2, <1>3, <2>2 DEF IInv, ReaderInv
  <2> QED
    BY <2>1, <2>2
<1>9. ProducerAheadInv' /\ ConsumerAheadInv'
  BY <1>0, <1>2 DEF IInv, ProducerAheadInv, ProducerAhead, ConsumerAheadInv,
                    ConsumerAhead, Threads
<1> QED
  BY <1>4, <1>5, <1>6, <1>7, <1>8, <1>9 DEF IInv

(* c.seq.store(pos + capacity_): the slot is free for the next lap. *)
LEMMA FreeSlotStep ==
  ASSUME IInv, Capacity >= 2, NEW c \in Consumers, FreeSlot(c)
  PROVE  IInv'
<1> USE CapacityType
<1>0. c \in Threads /\ c \notin Producers /\ Consumers \subseteq Threads
  BY ThreadAssumption DEF Threads
<1>1. /\ TypeOK /\ CursorsInv /\ head \in Nat /\ tail \in Nat
      /\ head <= tail /\ tail <= head + Capacity
      /\ c \in Readers /\ pc[c] = "free" /\ pos[c] \in Nat /\ Slot(pos[c]) \in Slots
      /\ pos[c] < head /\ tail <= pos[c] + Capacity /\ seq[Slot(pos[c])] = pos[c] + 1
      /\ \A d \in Readers : c # d => pos[c] # pos[d]
  BY <1>0, SlotType DEF IInv, FreeSlot, Readers, ReaderInv, TypeOK, CursorsInv
<1>2. /\ head' = head /\ tail' = tail /\ data' = data /\ put' = put
      /\ pc'[c] = "idle" /\ pos'[c] = 0 /\ item'[c] = NoValue
      /\ \A t \in Threads \ {c} : pc'[t] = pc[t] /\ pos'[t] = pos[t] /\ item'[t] = item[t]
      /\ seq'[Slot(pos[c])] = pos[c] + Capacity
      /\ \A i \in Slots \ {Slot(pos[c])} : seq'[i] = seq[i]
  BY <1>0, <1>1 DEF FreeSlot, Goto, Return, TypeOK
<1>3. /\ Readers' = Readers \ {c} /\ Writers' = Writers
      /\ Readers \subseteq Threads /\ Writers \subseteq Threads \ {c}
  BY <1>0, <1>1, <1>2 DEF Writers, Readers, Threads
<1>4. TypeOK'
  <2>1. pc' \in [Threads -> ProducerPcs \cup ConsumerPcs]
    BY <1>1 DEF FreeSlot, Return, Goto, TypeOK, ProducerPcs, ConsumerPcs
  <2>2. pos' \in [Threads -> Nat] /\ item' \in [Threads -> Values \cup {NoValue}]
    BY <1>1 DEF FreeSlot, Return, TypeOK
  <2>3. seq' \in [Slots -> Nat]
    BY <1>1 DEF FreeSlot, TypeOK
  <2> QED
    BY <1>1, <1>2, <2>1, <2>2, <2>3 DEF TypeOK
<1>5. ThreadKindInv'
  BY <1>0, <1>2 DEF IInv, ThreadKindInv, ConsumerPcs, Threads
<1>6. \A n \in Nat : n # pos[c] /\ n < pos[c] + Capacity /\ pos[c] < n + Capacity =>
        seq'[Slot(n)] = seq[Slot(n)]
  BY <1>1, <1>2, SlotsApart, SlotType
<1>7. CursorsInv'
  BY <1>1, <1>2 DEF CursorsInv
<1>8. ClaimedInv'
  <2> SUFFICES ASSUME NEW n \in Claimed PROVE seq'[Slot(n)] = seq[Slot(n)]
    BY <1>2, <1>3 DEF IInv, ClaimedInv, Claimed
  <2> QED
    BY <1>1, <1>6 DEF Claimed
<1>9. OpenInv'
  <2> SUFFICES ASSUME NEW n \in Open
               PROVE  \/ seq'[Slot(n)] = n
                      \/ /\ seq'[Slot(n)] = n - Capacity + 1
                         /\ \E d \in Readers' : pos'[d] = n - Capacity
    BY <1>2 DEF OpenInv, Open
  <2>0. n \in Nat /\ tail <= n /\ n < head + Capacity
    BY <1>1 DEF Open
  <2>1. Slot(pos[c] + Capacity) = Slot(pos[c])
    BY <1>1, SlotNextLap
  <2>2. CASE n = pos[c] + Capacity
    BY <1>2, <2>1, <2>2
  <2>3. CASE n # pos[c] + Capacity
    <3>1. Slot(n) # Slot(pos[c] + Capacity)
      BY <1>1, <2>0, <2>3, SlotsApart
    <3>2. seq'[Slot(n)] = seq[Slot(n)]
      BY <1>2, <2>0, <2>1, <3>1, SlotType
    <3>3. \A d \in Readers : pos[d] = n - Capacity => d # c
      BY <1>1, <2>0, <2>3
    <3> QED
      BY <1>2, <1>3, <3>2, <3>3 DEF IInv, OpenInv
  <2> QED
    BY <2>2, <2>3
<1>10. WriterInv'
  <2> SUFFICES ASSUME NEW q \in Writers PROVE seq'[Slot(pos[q])] = seq[Slot(pos[q])]
    BY <1>2, <1>3 DEF IInv, WriterInv, Claimed
  <2>1. pos[q] \in head .. (tail - 1)
    BY DEF IInv, WriterInv, Claimed
  <2> QED
    BY <1>1, <1>6, <2>1
<1>11. ReaderInv'
  <2> SUFFICES ASSUME NEW d \in Readers \ {c}
               PROVE  seq'[Slot(pos[d])] = seq[Slot(pos[d])]
    BY <1>2, <1>3 DEF IInv, ReaderInv
  <2>1. pos[d] \in Nat /\ pos[d] < head /\ tail <= pos[d] + Capacity /\ pos[d] # pos[c]
    BY <1>1, <1>3 DEF IInv, ReaderInv, TypeOK
  <2> QED
    BY <1>1, <1>6, <2>1
<1>12. \A i \in Slots : seq'[i] \in Nat /\ seq[i] \in Nat /\ seq'[i] >= seq[i]
  <2> TAKE i \in Slots
  <2>1. seq'[i] \in Nat /\ seq[i] \in Nat
    BY <1>1, <1>4 DEF TypeOK
  <2>2. CASE i = Slot(pos[c])
    BY <1>1, <1>2, <2>1, <2>2
  <2>3. CASE i # Slot(pos[c])
    BY <1>2, <2>1, <2>3
  <2> QED
    BY <2>1, <2>2, <2>3
<1>13. ProducerAheadInv'
  <2> SUFFICES ASSUME NEW q \in Producers PROVE ProducerAhead(q)'
    BY DEF ProducerAheadInv
  <2>1. /\ q \in Threads /\ pos[q] \in Nat /\ ProducerAhead(q)
        /\ pc'[q] = pc[q] /\ pos'[q] = pos[q] /\ item'[q] = item[q]
    BY <1>0, <1>1, <1>2 DEF IInv, ProducerAheadInv, TypeOK, Threads
  <2>2. seq[Slot(pos[q])] >= pos[q] => seq'[Slot(pos[q])] >= pos[q]
    BY <1>12, <2>1, SlotType
  <2>3. seq[Slot(tail)] = tail => seq'[Slot(tail)] = tail
    <3>1. CASE tail = pos[c] + Capacity
      BY <1>1, <1>2, <3>1, SlotNextLap
    <3>2. CASE tail # pos[c] + Capacity
      BY <1>1, <1>6, <3>2
    <3> QED
      BY <3>1, <3>2
  <2> QED
    BY <1>2, <2>1, <2>2, <2>3 DEF ProducerAhead
<1>14. ConsumerAheadInv'
  <2> SUFFICES ASSUME NEW d \in Consumers PROVE ConsumerAhead(d)'
    BY DEF ConsumerAheadInv
  <2>1. CASE d = c
    BY <1>2, <2>1 DEF ConsumerAhead
  <2>2. CASE d # c
    <3>1. /\ pos[d] \in Nat /\ ConsumerAhead(d) /\ pc'[d] = pc[d] /\ pos'[d] = pos[d]
      BY <1>0, <1>1, <1>2, <2>2 DEF IInv, ConsumerAheadInv, TypeOK
    <3>2. seq[Slot(pos[d])] >= pos[d] + 1 => seq'[Slot(pos[d])] >= pos[d] + 1
      BY <1>12, <3>1, SlotType
    <3>3. seq[Slot(head)] = head + 1 => seq'[Slot(head)] = head + 1
      <4>1. CASE head = pos[c] + Capacity
        BY <1>1, <4>1, SlotNextLap
      <4>2. CASE head # pos[c] + Capacity
        BY <1>1, <1>6, <4>2
      <4> QED
        BY <4>1, <4>2
    <3> QED
      BY <1>2, <3>1, <3>2, <3>3 DEF ConsumerAhead
  <2> QED
    BY <2>1, <2>2
<1> QED
  BY <1>4, <1>5, <1>7, <1>8, <1>9, <1>10, <1>11, <1>13, <1>14 DEF IInv

----------------------------------------------------------------------------
(* The invariant holds in every reachable state of a queue of at least     *)
(* two slots, for any number of threads.                                   *)

(* Every step preserves the invariant. *)
LEMMA NextIInv ==
  ASSUME IInv, Capacity >= 2, [Next]_vars
  PROVE  IInv'
<1>1. CASE \E p \in Producers, v \in Values : CallProduce(p, v)
  BY <1>1, QuietProducerStep
<1>2. CASE \E c \in Consumers : CallConsume(c)
  BY <1>2, QuietConsumerStep
<1>3. CASE \E p \in Producers : ProduceStep(p)
  BY <1>3, QuietProducerStep, ClaimTailStep, WriteDataStep, PublishSlotStep
  DEF ProduceStep
<1>4. CASE \E c \in Consumers : ConsumeStep(c)
  BY <1>4, QuietConsumerStep, ClaimHeadStep, ReadDataStep, FreeSlotStep
  DEF ConsumeStep
<1>5. CASE UNCHANGED vars
  BY <1>5 DEF vars, IInv, TypeOK, ThreadKindInv, CursorsInv, ClaimedInv, Claimed,
              OpenInv, Open, WriterInv, ReaderInv, Writers, Readers, ProducerAheadInv,
              ProducerAhead, ConsumerAheadInv, ConsumerAhead
<1> QED
  BY <1>1, <1>2, <1>3, <1>4, <1>5 DEF Next

(* Every reachable state of a queue of at least two slots satisfies the      *)
(* inductive invariant, whatever the threads and however they interleave.    *)
THEOREM Invariance == ASSUME Capacity >= 2 PROVE Spec => []IInv
<1>1. IInv /\ [Next]_vars => IInv'
  BY NextIInv
<1> QED
  BY <1>1, InitIInv, PTL DEF Spec

----------------------------------------------------------------------------
(* What the invariant is for.                                              *)

(* Every variable keeps its type. *)
THEOREM TypeCorrect == ASSUME Capacity >= 2 PROVE Spec => []TypeOK
<1>1. IInv => TypeOK
  BY DEF IInv
<1> QED
  BY <1>1, Invariance, PTL

(* Two threads that have claimed a position and not yet released it with     *)
(* their store to seq copy into or out of different slots.                   *)
THEOREM Exclusion == ASSUME Capacity >= 2 PROVE Spec => []SlotExclusive
<1>1. ASSUME IInv PROVE SlotExclusive
  <2> USE <1>1, CapacityType
  <2>1. head \in Nat /\ tail \in Nat /\ head <= tail /\ tail <= head + Capacity
    BY DEF IInv, CursorsInv, TypeOK
  <2>2. \A p \in Writers : pos[p] \in head .. (tail - 1)
    BY DEF IInv, WriterInv, Claimed
  <2>3. \A c \in Readers : pos[c] \in Nat /\ pos[c] < head /\ tail <= pos[c] + Capacity
    BY DEF IInv, ReaderInv, TypeOK, Readers, Threads
  <2> SUFFICES ASSUME NEW t \in Writers \cup Readers, NEW u \in Writers \cup Readers, t # u
               PROVE  Slot(pos[t]) # Slot(pos[u])
    BY DEF SlotExclusive
  <2>4. /\ pos[t] \in Nat /\ pos[u] \in Nat
        /\ pos[t] < pos[u] + Capacity /\ pos[u] < pos[t] + Capacity
    BY <2>1, <2>2, <2>3
  <2>5. pos[t] # pos[u]
    <3>1. CASE t \in Writers /\ u \in Writers
      BY <3>1 DEF IInv, WriterInv
    <3>2. CASE t \in Readers /\ u \in Readers
      BY <3>2 DEF IInv, ReaderInv
    <3>3. CASE t \in Writers /\ u \in Readers
      BY <2>1, <2>2, <2>3, <3>3
    <3>4. CASE t \in Readers /\ u \in Writers
      BY <2>1, <2>2, <2>3, <3>4
    <3> QED
      BY <3>1, <3>2, <3>3, <3>4
  <2> QED
    BY <2>4, <2>5, SlotsApart
<1> QED
  BY <1>1, Invariance, PTL

(* A consumer leaves with the message that was put at its position. *)
THEOREM NoTornRead == ASSUME Capacity >= 2 PROVE Spec => []ReadsWhatWasPut
<1>1. IInv => ReadsWhatWasPut
  BY DEF IInv, ReaderInv, Readers, ReadsWhatWasPut
<1> QED
  BY <1>1, Invariance, PTL

(* At most Capacity messages are in the ring, and none is consumed that was  *)
(* not produced.                                                             *)
THEOREM BoundedRing == ASSUME Capacity >= 2 PROVE Spec => []NeverOverfull
<1>1. IInv => NeverOverfull
  BY CapacityType DEF IInv, CursorsInv, TypeOK, NeverOverfull
<1> QED
  BY <1>1, Invariance, PTL

(* Only the branch diff < 0 of produce() goes from the load of seq to the    *)
(* return.                                                                   *)
LEMMA GivesUpOnlyIfFull ==
  ASSUME IInv, Next, NEW p \in Producers, pc[p] = "diffFree", pc'[p] = "idle"
  PROVE  ReturnFull(p)
<1>0. /\ p \notin Consumers /\ pc \in [Threads -> ProducerPcs \cup ConsumerPcs]
      /\ Producers \subseteq Threads /\ Consumers \subseteq Threads
  BY ThreadAssumption DEF Threads, IInv, TypeOK
<1>1. ASSUME NEW q \in Producers, NEW v \in Values, CallProduce(q, v) PROVE FALSE
  BY <1>0, <1>1 DEF CallProduce, Goto
<1>2. ASSUME NEW c \in Consumers, CallConsume(c) \/ ConsumeStep(c) PROVE FALSE
  <2>1. pc'[p] = pc[p]
    BY <1>0, <1>2
    DEF CallConsume, ConsumeStep, LoadHead, SlotIsReady, ReturnEmpty, HeadMovedOn,
        ClaimHead, CasHeadFails, ReadData, FreeSlot, Goto, Return
  <2> QED
    BY <2>1
<1>3. ASSUME NEW q \in Producers, ProduceStep(q) PROVE ReturnFull(p)
  <2>1. CASE q # p
    <3>1. pc'[p] = pc[p]
      BY <1>0, <1>3, <2>1
      DEF ProduceStep, LoadTail, SlotIsFree, ReturnFull, TailMovedOn, ClaimTail,
          CasTailFails, WriteData, PublishSlot, Goto, Return
    <3> QED
      BY <3>1
  <2>2. CASE q = p
    BY <1>0, <1>3, <2>2
    DEF ProduceStep, LoadTail, SlotIsFree, TailMovedOn, ClaimTail,
        CasTailFails, WriteData, PublishSlot, Goto
  <2> QED
    BY <2>1, <2>2
<1> QED
  BY <1>1, <1>2, <1>3 DEF Next

(* A refused message met a ring that is full, or whose next slot a consumer  *)
(* is still copying out of: a tail that went stale between the two loads of  *)
(* produce() never makes it give up.                                         *)
THEOREM RefusalIsReal == ASSUME Capacity >= 2 PROVE Spec => FullIsReal
<1>1. ASSUME IInv, [Next]_vars, NEW p \in Producers, pc[p] = "diffFree", pc'[p] = "idle"
      PROVE  tail - head = Capacity \/ \E c \in Readers : pos[c] = tail - Capacity
  <2> USE <1>1, CapacityType
  <2>1. ReturnFull(p)
    BY GivesUpOnlyIfFull DEF vars
  <2>2. /\ head \in Nat /\ tail \in Nat /\ tail <= head + Capacity /\ head <= tail
        /\ pos[p] \in Nat /\ seq[Slot(pos[p])] \in Nat
    BY SlotType DEF IInv, TypeOK, CursorsInv, Threads
  <2>3. seq[Slot(pos[p])] < pos[p]
    BY <2>1, <2>2 DEF ReturnFull, DiffFree
  <2>4. pos[p] = tail
    BY <2>2, <2>3 DEF IInv, ProducerAheadInv, ProducerAhead
  <2>5. CASE tail = head + Capacity
    BY <2>2, <2>5
  <2>6. CASE tail # head + Capacity
    <3>1. tail \in Open
      BY <2>2, <2>6 DEF Open
    <3> QED
      BY <2>2, <2>3, <2>4, <3>1 DEF IInv, OpenInv
  <2> QED
    BY <2>5, <2>6
<1>2. IInv /\ [Next]_vars =>
        [\A p \in Producers : pc[p] = "diffFree" /\ pc'[p] = "idle" =>
           \/ tail - head = Capacity
           \/ \E c \in Readers : pos[c] = tail - Capacity]_vars
  BY <1>1
<1> QED
  BY <1>2, Invariance, PTL DEF Spec, FullIsReal

(* consume() reports empty only where it may. *)
LEMMA GivesUpOnlyIfEmpty ==
  ASSUME IInv, Next, NEW c \in Consumers, pc[c] = "diffReady", pc'[c] = "idle"
  PROVE  ReturnEmpty(c)
<1>0. /\ c \notin Producers /\ pc \in [Threads -> ProducerPcs \cup ConsumerPcs]
      /\ Producers \subseteq Threads /\ Consumers \subseteq Threads
  BY ThreadAssumption DEF Threads, IInv, TypeOK
<1>1. ASSUME NEW p \in Producers,
             ProduceStep(p) \/ \E v \in Values : CallProduce(p, v)
      PROVE  FALSE
  <2>1. pc'[c] = pc[c]
    BY <1>0, <1>1
    DEF ProduceStep, CallProduce, LoadTail, SlotIsFree, ReturnFull, TailMovedOn,
        ClaimTail, CasTailFails, WriteData, PublishSlot, Goto, Return
  <2> QED
    BY <2>1
<1>2. ASSUME NEW d \in Consumers, CallConsume(d) PROVE FALSE
  BY <1>0, <1>2 DEF CallConsume, Goto
<1>3. ASSUME NEW d \in Consumers, ConsumeStep(d) PROVE ReturnEmpty(c)
  <2>1. CASE d # c
    <3>1. pc'[c] = pc[c]
      BY <1>0, <1>3, <2>1
      DEF ConsumeStep, LoadHead, SlotIsReady, ReturnEmpty, HeadMovedOn, ClaimHead,
          CasHeadFails, ReadData, FreeSlot, Goto, Return
    <3> QED
      BY <3>1
  <2>2. CASE d = c
    BY <1>0, <1>3, <2>2
    DEF ConsumeStep, LoadHead, SlotIsReady, HeadMovedOn, ClaimHead,
        CasHeadFails, ReadData, FreeSlot, Goto
  <2> QED
    BY <2>1, <2>2
<1> QED
  BY <1>1, <1>2, <1>3 DEF Next

(* A consumer that came back empty-handed met an empty ring, or one whose    *)
(* oldest message its producer was still copying in.                         *)
THEOREM EmptinessIsReal == ASSUME Capacity >= 2 PROVE Spec => EmptyIsReal
<1>1. ASSUME IInv, [Next]_vars, NEW c \in Consumers, pc[c] = "diffReady", pc'[c] = "idle"
      PROVE  head = tail \/ \E p \in Writers : pos[p] = head
  <2> USE <1>1, CapacityType
  <2>1. ReturnEmpty(c)
    BY GivesUpOnlyIfEmpty DEF vars
  <2>2. /\ head \in Nat /\ tail \in Nat /\ head <= tail
        /\ pos[c] \in Nat /\ seq[Slot(pos[c])] \in Nat
    BY SlotType DEF IInv, TypeOK, CursorsInv, Threads
  <2>3. seq[Slot(pos[c])] < pos[c] + 1
    BY <2>1, <2>2 DEF ReturnEmpty, DiffReady
  <2>4. pos[c] = head
    BY <2>2, <2>3 DEF IInv, ConsumerAheadInv, ConsumerAhead
  <2>5. CASE head # tail
    <3>1. head \in Claimed
      BY <2>2, <2>5 DEF Claimed
    <3> QED
      BY <2>2, <2>3, <2>4, <3>1 DEF IInv, ClaimedInv
  <2> QED
    BY <2>5
<1>2. IInv /\ [Next]_vars =>
        [\A c \in Consumers : pc[c] = "diffReady" /\ pc'[c] = "idle" =>
           \/ head = tail
           \/ \E p \in Writers : pos[p] = head]_vars
  BY <1>1
<1> QED
  BY <1>2, Invariance, PTL DEF Spec, EmptyIsReal

(* A call that fails, of produce() or of consume(), fails for a reason that  *)
(* lies in the ring.                                                         *)
THEOREM RefusalsHaveReasons ==
  ASSUME Capacity >= 2 PROVE Spec => RefusalsAreReal
BY RefusalIsReal, EmptinessIsReal DEF RefusalsAreReal

(* No store to a slot's sequence number ever lowers it: a number seen once   *)
(* and outgrown is never seen again, so a stale load cannot be mistaken for  *)
(* a current one.                                                            *)
THEOREM SequenceGrows == ASSUME Capacity >= 2 PROVE Spec => SeqMonotone
<1>1. ASSUME IInv, [Next]_vars, NEW i \in Slots
      PROVE  seq'[i] >= seq[i]
  <2> USE <1>1, CapacityType
  <2>0. seq \in [Slots -> Nat] /\ seq[i] \in Nat
    BY DEF IInv, TypeOK
  <2>1. ASSUME NEW p \in Producers, PublishSlot(p) PROVE seq'[i] >= seq[i]
    <3>1. pos[p] \in Nat /\ seq[Slot(pos[p])] = pos[p]
      BY <2>1 DEF IInv, TypeOK, PublishSlot, WriterInv, Writers, Threads
    <3> QED
      BY <2>0, <2>1, <3>1 DEF PublishSlot
  <2>2. ASSUME NEW c \in Consumers, FreeSlot(c) PROVE seq'[i] >= seq[i]
    <3>1. pos[c] \in Nat /\ seq[Slot(pos[c])] = pos[c] + 1
      BY <2>2 DEF IInv, TypeOK, FreeSlot, ReaderInv, Readers, Threads
    <3> QED
      BY <2>0, <2>2, <3>1 DEF FreeSlot
  <2>3. CASE seq' = seq
    BY <2>0, <2>3
  <2> QED
    BY <2>1, <2>2, <2>3
    DEF Next, vars, ProduceStep, ConsumeStep, CallProduce, LoadTail, SlotIsFree,
        ReturnFull, TailMovedOn, ClaimTail, CasTailFails, WriteData, CallConsume,
        LoadHead, SlotIsReady, ReturnEmpty, HeadMovedOn, ClaimHead, CasHeadFails,
        ReadData
<1>2. IInv /\ [Next]_vars => [\A i \in Slots : seq'[i] >= seq[i]]_vars
  BY <1>1
<1> QED
  BY <1>2, Invariance, PTL DEF Spec, SeqMonotone

----------------------------------------------------------------------------
(* The ring implements the promise of TicketQueue: each step maps to a     *)
(* step of the tickets or leaves them alone.                               *)

(* The position that now uses the slot of an earlier one. *)
LEMMA WindowMeetsSlot ==
  ASSUME NEW h \in Nat, NEW n \in Nat, n < h
  PROVE  \E m \in h .. (h + Capacity - 1) : Slot(m) = Slot(n) /\ m >= n + Capacity
<1> USE CapacityType
<1> DEFINE a == h \div Capacity
           r == Slot(h)
           s == Slot(n)
<1>1. a \in Int /\ h = Capacity * a + r
  BY SlotDivision
<1>2. r \in 0 .. (Capacity - 1) /\ s \in 0 .. (Capacity - 1)
  BY SlotType DEF Slots
<1>3. \E m \in h .. (h + Capacity - 1), k \in Int : m = Capacity * k + s
  <2> HIDE DEF a, r, s
  <2>1. CASE s >= r
    <3>1. h + s - r = Capacity * a + s
      BY <1>1, <1>2
    <3>2. h + s - r \in h .. (h + Capacity - 1)
      BY <1>1, <1>2, <2>1
    <3> QED
      BY <1>1, <3>1, <3>2
  <2>2. CASE s < r
    <3>1. Capacity * (a + 1) = Capacity * a + Capacity
      BY <1>1
    <3>2. h + Capacity + s - r = Capacity * (a + 1) + s /\ a + 1 \in Int
      BY <1>1, <1>2, <3>1
    <3>3. h + Capacity + s - r \in h .. (h + Capacity - 1)
      BY <1>1, <1>2, <2>2
    <3> QED
      BY <3>2, <3>3
  <2> QED
    BY <1>2, <2>1, <2>2
<1>4. PICK m \in h .. (h + Capacity - 1), k \in Int : m = Capacity * k + s
  BY <1>3
<1>5. m \in Nat /\ m > n
  BY <1>4
<1>6. (m \div Capacity) \in Int /\ m = Capacity * (m \div Capacity) + Slot(m)
      /\ Slot(m) \in 0 .. (Capacity - 1)
  BY <1>5, SlotDivision, SlotType DEF Slots
<1>7. Slot(m) = s
  <2> DEFINE b == m \div Capacity
             t == Slot(m)
  <2>1. b \in Int /\ t \in 0 .. (Capacity - 1) /\ Capacity * b + t = Capacity * k + s
    BY <1>4, <1>6
  <2> HIDE DEF b, t, s
  <2>2. t = s
    BY <1>2, <1>4, <2>1, DivisionUnique
  <2> QED
    BY <2>2 DEF t
<1>8. m >= n + Capacity
  BY <1>5, <1>7, SlotInjective
<1> QED
  BY <1>4, <1>7, <1>8

(* A position that a consumer has claimed is being read, or its slot has    *)
(* moved on to a later lap.                                                 *)
LEMMA BehindHead ==
  ASSUME IInv, Capacity >= 2, NEW n \in Nat, n < head
  PROVE  \/ seq[Slot(n)] = n + 1 /\ \E c \in Readers : pos[c] = n
         \/ seq[Slot(n)] > n + 1
<1> USE CapacityType
<1>1. /\ head \in Nat /\ tail \in Nat /\ head <= tail /\ tail <= head + Capacity
      /\ seq \in [Slots -> Nat]
  BY DEF IInv, CursorsInv, TypeOK
<1>2. PICK m \in head .. (head + Capacity - 1) :
        Slot(m) = Slot(n) /\ m >= n + Capacity
  BY <1>1, WindowMeetsSlot
<1>3. m \in Nat /\ seq[Slot(m)] \in Nat
  BY <1>1, <1>2, SlotType
<1>4. CASE m < tail
  <2>1. m \in Claimed
    BY <1>1, <1>2, <1>4 DEF Claimed
  <2>2. seq[Slot(m)] = m \/ seq[Slot(m)] = m + 1
    BY <2>1 DEF IInv, ClaimedInv
  <2> QED
    BY <1>2, <1>3, <2>2
<1>5. CASE m >= tail
  <2>1. m \in Open
    BY <1>1, <1>2, <1>5 DEF Open
  <2>2. \/ seq[Slot(m)] = m
        \/ seq[Slot(m)] = m - Capacity + 1 /\ \E c \in Readers : pos[c] = m - Capacity
    BY <2>1 DEF IInv, OpenInv
  <2>3. CASE m = n + Capacity
    BY <1>2, <1>3, <2>2, <2>3
  <2>4. CASE m # n + Capacity
    BY <1>2, <1>3, <2>2, <2>4
  <2> QED
    BY <2>3, <2>4
<1> QED
  BY <1>1, <1>3, <1>4, <1>5

(* The stage of a ticket, by the slot's sequence number. *)
LEMMA StageFacts ==
  ASSUME NEW n \in Nat, seq[Slot(n)] \in Nat
  PROVE  /\ StageOf(n) \in {"claimed", "ready", "taken", "freed"}
         /\ StageOf(n) = "claimed" <=> seq[Slot(n)] = n
         /\ StageOf(n) = "ready" <=> seq[Slot(n)] = n + 1 /\ ~(n < head)
         /\ StageOf(n) = "taken" <=> seq[Slot(n)] = n + 1 /\ n < head
         /\ seq[Slot(n)] > n + 1 => StageOf(n) = "freed"
BY DEF StageOf

(* What keeps a ticket as it is. *)
LEMMA TicketKept ==
  ASSUME NEW n \in Nat, seq[Slot(n)] \in Nat, seq'[Slot(n)] \in Nat,
         put'[n + 1] = put[n + 1],
         \/ /\ seq'[Slot(n)] = seq[Slot(n)] /\ data'[Slot(n)] = data[Slot(n)]
            /\ n < head' <=> n < head
         \/ seq'[Slot(n)] = n /\ seq[Slot(n)] = n
         \/ seq'[Slot(n)] > n + 1 /\ seq[Slot(n)] > n + 1
  PROVE  TicketOf(n)' = TicketOf(n)
BY DEF TicketOf, StageOf

(* The tickets as a sequence. *)
LEMMA TicketsSeq ==
  ASSUME tail \in Nat
  PROVE  /\ tickets \in Seq({TicketOf(n) : n \in Nat})
         /\ Len(tickets) = tail /\ DOMAIN tickets = 1 .. tail
         /\ \A n \in 0 .. (tail - 1) : n + 1 \in 1 .. tail /\ tickets[n + 1] = TicketOf(n)
         /\ \A i \in 1 .. tail : i - 1 \in 0 .. (tail - 1) /\ tickets[i] = TicketOf(i - 1)
<1> DEFINE T == {TicketOf(n) : n \in Nat}
<1>1. \A i \in 1 .. tail : TicketOf(i - 1) \in T
  OBVIOUS
<1> HIDE DEF T
<1>2. tickets \in [1 .. tail -> T]
  BY <1>1 DEF tickets
<1>3. tickets \in Seq(T) /\ DOMAIN tickets = 1 .. tail
  BY <1>2
<1>4. Len(tickets) = tail
  BY <1>3
<1>5. \A i \in 1 .. tail : tickets[i] = TicketOf(i - 1)
  BY DEF tickets
<1>6. \A n \in 0 .. (tail - 1) : n + 1 \in 1 .. tail /\ tickets[n + 1] = TicketOf(n)
  BY <1>5
<1> QED
  BY <1>3, <1>4, <1>5, <1>6 DEF T

(* A step that keeps every ticket does nothing to them. *)
LEMMA TicketsKept ==
  ASSUME tail \in Nat, tail' = tail,
         \A n \in 0 .. (tail - 1) : TicketOf(n)' = TicketOf(n)
  PROVE  tickets' = tickets
<1>1. \A i \in 1 .. tail : TicketOf(i - 1)' = TicketOf(i - 1)
  OBVIOUS
<1> QED
  BY <1>1 DEF tickets

(* A step that moves one ticket to another stage. *)
LEMMA StageMoved ==
  ASSUME tail \in Nat, tail' = tail, NEW m \in 0 .. (tail - 1), NEW stage,
         \A n \in 0 .. (tail - 1) : n # m => TicketOf(n)' = TicketOf(n),
         TicketOf(m)'.val = TicketOf(m).val,
         StageOf(m)' = stage
  PROVE  tickets' = [tickets EXCEPT ![m + 1].stage = stage]
<1>1. TicketOf(m)' = [TicketOf(m) EXCEPT !.stage = stage]
  BY DEF TicketOf
<1>2. \A i \in 1 .. tail : tickets[i] = TicketOf(i - 1)
  BY DEF tickets
<1>3. \A i \in 1 .. tail : tickets'[i] = TicketOf(i - 1)'
  BY DEF tickets
<1>4. \A i \in 1 .. tail : i # m + 1 => tickets'[i] = tickets[i]
  BY <1>2, <1>3
<1>5. m + 1 \in 1 .. tail /\ tickets'[m + 1] = [tickets[m + 1] EXCEPT !.stage = stage]
  BY <1>1, <1>2, <1>3
<1>6. /\ tickets = [i \in 1 .. tail |-> tickets[i]]
      /\ tickets' = [i \in 1 .. tail |-> tickets'[i]]
  BY DEF tickets
<1> QED
  BY <1>4, <1>5, <1>6

(* What the steps below use of the invariant. *)
LEMMA RingFacts ==
  ASSUME IInv
  PROVE  /\ head \in Nat /\ tail \in Nat /\ head <= tail /\ tail <= head + Capacity
         /\ put \in Seq(Values) /\ Len(put) = tail
         /\ \A n \in Nat : Slot(n) \in Slots /\ seq[Slot(n)] \in Nat
BY SlotType DEF IInv, CursorsInv, TypeOK

(* An older position in the slot of one that is in use was freed. *)
LEMMA LapsBehind ==
  ASSUME NEW m \in Nat, NEW n \in Nat, Capacity >= 2, n # m, n < m + Capacity,
         Slot(n) = Slot(m), seq[Slot(m)] \in Nat, seq[Slot(m)] >= m
  PROVE  seq[Slot(n)] > n + 1 /\ n + Capacity <= m
<1>1. n + Capacity <= m
  BY SlotsApart, CapacityType
<1> QED
  BY <1>1, CapacityType

(* A successful CAS on tail_ claims the next ticket. *)
LEMMA ClaimTailClaims ==
  ASSUME IInv, IInv', Capacity >= 2, NEW p \in Producers, ClaimTail(p)
  PROVE  \E v \in Values : TQ!Claim(v)
<1> USE CapacityType
<1>1. /\ pos[p] = tail /\ seq[Slot(tail)] = tail /\ item[p] \in Values
      /\ head' = head /\ tail' = tail + 1 /\ seq' = seq /\ data' = data
      /\ put' = Append(put, item[p])
  BY DEF IInv, ClaimTail, ProducerAheadInv, ProducerAhead
<1>2. /\ tail \in Nat /\ tail' \in Nat /\ head \in Nat /\ head <= tail
      /\ \A n \in Nat : Slot(n) \in Slots /\ seq[Slot(n)] \in Nat
      /\ put'[tail + 1] = item[p] /\ \A i \in 1 .. tail : put'[i] = put[i]
  BY <1>1, RingFacts
<1>3. ~TQ!Full
  <2> SUFFICES ASSUME Len(tickets) >= Capacity
               PROVE  tickets[Len(tickets) - Capacity + 1].stage = "freed"
    BY DEF TQ!Full
  <2> DEFINE n == tail - Capacity
  <2>1. n \in 0 .. (tail - 1) /\ Len(tickets) = tail
    BY <1>2, TicketsSeq
  <2>2. tickets[n + 1] = TicketOf(n) /\ n \in Nat
    BY <1>2, <2>1, TicketsSeq
  <2>3. Slot(n) = Slot(tail)
    <3>1. n + Capacity = tail
      BY <1>2
    <3> QED
      BY <2>2, <3>1, SlotNextLap
  <2>4. seq[Slot(n)] > n + 1
    BY <1>1, <1>2, <2>3
  <2>5. StageOf(n) = "freed"
    BY <1>2, <2>2, <2>4, StageFacts
  <2> QED
    BY <2>1, <2>2, <2>5 DEF TicketOf
<1> DEFINE new == [val |-> item[p], stage |-> "claimed"]
           T == {TicketOf(n) : n \in Nat} \cup {TicketOf(n)' : n \in Nat}
<1> PICK k \in Nat : k = tail
  BY <1>2
<1>4. TicketOf(k)' = new
  <2>1. seq'[Slot(k)] = k /\ put'[k + 1] = item[p]
    BY <1>1, <1>2
  <2>2. StageOf(k)' = "claimed"
    BY <2>1 DEF StageOf
  <2> QED
    BY <2>1, <2>2 DEF TicketOf
<1>5. \A n \in 0 .. (tail - 1) : TicketOf(n)' = TicketOf(n)
  <2> TAKE n \in 0 .. (tail - 1)
  <2>1. n \in Nat /\ n + 1 \in 1 .. tail
    BY <1>2
  <2> QED
    BY <1>1, <1>2, <2>1, TicketKept
<1> HIDE DEF new
<1>6. /\ tickets \in Seq({TicketOf(n) : n \in Nat}) /\ Len(tickets) = tail
      /\ \A i \in 1 .. tail : i - 1 \in 0 .. (tail - 1) /\ tickets[i] = TicketOf(i - 1)
  BY <1>2, TicketsSeq
<1>7. /\ tickets' \in Seq({TicketOf(n)' : n \in Nat}) /\ Len(tickets') = tail + 1
      /\ \A i \in 1 .. (tail + 1) : tickets'[i] = TicketOf(i - 1)'
  <2>1. tickets' = [i \in 1 .. (tail + 1) |-> TicketOf(i - 1)']
    BY <1>1 DEF tickets
  <2> DEFINE S == {TicketOf(n)' : n \in Nat}
  <2>2. \A i \in 1 .. (tail + 1) : TicketOf(i - 1)' \in S
    BY <1>2
  <2> HIDE DEF S
  <2>3. tickets' \in [1 .. (tail + 1) -> S]
    BY <2>1, <2>2
  <2>4. tickets' \in Seq(S) /\ Len(tickets') = tail + 1
    BY <1>2, <2>3
  <2> QED
    BY <2>1, <2>4 DEF S
<1>8. tickets \in Seq(T) /\ tickets' \in Seq(T) /\ new \in T
  <2>1. tickets \in Seq(T)
    BY <1>6, SeqMonotonic
  <2>2. tickets' \in Seq(T)
    BY <1>7, SeqMonotonic
  <2>3. new \in T
    BY <1>2, <1>4
  <2> QED
    BY <2>1, <2>2, <2>3
<1> HIDE DEF T
<1>9. tickets' = Append(tickets, new)
  <2>1. /\ Append(tickets, new) \in Seq(T) /\ Len(Append(tickets, new)) = tail + 1
        /\ \A i \in 1 .. tail : Append(tickets, new)[i] = tickets[i]
        /\ Append(tickets, new)[tail + 1] = new
    BY <1>6, <1>8, AppendProperties
  <2>2. \A i \in 1 .. (tail + 1) : tickets'[i] = Append(tickets, new)[i]
    <3> TAKE i \in 1 .. (tail + 1)
    <3>1. CASE i = tail + 1
      <4>1. i - 1 = k
        BY <1>2, <3>1
      <4>2. tickets'[i] = TicketOf(k)'
        BY <1>7, <4>1
      <4> QED
        BY <1>4, <2>1, <3>1, <4>2
    <3>2. CASE i # tail + 1
      BY <1>2, <1>5, <1>6, <1>7, <2>1, <3>2
    <3> QED
      BY <3>1, <3>2
  <2> QED
    BY <1>7, <1>8, <2>1, <2>2, SeqEqual
<1> QED
  BY <1>1, <1>3, <1>9 DEF TQ!Claim, new

(* c.data = v touches the message of no published ticket. *)
LEMMA WriteDataStutters ==
  ASSUME IInv, Capacity >= 2, NEW p \in Producers, WriteData(p)
  PROVE  tickets' = tickets
<1> USE CapacityType
<1>1. PICK m \in Nat : pos[p] = m
  BY DEF IInv, TypeOK, Threads
<1>2. /\ p \in Writers /\ m \in head .. (tail - 1) /\ seq[Slot(m)] = m
  BY <1>1 DEF IInv, WriterInv, Writers, Claimed, WriteData
<1>3. /\ head' = head /\ tail' = tail /\ seq' = seq /\ put' = put
      /\ \A i \in Slots : i # Slot(m) => data'[i] = data[i]
  BY <1>1 DEF WriteData, IInv, TypeOK
<1>4. \A n \in 0 .. (tail - 1) : TicketOf(n)' = TicketOf(n)
  <2> SUFFICES ASSUME NEW n \in 0 .. (tail - 1) PROVE TicketOf(n)' = TicketOf(n)
    OBVIOUS
  <2>1. n \in Nat /\ n < m + Capacity
    BY <1>1, <1>2, RingFacts
  <2>2. CASE Slot(n) # Slot(m)
    BY <1>3, <2>1, <2>2, RingFacts, TicketKept
  <2>3. CASE n = m
    BY <1>2, <1>3, <2>1, <2>3, RingFacts, TicketKept
  <2>4. CASE Slot(n) = Slot(m) /\ n # m
    <3>1. seq[Slot(n)] > n + 1
      BY <1>1, <1>2, <2>1, <2>4, RingFacts, LapsBehind
    <3> QED
      BY <1>3, <2>1, <3>1, RingFacts, TicketKept
  <2> QED
    BY <2>2, <2>3, <2>4
<1> QED
  BY <1>3, <1>4, RingFacts, TicketsKept

(* A store to one slot's sequence number moves one ticket: the others that *)
(* used the slot are laps behind and stay freed.                           *)
LEMMA SlotStored ==
  ASSUME IInv, Capacity >= 2, NEW m \in Nat, m < tail, tail <= m + Capacity,
         seq[Slot(m)] >= m, seq'[Slot(m)] \in Nat, seq'[Slot(m)] > m,
         \A i \in Slots : i # Slot(m) => seq'[i] = seq[i],
         head' = head, tail' = tail, data' = data, put' = put
  PROVE  \A n \in 0 .. (tail - 1) : n # m => TicketOf(n)' = TicketOf(n)
<1> USE CapacityType
<1> SUFFICES ASSUME NEW n \in 0 .. (tail - 1), n # m PROVE TicketOf(n)' = TicketOf(n)
  OBVIOUS
<1>1. n \in Nat /\ n < m + Capacity
  BY RingFacts
<1>2. /\ Slot(m) \in Slots /\ Slot(n) \in Slots /\ seq \in [Slots -> Nat]
  BY <1>1, SlotType DEF IInv, TypeOK
<1>3. CASE Slot(n) # Slot(m)
  BY <1>1, <1>2, <1>3, TicketKept
<1>4. CASE Slot(n) = Slot(m)
  <2>1. seq[Slot(n)] > n + 1 /\ n + Capacity <= m
    BY <1>1, <1>2, <1>4, LapsBehind
  <2>2. seq'[Slot(n)] > n + 1
    BY <1>1, <1>2, <1>4, <2>1
  <2> QED
    BY <1>1, <1>2, <1>4, <2>1, <2>2, TicketKept
<1> QED
  BY <1>3, <1>4

(* c.seq.store(pos + 1) publishes the ticket, with the message in the slot. *)
LEMMA PublishSlotPublishes ==
  ASSUME IInv, Capacity >= 2, NEW p \in Producers, PublishSlot(p)
  PROVE  \E i \in TQ!Tickets : TQ!Publish(i)
<1> USE CapacityType
<1>0. head \in Nat /\ tail \in Nat /\ head <= tail /\ tail <= head + Capacity
  BY RingFacts
<1>1. PICK m \in Nat : pos[p] = m
  BY DEF IInv, TypeOK, Threads
<1>2. /\ p \in Writers /\ m \in head .. (tail - 1) /\ seq[Slot(m)] = m
      /\ data[Slot(m)] = put[m + 1] /\ seq \in [Slots -> Nat]
  BY <1>1 DEF IInv, TypeOK, WriterInv, Writers, Claimed, PublishSlot
<1>3. /\ head' = head /\ tail' = tail /\ data' = data /\ put' = put
      /\ seq' = [seq EXCEPT ![Slot(m)] = m + 1]
  BY <1>1 DEF PublishSlot
<1>4. m \in 0 .. (tail - 1) /\ m < tail /\ ~(m < head) /\ tail <= m + Capacity
  BY <1>0, <1>2
<1>5. /\ seq'[Slot(m)] = m + 1
      /\ \A i \in Slots : i # Slot(m) => seq'[i] = seq[i]
  BY <1>2, <1>3, SlotType
<1>6. StageOf(m) = "claimed" /\ StageOf(m)' = "ready"
  BY <1>2, <1>3, <1>4, <1>5 DEF StageOf
<1>7. TicketOf(m)'.val = TicketOf(m).val
  BY <1>2, <1>3, <1>6 DEF TicketOf
<1>8. \A n \in 0 .. (tail - 1) : n # m => TicketOf(n)' = TicketOf(n)
  BY <1>0, <1>2, <1>3, <1>4, <1>5, SlotStored
<1>9. tickets' = [tickets EXCEPT ![m + 1].stage = "ready"]
  BY <1>3, <1>4, <1>6, <1>7, <1>8, RingFacts, StageMoved
<1>10. m + 1 \in DOMAIN tickets /\ tickets[m + 1].stage = "claimed"
  BY <1>4, <1>6, RingFacts, TicketsSeq DEF TicketOf
<1> QED
  BY <1>9, <1>10 DEF TQ!Tickets, TQ!Publish

(* A successful CAS on head_ takes the oldest ticket not yet taken. *)
LEMMA ClaimHeadTakes ==
  ASSUME IInv, Capacity >= 2, NEW c \in Consumers, ClaimHead(c)
  PROVE  \E i \in TQ!Tickets : TQ!Take(i)
<1> USE CapacityType
<1>1. PICK m \in Nat : head = m
  BY RingFacts
<1>2. /\ seq[Slot(m)] = m + 1 /\ head' = m + 1 /\ tail' = tail
      /\ seq' = seq /\ data' = data /\ put' = put
  BY <1>1 DEF IInv, ClaimHead, ConsumerAheadInv, ConsumerAhead
<1>3. m \in 0 .. (tail - 1)
  <2> SUFFICES ASSUME m = tail PROVE FALSE
    BY <1>1, RingFacts
  <2>1. m \in Open
    BY <1>1, RingFacts DEF Open
  <2>2. seq[Slot(m)] = m \/ seq[Slot(m)] = m - Capacity + 1
    BY <2>1 DEF IInv, OpenInv
  <2> QED
    BY <1>2, <2>2
<1>4. StageOf(m) = "ready" /\ StageOf(m)' = "taken"
  BY <1>1, <1>2 DEF StageOf
<1>5. TicketOf(m)'.val = TicketOf(m).val
  BY <1>2, <1>4 DEF TicketOf
<1>6. \A n \in 0 .. (tail - 1) : n # m => TicketOf(n)' = TicketOf(n)
  <2> SUFFICES ASSUME NEW n \in 0 .. (tail - 1), n # m PROVE TicketOf(n)' = TicketOf(n)
    OBVIOUS
  <2>1. n \in Nat /\ (n < head' <=> n < head)
    BY <1>1, <1>2, RingFacts
  <2> QED
    BY <1>2, <2>1, RingFacts, TicketKept
<1>7. tickets' = [tickets EXCEPT ![m + 1].stage = "taken"]
  BY <1>2, <1>3, <1>4, <1>5, <1>6, RingFacts, StageMoved
<1>8. m + 1 \in DOMAIN tickets /\ tickets[m + 1].stage = "ready"
  BY <1>3, <1>4, RingFacts, TicketsSeq DEF TicketOf
<1>9. ASSUME NEW j \in 1 .. m PROVE tickets[j].stage \in {"taken", "freed"}
  <2>1. j - 1 \in Nat /\ j - 1 < head /\ j \in 1 .. tail
    BY <1>1, <1>3, RingFacts
  <2>2. StageOf(j - 1) \in {"taken", "freed"}
    BY <2>1, RingFacts, BehindHead, StageFacts
  <2>3. tickets[j] = TicketOf(j - 1)
    BY <2>1, RingFacts, TicketsSeq
  <2> QED
    BY <2>2, <2>3 DEF TicketOf
<1>10. TQ!IsHead(m + 1)
  BY <1>8, <1>9 DEF TQ!IsHead, TQ!Out
<1> QED
  BY <1>7, <1>8, <1>10 DEF TQ!Tickets, TQ!Take

(* c.seq.store(pos + capacity_) frees the ticket. *)
LEMMA FreeSlotFrees ==
  ASSUME IInv, Capacity >= 2, NEW c \in Consumers, FreeSlot(c)
  PROVE  \E i \in TQ!Tickets : TQ!Free(i)
<1> USE CapacityType
<1>0. head \in Nat /\ tail \in Nat /\ head <= tail /\ tail <= head + Capacity
  BY RingFacts
<1>1. PICK m \in Nat : pos[c] = m
  BY DEF IInv, TypeOK, Threads
<1>2. /\ c \in Readers /\ m < head /\ tail <= m + Capacity
      /\ seq[Slot(m)] = m + 1 /\ data[Slot(m)] = put[m + 1] /\ seq \in [Slots -> Nat]
  BY <1>1 DEF IInv, TypeOK, ReaderInv, Readers, FreeSlot
<1>3. /\ head' = head /\ tail' = tail /\ data' = data /\ put' = put
      /\ seq' = [seq EXCEPT ![Slot(m)] = m + Capacity]
  BY <1>1 DEF FreeSlot
<1>4. m \in 0 .. (tail - 1) /\ m < tail
  BY <1>0, <1>2
<1>5. /\ seq'[Slot(m)] = m + Capacity
      /\ \A i \in Slots : i # Slot(m) => seq'[i] = seq[i]
  BY <1>2, <1>3, SlotType
<1>6. StageOf(m) = "taken" /\ StageOf(m)' = "freed"
  BY <1>2, <1>3, <1>4, <1>5 DEF StageOf
<1>7. TicketOf(m)'.val = TicketOf(m).val
  BY <1>2, <1>3, <1>6 DEF TicketOf
<1>8. \A n \in 0 .. (tail - 1) : n # m => TicketOf(n)' = TicketOf(n)
  BY <1>0, <1>2, <1>3, <1>4, <1>5, SlotStored
<1>9. tickets' = [tickets EXCEPT ![m + 1].stage = "freed"]
  BY <1>3, <1>4, <1>6, <1>7, <1>8, RingFacts, StageMoved
<1>10. m + 1 \in DOMAIN tickets /\ tickets[m + 1].stage = "taken"
  BY <1>4, <1>6, RingFacts, TicketsSeq DEF TicketOf
<1> QED
  BY <1>9, <1>10 DEF TQ!Tickets, TQ!Free

(* Every other step leaves cursors, cells and history alone, or copies out. *)
LEMMA OthersStutter ==
  ASSUME IInv, UNCHANGED <<head, tail, seq, data, put>>
  PROVE  tickets' = tickets
<1>1. \A n \in 0 .. (tail - 1) : TicketOf(n)' = TicketOf(n)
  BY DEF TicketOf, StageOf
<1> QED
  BY <1>1, RingFacts, TicketsKept

(* Every step of the ring is a step of the promise, or none. *)
LEMMA StepImplements ==
  ASSUME IInv, IInv', Capacity >= 2, [Next]_vars
  PROVE  [TQ!TNext]_tickets
<1> USE DEF TQ!TNext
<1>1. ASSUME NEW p \in Producers, ClaimTail(p) PROVE TQ!TNext
  BY <1>1, ClaimTailClaims
<1>2. ASSUME NEW p \in Producers, WriteData(p) PROVE tickets' = tickets
  BY <1>2, WriteDataStutters
<1>3. ASSUME NEW p \in Producers, PublishSlot(p) PROVE TQ!TNext
  BY <1>3, PublishSlotPublishes
<1>4. ASSUME NEW c \in Consumers, ClaimHead(c) PROVE TQ!TNext
  BY <1>4, ClaimHeadTakes
<1>5. ASSUME NEW c \in Consumers, FreeSlot(c) PROVE TQ!TNext
  BY <1>5, FreeSlotFrees
<1>6. ASSUME NEW t \in Producers,
             \/ \E v \in Values : CallProduce(t, v)
             \/ LoadTail(t) \/ SlotIsFree(t) \/ ReturnFull(t)
             \/ TailMovedOn(t) \/ CasTailFails(t)
      PROVE  tickets' = tickets
  BY <1>6, OthersStutter
  DEF CallProduce, LoadTail, SlotIsFree, ReturnFull, TailMovedOn, CasTailFails
<1>7. ASSUME NEW c \in Consumers,
             \/ CallConsume(c) \/ LoadHead(c) \/ SlotIsReady(c) \/ ReturnEmpty(c)
             \/ HeadMovedOn(c) \/ CasHeadFails(c) \/ ReadData(c)
      PROVE  tickets' = tickets
  BY <1>7, OthersStutter
  DEF CallConsume, LoadHead, SlotIsReady, ReturnEmpty, HeadMovedOn, CasHeadFails, ReadData
<1>8. CASE UNCHANGED vars
  BY <1>8, OthersStutter DEF vars
<1> HIDE DEF TQ!TNext
<1> QED
  BY <1>1, <1>2, <1>3, <1>4, <1>5, <1>6, <1>7, <1>8 DEF Next, ProduceStep, ConsumeStep

(* The lock-free ring implements the promise: whatever the threads do, the  *)
(* messages it accepts pass through the four stages of a ticket one by one, *)
(* in the order of the claims, and each is handed out once and whole.       *)
THEOREM Refinement ==
  ASSUME Capacity >= 2 PROVE Spec => ImplementsTicketQueue
<1>1. Init => TQ!TInit
  <2> SUFFICES ASSUME Init PROVE tickets = <<>>
    BY DEF TQ!TInit
  <2>1. tail = 0
    BY DEF Init
  <2> QED
    BY <2>1 DEF tickets
<1>2. IInv /\ IInv' /\ [Next]_vars => [TQ!TNext]_tickets
  BY StepImplements
<1> QED
  BY <1>1, <1>2, Invariance, PTL DEF Spec, ImplementsTicketQueue, TQ!TSpec
=============================================================================
