------------------------- MODULE TicketQueueProofs -------------------------
(***************************************************************************)
(* Theorems about TicketQueue, for every set of messages and every         *)
(* capacity: they hold of every queue that implements it.                  *)
(***************************************************************************)
EXTENDS TicketQueue, SequenceTheorems, WellFoundedInduction, TLAPS

TicketInv == TicketTypeOK /\ OneMessagePerSlot

(* There is at least one slot. *)
LEMMA CapacityType == Capacity \in Nat /\ Capacity >= 1
BY CapacityAssumption

(* The oldest ticket a new one could disturb was freed: so were those      *)
(* before it.                                                              *)
LEMMA ClaimKeeps ==
  ASSUME TicketInv, NEW v \in Values, Claim(v)
  PROVE  TicketInv'
<1> DEFINE new == [val |-> v, stage |-> "claimed"]
           T == [val : Values, stage : Stages]
<1>1. new \in T /\ new.stage = "claimed"
  BY DEF Stages
<1>2. hist \in Seq(T) /\ Len(hist) \in Nat /\ DOMAIN hist = 1 .. Len(hist)
  BY DEF TicketInv, TicketTypeOK
<1>3. hist' = Append(hist, new)
  BY DEF Claim
<1> HIDE DEF new, T
<1>4. /\ hist' \in Seq(T) /\ Len(hist') = Len(hist) + 1
      /\ \A i \in 1 .. Len(hist) : hist'[i] = hist[i]
      /\ DOMAIN hist' = 1 .. (Len(hist) + 1)
  BY <1>1, <1>2, <1>3, AppendProperties
<1>5. ASSUME NEW i \in 1 .. (Len(hist) + 1), NEW j \in 1 .. (Len(hist) + 1),
             j - i >= Capacity
      PROVE  hist'[i].stage = "freed"
  <2>1. i \in 1 .. Len(hist) /\ Len(hist) >= Capacity
    BY <1>2, <1>5, CapacityType
  <2>2. hist[Len(hist) - Capacity + 1].stage = "freed"
    BY <2>1 DEF Claim, Full
  <2>3. CASE i = Len(hist) - Capacity + 1
    BY <1>4, <2>1, <2>2, <2>3
  <2>4. CASE i # Len(hist) - Capacity + 1
    <3>1. Len(hist) \in DOMAIN hist /\ i \in DOMAIN hist /\ Len(hist) - i >= Capacity
      BY <1>2, <1>5, <2>1, <2>4, CapacityType
    <3> QED
      BY <1>4, <2>1, <3>1 DEF TicketInv, OneMessagePerSlot, Tickets
  <2> QED
    BY <2>3, <2>4
<1>6. OneMessagePerSlot'
  BY <1>4, <1>5 DEF OneMessagePerSlot, Tickets
<1> QED
  BY <1>4, <1>6 DEF TicketInv, TicketTypeOK, T

(* No ticket leaves the stage "freed". *)
LEMMA StageChangeKeeps ==
  ASSUME TicketInv, NEW i \in Tickets, NEW stage \in Stages,
         hist[i].stage # "freed",
         hist' = [hist EXCEPT ![i].stage = stage]
  PROVE  TicketInv'
<1> DEFINE T == [val : Values, stage : Stages]
           n == Len(hist)
<1>1. hist \in Seq(T) /\ Tickets = DOMAIN hist
  BY DEF TicketInv, TicketTypeOK, Tickets
<1>2. \A t \in T : [t EXCEPT !.stage = stage] \in T
  OBVIOUS
<1> HIDE DEF T
<1>3. /\ hist \in [1 .. n -> T] /\ n \in Nat
      /\ Tickets = 1 .. n /\ DOMAIN hist = 1 .. n
  BY <1>1
<1>4. /\ hist' \in [1 .. n -> T]
      /\ \A j \in 1 .. n : j # i => hist'[j] = hist[j]
  BY <1>2, <1>3
<1>5. hist' \in Seq(T) /\ DOMAIN hist' = 1 .. n
  BY <1>3, <1>4
<1>6. Tickets' = Tickets
  BY <1>3, <1>5 DEF Tickets
<1>7. TicketTypeOK'
  BY <1>5 DEF TicketTypeOK, T
<1>8. \A j \in Tickets : hist[j].stage = "freed" => hist'[j].stage = "freed"
  BY <1>3, <1>4
<1>9. OneMessagePerSlot'
  BY <1>6, <1>8 DEF TicketInv, OneMessagePerSlot
<1> QED
  BY <1>7, <1>9 DEF TicketInv

(* Every step of the queue keeps the types and the slots apart. *)
LEMMA StepKeeps == TicketInv /\ [TNext]_hist => TicketInv'
<1> SUFFICES ASSUME TicketInv, [TNext]_hist PROVE TicketInv'
  OBVIOUS
<1>1. ASSUME NEW v \in Values, Claim(v) PROVE TicketInv'
  BY <1>1, ClaimKeeps
<1>2. ASSUME NEW i \in Tickets, Publish(i) PROVE TicketInv'
  BY <1>2, StageChangeKeeps DEF Publish, Stages
<1>3. ASSUME NEW i \in Tickets, Take(i) PROVE TicketInv'
  BY <1>3, StageChangeKeeps DEF Take, Stages
<1>4. ASSUME NEW i \in Tickets, Free(i) PROVE TicketInv'
  BY <1>4, StageChangeKeeps DEF Free, Stages
<1>5. CASE UNCHANGED hist
  BY <1>5 DEF TicketInv, TicketTypeOK, OneMessagePerSlot, Tickets
<1> QED
  BY <1>1, <1>2, <1>3, <1>4, <1>5 DEF TNext

(* No slot ever carries two messages. *)
THEOREM SlotsNeverShared == TSpec => []OneMessagePerSlot
<1>1. TInit => TicketInv
  BY DEF TInit, TicketInv, TicketTypeOK, OneMessagePerSlot, Tickets
<1>2. TicketInv => OneMessagePerSlot
  BY DEF TicketInv
<1> QED
  BY <1>1, <1>2, StepKeeps, PTL DEF TSpec

----------------------------------------------------------------------------
(* Facts about the tickets, for the components that are built on a queue   *)
(* like this one.                                                          *)

(* A set of numbers that is not empty has a smallest element. *)
LEMMA SmallestElement ==
  ASSUME NEW S \in SUBSET Nat, S # {}
  PROVE  \E m \in S : \A k \in S : m <= k
<1> DEFINE R == OpToRel(<, Nat)
<1>1. IsWellFoundedOn(R, Nat)
  BY NatLessThanWellFounded, Zenon
<1>2. \A x, y \in Nat : <<x, y>> \in R <=> x < y
  BY Zenon DEF OpToRel
<1> HIDE DEF R
<1>3. \E x \in S : \A y \in S : ~(<<y, x>> \in R)
  BY <1>1, WFMin
<1>4. PICK m \in S : \A k \in S : ~(<<k, m>> \in R)
  BY <1>3
<1>5. \A k \in S : m <= k
  <2> TAKE k \in S
  <2>1. k \in Nat /\ m \in Nat /\ ~(<<k, m>> \in R)
    BY <1>4
  <2>2. ~(k < m)
    BY <1>2, <2>1
  <2> QED
    BY <2>1, <2>2
<1> QED
  BY <1>5

(* A function on 1 .. n is a sequence. *)
LEMMA FunctionIsSeq ==
  ASSUME NEW S, NEW n \in Nat, NEW f \in [1 .. n -> S]
  PROVE  f \in Seq(S) /\ Len(f) = n /\ DOMAIN f = 1 .. n
OBVIOUS

(* The tickets have their type. *)
LEMMA HistFacts ==
  ASSUME TicketTypeOK
  PROVE  /\ Len(hist) \in Nat /\ Tickets = 1 .. Len(hist)
         /\ \A i \in Tickets : /\ hist[i] \in [val : Values, stage : Stages]
                               /\ hist[i].val \in Values /\ hist[i].stage \in Stages
<1> DEFINE T == [val : Values, stage : Stages]
<1>1. hist \in Seq(T)
  BY DEF TicketTypeOK
<1>2. \A t \in T : t.val \in Values /\ t.stage \in Stages
  OBVIOUS
<1> HIDE DEF T
<1>3. Len(hist) \in Nat /\ Tickets = 1 .. Len(hist) /\ \A i \in Tickets : hist[i] \in T
  BY <1>1 DEF Tickets
<1> QED
  BY <1>2, <1>3 DEF T

(* A ticket is claimed: the others stay as they are. *)
LEMMA ClaimFacts ==
  ASSUME TicketTypeOK, NEW v \in Values, Claim(v)
  PROVE  /\ TicketTypeOK' /\ Len(hist') = Len(hist) + 1
         /\ Tickets' = 1 .. (Len(hist) + 1)
         /\ \A i \in Tickets : hist'[i] = hist[i]
         /\ hist'[Len(hist) + 1] = [val |-> v, stage |-> "claimed"]
<1> DEFINE T == [val : Values, stage : Stages]
           new == [val |-> v, stage |-> "claimed"]
<1>1. new \in T
  BY DEF Stages
<1>2. hist \in Seq(T) /\ Tickets = 1 .. Len(hist) /\ Len(hist) \in Nat
  BY HistFacts DEF TicketTypeOK
<1>3. hist' = Append(hist, new)
  BY DEF Claim
<1> HIDE DEF T, new
<1>4. /\ hist' \in Seq(T) /\ Len(hist') = Len(hist) + 1
      /\ \A i \in 1 .. Len(hist) : hist'[i] = hist[i]
      /\ hist'[Len(hist) + 1] = new
  BY <1>1, <1>2, <1>3, AppendProperties
<1>5. DOMAIN hist' = 1 .. (Len(hist) + 1)
  BY <1>2, <1>4
<1> QED
  BY <1>2, <1>4, <1>5 DEF TicketTypeOK, Tickets, T, new

(* One ticket moves to another stage. *)
LEMMA StageFacts ==
  ASSUME TicketTypeOK, NEW i \in Tickets, NEW stage \in Stages,
         hist' = [hist EXCEPT ![i].stage = stage]
  PROVE  /\ TicketTypeOK' /\ Len(hist') = Len(hist) /\ Tickets' = Tickets
         /\ \A j \in Tickets : hist'[j].val = hist[j].val /\ (j # i => hist'[j] = hist[j])
         /\ hist'[i].stage = stage
<1> DEFINE T == [val : Values, stage : Stages]
           n == Len(hist)
<1>1. hist \in Seq(T) /\ n \in Nat /\ Tickets = 1 .. n
  BY HistFacts DEF TicketTypeOK
<1>2. \A t \in T : /\ [t EXCEPT !.stage = stage] \in T
                   /\ [t EXCEPT !.stage = stage].val = t.val
                   /\ [t EXCEPT !.stage = stage].stage = stage
  OBVIOUS
<1> HIDE DEF T, n
<1>3. hist \in [1 .. n -> T]
  BY <1>1 DEF n
<1>4. /\ hist' \in [1 .. n -> T]
      /\ \A j \in 1 .. n : j # i => hist'[j] = hist[j]
      /\ hist'[i] = [hist[i] EXCEPT !.stage = stage]
  BY <1>1, <1>2, <1>3
<1>5. hist' \in Seq(T) /\ DOMAIN hist' = 1 .. n /\ Len(hist') = n
  BY <1>1, <1>4
<1>6. hist[i] \in T
  BY <1>1, <1>3
<1> QED
  BY <1>1, <1>2, <1>4, <1>5, <1>6 DEF TicketTypeOK, Tickets, T, n

(* The oldest ticket that is not out is hidden by its producer, or ready. *)
LEMMA NothingReady ==
  ASSUME TicketTypeOK, ~HeadReady, NEW i \in Tickets,
         \A j \in 1 .. i : hist[j].stage # "claimed"
  PROVE  Out(i)
<1> SUFFICES ASSUME ~Out(i) PROVE FALSE
  OBVIOUS
<1>1. /\ Len(hist) \in Nat /\ Tickets = 1 .. Len(hist)
      /\ \A j \in Tickets : hist[j].stage \in Stages
  BY HistFacts
<1> DEFINE Waiting == {j \in Tickets : ~Out(j)}
<1>2. Waiting \in SUBSET Nat /\ Waiting # {}
  BY <1>1
<1>3. PICK m \in Waiting : \A k \in Waiting : m <= k
  BY <1>2, SmallestElement
<1>4. m \in Tickets /\ ~Out(m) /\ m <= i
  BY <1>3
<1>5. \A j \in 1 .. (m - 1) : Out(j)
  <2> TAKE j \in 1 .. (m - 1)
  <2>1. j \in Tickets /\ ~(m <= j)
    BY <1>1, <1>4
  <2> QED
    BY <1>3, <2>1
<1>6. hist[m].stage = "ready"
  BY <1>1, <1>4 DEF Stages, Out
<1> QED
  BY <1>4, <1>5, <1>6 DEF HeadReady, IsHead
=============================================================================
