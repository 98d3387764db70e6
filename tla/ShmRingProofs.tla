--------------------------- MODULE ShmRingProofs ---------------------------
(***************************************************************************)
(* Theorems about ShmRing, for any processes, any capacity and any number  *)
(* of regions, deaths and calls: what a reader gets from a region was put  *)
(* there, and a region loses its name only to its maker.                   *)
(***************************************************************************)
EXTENDS ShmRing, SequenceTheorems, TLAPS

----------------------------------------------------------------------------
(* The slots of the positions.                                             *)

LEMMA CapacityType == Capacity \in Nat /\ Capacity >= 2
BY CapacityAssumption

(* Quotient and remainder are unique. *)
LEMMA RemainderUnique ==
  ASSUME NEW a \in Int, NEW b \in Int, NEW i \in Slots, NEW j \in Slots,
         Capacity * a + i = Capacity * b + j
  PROVE  i = j /\ a = b
<1> DEFINE k == a - b
<1>1. i \in Int /\ j \in Int /\ j - i < Capacity /\ i - j < Capacity
  BY CapacityType DEF Slots
<1>2. k \in Int /\ Capacity * k = j - i
  BY <1>1, CapacityType
<1>3. k = 0 => i = j /\ a = b
  <2> SUFFICES ASSUME k = 0 PROVE i = j /\ a = b
    OBVIOUS
  <2>1. a = b
    OBVIOUS
  <2> QED
    BY <1>1, <2>1, CapacityType
<1> HIDE DEF k
<1>4. ~(k <= -1)
  BY <1>1, <1>2, CapacityType
<1>5. ~(k >= 1)
  BY <1>1, <1>2, CapacityType
<1> QED
  BY <1>2, <1>3, <1>4, <1>5

(* A position is a number of laps and its slot. *)
LEMMA PlaceDivision ==
  ASSUME NEW n \in Nat
  PROVE  /\ Place(n) \in Slots
         /\ (n \div Capacity) \in Int
         /\ n = Capacity * (n \div Capacity) + Place(n)
<1>1. Place(n) = n % Capacity
  BY CapacityType DEF Place, Slot
<1> QED
  BY <1>1, CapacityType DEF Slots

LEMMA PlaceType ==
  ASSUME NEW n \in Nat
  PROVE  Place(n) \in Slots
BY PlaceDivision

(* Positions less than a lap apart have slots of their own. *)
LEMMA PlacesApart ==
  ASSUME NEW m \in Nat, NEW n \in Nat, m # n, m < n + Capacity, n < m + Capacity
  PROVE  Place(m) # Place(n)
<1> DEFINE a == m \div Capacity
           b == n \div Capacity
<1>1. a \in Int /\ m = Capacity * a + Place(m) /\ Place(m) \in Slots
  BY PlaceDivision
<1>2. b \in Int /\ n = Capacity * b + Place(n) /\ Place(n) \in Slots
  BY PlaceDivision
<1> HIDE DEF a, b
<1> SUFFICES ASSUME Place(m) = Place(n) PROVE FALSE
  OBVIOUS
<1> DEFINE k == a - b
<1>3. k \in Int /\ Capacity * k = m - n
  BY <1>1, <1>2, CapacityType DEF Slots
<1> HIDE DEF k
<1>4. k # 0
  BY <1>3, CapacityType
<1>5. ~(k <= -1)
  BY <1>3, CapacityType
<1>6. ~(k >= 1)
  BY <1>3, CapacityType
<1> QED
  BY <1>3, <1>4, <1>5, <1>6

(* A lap later it is the same slot again. *)
LEMMA PlaceOfNextLap ==
  ASSUME NEW n \in Nat
  PROVE  Place(n + Capacity) = Place(n)
<1> DEFINE a == n \div Capacity
           b == (n + Capacity) \div Capacity
<1>1. a \in Int /\ n = Capacity * a + Place(n) /\ Place(n) \in Slots
  BY PlaceDivision
<1>2. n + Capacity \in Nat
  BY CapacityType
<1>3. /\ b \in Int /\ n + Capacity = Capacity * b + Place(n + Capacity)
      /\ Place(n + Capacity) \in Slots
  BY <1>2, PlaceDivision
<1> HIDE DEF a, b
<1>4. Capacity * (a + 1) + Place(n) = Capacity * b + Place(n + Capacity)
  BY <1>1, <1>3, CapacityType DEF Slots
<1>5. a + 1 \in Int
  BY <1>1
<1> QED
  BY <1>1, <1>3, <1>4, <1>5, RemainderUnique

(* The first lap. *)
LEMMA PlaceOfFirstLap ==
  ASSUME NEW n \in Slots
  PROVE  Place(n) = n
<1>1. n \in Nat /\ n < Capacity
  BY CapacityType DEF Slots
<1>2. n % Capacity = n
  BY <1>1, CapacityType
<1>3. Place(n) = n % Capacity
  BY CapacityType DEF Place, Slot
<1> QED
  BY <1>2, <1>3

(* With the mask that create() writes, and at the first position with a    *)
(* mask of 0 as well, a call uses the slot of its position.                *)
LEMMA SlotIsPlace ==
  ASSUME NEW n \in Nat, NEW mask \in {0, Capacity - 1}, mask = Capacity - 1 \/ n = 0
  PROVE  Slot(n, mask) = Place(n)
<1>1. 0 % 1 = 0 /\ 0 % Capacity = 0
  BY CapacityType
<1>2. CASE mask = Capacity - 1
  BY <1>2 DEF Place
<1>3. CASE mask = 0 /\ n = 0
  BY <1>1, <1>3, CapacityType DEF Place, Slot
<1> QED
  BY <1>2, <1>3

(* Any mask that a call can have read gives a slot. *)
LEMMA SlotType ==
  ASSUME NEW n \in Nat, NEW mask \in {0, Capacity - 1}
  PROVE  Slot(n, mask) \in Slots
<1>1. CASE mask = 0
  <2>1. n % 1 = 0
    OBVIOUS
  <2> QED
    BY <1>1, <2>1, CapacityType DEF Slot, Slots
<1>2. CASE mask = Capacity - 1
  BY <1>2, PlaceType DEF Place
<1> QED
  BY <1>1, <1>2

----------------------------------------------------------------------------
(* What the type invariant says of one region and of one process.          *)

LEMMA RegionTypes ==
  ASSUME TypeOK, NEW r \in Regions
  PROVE  /\ head[r] \in Nat /\ tail[r] \in Nat
         /\ seq[r] \in [Slots -> Nat] /\ data[r] \in [Slots -> Messages]
         /\ put[r] \in Seq(Messages) /\ Len(put[r]) = tail[r]
         /\ got[r] \in Seq([pos : Nat, msg : Messages])
         /\ DOMAIN got[r] = 1 .. Len(got[r]) /\ Len(got[r]) \in Nat
         /\ \A k \in DOMAIN got[r] : got[r][k].pos \in Nat /\ got[r][k].msg \in Messages
<1>1. /\ head[r] \in Nat /\ tail[r] \in Nat
      /\ seq[r] \in [Slots -> Nat] /\ data[r] \in [Slots -> Messages]
      /\ put[r] \in Seq(Messages) /\ Len(put[r]) = tail[r]
      /\ got[r] \in Seq([pos : Nat, msg : Messages])
  BY DEF TypeOK
<1>2. \A k \in 1 .. Len(got[r]) : got[r][k] \in [pos : Nat, msg : Messages]
  BY <1>1, ElementOfSeq
<1>3. DOMAIN got[r] = 1 .. Len(got[r]) /\ Len(got[r]) \in Nat
  BY <1>1, LenProperties
<1> QED
  BY <1>1, <1>2, <1>3

LEMMA ProcessTypes ==
  ASSUME TypeOK, NEW p \in Processes
  PROVE  /\ pos[p] \in Nat /\ item[p] \in Messages
         /\ lmask[p] \in {0, Capacity - 1} /\ lcap[p] \in {0, Capacity}
         /\ pc[p] \notin {"down", "exclusive", "open"} =>
              at[p] \in 1 .. made /\ at[p] \in Regions
<1>1. /\ made \in 0 .. MaxRegions /\ MaxRegions \in Nat /\ at[p] \in 0 .. made
      /\ pc[p] \notin {"down", "exclusive", "open"} => at[p] # 0
  BY BoundsAssumption DEF TypeOK
<1>2. pc[p] \notin {"down", "exclusive", "open"} => at[p] \in 1 .. made /\ at[p] \in 1 .. MaxRegions
  BY <1>1
<1>3. /\ pos[p] \in Nat /\ item[p] \in Messages
      /\ lmask[p] \in {0, Capacity - 1} /\ lcap[p] \in {0, Capacity}
  BY DEF TypeOK
<1> QED
  BY <1>2, <1>3 DEF Regions

(* The messages of a region stay where they are when one is appended. *)
LEMMA PutGrows ==
  ASSUME TypeOK, NEW r \in Regions, NEW m \in Messages, put'[r] = Append(put[r], m)
  PROVE  /\ put'[r] \in Seq(Messages) /\ Len(put'[r]) = tail[r] + 1
         /\ \A n \in 1 .. tail[r] : put'[r][n] = put[r][n]
         /\ put'[r][tail[r] + 1] = m
<1>1. put[r] \in Seq(Messages) /\ Len(put[r]) = tail[r]
  BY RegionTypes
<1>2. /\ Append(put[r], m) \in Seq(Messages)
      /\ Len(Append(put[r], m)) = Len(put[r]) + 1
      /\ \A i \in 1 .. Len(put[r]) : Append(put[r], m)[i] = put[r][i]
      /\ Append(put[r], m)[Len(put[r]) + 1] = m
  BY <1>1, AppendProperties
<1> QED
  BY <1>1, <1>2

----------------------------------------------------------------------------
(* Steps that do not touch a region.                                       *)

(* The ring is as it was, and so is every process that uses it. *)
Quiet(r) ==
  /\ UNCHANGED <<head[r], tail[r], seq[r], data[r], put[r], got[r]>>
  /\ r \in complete' <=> r \in complete
  /\ \A p \in Processes :
       at'[p] = r /\ pc'[p] \in Pushing \cup Popping =>
         /\ at[p] = r /\ pc'[p] = pc[p]
         /\ lmask'[p] = lmask[p] /\ pos'[p] = pos[p] /\ item'[p] = item[p]

LEMMA QuietKeeps ==
  ASSUME NEW r \in Regions, RingInv(r), Quiet(r)
  PROVE  RingInv(r)'
<1>1. /\ head'[r] = head[r] /\ tail'[r] = tail[r] /\ seq'[r] = seq[r]
      /\ data'[r] = data[r] /\ put'[r] = put[r] /\ got'[r] = got[r]
      /\ r \in complete' <=> r \in complete
  BY DEF Quiet
<1>2. ASSUME NEW p \in Processes, at'[p] = r, pc'[p] \in Pushing \cup Popping
      PROVE  /\ at[p] = r /\ pc'[p] = pc[p]
             /\ lmask'[p] = lmask[p] /\ pos'[p] = pos[p] /\ item'[p] = item[p]
  BY <1>2 DEF Quiet
<1>3. r \in complete => (Window(r) => Window(r)')
  BY <1>1 DEF Window
<1>4. GotInv(r) => GotInv(r)'
  BY <1>1 DEF GotInv
<1>5. OwnersApart(r) => OwnersApart(r)'
  BY <1>2 DEF OwnersApart, Pushing, Popping
<1>6. Untouched(r) => Untouched(r)'
  BY <1>1, <1>2 DEF Untouched, Pushing, Popping
<1>7. ASSUME NEW p \in Processes, at'[p] = r PROVE CallInv(r, p)'
  <2>1. CASE pc'[p] \notin Pushing \cup Popping
    BY <2>1 DEF CallInv, Pushing, Popping
  <2>2. CASE pc'[p] \in Pushing \cup Popping
    <3>1. /\ at[p] = r /\ pc'[p] = pc[p]
          /\ lmask'[p] = lmask[p] /\ pos'[p] = pos[p] /\ item'[p] = item[p]
      BY <1>2, <1>7, <2>2
    <3>2. CallInv(r, p)
      BY <3>1 DEF RingInv
    <3> QED
      BY <1>1, <3>1, <3>2 DEF CallInv, WriterOwns, ReaderOwns
  <2> QED
    BY <2>1, <2>2
<1> QED
  BY <1>1, <1>3, <1>4, <1>5, <1>6, <1>7 DEF RingInv

----------------------------------------------------------------------------
(* The steps of push().                                                    *)

(* A process that claims or owns a slot is in a region that is complete. *)
LEMMA InRing ==
  ASSUME ShmInv, NEW p \in Processes, at[p] \notin early,
         pc[p] \in Pushing \cup {"read", "free"}
  PROVE  /\ at[p] \in Regions /\ at[p] \in complete
         /\ Window(at[p]) /\ OwnersApart(at[p]) /\ GotInv(at[p]) /\ CallInv(at[p], p)
         /\ \A q \in Processes : at[q] = at[p] => CallInv(at[p], q)
<1>1. at[p] \in Regions
  BY ProcessTypes DEF ShmInv, Pushing
<1>2. RingInv(at[p])
  BY <1>1 DEF ShmInv
<1>3. ~Untouched(at[p])
  BY DEF Untouched
<1> QED
  BY <1>1, <1>2, <1>3 DEF RingInv

LEMMA CallPushKeeps ==
  ASSUME ShmInv, NEW w \in Writers, CallPush(w), at[w] \notin early'
  PROVE  RingInv(at[w])'
<1> USE DEF CallPush, Goto
<1>1. PICK r : r = at[w]
  OBVIOUS
<1>2. w \in Processes /\ r \in Regions /\ r \in complete /\ r \notin early
  BY <1>1, ProcessTypes DEF ShmInv, Processes
<1>3. RingInv(r) /\ header[r].mask = Capacity - 1
  BY <1>2 DEF ShmInv, HeaderInv
<1>4. /\ head'[r] = head[r] /\ tail'[r] = tail[r] /\ seq'[r] = seq[r]
      /\ data'[r] = data[r] /\ put'[r] = put[r] /\ got'[r] = got[r]
      /\ complete' = complete /\ at' = at
  BY DEF regionVars, procVars
<1>5. pc'[w] = "push" /\ lmask'[w] = Capacity - 1
  BY <1>1, <1>2, <1>3 DEF ShmInv, TypeOK
<1>6. ASSUME NEW p \in Processes, p # w
      PROVE  pc'[p] = pc[p] /\ lmask'[p] = lmask[p] /\ pos'[p] = pos[p] /\ item'[p] = item[p]
  BY <1>6 DEF ShmInv, TypeOK
<1>7. Window(r)' /\ GotInv(r)'
  BY <1>2, <1>3, <1>4 DEF RingInv, Window, GotInv
<1>8. OwnersApart(r)'
  BY <1>2, <1>3, <1>4, <1>5, <1>6 DEF RingInv, OwnersApart
<1>9. ASSUME NEW p \in Processes, at[p] = r PROVE CallInv(r, p)'
  <2>1. CASE p = w
    BY <1>5, <2>1 DEF CallInv, Pushing
  <2>2. CASE p # w
    BY <1>3, <1>4, <1>6, <1>9, <2>2 DEF RingInv, CallInv, WriterOwns, ReaderOwns
  <2> QED
    BY <2>1, <2>2
<1> QED
  BY <1>1, <1>2, <1>4, <1>7, <1>8, <1>9 DEF RingInv

(* A writer claims the tail when its slot is free: then the window is not  *)
(* full.                                                                   *)
LEMMA TailIsFree ==
  ASSUME ShmInv, NEW w \in Writers, ClaimTail(w), at[w] \notin early
  PROVE  /\ seq[at[w]][Place(tail[at[w]])] = tail[at[w]]
         /\ head[at[w]] <= tail[at[w]] /\ tail[at[w]] < head[at[w]] + Capacity
<1>1. PICK r : r = at[w]
  OBVIOUS
<1>2. TypeOK /\ w \in Processes /\ pc[w] = "push"
  BY DEF ShmInv, Processes, ClaimTail
<1>3. r \in Regions /\ Window(r) /\ CallInv(r, w)
  BY <1>1, <1>2, InRing DEF Pushing
<1>4. head[r] \in Nat /\ tail[r] \in Nat
  BY <1>2, <1>3, RegionTypes
<1>5. lmask[w] = Capacity - 1 /\ Slot(tail[r], lmask[w]) = Place(tail[r])
  BY <1>2, <1>3 DEF CallInv, Place, Pushing
<1>6. seq[r][Place(tail[r])] = tail[r]
  BY <1>1, <1>5 DEF ClaimTail
<1>7. head[r] <= tail[r] /\ tail[r] <= head[r] + Capacity
  BY <1>3 DEF Window
<1>8. ASSUME tail[r] = head[r] + Capacity PROVE FALSE
  <2>1. head[r] \in head[r] .. tail[r] - 1
    BY <1>4, <1>8, CapacityType
  <2>2. seq[r][Place(head[r])] \in {head[r], head[r] + 1}
    BY <1>3, <2>1 DEF Window
  <2>3. Place(tail[r]) = Place(head[r])
    BY <1>4, <1>8, PlaceOfNextLap
  <2> QED
    BY <1>4, <1>6, <1>8, <2>2, <2>3, CapacityType
<1>9. tail[r] < head[r] + Capacity
  BY <1>4, <1>7, <1>8, CapacityType
<1> QED
  BY <1>1, <1>6, <1>7, <1>9

(* The claim: the slot at the tail is free, so the tail is not a lap ahead *)
(* of the head, nor of a reader that still copies.                         *)
LEMMA ClaimTailKeeps ==
  ASSUME ShmInv, NEW w \in Writers, ClaimTail(w), at[w] \notin early
  PROVE  RingInv(at[w])'
<1> USE DEF Goto
<1>1. PICK r : r = at[w]
  OBVIOUS
<1>2. TypeOK /\ w \in Processes /\ pc[w] = "push"
  BY DEF ShmInv, Processes, ClaimTail
<1>3. /\ r \in Regions /\ r \in complete
      /\ Window(r) /\ OwnersApart(r) /\ GotInv(r) /\ CallInv(r, w)
      /\ \A q \in Processes : at[q] = r => CallInv(r, q)
  BY <1>1, <1>2, InRing DEF Pushing
<1>4. /\ head[r] \in Nat /\ tail[r] \in Nat /\ seq[r] \in [Slots -> Nat]
      /\ \A k \in DOMAIN got[r] : got[r][k].pos \in Nat
      /\ \A q \in Processes : pos[q] \in Nat
      /\ item[w] \in Messages
  BY <1>2, <1>3, RegionTypes, ProcessTypes
<1>5. lmask[w] = Capacity - 1 /\ Slot(tail[r], lmask[w]) = Place(tail[r])
  BY <1>2, <1>3 DEF CallInv, Place, Pushing
<1>6. seq[r][Place(tail[r])] = tail[r]
  BY <1>1, TailIsFree
<1>7. /\ tail'[r] = tail[r] + 1 /\ put'[r] = Append(put[r], item[w])
      /\ pos'[w] = tail[r] /\ pc'[w] = "write"
      /\ head' = head /\ seq' = seq /\ data' = data /\ got' = got
      /\ complete' = complete /\ at' = at /\ lmask' = lmask /\ item' = item
      /\ \A p \in Processes : p # w => pc'[p] = pc[p] /\ pos'[p] = pos[p]
  BY <1>1, <1>2, <1>3 DEF ClaimTail, TypeOK, regionVars, procVars
<1>8. /\ \A n \in 1 .. tail[r] : put'[r][n] = put[r][n]
      /\ put'[r][tail[r] + 1] = item[w]
  BY <1>2, <1>3, <1>4, <1>7, PutGrows
<1>9. head[r] <= tail[r] /\ tail[r] < head[r] + Capacity
  BY <1>1, TailIsFree
<1>10. Window(r)'
  <2>1. ASSUME NEW n \in head[r] .. tail[r]
        PROVE  \/ seq[r][Place(n)] = n
               \/ seq[r][Place(n)] = n + 1 /\ data[r][Place(n)] = put'[r][n + 1]
    <3>1. CASE n = tail[r]
      BY <1>6, <3>1
    <3>2. CASE n # tail[r]
      <4>1. n \in head[r] .. tail[r] - 1 /\ n + 1 \in 1 .. tail[r]
        BY <1>4, <3>2
      <4> QED
        BY <1>3, <1>8, <4>1 DEF Window
    <3> QED
      BY <3>1, <3>2
  <2>2. ASSUME NEW n \in tail[r] + 1 .. head[r] + Capacity - 1 PROVE seq[r][Place(n)] <= n
    <3>1. n \in tail[r] .. head[r] + Capacity - 1
      BY <1>4, CapacityType
    <3> QED
      BY <1>3, <3>1 DEF Window
  <2>3. head'[r] .. tail'[r] - 1 = head[r] .. tail[r]
    BY <1>4, <1>7
  <2>4. head'[r] <= tail'[r] /\ tail'[r] <= head'[r] + Capacity
    BY <1>4, <1>7, <1>9, CapacityType
  <2> QED
    BY <1>7, <2>1, <2>2, <2>3, <2>4 DEF Window
<1>11. OwnersApart(r)'
  <2>1. ASSUME NEW p \in Processes, at[p] = r, pc[p] \in {"write", "publish"}
        PROVE  pos[p] # tail[r]
    <3>1. pos[p] \in head[r] .. tail[r] - 1
      BY <1>3, <2>1 DEF CallInv, WriterOwns
    <3> QED
      BY <1>4, <3>1
  <2> QED
    BY <1>3, <1>7, <2>1 DEF OwnersApart
<1>12. GotInv(r)'
  <2>1. ASSUME NEW k \in DOMAIN got[r]
        PROVE  put'[r][got[r][k].pos + 1] = put[r][got[r][k].pos + 1]
    <3>1. got[r][k].pos < head[r] /\ got[r][k].pos \in Nat
      BY <1>3, <1>4 DEF GotInv
    <3>2. got[r][k].pos + 1 \in 1 .. tail[r]
      BY <1>4, <1>9, <3>1
    <3> QED
      BY <1>8, <3>2
  <2> QED
    BY <1>3, <1>7, <2>1 DEF GotInv
<1>13. ASSUME NEW p \in Processes, at[p] = r PROVE CallInv(r, p)'
  <2>1. CASE p = w
    <3>1. pos'[w] \in head'[r] .. tail'[r] - 1 /\ seq'[r][Place(pos'[w])] = pos'[w]
      BY <1>4, <1>6, <1>7, <1>9
    <3>2. item'[w] = put'[r][pos'[w] + 1]
      BY <1>7, <1>8
    <3> QED
      BY <1>5, <1>7, <2>1, <3>1, <3>2 DEF CallInv, WriterOwns
  <2>2. CASE p # w
    <3>1. CallInv(r, p) /\ pc'[p] = pc[p] /\ pos'[p] = pos[p]
      BY <1>3, <1>7, <1>13, <2>2
    <3>2. CASE pc[p] \in {"write", "publish"}
      <4>1. WriterOwns(r, p)
        BY <3>1, <3>2 DEF CallInv
      <4>2. pos[p] \in head[r] .. tail[r] /\ pos[p] + 1 \in 1 .. tail[r]
        BY <1>4, <4>1 DEF WriterOwns
      <4>3. /\ pos'[p] \in head'[r] .. tail'[r] - 1 /\ seq'[r][Place(pos'[p])] = pos'[p]
            /\ put'[r][pos'[p] + 1] = put[r][pos[p] + 1]
        <5>1. pos[p] \in head[r] .. (tail[r] + 1) - 1
          BY <1>4, <4>2
        <5> QED
          BY <1>7, <1>8, <3>1, <4>1, <4>2, <5>1 DEF WriterOwns
      <4>4. WriterOwns(r, p)'
        BY <1>7, <3>1, <4>1, <4>3 DEF WriterOwns
      <4> QED
        BY <1>7, <3>1, <3>2, <4>4 DEF CallInv, Pushing
    <3>3. CASE pc[p] \in {"read", "free"}
      <4>1. ReaderOwns(r, p) /\ pos[p] \in Nat
        BY <1>4, <3>1, <3>3 DEF CallInv
      <4>2. pos[p] + 1 \in 1 .. tail[r]
        BY <1>4, <1>9, <4>1 DEF ReaderOwns
      <4>3. tail[r] # pos[p] + Capacity
        <5> SUFFICES ASSUME tail[r] = pos[p] + Capacity PROVE FALSE
          OBVIOUS
        <5>1. Place(tail[r]) = Place(pos[p]) /\ seq[r][Place(pos[p])] = pos[p] + 1
          BY <4>1, PlaceOfNextLap DEF ReaderOwns
        <5> QED
          BY <1>6, <4>1, <5>1, CapacityType
      <4>4. tail[r] + 1 <= pos[p] + Capacity
        <5>1. tail[r] <= pos[p] + Capacity
          BY <4>1 DEF ReaderOwns
        <5> QED
          BY <1>4, <4>1, <4>3, <5>1, CapacityType
      <4>5. ReaderOwns(r, p)'
        BY <1>7, <1>8, <3>1, <4>1, <4>2, <4>4 DEF ReaderOwns
      <4> QED
        BY <1>7, <3>1, <3>3, <4>5 DEF CallInv, Pushing
    <3>4. CASE pc[p] \notin {"write", "publish", "read", "free"}
      BY <1>7, <3>1, <3>4 DEF CallInv
    <3> QED
      BY <3>2, <3>3, <3>4
  <2> QED
    BY <2>1, <2>2
<1> QED
  BY <1>1, <1>3, <1>7, <1>10, <1>11, <1>12, <1>13 DEF RingInv

(* The copy into the slot that the writer owns. *)
LEMMA WriteDataKeeps ==
  ASSUME ShmInv, NEW w \in Writers, WriteData(w), at[w] \notin early
  PROVE  RingInv(at[w])'
<1> USE DEF Goto
<1>1. PICK r : r = at[w]
  OBVIOUS
<1>2. TypeOK /\ w \in Processes /\ pc[w] = "write"
  BY DEF ShmInv, Processes, WriteData
<1>3. /\ r \in Regions /\ r \in complete
      /\ Window(r) /\ OwnersApart(r) /\ GotInv(r) /\ CallInv(r, w)
      /\ \A q \in Processes : at[q] = r => CallInv(r, q)
  BY <1>1, <1>2, InRing DEF Pushing
<1>4. /\ head[r] \in Nat /\ tail[r] \in Nat /\ data[r] \in [Slots -> Messages]
      /\ head[r] <= tail[r] /\ tail[r] <= head[r] + Capacity
      /\ \A q \in Processes : pos[q] \in Nat
  BY <1>2, <1>3, RegionTypes, ProcessTypes DEF Window
<1>5. PICK n : n = pos[w]
  OBVIOUS
<1>6. /\ WriterOwns(r, w) /\ n \in head[r] .. tail[r] - 1 /\ n \in Nat
      /\ seq[r][Place(n)] = n /\ item[w] = put[r][n + 1]
      /\ Slot(n, lmask[w]) = Place(n) /\ Place(n) \in Slots
  BY <1>2, <1>3, <1>4, <1>5, PlaceType DEF CallInv, WriterOwns, Place, Pushing
<1>7. /\ data'[r][Place(n)] = item[w]
      /\ \A i \in Slots : i # Place(n) => data'[r][i] = data[r][i]
      /\ pc'[w] = "publish"
      /\ head' = head /\ tail' = tail /\ seq' = seq /\ put' = put /\ got' = got
      /\ complete' = complete /\ at' = at /\ lmask' = lmask /\ item' = item /\ pos' = pos
      /\ \A p \in Processes : p # w => pc'[p] = pc[p]
  BY <1>1, <1>2, <1>3, <1>4, <1>5, <1>6
     DEF WriteData, TypeOK, regionVars, procVars, callVars
<1>8. ASSUME NEW m \in Nat, m # n, m < n + Capacity, n < m + Capacity
      PROVE  data'[r][Place(m)] = data[r][Place(m)]
  BY <1>6, <1>7, <1>8, PlacesApart, PlaceType
<1>9. Window(r)'
  <2>1. ASSUME NEW m \in head[r] .. tail[r] - 1
        PROVE  \/ seq[r][Place(m)] = m
               \/ seq[r][Place(m)] = m + 1 /\ data'[r][Place(m)] = put[r][m + 1]
    <3>1. CASE m = n
      BY <1>6, <3>1
    <3>2. CASE m # n
      <4>1. m \in Nat /\ m < n + Capacity /\ n < m + Capacity
        BY <1>4, <1>6, CapacityType
      <4>2. data'[r][Place(m)] = data[r][Place(m)]
        BY <1>8, <3>2, <4>1
      <4> QED
        BY <1>3, <4>2 DEF Window
    <3> QED
      BY <3>1, <3>2
  <2> QED
    BY <1>3, <1>7, <2>1 DEF Window
<1>10. OwnersApart(r)'
  BY <1>2, <1>3, <1>7 DEF OwnersApart
<1>11. GotInv(r)'
  BY <1>3, <1>7 DEF GotInv
<1>12. ASSUME NEW p \in Processes, at[p] = r PROVE CallInv(r, p)'
  <2>1. CASE p = w
    <3>1. lmask[w] = Capacity - 1
      BY <1>2, <1>3 DEF CallInv, Pushing
    <3>2. WriterOwns(r, w)'
      BY <1>5, <1>6, <1>7 DEF WriterOwns
    <3> QED
      BY <1>7, <2>1, <3>1, <3>2 DEF CallInv
  <2>2. CASE p # w
    <3>1. CallInv(r, p) /\ pc'[p] = pc[p] /\ pos[p] \in Nat
      BY <1>3, <1>4, <1>7, <1>12, <2>2
    <3>2. CASE pc[p] \in {"write", "publish"}
      <4>1. WriterOwns(r, p) /\ pos[p] # n
        BY <1>1, <1>2, <1>3, <1>5, <1>12, <2>2, <3>1, <3>2 DEF CallInv, OwnersApart
      <4>2. pos[p] < n + Capacity /\ n < pos[p] + Capacity
        <5>1. pos[p] \in head[r] .. tail[r] - 1
          BY <4>1 DEF WriterOwns
        <5> QED
          BY <1>4, <1>6, <5>1, CapacityType
      <4>3. data'[r][Place(pos[p])] = data[r][Place(pos[p])]
        BY <1>8, <3>1, <4>1, <4>2
      <4>4. WriterOwns(r, p)'
        BY <1>7, <3>1, <4>1, <4>3 DEF WriterOwns
      <4> QED
        BY <1>7, <3>1, <3>2, <4>4 DEF CallInv, Pushing
    <3>3. CASE pc[p] \in {"read", "free"}
      <4>1. ReaderOwns(r, p)
        BY <3>1, <3>3 DEF CallInv
      <4>2. pos[p] # n /\ pos[p] < n + Capacity /\ n < pos[p] + Capacity
        <5>1. pos[p] < head[r] /\ tail[r] <= pos[p] + Capacity
          BY <4>1 DEF ReaderOwns
        <5> QED
          BY <1>4, <1>6, <3>1, <5>1, CapacityType
      <4>3. data'[r][Place(pos[p])] = data[r][Place(pos[p])]
        BY <1>8, <3>1, <4>2
      <4>4. ReaderOwns(r, p)'
        BY <1>7, <3>1, <4>1, <4>3 DEF ReaderOwns
      <4> QED
        BY <1>7, <3>1, <3>3, <4>4 DEF CallInv, Pushing
    <3>4. CASE pc[p] \notin {"write", "publish", "read", "free"}
      BY <1>7, <3>1, <3>4 DEF CallInv
    <3> QED
      BY <3>2, <3>3, <3>4
  <2> QED
    BY <2>1, <2>2
<1> QED
  BY <1>1, <1>3, <1>7, <1>9, <1>10, <1>11, <1>12 DEF RingInv

(* The store to seq of the slot that the writer owns. *)
LEMMA PublishSlotKeeps ==
  ASSUME ShmInv, NEW w \in Writers, PublishSlot(w), at[w] \notin early
  PROVE  RingInv(at[w])'
<1> USE DEF Goto
<1>1. PICK r : r = at[w]
  OBVIOUS
<1>2. TypeOK /\ w \in Processes /\ pc[w] = "publish"
  BY DEF ShmInv, Processes, PublishSlot
<1>3. /\ r \in Regions /\ r \in complete
      /\ Window(r) /\ OwnersApart(r) /\ GotInv(r) /\ CallInv(r, w)
      /\ \A q \in Processes : at[q] = r => CallInv(r, q)
  BY <1>1, <1>2, InRing DEF Pushing
<1>4. /\ head[r] \in Nat /\ tail[r] \in Nat /\ seq[r] \in [Slots -> Nat]
      /\ head[r] <= tail[r] /\ tail[r] <= head[r] + Capacity
      /\ \A q \in Processes : pos[q] \in Nat
  BY <1>2, <1>3, RegionTypes, ProcessTypes DEF Window
<1>5. PICK n : n = pos[w]
  OBVIOUS
<1>6. /\ WriterOwns(r, w) /\ n \in head[r] .. tail[r] - 1 /\ n \in Nat
      /\ data[r][Place(n)] = put[r][n + 1]
      /\ Slot(n, lmask[w]) = Place(n) /\ Place(n) \in Slots
  BY <1>2, <1>3, <1>4, <1>5, PlaceType DEF CallInv, WriterOwns, Place, Pushing
<1>7. /\ seq'[r][Place(n)] = n + 1
      /\ \A i \in Slots : i # Place(n) => seq'[r][i] = seq[r][i]
      /\ pc'[w] = "ready"
      /\ head' = head /\ tail' = tail /\ data' = data /\ put' = put /\ got' = got
      /\ complete' = complete /\ at' = at
      /\ \A p \in Processes : p # w =>
           pc'[p] = pc[p] /\ lmask'[p] = lmask[p] /\ pos'[p] = pos[p] /\ item'[p] = item[p]
  BY <1>1, <1>2, <1>3, <1>4, <1>5, <1>6
     DEF PublishSlot, EndCall, TypeOK, regionVars, procVars
<1>8. ASSUME NEW m \in Nat, m # n, m < n + Capacity, n < m + Capacity
      PROVE  seq'[r][Place(m)] = seq[r][Place(m)]
  BY <1>6, <1>7, <1>8, PlacesApart, PlaceType
<1>9. Window(r)'
  <2>1. ASSUME NEW m \in head[r] .. head[r] + Capacity - 1, m # n
        PROVE  seq'[r][Place(m)] = seq[r][Place(m)]
    <3>1. m \in Nat /\ m < n + Capacity /\ n < m + Capacity
      BY <1>4, <1>6, CapacityType
    <3> QED
      BY <1>8, <2>1, <3>1
  <2>2. ASSUME NEW m \in head[r] .. tail[r] - 1
        PROVE  \/ seq'[r][Place(m)] = m
               \/ seq'[r][Place(m)] = m + 1 /\ data[r][Place(m)] = put[r][m + 1]
    <3>1. CASE m = n
      BY <1>6, <1>7, <3>1
    <3>2. CASE m # n
      <4>1. m \in head[r] .. head[r] + Capacity - 1
        BY <1>4, CapacityType
      <4> QED
        BY <1>3, <2>1, <3>2, <4>1 DEF Window
    <3> QED
      BY <3>1, <3>2
  <2>3. ASSUME NEW m \in tail[r] .. head[r] + Capacity - 1 PROVE seq'[r][Place(m)] <= m
    <3>1. m \in head[r] .. head[r] + Capacity - 1 /\ m # n
      BY <1>4, <1>6, CapacityType
    <3> QED
      BY <1>3, <2>1, <3>1 DEF Window
  <2> QED
    BY <1>4, <1>7, <2>2, <2>3 DEF Window
<1>10. OwnersApart(r)'
  BY <1>2, <1>3, <1>7 DEF OwnersApart
<1>11. GotInv(r)'
  BY <1>3, <1>7 DEF GotInv
<1>12. ASSUME NEW p \in Processes, at[p] = r PROVE CallInv(r, p)'
  <2>1. CASE p = w
    BY <1>7, <2>1 DEF CallInv, Pushing
  <2>2. CASE p # w
    <3>1. /\ CallInv(r, p) /\ pc'[p] = pc[p] /\ pos[p] \in Nat
          /\ lmask'[p] = lmask[p] /\ pos'[p] = pos[p] /\ item'[p] = item[p]
      BY <1>3, <1>4, <1>7, <1>12, <2>2
    <3>2. CASE pc[p] \in {"write", "publish"}
      <4>1. WriterOwns(r, p) /\ pos[p] # n
        BY <1>1, <1>2, <1>3, <1>5, <1>12, <2>2, <3>1, <3>2 DEF CallInv, OwnersApart
      <4>2. pos[p] < n + Capacity /\ n < pos[p] + Capacity
        <5>1. pos[p] \in head[r] .. tail[r] - 1
          BY <4>1 DEF WriterOwns
        <5> QED
          BY <1>4, <1>6, <5>1, CapacityType
      <4>3. seq'[r][Place(pos[p])] = seq[r][Place(pos[p])]
        BY <1>8, <3>1, <4>1, <4>2
      <4>4. WriterOwns(r, p)'
        BY <1>7, <3>1, <4>1, <4>3 DEF WriterOwns
      <4> QED
        BY <1>7, <3>1, <3>2, <4>4 DEF CallInv, Pushing
    <3>3. CASE pc[p] \in {"read", "free"}
      <4>1. ReaderOwns(r, p)
        BY <3>1, <3>3 DEF CallInv
      <4>2. pos[p] # n /\ pos[p] < n + Capacity /\ n < pos[p] + Capacity
        <5>1. pos[p] < head[r] /\ tail[r] <= pos[p] + Capacity
          BY <4>1 DEF ReaderOwns
        <5> QED
          BY <1>4, <1>6, <3>1, <5>1, CapacityType
      <4>3. seq'[r][Place(pos[p])] = seq[r][Place(pos[p])]
        BY <1>8, <3>1, <4>2
      <4>4. ReaderOwns(r, p)'
        BY <1>7, <3>1, <4>1, <4>3 DEF ReaderOwns
      <4> QED
        BY <1>7, <3>1, <3>3, <4>4 DEF CallInv, Pushing
    <3>4. CASE pc[p] \notin {"write", "publish", "read", "free"}
      BY <1>7, <3>1, <3>4 DEF CallInv, Pushing
    <3> QED
      BY <3>2, <3>3, <3>4
  <2> QED
    BY <2>1, <2>2
<1> QED
  BY <1>1, <1>3, <1>7, <1>9, <1>10, <1>11, <1>12 DEF RingInv

----------------------------------------------------------------------------
(* The steps of pop().                                                     *)

(* A mask of 0 is harmless to the only reader, which is at the first slot. *)
LEMMA CallPopKeeps ==
  ASSUME ShmInv, NEW c \in Readers, CallPop(c), at[c] \notin early'
  PROVE  RingInv(at[c])'
<1> USE DEF Goto
<1>1. PICK r : r = at[c]
  OBVIOUS
<1>2. TypeOK /\ c \in Processes /\ pc[c] = "ready" /\ (r \in complete \/ SoleReader)
      /\ r \notin early
  BY <1>1 DEF ShmInv, Processes, CallPop
<1>3. r \in Regions /\ RingInv(r)
  BY <1>1, <1>2, ProcessTypes DEF ShmInv
<1>4. /\ head' = head /\ tail' = tail /\ seq' = seq /\ data' = data /\ put' = put /\ got' = got
      /\ complete' = complete /\ at' = at /\ pos' = pos /\ item' = item
      /\ pc'[c] = "loadCap" /\ lmask'[c] = header[r].mask
      /\ \A p \in Processes : p # c => pc'[p] = pc[p] /\ lmask'[p] = lmask[p]
  BY <1>1, <1>2 DEF CallPop, TypeOK, regionVars, procVars
<1>5. lmask'[c] = Capacity - 1 \/ (SoleReader /\ head[r] = 0)
  <2>1. CASE r \in complete
    BY <1>4, <2>1 DEF ShmInv, HeaderInv
  <2>2. CASE r \notin complete
    BY <1>2, <1>3, <2>2 DEF RingInv, Untouched
  <2> QED
    BY <2>1, <2>2
<1>6. Window(r) => Window(r)'
  BY <1>4 DEF Window
<1>7. GotInv(r) => GotInv(r)'
  BY <1>4 DEF GotInv
<1>8. OwnersApart(r) => OwnersApart(r)'
  BY <1>4 DEF OwnersApart
<1>9. Untouched(r) => Untouched(r)'
  BY <1>4 DEF Untouched, Pushing
<1>10. ASSUME NEW p \in Processes, at[p] = r PROVE CallInv(r, p)'
  <2>1. CASE p = c
    BY <1>4, <1>5, <2>1 DEF CallInv, Pushing
  <2>2. CASE p # c
    BY <1>3, <1>4, <1>10, <2>2 DEF RingInv, CallInv, WriterOwns, ReaderOwns
  <2> QED
    BY <2>1, <2>2
<1> QED
  BY <1>1, <1>3, <1>4, <1>6, <1>7, <1>8, <1>9, <1>10 DEF RingInv

LEMMA LoadCapacityKeeps ==
  ASSUME ShmInv, NEW c \in Readers, LoadCapacity(c), at[c] \notin early
  PROVE  RingInv(at[c])'
<1> USE DEF Goto
<1>1. PICK r : r = at[c]
  OBVIOUS
<1>2. TypeOK /\ c \in Processes /\ pc[c] = "loadCap"
  BY DEF ShmInv, Processes, LoadCapacity
<1>3. r \in Regions /\ RingInv(r)
  BY <1>1, <1>2, ProcessTypes DEF ShmInv
<1>4. /\ head' = head /\ tail' = tail /\ seq' = seq /\ data' = data /\ put' = put /\ got' = got
      /\ complete' = complete /\ at' = at /\ pos' = pos /\ item' = item /\ lmask' = lmask
      /\ pc'[c] = "pop"
      /\ \A p \in Processes : p # c => pc'[p] = pc[p]
  BY <1>1, <1>2 DEF LoadCapacity, TypeOK, regionVars, ringVars, procVars
<1>5. Window(r) => Window(r)'
  BY <1>4 DEF Window
<1>6. GotInv(r) => GotInv(r)'
  BY <1>4 DEF GotInv
<1>7. OwnersApart(r) => OwnersApart(r)'
  BY <1>2, <1>4 DEF OwnersApart
<1>8. Untouched(r) => Untouched(r)'
  BY <1>2, <1>4 DEF Untouched, Pushing
<1>9. ASSUME NEW p \in Processes, at[p] = r PROVE CallInv(r, p)'
  <2>1. CASE p = c
    BY <1>2, <1>3, <1>4, <1>9, <2>1 DEF RingInv, CallInv, Pushing
  <2>2. CASE p # c
    BY <1>3, <1>4, <1>9, <2>2 DEF RingInv, CallInv, WriterOwns, ReaderOwns
  <2> QED
    BY <2>1, <2>2
<1> QED
  BY <1>1, <1>3, <1>4, <1>5, <1>6, <1>7, <1>8, <1>9 DEF RingInv

(* A reader claims the head when its slot holds a published message.       *)
LEMMA HeadIsReady ==
  ASSUME ShmInv, NEW c \in Readers, ClaimHead(c), at[c] \notin early
  PROVE  /\ at[c] \in Regions /\ at[c] \in complete
         /\ seq[at[c]][Place(head[at[c]])] = head[at[c]] + 1
         /\ head[at[c]] < tail[at[c]] /\ tail[at[c]] <= head[at[c]] + Capacity
         /\ data[at[c]][Place(head[at[c]])] = put[at[c]][head[at[c]] + 1]
<1>1. PICK r : r = at[c]
  OBVIOUS
<1>2. TypeOK /\ c \in Processes /\ pc[c] = "pop"
  BY DEF ShmInv, Processes, ClaimHead
<1>3. r \in Regions /\ RingInv(r) /\ CallInv(r, c)
  BY <1>1, <1>2, ProcessTypes DEF ShmInv, RingInv
<1>4. PICK n : n = head[r]
  OBVIOUS
<1>5. n \in Nat /\ tail[r] \in Nat /\ Place(n) \in Slots
  BY <1>2, <1>3, <1>4, RegionTypes, PlaceType
<1>6. (lmask[c] = Capacity - 1 \/ n = 0) /\ lmask[c] \in {0, Capacity - 1}
  BY <1>2, <1>3, <1>4, ProcessTypes DEF CallInv
<1>7. seq[r][Place(n)] = n + 1
  <2>1. Slot(n, lmask[c]) = Place(n)
    BY <1>5, <1>6, SlotIsPlace
  <2> QED
    BY <1>1, <1>4, <2>1 DEF ClaimHead
<1>8. r \in complete /\ Window(r)
  BY <1>3, <1>4, <1>5, <1>7 DEF RingInv, Untouched
<1>9. n <= tail[r] /\ tail[r] <= n + Capacity
  BY <1>4, <1>8 DEF Window
<1>10. ASSUME n = tail[r] PROVE FALSE
  <2>1. n \in tail[r] .. head[r] + Capacity - 1
    BY <1>4, <1>5, <1>10, CapacityType
  <2>2. seq[r][Place(n)] <= n
    BY <1>8, <2>1 DEF Window
  <2> QED
    BY <1>5, <1>7, <2>2
<1>11. n \in head[r] .. tail[r] - 1 /\ n < tail[r]
  BY <1>4, <1>5, <1>9, <1>10
<1>12. data[r][Place(n)] = put[r][n + 1]
  <2>1. seq[r][Place(n)] # n
    BY <1>5, <1>7
  <2> QED
    BY <1>8, <1>11, <2>1 DEF Window
<1> QED
  BY <1>1, <1>3, <1>4, <1>7, <1>8, <1>9, <1>11, <1>12

(* The claim: the slot at the head is published, so the head is behind the *)
(* tail, and no writer owns the slot any more.                             *)
LEMMA ClaimHeadKeeps ==
  ASSUME ShmInv, NEW c \in Readers, ClaimHead(c), at[c] \notin early
  PROVE  RingInv(at[c])'
<1> USE DEF Goto
<1>1. PICK r : r = at[c]
  OBVIOUS
<1>2. TypeOK /\ c \in Processes /\ pc[c] = "pop" /\ MakerInv
  BY DEF ShmInv, Processes, ClaimHead
<1>3. r \in Regions /\ RingInv(r) /\ CallInv(r, c)
  BY <1>1, <1>2, ProcessTypes DEF ShmInv, RingInv
<1>4. /\ head[r] \in Nat /\ tail[r] \in Nat /\ seq[r] \in [Slots -> Nat]
      /\ \A k \in DOMAIN got[r] : got[r][k].pos \in Nat
      /\ \A q \in Processes : pos[q] \in Nat
  BY <1>2, <1>3, RegionTypes, ProcessTypes
<1>5. PICK n : n = head[r]
  OBVIOUS
<1>6. n \in Nat /\ Place(n) \in Slots /\ Place(n + Capacity) = Place(n)
  BY <1>4, <1>5, PlaceType, PlaceOfNextLap
<1>7. (lmask[c] = Capacity - 1 \/ (SoleReader /\ n = 0)) /\ lmask[c] \in {0, Capacity - 1}
  BY <1>2, <1>3, <1>5, ProcessTypes DEF CallInv
<1>8. seq[r][Place(n)] = n + 1
  BY <1>1, <1>5, HeadIsReady
<1>9. r \in complete
  BY <1>1, HeadIsReady
<1>10. Window(r) /\ OwnersApart(r) /\ GotInv(r)
       /\ \A q \in Processes : at[q] = r => CallInv(r, q)
  BY <1>3, <1>9 DEF RingInv
<1>11. n < tail[r] /\ tail[r] <= n + Capacity
  BY <1>1, <1>5, HeadIsReady
<1>12. data[r][Place(n)] = put[r][n + 1]
  BY <1>1, <1>5, HeadIsReady
<1>13. /\ head'[r] = n + 1 /\ pos'[c] = n /\ pc'[c] = "read"
       /\ tail' = tail /\ seq' = seq /\ data' = data /\ put' = put /\ got' = got
       /\ complete' = complete /\ at' = at /\ lmask' = lmask /\ item' = item
       /\ \A p \in Processes : p # c => pc'[p] = pc[p] /\ pos'[p] = pos[p]
  BY <1>1, <1>2, <1>3, <1>5 DEF ClaimHead, TypeOK, regionVars, procVars
<1>14. Window(r)'
  <2>1. n + 1 <= tail[r] /\ tail[r] <= (n + 1) + Capacity
    BY <1>4, <1>6, <1>11, CapacityType
  <2>2. ASSUME NEW m \in n + 1 .. tail[r] - 1
        PROVE  \/ seq[r][Place(m)] = m
               \/ seq[r][Place(m)] = m + 1 /\ data[r][Place(m)] = put[r][m + 1]
    <3>1. m \in head[r] .. tail[r] - 1
      BY <1>4, <1>5, <1>6
    <3> QED
      BY <1>10, <3>1 DEF Window
  <2>3. ASSUME NEW m \in tail[r] .. (n + 1) + Capacity - 1 PROVE seq[r][Place(m)] <= m
    <3>1. CASE m = n + Capacity
      BY <1>6, <1>8, <3>1, CapacityType
    <3>2. CASE m # n + Capacity
      <4>1. m \in tail[r] .. head[r] + Capacity - 1
        BY <1>4, <1>5, <1>6, <3>2, CapacityType
      <4> QED
        BY <1>10, <4>1 DEF Window
    <3> QED
      BY <3>1, <3>2
  <2> QED
    BY <1>13, <2>1, <2>2, <2>3 DEF Window
<1>15. OwnersApart(r)'
  <2>1. ASSUME NEW p \in Processes, at[p] = r, pc[p] \in {"read", "free"} PROVE pos[p] # n
    <3>1. pos[p] < head[r]
      BY <1>10, <2>1 DEF CallInv, ReaderOwns
    <3> QED
      BY <1>4, <1>5, <3>1
  <2> QED
    BY <1>10, <1>13, <2>1 DEF OwnersApart
<1>16. GotInv(r)'
  <2>1. ASSUME NEW k \in DOMAIN got[r] PROVE got[r][k].pos < n + 1
    <3>1. got[r][k].pos < n
      BY <1>5, <1>10 DEF GotInv
    <3> QED
      BY <1>4, <1>6, <3>1
  <2> QED
    BY <1>10, <1>13, <2>1 DEF GotInv
<1>17. ASSUME NEW p \in Processes, at[p] = r PROVE CallInv(r, p)'
  <2>1. CASE p = c
    <3>1. ASSUME NEW k \in DOMAIN got[r]
          PROVE  got[r][k].pos < n /\ got[r][k].pos # n
      <4>1. got[r][k].pos < n
        BY <1>5, <1>10 DEF GotInv
      <4> QED
        BY <1>4, <1>6, <4>1
    <3>2. n < n + 1 /\ seq[r][Place(n)] = n + 1
      BY <1>6, <1>8
    <3>3. ReaderOwns(r, c)'
      BY <1>7, <1>11, <1>12, <1>13, <3>1, <3>2 DEF ReaderOwns
    <3> QED
      BY <1>13, <2>1, <3>3 DEF CallInv, Pushing
  <2>2. CASE p # c
    <3>1. CallInv(r, p) /\ pc'[p] = pc[p] /\ pos'[p] = pos[p] /\ pos[p] \in Nat
      BY <1>4, <1>10, <1>13, <1>17, <2>2
    <3>2. CASE pc[p] \in {"write", "publish"}
      <4>1. WriterOwns(r, p)
        BY <3>1, <3>2 DEF CallInv
      <4>2. pos[p] \in n .. tail[r] - 1 /\ seq[r][Place(pos[p])] = pos[p]
        BY <1>5, <4>1 DEF WriterOwns
      <4>3. pos[p] # n
        BY <1>6, <1>8, <4>2
      <4>4. pos[p] \in n + 1 .. tail[r] - 1
        BY <1>4, <1>6, <4>2, <4>3
      <4>5. WriterOwns(r, p)'
        BY <1>13, <3>1, <4>1, <4>4 DEF WriterOwns
      <4> QED
        BY <1>13, <3>1, <3>2, <4>5 DEF CallInv, Pushing
    <3>3. CASE pc[p] \in {"read", "free"}
      <4>1. ReaderOwns(r, p)
        BY <3>1, <3>3 DEF CallInv
      <4>2. pos[p] < n + 1
        <5>1. pos[p] < n
          BY <1>5, <4>1 DEF ReaderOwns
        <5> QED
          BY <1>6, <3>1, <5>1
      <4>3. ReaderOwns(r, p)'
        BY <1>13, <3>1, <4>1, <4>2 DEF ReaderOwns
      <4> QED
        BY <1>13, <3>1, <3>3, <4>3 DEF CallInv, Pushing
    <3>4. CASE pc[p] \in {"loadCap", "pop"}
      <4>1. p \in Readers
        BY <1>2, <3>4 DEF MakerInv, Popping
      <4>2. ~SoleReader
        BY <2>2, <4>1 DEF SoleReader
      <4> QED
        BY <1>13, <3>1, <3>4, <4>2 DEF CallInv, Pushing
    <3>5. CASE pc[p] \notin {"write", "publish", "read", "free", "loadCap", "pop"}
      BY <1>13, <3>1, <3>5 DEF CallInv
    <3> QED
      BY <3>2, <3>3, <3>4, <3>5
  <2> QED
    BY <2>1, <2>2
<1> QED
  BY <1>1, <1>9, <1>13, <1>14, <1>15, <1>16, <1>17 DEF RingInv

(* The copy out of the slot that the reader owns. *)
LEMMA ReadDataKeeps ==
  ASSUME ShmInv, NEW c \in Readers, ReadData(c), at[c] \notin early
  PROVE  RingInv(at[c])'
<1> USE DEF Goto
<1>1. PICK r : r = at[c]
  OBVIOUS
<1>2. TypeOK /\ c \in Processes /\ pc[c] = "read"
  BY DEF ShmInv, Processes, ReadData
<1>3. /\ r \in Regions /\ r \in complete
      /\ Window(r) /\ OwnersApart(r) /\ GotInv(r) /\ CallInv(r, c)
      /\ \A q \in Processes : at[q] = r => CallInv(r, q)
  BY <1>1, <1>2, InRing
<1>4. ReaderOwns(r, c) /\ pos[c] \in Nat /\ lmask[c] \in {0, Capacity - 1}
  BY <1>2, <1>3, ProcessTypes DEF CallInv
<1>5. Slot(pos[c], lmask[c]) = Place(pos[c])
  BY <1>4, SlotIsPlace DEF ReaderOwns
<1>6. /\ head' = head /\ tail' = tail /\ seq' = seq /\ data' = data /\ put' = put /\ got' = got
      /\ complete' = complete /\ at' = at /\ pos' = pos /\ lmask' = lmask
      /\ pc'[c] = "free" /\ item'[c] = data[r][Place(pos[c])]
      /\ \A p \in Processes : p # c => pc'[p] = pc[p] /\ item'[p] = item[p]
  BY <1>1, <1>2, <1>5 DEF ReadData, TypeOK, regionVars, ringVars, procVars
<1>7. Window(r)' /\ GotInv(r)'
  BY <1>3, <1>6 DEF Window, GotInv
<1>8. OwnersApart(r)'
  BY <1>2, <1>3, <1>6 DEF OwnersApart
<1>9. ASSUME NEW p \in Processes, at[p] = r PROVE CallInv(r, p)'
  <2>1. CASE p = c
    <3>1. ReaderOwns(r, c)'
      BY <1>2, <1>4, <1>6 DEF ReaderOwns
    <3> QED
      BY <1>6, <2>1, <3>1 DEF CallInv, Pushing
  <2>2. CASE p # c
    BY <1>3, <1>6, <1>9, <2>2 DEF CallInv, WriterOwns, ReaderOwns
  <2> QED
    BY <2>1, <2>2
<1> QED
  BY <1>1, <1>3, <1>6, <1>7, <1>8, <1>9 DEF RingInv

(* The slot is given back for the position one lap further, at most: no    *)
(* writer that has a slot, and no other reader, is there.                  *)
LEMMA FreeSlotKeeps ==
  ASSUME ShmInv, NEW c \in Readers, FreeSlot(c), at[c] \notin early
  PROVE  RingInv(at[c])'
<1> USE DEF Goto
<1>1. PICK r : r = at[c]
  OBVIOUS
<1>2. TypeOK /\ c \in Processes /\ pc[c] = "free" /\ MakerInv
  BY DEF ShmInv, Processes, FreeSlot
<1>3. /\ r \in Regions /\ r \in complete
      /\ Window(r) /\ OwnersApart(r) /\ GotInv(r) /\ CallInv(r, c)
      /\ \A q \in Processes : at[q] = r => CallInv(r, q)
  BY <1>1, <1>2, InRing
<1>4. /\ head[r] \in Nat /\ tail[r] \in Nat /\ seq[r] \in [Slots -> Nat]
      /\ head[r] <= tail[r] /\ tail[r] <= head[r] + Capacity
      /\ got[r] \in Seq([pos : Nat, msg : Messages])
      /\ \A q \in Processes : pos[q] \in Nat
  BY <1>2, <1>3, RegionTypes, ProcessTypes DEF Window
<1>5. PICK n : n = pos[c]
  OBVIOUS
<1>6. /\ ReaderOwns(r, c) /\ n \in Nat /\ n < head[r] /\ tail[r] <= n + Capacity
      /\ item[c] = put[r][n + 1] /\ item[c] \in Messages
      /\ lmask[c] \in {0, Capacity - 1} /\ lcap[c] \in {0, Capacity}
  BY <1>2, <1>3, <1>5, ProcessTypes DEF CallInv, ReaderOwns
<1>7. Slot(n, lmask[c]) = Place(n) /\ Place(n) \in Slots
  BY <1>5, <1>6, SlotIsPlace, PlaceType DEF ReaderOwns
<1>8. /\ seq'[r][Place(n)] = n + lcap[c]
      /\ \A i \in Slots : i # Place(n) => seq'[r][i] = seq[r][i]
      /\ got'[r] = Append(got[r], [pos |-> n, msg |-> item[c]])
      /\ pc'[c] = "ready"
      /\ head' = head /\ tail' = tail /\ data' = data /\ put' = put
      /\ complete' = complete /\ at' = at
      /\ \A p \in Processes : p # c =>
           pc'[p] = pc[p] /\ lmask'[p] = lmask[p] /\ pos'[p] = pos[p] /\ item'[p] = item[p]
  BY <1>1, <1>2, <1>3, <1>5, <1>7 DEF FreeSlot, EndCall, TypeOK, regionVars, procVars
<1>9. ASSUME NEW m \in Nat, m # n, m < n + Capacity, n < m + Capacity
      PROVE  seq'[r][Place(m)] = seq[r][Place(m)]
  BY <1>6, <1>7, <1>8, <1>9, PlacesApart, PlaceType
<1>10. PICK len : len = Len(got[r])
  OBVIOUS
<1>11. /\ len \in Nat /\ DOMAIN got[r] = 1 .. len /\ DOMAIN got'[r] = 1 .. (len + 1)
       /\ \A k \in 1 .. len : got'[r][k] = got[r][k]
       /\ got'[r][len + 1].pos = n /\ got'[r][len + 1].msg = item[c]
  <2>1. [pos |-> n, msg |-> item[c]] \in [pos : Nat, msg : Messages]
    BY <1>6
  <2>2. /\ got'[r] \in Seq([pos : Nat, msg : Messages]) /\ Len(got'[r]) = len + 1
        /\ \A k \in 1 .. len : got'[r][k] = got[r][k]
        /\ got'[r][len + 1] = [pos |-> n, msg |-> item[c]]
    BY <1>4, <1>8, <1>10, <2>1, AppendProperties
  <2>3. len \in Nat /\ DOMAIN got[r] = 1 .. len
    BY <1>4, <1>10, LenProperties
  <2>4. DOMAIN got'[r] = 1 .. (len + 1)
    BY <2>2, LenProperties
  <2> QED
    BY <2>2, <2>3, <2>4
<1>12. \A k \in 1 .. len : IF SoleReader THEN got[r][k].pos < n ELSE got[r][k].pos # n
  BY <1>5, <1>6, <1>11 DEF ReaderOwns
<1>13. Window(r)'
  <2>1. ASSUME NEW m \in head[r] .. tail[r] - 1
        PROVE  seq'[r][Place(m)] = seq[r][Place(m)]
    <3>1. m \in Nat /\ m # n /\ m < n + Capacity /\ n < m + Capacity
      BY <1>4, <1>6, CapacityType
    <3> QED
      BY <1>9, <3>1
  <2>2. ASSUME NEW m \in tail[r] .. head[r] + Capacity - 1 PROVE seq'[r][Place(m)] <= m
    <3>1. m \in Nat /\ n < m /\ Place(m) \in Slots /\ seq[r][Place(m)] <= m
      <4>1. m \in Nat /\ n < m
        BY <1>4, <1>6, CapacityType
      <4>2. seq[r][Place(m)] <= m
        BY <1>3 DEF Window
      <4> QED
        BY <4>1, <4>2, PlaceType
    <3>2. CASE m < n + Capacity
      <4>1. seq'[r][Place(m)] = seq[r][Place(m)]
        BY <1>6, <1>9, <3>1, <3>2, CapacityType
      <4> QED
        BY <3>1, <4>1
    <3>3. CASE m >= n + Capacity
      <4>1. n + lcap[c] <= m
        BY <1>6, <3>1, <3>3, CapacityType
      <4>2. CASE Place(m) = Place(n)
        BY <1>8, <4>1, <4>2
      <4>3. CASE Place(m) # Place(n)
        BY <1>8, <3>1, <4>3
      <4> QED
        BY <4>2, <4>3
    <3> QED
      BY <1>6, <3>1, <3>2, <3>3, CapacityType
  <2> QED
    BY <1>3, <1>8, <2>1, <2>2 DEF Window
<1>14. OwnersApart(r)'
  BY <1>3, <1>8 DEF OwnersApart
<1>15. GotInv(r)'
  <2>1. ASSUME NEW k \in 1 .. (len + 1)
        PROVE  got'[r][k].pos < head[r] /\ got'[r][k].msg = put[r][got'[r][k].pos + 1]
    <3>1. CASE k = len + 1
      BY <1>6, <1>11, <3>1
    <3>2. CASE k \in 1 .. len
      BY <1>3, <1>11, <3>2 DEF GotInv
    <3> QED
      BY <1>11, <3>1, <3>2
  <2>2. ASSUME NEW k \in 1 .. (len + 1), NEW l \in 1 .. (len + 1), k < l
        PROVE  IF SoleReader THEN got'[r][k].pos < got'[r][l].pos
                             ELSE got'[r][k].pos # got'[r][l].pos
    <3>1. k \in 1 .. len
      BY <1>11, <2>2
    <3>2. CASE l = len + 1
      BY <1>11, <1>12, <3>1, <3>2
    <3>3. CASE l \in 1 .. len
      BY <1>3, <1>11, <2>2, <3>1, <3>3 DEF GotInv
    <3> QED
      BY <1>11, <3>2, <3>3
  <2> QED
    BY <1>8, <1>11, <2>1, <2>2 DEF GotInv
<1>16. ASSUME NEW p \in Processes, at[p] = r PROVE CallInv(r, p)'
  <2>1. CASE p = c
    BY <1>8, <2>1 DEF CallInv, Pushing
  <2>2. CASE p # c
    <3>1. /\ CallInv(r, p) /\ pc'[p] = pc[p] /\ pos[p] \in Nat
          /\ lmask'[p] = lmask[p] /\ pos'[p] = pos[p] /\ item'[p] = item[p]
      BY <1>3, <1>4, <1>8, <1>16, <2>2
    <3>2. CASE pc[p] \in {"write", "publish"}
      <4>1. WriterOwns(r, p)
        BY <3>1, <3>2 DEF CallInv
      <4>2. pos[p] # n /\ pos[p] < n + Capacity /\ n < pos[p] + Capacity
        <5>1. pos[p] \in head[r] .. tail[r] - 1
          BY <4>1 DEF WriterOwns
        <5> QED
          BY <1>4, <1>6, <5>1, CapacityType
      <4>3. seq'[r][Place(pos[p])] = seq[r][Place(pos[p])]
        BY <1>9, <3>1, <4>2
      <4>4. WriterOwns(r, p)'
        BY <1>8, <3>1, <4>1, <4>3 DEF WriterOwns
      <4> QED
        BY <1>8, <3>1, <3>2, <4>4 DEF CallInv, Pushing
    <3>3. CASE pc[p] \in {"read", "free"}
      <4>1. ReaderOwns(r, p) /\ pos[p] # n
        BY <1>1, <1>2, <1>3, <1>5, <1>16, <2>2, <3>1, <3>3 DEF CallInv, OwnersApart
      <4>2. pos[p] < n + Capacity /\ n < pos[p] + Capacity
        <5>1. pos[p] < head[r] /\ tail[r] <= pos[p] + Capacity
          BY <4>1 DEF ReaderOwns
        <5> QED
          BY <1>4, <1>6, <3>1, <5>1, CapacityType
      <4>3. seq'[r][Place(pos[p])] = seq[r][Place(pos[p])]
        BY <1>9, <3>1, <4>1, <4>2
      <4>4. ~SoleReader
        BY <1>2, <2>2, <3>3 DEF SoleReader, MakerInv, Popping
      <4>5. \A k \in 1 .. (len + 1) : got'[r][k].pos # pos[p]
        <5>1. \A k \in 1 .. len : got[r][k].pos # pos[p]
          BY <1>11, <4>1, <4>4 DEF ReaderOwns
        <5>2. ASSUME NEW k \in 1 .. (len + 1) PROVE k = len + 1 \/ k \in 1 .. len
          BY <1>11
        <5> QED
          BY <1>11, <4>1, <5>1, <5>2
      <4>6. ReaderOwns(r, p)'
        BY <1>8, <1>11, <3>1, <4>1, <4>3, <4>4, <4>5 DEF ReaderOwns
      <4> QED
        BY <1>8, <3>1, <3>3, <4>6 DEF CallInv, Pushing
    <3>4. CASE pc[p] \notin {"write", "publish", "read", "free"}
      BY <1>8, <3>1, <3>4 DEF CallInv, Pushing
    <3> QED
      BY <3>2, <3>3, <3>4
  <2> QED
    BY <2>1, <2>2
<1> QED
  BY <1>1, <1>3, <1>8, <1>13, <1>14, <1>15, <1>16 DEF RingInv

----------------------------------------------------------------------------
(* The end of create(): nobody was there before.                           *)

LEMMA InitSlotsKeeps ==
  ASSUME ShmInv, NEW w \in Writers, InitSlots(w), at[w] \notin early
  PROVE  RingInv(at[w])'
<1> USE DEF Goto
<1>1. PICK r : r = at[w]
  OBVIOUS
<1>2. TypeOK /\ w \in Processes /\ pc[w] = "slots"
  BY DEF ShmInv, Processes, InitSlots
<1>3. r \in Regions /\ r \notin complete /\ RingInv(r)
  BY <1>1, <1>2, ProcessTypes DEF ShmInv, MakerInv, Making
<1>4. Untouched(r)
  BY <1>3 DEF RingInv
<1>5. /\ seq'[r] = [i \in Slots |-> i] /\ r \in complete' /\ pc'[w] = "ready"
      /\ head' = head /\ tail' = tail /\ data' = data /\ put' = put /\ got' = got
      /\ at' = at /\ lmask' = lmask /\ pos' = pos /\ item' = item
      /\ \A p \in Processes : p # w => pc'[p] = pc[p]
  BY <1>1, <1>2, <1>3 DEF InitSlots, TypeOK, callVars
<1>6. Window(r)'
  <2>1. head'[r] = 0 /\ tail'[r] = 0
    BY <1>4, <1>5 DEF Untouched
  <2>2. ASSUME NEW n \in 0 .. 0 + Capacity - 1 PROVE seq'[r][Place(n)] <= n
    <3>1. n \in Slots /\ n \in Nat
      BY CapacityType DEF Slots
    <3>2. Place(n) = n
      BY <3>1, PlaceOfFirstLap
    <3> QED
      BY <1>5, <3>1, <3>2
  <2> QED
    BY <2>1, <2>2, CapacityType DEF Window
<1>7. GotInv(r)'
  <2>1. DOMAIN got'[r] = {}
    BY <1>4, <1>5 DEF Untouched
  <2> QED
    BY <2>1 DEF GotInv
<1>8. ASSUME NEW p \in Processes, at[p] = r
      PROVE  pc'[p] \notin Pushing \cup {"read", "free"} /\ (p # w => pc'[p] = pc[p])
  BY <1>4, <1>5, <1>8 DEF Untouched, Pushing
<1>9. OwnersApart(r)'
  BY <1>5, <1>8 DEF OwnersApart, Pushing
<1>10. ASSUME NEW p \in Processes, at[p] = r PROVE CallInv(r, p)'
  <2>1. CASE p = w
    BY <1>5, <2>1 DEF CallInv, Pushing
  <2>2. CASE p # w
    BY <1>3, <1>5, <1>8, <1>10, <2>2 DEF RingInv, CallInv, Pushing
  <2> QED
    BY <2>1, <2>2
<1> QED
  BY <1>1, <1>5, <1>6, <1>7, <1>9, <1>10 DEF RingInv

----------------------------------------------------------------------------
(* Every step is the step of one process.                                  *)

Step(p) ==
  \/ p \in Writers /\ (CreateStep(p) \/ TruncateFails(p) \/ PushStep(p))
  \/ p \in Readers /\ (CallOpen(p) \/ PopStep(p))
  \/ OpenStep(p) \/ Close(p) \/ Crash(p)

LEMMA Steps ==
  ASSUME [Next]_vars
  PROVE  UNCHANGED vars \/ \E p \in Processes : Step(p)
BY DEF Next, Step, Processes

(* The others stay where they are. *)
LEMMA OthersStay ==
  ASSUME TypeOK, NEW p \in Processes, Step(p), NEW q \in Processes, q # p
  PROVE  /\ pc'[q] = pc[q] /\ at'[q] = at[q] /\ owns'[q] = owns[q] /\ fresh'[q] = fresh[q]
         /\ lmask'[q] = lmask[q] /\ pos'[q] = pos[q] /\ item'[q] = item[q]
<1> USE DEF TypeOK, Goto, Forget, EndCall, procVars, callVars
<1>1. CASE CreateStep(p)
  BY <1>1 DEF CreateStep, CallCreate, MakeRegion, LoseRace, Truncate, WriteMagic,
     WriteCapacity, WriteMask, InitSlots
<1>2. CASE TruncateFails(p) \/ CallOpen(p) \/ Close(p) \/ Crash(p)
  BY <1>2 DEF TruncateFails, CallOpen, Close, Crash
<1>3. CASE PushStep(p)
  BY <1>3 DEF PushStep, CallPush, ClaimTail, ReturnFull, WriteData, PublishSlot
<1>4. CASE PopStep(p)
  BY <1>4 DEF PopStep, CallPop, LoadCapacity, ClaimHead, ReturnEmpty, ReadData, FreeSlot
<1>5. CASE OpenStep(p)
  BY <1>5 DEF OpenStep, OpenName, OpenFails, CheckMagic, WrongMagic
<1> QED
  BY <1>1, <1>2, <1>3, <1>4, <1>5 DEF Step

----------------------------------------------------------------------------
(* The rings.                                                              *)

(* The steps that use a ring, or make it complete. *)
UsesRing(p) ==
  \/ p \in Writers /\ (CallPush(p) \/ ClaimTail(p) \/ WriteData(p) \/ PublishSlot(p))
  \/ p \in Readers /\ (\/ CallPop(p) \/ LoadCapacity(p) \/ ClaimHead(p)
                       \/ ReadData(p) \/ FreeSlot(p))
  \/ p \in Writers /\ InitSlots(p)

(* They touch no other. *)
LEMMA OtherRings ==
  ASSUME TypeOK, NEW p \in Processes, UsesRing(p), NEW r \in Regions, r # at[p]
  PROVE  Quiet(r)
<1>1. Step(p)
  BY DEF Step, UsesRing, CreateStep, PushStep, PopStep
<1>2. at'[p] = at[p] /\ (r \in complete' <=> r \in complete)
  BY DEF UsesRing, CallPush, ClaimTail, WriteData, PublishSlot, CallPop, LoadCapacity,
     ClaimHead, ReadData, FreeSlot, InitSlots, regionVars, procVars
<1>3. UNCHANGED <<head[r], tail[r], seq[r], data[r], put[r], got[r]>>
  BY DEF TypeOK, UsesRing, CallPush, ClaimTail, WriteData, PublishSlot, CallPop, LoadCapacity,
     ClaimHead, ReadData, FreeSlot, InitSlots, EndCall, ringVars
<1> QED
  BY <1>1, <1>2, <1>3, OthersStay DEF Quiet

(* The other steps touch none. *)
LEMMA NoRing ==
  ASSUME TypeOK, NEW p \in Processes, Step(p), ~UsesRing(p), NEW r \in Regions
  PROVE  Quiet(r) /\ early' = early
<1> USE DEF Goto, Forget, EndCall, regionVars, Pushing, Popping
<1>1. complete' = complete /\ UNCHANGED ringVars /\ pc'[p] \notin Pushing \cup Popping
  <2> USE DEF TypeOK
  <2>1. CASE p \in Writers /\ CreateStep(p)
    BY <2>1 DEF CreateStep, CallCreate, MakeRegion, LoseRace, Truncate, WriteMagic,
       WriteCapacity, WriteMask, UsesRing
  <2>2. CASE TruncateFails(p) \/ CallOpen(p) \/ Close(p) \/ Crash(p)
    BY <2>2 DEF TruncateFails, CallOpen, Close, Crash
  <2>3. CASE p \in Writers /\ PushStep(p)
    BY <2>3 DEF PushStep, ReturnFull, UsesRing
  <2>4. CASE p \in Readers /\ PopStep(p)
    BY <2>4 DEF PopStep, ReturnEmpty, UsesRing
  <2>5. CASE OpenStep(p)
    BY <2>5 DEF OpenStep, OpenName, OpenFails, CheckMagic, WrongMagic
  <2> QED
    BY <2>1, <2>2, <2>3, <2>4, <2>5 DEF Step
<1> QED
  BY <1>1, OthersStay DEF Quiet, ringVars

LEMMA RingStep ==
  ASSUME ShmInv, [Next]_vars, NEW r \in Regions, r \notin early'
  PROVE  RingInv(r)'
<1>1. CASE UNCHANGED vars
  <2>1. early' = early /\ Quiet(r)
    BY <1>1 DEF vars, regionVars, ringVars, procVars, callVars, Quiet
  <2> QED
    BY <2>1, QuietKeeps DEF ShmInv
<1>2. ASSUME NEW p \in Processes, Step(p) PROVE RingInv(r)'
  <2>1. CASE ~UsesRing(p)
    BY <1>2, <2>1, NoRing, QuietKeeps DEF ShmInv
  <2>2. CASE UsesRing(p)
    <3>1. r \notin early
      BY <2>2 DEF UsesRing, CallPush, ClaimTail, WriteData, PublishSlot, CallPop, LoadCapacity,
         ClaimHead, ReadData, FreeSlot, InitSlots, ringVars
    <3>2. CASE r # at[p]
      BY <2>2, <3>1, <3>2, OtherRings, QuietKeeps DEF ShmInv
    <3>3. CASE r = at[p]
      <4>1. at'[p] = r
        BY <2>2, <3>3 DEF UsesRing, CallPush, ClaimTail, WriteData, PublishSlot, CallPop,
           LoadCapacity, ClaimHead, ReadData, FreeSlot, InitSlots, procVars
      <4>2. RingInv(at[p])'
        BY <2>2, <3>1, <3>3, CallPushKeeps, ClaimTailKeeps, WriteDataKeeps, PublishSlotKeeps,
           CallPopKeeps, LoadCapacityKeeps, ClaimHeadKeeps, ReadDataKeeps, FreeSlotKeeps,
           InitSlotsKeeps DEF UsesRing
      <4> QED
        BY <4>1, <4>2
    <3> QED
      BY <3>2, <3>3
  <2> QED
    BY <2>1, <2>2
<1> QED
  BY <1>1, <1>2, Steps

----------------------------------------------------------------------------
(* The name and the sizes.                                                 *)

(* A process that makes a region, or may unlink the name. *)
Holds(p) == pc[p] \in Making \/ owns[p]

LEMMA HolderFacts ==
  ASSUME MakerInv, NEW p \in Processes, Holds(p)
  PROVE  /\ p \in Writers /\ name # 0 /\ at[p] = name
         /\ \A q \in Processes : q # p => ~Holds(q)
BY DEF MakerInv, Holds

(* What a step may do to the holder of the name. *)
HolderMoves(p) ==
  \/ /\ Holds(p)' => Holds(p) /\ at'[p] = at[p]
     /\ name' = name
  \/ /\ name = 0 /\ p \in Writers /\ name' # 0 /\ at'[p] = name'
  \/ /\ Holds(p) /\ ~Holds(p)'

LEMMA HolderStep ==
  ASSUME TypeOK, MakerInv, NEW p \in Processes, Step(p)
  PROVE  HolderMoves(p)
<1> USE DEF TypeOK, Goto, Forget, EndCall, regionVars, procVars, Holds, Making
<1>1. CASE p \in Writers /\ CreateStep(p)
  <2>1. CASE MakeRegion(p)
    BY <1>1, <2>1 DEF MakeRegion, HolderMoves
  <2>2. CASE ~MakeRegion(p)
    BY <1>1, <2>2 DEF CreateStep, CallCreate, LoseRace, Truncate, WriteMagic,
       WriteCapacity, WriteMask, InitSlots, HolderMoves, SetHeader
  <2> QED
    BY <2>1, <2>2
<1>2. CASE TruncateFails(p) \/ CallOpen(p) \/ Close(p) \/ Crash(p)
  BY <1>2 DEF TruncateFails, CallOpen, Close, Crash, HolderMoves
<1>3. CASE PushStep(p)
  BY <1>3 DEF PushStep, CallPush, ClaimTail, ReturnFull, WriteData, PublishSlot, HolderMoves
<1>4. CASE PopStep(p)
  BY <1>4 DEF PopStep, CallPop, LoadCapacity, ClaimHead, ReturnEmpty, ReadData, FreeSlot,
     HolderMoves
<1>5. CASE OpenStep(p)
  BY <1>5, HolderFacts DEF OpenStep, OpenName, OpenFails, CheckMagic, WrongMagic, HolderMoves
<1> QED
  BY <1>1, <1>2, <1>3, <1>4, <1>5 DEF Step

(* At most one process holds the name, the one it stands for. *)
LEMMA HolderKept ==
  ASSUME TypeOK, MakerInv, NEW p \in Processes, Step(p)
  PROVE  \A q \in Processes :
           Holds(q)' => /\ q \in Writers /\ name' # 0 /\ at'[q] = name'
                        /\ \A o \in Processes : Holds(o)' => o = q
<1>1. \A q \in Processes : q # p => (Holds(q)' <=> Holds(q)) /\ at'[q] = at[q]
  BY OthersStay DEF Holds
<1>2. CASE (Holds(p)' => Holds(p) /\ at'[p] = at[p]) /\ name' = name
  BY <1>1, <1>2, HolderFacts
<1>3. CASE name = 0 /\ p \in Writers /\ name' # 0 /\ at'[p] = name'
  BY <1>1, <1>3, HolderFacts
<1>4. CASE Holds(p) /\ ~Holds(p)'
  BY <1>1, <1>4, HolderFacts
<1> QED
  BY <1>2, <1>3, <1>4, HolderStep DEF HolderMoves

(* Only the maker of a region writes its header, before it is complete. *)
LEMMA HeaderMoves ==
  ASSUME TypeOK, NEW p \in Processes, Step(p)
  PROVE  \/ header' = header /\ complete' = complete
         \/ /\ pc[p] \in Making /\ complete' = complete
            /\ \A r \in Regions : r # at[p] => header'[r] = header[r]
         \/ pc[p] = "slots" /\ header' = header /\ complete' = complete \cup {at[p]}
<1> USE DEF regionVars
<1>1. CASE CreateStep(p)
  BY <1>1 DEF TypeOK, CreateStep, CallCreate, MakeRegion, LoseRace, Truncate, WriteMagic,
     WriteCapacity, WriteMask, InitSlots, SetHeader, Making
<1>2. CASE TruncateFails(p) \/ CallOpen(p) \/ Close(p) \/ Crash(p)
  BY <1>2 DEF TruncateFails, CallOpen, Close, Crash
<1>3. CASE PushStep(p)
  BY <1>3 DEF PushStep, CallPush, ClaimTail, ReturnFull, WriteData, PublishSlot
<1>4. CASE PopStep(p)
  BY <1>4 DEF PopStep, CallPop, LoadCapacity, ClaimHead, ReturnEmpty, ReadData, FreeSlot
<1>5. CASE OpenStep(p)
  BY <1>5 DEF OpenStep, OpenName, OpenFails, CheckMagic, WrongMagic
<1> QED
  BY <1>1, <1>2, <1>3, <1>4, <1>5 DEF Step

(* What MakerInv and HeaderInv say of one process. *)
Own(p) ==
  /\ pc[p] \in Making => at[p] \notin complete
  /\ owns[p] /\ pc[p] \notin Making => fresh[p]
  /\ pc[p] \in Pushing => p \in Writers
  /\ pc[p] \in Popping => p \in Readers
  /\ pc[p] \in {"mask", "slots"} => header[at[p]].capacity = Capacity
  /\ pc[p] = "slots" => header[at[p]].mask = Capacity - 1

LEMMA OwnStep ==
  ASSUME TypeOK, NEW p \in Processes, Own(p), Step(p)
  PROVE  Own(p)'
<1> USE DEF Own, Making, Pushing, Popping
<1>1. CASE p \in Writers /\ CreateStep(p)
  <2> USE DEF TypeOK, Goto, regionVars, procVars
  <2>1. CASE CallCreate(p) \/ LoseRace(p) \/ InitSlots(p)
    BY <2>1 DEF CallCreate, LoseRace, InitSlots
  <2>2. CASE MakeRegion(p)
    <3>1. made' \notin complete /\ at'[p] = made' /\ pc'[p] = "truncate" /\ complete' = complete
      BY <2>2 DEF MakeRegion
    <3> QED
      BY <3>1
  <2>3. CASE Truncate(p) \/ WriteMagic(p)
    BY <2>3 DEF Truncate, WriteMagic
  <2>4. CASE WriteCapacity(p) \/ WriteMask(p)
    <3>1. at[p] \in Regions
      BY <2>4, ProcessTypes DEF WriteCapacity, WriteMask
    <3>2. CASE WriteCapacity(p)
      BY <3>1, <3>2 DEF WriteCapacity, SetHeader
    <3>3. CASE WriteMask(p)
      BY <3>1, <3>3 DEF WriteMask, SetHeader
    <3> QED
      BY <2>4, <3>2, <3>3
  <2> QED
    BY <1>1, <2>1, <2>2, <2>3, <2>4 DEF CreateStep
<1>2. CASE TruncateFails(p) \/ CallOpen(p) \/ Close(p) \/ Crash(p)
  BY <1>2 DEF TruncateFails, CallOpen, Close, Crash, TypeOK, Goto, Forget, procVars
<1>3. CASE p \in Writers /\ PushStep(p)
  BY <1>3 DEF PushStep, CallPush, ClaimTail, ReturnFull, WriteData, PublishSlot,
     TypeOK, Goto, EndCall, procVars
<1>4. CASE p \in Readers /\ PopStep(p)
  BY <1>4 DEF PopStep, CallPop, LoadCapacity, ClaimHead, ReturnEmpty, ReadData, FreeSlot,
     TypeOK, Goto, EndCall, procVars
<1>5. CASE OpenStep(p)
  BY <1>5 DEF OpenStep, OpenName, OpenFails, CheckMagic, WrongMagic,
     TypeOK, Goto, Forget, procVars
<1> QED
  BY <1>1, <1>2, <1>3, <1>4, <1>5 DEF Step

LEMMA MakerStep ==
  ASSUME TypeOK, MakerInv, HeaderInv, [Next]_vars
  PROVE  MakerInv' /\ HeaderInv'
<1>1. CASE UNCHANGED vars
  BY <1>1 DEF MakerInv, HeaderInv, vars, regionVars, procVars
<1>2. ASSUME NEW p \in Processes, Step(p) PROVE MakerInv' /\ HeaderInv'
  <2>1. \A q \in Processes : Own(q)
    BY DEF MakerInv, HeaderInv, Own
  <2>2. Own(p)'
    BY <1>2, <2>1, OwnStep
  <2>3. pc[p] \in Making => at[p] \in Regions /\ at[p] \notin complete
    BY <2>1, ProcessTypes DEF Own, Making
  <2>4. ASSUME NEW q \in Processes, q # p PROVE Own(q)'
    <3>1. /\ pc'[q] = pc[q] /\ at'[q] = at[q] /\ owns'[q] = owns[q] /\ fresh'[q] = fresh[q]
          /\ Own(q)
      BY <1>2, <2>1, <2>4, OthersStay
    <3>2. CASE pc[q] \notin Making
      BY <3>1, <3>2 DEF Own, Making
    <3>3. CASE pc[q] \in Making
      <4>1. pc[p] \notin Making
        BY <2>4, <3>3, HolderFacts DEF Holds
      <4>2. header' = header /\ complete' = complete
        BY <1>2, <4>1, HeaderMoves DEF Making
      <4> QED
        BY <3>1, <4>2 DEF Own
    <3> QED
      BY <3>2, <3>3
  <2>5. MakerInv'
    <3>1. \A q \in Processes : Own(q)'
      BY <2>2, <2>4
    <3>2. \A q \in Processes :
            Holds(q)' => /\ q \in Writers /\ name' # 0 /\ at'[q] = name'
                         /\ \A o \in Processes : Holds(o)' => o = q
      BY <1>2, HolderKept
    <3> QED
      BY <3>1, <3>2 DEF MakerInv, Own, Holds
  <2>6. ASSUME NEW r \in complete'
        PROVE  header'[r].mask = Capacity - 1 /\ header'[r].capacity = Capacity
    <3>1. r \in complete => header[r].mask = Capacity - 1 /\ header[r].capacity = Capacity
      BY DEF HeaderInv
    <3>2. CASE header' = header /\ complete' = complete
      BY <2>6, <3>1, <3>2
    <3>3. CASE /\ pc[p] \in Making /\ complete' = complete
               /\ \A g \in Regions : g # at[p] => header'[g] = header[g]
      <4>1. r \in Regions
        BY <2>6, <3>3, BoundsAssumption DEF TypeOK, Regions
      <4> QED
        BY <2>3, <2>6, <3>1, <3>3, <4>1
    <3>4. CASE pc[p] = "slots" /\ header' = header /\ complete' = complete \cup {at[p]}
      BY <2>1, <2>6, <3>1, <3>4 DEF Own
    <3> QED
      BY <1>2, <3>2, <3>3, <3>4, HeaderMoves
  <2> QED
    BY <2>2, <2>4, <2>5, <2>6 DEF HeaderInv, Own
<1> QED
  BY <1>1, <1>2, Steps

----------------------------------------------------------------------------
(* Types.                                                                  *)

(* The name, the regions and the mappings; *)
MapTypeOK ==
  /\ name \in 0 .. made
  /\ made \in 0 .. MaxRegions
  /\ complete \subseteq 1 .. made
  /\ early \subseteq 1 .. made
  /\ at \in [Processes -> 0 .. made]
  /\ pc \in [Processes -> Labels]
  /\ \A p \in Processes : pc[p] \in {"down", "exclusive", "open"} <=> at[p] = 0

(* what a process keeps; *)
CallTypeOK ==
  /\ owns \in [Processes -> BOOLEAN]
  /\ fresh \in [Processes -> BOOLEAN]
  /\ lmask \in [Processes -> {0, Capacity - 1}]
  /\ lcap \in [Processes -> {0, Capacity}]
  /\ pos \in [Processes -> Nat]
  /\ item \in [Processes -> Messages]
  /\ sent \in Messages /\ crashes \in Nat /\ closes \in Nat

(* the regions' contents. *)
RingTypeOK ==
  /\ header \in [Regions -> [sized : BOOLEAN, magic : BOOLEAN,
                             capacity : {0, Capacity}, mask : {0, Capacity - 1}]]
  /\ head \in [Regions -> Nat]
  /\ tail \in [Regions -> Nat]
  /\ seq \in [Regions -> [Slots -> Nat]]
  /\ data \in [Regions -> [Slots -> Messages]]
  /\ put \in [Regions -> Seq(Messages)] /\ \A r \in Regions : Len(put[r]) = tail[r]
  /\ got \in [Regions -> Seq([pos : Nat, msg : Messages])]

LEMMA TypeParts == TypeOK <=> MapTypeOK /\ CallTypeOK /\ RingTypeOK
BY DEF TypeOK, MapTypeOK, CallTypeOK, RingTypeOK

LEMMA NoMessageYet == 0 \in Messages
BY BoundsAssumption DEF Messages

(* Forgetting a region, and the end of a call, keep the types. *)
LEMMA ForgetTypes ==
  ASSUME TypeOK, NEW p \in Processes, Forget(p)
  PROVE  /\ name' \in {0, name} /\ UNCHANGED <<made, complete, early>> => MapTypeOK'
         /\ crashes' \in Nat /\ closes' \in Nat /\ sent' = sent => CallTypeOK'
<1> USE TypeParts DEF Forget, Goto
<1>1. at' \in [Processes -> 0 .. made] /\ pc' \in [Processes -> Labels]
  BY DEF MapTypeOK, Labels
<1>2. ASSUME NEW q \in Processes
      PROVE  pc'[q] \in {"down", "exclusive", "open"} <=> at'[q] = 0
  BY DEF MapTypeOK
<1>3. name' \in {0, name} /\ UNCHANGED <<made, complete, early>> => MapTypeOK'
  BY <1>1, <1>2 DEF MapTypeOK
<1>4. crashes' \in Nat /\ closes' \in Nat /\ sent' = sent => CallTypeOK'
  BY NoMessageYet DEF CallTypeOK
<1> QED
  BY <1>3, <1>4

LEMMA EndCallTypes ==
  ASSUME TypeOK, NEW p \in Processes, EndCall(p), UNCHANGED <<procVars, sent, exits>>
  PROVE  CallTypeOK'
BY TypeParts, NoMessageYet DEF EndCall, procVars, exits, CallTypeOK

LEMMA MapTypeStep ==
  ASSUME TypeOK, NEW p \in Processes, Step(p)
  PROVE  MapTypeOK'
<1>1. MapTypeOK /\ MaxRegions \in Nat
  BY TypeParts, BoundsAssumption
<1> USE <1>1 DEF MapTypeOK, Goto, Labels
<1>2. CASE CreateStep(p)
  <2> USE DEF regionVars, ringVars, procVars
  <2>1. CASE MakeRegion(p)
    <3>1. /\ made' \in 1 .. MaxRegions /\ made' = made + 1 /\ name' = made'
          /\ complete' = complete /\ early' = early
          /\ at' = [at EXCEPT ![p] = made'] /\ pc' = [pc EXCEPT ![p] = "truncate"]
      BY <2>1 DEF MakeRegion
    <3>2. 1 .. made \subseteq 1 .. made' /\ 0 .. made \subseteq 0 .. made' /\ made' \in 0 .. made'
      BY <3>1
    <3>3. at' \in [Processes -> 0 .. made'] /\ pc' \in [Processes -> Labels]
      BY <3>1, <3>2
    <3>4. ASSUME NEW q \in Processes
          PROVE  pc'[q] \in {"down", "exclusive", "open"} <=> at'[q] = 0
      BY <3>1
    <3> QED
      BY <3>1, <3>2, <3>3, <3>4
  <2>2. CASE InitSlots(p)
    <3>1. at[p] \in 1 .. made
      BY <2>2, ProcessTypes DEF InitSlots
    <3> QED
      BY <2>2, <3>1 DEF InitSlots
  <2>3. CASE CallCreate(p) \/ LoseRace(p) \/ Truncate(p) \/ WriteMagic(p)
             \/ WriteCapacity(p) \/ WriteMask(p)
    BY <2>3 DEF CallCreate, LoseRace, Truncate, WriteMagic, WriteCapacity, WriteMask
  <2> QED
    BY <1>2, <2>1, <2>2, <2>3 DEF CreateStep
<1>3. CASE TruncateFails(p) \/ CallOpen(p) \/ Close(p) \/ Crash(p)
  <2> USE DEF regionVars, ringVars, procVars
  <2>1. CASE CallOpen(p)
    BY <2>1 DEF CallOpen
  <2>2. CASE TruncateFails(p) \/ Close(p) \/ Crash(p)
    <3>1. Forget(p) /\ name' \in {0, name} /\ UNCHANGED <<made, complete, early>>
      BY <2>2 DEF TruncateFails, Close, Crash
    <3> QED
      BY <3>1, ForgetTypes
  <2> QED
    BY <1>3, <2>1, <2>2
<1>4. CASE PushStep(p)
  <2> USE DEF regionVars, ringVars, procVars
  <2>1. CASE CallPush(p)
    <3>1. at[p] \in 1 .. made
      BY <2>1, ProcessTypes DEF CallPush
    <3> QED
      BY <2>1, <3>1 DEF CallPush
  <2>2. CASE ClaimTail(p) \/ ReturnFull(p) \/ WriteData(p) \/ PublishSlot(p)
    BY <2>2 DEF ClaimTail, ReturnFull, WriteData, PublishSlot, EndCall
  <2> QED
    BY <1>4, <2>1, <2>2 DEF PushStep
<1>5. CASE PopStep(p)
  <2> USE DEF regionVars, ringVars, procVars
  <2>1. CASE CallPop(p)
    <3>1. at[p] \in 1 .. made
      BY <2>1, ProcessTypes DEF CallPop
    <3> QED
      BY <2>1, <3>1 DEF CallPop
  <2>2. CASE LoadCapacity(p) \/ ClaimHead(p) \/ ReturnEmpty(p) \/ ReadData(p) \/ FreeSlot(p)
    BY <2>2 DEF LoadCapacity, ClaimHead, ReturnEmpty, ReadData, FreeSlot, EndCall
  <2> QED
    BY <1>5, <2>1, <2>2 DEF PopStep
<1>6. CASE OpenStep(p)
  <2> USE DEF regionVars, ringVars, procVars
  <2>1. CASE OpenName(p)
    BY <2>1 DEF OpenName
  <2>2. CASE CheckMagic(p)
    BY <2>2 DEF CheckMagic
  <2>3. CASE OpenFails(p) \/ WrongMagic(p)
    <3>1. Forget(p) /\ name' \in {0, name} /\ UNCHANGED <<made, complete, early>>
      BY <2>3 DEF OpenFails, WrongMagic
    <3> QED
      BY <3>1, ForgetTypes
  <2> QED
    BY <1>6, <2>1, <2>2, <2>3 DEF OpenStep
<1> QED
  BY <1>2, <1>3, <1>4, <1>5, <1>6 DEF Step

LEMMA CallTypeStep ==
  ASSUME TypeOK, NEW p \in Processes, Step(p)
  PROVE  CallTypeOK'
<1>1. CallTypeOK /\ RingTypeOK
  BY TypeParts
<1>2. pc[p] \notin {"down", "exclusive", "open"} => at[p] \in Regions
  BY ProcessTypes
<1> USE <1>1 DEF CallTypeOK
<1>3. CASE CreateStep(p)
  BY <1>3 DEF CreateStep, CallCreate, MakeRegion, LoseRace, Truncate, WriteMagic,
     WriteCapacity, WriteMask, InitSlots, ringVars, procVars, callVars, exits
<1>4. CASE TruncateFails(p) \/ CallOpen(p) \/ Close(p) \/ Crash(p)
  <2>1. CASE CallOpen(p)
    BY <2>1 DEF CallOpen, ringVars, procVars, callVars, exits
  <2>2. CASE TruncateFails(p) \/ Close(p) \/ Crash(p)
    <3>1. Forget(p) /\ crashes' \in Nat /\ closes' \in Nat /\ sent' = sent
      BY <2>2 DEF TruncateFails, Close, Crash, ringVars, exits
    <3> QED
      BY <3>1, ForgetTypes
  <2> QED
    BY <1>4, <2>1, <2>2
<1>5. CASE PushStep(p)
  <2> USE DEF procVars, callVars, exits, ringVars
  <2>1. CASE CallPush(p)
    <3>1. sent' \in Messages
      BY <2>1, BoundsAssumption DEF CallPush, Messages
    <3> QED
      BY <1>2, <2>1, <3>1 DEF CallPush, RingTypeOK
  <2>2. CASE ClaimTail(p)
    BY <1>2, <2>2 DEF ClaimTail, RingTypeOK
  <2>3. CASE WriteData(p)
    BY <2>3 DEF WriteData
  <2>4. CASE ReturnFull(p) \/ PublishSlot(p)
    BY <2>4, EndCallTypes DEF ReturnFull, PublishSlot
  <2> QED
    BY <1>5, <2>1, <2>2, <2>3, <2>4 DEF PushStep
<1>6. CASE PopStep(p)
  <2> USE DEF procVars, callVars, exits, ringVars
  <2>1. CASE CallPop(p) \/ LoadCapacity(p)
    BY <1>2, <2>1 DEF CallPop, LoadCapacity, RingTypeOK
  <2>2. CASE ClaimHead(p)
    BY <1>2, <2>2 DEF ClaimHead, RingTypeOK
  <2>3. CASE ReadData(p)
    <3>1. data[at[p]][Slot(pos[p], lmask[p])] \in Messages
      <4>1. at[p] \in Regions /\ pos[p] \in Nat /\ lmask[p] \in {0, Capacity - 1}
        BY <1>2, <2>3 DEF ReadData
      <4>2. Slot(pos[p], lmask[p]) \in Slots
        BY <4>1, SlotType
      <4> QED
        BY <4>1, <4>2 DEF RingTypeOK
    <3> QED
      BY <2>3, <3>1 DEF ReadData
  <2>4. CASE ReturnEmpty(p) \/ FreeSlot(p)
    BY <2>4, EndCallTypes DEF ReturnEmpty, FreeSlot
  <2> QED
    BY <1>6, <2>1, <2>2, <2>3, <2>4 DEF PopStep
<1>7. CASE OpenStep(p)
  <2>1. CASE OpenName(p) \/ CheckMagic(p)
    BY <2>1 DEF OpenName, CheckMagic, ringVars, procVars, callVars, exits
  <2>2. CASE OpenFails(p) \/ WrongMagic(p)
    <3>1. Forget(p) /\ crashes' \in Nat /\ closes' \in Nat /\ sent' = sent
      BY <2>2 DEF OpenFails, WrongMagic, ringVars, exits, CallTypeOK
    <3> QED
      BY <3>1, ForgetTypes
  <2> QED
    BY <1>7, <2>1, <2>2 DEF OpenStep
<1> QED
  BY <1>3, <1>4, <1>5, <1>6, <1>7 DEF Step

LEMMA RingTypeStep ==
  ASSUME TypeOK, NEW p \in Processes, Step(p)
  PROVE  RingTypeOK'
<1>1. /\ RingTypeOK
      /\ pos[p] \in Nat /\ item[p] \in Messages
      /\ lmask[p] \in {0, Capacity - 1} /\ lcap[p] \in {0, Capacity}
  BY TypeParts, ProcessTypes
<1>2. pc[p] \notin {"down", "exclusive", "open"} => at[p] \in Regions
  BY ProcessTypes
<1> USE <1>1 DEF regionVars, ringVars
<1>3. CASE CreateStep(p)
  <2>1. CASE Truncate(p) \/ WriteMagic(p) \/ WriteCapacity(p) \/ WriteMask(p)
    <3> DEFINE Headers == [sized : BOOLEAN, magic : BOOLEAN,
                           capacity : {0, Capacity}, mask : {0, Capacity - 1}]
    <3>1. header \in [Regions -> Headers]
      BY DEF RingTypeOK
    <3>2. ASSUME NEW h \in Headers
          PROVE  /\ [h EXCEPT !.sized = TRUE] \in Headers
                 /\ [h EXCEPT !.magic = TRUE] \in Headers
                 /\ [h EXCEPT !.capacity = Capacity] \in Headers
                 /\ [h EXCEPT !.mask = Capacity - 1] \in Headers
      BY <3>2
    <3>3. \/ header' = [header EXCEPT ![at[p]] = [header[at[p]] EXCEPT !.sized = TRUE]]
          \/ header' = [header EXCEPT ![at[p]] = [header[at[p]] EXCEPT !.magic = TRUE]]
          \/ header' = [header EXCEPT ![at[p]] = [header[at[p]] EXCEPT !.capacity = Capacity]]
          \/ header' = [header EXCEPT ![at[p]] = [header[at[p]] EXCEPT !.mask = Capacity - 1]]
      BY <2>1 DEF Truncate, WriteMagic, WriteCapacity, WriteMask, SetHeader
    <3>4. at[p] \in Regions /\ UNCHANGED ringVars
      BY <1>2, <2>1 DEF Truncate, WriteMagic, WriteCapacity, WriteMask
    <3> HIDE DEF Headers
    <3>5. header' \in [Regions -> Headers]
      BY <3>1, <3>2, <3>3, <3>4
    <3> QED
      BY <3>4, <3>5 DEF Headers, RingTypeOK
  <2>2. CASE InitSlots(p)
    <3>1. [i \in Slots |-> i] \in [Slots -> Nat]
      BY CapacityType DEF Slots
    <3> QED
      BY <1>2, <2>2, <3>1 DEF InitSlots, RingTypeOK
  <2>3. CASE CallCreate(p) \/ MakeRegion(p) \/ LoseRace(p)
    BY <2>3 DEF CallCreate, MakeRegion, LoseRace, RingTypeOK
  <2> QED
    BY <1>3, <2>1, <2>2, <2>3 DEF CreateStep
<1>4. CASE TruncateFails(p) \/ CallOpen(p) \/ Close(p) \/ Crash(p)
  BY <1>4 DEF TruncateFails, CallOpen, Close, Crash, RingTypeOK
<1>5. CASE PushStep(p)
  <2>1. CASE ClaimTail(p)
    <3>1. at[p] \in Regions /\ put'[at[p]] = Append(put[at[p]], item[p])
      BY <1>2, <2>1 DEF ClaimTail, RingTypeOK
    <3>2. put'[at[p]] \in Seq(Messages) /\ Len(put'[at[p]]) = tail[at[p]] + 1
      BY <3>1, PutGrows
    <3>3. /\ put' = [put EXCEPT ![at[p]] = Append(put[at[p]], item[p])]
          /\ tail' = [tail EXCEPT ![at[p]] = tail[at[p]] + 1]
          /\ UNCHANGED <<header, head, seq, data, got>>
      BY <2>1 DEF ClaimTail
    <3>4. tail' \in [Regions -> Nat] /\ tail'[at[p]] = tail[at[p]] + 1
      BY <3>1, <3>3 DEF RingTypeOK
    <3>5. ASSUME NEW r \in Regions
          PROVE  put'[r] \in Seq(Messages) /\ Len(put'[r]) = tail'[r]
      <4>1. CASE r = at[p]
        BY <3>2, <3>4, <4>1
      <4>2. CASE r # at[p]
        <5>1. put'[r] = put[r] /\ tail'[r] = tail[r]
          BY <3>3, <4>2 DEF RingTypeOK
        <5> QED
          BY <5>1 DEF RingTypeOK
      <4> QED
        BY <4>1, <4>2
    <3>6. put' \in [Regions -> Seq(Messages)]
      <4>1. DOMAIN put' = Regions /\ put' = [r \in Regions |-> put'[r]]
        BY <3>3 DEF RingTypeOK
      <4> QED
        BY <3>5, <4>1
    <3> QED
      BY <3>3, <3>4, <3>5, <3>6 DEF RingTypeOK
  <2>2. CASE PublishSlot(p)
    <3>1. at[p] \in Regions /\ pos[p] + 1 \in Nat
      BY <1>2, <2>2 DEF PublishSlot
    <3>2. seq' = [seq EXCEPT ![at[p]] = [seq[at[p]] EXCEPT ![Slot(pos[p], lmask[p])] = pos[p] + 1]]
      BY <2>2 DEF PublishSlot
    <3>3. seq' \in [Regions -> [Slots -> Nat]]
      BY <3>1, <3>2 DEF RingTypeOK
    <3> QED
      BY <2>2, <3>3 DEF PublishSlot, RingTypeOK
  <2>3. CASE WriteData(p)
    BY <1>2, <2>3 DEF WriteData, RingTypeOK
  <2>4. CASE CallPush(p) \/ ReturnFull(p)
    BY <2>4 DEF CallPush, ReturnFull, RingTypeOK
  <2> QED
    BY <1>5, <2>1, <2>2, <2>3, <2>4 DEF PushStep
<1>6. CASE PopStep(p)
  <2>1. CASE FreeSlot(p)
    <3>1. at[p] \in Regions /\ got[at[p]] \in Seq([pos : Nat, msg : Messages])
      BY <1>2, <2>1 DEF FreeSlot, RingTypeOK
    <3>2. [pos |-> pos[p], msg |-> item[p]] \in [pos : Nat, msg : Messages]
      OBVIOUS
    <3>3. Append(got[at[p]], [pos |-> pos[p], msg |-> item[p]]) \in Seq([pos : Nat, msg : Messages])
      BY <3>1, <3>2, AppendProperties
    <3>4. pos[p] + lcap[p] \in Nat
      BY CapacityType
    <3> QED
      BY <2>1, <3>1, <3>3, <3>4 DEF FreeSlot, RingTypeOK
  <2>2. CASE ClaimHead(p)
    <3>1. /\ at[p] \in Regions /\ head \in [Regions -> Nat]
          /\ head' = [head EXCEPT ![at[p]] = head[at[p]] + 1]
      BY <1>2, <2>2 DEF ClaimHead, RingTypeOK
    <3>2. head' \in [Regions -> Nat]
      BY <3>1
    <3> QED
      BY <2>2, <3>2 DEF ClaimHead, RingTypeOK
  <2>3. CASE CallPop(p) \/ LoadCapacity(p) \/ ReturnEmpty(p) \/ ReadData(p)
    BY <2>3 DEF CallPop, LoadCapacity, ReturnEmpty, ReadData, RingTypeOK
  <2> QED
    BY <1>6, <2>1, <2>2, <2>3 DEF PopStep
<1>7. CASE OpenStep(p)
  BY <1>7 DEF OpenStep, OpenName, OpenFails, CheckMagic, WrongMagic, RingTypeOK
<1> QED
  BY <1>3, <1>4, <1>5, <1>6, <1>7 DEF Step

LEMMA TypeStep == TypeOK /\ [Next]_vars => TypeOK'
<1> SUFFICES ASSUME TypeOK, [Next]_vars PROVE TypeOK'
  OBVIOUS
<1>1. CASE UNCHANGED vars
  BY <1>1 DEF TypeOK, vars, regionVars, ringVars, procVars, callVars
<1>2. ASSUME NEW p \in Processes, Step(p) PROVE TypeOK'
  <2>1. MapTypeOK' /\ CallTypeOK' /\ RingTypeOK'
    BY <1>2, MapTypeStep, CallTypeStep, RingTypeStep
  <2> QED
    BY <2>1 DEF TypeOK, MapTypeOK, CallTypeOK, RingTypeOK
<1> QED
  BY <1>1, <1>2, Steps

----------------------------------------------------------------------------
(* The theorems.                                                           *)

LEMMA InitShmInv == Init => ShmInv
<1> SUFFICES ASSUME Init PROVE ShmInv
  OBVIOUS
<1> USE DEF Init
<1>1. TypeOK
  <2>1. MapTypeOK
    BY BoundsAssumption DEF MapTypeOK, Labels
  <2>2. CallTypeOK
    BY NoMessageYet DEF CallTypeOK
  <2>3. RingTypeOK
    BY NoMessageYet DEF RingTypeOK
  <2> QED
    BY <2>1, <2>2, <2>3, TypeParts
<1>2. MakerInv /\ HeaderInv
  BY DEF MakerInv, HeaderInv, Making, Pushing, Popping
<1>3. ASSUME NEW r \in Regions PROVE RingInv(r)
  BY <1>3 DEF RingInv, Untouched, CallInv, Pushing, Regions
<1> QED
  BY <1>1, <1>2, <1>3 DEF ShmInv

LEMMA NextShmInv == ShmInv /\ [Next]_vars => ShmInv'
<1> SUFFICES ASSUME ShmInv, [Next]_vars PROVE ShmInv'
  OBVIOUS
<1>1. TypeOK' /\ MakerInv' /\ HeaderInv'
  BY TypeStep, MakerStep DEF ShmInv
<1>2. \A r \in Regions : r \notin early' => RingInv(r)'
  BY RingStep
<1> QED
  BY <1>1, <1>2 DEF ShmInv

(* The name, the headers and the rings are always in order: in a region    *)
(* that is complete, and was used by nobody else before, the window of     *)
(* slots holds what was put, and every claimed slot has one owner.         *)
THEOREM ShmInvariant == Spec => []ShmInv
BY InitShmInv, NextShmInv, PTL DEF Spec

(* Types, and who has a region mapped. *)
THEOREM ShmTypeCorrect == Spec => []TypeOK
<1>1. ShmInv => TypeOK
  BY DEF ShmInv
<1> QED
  BY <1>1, ShmInvariant, PTL

(* What a reader gets from a region was put there, at the position it      *)
(* claimed; and it gets no position twice.                                 *)
THEOREM WhatIsReadWasPut == Spec => []ReadsWhatWasPut
<1>1. ShmInv => ReadsWhatWasPut
  <2> SUFFICES ASSUME ShmInv, NEW r \in complete \ early
               PROVE  /\ \A k \in DOMAIN got[r] :
                           /\ got[r][k].pos < tail[r]
                           /\ got[r][k].msg = put[r][got[r][k].pos + 1]
                      /\ \A k, l \in DOMAIN got[r] :
                           k < l => IF SoleReader THEN got[r][k].pos < got[r][l].pos
                                                  ELSE got[r][k].pos # got[r][l].pos
    BY DEF ReadsWhatWasPut
  <2>1. r \in Regions /\ TypeOK
    <3>1. TypeOK /\ complete \subseteq 1 .. made /\ made \in 0 .. MaxRegions /\ MaxRegions \in Nat
      BY BoundsAssumption DEF ShmInv, TypeOK
    <3>2. 1 .. made \subseteq 1 .. MaxRegions
      BY <3>1
    <3> QED
      BY <3>1, <3>2 DEF Regions
  <2>2. Window(r) /\ GotInv(r)
    BY <2>1 DEF ShmInv, RingInv
  <2>3. /\ head[r] \in Nat /\ tail[r] \in Nat /\ head[r] <= tail[r]
        /\ \A k \in DOMAIN got[r] : got[r][k].pos \in Nat
    BY <2>1, <2>2, RegionTypes DEF Window
  <2>4. ASSUME NEW k \in DOMAIN got[r] PROVE got[r][k].pos < tail[r]
    <3>1. got[r][k].pos < head[r]
      BY <2>2 DEF GotInv
    <3> QED
      BY <2>3, <3>1
  <2> QED
    BY <2>2, <2>4 DEF GotInv
<1> QED
  BY <1>1, ShmInvariant, PTL

(* A region loses its name only to the process that made it. *)
THEOREM NamesAreUnlinkedByMakers == Spec => UnlinksOwnRegion
<1>1. ShmInv /\ [Next]_vars =>
        [name # 0 /\ name' # name =>
           /\ name' = 0
           /\ \E w \in Writers :
                /\ pc'[w] = "down"
                /\ at[w] = name
                /\ fresh[w] \/ pc[w] = "truncate"]_vars
  <2> SUFFICES ASSUME ShmInv, NEW p \in Processes, Step(p), name # 0, name' # name
               PROVE  /\ name' = 0
                      /\ \E w \in Writers :
                           /\ pc'[w] = "down"
                           /\ at[w] = name
                           /\ fresh[w] \/ pc[w] = "truncate"
    BY Steps DEF vars, regionVars
  <2>1. TypeOK /\ MakerInv
    BY DEF ShmInv
  <2>2. TruncateFails(p) \/ Close(p)
    BY DEF Step, CreateStep, CallCreate, MakeRegion, LoseRace, Truncate, WriteMagic,
       WriteCapacity, WriteMask, InitSlots, PushStep, CallPush, ClaimTail, ReturnFull,
       WriteData, PublishSlot, PopStep, CallPop, LoadCapacity, ClaimHead, ReturnEmpty,
       ReadData, FreeSlot, CallOpen, OpenStep, OpenName, OpenFails, CheckMagic, WrongMagic,
       Crash, regionVars
  <2>3. name' = 0 /\ Holds(p) /\ pc'[p] = "down"
        /\ ((owns[p] /\ pc[p] = "ready") \/ pc[p] = "truncate")
    BY <2>1, <2>2 DEF TruncateFails, Close, Forget, Goto, TypeOK, Holds, Making
  <2>4. p \in Writers /\ at[p] = name
    BY <2>1, <2>3, HolderFacts
  <2>5. fresh[p] \/ pc[p] = "truncate"
    BY <2>1, <2>3 DEF MakerInv, Making
  <2> QED
    BY <2>3, <2>4, <2>5
<1> QED
  BY <1>1, ShmInvariant, PTL DEF Spec, UnlinksOwnRegion

----------------------------------------------------------------------------
(* A region that was not used before it was complete implements the        *)
(* promise of TicketQueue: each step maps to a step of its tickets or      *)
(* leaves them alone.                                                      *)

(* Another position of the same slot is a lap or more away. *)
LEMMA OtherLap ==
  ASSUME NEW m \in Nat, NEW n \in Nat, n # m, Place(n) = Place(m)
  PROVE  n + 1 \notin {m, m + 1, m + Capacity}
<1>1. ~(m < n + Capacity /\ n < m + Capacity)
  BY PlacesApart
<1> QED
  BY <1>1, CapacityType

(* What keeps a ticket as it is. *)
LEMMA TicketKept ==
  ASSUME NEW r, NEW n, put'[r][n + 1] = put[r][n + 1], n < head'[r] <=> n < head[r],
         seq'[r][Place(n)] = n + 1 <=> seq[r][Place(n)] = n + 1,
         seq[r][Place(n)] = n + 1 => data'[r][Place(n)] = data[r][Place(n)]
  PROVE  TicketOf(r, n)' = TicketOf(r, n)
<1>1. StageOf(r, n)' = StageOf(r, n)
  BY DEF StageOf
<1>2. StageOf(r, n) \in {"ready", "taken"} => seq[r][Place(n)] = n + 1
  BY DEF StageOf
<1> QED
  BY <1>1, <1>2 DEF TicketOf

(* The tickets as a sequence. *)
LEMMA TicketsSeq ==
  ASSUME NEW r \in complete \ early, tail[r] \in Nat
  PROVE  /\ tickets(r) = [i \in 1 .. tail[r] |-> TicketOf(r, i - 1)]
         /\ tickets(r) \in Seq({TicketOf(r, n) : n \in Nat})
         /\ Len(tickets(r)) = tail[r] /\ DOMAIN tickets(r) = 1 .. tail[r]
         /\ \A n \in 0 .. (tail[r] - 1) :
              n + 1 \in 1 .. tail[r] /\ tickets(r)[n + 1] = TicketOf(r, n)
<1> DEFINE T == {TicketOf(r, n) : n \in Nat}
<1>1. tickets(r) = [i \in 1 .. tail[r] |-> TicketOf(r, i - 1)]
  BY DEF tickets
<1>2. \A i \in 1 .. tail[r] : TicketOf(r, i - 1) \in T
  OBVIOUS
<1> HIDE DEF T
<1>3. tickets(r) \in [1 .. tail[r] -> T]
  BY <1>1, <1>2
<1>4. tickets(r) \in Seq(T) /\ Len(tickets(r)) = tail[r]
  BY <1>3
<1>5. \A n \in 0 .. (tail[r] - 1) :
        n + 1 \in 1 .. tail[r] /\ tickets(r)[n + 1] = TicketOf(r, n)
  BY <1>1
<1> QED
  BY <1>1, <1>3, <1>4, <1>5 DEF T

(* A step that keeps every ticket does nothing to them. *)
LEMMA TicketsKept ==
  ASSUME NEW r \in complete \ early, r \in complete' \ early',
         tail[r] \in Nat, tail'[r] = tail[r],
         \A n \in 0 .. (tail[r] - 1) : TicketOf(r, n)' = TicketOf(r, n)
  PROVE  tickets(r)' = tickets(r)
<1>1. \A i \in 1 .. tail[r] : TicketOf(r, i - 1)' = TicketOf(r, i - 1)
  OBVIOUS
<1> QED
  BY <1>1 DEF tickets

(* A step that moves one ticket to another stage. *)
LEMMA StageMoved ==
  ASSUME NEW r \in complete \ early, r \in complete' \ early',
         tail[r] \in Nat, tail'[r] = tail[r], NEW m \in 0 .. (tail[r] - 1), NEW stage,
         \A n \in 0 .. (tail[r] - 1) : n # m => TicketOf(r, n)' = TicketOf(r, n),
         TicketOf(r, m)'.val = TicketOf(r, m).val,
         StageOf(r, m)' = stage
  PROVE  tickets(r)' = [tickets(r) EXCEPT ![m + 1].stage = stage]
<1>1. TicketOf(r, m)' = [TicketOf(r, m) EXCEPT !.stage = stage]
  BY DEF TicketOf
<1>2. /\ tickets(r) = [i \in 1 .. tail[r] |-> TicketOf(r, i - 1)]
      /\ tickets(r)' = [i \in 1 .. tail[r] |-> TicketOf(r, i - 1)']
  BY DEF tickets
<1>3. \A i \in 1 .. tail[r] : i # m + 1 => TicketOf(r, i - 1)' = TicketOf(r, i - 1)
  OBVIOUS
<1>4. \A i \in 1 .. tail[r] : i # m + 1 => tickets(r)'[i] = tickets(r)[i]
  BY <1>2, <1>3
<1>5. /\ m + 1 \in 1 .. tail[r]
      /\ tickets(r)[m + 1] = TicketOf(r, m) /\ tickets(r)'[m + 1] = TicketOf(r, m)'
  BY <1>2
<1>6. tickets(r)'[m + 1] = [tickets(r)[m + 1] EXCEPT !.stage = stage]
  BY <1>1, <1>5
<1>7. /\ tickets(r) = [i \in 1 .. tail[r] |-> tickets(r)[i]]
      /\ tickets(r)' = [i \in 1 .. tail[r] |-> tickets(r)'[i]]
  BY <1>2
<1> QED
  BY <1>4, <1>5, <1>6, <1>7

(* A store to the sequence number of one slot moves one ticket: the others *)
(* that use the slot are laps away.                                        *)
LEMMA SlotStored ==
  ASSUME NEW r, seq[r] \in [Slots -> Nat], NEW m \in Nat,
         seq[r][Place(m)] \in {m, m + 1},
         seq'[r][Place(m)] \in {m, m + 1, m + Capacity},
         \A i \in Slots : i # Place(m) => seq'[r][i] = seq[r][i],
         head'[r] = head[r], data'[r] = data[r], put'[r] = put[r]
  PROVE  \A n \in Nat : n # m => TicketOf(r, n)' = TicketOf(r, n)
<1> SUFFICES ASSUME NEW n \in Nat, n # m PROVE TicketOf(r, n)' = TicketOf(r, n)
  OBVIOUS
<1>1. Place(n) \in Slots
  BY PlaceType
<1>2. CASE Place(n) # Place(m)
  BY <1>1, <1>2, TicketKept
<1>3. CASE Place(n) = Place(m)
  <2>1. n + 1 \notin {m, m + 1, m + Capacity}
    BY <1>3, OtherLap
  <2>2. seq[r][Place(n)] # n + 1 /\ seq'[r][Place(n)] # n + 1
    BY <1>3, <2>1
  <2> QED
    BY <2>2, TicketKept
<1> QED
  BY <1>2, <1>3

(* The CAS on tail claims the next ticket. *)
LEMMA ClaimTailClaims ==
  ASSUME ShmInv, NEW w \in Writers, ClaimTail(w), NEW r, r = at[w], r \notin early
  PROVE  \E v \in Messages : TQ(r)!Claim(v)
<1>1. r = at[w]
  OBVIOUS
<1>2. TypeOK /\ w \in Processes /\ pc[w] = "push"
  BY DEF ShmInv, Processes, ClaimTail
<1>3. r \in Regions /\ r \in complete \ early
  BY <1>1, <1>2, InRing DEF Pushing
<1>4. PICK k \in Nat : k = tail[r]
  BY <1>2, <1>3, RegionTypes
<1>5. /\ head[r] \in Nat /\ item[w] \in Messages /\ k < head[r] + Capacity
      /\ seq[r][Place(k)] = k /\ head[r] <= k
  BY <1>1, <1>2, <1>3, <1>4, RegionTypes, ProcessTypes, TailIsFree
<1>6. /\ tail'[r] = k + 1 /\ put'[r] = Append(put[r], item[w])
      /\ head' = head /\ seq' = seq /\ data' = data /\ complete' = complete /\ early' = early
  BY <1>1, <1>2, <1>3, <1>4 DEF ClaimTail, TypeOK, regionVars
<1>7. put'[r][k + 1] = item[w] /\ \A n \in 1 .. k : put'[r][n] = put[r][n]
  BY <1>2, <1>3, <1>4, <1>5, <1>6, PutGrows
<1>8. /\ tickets(r) \in Seq({TicketOf(r, n) : n \in Nat}) /\ Len(tickets(r)) = k
      /\ \A n \in 0 .. (k - 1) : n + 1 \in 1 .. k /\ tickets(r)[n + 1] = TicketOf(r, n)
  BY <1>3, <1>4, TicketsSeq
<1>9. ~TQ(r)!Full
  <2> SUFFICES ASSUME k >= Capacity
               PROVE  tickets(r)[k - Capacity + 1].stage = "freed"
    BY <1>8 DEF TQ!Full
  <2> PICK n : n = k - Capacity
    OBVIOUS
  <2>1. n \in Nat /\ n \in 0 .. (k - 1) /\ n < head[r] /\ k = n + Capacity
    BY <1>5, CapacityType
  <2>2. seq[r][Place(n)] # n + 1
    <3>1. Place(n) = Place(k)
      BY <2>1, PlaceOfNextLap
    <3> QED
      BY <1>5, <2>1, <3>1, CapacityType
  <2>3. TicketOf(r, n).stage = "freed"
    BY <2>1, <2>2 DEF TicketOf, StageOf
  <2> QED
    BY <1>8, <2>1, <2>3
<1> DEFINE new == [val |-> item[w], stage |-> "claimed"]
           T == {TicketOf(r, n) : n \in Nat} \cup {TicketOf(r, n)' : n \in Nat}
<1>10. TicketOf(r, k)' = new
  <2>1. seq'[r][Place(k)] # k + 1 /\ ~(k < head'[r])
    BY <1>5, <1>6
  <2>2. StageOf(r, k)' = "claimed"
    BY <2>1 DEF StageOf
  <2> QED
    BY <1>7, <2>2 DEF TicketOf
<1>11. \A n \in 0 .. (k - 1) : TicketOf(r, n)' = TicketOf(r, n)
  <2> TAKE n \in 0 .. (k - 1)
  <2>1. put'[r][n + 1] = put[r][n + 1]
    BY <1>7
  <2> QED
    BY <1>6, <2>1, TicketKept
<1> HIDE DEF new
<1>12. /\ tickets(r)' \in Seq({TicketOf(r, n)' : n \in Nat}) /\ Len(tickets(r)') = k + 1
       /\ \A i \in 1 .. (k + 1) : tickets(r)'[i] = TicketOf(r, i - 1)'
  <2>1. tickets(r)' = [i \in 1 .. (k + 1) |-> TicketOf(r, i - 1)']
    BY <1>3, <1>6 DEF tickets
  <2> DEFINE S == {TicketOf(r, n)' : n \in Nat}
  <2>2. \A i \in 1 .. (k + 1) : TicketOf(r, i - 1)' \in S
    OBVIOUS
  <2> HIDE DEF S
  <2>3. tickets(r)' \in [1 .. (k + 1) -> S]
    BY <2>1, <2>2
  <2>4. tickets(r)' \in Seq(S) /\ Len(tickets(r)') = k + 1
    BY <2>3
  <2> QED
    BY <2>1, <2>4 DEF S
<1>13. tickets(r) \in Seq(T) /\ tickets(r)' \in Seq(T) /\ new \in T
  <2>1. tickets(r) \in Seq(T)
    BY <1>8, SeqMonotonic
  <2>2. tickets(r)' \in Seq(T)
    BY <1>12, SeqMonotonic
  <2>3. new \in T
    BY <1>10
  <2> QED
    BY <2>1, <2>2, <2>3
<1> HIDE DEF T
<1>14. tickets(r)' = Append(tickets(r), new)
  <2>1. /\ Append(tickets(r), new) \in Seq(T) /\ Len(Append(tickets(r), new)) = k + 1
        /\ \A i \in 1 .. k : Append(tickets(r), new)[i] = tickets(r)[i]
        /\ Append(tickets(r), new)[k + 1] = new
    BY <1>8, <1>13, AppendProperties
  <2>2. \A i \in 1 .. (k + 1) : tickets(r)'[i] = Append(tickets(r), new)[i]
    <3> TAKE i \in 1 .. (k + 1)
    <3>1. CASE i = k + 1
      <4>1. tickets(r)'[i] = TicketOf(r, k)'
        BY <1>12, <3>1
      <4> QED
        BY <1>10, <2>1, <3>1, <4>1
    <3>2. CASE i # k + 1
      <4>1. i - 1 \in 0 .. (k - 1) /\ i \in 1 .. k /\ (i - 1) + 1 = i
        BY <3>2
      <4>2. tickets(r)[i] = TicketOf(r, i - 1)
        BY <1>8, <4>1
      <4> QED
        BY <1>11, <1>12, <2>1, <4>1, <4>2
    <3> QED
      BY <3>1, <3>2
  <2> QED
    BY <1>12, <1>13, <2>1, <2>2, SeqEqual
<1> QED
  BY <1>1, <1>5, <1>9, <1>14 DEF TQ!Claim, new

(* The copy into a slot touches the message of no published ticket. *)
LEMMA WriteDataStutters ==
  ASSUME ShmInv, NEW w \in Writers, WriteData(w), NEW r, r = at[w], r \notin early
  PROVE  tickets(r)' = tickets(r)
<1>1. r = at[w]
  OBVIOUS
<1>2. TypeOK /\ w \in Processes /\ pc[w] = "write"
  BY DEF ShmInv, Processes, WriteData
<1>3. r \in Regions /\ r \in complete \ early /\ CallInv(r, w)
  BY <1>1, <1>2, InRing DEF Pushing
<1>4. PICK m \in Nat : m = pos[w]
  BY <1>2, ProcessTypes
<1>5. seq[r][Place(m)] = m /\ Slot(m, lmask[w]) = Place(m) /\ tail[r] \in Nat
  BY <1>2, <1>3, <1>4, RegionTypes DEF CallInv, WriterOwns, Place, Pushing
<1>6. /\ \A i \in Slots : i # Place(m) => data'[r][i] = data[r][i]
      /\ head' = head /\ tail' = tail /\ seq' = seq /\ put' = put
      /\ complete' = complete /\ early' = early
  BY <1>1, <1>2, <1>3, <1>4, <1>5 DEF WriteData, TypeOK, regionVars
<1>7. ASSUME NEW n \in Nat PROVE TicketOf(r, n)' = TicketOf(r, n)
  <2>1. Place(n) \in Slots
    BY PlaceType
  <2>2. CASE Place(n) # Place(m)
    BY <1>6, <2>1, <2>2, TicketKept
  <2>3. CASE Place(n) = Place(m)
    <3>1. n + 1 # m
      BY <2>3, OtherLap
    <3>2. seq[r][Place(n)] # n + 1
      BY <1>5, <2>3, <3>1
    <3> QED
      BY <1>6, <3>2, TicketKept
  <2> QED
    BY <2>2, <2>3
<1>8. \A n \in 0 .. (tail[r] - 1) : TicketOf(r, n)' = TicketOf(r, n)
  BY <1>5, <1>7
<1> QED
  BY <1>1, <1>3, <1>5, <1>6, <1>8, TicketsKept

(* The store of pos + 1 publishes the ticket, with the message in the slot. *)
LEMMA PublishSlotPublishes ==
  ASSUME ShmInv, NEW w \in Writers, PublishSlot(w), NEW r, r = at[w], r \notin early
  PROVE  \E i \in TQ(r)!Tickets : TQ(r)!Publish(i)
<1>1. r = at[w]
  OBVIOUS
<1>2. TypeOK /\ w \in Processes /\ pc[w] = "publish"
  BY DEF ShmInv, Processes, PublishSlot
<1>3. r \in Regions /\ r \in complete \ early /\ CallInv(r, w)
  BY <1>1, <1>2, InRing DEF Pushing
<1>4. PICK m \in Nat : m = pos[w]
  BY <1>2, ProcessTypes
<1>5. /\ head[r] \in Nat /\ tail[r] \in Nat /\ seq[r] \in [Slots -> Nat]
      /\ WriterOwns(r, w) /\ Slot(m, lmask[w]) = Place(m) /\ Place(m) \in Slots
  BY <1>2, <1>3, <1>4, RegionTypes, PlaceType DEF CallInv, Place, Pushing
<1>6. /\ m \in 0 .. (tail[r] - 1) /\ ~(m < head[r])
      /\ seq[r][Place(m)] = m /\ data[r][Place(m)] = put[r][m + 1]
  BY <1>2, <1>4, <1>5 DEF WriterOwns
<1>7. /\ seq'[r][Place(m)] = m + 1
      /\ \A i \in Slots : i # Place(m) => seq'[r][i] = seq[r][i]
      /\ head' = head /\ tail' = tail /\ data' = data /\ put' = put
      /\ complete' = complete /\ early' = early
  BY <1>1, <1>2, <1>3, <1>4, <1>5 DEF PublishSlot, TypeOK, regionVars
<1>8. StageOf(r, m) = "claimed" /\ StageOf(r, m)' = "ready"
  BY <1>6, <1>7 DEF StageOf
<1>9. TicketOf(r, m)'.val = TicketOf(r, m).val
  BY <1>6, <1>7, <1>8 DEF TicketOf
<1>10. \A n \in 0 .. (tail[r] - 1) : n # m => TicketOf(r, n)' = TicketOf(r, n)
  BY <1>5, <1>6, <1>7, SlotStored
<1>11. tickets(r)' = [tickets(r) EXCEPT ![m + 1].stage = "ready"]
  BY <1>3, <1>5, <1>6, <1>7, <1>8, <1>9, <1>10, StageMoved
<1>12. m + 1 \in DOMAIN tickets(r) /\ tickets(r)[m + 1].stage = "claimed"
  <2>1. m + 1 \in DOMAIN tickets(r) /\ tickets(r)[m + 1] = TicketOf(r, m)
    BY <1>3, <1>5, <1>6, TicketsSeq
  <2> QED
    BY <1>8, <2>1 DEF TicketOf
<1> QED
  BY <1>1, <1>11, <1>12 DEF TQ!Tickets, TQ!Publish

(* The CAS on head takes the oldest ticket not yet taken. *)
LEMMA ClaimHeadTakes ==
  ASSUME ShmInv, NEW c \in Readers, ClaimHead(c), NEW r, r = at[c], r \notin early
  PROVE  \E i \in TQ(r)!Tickets : TQ(r)!Take(i)
<1>1. r = at[c]
  OBVIOUS
<1>2. TypeOK /\ r \in Regions /\ r \in complete \ early
  BY <1>1, HeadIsReady DEF ShmInv
<1>3. PICK m \in Nat : m = head[r]
  BY <1>2, RegionTypes
<1>4. /\ seq[r][Place(m)] = m + 1 /\ tail[r] \in Nat
      /\ m \in 0 .. (tail[r] - 1)
  <2>1. seq[r][Place(m)] = m + 1 /\ m < tail[r]
    BY <1>1, <1>3, HeadIsReady
  <2>2. tail[r] \in Nat
    BY <1>2, RegionTypes
  <2> QED
    BY <2>1, <2>2
<1>5. /\ head'[r] = m + 1 /\ tail' = tail /\ seq' = seq /\ data' = data /\ put' = put
      /\ complete' = complete /\ early' = early
  BY <1>1, <1>2, <1>3 DEF ClaimHead, TypeOK, regionVars
<1>6. StageOf(r, m) = "ready" /\ StageOf(r, m)' = "taken"
  BY <1>3, <1>4, <1>5 DEF StageOf
<1>7. TicketOf(r, m)'.val = TicketOf(r, m).val
  BY <1>5, <1>6 DEF TicketOf
<1>8. \A n \in 0 .. (tail[r] - 1) : n # m => TicketOf(r, n)' = TicketOf(r, n)
  <2> SUFFICES ASSUME NEW n \in 0 .. (tail[r] - 1), n # m
               PROVE  TicketOf(r, n)' = TicketOf(r, n)
    OBVIOUS
  <2>1. n < head'[r] <=> n < head[r]
    BY <1>3, <1>4, <1>5
  <2> QED
    BY <1>5, <2>1, TicketKept
<1>9. tickets(r)' = [tickets(r) EXCEPT ![m + 1].stage = "taken"]
  BY <1>2, <1>4, <1>5, <1>6, <1>7, <1>8, StageMoved
<1>10. m + 1 \in DOMAIN tickets(r) /\ tickets(r)[m + 1].stage = "ready"
  <2>1. m + 1 \in DOMAIN tickets(r) /\ tickets(r)[m + 1] = TicketOf(r, m)
    BY <1>2, <1>4, TicketsSeq
  <2> QED
    BY <1>6, <2>1 DEF TicketOf
<1>11. ASSUME NEW j \in 1 .. m PROVE tickets(r)[j].stage \in {"taken", "freed"}
  <2>1. j - 1 \in 0 .. (tail[r] - 1) /\ j - 1 < head[r] /\ (j - 1) + 1 = j
    BY <1>3, <1>4
  <2>2. tickets(r)[j] = TicketOf(r, j - 1)
    BY <1>2, <1>4, <2>1, TicketsSeq
  <2>3. StageOf(r, j - 1) \in {"taken", "freed"}
    BY <2>1 DEF StageOf
  <2> QED
    BY <2>2, <2>3 DEF TicketOf
<1>12. TQ(r)!IsHead(m + 1)
  BY <1>10, <1>11 DEF TQ!IsHead, TQ!Out
<1> QED
  BY <1>1, <1>9, <1>10, <1>12 DEF TQ!Tickets, TQ!Take

(* The store of pos + capacity frees the ticket, even with a capacity of 0 *)
(* that was read too soon.                                                 *)
LEMMA FreeSlotFrees ==
  ASSUME ShmInv, NEW c \in Readers, FreeSlot(c), NEW r, r = at[c], r \notin early
  PROVE  \E i \in TQ(r)!Tickets : TQ(r)!Free(i)
<1>1. r = at[c]
  OBVIOUS
<1>2. TypeOK /\ c \in Processes /\ pc[c] = "free"
  BY DEF ShmInv, Processes, FreeSlot
<1>3. r \in Regions /\ r \in complete \ early /\ CallInv(r, c) /\ Window(r)
  BY <1>1, <1>2, InRing
<1>4. PICK m \in Nat : m = pos[c]
  BY <1>2, ProcessTypes
<1>5. /\ head[r] \in Nat /\ tail[r] \in Nat /\ seq[r] \in [Slots -> Nat] /\ head[r] <= tail[r]
      /\ lmask[c] \in {0, Capacity - 1} /\ lcap[c] \in {0, Capacity}
      /\ ReaderOwns(r, c) /\ Place(m) \in Slots
  BY <1>2, <1>3, <1>4, RegionTypes, ProcessTypes, PlaceType DEF CallInv, Window
<1>6. /\ m < head[r] /\ m \in 0 .. (tail[r] - 1)
      /\ seq[r][Place(m)] = m + 1 /\ data[r][Place(m)] = put[r][m + 1]
      /\ Slot(m, lmask[c]) = Place(m)
  BY <1>4, <1>5, SlotIsPlace DEF ReaderOwns
<1>7. /\ seq'[r][Place(m)] = m + lcap[c]
      /\ \A i \in Slots : i # Place(m) => seq'[r][i] = seq[r][i]
      /\ head' = head /\ tail' = tail /\ data' = data /\ put' = put
      /\ complete' = complete /\ early' = early
  BY <1>1, <1>2, <1>3, <1>4, <1>5, <1>6 DEF FreeSlot, TypeOK, regionVars
<1>8. m + lcap[c] \in {m, m + Capacity} /\ m + lcap[c] # m + 1
  BY <1>5, CapacityType
<1>9. StageOf(r, m) = "taken" /\ StageOf(r, m)' = "freed"
  BY <1>6, <1>7, <1>8 DEF StageOf
<1>10. TicketOf(r, m)'.val = TicketOf(r, m).val
  BY <1>6, <1>7, <1>9 DEF TicketOf
<1>11. \A n \in 0 .. (tail[r] - 1) : n # m => TicketOf(r, n)' = TicketOf(r, n)
  BY <1>5, <1>6, <1>7, <1>8, SlotStored
<1>12. tickets(r)' = [tickets(r) EXCEPT ![m + 1].stage = "freed"]
  BY <1>3, <1>5, <1>6, <1>7, <1>9, <1>10, <1>11, StageMoved
<1>13. m + 1 \in DOMAIN tickets(r) /\ tickets(r)[m + 1].stage = "taken"
  <2>1. m + 1 \in DOMAIN tickets(r) /\ tickets(r)[m + 1] = TicketOf(r, m)
    BY <1>3, <1>5, <1>6, TicketsSeq
  <2> QED
    BY <1>9, <2>1 DEF TicketOf
<1> QED
  BY <1>1, <1>12, <1>13 DEF TQ!Tickets, TQ!Free

(* The rest of push() and pop() leaves cursors, slots and history alone, or *)
(* copies out.                                                              *)
LEMMA OthersStutter ==
  ASSUME NEW r \in Regions, UNCHANGED <<head[r], tail[r], seq[r], data[r], put[r]>>,
         r \in complete' \ early' <=> r \in complete \ early
  PROVE  tickets(r)' = tickets(r)
<1>1. ASSUME NEW n PROVE TicketOf(r, n)' = TicketOf(r, n)
  BY DEF TicketOf, StageOf
<1> QED
  BY <1>1 DEF tickets

(* A step that uses a region which was used too soon, or is not complete,  *)
(* shows no ticket; nor does the step that makes it complete.              *)
LEMMA NoTickets ==
  ASSUME ShmInv, NEW p \in Processes, UsesRing(p),
         NEW r, r = at[p], r \notin complete \ early
  PROVE  tickets(r)' = <<>> /\ tickets(r) = <<>>
<1>1. tickets(r) = <<>>
  BY DEF tickets
<1>2. CASE p \in Writers /\ InitSlots(p) /\ r \notin early
  <2>1. r \in Regions /\ r \notin complete
    BY <1>2, ProcessTypes DEF ShmInv, InitSlots
  <2>2. tail[r] = 0
    BY <1>2, <2>1 DEF ShmInv, RingInv, Untouched
  <2>3. tail'[r] = 0
    BY <1>2, <2>2 DEF InitSlots
  <2>4. 1 .. 0 = {}
    OBVIOUS
  <2> QED
    BY <1>1, <2>3, <2>4 DEF tickets
<1>3. CASE ~(p \in Writers /\ InitSlots(p) /\ r \notin early)
  <2>1. early \subseteq early' /\ (r \in early \/ complete' = complete)
    BY <1>3 DEF UsesRing, CallPush, ClaimTail, WriteData, PublishSlot, CallPop, LoadCapacity,
       ClaimHead, ReadData, FreeSlot, InitSlots, regionVars, ringVars, procVars
  <2> QED
    BY <1>1, <2>1 DEF tickets
<1> QED
  BY <1>2, <1>3

(* Every step is a step of each region's promise, or none. *)
LEMMA StepImplements ==
  ASSUME ShmInv, [Next]_vars, NEW r \in Regions
  PROVE  TQ(r)!TNext \/ tickets(r)' = tickets(r)
<1>1. CASE UNCHANGED vars
  BY <1>1, OthersStutter DEF vars, regionVars, ringVars
<1>2. ASSUME NEW p \in Processes, Step(p)
      PROVE  TQ(r)!TNext \/ tickets(r)' = tickets(r)
  <2>1. CASE ~UsesRing(p)
    BY <1>2, <2>1, NoRing, OthersStutter DEF ShmInv, Quiet
  <2>2. CASE UsesRing(p) /\ r # at[p]
    <3>1. r \in early' <=> r \in early
      BY <2>2 DEF UsesRing, CallPush, ClaimTail, WriteData, PublishSlot, CallPop, LoadCapacity,
         ClaimHead, ReadData, FreeSlot, InitSlots, ringVars
    <3> QED
      BY <2>2, <3>1, OtherRings, OthersStutter DEF ShmInv, Quiet
  <2>3. CASE UsesRing(p) /\ r = at[p] /\ r \notin complete \ early
    BY <2>3, NoTickets
  <2>4. CASE UsesRing(p) /\ r = at[p] /\ r \in complete \ early
    <3>1. CASE p \in Writers /\ ClaimTail(p)
      BY <2>4, <3>1, ClaimTailClaims DEF TQ!TNext
    <3>2. CASE p \in Writers /\ WriteData(p)
      BY <2>4, <3>2, WriteDataStutters
    <3>3. CASE p \in Writers /\ PublishSlot(p)
      BY <2>4, <3>3, PublishSlotPublishes DEF TQ!TNext
    <3>4. CASE p \in Readers /\ ClaimHead(p)
      BY <2>4, <3>4, ClaimHeadTakes DEF TQ!TNext
    <3>5. CASE p \in Readers /\ FreeSlot(p)
      BY <2>4, <3>5, FreeSlotFrees DEF TQ!TNext
    <3>6. CASE \/ p \in Writers /\ CallPush(p)
               \/ p \in Readers /\ (CallPop(p) \/ LoadCapacity(p) \/ ReadData(p))
      BY <2>4, <3>6, OthersStutter
         DEF CallPush, CallPop, LoadCapacity, ReadData, regionVars, ringVars
    <3>7. ~(p \in Writers /\ InitSlots(p))
      BY <2>4 DEF ShmInv, MakerInv, Making, InitSlots
    <3> QED
      BY <2>4, <3>1, <3>2, <3>3, <3>4, <3>5, <3>6, <3>7 DEF UsesRing
  <2> QED
    BY <2>1, <2>2, <2>3, <2>4
<1> QED
  BY <1>1, <1>2, Steps

LEMMA InitTickets ==
  ASSUME Init, NEW r \in Regions
  PROVE  TQ(r)!TInit
BY DEF Init, tickets, TQ!TInit

(* Every region that was not used before it was complete is a queue as     *)
(* TicketQueue describes it, whoever dies in it and wherever.              *)
THEOREM RingsAreTicketQueues == Spec => ImplementsTicketQueue
<1>1. Init => \A r \in Regions : TQ(r)!TInit
  BY InitTickets
<1>2. ShmInv /\ [Next]_vars => [\A r \in Regions : [TQ(r)!TNext]_(tickets(r))]_vars
  BY StepImplements
<1> QED
  BY <1>1, <1>2, ShmInvariant, PTL DEF Spec, ImplementsTicketQueue

(* The same, as the specification of each region's queue. *)
COROLLARY EachRingIsATicketQueue ==
  ASSUME NEW r \in Regions PROVE Spec => TQ(r)!TSpec
<1>1. Init => TQ(r)!TInit
  BY InitTickets
<1>2. ShmInv /\ [Next]_vars => [TQ(r)!TNext]_(tickets(r))
  BY StepImplements
<1> QED
  BY <1>1, <1>2, ShmInvariant, PTL DEF Spec, TQ!TSpec
=============================================================================
