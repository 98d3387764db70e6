--------------------------- MODULE ReportersProofs ---------------------------
(* Theorems about the reporters, for every size of the queue, the batch,   *)
(* the buffer and the kernel's room, every pair of back-offs and any       *)
(* number of messages and failures.                                        *)
EXTENDS Reporters, SequenceTheorems, WellFoundedInduction, TLAPS

----------------------------------------------------------------------------
(* The back-offs. A set of naturals has a least element; that takes the    *)
(* place of an induction over the failures.                                *)

LEMMA LeastNatural ==
  ASSUME NEW S \in SUBSET Nat, S # {}
  PROVE  \E m \in S : \A k \in S : m <= k
<1> DEFINE R == OpToRel(<, Nat)
<1>1. IsWellFoundedOn(R, Nat)
  BY NatLessThanWellFounded, Zenon
<1>2. \A x, y \in Nat : <<x, y>> \in R <=> x < y
  BY Zenon DEF OpToRel
<1> HIDE DEF R
<1>3. \E x \in S : \A y \in S : ~(<<y, x>> \in R)
  BY <1>1, WFMin
<1>4. PICK m \in S : \A k \in S : ~(<<k, m>> \in R)
  BY <1>3
<1>5. \A k \in S : m <= k
  <2> TAKE k \in S
  <2>1. k \in Nat /\ m \in Nat /\ ~(<<k, m>> \in R)
    BY <1>4
  <2>2. ~(k < m)
    BY <1>2, <2>1
  <2> QED
    BY <2>1, <2>2
<1> QED
  BY <1>5

LEMMA PowerStep ==
  /\ Power[0] = 1
  /\ \A n \in Nat : Power[n + 1] = 2 * Power[n]
<1>1. Power = [n \in Nat |-> IF n = 0 THEN 1 ELSE 2 * Power[n - 1]]
  BY DEF Power
<1>2. \A n \in Nat : Power[n] = IF n = 0 THEN 1 ELSE 2 * Power[n - 1]
  BY <1>1
<1>3. Power[0] = 1
  BY <1>2
<1>4. ASSUME NEW n \in Nat  PROVE Power[n + 1] = 2 * Power[n]
  <2>1. n + 1 \in Nat /\ n + 1 # 0 /\ (n + 1) - 1 = n
    OBVIOUS
  <2> QED
    BY <1>2, <2>1
<1> QED
  BY <1>3, <1>4

LEMMA PowerGrows == \A n \in Nat : Power[n] \in Nat /\ Power[n] > n
<1> DEFINE S == {n \in Nat : ~(Power[n] \in Nat /\ Power[n] > n)}
<1>1. SUFFICES ASSUME S # {}  PROVE FALSE
  OBVIOUS
<1>2. PICK m \in S : \A k \in S : m <= k
  <2>1. S \in SUBSET Nat
    OBVIOUS
  <2> QED
    BY <1>1, <2>1, LeastNatural
<1>3. m # 0
  BY <1>2, PowerStep
<1>4. m - 1 \in Nat /\ m - 1 \notin S
  BY <1>2, <1>3
<1>5. Power[m - 1] \in Nat /\ Power[m - 1] > m - 1
  BY <1>4
<1>6. Power[m] = 2 * Power[m - 1]
  <2>1. (m - 1) + 1 = m
    BY <1>4
  <2> QED
    BY <1>4, <2>1, PowerStep
<1>7. Power[m] \in Nat /\ Power[m] > m
  BY <1>4, <1>5, <1>6
<1> QED
  BY <1>2, <1>7

(* Each back-off that is due doubles the one before, up to the longest.    *)
LEMMA DueFacts ==
  /\ \A k \in Nat \ {0} : Due(k) \in BaseBackoff .. MaxBackoff
  /\ Due(1) = BaseBackoff
  /\ \A k \in Nat \ {0} : Due(k + 1) = Double(Due(k))
  /\ Due(MaxBackoff + 1) = MaxBackoff
<1>1. BaseBackoff \in Nat /\ BaseBackoff > 0 /\ MaxBackoff \in Nat /\ BaseBackoff <= MaxBackoff
  BY UplinkAssumption
<1>2. ASSUME NEW k \in Nat \ {0}
      PROVE  /\ Due(k) = Least(BaseBackoff * Power[k - 1], MaxBackoff)
             /\ BaseBackoff * Power[k - 1] \in Nat
             /\ BaseBackoff * Power[k - 1] >= BaseBackoff
             /\ BaseBackoff * Power[k - 1] >= Power[k - 1]
             /\ Power[k - 1] >= k
  <2>1. k - 1 \in Nat
    OBVIOUS
  <2>2. Power[k - 1] \in Nat /\ Power[k - 1] >= k
    BY <2>1, PowerGrows
  <2> QED
    BY <1>1, <2>2 DEF Due
<1>3. \A k \in Nat \ {0} : Due(k) \in BaseBackoff .. MaxBackoff
  BY <1>1, <1>2 DEF Least
<1>4. Due(1) = BaseBackoff
  BY <1>1, PowerStep DEF Due, Least
<1>5. ASSUME NEW k \in Nat \ {0}  PROVE Due(k + 1) = Double(Due(k))
  <2>1. (k + 1) - 1 = (k - 1) + 1 /\ k - 1 \in Nat
    OBVIOUS
  <2>2. Power[(k + 1) - 1] = 2 * Power[k - 1] /\ Power[k - 1] \in Nat
    BY <2>1, PowerStep, PowerGrows
  <2>3. BaseBackoff * Power[(k + 1) - 1] = 2 * (BaseBackoff * Power[k - 1])
    BY <1>1, <2>2
  <2> DEFINE x == BaseBackoff * Power[k - 1]
  <2>4. x \in Nat /\ Due(k) = Least(x, MaxBackoff) /\ Due(k + 1) = Least(2 * x, MaxBackoff)
    BY <1>2, <2>3 DEF Due
  <2> HIDE DEF x
  <2> QED
    BY <1>1, <2>4 DEF Double, Least
<1>6. Due(MaxBackoff + 1) = MaxBackoff
  <2>1. PICK k \in Nat \ {0} : k = MaxBackoff + 1
    BY <1>1
  <2> DEFINE x == BaseBackoff * Power[k - 1]
  <2>2. Due(k) = Least(x, MaxBackoff) /\ x \in Nat /\ x >= k
    <3>1. /\ Due(k) = Least(x, MaxBackoff) /\ x \in Nat
          /\ x >= Power[k - 1] /\ Power[k - 1] >= k
      BY <1>2
    <3>2. Power[k - 1] \in Nat
      BY PowerGrows
    <3> HIDE DEF x
    <3> QED
      BY <3>1, <3>2
  <2> HIDE DEF x
  <2>3. Due(k) = MaxBackoff
    BY <1>1, <2>1, <2>2 DEF Least
  <2> QED
    BY <2>1, <2>3
<1> QED
  BY <1>3, <1>4, <1>5, <1>6

(* There is a number of failures from which on nothing grows any more.     *)
LEMMA MostFailsFacts ==
  /\ MostFails \in Nat \ {0}
  /\ Due(MostFails) = MaxBackoff
<1> DEFINE S == {k \in Nat \ {0} : Due(k) = MaxBackoff}
<1>1. MaxBackoff + 1 \in S
  BY DueFacts, UplinkAssumption
<1>2. PICK m \in S : \A k \in S : m <= k
  <2>1. S \in SUBSET Nat /\ S # {}
    BY <1>1
  <2> QED
    BY <2>1, LeastNatural
<1>3. m \in 1 .. MaxBackoff + 1 /\ Due(m) = MaxBackoff
  BY <1>1, <1>2, UplinkAssumption
<1>4. \A j \in 1 .. m - 1 : Due(j) < MaxBackoff
  <2> TAKE j \in 1 .. m - 1
  <2>1. j \in Nat \ {0} /\ j \notin S
    BY <1>2
  <2>2. Due(j) # MaxBackoff /\ Due(j) \in BaseBackoff .. MaxBackoff
    BY <2>1, DueFacts
  <2> QED
    BY <2>2, UplinkAssumption
<1>5. \E k \in 1 .. MaxBackoff + 1 :
        Due(k) = MaxBackoff /\ \A j \in 1 .. k - 1 : Due(j) < MaxBackoff
  BY <1>3, <1>4
<1>6. MostFails \in 1 .. MaxBackoff + 1 /\ Due(MostFails) = MaxBackoff
  BY <1>5 DEF MostFails
<1> QED
  BY <1>6, UplinkAssumption

(* One more failure: what is due then is what the doubled back-off gives.  *)
LEMMA NextFailure ==
  ASSUME NEW f \in 0 .. MostFails
  PROVE  /\ Least(f + 1, MostFails) \in 1 .. MostFails
         /\ Due(Least(f + 1, MostFails)) = Due(f + 1)
         /\ Due(f + 1) \in BaseBackoff .. MaxBackoff
         /\ Due(Least(f + 1, MostFails) + 1) = Double(Due(f + 1))
<1>1. MostFails \in Nat \ {0} /\ f \in Nat /\ f + 1 \in Nat \ {0}
  BY MostFailsFacts
<1>2. Due(f + 1) \in BaseBackoff .. MaxBackoff
  BY <1>1, DueFacts
<1>3. CASE f < MostFails
  <2>1. Least(f + 1, MostFails) = f + 1
    BY <1>1, <1>3 DEF Least
  <2> QED
    BY <1>1, <1>2, <1>3, <2>1, DueFacts
<1>4. CASE f = MostFails
  <2>1. Least(f + 1, MostFails) = MostFails
    BY <1>1, <1>4 DEF Least
  <2>2. Due(MostFails + 1) = Double(Due(MostFails)) /\ Due(MostFails) = MaxBackoff
    BY <1>1, DueFacts, MostFailsFacts
  <2>3. Double(MaxBackoff) = MaxBackoff
    BY UplinkAssumption DEF Double, Least
  <2> QED
    BY <1>1, <1>2, <1>4, <2>1, <2>2, <2>3
<1> QED
  BY <1>1, <1>3, <1>4

LEMMA DoubleGrows ==
  ASSUME NEW a \in Nat, NEW b \in BaseBackoff .. MaxBackoff, a <= b
  PROVE  Double(a) <= Double(b) /\ Double(b) \in BaseBackoff .. MaxBackoff
BY UplinkAssumption DEF Double, Least

----------------------------------------------------------------------------
(* The halves of messages *)

LEMMA HalvesFacts ==
  ASSUME NEW S, NEW s \in Seq(S)
  PROVE  /\ Halves(s) \in Seq([msg : S, half : {1, 2}])
         /\ Len(Halves(s)) = 2 * Len(s)
         /\ \A k \in 1 .. 2 * Len(s) :
              \E i \in 1 .. Len(s) :
                /\ Halves(s)[k].msg = s[i]
                /\ \/ k = 2 * i - 1 /\ Halves(s)[k].half = 1
                   \/ k = 2 * i /\ Halves(s)[k].half = 2
<1> DEFINE n == 2 * Len(s)
           h(k) == [msg |-> s[(k + 1) \div 2], half |-> IF k % 2 = 1 THEN 1 ELSE 2]
<1>1. Len(s) \in Nat /\ n \in Nat
  OBVIOUS
<1>2. Halves(s) = [k \in 1 .. n |-> h(k)]
  BY DEF Halves
<1>3. ASSUME NEW k \in 1 .. n
      PROVE  /\ (k + 1) \div 2 \in 1 .. Len(s)
             /\ \/ k = 2 * ((k + 1) \div 2) - 1 /\ k % 2 = 1
                \/ k = 2 * ((k + 1) \div 2) /\ k % 2 = 0
  <2>1. PICK j \in Nat : k = 2 * j \/ k = 2 * j + 1
    <3>1. k \in Nat
      BY <1>1
    <3>2. k \div 2 \in Nat /\ (k = 2 * (k \div 2) \/ k = 2 * (k \div 2) + 1)
      BY <3>1
    <3> QED
      BY <3>2
  <2>2. CASE k = 2 * j
    BY <1>1, <2>2
  <2>3. CASE k = 2 * j + 1
    BY <1>1, <2>3
  <2> QED
    BY <2>1, <2>2, <2>3
<1>4. \A k \in 1 .. n : h(k) \in [msg : S, half : {1, 2}]
  <2> TAKE k \in 1 .. n
  <2>1. s[(k + 1) \div 2] \in S
    BY <1>3
  <2> QED
    BY <2>1
<1>5. Halves(s) \in Seq([msg : S, half : {1, 2}]) /\ Len(Halves(s)) = n
  <2> HIDE DEF h, n
  <2> QED
    BY <1>1, <1>2, <1>4
<1>6. ASSUME NEW k \in 1 .. n
      PROVE  \E i \in 1 .. Len(s) :
                /\ Halves(s)[k].msg = s[i]
                /\ \/ k = 2 * i - 1 /\ Halves(s)[k].half = 1
                   \/ k = 2 * i /\ Halves(s)[k].half = 2
  <2>1. Halves(s)[k].msg = s[(k + 1) \div 2]
        /\ Halves(s)[k].half = IF k % 2 = 1 THEN 1 ELSE 2
    BY <1>2
  <2> WITNESS (k + 1) \div 2 \in 1 .. Len(s)
  <2> QED
    BY <1>3, <2>1
<1> QED
  BY <1>5, <1>6

(* The lines of rising messages follow each other. *)
LEMMA HalvesFollow ==
  ASSUME NEW S \in SUBSET Nat, NEW s \in Seq(S),
         \A i, j \in 1 .. Len(s) : i < j => s[i] < s[j]
  PROVE  /\ \A k \in 2 .. 2 * Len(s) : Follows(Halves(s)[k - 1], Halves(s)[k])
         /\ Len(s) > 0 => /\ Halves(s)[1].half = 1 /\ Halves(s)[1].msg = s[1]
                          /\ Halves(s)[2 * Len(s)].half = 2
<1> DEFINE h == Halves(s)
<1>1. \A k \in 1 .. 2 * Len(s) :
        \E i \in 1 .. Len(s) :
          /\ h[k].msg = s[i]
          /\ \/ k = 2 * i - 1 /\ h[k].half = 1
             \/ k = 2 * i /\ h[k].half = 2
  BY HalvesFacts
<1> HIDE DEF h
<1>2. Len(s) \in Nat
  OBVIOUS
<1>3. ASSUME NEW k \in 2 .. 2 * Len(s)  PROVE Follows(h[k - 1], h[k])
  <2>1. k \in 1 .. 2 * Len(s) /\ k - 1 \in 1 .. 2 * Len(s)
    BY <1>2
  <2>2. PICK i \in 1 .. Len(s) : /\ h[k].msg = s[i]
                                 /\ \/ k = 2 * i - 1 /\ h[k].half = 1
                                    \/ k = 2 * i /\ h[k].half = 2
    BY <1>1, <2>1
  <2>3. PICK j \in 1 .. Len(s) : /\ h[k - 1].msg = s[j]
                                 /\ \/ k - 1 = 2 * j - 1 /\ h[k - 1].half = 1
                                    \/ k - 1 = 2 * j /\ h[k - 1].half = 2
    BY <1>1, <2>1
  <2>4. CASE k = 2 * i - 1 /\ h[k].half = 1
    <3>1. k - 1 = 2 * j /\ h[k - 1].half = 2 /\ j < i
      BY <1>2, <2>3, <2>4
    <3>2. s[j] < s[i]
      BY <3>1
    <3> QED
      BY <2>2, <2>3, <2>4, <3>1, <3>2 DEF Follows
  <2>5. CASE k = 2 * i /\ h[k].half = 2
    <3>1. k - 1 = 2 * j - 1 /\ h[k - 1].half = 1 /\ j = i
      BY <1>2, <2>3, <2>5
    <3> QED
      BY <2>2, <2>3, <2>5, <3>1 DEF Follows
  <2> QED
    BY <2>2, <2>4, <2>5
<1>4. ASSUME Len(s) > 0
      PROVE  h[1].half = 1 /\ h[1].msg = s[1] /\ h[2 * Len(s)].half = 2
  <2>1. 1 \in 1 .. 2 * Len(s) /\ 2 * Len(s) \in 1 .. 2 * Len(s)
    BY <1>2, <1>4
  <2>2. h[1].half = 1 /\ h[1].msg = s[1]
    <3>1. PICK i \in 1 .. Len(s) : /\ h[1].msg = s[i]
                                   /\ \/ 1 = 2 * i - 1 /\ h[1].half = 1
                                      \/ 1 = 2 * i /\ h[1].half = 2
      BY <1>1, <2>1
    <3>2. i = 1
      BY <1>2, <3>1
    <3> QED
      BY <3>1, <3>2
  <2>3. h[2 * Len(s)].half = 2
    <3>1. PICK i \in 1 .. Len(s) :
                 \/ 2 * Len(s) = 2 * i - 1 /\ h[2 * Len(s)].half = 1
                 \/ 2 * Len(s) = 2 * i /\ h[2 * Len(s)].half = 2
      BY <1>1, <2>1
    <3> QED
      BY <1>2, <3>1
  <2> QED
    BY <2>2, <2>3
<1> QED
  BY <1>3, <1>4 DEF h

----------------------------------------------------------------------------
(* The wire: what is still to send continues what was sent. *)

Lines(n) == [msg : 1 .. n, half : {1, 2}]

WireTypes ==
  /\ queue \in Seq(1 .. offered) /\ Len(queue) <= QCap
  /\ offered \in 0 .. MaxMsgs
  /\ buf \in Seq(Lines(offered)) /\ Len(buf) < BufCap + 2
  /\ last \in [msg : 0 .. offered, half : {1, 2}, here : BOOLEAN]

(* The connection is not there, or as it was. *)
LinkLost == link \in {"none", "reset"} => link' \in {"none", "reset"}

LEMMA WireQuiet ==
  ASSUME WireTypes, WireInv, UNCHANGED <<queue, offered, buf, last>>, LinkLost
  PROVE  WireTypes' /\ WireInv'
BY DEF WireTypes, WireInv, LinkLost

LEMMA WireAttempt ==
  ASSUME WireTypes, WireInv, UNCHANGED <<queue, offered, buf>>,
         last' = [last EXCEPT !.here = FALSE]
  PROVE  WireTypes' /\ WireInv'
<1>1. /\ last'.msg = last.msg /\ last'.half = last.half /\ last'.here = FALSE
      /\ last' \in [msg : 0 .. offered, half : {1, 2}, here : BOOLEAN]
  BY DEF WireTypes
<1> QED
  BY <1>1 DEF WireTypes, WireInv

(* The queue is emptied. *)
LEMMA WireEmptied ==
  ASSUME WireTypes, WireInv, queue' = <<>>, UNCHANGED <<offered, buf, last>>, LinkLost
  PROVE  WireTypes' /\ WireInv'
<1>1. queue' \in Seq(1 .. offered) /\ Len(queue') = 0 /\ DOMAIN queue' = {} /\ QCap >= 0
  BY UplinkAssumption
<1> QED
  BY <1>1 DEF WireTypes, WireInv, LinkLost

(* What is left of the buffer is given up with the connection. *)
LEMMA WireGivenUp ==
  ASSUME WireTypes, WireInv, buf' = <<>>, UNCHANGED <<queue, offered, last>>,
         link' \in {"none", "reset"}
  PROVE  WireTypes' /\ WireInv'
<1>1. buf' \in Seq(Lines(offered)) /\ Len(buf') = 0 /\ DOMAIN buf' = {} /\ BufCap \in Nat
  BY EpollAssumption
<1> QED
  BY <1>1 DEF WireTypes, WireInv

LEMMA WireOffer ==
  ASSUME WireTypes, WireInv, Offer
  PROVE  WireTypes' /\ WireInv'
<1>1. /\ offered \in Nat /\ offered' = offered + 1 /\ offered' \in 0 .. MaxMsgs
      /\ UNCHANGED <<buf, last, link>>
  BY UplinkAssumption DEF Offer, WireTypes, peerVars, histVars
<1>2. buf' \in Seq(Lines(offered')) /\ Len(buf') < BufCap + 2
  <2>1. Lines(offered) \subseteq Lines(offered + 1)
    BY <1>1 DEF Lines
  <2>2. buf \in Seq(Lines(offered + 1))
    <3> HIDE DEF Lines
    <3> QED
      BY <2>1 DEF WireTypes
  <2> QED
    BY <1>1, <2>2 DEF WireTypes
<1>3. last' \in [msg : 0 .. offered', half : {1, 2}, here : BOOLEAN]
  BY <1>1 DEF WireTypes
<1>4. \A k \in DOMAIN buf : buf[k].msg \in Int /\ buf[k].msg <= offered
  <2> TAKE k \in DOMAIN buf
  <2>1. buf[k] \in Lines(offered)
    BY DEF WireTypes
  <2> QED
    BY <1>1, <2>1 DEF Lines
<1>5. queue \in Seq(1 .. offered')
  BY <1>1 DEF WireTypes
<1>6. CASE Len(queue) < QCap
  <2>1. queue' = Append(queue, offered + 1)
    BY <1>1, <1>6 DEF Offer
  <2>2. /\ queue' \in Seq(1 .. offered') /\ Len(queue') = Len(queue) + 1
        /\ Len(queue) \in Nat
        /\ \A i \in 1 .. Len(queue) : queue'[i] = queue[i]
        /\ queue'[Len(queue) + 1] = offered + 1
        /\ DOMAIN queue = 1 .. Len(queue) /\ DOMAIN queue' = 1 .. (Len(queue) + 1)
    BY <1>1, <1>5, <2>1
  <2>3. \A i \in DOMAIN queue : queue[i] \in 1 .. offered
    BY DEF WireTypes
  <2>4. \A i, j \in DOMAIN queue' : i < j => queue'[i] < queue'[j]
    <3> SUFFICES ASSUME NEW i \in DOMAIN queue', NEW j \in DOMAIN queue', i < j
                 PROVE  queue'[i] < queue'[j]
      OBVIOUS
    <3>1. i \in DOMAIN queue /\ queue'[i] = queue[i] /\ queue[i] \in 1 .. offered
      BY <2>2, <2>3
    <3>2. CASE j \in DOMAIN queue
      <4>1. queue[i] < queue[j]
        BY <3>1, <3>2 DEF WireInv
      <4> QED
        BY <2>2, <3>1, <3>2, <4>1
    <3>3. CASE j = Len(queue) + 1
      BY <1>1, <2>2, <3>1, <3>3
    <3> QED
      BY <2>2, <3>2, <3>3
  <2>5. \A i \in DOMAIN queue' :
          (i \in DOMAIN queue /\ queue'[i] = queue[i]) \/ queue'[i] = offered + 1
    BY <2>2
  <2>6. /\ \A i \in DOMAIN queue' : last.msg < queue'[i]
        /\ \A i \in DOMAIN queue', k \in DOMAIN buf : buf[k].msg < queue'[i]
    <3> SUFFICES ASSUME NEW i \in DOMAIN queue'
                 PROVE  /\ last.msg < queue'[i]
                        /\ \A k \in DOMAIN buf : buf[k].msg < queue'[i]
      OBVIOUS
    <3>1. CASE i \in DOMAIN queue /\ queue'[i] = queue[i]
      BY <3>1 DEF WireInv
    <3>2. CASE queue'[i] = offered + 1
      <4>1. last.msg <= offered /\ last.msg \in Int
        BY <1>1 DEF WireTypes
      <4>2. \A k \in DOMAIN buf : buf[k].msg \in Int /\ buf[k].msg <= offered
        BY <1>4
      <4> QED
        BY <1>1, <3>2, <4>1, <4>2
    <3> QED
      BY <2>5, <3>1, <3>2
  <2>7. WireTypes'
    BY <1>1, <1>2, <1>3, <1>6, <2>2, UplinkAssumption DEF WireTypes
  <2>8. WireInv'
    BY <1>1, <2>4, <2>6 DEF WireInv
  <2> QED
    BY <2>7, <2>8
<1>7. CASE ~(Len(queue) < QCap)
  <2>1. queue' = queue
    BY <1>7 DEF Offer
  <2> QED
    BY <1>1, <1>2, <1>3, <1>5, <2>1 DEF WireTypes, WireInv
<1> QED
  BY <1>6, <1>7

(* The first half line goes to the kernel. *)
LEMMA WireSendHalf ==
  ASSUME WireTypes, WireInv, SendHalf
  PROVE  WireTypes' /\ WireInv' /\ Continues(last, last')
<1>1. /\ buf # <<>> /\ link \in {"up", "fin"}
      /\ last' = [msg |-> buf[1].msg, half |-> buf[1].half, here |-> TRUE]
      /\ buf' = Tail(buf)
      /\ UNCHANGED <<queue, offered, link>>
  <2>1. Head(buf) = buf[1]
    OBVIOUS
  <2> QED
    BY <2>1 DEF SendHalf, queueVars
<1>2. /\ Len(buf) \in Nat /\ Len(buf) >= 1 /\ buf[1] \in Lines(offered)
      /\ buf' \in Seq(Lines(offered)) /\ Len(buf') = Len(buf) - 1
      /\ DOMAIN buf = 1 .. Len(buf) /\ DOMAIN buf' = 1 .. (Len(buf) - 1)
      /\ \A k \in 1 .. (Len(buf) - 1) : buf'[k] = buf[k + 1]
  <2> HIDE DEF Lines
  <2> QED
    BY <1>1 DEF WireTypes
<1>3. BufCap \in Nat /\ offered \in Nat
  BY EpollAssumption DEF WireTypes
<1>4. /\ last'.msg = buf[1].msg /\ last'.half = buf[1].half /\ last'.here = TRUE
      /\ last' \in [msg : 0 .. offered, half : {1, 2}, here : BOOLEAN]
      /\ buf[1].msg \in Nat /\ buf[1].half \in {1, 2}
  BY <1>1, <1>2, <1>3 DEF Lines
<1>5. WireTypes'
  BY <1>1, <1>2, <1>3, <1>4 DEF WireTypes
<1>6. Len(buf) > 1 => Follows(buf[1], buf[2])
  BY <1>2 DEF WireInv
<1>7. \A k \in DOMAIN buf' : k > 1 => Follows(buf'[k - 1], buf'[k])
  <2> SUFFICES ASSUME NEW k \in DOMAIN buf', k > 1
               PROVE  Follows(buf'[k - 1], buf'[k])
    OBVIOUS
  <2>1. buf'[k] = buf[k + 1] /\ buf'[k - 1] = buf[k] /\ k + 1 \in DOMAIN buf
        /\ k + 1 > 1 /\ (k + 1) - 1 = k
    <3>1. k - 1 \in 1 .. (Len(buf) - 1) /\ (k - 1) + 1 = k
      BY <1>2
    <3> QED
      BY <1>2, <3>1
  <2>2. Follows(buf[(k + 1) - 1], buf[k + 1])
    BY <2>1 DEF WireInv
  <2> QED
    BY <2>1, <2>2
<1>8. buf' # <<>> => /\ Len(buf) > 1 /\ buf'[1] = buf[2]
                     /\ buf'[Len(buf')] = buf[Len(buf)]
  BY <1>2
<1>9. \A i \in DOMAIN queue', k \in DOMAIN buf' : buf'[k].msg < queue'[i]
  <2> TAKE i \in DOMAIN queue', k \in DOMAIN buf'
  <2>1. buf'[k] = buf[k + 1] /\ k + 1 \in DOMAIN buf
    BY <1>2
  <2> QED
    BY <1>1, <2>1 DEF WireInv
<1>10. \A i \in DOMAIN queue' : last'.msg < queue'[i]
  BY <1>1, <1>2, <1>4 DEF WireInv
<1>11. buf' # <<>> => /\ buf'[Len(buf')].half = 2
                      /\ IF buf'[1].half = 2 THEN last'.half = 1 /\ last'.msg = buf'[1].msg
                         ELSE last'.msg < buf'[1].msg
  BY <1>1, <1>4, <1>6, <1>8 DEF WireInv, Follows
<1>12. last'.half = 1 => buf' # <<>> /\ buf'[1].half = 2
  <2> SUFFICES ASSUME buf[1].half = 1  PROVE buf' # <<>> /\ buf'[1].half = 2
    BY <1>4
  <2>1. Len(buf) > 1
    BY <1>1, <1>2 DEF WireInv
  <2> QED
    BY <1>2, <1>6, <1>8, <2>1 DEF Follows
<1>13. WireInv'
  BY <1>1, <1>7, <1>9, <1>10, <1>11, <1>12 DEF WireInv
<1>14. Continues(last, last')
  BY <1>1, <1>4 DEF WireInv, Continues
<1> QED
  BY <1>5, <1>13, <1>14

(* What the types say of the elements. *)
LEMMA WireElements ==
  ASSUME WireTypes
  PROVE  /\ Len(queue) \in Nat /\ Len(buf) \in Nat /\ offered \in Nat
         /\ DOMAIN queue = 1 .. Len(queue) /\ DOMAIN buf = 1 .. Len(buf)
         /\ \A i \in 1 .. Len(queue) : queue[i] \in 1 .. offered
         /\ \A i \in 1 .. Len(buf) : buf[i] \in Lines(offered)
         /\ buf # <<>> <=> Len(buf) > 0
<1>1. offered \in Nat
  BY UplinkAssumption DEF WireTypes
<1>2. /\ Len(queue) \in Nat /\ DOMAIN queue = 1 .. Len(queue)
      /\ \A i \in 1 .. Len(queue) : queue[i] \in 1 .. offered
  BY DEF WireTypes
<1>3. /\ Len(buf) \in Nat /\ DOMAIN buf = 1 .. Len(buf)
      /\ \A i \in 1 .. Len(buf) : buf[i] \in Lines(offered)
      /\ buf # <<>> <=> Len(buf) > 0
  BY DEF WireTypes
<1> QED
  BY <1>1, <1>2, <1>3

(* t messages are taken off the queue, and the halves h of the first k of  *)
(* them appended to the buffer of n.                                       *)
Lengths(n, k, t) ==
  /\ n \in Nat /\ n = Len(buf)
  /\ k \in 0 .. Len(queue) /\ t \in k .. Len(queue)

NewHalves(h, k) ==
  /\ \A m \in 1 .. 2 * k : \E i \in 1 .. k : h[m].msg = queue[i]
  /\ \A m \in 2 .. 2 * k : Follows(h[m - 1], h[m])
  /\ k > 0 => h[1].half = 1 /\ h[1].msg = queue[1] /\ h[2 * k].half = 2

Advances(t) ==
  /\ DOMAIN queue' = 1 .. (Len(queue) - t)
  /\ \A i \in 1 .. (Len(queue) - t) : queue'[i] = queue[i + t]

Extends(h, n, k) ==
  /\ buf' # <<>> <=> n + 2 * k > 0
  /\ Len(buf') = n + 2 * k /\ DOMAIN buf' = 1 .. (n + 2 * k)
  /\ \A m \in 1 .. n : buf'[m] = buf[m]
  /\ \A m \in 1 .. 2 * k : buf'[n + m] = h[m]

LEMMA WireJoined ==
  ASSUME WireTypes, WireInv, LinkLost, UNCHANGED <<offered, last>>,
         NEW n, NEW k, NEW t, NEW h,
         Lengths(n, k, t), NewHalves(h, k), Advances(t), Extends(h, n, k)
  PROVE  WireInv'
<1>1. /\ Len(queue) \in Nat /\ k \in Nat /\ t \in Nat /\ k <= t /\ t <= Len(queue)
      /\ DOMAIN queue = 1 .. Len(queue) /\ DOMAIN buf = 1 .. n
      /\ \A i \in 1 .. Len(queue) : queue[i] \in 1 .. offered
      /\ buf # <<>> <=> n > 0
      /\ n \in Nat /\ n = Len(buf)
  BY WireElements DEF Lengths
<1>2. \A i \in DOMAIN queue' : queue'[i] = queue[i + t] /\ i + t \in DOMAIN queue
  BY <1>1 DEF Advances
<1>3. \A i, j \in DOMAIN queue' : i < j => queue'[i] < queue'[j]
  <2> SUFFICES ASSUME NEW i \in DOMAIN queue', NEW j \in DOMAIN queue', i < j
               PROVE  queue'[i] < queue'[j]
    OBVIOUS
  <2>1. i + t < j + t
    BY <1>1 DEF Advances
  <2> QED
    BY <1>2, <2>1 DEF WireInv
<1>4. \A i \in DOMAIN queue' : last'.msg < queue'[i]
  BY <1>2 DEF WireInv
<1>5. ASSUME NEW m \in 1 .. n
      PROVE  m \in DOMAIN buf' /\ m \in DOMAIN buf /\ buf'[m] = buf[m]
  BY <1>1 DEF Extends
<1>6. ASSUME NEW m \in DOMAIN buf'
      PROVE  m \in 1 .. n \/ \E l \in 1 .. 2 * k : m = n + l
  <2>1. CASE m <= n
    BY <1>1, <2>1 DEF Extends
  <2>2. CASE ~(m <= n)
    <3>1. m \in 1 .. (n + 2 * k)
      BY DEF Extends
    <3>2. m - n \in 1 .. 2 * k /\ m = n + (m - n)
      BY <1>1, <2>2, <3>1
    <3> QED
      BY <3>2
  <2> QED
    BY <2>1, <2>2
<1>7. \A i \in DOMAIN queue', m \in DOMAIN buf' : buf'[m].msg < queue'[i]
  <2> TAKE i \in DOMAIN queue', m \in DOMAIN buf'
  <2>1. queue'[i] = queue[i + t] /\ i + t \in DOMAIN queue
    BY <1>2
  <2>2. CASE m \in 1 .. n
    <3>1. m \in DOMAIN buf /\ buf'[m] = buf[m]
      BY <1>5, <2>2
    <3>2. buf[m].msg < queue[i + t]
      BY <2>1, <3>1 DEF WireInv
    <3> QED
      BY <2>1, <3>1, <3>2
  <2>3. CASE \E l \in 1 .. 2 * k : m = n + l
    <3>1. PICK l \in 1 .. 2 * k : m = n + l
      BY <2>3
    <3>2. buf'[m] = h[l]
      BY <3>1 DEF Extends
    <3>3. PICK j \in 1 .. k : h[l].msg = queue[j]
      BY DEF NewHalves
    <3>4. j < i + t /\ j \in DOMAIN queue
      <4>1. i \in 1 .. (Len(queue) - t)
        BY DEF Advances
      <4> QED
        BY <1>1, <4>1
    <3>5. queue[j] < queue[i + t]
      BY <2>1, <3>4 DEF WireInv
    <3> QED
      BY <2>1, <3>2, <3>3, <3>5
  <2> QED
    BY <1>6, <2>2, <2>3
<1>8. ASSUME NEW m \in DOMAIN buf', m > 1  PROVE Follows(buf'[m - 1], buf'[m])
  <2>1. CASE m \in 1 .. n
    <3>1. m - 1 \in 1 .. n
      BY <1>1, <1>8, <2>1
    <3>2. m \in DOMAIN buf /\ buf'[m] = buf[m] /\ buf'[m - 1] = buf[m - 1]
      BY <1>5, <2>1, <3>1
    <3>3. Follows(buf[m - 1], buf[m])
      BY <1>8, <3>2 DEF WireInv
    <3> QED
      BY <3>2, <3>3
  <2>2. CASE \E l \in 1 .. 2 * k : m = n + l
    <3>1. PICK l \in 1 .. 2 * k : m = n + l
      BY <2>2
    <3>2. buf'[m] = h[l]
      BY <3>1 DEF Extends
    <3>3. CASE l = 1
      <4>1. n > 0 /\ k > 0 /\ m - 1 = n /\ n \in 1 .. n /\ 1 \in DOMAIN queue
        BY <1>1, <1>8, <3>1, <3>3
      <4>2. buf'[n] = buf[n] /\ n \in DOMAIN buf
        BY <1>5, <4>1
      <4>3. buf[n].half = 2 /\ buf[n].msg < queue[1]
        BY <1>1, <4>1, <4>2 DEF WireInv
      <4>4. h[1].half = 1 /\ h[1].msg = queue[1]
        BY <4>1 DEF NewHalves
      <4> QED
        BY <3>2, <3>3, <4>1, <4>2, <4>3, <4>4 DEF Follows
    <3>4. CASE l # 1
      <4>1. l \in 2 .. 2 * k /\ l - 1 \in 1 .. 2 * k /\ m - 1 = n + (l - 1)
        BY <1>1, <3>1, <3>4
      <4>2. buf'[m - 1] = h[l - 1]
        BY <4>1 DEF Extends
      <4>3. Follows(h[l - 1], h[l])
        BY <4>1 DEF NewHalves
      <4> QED
        BY <3>2, <4>2, <4>3
    <3> QED
      BY <3>3, <3>4
  <2> QED
    BY <1>6, <2>1, <2>2
<1>9. CASE k = 0
  <2>1. n > 0 => buf'[1] = buf[1] /\ buf'[Len(buf')] = buf[n]
    <3> SUFFICES ASSUME n > 0  PROVE buf'[1] = buf[1] /\ buf'[Len(buf')] = buf[n]
      OBVIOUS
    <3>1. 1 \in 1 .. n /\ n \in 1 .. n /\ Len(buf') = n
      BY <1>1, <1>9 DEF Extends
    <3> QED
      BY <1>5, <3>1
  <2>2. buf' # <<>> <=> n > 0
    BY <1>1, <1>9 DEF Extends
  <2> QED
    BY <1>1, <1>3, <1>4, <1>7, <1>8, <2>1, <2>2 DEF WireInv, LinkLost
<1>10. CASE k > 0
  <2>1. buf' # <<>>
    BY <1>1, <1>10 DEF Extends
  <2>2. buf'[Len(buf')].half = 2
    <3>1. 2 * k \in 1 .. 2 * k
      BY <1>1, <1>10
    <3>2. buf'[n + 2 * k] = h[2 * k] /\ Len(buf') = n + 2 * k
      BY <3>1 DEF Extends
    <3> QED
      BY <1>10, <3>2 DEF NewHalves
  <2>3. n > 0 => buf'[1] = buf[1]
    BY <1>1, <1>5
  <2>4. n = 0 => buf'[1].half = 1 /\ last.msg < buf'[1].msg
    <3> SUFFICES ASSUME n = 0  PROVE buf'[1].half = 1 /\ last.msg < buf'[1].msg
      OBVIOUS
    <3>1. 1 \in 1 .. 2 * k /\ n + 1 = 1 /\ 1 \in DOMAIN queue
      BY <1>1, <1>10
    <3>2. buf'[n + 1] = h[1]
      BY <3>1 DEF Extends
    <3>3. last.msg < queue[1]
      BY <3>1 DEF WireInv
    <3>4. h[1].half = 1 /\ h[1].msg = queue[1]
      BY <1>10 DEF NewHalves
    <3> QED
      BY <3>1, <3>2, <3>3, <3>4
  <2>5. buf' # <<>> => /\ buf'[Len(buf')].half = 2
                       /\ IF buf'[1].half = 2 THEN last'.half = 1 /\ last'.msg = buf'[1].msg
                          ELSE last'.msg < buf'[1].msg
    <3>1. CASE n > 0
      BY <1>1, <2>2, <2>3, <3>1 DEF WireInv
    <3>2. CASE n = 0
      BY <2>2, <2>4, <3>2
    <3> QED
      BY <1>1, <3>1, <3>2
  <2>6. last'.half = 1 /\ last'.here /\ (buf' # <<>> => buf'[1].half = 1)
           => link' \in {"none", "reset"}
    BY <1>1, <2>1, <2>3 DEF WireInv, LinkLost
  <2> QED
    BY <1>3, <1>4, <1>7, <1>8, <2>5, <2>6 DEF WireInv
<1> QED
  BY <1>1, <1>9, <1>10

LEMMA Joined ==
  ASSUME NEW S, NEW a \in Seq(S), NEW b \in Seq(S), NEW c, c = a \o b
  PROVE  /\ c \in Seq(S) /\ Len(c) = Len(a) + Len(b)
         /\ DOMAIN c = 1 .. (Len(a) + Len(b))
         /\ \A m \in 1 .. Len(a) : c[m] = a[m]
         /\ \A m \in 1 .. Len(b) : c[Len(a) + m] = b[m]
OBVIOUS

LEMMA WireMoved ==
  ASSUME WireTypes, WireInv,
         NEW k \in 0 .. Len(queue), NEW t \in k .. Len(queue),
         buf' = buf \o Halves(SubSeq(queue, 1, k)), Len(buf) + 2 * k < BufCap + 2,
         queue' = SubSeq(queue, t + 1, Len(queue)),
         UNCHANGED <<offered, last>>, LinkLost
  PROVE  WireTypes' /\ WireInv'
<1>1. PICK s : s = SubSeq(queue, 1, k)
  OBVIOUS
<1>2. PICK h : h = Halves(s)
  OBVIOUS
<1>3. PICK n : n = Len(buf)
  OBVIOUS
<1>4. /\ Len(queue) \in Nat /\ n \in Nat /\ offered \in Nat /\ k \in Nat
      /\ t \in Nat /\ t <= Len(queue)
  BY <1>3, WireElements
<1>5. queue \in Seq(1 .. offered) /\ buf \in Seq(Lines(offered))
  BY DEF WireTypes
<1>6. /\ s \in Seq(1 .. offered) /\ Len(s) = k
      /\ \A i \in 1 .. k : s[i] = queue[i] /\ i \in DOMAIN queue
  <2>1. \A i \in 1 .. k : i \in DOMAIN queue /\ queue[i] \in 1 .. offered
    BY <1>4, <1>5
  <2>2. /\ s \in Seq(1 .. offered)
        /\ Len(s) = IF 1 <= k THEN k - 1 + 1 ELSE 0
        /\ \A i \in 1 .. k - 1 + 1 : s[i] = queue[1 + i - 1]
    <3>1. 1 \in Int /\ k \in Int /\ \A i \in 1 .. k : queue[i] \in 1 .. offered
      BY <1>4, <2>1
    <3> QED
      BY <1>1, <3>1, SubSeqProperties
  <2> QED
    BY <1>4, <2>1, <2>2
<1>7. /\ queue' \in Seq(1 .. offered) /\ Len(queue') = Len(queue) - t
      /\ DOMAIN queue' = 1 .. (Len(queue) - t)
      /\ \A i \in 1 .. (Len(queue) - t) : queue'[i] = queue[i + t]
  <2>1. \A i \in t + 1 .. Len(queue) : queue[i] \in 1 .. offered
    <3>1. \A i \in 1 .. Len(queue) : queue[i] \in 1 .. offered
      BY <1>5, ElementOfSeq, Zenon
    <3> QED
      BY <1>4, <3>1
  <2>2. /\ queue' \in Seq(1 .. offered)
        /\ Len(queue') = IF t + 1 <= Len(queue) THEN Len(queue) - (t + 1) + 1 ELSE 0
        /\ \A i \in 1 .. Len(queue) - (t + 1) + 1 : queue'[i] = queue[t + 1 + i - 1]
    <3>1. t + 1 \in Int /\ Len(queue) \in Int
      BY <1>4
    <3> QED
      BY <2>1, <3>1, SubSeqProperties
  <2>3. Len(queue') = Len(queue) - t
    BY <1>4, <2>2
  <2> QED
    BY <1>4, <2>2, <2>3
<1>8. /\ h \in Seq(Lines(offered)) /\ Len(h) = 2 * k
      /\ \A m \in 1 .. 2 * k : \E i \in 1 .. k : h[m].msg = queue[i]
  <2>1. /\ Halves(s) \in Seq([msg : 1 .. offered, half : {1, 2}])
        /\ Len(Halves(s)) = 2 * Len(s)
        /\ \A m \in 1 .. 2 * Len(s) : \E i \in 1 .. Len(s) : Halves(s)[m].msg = s[i]
    <3>1. /\ Halves(s) \in Seq([msg : 1 .. offered, half : {1, 2}])
          /\ Len(Halves(s)) = 2 * Len(s)
          /\ \A m \in 1 .. 2 * Len(s) :
               \E i \in 1 .. Len(s) :
                 /\ Halves(s)[m].msg = s[i]
                 /\ \/ m = 2 * i - 1 /\ Halves(s)[m].half = 1
                    \/ m = 2 * i /\ Halves(s)[m].half = 2
      BY <1>6, HalvesFacts
    <3> QED
      BY <3>1, Zenon
  <2>2. /\ h \in Seq([msg : 1 .. offered, half : {1, 2}]) /\ Len(h) = 2 * k
        /\ \A m \in 1 .. 2 * k : \E i \in 1 .. k : h[m].msg = s[i]
    BY <1>2, <1>6, <2>1
  <2> QED
    BY <1>6, <2>2 DEF Lines
<1>9. /\ \A m \in 2 .. 2 * k : Follows(h[m - 1], h[m])
      /\ k > 0 => h[1].half = 1 /\ h[1].msg = queue[1] /\ h[2 * k].half = 2
  <2>1. \A i, j \in 1 .. Len(s) : i < j => s[i] < s[j]
    BY <1>6 DEF WireInv
  <2>2. 1 .. offered \in SUBSET Nat
    BY <1>4
  <2>3. /\ \A m \in 2 .. 2 * Len(s) : Follows(Halves(s)[m - 1], Halves(s)[m])
        /\ Len(s) > 0 => /\ Halves(s)[1].half = 1 /\ Halves(s)[1].msg = s[1]
                         /\ Halves(s)[2 * Len(s)].half = 2
    BY <1>6, <2>1, <2>2, HalvesFollow
  <2>4. /\ \A m \in 2 .. 2 * k : Follows(h[m - 1], h[m])
        /\ k > 0 => h[1].half = 1 /\ h[1].msg = s[1] /\ h[2 * k].half = 2
    BY <1>2, <1>6, <2>3
  <2>5. k > 0 => s[1] = queue[1]
    BY <1>4, <1>6
  <2> QED
    BY <2>4, <2>5
<1>10. buf' = buf \o h
  BY <1>1, <1>2
<1>11. /\ buf' \in Seq(Lines(offered)) /\ Len(buf') = n + 2 * k
       /\ DOMAIN buf' = 1 .. (n + 2 * k)
       /\ \A m \in 1 .. n : buf'[m] = buf[m]
       /\ \A m \in 1 .. 2 * k : buf'[n + m] = h[m]
  <2>1. PICK S : S = Lines(offered)
    OBVIOUS
  <2>2. /\ buf' \in Seq(S) /\ Len(buf') = Len(buf) + Len(h)
        /\ DOMAIN buf' = 1 .. (Len(buf) + Len(h))
        /\ \A m \in 1 .. Len(buf) : buf'[m] = buf[m]
        /\ \A m \in 1 .. Len(h) : buf'[Len(buf) + m] = h[m]
    <3>1. buf \in Seq(S) /\ h \in Seq(S)
      BY <1>5, <1>8, <2>1
    <3>2. PICK c : c = buf'
      OBVIOUS
    <3>3. c = buf \o h
      BY <1>10, <3>2
    <3>4. /\ c \in Seq(S) /\ Len(c) = Len(buf) + Len(h)
          /\ DOMAIN c = 1 .. (Len(buf) + Len(h))
          /\ \A m \in 1 .. Len(buf) : c[m] = buf[m]
          /\ \A m \in 1 .. Len(h) : c[Len(buf) + m] = h[m]
      BY <3>1, <3>3, Joined
    <3> QED
      BY <3>2, <3>4
  <2>3. Len(buf) = n /\ Len(h) = 2 * k
    BY <1>3, <1>8
  <2> QED
    BY <2>1, <2>2, <2>3
<1>12. buf' # <<>> <=> n + 2 * k > 0
  BY <1>4, <1>11
<1>13. WireTypes'
  <2>1. Len(queue') <= QCap
    BY <1>4, <1>7, UplinkAssumption DEF WireTypes
  <2>2. Len(buf') < BufCap + 2
    BY <1>3, <1>11
  <2> QED
    BY <1>7, <1>11, <2>1, <2>2 DEF WireTypes
<1>14. WireInv'
  <2>1. Lengths(n, k, t)
    BY <1>3, <1>4 DEF Lengths
  <2>2. NewHalves(h, k)
    BY <1>8, <1>9 DEF NewHalves
  <2>3. Advances(t)
    BY <1>7 DEF Advances
  <2>4. Extends(h, n, k)
    BY <1>11, <1>12 DEF Extends
  <2> QED
    BY <2>1, <2>2, <2>3, <2>4, WireJoined
<1> QED
  BY <1>13, <1>14

(* drainQueueToBuf() *)
LEMMA Batches ==
  ASSUME WireTypes
  PROVE  /\ Fits \in Nat /\ Avail \in 0 .. Len(queue)
         /\ Kept \in 0 .. Len(queue) /\ Taken \in Kept .. Len(queue)
         /\ Len(buf) + 2 * Kept < BufCap + 2
         /\ Kept <= Fits
         /\ Taken = Kept => Taken = Avail
<1>1. /\ Len(buf) \in Nat /\ Len(queue) \in Nat
      /\ BufCap \in Nat /\ Batch \in Nat
  BY EpollAssumption DEF WireTypes
<1>2. Fits \in Nat /\ (Len(buf) < BufCap => Len(buf) + 2 * Fits < BufCap + 2)
  <2>1. CASE Len(buf) < BufCap
    <3> DEFINE x == BufCap - Len(buf) + 1
    <3>1. x \in Nat /\ Fits = x \div 2
      BY <1>1, <2>1 DEF Fits
    <3>2. x \div 2 \in Nat /\ 2 * (x \div 2) <= x
      <4> HIDE DEF x
      <4> QED
        BY <3>1
    <3> QED
      BY <1>1, <3>1, <3>2
  <2>2. CASE ~(Len(buf) < BufCap)
    BY <2>2 DEF Fits
  <2> QED
    BY <2>1, <2>2
<1>3. ~(Len(buf) < BufCap) => Fits = 0
  BY DEF Fits
<1>4. Len(buf) < BufCap + 2
  BY DEF WireTypes
<1>5. Avail \in 0 .. Len(queue)
  BY <1>1 DEF Avail, Least
<1>6. /\ Kept \in 0 .. Len(queue) /\ Taken \in Kept .. Len(queue) /\ Kept <= Fits
      /\ Taken = Kept => Taken = Avail
  <2> HIDE DEF Fits, Avail
  <2> QED
    BY <1>1, <1>2, <1>5 DEF Kept, Taken, Least
<1>7. Len(buf) + 2 * Kept < BufCap + 2
  BY <1>1, <1>2, <1>3, <1>4, <1>6
<1> QED
  BY <1>2, <1>5, <1>6, <1>7

LEMMA WireDrained ==
  ASSUME WireTypes, WireInv, DrainQueueToBuf, UNCHANGED <<offered, last>>, LinkLost
  PROVE  WireTypes' /\ WireInv'
<1>1. Kept \in 0 .. Len(queue) /\ Taken \in Kept .. Len(queue) /\ Len(buf) + 2 * Kept < BufCap + 2
  BY Batches
<1>2. PICK k : k = Kept
  OBVIOUS
<1>3. PICK t : t = Taken
  OBVIOUS
<1>4. /\ buf' = buf \o Halves(SubSeq(queue, 1, k))
      /\ queue' = SubSeq(queue, t + 1, Len(queue))
  BY <1>2, <1>3 DEF DrainQueueToBuf
<1>5. /\ k \in 0 .. Len(queue) /\ t \in k .. Len(queue) /\ Len(buf) + 2 * k < BufCap + 2
  BY <1>1, <1>2, <1>3
<1> QED
  BY <1>4, <1>5, WireMoved

LEMMA FirstAlone ==
  ASSUME NEW S, NEW q \in Seq(S), q # <<>>
  PROVE  <<Head(q)>> \in Seq(S) /\ SubSeq(q, 1, 1) = <<Head(q)>>
<1>1. Len(q) \in Nat /\ Len(q) >= 1 /\ Head(q) = q[1] /\ q[1] \in S
  OBVIOUS
<1>2. <<Head(q)>> \in Seq(S)
  BY <1>1
<1>3. /\ SubSeq(q, 1, 1) \in Seq(S) /\ Len(SubSeq(q, 1, 1)) = 1
      /\ SubSeq(q, 1, 1)[1] = q[1]
  <2>1. \A i \in 1 .. 1 : q[i] \in S
    BY <1>1
  <2>2. /\ SubSeq(q, 1, 1) \in Seq(S) /\ Len(SubSeq(q, 1, 1)) = 1 - 1 + 1
        /\ \A i \in 1 .. 1 - 1 + 1 : SubSeq(q, 1, 1)[i] = q[1 + i - 1]
    BY <2>1, SubSeqProperties
  <2> QED
    BY <2>2
<1>4. Len(<<Head(q)>>) = 1 /\ <<Head(q)>>[1] = Head(q)
  OBVIOUS
<1>5. \A i \in 1 .. 1 : SubSeq(q, 1, 1)[i] = <<Head(q)>>[i]
  BY <1>1, <1>3, <1>4
<1>6. SubSeq(q, 1, 1) = <<Head(q)>>
  BY <1>2, <1>3, <1>4, <1>5, SeqEqual
<1> QED
  BY <1>2, <1>6

(* consume_blocking() takes a message, and its line is sent or the sample  *)
(* is not due and it is dropped.                                           *)
LEMMA WireTake ==
  ASSUME WireTypes, WireInv, queue # <<>>, buf = <<>>,
         queue' = Tail(queue),
         buf' = buf \/ buf' = Halves(<<Head(queue)>>),
         UNCHANGED <<offered, last>>, LinkLost
  PROVE  WireTypes' /\ WireInv'
<1>1. queue \in Seq(1 .. offered) /\ Len(queue) \in Nat /\ Len(queue) >= 1 /\ BufCap \in Nat
  BY EpollAssumption DEF WireTypes
<1>2. Tail(queue) = SubSeq(queue, 1 + 1, Len(queue)) /\ BufCap > 0
  BY <1>1, EpollAssumption
<1>3. CASE buf' = buf
  <2>1. SubSeq(queue, 1, 0) = <<>>
    BY <1>1
  <2>2. Halves(<<>>) = <<>>
    <3>1. <<>> \in Seq(Lines(offered)) /\ Len(<<>>) = 0
      OBVIOUS
    <3>2. Halves(<<>>) \in Seq([msg : {}, half : {1, 2}]) /\ Len(Halves(<<>>)) = 2 * 0
      <4>1. <<>> \in Seq({})
        OBVIOUS
      <4> QED
        BY <3>1, <4>1, HalvesFacts
    <3> QED
      BY <3>2, EmptySeq
  <2>3. buf' = buf \o Halves(SubSeq(queue, 1, 0))
    <3>1. <<>> \o <<>> = <<>>
      BY ConcatEmptySeq, EmptySeq
    <3> QED
      BY <1>3, <2>1, <2>2, <3>1
  <2>4. Len(buf) + 2 * 0 < BufCap + 2 /\ 0 \in 0 .. Len(queue) /\ 1 \in 0 .. Len(queue)
    BY <1>1
  <2> QED
    BY <1>2, <2>3, <2>4, WireMoved
<1>4. CASE buf' = Halves(<<Head(queue)>>)
  <2>1. SubSeq(queue, 1, 1) = <<Head(queue)>>
    BY <1>1, FirstAlone
  <2>2. <<Head(queue)>> \in Seq(1 .. offered)
    BY <1>1, FirstAlone
  <2>3. Halves(<<Head(queue)>>) \in Seq(Lines(offered))
    BY <2>2, HalvesFacts DEF Lines
  <2>4. <<>> \o Halves(<<Head(queue)>>) = Halves(<<Head(queue)>>)
    BY <2>3, ConcatEmptySeq
  <2>5. buf' = buf \o Halves(SubSeq(queue, 1, 1))
    BY <1>4, <2>1, <2>4
  <2>6. Len(buf) + 2 * 1 < BufCap + 2 /\ 1 \in 0 .. Len(queue) /\ 1 \in 1 .. Len(queue)
    BY <1>1, <1>2
  <2> QED
    BY <1>2, <2>5, <2>6, WireMoved
<1> QED
  BY <1>3, <1>4

(* No step but a SendHalf hands anything to the kernel. *)
SentSame == last'.msg = last.msg /\ last'.half = last.half

LEMMA WireStep ==
  ASSUME WireTypes, WireInv, PlacesInv, Next
  PROVE  WireTypes' /\ WireInv' /\ (SentSame \/ Continues(last, last'))
<1> USE DEF queueVars, peerVars, threadVars, timerVars, histVars, Goto, Hangup, Failed, CountFailure
<1> DEFINE Ok == WireTypes' /\ WireInv' /\ (SentSame \/ Continues(last, last'))
           Quiet == UNCHANGED <<queue, offered, buf, last>> /\ LinkLost
<1>1. Quiet => Ok
  BY WireQuiet DEF SentSame
<1>2. ASSUME SendHalf  PROVE Ok
  BY <1>2, WireSendHalf
<1>3. ASSUME Attempt, UNCHANGED <<queue, offered, buf>>  PROVE Ok
  <2>1. last' = [last EXCEPT !.here = FALSE]
    BY <1>3 DEF Attempt
  <2>2. SentSame
    BY <2>1 DEF SentSame, WireTypes
  <2> QED
    BY <1>3, <2>1, <2>2, WireAttempt
<1>4. ASSUME queue' = <<>>, UNCHANGED <<offered, buf, last, link>>  PROVE Ok
  BY <1>4, WireEmptied DEF SentSame, LinkLost
<1>5. ASSUME buf' = <<>>, UNCHANGED <<queue, offered, last>>, link' \in {"none", "reset"}
      PROVE  Ok
  BY <1>5, WireGivenUp DEF SentSame
<1>6. ASSUME EpollStart  PROVE Ok
  <2>1. Quiet
    BY <1>6 DEF EpollStart, Start, LinkLost
  <2> QED
    BY <1>1, <2>1
<1>7. ASSUME EndThread  PROVE Quiet
  BY <1>7 DEF EndThread, CloseSocket, LinkLost
<1>8. ASSUME LoseConnection  PROVE Quiet
  BY <1>8 DEF LoseConnection, CloseSocket, BackOff, LoopAgain, LinkLost
<1>9. ASSUME EpollPart  PROVE Ok
  <2>1. ASSUME TryConnect  PROVE Ok
    <3>1. Attempt /\ UNCHANGED <<queue, offered, buf>>
      BY <2>1 DEF TryConnect
    <3> QED
      BY <1>3, <3>1
  <2>2. ASSUME ConnectFailsAtOnce  PROVE Ok
    <3>1. queue' = <<>> /\ UNCHANGED <<offered, buf, last, link>>
      BY <2>2 DEF ConnectFailsAtOnce
    <3> QED
      BY <1>4, <3>1
  <2>3. ASSUME SampleAndArm  PROVE Ok
    <3>1. UNCHANGED <<offered, last, link>> /\ LinkLost
      BY <2>3 DEF SampleAndArm, LinkLost
    <3>2. DrainQueueToBuf \/ UNCHANGED <<queue, buf>>
      BY <2>3 DEF SampleAndArm
    <3>3. CASE DrainQueueToBuf
      BY <3>1, <3>3, WireDrained DEF SentSame
    <3>4. CASE UNCHANGED <<queue, buf>>
      BY <1>1, <3>1, <3>4
    <3> QED
      BY <3>2, <3>3, <3>4
  <2>4. ASSUME FlushHalf  PROVE Ok
    BY <1>2, <2>4 DEF FlushHalf
  <2>5. ASSUME Leave \/ EpollWaitFails  PROVE Ok
    BY <1>1, <1>7, <2>5 DEF Leave, EpollWaitFails
  <2>6. ASSUME HandleError \/ HandleConnectFailed \/ FlushFails  PROVE Ok
    BY <1>1, <1>8, <2>6 DEF HandleError, HandleConnectFailed, FlushFails
  <2>7. ASSUME HoldOff \/ WakeUp \/ EpollWait \/ EpollWaitTimesOut \/ HandleConnected  PROVE Ok
    <3>1. Quiet
      BY <2>7 DEF HoldOff, WakeUp, EpollWait, EpollWaitTimesOut, HandleConnected, LinkLost
    <3> QED
      BY <1>1, <3>1
  <2>8. ASSUME Receive  PROVE Ok
    <3>1. Quiet
      BY <2>8 DEF Receive, CloseSocket, LinkLost
    <3> QED
      BY <1>1, <3>1
  <2>9. ASSUME NoFlush \/ FlushBlocked \/ Flushed  PROVE Ok
    <3>1. Quiet
      BY <2>9 DEF NoFlush, FlushBlocked, Flushed, LoopAgain, LinkLost
    <3> QED
      BY <1>1, <3>1
  <2> QED
    BY <1>9, <2>1, <2>2, <2>3, <2>4, <2>5, <2>6, <2>7, <2>8, <2>9
       DEF EpollPart, EpollNext, EpollStep
<1>10. ASSUME NetFails  PROVE Ok
  <2>1. buf' = <<>> /\ UNCHANGED <<queue, offered, last>> /\ link' \in {"none", "reset"}
    BY <1>10 DEF NetFails
  <2> QED
    BY <1>5, <2>1
<1>11. ASSUME NetPart  PROVE Ok
  <2>1. ASSUME NetConnect  PROVE Ok
    <3>1. Attempt /\ UNCHANGED <<queue, offered, buf>>
      BY <2>1 DEF NetConnect
    <3> QED
      BY <1>3, <3>1
  <2>2. ASSUME NetConnectFails \/ NetSendFails  PROVE Ok
    BY <1>10, <2>2 DEF NetConnectFails, NetSendFails
  <2>3. ASSUME NetDrain  PROVE Ok
    <3>1. queue' = <<>> /\ UNCHANGED <<offered, buf, last, link>>
      BY <2>3 DEF NetDrain
    <3> QED
      BY <1>4, <3>1
  <2>4. ASSUME NetTake  PROVE Ok
    <3>1. buf = <<>>
      BY <1>11, <2>4 DEF NetTake, NetPart, PlacesInv
    <3>2. /\ queue # <<>> /\ queue' = Tail(queue)
          /\ buf' = buf \/ buf' = Halves(<<Head(queue)>>)
          /\ UNCHANGED <<offered, last, link>>
      BY <2>4 DEF NetTake
    <3> QED
      BY <3>1, <3>2, WireTake DEF LinkLost, SentSame
  <2>5. ASSUME NetSendHalf  PROVE Ok
    BY <1>2, <2>5 DEF NetSendHalf
  <2>6. ASSUME NetSent  PROVE Ok
    <3>1. /\ buf' = <<>> /\ UNCHANGED <<queue, offered, last, link>>
          /\ buf = <<>> \/ link = "reset"
      BY <2>6 DEF NetSent
    <3>2. CASE buf = <<>>
      BY <1>1, <3>1, <3>2 DEF LinkLost
    <3>3. CASE link = "reset"
      BY <1>5, <3>1, <3>3
    <3> QED
      BY <3>1, <3>2, <3>3
  <2>7. ASSUME NetLeave \/ NetConnected \/ NetSlice \/ NetStopsWaiting \/ NetRetry \/ NetHangUp
        PROVE  Ok
    <3>1. Quiet
      BY <2>7 DEF NetLeave, NetConnected, NetSlice, NetStopsWaiting, NetRetry, NetHangUp, LinkLost
    <3> QED
      BY <1>1, <3>1
  <2> QED
    BY <1>11, <2>1, <2>2, <2>3, <2>4, <2>5, <2>6, <2>7 DEF NetPart, NetStep
<1>12. ASSUME Offer  PROVE Ok
  <2>1. SentSame
    BY <1>12 DEF Offer, SentSame
  <2> QED
    BY <1>12, <2>1, WireOffer
<1>13. ASSUME NetStart \/ Tick \/ Stop \/ NetStop \/ Join  PROVE Ok
  <2>1. Quiet
    BY <1>13 DEF NetStart, Start, Tick, Stop, NetStop, Join, LinkLost
  <2> QED
    BY <1>1, <2>1
<1>14. ASSUME Network  PROVE Ok
  <2>1. Quiet
    BY <1>14 DEF Network, Establish, Refuse, PeerReads, PeerReplies, PeerCloses, PeerAnswers,
                 ConnectionResets, PeerSticks, Others, LinkLost
  <2> QED
    BY <1>1, <2>1
<1> QED
  BY <1>6, <1>9, <1>11, <1>12, <1>13, <1>14 DEF Next

----------------------------------------------------------------------------
(* Where the threads are. *)

FlagTypes ==
  /\ link \in {"none", "syn", "up", "fin", "reset"}
  /\ reply \in BOOLEAN /\ stuck \in BOOLEAN
  /\ kind \in {"none", "epoll", "net"}
  /\ pc \in {"new", "top", "ended", "sleep", "sample", "wait", "handle", "recv", "flush",
             "connect", "backoff", "slice", "take", "send"}
  /\ running \in BOOLEAN /\ stopper \in {"idle", "join", "joined"}
  /\ behind \in BOOLEAN
  /\ outcome \in {"never", "open", "failed", "closed"}
  /\ connecting \in BOOLEAN /\ wantWrite \in BOOLEAN /\ armed \in BOOLEAN
  /\ ev \subseteq {"err", "in", "out"}

NumberTypes ==
  /\ rate \in 0 .. Rate /\ room \in 0 .. RoomCap /\ faults \in 0 .. MaxFaults
  /\ backoff \in BaseBackoff .. MaxBackoff
  /\ retryIn \in 0 .. MaxBackoff /\ sampleIn \in 0 .. 1 /\ sleepFor \in 0 .. 2
  /\ fails \in 0 .. MostFails /\ waited \in 0 .. MaxBackoff
  /\ kind # "epoll" => sleepFor \in 0 .. 1

Armed ==
  /\ armed = wantWrite
  /\ pc = "wait" /\ buf # <<>> => armed

LEMMA FlagStep ==
  ASSUME FlagTypes, PlacesInv, Next
  PROVE  FlagTypes'
<1> USE DEF queueVars, peerVars, threadVars, timerVars, histVars, socketVars, epollVars,
           Goto, Hangup, Failed, CountFailure
<1> USE UplinkAssumption, EpollAssumption
<1>1. ASSUME EpollStart  PROVE FlagTypes'
  BY <1>1
     DEF EpollStart, Start, Fault, FlagTypes, PlacesInv
<1>2. ASSUME EpollPart  PROVE FlagTypes'
  <2>0. kind = "epoll"
    BY <1>2 DEF EpollPart
  <2>1. ASSUME Leave \/ EpollWaitFails  PROVE FlagTypes'
    BY <2>0, <2>1
       DEF Leave, EpollWaitFails, EndThread, CloseSocket, Fault, FlagTypes, PlacesInv
  <2>2. ASSUME TryConnect  PROVE FlagTypes'
    BY <2>0, <2>2
       DEF TryConnect, Retrying, Attempt, FlagTypes, PlacesInv
  <2>3. ASSUME ConnectFailsAtOnce  PROVE FlagTypes'
    BY <2>0, <2>3
       DEF ConnectFailsAtOnce, CountFailure, TryConnectFails, Retrying, Fault, FlagTypes, PlacesInv
  <2>4. ASSUME HoldOff \/ WakeUp \/ EpollWaitTimesOut  PROVE FlagTypes'
    <3>1. UNCHANGED <<link, reply, stuck, kind, running, stopper, behind, outcome, epollVars>>
      BY <2>4 DEF HoldOff, WakeUp, EpollWaitTimesOut
    <3>2. pc' \in {"sleep", "top"}
      BY <2>4 DEF HoldOff, WakeUp, EpollWaitTimesOut
    <3> QED
      BY <3>1, <3>2 DEF FlagTypes
  <2>5. ASSUME SampleAndArm  PROVE FlagTypes'
    BY <2>0, <2>5
       DEF SampleAndArm, DrainQueueToBuf, FlagTypes, PlacesInv
  <2>6. ASSUME EpollWait  PROVE FlagTypes'
    BY <2>0, <2>6
       DEF EpollWait, Events, FlagTypes, PlacesInv
  <2>7. ASSUME HandleError \/ HandleConnectFailed \/ FlushFails  PROVE FlagTypes'
    BY <2>0, <2>7
       DEF HandleError, HandleConnectFailed, FlushFails, Connects, Flushing,
           LoseConnection, CloseSocket, BackOff, LoopAgain, FlagTypes, PlacesInv
  <2>8. ASSUME HandleConnected  PROVE FlagTypes'
    BY <2>0, <2>8
       DEF HandleConnected, Connects, FlagTypes, PlacesInv
  <2>9. ASSUME Receive  PROVE FlagTypes'
    <3>1. UNCHANGED <<kind, running, stopper, behind, ev>> /\ stuck' = stuck /\ pc' = "flush"
      BY <2>9 DEF Receive, CloseSocket
    <3>2. CASE "in" \in ev /\ link # "up"
      BY <2>9, <3>1, <3>2 DEF Receive, CloseSocket, FlagTypes
    <3>3. CASE ~("in" \in ev /\ link # "up")
      <4>1. UNCHANGED <<link, connecting, wantWrite, armed, outcome>>
        BY <2>9, <3>3 DEF Receive
      <4>2. reply' \in BOOLEAN
        BY <2>9, <3>3 DEF Receive
      <4> QED
        BY <3>1, <4>1, <4>2 DEF FlagTypes
    <3> QED
      BY <3>2, <3>3
  <2>10. ASSUME FlushHalf  PROVE FlagTypes'
    BY <2>0, <2>10
       DEF FlushHalf, Flushing, SendHalf, FlagTypes, PlacesInv
  <2>11. ASSUME NoFlush  PROVE FlagTypes'
    BY <2>0, <2>11
       DEF NoFlush, LoopAgain, FlagTypes, PlacesInv
  <2>12. ASSUME FlushBlocked  PROVE FlagTypes'
    BY <2>0, <2>12
       DEF FlushBlocked, Flushing, LoopAgain, FlagTypes, PlacesInv
  <2>13. ASSUME Flushed  PROVE FlagTypes'
    BY <2>0, <2>13
       DEF Flushed, Flushing, LoopAgain, FlagTypes, PlacesInv
  <2> QED
    BY <1>2, <2>1, <2>2, <2>3, <2>4, <2>5, <2>6, <2>7, <2>8, <2>9, <2>10, <2>11, <2>12,
       <2>13
       DEF EpollPart, EpollNext, EpollStep
<1>3. ASSUME NetPart  PROVE FlagTypes'
  <2>0. kind = "net" /\ UNCHANGED epollVars
    BY <1>3 DEF NetPart
  <2>1. ASSUME NetLeave \/ NetStopsWaiting  PROVE FlagTypes'
    BY <2>0, <2>1
       DEF NetLeave, NetStopsWaiting, FlagTypes, PlacesInv
  <2>2. ASSUME NetConnect  PROVE FlagTypes'
    BY <2>0, <2>2
       DEF NetConnect, Attempt, FlagTypes, PlacesInv
  <2>3. ASSUME NetConnected  PROVE FlagTypes'
    BY <2>0, <2>3
       DEF NetConnected, FlagTypes, PlacesInv
  <2>4. ASSUME NetConnectFails \/ NetSendFails  PROVE FlagTypes'
    BY <2>0, <2>4
       DEF NetConnectFails, NetSendFails, NetFails, FlagTypes, PlacesInv
  <2>5. ASSUME NetSlice \/ NetDrain \/ NetRetry  PROVE FlagTypes'
    BY <2>0, <2>5
       DEF NetSlice, NetDrain, NetRetry, FlagTypes, PlacesInv
  <2>6. ASSUME NetTake  PROVE FlagTypes'
    BY <2>0, <2>6
       DEF NetTake, FlagTypes, PlacesInv
  <2>7. ASSUME NetSendHalf  PROVE FlagTypes'
    BY <2>0, <2>7
       DEF NetSendHalf, SendHalf, FlagTypes, PlacesInv
  <2>8. ASSUME NetSent \/ NetHangUp  PROVE FlagTypes'
    <3>1. CASE NetSent
      BY <2>0, <3>1 DEF NetSent, FlagTypes
    <3>2. CASE NetHangUp
      BY <2>0, <3>2 DEF NetHangUp, FlagTypes
    <3> QED
      BY <2>8, <3>1, <3>2
  <2> QED
    BY <1>3, <2>1, <2>2, <2>3, <2>4, <2>5, <2>6, <2>7, <2>8
       DEF NetPart, NetStep
<1>4. ASSUME UNCHANGED epollVars,
             \/ NetStart \/ Offer \/ Tick \/ Network
             \/ kind = "epoll" /\ Stop
             \/ kind = "net" /\ NetStop
             \/ Join
      PROVE  FlagTypes'
  <2>1. ASSUME NetStart  PROVE FlagTypes'
    BY <1>4, <2>1
       DEF NetStart, Start, FlagTypes, PlacesInv
  <2>2. ASSUME Offer  PROVE FlagTypes'
    BY <1>4, <2>2
       DEF Offer, FlagTypes, PlacesInv
  <2>3. ASSUME Tick  PROVE FlagTypes'
    BY <1>4, <2>3
       DEF Tick, Idle, FlagTypes, PlacesInv
  <2>4. ASSUME Establish  PROVE FlagTypes'
    BY <1>4, <2>4
       DEF Establish, Others, FlagTypes, PlacesInv
  <2>5. ASSUME Refuse  PROVE FlagTypes'
    BY <1>4, <2>5
       DEF Refuse, Others, Fault, FlagTypes, PlacesInv
  <2>6. ASSUME PeerReads  PROVE FlagTypes'
    BY <1>4, <2>6
       DEF PeerReads, Others, FlagTypes, PlacesInv
  <2>7. ASSUME PeerReplies  PROVE FlagTypes'
    BY <1>4, <2>7
       DEF PeerReplies, Others, Fault, FlagTypes, PlacesInv
  <2>8. ASSUME PeerCloses  PROVE FlagTypes'
    BY <1>4, <2>8
       DEF PeerCloses, Others, Fault, FlagTypes, PlacesInv
  <2>9. ASSUME PeerAnswers  PROVE FlagTypes'
    BY <1>4, <2>9
       DEF PeerAnswers, Others, FlagTypes, PlacesInv
  <2>10. ASSUME ConnectionResets  PROVE FlagTypes'
    BY <1>4, <2>10
       DEF ConnectionResets, Others, Fault, FlagTypes, PlacesInv
  <2>11. ASSUME PeerSticks  PROVE FlagTypes'
    BY <1>4, <2>11
       DEF PeerSticks, Others, Fault, FlagTypes, PlacesInv
  <2>12. ASSUME Stop  PROVE FlagTypes'
    <3>1. UNCHANGED <<link, reply, stuck, kind, pc, behind, outcome, epollVars>>
      BY <1>4, <2>12 DEF Stop
    <3>2. running' \in BOOLEAN /\ stopper' = "join"
      BY <2>12 DEF Stop
    <3> QED
      BY <3>1, <3>2 DEF FlagTypes
  <2>13. ASSUME NetStop  PROVE FlagTypes'
    BY <2>12, <2>13 DEF NetStop
  <2>14. ASSUME Join  PROVE FlagTypes'
    BY <1>4, <2>14
       DEF Join, FlagTypes, PlacesInv
  <2> QED
    BY <1>4, <2>1, <2>2, <2>3, <2>4, <2>5, <2>6, <2>7, <2>8, <2>9,
       <2>10, <2>11, <2>12, <2>13, <2>14
       DEF Network
<1> QED
  BY <1>1, <1>2, <1>3, <1>4 DEF Next

LEMMA NumberStep ==
  ASSUME NumberTypes, FlagTypes, PlacesInv, Next
  PROVE  NumberTypes'
<1> USE DEF queueVars, peerVars, threadVars, timerVars, histVars, socketVars, epollVars,
           Goto, Hangup, Failed, CountFailure
<1> USE UplinkAssumption, EpollAssumption
<1>1. ASSUME EpollStart  PROVE NumberTypes'
  BY <1>1, MostFailsFacts
     DEF EpollStart, Start, Fault, NumberTypes, FlagTypes, PlacesInv, Double, Least,
         Less
<1>2. ASSUME EpollPart  PROVE NumberTypes'
  <2>0. kind = "epoll"
    BY <1>2 DEF EpollPart
  <2>1. ASSUME Leave \/ EpollWaitFails  PROVE NumberTypes'
    BY <2>0, <2>1, MostFailsFacts
       DEF Leave, EpollWaitFails, EndThread, CloseSocket, Fault, NumberTypes, FlagTypes,
           PlacesInv, Double, Least, Less
  <2>2. ASSUME TryConnect  PROVE NumberTypes'
    BY <2>0, <2>2, MostFailsFacts
       DEF TryConnect, Retrying, Attempt, NumberTypes, FlagTypes, PlacesInv, Double,
           Least, Less
  <2>3. ASSUME ConnectFailsAtOnce  PROVE NumberTypes'
    BY <2>0, <2>3, MostFailsFacts
       DEF ConnectFailsAtOnce, CountFailure, Retrying, Fault, NumberTypes, FlagTypes, PlacesInv,
           Double, Least, Less
  <2>4. ASSUME HoldOff \/ WakeUp \/ EpollWaitTimesOut  PROVE NumberTypes'
    BY <2>0, <2>4, MostFailsFacts
       DEF HoldOff, WakeUp, EpollWaitTimesOut, NumberTypes, FlagTypes, PlacesInv,
           Double, Least, Less
  <2>5. ASSUME SampleAndArm  PROVE NumberTypes'
    BY <2>0, <2>5, MostFailsFacts
       DEF SampleAndArm, DrainQueueToBuf, NumberTypes, FlagTypes, PlacesInv, Double,
           Least, Less
  <2>6. ASSUME EpollWait  PROVE NumberTypes'
    BY <2>0, <2>6, MostFailsFacts
       DEF EpollWait, Events, NumberTypes, FlagTypes, PlacesInv, Double, Least, Less
  <2>7. ASSUME HandleError \/ HandleConnectFailed \/ FlushFails  PROVE NumberTypes'
    BY <2>0, <2>7, MostFailsFacts
       DEF HandleError, HandleConnectFailed, FlushFails, Connects, Flushing,
           LoseConnection, CloseSocket, BackOff, LoopAgain, NumberTypes, FlagTypes,
           PlacesInv, Double, Least, Less
  <2>8. ASSUME HandleConnected  PROVE NumberTypes'
    BY <2>0, <2>8, MostFailsFacts
       DEF HandleConnected, Connects, NumberTypes, FlagTypes, PlacesInv, Double, Least,
           Less
  <2>9. ASSUME Receive  PROVE NumberTypes'
    BY <2>0, <2>9, MostFailsFacts
       DEF Receive, Connects, CloseSocket, NumberTypes, FlagTypes, PlacesInv, Double,
           Least, Less
  <2>10. ASSUME FlushHalf  PROVE NumberTypes'
    BY <2>0, <2>10, MostFailsFacts
       DEF FlushHalf, Flushing, SendHalf, NumberTypes, FlagTypes, PlacesInv, Double,
           Least, Less
  <2>11. ASSUME NoFlush  PROVE NumberTypes'
    BY <2>0, <2>11, MostFailsFacts
       DEF NoFlush, LoopAgain, NumberTypes, FlagTypes, PlacesInv, Double, Least, Less
  <2>12. ASSUME FlushBlocked  PROVE NumberTypes'
    BY <2>0, <2>12, MostFailsFacts
       DEF FlushBlocked, Flushing, LoopAgain, NumberTypes, FlagTypes, PlacesInv, Double,
           Least, Less
  <2>13. ASSUME Flushed  PROVE NumberTypes'
    BY <2>0, <2>13, MostFailsFacts
       DEF Flushed, Flushing, LoopAgain, NumberTypes, FlagTypes, PlacesInv, Double,
           Least, Less
  <2> QED
    BY <1>2, <2>1, <2>2, <2>3, <2>4, <2>5, <2>6, <2>7, <2>8, <2>9, <2>10, <2>11, <2>12,
       <2>13
       DEF EpollPart, EpollNext, EpollStep
<1>3. ASSUME NetPart  PROVE NumberTypes'
  <2>0. kind = "net" /\ UNCHANGED epollVars
    BY <1>3 DEF NetPart
  <2>1. ASSUME NetLeave \/ NetStopsWaiting  PROVE NumberTypes'
    BY <2>0, <2>1, MostFailsFacts
       DEF NetLeave, NetStopsWaiting, NumberTypes, FlagTypes, PlacesInv, Double, Least,
           Less
  <2>2. ASSUME NetConnect  PROVE NumberTypes'
    BY <2>0, <2>2, MostFailsFacts
       DEF NetConnect, Attempt, NumberTypes, FlagTypes, PlacesInv, Double, Least, Less
  <2>3. ASSUME NetConnected  PROVE NumberTypes'
    BY <2>0, <2>3, MostFailsFacts
       DEF NetConnected, NumberTypes, FlagTypes, PlacesInv, Double, Least, Less
  <2>4. ASSUME NetConnectFails \/ NetSendFails  PROVE NumberTypes'
    <3>1. NetFails
      BY <2>4 DEF NetConnectFails, NetSendFails
    <3> QED
      BY <2>0, <3>1, MostFailsFacts DEF NetFails, NumberTypes, Least
  <2>5. ASSUME NetSlice \/ NetDrain \/ NetRetry  PROVE NumberTypes'
    <3>1. UNCHANGED <<rate, room, faults, kind, retryIn, sampleIn, fails, waited>>
      BY <2>5 DEF NetSlice, NetDrain, NetRetry
    <3>2. sleepFor' \in {sleepFor, 1} /\ backoff' \in {backoff, Double(backoff)}
      BY <2>5 DEF NetSlice, NetDrain, NetRetry
    <3>3. Double(backoff) \in BaseBackoff .. MaxBackoff
      BY DEF NumberTypes, Double, Least
    <3> QED
      BY <3>1, <3>2, <3>3 DEF NumberTypes
  <2>6. ASSUME NetTake  PROVE NumberTypes'
    <3>1. /\ sampleIn' \in {sampleIn, 1}
          /\ UNCHANGED <<rate, room, faults, kind, backoff, retryIn, sleepFor, fails, waited>>
      BY <2>6 DEF NetTake
    <3> QED
      BY <3>1 DEF NumberTypes
  <2>7. ASSUME NetSendHalf  PROVE NumberTypes'
    <3>1. /\ room > 0 /\ room' = room - 1
          /\ UNCHANGED <<rate, faults, kind, backoff, retryIn, sampleIn, sleepFor, fails, waited>>
      BY <2>7 DEF NetSendHalf, SendHalf
    <3> QED
      BY <3>1 DEF NumberTypes
  <2>8. ASSUME NetSent \/ NetHangUp  PROVE NumberTypes'
    <3>1. CASE NetSent
      BY <3>1 DEF NetSent, NumberTypes
    <3>2. CASE NetHangUp
      BY <2>0, <3>2, MostFailsFacts DEF NetHangUp, NumberTypes
    <3> QED
      BY <2>8, <3>1, <3>2
  <2> QED
    BY <1>3, <2>1, <2>2, <2>3, <2>4, <2>5, <2>6, <2>7, <2>8
       DEF NetPart, NetStep
<1>4. ASSUME UNCHANGED epollVars,
             \/ NetStart \/ Offer \/ Tick \/ Network
             \/ kind = "epoll" /\ Stop
             \/ kind = "net" /\ NetStop
             \/ Join
      PROVE  NumberTypes'
  <2>1. ASSUME NetStart  PROVE NumberTypes'
    BY <1>4, <2>1, MostFailsFacts
       DEF NetStart, Start, NumberTypes, FlagTypes, PlacesInv, Double, Least, Less
  <2>2. ASSUME Offer  PROVE NumberTypes'
    BY <1>4, <2>2, MostFailsFacts
       DEF Offer, NumberTypes, FlagTypes, PlacesInv, Double, Least, Less
  <2>3. ASSUME Tick  PROVE NumberTypes'
    BY <1>4, <2>3, MostFailsFacts
       DEF Tick, Idle, NumberTypes, FlagTypes, PlacesInv, Double, Least, Less
  <2>4. ASSUME Establish  PROVE NumberTypes'
    BY <1>4, <2>4, MostFailsFacts
       DEF Establish, Others, NumberTypes, FlagTypes, PlacesInv, Double, Least, Less
  <2>5. ASSUME Refuse  PROVE NumberTypes'
    BY <1>4, <2>5, MostFailsFacts
       DEF Refuse, Others, Fault, NumberTypes, FlagTypes, PlacesInv, Double, Least, Less
  <2>6. ASSUME PeerReads  PROVE NumberTypes'
    BY <1>4, <2>6, MostFailsFacts
       DEF PeerReads, Others, NumberTypes, FlagTypes, PlacesInv, Double, Least, Less
  <2>7. ASSUME PeerReplies  PROVE NumberTypes'
    BY <1>4, <2>7, MostFailsFacts
       DEF PeerReplies, Others, Fault, NumberTypes, FlagTypes, PlacesInv, Double, Least,
           Less
  <2>8. ASSUME PeerCloses  PROVE NumberTypes'
    BY <1>4, <2>8, MostFailsFacts
       DEF PeerCloses, Others, Fault, NumberTypes, FlagTypes, PlacesInv, Double, Least,
           Less
  <2>9. ASSUME PeerAnswers  PROVE NumberTypes'
    BY <1>4, <2>9, MostFailsFacts
       DEF PeerAnswers, Others, NumberTypes, FlagTypes, PlacesInv, Double, Least, Less
  <2>10. ASSUME ConnectionResets  PROVE NumberTypes'
    BY <1>4, <2>10, MostFailsFacts
       DEF ConnectionResets, Others, Fault, NumberTypes, FlagTypes, PlacesInv, Double,
           Least, Less
  <2>11. ASSUME PeerSticks  PROVE NumberTypes'
    BY <1>4, <2>11, MostFailsFacts
       DEF PeerSticks, Others, Fault, NumberTypes, FlagTypes, PlacesInv, Double, Least,
           Less
  <2>12. ASSUME Stop  PROVE NumberTypes'
    BY <1>4, <2>12, MostFailsFacts
       DEF Stop, NumberTypes, FlagTypes, PlacesInv, Double, Least, Less
  <2>13. ASSUME NetStop  PROVE NumberTypes'
    BY <1>4, <2>13, MostFailsFacts
       DEF NetStop, Stop, NumberTypes, FlagTypes, PlacesInv, Double, Least, Less
  <2>14. ASSUME Join  PROVE NumberTypes'
    BY <1>4, <2>14, MostFailsFacts
       DEF Join, NumberTypes, FlagTypes, PlacesInv, Double, Least, Less
  <2> QED
    BY <1>4, <2>1, <2>2, <2>3, <2>4, <2>5, <2>6, <2>7, <2>8, <2>9,
       <2>10, <2>11, <2>12, <2>13, <2>14
       DEF Network
<1> QED
  BY <1>1, <1>2, <1>3, <1>4 DEF Next

LEMMA PlacesStep ==
  ASSUME FlagTypes, Armed, PlacesInv, Next
  PROVE  PlacesInv'
<1> USE DEF queueVars, peerVars, threadVars, timerVars, histVars, socketVars, epollVars,
           Goto, Hangup, Failed, CountFailure
<1> USE UplinkAssumption, EpollAssumption
<1>1. ASSUME EpollStart  PROVE PlacesInv'
  BY <1>1
     DEF EpollStart, Start, Fault, FlagTypes, Armed, PlacesInv, EpollPlaces, NetPlaces
<1>2. ASSUME EpollPart  PROVE PlacesInv'
  <2>0. kind = "epoll"
    BY <1>2 DEF EpollPart
  <2>1. ASSUME Leave \/ EpollWaitFails  PROVE PlacesInv'
    BY <2>0, <2>1
       DEF Leave, EpollWaitFails, EndThread, CloseSocket, Fault, FlagTypes, Armed,
           PlacesInv, EpollPlaces, NetPlaces
  <2>2. ASSUME TryConnect  PROVE PlacesInv'
    BY <2>0, <2>2
       DEF TryConnect, Retrying, Attempt, FlagTypes, Armed, PlacesInv, EpollPlaces,
           NetPlaces
  <2>3. ASSUME ConnectFailsAtOnce  PROVE PlacesInv'
    BY <2>0, <2>3
       DEF ConnectFailsAtOnce, TryConnectFails, Retrying, Fault, FlagTypes, Armed, PlacesInv,
           EpollPlaces, NetPlaces
  <2>4. ASSUME HoldOff \/ WakeUp \/ EpollWaitTimesOut  PROVE PlacesInv'
    BY <2>0, <2>4
       DEF HoldOff, WakeUp, EpollWaitTimesOut, FlagTypes, Armed, PlacesInv, EpollPlaces,
           NetPlaces
  <2>5. ASSUME SampleAndArm  PROVE PlacesInv'
    BY <2>0, <2>5
       DEF SampleAndArm, DrainQueueToBuf, FlagTypes, Armed, PlacesInv, EpollPlaces,
           NetPlaces
  <2>6. ASSUME EpollWait  PROVE PlacesInv'
    BY <2>0, <2>6
       DEF EpollWait, Events, FlagTypes, Armed, PlacesInv, EpollPlaces, NetPlaces
  <2>7. ASSUME HandleError \/ HandleConnectFailed \/ FlushFails  PROVE PlacesInv'
    BY <2>0, <2>7
       DEF HandleError, HandleConnectFailed, FlushFails, Connects, Flushing,
           LoseConnection, CloseSocket, BackOff, LoopAgain, FlagTypes, Armed, PlacesInv,
           EpollPlaces, NetPlaces
  <2>8. ASSUME HandleConnected  PROVE PlacesInv'
    BY <2>0, <2>8
       DEF HandleConnected, Connects, FlagTypes, Armed, PlacesInv, EpollPlaces,
           NetPlaces
  <2>9. ASSUME Receive  PROVE PlacesInv'
    BY <2>0, <2>9
       DEF Receive, Connects, CloseSocket, FlagTypes, Armed, PlacesInv, EpollPlaces,
           NetPlaces
  <2>10. ASSUME FlushHalf  PROVE PlacesInv'
    BY <2>0, <2>10
       DEF FlushHalf, Flushing, SendHalf, FlagTypes, Armed, PlacesInv, EpollPlaces,
           NetPlaces
  <2>11. ASSUME NoFlush  PROVE PlacesInv'
    BY <2>0, <2>11
       DEF NoFlush, LoopAgain, FlagTypes, Armed, PlacesInv, EpollPlaces, NetPlaces
  <2>12. ASSUME FlushBlocked  PROVE PlacesInv'
    BY <2>0, <2>12
       DEF FlushBlocked, Flushing, LoopAgain, FlagTypes, Armed, PlacesInv, EpollPlaces,
           NetPlaces
  <2>13. ASSUME Flushed  PROVE PlacesInv'
    BY <2>0, <2>13
       DEF Flushed, Flushing, LoopAgain, FlagTypes, Armed, PlacesInv, EpollPlaces,
           NetPlaces
  <2> QED
    BY <1>2, <2>1, <2>2, <2>3, <2>4, <2>5, <2>6, <2>7, <2>8, <2>9, <2>10, <2>11, <2>12,
       <2>13
       DEF EpollPart, EpollNext, EpollStep
<1>3. ASSUME NetPart  PROVE PlacesInv'
  <2>0. kind = "net" /\ UNCHANGED epollVars
    BY <1>3 DEF NetPart
  <2>1. ASSUME NetLeave \/ NetStopsWaiting  PROVE PlacesInv'
    BY <2>0, <2>1
       DEF NetLeave, NetStopsWaiting, FlagTypes, Armed, PlacesInv, EpollPlaces,
           NetPlaces
  <2>2. ASSUME NetConnect  PROVE PlacesInv'
    BY <2>0, <2>2
       DEF NetConnect, Attempt, FlagTypes, Armed, PlacesInv, EpollPlaces, NetPlaces
  <2>3. ASSUME NetConnected  PROVE PlacesInv'
    BY <2>0, <2>3
       DEF NetConnected, FlagTypes, Armed, PlacesInv, EpollPlaces, NetPlaces
  <2>4. ASSUME NetConnectFails \/ NetSendFails  PROVE PlacesInv'
    BY <2>0, <2>4
       DEF NetConnectFails, NetSendFails, NetFails, FlagTypes, Armed, PlacesInv,
           EpollPlaces, NetPlaces
  <2>5. ASSUME NetSlice \/ NetDrain \/ NetRetry  PROVE PlacesInv'
    BY <2>0, <2>5
       DEF NetSlice, NetDrain, NetRetry, FlagTypes, Armed, PlacesInv, EpollPlaces,
           NetPlaces
  <2>6. ASSUME NetTake  PROVE PlacesInv'
    BY <2>0, <2>6
       DEF NetTake, FlagTypes, Armed, PlacesInv, EpollPlaces, NetPlaces
  <2>7. ASSUME NetSendHalf  PROVE PlacesInv'
    BY <2>0, <2>7
       DEF NetSendHalf, SendHalf, FlagTypes, Armed, PlacesInv, EpollPlaces, NetPlaces
  <2>8. ASSUME NetSent \/ NetHangUp  PROVE PlacesInv'
    BY <2>0, <2>8
       DEF NetSent, NetHangUp, FlagTypes, Armed, PlacesInv, EpollPlaces, NetPlaces
  <2> QED
    BY <1>3, <2>1, <2>2, <2>3, <2>4, <2>5, <2>6, <2>7, <2>8
       DEF NetPart, NetStep
<1>4. ASSUME UNCHANGED epollVars,
             \/ NetStart \/ Offer \/ Tick \/ Network
             \/ kind = "epoll" /\ Stop
             \/ kind = "net" /\ NetStop
             \/ Join
      PROVE  PlacesInv'
  <2>1. ASSUME NetStart  PROVE PlacesInv'
    BY <1>4, <2>1
       DEF NetStart, Start, FlagTypes, Armed, PlacesInv, EpollPlaces, NetPlaces
  <2>2. ASSUME Offer  PROVE PlacesInv'
    BY <1>4, <2>2
       DEF Offer, FlagTypes, Armed, PlacesInv, EpollPlaces, NetPlaces
  <2>3. ASSUME Tick  PROVE PlacesInv'
    BY <1>4, <2>3
       DEF Tick, Idle, FlagTypes, Armed, PlacesInv, EpollPlaces, NetPlaces
  <2>4. ASSUME Establish  PROVE PlacesInv'
    BY <1>4, <2>4
       DEF Establish, Others, FlagTypes, Armed, PlacesInv, EpollPlaces, NetPlaces
  <2>5. ASSUME Refuse  PROVE PlacesInv'
    BY <1>4, <2>5
       DEF Refuse, Others, Fault, FlagTypes, Armed, PlacesInv, EpollPlaces, NetPlaces
  <2>6. ASSUME PeerReads  PROVE PlacesInv'
    BY <1>4, <2>6
       DEF PeerReads, Others, FlagTypes, Armed, PlacesInv, EpollPlaces, NetPlaces
  <2>7. ASSUME PeerReplies  PROVE PlacesInv'
    BY <1>4, <2>7
       DEF PeerReplies, Others, Fault, FlagTypes, Armed, PlacesInv, EpollPlaces,
           NetPlaces
  <2>8. ASSUME PeerCloses  PROVE PlacesInv'
    BY <1>4, <2>8
       DEF PeerCloses, Others, Fault, FlagTypes, Armed, PlacesInv, EpollPlaces,
           NetPlaces
  <2>9. ASSUME PeerAnswers  PROVE PlacesInv'
    BY <1>4, <2>9
       DEF PeerAnswers, Others, FlagTypes, Armed, PlacesInv, EpollPlaces, NetPlaces
  <2>10. ASSUME ConnectionResets  PROVE PlacesInv'
    BY <1>4, <2>10
       DEF ConnectionResets, Others, Fault, FlagTypes, Armed, PlacesInv, EpollPlaces,
           NetPlaces
  <2>11. ASSUME PeerSticks  PROVE PlacesInv'
    BY <1>4, <2>11
       DEF PeerSticks, Others, Fault, FlagTypes, Armed, PlacesInv, EpollPlaces,
           NetPlaces
  <2>12. ASSUME Stop  PROVE PlacesInv'
    BY <1>4, <2>12
       DEF Stop, FlagTypes, Armed, PlacesInv, EpollPlaces, NetPlaces
  <2>13. ASSUME NetStop  PROVE PlacesInv'
    BY <1>4, <2>13
       DEF NetStop, Stop, FlagTypes, Armed, PlacesInv, EpollPlaces, NetPlaces
  <2>14. ASSUME Join  PROVE PlacesInv'
    BY <1>4, <2>14
       DEF Join, FlagTypes, Armed, PlacesInv, EpollPlaces, NetPlaces
  <2> QED
    BY <1>4, <2>1, <2>2, <2>3, <2>4, <2>5, <2>6, <2>7, <2>8, <2>9,
       <2>10, <2>11, <2>12, <2>13, <2>14
       DEF Network
<1> QED
  BY <1>1, <1>2, <1>3, <1>4 DEF Next

LEMMA ArmedStep ==
  ASSUME FlagTypes, Armed, PlacesInv, Next
  PROVE  Armed'
<1> USE DEF queueVars, peerVars, threadVars, timerVars, histVars, socketVars, epollVars,
           Goto, Hangup, Failed, CountFailure
<1> USE UplinkAssumption, EpollAssumption
<1>1. ASSUME EpollStart  PROVE Armed'
  BY <1>1
     DEF EpollStart, Start, Fault, FlagTypes, Armed, PlacesInv, NetPlaces
<1>2. ASSUME EpollPart  PROVE Armed'
  <2>0. kind = "epoll"
    BY <1>2 DEF EpollPart
  <2>1. ASSUME Leave \/ EpollWaitFails  PROVE Armed'
    BY <2>0, <2>1
       DEF Leave, EpollWaitFails, EndThread, CloseSocket, Fault, FlagTypes, Armed,
           PlacesInv, NetPlaces
  <2>2. ASSUME TryConnect  PROVE Armed'
    BY <2>0, <2>2
       DEF TryConnect, Retrying, Attempt, FlagTypes, Armed, PlacesInv, NetPlaces
  <2>3. ASSUME ConnectFailsAtOnce  PROVE Armed'
    BY <2>0, <2>3
       DEF ConnectFailsAtOnce, TryConnectFails, Retrying, Fault, FlagTypes, Armed, PlacesInv,
           NetPlaces
  <2>4. ASSUME HoldOff \/ WakeUp \/ EpollWaitTimesOut  PROVE Armed'
    BY <2>0, <2>4
       DEF HoldOff, WakeUp, EpollWaitTimesOut, FlagTypes, Armed, PlacesInv, NetPlaces
  <2>5. ASSUME SampleAndArm  PROVE Armed'
    BY <2>0, <2>5
       DEF SampleAndArm, DrainQueueToBuf, FlagTypes, Armed, PlacesInv, NetPlaces
  <2>6. ASSUME EpollWait  PROVE Armed'
    BY <2>0, <2>6
       DEF EpollWait, Events, FlagTypes, Armed, PlacesInv, NetPlaces
  <2>7. ASSUME HandleError \/ HandleConnectFailed \/ FlushFails  PROVE Armed'
    BY <2>0, <2>7
       DEF HandleError, HandleConnectFailed, FlushFails, Connects, Flushing,
           LoseConnection, CloseSocket, BackOff, LoopAgain, FlagTypes, Armed, PlacesInv,
           NetPlaces
  <2>8. ASSUME HandleConnected  PROVE Armed'
    BY <2>0, <2>8
       DEF HandleConnected, Connects, FlagTypes, Armed, PlacesInv, NetPlaces
  <2>9. ASSUME Receive  PROVE Armed'
    BY <2>0, <2>9
       DEF Receive, Connects, CloseSocket, FlagTypes, Armed, PlacesInv, NetPlaces
  <2>10. ASSUME FlushHalf  PROVE Armed'
    BY <2>0, <2>10
       DEF FlushHalf, Flushing, SendHalf, FlagTypes, Armed, PlacesInv, NetPlaces
  <2>11. ASSUME NoFlush  PROVE Armed'
    BY <2>0, <2>11
       DEF NoFlush, LoopAgain, FlagTypes, Armed, PlacesInv, NetPlaces
  <2>12. ASSUME FlushBlocked  PROVE Armed'
    BY <2>0, <2>12
       DEF FlushBlocked, Flushing, LoopAgain, FlagTypes, Armed, PlacesInv, NetPlaces
  <2>13. ASSUME Flushed  PROVE Armed'
    BY <2>0, <2>13
       DEF Flushed, Flushing, LoopAgain, FlagTypes, Armed, PlacesInv, NetPlaces
  <2> QED
    BY <1>2, <2>1, <2>2, <2>3, <2>4, <2>5, <2>6, <2>7, <2>8, <2>9, <2>10, <2>11, <2>12,
       <2>13
       DEF EpollPart, EpollNext, EpollStep
<1>3. ASSUME NetPart  PROVE Armed'
  <2>0. kind = "net" /\ UNCHANGED epollVars
    BY <1>3 DEF NetPart
  <2>1. ASSUME NetLeave \/ NetStopsWaiting  PROVE Armed'
    BY <2>0, <2>1
       DEF NetLeave, NetStopsWaiting, FlagTypes, Armed, PlacesInv, NetPlaces
  <2>2. ASSUME NetConnect  PROVE Armed'
    BY <2>0, <2>2
       DEF NetConnect, Attempt, FlagTypes, Armed, PlacesInv, NetPlaces
  <2>3. ASSUME NetConnected  PROVE Armed'
    BY <2>0, <2>3
       DEF NetConnected, FlagTypes, Armed, PlacesInv, NetPlaces
  <2>4. ASSUME NetConnectFails \/ NetSendFails  PROVE Armed'
    BY <2>0, <2>4
       DEF NetConnectFails, NetSendFails, NetFails, FlagTypes, Armed, PlacesInv,
           NetPlaces
  <2>5. ASSUME NetSlice \/ NetDrain \/ NetRetry  PROVE Armed'
    BY <2>0, <2>5
       DEF NetSlice, NetDrain, NetRetry, FlagTypes, Armed, PlacesInv, NetPlaces
  <2>6. ASSUME NetTake  PROVE Armed'
    BY <2>0, <2>6
       DEF NetTake, FlagTypes, Armed, PlacesInv, NetPlaces
  <2>7. ASSUME NetSendHalf  PROVE Armed'
    BY <2>0, <2>7
       DEF NetSendHalf, SendHalf, FlagTypes, Armed, PlacesInv, NetPlaces
  <2>8. ASSUME NetSent \/ NetHangUp  PROVE Armed'
    BY <2>0, <2>8
       DEF NetSent, NetHangUp, FlagTypes, Armed, PlacesInv, NetPlaces
  <2> QED
    BY <1>3, <2>1, <2>2, <2>3, <2>4, <2>5, <2>6, <2>7, <2>8
       DEF NetPart, NetStep
<1>4. ASSUME UNCHANGED epollVars,
             \/ NetStart \/ Offer \/ Tick \/ Network
             \/ kind = "epoll" /\ Stop
             \/ kind = "net" /\ NetStop
             \/ Join
      PROVE  Armed'
  <2>1. ASSUME NetStart  PROVE Armed'
    BY <1>4, <2>1
       DEF NetStart, Start, FlagTypes, Armed, PlacesInv, NetPlaces
  <2>2. ASSUME Offer  PROVE Armed'
    BY <1>4, <2>2
       DEF Offer, FlagTypes, Armed, PlacesInv, NetPlaces
  <2>3. ASSUME Tick  PROVE Armed'
    BY <1>4, <2>3
       DEF Tick, Idle, FlagTypes, Armed, PlacesInv, NetPlaces
  <2>4. ASSUME Establish  PROVE Armed'
    BY <1>4, <2>4
       DEF Establish, Others, FlagTypes, Armed, PlacesInv, NetPlaces
  <2>5. ASSUME Refuse  PROVE Armed'
    BY <1>4, <2>5
       DEF Refuse, Others, Fault, FlagTypes, Armed, PlacesInv, NetPlaces
  <2>6. ASSUME PeerReads  PROVE Armed'
    BY <1>4, <2>6
       DEF PeerReads, Others, FlagTypes, Armed, PlacesInv, NetPlaces
  <2>7. ASSUME PeerReplies  PROVE Armed'
    BY <1>4, <2>7
       DEF PeerReplies, Others, Fault, FlagTypes, Armed, PlacesInv, NetPlaces
  <2>8. ASSUME PeerCloses  PROVE Armed'
    BY <1>4, <2>8
       DEF PeerCloses, Others, Fault, FlagTypes, Armed, PlacesInv, NetPlaces
  <2>9. ASSUME PeerAnswers  PROVE Armed'
    BY <1>4, <2>9
       DEF PeerAnswers, Others, FlagTypes, Armed, PlacesInv, NetPlaces
  <2>10. ASSUME ConnectionResets  PROVE Armed'
    BY <1>4, <2>10
       DEF ConnectionResets, Others, Fault, FlagTypes, Armed, PlacesInv, NetPlaces
  <2>11. ASSUME PeerSticks  PROVE Armed'
    BY <1>4, <2>11
       DEF PeerSticks, Others, Fault, FlagTypes, Armed, PlacesInv, NetPlaces
  <2>12. ASSUME Stop  PROVE Armed'
    BY <1>4, <2>12
       DEF Stop, FlagTypes, Armed, PlacesInv, NetPlaces
  <2>13. ASSUME NetStop  PROVE Armed'
    BY <1>4, <2>13
       DEF NetStop, Stop, FlagTypes, Armed, PlacesInv, NetPlaces
  <2>14. ASSUME Join  PROVE Armed'
    BY <1>4, <2>14
       DEF Join, FlagTypes, Armed, PlacesInv, NetPlaces
  <2> QED
    BY <1>4, <2>1, <2>2, <2>3, <2>4, <2>5, <2>6, <2>7, <2>8, <2>9,
       <2>10, <2>11, <2>12, <2>13, <2>14
       DEF Network
<1> QED
  BY <1>1, <1>2, <1>3, <1>4 DEF Next

----------------------------------------------------------------------------
(* The back-offs, as the timers have them. *)

(* One more failure: the pause that begins is as long as what is due.      *)
LEMMA PauseIsDue ==
  ASSUME NumberTypes, backoff >= Due(fails + 1),
         fails' = Least(fails + 1, MostFails), waited' = 0, retryIn' = backoff
  PROVE  /\ fails' > 0 /\ backoff >= Due(fails')
         /\ waited' + retryIn' >= Due(fails')
         /\ Double(backoff) >= Due(fails' + 1)
<1>1. PICK g : g = Least(fails + 1, MostFails)
  OBVIOUS
<1>2. PICK d : d = Due(fails + 1)
  OBVIOUS
<1>3. fails \in 0 .. MostFails /\ MostFails \in Nat /\ backoff \in BaseBackoff .. MaxBackoff
  BY MostFailsFacts DEF NumberTypes
<1>4. /\ g \in 1 .. MostFails /\ Due(g) = d
      /\ d \in BaseBackoff .. MaxBackoff
      /\ Due(g + 1) = Double(d)
  BY <1>1, <1>2, <1>3, NextFailure
<1>5. /\ BaseBackoff \in Nat /\ d \in Nat /\ d <= backoff
  BY <1>2, <1>3, <1>4, UplinkAssumption
<1>6. Double(d) <= Double(backoff)
  BY <1>3, <1>5, DoubleGrows
<1>7. Double(d) \in Int /\ Double(backoff) \in Int
  BY <1>3, <1>5, UplinkAssumption DEF Double, Least
<1>8. fails' = g
  BY <1>1
<1>9. fails' > 0 /\ backoff >= Due(fails') /\ waited' + retryIn' >= Due(fails')
  BY <1>3, <1>4, <1>5, <1>8
<1>10. Double(backoff) >= Due(fails' + 1)
  BY <1>4, <1>6, <1>7, <1>8
<1> QED
  BY <1>9, <1>10

LEMMA RetryStep ==
  ASSUME NumberTypes, FlagTypes, PlacesInv, RetryInv, Next
  PROVE  RetryInv'
<1> USE DEF queueVars, peerVars, threadVars, timerVars, histVars, socketVars, epollVars,
           Goto, Hangup
<1> USE UplinkAssumption, EpollAssumption
<1>0. Due(0 + 1) = BaseBackoff
  BY DueFacts
<1>1. ASSUME EpollStart  PROVE RetryInv'
  BY <1>1, <1>0
     DEF EpollStart, Start, Fault, FlagTypes, NumberTypes, PlacesInv, RetryInv,
         EpollPlaces, NetPlaces
<1>2. ASSUME EpollPart  PROVE RetryInv'
  <2>0. kind = "epoll"
    BY <1>2 DEF EpollPart
  <2>1. ASSUME Leave \/ EpollWaitFails  PROVE RetryInv'
    BY <2>0, <2>1, <1>0
       DEF Leave, EpollWaitFails, EndThread, CloseSocket, Fault, FlagTypes, NumberTypes,
           PlacesInv, RetryInv, EpollPlaces, NetPlaces
  <2>2. ASSUME TryConnect  PROVE RetryInv'
    BY <2>0, <2>2, <1>0
       DEF TryConnect, Retrying, Attempt, FlagTypes, NumberTypes, PlacesInv, RetryInv,
           EpollPlaces, NetPlaces
  <2>3. ASSUME ConnectFailsAtOnce  PROVE RetryInv'
    <3>1. /\ fails' = Least(fails + 1, MostFails) /\ waited' = 0
          /\ retryIn' = backoff /\ backoff' = Double(backoff)
          /\ link = "none" /\ UNCHANGED <<link, kind>> /\ pc = "top" /\ pc' = "sleep"
      BY <2>3 DEF ConnectFailsAtOnce, CountFailure, Retrying
    <3>2. backoff >= Due(fails + 1)
      BY <3>1 DEF RetryInv
    <3>3. /\ fails' > 0 /\ waited' + retryIn' >= Due(fails')
          /\ backoff' >= Due(fails' + 1)
      BY <3>1, <3>2, PauseIsDue
    <3> QED
      BY <2>0, <3>1, <3>3 DEF RetryInv
  <2>4. ASSUME HoldOff \/ WakeUp \/ EpollWaitTimesOut  PROVE RetryInv'
    BY <2>0, <2>4, <1>0
       DEF HoldOff, WakeUp, EpollWaitTimesOut, FlagTypes, NumberTypes, PlacesInv,
           RetryInv, EpollPlaces, NetPlaces
  <2>5. ASSUME SampleAndArm  PROVE RetryInv'
    BY <2>0, <2>5, <1>0
       DEF SampleAndArm, DrainQueueToBuf, FlagTypes, NumberTypes, PlacesInv, RetryInv,
           EpollPlaces, NetPlaces
  <2>6. ASSUME EpollWait  PROVE RetryInv'
    BY <2>0, <2>6, <1>0
       DEF EpollWait, Events, FlagTypes, NumberTypes, PlacesInv, RetryInv, EpollPlaces,
           NetPlaces
  <2>7. ASSUME HandleError \/ HandleConnectFailed \/ FlushFails  PROVE RetryInv'
    <3>1. /\ fails' = Least(fails + 1, MostFails) /\ waited' = 0
          /\ retryIn' = backoff /\ backoff' = Double(backoff)
          /\ link' = "none" /\ kind' = kind /\ pc' = "top"
      BY <2>7 DEF HandleError, HandleConnectFailed, FlushFails, LoseConnection, CloseSocket,
                  BackOff, LoopAgain, Failed, CountFailure
    <3>2. backoff >= Due(fails + 1)
      BY <2>0, <2>7 DEF HandleError, HandleConnectFailed, FlushFails, Flushing, RetryInv
    <3>3. /\ fails' > 0 /\ waited' + retryIn' >= Due(fails')
          /\ backoff' >= Due(fails' + 1)
      BY <3>1, <3>2, PauseIsDue
    <3> QED
      BY <2>0, <3>1, <3>3 DEF RetryInv
  <2>8. ASSUME HandleConnected  PROVE RetryInv'
    BY <2>0, <2>8, <1>0
       DEF HandleConnected, Connects, FlagTypes, NumberTypes, PlacesInv, RetryInv,
           EpollPlaces, NetPlaces
  <2>9. ASSUME Receive  PROVE RetryInv'
    BY <2>0, <2>9, <1>0
       DEF Receive, Connects, CloseSocket, FlagTypes, NumberTypes, PlacesInv, RetryInv,
           EpollPlaces, NetPlaces
  <2>10. ASSUME FlushHalf  PROVE RetryInv'
    BY <2>0, <2>10, <1>0
       DEF FlushHalf, Flushing, SendHalf, FlagTypes, NumberTypes, PlacesInv, RetryInv,
           EpollPlaces, NetPlaces
  <2>11. ASSUME NoFlush  PROVE RetryInv'
    BY <2>0, <2>11, <1>0
       DEF NoFlush, LoopAgain, FlagTypes, NumberTypes, PlacesInv, RetryInv, EpollPlaces,
           NetPlaces
  <2>12. ASSUME FlushBlocked  PROVE RetryInv'
    BY <2>0, <2>12, <1>0
       DEF FlushBlocked, Flushing, LoopAgain, FlagTypes, NumberTypes, PlacesInv,
           RetryInv, EpollPlaces, NetPlaces
  <2>13. ASSUME Flushed  PROVE RetryInv'
    BY <2>0, <2>13, <1>0
       DEF Flushed, Flushing, LoopAgain, FlagTypes, NumberTypes, PlacesInv, RetryInv,
           EpollPlaces, NetPlaces
  <2> QED
    BY <1>2, <2>1, <2>2, <2>3, <2>4, <2>5, <2>6, <2>7, <2>8, <2>9, <2>10, <2>11, <2>12,
       <2>13
       DEF EpollPart, EpollNext, EpollStep
<1>3. ASSUME NetPart  PROVE RetryInv'
  <2>0. kind = "net" /\ UNCHANGED epollVars
    BY <1>3 DEF NetPart
  <2>1. ASSUME NetLeave \/ NetStopsWaiting  PROVE RetryInv'
    BY <2>0, <2>1, <1>0
       DEF NetLeave, NetStopsWaiting, FlagTypes, NumberTypes, PlacesInv, RetryInv,
           EpollPlaces, NetPlaces
  <2>2. ASSUME NetConnect  PROVE RetryInv'
    BY <2>0, <2>2, <1>0
       DEF NetConnect, Attempt, FlagTypes, NumberTypes, PlacesInv, RetryInv,
           EpollPlaces, NetPlaces
  <2>3. ASSUME NetConnected  PROVE RetryInv'
    BY <2>0, <2>3, <1>0
       DEF NetConnected, FlagTypes, NumberTypes, PlacesInv, RetryInv, EpollPlaces,
           NetPlaces
  <2>4. ASSUME NetConnectFails \/ NetSendFails  PROVE RetryInv'
    <3>1. /\ fails' = Least(fails + 1, MostFails) /\ waited' = 0
          /\ retryIn' = backoff /\ backoff' = backoff
          /\ link' = "none" /\ kind' = kind /\ pc \in {"connect", "send"} /\ pc' = "backoff"
      BY <2>4 DEF NetConnectFails, NetSendFails, NetFails, Failed, CountFailure
    <3>2. backoff >= Due(fails + 1)
      BY <3>1 DEF RetryInv
    <3>3. /\ fails' > 0 /\ backoff' >= Due(fails') /\ waited' + retryIn' >= Due(fails')
      BY <3>1, <3>2, PauseIsDue
    <3> QED
      BY <2>0, <3>1, <3>3 DEF RetryInv
  <2>5. ASSUME NetSlice \/ NetDrain  PROVE RetryInv'
    BY <2>0, <2>5, <1>0
       DEF NetSlice, NetDrain, FlagTypes, NumberTypes, PlacesInv, RetryInv, EpollPlaces,
           NetPlaces
  <2>6. ASSUME NetRetry  PROVE RetryInv'
    <3>1. /\ fails > 0 /\ backoff >= Due(fails) /\ backoff' = Double(backoff)
          /\ retryIn = 0 /\ pc' = "top"
          /\ UNCHANGED <<fails, waited, retryIn, link, kind, running, outcome>>
          /\ pc = "backoff"
      BY <2>6 DEF NetRetry, RetryInv
    <3>2. fails \in Nat \ {0}
      BY <3>1, MostFailsFacts DEF NumberTypes
    <3>3. PICK d : d = Due(fails)
      OBVIOUS
    <3>4. d \in BaseBackoff .. MaxBackoff /\ Due(fails + 1) = Double(d)
      BY <3>2, <3>3, DueFacts
    <3>5. backoff \in BaseBackoff .. MaxBackoff /\ d \in Nat /\ d <= backoff
      BY <3>1, <3>3, <3>4 DEF NumberTypes
    <3>6. Double(d) <= Double(backoff) /\ Double(d) \in Int /\ Double(backoff) \in Int
      BY <3>4, <3>5, DoubleGrows
    <3>7. backoff' >= Due(fails' + 1)
      BY <3>1, <3>4, <3>6
    <3> QED
      BY <2>0, <3>1, <3>7 DEF RetryInv
  <2>7. ASSUME NetTake  PROVE RetryInv'
    BY <2>0, <2>7, <1>0
       DEF NetTake, FlagTypes, NumberTypes, PlacesInv, RetryInv, EpollPlaces, NetPlaces
  <2>8. ASSUME NetSendHalf  PROVE RetryInv'
    BY <2>0, <2>8, <1>0
       DEF NetSendHalf, SendHalf, FlagTypes, NumberTypes, PlacesInv, RetryInv,
           EpollPlaces, NetPlaces
  <2>9. ASSUME NetSent \/ NetHangUp  PROVE RetryInv'
    BY <2>0, <2>9, <1>0
       DEF NetSent, NetHangUp, FlagTypes, NumberTypes, PlacesInv, RetryInv, EpollPlaces,
           NetPlaces
  <2> QED
    BY <1>3, <2>1, <2>2, <2>3, <2>4, <2>5, <2>6, <2>7, <2>8, <2>9
       DEF NetPart, NetStep
<1>4. ASSUME UNCHANGED epollVars,
             \/ NetStart \/ Offer \/ Tick \/ Network
             \/ kind = "epoll" /\ Stop
             \/ kind = "net" /\ NetStop
             \/ Join
      PROVE  RetryInv'
  <2>1. ASSUME NetStart  PROVE RetryInv'
    BY <1>4, <2>1, <1>0
       DEF NetStart, Start, FlagTypes, NumberTypes, PlacesInv, RetryInv, EpollPlaces,
           NetPlaces
  <2>2. ASSUME Offer  PROVE RetryInv'
    BY <1>4, <2>2, <1>0
       DEF Offer, FlagTypes, NumberTypes, PlacesInv, RetryInv, EpollPlaces, NetPlaces
  <2>3. ASSUME Tick  PROVE RetryInv'
    <3>1. /\ UNCHANGED <<link, kind, pc, backoff, fails, connecting, running, outcome>>
          /\ retryIn' = Less(retryIn)
          /\ waited' = IF link = "none" THEN Least(waited + 1, MaxBackoff) ELSE 0
      BY <1>4, <2>3 DEF Tick
    <3>2. fails \in Nat /\ waited \in 0 .. MaxBackoff /\ retryIn \in 0 .. MaxBackoff
      BY MostFailsFacts DEF NumberTypes
    <3>3. ASSUME link = "none", fails > 0, pc # "ended"
          PROVE  waited' + retryIn' >= Due(fails)
      <4>1. PICK d : d = Due(fails)
        OBVIOUS
      <4>2. d \in BaseBackoff .. MaxBackoff
        BY <3>2, <3>3, <4>1, DueFacts
      <4>3. waited + retryIn >= d
        BY <3>3, <4>1 DEF RetryInv
      <4>4. waited' + retryIn' >= d
        BY <3>1, <3>2, <3>3, <4>2, <4>3 DEF Least, Less
      <4> QED
        BY <4>1, <4>4
    <3>4. retryIn = 0 => retryIn' = 0
      BY <3>1 DEF Less
    <3> QED
      BY <3>1, <3>3, <3>4 DEF RetryInv
  <2>4. ASSUME Establish  PROVE RetryInv'
    BY <1>4, <2>4, <1>0
       DEF Establish, Others, FlagTypes, NumberTypes, PlacesInv, RetryInv, EpollPlaces,
           NetPlaces
  <2>5. ASSUME Refuse  PROVE RetryInv'
    BY <1>4, <2>5, <1>0
       DEF Refuse, Others, Fault, FlagTypes, NumberTypes, PlacesInv, RetryInv,
           EpollPlaces, NetPlaces
  <2>6. ASSUME PeerReads  PROVE RetryInv'
    BY <1>4, <2>6, <1>0
       DEF PeerReads, Others, FlagTypes, NumberTypes, PlacesInv, RetryInv, EpollPlaces,
           NetPlaces
  <2>7. ASSUME PeerReplies  PROVE RetryInv'
    BY <1>4, <2>7, <1>0
       DEF PeerReplies, Others, Fault, FlagTypes, NumberTypes, PlacesInv, RetryInv,
           EpollPlaces, NetPlaces
  <2>8. ASSUME PeerCloses  PROVE RetryInv'
    BY <1>4, <2>8, <1>0
       DEF PeerCloses, Others, Fault, FlagTypes, NumberTypes, PlacesInv, RetryInv,
           EpollPlaces, NetPlaces
  <2>9. ASSUME PeerAnswers  PROVE RetryInv'
    BY <1>4, <2>9, <1>0
       DEF PeerAnswers, Others, FlagTypes, NumberTypes, PlacesInv, RetryInv,
           EpollPlaces, NetPlaces
  <2>10. ASSUME ConnectionResets  PROVE RetryInv'
    BY <1>4, <2>10, <1>0
       DEF ConnectionResets, Others, Fault, FlagTypes, NumberTypes, PlacesInv, RetryInv,
           EpollPlaces, NetPlaces
  <2>11. ASSUME PeerSticks  PROVE RetryInv'
    BY <1>4, <2>11, <1>0
       DEF PeerSticks, Others, Fault, FlagTypes, NumberTypes, PlacesInv, RetryInv,
           EpollPlaces, NetPlaces
  <2>12. ASSUME Stop  PROVE RetryInv'
    BY <1>4, <2>12, <1>0
       DEF Stop, FlagTypes, NumberTypes, PlacesInv, RetryInv, EpollPlaces, NetPlaces
  <2>13. ASSUME NetStop  PROVE RetryInv'
    BY <1>4, <2>13, <1>0
       DEF NetStop, Stop, FlagTypes, NumberTypes, PlacesInv, RetryInv, EpollPlaces,
           NetPlaces
  <2>14. ASSUME Join  PROVE RetryInv'
    BY <1>4, <2>14, <1>0
       DEF Join, FlagTypes, NumberTypes, PlacesInv, RetryInv, EpollPlaces, NetPlaces
  <2> QED
    BY <1>4, <2>1, <2>2, <2>3, <2>4, <2>5, <2>6, <2>7, <2>8, <2>9,
       <2>10, <2>11, <2>12, <2>13, <2>14
       DEF Network
<1> QED
  BY <1>1, <1>2, <1>3, <1>4 DEF Next

(* Only an attempt to connect gives the reporter a socket.                 *)
LEMMA SpacedStep ==
  ASSUME NumberTypes, FlagTypes, PlacesInv, RetryInv, Next, Attempts
  PROVE  IF fails > 0 THEN waited >= Due(fails) ELSE outcome \in {"never", "closed"}
<1> USE DEF queueVars, peerVars, threadVars, timerVars, histVars, Goto, Hangup
<1>0. link = "none"
  BY DEF Attempts
<1> USE <1>0
<1>1. running /\ ((retryIn = 0 /\ pc # "ended") \/ (kind = "net" /\ pc = "top"))
  <2>1. CASE ConnectFailsAtOnce
    BY <2>1 DEF ConnectFailsAtOnce, Retrying
  <2>2. CASE ~ConnectFailsAtOnce
    <3>0. link' # "none"
      BY <2>2 DEF Attempts
    <3> USE <3>0
    <3>1. ~EpollStart
      BY DEF EpollStart, Start
    <3>2. ASSUME EpollPart  PROVE running /\ retryIn = 0 /\ pc # "ended"
      <4>1. CASE TryConnect
        BY <4>1 DEF TryConnect, Retrying
      <4>2. ~(Leave \/ EpollWaitFails)
        BY DEF Leave, EndThread, CloseSocket, EpollWaitFails
      <4>3. ~(HoldOff \/ WakeUp \/ SampleAndArm \/ EpollWait \/ EpollWaitTimesOut)
        BY DEF HoldOff, WakeUp, SampleAndArm, EpollWait, EpollWaitTimesOut
      <4>4. ~(HandleError \/ HandleConnectFailed \/ FlushFails)
        BY DEF HandleError, HandleConnectFailed, FlushFails, LoseConnection, CloseSocket
      <4>5. ~(HandleConnected \/ Receive)
        BY DEF HandleConnected, Receive, CloseSocket
      <4>6. ~(NoFlush \/ FlushHalf \/ FlushBlocked \/ Flushed)
        BY DEF NoFlush, FlushHalf, SendHalf, FlushBlocked, Flushed
      <4> QED
        BY <2>2, <3>2, <4>1, <4>2, <4>3, <4>4, <4>5, <4>6 DEF EpollPart, EpollNext, EpollStep
    <3>3. ASSUME NetPart  PROVE running /\ kind = "net" /\ pc = "top"
      <4>1. CASE NetConnect
        BY <3>3, <4>1 DEF NetPart, NetConnect
      <4>2. ~(NetLeave \/ NetConnected \/ NetConnectFails \/ NetSlice \/ NetDrain)
        BY DEF NetLeave, NetConnected, NetConnectFails, NetFails, NetSlice, NetDrain
      <4>3. ~(NetStopsWaiting \/ NetRetry \/ NetTake \/ NetSendHalf)
        BY DEF NetStopsWaiting, NetRetry, NetTake, NetSendHalf, SendHalf
      <4>4. ~(NetSent \/ NetSendFails \/ NetHangUp)
        BY DEF NetSent, NetSendFails, NetFails, NetHangUp
      <4> QED
        BY <3>3, <4>1, <4>2, <4>3, <4>4 DEF NetPart, NetStep
    <3>4. ~(NetStart \/ Offer \/ Tick \/ Stop \/ NetStop \/ Join)
      BY DEF NetStart, Start, Offer, Tick, Stop, NetStop, Join
    <3>5. ~Network
      BY DEF Network, Establish, Refuse, PeerReads, PeerReplies, PeerCloses, PeerAnswers,
             ConnectionResets, PeerSticks
    <3> QED
      BY <3>1, <3>2, <3>3, <3>4, <3>5 DEF Next
  <2> QED
    BY <2>1, <2>2
<1>2. fails \in Nat /\ waited \in Nat /\ retryIn \in Nat
  BY MostFailsFacts, UplinkAssumption DEF NumberTypes
<1>3. fails > 0 => retryIn = 0 /\ pc # "ended"
  BY <1>1 DEF RetryInv
<1>4. fails > 0 => waited + retryIn >= Due(fails)
  BY <1>3 DEF RetryInv
<1>5. fails > 0 => waited >= Due(fails)
  <2> SUFFICES ASSUME fails > 0  PROVE waited >= Due(fails)
    OBVIOUS
  <2>1. waited + retryIn = waited
    BY <1>2, <1>3
  <2> QED
    BY <1>4, <2>1
<1>6. fails = 0 => outcome \in {"never", "closed"}
  BY <1>1 DEF RetryInv
<1> QED
  BY <1>2, <1>5, <1>6

----------------------------------------------------------------------------
(* The pace of the reporter and of the queue. *)

LEMMA PaceStep ==
  ASSUME WireTypes, NumberTypes, FlagTypes, PlacesInv, PaceInv, Next
  PROVE  PaceInv'
<1> USE DEF queueVars, peerVars, threadVars, timerVars, histVars, socketVars, epollVars,
           Goto, Hangup, Failed, CountFailure
<1> USE UplinkAssumption, EpollAssumption
<1>0. Len(queue) \in Nat /\ rate \in Nat /\ Rate \in Nat /\ Len(<<>>) = 0
  BY DEF WireTypes, NumberTypes
<1>1. ASSUME EpollStart  PROVE PaceInv'
  BY <1>1, <1>0
     DEF EpollStart, Start, Fault, FlagTypes, NumberTypes, PaceInv, NetPlaces,
         EpollPlaces, PlacesInv
<1>2. ASSUME EpollPart  PROVE PaceInv'
  <2>0. kind = "epoll"
    BY <1>2 DEF EpollPart
  <2>1. ASSUME Leave \/ EpollWaitFails  PROVE PaceInv'
    BY <2>0, <2>1, <1>0
       DEF Leave, EpollWaitFails, EndThread, CloseSocket, Fault, FlagTypes, NumberTypes,
           PaceInv, NetPlaces, EpollPlaces, PlacesInv
  <2>2. ASSUME TryConnect  PROVE PaceInv'
    BY <2>0, <2>2, <1>0
       DEF TryConnect, Retrying, Attempt, FlagTypes, NumberTypes, PaceInv, NetPlaces,
           EpollPlaces, PlacesInv
  <2>3. ASSUME ConnectFailsAtOnce  PROVE PaceInv'
    <3>1. queue' = <<>> /\ rate' = rate
      BY <2>3 DEF ConnectFailsAtOnce
    <3> QED
      BY <1>0, <3>1 DEF PaceInv, NumberTypes
  <2>4. ASSUME HoldOff \/ WakeUp \/ EpollWaitTimesOut  PROVE PaceInv'
    BY <2>0, <2>4, <1>0
       DEF HoldOff, WakeUp, EpollWaitTimesOut, FlagTypes, NumberTypes, PaceInv,
           NetPlaces, EpollPlaces, PlacesInv
  <2>5. ASSUME SampleAndArm  PROVE PaceInv'
    <3>1. CASE sampleIn = 0
      <4>1. DrainQueueToBuf /\ sampleIn' = 1 /\ UNCHANGED <<rate, kind>> /\ pc # "ended"
        BY <2>5, <3>1 DEF SampleAndArm
      <4>2. SUFFICES ASSUME ~behind'  PROVE Len(queue') <= rate
        BY <2>0, <4>1 DEF PaceInv
      <4>3. CASE queue' = <<>>
        BY <1>0, <4>3 DEF NumberTypes
      <4>4. CASE queue' # <<>>
        <5>1. ~behind /\ ~(Taken > Kept)
          BY <4>1, <4>2, <4>4 DEF DrainQueueToBuf
        <5>2. PICK a : a = Taken
          OBVIOUS
        <5>3. a \in 0 .. Len(queue) /\ a = Avail
          BY <1>0, <5>1, <5>2, Batches
        <5>4. Len(queue') = Len(queue) - a
          <6>1. queue' = SubSeq(queue, a + 1, Len(queue))
            BY <4>1, <5>2 DEF DrainQueueToBuf
          <6> QED
            BY <1>0, <5>3, <6>1 DEF WireTypes
        <5>5. a = Batch
          BY <1>0, <4>4, <5>3, <5>4, EpollAssumption DEF Avail, Least, WireTypes
        <5>6. Len(queue) <= Rate + rate
          BY <1>0, <2>0, <3>1, <4>1, <5>1 DEF PaceInv
        <5> QED
          BY <1>0, <5>4, <5>5, <5>6, PaceAssumption, EpollAssumption DEF NumberTypes
      <4> QED
        BY <4>3, <4>4
    <3>2. CASE sampleIn # 0
      BY <2>5, <2>0, <3>2 DEF SampleAndArm, PaceInv
    <3> QED
      BY <3>1, <3>2
  <2>6. ASSUME EpollWait  PROVE PaceInv'
    BY <2>0, <2>6, <1>0
       DEF EpollWait, Events, FlagTypes, NumberTypes, PaceInv, NetPlaces, EpollPlaces,
           PlacesInv
  <2>7. ASSUME HandleError \/ HandleConnectFailed \/ FlushFails  PROVE PaceInv'
    BY <2>0, <2>7, <1>0
       DEF HandleError, HandleConnectFailed, FlushFails, Connects, Flushing,
           LoseConnection, CloseSocket, BackOff, LoopAgain, FlagTypes, NumberTypes,
           PaceInv, NetPlaces, EpollPlaces, PlacesInv
  <2>8. ASSUME HandleConnected  PROVE PaceInv'
    BY <2>0, <2>8, <1>0
       DEF HandleConnected, Connects, FlagTypes, NumberTypes, PaceInv, NetPlaces,
           EpollPlaces, PlacesInv
  <2>9. ASSUME Receive  PROVE PaceInv'
    BY <2>0, <2>9, <1>0
       DEF Receive, Connects, CloseSocket, FlagTypes, NumberTypes, PaceInv, NetPlaces,
           EpollPlaces, PlacesInv
  <2>10. ASSUME FlushHalf  PROVE PaceInv'
    BY <2>0, <2>10, <1>0
       DEF FlushHalf, Flushing, SendHalf, FlagTypes, NumberTypes, PaceInv, NetPlaces,
           EpollPlaces, PlacesInv
  <2>11. ASSUME NoFlush  PROVE PaceInv'
    BY <2>0, <2>11, <1>0
       DEF NoFlush, LoopAgain, FlagTypes, NumberTypes, PaceInv, NetPlaces, EpollPlaces,
           PlacesInv
  <2>12. ASSUME FlushBlocked  PROVE PaceInv'
    BY <2>0, <2>12, <1>0
       DEF FlushBlocked, Flushing, LoopAgain, FlagTypes, NumberTypes, PaceInv,
           NetPlaces, EpollPlaces, PlacesInv
  <2>13. ASSUME Flushed  PROVE PaceInv'
    BY <2>0, <2>13, <1>0
       DEF Flushed, Flushing, LoopAgain, FlagTypes, NumberTypes, PaceInv, NetPlaces,
           EpollPlaces, PlacesInv
  <2> QED
    BY <1>2, <2>1, <2>2, <2>3, <2>4, <2>5, <2>6, <2>7, <2>8, <2>9, <2>10, <2>11, <2>12,
       <2>13
       DEF EpollPart, EpollNext, EpollStep
<1>3. ASSUME NetPart  PROVE PaceInv'
  <2>0. kind = "net" /\ UNCHANGED epollVars
    BY <1>3 DEF NetPart
  <2>1. ASSUME NetLeave \/ NetStopsWaiting  PROVE PaceInv'
    BY <2>0, <2>1, <1>0
       DEF NetLeave, NetStopsWaiting, FlagTypes, NumberTypes, PaceInv, NetPlaces,
           EpollPlaces, PlacesInv
  <2>2. ASSUME NetConnect  PROVE PaceInv'
    BY <2>0, <2>2, <1>0
       DEF NetConnect, Attempt, FlagTypes, NumberTypes, PaceInv, NetPlaces, EpollPlaces,
           PlacesInv
  <2>3. ASSUME NetConnected  PROVE PaceInv'
    BY <2>0, <2>3, <1>0
       DEF NetConnected, FlagTypes, NumberTypes, PaceInv, NetPlaces, EpollPlaces,
           PlacesInv
  <2>4. ASSUME NetConnectFails \/ NetSendFails  PROVE PaceInv'
    BY <2>0, <2>4, <1>0
       DEF NetConnectFails, NetSendFails, NetFails, FlagTypes, NumberTypes, PaceInv,
           NetPlaces, EpollPlaces, PlacesInv
  <2>5. ASSUME NetSlice  PROVE PaceInv'
    BY <2>0, <2>5, <1>0
       DEF NetSlice, FlagTypes, NumberTypes, PaceInv, NetPlaces, EpollPlaces, PlacesInv
  <2>6. ASSUME NetRetry  PROVE PaceInv'
    BY <2>0, <2>6, <1>0
       DEF NetRetry, FlagTypes, NumberTypes, PaceInv, NetPlaces, EpollPlaces, PlacesInv
  <2>7. ASSUME NetDrain  PROVE PaceInv'
    <3>1. queue' = <<>> /\ rate' = rate
      BY <2>7 DEF NetDrain
    <3> QED
      BY <1>0, <3>1 DEF PaceInv, NumberTypes
  <2>8. ASSUME NetTake  PROVE PaceInv'
    <3>1. /\ queue # <<>> /\ queue' = Tail(queue) /\ behind' = (behind /\ queue' # <<>>)
          /\ UNCHANGED <<rate, kind>> /\ pc = "take" /\ pc' # "slice"
      BY <2>8 DEF NetTake
    <3>2. Len(queue') = Len(queue) - 1
      <4>1. queue \in Seq(1 .. offered)
        BY DEF WireTypes
      <4>2. Len(Tail(queue)) = Len(queue) - 1
        BY <3>1, <4>1, HeadTailProperties
      <4> QED
        BY <3>1, <4>2
    <3>3. CASE queue' = <<>>
      <4>1. Len(queue') = 0
        BY <1>0, <3>3
      <4>2. rate \in Nat /\ Rate \in Nat
        BY <1>0
      <4>3. 0 <= rate /\ 0 <= Rate + rate
        BY <4>2
      <4> QED
        BY <3>1, <4>1, <4>3 DEF PaceInv
    <3>4. CASE behind /\ queue' # <<>>
      BY <3>1, <3>4 DEF PaceInv
    <3>5. CASE ~behind
      <4>1. Len(queue) <= rate
        BY <2>0, <3>1, <3>5 DEF PaceInv
      <4>2. Len(queue') <= rate'
        BY <1>0, <3>1, <3>2, <4>1
      <4> QED
        BY <2>0, <3>1, <4>2 DEF PaceInv
    <3> QED
      BY <3>3, <3>4, <3>5
  <2>9. ASSUME NetSendHalf  PROVE PaceInv'
    BY <2>0, <2>9, <1>0
       DEF NetSendHalf, SendHalf, FlagTypes, NumberTypes, PaceInv, NetPlaces,
           EpollPlaces, PlacesInv
  <2>10. ASSUME NetSent \/ NetHangUp  PROVE PaceInv'
    BY <2>0, <2>10, <1>0
       DEF NetSent, NetHangUp, FlagTypes, NumberTypes, PaceInv, NetPlaces, EpollPlaces,
           PlacesInv
  <2> QED
    BY <1>3, <2>1, <2>2, <2>3, <2>4, <2>5, <2>6, <2>7, <2>8, <2>9, <2>10
       DEF NetPart, NetStep
<1>4. ASSUME UNCHANGED epollVars,
             \/ NetStart \/ Offer \/ Tick \/ Network
             \/ kind = "epoll" /\ Stop
             \/ kind = "net" /\ NetStop
             \/ Join
      PROVE  PaceInv'
  <2>1. ASSUME NetStart  PROVE PaceInv'
    BY <1>4, <2>1, <1>0
       DEF NetStart, Start, FlagTypes, NumberTypes, PaceInv, NetPlaces, EpollPlaces,
           PlacesInv
  <2>2. ASSUME Offer  PROVE PaceInv'
    <3>1. /\ rate' = rate + 1 /\ UNCHANGED <<kind, pc, sampleIn, sleepFor, behind>>
          /\ queue' = Append(queue, offered') \/ queue' = queue
      BY <2>2 DEF Offer
    <3>2. Len(queue') <= Len(queue) + 1 /\ Len(queue') \in Nat
      BY <1>0, <3>1 DEF WireTypes
    <3> QED
      BY <1>0, <3>1, <3>2 DEF PaceInv, NumberTypes
  <2>3. ASSUME Tick  PROVE PaceInv'
    <3>1. /\ rate' = 0 /\ UNCHANGED <<queue, kind, pc>>
          /\ sampleIn' = Less(sampleIn) /\ sleepFor' = Less(sleepFor)
          /\ behind' = (behind \/ pc \in {"sleep", "connect", "send"})
          /\ Idle
      BY <2>3 DEF Tick
    <3>2. SUFFICES ASSUME ~behind', pc # "ended"  PROVE PaceInv'
      BY <3>1 DEF PaceInv
    <3>3. ~behind /\ pc \notin {"sleep", "connect", "send"}
      BY <3>1, <3>2
    <3>4. \/ kind = "net" /\ pc = "slice" /\ sleepFor > 0
          \/ kind = "epoll" /\ pc = "wait" /\ sampleIn > 0
          \/ kind = "net" /\ pc = "take" /\ queue = <<>>
      BY <3>1, <3>3 DEF Idle, PlacesInv, FlagTypes, EpollPlaces, NetPlaces
    <3>5. CASE kind = "net" /\ pc = "slice" /\ sleepFor > 0
      <4>1. sleepFor = 1 /\ sleepFor' = 0
        BY <3>1, <3>5 DEF NumberTypes, Less
      <4>2. Len(queue) <= rate
        BY <3>2, <3>3, <3>5, <4>1 DEF PaceInv
      <4> QED
        BY <1>0, <3>1, <3>5, <4>1, <4>2 DEF PaceInv, NumberTypes
    <3>6. CASE kind = "epoll" /\ pc = "wait" /\ sampleIn > 0
      <4>1. sampleIn = 1 /\ sampleIn' = 0
        BY <3>1, <3>6 DEF NumberTypes, Less
      <4>2. Len(queue) <= rate
        BY <3>2, <3>3, <3>6, <4>1 DEF PaceInv
      <4> QED
        BY <1>0, <3>1, <3>6, <4>1, <4>2 DEF PaceInv, NumberTypes
    <3>7. CASE kind = "net" /\ pc = "take" /\ queue = <<>>
      BY <1>0, <3>1, <3>7 DEF PaceInv
    <3> QED
      BY <3>4, <3>5, <3>6, <3>7
  <2>4. ASSUME Establish  PROVE PaceInv'
    BY <1>4, <2>4, <1>0
       DEF Establish, Others, FlagTypes, NumberTypes, PaceInv, NetPlaces, EpollPlaces,
           PlacesInv
  <2>5. ASSUME Refuse  PROVE PaceInv'
    BY <1>4, <2>5, <1>0
       DEF Refuse, Others, Fault, FlagTypes, NumberTypes, PaceInv, NetPlaces,
           EpollPlaces, PlacesInv
  <2>6. ASSUME PeerReads  PROVE PaceInv'
    BY <1>4, <2>6, <1>0
       DEF PeerReads, Others, FlagTypes, NumberTypes, PaceInv, NetPlaces, EpollPlaces,
           PlacesInv
  <2>7. ASSUME PeerReplies  PROVE PaceInv'
    BY <1>4, <2>7, <1>0
       DEF PeerReplies, Others, Fault, FlagTypes, NumberTypes, PaceInv, NetPlaces,
           EpollPlaces, PlacesInv
  <2>8. ASSUME PeerCloses  PROVE PaceInv'
    BY <1>4, <2>8, <1>0
       DEF PeerCloses, Others, Fault, FlagTypes, NumberTypes, PaceInv, NetPlaces,
           EpollPlaces, PlacesInv
  <2>9. ASSUME PeerAnswers  PROVE PaceInv'
    BY <1>4, <2>9, <1>0
       DEF PeerAnswers, Others, FlagTypes, NumberTypes, PaceInv, NetPlaces, EpollPlaces,
           PlacesInv
  <2>10. ASSUME ConnectionResets  PROVE PaceInv'
    BY <1>4, <2>10, <1>0
       DEF ConnectionResets, Others, Fault, FlagTypes, NumberTypes, PaceInv, NetPlaces,
           EpollPlaces, PlacesInv
  <2>11. ASSUME PeerSticks  PROVE PaceInv'
    BY <1>4, <2>11, <1>0
       DEF PeerSticks, Others, Fault, FlagTypes, NumberTypes, PaceInv, NetPlaces,
           EpollPlaces, PlacesInv
  <2>12. ASSUME Stop  PROVE PaceInv'
    BY <1>4, <2>12, <1>0
       DEF Stop, FlagTypes, NumberTypes, PaceInv, NetPlaces, EpollPlaces, PlacesInv
  <2>13. ASSUME NetStop  PROVE PaceInv'
    BY <1>4, <2>13, <1>0
       DEF NetStop, Stop, FlagTypes, NumberTypes, PaceInv, NetPlaces, EpollPlaces,
           PlacesInv
  <2>14. ASSUME Join  PROVE PaceInv'
    BY <1>4, <2>14, <1>0
       DEF Join, FlagTypes, NumberTypes, PaceInv, NetPlaces, EpollPlaces, PlacesInv
  <2> QED
    BY <1>4, <2>1, <2>2, <2>3, <2>4, <2>5, <2>6, <2>7, <2>8, <2>9,
       <2>10, <2>11, <2>12, <2>13, <2>14
       DEF Network
<1> QED
  BY <1>1, <1>2, <1>3, <1>4 DEF Next

(* A message is refused only by a full queue. *)
LEMMA KeepsUpStep ==
  ASSUME WireTypes, NumberTypes, PaceInv, Next, offered' # offered, queue' = queue
  PROVE  behind \/ pc \in {"new", "ended"}
<1> USE DEF queueVars, peerVars, threadVars, timerVars, histVars, Goto, Hangup, Failed, CountFailure
<1>1. Offer
  <2>1. ASSUME EpollStart  PROVE FALSE
    BY <2>1 DEF EpollStart, Start
  <2>2. ASSUME EpollPart  PROVE FALSE
    <3>1. ~(Leave \/ TryConnect \/ ConnectFailsAtOnce \/ EpollWaitFails)
      BY DEF Leave, EndThread, TryConnect, ConnectFailsAtOnce, EpollWaitFails
    <3>2. ~(HoldOff \/ WakeUp \/ SampleAndArm \/ EpollWait \/ EpollWaitTimesOut)
      BY DEF HoldOff, WakeUp, SampleAndArm, EpollWait, EpollWaitTimesOut
    <3>3. ~(HandleError \/ HandleConnectFailed \/ FlushFails)
      BY DEF HandleError, HandleConnectFailed, FlushFails, LoseConnection
    <3>4. ~(HandleConnected \/ Receive \/ NoFlush \/ FlushHalf \/ FlushBlocked \/ Flushed)
      BY DEF HandleConnected, Receive, NoFlush, FlushHalf, SendHalf, FlushBlocked, Flushed
    <3> QED
      BY <2>2, <3>1, <3>2, <3>3, <3>4 DEF EpollPart, EpollNext, EpollStep
  <2>3. ASSUME NetPart  PROVE FALSE
    <3>1. ~(NetLeave \/ NetConnect \/ NetConnected \/ NetConnectFails \/ NetSlice \/ NetDrain)
      BY DEF NetLeave, NetConnect, NetConnected, NetConnectFails, NetFails, NetSlice, NetDrain
    <3>2. ~(NetStopsWaiting \/ NetRetry \/ NetTake \/ NetSendHalf)
      BY DEF NetStopsWaiting, NetRetry, NetTake, NetSendHalf, SendHalf
    <3>3. ~(NetSent \/ NetSendFails \/ NetHangUp)
      BY DEF NetSent, NetSendFails, NetFails, NetHangUp
    <3> QED
      BY <2>3, <3>1, <3>2, <3>3 DEF NetPart, NetStep
  <2>4. ~(NetStart \/ Tick \/ Stop \/ NetStop \/ Join)
    BY DEF NetStart, Start, Tick, Stop, NetStop, Join
  <2>5. ~Network
    BY DEF Network, Establish, Refuse, PeerReads, PeerReplies, PeerCloses, PeerAnswers,
           ConnectionResets, PeerSticks, Others
  <2> QED
    BY <2>1, <2>2, <2>3, <2>4, <2>5 DEF Next
<1>2. queue \in Seq(1 .. offered) /\ Len(queue) \in Nat
  BY DEF WireTypes
<1>3. ~(Len(queue) < QCap)
  <2> SUFFICES ASSUME Len(queue) < QCap  PROVE FALSE
    OBVIOUS
  <2>1. queue' = Append(queue, offered')
    BY <1>1 DEF Offer
  <2>2. Len(Append(queue, offered')) = Len(queue) + 1
    BY <1>2
  <2> QED
    BY <1>2, <2>1, <2>2
<1>4. rate \in Nat /\ rate < Rate /\ Rate \in Nat /\ QCap \in Nat
  BY <1>1, UplinkAssumption DEF Offer, NumberTypes
<1>5. ~behind /\ pc # "ended" => Len(queue) <= Rate + rate
  BY <1>2, <1>4 DEF PaceInv
<1> QED
  BY <1>2, <1>3, <1>4, <1>5, PaceAssumption

----------------------------------------------------------------------------
(* The theorems *)

LEMMA TypesSplit ==
  UplinkTypeOK /\ (kind # "epoll" => sleepFor \in 0 .. 1)
    <=> WireTypes /\ FlagTypes /\ NumberTypes /\ Armed
BY Zenon DEF UplinkTypeOK, WireTypes, FlagTypes, NumberTypes, Armed, Lines

LEMMA TypesSplitNext ==
  (UplinkTypeOK /\ (kind # "epoll" => sleepFor \in 0 .. 1))'
    <=> WireTypes' /\ FlagTypes' /\ NumberTypes' /\ Armed'
BY TypesSplit, PTL

LEMMA InvHolds ==
  UplinkInv <=> /\ WireTypes /\ FlagTypes /\ NumberTypes /\ Armed
                /\ PlacesInv /\ WireInv /\ RetryInv /\ PaceInv
BY TypesSplit, Zenon DEF UplinkInv

LEMMA InvHoldsNext ==
  UplinkInv' <=> /\ WireTypes' /\ FlagTypes' /\ NumberTypes' /\ Armed'
                 /\ PlacesInv' /\ WireInv' /\ RetryInv' /\ PaceInv'
BY InvHolds, PTL

LEMMA InitInv ==
  ASSUME Init
  PROVE  UplinkInv
<1> USE UplinkAssumption, EpollAssumption DEF Init, UplinkInit, EpollInit
<1>1. WireTypes
  BY DEF WireTypes
<1>2. FlagTypes
  BY DEF FlagTypes
<1>3. NumberTypes
  BY MostFailsFacts DEF NumberTypes
<1>4. Armed
  BY DEF Armed
<1>5. PlacesInv
  BY DEF PlacesInv
<1>6. WireInv
  BY DEF WireInv
<1>7. RetryInv
  <2>1. Due(0 + 1) = BaseBackoff
    BY DueFacts
  <2> QED
    BY <2>1 DEF RetryInv
<1>8. PaceInv
  BY DEF PaceInv
<1> QED
  BY <1>1, <1>2, <1>3, <1>4, <1>5, <1>6, <1>7, <1>8, InvHolds

LEMMA NextInv ==
  ASSUME UplinkInv, Next
  PROVE  UplinkInv'
<1>1. /\ WireTypes /\ FlagTypes /\ NumberTypes /\ Armed
      /\ PlacesInv /\ WireInv /\ RetryInv /\ PaceInv
  BY InvHolds
<1>2. WireTypes' /\ WireInv'
  BY <1>1, WireStep
<1>3. FlagTypes' /\ NumberTypes'
  BY <1>1, FlagStep, NumberStep
<1>4. Armed' /\ PlacesInv'
  BY <1>1, ArmedStep, PlacesStep
<1>5. RetryInv' /\ PaceInv'
  BY <1>1, RetryStep, PaceStep
<1> QED
  BY <1>2, <1>3, <1>4, <1>5, InvHoldsNext

LEMMA StutterInv ==
  ASSUME UplinkInv, UNCHANGED vars
  PROVE  UplinkInv'
<1> USE DEF vars, uplinkVars, queueVars, peerVars, threadVars, timerVars, histVars,
            epollVars, socketVars
<1>1. WireTypes /\ WireInv => WireTypes' /\ WireInv'
  BY WireQuiet DEF LinkLost
<1>2. FlagTypes => FlagTypes'
  BY DEF FlagTypes
<1>3. NumberTypes => NumberTypes'
  BY DEF NumberTypes
<1>4. Armed /\ PlacesInv => Armed' /\ PlacesInv'
  BY DEF Armed, PlacesInv
<1>5. RetryInv /\ PaceInv => RetryInv' /\ PaceInv'
  BY DEF RetryInv, PaceInv
<1> QED
  BY <1>1, <1>2, <1>3, <1>4, <1>5, InvHolds, InvHoldsNext

(* The invariant of both reporters: the types; where the thread is and     *)
(* what that says of the socket; the buffer continues what was sent, and   *)
(* the queue the buffer; the timers know of the failures; and a reporter   *)
(* that is not behind has seen all but the messages of two ticks.          *)
THEOREM ReportersInvariant == Spec => []UplinkInv
<1>1. UplinkInv /\ [Next]_vars => UplinkInv'
  BY NextInv, StutterInv
<1> QED
  BY InitInv, <1>1, PTL DEF Spec

(* Every variable keeps its type, the send buffer its bound, and the       *)
(* interest in EPOLLOUT that the kernel has is the one the code recorded.  *)
THEOREM ReportersTypeCorrect == Spec => []UplinkTypeOK
<1>1. UplinkInv => UplinkTypeOK
  BY DEF UplinkInv
<1> QED
  BY <1>1, ReportersInvariant, PTL

(* What reaches the kernel is in order and nothing twice, half by half,    *)
(* for both reporters and across any number of connections.                *)
THEOREM SentOnceAndInOrder == Spec => OnceAndInOrder
<1>1. UplinkInv /\ [Next]_vars =>
        [<<last'.msg, last'.half>> # <<last.msg, last.half>> => Continues(last, last')]_vars
  <2> SUFFICES ASSUME UplinkInv, Next, <<last'.msg, last'.half>> # <<last.msg, last.half>>
               PROVE  Continues(last, last')
    OBVIOUS
  <2>1. WireTypes /\ WireInv /\ PlacesInv
    BY InvHolds
  <2>2. SentSame \/ Continues(last, last')
    BY <2>1, WireStep
  <2> QED
    BY <2>2 DEF SentSame
<1> QED
  BY <1>1, ReportersInvariant, PTL DEF Spec, OnceAndInOrder

(* After k failures in a row, of an attempt or of a connection, no attempt *)
(* comes before the k-th back-off is over, in both reporters; with none it *)
(* is the first attempt of all, or recv() has closed the connection, which *)
(* sets no back-off (epoll_reporter.hpp:188).                              *)
THEOREM RetriesAreSpaced == Spec => SpacedRetries
<1>1. UplinkInv /\ [Next]_vars =>
        [Attempts => IF fails > 0 THEN waited >= Due(fails)
                                  ELSE outcome \in {"never", "closed"}]_vars
  <2> SUFFICES ASSUME UplinkInv, Next, Attempts
               PROVE  IF fails > 0 THEN waited >= Due(fails)
                                   ELSE outcome \in {"never", "closed"}
    OBVIOUS
  <2>1. NumberTypes /\ FlagTypes /\ PlacesInv /\ RetryInv
    BY InvHolds
  <2> QED
    BY <2>1, SpacedStep
<1> QED
  BY <1>1, ReportersInvariant, PTL DEF Spec, SpacedRetries

(* A reporter that keeps looking at its queue loses nothing: a batch is    *)
(* more than a tick of samples and the queue holds two ticks of them.      *)
THEOREM SamplingLosesNothing == Spec => KeepsUp
<1>1. UplinkInv /\ [Next]_vars =>
        [offered' # offered /\ queue' = queue => behind \/ pc \in {"new", "ended"}]_vars
  <2> SUFFICES ASSUME UplinkInv, Next, offered' # offered, queue' = queue
               PROVE  behind \/ pc \in {"new", "ended"}
    OBVIOUS
  <2>1. WireTypes /\ NumberTypes /\ PaceInv
    BY InvHolds
  <2> QED
    BY <2>1, KeepsUpStep
<1> QED
  BY <1>1, ReportersInvariant, PTL DEF Spec, KeepsUp
=============================================================================
