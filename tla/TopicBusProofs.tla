--------------------------- MODULE TopicBusProofs ---------------------------
(***************************************************************************)
(* Theorems about TopicBus, for every set of publishers, topics and        *)
(* queues, every capacity and any number of messages and subscriptions.    *)
(***************************************************************************)
EXTENDS TopicBus, TicketQueueProofs, FiniteSetTheorems

----------------------------------------------------------------------------
(* Facts about sequences.                                                  *)

(* What v.erase(it) leaves of a list. *)
LEMMA RemoveAtProperties ==
  ASSUME NEW S, NEW s \in Seq(S), NEW k \in 1 .. Len(s)
  PROVE  /\ Seqs!RemoveAt(s, k) \in Seq(S)
         /\ Len(Seqs!RemoveAt(s, k)) = Len(s) - 1
         /\ \A j \in 1 .. (Len(s) - 1) :
              Seqs!RemoveAt(s, k)[j] = IF j < k THEN s[j] ELSE s[j + 1]
<1> DEFINE a == SubSeq(s, 1, k - 1)
           b == SubSeq(s, k + 1, Len(s))
<1>1. /\ a \in Seq(S) /\ Len(a) = k - 1
      /\ \A j \in 1 .. (k - 1) : a[j] = s[j]
  <2>1. \A j \in 1 .. (k - 1) : s[j] \in S
    BY ElementOfSeq
  <2>2. Len(s) \in Nat
    OBVIOUS
  <2> QED
    BY <2>1, <2>2, SubSeqProperties
<1>2. /\ b \in Seq(S) /\ Len(b) = Len(s) - k
      /\ \A j \in 1 .. (Len(s) - k) : b[j] = s[j + k]
  <2>1. \A j \in (k + 1) .. Len(s) : s[j] \in S
    BY ElementOfSeq
  <2>2. Len(s) \in Nat
    OBVIOUS
  <2> QED
    BY <2>1, <2>2, SubSeqProperties
<1> HIDE DEF a, b
<1>3. /\ a \o b \in Seq(S) /\ Len(a \o b) = Len(a) + Len(b)
      /\ \A j \in 1 .. (Len(a) + Len(b)) :
           (a \o b)[j] = IF j <= Len(a) THEN a[j] ELSE b[j - Len(a)]
  BY <1>1, <1>2, ConcatProperties
<1>4. Len(s) \in Nat
  OBVIOUS
<1>5. \A j \in 1 .. (Len(s) - 1) :
        (a \o b)[j] = IF j < k THEN s[j] ELSE s[j + 1]
  <2> TAKE j \in 1 .. (Len(s) - 1)
  <2>1. CASE j < k
    <3>1. j \in 1 .. (k - 1) /\ j \in 1 .. (Len(a) + Len(b)) /\ j <= Len(a)
      BY <1>1, <1>2, <1>4, <2>1
    <3>2. (a \o b)[j] = a[j]
      BY <1>3, <3>1
    <3> QED
      BY <1>1, <2>1, <3>1, <3>2
  <2>2. CASE ~(j < k)
    <3>1. /\ j - (k - 1) \in 1 .. (Len(s) - k) /\ j \in 1 .. (Len(a) + Len(b))
          /\ ~(j <= Len(a)) /\ (j - (k - 1)) + k = j + 1
      BY <1>1, <1>2, <1>4, <2>2
    <3>2. (a \o b)[j] = b[j - (k - 1)]
      BY <1>1, <1>3, <3>1
    <3> QED
      BY <1>2, <2>2, <3>1, <3>2
  <2> QED
    BY <2>1, <2>2
<1>6. Len(a \o b) = Len(s) - 1
  BY <1>1, <1>2, <1>3, <1>4
<1>7. Seqs!RemoveAt(s, k) = a \o b
  BY DEF Seqs!RemoveAt, a, b
<1> QED
  BY <1>3, <1>5, <1>6, <1>7

----------------------------------------------------------------------------
(* Facts about the variables.                                              *)

Subscriptions == [topic : Topics, since : Nat, ended : BOOLEAN,
                  straggler : Nat, given : Seq(Nat)]

(* The subscriptions. *)
LEMMA SubsFacts ==
  ASSUME BusTypeOK
  PROVE  /\ subs \in Seq(Subscriptions) /\ Len(subs) \in Nat /\ Ids = 1 .. Len(subs)
         /\ \A id \in Ids :
              /\ subs[id] \in Subscriptions
              /\ subs[id].topic \in Topics /\ subs[id].since \in Nat
              /\ subs[id].ended \in BOOLEAN /\ subs[id].straggler \in Nat
              /\ subs[id].given \in Seq(Nat) /\ Len(subs[id].given) \in Nat
              /\ DOMAIN subs[id].given = 1 .. Len(subs[id].given)
              /\ Given(id) \subseteq Nat
<1>1. subs \in Seq(Subscriptions)
  BY DEF BusTypeOK, Subscriptions
<1>2. Len(subs) \in Nat /\ Ids = 1 .. Len(subs) /\ \A id \in Ids : subs[id] \in Subscriptions
  BY <1>1 DEF Ids
<1>3. ASSUME NEW id \in Ids
      PROVE  /\ subs[id].topic \in Topics /\ subs[id].since \in Nat
             /\ subs[id].ended \in BOOLEAN /\ subs[id].straggler \in Nat
             /\ subs[id].given \in Seq(Nat)
  BY <1>2 DEF Subscriptions
<1>4. ASSUME NEW id \in Ids
      PROVE  /\ Len(subs[id].given) \in Nat
             /\ DOMAIN subs[id].given = 1 .. Len(subs[id].given)
             /\ Given(id) \subseteq Nat
  <2>1. subs[id].given \in Seq(Nat)
    BY <1>3
  <2>2. \A s \in Seq(Nat) : /\ Len(s) \in Nat /\ DOMAIN s = 1 .. Len(s)
                            /\ \A k \in DOMAIN s : s[k] \in Nat
    OBVIOUS
  <2> QED
    BY <2>1, <2>2 DEF Given
<1> QED
  BY <1>1, <1>2, <1>3, <1>4

(* A message is given to a subscription. *)
LEMMA GiveFacts ==
  ASSUME BusTypeOK, NEW id \in Ids, Give(id)
  PROVE  /\ subs' \in Seq(Subscriptions) /\ Ids' = Ids
         /\ \A j \in Ids :
              /\ subs'[j].topic = subs[j].topic /\ subs'[j].since = subs[j].since
              /\ subs'[j].ended = subs[j].ended
              /\ subs'[j].straggler = subs[j].straggler
              /\ j # id => subs'[j] = subs[j]
         /\ subs'[id].given = Append(subs[id].given, env)
<1>1. /\ subs \in Seq(Subscriptions) /\ Len(subs) \in Nat /\ Ids = 1 .. Len(subs)
      /\ subs[id].given \in Seq(Nat) /\ env \in Nat
  BY SubsFacts DEF BusTypeOK
<1>2. Append(subs[id].given, env) \in Seq(Nat)
  BY <1>1, AppendProperties
<1> DEFINE n == Len(subs)
           g == Append(subs[id].given, env)
<1>3. subs' = [subs EXCEPT ![id] = [subs[id] EXCEPT !.given = g]]
  BY DEF Give
<1>4. \A s \in Subscriptions :
        /\ [s EXCEPT !.given = g] \in Subscriptions
        /\ [s EXCEPT !.given = g].topic = s.topic
        /\ [s EXCEPT !.given = g].since = s.since
        /\ [s EXCEPT !.given = g].ended = s.ended
        /\ [s EXCEPT !.given = g].straggler = s.straggler
        /\ [s EXCEPT !.given = g].given = g
  BY <1>2 DEF Subscriptions
<1> HIDE DEF n, g
<1>5. subs \in [1 .. n -> Subscriptions] /\ subs[id] \in Subscriptions
  BY <1>1 DEF n
<1>6. /\ subs' \in [1 .. n -> Subscriptions]
      /\ \A j \in 1 .. n : j # id => subs'[j] = subs[j]
      /\ subs'[id] = [subs[id] EXCEPT !.given = g]
  BY <1>1, <1>3, <1>4, <1>5 DEF n
<1>7. subs' \in Seq(Subscriptions) /\ DOMAIN subs' = 1 .. n
  BY <1>1, <1>6 DEF n
<1>8. Ids' = Ids /\ Ids = 1 .. n
  BY <1>1, <1>7 DEF Ids, n
<1>9. ASSUME NEW j \in Ids
      PROVE  /\ subs'[j].topic = subs[j].topic /\ subs'[j].since = subs[j].since
             /\ subs'[j].ended = subs[j].ended
             /\ subs'[j].straggler = subs[j].straggler
  <2>1. CASE j = id
    BY <1>4, <1>5, <1>6, <2>1
  <2>2. CASE j # id
    BY <1>6, <1>8, <2>2
  <2> QED
    BY <2>1, <2>2
<1>10. subs'[id].given = g
  BY <1>4, <1>5, <1>6
<1> QED
  BY <1>6, <1>7, <1>8, <1>9, <1>10 DEF g

(* A subscription ends. *)
Ending(id) == subs' = [subs EXCEPT ![id].ended = TRUE, ![id].straggler = env]

LEMMA EndFacts ==
  ASSUME BusTypeOK, NEW id \in Ids, Ending(id)
  PROVE  /\ subs' \in Seq(Subscriptions) /\ Ids' = Ids
         /\ \A j \in Ids :
              /\ subs'[j].topic = subs[j].topic /\ subs'[j].since = subs[j].since
              /\ subs'[j].given = subs[j].given
              /\ j # id => subs'[j] = subs[j]
         /\ subs'[id].ended /\ subs'[id].straggler = env
<1>1. /\ subs \in Seq(Subscriptions) /\ Len(subs) \in Nat /\ Ids = 1 .. Len(subs)
      /\ env \in Nat
  BY SubsFacts DEF BusTypeOK
<1> DEFINE n == Len(subs)
           F(s) == [s EXCEPT !.ended = TRUE, !.straggler = env]
<1>2. subs' = [subs EXCEPT ![id] = F(subs[id])]
  BY DEF Ending
<1>3. \A s \in Subscriptions :
        /\ F(s) \in Subscriptions
        /\ F(s).topic = s.topic /\ F(s).since = s.since /\ F(s).given = s.given
        /\ F(s).ended /\ F(s).straggler = env
  BY <1>1 DEF Subscriptions
<1> HIDE DEF n, F
<1>4. subs \in [1 .. n -> Subscriptions] /\ subs[id] \in Subscriptions
  BY <1>1 DEF n
<1>5. /\ subs' \in [1 .. n -> Subscriptions]
      /\ \A j \in 1 .. n : j # id => subs'[j] = subs[j]
      /\ subs'[id] = F(subs[id])
  BY <1>1, <1>2, <1>3, <1>4 DEF n
<1>6. subs' \in Seq(Subscriptions) /\ DOMAIN subs' = 1 .. n
  <2>1. n \in Nat /\ subs' \in [1 .. n -> Subscriptions]
    BY <1>1, <1>5 DEF n
  <2> QED
    BY <2>1, FunctionIsSeq
<1>7. Ids' = Ids /\ Ids = 1 .. n
  BY <1>1, <1>6 DEF Ids, n
<1>8. ASSUME NEW j \in Ids
      PROVE  /\ subs'[j].topic = subs[j].topic /\ subs'[j].since = subs[j].since
             /\ subs'[j].given = subs[j].given
  <2>1. CASE j = id
    BY <1>3, <1>4, <1>5, <2>1
  <2>2. CASE j # id
    BY <1>5, <1>7, <2>2
  <2> QED
    BY <2>1, <2>2
<1>9. subs'[id].ended /\ subs'[id].straggler = env
  BY <1>3, <1>4, <1>5
<1> QED
  BY <1>5, <1>6, <1>7, <1>8, <1>9

(* A subscription begins. *)
LEMMA NewFacts ==
  ASSUME BusTypeOK, NEW t \in Topics, NewSubscription(t)
  PROVE  /\ subs' \in Seq(Subscriptions) /\ Ids' = Ids \cup {NextId} /\ NextId \notin Ids
         /\ NextId \in Nat
         /\ \A j \in Ids : subs'[j] = subs[j] /\ j < NextId
         /\ subs'[NextId] = [topic |-> t, since |-> Len(hist), ended |-> FALSE,
                             straggler |-> 0, given |-> <<>>]
<1> DEFINE new == [topic |-> t, since |-> Len(hist), ended |-> FALSE,
                   straggler |-> 0, given |-> <<>>]
<1>1. /\ subs \in Seq(Subscriptions) /\ Len(subs) \in Nat /\ Ids = 1 .. Len(subs)
      /\ Len(hist) \in Nat
  BY SubsFacts, HistFacts DEF BusTypeOK
<1>2. new \in Subscriptions
  BY <1>1 DEF Subscriptions
<1>3. subs' = Append(subs, new)
  BY DEF NewSubscription
<1> HIDE DEF new
<1>4. /\ subs' \in Seq(Subscriptions) /\ Len(subs') = Len(subs) + 1
      /\ \A j \in 1 .. Len(subs) : subs'[j] = subs[j]
      /\ subs'[Len(subs) + 1] = new
  BY <1>1, <1>2, <1>3, AppendProperties
<1>5. DOMAIN subs' = 1 .. (Len(subs) + 1)
  BY <1>1, <1>4
<1>6. Ids' = Ids \cup {NextId} /\ NextId \notin Ids /\ NextId \in Nat
  BY <1>1, <1>5 DEF Ids, NextId
<1> QED
  BY <1>1, <1>4, <1>6 DEF NextId, new

----------------------------------------------------------------------------
(* The invariant holds of a bus that nobody has used yet. *)
LEMMA InitBusInv == Init => BusInv
<1> SUFFICES ASSUME Init PROVE BusInv
  OBVIOUS
<1> USE DEF Init, TInit
<1>1. Tickets = {} /\ Ids = {} /\ Len(hist) = 0
  BY DEF Tickets, Ids
<1>2. BusTypeOK
  <2>1. TicketTypeOK
    BY DEF TicketTypeOK
  <2>2. pub \in [Publishers -> Nat] /\ inbox \in [Queues -> Seq(Nat)]
    OBVIOUS
  <2>3. queues \in [Topics -> Seq(Entries)] /\ callbacks \in [Topics -> Seq([id : Nat])]
    OBVIOUS
  <2>4. /\ qcopy \in Seq(Entries) /\ ccopy \in Seq([id : Nat])
        /\ subs \in Seq([topic : Topics, since : Nat, ended : BOOLEAN,
                         straggler : Nat, given : Seq(Nat)])
    OBVIOUS
  <2>5. /\ mtx \in BOOLEAN /\ (mtx <=> dpc = "copy")
        /\ env # 0 <=> dpc \in {"free", "lock", "copy", "deliver", "inCallback"}
        /\ qcopy # <<>> \/ ccopy # <<>> => dpc \in {"deliver", "inCallback"}
        /\ running \in BOOLEAN /\ (running => dpc \notin {"none", "exited"})
    OBVIOUS
  <2> QED
    BY <2>1, <2>2, <2>3, <2>4, <2>5 DEF BusTypeOK
<1>3. ControlInv
  BY DEF ControlInv, Working
<1>4. TicketsInv
  BY <1>1 DEF TicketsInv
<1>5. ListsInv
  BY <1>1 DEF ListsInv
<1>6. CopiesInv
  BY DEF CopiesInv
<1>7. GivenInv
  BY <1>1, FS_EmptySet DEF GivenInv
<1>8. NobodyForgotten /\ DueInv
  BY <1>1 DEF NobodyForgotten, DueInv
<1> QED
  BY <1>2, <1>3, <1>4, <1>5, <1>6, <1>7, <1>8 DEF BusInv

----------------------------------------------------------------------------
(* subscribe() and unsubscribe(), from a client or from a callback.        *)

(* What they leave alone; a callback that called goes on. *)
SubscriberFrame ==
  /\ UNCHANGED <<hist, pub, running, main, due, inbox, lost, dropped,
                 draining, env, qcopy, ccopy, dispatched, mtx>>
  /\ dpc' = dpc \/ (dpc = "inCallback" /\ dpc' = "deliver")

(* What is not about subscriptions is kept. *)
LEMMA FrameKeeps ==
  ASSUME BusInv, SubscriberFrame, subs' \in Seq(Subscriptions),
         queues' \in [Topics -> Seq(Entries)],
         callbacks' \in [Topics -> Seq([id : Nat])]
  PROVE  BusTypeOK' /\ ControlInv' /\ TicketsInv' /\ DueInv'
<1>1. BusTypeOK'
  BY DEF BusInv, SubscriberFrame, BusTypeOK, TicketTypeOK, Subscriptions
<1>2. ControlInv' /\ TicketsInv' /\ DueInv'
  BY DEF BusInv, SubscriberFrame, ControlInv, Working, TicketsInv, Tickets, Out, DueInv
<1> QED
  BY <1>1, <1>2

(* Nor does the change of a subscription's state cost anybody a message. *)
LEMMA DeliveryKeeps ==
  ASSUME BusInv, SubscriberFrame, Ids \subseteq Ids',
         \A j \in Ids :
           /\ subs'[j].topic = subs[j].topic /\ subs'[j].since = subs[j].since
           /\ subs'[j].given = subs[j].given
           /\ subs[j].ended => subs'[j].ended /\ subs'[j].straggler = subs[j].straggler
           /\ ~subs[j].ended /\ subs'[j].ended => subs'[j].straggler = env,
         \A j \in Ids' \ Ids : subs'[j].given = <<>> /\ subs'[j].since = Len(hist)
  PROVE  CopiesInv' /\ GivenInv' /\ NobodyForgotten'
<1> USE DEF SubscriberFrame
<1>1. /\ \A j \in Ids : Given(j)' = Given(j)
      /\ \A j \in Ids' \ Ids : Given(j)' = {}
  BY DEF Given
<1>2. Tickets' = Tickets /\ NotCopied' = NotCopied /\ \A i \in Tickets : Out(i)' = Out(i)
  BY DEF Tickets, NotCopied, Out
<1>3. \A j \in Nat : Pending(j)' = Pending(j)
  BY DEF Pending
<1>4. ASSUME NEW j, Owed(j) PROVE Owed(j)'
  BY <1>1, <1>4 DEF Owed
<1>5. CopiesInv'
  BY <1>4 DEF BusInv, CopiesInv
<1>6. GivenInv'
  <2>1. ASSUME NEW id \in Ids', NEW i \in Given(id)'
        PROVE  i \in Tickets /\ Out(i) /\ hist[i].val = subs'[id].topic /\ (NotCopied => i # env)
    BY <1>1, <2>1 DEF BusInv, GivenInv
  <2>2. ASSUME NEW id \in Ids', NEW k \in DOMAIN subs'[id].given, NEW l \in DOMAIN subs'[id].given,
               k < l
        PROVE  subs'[id].given[k] < subs'[id].given[l]
    <3>1. CASE id \in Ids
      BY <2>2, <3>1 DEF BusInv, GivenInv
    <3>2. CASE id \notin Ids
      BY <2>2, <3>2
    <3> QED
      BY <3>1, <3>2
  <2>3. \A x \in lost' : x[2] \in Tickets' /\ Out(x[2])' /\ (NotCopied' => x[2] # env')
    BY <1>2 DEF BusInv, GivenInv
  <2> QED
    BY <1>2, <2>1, <2>2, <2>3 DEF BusInv, GivenInv
<1>7. NobodyForgotten'
  <2> SUFFICES ASSUME NEW id \in Ids', NEW i \in Tickets', Out(i)', ~subs'[id].ended,
                      subs'[id].since < i, hist[i].val = subs'[id].topic
               PROVE  \/ i \in Given(id)' \/ <<id, i>> \in lost
                      \/ i = env /\ (NotCopied \/ Pending(id))
    BY <1>2, <1>3 DEF NobodyForgotten, Pending
  <2>1. CASE id \in Ids
    BY <1>1, <1>2, <2>1 DEF BusInv, NobodyForgotten
  <2>2. CASE id \notin Ids
    BY <1>2, <2>2, HistFacts DEF BusInv, BusTypeOK
  <2> QED
    BY <2>1, <2>2
<1> QED
  BY <1>5, <1>6, <1>7

(* An entry with a new id goes to the end of a list. *)
LEMMA AppendedEntry ==
  ASSUME NEW E, NEW lists \in [Topics -> Seq(E)], NEW t \in Topics, NEW e \in E,
         NEW new, new = [lists EXCEPT ![t] = Append(@, e)]
  PROVE  /\ new \in [Topics -> Seq(E)]
         /\ \A u \in Topics : u # t => new[u] = lists[u]
         /\ DOMAIN new[t] = DOMAIN lists[t] \cup {Len(lists[t]) + 1}
         /\ \A k \in DOMAIN lists[t] : new[t][k] = lists[t][k] /\ k < Len(lists[t]) + 1
         /\ new[t][Len(lists[t]) + 1] = e
         /\ Len(lists[t]) + 1 \in Nat /\ DOMAIN lists[t] \subseteq Nat
<1> DEFINE s == lists[t]
<1>1. s \in Seq(E) /\ Len(s) \in Nat /\ DOMAIN s = 1 .. Len(s)
  OBVIOUS
<1> HIDE DEF s
<1>2. /\ Append(s, e) \in Seq(E) /\ Len(Append(s, e)) = Len(s) + 1
      /\ \A k \in 1 .. Len(s) : Append(s, e)[k] = s[k]
      /\ Append(s, e)[Len(s) + 1] = e
  BY <1>1, AppendProperties
<1>3. DOMAIN Append(s, e) = 1 .. (Len(s) + 1)
  BY <1>1, <1>2
<1>4. new = [lists EXCEPT ![t] = Append(s, e)]
  BY DEF s
<1>5. new \in [Topics -> Seq(E)] /\ new[t] = Append(s, e)
      /\ \A u \in Topics : u # t => new[u] = lists[u]
  BY <1>2, <1>4
<1> QED
  BY <1>1, <1>2, <1>3, <1>5 DEF s

(* subscribe(t, queue) *)
LEMMA AddQueueStep ==
  ASSUME BusInv, SubscriberFrame, NEW t \in Topics, NEW q \in Queues, AddQueue(t, q)
  PROVE  BusInv'
<1> DEFINE n == Len(queues[t]) + 1
<1>1. NewSubscription(t) /\ callbacks' = callbacks
  BY DEF AddQueue
<1>2. /\ BusTypeOK /\ queues \in [Topics -> Seq(Entries)]
      /\ callbacks \in [Topics -> Seq([id : Nat])]
  BY DEF BusInv, BusTypeOK
<1>3. /\ subs' \in Seq(Subscriptions) /\ Ids' = Ids \cup {NextId} /\ NextId \notin Ids
      /\ NextId \in Nat
      /\ \A j \in Ids : subs'[j] = subs[j] /\ j < NextId
      /\ subs'[NextId] = [topic |-> t, since |-> Len(hist), ended |-> FALSE,
                          straggler |-> 0, given |-> <<>>]
  BY <1>1, <1>2, NewFacts
<1> DEFINE e == [id |-> NextId, queue |-> q]
<1>4. e \in Entries /\ e.id = NextId
  BY <1>3 DEF Entries
<1> HIDE DEF e
<1>5. queues' = [queues EXCEPT ![t] = Append(@, e)]
  BY DEF AddQueue, e
<1>6. /\ queues' \in [Topics -> Seq(Entries)]
      /\ \A u \in Topics : u # t => queues'[u] = queues[u]
      /\ DOMAIN queues'[t] = DOMAIN queues[t] \cup {n}
      /\ \A k \in DOMAIN queues[t] : queues'[t][k] = queues[t][k] /\ k < n
      /\ queues'[t][n] = e /\ n \in Nat /\ DOMAIN queues[t] \subseteq Nat
  BY <1>2, <1>4, <1>5, AppendedEntry
<1> HIDE DEF n
<1>7. ListsInv'
  <2>1. ASSUME NEW u \in Topics, NEW k \in DOMAIN queues'[u]
        PROVE  LET id == queues'[u][k].id
               IN id \in Ids' /\ subs'[id].topic = u /\ ~subs'[id].ended
    <3>1. CASE u = t /\ k = n
      BY <1>3, <1>4, <1>6, <3>1
    <3>2. CASE ~(u = t /\ k = n)
      <4>1. k \in DOMAIN queues[u] /\ queues'[u][k] = queues[u][k]
        BY <1>6, <3>2
      <4>2. LET id == queues[u][k].id
            IN id \in Ids /\ subs[id].topic = u /\ ~subs[id].ended
        BY <4>1 DEF BusInv, ListsInv
      <4> QED
        BY <1>3, <4>1, <4>2
    <3> QED
      BY <3>1, <3>2
  <2>2. ASSUME NEW u \in Topics, NEW k \in DOMAIN callbacks'[u]
        PROVE  LET id == callbacks'[u][k].id
               IN id \in Ids' /\ subs'[id].topic = u /\ ~subs'[id].ended
    BY <1>1, <1>3 DEF BusInv, ListsInv
  <2>3. ASSUME NEW u \in Topics, NEW k \in DOMAIN queues'[u], NEW l \in DOMAIN queues'[u],
               k < l
        PROVE  queues'[u][k].id < queues'[u][l].id
    <3>1. CASE u = t /\ l = n
      <4>1. k \in DOMAIN queues[t]
        BY <1>6, <2>3, <3>1
      <4> QED
        BY <1>3, <1>4, <1>6, <3>1, <4>1 DEF BusInv, ListsInv
    <3>2. CASE u = t /\ l # n
      <4>1. l \in DOMAIN queues[t] /\ l < n /\ k \in DOMAIN queues[t]
        BY <1>6, <2>3, <3>2
      <4> QED
        BY <1>6, <2>3, <3>2, <4>1 DEF BusInv, ListsInv
    <3>3. CASE u # t
      BY <1>6, <2>3, <3>3 DEF BusInv, ListsInv
    <3> QED
      BY <3>1, <3>2, <3>3
  <2>4. ASSUME NEW u \in Topics, NEW k \in DOMAIN queues'[u], NEW l \in DOMAIN callbacks'[u]
        PROVE  queues'[u][k].id # callbacks'[u][l].id
    <3>1. CASE u = t /\ k = n
      BY <1>1, <1>3, <1>4, <1>6, <3>1 DEF BusInv, ListsInv
    <3>2. CASE ~(u = t /\ k = n)
      <4>1. k \in DOMAIN queues[u] /\ queues'[u][k] = queues[u][k]
        BY <1>6, <3>2
      <4>2. queues[u][k].id # callbacks[u][l].id
        BY <1>1, <4>1 DEF BusInv, ListsInv
      <4> QED
        BY <1>1, <4>1, <4>2
    <3> QED
      BY <3>1, <3>2
  <2>5. ASSUME NEW id \in Ids', ~subs'[id].ended
        PROVE  \/ \E k \in DOMAIN queues'[subs'[id].topic] :
                    queues'[subs'[id].topic][k].id = id
               \/ \E k \in DOMAIN callbacks'[subs'[id].topic] :
                    callbacks'[subs'[id].topic][k].id = id
    <3>1. CASE id = NextId
      BY <1>3, <1>4, <1>6, <3>1
    <3>2. CASE id # NextId
      <4>1. /\ id \in Ids /\ subs'[id] = subs[id] /\ ~subs[id].ended
            /\ subs[id].topic \in Topics
        BY <1>2, <1>3, <2>5, <3>2, SubsFacts
      <4>2. PICK u \in Topics : u = subs[id].topic
        BY <4>1
      <4>3. \A k \in DOMAIN queues[u] : k \in DOMAIN queues'[u] /\ queues'[u][k] = queues[u][k]
        BY <1>6
      <4>4. \/ \E k \in DOMAIN queues[u] : queues[u][k].id = id
            \/ \E k \in DOMAIN callbacks[u] : callbacks[u][k].id = id
        BY <4>1, <4>2 DEF BusInv, ListsInv
      <4> QED
        BY <1>1, <4>1, <4>2, <4>3, <4>4
    <3> QED
      BY <3>1, <3>2
  <2>6. \A u \in Topics : \A k, l \in DOMAIN callbacks'[u] :
          k < l => callbacks'[u][k].id < callbacks'[u][l].id
    BY <1>1 DEF BusInv, ListsInv
  <2> QED
    BY <2>1, <2>2, <2>3, <2>4, <2>5, <2>6 DEF ListsInv
<1>8. CopiesInv' /\ GivenInv' /\ NobodyForgotten'
  BY <1>3, DeliveryKeeps
<1> QED
  BY <1>1, <1>2, <1>3, <1>6, <1>7, <1>8, FrameKeeps DEF BusInv

(* subscribe(t, callback) *)
LEMMA AddCallbackStep ==
  ASSUME BusInv, SubscriberFrame, NEW t \in Topics, AddCallback(t)
  PROVE  BusInv'
<1> DEFINE n == Len(callbacks[t]) + 1
<1>1. NewSubscription(t) /\ queues' = queues
  BY DEF AddCallback
<1>2. /\ BusTypeOK /\ callbacks \in [Topics -> Seq([id : Nat])]
      /\ queues \in [Topics -> Seq(Entries)]
  BY DEF BusInv, BusTypeOK
<1>3. /\ subs' \in Seq(Subscriptions) /\ Ids' = Ids \cup {NextId} /\ NextId \notin Ids
      /\ NextId \in Nat
      /\ \A j \in Ids : subs'[j] = subs[j] /\ j < NextId
      /\ subs'[NextId] = [topic |-> t, since |-> Len(hist), ended |-> FALSE,
                          straggler |-> 0, given |-> <<>>]
  BY <1>1, <1>2, NewFacts
<1> DEFINE e == [id |-> NextId]
<1>4. e \in [id : Nat] /\ e.id = NextId
  BY <1>3
<1> HIDE DEF e
<1>5. callbacks' = [callbacks EXCEPT ![t] = Append(@, e)]
  BY DEF AddCallback, e
<1>6. /\ callbacks' \in [Topics -> Seq([id : Nat])]
      /\ \A u \in Topics : u # t => callbacks'[u] = callbacks[u]
      /\ DOMAIN callbacks'[t] = DOMAIN callbacks[t] \cup {n}
      /\ \A k \in DOMAIN callbacks[t] : callbacks'[t][k] = callbacks[t][k] /\ k < n
      /\ callbacks'[t][n] = e /\ n \in Nat /\ DOMAIN callbacks[t] \subseteq Nat
  BY <1>2, <1>4, <1>5, AppendedEntry
<1> HIDE DEF n
<1>7. ListsInv'
  <2>1. ASSUME NEW u \in Topics, NEW k \in DOMAIN callbacks'[u]
        PROVE  LET id == callbacks'[u][k].id
               IN id \in Ids' /\ subs'[id].topic = u /\ ~subs'[id].ended
    <3>1. CASE u = t /\ k = n
      BY <1>3, <1>4, <1>6, <3>1
    <3>2. CASE ~(u = t /\ k = n)
      <4>1. k \in DOMAIN callbacks[u] /\ callbacks'[u][k] = callbacks[u][k]
        BY <1>6, <3>2
      <4>2. LET id == callbacks[u][k].id
            IN id \in Ids /\ subs[id].topic = u /\ ~subs[id].ended
        BY <4>1 DEF BusInv, ListsInv
      <4> QED
        BY <1>3, <4>1, <4>2
    <3> QED
      BY <3>1, <3>2
  <2>2. ASSUME NEW u \in Topics, NEW k \in DOMAIN queues'[u]
        PROVE  LET id == queues'[u][k].id
               IN id \in Ids' /\ subs'[id].topic = u /\ ~subs'[id].ended
    BY <1>1, <1>3 DEF BusInv, ListsInv
  <2>3. ASSUME NEW u \in Topics, NEW k \in DOMAIN callbacks'[u], NEW l \in DOMAIN callbacks'[u],
               k < l
        PROVE  callbacks'[u][k].id < callbacks'[u][l].id
    <3>1. CASE u = t /\ l = n
      <4>1. k \in DOMAIN callbacks[t]
        BY <1>6, <2>3, <3>1
      <4> QED
        BY <1>3, <1>4, <1>6, <3>1, <4>1 DEF BusInv, ListsInv
    <3>2. CASE u = t /\ l # n
      <4>1. l \in DOMAIN callbacks[t] /\ l < n /\ k \in DOMAIN callbacks[t]
        BY <1>6, <2>3, <3>2
      <4> QED
        BY <1>6, <2>3, <3>2, <4>1 DEF BusInv, ListsInv
    <3>3. CASE u # t
      BY <1>6, <2>3, <3>3 DEF BusInv, ListsInv
    <3> QED
      BY <3>1, <3>2, <3>3
  <2>4. ASSUME NEW u \in Topics, NEW k \in DOMAIN callbacks'[u], NEW l \in DOMAIN queues'[u]
        PROVE  callbacks'[u][k].id # queues'[u][l].id
    <3>1. CASE u = t /\ k = n
      BY <1>1, <1>3, <1>4, <1>6, <3>1 DEF BusInv, ListsInv
    <3>2. CASE ~(u = t /\ k = n)
      <4>1. k \in DOMAIN callbacks[u] /\ callbacks'[u][k] = callbacks[u][k]
        BY <1>6, <3>2
      <4>2. callbacks[u][k].id # queues[u][l].id
        BY <1>1, <4>1 DEF BusInv, ListsInv
      <4> QED
        BY <1>1, <4>1, <4>2
    <3> QED
      BY <3>1, <3>2
  <2>5. ASSUME NEW id \in Ids', ~subs'[id].ended
        PROVE  \/ \E k \in DOMAIN callbacks'[subs'[id].topic] :
                    callbacks'[subs'[id].topic][k].id = id
               \/ \E k \in DOMAIN queues'[subs'[id].topic] :
                    queues'[subs'[id].topic][k].id = id
    <3>1. CASE id = NextId
      BY <1>3, <1>4, <1>6, <3>1
    <3>2. CASE id # NextId
      <4>1. /\ id \in Ids /\ subs'[id] = subs[id] /\ ~subs[id].ended
            /\ subs[id].topic \in Topics
        BY <1>2, <1>3, <2>5, <3>2, SubsFacts
      <4>2. PICK u \in Topics : u = subs[id].topic
        BY <4>1
      <4>3. \A k \in DOMAIN callbacks[u] :
              k \in DOMAIN callbacks'[u] /\ callbacks'[u][k] = callbacks[u][k]
        BY <1>6
      <4>4. \/ \E k \in DOMAIN callbacks[u] : callbacks[u][k].id = id
            \/ \E k \in DOMAIN queues[u] : queues[u][k].id = id
        BY <4>1, <4>2 DEF BusInv, ListsInv
      <4> QED
        BY <1>1, <4>1, <4>2, <4>3, <4>4
    <3> QED
      BY <3>1, <3>2
  <2>6. \A u \in Topics : \A k, l \in DOMAIN queues'[u] :
          k < l => queues'[u][k].id < queues'[u][l].id
    BY <1>1 DEF BusInv, ListsInv
  <2> QED
    BY <2>1, <2>2, <2>3, <2>4, <2>5, <2>6 DEF ListsInv
<1>8. CopiesInv' /\ GivenInv' /\ NobodyForgotten'
  BY <1>3, DeliveryKeeps
<1> QED
  BY <1>1, <1>2, <1>3, <1>6, <1>7, <1>8, FrameKeeps DEF BusInv

(* Entry k of the list of t is erased; the others keep their order. *)
Erased(lists, new, t, k) == new = [lists EXCEPT ![t] = Seqs!RemoveAt(@, k)]

RemovedFrom(lists, new, t, k) ==
  /\ \A u \in Topics : \A j \in DOMAIN new[u] :
       \E m \in DOMAIN lists[u] : new[u][j] = lists[u][m] /\ (u = t => m # k)
  /\ \A u \in Topics : \A i, j \in DOMAIN new[u] : i < j =>
       \E m, n \in DOMAIN lists[u] :
         m < n /\ new[u][i] = lists[u][m] /\ new[u][j] = lists[u][n]
  /\ \A u \in Topics : \A m \in DOMAIN lists[u] : (u = t => m # k) =>
       \E j \in DOMAIN new[u] : new[u][j] = lists[u][m]

LEMMA RemovedEntry ==
  ASSUME NEW E, NEW lists \in [Topics -> Seq(E)], NEW t \in Topics,
         NEW k \in DOMAIN lists[t],
         NEW new, Erased(lists, new, t, k)
  PROVE  new \in [Topics -> Seq(E)] /\ RemovedFrom(lists, new, t, k)
<1> DEFINE s == lists[t]
           r == Seqs!RemoveAt(s, k)
           At(j) == IF j < k THEN j ELSE j + 1
<1>1. s \in Seq(E) /\ Len(s) \in Nat /\ DOMAIN s = 1 .. Len(s)
  OBVIOUS
<1>2. k \in 1 .. Len(s)
  BY <1>1
<1> HIDE DEF s
<1>3. /\ r \in Seq(E) /\ Len(r) = Len(s) - 1
      /\ \A j \in 1 .. (Len(s) - 1) : r[j] = IF j < k THEN s[j] ELSE s[j + 1]
  BY <1>1, <1>2, RemoveAtProperties
<1>4. new = [lists EXCEPT ![t] = r]
  BY DEF s, Erased
<1> HIDE DEF r
<1>5. new \in [Topics -> Seq(E)] /\ new[t] = r /\ \A u \in Topics : u # t => new[u] = lists[u]
  BY <1>3, <1>4
<1>6. DOMAIN r = 1 .. (Len(s) - 1)
  BY <1>1, <1>3
<1>7. \A j \in DOMAIN r : At(j) \in DOMAIN s /\ At(j) # k /\ r[j] = s[At(j)]
  BY <1>1, <1>2, <1>3, <1>6
<1>8. \A i, j \in DOMAIN r : i < j => At(i) < At(j)
  BY <1>1, <1>2, <1>6
<1>9. \A m \in DOMAIN s : m # k => \E j \in DOMAIN r : m = At(j)
  <2> SUFFICES ASSUME NEW m \in DOMAIN s, m # k
               PROVE  \E j \in DOMAIN r : m = At(j)
    OBVIOUS
  <2>1. CASE m < k
    <3>1. m \in DOMAIN r /\ m = At(m)
      BY <1>1, <1>2, <1>6, <2>1
    <3> QED
      BY <3>1
  <2>2. CASE ~(m < k)
    <3>1. m - 1 \in DOMAIN r /\ m = At(m - 1)
      BY <1>1, <1>2, <1>6, <2>2
    <3> QED
      BY <3>1
  <2> QED
    BY <2>1, <2>2
<1> HIDE DEF At
<1>10. ASSUME NEW u \in Topics, NEW j \in DOMAIN new[u]
       PROVE  \E m \in DOMAIN lists[u] : new[u][j] = lists[u][m] /\ (u = t => m # k)
  <2>1. CASE u = t
    BY <1>5, <1>7, <2>1 DEF s
  <2>2. CASE u # t
    BY <1>5, <2>2
  <2> QED
    BY <2>1, <2>2
<1>11. ASSUME NEW u \in Topics, NEW i \in DOMAIN new[u], NEW j \in DOMAIN new[u], i < j
       PROVE  \E m, n \in DOMAIN lists[u] :
                m < n /\ new[u][i] = lists[u][m] /\ new[u][j] = lists[u][n]
  <2>1. CASE u = t
    <3>1. /\ At(i) \in DOMAIN lists[u] /\ At(j) \in DOMAIN lists[u] /\ At(i) < At(j)
          /\ new[u][i] = lists[u][At(i)] /\ new[u][j] = lists[u][At(j)]
      BY <1>5, <1>7, <1>8, <1>11, <2>1 DEF s
    <3> QED
      BY <3>1
  <2>2. CASE u # t
    BY <1>5, <1>11, <2>2
  <2> QED
    BY <2>1, <2>2
<1>12. ASSUME NEW u \in Topics, NEW m \in DOMAIN lists[u], u = t => m # k
       PROVE  \E j \in DOMAIN new[u] : new[u][j] = lists[u][m]
  <2>1. CASE u = t
    BY <1>5, <1>7, <1>9, <1>12, <2>1 DEF s
  <2>2. CASE u # t
    BY <1>5, <2>2
  <2> QED
    BY <2>1, <2>2
<1> QED
  BY <1>5, <1>10, <1>11, <1>12 DEF RemovedFrom

(* unsubscribe(id) of a queue *)
LEMMA RemoveQueueStep ==
  ASSUME BusInv, SubscriberFrame, NEW id \in Ids, ~subs[id].ended, Ending(id),
         NEW t \in Topics, NEW k \in DOMAIN queues[t], queues[t][k].id = id,
         Erased(queues, queues', t, k), UNCHANGED callbacks
  PROVE  BusInv'
<1>1. /\ BusTypeOK /\ queues \in [Topics -> Seq(Entries)]
      /\ callbacks \in [Topics -> Seq([id : Nat])]
  BY DEF BusInv, BusTypeOK
<1>2. /\ subs' \in Seq(Subscriptions) /\ Ids' = Ids
      /\ \A j \in Ids :
           /\ subs'[j].topic = subs[j].topic /\ subs'[j].since = subs[j].since
           /\ subs'[j].given = subs[j].given
           /\ j # id => subs'[j] = subs[j]
      /\ subs'[id].ended /\ subs'[id].straggler = env
  BY <1>1, EndFacts
<1>3. queues' \in [Topics -> Seq(Entries)] /\ RemovedFrom(queues, queues', t, k)
  BY <1>1, RemovedEntry
<1>4. subs[id].topic = t
  BY DEF BusInv, ListsInv
<1>5. ListsInv'
  <2>1. ASSUME NEW u \in Topics, NEW j \in DOMAIN queues'[u]
        PROVE  LET x == queues'[u][j].id
               IN x \in Ids' /\ subs'[x].topic = u /\ ~subs'[x].ended
    <3>1. PICK m \in DOMAIN queues[u] : queues'[u][j] = queues[u][m] /\ (u = t => m # k)
      BY <1>3 DEF RemovedFrom
    <3>2. PICK x : x = queues[u][m].id
      OBVIOUS
    <3>3. x \in Ids /\ subs[x].topic = u /\ ~subs[x].ended
      BY <3>2 DEF BusInv, ListsInv
    <3>4. x # id
      <4>1. CASE u = t
        <5>1. m \in Nat /\ k \in Nat /\ m # k
          BY <1>1, <3>1, <4>1
        <5>2. x \in Nat /\ id \in Nat
          BY <1>1, <3>3, SubsFacts
        <5>3. (m < k => x < id) /\ (k < m => id < x)
          BY <3>2, <4>1 DEF BusInv, ListsInv
        <5> QED
          BY <5>1, <5>2, <5>3
      <4>2. CASE u # t
        BY <1>4, <3>3, <4>2
      <4> QED
        BY <4>1, <4>2
    <3> QED
      BY <1>2, <3>1, <3>2, <3>3, <3>4
  <2>2. ASSUME NEW u \in Topics, NEW j \in DOMAIN callbacks'[u]
        PROVE  LET x == callbacks'[u][j].id
               IN x \in Ids' /\ subs'[x].topic = u /\ ~subs'[x].ended
    <3>1. PICK x : x = callbacks[u][j].id
      OBVIOUS
    <3>2. x \in Ids /\ subs[x].topic = u /\ ~subs[x].ended
      BY <3>1 DEF BusInv, ListsInv
    <3>3. x # id
      <4>1. CASE u = t
        BY <3>1, <4>1 DEF BusInv, ListsInv
      <4>2. CASE u # t
        BY <1>4, <3>2, <4>2
      <4> QED
        BY <4>1, <4>2
    <3> QED
      BY <1>2, <3>1, <3>2, <3>3
  <2>3. ASSUME NEW u \in Topics, NEW i \in DOMAIN queues'[u], NEW j \in DOMAIN queues'[u],
               i < j
        PROVE  queues'[u][i].id < queues'[u][j].id
    <3>1. PICK m \in DOMAIN queues[u], n \in DOMAIN queues[u] :
            m < n /\ queues'[u][i] = queues[u][m] /\ queues'[u][j] = queues[u][n]
      BY <1>3, <2>3 DEF RemovedFrom
    <3>2. queues[u][m].id < queues[u][n].id
      BY <3>1 DEF BusInv, ListsInv
    <3> QED
      BY <3>1, <3>2
  <2>4. \A u \in Topics : \A i, j \in DOMAIN callbacks'[u] :
          i < j => callbacks'[u][i].id < callbacks'[u][j].id
    BY DEF BusInv, ListsInv
  <2>5. ASSUME NEW u \in Topics, NEW j \in DOMAIN queues'[u], NEW l \in DOMAIN callbacks'[u]
        PROVE  queues'[u][j].id # callbacks'[u][l].id
    <3>1. PICK m \in DOMAIN queues[u] : queues'[u][j] = queues[u][m]
      BY <1>3 DEF RemovedFrom
    <3>2. queues[u][m].id # callbacks[u][l].id
      BY DEF BusInv, ListsInv
    <3> QED
      BY <3>1, <3>2
  <2>6. ASSUME NEW x \in Ids', ~subs'[x].ended
        PROVE  \/ \E j \in DOMAIN queues'[subs'[x].topic] :
                    queues'[subs'[x].topic][j].id = x
               \/ \E j \in DOMAIN callbacks'[subs'[x].topic] :
                    callbacks'[subs'[x].topic][j].id = x
    <3>1. x \in Ids /\ x # id /\ subs'[x] = subs[x] /\ ~subs[x].ended /\ subs[x].topic \in Topics
      BY <1>1, <1>2, <2>6, SubsFacts
    <3>2. PICK u \in Topics : u = subs[x].topic
      BY <3>1
    <3>3. \/ \E m \in DOMAIN queues[u] : queues[u][m].id = x
          \/ \E m \in DOMAIN callbacks[u] : callbacks[u][m].id = x
      BY <3>1, <3>2 DEF BusInv, ListsInv
    <3>4. ASSUME NEW m \in DOMAIN queues[u], queues[u][m].id = x
          PROVE  \E j \in DOMAIN queues'[u] : queues'[u][j].id = x
      <4>1. u = t => m # k
        BY <3>1, <3>4
      <4> QED
        BY <1>3, <3>4, <4>1 DEF RemovedFrom
    <3> QED
      BY <3>1, <3>2, <3>3, <3>4
  <2> QED
    BY <2>1, <2>2, <2>3, <2>4, <2>5, <2>6 DEF ListsInv
<1>6. CopiesInv' /\ GivenInv' /\ NobodyForgotten'
  <2>1. \A j \in Ids :
          /\ subs[j].ended => subs'[j].ended /\ subs'[j].straggler = subs[j].straggler
          /\ ~subs[j].ended /\ subs'[j].ended => subs'[j].straggler = env
    BY <1>2
  <2> QED
    BY <1>2, <2>1, DeliveryKeeps
<1> QED
  BY <1>1, <1>2, <1>3, <1>5, <1>6, FrameKeeps DEF BusInv

(* unsubscribe(id) of a callback *)
LEMMA RemoveCallbackStep ==
  ASSUME BusInv, SubscriberFrame, NEW id \in Ids, ~subs[id].ended, Ending(id),
         NEW t \in Topics, NEW k \in DOMAIN callbacks[t], callbacks[t][k].id = id,
         Erased(callbacks, callbacks', t, k), UNCHANGED queues
  PROVE  BusInv'
<1>1. /\ BusTypeOK /\ callbacks \in [Topics -> Seq([id : Nat])]
      /\ queues \in [Topics -> Seq(Entries)]
  BY DEF BusInv, BusTypeOK
<1>2. /\ subs' \in Seq(Subscriptions) /\ Ids' = Ids
      /\ \A j \in Ids :
           /\ subs'[j].topic = subs[j].topic /\ subs'[j].since = subs[j].since
           /\ subs'[j].given = subs[j].given
           /\ j # id => subs'[j] = subs[j]
      /\ subs'[id].ended /\ subs'[id].straggler = env
  BY <1>1, EndFacts
<1>3. callbacks' \in [Topics -> Seq([id : Nat])] /\ RemovedFrom(callbacks, callbacks', t, k)
  BY <1>1, RemovedEntry
<1>4. subs[id].topic = t
  BY DEF BusInv, ListsInv
<1>5. ListsInv'
  <2>1. ASSUME NEW u \in Topics, NEW j \in DOMAIN callbacks'[u]
        PROVE  LET x == callbacks'[u][j].id
               IN x \in Ids' /\ subs'[x].topic = u /\ ~subs'[x].ended
    <3>1. PICK m \in DOMAIN callbacks[u] : callbacks'[u][j] = callbacks[u][m] /\ (u = t => m # k)
      BY <1>3 DEF RemovedFrom
    <3>2. PICK x : x = callbacks[u][m].id
      OBVIOUS
    <3>3. x \in Ids /\ subs[x].topic = u /\ ~subs[x].ended
      BY <3>2 DEF BusInv, ListsInv
    <3>4. x # id
      <4>1. CASE u = t
        <5>1. m \in Nat /\ k \in Nat /\ m # k
          BY <1>1, <3>1, <4>1
        <5>2. x \in Nat /\ id \in Nat
          BY <1>1, <3>3, SubsFacts
        <5>3. (m < k => x < id) /\ (k < m => id < x)
          BY <3>2, <4>1 DEF BusInv, ListsInv
        <5> QED
          BY <5>1, <5>2, <5>3
      <4>2. CASE u # t
        BY <1>4, <3>3, <4>2
      <4> QED
        BY <4>1, <4>2
    <3> QED
      BY <1>2, <3>1, <3>2, <3>3, <3>4
  <2>2. ASSUME NEW u \in Topics, NEW j \in DOMAIN queues'[u]
        PROVE  LET x == queues'[u][j].id
               IN x \in Ids' /\ subs'[x].topic = u /\ ~subs'[x].ended
    <3>1. PICK x : x = queues[u][j].id
      OBVIOUS
    <3>2. x \in Ids /\ subs[x].topic = u /\ ~subs[x].ended
      BY <3>1 DEF BusInv, ListsInv
    <3>3. x # id
      <4>1. CASE u = t
        BY <3>1, <4>1 DEF BusInv, ListsInv
      <4>2. CASE u # t
        BY <1>4, <3>2, <4>2
      <4> QED
        BY <4>1, <4>2
    <3> QED
      BY <1>2, <3>1, <3>2, <3>3
  <2>3. ASSUME NEW u \in Topics, NEW i \in DOMAIN callbacks'[u], NEW j \in DOMAIN callbacks'[u],
               i < j
        PROVE  callbacks'[u][i].id < callbacks'[u][j].id
    <3>1. PICK m \in DOMAIN callbacks[u], n \in DOMAIN callbacks[u] :
            m < n /\ callbacks'[u][i] = callbacks[u][m] /\ callbacks'[u][j] = callbacks[u][n]
      BY <1>3, <2>3 DEF RemovedFrom
    <3>2. callbacks[u][m].id < callbacks[u][n].id
      BY <3>1 DEF BusInv, ListsInv
    <3> QED
      BY <3>1, <3>2
  <2>4. \A u \in Topics : \A i, j \in DOMAIN queues'[u] :
          i < j => queues'[u][i].id < queues'[u][j].id
    BY DEF BusInv, ListsInv
  <2>5. ASSUME NEW u \in Topics, NEW j \in DOMAIN callbacks'[u], NEW l \in DOMAIN queues'[u]
        PROVE  callbacks'[u][j].id # queues'[u][l].id
    <3>1. PICK m \in DOMAIN callbacks[u] : callbacks'[u][j] = callbacks[u][m]
      BY <1>3 DEF RemovedFrom
    <3>2. callbacks[u][m].id # queues[u][l].id
      BY DEF BusInv, ListsInv
    <3> QED
      BY <3>1, <3>2
  <2>6. ASSUME NEW x \in Ids', ~subs'[x].ended
        PROVE  \/ \E j \in DOMAIN callbacks'[subs'[x].topic] :
                    callbacks'[subs'[x].topic][j].id = x
               \/ \E j \in DOMAIN queues'[subs'[x].topic] :
                    queues'[subs'[x].topic][j].id = x
    <3>1. x \in Ids /\ x # id /\ subs'[x] = subs[x] /\ ~subs[x].ended /\ subs[x].topic \in Topics
      BY <1>1, <1>2, <2>6, SubsFacts
    <3>2. PICK u \in Topics : u = subs[x].topic
      BY <3>1
    <3>3. \/ \E m \in DOMAIN callbacks[u] : callbacks[u][m].id = x
          \/ \E m \in DOMAIN queues[u] : queues[u][m].id = x
      BY <3>1, <3>2 DEF BusInv, ListsInv
    <3>4. ASSUME NEW m \in DOMAIN callbacks[u], callbacks[u][m].id = x
          PROVE  \E j \in DOMAIN callbacks'[u] : callbacks'[u][j].id = x
      <4>1. u = t => m # k
        BY <3>1, <3>4
      <4> QED
        BY <1>3, <3>4, <4>1 DEF RemovedFrom
    <3> QED
      BY <3>1, <3>2, <3>3, <3>4
  <2> QED
    BY <2>1, <2>2, <2>3, <2>4, <2>5, <2>6 DEF ListsInv
<1>6. CopiesInv' /\ GivenInv' /\ NobodyForgotten'
  <2>1. \A j \in Ids :
          /\ subs[j].ended => subs'[j].ended /\ subs'[j].straggler = subs[j].straggler
          /\ ~subs[j].ended /\ subs'[j].ended => subs'[j].straggler = env
    BY <1>2
  <2> QED
    BY <1>2, <2>1, DeliveryKeeps
<1> QED
  BY <1>1, <1>2, <1>3, <1>5, <1>6, FrameKeeps DEF BusInv

(* A step of the subscribers keeps the invariant. *)
LEMMA SubscribersStep ==
  ASSUME BusInv, SubscriberFrame, ChangeSubscribers
  PROVE  BusInv'
<1>1. ASSUME NEW t \in Topics, NEW q \in Queues, AddQueue(t, q) PROVE BusInv'
  BY <1>1, AddQueueStep
<1>2. ASSUME NEW t \in Topics, AddCallback(t) PROVE BusInv'
  BY <1>2, AddCallbackStep
<1>3. ASSUME NEW id \in Ids, Remove(id) PROVE BusInv'
  BY <1>3, RemoveQueueStep, RemoveCallbackStep DEF Remove, Ending, Erased
<1> QED
  BY <1>1, <1>2, <1>3 DEF ChangeSubscribers, Ids

----------------------------------------------------------------------------
(* The bus queue and the thread that starts and stops the bus.             *)

(* Steps that hand out no ticket and give nobody a message: what is about  *)
(* deliveries is kept.                                                     *)
LEMMA QuietKeeps ==
  ASSUME BusInv,
         UNCHANGED <<queues, callbacks, subs, env, qcopy, ccopy, lost, dropped>>,
         NotCopied' = NotCopied,
         TicketTypeOK', Len(hist) <= Len(hist'),
         \A p \in Publishers : pub'[p] <= Len(hist'),
         \A i \in Tickets : hist'[i].val = hist[i].val /\ Out(i)' = Out(i),
         \A i \in Tickets' \ Tickets : ~Out(i)'
  PROVE  TicketsInv' /\ ListsInv' /\ CopiesInv' /\ GivenInv' /\ NobodyForgotten'
<1>1. /\ Len(hist) \in Nat /\ Tickets = 1 .. Len(hist)
      /\ Len(hist') \in Nat /\ Tickets' = 1 .. Len(hist')
  <2>1. Len(hist) \in Nat /\ Tickets = 1 .. Len(hist)
    BY HistFacts DEF BusInv, BusTypeOK
  <2>2. Len(hist') \in Nat /\ Tickets' = 1 .. Len(hist')
    BY DEF TicketTypeOK, Tickets
  <2> QED
    BY <2>1, <2>2
<1>2. Tickets \subseteq Tickets'
  BY <1>1
<1>3. TicketsInv'
  <2>1. ASSUME NEW i \in Tickets', NEW j \in Tickets', j < i, Out(i)'
        PROVE  Out(j)'
    <3>1. i \in Tickets /\ j \in Tickets
      BY <1>1, <2>1
    <3> QED
      BY <2>1, <3>1 DEF BusInv, TicketsInv
  <2>2. ASSUME env' # 0
        PROVE  env' \in Tickets' /\ Out(env)' /\ \A i \in Tickets' : env' < i => ~Out(i)'
    BY <1>2, <2>2 DEF BusInv, TicketsInv
  <2> QED
    BY <2>1, <2>2 DEF TicketsInv
<1>4. ListsInv'
  BY DEF BusInv, ListsInv, Ids
<1>5. \A id \in Ids : Given(id)' = Given(id)
  BY DEF Given
<1>6. Ids' = Ids
  BY DEF Ids
<1>7. CopiesInv'
  <2>1. CASE env = 0
    BY <2>1 DEF BusInv, BusTypeOK, CopiesInv
  <2>2. CASE env # 0
    <3>1. hist'[env].val = hist[env].val
      BY <2>2 DEF BusInv, TicketsInv
    <3>2. ASSUME NEW id, Owed(id) PROVE Owed(id)'
      BY <1>5, <1>6, <3>1, <3>2 DEF Owed
    <3> QED
      BY <3>2 DEF BusInv, CopiesInv
  <2> QED
    BY <2>1, <2>2
<1>8. GivenInv'
  <2>1. ASSUME NEW id \in Ids', NEW i \in Given(id)'
        PROVE  /\ i \in Tickets' /\ Out(i)' /\ hist'[i].val = subs'[id].topic
               /\ NotCopied' => i # env'
    BY <1>2, <1>5, <1>6, <2>1 DEF BusInv, GivenInv
  <2>2. \A id \in Ids' : \A k, l \in DOMAIN subs'[id].given :
          k < l => subs'[id].given[k] < subs'[id].given[l]
    BY <1>6 DEF BusInv, GivenInv
  <2>3. \A x \in lost' : x[2] \in Tickets' /\ Out(x[2])' /\ (NotCopied' => x[2] # env')
    BY <1>2 DEF BusInv, GivenInv
  <2> QED
    BY <2>1, <2>2, <2>3 DEF BusInv, GivenInv
<1>9. NobodyForgotten'
  <2> SUFFICES ASSUME NEW id \in Ids', NEW i \in Tickets', Out(i)', ~subs'[id].ended,
                      subs'[id].since < i, hist'[i].val = subs'[id].topic
               PROVE  \/ i \in Given(id)' \/ <<id, i>> \in lost'
                      \/ i = env' /\ (NotCopied' \/ Pending(id)')
    BY DEF NobodyForgotten
  <2>1. i \in Tickets /\ id \in Ids
    BY <1>6
  <2>2. Pending(id)' = Pending(id)
    BY DEF Pending
  <2>3. \/ i \in Given(id) \/ <<id, i>> \in lost
        \/ i = env /\ (NotCopied \/ Pending(id))
    BY <2>1 DEF BusInv, NobodyForgotten
  <2> QED
    BY <1>5, <2>1, <2>2, <2>3
<1> QED
  BY <1>3, <1>4, <1>7, <1>8, <1>9

(* The same where the bus queue is left alone. *)
LEMMA IdleKeeps ==
  ASSUME BusInv, NotCopied' = NotCopied,
         UNCHANGED <<hist, pub, queues, callbacks, subs, env, qcopy, ccopy, lost, dropped>>
  PROVE  TicketsInv' /\ ListsInv' /\ CopiesInv' /\ GivenInv' /\ NobodyForgotten'
<1>1. Tickets' = Tickets /\ \A i \in Tickets : Out(i)' = Out(i)
  BY DEF Tickets, Out
<1>2. TicketTypeOK' /\ Len(hist) <= Len(hist')
  BY HistFacts DEF BusInv, BusTypeOK, TicketTypeOK
<1>3. \A p \in Publishers : pub'[p] <= Len(hist')
  BY DEF BusInv, TicketsInv
<1> QED
  BY <1>1, <1>2, <1>3, QuietKeeps

LEMMA ClaimEnvelopeStep ==
  ASSUME BusInv, NEW p \in Publishers, NEW t \in Topics, ClaimEnvelope(p, t)
  PROVE  BusInv'
<1> USE DEF ClaimEnvelope, subVars, ctlVars, outVars, loopVars
<1>1. TicketTypeOK /\ t \in Values /\ Claim(t)
  BY DEF BusInv, BusTypeOK, Topics
<1>2. /\ TicketTypeOK' /\ Len(hist') = Len(hist) + 1
      /\ Tickets' = 1 .. (Len(hist) + 1)
      /\ \A i \in Tickets : hist'[i] = hist[i]
      /\ hist'[Len(hist) + 1] = [val |-> t, stage |-> "claimed"]
  BY <1>1, ClaimFacts
<1>3. Len(hist) \in Nat /\ Tickets = 1 .. Len(hist)
  BY <1>1, HistFacts
<1>4. /\ \A i \in Tickets : hist'[i].val = hist[i].val /\ Out(i)' = Out(i)
      /\ \A i \in Tickets' \ Tickets : ~Out(i)'
  <2>1. ASSUME NEW i \in Tickets' \ Tickets PROVE ~Out(i)'
    <3>1. i = Len(hist) + 1
      BY <1>2, <1>3
    <3> QED
      BY <1>2, <3>1 DEF Out
  <2> QED
    BY <1>2, <2>1 DEF Out
<1>5. pub' \in [Publishers -> Nat] /\ \A r \in Publishers : pub'[r] <= Len(hist')
  BY <1>2, <1>3 DEF BusInv, BusTypeOK, TicketsInv
<1>6. TicketsInv' /\ ListsInv' /\ CopiesInv' /\ GivenInv' /\ NobodyForgotten'
  BY <1>2, <1>3, <1>4, <1>5, QuietKeeps DEF NotCopied
<1>7. BusTypeOK'
  BY <1>2, <1>5 DEF BusInv, BusTypeOK
<1>8. ControlInv'
  BY DEF BusInv, ControlInv, Working
<1>9. DueInv'
  <2> SUFFICES ASSUME main = "join", NEW i \in due
               PROVE  /\ i \in Tickets'
                      /\ \A j \in 1 .. i : hist'[j].stage # "claimed"
                      /\ dpc = "exited" => Out(i)'
    BY DEF DueInv
  <2>1. i \in Tickets /\ (\A j \in 1 .. i : hist[j].stage # "claimed")
        /\ (dpc = "exited" => Out(i))
    BY DEF BusInv, DueInv
  <2>2. i \in Tickets' /\ 1 .. i \subseteq Tickets
    BY <1>2, <1>3, <2>1
  <2> QED
    BY <1>2, <1>4, <2>1, <2>2
<1> QED
  BY <1>6, <1>7, <1>8, <1>9 DEF BusInv

(* A stage that is neither the first nor crosses the head cursor. *)
LEMMA StageStep ==
  ASSUME BusInv, NEW i \in Tickets, NEW stage \in Stages \ {"claimed"},
         hist' = [hist EXCEPT ![i].stage = stage],
         (stage \in {"taken", "freed"}) = Out(i)
  PROVE  /\ TicketTypeOK' /\ Len(hist) <= Len(hist') /\ Len(hist') = Len(hist)
         /\ \A j \in Tickets : hist'[j].val = hist[j].val /\ Out(j)' = Out(j)
         /\ Tickets' = Tickets
         /\ UNCHANGED <<main, due>> /\ (dpc' = "exited" => dpc = "exited") => DueInv'
<1>1. TicketTypeOK /\ Len(hist) \in Nat /\ Tickets = 1 .. Len(hist)
  BY HistFacts DEF BusInv, BusTypeOK
<1>2. /\ TicketTypeOK' /\ Len(hist') = Len(hist) /\ Tickets' = Tickets
      /\ \A j \in Tickets : hist'[j].val = hist[j].val /\ (j # i => hist'[j] = hist[j])
      /\ hist'[i].stage = stage
  BY <1>1, StageFacts
<1>3. \A j \in Tickets : Out(j)' = Out(j)
  BY <1>2 DEF Out
<1>4. ASSUME UNCHANGED <<main, due>>, dpc' = "exited" => dpc = "exited" PROVE DueInv'
  <2> SUFFICES ASSUME main = "join", NEW k \in due
               PROVE  /\ k \in Tickets'
                      /\ \A j \in 1 .. k : hist'[j].stage # "claimed"
                      /\ dpc' = "exited" => Out(k)'
    BY <1>4 DEF DueInv
  <2>1. k \in Tickets /\ (\A j \in 1 .. k : hist[j].stage # "claimed")
        /\ (dpc = "exited" => Out(k))
    BY DEF BusInv, DueInv
  <2>2. 1 .. k \subseteq Tickets
    BY <1>1, <2>1
  <2> QED
    BY <1>2, <1>3, <1>4, <2>1, <2>2
<1> QED
  BY <1>1, <1>2, <1>3, <1>4

LEMMA PublishEnvelopeStep ==
  ASSUME BusInv, NEW p \in Publishers, PublishEnvelope(p)
  PROVE  BusInv'
<1> USE DEF PublishEnvelope, subVars, ctlVars, outVars, loopVars
<1>1. PICK i : i = pub[p]
  OBVIOUS
<1>2. i \in Tickets /\ hist[i].stage = "claimed"
  <2>1. Len(hist) \in Nat /\ Tickets = 1 .. Len(hist) /\ i \in Nat /\ i # 0 /\ i <= Len(hist)
    BY <1>1, HistFacts DEF BusInv, BusTypeOK, TicketsInv
  <2> QED
    BY <1>1, <2>1 DEF Publish
<1>3. hist' = [hist EXCEPT ![i].stage = "ready"]
  BY <1>1 DEF Publish
<1>4. /\ TicketTypeOK' /\ Len(hist) <= Len(hist') /\ Len(hist') = Len(hist)
      /\ \A j \in Tickets : hist'[j].val = hist[j].val /\ Out(j)' = Out(j)
      /\ Tickets' = Tickets /\ DueInv'
  <2>1. "ready" \in Stages \ {"claimed"} /\ ("ready" \in {"taken", "freed"}) = Out(i)
    BY <1>2 DEF Stages, Out
  <2> QED
    BY <1>2, <1>3, <2>1, StageStep
<1>5. pub' \in [Publishers -> Nat] /\ \A r \in Publishers : pub'[r] <= Len(hist')
  <2>1. Len(hist) \in Nat
    BY HistFacts DEF BusInv, BusTypeOK
  <2> QED
    BY <1>4, <2>1 DEF BusInv, BusTypeOK, TicketsInv
<1>6. TicketsInv' /\ ListsInv' /\ CopiesInv' /\ GivenInv' /\ NobodyForgotten'
  BY <1>4, <1>5, QuietKeeps DEF NotCopied
<1>7. BusTypeOK'
  BY <1>4, <1>5 DEF BusInv, BusTypeOK
<1>8. ControlInv'
  BY DEF BusInv, ControlInv, Working
<1> QED
  BY <1>4, <1>6, <1>7, <1>8 DEF BusInv

LEMMA ReceiveStep ==
  ASSUME BusInv, NEW q \in Queues, Receive(q)
  PROVE  BusInv'
<1> USE DEF Receive, busVars, subVars, ctlVars, loopVars
<1>1. TicketsInv' /\ ListsInv' /\ CopiesInv' /\ GivenInv' /\ NobodyForgotten'
  BY IdleKeeps DEF NotCopied
<1>2. inbox' \in [Queues -> Seq(Nat)]
  <2>1. inbox[q] \in Seq(Nat) /\ inbox[q] # <<>>
    BY DEF BusInv, BusTypeOK
  <2>2. Tail(inbox[q]) \in Seq(Nat)
    BY <2>1
  <2> QED
    BY <2>2 DEF BusInv, BusTypeOK
<1>3. BusTypeOK'
  BY <1>2 DEF BusInv, BusTypeOK, TicketTypeOK
<1>4. ControlInv' /\ DueInv'
  BY DEF BusInv, ControlInv, Working, DueInv, Tickets, Out
<1> QED
  BY <1>1, <1>3, <1>4 DEF BusInv

LEMMA StartStep == BusInv /\ Start => BusInv'
<1> SUFFICES ASSUME BusInv, Start PROVE BusInv'
  OBVIOUS
<1> USE DEF Start, busVars, subVars, outVars
<1>1. dpc \in {"none", "exited"}
  BY DEF BusInv, ControlInv, Working
<1>2. TicketsInv' /\ ListsInv' /\ CopiesInv' /\ GivenInv' /\ NobodyForgotten'
  <2>1. NotCopied' = NotCopied
    BY <1>1 DEF NotCopied
  <2> QED
    BY <2>1, IdleKeeps
<1>3. BusTypeOK'
  BY <1>1 DEF BusInv, BusTypeOK, TicketTypeOK
<1>4. ControlInv' /\ DueInv'
  BY DEF BusInv, ControlInv, Working, DueInv
<1> QED
  BY <1>2, <1>3, <1>4 DEF BusInv

LEMMA StopStep == BusInv /\ Stop => BusInv'
<1> SUFFICES ASSUME BusInv, Stop PROVE BusInv'
  OBVIOUS
<1> USE DEF Stop, busVars, subVars, outVars, loopVars
<1>1. TicketsInv' /\ ListsInv' /\ CopiesInv' /\ GivenInv' /\ NobodyForgotten'
  BY IdleKeeps DEF NotCopied
<1>2. Len(hist) \in Nat /\ Tickets = 1 .. Len(hist)
  BY HistFacts DEF BusInv, BusTypeOK
<1>3. due' \subseteq Nat
  BY <1>2 DEF Reachable
<1>4. BusTypeOK'
  BY <1>3 DEF BusInv, BusTypeOK, TicketTypeOK
<1>5. ControlInv'
  BY DEF BusInv, ControlInv, Working
<1>6. DueInv'
  BY DEF BusInv, BusTypeOK, DueInv, Reachable, Tickets
<1> QED
  BY <1>1, <1>4, <1>5, <1>6 DEF BusInv

LEMMA JoinStep == BusInv /\ Join => BusInv'
<1> SUFFICES ASSUME BusInv, Join PROVE BusInv'
  OBVIOUS
<1> USE DEF Join, busVars, subVars, outVars, loopVars
<1>1. TicketsInv' /\ ListsInv' /\ CopiesInv' /\ GivenInv' /\ NobodyForgotten'
  BY IdleKeeps DEF NotCopied
<1>2. BusTypeOK'
  BY DEF BusInv, BusTypeOK, TicketTypeOK
<1>3. ControlInv' /\ DueInv'
  BY DEF BusInv, ControlInv, Working, DueInv
<1> QED
  BY <1>1, <1>2, <1>3 DEF BusInv

----------------------------------------------------------------------------
(* The dispatch thread.                                                    *)

LEMMA CheckRunningStep == BusInv /\ CheckRunning => BusInv'
<1> SUFFICES ASSUME BusInv, CheckRunning PROVE BusInv'
  OBVIOUS
<1> USE DEF CheckRunning, busVars, subVars, ctlVars, outVars
<1>1. TicketsInv' /\ ListsInv' /\ CopiesInv' /\ GivenInv' /\ NobodyForgotten'
  BY IdleKeeps DEF NotCopied
<1>2. BusTypeOK'
  BY DEF BusInv, BusTypeOK, TicketTypeOK
<1>3. ControlInv' /\ DueInv'
  BY DEF BusInv, BusTypeOK, ControlInv, Working, DueInv, Tickets
<1> QED
  BY <1>1, <1>2, <1>3 DEF BusInv

LEMMA FindNothingStep == BusInv /\ FindNothing => BusInv'
<1> SUFFICES ASSUME BusInv, FindNothing PROVE BusInv'
  OBVIOUS
<1> USE DEF FindNothing, busVars, subVars, ctlVars, outVars
<1>1. dpc = "consume" /\ (dpc' = "exited" => draining) /\ dpc' \in {"check", "exited"}
  OBVIOUS
<1>2. TicketsInv' /\ ListsInv' /\ CopiesInv' /\ GivenInv' /\ NobodyForgotten'
  <2>1. NotCopied' = NotCopied
    BY <1>1 DEF NotCopied
  <2> QED
    BY <2>1, IdleKeeps
<1>3. running => dpc' # "exited"
  BY <1>1 DEF BusInv, ControlInv, Working
<1>4. BusTypeOK'
  BY <1>1, <1>3 DEF BusInv, BusTypeOK, TicketTypeOK
<1>5. ControlInv'
  BY <1>1 DEF BusInv, ControlInv, Working
<1>6. DueInv'
  <2> SUFFICES ASSUME main = "join", NEW i \in due
               PROVE  /\ i \in Tickets
                      /\ \A j \in 1 .. i : hist[j].stage # "claimed"
                      /\ Out(i)
    BY DEF DueInv, Tickets, Out
  <2>1. i \in Tickets /\ \A j \in 1 .. i : hist[j].stage # "claimed"
    BY DEF BusInv, DueInv
  <2>2. Out(i)
    BY <2>1, NothingReady DEF BusInv, BusTypeOK
  <2> QED
    BY <2>1, <2>2
<1> QED
  BY <1>2, <1>4, <1>5, <1>6 DEF BusInv

LEMMA FreeEnvelopeStep == BusInv /\ FreeEnvelope => BusInv'
<1> SUFFICES ASSUME BusInv, FreeEnvelope PROVE BusInv'
  OBVIOUS
<1> USE DEF FreeEnvelope, subVars, ctlVars, outVars
<1>1. env \in Tickets /\ Out(env) /\ dpc = "free" /\ dpc' = "lock"
  BY DEF BusInv, BusTypeOK, TicketsInv
<1>2. hist' = [hist EXCEPT ![env].stage = "freed"]
  BY DEF Free
<1>3. /\ TicketTypeOK' /\ Len(hist) <= Len(hist') /\ Len(hist') = Len(hist)
      /\ \A j \in Tickets : hist'[j].val = hist[j].val /\ Out(j)' = Out(j)
      /\ Tickets' = Tickets /\ DueInv'
  <2>1. "freed" \in Stages \ {"claimed"} /\ ("freed" \in {"taken", "freed"}) = Out(env)
    BY <1>1 DEF Stages
  <2> QED
    BY <1>1, <1>2, <2>1, StageStep
<1>4. TicketsInv' /\ ListsInv' /\ CopiesInv' /\ GivenInv' /\ NobodyForgotten'
  <2>1. NotCopied' = NotCopied
    BY <1>1 DEF NotCopied
  <2>2. \A p \in Publishers : pub'[p] <= Len(hist')
    BY <1>3 DEF BusInv, TicketsInv
  <2> QED
    BY <1>3, <2>1, <2>2, QuietKeeps
<1>5. BusTypeOK'
  BY <1>1, <1>3 DEF BusInv, BusTypeOK
<1>6. ControlInv'
  BY DEF BusInv, ControlInv, Working
<1> QED
  BY <1>3, <1>4, <1>5, <1>6 DEF BusInv

LEMMA LockListsStep == BusInv /\ LockLists => BusInv'
<1> SUFFICES ASSUME BusInv, LockLists PROVE BusInv'
  OBVIOUS
<1> USE DEF LockLists, busVars, subVars, ctlVars, outVars
<1>1. TicketsInv' /\ ListsInv' /\ CopiesInv' /\ GivenInv' /\ NobodyForgotten'
  <2>1. NotCopied' = NotCopied
    BY DEF NotCopied
  <2> QED
    BY <2>1, IdleKeeps
<1>2. BusTypeOK'
  BY DEF BusInv, BusTypeOK, TicketTypeOK
<1>3. ControlInv' /\ DueInv'
  BY DEF BusInv, ControlInv, Working, DueInv, Tickets, Out
<1> QED
  BY <1>1, <1>2, <1>3 DEF BusInv

(* Between two envelopes nothing is under way. *)
LEMMA TakeEnvelopeStep == BusInv /\ TakeEnvelope => BusInv'
<1> SUFFICES ASSUME BusInv, TakeEnvelope PROVE BusInv'
  OBVIOUS
<1> USE DEF TakeEnvelope, subVars, ctlVars, outVars
<1>1. PICK i \in Tickets : Take(i) /\ env' = i
  OBVIOUS
<1>2. /\ TicketTypeOK /\ Len(hist) \in Nat /\ Tickets = 1 .. Len(hist)
      /\ dpc = "consume" /\ env = 0 /\ qcopy = <<>> /\ ccopy = <<>>
  BY HistFacts DEF BusInv, BusTypeOK
<1>3. ~Out(i) /\ \A j \in Tickets : j < i => Out(j)
  BY <1>1, <1>2 DEF Take, IsHead
<1>4. /\ TicketTypeOK' /\ Len(hist') = Len(hist) /\ Tickets' = Tickets
      /\ \A j \in Tickets : hist'[j].val = hist[j].val /\ (j # i => hist'[j] = hist[j])
      /\ hist'[i].stage = "taken"
  <2>1. hist' = [hist EXCEPT ![i].stage = "taken"] /\ "taken" \in Stages
    BY <1>1 DEF Take, Stages
  <2> QED
    BY <1>2, <2>1, StageFacts
<1>5. Out(i)' /\ \A j \in Tickets : j # i => Out(j)' = Out(j)
  BY <1>4 DEF Out
<1>6. \A j \in Tickets : i < j => ~Out(j)
  BY <1>3 DEF BusInv, TicketsInv
<1>7. TicketsInv'
  <2>1. ASSUME NEW k \in Tickets, NEW j \in Tickets, j < k, Out(k)'
        PROVE  Out(j)'
    <3>1. CASE k = i
      BY <1>3, <1>5, <2>1, <3>1
    <3>2. CASE k # i
      <4>1. Out(k)
        BY <1>5, <2>1, <3>2
      <4>2. Out(j)
        BY <2>1, <4>1 DEF BusInv, TicketsInv
      <4> QED
        BY <1>5, <4>2
    <3> QED
      BY <3>1, <3>2
  <2>2. \A k \in Tickets : i < k => ~Out(k)'
    <3> TAKE k \in Tickets
    <3> HAVE i < k
    <3>1. k # i
      BY <1>2
    <3> QED
      BY <1>5, <1>6, <3>1
  <2>3. \A p \in Publishers : pub'[p] <= Len(hist')
    BY <1>4 DEF BusInv, TicketsInv
  <2> QED
    BY <1>1, <1>4, <1>5, <2>1, <2>2, <2>3 DEF TicketsInv
<1>8. ListsInv' /\ ControlInv'
  BY <1>2 DEF BusInv, ListsInv, Ids, ControlInv, Working
<1>9. CopiesInv'
  BY <1>2 DEF CopiesInv
<1>10. Ids' = Ids /\ \A id \in Ids : Given(id)' = Given(id)
  BY DEF Ids, Given
<1>11. GivenInv'
  <2>1. ASSUME NEW id \in Ids, NEW j \in Given(id)
        PROVE  j \in Tickets' /\ Out(j)' /\ hist'[j].val = subs'[id].topic /\ j # i
    BY <1>3, <1>4, <1>5, <2>1 DEF BusInv, GivenInv
  <2>2. \A x \in lost : x[2] \in Tickets' /\ Out(x[2])' /\ x[2] # i
    BY <1>3, <1>4, <1>5 DEF BusInv, GivenInv
  <2>3. \A id \in Ids : \A k, l \in DOMAIN subs[id].given :
          k < l => subs[id].given[k] < subs[id].given[l]
    BY DEF BusInv, GivenInv
  <2>4. IsFiniteSet(lost) /\ dropped = Cardinality(lost)
    BY DEF BusInv, GivenInv
  <2> QED
    BY <1>1, <1>10, <2>1, <2>2, <2>3, <2>4 DEF GivenInv
<1>12. NobodyForgotten'
  <2> SUFFICES ASSUME NEW id \in Ids', NEW j \in Tickets', Out(j)', ~subs'[id].ended,
                      subs'[id].since < j, hist'[j].val = subs'[id].topic
               PROVE  \/ j \in Given(id)' \/ <<id, j>> \in lost'
                      \/ j = env' /\ (NotCopied' \/ Pending(id)')
    BY DEF NobodyForgotten
  <2>1. CASE j = i
    BY <1>1, <2>1 DEF NotCopied
  <2>2. CASE j # i
    <3>1. j \in Tickets /\ Out(j) /\ hist[j].val = subs[id].topic /\ j # env
      BY <1>2, <1>4, <1>5, <2>2
    <3> QED
      BY <1>10, <3>1 DEF BusInv, NobodyForgotten
  <2> QED
    BY <2>1, <2>2
<1>13. DueInv'
  <2> SUFFICES ASSUME main = "join", NEW k \in due
               PROVE  k \in Tickets' /\ \A j \in 1 .. k : hist'[j].stage # "claimed"
    BY DEF DueInv
  <2>1. k \in Tickets /\ \A j \in 1 .. k : hist[j].stage # "claimed"
    BY DEF BusInv, DueInv
  <2>2. 1 .. k \subseteq Tickets
    BY <1>2, <2>1
  <2> QED
    BY <1>4, <2>1, <2>2
<1>14. BusTypeOK'
  <2>1. env' \in Nat /\ env' # 0
    BY <1>1, <1>2
  <2> QED
    BY <1>2, <1>4, <2>1 DEF BusInv, BusTypeOK
<1> QED
  BY <1>7, <1>8, <1>9, <1>11, <1>12, <1>13, <1>14 DEF BusInv

LEMMA CopyListsStep == BusInv /\ CopyLists => BusInv'
<1> SUFFICES ASSUME BusInv, CopyLists PROVE BusInv'
  OBVIOUS
<1> USE DEF CopyLists, busVars, subVars, ctlVars, outVars
<1>1. /\ env # 0 /\ env \in Tickets /\ Out(env) /\ NotCopied /\ dpc = "copy"
      /\ hist[env].val \in Topics
  BY HistFacts DEF BusInv, BusTypeOK, TicketsInv, NotCopied, Topics
<1>2. PICK t \in Topics : t = hist[env].val
  BY <1>1
<1>3. qcopy' = queues[t] /\ ccopy' = callbacks[t]
  BY <1>2
<1>4. /\ queues[t] \in Seq(Entries) /\ callbacks[t] \in Seq([id : Nat])
      /\ Tickets' = Tickets /\ Ids' = Ids /\ \A id \in Ids : Given(id)' = Given(id)
      /\ \A i \in Tickets : Out(i)' = Out(i)
  BY DEF BusInv, BusTypeOK, Tickets, Ids, Given, Out
<1>5. ASSUME NEW id \in Ids, subs[id].topic = t, ~subs[id].ended
      PROVE  Owed(id)'
  <2>1. env \notin Given(id)
    BY <1>1 DEF BusInv, GivenInv
  <2>2. <<id, env>> \notin lost
    <3> SUFFICES ASSUME <<id, env>> \in lost PROVE FALSE
      OBVIOUS
    <3>1. <<id, env>>[2] # env
      BY <1>1 DEF BusInv, GivenInv
    <3> QED
      BY <3>1
  <2> QED
    BY <1>2, <1>4, <1>5, <2>1, <2>2 DEF Owed
<1>6. CopiesInv'
  <2>1. /\ \A k, l \in DOMAIN queues[t] : k < l => queues[t][k].id < queues[t][l].id
        /\ \A k, l \in DOMAIN callbacks[t] : k < l => callbacks[t][k].id < callbacks[t][l].id
        /\ \A k \in DOMAIN queues[t], l \in DOMAIN callbacks[t] :
             queues[t][k].id # callbacks[t][l].id
    BY DEF BusInv, ListsInv
  <2>2. \A k \in DOMAIN queues[t] : Owed(queues[t][k].id)'
    <3> TAKE k \in DOMAIN queues[t]
    <3>1. PICK id : id = queues[t][k].id
      OBVIOUS
    <3>2. id \in Ids /\ subs[id].topic = t /\ ~subs[id].ended
      BY <3>1 DEF BusInv, ListsInv
    <3>3. Owed(id)'
      BY <1>5, <3>2
    <3> QED
      BY <3>1, <3>3 DEF Owed
  <2>3. \A k \in DOMAIN callbacks[t] : Owed(callbacks[t][k].id)'
    <3> TAKE k \in DOMAIN callbacks[t]
    <3>1. PICK id : id = callbacks[t][k].id
      OBVIOUS
    <3>2. id \in Ids /\ subs[id].topic = t /\ ~subs[id].ended
      BY <3>1 DEF BusInv, ListsInv
    <3>3. Owed(id)'
      BY <1>5, <3>2
    <3> QED
      BY <3>1, <3>3 DEF Owed
  <2> QED
    BY <1>3, <2>1, <2>2, <2>3 DEF CopiesInv
<1>7. GivenInv'
  BY <1>4 DEF BusInv, GivenInv, NotCopied
<1>8. NobodyForgotten'
  <2> SUFFICES ASSUME NEW id \in Ids, NEW i \in Tickets, Out(i), ~subs[id].ended,
                      subs[id].since < i, hist[i].val = subs[id].topic
               PROVE  \/ i \in Given(id) \/ <<id, i>> \in lost
                      \/ i = env /\ Pending(id)'
    BY <1>4 DEF NobodyForgotten
  <2>1. CASE i = env
    <3>1. /\ subs[id].topic = t
          /\ \/ \E k \in DOMAIN queues[t] : queues[t][k].id = id
             \/ \E k \in DOMAIN callbacks[t] : callbacks[t][k].id = id
      BY <1>2, <2>1 DEF BusInv, ListsInv
    <3>2. Pending(id)'
      BY <1>3, <3>1 DEF Pending
    <3> QED
      BY <2>1, <3>2
  <2>2. CASE i # env
    BY <2>2 DEF BusInv, NobodyForgotten
  <2> QED
    BY <2>1, <2>2
<1>9. BusTypeOK'
  BY <1>1, <1>3, <1>4 DEF BusInv, BusTypeOK, TicketTypeOK
<1>10. ControlInv' /\ TicketsInv' /\ ListsInv' /\ DueInv'
  BY <1>4 DEF BusInv, ControlInv, Working, TicketsInv, ListsInv, DueInv
<1> QED
  BY <1>6, <1>7, <1>8, <1>9, <1>10 DEF BusInv

LEMMA EndDeliveryStep == BusInv /\ EndDelivery => BusInv'
<1> SUFFICES ASSUME BusInv, EndDelivery PROVE BusInv'
  OBVIOUS
<1> USE DEF EndDelivery, busVars, subVars, ctlVars, outVars
<1>1. dpc = "deliver" /\ qcopy = <<>> /\ ccopy = <<>> /\ dpc' \in {"consume", "check"} /\ env' = 0
  OBVIOUS
<1>2. /\ Tickets' = Tickets /\ Ids' = Ids /\ \A id \in Ids : Given(id)' = Given(id)
      /\ \A i \in Tickets : Out(i)' = Out(i)
      /\ ~NotCopied /\ ~NotCopied' /\ \A id \in Ids : ~Pending(id)
  BY <1>1 DEF Tickets, Ids, Given, Out, NotCopied, Pending
<1>3. BusTypeOK'
  <2>1. dispatched' \in Nat
    BY DEF BusInv, BusTypeOK
  <2> QED
    BY <1>1, <2>1 DEF BusInv, BusTypeOK, TicketTypeOK
<1>4. ControlInv' /\ TicketsInv' /\ ListsInv' /\ DueInv'
  BY <1>1, <1>2 DEF BusInv, ControlInv, Working, TicketsInv, ListsInv, DueInv
<1>5. CopiesInv'
  BY <1>1 DEF CopiesInv
<1>6. GivenInv' /\ NobodyForgotten'
  BY <1>1, <1>2 DEF BusInv, GivenInv, NobodyForgotten
<1> QED
  BY <1>3, <1>4, <1>5, <1>6 DEF BusInv

LEMMA CallFromCallbackStep == BusInv /\ CallFromCallback => BusInv'
<1> SUFFICES ASSUME BusInv, CallFromCallback PROVE BusInv'
  OBVIOUS
<1> USE DEF CallFromCallback, busVars, ctlVars, outVars
<1>1. dpc = "inCallback" /\ dpc' = "deliver" /\ SubscriberFrame
  BY DEF SubscriberFrame
<1>2. CASE ChangeSubscribers
  BY <1>1, <1>2, SubscribersStep
<1>3. CASE UNCHANGED <<subVars, subs>>
  <2> USE DEF subVars
  <2>1. NotCopied' = NotCopied
    BY <1>1 DEF NotCopied
  <2>2. TicketsInv' /\ ListsInv' /\ CopiesInv' /\ GivenInv' /\ NobodyForgotten'
    BY <1>3, <2>1, IdleKeeps
  <2>3. BusTypeOK'
    BY <1>1, <1>3 DEF BusInv, BusTypeOK, TicketTypeOK
  <2>4. ControlInv' /\ DueInv'
    BY <1>1, <1>3 DEF BusInv, ControlInv, Working, DueInv, Tickets, Out
  <2> QED
    BY <2>2, <2>3, <2>4 DEF BusInv
<1> QED
  BY <1>2, <1>3

(* What is left of a list when its first entry is served. *)
LEMMA TailFacts ==
  ASSUME NEW S, NEW s \in Seq(S), s # <<>>
  PROVE  /\ 1 \in DOMAIN s /\ Head(s) = s[1] /\ Head(s) \in S /\ DOMAIN s \subseteq Nat
         /\ Tail(s) \in Seq(S)
         /\ \A k \in DOMAIN Tail(s) : k + 1 \in DOMAIN s /\ Tail(s)[k] = s[k + 1] /\ 1 < k + 1
         /\ \A k \in DOMAIN s : k = 1 \/ (k - 1 \in DOMAIN Tail(s) /\ Tail(s)[k - 1] = s[k])
<1>1. Len(s) \in Nat /\ DOMAIN s = 1 .. Len(s) /\ Len(s) > 0
  BY EmptySeq
<1>2. /\ Head(s) \in S /\ Tail(s) \in Seq(S) /\ Head(s) = s[1]
      /\ Len(Tail(s)) = Len(s) - 1
      /\ \A k \in 1 .. Len(Tail(s)) : Tail(s)[k] = s[k + 1]
  BY HeadTailProperties
<1>3. DOMAIN Tail(s) = 1 .. (Len(s) - 1)
  BY <1>1, <1>2
<1> QED
  BY <1>1, <1>2, <1>3

(* The envelope goes to a subscription that is owed it. *)
LEMMA GiveKeeps ==
  ASSUME BusInv, dpc = "deliver", NEW id \in Ids, Owed(id), Give(id),
         UNCHANGED <<hist, env, lost, dropped>>,
         dpc' \in {"deliver", "inCallback"},
         \A j \in Ids \ {id} : Pending(j) => Pending(j)'
  PROVE  /\ GivenInv' /\ NobodyForgotten'
         /\ \A j \in Ids \ {id} : Owed(j) => Owed(j)'
<1>1. BusTypeOK /\ env # 0 /\ env \in Tickets /\ ~NotCopied /\ ~NotCopied'
  BY DEF BusInv, BusTypeOK, TicketsInv, NotCopied
<1>2. /\ Ids' = Ids
      /\ \A j \in Ids :
           /\ subs'[j].topic = subs[j].topic /\ subs'[j].since = subs[j].since
           /\ subs'[j].ended = subs[j].ended
           /\ subs'[j].straggler = subs[j].straggler
           /\ j # id => subs'[j] = subs[j]
      /\ subs'[id].given = Append(subs[id].given, env)
  BY <1>1, GiveFacts
<1>3. /\ subs[id].given \in Seq(Nat) /\ Len(subs[id].given) \in Nat
      /\ DOMAIN subs[id].given = 1 .. Len(subs[id].given)
      /\ Len(hist) \in Nat /\ Tickets = 1 .. Len(hist) /\ env \in Nat
  BY <1>1, SubsFacts, HistFacts DEF BusTypeOK
<1> DEFINE g == subs[id].given
           h == subs'[id].given
<1>4. /\ DOMAIN h = 1 .. (Len(g) + 1)
      /\ \A k \in 1 .. Len(g) : h[k] = g[k]
      /\ h[Len(g) + 1] = env
  <2> DEFINE a == Append(g, env)
  <2>1. a \in Seq(Nat) /\ Len(a) = Len(g) + 1
        /\ (\A k \in 1 .. Len(g) : a[k] = g[k]) /\ a[Len(g) + 1] = env
    BY <1>3, AppendProperties
  <2>2. h = a
    BY <1>2
  <2> HIDE DEF a, g, h
  <2>3. DOMAIN a = 1 .. Len(a)
    BY <2>1
  <2> QED
    BY <2>1, <2>2, <2>3
<1>5. /\ Given(id)' = Given(id) \cup {env}
      /\ \A j \in Ids \ {id} : Given(j)' = Given(j)
  <2>1. Given(id)' = {h[k] : k \in DOMAIN h} /\ Given(id) = {g[k] : k \in DOMAIN g}
    BY DEF Given
  <2>2. DOMAIN h = DOMAIN g \cup {Len(g) + 1}
    BY <1>3, <1>4
  <2> HIDE DEF g, h
  <2>3. \A k \in DOMAIN g : h[k] = g[k]
    BY <1>3, <1>4 DEF g
  <2>4. {h[k] : k \in DOMAIN h} = {g[k] : k \in DOMAIN g} \cup {env}
    BY <1>4, <2>2, <2>3
  <2>5. \A j \in Ids \ {id} : Given(j)' = Given(j)
    BY <1>2 DEF Given
  <2> QED
    BY <2>1, <2>4, <2>5
<1> HIDE DEF g, h
<1>6. Tickets' = Tickets /\ \A i \in Tickets : Out(i)' = Out(i)
  BY DEF Tickets, Out
<1>7. \A k \in DOMAIN g : g[k] < env
  <2> TAKE k \in DOMAIN g
  <2>1. g[k] \in Given(id)
    BY DEF Given, g
  <2>2. PICK i : i = g[k]
    OBVIOUS
  <2>3. i \in Tickets /\ Out(i) /\ i # env
    BY <2>1, <2>2 DEF BusInv, GivenInv, Owed
  <2>4. ~(env < i)
    BY <1>1, <2>3 DEF BusInv, TicketsInv
  <2> QED
    BY <1>3, <2>2, <2>3, <2>4
<1>8. GivenInv'
  <2>1. ASSUME NEW j \in Ids, NEW i \in Given(j)'
        PROVE  i \in Tickets /\ Out(i) /\ hist[i].val = subs'[j].topic
    <3>1. CASE i \in Given(j)
      BY <1>2, <3>1 DEF BusInv, GivenInv
    <3>2. CASE i \notin Given(j)
      <4>1. j = id /\ i = env
        BY <1>5, <2>1, <3>2
      <4>2. Out(env)
        BY <1>1 DEF BusInv, TicketsInv
      <4> QED
        BY <1>1, <1>2, <4>1, <4>2 DEF Owed
    <3> QED
      BY <3>1, <3>2
  <2>2. ASSUME NEW j \in Ids, NEW k \in DOMAIN subs'[j].given, NEW l \in DOMAIN subs'[j].given,
               k < l
        PROVE  subs'[j].given[k] < subs'[j].given[l]
    <3>1. CASE j = id
      <4>1. k \in DOMAIN h /\ l \in DOMAIN h
        BY <3>1 DEF h
      <4>2. k \in 1 .. Len(g) /\ k \in DOMAIN g /\ h[k] = g[k]
        BY <1>3, <1>4, <2>2, <4>1 DEF g
      <4>3. CASE l = Len(g) + 1
        BY <1>4, <1>7, <3>1, <4>2, <4>3 DEF h
      <4>4. CASE l # Len(g) + 1
        <5>1. l \in 1 .. Len(g)
          BY <1>3, <1>4, <4>1, <4>4 DEF g
        <5>2. l \in DOMAIN g /\ h[l] = g[l]
          BY <1>3, <1>4, <5>1 DEF g
        <5>3. g[k] < g[l]
          BY <2>2, <4>2, <5>2 DEF BusInv, GivenInv, g
        <5> QED
          BY <3>1, <4>2, <5>2, <5>3 DEF h
      <4> QED
        BY <4>3, <4>4
    <3>2. CASE j # id
      BY <1>2, <2>2, <3>2 DEF BusInv, GivenInv
    <3> QED
      BY <3>1, <3>2
  <2>3. \A x \in lost : x[2] \in Tickets /\ Out(x[2])
    BY DEF BusInv, GivenInv
  <2>4. IsFiniteSet(lost) /\ dropped = Cardinality(lost)
    BY DEF BusInv, GivenInv
  <2> QED
    BY <1>1, <1>2, <1>6, <2>1, <2>2, <2>3, <2>4 DEF GivenInv
<1>9. NobodyForgotten'
  <2> SUFFICES ASSUME NEW j \in Ids, NEW i \in Tickets, Out(i), ~subs[j].ended,
                      subs[j].since < i, hist[i].val = subs[j].topic
               PROVE  \/ i \in Given(j)' \/ <<j, i>> \in lost
                      \/ i = env /\ Pending(j)'
    BY <1>1, <1>2, <1>6 DEF NobodyForgotten
  <2>1. i \in Given(j) \/ <<j, i>> \in lost \/ (i = env /\ Pending(j))
    BY <1>1 DEF BusInv, NobodyForgotten
  <2>2. CASE j = id
    BY <1>5, <2>1, <2>2
  <2>3. CASE j # id
    BY <1>5, <2>1, <2>3
  <2> QED
    BY <2>2, <2>3
<1>10. \A j \in Ids \ {id} : Owed(j) => Owed(j)'
  BY <1>2, <1>5 DEF Owed
<1> QED
  BY <1>8, <1>9, <1>10

(* The envelope finds the queue of a subscription full. *)
LEMMA LoseKeeps ==
  ASSUME BusInv, dpc = "deliver", dpc' = "deliver", NEW id \in Ids, Owed(id),
         lost' = lost \cup {<<id, env>>}, dropped' = dropped + 1,
         UNCHANGED <<hist, env, subs>>,
         \A j \in Ids \ {id} : Pending(j) => Pending(j)'
  PROVE  /\ GivenInv' /\ NobodyForgotten'
         /\ \A j \in Ids \ {id} : Owed(j) => Owed(j)'
<1>1. BusTypeOK /\ env # 0 /\ env \in Tickets /\ Out(env) /\ ~NotCopied /\ ~NotCopied'
  BY DEF BusInv, BusTypeOK, TicketsInv, NotCopied
<1>2. /\ Ids' = Ids /\ \A j \in Ids : Given(j)' = Given(j)
      /\ Tickets' = Tickets /\ \A i \in Tickets : Out(i)' = Out(i)
  BY DEF Ids, Given, Tickets, Out
<1>3. GivenInv'
  <2>1. IsFiniteSet(lost) /\ dropped = Cardinality(lost) /\ <<id, env>> \notin lost
    BY DEF BusInv, GivenInv, Owed
  <2>2. IsFiniteSet(lost') /\ dropped' = Cardinality(lost')
    BY <2>1, FS_AddElement
  <2>3. \A x \in lost' : x[2] \in Tickets /\ Out(x[2])
    BY <1>1 DEF BusInv, GivenInv
  <2> QED
    BY <1>1, <1>2, <2>2, <2>3 DEF BusInv, GivenInv
<1>4. NobodyForgotten'
  <2> SUFFICES ASSUME NEW j \in Ids, NEW i \in Tickets, Out(i), ~subs[j].ended,
                      subs[j].since < i, hist[i].val = subs[j].topic
               PROVE  \/ i \in Given(j) \/ <<j, i>> \in lost'
                      \/ i = env /\ Pending(j)'
    BY <1>1, <1>2 DEF NobodyForgotten
  <2>1. i \in Given(j) \/ <<j, i>> \in lost \/ (i = env /\ Pending(j))
    BY <1>1 DEF BusInv, NobodyForgotten
  <2> QED
    BY <2>1
<1>5. \A j \in Ids \ {id} : Owed(j) => Owed(j)'
  BY <1>2 DEF Owed
<1> QED
  BY <1>3, <1>4, <1>5

(* What is given does not change the lists. *)
LEMMA ListsKept ==
  ASSUME BusTypeOK, ListsInv, UNCHANGED <<queues, callbacks>>, Ids' = Ids,
         \A j \in Ids : subs'[j].topic = subs[j].topic /\ subs'[j].ended = subs[j].ended
  PROVE  ListsInv'
<1>1. ASSUME NEW t \in Topics
      PROVE  /\ \A k \in DOMAIN queues'[t] :
                  LET id == queues'[t][k].id
                  IN id \in Ids' /\ subs'[id].topic = t /\ ~subs'[id].ended
             /\ \A k \in DOMAIN callbacks'[t] :
                  LET id == callbacks'[t][k].id
                  IN id \in Ids' /\ subs'[id].topic = t /\ ~subs'[id].ended
  <2>1. ASSUME NEW k \in DOMAIN queues[t]
        PROVE  LET id == queues[t][k].id
               IN id \in Ids /\ subs'[id].topic = t /\ ~subs'[id].ended
    <3>1. PICK id : id = queues[t][k].id
      OBVIOUS
    <3>2. id \in Ids /\ subs[id].topic = t /\ ~subs[id].ended
      BY <3>1 DEF ListsInv
    <3>3. id \in Ids /\ subs'[id].topic = t /\ ~subs'[id].ended
      BY <3>2
    <3> QED
      BY <3>1, <3>3
  <2>2. ASSUME NEW k \in DOMAIN callbacks[t]
        PROVE  LET id == callbacks[t][k].id
               IN id \in Ids /\ subs'[id].topic = t /\ ~subs'[id].ended
    <3>1. PICK id : id = callbacks[t][k].id
      OBVIOUS
    <3>2. id \in Ids /\ subs[id].topic = t /\ ~subs[id].ended
      BY <3>1 DEF ListsInv
    <3>3. id \in Ids /\ subs'[id].topic = t /\ ~subs'[id].ended
      BY <3>2
    <3> QED
      BY <3>1, <3>3
  <2> QED
    BY <2>1, <2>2
<1>2. ASSUME NEW id \in Ids', ~subs'[id].ended
      PROVE  \/ \E k \in DOMAIN queues'[subs'[id].topic] :
                  queues'[subs'[id].topic][k].id = id
             \/ \E k \in DOMAIN callbacks'[subs'[id].topic] :
                  callbacks'[subs'[id].topic][k].id = id
  <2>1. PICK t : t = subs[id].topic
    OBVIOUS
  <2>2. id \in Ids /\ subs'[id].topic = t /\ ~subs[id].ended
    BY <1>2, <2>1
  <2>3. \/ \E k \in DOMAIN queues[t] : queues[t][k].id = id
        \/ \E k \in DOMAIN callbacks[t] : callbacks[t][k].id = id
    BY <2>1, <2>2 DEF ListsInv
  <2> QED
    BY <2>2, <2>3
<1> QED
  BY <1>1, <1>2 DEF ListsInv

LEMMA GiveToQueueStep == BusInv /\ GiveToQueue => BusInv'
<1> SUFFICES ASSUME BusInv, GiveToQueue PROVE BusInv'
  OBVIOUS
<1> USE DEF GiveToQueue, busVars, subVars, ctlVars
<1>1. /\ BusTypeOK /\ dpc = "deliver" /\ dpc' = "deliver" /\ qcopy # <<>> /\ qcopy \in Seq(Entries)
      /\ env \in Nat /\ qcopy' = Tail(qcopy)
  BY DEF BusInv, BusTypeOK
<1>2. PICK e : e = Head(qcopy)
  OBVIOUS
<1>3. /\ 1 \in DOMAIN qcopy /\ e = qcopy[1] /\ e \in Entries /\ DOMAIN qcopy \subseteq Nat
      /\ qcopy' \in Seq(Entries)
      /\ \A k \in DOMAIN qcopy' : k + 1 \in DOMAIN qcopy /\ qcopy'[k] = qcopy[k + 1] /\ 1 < k + 1
      /\ \A k \in DOMAIN qcopy : k = 1 \/ (k - 1 \in DOMAIN qcopy' /\ qcopy'[k - 1] = qcopy[k])
  BY <1>1, <1>2, TailFacts
<1>4. PICK id \in Nat : id = e.id
  BY <1>3 DEF Entries
<1>5. id \in Ids /\ Owed(id)
  BY <1>3, <1>4 DEF BusInv, CopiesInv, Owed
<1>6. /\ \A k \in DOMAIN qcopy' : qcopy'[k].id # id
      /\ \A k \in DOMAIN ccopy : ccopy[k].id # id
  <2>1. ASSUME NEW k \in DOMAIN qcopy' PROVE qcopy'[k].id # id
    <3>1. id < qcopy[k + 1].id
      BY <1>3, <1>4 DEF BusInv, CopiesInv
    <3> QED
      BY <1>3, <1>4, <3>1
  <2>2. \A k \in DOMAIN ccopy : ccopy[k].id # id
    BY <1>3, <1>4 DEF BusInv, CopiesInv
  <2> QED
    BY <2>1, <2>2
<1>7. \A j \in Ids \ {id} : Pending(j) => Pending(j)'
  <2> SUFFICES ASSUME NEW j \in Ids \ {id}, Pending(j) PROVE Pending(j)'
    OBVIOUS
  <2>1. CASE \E k \in DOMAIN qcopy : qcopy[k].id = j
    <3>1. PICK k \in DOMAIN qcopy : qcopy[k].id = j
      BY <2>1
    <3>2. k # 1
      BY <1>3, <1>4, <3>1
    <3>3. k - 1 \in DOMAIN qcopy' /\ qcopy'[k - 1].id = j
      BY <1>3, <3>1, <3>2
    <3> QED
      BY <3>3 DEF Pending
  <2>2. CASE \E k \in DOMAIN ccopy : ccopy[k].id = j
    BY <2>2 DEF Pending
  <2> QED
    BY <2>1, <2>2 DEF Pending
<1>8. /\ GivenInv' /\ NobodyForgotten'
      /\ \A j \in Ids \ {id} : Owed(j) => Owed(j)'
      /\ subs' \in Seq(Subscriptions) /\ Ids' = Ids
      /\ \A j \in Ids : subs'[j].topic = subs[j].topic /\ subs'[j].ended = subs[j].ended
      /\ inbox' \in [Queues -> Seq(Nat)] /\ dropped' \in Nat /\ lost' \subseteq Nat \X Nat
  <2>1. CASE Len(inbox[e.queue]) < QueueCapacity
    <3>1. /\ inbox' = [inbox EXCEPT ![e.queue] = Append(@, env)] /\ Give(id)
          /\ UNCHANGED <<lost, dropped>>
      BY <1>2, <1>4, <2>1
    <3>2. inbox' \in [Queues -> Seq(Nat)]
      <4>1. inbox \in [Queues -> Seq(Nat)] /\ e.queue \in Queues
        BY <1>1, <1>3 DEF BusTypeOK, Entries
      <4>2. Append(inbox[e.queue], env) \in Seq(Nat)
        BY <1>1, <4>1, AppendProperties
      <4> QED
        BY <3>1, <4>1, <4>2
    <3>3. /\ GivenInv' /\ NobodyForgotten'
          /\ \A j \in Ids \ {id} : Owed(j) => Owed(j)'
      BY <1>1, <1>5, <1>7, <3>1, GiveKeeps
    <3>4. /\ subs' \in Seq(Subscriptions) /\ Ids' = Ids
          /\ \A j \in Ids : subs'[j].topic = subs[j].topic /\ subs'[j].ended = subs[j].ended
      BY <1>1, <1>5, <3>1, GiveFacts
    <3> QED
      BY <1>1, <3>1, <3>2, <3>3, <3>4 DEF BusTypeOK
  <2>2. CASE ~(Len(inbox[e.queue]) < QueueCapacity)
    <3>1. /\ lost' = lost \cup {<<id, env>>} /\ dropped' = dropped + 1
          /\ UNCHANGED <<inbox, subs>>
      BY <1>2, <1>4, <2>2
    <3>2. /\ GivenInv' /\ NobodyForgotten'
          /\ \A j \in Ids \ {id} : Owed(j) => Owed(j)'
      BY <1>1, <1>5, <1>7, <3>1, LoseKeeps
    <3>3. Ids' = Ids /\ subs' \in Seq(Subscriptions)
      BY <1>1, <3>1, SubsFacts DEF Ids
    <3> QED
      BY <1>1, <1>4, <3>1, <3>2, <3>3 DEF BusTypeOK
  <2> QED
    BY <2>1, <2>2
<1>9. CopiesInv'
  <2>1. ASSUME NEW k \in DOMAIN qcopy', NEW l \in DOMAIN qcopy', k < l
        PROVE  qcopy'[k].id < qcopy'[l].id
    <3>1. k + 1 \in DOMAIN qcopy /\ l + 1 \in DOMAIN qcopy /\ k + 1 < l + 1
      <4>1. k \in Nat /\ l \in Nat
        BY <1>3
      <4> QED
        BY <1>3, <2>1, <4>1
    <3>2. qcopy[k + 1].id < qcopy[l + 1].id
      BY <3>1 DEF BusInv, CopiesInv
    <3> QED
      BY <1>3, <3>2
  <2>2. \A k, l \in DOMAIN ccopy : k < l => ccopy[k].id < ccopy[l].id
    BY DEF BusInv, CopiesInv
  <2>3. \A k \in DOMAIN qcopy', l \in DOMAIN ccopy : qcopy'[k].id # ccopy[l].id
    BY <1>3 DEF BusInv, CopiesInv
  <2>4. ASSUME NEW k \in DOMAIN qcopy' PROVE Owed(qcopy[k].id)'
    <3>1. PICK j : j = qcopy[k + 1].id
      OBVIOUS
    <3>2. j \in Ids \ {id} /\ Owed(j) /\ j = qcopy'[k].id
      BY <1>3, <1>6, <3>1 DEF BusInv, CopiesInv, Owed
    <3>3. Owed(j)'
      BY <1>8, <3>2
    <3> QED
      BY <3>2, <3>3 DEF Owed
  <2>5. ASSUME NEW k \in DOMAIN ccopy PROVE Owed(ccopy[k].id)'
    <3>1. PICK j : j = ccopy[k].id
      OBVIOUS
    <3>2. j \in Ids \ {id} /\ Owed(j)
      BY <1>6, <3>1 DEF BusInv, CopiesInv, Owed
    <3>3. Owed(j)'
      BY <1>8, <3>2
    <3> QED
      BY <3>1, <3>3 DEF Owed
  <2>6. ccopy' = ccopy
    OBVIOUS
  <2> QED
    BY <2>1, <2>2, <2>3, <2>4, <2>5, <2>6 DEF CopiesInv, Owed
<1>10. BusTypeOK'
  BY <1>1, <1>3, <1>8 DEF BusTypeOK, TicketTypeOK, Subscriptions
<1>11. ListsInv'
  <2>1. UNCHANGED <<queues, callbacks>> /\ ListsInv
    BY DEF BusInv
  <2> QED
    BY <1>1, <1>8, <2>1, ListsKept
<1>12. ControlInv' /\ TicketsInv' /\ DueInv'
  BY DEF BusInv, ControlInv, Working, TicketsInv, DueInv, Tickets, Out
<1> QED
  BY <1>8, <1>9, <1>10, <1>11, <1>12 DEF BusInv

LEMMA EnterCallbackStep == BusInv /\ EnterCallback => BusInv'
<1> SUFFICES ASSUME BusInv, EnterCallback PROVE BusInv'
  OBVIOUS
<1> USE DEF EnterCallback, busVars, subVars, ctlVars, outVars
<1>1. /\ BusTypeOK /\ dpc = "deliver" /\ dpc' \in {"deliver", "inCallback"}
      /\ ccopy # <<>> /\ ccopy \in Seq([id : Nat]) /\ qcopy = <<>> /\ qcopy' = <<>>
      /\ env \in Nat /\ ccopy' = Tail(ccopy)
  BY DEF BusInv, BusTypeOK
<1>2. PICK e : e = Head(ccopy)
  OBVIOUS
<1>3. /\ 1 \in DOMAIN ccopy /\ e = ccopy[1] /\ e \in [id : Nat] /\ DOMAIN ccopy \subseteq Nat
      /\ ccopy' \in Seq([id : Nat])
      /\ \A k \in DOMAIN ccopy' : k + 1 \in DOMAIN ccopy /\ ccopy'[k] = ccopy[k + 1] /\ 1 < k + 1
      /\ \A k \in DOMAIN ccopy : k = 1 \/ (k - 1 \in DOMAIN ccopy' /\ ccopy'[k - 1] = ccopy[k])
  <2> DEFINE C == [id : Nat]
  <2>1. ccopy \in Seq(C) /\ ccopy # <<>> /\ ccopy' = Tail(ccopy)
    BY <1>1
  <2> HIDE DEF C, EnterCallback
  <2>2. /\ 1 \in DOMAIN ccopy /\ Head(ccopy) = ccopy[1] /\ Head(ccopy) \in C
        /\ DOMAIN ccopy \subseteq Nat /\ Tail(ccopy) \in Seq(C)
        /\ \A k \in DOMAIN Tail(ccopy) :
             k + 1 \in DOMAIN ccopy /\ Tail(ccopy)[k] = ccopy[k + 1] /\ 1 < k + 1
        /\ \A k \in DOMAIN ccopy :
             k = 1 \/ (k - 1 \in DOMAIN Tail(ccopy) /\ Tail(ccopy)[k - 1] = ccopy[k])
    BY <2>1, TailFacts
  <2> QED
    BY <1>2, <2>1, <2>2 DEF C
<1>4. PICK id \in Nat : id = e.id
  BY <1>3
<1>5. id \in Ids /\ Owed(id)
  BY <1>3, <1>4 DEF BusInv, CopiesInv, Owed
<1>6. \A k \in DOMAIN ccopy' : ccopy'[k].id # id
  <2> TAKE k \in DOMAIN ccopy'
  <2>1. id < ccopy[k + 1].id
    BY <1>3, <1>4 DEF BusInv, CopiesInv
  <2> QED
    BY <1>3, <1>4, <2>1
<1>7. \A j \in Ids \ {id} : Pending(j) => Pending(j)'
  <2> SUFFICES ASSUME NEW j \in Ids \ {id}, Pending(j) PROVE Pending(j)'
    OBVIOUS
  <2>1. PICK k \in DOMAIN ccopy : ccopy[k].id = j
    BY <1>1 DEF Pending
  <2>2. k # 1
    BY <1>3, <1>4, <2>1
  <2>3. k - 1 \in DOMAIN ccopy' /\ ccopy'[k - 1].id = j
    BY <1>3, <2>1, <2>2
  <2> QED
    BY <2>3 DEF Pending
<1>8. Give(id)
  BY <1>2, <1>4
<1>9. /\ GivenInv' /\ NobodyForgotten'
      /\ \A j \in Ids \ {id} : Owed(j) => Owed(j)'
  BY <1>1, <1>5, <1>7, <1>8, GiveKeeps
<1>10. /\ subs' \in Seq(Subscriptions) /\ Ids' = Ids
       /\ \A j \in Ids : subs'[j].topic = subs[j].topic /\ subs'[j].ended = subs[j].ended
  BY <1>1, <1>5, <1>8, GiveFacts
<1>11. CopiesInv'
  <2>1. ASSUME NEW k \in DOMAIN ccopy', NEW l \in DOMAIN ccopy', k < l
        PROVE  ccopy'[k].id < ccopy'[l].id
    <3>1. k + 1 \in DOMAIN ccopy /\ l + 1 \in DOMAIN ccopy /\ k + 1 < l + 1
      <4>1. k \in Nat /\ l \in Nat
        BY <1>3
      <4> QED
        BY <1>3, <2>1, <4>1
    <3>2. ccopy[k + 1].id < ccopy[l + 1].id
      BY <3>1 DEF BusInv, CopiesInv
    <3> QED
      BY <1>3, <3>2
  <2>2. ASSUME NEW k \in DOMAIN ccopy' PROVE Owed(ccopy[k].id)'
    <3>1. PICK j : j = ccopy[k + 1].id
      OBVIOUS
    <3>2. j \in Ids \ {id} /\ Owed(j) /\ j = ccopy'[k].id
      BY <1>3, <1>6, <3>1 DEF BusInv, CopiesInv, Owed
    <3>3. Owed(j)'
      BY <1>9, <3>2
    <3> QED
      BY <3>2, <3>3 DEF Owed
  <2> QED
    BY <1>1, <2>1, <2>2 DEF CopiesInv
<1>12. BusTypeOK'
  BY <1>1, <1>3, <1>10 DEF BusTypeOK, TicketTypeOK, Subscriptions
<1>13. ListsInv'
  <2>1. UNCHANGED <<queues, callbacks>> /\ ListsInv
    BY DEF BusInv
  <2> QED
    BY <1>1, <1>10, <2>1, ListsKept
<1>14. ControlInv' /\ TicketsInv' /\ DueInv'
  BY <1>1 DEF BusInv, ControlInv, Working, TicketsInv, DueInv, Tickets, Out
<1> QED
  BY <1>9, <1>11, <1>12, <1>13, <1>14 DEF BusInv

----------------------------------------------------------------------------
LEMMA NextBusInv == BusInv /\ [Next]_vars => BusInv'
<1> SUFFICES ASSUME BusInv, [Next]_vars PROVE BusInv'
  OBVIOUS
<1>1. ASSUME NEW p \in Publishers, PublishEnvelope(p) PROVE BusInv'
  BY <1>1, PublishEnvelopeStep
<1>2. ASSUME NEW p \in Publishers, NEW t \in Topics, ClaimEnvelope(p, t) PROVE BusInv'
  BY <1>2, ClaimEnvelopeStep
<1>3. CASE CallFromClient
  <2>1. SubscriberFrame /\ ChangeSubscribers
    BY <1>3 DEF CallFromClient, SubscriberFrame, busVars, ctlVars, outVars, loopVars
  <2> QED
    BY <2>1, SubscribersStep
<1>4. ASSUME NEW q \in Queues, Receive(q) PROVE BusInv'
  BY <1>4, ReceiveStep
<1>5. CASE Start \/ Stop \/ Join
  BY <1>5, StartStep, StopStep, JoinStep
<1>6. CASE Dispatch
  BY <1>6, CheckRunningStep, TakeEnvelopeStep, FreeEnvelopeStep, FindNothingStep,
     LockListsStep, CopyListsStep, GiveToQueueStep, EnterCallbackStep,
     CallFromCallbackStep, EndDeliveryStep DEF Dispatch
<1>7. CASE UNCHANGED vars
  <2> USE <1>7 DEF vars, busVars, subVars, ctlVars, outVars, loopVars
  <2>1. TicketsInv' /\ ListsInv' /\ CopiesInv' /\ GivenInv' /\ NobodyForgotten'
    BY IdleKeeps DEF NotCopied
  <2>2. BusTypeOK'
    BY DEF BusInv, BusTypeOK, TicketTypeOK
  <2>3. ControlInv' /\ DueInv'
    BY DEF BusInv, ControlInv, Working, DueInv, Tickets, Out
  <2> QED
    BY <2>1, <2>2, <2>3 DEF BusInv
<1> QED
  BY <1>1, <1>2, <1>3, <1>4, <1>5, <1>6, <1>7 DEF Next

(* The inductive invariant: who is in the lists and in the copies, what    *)
(* the dispatch thread still owes to whom, and what stop() waits for.      *)
THEOREM BusInvariant == Spec => []BusInv
<1> QED
  BY InitBusInv, NextBusInv, PTL DEF Spec

(* Every variable has its type; the dispatch thread holds the mutex only   *)
(* while it copies the lists, and has an envelope only while it delivers.  *)
THEOREM TypeCorrect == Spec => []BusTypeOK
<1>1. BusInv => BusTypeOK
  BY DEF BusInv
<1> QED
  BY BusInvariant, <1>1, PTL

(* Every subscription is given messages of its topic, each at most once    *)
(* and in the order of publication (topic_bus.hpp:130, :144).              *)
THEOREM InOrder == Spec => []GivenInOrder
<1>1. BusInv => GivenInOrder
  BY DEF BusInv, GivenInv, GivenInOrder
<1> QED
  BY BusInvariant, <1>1, PTL

(* A message that a subscriber was waiting for when it was published is    *)
(* given to it or counted in dropped_ (topic_bus.hpp:144-160).             *)
THEOREM NothingLostSilently == Spec => []NoSilentLoss
<1>1. BusInv => NoSilentLoss
  BY DEF BusInv, GivenInv, NobodyForgotten, NoSilentLoss, Finished
<1> QED
  BY BusInvariant, <1>1, PTL

(* After unsubscribe() a subscriber is given at most the message that was  *)
(* being delivered at that moment (topic_bus.hpp:150).                     *)
THEOREM Straggler == Spec => OnlyTheStraggler
<1> DEFINE Step == \A id \in Ids :
                     subs[id].ended /\ subs'[id].given # subs[id].given =>
                       subs'[id].given = Append(subs[id].given, subs[id].straggler)
<1>1. ASSUME BusInv, Next PROVE Step
  <2> SUFFICES ASSUME NEW id \in Ids, subs[id].ended, subs'[id].given # subs[id].given
               PROVE  subs'[id].given = Append(subs[id].given, subs[id].straggler)
    OBVIOUS
  <2>1. BusTypeOK
    BY <1>1 DEF BusInv
  <2>2. ASSUME NEW x, Owed(x), Give(x)
        PROVE  subs'[id].given = Append(subs[id].given, subs[id].straggler)
    <3>1. x \in Ids
      BY <2>2 DEF Owed
    <3>2. x = id /\ subs'[id].given = Append(subs[id].given, env)
      BY <2>1, <2>2, <3>1, GiveFacts
    <3>3. subs[id].straggler = env
      BY <2>2, <3>2 DEF Owed
    <3> QED
      BY <3>2, <3>3
  <2>3. CASE GiveToQueue
    <3>1. qcopy \in Seq(Entries) /\ qcopy # <<>>
      BY <2>1, <2>3 DEF BusTypeOK, GiveToQueue
    <3>2. Owed(Head(qcopy).id)
      <4>1. 1 \in DOMAIN qcopy /\ Head(qcopy) = qcopy[1]
        BY <3>1, TailFacts
      <4> QED
        BY <1>1, <4>1 DEF BusInv, CopiesInv
    <3>3. Give(Head(qcopy).id)
      BY <2>3 DEF GiveToQueue
    <3> QED
      BY <2>2, <3>2, <3>3
  <2>4. CASE EnterCallback
    <3>1. ccopy \in Seq([id : Nat]) /\ ccopy # <<>>
      BY <2>1, <2>4 DEF BusTypeOK, EnterCallback
    <3>2. Owed(Head(ccopy).id)
      <4>1. 1 \in DOMAIN ccopy /\ Head(ccopy) = ccopy[1]
        BY <3>1, TailFacts
      <4> QED
        BY <1>1, <4>1 DEF BusInv, CopiesInv
    <3>3. Give(Head(ccopy).id)
      BY <2>4 DEF EnterCallback
    <3> QED
      BY <2>2, <3>2, <3>3
  <2>5. CASE ChangeSubscribers
    <3>1. ASSUME NEW t \in Topics, NewSubscription(t) PROVE subs'[id] = subs[id]
      BY <2>1, <3>1, NewFacts
    <3>2. ASSUME NEW x \in Ids, Ending(x) PROVE subs'[id].given = subs[id].given
      BY <2>1, <3>2, EndFacts
    <3> QED
      BY <2>5, <3>1, <3>2 DEF ChangeSubscribers, AddQueue, AddCallback, Remove, Ending, Ids
  <2>6. CASE UNCHANGED subs
    BY <2>6
  <2>7. GiveToQueue \/ EnterCallback \/ ChangeSubscribers \/ UNCHANGED subs
    BY <1>1 DEF Next, Dispatch, PublishEnvelope, ClaimEnvelope, CallFromClient, Receive,
       Start, Stop, Join, CheckRunning, TakeEnvelope, FreeEnvelope, FindNothing, LockLists,
       CopyLists, CallFromCallback, EndDelivery
  <2> QED
    BY <2>3, <2>4, <2>5, <2>6, <2>7
<1>2. ASSUME BusInv, UNCHANGED vars PROVE [Step]_vars
  BY <1>2
<1>3. BusInv /\ [Next]_vars => [Step]_vars
  BY <1>1, <1>2
<1> QED
  BY BusInvariant, <1>3, PTL DEF Spec, OnlyTheStraggler

(* stop() does not return before everything that was published when it was *)
(* called has been delivered (topic_bus.hpp:138).                          *)
THEOREM Drained == Spec => StopDrains
<1> DEFINE Step == main = "join" /\ main' = "idle" => \A i \in due : Finished(i)
<1>1. ASSUME BusInv, Next PROVE Step
  <2> SUFFICES ASSUME main = "join", main' = "idle", NEW i \in due
               PROVE  Finished(i)
    OBVIOUS
  <2>1. Join
    BY <1>1 DEF Next, Dispatch, PublishEnvelope, ClaimEnvelope, CallFromClient, Receive,
       Start, Stop, CheckRunning, TakeEnvelope, FreeEnvelope, FindNothing, LockLists,
       CopyLists, GiveToQueue, EnterCallback, CallFromCallback, EndDelivery, ctlVars
  <2>2. dpc = "exited" /\ env = 0
    BY <1>1, <2>1 DEF Join, BusInv, BusTypeOK
  <2>3. i \in Tickets /\ Out(i)
    BY <1>1, <2>2 DEF BusInv, DueInv
  <2>4. i # 0
    BY <1>1, <2>3, HistFacts DEF BusInv, BusTypeOK
  <2> QED
    BY <2>2, <2>3, <2>4 DEF Finished
<1>2. BusInv /\ [Next]_vars => [Step]_vars
  BY <1>1
<1> QED
  BY BusInvariant, <1>2, PTL DEF Spec, StopDrains
=============================================================================
