------------------------------ MODULE TopicBus ------------------------------
(***************************************************************************)
(* TopicBus<T> of include/topic_bus.hpp: publishers put envelopes into one *)
(* lock-free queue, a dispatch thread takes them out in order and gives    *)
(* each one to the subscribers of its topic, from a copy of their lists    *)
(* made under the mutex.                                                   *)
(*                                                                         *)
(* bus_queue_ is the queue of TicketQueue, with a topic as message; the    *)
(* ticket number stands for the published object. The queue of a           *)
(* subscriber has the dispatch thread as its only producer, so here it is  *)
(* a bounded sequence: its consumer's step is the one that frees the slot. *)
(* One thread starts and stops the bus, as in main.cpp and in the tests.   *)
(***************************************************************************)
EXTENDS TicketQueue, FiniteSets

Seqs == INSTANCE SequencesExt

CONSTANTS
  Publishers,      \* the threads that call publish()
  Queues,          \* the queues that subscribe
  QueueCapacity,   \* the capacity of each of them
  MaxSubs          \* bound: this many subscriptions are made

Topics == Values

ASSUME QueueCapacityAssumption == QueueCapacity \in Nat \ {0}
ASSUME MaxSubsAssumption == MaxSubs \in Nat

VARIABLES
  pub,           \* the ticket each publisher has claimed and not published, or 0
  queues,        \* queues_[t]: the entries [id, queue]
  callbacks,     \* callbacks_[t]: the entries [id]
  mtx,           \* the dispatch thread holds mtx_
  running,       \* running_
  main,          \* where the thread that starts and stops the bus is
  dpc,           \* where the dispatch thread is
  draining,      \* it has left its first loop
  env,           \* the ticket it is dispatching, or 0
  qcopy, ccopy,  \* the copies deliver() works from
  inbox,         \* the content of each subscriber's queue
  dropped,       \* dropped_
  dispatched     \* dispatched_

VARIABLES        \* history, for the properties
  subs,          \* every subscription made; its index is its id
  lost,          \* the copies that found a subscriber's queue full
  due            \* what is in the bus when stop() is called

busVars  == <<hist, pub>>
subVars  == <<queues, callbacks>>
ctlVars  == <<running, main, due>>
outVars  == <<inbox, lost, dropped>>
loopVars == <<dpc, draining, env, qcopy, ccopy, dispatched>>
vars == <<busVars, subVars, subs, ctlVars, outVars, loopVars, mtx>>

Init ==
  /\ TInit
  /\ pub = [p \in Publishers |-> 0]
  /\ queues = [t \in Topics |-> <<>>]
  /\ callbacks = [t \in Topics |-> <<>>]
  /\ mtx = FALSE
  /\ running = FALSE
  /\ main = "idle"
  /\ dpc = "none"
  /\ draining = FALSE
  /\ env = 0
  /\ qcopy = <<>>
  /\ ccopy = <<>>
  /\ inbox = [q \in Queues |-> <<>>]
  /\ dropped = 0
  /\ dispatched = 0
  /\ subs = <<>>
  /\ lost = {}
  /\ due = {}

----------------------------------------------------------------------------
(* publish(t, msg): a full bus queue refuses it, and nothing changes *)

ClaimEnvelope(p, t) ==
  /\ pub[p] = 0
  /\ Len(hist) < MaxPut
  /\ Claim(t)
  /\ pub' = [pub EXCEPT ![p] = Len(hist')]
  /\ UNCHANGED <<subVars, subs, ctlVars, outVars, loopVars, mtx>>

PublishEnvelope(p) ==
  /\ pub[p] # 0
  /\ Publish(pub[p])
  /\ pub' = [pub EXCEPT ![p] = 0]
  /\ UNCHANGED <<subVars, subs, ctlVars, outVars, loopVars, mtx>>

----------------------------------------------------------------------------
(* subscribe() and unsubscribe(): what they do under the mutex *)

NextId == Len(subs) + 1

NewSubscription(t) ==
  /\ Len(subs) < MaxSubs
  /\ subs' = Append(subs, [topic |-> t, since |-> Len(hist), ended |-> FALSE,
                           straggler |-> 0, given |-> <<>>])

AddQueue(t, q) ==
  /\ NewSubscription(t)
  /\ queues' = [queues EXCEPT ![t] = Append(@, [id |-> NextId, queue |-> q])]
  /\ UNCHANGED callbacks

AddCallback(t) ==
  /\ NewSubscription(t)
  /\ callbacks' = [callbacks EXCEPT ![t] = Append(@, [id |-> NextId])]
  /\ UNCHANGED queues

(* A mistake one could make here: the entries before the one to remove go  *)
(* as well. No action of the specification does it.                        *)
RemoveBefore(id) ==
  LET Without(entries) == SelectSeq(entries, LAMBDA e : e.id >= id) IN
  /\ ~subs[id].ended
  /\ subs' = [subs EXCEPT ![id].ended = TRUE, ![id].straggler = env]
  /\ queues' = [t \in Topics |-> Without(queues[t])]
  /\ callbacks' = [t \in Topics |-> Without(callbacks[t])]

(* A handle unsubscribes once; the straggler is the envelope under way.    *)
(* The one entry with this id is in one list of one topic.                 *)
Remove(id) ==
  /\ ~subs[id].ended
  /\ subs' = [subs EXCEPT ![id].ended = TRUE, ![id].straggler = env]
  /\ \E t \in Topics :
       \/ \E k \in DOMAIN queues[t] :
            /\ queues[t][k].id = id
            /\ queues' = [queues EXCEPT ![t] = Seqs!RemoveAt(@, k)]
            /\ UNCHANGED callbacks
       \/ \E k \in DOMAIN callbacks[t] :
            /\ callbacks[t][k].id = id
            /\ callbacks' = [callbacks EXCEPT ![t] = Seqs!RemoveAt(@, k)]
            /\ UNCHANGED queues

ChangeSubscribers ==
  /\ ~mtx
  /\ \/ \E t \in Topics, q \in Queues : AddQueue(t, q)
     \/ \E t \in Topics : AddCallback(t)
     \/ \E id \in DOMAIN subs : Remove(id)

CallFromClient ==
  /\ ChangeSubscribers
  /\ UNCHANGED <<busVars, ctlVars, outVars, loopVars, mtx>>

(* The consumer of a subscriber's queue finishes a consume(). *)
Receive(q) ==
  /\ inbox[q] # <<>>
  /\ inbox' = [inbox EXCEPT ![q] = Tail(@)]
  /\ UNCHANGED <<busVars, subVars, subs, ctlVars, lost, dropped, loopVars, mtx>>

----------------------------------------------------------------------------
(* start() and stop() *)

Start ==
  /\ main = "idle"
  /\ ~running
  /\ running' = TRUE
  /\ dpc' = "check"
  /\ draining' = FALSE
  /\ UNCHANGED <<busVars, subVars, subs, main, due, outVars,
                 env, qcopy, ccopy, dispatched, mtx>>

Stop ==
  /\ main = "idle"
  /\ running
  /\ running' = FALSE
  /\ main' = "join"
  /\ due' = Reachable
  /\ UNCHANGED <<busVars, subVars, subs, outVars, loopVars, mtx>>

Join ==
  /\ main = "join"
  /\ dpc = "exited"
  /\ main' = "idle"
  /\ UNCHANGED <<busVars, subVars, subs, running, due, outVars, loopVars, mtx>>

----------------------------------------------------------------------------
(* The message goes to one subscriber. *)
Give(id) == subs' = [subs EXCEPT ![id].given = Append(@, env)]

(* Mistakes one could make in this code; no action of the specification    *)
(* uses them.                                                              *)

(* The thread ends with its first loop. *)
ExitAtOnce ==
  /\ dpc = "check"
  /\ dpc' = IF running THEN "consume" ELSE "exited"
  /\ UNCHANGED <<busVars, subVars, subs, ctlVars, outVars,
                 draining, env, qcopy, ccopy, dispatched, mtx>>

(* A full queue ends the delivery. *)
GiveUpOnFullQueue ==
  /\ dpc = "deliver"
  /\ qcopy # <<>>
  /\ LET e == Head(qcopy)
     IN IF Len(inbox[e.queue]) < QueueCapacity
          THEN /\ inbox' = [inbox EXCEPT ![e.queue] = Append(@, env)]
               /\ Give(e.id)
               /\ qcopy' = Tail(qcopy)
               /\ UNCHANGED <<lost, dropped>>
          ELSE /\ lost' = lost \cup {<<e.id, env>>}
               /\ dropped' = dropped + 1
               /\ qcopy' = <<>>
               /\ UNCHANGED <<inbox, subs>>
  /\ UNCHANGED <<busVars, subVars, ctlVars, dpc, draining, env, ccopy, dispatched, mtx>>

(* A full queue is waited for. *)
WaitForRoom ==
  /\ dpc = "deliver"
  /\ qcopy # <<>>
  /\ LET e == Head(qcopy)
     IN /\ Len(inbox[e.queue]) < QueueCapacity
        /\ inbox' = [inbox EXCEPT ![e.queue] = Append(@, env)]
        /\ Give(e.id)
  /\ qcopy' = Tail(qcopy)
  /\ UNCHANGED <<busVars, subVars, ctlVars, lost, dropped, dpc, draining, env, ccopy, dispatched, mtx>>

(* An empty queue ends the first loop. *)
ExitWhenEmpty ==
  /\ dpc = "consume"
  /\ ~HeadReady
  /\ dpc' = "exited"
  /\ UNCHANGED <<busVars, subVars, subs, ctlVars, outVars,
                 draining, env, qcopy, ccopy, dispatched, mtx>>

----------------------------------------------------------------------------
(* dispatchLoop(): the first loop while running_, then a drain *)

CheckRunning ==
  /\ dpc = "check"
  /\ draining' = ~running
  /\ dpc' = "consume"
  /\ UNCHANGED <<busVars, subVars, subs, ctlVars, outVars,
                 env, qcopy, ccopy, dispatched, mtx>>

TakeEnvelope ==
  /\ dpc = "consume"
  /\ \E i \in Tickets : Take(i) /\ env' = i
  /\ dpc' = "free"
  /\ UNCHANGED <<pub, subVars, subs, ctlVars, outVars,
                 draining, qcopy, ccopy, dispatched, mtx>>

FreeEnvelope ==
  /\ dpc = "free"
  /\ Free(env)
  /\ dpc' = "lock"
  /\ UNCHANGED <<pub, subVars, subs, ctlVars, outVars,
                 draining, env, qcopy, ccopy, dispatched, mtx>>

(* Sleeps a millisecond in the first loop, ends in the second. *)
FindNothing ==
  /\ dpc = "consume"
  /\ ~HeadReady
  /\ dpc' = IF draining THEN "exited" ELSE "check"
  /\ UNCHANGED <<busVars, subVars, subs, ctlVars, outVars,
                 draining, env, qcopy, ccopy, dispatched, mtx>>

(* deliver(env): the lists are copied under the mutex, *)

LockLists ==
  /\ dpc = "lock"
  /\ ~mtx
  /\ mtx' = TRUE
  /\ dpc' = "copy"
  /\ UNCHANGED <<busVars, subVars, subs, ctlVars, outVars,
                 draining, env, qcopy, ccopy, dispatched>>

CopyLists ==
  /\ dpc = "copy"
  /\ qcopy' = queues[hist[env].val]
  /\ ccopy' = callbacks[hist[env].val]
  /\ mtx' = FALSE
  /\ dpc' = "deliver"
  /\ UNCHANGED <<busVars, subVars, subs, ctlVars, outVars,
                 draining, env, dispatched>>

(* then every queue of the copy is given the message or counts as dropped, *)

GiveToQueue ==
  /\ dpc = "deliver"
  /\ qcopy # <<>>
  /\ LET e == Head(qcopy)
     IN IF Len(inbox[e.queue]) < QueueCapacity
          THEN /\ inbox' = [inbox EXCEPT ![e.queue] = Append(@, env)]
               /\ Give(e.id)
               /\ UNCHANGED <<lost, dropped>>
          ELSE /\ lost' = lost \cup {<<e.id, env>>}
               /\ dropped' = dropped + 1
               /\ UNCHANGED <<inbox, subs>>
  /\ qcopy' = Tail(qcopy)
  /\ UNCHANGED <<busVars, subVars, ctlVars, dpc, draining, env, ccopy, dispatched, mtx>>

(* and then every callback runs, which may call the bus once itself. *)

EnterCallback ==
  /\ dpc = "deliver"
  /\ qcopy = <<>>
  /\ ccopy # <<>>
  /\ Give(Head(ccopy).id)
  /\ ccopy' = Tail(ccopy)
  /\ dpc' \in {"deliver", "inCallback"}
  /\ UNCHANGED <<busVars, subVars, ctlVars, outVars,
                 draining, env, qcopy, dispatched, mtx>>

CallFromCallback ==
  /\ dpc = "inCallback"
  /\ \/ ChangeSubscribers
     \/ ~mtx /\ UNCHANGED <<subVars, subs>>     \* an id that is not there
  /\ dpc' = "deliver"
  /\ UNCHANGED <<busVars, ctlVars, outVars,
                 draining, env, qcopy, ccopy, dispatched, mtx>>

EndDelivery ==
  /\ dpc = "deliver"
  /\ qcopy = <<>>
  /\ ccopy = <<>>
  /\ dispatched' = dispatched + 1
  /\ env' = 0
  /\ dpc' = IF draining THEN "consume" ELSE "check"
  /\ UNCHANGED <<busVars, subVars, subs, ctlVars, outVars,
                 draining, qcopy, ccopy, mtx>>

----------------------------------------------------------------------------
Dispatch ==
  \/ CheckRunning
  \/ TakeEnvelope
  \/ FreeEnvelope
  \/ FindNothing
  \/ LockLists
  \/ CopyLists
  \/ GiveToQueue
  \/ EnterCallback
  \/ CallFromCallback
  \/ EndDelivery

Next ==
  \/ \E p \in Publishers : PublishEnvelope(p)
  \/ \E p \in Publishers, t \in Topics : ClaimEnvelope(p, t)
  \/ CallFromClient
  \/ \E q \in Queues : Receive(q)
  \/ Start \/ Stop \/ Join
  \/ Dispatch

Spec == Init /\ [][Next]_vars

(* Scheduling: the dispatch thread and a publisher inside publish() run    *)
(* on. Nobody else holds the mutex for longer than a step.                 *)
Fairness ==
  /\ WF_vars(Dispatch)
  /\ \A p \in Publishers : WF_vars(PublishEnvelope(p))

FairSpec == Spec /\ Fairness

----------------------------------------------------------------------------
Entries == [id : Nat, queue : Queues]

BusTypeOK ==
  /\ TicketTypeOK
  /\ pub \in [Publishers -> Nat]
  /\ queues \in [Topics -> Seq(Entries)]
  /\ callbacks \in [Topics -> Seq([id : Nat])]
  /\ mtx \in BOOLEAN
  /\ running \in BOOLEAN
  /\ main \in {"idle", "join"}
  /\ dpc \in {"none", "check", "consume", "free", "lock", "copy", "deliver",
              "inCallback", "exited"}
  /\ draining \in BOOLEAN
  /\ env \in Nat
  /\ qcopy \in Seq(Entries)
  /\ ccopy \in Seq([id : Nat])
  /\ inbox \in [Queues -> Seq(Nat)]
  /\ dropped \in Nat
  /\ dispatched \in Nat
  /\ subs \in Seq([topic : Topics, since : Nat, ended : BOOLEAN,
                   straggler : Nat, given : Seq(Nat)])
  /\ lost \subseteq Nat \X Nat
  /\ due \subseteq Nat
  /\ mtx <=> dpc = "copy"
  /\ env # 0 <=> dpc \in {"free", "lock", "copy", "deliver", "inCallback"}
  /\ qcopy # <<>> \/ ccopy # <<>> => dpc \in {"deliver", "inCallback"}
  /\ running => dpc \notin {"none", "exited"}

Finished(i) == Out(i) /\ i # env

Ids == DOMAIN subs

Given(id) == {subs[id].given[k] : k \in DOMAIN subs[id].given}

(* A subscription is given each message at most once, in the order in      *)
(* which they were published, and only messages of its topic, whether it   *)
(* is a queue or a callback (topic_bus.hpp:130 and :144).                  *)
GivenInOrder ==
  \A id \in Ids :
    LET g == subs[id].given IN
    /\ \A k, l \in DOMAIN g : k < l => g[k] < g[l]
    /\ \A i \in Given(id) : hist[i].val = subs[id].topic

(* Whoever subscribes before a message is published and stays is given     *)
(* it, or it is counted as dropped: a full queue, another subscriber or a  *)
(* callback that changes the lists costs nobody else a message             *)
(* (topic_bus.hpp:156 and README.md:202).                                  *)
NoSilentLoss ==
  /\ \A id \in Ids, i \in Tickets :
       Finished(i) /\ ~subs[id].ended /\ subs[id].since < i
         /\ hist[i].val = subs[id].topic =>
           i \in Given(id) \/ <<id, i>> \in lost
  /\ dropped = Cardinality(lost)

(* After unsubscribe() returned, the only message the subscriber can still *)
(* be given is the one the dispatch thread was delivering at that moment   *)
(* (topic_bus.hpp:150; test_topic_bus.cpp:31).                             *)
OnlyTheStraggler ==
  [][\A id \in Ids :
       subs[id].ended /\ subs'[id].given # subs[id].given =>
         subs'[id].given = Append(subs[id].given, subs[id].straggler)]_vars

(* stop() returns only when everything that was in the bus as it was       *)
(* called has been delivered, except what a publisher stuck inside         *)
(* publish() hides (topic_bus.hpp:138).                                    *)
StopDrains ==
  [][main = "join" /\ main' = "idle" => \A i \in due : Finished(i)]_vars

(* A delivery ends, whatever its callbacks ask of the bus and however slow *)
(* the subscribers are (README.md:280: callbacks used to deadlock on the   *)
(* mutex).                                                                 *)
DeliveryEnds == dpc = "lock" ~> dpc \in {"check", "consume"}

(* Every published message is dispatched, unless the bus is stopped.       *)
EventuallyDispatched ==
  \A i \in 1 .. MaxPut :
    (running /\ i \in Tickets /\ hist[i].stage = "ready")
      ~> (~running \/ (i \in Tickets /\ Finished(i)))

----------------------------------------------------------------------------
(* Why it works: the inductive invariant behind the theorems of            *)
(* TopicBusProofs.                                                         *)

Working == dpc \notin {"none", "exited"}

(* Before the dispatch thread has copied the lists for its envelope. *)
NotCopied == dpc \in {"free", "lock", "copy"}

(* What remains to be delivered of the envelope. *)
Pending(id) == \/ \E k \in DOMAIN qcopy : qcopy[k].id = id
               \/ \E k \in DOMAIN ccopy : ccopy[k].id = id

(* The first loop runs while running_, the drain when it is over. *)
ControlInv ==
  /\ main = "join" => ~running
  /\ Working /\ draining => ~running
  /\ Working => running \/ main = "join"

(* The tickets are handed out in order; env is the last one, if any. *)
TicketsInv ==
  /\ \A p \in Publishers : pub[p] <= Len(hist)
  /\ \A i, j \in Tickets : j < i /\ Out(i) => Out(j)
  /\ env # 0 => /\ env \in Tickets /\ Out(env)
                /\ \A i \in Tickets : env < i => ~Out(i)

(* A subscription is in a list, once, as long as it has not ended. *)
ListsInv ==
  /\ \A t \in Topics :
       /\ \A k \in DOMAIN queues[t] :
            LET id == queues[t][k].id
            IN id \in Ids /\ subs[id].topic = t /\ ~subs[id].ended
       /\ \A k \in DOMAIN callbacks[t] :
            LET id == callbacks[t][k].id
            IN id \in Ids /\ subs[id].topic = t /\ ~subs[id].ended
       /\ \A k, l \in DOMAIN queues[t] : k < l => queues[t][k].id < queues[t][l].id
       /\ \A k, l \in DOMAIN callbacks[t] : k < l => callbacks[t][k].id < callbacks[t][l].id
       /\ \A k \in DOMAIN queues[t], l \in DOMAIN callbacks[t] :
            queues[t][k].id # callbacks[t][l].id
  /\ \A id \in Ids :
       ~subs[id].ended =>
         \/ \E k \in DOMAIN queues[subs[id].topic] : queues[subs[id].topic][k].id = id
         \/ \E k \in DOMAIN callbacks[subs[id].topic] : callbacks[subs[id].topic][k].id = id

(* Whoever is still to be given the envelope wants it and has not had it,  *)
(* and if it unsubscribed it did so meanwhile.                             *)
Owed(id) ==
  /\ id \in Ids
  /\ subs[id].topic = hist[env].val
  /\ subs[id].ended => subs[id].straggler = env
  /\ env \notin Given(id)
  /\ <<id, env>> \notin lost

CopiesInv ==
  /\ \A k, l \in DOMAIN qcopy : k < l => qcopy[k].id < qcopy[l].id
  /\ \A k, l \in DOMAIN ccopy : k < l => ccopy[k].id < ccopy[l].id
  /\ \A k \in DOMAIN qcopy, l \in DOMAIN ccopy : qcopy[k].id # ccopy[l].id
  /\ \A k \in DOMAIN qcopy : Owed(qcopy[k].id)
  /\ \A k \in DOMAIN ccopy : Owed(ccopy[k].id)

(* What has been given or lost was handed out by the bus queue. *)
GivenInv ==
  /\ \A id \in Ids : \A i \in Given(id) :
       /\ i \in Tickets
       /\ Out(i)
       /\ hist[i].val = subs[id].topic
       /\ NotCopied => i # env
  /\ \A id \in Ids : \A k, l \in DOMAIN subs[id].given :
       k < l => subs[id].given[k] < subs[id].given[l]
  /\ \A x \in lost : x[2] \in Tickets /\ Out(x[2]) /\ (NotCopied => x[2] # env)
  /\ IsFiniteSet(lost)
  /\ dropped = Cardinality(lost)

(* Nobody who stays is forgotten. *)
NobodyForgotten ==
  \A id \in Ids, i \in Tickets :
    /\ Out(i)
    /\ ~subs[id].ended
    /\ subs[id].since < i
    /\ hist[i].val = subs[id].topic
    => \/ i \in Given(id)
       \/ <<id, i>> \in lost
       \/ i = env /\ (NotCopied \/ Pending(id))

(* What stop() waits for is published, and gone when the thread ends. *)
DueInv ==
  main = "join" =>
    \A i \in due :
      /\ i \in Tickets
      /\ \A j \in 1 .. i : hist[j].stage # "claimed"
      /\ dpc = "exited" => Out(i)

BusInv ==
  /\ BusTypeOK
  /\ ControlInv
  /\ TicketsInv
  /\ ListsInv
  /\ CopiesInv
  /\ GivenInv
  /\ NobodyForgotten
  /\ DueInv
=============================================================================
