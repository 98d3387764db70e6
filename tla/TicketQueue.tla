---------------------------- MODULE TicketQueue ----------------------------
(***************************************************************************)
(* What the lock-free queues of this repository promise their callers,     *)
(* whatever the number of threads: MpmcQueue (include/mpmc_queue.hpp) and, *)
(* with the same algorithm in shared memory, ShmRing                       *)
(* (include/shm_ring.hpp).                                                 *)
(*                                                                         *)
(* Every accepted message gets a ticket, in the order in which the tail    *)
(* cursor was claimed, and a ticket passes through four stages, once each: *)
(*   claimed - a producer owns the slot and is copying the message in;     *)
(*   ready   - the message is published;                                   *)
(*   taken   - one consumer owns the slot and is copying the message out;  *)
(*   freed   - the slot may carry a message of the next lap.               *)
(* Two things a caller may not expect show here: a ticket that is claimed  *)
(* but not ready hides every later ready ticket, and a slot stays occupied *)
(* until its consumer frees it.                                            *)
(***************************************************************************)
EXTENDS Integers, Sequences

CONSTANTS
  Values,      \* the messages
  Capacity,    \* capacity_, the number of slots
  MaxPut       \* bound: callers stop once this many tickets are claimed

ASSUME CapacityAssumption == Capacity \in Nat \ {0}

ASSUME MaxPutAssumption == MaxPut \in Nat

VARIABLE hist        \* the tickets, oldest first

Stages == {"claimed", "ready", "taken", "freed"}

Tickets == DOMAIN hist

(* A consumer has claimed the head cursor past ticket i. *)
Out(i) == hist[i].stage \in {"taken", "freed"}

(* The ticket the head cursor points at. *)
IsHead(i) == /\ ~Out(i)
             /\ \A j \in 1 .. (i - 1) : Out(j)

(* consume() finds a message. *)
HeadReady == \E i \in Tickets : IsHead(i) /\ hist[i].stage = "ready"

(* What a thread that consumes until it finds nothing is sure to get: the  *)
(* messages that no call still under way hides.                            *)
Reachable ==
  {i \in Tickets : \A j \in 1 .. i : hist[j].stage # "claimed"}

(* Mistakes one could make in this code; no action below uses them. *)

(* The slot one lap back counts as free while it is being read. *)
FullUnlessTaken ==
  /\ Len(hist) >= Capacity
  /\ hist[Len(hist) - Capacity + 1].stage \in {"claimed", "ready"}

(* produce() finds the slot one lap back still in use. *)
Full == /\ Len(hist) >= Capacity
        /\ hist[Len(hist) - Capacity + 1].stage # "freed"

(* Any ready ticket is handed out, not the one at the head. *)
TakeAnyReady(i) ==
  /\ hist[i].stage = "ready"
  /\ hist' = [hist EXCEPT ![i].stage = "taken"]

Claim(v) ==
  /\ ~Full
  /\ hist' = Append(hist, [val |-> v, stage |-> "claimed"])

Publish(i) ==
  /\ hist[i].stage = "claimed"
  /\ hist' = [hist EXCEPT ![i].stage = "ready"]

Take(i) ==
  /\ IsHead(i)
  /\ hist[i].stage = "ready"
  /\ hist' = [hist EXCEPT ![i].stage = "taken"]

Free(i) ==
  /\ hist[i].stage = "taken"
  /\ hist' = [hist EXCEPT ![i].stage = "freed"]

TInit == hist = <<>>

TNext ==
  \/ \E v \in Values : Claim(v)
  \/ \E i \in Tickets : Publish(i)
  \/ \E i \in Tickets : Take(i)
  \/ \E i \in Tickets : Free(i)

TSpec == TInit /\ [][TNext]_hist

----------------------------------------------------------------------------
TicketTypeOK == hist \in Seq([val : Values, stage : Stages])

(* No slot carries two messages: tickets a whole lap or more apart are     *)
(* never in use together, so at most Capacity tickets are in use           *)
(* (mpmc_queue.hpp, the sequence number compared before the tail_ CAS).    *)
OneMessagePerSlot ==
  \A i, j \in Tickets :
    j - i >= Capacity => hist[i].stage = "freed"
=============================================================================
