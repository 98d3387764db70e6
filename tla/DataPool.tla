------------------------------ MODULE DataPool ------------------------------
(* The data behind /api/latest and /api/history (data_pool.hpp): a source  *)
(* puts samples in a ring, one thread drains it into a thinned-out history *)
(* and the latest sample, another takes snapshots of both. The ring keeps  *)
(* the promise of TicketQueue; with one thread on each side a call of it   *)
(* is one step here. A sample is its number; `samples` knows its stamp.    *)
EXTENDS Integers, Sequences

CONSTANTS
  RingCap,      \* samples the ring holds
  HistoryCap,   \* samples the history holds
  Interval,     \* kSampleIntervalMs
  Width         \* timestamps are unsigned numbers below Width

ASSUME PoolAssumption ==
  /\ RingCap \in Nat \ {0} /\ HistoryCap \in Nat \ {0}
  /\ Interval \in Nat \ {0} /\ Width \in Nat /\ Interval < Width

VARIABLES
  samples,      \* history: every sample made, [ts, fast]
  ring,         \* ring_
  dpc,          \* drain(): "rest", "drain", "push"
  held,         \* its local `last`, 0 when n is 0
  lastKept,     \* last_sample_ts_
  history, latest,    \* history_ and latest_, under mtx_
  taken,        \* history: what drain() has consumed
  shown         \* the last snapshot: its latest and its history

poolVars == <<ring, dpc, held, lastKept, history, latest, taken, shown>>

PoolInit ==
  /\ samples = <<>>
  /\ ring = <<>>
  /\ dpc = "rest" /\ held = 0 /\ lastKept = 0
  /\ history = <<>> /\ latest = 0
  /\ taken = <<>>
  /\ shown = [latest |-> 0, history |-> <<>>]

(* Unsigned subtraction. *)
Minus(a, b) == (a - b) % Width

Stamp(k) == samples[k].ts

----------------------------------------------------------------------------
(* produce(): a full ring refuses the sample, and the sources do not look  *)
(* at the answer.                                                          *)
Produce(s) ==
  /\ samples' = Append(samples, s)
  /\ ring' = IF Len(ring) < RingCap THEN Append(ring, Len(samples')) ELSE ring
  /\ UNCHANGED <<dpc, held, lastKept, history, latest, taken, shown>>

(* A mistake no action makes: the difference is signed. *)
DueSigned(k) == Stamp(k) - lastKept >= Interval

(* A sample is kept when Interval has passed since the last one kept. *)
DueForHistory(k) == Minus(Stamp(k), lastKept) >= Interval

(* drain(): one sample after the other until the ring is found empty. *)
DrainTake ==
  /\ dpc \in {"rest", "drain"}
  /\ ring # <<>>
  /\ held' = Head(ring)
  /\ ring' = Tail(ring)
  /\ taken' = Append(taken, held')
  /\ IF DueForHistory(held')
       THEN lastKept' = Stamp(held') /\ dpc' = "push"
       ELSE lastKept' = lastKept /\ dpc' = "drain"
  /\ UNCHANGED <<samples, history, latest, shown>>

(* The first hold of the mutex: the history, *)
DrainPush ==
  /\ dpc = "push"
  /\ history' = IF Len(history) < HistoryCap
                  THEN Append(history, held)
                  ELSE Append(Tail(history), held)
  /\ dpc' = "drain"
  /\ UNCHANGED <<samples, ring, held, lastKept, latest, taken, shown>>

(* A mistake no action makes: the latest sample is set with the history. *)
DrainEmptyUnheld ==
  /\ dpc = "drain"
  /\ ring = <<>>
  /\ latest' = IF history = <<>> THEN latest ELSE history[Len(history)]
  /\ held' = 0
  /\ dpc' = "rest"
  /\ UNCHANGED <<samples, ring, lastKept, history, taken, shown>>

(* the second: the latest sample.                                          *)
DrainEmpty ==
  /\ dpc = "drain"
  /\ ring = <<>>
  /\ latest' = held
  /\ held' = 0
  /\ dpc' = "rest"
  /\ UNCHANGED <<samples, ring, lastKept, history, taken, shown>>

(* snapshot() copies both under the mutex. *)
TakeSnapshot ==
  /\ shown # [latest |-> latest, history |-> history]
  /\ shown' = [latest |-> latest, history |-> history]
  /\ UNCHANGED <<samples, ring, dpc, held, lastKept, history, latest, taken>>

Drain == DrainTake \/ DrainPush \/ DrainEmpty

----------------------------------------------------------------------------
Numbers == 1 .. Len(samples)

PoolTypeOK ==
  /\ samples \in Seq([ts : 0 .. Width - 1, fast : BOOLEAN])
  /\ ring \in Seq(Numbers) /\ Len(ring) <= RingCap
  /\ dpc \in {"rest", "drain", "push"}
  /\ held \in 0 .. Len(samples)
  /\ lastKept \in 0 .. Width - 1
  /\ history \in Seq(Numbers) /\ Len(history) <= HistoryCap
  /\ latest \in 0 .. Len(samples)
  /\ taken \in Seq(Numbers)
  /\ shown.latest \in 0 .. Len(samples) /\ shown.history \in Seq(Numbers)

Among(q) == {q[i] : i \in DOMAIN q}

Newest(h) == IF h = <<>> THEN 0 ELSE h[Len(h)]

Rising(h) == \A i, j \in DOMAIN h : i < j => h[i] < h[j]

(* What a snapshot shows is in order and never ahead of the pool, so a     *)
(* later one never goes back; its history is newer than its latest sample  *)
(* only while drain() is between its two holds of the mutex, and at rest   *)
(* the latest sample is the last one consumed (test_data_pool.cpp:57).     *)
SnapshotsInOrder ==
  /\ Rising(taken) /\ Rising(history) /\ Rising(shown.history)
  /\ shown.latest <= latest /\ Newest(shown.history) <= Newest(history)
  /\ latest < Newest(history) => dpc # "rest"
  /\ dpc = "rest" => latest = Newest(taken)

(* The samples handled: a push that is still to come is not. *)
Handled == {taken[i] : i \in 1 .. (IF dpc = "push" THEN Len(taken) - 1 ELSE Len(taken))}

(* The history thins the samples out, and does nothing else: two that      *)
(* follow each other in it are an interval or more apart, every sample     *)
(* between them and after the last is less than one from its predecessor   *)
(* in the history, and nothing newer than the history is missing. It goes  *)
(* on after the clock was set back (data_pool.hpp:40): the unsigned        *)
(* difference wraps and the sample counts as due.                          *)
HistoryIsSampled ==
  /\ \A i \in 1 .. Len(history) - 1 :
       Minus(Stamp(history[i + 1]), Stamp(history[i])) >= Interval
  /\ \A i \in DOMAIN history, k \in Handled :
       /\ k > history[i]
       /\ i < Len(history) => k < history[i + 1]
       => Minus(Stamp(k), Stamp(history[i])) < Interval
  /\ history = <<>> => Handled = {}

----------------------------------------------------------------------------
(* Why it works: the part of the pool in the inductive invariant behind    *)
(* the theorems of DashboardProofs. The samples pass through the ring in   *)
(* order; drain() holds the last one taken; the time in last_sample_ts_ is *)
(* that of the newest sample in the history, or of the one on its way      *)
(* there. No sample is older than an interval, so the first one is due.    *)
PoolInv ==
  /\ PoolTypeOK /\ SnapshotsInOrder /\ HistoryIsSampled
  /\ \A k \in Numbers : Stamp(k) >= Interval
  /\ Rising(ring) /\ \A k \in Among(ring) : Newest(taken) < k
  /\ dpc # "rest" => taken # <<>> /\ held = Newest(taken)
  /\ latest <= Newest(taken) /\ Newest(history) <= Newest(taken)
  /\ dpc = "push" =>
       /\ lastKept = Stamp(held) /\ Newest(history) < held
       /\ history # <<>> => Minus(lastKept, Stamp(Newest(history))) >= Interval
  /\ dpc # "push" => lastKept = IF history = <<>> THEN 0 ELSE Stamp(Newest(history))
=============================================================================
