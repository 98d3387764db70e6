# Verification of vehicle-dashboard

TLA+ models of the concurrent core of this repository, the TLC configurations
that check them on small instances, and TLAPS proofs of their safety properties.
Paths below are relative to `src/`; `x.hpp:n` is line n of `src/include/x.hpp`
unless another directory is named.

Run `tlc -config X.cfg M` or `tlapm M.tla` in this directory; `PROJECT.json`
lists every run, with the properties it checks, and maps every definition to
the lines it models.

## 1. Inventory

The program is a vehicle dashboard. A *source* thread reads frames (CAN socket,
shared memory, or generated data), puts each sample in a pool and publishes it on
a bus. One consumer thread drains the pool into the history and the latest sample
that HTTP requests read; the subscribers of the bus take the samples from their own
queues: the WebSocket page at 20 Hz, the alarms, and a TCP reporter. A logger with
its own thread serves all of them.

| Component | State it keeps | Operations | Talks to |
|---|---|---|---|
| MpmcQueue (`mpmc_queue.hpp`) | cursors `head_`, `tail_`; cells of `seq`, `data` | `produce`, `consume`, any number of threads, no lock | atomics only |
| BlockingQueue (`blocking_queue.hpp`) | an MpmcQueue, `mtx_`, `cv_`, `stop_` | `produce`, `try_consume`, `consume_blocking(timeout)`, `stop` | its MpmcQueue; sleepers by notification |
| TopicBus (`topic_bus.hpp`) | subscriber lists under `mtx_`, a bus queue of 4096, `running_`, counters | `publish`, `subscribe`, `unsubscribe`, `start`, `stop`; the dispatch thread's `deliver` | MpmcQueue in, one BlockingQueue per subscriber out, callbacks |
| Logger (`logger.hpp`) | a BlockingQueue of 8192, `running_`, `min_level_`, the file | `init`, `log`, `shutdown`, `flushLoop` | BlockingQueue, the file |
| ShmRing (`shm_ring.hpp`, `src/can_reader.cpp`, `src/shm_*.cpp`) | a named shared-memory region: magic, sizes, slots | `create`, `open`, `push`, `pop`, `close` | the kernel's name space; another process |
| DataPool (`data_pool.hpp`) | an MpmcQueue; history and latest sample under a mutex; the timestamp kept last | `produce`, `drain`, `snapshot`, one thread each | source, consumer, HTTP |
| EpollReporter (`epoll_reporter.hpp`) | socket, `connecting_`, `want_write_`, send buffer, back-off, next sample time | `start`, `stop`, the epoll loop | BlockingQueue, the kernel |
| NetReporter (`net_reporter.hpp`) | socket, back-off, a waiting thread | `start`, `stop`, the blocking loop | BlockingQueue; not used by the dashboard |
| RingBuffer (`ring_buffer.hpp`) | `head_`, `tail_`, buffer | `push`, `pop`, one thread each | benchmarks only |
| Dashboard (`src/main.cpp`) | the flags and threads that wire it all together | source fallback, merge, alarm cooldown, shutdown order | everything above |

What is hard here: the interleavings of the lock-free algorithms (a thread may
be suspended between its CAS and its store), notification outside the lock that
guards the condition, messages in flight while a subscriber leaves, drains at
shutdown that race late producers, a region that outlives a crashed process, and
retry timers that race late events. `PROJECT.json` lists these as *hazards*, each
at its line, with the properties that cover it.

What makes each of them correct:

- *Queues*: no two threads in one slot, no torn message, order of the claims,
  refusals that are real, no thread held up by a suspended one; with sleepers,
  no lost wakeup and none left asleep after `stop`.
- *TopicBus*: each subscriber gets each message once and in order, or the loss is
  counted; nobody else pays for a full queue; `stop` drains.
- *Logger*: the file holds accepted entries once and in order; `shutdown` returns
  and leaves nothing behind that it could have written.
- *ShmRing*: what is read was written, through crashes and restarts; two processes
  that follow the protocol meet in the same region.
- *DataPool*: the latest sample is the last one consumed (`tests/test_data_pool.cpp:57`)
  and never goes back; the samples kept are an interval or more apart, and none that
  is due is left out, also when the clock was set back.
- *EpollReporter*, *NetReporter*: what is sent is sent once and in order across
  partial sends and reconnects; interest in `EPOLLOUT` agrees with what is left to
  send; attempts are spaced by a back-off that doubles; messages are dropped for the
  reasons the documentation gives and no other; `stop` ends the thread.
- *Dashboard*: the page shows the last value in the end and never goes back; no
  alarm is repeated within its cooldown and none is swallowed.

## 2. Plan

| Step | Module | Composes | State |
|---|---|---|---|
| 1 | TicketQueue: what a queue promises; TicketQueueProofs | | done, proved |
| 2 | MpmcQueue implements TicketQueue; MpmcQueueProofs | TicketQueue | done, refinement proved |
| 3 | BlockingQueue on top of the promise; theorems in LoggerProofs | TicketQueue | done, safety proved |
| 4 | RingBuffer (one producer, one consumer); RingBufferProofs | TicketQueue | done, refinement proved |
| 5 | TopicBus: order, no silent loss, unsubscribe, drain; TopicBusProofs | TicketQueue | done, safety proved |
| 6 | Logger: what reaches the file; LoggerProofs | BlockingQueue | done, safety proved |
| 7 | ShmRing: create, open, close, crash, restart; ShmRingProofs | TicketQueue | done, safety and refinement proved |
| 8 | Uplink (what the reporters share), EpollReporter, NetReporter, Reporters; ReportersProofs | bounded queue as in TopicBus | done, safety proved |
| 9 | DataPool; Dashboard: sources, fall-back, consumer, page, alarms; DashboardProofs | bounded queues as in TopicBus | done, safety proved |

The order follows the dependencies of the code. Everything above a queue relies
on what the queue promises, so the promise comes first, then the algorithm that
keeps it, then the users of it, each modelled on the promise and not on the
algorithm.

## 3. The modules and the code

**TicketQueue** is the abstract specification. Its state is one sequence of
tickets, a message and a stage each: *claimed* (a producer won the CAS on
`tail_`), *ready* (`seq` stored), *taken* (a consumer won the CAS on `head_`),
*freed*. `Claim`, `Publish`, `Take` and `Free` are the only steps. It says what a
sequential queue would hide: a claimed ticket hides every later one, and a slot
stays occupied until its consumer is through with it.

**MpmcQueue** has one action per atomic access of `produce` and `consume`
(`mpmc_queue.hpp:30-76`): load the cursor, load `seq` and branch on the
difference, CAS, copy, store `seq`. `pos` and `item` are the locals of a call.
`CasTailFails` and `CasHeadFails` are the weak CAS that fails for no reason.
The refinement reads the tickets off the cursors and cells; the message of a
published ticket is the one really found in its slot, so a torn or overwritten
slot is not a ticket of TicketQueue.

**BlockingQueue** extends TicketQueue: a call of the inner queue is `Claim` then
`Publish`, or `Take` then `Free`, and others run in between. `mtx_`, the wait set
(`pc = "waiting"`), `notify_one`, `notify_all`, spurious wakeups, the timeout in
ticks and the last try after it (`blocking_queue.hpp:31-54`) are explicit.
Producers publish *before* they take the mutex, as in the code.

**TopicBus** extends TicketQueue with the bus queue. `publish` is a claim and a
publish; `subscribe` and `unsubscribe` come from a client thread or from inside a
callback; `deliver` takes the mutex, copies the lists, releases it, then serves
the copies one by one (`topic_bus.hpp:144-163`). The queues of the subscribers
are bounded sequences, since the dispatch thread is their only producer. Each
subscription remembers what it was given and what it was subscribed for.

**Logger** extends BlockingQueue: `flushLoop` is its one consumer and `shutdown`
its one caller of `stop`. A combined step is a step of the queue together with
what the logger does around it. The file is the sequence of the tickets written.
After `shutdown` it may be opened again, with a queue that stays stopped.

**ShmRing** has the region as a value that outlives processes, and the kernel's
name for it. `create`, `open` and `close` are one action per system call or store
to the header; a process may die between any two. `push` and `pop` are coarser
than in MpmcQueue (load and CAS in one step); what is kept apart is what a death
or a half-initialised header can come between. `complete` holds the regions whose
`create` ended, and `early` those used before that in a way the code does not
survive: pushed into by a second writer, or read by one of several readers. Each
region that is complete and not `early` implements TicketQueue: its tickets are read
off cursors and slots, the message of a published one out of its slot, and the death
of a process leaves a ticket claimed or taken for ever.

**RingBuffer** has one action per access to a cursor or the buffer
(`ring_buffer.hpp:10-30`).

**Uplink** holds what the two reporters share: `net_q` as a bounded sequence whose
producer is the bus, the socket as the kernel and the server see it (`link`: none,
syn, up, fin, reset; `room` for half lines, a reply to read, a server that no longer
reads), the timers as the time that is left, and `start` and `stop`. A line is two
halves, because `send` may take a part of it. One tick is 50 ms and passes only while
the reporter's thread waits.

**EpollReporter** (`epoll_reporter.hpp:50-253`) is cut where somebody else can come
between: `epoll_wait` leaves the events it saw in `ev`, and `handleEvent` acts on
them later. `armed` is the kernel's copy of the interest in `EPOLLOUT`, `wantWrite`
the code's. `closeSocket` keeps `send_buf_`, as in the code. A `tryConnect` that fails in
`epoll_ctl` leaves `connecting_` as `connect` had it, without a socket. **NetReporter**
(`net_reporter.hpp:52-137`) blocks in `connect`, `consume_blocking` and `send`, and
drains its queue in each slice of a back-off. **Reporters** starts one of the two.

**DataPool** (`data_pool.hpp:28-61`): a sample is its number, and `samples` knows its
timestamp, an unsigned number of a few bits. `drain` is one action per sample taken,
one per hold of the mutex; `snapshot` is one action.

**Dashboard** (`src/main.cpp`, `src/data_generator.cpp`) puts around the pool the
choice of the source and its fall-back, the three sources (each sample goes to the
pool and then to the bus, in two steps; one from the shared memory keeps the stamp of
the process that wrote it, `ShmStamps`), the dispatch to `ws_q` and `alarm_q`,
`ws_consumer` with its timer, the event loop with what was deferred to it, and
`alarm_consumer`. A tick is 50 ms, the wall clock is a clock of its own, and it may be
set back. **MCDashboard** runs one of three groups of threads at a time (`side`): the
pool and its reader, the page, or the alarms. They share the clock, the source and the
bus in front of them, all of which run in each case, and nothing else: what one of them
does is in no guard and no update of another. The threads of the other groups stand
still and their queues fill up, which is one of their behaviours.

Every model takes memory to be sequentially consistent. For the queues the
acquire and release pairs on `seq` (on `head_` and `tail_` in RingBuffer) order
the copies of the message; a relaxed load that returns an old cursor behaves like
a load followed by a delay, which the models contain.

## 4. The runs

| Run | Asks | Instance | Distinct states |
|---|---|---|---|
| `mpmc_queue` | exclusive slots, no torn message, honest refusals, refinement, no thread waits for another | 2 producers, 2 consumers, 2 slots, 3 positions, 2 messages | 401 000 |
| `blocking_queue` | no lost wakeup, no sleeper after `stop`, delivery, return | 1 producer, 2 consumers, 1 stopper, 2 slots, 4 messages | 59 000 |
| `blocking_queue_lost_wakeup` | finding 1 | 2 producers, 2 consumers | violated |
| `topic_bus` | order, accounting, late deliveries, drain; deliveries end, messages are dispatched | 2 topics, 2 publishers, 1 queue and callbacks, 2 subscriptions, 2 messages | 1 180 000 |
| `logger` | file in order, shutdown flushes and returns, entries are written | 2 logging threads, 3 entries, 2 slots, opened twice | 48 000 |
| `shm_ring` | what is read was written, names are removed by their makers, the invariant `ShmInv`, refinement | 2 writers, 1 reader, 2 regions, 3 messages, 1 death, 1 close | 2 190 000 |
| `shm_ring_live` | what is published is read | 1 writer, 1 reader, 1 death, 2 closes | 90 000 |
| `shm_ring_sizes` | finding 2 | 1 writer, 1 reader, 1 region | violated |
| `ring_buffer` | order, honest refusals, refinement, arrival | 3 slots, 6 messages of 2 values | 6 600 |
| `reporters` | order on the wire, spacing of attempts, reasons for a drop, `stop`, recovery | each reporter; a queue of 4, 5 messages, 2 failures, back-offs of 1, 2 and 3 ticks | 595 000 |
| `reporter_backoff` | finding 3 | the EpollReporter, 10 messages, 3 failures, back-offs up to 8 ticks | violated |
| `dashboard` | readers see time go forward, the history is sampled, views settle, alarms on time | 4 samples, ring, history and queues of 2, a clock of 4 bits set back once, 3 stamps of another process | 825 000 |

**Why the bounds are enough.** With two slots and three positions the first slot
is reused a lap later while threads of the first lap are still suspended in it,
which is the only way threads of different laps meet. Two threads of a kind are
needed for a lost CAS, and two are all that one CAS tells apart. In
BlockingQueue four messages on two slots fill the ring, empty it and reuse each
slot once. In TopicBus a queue of one message fills at once, the two
subscriptions can be a queue and a callback or one id replaced by the next, and
a message in flight can meet each of `unsubscribe`, `stop` and a full queue; two
publishers are needed for a claimed ticket that hides a published one, and two
topics for a message given to the wrong list. In ShmRing two regions are an old
one and a new one, three messages on two slots are more than a lap, and one
death together with one close reaches every state of the header that a restart
can find; the dashboard is the reader, and several readers are left to the
theorems. RingBuffer wraps both cursors twice. In Reporters a queue of four and five
messages overflow once the thread stops looking, a send buffer of three half lines
fills with one line to come, two failures are one that breaks a connection and one
that meets the next attempt, and three back-offs are the first, a doubled one and the
capped one. In Dashboard the history of two throws out its oldest sample, four samples
overfill every queue, the clock can be set back between any two samples, and the stamps
of another process are an interval or less apart, forwards and backwards. `MaxPut`, `MaxSent`, `MaxSubs`, `MaxMsgs`,
`MaxSamples`, `MaxRegions`, `MaxCrashes`, `MaxCloses` and `MaxLives` stop *callers*;
`MaxFaults` stops failures, `MaxWall` the wall clock, and `MaxLate` says how many
periods of the page may be behind, in `ws_consumer` and the event loop together: no
thread waits for it, further periods are not counted. `MaxPops` stops a reader, since after a death between the stores of capacity and mask `pop()` can
return the same slot for ever. Deadlock is checked except in Logger, ShmRing and Reporters,
where all that is left to do may be done.

**Fairness.** A thread that is inside a call runs on (weak fairness of its
steps): the scheduler of the operating system does no less. A thread that asks
for a mutex gets it in the end (strong fairness), which a `std::mutex` held for
short sections provides in practice. In BlockingQueue and RingBuffer the consumer
calls again, as the loops of `main.cpp`, `Logger::flushLoop` and the tests do; no
producer is obliged to call, no timeout is obliged to expire and no spurious
wakeup is obliged to come, so delivery does not lean on them. In MpmcQueue only
the threads of `Alive` are fair; the others may stop for ever with a slot
claimed, and `CallsReturn` says that the two that run on return all the same. A
CAS that could succeed again and again does so once (strong fairness of the
successful CAS). In ShmRing every process is started again after it died, and
the dashboard tries again to open the region; nobody is obliged to die or to
close. In Reporters the thread runs on, time passes while it waits, an attempt to
connect is answered (TCP gives up in the end) and a server that is not stuck reads;
nobody is obliged to fail, to publish or to stop, and liveness is stated for what
happens once the failures, which are bounded, are over. In Dashboard each thread runs
on and time passes; no source is obliged to make a sample, and since samples are
bounded `ViewsCatchUp` is about a source that falls silent. With two producers in MpmcQueue the others can make only finitely many
CAS attempts fail, since positions are bounded: `CallsReturn` is about being
blocked by a stopped thread, not about starvation by busy ones.

**Mutants.** Every property of every passing run has a mistake that breaks it,
written down in the module as a definition that no action uses: a store in place
of a CAS, a missing notification, a flag set outside the mutex, a drain that is
skipped, a check that is off by one.

## 5. What the runs found

1. *A wakeup is lost with several producers and several consumers*
   (`blocking_queue.hpp:41`, against the comment at line 9). The producer of the
   second position publishes and notifies before the producer of the first has
   published; both consumers find nothing at the head and sleep; the first
   producer's `notify_one` wakes one, which takes the first message and leaves;
   the second message stays while the other consumer sleeps. Each queue of the
   dashboard has one producer or one consumer. The passing run shows that it does
   not happen with one producer, and `OneConsumerIsWoken` proves it for one consumer.
2. *A reader can open a region that is not yet initialised* (`shm_ring.hpp:88`).
   `create` stores the magic number first and capacity, mask and slots after it.
   A reader that pops in between keeps the capacity it read, 0, and frees its slot
   with a number that no producer waits for: `push` then reports an empty ring as
   full for ever. When a second writer pushes that early, messages are
   overwritten. When `src/shm_reader.cpp` reads next to the dashboard, the one of the
   two that read the mask too early, as 0, can be overtaken by the other, and then looks
   at the first slot for whatever position the head has come to. That slot was given
   back with the number `Capacity`, which says "published" to who looks for position
   `Capacity - 1`: an old message, and a head past the tail. A single reader that early
   is still at position 0, whose slot every mask gives. Regions misused in one of these
   two ways are set aside by `early` in `ReadsWhatWasPut`.
3. *The EpollReporter does not drain its queue during a back-off*
   (`epoll_reporter.hpp:75-78`, against `README.md:231` and the comment at line 69).
   Only a `connect` that fails at once empties the queue, and only once; after a
   refused or lost connection, and for the rest of the back-off after a `connect` that
   failed at once, the loop sleeps in slices of 50 ms until the back-off, which grows to
   30 s, is over. `net_q` fills up and the bus drops. NetReporter had
   the same defect and was mended (`README.md:286`); the property holds for it.

Seen while reading and not the subject of a run: the dashboard does not follow a
restart of the reader process (`shm_ring.hpp:183`, `src/main.cpp:164-185`): `close` of
the owner unlinks the name, the restarted owner makes a new region, and the dashboard
polls its old mapping without looking at the name again (README.md of the repository
calls this life cycle a demonstration); a `recv` of 0 or an error closes the socket without a
back-off (`epoll_reporter.hpp:188`), and unless `flushSendBuf` fails right after it the
next attempt comes at once, against `README.md:231`. The end of a stream also raises
`EPOLLRDHUP`, which is served first, so that it only happens to an end that comes
between `epoll_wait` and `recv`; `SpacedRetries` names it as the one exception
(`outcome` records how the last connection ended). A `connect` in progress whose
`epoll_ctl` fails (139) leaves `connecting_` set without a socket; nothing reads it
before the next attempt sets it (`PlacesInv`). A full send buffer costs the message just taken and
ends the batch, so that one message a sample is taken from then on
(`epoll_reporter.hpp:231`); when `epoll_wait` fails the thread ends and the queue
overflows (102); `NetReporter::stop` joins a thread that may hang in `send`
(`net_reporter.hpp:120`, the exception in `ReporterStops`); `publish` on a full bus queue
loses the message and does not count it in `dropped_`; the last drain of the
logger stops at an entry that another thread has claimed and not published
(`ShutdownFlushes` states what is kept); `consume_blocking` waits the whole timeout
again after each wakeup that finds nothing; a queue of one slot would overwrite
unread messages (capacities 0 and 1 round to it, every queue of the program has
1024 or more, and the proofs assume at least two); `create` opens an existing
region where the comment at `shm_ring.hpp:59` speaks of removing it.

## 6. The proofs

All for every value of the constants that the named assumptions of the modules allow:
any sets of threads and messages, any capacity, no bound on positions. Each component
has inductive invariants, from which the safety invariants and action properties of the
runs follow. The runs check the invariant itself where
it is one formula (`IInv`, `RingInv`, `BusInv`, `LogInv`, `ShmInv`, `UplinkInv`); the types
of BlockingQueue are a part of `LogInv`.

| Module | Theorem | States |
|---|---|---|
| MpmcQueueProofs | Invariance, TypeCorrect, SequenceGrows | `IInv`, types, sequence numbers only grow |
| | Exclusion, NoTornRead, BoundedRing | one thread per slot, whole messages, at most `Capacity` of them |
| | RefusalIsReal, EmptinessIsReal, RefusalsHaveReasons | both kinds of refusal have a reason |
| | Refinement | `ImplementsTicketQueue` |
| TicketQueueProofs | SlotsNeverShared | tickets a lap apart are never in use together |
| TopicBusProofs | BusInvariant, TypeCorrect, InOrder | `BusInv`; what each subscription is given, in order and once |
| | NothingLostSilently, Straggler, Drained | losses are counted; at most one late delivery; `stop` drains |
| LoggerProofs | TypeCorrect, MutexDiscipline | BlockingQueue: types; who holds the mutex |
| | StopWakesAll, OneConsumerIsWoken | nobody sleeps after `stop`; no lost wakeup with one consumer |
| | LoggerInvariant, LoggerTypeCorrect | Logger: `LogInv`; types |
| | LinesInOrder, RemainingIsFlushed | the file; what `shutdown` leaves behind |
| RingBufferProofs | RingInvariance, RingTypeCorrect | `RingInv`; types |
| | PrefixDelivered, SlotsExclusive, HonestRefusals, Refinement | order, slots, refusals, `ImplementsTicketQueue` |
| ShmRingProofs | ShmInvariant, ShmTypeCorrect | `ShmInv`; types |
| | WhatIsReadWasPut, NamesAreUnlinkedByMakers | what readers get; who removes a name |
| | RingsAreTicketQueues, EachRingIsATicketQueue | `ImplementsTicketQueue`; the same, region by region |
| ReportersProofs | ReportersInvariant, ReportersTypeCorrect | `UplinkInv`; types |
| | SentOnceAndInOrder, RetriesAreSpaced, SamplingLosesNothing | the wire, the back-off, the sampling of the queue |
| DashboardProofs | ViewsAreInOrder, HistoryIsThinned, AlarmsAreOnTime | what readers see; the history; the alarms |

**MpmcQueueProofs** rests on the assumption that the capacity is a power of two
and at least two. Exclusion alone is not inductive: that a thread past its CAS
owns its slot depends on what `seq` says of every position of the window
`head .. head + Capacity - 1`, and that the CAS may not succeed on a stale
observation depends on `seq` never falling below a position once seen. `IInv`
says both: `ClaimedInv` and `OpenInv` for the positions of the window, `WriterInv`
and `ReaderInv` for the owners, `ProducerAheadInv` and `ConsumerAheadInv` for what
a thread that owns nothing may rely on. The proof has a lemma per action that
touches a cursor or a cell and one for all that do not (`QuietStep`). The
arithmetic it needs is that two positions less than a lap apart lie in different
slots (`SlotInjective`). For the refinement the slot of every consumer past its CAS
must still hold its message, not only until the next producer claims it:
`ReaderInv` says so of all readers at once. Then a step that claims, publishes, takes
or frees changes exactly one ticket, and every other step none: in particular the
store of a message into a claimed slot changes no ticket read off another slot.

**TicketQueueProofs** has, besides the theorem, the lemmas that the users of
TicketQueue share: what a claim and a change of stage leave alone (`ClaimFacts`,
`StageFacts`), and that the head of a queue that has nothing to take is claimed or
missing (`NothingReady`).

**TopicBusProofs** is about any number of publishers, topics, queues and
subscriptions. That a message is given or counted (`NoSilentLoss`) is stated when
nothing is under way; inductively, whoever was subscribed before a message has it, or
lost it, or is still to be served with it from the copies the dispatch thread made
(`NobodyForgotten`). For that the copies must be what the lists were, less what was
served, and whoever is in a copy and no longer in a list must have left meanwhile
(`CopiesInv`, `ListsInv`); that is also why a subscriber is given at most one message
after it left. Order rests on the bus queue handing its tickets out in order and on
`env` being the last of them (`TicketsInv`, `GivenInv`). `StopDrains` needs that what
`stop` found published cannot be hidden behind a claimed ticket (`DueInv`): the first
empty answer of the drain then finds it gone.

**LoggerProofs** is about BlockingQueue first, for any sets of producers, consumers
and stoppers. It has three invariants, each resting on the one before:
who holds the mutex (`MutexInv`); that a consumer on its way into the wait has
seen `stop_` false under the mutex, and that a sleeper after `stop_` is set still
has its `notify_all` to come (`StopInv`); and, for one consumer, that whoever made
the head visible after the consumer's failed look has its `notify_one` to come
(`WakeInv`). The last needs that a new claim shows nothing new at the head.

The theorems about Logger build on these and assume `LoggerRoles`: one thread consumes
and one stops, as `Logger` has it; TLC evaluates the same formula in MCLogger. Their
invariant says where in their calls the two threads can be (`CallsInv`), that entries
leave the queue one by one and that an entry out of the queue and not in the file is
the one in the hands of the flush thread (`EntriesInv`), and that what `shutdown` found
complete stays so (`KnownInv`). The order of the file follows from tickets leaving in order, across
lives of the logger; that `shutdown` leaves nothing behind follows because the flush
thread ends only on an empty answer, which an entry complete up to the head rules out.

**RingBufferProofs** proves that the cursors are the counts of received and
published messages modulo the size (`CursorInv`), that the locals of a call agree
with the cursors, and that the slots between the cursors hold what was sent
(`BufferInv`). From it follow the prefix property, exclusive slots, honest
refusals, and that the ring implements TicketQueue with capacity `Size - 1`: each
step that finds room, publishes, finds a message or stores the head is a step
of one ticket, every other step a stutter.

**ShmRingProofs** is about any number of writers, readers, regions, deaths and calls
of `close`, and any capacity of at least two. `MakerInv` says that the name stands for
the region of the one process that makes it or owns it, if there is one: two processes
that race in `create` never both own it, and so nobody unlinks the region of another
(`NamesAreUnlinkedByMakers`). `HeaderInv` says that a complete region has its sizes.
`RingInv` is about one region that is not in `early`: before it is complete nobody
touched its slots (`Untouched`); afterwards every position of the window from the head
to a lap further has a slot that holds its message, or is claimed, or may be free
(`Window`), each writer and reader past its claim owns a slot nobody else owns
(`WriterOwns`, `ReaderOwns`, `OwnersApart`), and what was read is what was put
(`GotInv`). A process that dies past its claim leaves the window as it is: its slot
stays claimed for ever, and the ring refuses from then on once it comes round, but it
never gives a torn or an old message. That a slot was given back with a capacity read
too early, 0, only makes the window look fuller (finding 2). The proof has a lemma per
step that uses a ring and one for all that do not (`QuietKeeps`); that a claim cannot
meet a slot of another lap rests on `PlacesApart`, as in MpmcQueueProofs.
The refinement follows from the same invariant: claiming, publishing, taking and
freeing each change one ticket of one region, and every other step, a death included,
changes none. A store to a slot could change the tickets of other laps that share it;
it does not, since these are at least `Capacity` positions away and the number of the
slot is one more than a position for one of them at most (`OtherLap`, `SlotStored`). A
slot given back with capacity 0 is a freed ticket too, but nobody can claim that slot again.

**ReportersProofs** is about both reporters at once, for any sizes and back-offs.
`PlacesInv` says where each thread can be and what that says of the socket: only with
a connection does `handleEvent` come to `recv` and `send`. `WireInv` says that queue,
buffer and wire continue each other: the buffer starts with the other half of the line
sent last, or with a later line, and a half whose rest was given up ended its
connection. `RetryInv` ties the timers to the failures: the back-off is no shorter
than what is due after one more failure, and what is left of the pause and what has
passed of it make up what is due now, on each of the error paths of `tryConnect`,
`handleEvent` and `flushSendBuf` that set a back-off. The close in `recv` sets none, and
`RetryInv` says that it is the only way, besides the start, to be without a connection
and without a failure counted. `PaceInv` says how many messages can have come since the reporter last
looked. It rests on `PaceAssumption`: the source makes 1000 samples a second
(`src/main.cpp:218`), 50 in a tick of 50 ms; a batch takes 128
(`epoll_reporter.hpp:229`) and `net_q` holds 4096 (`src/main.cpp:224`), more than two
ticks of them. A CAN bus or another process may be faster than that, and then
`SamplingLosesNothing` says nothing of it. The doubled back-offs are a recursive
function, `Power`; that it grows is proved by looking at the least number where it
does not (`LeastNatural`).

**DashboardProofs** has one invariant for what readers see and one for the alarms.
`ViewsInv` contains `PoolInv`: samples pass through the ring in order, `drain` holds the
last one it took, and the time in `last_sample_ts_` is that of the newest sample of the
history or of the one on its way there. `DashboardAssumption` says that the clock, in
milliseconds since 1970, is past one interval, also when it was set back, and does not
reach the width of its 64 bits, and the same of the stamps of the other process, which
are its clock (`can_reader.cpp`) or 1 000 000 and more (`shm_writer.cpp:22`); without
the first, a sample at time 0 would not be due. For the page, samples rise along `busQueue`, `ws_q`, the merged sample and the
deferred ones. For the alarms (`AlarmInv`) the samples keep their form from the source to
`alarm_q`, and the code's age of the last alarm, which it sets where it raises one,
agrees with the age an observer of the alarms would measure.

**Only model-checked.** Every liveness property, since fairness is outside what the
prover handles: `CallsReturn`, `Delivery`, `StopReturns`, `DeliveryEnds`,
`EventuallyDispatched`, `ShutdownReturns`, `EntriesAreWritten`, `EverythingArrives`,
`PublishedIsRead`, `ReporterStops`, `SendsOn`, `ViewsCatchUp`. Every safety property
and action property of the passing runs is a theorem. The library's induction theorems
take an operator as a parameter, which the provers cannot instantiate; where a proof
needs induction over numbers it uses least counterexamples instead.

## 7. What is not modelled

- The signal watcher of `src/main.cpp` (349-369): `exit` ends the process while its
  other threads run, which leaves no state to state a property of. What it calls
  before, `reporter.stop()` and `Logger::shutdown()`, is in the modules of those
  components. Lines 374-385 are never reached, since `app.run()` does not return.
- `ShmRing::unlink`, which nobody calls; the benchmark mode and the static files of
  `main.cpp`; the counters that are only printed (`sent_`, `reconnects_`,
  `total_consumed_`); the format of the lines of log and wire.
- The CAN test tool, the web page, the benchmarks and the scripts keep no state that
  a property could be about.
- `include/json.hpp` is a vendored copy of nlohmann json: 24 596 of the 26 583 lines of
  C++ in the repository. Whatever share of the source the map covers has to be read
  against the roughly 2 000 lines that are this program's own.
- Weak memory: every model is sequentially consistent, see section 3.
