# water.rs in TLA+

This directory models the core of water.rs, an in-process message passing
library with TCP bridges, in TLA+; checks the models with TLC on small
instances; and proves the most important properties with TLAPS for every value
of the constants. `PROJECT.json` lists components, runs, mutants, the lines each
definition stands for, findings, hazards and theorems. Paths such as
`endpoint.rs:404` are relative to `src/src/`.

## 1. The system

A `Net` is a registry of `Endpoint`s. A message is sent through an endpoint and
given to all endpoints of the net one after the other; each decides by address
whether it takes a clone of it. Threads receive from an endpoint with or
without blocking. Two nets are joined by a pair of bridges, which are endpoints
with a receiving and a sending thread each.

| Component | State | Operations | Who uses it |
|---|---|---|---|
| Endpoint (`endpoint.rs`) | queue, two limits, memory counter, `waitmutex`, condition variable, address | `give`, `recv`, `recvorblock`, `recvorblockforever`, `setlimit*`, `setsid/seteid/setgid` | any thread with a clone of the handle; `Net` calls `give` |
| Net (`net.rs`) | `endpoints`, `hueid`, one mutex | `new_endpoint*`, `get_neweid`, `add_endpoint`, `drop_endpoint`, `send`, `sendas` | owners of endpoints, `Endpoint::send`, `Endpoint::drop`, bridges |
| Handles (`endpoint.rs:214-241`) | `refcnt`, `dropped` | `clone`, `drop` | every owner and every send; `drop` calls back into the net |
| Messages (`message.rs`, `syncmessage.rs`, `clonemessage.rs`) | addresses, payload, the flag `valid` shared by the copies of a sync message | clone, `takeasvalid`, conversions | `give`, `recv` |
| RawMessage (`rawmessage.rs`) | shared buffer, `len`, `cap` | read and write at offsets, `dup`, `resize` | applications, bridges |
| TCP connector (`tcp/connector.rs`) | `terminate`, `connected`, `ep`, one mutex | `thread`, `terminate`, `connected` | application; its thread starts the two threads below |
| TCP threads (`tcp/mod.rs`) | the stream, the bridge's endpoint | `thread_rx`, `thread_tx` | connector and listener |
| TCP listener (`tcp/listener.rs`) | `acceptor`, `terminate`, two counts, one mutex | `thread_accept`, `terminate` | application |
| SafeQueue (`queue.rs:199`) | a locked vector | `put`, `get`, `len` | Endpoint |
| InfiniteLinkQueue, PointerCache (`queue.rs:22, 229`) | a linked list, a cache of items | `put`, `get`, `pop`, `push` | exported, not used by Endpoint |
| SizedRingQueue (`queue.rs:92`) | a ring of slots | `put`, `get`, `maybeget` | exported, not used by Endpoint |
| Timespec (`timespec.rs`) | none | `add`, `sub`, `unitize` | applications |

Not part of the behaviour: `compat.rs` (commented out), `allocmutex.rs` (not in
the crate), `lib.rs` (exports), tests and benches.

What is hard here, and what makes each part correct:

* Endpoint: a message that arrives between a receiver's look at the queue and
  its sleep; checks of limits apart from the put; a counter that is counted down
  before it is counted up; timeouts. Correct: mutual exclusion on every path, no
  lost wakeup, bounded overshoot of the limits, an exact memory counter.
* Net and handles: clones and drops race with sends that clone the whole
  registry; the last drop calls back into the net. Correct: an exact count, an
  owned endpoint stays, an unowned one leaves, identifiers are unique, no lock is
  taken twice by one thread.
* Delivery: several senders and receivers at once, one sync message for one
  receiver. Correct: what `Mail` says, and that the count `send` returns comes true.
* Bridges: terminate, a broken connection and the start and end of three
  threads in any order. Correct: nothing goes on after the end; terminate ends it.
* Bridged nets: a message passes two nets, two threads and a connection that may
  break; raw messages share their buffers. Correct: nobody sees another's writes,
  bytes arrive as sent, each endpoint gets a message once and in order.
* The link queue: producers link an item after they have published it, a
  consumer recycles items. Correct: order, no loss, no item used after it is freed.
* The ring queue: threads draw positions and then work on slots. Correct, within
  the use it stands: order, no loss, a count that comes out right.

## 2. The modules

| Module | Models | Composes |
|---|---|---|
| `Endpoint` | one endpoint with any number of threads: a step per access to shared state | |
| `Net` | registry, identifiers, handles, `drop` and its nested call | |
| `Addressing` | the filter of `give`, the constants that describe nets and messages | |
| `Delivery` | `send`, `send_internal`, `recv` on one or several endpoints, sync messages, a registry that changes | `Addressing`, refines `Mail` |
| `Mail` | what a net promises: the abstract specification of `Delivery` | `Addressing` |
| `Bridge` | the connector, its receiving and sending thread, `terminate` | |
| `Listener` | the accepting thread, its counts, `terminate` | |
| `RawMessage` | a raw message's buffer as a value: bytes, capacity, length | |
| `Bridged` | two nets and a pair of bridges: messages, frames and shared buffers from end to end | `RawMessage`, `Addressing` |
| `LinkQueue` | InfiniteLinkQueue with PointerCache, a step per shared access | |
| `RingQueue` | SizedRingQueue, a step per shared access | |
| `Timespec` | `add`, `sub`, `unitize` | |
| `EndpointProofs`, `NetProofs`, `DeliveryProofs`, `BridgeProofs`, `ListenerProofs`, `BridgedProofs`, `RingQueueProofs`, `LinkQueueProofs` | theorems | the module in the name, and `Timespec` in `EndpointProofs` |
| `MC*` | constants for TLC | |

How state and actions correspond to the code:

* **Endpoint.** Fields keep their names. `pc[t]` is where thread `t` stands,
  `op[t]` the call it is in. `give` is GivePending, GiveMemory, GiveUsed (the
  loads of `limitpending`, `limitmemory`, `memoryused`), GiveLock, GivePut,
  GiveAccount, GiveNotify. The receives share GetSome, GetNone, Release (the
  counter and, for a blocking receive, the end of the lock), Take, Discard, and
  sleep through Wait, Timeout, SpuriousWakeup, Reacquire. A sync message may be
  taken at another endpoint (TakenElsewhere). Unsigned arithmetic is modulo
  `UsizeMod`.
* **Addressing.** The net's identifier is a parameter of its operators, since
  `Bridged` has two nets; `Delivery` and `Mail` give it the constant `NetSid`.
* **Net.** NewEndpoint, NewEndpointWithId, GetNewEid, NewBridgeEndpoint with
  AddEndpoint, Clone (also handing a handle to another thread), Drop with
  DropCount, DropSwap, DropLock, DropRemove, and the drop of the net's own handle
  inside `remove` (NestedCount, NestedSwap). SendClone is the snapshot of
  `send_internal`; its clones are dropped one by one. `issued` records the
  endpoints whose identifier the net chose, `taken` those whose identifier was not
  above `hueid` when they got it. A handle is a thread with a number
  (`Values`), so that RefcntExact compares the count with a set of handles, `Refs`.
* **Delivery.** A send clones the registry (Snapshot) and goes through it endpoint
  by endpoint: Refuse, or Admit and Put. RecvBegin takes a list of endpoints, of
  one for `Endpoint::recv`; Get, GetNone, Take and Discard are the receive from
  each in turn. Join, Release, LastDrop and DropEndpoint are what `Net` has in
  detail: an endpoint leaves when its owner and the snapshots have let it go. Its
  queue is freed with its last handle, the net's (DropEndpoint) or one in a
  snapshot (DropSnapshot), and what nobody received is lost. `inbox` is the
  history of what receives returned, `past` that of an endpoint's addresses,
  `cast` who was in a message's snapshot, `given` whose `give` returned true.
  `Mail` promises a message to some of those in `cast`, and nothing to an endpoint
  that came later. It lets a sender whose address changes during the send receive
  its own message, as the code does (endpoint.rs:353). The memory limit of `give`
  is in `Endpoint` only.
* **Bridge.** `main` is the connector's thread, statement by statement; `rx`
  and `tx` are its two threads. The mutex of the bridge is held for single
  statements, except that the guard of connector.rs:83 lives as long as the
  attempt to connect (`Unlocked`).
* **Listener.** `acc` is the accepting thread. The lock is held from making the
  endpoint to the start of the second thread (`Unlocked`); `terminate` takes it
  three times (Terminate, Look, CloseAccept).
* **Bridged.** A send is one step here (`Delivery` has it in many). `heap` holds the
  buffers, a reference is a copy in a queue, in an application's hand, or the
  buffer in which a thread writes; Kept frees what nobody refers to. NetSend is
  the `dup` of `Net::send`, Taken that of `recv`, TxRaw reads the whole slice,
  Payload is the buffer that `thread_rx` makes, whose missing bytes are whatever
  was in memory. Break cuts the connection between or within frames.
* **RingQueue.** A position is drawn (PutBegin, Draw), then the slot is worked on.
  `broken` becomes true at the first use that the ring does not stand; no step
  follows it. That is a put that finds its slot in use, a lap of one thread by
  another, a get that returns None, and a position given back after the next one
  has been drawn.
* **LinkQueue.** `node` is the heap of items, `free` what is not allocated;
  addresses are used again, which is where such queues go wrong. With one
  consumer an item that get reaches is never claimed, so Onward is a step of
  `ManySpec` only; were it needed, Arrives would fail.

## 3. The runs

Every passing property has a mutant of the code in `PROJECT.json` that breaks it.

| Run | Instance | What it shows |
|---|---|---|
| `endpoint` | 2 senders (one also polls), 2 blocking receivers, 4 messages of caps 1 and 2, pending limits 1 and 2, memory limit 2, spurious wakeups | TypeOK, WaitMutexOwner, NoLostWakeup, PendingOvershoot, MemoryAccounting, MemoryOvershoot, SleeperServed, ReturnsUnlessWoken |
| `endpoint_duration` | a sender, a poller, a waiter | **violated**: RecvOrBlockReturns, although the mutex is fair |
| `net` | 2 owners that pass clones on, one of which adds bridge endpoints, a sender; 2 endpoints | TypeOK, RefcntExact, OwnerRegistered, NoReentry, UniqueEid, UnownedLeaves |
| `delivery` | 3 endpoints of which one may leave, a bridge that joins late, a sender, one that also receives, a receiver, both from lists, a sync message, a broadcast, one directed and one remote message, a limit of 1 at two endpoints | TypeOK, CountKept, SyncReachable, KeepsPromise (= `Mail!Spec`) |
| `bridge` | 3 messages, 2 calls of terminate | TypeOK, Finished, Heeded, TerminateEnds |
| `bridge_reconnect` | 1 message, 1 call | **violated**: Reconnects |
| `bridge_terminate` | 1 message, 1 call | **violated**: TerminateAlwaysEnds |
| `listener` | 3 connections, 2 callers | TypeOK, StopsAccepting, NegotiatedAreClients, Negotiates |
| `link_queue` | 2 producers, 1 consumer, 4 messages, 3 items, a cache of 2 | TypeOK, InOrder, Private, Arrives |
| `link_queue_mpmc` | a second consumer | **violated**: Once |
| `bridged` | 2 nets, 3 applications, a broadcast, a sync message, a message to the other net, buffers of one byte that is 0 or 1 | TypeOK, Separate, Intact, OnceInOrder, Arrives |
| `ring_queue` | 2 producers, 2 consumers, 3 messages, 2 slots | TypeOK, Fifo, LenAccounting, Arrives |

Bounds, and why they are enough:

* Two senders and two receivers are the fewest with which a wakeup can be spent
  on the wrong thread and both limits be overshot; a message is used again when
  it has been received, so runs are not bounded in length. PendingOvershoot allows
  3 queued messages here and MemoryOvershoot 5 units of memory; 4 messages with 7
  units could exceed both. `UsizeMod = 16` is above every sum of caps and lets the
  counter go below zero. The pending limit changes while the run goes on; that
  the memory limit may change too is covered by the theorem
  MemoryOvershootBounded. Sleeping receivers may also wake without cause.
* `net`: two endpoints and three threads give two drops and a snapshot at once.
  `MaxHandles` bounds what one thread owns of an endpoint, `MaxReserved` unused
  identifiers, `MaxSends` the sends: with sends that overlap without end the
  count need never reach one, and UnownedLeaves is claimed for a load that ends.
  `ExplicitIds` holds the next identifier and one above it. UniqueEid says that
  an identifier the net chose is shared only with an endpoint whose owner chose
  the same (section 4).
* `delivery`: each message is sent once; every kind of destination occurs, two
  threads receive from one endpoint at once, a queue can be full, and a bridge
  joins, changes its address, and an endpoint leaves, all during the sends. A put
  into the queue of an endpoint that has left, and the loss of a sync message with
  such a queue, occur.
* `bridged`: `MaxLaps` ends the circle of a broadcast (section 4) after two
  crossings, which is there and back. `MaxEdits` is one change of the sender's
  buffer at any time, enough to tell a shared buffer from a private one, and one
  byte of 0 or 1 to tell bytes that were sent from bytes that were not. A message
  is one frame, so a cut frame is one without its payload.
* `ring_queue`: two slots for three messages, so that a slot is used again;
  `LenMod` above twice the threads; `MaxPolls` is one get that does not wait.
* `bridge`: `MaxRaw` and `MaxCalls` bound messages and calls; attempts to
  connect are not bounded.
* `listener`: three connections leave one to be served after the one that may
  be in flight when terminate returns. Each caller calls once.
* `link_queue`: three items for four messages, so that every item is recycled
  while another is being linked, and a cache that overflows into deallocation.

CHECK_DEADLOCK is off where the system may stop: all calls made, the connector
or the accepting thread over.

Fairness:

* `Endpoint`: weak fairness of each thread inside a call (`Continue`): the
  scheduler runs every thread, and a sleep with a timeout times out. A
  `std::sync::Mutex` may starve a thread, so weak fairness does not give it the
  lock against others that keep locking. SleeperServed and ReturnsUnlessWoken
  therefore have what the load must do as a hypothesis instead: from some time on
  no call begins (CallsEnd), and for the second no sleep ends but by its timeout
  (OnlyTimeoutsWake). `endpoint_duration` has no such hypothesis, assumes even a
  fair mutex, and fails all the same.
* `Net`: weak fairness of threads in a call. Owners may keep a handle forever.
* `Bridge`: weak fairness of the three threads. Strong fairness of ConnectOk: an
  attempt that is repeated for ever succeeds some time; TerminateEnds needs no
  more. PeerCloses, Terminate and GiveRaw are not fair: the remote side may stay
  for ever.
* `Listener`: weak fairness of the accepting thread and of each receiving thread
  (a remote net that connects sends its identifier). Callers and peers are not fair.
* `LinkQueue`, `RingQueue`: weak fairness of each thread; consumers keep calling
  `get`. A put once begun goes on, nobody has to begin one.
* `Bridged`: weak fairness of each bridge's two threads and of each application's
  receives. Sends, edits and the break are not fair.

Memory is sequentially consistent in all modules; the code's `Relaxed`
operations concern single counters, limits and the position of the cache.

## 4. What the runs found

* `recvorblock` starts its whole duration again after each wakeup
  (endpoint.rs:581): a receiver woken for messages that others take never times out.
* `terminate` of the connector between the last look at the flag and `ep = Some`
  is lost (connector.rs:52, 107-122).
* The connector does not connect again. When the remote side closes the connection
  the receiving thread ends; the sending thread ignores failed writes and ends at a
  terminate message only, so the connector waits for it (tcp/mod.rs:66-71,
  114-131). connector.rs:124-125 says "then try connection again until we are
  requested to terminate", and net.rs:181-182 "Tries to maintain a TCP connecton".
  OneConnection, proved, says that it never does.
* InfiniteLinkQueue recycles items that another consumer still walks over, since
  the guard is commented out (queue.rs:376): with two consumers a message is
  returned twice.

Seen while modelling, and left without a run of its own:

* `new_endpoint_withid` with `eid == hueid` does not move `hueid` (net.rs:257), so
  the next `new_endpoint` gives the same identifier, and the net does not look
  whether an identifier is in use. UniqueEid excuses endpoints whose caller named an
  identifier up to `hueid` that it did not have unused from `get_neweid`.
* `drop_endpoint`, called by an owner whose handle is the only other one, calls
  itself through the drop of the net's handle with its lock held (net.rs:294).
* An endpoint that is let go takes its queue with it, a sync message included that
  nobody else was given (endpoint.rs:233). SyncReachable says so.
* A message to one endpoint of another net never crosses: the bridge's endpoint
  refuses an identifier that is not its own (endpoint.rs:376), and README.md:11 of
  the repository names such addresses.
* A message with `dstsid` 0 goes back and forth between two nets for ever: the net
  that receives it gives it to its bridge, which sends it back (tcp/mod.rs:107).
* A sync message with `dstsid` 0 may be taken by a sending thread, which throws it
  away (tcp/mod.rs:138).
* The length set with `setlen` is lost in the first `dup` (rawmessage.rs:76): every
  receiver, and the connection, sees the whole capacity. Intact says so.
* A connection that breaks in a payload gives a message with memory that nobody
  wrote, since the result of `read_at_least` is ignored (tcp/mod.rs:83).
* `connected` and `negcount` are set before the endpoint has the remote net's
  identifier (tcp/mod.rs:49-56), so what is sent right after may be refused.
* `Timespec`'s `add` subtracts the nanoseconds (timespec.rs:9), and `unitize`
  leaves exactly one second (timespec.rs:34).
* SizedRingQueue: `put` waits for a slot only to turn twice when it is free, and
  writes over one that is not (queue.rs:150); `get` on an empty ring spends a
  position (queue.rs:180); `maybeget(true)` gives back a position that may no
  longer be the last (queue.rs:176).
* `resize` copies beyond a buffer unless the capacity stays (rawmessage.rs:100-104).
* After its terminate the listener's accepting thread goes round in errors for
  ever (listener.rs:116).
* `hasmessages` counts copies of a sync message that another endpoint has taken
  (endpoint.rs:429).

`limitpending` and `limitmemory` are exceeded by concurrent senders;
PendingOvershoot and MemoryOvershoot say by how much.

## 5. What is proved

For every set of threads, messages, connections and callers, and every value of
the bounds, under the assumptions named in the modules:

* `EndpointProofs` (limits from sets with a greatest element, finitely many
  threads, `UsizeMod` positive):
  * `TypeCorrect`: `Spec => []TypeOK`. TypeOK is not inductive: that a thread in
    the middle of `give` has a message in hand is in `Shape`; TypeInv is both.
  * `MutexExcludes`: `Spec => []WaitMutexOwner`, inductive with TypeInv. It
    covers each exit of `give` and of the blocking receives.
  * `NoWakeupIsLost`: `Spec => []NoLostWakeup`. It counts: a queued message has a
    server of its own while somebody sleeps. `WaitEmpty` is the strengthening: a
    thread that is about to sleep holds the mutex and the queue is empty. Each
    step either keeps the servers, swaps one for another, or moves a message and
    a server together (`CountServers`, `SwapServers`).
  * `OvershootBounded`: `Spec => []PendingOvershoot`. `LoadedLimit` says that a
    limit in a thread's hand is one of the limits ever set.
  * `MemoryCounted`: `Spec => []MemoryAccounting`. `Ownership` says that a message is
    at most once in the queue, at most once on its way in and at most once on its
    way out, so that each step adds one message to a sum or takes one out. A sum
    of capacities is the number of units of memory in a set of messages (`Units`),
    so finite cardinalities (`SumAdd`, `SumRemove`, `SumUnion`) take the place of a
    fold and of induction over it. `Balance` is the counter without the wrap, and
    `ModAdd` carries it through the reductions modulo `UsizeMod`.
  * `MemoryOvershootBounded`: `MessagesFit => (Spec => []MemoryOvershoot)`.
    MessagesFit: there is a largest message, and a usize counts all messages
    together; without it the counter wraps to less than the queue holds and the
    bound is lost. `OvershootInv` counts the admitted messages, which will be put
    without another look, as queued. The step past the check is the hard one: what
    is below the limit is the wrapped counter, so the queue is below the limit and
    the uncounted messages (`QueueBelow`), and those and the admitted are in the
    hands of different senders (`SumHands`). MCEndpoint asserts MessagesFit.
* `BridgeProofs`:
  * `NothingGoesOn`: `Spec => []Finished`. `PhaseInv` relates where the main
    thread stands to how far the other two are.
  * `EarlyTerminateHeeded`: `Spec => []Heeded`, with `HeedInv`.
  * `OneConnection`: `Spec => []ConnectsOnce`, for every behaviour what
    `bridge_reconnect` shows in one. The connector comes back to the
    start of its loop only through the end of the sending thread, which is a
    terminate message, which only a call of terminate gives (`OnceInv`).
* `ListenerProofs` (finitely many connections):
  * `TerminateStops`: `Spec => []StopsAccepting`. A call that has returned has
    closed the acceptor, or has met a thread that is still to look at the flag
    (`StopInv`); after that nothing new reaches "serve" (`LateInv`).
  * `NegotiatedNeverAhead`: `Spec => []NegotiatedAreClients`. The connections
    still to be negotiated are counted in (`Pending`): each raises `negcount`
    once, and the one whose threads are being started cannot as long as the lock
    is held.

  * `TypeCorrect`: `Spec => []TypeOK`, also for `Bridge`: the queue of the
    bridge's endpoint is bounded by the messages and calls that filled it, which
    is what has to be shown.
* `NetProofs`. NetInv holds, of each thread, how its place in the code goes with
  the lock, with the endpoint it adds or removes and with its clones (`Shape`,
  `Prefix`, `Adding`), and that who decided to remove an endpoint found it
  unowned (`Unowned`). None of the invariants below is inductive without these:
  * `TypeCorrect`: `Spec => []TypeOK`.
  * `CountsExact`: `Spec => []RefcntExact`, for any finite or infinite set of
    threads: the handles of an endpoint are finite (`Exact`), each step adds or
    takes away one.
  * `OwnersReachable`: `Spec => []OwnerRegistered`. A drop that sees the count it
    waits for is the only one left, so nobody can clone the endpoint any more.
  * `NoNestedLock`: `Spec => []NoReentry`.
  * `UniqueIds`: `Spec /\ [](hueid # EidMod - 1) => []UniqueEid`, if no caller
    names `EidMod - 1`, which is `UNUSED_ID`. Both hypotheses are needed: the
    counter wraps (net.rs:258). Without the wrap, `IdInv` says that what was
    chosen or reserved is below the counter. UniqueEid excuses the endpoints in
    `taken` (section 4).
  * `UniqueIfReserved`: with `[](taken = {})` as a further hypothesis, that callers
    name only what they have unused from `get_neweid` or what is above the counter,
    no identifier that the net chose is that of two endpoints. What UniqueEid
    excuses is a condition on the callers here.
* `DeliveryProofs` (finitely many threads and endpoints). DeliveryInv says how
  far a send is (`Progress`, `Sending`), what a receive has in hand
  (`Receiving`), and what a queue holds (`Queue`):
  * `TypeCorrect`: `Spec => []TypeOK`, with the bound of the queues, which counts
    the puts that were admitted and are not done (`Limited`).
  * `CountsKept`: `Spec => []CountKept`. A copy is only where `give` returned true
    (`Given`), and is kept there unless the endpoint has left (`Kept`).
  * `SyncNotLost`: `Spec => []SyncReachable`. A sync message is valid until
    somebody has it, and as long as it is, each endpoint that admitted it has its
    copy in its queue or in the hand of its receiver, unless it has left (`Sync`). A
    queue is freed only when its endpoint has left and no snapshot holds it
    (`Unsnapped`). When all that admitted it have left, it is lost.
  * `NetKeepsPromise`: `Spec => KeepsPromise`, the refinement of `Mail`: each step of
    `Delivery` is a step of `Mail` or none. Order is the hard part: `Queue` and
    `Receiving` carry it through the queue and through a receive that has taken
    a message out and not returned it.
* `BridgedProofs` (any endpoints, threads, capacity and bounds; names of buffers
  are distinct, NameAssumption, and no message may loop, LoopAssumption: the library
  sets `canloop` in none). Intact is not inductive: a crossing fills a
  buffer that could be one still in use. It is not, because a raw message is in
  at most one place from where it can cross, the queue of one bridge or one
  frame (`TokenInv`), so that the number of its crossings names the next buffer
  (`WireInv`, `CopyInv`), and `Greeting` keeps the frames apart from the greeting:
  * `TypeCorrect`: `Spec => []TypeOK`.
  * `BuffersSeparate`: `Spec => []Separate`.
  * `BytesIntact`: `Spec => []Intact`. What makes it so on a broken connection is
    that a frame that is cut is the last, and that nothing comes after it.
  * `InOrder`: `Spec => []OnceInOrder`, under `OwnSids`: the two nets have different
    identifiers, and the endpoint of a bridge is made with neither (the code makes
    it with `!0` and gives it the remote net's after the greeting, tcp/mod.rs:33-51).
    Without it a bridge can take back what it has brought. `OrderInv` follows a
    message from its sender to the receivers: what an application has received or
    will (`Seen`) is in order, what waits at a bridge is behind what crosses and
    that behind what has arrived (`WaitsInOrder`, `CrossesInOrder`, `Behind`), so
    a first copy cannot overtake. Those that come again change nothing, since
    who may be given a message once more has had it (`Served`); one to a single
    net never comes back (`Outward`). MCBridged's constants satisfy `OwnSids`.
* `RingQueueProofs` (finitely many producers and consumers, each message put
  once):
  * `TypeCorrect`: `Spec => []TypeOK`.
  * `QueueUntilBroken`: `Spec => []Fifo`. The invariant is about positions: those
    of one slot are claimed by puts and taken by gets in turn (`InTurn`, `Using`),
    and the message in a slot is that of its position.
  * `LenExact`: `Spec => []LenAccounting`, in arithmetic modulo the width of `len`.
* `LinkQueueProofs` (any producers, items and size of the cache; no thread is both
  a producer and a consumer, and the consumers are finitely many,
  ThreadAssumption). The links between items are not followed. Instead LinkInv
  says that there is a sequence `p` of items, in the order in which puts swapped
  them into `ptr`, such that the list consists of `p[lo..w]`, used up and not yet
  in the cache, and of what begins with `p[l]`, where `lst` is. Which links are
  set (`Older`, `Newer`), what is claimed and released (`Marks`), what a producer
  has in hand (`Putting`) and where the consumer stands (`Taking`) are said by
  positions in `p`. InOrder is not inductive without these: a put that has
  swapped and not linked leaves a gap in the list, and what makes the gap
  harmless is that the consumer stops in front of it (`Linked`):
  * `QueueInOrder`: `Spec => []InOrder`.
  * `ItemsPrivate`: `Spec => []Private`. The listed items are apart from those in
    the cache and from free addresses (`Apart`), so an address that is used again
    is not confused with its former use.
  * `TypeCorrect`: `Spec => []TypeOK`, which has to be shown along pointers: each
    leads to an item that a put has filled. `TypeCorrectMany`:
    `ManySpec => []TypeOK`, the same with several consumers. The other two are
    about one; section 4 shows what goes wrong with several.
* In `EndpointProofs` also `UnitizeNormal`, `SubRight` and `AddWrongByNsec` of
  `Timespec`, for all times. They rest on what carrying and borrowing each do
  (`CarriedTime`, `BorrowedTime`).

Each inductive invariant was checked by TLC on the instance of its run before it
was proved, with bounds where it quantifies over Nat.

Only model-checked: liveness (SleeperServed, ReturnsUnlessWoken, UnownedLeaves,
TerminateEnds, Negotiates, Arrives), which is out of the prover's reach. Every
other property of the passing runs is proved.

## 6. What is not modelled

* `RawMessage::resize` (undefined but for an unchanged capacity, section 4),
  `as_mutslice`, which hands out the buffer without its lock, and the reads and
  writes of structures, whose layout is the compiler's.
* A call of `drop_endpoint` by anyone but `drop`, which the code calls "Not
  recommened for usage".
* A `TerminateMessage` that an application makes and sends itself, which would end
  the sending thread of every bridge it reaches; the panic of `thread_rx` over a
  message that is not raw (tcp/mod.rs:88-91), which no bridge sends; errors of
  `accept` before the acceptor is closed, after which the thread goes on.
* Type checks and conversions of messages. Lost and reordered bytes of a
  connection, which are TCP's.
* More than one connection between the same two nets, and nets in a row: `Bridged`
  has one pair of bridges, and OnceInOrder speaks of one. A panic of a bridge's
  thread is the end of that thread.
* A sync message that is sent a second time (its flag is then false for good).
* A ring queue after the first use that it does not stand, which overwrites or
  skips messages: Fifo and Arrives of `ring_queue` say what it does until then, and
  nothing of the overwritten slot (queue.rs:150) and the spent position (queue.rs:180).
* Unused fields (`stoken`, `slpcnt`, `wakeupat`, the counters of InfiniteLinkQueue),
  `getpeercount`, `hasmessages` and other queries that change nothing; `compat.rs`,
  `allocmutex.rs`; destructors of the queues.

## 7. Plan

Done: all components of section 2, with runs and proofs of all safety properties of
the passing runs. In this order next:

1. A sync message that is received and sent again (Delivery).
2. A second pair of bridges in Bridged, and the messages that then come twice.
