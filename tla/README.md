# A TLA+ model of hft-dojo

hft-dojo is a C++ library of low-latency components: lock-free and locked ring
buffers, flat (allocation-free) containers, a worker thread and an executor on
top of it, and a matching engine. This directory holds TLA+ modules that model
them, TLC configurations that check the models on small instances, and proofs
that TLAPS checks for every instance.

Definitions carry the names of the code where TLA+ allows it. `PROJECT.json`
maps each definition to the lines it was translated from.

## Inventory

| part | state | operations | what is hard | what makes it correct |
|---|---|---|---|---|
| `ring_buffer_spsc` | two atomic positions, a private cached copy of the other side's position in each thread, an array of Capacity + 1 cells | `push`, `pop`, `_approx_size/empty/full` | two threads without locks; stale copies; acquire loads that may be late; the wrap | bounded FIFO, no two threads on a cell, an estimate holds until used |
| `flat_queue`, `Orders`, `Level` (`trade_engine`) | linked list over 8 slots and a sentinel; identifiers; quantities left behind in free slots; an aggregate quantity | push and probe, update, cancel, pop, fill, expire | four representations of "is there an order": links, identifier, size, aggregate | a time-ordered queue with slots; all four agree |
| `OrderBook` | a window of prices over a ring of 256 levels, two bit masks that count from opposite ends | insert, update, cancel, shift up and down with expiry | ring reuse, mask shifts, one side expired only | masks, ring and window agree; no order vanishes unannounced |
| `TradeEngine` | none of its own between calls; the order at hand during one | limit, IOC, FOK, market, update, cancel | partial fill then refusal; check and trade walk separately; window moves in mid-call | price-time priority, book never crossed, FOK all or nothing |
| `events`, `QueueOut` | an SPSC ring of 1024 events | push with retry, pop, clear, log | a full queue blocks the engine | every event delivered once, in order |
| `price_bits` | 4 words of 64 bits | set, clear, empty, clz, ctz, shl, shr | carries between words | a set of bit numbers |
| `task_worker` | state word, SPSC ring of tasks, thread | push, stop, hard_stop, destructor | stop and hard_stop against the running loop and the destructor | tasks pushed before stop run, in order; hard_stop runs no more than the current one |
| `task_executor` | a worker, channels of the callers | try_submit, submit, stop, hard_stop, Channel set/get | full test then push; a push inside an assert; a get that nobody answers | a submitted task is executed and its channel set |
| `ring_buffer`, `ring_buffer_mutex` | positions and cells; mutex, two condition variables | push, pop, size, `_ext_pop` | wake-ups; a lock taken twice | bounded FIFO; nobody waits for ever |
| `flat_hash` | keys, values, free and tombstone bits, size | insert, find, erase, clear | tombstones, erase of a free slot | a map |
| `object_pool`, `flat_list` | free stack, size; linked list | allocate, deallocate; insert, erase, push, pop | double free, links at both ends | no slot handed out twice; a list |
| `flat_tree_bs`, `flat_tree_avl` | nodes by index in a pool, root, heights | insert, find, erase | relinking by cases, rebalancing from the right node | ordered set; balanced, heights exact |
| `branchless` | none | min, max, ... | overflow of the difference | the mathematical function where no overflow |
| `map_reduce` | map and reduce functions; the futures of a call | run, run_with_init | threads that use the object while the caller, or another thread, throws | the fold of the images, in argument order; no thread outlives its call |

How they interact: the engine calls `OrderBook`, which calls `Level`, which
calls `Orders`, which calls `FlatQueue`, all in the caller's thread. Every
event goes from there to `QueueOut`, that is to an SPSC ring, from which another
thread (or the same one, later) takes it. `task_executor` owns a `task_worker`,
which polls an SPSC ring of tasks; a task answers through a `Channel`.

`storage`, `timer`, `random`, `test_utils` and `gdb_utils` have no behaviour
worth modelling: an array, a clock, random numbers, fixtures, a pretty-printer.

## Modules

    BoundedFifo          what a bounded queue promises
      ^ implements
    RingBufferSPSC       the lock-free ring        <- RingBufferSPSC_proofs

    LevelOps             a price level as a value, and the calls on it
    Level                what a price level promises (LevelOps as a machine)
      ^ implements
    FlatLevel            Level over Orders over FlatQueue
                                                   <- FlatLevel_proofs
      uses FlatQueue     the links

    MatchingBook         what a matching engine promises
      ^ implements
    TradeEngine          the engine                <- TradeEngine_proofs
      extends OrderBook  window, ring, masks
      extends LevelOps, Events
      ^ extends
    EventStream          the engine, QueueOut over a bounded FIFO, a reader
                                                   <- TradeEngine_proofs

    BitSet               what the masks promise
      ^ implements
    PriceBits            the words of a mask       <- Bits_proofs
    Branchless           min, max, ...             <- Bits_proofs

    RingBuffer           the single-threaded ring, as a value
      ^ extends
    RingBufferMutex      the blocking queue        implements BoundedFifo
                                                   <- RingBufferMutex_proofs

    TaskWorker           the worker thread
      ^ extends
    TaskExecutor         the executor (Debug)      <- TaskExecutor_proofs
      ^ extends
    TaskExecutorRelease  the same without assertions

    SequentialFold       what a map-reduce promises
      ^ implements
    MapReduce            with threads and failures <- MapReduce_proofs

    ObjectPool           the pool, as a value
      ^ extends
    FlatList             the list                  implements SlotList
    FlatTreeBS           the search tree           implements KeySet
      ^ extends
    FlatTreeAVL          the balanced tree

    FlatHash             the hash                  implements KeyMap

    MC_Containers        one of the containers     <- Containers_proofs

Most modules are also the ones TLC runs: their constants are sets of small
numbers or model values, and the `.cfg` of the same name gives them. Two MC
modules put components that know nothing of each other into one state space:
`MC_Containers` picks a container at the start and uses it (the hash is the
module's own, the list and the trees are instances), and `MC_Bits` has the
words of a mask next to the branch-free operators, which have no state.

Next to some definitions stands a *mutant*: the same definition with a
plausible slip in it. Mutants take part in no specification; each property is
known to fail when its mutant takes the place of the original (`PROJECT.json`,
`mutants`).

### RingBufferSPSC

`tail`, `headCached`, `head`, `tailCached` and `buffer` are the members.
`push` is `Push` (read `_tail`, compare with the cached head), perhaps
`ReloadHead`, then `Write` and `Publish`; `pop` likewise is `Pop`, perhaps
`ReloadTail`, then `Read` and `Release`. `ProducerSize` and `ConsumerSize` are
`_approx_size`, `_approx_full` and `_approx_empty` called by either thread.

The memory model is part of the model. An acquire load of the other side's
position returns any value from the newest one this thread has read before
(`headView`, `tailView`) up to the current one: C++ gives coherence, not
freshness. So a reload may find nothing new although there is something, and
both caches may be arbitrarily far behind. `Visible` is that choice. What the
release/acquire pair orders is the cell before the position; the model has
`buffer` sequentially consistent and shows that the two threads never meet on a
cell (`NoDataRace`) and that a cell is only read after its publication was seen
(`HandOver`), which is when that is justified.

`room` and `avail` are history variables: how many pushes or pops a thread may
still count on after its last `_approx_size`. They are never tested by a guard.

### FlatLevel, Level, LevelOps

`FlatLevel` has one action per public call of `Level`, and one each for a round
of the trade's inner loop (`Fill`) and of the expiry loop (`Expire`), which is
where the other calls on a level are made. Its guards are the tests OrderBook
makes before the call (full, aggregate of the right sign). `FlatQueue` has the
links; the sentinel is node `MaxOrders`. `Level` is the same as a sequence of
orders. `call` is the identifier the last call was given and what it returned,
and is part of the refinement: the slot that a push answers is the one the
abstract probe picks, and an update or a cancel fails only as `Level` says, for
an identifier no order has or a slot another order, or none, is in.

The number of slots is a constant. The run has 4 in place of the code's 8; the
probe step of 3 must be coprime to it, which is `MaxOrdersAssumption`.

### OrderBook, TradeEngine, MatchingBook

A level is a value of `LevelOps`, justified by the refinement above. The masks
are sets of bit numbers. A step of `TradeEngine` ends with at most one event in
`ev`, and the next one waits until QueueOut has taken it (`Pushed`): this is
where another thread may run. `Insert` is a request up to the trade, `Match` and
`Fill` the two trade loops, `Expire`, `MoveWindow` and `KeepWindow` the shift,
`Rest` the end. `Update` and `Cancel` are one step each.

The request checks are those of the Debug build, which rejects ill-formed
requests; a Release build does not have them and requires a well-behaved client.
The client (`Create`, `Amend`) does not reuse the identifier of an order that
rests in the book. It sends well-formed requests of every kind and one
ill-formed request per check.

`MatchingBook` is a book of queues by side and price. An order trades with the
best price and there with the oldest order while its limit allows; then orders
may expire from the worst price; then the remainder rests, is refused or is
nothing. That FOK is not refused although it could be filled, and is filled
whole when it is not refused, is `FokAllOrNothing`; `MatchingBook`, whose
`Refuse` may happen at any time, does not say so. What can be traded within a
limit, `Available`, is a number of single units (price, place in the queue,
number within the order): a definition that owes nothing to the totals which
`_check_fok` adds up, and one that can be reasoned about as a cardinality.

### EventStream

`EventStream` extends the engine with `QueueOut`'s ring (`queue`, a bounded FIFO,
which is what `RingBufferSPSC` is shown to be), with whoever drains it
(`drainer`: a thread of its own, or the thread that trades, between its requests,
as the repository's tests do), and with a reader that keeps the quantity of each
order it has heard of (`view`). `Push` and `Retry` are a try of
`QueueOut::push` that finds room and one that does not; `Pop` is `pop`, which is
also what a round of `clear` and `log` does; `Work` is a step of the engine.
The reader is not in the repository: it is what the events are for. It
subtracts a trade's quantity from the order that rested, drops an order that
was cancelled or expired, and enters one that was accepted.

`ReaderKnows` says that the reader's view, after the events still on their way,
is the book. That can fail by an event that is lost, doubled, out of order,
or about the wrong order or quantity, and each of the five functions that change
a resting order pushes its own. Updates are left out here: `UpdateAccepted` does
not carry the new quantity, so a reader cannot follow them without remembering
its requests, and `Call` makes none of them. `RequestsEnd` says that a request ends, or the trading
thread is `Clogged`: it waits for room in a queue that only itself would drain.
The repository's queue of 1024 makes that a matter of one request with more than
1024 events, for example an order that sweeps as many resting ones; the code
neither prevents nor reports it.

### PriceBits, BitSet, Branchless

`PriceBits` has the array of words, each as the set of the offsets of its one
bits, and the shifts as the words after each round of the code's loops: `shl` must
go down and `shr` up, since a word reads its neighbour before that is shifted.
`Left` and `Right` take their count modulo the word, as the processor does; the
code's separate branch for a whole word is why that is never needed. `IsBitSet`
relates every single operation to the one of the same name of `BitSet`, which is
what `OrderBook` uses.

`Branchless` gives for each function the set of results it may have on two's
complement integers of `2 * Half` values. With `Promoted` FALSE the type is int
or wider and an overflow is undefined: any value may come out. With `Promoted`
TRUE it is narrower, so that C++ computes in int and converts, which wraps.

### MapReduce, SequentialFold

`run` and `run_with_init` differ in the value to start from, the argument of
`Call`; their overloads for arrays only unpack it. `Launch` starts one thread of
`std::async` per argument but the first, `MapFirst` is the caller's own map,
`Collect` a `future.get()` and the reduction. The map function, the reduction and
the start of a thread may each throw; then, and at the end, the futures are
destroyed, which waits for their threads (`Leave`). A result is the sequence of
arguments reduced into it. What is thrown is the first failure in the order of
the arguments even when a later one happened before it (`SequentialFold`), and
no thread is left behind that uses the function inside of a `MapReduce` that may
be gone (`NoneOutlives`).

### RingBuffer, RingBufferMutex

`RingBuffer` has the single-threaded ring as a record and its calls as
operators. `RingBufferMutex` is what several producers and consumers do with it
under one mutex. All of it happens with the mutex held, so a step is what a
thread does from taking the mutex to giving it up by returning or waiting:
`Push` is a call that gets the mutex, `ResumePush` a producer that was woken and
gets it again, each either finishing or waiting (`FinishPush`, `WaitToPush`);
`Pop` likewise. `NotifyOne` picks any waiter. Spurious wake-ups are steps.

### TaskWorker, TaskExecutor

`stores` is the order of the stores to `_state`. A thread loads any store not
older than the last it has seen (`ownerSeen`, `workerSeen`). An acquire load
of a state also brings the pushes made before that state was stored
(`stores[k].tasks`), and a pop finds the tail anywhere from what the worker is
bound to see (`tailSeen`) to the newest push. The ring itself is a FIFO of
task numbers, justified by the refinement proved for `RingBufferSPSC`, so it is
enough to count pushes and pops. The destructor is three steps, `CheckState`,
`StoreStopping` and `Join`; the thread's two loops are `Poll`, `Drain`, `Pop`
and `RunTask`. `Killers` are tasks whose body calls `hard_stop`; only `worker_race`
has one. The owner keeps to the assertions of `push` and `stop`, in either build.

`TaskExecutor` adds the client's `submit` and `get` and the channels. A
`try_submit` that finds the ring not full pushes successfully: that is the
theorem `PushSucceedsAfterNotFull`. `TaskExecutorRelease` is the same without
the push.

### ObjectPool, FlatList, FlatTreeBS, FlatTreeAVL, FlatHash

These have one caller and one action per call. What a deallocated node or an
erased slot holds is never read before it is overwritten, so the models blank
it, which keeps the number of states down. `ObjectPool` keeps only the part of
the stack array that is in use. Clients pass slots that a call returned and
that are still in use (asserted in Debug builds); for the hash and the trees
they erase what they have just found, as the repository's tests do.

A tree is a value, so that `FlatTreeAVL` can go on with the tree that an
`_insert` or `_erase` of `FlatTreeBS` left. The four cases of `_erase` are
`EraseOuter` (no child, one child), `EraseByRight` and `EraseBySuccessor`. The
loop of `_rebalance` is a fold over the nodes from the changed one to the root. An
insertion into a full tree changes nothing in the models: the code writes the
pool's refusal, -1, into a link that is -1 already.

`FlatHash` describes a probe by the set of rounds it reaches: all up to the
first free slot. A key's slot is its first hit among them, the slot of a new
key the first round that is not used.

## Runs

| run | module, bounds | distinct states | properties and what they show |
|---|---|---|---|
| `spsc` | `RingBufferSPSC`; capacity 3, 2 values | 71,848 | `IInv`, the invariant that the proofs use; `NoDataRace`; `PushAfterNotFull` and `PopAfterNotEmpty`, what an estimate told a thread holds at its next call; `IsFifo`, it implements `BoundedFifo`; `IsFairFifo`, a consumer that polls gets everything pushed |
| `level` | `FlatLevel`; 4 slots, 2 identifiers, 2 quantities | 143,849 | `WellLinked`, links and identifiers agree on which slots are held; `CountersMatch`, size and aggregate agree with the orders; `IsLevel`, it implements `Level` |
| `engine_trade` | `TradeEngine`; ring of 8, window of 7 over 8 prices, 2 orders per price, 3 identifiers, quantities 1..2; limit, FOK, cancel | 410,390 | `Uncrossed`; `SidesAgree`; `FokAllOrNothing`; `IsMatchingBook`, it implements `MatchingBook`, with two orders queued and a third arriving |
| `engine_window` | `TradeEngine`; ring of 8 over 10 prices, 2 identifiers, all requests | 140,484 | `WindowFollows`; `BookSound`, types, totals, ring, window and masks agree; `IsMatchingBook` while the window moves both ways |
| `event_stream` | `EventStream`; queue of 1, ring of 10 over 11 prices, shift of 2, 1 order per price, 3 identifiers, quantity 1; limit, cancel; either drainer | 240,872 | `BookSound` when two levels leave at once and orders expire there; `ReaderKnows`, the events tell what rests; `RequestsEnd`, every request ends or the caller is clogged |
| `mutex` | `RingBufferMutex`; capacity 2, 3 producers, 3 consumers, 2 values | 120,465 | `IInv`, types and no lost wake-up; `WaitingPushEnters`, a producer that waited puts its element in; `IsFairFifo`, a bounded FIFO of which some consumer gets the next element |
| `executor` | `TaskExecutor`; capacity 2, 5 tasks, 3 stores | 3,846 | `StopDrains`; `HardStopHeeded`; `AnswersInOrder`; `CallsReturn`, submit, get and the destructor return |
| `containers` | `MC_Containers`; list of 4 slots and 2 values, hash of 4 slots and 5 keys, either tree of 5 slots and 6 keys, 2 erases from a balanced tree of 12 | 193,376 | `ListLinked` and `IsList`, both directions agree, no slot is lost or handed out twice, and it implements `SlotList`; `EveryKeyFound` and `IsMap`, it implements `KeyMap`; `TreesOrdered`, links and order; `StaysBalanced`, heights and balance; `IsSet`, it implements `KeySet` |
| `bits` | `MC_Bits`; 3 words of 3 bits; a type of 16 values | 767 | `IsBitSet`, words behave as a set of bits; `FindsEnds`, `clz`, `ctz` and `empty`; `MinMaxExact`, where `min` and `max` are exact |
| `map_reduce` | `MapReduce`; 5 arguments | 1,108 | `IInv`, the invariant that the proofs use; `IsSequentialFold`, it implements `SequentialFold`; `CallEnds` |
| `executor_release` | `TaskExecutorRelease`; 2 tasks, 1 store | | `ResultRetrieved` is refuted |
| `worker_race` | `TaskWorker`; 2 tasks, 3 stores, task 1 calls `hard_stop` | | `HardStopHeeded` is refuted |

Why the bounds are enough. The ring's behaviour depends on positions modulo
Capacity + 1; capacity 3 has a power of two of cells (the code's `&` case) and
room for a full, an empty and a half-full ring with every lag of both caches;
the proofs cover the rest. Four slots allow erasing in the middle of three and
a probe that passes a freed slot. In the book, a ring of 8 with a shift of 1
gives a window of seven prices and one ring slot outside it, so that every
shift reuses the slot just left; starting at 6 of 10 prices the window moves
both ways and the index wraps both ways. Two orders per price make a level
full; three identifiers give a queue of two and a taker, or two prices and a
taker. Quantities of 1 and 2 give exact, partial and repeated fills. An expiry
takes three orders, one that expires and two that trade; the client's five
prices of `event_stream` let orders rest on both edges of the window and trade
far enough from its centre to move it either way. Its shift of 2 makes an error
by one in the expired range visible. There one order fills a price and one event
the queue, so that every refusal for a full level and every wait for room
happens: a longer queue only makes `Clogged` rarer. A trade, an expiry, a move of
the window and the resting of the order follow each other in one request, four
events through a queue of one.

Three threads of either kind let one be woken, one barge in and one sleep. Five
tasks over a ring of two fill it and empty it twice and again; three stores are
stop, hard stop and the destructor's, in every order the code allows. A hash of
4 slots probes in steps of 1 where the code's 8 has 3 and can be filled by the
keys of a run; a table whose size is a power of two and whose step is odd is
the same table with the slots renamed, so the step itself adds nothing. Five
nodes are the fewest for an erase, at the root, by a successor that has a right
child, and for an erase by a successor below the root; they give every single
and double rotation after insert and erase. The shortest tree where one erase
rotates at two nodes has twelve nodes: `MC_Containers` builds it and looks at
every two erases from it.

Three words have a first, a last and one between, for a carry in at either end;
three bits a word give a shift by less than half, by more and by all of it. Five
arguments let three threads finish in any order before or after the one the
caller waits for.

All runs check for deadlock, except those of the worker and the executor, which
end when the thread has been joined; `CallsReturn` says that the destructor gets
there.

Fairness. `RingBufferSPSC!FairSpec`: each thread finishes a call it began (weak
fairness on its steps), the consumer polls (`WF` on `Pop`), and a thread that
keeps loading a position sees its newest value in the end (`SF` on
`ReloadTailFrom(tail)`), which C++ asks of implementations ("stores should become
visible in a finite period of time"). The producer need not push.
`RingBufferMutex!FairSpec`: consumers keep calling, and when some consumers can
take the mutex one of them does in the end; no fairness to each thread, since
`std::mutex` promises none. `TaskExecutor!FairSpec`: the thread runs, tasks
return, loads see the newest store in the end, and a client that spins or is in
a destructor goes on when it can; the owner need not begin anything.
`EventStream!FairStream`: the engine's thread
runs on, a try of push that can succeed is made in the end, and a reader's thread
pops, if there is one; no fairness on the client, nor on a caller that drains
between requests. `MapReduce!FairSpec`: all threads are scheduled and the map
function returns or throws.

## Findings

- `executor_release`: in `try_submit` the push is inside an `assert`
  (task_executor.hpp:86), which a Release build (`-DNDEBUG`, CMakePresets.json:27)
  removes. It returns true, nothing is pushed, and `Channel::get` never returns.
- `worker_race`: the destructor (task_worker.hpp:46-47) and `stop` (69-70) test
  the state and store `Stopping` in two steps. A `hard_stop` by a running task
  in between is overwritten, and queued tasks run, which
  `test_hard_stop_skips_queued_tasks_after_current_task` excludes for a hard
  stop by the owner. Without such tasks the run `executor` shows that it holds.

Seen while reading, with no run of their own, since one look at the lines
settles them:

- README.md:153 of the repository says an update or cancel whose `slot_id` is
  not the correct one falls back to the hash probe. The code
  (trade_engine.hpp:342-348 and 365-371) probes only when no slot is given and
  otherwise refuses with `Reason::Slot`, as its test `test_delete_invalid_slot`
  expects. The model refuses.
- events.hpp:71 and 111 call the third field of a trade the maker and the fourth
  the taker; trade_engine.hpp:676 puts the arriving order first. So does the
  model.
- trade_engine.hpp:238 computes 120, its comment says 124.
- `_ext_pop` (ring_buffer_mutex.hpp:74), a helper for tests, calls `empty` with
  the mutex held, which locks it again. It is left out of the model.

## Proofs

`RingBufferSPSC_proofs` proves, for every `Capacity` in `Nat \ {0}`
(`CapacityAssumption`, the code's `static_assert`) and every `Values`, all the
safety properties of the run `spsc`: `Invariance` (`IInv`) with its parts
`TypeCorrect`, `PositionsInOrder` and `EstimateIsSafe`, `HandOverSafe`
(`NoDataRace`), `PushSucceedsAfterNotFull`, `PopSucceedsAfterNotEmpty` and the
refinement `RefinesFifo` (`IsFifo`).

The inductive invariant, which `RingBufferSPSC` defines and the run checks, is

    IInv == TypeOK /\ CyclicOrder /\ HandOver /\ EstimateHolds

`TypeOK` is inductive by itself, the other parts only together. `NoDataRace`
follows from `IInv`: the producer writes cell `tail` with less than Capacity between the cached head and
the tail, the consumer reads cell `head` with the head different from the cached
tail, and by `CyclicOrder` these cannot be the same cell. `CyclicOrder` needs
`HandOver` for `Publish` and `Release`, which move a position that others must
not overtake. The argument is about distances around the ring: a first
group of lemmas says how `Dist` and `Between` change when an end moves one
step (`DistAdvanceEnd`, `DistAdvanceStart`, `BetweenTrans`, `BetweenSplit`,
`BetweenAdvanceEnd`, ...), and from then on positions are not taken apart
again. `StepIInv` has one step per action.

The refinement adds `PushInv` (what is written is what was pushed) and a second
group of lemmas about the arc of cells from the first unread one to the
tail as a sequence: publishing appends (`ArcAppend`), copying out takes the
head (`ArcTail`), writing at the tail changes nothing inside
(`ArcUntouched`). Every step is a `Push`, a `Pop` or a stutter of `BoundedFifo`.

`RingBufferMutex_proofs` proves, for every `Capacity` in `Nat \ {0}`, every
finite set of producers and of consumers without a common thread and a `NoValue`
that is not a value (`MutexAssumption`), the safety properties of the run
`mutex`: `Invariance` (`IInv == TypeOK /\ NoLostWakeup`), `WaitersEnter`
(`WaitingPushEnters`) and the refinement `RefinesFifo` (`IsFifo`). A first group
of lemmas takes the ring as a value: a push appends to its contents
(`PushAppends`), a pop takes the head of them (`PopTakesHead`). `NoLostWakeup` is
an argument by counting, and inductive once the types are known: every call that
frees a place or adds an element wakes one sleeper more (`OneIsWoken`), and every
woken thread that goes on takes one away (`OneGoesOn`), so while somebody sleeps
there is a woken thread for each place or element. A thread that finds the queue
full or empty and sleeps leaves nothing to count.

`Bits_proofs` proves all the properties of the run `bits`. For any number and
width of words (`PriceBitsAssumption`), `EndsAreFound` (`FindsEnds`) and
`WordsImplementSet` (`IsBitSet`), from the type invariant `WordsKeepTheirWidth`.
A bit number is a word and an offset (`Quotient`, `MemberIs`), so sets of bits
can be compared word by word (`SameBits`). `LoopDown` and `LoopUp` say what the
loops come to: a round writes a word from itself and a neighbour that no earlier
round has written, so all words are made from the ones before the call. That this
is the shift of the set, across the border of two words and for a whole word too, is
`RoundIs` and, with the carry worked out, `BelowShifts` and `AboveShifts`.
`LowerWordIsLower` is why the first word found that is not zero has the end.

It also proves `MinMaxAreExact` for every `Half` and either kind of
type: `min` and `max` are right exactly when the difference fits. When it does
not, a narrow type wraps to the wrong operand (`WrongWhenFarAndNarrow`) and
in a wide one the result is anything (`UndefinedWhenFarAndWide`). As a
consequence every call of them in `trade_engine.hpp` is exact
(`EngineCallsAreExact`, one conjunct per call). The operands are not all of one
sign: `centerPrice - Levels` is negative for a low centre. It is enough that
`MaxPrice + 2 * Levels` and `MaxQty` are below `Half`, as 2^27 + 240 and 2^26 are
below 2^31; that the centre, the limit and the quantity are valid, which a build
with assertions checks of the last two and `OrderBookAssumption` says of the first;
and that the borders of the window are valid prices, which `FollowsTheMarket`
proves. `SelectsAreExact` says of the conditional operators that
they do what an if would.

`MapReduce_proofs` proves for any number of arguments that
`IInv == TypeOK /\ NoneOutlives /\ InTurn /\ InOrder` is inductive
(`Invariance`, with `NoThreadOutlives`) and, from it, the refinement
`RefinesFold`. `InTurn` ties the future read next to the threads: the ones before
have answered, and all have been started once the caller maps; `InOrder` ties
the result and the failure to the place the caller is at, and says that a call
that has returned has an outcome. Neither holds up without the other: that a
failure is about the following argument needs the result to end at `next - 1`.

`FlatLevel_proofs` proves, for every number of slots that steps of three visit
(`MaxOrdersAssumption`; the code's 8 is one) and all positive identifiers and
quantities (`FlatLevelAssumption`), all the properties of the run `level`:
`LevelInvariant` (`IInv`), `LevelIsWellLinked` (`WellLinked`),
`LevelCountersMatch` (`CountersMatch`) and the refinement
`LevelImplementsQueue` (`IsLevel`). `WellLinked` says what a reader wants to know
of the links, but it is not what a proof can carry from step to step: that both
directions agree everywhere also holds of two rings side by side. So `IInv` has

    IInv == TypeOK /\ CountersMatch /\ IsRing(links, Listed) /\ Held = {listed slots}

in place of it: the slots read off the links, from the sentinel on, are pairwise
different, each linked to its neighbours, and exactly the ones with an
identifier. `ListIs` says that a ring determines its list, so that a step need
only be shown to make a ring of a given sequence: `UnlinkKeepsRing` of the
sequence without the slot, `LinkLastKeepsRing` of the sequence with one more.
The aggregate is the cardinality of the set of single units held (`Units`), which
grows and shrinks by counting disjoint unions, where a sum would need induction over the
queue. `ProbeFinds` is why a push that passed the full test finds a free slot:
the steps of three visit every slot. For the refinement the ring is read as the
sequence of orders; appending, shortening and changing it are `QueueAppended`,
`QueueShortened` and `QueueChanged`, and there is a lemma for each action.

`TradeEngine_proofs` proves all the properties of the runs
`engine_trade` and `engine_window` for every size and shift of the ring, every
number of slots in a level, any prices, quantities and requests
(`MaxOrdersAssumption`, `OrderBookAssumption`, `TradeEngineAssumption`):
`BookIsSound` (`BookSound`), `NeverCrossed` (`Uncrossed`), `AssertionsHold`
(`SidesAgree`), `FollowsTheMarket` (`WindowFollows`), `FillOrKill`
(`FokAllOrNothing`) and the refinement `RefinesBook` (`IsMatchingBook`). The
first four are parts of what `Invariance` proves:

    IInv == BookSound /\ WindowFollows /\ WindowFits
            /\ Uncrossed /\ SidesAgree /\ TradeParts /\ TradeIsThorough

The parts hold each other up. `WindowFits`: the window is never wider than
`2 * Levels` prices, so two of its prices never share a level of the ring
(`IndexDistinct`), and the levels a shift brings in are none of those it keeps.
`TradeIsThorough`: an order comes to rest only when nothing within its limit is
left on the other side, which is why resting does not cross the book and why the
level it rests at has none of the other side's orders. `TradeParts`: while a
request trades, no bid is above its last trade and no offer below, so what a shift
expires is of one side, and the other side's mask, which is shifted without
looking, loses no bit that still stands for orders. `BookSound` during a shift excepts the
prices that are being emptied (`Expiring`), whose bits go with the shift.

The proof goes from the inside out. The quantity of a queue is a recursive
function; what appending, changing and removing do to it (`QuantityAppend`,
`QuantityChange`, `QuantityWithout`) is shown with a set in the place of an
induction predicate (`UpTo`, from the least element of a set of naturals). Then
what each operation makes of a sound level (`PushIsGood`, `CancelIsGood`, ...),
the arithmetic of the ring (`SameIndex`, `AddIndex`, `OneLevel`, `WindowMoves`),
the masks (`BestIs`: the best price read from a mask is the best of the book;
`MasksMove`), what follows when one level changes and the rest of the book
stays (`BookStays`, `LevelChanges`), and one lemma per action.

For fill-or-kill and the refinement, `Covered` proves a stronger invariant:

    RInv == IInv /\ TradeIsCovered

`TradeIsCovered` ties the check, made before the trade, to the trade: an order
is filled only within its limit, and as long as a fill-or-kill order trades, the
book has within its limit what the order still wants. `IInv` knows nothing of
this, and neither conjunct of `FokAllOrNothing` is inductive without it. A queue
has as many units as its quantity (`UnitsCount`), so a trade takes from what is
available exactly what it takes from the order (`FillCovers`); when nothing is
left to trade with, nothing is available (`NothingOffered`), so nothing is
wanted (`MatchCovers`). That `_check_fok`
accepts exactly the orders that can be filled is `WalkCounts`: after k levels the
walk has counted the units of the prices it passed (`AheadIs`, `PassedNext`), it stops
early only with enough, and a level it does not reach is either empty or beyond
the limit.

The refinement maps a price to the queue of its level when the level stands for
orders of that side (`RestingAt`), and the order at hand to the taker. `QueueAt`
and `NoQueueAt` read one price of the mapped book, `BookBecomes` says when the
mapped book differs in one price only, `AbstractBest` that the best price
of the mask is the best of the mapped book, and `CannotTrade` that the engine
stops trading only where the abstract book does. The engine's `Match`,
`KeepWindow` and a request that leaves the book alone stutter or are one abstract
step; `MoveWindow` changes no queue, since the levels that leave the window are
empty by then and those that enter it are new (`RestingMoves`); `FillRefines`,
`ExpireRefines`, `RestRefines`, `UpdateRefines` and `CancelRefines` are the rest.

With the queue and the reader of `EventStream`, for every capacity
(`EventStreamAssumption`), `ReadersKnow` proves `ReaderKnows` from
`StreamInvariance`:

    StreamInv == RInv /\ OneEach(Resting) /\ WorkIsNew
                 /\ queue is a sequence within QueueSize
                 /\ every view on the way has quantities for all identifiers
                 /\ Tells(Foreseen, Resting)

`ReaderKnows` alone is not inductive: an order whose identifier is in the book
twice would be told of wrongly (`OneEach`), and so would one that enters while
an older one with its identifier rests (`WorkIsNew`). The argument is about the
mapped book (`Resting`), where a step is one abstract step with one event, and not
about levels and masks: `OneLeaves`, `OneChanges` and `OneJoins` say what a queue
that loses, changes or gains an order makes of a view that told the book, and
`FillTells`, `ExpireTells`, `RestTells`, `CancelTells` and `InsertTells` that the
event of the step makes the view tell the book again. What is left is the queue: an
event that the engine makes extends the trail of the views after each event in
flight (`TrailsAgree`), one that is read shortens it at its beginning
(`TrailsTail`), and its way from the engine into the queue leaves it as it is.
`Seen` is a recursive function for the sake of this proof.

`TaskExecutor_proofs` proves, for every capacity and number of tasks
(`WorkerAssumption`), the safety properties of the run `executor`:
`StopIsDrained` (`StopDrains`), `AnswersComeInOrder` (`AnswersInOrder`) and
`HardStopIsHeeded` (`HardStopHeeded`), the first two from `Invariance`:

    IInv == TypeOK /\ Counted /\ StoresInOrder /\ WorkerInformed /\ Answered /\ StopDrains

A thread that loads `Stopping` may load it late, and it drains only what it
can see; that this is everything takes both sides. `StoresInOrder`: whoever
stored `Stopping`, it publishes all pushes there will ever be, since the owner
knows of it and pushes no more. `WorkerInformed`: a load of it brings the worker
at least those pushes, and the worker is in its second loop only after such a
load. `Answered` says that the channels set are those of the tasks run. `HardStopIsHeeded`
says that once the worker has read a hard stop it takes no task from the queue any
more. It does not say how soon it reads it: a load may be late, and tasks may start
between the owner's store and the load that brings it. It
has the hypothesis `Killers = {}`, no task's body calls `hard_stop`: without it the
statement is false, which is what the run `worker_race` shows.

`Containers_proofs` proves, for every capacity that is a multiple of four, as the
code's powers of two are, and any integers as keys (`HashAssumption`), the
properties of the hash in the run `containers`: `Invariance`
(`IInv == EveryKeyFound /\ size = Cardinality(Used)`), `KeysAreFound`
(`EveryKeyFound`) and the refinement `RefinesMap` (`IsMap`). The step of a probe is
odd and so reaches every slot (`ProbesReachAll`), hence an insert is refused
only in a full table (`RefusedWhenFull`). `EveryKeyFound` is inductive because it
says that the probe for a key ends at its slot, and no step makes a slot free
that a probe passes: `InsertNewKeeps`, where the new key takes the first slot that is not
used, and `TombKeeps`, where an erase leaves a tombstone. `HashAmongOthers` states both
for the specification that `MC_Containers` checks.

For the list, at every capacity and with any values, the same module proves
`ListInvariance`, `LinkedBothWays` (`ListLinked`) and the refinement `RefinesList`
(`IsList`). `L!IInv` says that what is read from the head is a chain (`IsChain`):
distinct slots that the links join both ways, with `_head` and `_tail` at the ends, all
the slots the pool has handed out; and that the pool's stack holds no slot
twice. `ForwardIs` and `BackwardIs` tie it to reading the links: a sequence whose
neighbours are linked is what the walk finds, by induction along the walk, which
needs only a least counterexample among the natural numbers (`UpTo`). Every call comes
down to two changes of the chain: `Inserts`, a slot from the pool between two
neighbours or at an end (`PushFrontInserts`, `PushBackInserts`, `InsertInsideInserts`),
and `Removes` (`PopFrontRemoves`, `PopBackRemoves`, `EraseInsideRemoves`).
`InsertionKeeps` and `RemovalKeeps` prove the invariant for them, `InsertionShown` and
`RemovalShown` that the elements are the ones before with one more or one less.

Only model-checked:

- Liveness (`IsFairFifo` of both queues, `RequestsEnd`, `CallsReturn`,
  `CallEnds`): it rests on fairness, which is out of TLAPS's reach.
- The trees: what a search, the walk to the root and the heights say of a tree
  takes induction over its shape.

## Not modelled

- A map function that is not safe to call from several threads at once:
  `MapReduce` calls it so, and the client must provide for it.
- Text: `to_string` of events, `log`'s output.
- The Release build of the engine, in which ill-formed requests are not
  rejected, and a client that uses one identifier for two resting orders.
- Integer widths in the engine: the largest aggregate is 8 * 64 M and the
  highest price 128 M, both far inside 32 bits, so sums and differences there do
  not overflow.
- `RingBufferMutex::_ext_pop` (see Findings), and updates in `EventStream`
  (their events do not tell a reader the quantity).
- `QueueOut::pop` on an empty queue, which returns an event of zeros; the
  repository's callers look first.
- Clients that break the containers' contracts: erasing a slot twice,
  deallocating a free one. `FlatHash::erase` does not notice and counts below
  zero.
- Thread affinity and idle policies.

## Plan

1. *Done*: both ring buffers, level, book, engine, worker, executor, pool, list,
   hash and trees checked; `RingBufferSPSC` proved.
2. *Done*: the engine composed with its queue and a reader, the words of the
   masks, the branch-free operators and the map-reduce; the last two and the
   blocking queue proved.
3. *Done*: `TaskExecutor`, `FlatHash` and `FlatList`, `FlatLevel` with its refinement,
   `TradeEngine` with its invariants, fill-or-kill and the refinement of
   `MatchingBook`, `EventStream` with its reader, and `PriceBits` proved.
4. Left: proofs about the trees.
