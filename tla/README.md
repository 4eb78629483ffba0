# hadoken, specified in TLA+

hadoken is a header-only C++ library (`include/hadoken`): executors and thread
primitives, containers, parallel algorithms, a state machine, counter-based random
engines, and small utilities for strings, options, URIs and digests. This directory
specifies it in TLA+: the modules are translated from the headers, TLC checks them on
small instances, and TLAPS proves the properties that matter most for every value of
the constants.

## The system

| component | state it keeps | operations | interacts with | what is hard | what makes it correct |
|---|---|---|---|---|---|
| `latch` | one atomic counter, a condition variable, a mutex | `count_down`, `count_down_and_wait`, `wait`, `is_ready`, destruction | any threads | notification without the mutex, destruction by a waiter | a single-use barrier; every waiter returns; no step of another thread is left when it is destroyed |
| `concurrent_queue` | a deque, its high-water mark, a mutex and condition variable | `push`, `try_pop`, `empty`, `size`, `set_small_buffer_size` | producers, pool workers | timeouts racing notifications, the buffer given back | every element once and in order; failure only on a queue seen empty; `try_pop` returns unless it is woken for ever |
| `thread_pool_executor` | workers with a `finished` flag each, a queue, a thread-specific key, flags | `execute`, `twoway_execute`, `wait`, `set_flags`, destruction | the queue, the tasks (callbacks that call back into the pool) | nested tasks that wait, destruction while tasks run and submit | each task in one place; every future resolves and the destructor returns, unless all workers block on nested tasks; nothing is left running |
| `multiplexer` | a map from keys to shared futures, a mutex | `execute` | the callers, the items they pass | the lock is released while the item runs | one execution per key at a time; nobody waits for a dead execution |
| simple and system executors, `singleton`, future helpers | none of their own | `execute` | std::thread, the pool | detached threads | those of what they wrap |
| `spin_lock` | one atomic | `lock`, `unlock` | the parallel scan | contention | mutual exclusion |
| parallel algorithms, ranges | slices of a range, futures, partial sums | `for_each`, `count_if`, `any_of`, `inclusive_scan`, `take_splice`, ... | the callers' functions | an exception of one slice, empty slices, two passes over shared partial sums | slices tile the range; results equal those of the sequential algorithms; no task and no exception is forgotten |
| `state_machine` | the current state, transitions, callbacks | `trigger`, `force_state`, `add_transition`, `on_entry`, `on_exit`, `clear` | callbacks that may call back | re-entrant callbacks | every state looked up has a handler; the machine moves along its transitions, and callbacks are called in the state they were registered for |
| `small_vector` | an internal array, or a heap block | `push_back`, `pop_back`, `resize`, `swap`, moves | element constructors and destructors | lifetimes when the storage changes | each element is destroyed once; contents survive growth and swap |
| random engines | key, counter, block, position | `operator()`, `discard`, `generate_block`, `seed`, derivation, copies and moves | sha1 (seeds), threefry (blocks) | carries, block boundaries, a buffer that equality ignores | an engine is a place in a sequence of words; derivations differ |
| option parser | handlers with options, subcommands, callbacks | `add_option`, `add_subcommand`, ..., `parse_options` | callbacks that throw | a failure after callbacks have run, arguments that are stepped over | errors come before callbacks; each argument reaches one callback |
| uri | the string and iterators to its parts | the parser, the getters, the percent codec | `string_view`, `split_string_view` | ends of parts, ends of the string | the parts tile the string; decoding undoes encoding |
| crypto | digest, a block being filled, a byte count | `process_*`, `get_digest`, `encode`, `decode` | used for seeds | padding at the end of a block | the blocks of the standard, for lengths that 32 bits hold; decoding undoes encoding, but for zero bytes at the end |
| strings | none | `match_wildcard`, `split_string`, `join`, `substr`, `compare` | used by uri and the option parser | backtracking, empty fragments | they agree with their definitions |
| histogram, socket, env, hostname, format, gpu, ublas, small utilities | operating system or device state | thin calls | | | not modelled |

The threads of the library meet in three places: `concurrent_queue` is the only channel
between a pool and its users, the pool's tasks call back into the pool, and latch,
multiplexer and spin lock are shared by whoever uses them. That is where the
interleavings are, so that is what is specified first.

## The modules

**Latch, AbstractLatch, LatchProofs** (`thread/latch.hpp`). `counter` is `_counter`;
`pc` gives the next atomic access of each thread; the mutex guards no data and is not a
variable. `CountDown` is the `fetch_sub` with the test of its result, `NotifyAll` and
`StoreUnlocked` the two halves of `__check_and_notify`, `Test`, `Retest`, `Sleep` and
`Timeout` the loop of `wait()`. `remaining` and `released` are history: what the callers
have not counted down, and whether the owner has left `wait()`. `Destroy` is the
destruction by a thread that has waited, the case the comment in `wait()` is written
for. `AbstractLatch` is a barrier: a counter and the set of threads inside `wait()`.

**ConcurrentQueue, AbstractQueue, ContainersProofs** (`containers/concurrent_queue.hpp`).
A step is what happens between taking `_qmut` and releasing it or waiting on `_qcond`.
`Push` appends, raises `_buffer_capacity` and notifies one waiter; `Call`, `Wake`, `Take`,
`Sleep` and `Timeout` are `try_pop`. `Wake` is a spurious wake-up, at any time and as often as it likes, and
`Timeout` also covers the waiter that was woken and still reads `timeout` from the clock. Element k is the k-th push;
`delivered` is history. `AbstractQueue` is the atomic queue a user may rely on. `ContainersProofs` has the theorems of both
containers, hence the names `QueueInit`, `QueueNext`, ... beside those of `SmallVector`.

**ThreadPool, ThreadPoolProofs** (`executor/thread_pool_executor.hpp`).
Workers 1..NWorkers loop over `try_pop`, used as `AbstractQueue` promises it. The bodies of the
tasks are arbitrary: they submit any other task, one-way or two-way, and may call `get()`
on the spot. `inPool` is the value of `_recursive_key` in each worker, `stack` the
deferred tasks that run inside `get()`, `awaits` the promise a `get()` is blocked on. The
destruction is `BeginDestroy` (the key goes first), `Drained` (the wait of
`complete_all_before_delete`), `Finish` and `Join` for one worker after the other, and
`DestroyQueue`, which breaks the promises of what is left. Reading a deleted key is
undefined: `MarkSeenBy` allows NULL and the old value. `NestingIn` and `NestingLate` restrict which tasks call
`get()`, and the run `pool` restricts nothing. `Stuck` names the state from which a pool cannot go on: every worker that is left is in a `get()`
whose promise is not set.

**Multiplexer, MCMultiplexer, MultiplexerProofs** (`executor/multiplexer_executor.hpp`). `Join` and
`Lead` are the two branches under the lock, `SetPromise` is `internal_execute`, `Erase`
the second critical section. `stack` holds the calls a thread is in, since items may
call `execute` again; a future is the number of its execution.

**StateMachine, MCStateMachine, StateMachineProofs** (`state_machine/impl/state_machine_impl.hpp`).
`size` is `_handlers.size()`, `transitions`, `on_exit` and `on_entry` the contents of the
handlers. Every `trigger()` in progress is a frame of `stack`: between two conditions
(`TestNext`, `Exhausted`), inside a condition (`Refused`, `Accepted`), inside an `on_exit`
(`ExitReturns`) or inside an `on_entry` (`EntryReturns`). While a callback runs, it may
call `trigger` and `force_state` if its place is in `reenter`, so the frames nest. A condition
is either empty or consumes an `edge_trigger`, as in the test of the machine. The event
functions are called with the arguments in `lastEvent`, a history variable. Contract: callbacks do not
register, clear, or force an unknown state, because `trigger()` holds references to the handlers.

**SmallVector, AbstractVectors, MCSmallVector, ContainersProofs** (`containers/bits/small_vector_bits.hpp`).
The memory is explicit: `objects` maps each internal array and each heap block to its slots,
which hold an object or are `Raw`. `begin`, `size` and `capacity` stand for the three pointers.
`Fitted` is `_resize_to_fit`, `Extend` and `Shrink` what adds to or takes from the end,
`swap` its two branches, `Renew` a destruction and a new vector in its place. `misuse` is history: what was
destroyed or used while there was no object, was never destroyed, or was constructed over an object, which `push_back` and
`emplace_back` do in the internal array. The elements are of a class with a
constructor and a destructor; for trivial types the calls do nothing. Contract: no copies of a
vector (the implicit copy shares the storage), no `push_back` of an element of the same
vector, no `pop_back` of an empty one. `AbstractVectors` is a set of sequences.

**ParallelAlgorithms, Ranges, ParallelAlgorithmsProofs** (`parallel/bits`, `utility/range.hpp`,
`thread/spinlock.hpp`). One call of an algorithm. `Submit`, `Get`, `LastGet` and `GetThrows` are
`__execute_grid`; each task `Start`s on its slice (`Ranges`), works element by element, and ends with
`Finish` (the atomic of `count_if` and of the searches) or, in the first pass of
`inclusive_scan`, with `Lock` and `Push`. The pool is used as `ThreadPool` shows it: the tasks of a caller on a `marked` thread, which is inside a two-way task, are
deferred and run in its `get()`; those of any other caller, a task of `execute` among them, are queued and run concurrently. `EmptyScan` is the
early return of the scan. The elements are
sequences and the operation of the scan appends them, the free case of an associative
operation, so that a missing, doubled or misplaced element shows. `seen` makes `push_back` a read and a write, so that
the spin lock matters. An empty slice reads a sum that another task may be writing: `Push`
leaves it open. `Ranges` holds the divisions of a range as pure operators. `for_each` stands for `fill`, `generate` and `transform` too.
A function may throw in any call. `GetThrows` then ends the call at once, and if the tasks were queued the later ones go on after it, as in the
code; what they do to variables that are gone is undefined, and nothing is claimed of the results of a call that threw.
Contract: `hardware_concurrency()` is not 0, since then nothing would run.

**CounterEngine, AbstractStreams, MCCounterEngine, CounterEngineProofs** (`random/counter_engine.hpp`,
`random/random_engine_mapper.hpp`, `random/random_derivate.hpp`). A slot holds an engine, or a mapper
that owns one or none. `b`, `c`, `elem` and `v` are the members of the engine: key, counter, words left, and the
buffer they are taken from. `Increment` and `IncrementBy` are the two `incr_array`, word by word and with a
`uintmax_t` that is wider than a word or not. `Called`, `Discarded` and `Derived` follow the code; `GenerateBlock`
makes a block that is not buffered. The cipher is a constant. `origin` is history: the number a key was seeded with, and the place and
number of each derivation. `out` is what the last operation gave or was asked for: a number, a block, or how many words to skip, so that the abstract `Discard` moves by as
many words as the call says. `AbstractStreams` says what is promised: an engine is a key and a
place in its sequence of words. Contract: the operations of a mapper without an engine fail an assertion and are not called.

**Threefry** (`random/threefry.hpp`) has the rounds, the key schedule and the constants of the four ciphers: `n` is the number of words, 2 or 4, and `digits`
the type they have in the source, 32 or 64 bits. A word has `WordBits` bits here, to which the parity is cut and the rotations are reduced.

**Strings, Uri, Base64, Sha1** (`string/`, `network/impl/uri_impl.hpp`, `crypto/`) are modules of operators,
named for the functions they translate. Strings are sequences of character codes. In `Uri` a view is a pair of positions, as the pair
of iterators in the code, and each state of the parser is the operator that says where its characters end. In
`Sha1` the object with its block buffer is explicit, and the digest is the sequence of blocks that have been compressed; contract: no
`reset()` after a digest (it leaves the object `completed`, and the next digest would lack its padding). `Base64` takes the
iterators of boost that regroup bits as what they do. `Uri` has the getters but `get_port`, which hands its part to `std::stoi`.

**OptionParser** (`getopts/impl/getopts_impl.hpp`). A command line is a sequence of arguments with a key and
perhaps a value behind `=`. `Proceed` is one call of the recursive `_validate_and_call`, with the handler that is at the end of its
stack, and `ValidateAndCall` all of them: the callbacks that were called and the error they ended with. `ParseOptions` runs it without and then with callbacks.
Callbacks may throw, as `cli.throwing` says. The texts of help and errors are left out, and with them the
handler around the first pass: it makes the text of the error from the subcommand stack of the exception, where `begin() + 1` of an empty
stack (`getopts_impl.hpp:391`) is undefined and reads nothing in practice, and throws the same error again.

**LibraryCalls, MCLibraryCalls, LibraryCallsProofs** compose these: a behaviour calls one of the functions with any input of a
constant set, and its one step is the call, which keeps what it returns; the invariants compare this with definitions that do not share the
way of the code: cuts of a string into what the characters of an expression match, the maximal runs without a delimiter, the parts of a URI joined again, the
padding of the SHA-1 standard, and a derivation of the callbacks from the command line.

Definitions whose comment describes a mistake (a notification before the store, a buffer
given back unseen, ...) are variants of the definition that follows them. No specification
uses them; replacing the definition by its variant must make the property that
`PROJECT.json` names under "mutants" fail.

## The runs

| run | bounds | what it shows |
|---|---|---|
| `latch` | 4 threads, initial value 0..3 | two can open and wait while the owner destroys: safe destruction, no early return, no lost waiter |
| `queue` | 3 consumers, 1 of them polling, 4 pushes, buffer sizes 0 and 2 | order, buffer, refinement, `try_pop` returns unless it is woken for ever, delivery |
| `pool` | 2 workers, 3 tasks of either kind, any nesting at any time, flag set or not | tasks in one place, nothing outlives the pool, `complete_all_before_delete`, two-way tasks do not wait for the queue of a living pool, tasks settle and the destructor returns unless every worker left is blocked |
| `multiplexer` | 3 threads, 2 nested keys, 3 executions | one leader per key, map and executions agree, an execution that is over is joined only before its erasure, calls return |
| `pool_execute_get` | 1 worker, 2 tasks | violation: a nested `get()` of an `execute` task blocks for ever |
| `state_machine` | 2 states, 1 edge, 2 transitions per state, 2 nested calls; callbacks that re-enter from `on_entry`, or from everywhere | handlers exist, conditions and exits are called in their state, an entry follows on its exit, the machine moves along transitions of the state it is in |
| `small_vector` | 2 vectors, internal arrays of 2, up to 5 elements, 3 blocks, symmetry of the vectors | pointers, blocks and heap objects agree (`WellFormed`); each vector is a sequence |
| `parallel` | 3 tasks, up to 4 elements, all predicates, all sets of throwing elements, callers on marked threads and others | results equal those of the sequential algorithms, `limits_vec` is not overrun, a call that returns has waited for all its tasks and lost no exception, calls return, `take_splice` cuts as `split_range` |
| `random` | 2 slots, counters of 4 words of 1 bit, skips of 0, 1, 6, 29 and 47 words, one seed number, derivations of seeded engines from their first 2 places, symmetry, a view | each engine is a place in a sequence, `operator==` is enough, derivations from different places have different keys |
| `library_calls` | see below | what the sequential functions return is what their definitions say |
| `base64_round_trip` | byte strings of up to 4 of 6 bytes | violation: a zero byte at the end of the content is lost |
| `small_vector_lifetimes` | internal arrays of 1, up to 3 elements | violation: an object of the internal array is destroyed twice |

The inputs of `library_calls`: expressions of up to 4 characters of two letters and the star, strings of up to 4 letters, or 3 with a
star in them; texts of up to 7 characters for the split; byte strings of up to 4 of 6 bytes for the codecs (a zero, `%`, 128 and 255
among them); all addresses of up to 4 characters of 7 kinds, and those with up to 5 more behind `a://` and, with `=` and `&`, `a:?`; messages of
all lengths around the ends of the first two blocks, handed over by one call or two; for threefry every key and counter of 2 and of 4 words
of 2 bits, with the constants for 32 and for 64 digits; command lines of up to 3 of 15 arguments, for 8 interfaces with two options that take values, a flag
with an alias, a subcommand with options of its own, and callbacks that throw or do not.

Why the bounds are enough: the latch needs one thread that opens it, one that waits and one that
is about to sleep, and one more to be undone by; the queue needs one consumer that spends a
notification, one that sleeps and one that barges in, and a buffer that grows past both
sizes; in the pool two workers and three tasks allow a chain of two nested calls with both workers
busy, and a worker that works on while the other is joined; in the multiplexer a leader,
a joiner and a late caller, with the nested key led by another thread; in the state machine a
nested call that changes the state under the outer one, which has a transition left to test;
in the vector growth from the array to a block of 4 and on to one of 8, and swaps of two
static, two dynamic and mixed vectors (three blocks: one each, and the new one of a growth);
in the parallel algorithms ranges shorter than, equal to and longer than the number of tasks, with slices of unequal
length, and limits pushed in every order; in the engines the whole period of 64 words is passed, with skips that stay in a
block, cross one, carry through several words and, at 47, through nearly all of them. `FreeCipher` in MCCounterEngine has no collisions: a word spells what it was made
of, so that a word from another place or key shows. With one-bit words every other increment carries, and
an increment wider than a word (`Wide`) is what any skip over two blocks or more needs. `View` leaves out a buffer whose words are used up and the output of
the last step, which no guard and no action reads; the properties about `out` are about single steps. Runs with
`CHECK_DEADLOCK FALSE` model systems that stop: a destroyed latch, a destroyed pool,
callers that have used up `MaxExec` executions, a state machine at its bounds,
a parallel call that is over, a function that has been called once. The queue, the engines and the
vectors never stop, and their runs check for deadlock.

What the code does that a reader of its tests may not expect, within the properties above: a consumer of the queue that is
woken again and again for elements that others take restarts its wait each time, and has no bound on it; a pool with default
flags drops what is queued when it is destroyed (`executor_pool_thread_wait` in `src/tests/unit/test_thread.cpp` destroys one
and expects 256 tasks to have run); the tasks of tasks are dropped even with `complete_all_before_delete`; a call of the multiplexer can
join an execution between the setting of its promise and its erasure, after others have seen the result
(`multiplexer_test` expects new executions); a star in a string is matched as a character first, so `*` does not match `*a`; a host ends at `:`
or `/` only; everything before an `@`, in the path or the query too, is userinfo; sha1 pads messages of 512 MiB and more with a length
cut to 32 bits; a state machine whose conditions or exits re-enter `trigger()` overwrites the state they moved it to; a parallel algorithm
called from outside of the pool, or from a task of `execute`, returns with tasks still running when a function throws; a value given
by `=` to an option without one is dropped; what follows `--` is parsed as before it; and a positional argument
that nobody handles is an error only after the callbacks before it have run.

Fairness. Threads inside a call are scheduled (weak fairness of their next step), and a
timed wait ends: `Timeout` in the latch (1 ms) and in the queue, `GiveUp` in the pool
(10 ms). A task body that is not blocked returns. Nothing is assumed of callers: they
need not count down, push, submit or destroy. The queue assumes in addition that the
consumers in `Pollers` call again, as pool workers do. What is not assumed is that a
consumer is woken only so often: `TryPopReturns` is about those that are not woken for ever. The pool uses the queue as one whose
`try_pop` returns (`GiveUp`), so its liveness rests on workers not being woken for ever without finding an item. In `parallel` the pool
takes up what it is given, which it does as long as one worker is not itself waiting for a queued task (`Stuck`
in `ThreadPool` is what callers that block in tasks of `execute` can bring about), and a task that spins on the lock gets it: each task takes it once. Only
weak fairness is used.

The liveness properties of the pool say what is excluded instead of assuming it away: `TasksSettle` and `DestructorReturns` end in their promise
or in `Stuck`. A pool gets stuck by tasks of `execute` that wait for nested tasks (`pool_execute_get` shows it
for one worker), or by any tasks that begin to wait once the destructor has deleted the key, which it does before it joins the workers. `TwowayNeverBlocks`
is the other side: no other `get()` waits. In `multiplexer` the keys nest without a
cycle: an item that waits for its own key waits for ever.

## What is proved

| theorem | statement |
|---|---|
| `LatchProofs!TypeCorrect`, `DestructionSafe`, `Refinement` | `[]TypeOK`, `[]NoUseAfterDestroy`, `ImplementsAbstractLatch` |
| `ContainersProofs!QueueTypeCorrect`, `DeliveredInOrder`, `HighWaterMark`, `QueueRefinement` | `[]QueueTypeOK`, `[]InOrder`, `[]CapacityCoversContents`, `ImplementsAbstractQueue` |
| `ThreadPoolProofs!TypeCorrect`, `EachTaskInOnePlace`, `SafeDestruction`, `CompletesOwnTasks`, `TwowayTasksNeverBlock` | `[]TypeOK`, `[]OnePlace`, `[]NothingOutlivesPool`, `[]FlagCompletesOwnTasks`, `[]TwowayNeverBlocks` |
| `MultiplexerProofs!TypeCorrect`, `SharedExecution`, `MapOfExecutions`, `NoDeadFuture`, `StaleJoinsEnd` | `[]TypeOK`, `[]OneLeaderPerKey`, `[]EntriesAreLeaders`, `[]UnsetIsExecuting`, `JoinsBeforeErasure` |
| `StateMachineProofs!TypeCorrect`, `HandlersFound`, `CallsBelong`, `ExitBeforeEntry`, `MovesAreTransitions` | `[]TypeOK`, `[]HandlersCover`, `[]TestedInItsState`, `EntryFollowsExit`, `MovesAlongTransitions` |
| `ContainersProofs!RepresentationSound`, `Refinement` | `[]WellFormed`, `ImplementsSequences`, for any number of vectors, size of the array and length |
| `ParallelAlgorithmsProofs!SplicesTile`, `SplicesSplit` | the slices of `take_splice` tile any range; `[]SpliceIsSplit` |
| `ParallelAlgorithmsProofs!LimitsFound`, `ParallelIsSequential`, `ReturnsAfterItsTasks` | `[]WellFormed`, `[]SameAsSequential`, `[]AllTasksReported` |
| `CounterEngineProofs!EqualityIsEnough`, `StreamsImplemented` | `[]EqualEnginesAgree`; `ImplementsStreams` if `EmptyIsNothing`; for any cipher, width and number of words |
| `CounterEngineProofs!DerivationsAreApart`, `PlacesDeriveApart` | `[](BlocksApart => DerivationsDiffer)` for any cipher; keys derived at two places as far into their blocks differ if it is `Bijective` |
| `LibraryCallsProofs!WildcardSafety`, `DigestSafety` | `[]WildcardFindsMatches`, `[]DigestIsOfPaddedMessage`, for strings of every length and messages whose length in bits fits in 32 bits |
| `LibraryCallsProofs!CipherIsCorrect`, `CipherSafety` | threefry is a bijection of the counters for every key, 2 and 4 words, the constants of 32 and 64 digits and any width of a word; `[]CipherIsBijective` |
| `LibraryCallsProofs!OptionErrorsSafety`, `ArgumentsSafety` | `[]OptionErrorsComeFirst`, `[]ArgumentsReachCallbacks`, for every interface and command line |
| `LibraryCallsProofs!NothingLost` | `[]NothingIsLost`: `split_string`, `join` and the codecs, for strings of every length (base64: that do not end in a zero byte) |
| `LibraryCallsProofs!UriSafety` | `[]UriPartsReassemble`: the parts of a URI and the values of its query, for every string and every key |

The type invariants of the five concurrent and re-entrant components are proved and not checked by the runs; `SmallVector` and
`ParallelAlgorithms` have theirs as a conjunct of `WellFormed`.

The assumptions are the named ones on the constants: the owner is one of the threads, bounds are natural numbers, the
pollers are consumers, there is a block on the heap for each vector and one more for a vector to move to, and where `uintmax_t` is no wider than a word, the
blocks to skip can be counted in a word. Two theorems assume more. `StreamsImplemented` needs that `Empty`, a model value in the runs, is no
engine, and `PlacesDeriveApart` that the cipher is a bijection of the counters for each key, as threefry is (`CipherIsCorrect`).
`DerivationsAreApart` assumes nothing of the cipher. It says that in every reachable state `DerivationsDiffer` holds if
`BlocksApart` does: the blocks that were ciphered for the keys in use, two for each derivation, have no word in common with one another and no word that an engine in use was seeded
with. This is a condition on finitely many blocks, which a cipher on words of a fixed width can meet, and fails to meet only where words coincide by chance.
`FreeCipher` meets it in every state. The assumptions of the sequential functions
(`LibraryCallsAssumption`, `WordBitsAssumption`) say what types the inputs have in C++, and that an option has a name and a
subcommand a handler, as the operations that build an interface see to.

*Latch.* `NoUseAfterDestroy` is not inductive: it says nothing of a thread that is between
its `fetch_sub` and its store. The invariant adds that until everything is counted
down the counter equals what remains and nobody is opening the latch (`Closed`); that afterwards
either at most one thread is opening it and the counter is 0, or it is unlocked and nobody
is (`Opening`); that the owner has been released only by an unlocked counter; and that a latch
that is gone was released with all threads idle. The refinement maps `remaining` to itself and the
threads in `wait()`, with those opening the latch inside `count_down_and_wait`, to
`inside`; a load that finds the latch unlocked is the abstract `Leave`.

*Queue.* Numbering the elements by their pushes makes `InOrder` inductive together with the
types and `CapacityCoversContents`. In the refinement a waiter is a caller that has missed.

*Pool.* `OnePlace` is inductive with the types. `SafeDestruction` adds that the workers before the
one that is being joined have exited, and that a pool that is gone has joined all of them and has
no queue (`Joined`). `CompletesOwnTasks` adds what can have become of the tasks of the owner:
with the flag set none of them is queued any more once the workers are joined, and
none is deferred or dropped (`OwnTasks`). Nothing is assumed of the bodies of the tasks. `TwowayTasksNeverBlock` adds while the key
lives (`MarkInv`): the worker of a stack with a two-way task on it is marked (`Marks`), since only the wrapper of a
two-way task sets the key and only its end takes it away, and a worker that waits for the queue has a task of `execute` on top (`Blockers`).

*Multiplexer.* The invariant is about frames: all but the innermost call of a
thread are at their item, since that is where a nested call is made (`OuterAtItem`); the
futures handed out belong to executions that have started (`FutureStarted`); and a leader
about to erase its entry has set its promise (`ErasesAfterSet`). `JoinsBeforeErasure` is about steps: `JInv` adds that no two frames lead
for one execution, that an item is running only while its promise is unset, and that a result that was
observed had been set.

*State machine.* All calls but the innermost are inside a function from which this user re-enters
(`OuterReenter`): if that is `on_entry` only, no outer call is at a condition or an exit,
which gives `CallsBelong`. A call inside a condition is at one of its transitions
(`AtTransition`), so that the state it switches to has a handler. For the events `ExitTold` is added: an `on_exit` that
is running was the last function called, with the change that `trigger()` will make when it returns, whatever was
called back in between. For the moves, the transition that is being made is one of the state the call began in (`AcceptedLeads`), which is
still the state of the machine.

*Small vector.* `Represented` describes the memory: every vector is in its own array or in a block that exists (`Allocated`), its
size is within the capacity, which is that of the storage (`Measured`), a block that exists belongs to one
vector (`Owned`), and the slots below the size hold objects, those above hold none on the heap (`Constructed`). Every call is a
composition of a move to other storage, which keeps the elements, and an extension or a cut, which keeps the rest of them. A growth finds a
free block because there are more blocks than vectors (pigeonhole), and a sufficient power of two because
one is in reach of every size (`PowerInReach`). In the refinement a vector is the sequence of
objects below its size.

*Parallel algorithms.* `SplicesTile` is arithmetic on the quotient and the remainder, and `SplicesSplit` that the recursion of `split_range` ends
each part where this arithmetic does. `ReturnsAfterItsTasks` rests on the order of the grid: while the caller waits, the tasks before `turn` are done, and a
task that has begun stays where it is counted until it is done or has failed. For the results, `Bookkeeping` says how far the tasks are: one at a time has the spin lock
(`Exclusive`), each has pushed its limit at most once (`Reported`), into a place of its own (`Placed`), which is `LimitsFound`.
`Results` says what this has made of the data, at every moment and for every order of the tasks: the elements a task has passed
are done and the others are as they were (`Written`), its partial sum is that of what it has passed
(`Summed`), a limit is the end of a slice and its sum that of the slice (`Told`, `Ended`), the atomic counter is the number of hits of the tasks that
ended (`Counted`) or tells whether there was one (`Found`), and the caller is back only when all of this is complete
(`Complete`), or with an exception. Two limits before the end of the range are those of different slices, so that adding up the limits in their order
gives every slice the sum of all elements before it.

*Counter engine.* `EqualEnginesAgree` says nothing of the buffer, so the invariant does: while words are left, `v` is the block of the key and the
counter the engine shows (`Buffered`). Then the next word is a function of what `operator==` compares. The case that needs care is
`discard`, which moves the counter only when it has dropped the buffer. For the refinement a counter is
a number written in base `Base` (`CounterAt`), and `Increment` and `IncrementBy` are shown to add to it: what a carry has
brought into a word is the growth of the higher part of the number (`Growth`), for a wide and a narrow
`uintmax_t`. The place of an engine is `N` times this number minus the words left (`Numbered`), modulo the period.
For the derivations `origin` is a true account of the key (`Traced`), and a key is made of two blocks: the one at the place of the
derivation, turned, and the one that this makes of the number. If none of these share a word (`BlocksApart`) the
key tells the key it was derived from, the counter, and by how far the block was rotated, hence the place (`TracesDiffer`).

*Library calls.* `IInv` says that the call is of one of its inputs, and that what has returned is what the function gives for it;
the rest is about the functions. The search of `match_wildcard` (`SearchUnfolds`) is a recursion in which the part of the string behind
the last star shrinks; by induction on how much is left, it finds a match from a position exactly when the rest of the expression has a cut
of the rest of the string (`MatchesUnfold`). Every step of threefry, addition, exclusive or, rotation, and the
injection of the key, is injective on words, hence a round is (`RoundIsInjective`), twenty are, and
there are finitely many blocks. For sha1, `Loaded` says what the object holds after the bytes of a message:
its blocks, the remainder in the buffer, and the count (`BytesLoaded`); `DigestIsPadded` adds the end of the message with and without a
block of its own, and `UpperHalfIsZero` and `ShortIsPadded` that the four zero bytes the code writes are the upper half of the 64 bits of
the length of a short message. A step of the option parser does to its handler and its position what the arguments say, whether it calls back or not
(`StepShape`); so the two passes stay side by side as long as no callback fails (`StepsTogether`), and an error of the
second is one that only callbacks and positional arguments make (`LateErrors`). Read from the last argument back to the first, every
step is explained by an option, a command, a value or a positional argument (`StepIsExplained`).
A character that is put in front of a string is dropped, starts a fragment or is joined to the first one
(`SplitStepwise`), so that there is a fragment for each run (`FragmentsAreRuns`) and `join` undoes the
split as long as no more than one delimiter was dropped between two fragments (`BoundGrows`). The decoder of percents is
between two characters again when it has read what one of them was encoded to (`PercentUndone`). In base 64 the decoder reads the bits that the
encoder has written (`BitsKept`), a byte is made of its eight (`ByteBits`), and the zeros that the padding makes are those that are trimmed (`ZerosAreTrimmed`).
For a URI each state of the parser is shown to end where a lemma says it does (`UserinfoIsCut`, `HostIsCut`, `PathIsCut`), so that
the string is the parts between these ends, one after the other (`UriReassembles`). The fragments of a query are read from the last
to the first: the last that begins with a key is the one that starts last in the query (`FragmentsTell`).

Induction. The induction theorems of the library take operators as parameters, which the provers cannot instantiate. Where a
proof needs one, it takes the least of a set of counterexamples (`PowerInReach`, `CounterAt`), or exhibits the function that a recursive definition is and
shows that it is the only one (`SplitEnds`). `LibraryCallsProofs` states this once: `Induction` and `MeasureInduction` for sets of points, `Recursion` and
`Iteration` for functions, which `CHOOSE` picks from the solutions of an equation and which therefore need one to be exhibited.

Only model-checked: all liveness (`WaitersReturn`, `TryPopReturns`, `EveryElementDelivered`, `TasksSettle`, `DestructorReturns`, `CallsReturn`, `CallReturns`), since fairness is beyond the prover. Every safety property and every refinement that a passing run checks is proved, under the
assumptions on the constants that the table names.

## Plan

1. Concurrency core: latch, queue, pool, multiplexer (this is done).
2. State machine with re-entrant callbacks; small vector with the lifetimes of its elements (done).
3. Ranges and the parallel execution grid, the two-pass inclusive scan with the spin lock (done).
4. Counter engine with `discard` and carries, threefry, the block protocol of sha1, base64 (done).
5. Option parser, URI parser and percent codec, wildcard and split against reference definitions (done).

6. Theorems for the safety properties and refinements of all of these (done).

Left: the random engines of std behind a mapper; a socket over a lossy connection, if the library comes to retry.

## Not modelled

| part | why |
|---|---|
| socket, env, hostname | calls of the operating system without state of their own |
| format, dates, the text of help and errors | wording |
| histogram, conversion and comparison of numbers | floating point, which TLC does not have |
| gpu, ublas | device code and adapters of external libraries |
| the compression of a block in sha1 | 80 rounds of 32-bit arithmetic without a branch; its blocks are modelled |
| simple and system executors, thread model, singleton | wrappers of std::thread and of the pool |
| engines of std in a mapper, streams of engines | code of the standard library |
| small utilities | aliases, casts and byte swaps without state |
