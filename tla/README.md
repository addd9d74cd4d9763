# Formal specification of Basilisp's concurrency core and compiler

Basilisp is a Clojure dialect on Python. This directory models what of it is hard
to get right and hard to test: the runtime that programs use to share state -
Refs and transactions, agents, channels and the pipelines between them, caches
and memoized functions in atoms - and the translation of the control forms of
the language to Python. The models are checked with TLC on small instances; what
matters most about transactions, agents, channels and pipelines is proved with TLAPS for
every value of the constants.

Paths below are relative to the repository root.

## The system

| Component | State | Operations | Interacts with |
|---|---|---|---|
| Refs and transactions (`src/basilisp/lang/stm.py`, `reference.py`) | per Ref: value, version, validator, reentrant lock, history controls, watches; per thread: the running transaction's reads, writes, commutes, ensures, after-commit actions | `run_transaction`, `alter`, `ref_set`, `commute`, `ensure`, `deref`, `after_commit`, `set_validator`, `set_min_history` | agents: a `send` in a transaction is an after-commit action; user code runs as body, commute function, validator and watch |
| Agents (`lang/agent.py`) | value, queue, lease (`_active`), error, error mode, condition variable | `submit`, `_run_one`, `_handle_failure`, `await_completion`, `restart`, `clear_error`, `set_error_mode` | executors run `_run_one` and call back when a future ends; `core.lpy` adds `send`, `await`, `await-for`, `shutdown-agents` |
| Channels (`concurrent_channel.py`) | buffer, closed flag, deques of waiting puts and takes; one future per waiting call or selection | `put`, `take`, `offer`, `poll`, `alts`, `close`, `timeout` | tasks of one event loop; `core/async.lpy` builds merge, mult, pub over them |
| Pipes and pipelines (`concurrent_channel.py`) | the inputs in work and their tasks, results that wait for their turn, the next output | `pipe`, `pipeline` | a task between two channels; worker threads run the transforms and the error handler |
| Caches and memoization (`core_cache.py`, `core_memoize.py`, `core/cache.lpy`) | an immutable cache, with what its policy keeps beside the map, in an atom; a lock per memoized function; delays | hit, miss, evict, seed; call, `memo-clear!`, `memo-reset!`, `memo-swap!`; `through-cache`, `lookup-or-miss` | atoms, retrying delays |
| Atoms (`lang/atom.py`) | value under a lock, validator, watches | `swap`, `reset`, `compare_and_set` | used by delays, caches, memoization, the global hierarchy |
| Compiler (`lang/compiler/`) | the analyzer's stacks of symbol frames, recursion points and function contexts, kept between the forms of a session | analyze, generate, optimize, run | the prompt (`cli.py`) uses one context for all it reads |
| Delays, promises, futures, volatiles | one-shot cell | `deref`, `deliver`, `cancel` | a delay is an atom; a future belongs to an executor |
| Multimethods (`lang/multifn.py`) | method table, preferences, cache, the hierarchy the cache was made for | call, `add_method`, `remove_method`, `prefer_method` | reads a hierarchy that another thread may replace |
| Vars and bindings (`lang/runtime.py`) | root values, a stack per thread, namespaces | `push_thread_bindings`, `alter_root`, `intern` | carried into agent actions and futures |
| Socket servers (`contrib/core_server.py`) | registry of named servers | start, stop, stop all | threads, sockets |
| Lazy sequences, `seque` | realized or not; a bounded queue | realize; produce, drain | a native module; one producer thread |
| Namespace reloading (`tools/namespace`) | tracker of what to unload and load | track, reload | importer |
| Reader, importer, collections, numbers, spec, printing, formats, test frameworks, command line | none shared between threads, or files | | |

`PROJECT.json` lists them all with the reason why one is not modelled.

### Where it is hard, and what must hold

* **Refs.** Bodies run with no lock; commit takes one lock after the other,
  compares versions, runs user validators under the locks, publishes Refs one at
  a time and runs watches and deferred actions after it has let go. Transactions
  must be serializable; commits must not wait for each other; no commit may be
  seen in part; a failed attempt must leave nothing to the next; committed
  values must satisfy their validators; retries must end.
* **Agents.** The lease is taken by whoever submits, handed to an executor that
  may refuse, kept through an unlocked action and an unlocked error handler, and
  passed on or given up at four places. One thread at a time must act for the
  agent; actions must be applied in order and at most once; no submitted action
  may be forgotten; whoever waits must be woken.
* **Channels.** A task learns what happened to its call in a later step than the
  one in which it happened, may be cancelled in between, and may wait on several
  channels at once. Values must be neither lost nor duplicated nor reordered; two
  calls that match must not both wait; a selection must have one effect and leave
  no waiter.
* **Pipelines.** Threads end in any order and may fail, inputs may give no output
  or several, the source closes while inputs are in work, the destination closes
  under the results, and the task may be cancelled at any await. Outputs must
  keep the order of their inputs, no value the task took may be forgotten while
  it runs, a closed source must be drained, and the task must end.
* **Caches.** What a policy keeps beside its map must agree with the map although
  two threads store over each other, the atom's comparison looks at the map alone,
  and an operation may raise half way. The right entry must be given up, the
  bounds must hold, and nothing may be computed twice while nothing is forgotten.
* **Compiler.** A form becomes statements hoisted before the expression that
  needs them; whether its value is kept depends on where it stands; `recur` must
  be last wherever it is nested; an error leaves the analyzer's stacks as they
  are. What is accepted must be well formed, and must run as the language says.

## Modules

| Module | What it is |
|---|---|
| `SerialStore` | abstract: what `dosync` promises, each transaction taking effect at one instant |
| `Stm` | the transactional memory |
| `StmProps` | its properties, the refinement mapping, the inductive invariants |
| `MCStm` | instances |
| `StmProofs` | proofs, the refinement among them |
| `SerialAgent` | abstract: what an agent promises, actions applied one at a time in order |
| `Agent`, `AgentProps`, `MCAgent` | the agent, its properties, instances |
| `AgentProofs` | proofs, the refinement among them |
| `SerialChannels` | abstract: bounded queues, each call with at most one effect |
| `Channel`, `ChannelProps`, `MCChannel` | the channels, their properties, instances |
| `ChannelProofs` | proofs |
| `SerialPipeline` | abstract: outputs come out one after the other in the order of the inputs |
| `Pipeline`, `PipelineProps`, `MCPipeline` | `pipe` and `pipeline` over two channels of `Channel`, with a producer and a consumer |
| `PipelineProofs`, `PipelineRefinement` | proofs, about channels too as far as a pipeline uses them |
| `Caches` | the policies, as operators on caches |
| `Memo`, `MemoProps`, `MCMemo` | threads that share a cache in an atom, their properties, instances |
| `MemoProofs` | proofs, about each policy first and about the threads then |
| `Lisp` | the forms of the language and which of them are well formed |
| `Analyzer` | from forms to nodes, and the context the analysis leaves |
| `Compiler`, `CompilerProps` | a session at the prompt, with any back end, and what the analyzer promises there |
| `AnalyzerProofs`, `CompilerProofs` | proofs, about all forms and then about the session |
| `Meaning` | what evaluating a form does |
| `Python`, `Generator` | what emitted Python does, and from nodes to Python |
| `TranslationProps`, `MCCompiler` | what the whole compiler promises, and the forms that are typed |

Every module that models code has, next to some definitions, a variant marked
`Mutant`: the definition as a plausible bug would have it. No specification uses
them; each property is checked to fail when one of them takes the place of the
definition it follows.

### Transactions (`Stm`)

A thread's `pc` is its place in `run_transaction`: `body` (the body runs, one
operation a step), `locking` (`commit` takes locks one by one in `id()` order,
then decides in one step, since it then holds every lock that matters),
`publishing` (one Ref a step), `releasing`, `notifying` (watches and deferred
actions, any of which may raise). `Retry` and `GiveUp` are the loop and the limit
of `max_attempts`; a nested `run_transaction` joins the outer one and adds
nothing. A body is any sequence of operations up to a bound and may raise
anywhere. Values are opaque, functions are members of `Fn`, a validator is the
set of values it accepts; `ValidatorReads` says which other Refs a validator
dereferences, because that takes locks.

`effect` and `legal` are history variables: what the body did to each Ref as a
function, and for which initial values it would have been shown what it was
shown. They are the guesses of `SerialStore`, in which a transaction may commit
only at an instant at which all of them are right.

### Agents (`Agent`)

Clients call the agent; a runner is the thread that serves one submitted
`_run_one`, or the callback of its future. Each block under the agent's lock is
a step; actions, error handlers and waits are outside. `ScheduleNext` is
`_schedule_next` with its three ends: nothing to do, handed to an executor,
refused by one that is shut down. Actions are numbered by submission and the
value is the sequence of actions applied, so that the order, a loss or a
repetition shows in the value. An action fails if its function raises or the
validator rejects its result; a handler returns or raises.

`SerialAgent` has a value, the pending actions and the number submitted. The
mapping is `pending <- Current \o Ids(queue)`: the action being run, then those
in the queue.

### Channels (`Channel`)

Steps are what a task does from one `await` to the next. A request is a sequence
of ports: `put` and `take` are requests of one port, `alts` of several in the
order in which it tries them (`random.shuffle` or `:priority`). `Succeed` is a
call that finds a port ready, `GiveUp` one that does not and does not wait
(`offer`, `poll`, `:default`), `Wait` leaves waiters that share a future. Another
task resolves the future (`PutHanded`, `FillBuffer`, `TakeHanded`, `Close`), the
sleeping task goes on later (`Resume`), and `Cancel` may come at any moment:
before the future is resolved it cancels the future, afterwards it only marks the
task (`doomed`), as `asyncio.Task.cancel` does. Calls are numbered and the number
of a call is the value it puts. A deque of waiters is a set ordered by these
numbers, since waiters are appended in that order and removed from the left or
by `_discard_inactive`; waiters whose future is done stay in the sets until the
code discards them.

`SerialChannels` has a queue per channel and the calls that have had their
effect. The mapping is `items <- buffer`, and a call is settled when its put was
accepted or it received a value.

### Pipes and pipelines (`Pipeline`)

`Pipeline` extends `Channel` and uses its operators - `TryPut`, `TryTake`,
`Discarded`, `Resume`, `Cancel`, `Close` - for a producer, the forwarder and a
consumer, so that the forwarder meets channels that behave as the code's do. `pc`
is its place: `admit` (the inner loop that takes inputs), `wait`
(`asyncio.wait(..., FIRST_COMPLETED)`), `sort` (the loop over the finished tasks),
`handle` (the error handler runs in a thread), `emit` (the loop that puts what is
due), `closing` and `joining` (the `finally` clause, around its `gather`),
`ended`. What the forwarder does between two awaits is several steps, but
`Suspended` lets nobody else move until it is at an await again: an event loop
runs one task at a time. Only the worker threads' own work is concurrent, and
that shows at the next `wait`. A `pipe` is the same loop in which every input
completes at once with itself for its output.

The i-th value put to the source is i, and an output is known by its input and
its place among that input's outputs. `SerialPipeline` says what may come out of
the destination: after output i of input n, its output i+1, or the first output
of a later input when n and all inputs between give no more.

### Caches and memoized functions (`Caches`, `Memo`)

A cache is a record of its map and of what its policy keeps: the queue of a FIFO
cache with its marks of free places, the ticks of an LRU cache, the counts of an
LU cache, the generations and times of a TTL cache, both tables of a LIRS cache.
`Hits`, `Misses`, `Evicts` and `Seeds` give the set of caches an operation may
return - ties are broken by the order of a hash map - and the empty set where it
raises. `Memo` puts one in an atom. A memoized call looks and makes the next
cache under the function's lock (`Look`), stores it and looks the key up again
(`Stored`), and runs the delay outside (`Deref`, `Ran`). `swap!` reads, applies
and compares in steps of their own (`SwapRead`, `CompareAndSet`), and its
comparison is equality of maps, as in the code. `Prepare` and `Replace` are the
two steps of the clearing and resetting functions, `Wrapped` and `Computed` the
operations that compute under the atom's lock.

### The compiler (`Lisp`, `Analyzer`, `Compiler`; `Meaning`, `Python`, `Generator`)

`Lisp` is the language as `docs/specialforms.rst` describes it: forms are records,
nested up to `Depth`, and `WellFormed` says where a form is well formed: with which
names in scope, whether last in its recursion point, that point's number of names,
and whether in a function. The record `Where` has a second reading, `lenient`, for
three things the analyzer does not do as the document says: it does not look into
the arguments of a `recur` (`analyzer.py:3403`); `_loop_ast` does not look into the
init forms of a `loop*` (`analyzer.py:3278`), so a `recur` there is seen only by
whoever looks at the whole loop from outside as a tail; and it looks at what a macro
gives as if it stood last (`analyzer.py:3000`).

`Analyzer` translates `analyzer.py`: a form, its position and the context give a
node or an error, and the context as the error leaves it. A node carries what a
visitor would find below it (`recurs`, `tail`, `frames`, `points`), so that no
operator is recursive but the function `Analyze` itself. `Compiler` is the prompt,
which reads a form and compiles it with one context for the session. A `do` that is
typed is unrolled as `_flatmap_forms` does (`Unroll`): what is left of it is `todo`, and
each form in it is analyzed, generated, compiled and run before the next one is looked
at, until one raises (`AnalyzeForm`, `GenerateCode`, `Run`, `Finish`). `last` is what the
last of them gave, empty where the code has its sentinel. What makes Python of a tree,
compiles and runs it is a constant of that module, because the analyzer's promises do
not depend on it.

`Meaning` says what a form does - the calls of three functions, the values it
yields, and how it ends. `Generator` makes statements and an expression of a node
and drops dead statements as `optimizer.py` does (in every block but the module
itself); `Python` says which programs
Python's own compiler refuses and runs the others: the module's statements first,
then the function the compiler wraps the value in. The properties of
`TranslationProps` compare both ends: the form's meaning and what its Python did.

## What the runs check

| Run | Instance | Shows |
|---|---|---|
| `stm_serial` | 2 threads, 2 Refs, 2 values, bodies of up to 2 of 6 operations, one transaction a thread, unlimited retries | `TypeOK`; `LocksInOrder`; `NoTornCommit`; `VersionStampsValue`; `Serializable`: refinement of `SerialStore` |
| `stm_control` | as above, with a validator that `set-validator!` installs and removes, limits of 0 (none) and 1, retained history, after-commit actions | `StoreValid`; `DeferredByThisAttempt` |
| `stm_live` | bodies of `alter` and `commute`, fair | `EveryTransactionEnds` |
| `agent_lease` | 2 clients, 2 runners, 2 executors, 4 submissions, every operation, both modes | `TypeOK`; `LeaseExclusive`; `Serialized`: refinement of `SerialAgent`; `FailedRunsNothing`; `NoLostWakeup` |
| `agent_live` | 3 submissions, no `clear-error`, `set-error-mode!` or timeout, fair | `QueueNotStalled`; `RefusedNeverRuns`; `EveryActionSettles`; `AwaitReturns` |
| `channel_queue` | 3 tasks, a rendezvous channel and one with a buffer of one of each policy, single ports and pairs, 4 calls, cancellation, close | `TypeOK`; `NobodyWaitsInVain`; `NoStaleWaiters`; `InTurn`; `Linearizable`: refinement of `SerialChannels` |
| `channel_live` | 3 calls, the rendezvous channel a timeout, fair | `TimeoutEndsWait` |
| `pipeline` | a pipe, a pipeline with and one without error handler, parallelism 2, 3 inputs with no output or two, 2 cancellations, a rendezvous channel on one side and a buffer of one on the other, fair | `PipeTypeOK`; `NothingForgotten`; `DrainedBeforeEnd`; `InOrder`: refinement of `SerialPipeline`; `Finishes` |
| `memo` | each policy, one thread that fills and empties a cache of 2 with 3 keys, two threads on a cache of 1 with 2 keys, a clock of 3 ticks, fair | `CacheWellFormed`; `SizeBounded`; `OldAreDropped`; `ComputesOnce`; `VictimIsOldest`; `EveryCallReturns` |
| `compile` | some 30 000 forms of depth three, some 700 top-level `do` forms, and what is typed after | `TypeOK`; `RejectsWhatIsIllFormed`; `RunsAsMeant`; `WellFormedCompiles`; `OnlyWellFormedRuns`; `AcceptedLeavesNothing` |

Two runs show where a document says something that the code does not do:

* `channel_lost` - a take cancelled between the moment a put hands it a value and
  the moment its task runs again loses the value, and the put has returned true.
  `docs/coreasyncdesign.rst:369` says that cancelled operations avoid lost values.
* `compile_lexical` - a rejected `loop*` leaves its recursion point on the
  analyzer's stack, and a `recur` typed next at the prompt is accepted for it, to
  fail in the generator. `docs/specialforms.rst:323` says that recursion points
  are checked lexically.

### Bounds

Two Refs and two threads are enough for write skew, for locks taken in opposite
orders and for a torn commit; two values distinguish a change from a change back,
and a body of two operations can read one Ref and write another, or read, stage
and commute the same one. Functions are the one that exchanges the values, plus
constants through `ref-set`: an update that is lost, repeated or applied to
another value shows. One transaction a thread suffices because its attempts are
unlimited and an ended transaction leaves nothing but its values; the proofs have
no bound.

Four submissions let one action run while a second waits, a third is a barrier and
a fourth is sent after it. Two runners are the holder of the lease and a thread
that could wrongly become a second one. Executors come in two so that one may be
down.

Three tasks are two that wait and one that resolves them; four calls fill the
buffer, block a put behind it, let a selection wait on both channels, and take. A
buffer of one is empty, partly drained and full; with the rendezvous channel it
covers each branch of `_try_put` and `_try_take`.

Three inputs through a pipeline of two put one in work behind one that has ended
and one that still waits in the source; an input with no output between two that
have some is the gap that may hold back the rest, and two outputs let the forwarder
sleep in the middle of one input. Two cancellations are one that is caught and
one that interrupts the `finally` clause.

A cache of two with three keys is filled, used and made to give one up, in five
calls; what two threads can do to each other in an atom shows with a single place
and two keys, where a store of one replaces what the other saw. The clock of three
ticks lets an entry with a time to live of one expire between any two steps of a
call and be renewed. LIRS is run with one thread, because its operations on absent
keys raise, and has no size to check: see *Conditions and gaps*.

Forms are three contexts around an atom: each control construct in each position
of another, in a third. Four names and three functions are enough to tell a kept
value from a lost one and a call from its absence; a program is stopped after two
turns of a loop. `Depth` is 16, more than any of these forms needs. Three forms are
typed in one session, any form first and then members of a short list of probes. Top-level
`do` forms put each of the shallow forms before each probe, and after one that raises;
some are nested and some are empty.

Symmetry is used over interchangeable threads, values, executors and tasks, and
only in runs without liveness properties. `CHECK_DEADLOCK FALSE` is set for the
channels and the pipeline, where tasks may wait for a partner that never comes and
a forwarder ends, for the caches and the compiler, whose calls and forms are
bounded; the check is on in the other runs.

### Fairness

* `Stm`: weak fairness of `Proceed(t)` for each thread, the steps of a transaction
  under way. A body returns or raises, and a Ref's lock is held only while a commit
  or a validator runs, so a thread that keeps running gets it. Nobody is obliged to
  start a transaction. Since each thread starts finitely many, the run says that
  retries end against finitely many competitors; against an endless stream of short
  transactions the code promises nothing.
* `Agent`: weak fairness of each runner, of the failure handling of each thread and
  of the test a woken thread makes. Executors run or fail what they have accepted,
  actions and handlers return, a notified thread reacquires the lock. No call is
  fair: nobody is obliged to send, restart or shut down.
* `Channel`: weak fairness of `Resume`, since the event loop runs every ready task,
  and of closing a timeout channel, since its timer expires.
* `Pipeline`: weak fairness of the forwarder and of the consumer's wake-up, since
  the event loop runs every ready task; of each transform, which ends; and of the
  consumer's next take. Nobody is obliged to feed or to close: `Finishes` has the
  closed source for its premise.
* `Memo`: weak fairness of each thread's steps once its call has begun; functions
  return or raise. The clock need not move.

## Conditions and gaps

Some properties hold under conditions, which the modules or the runs state. Each
names something the code does that a reader of its documentation may not expect.

**Transactions.** A Ref that a body dereferences and then commutes is left out of
the version comparison, so the transaction commits on a value that has changed
(`docs/concurrency.rst:104` says that every observed version is validated);
`SerialStore` lets a commuted Ref be read so. A validator that dereferences another
Ref takes its lock out of order and two commits can wait for each other for ever
(`lang/stm.py:252`, against `docs/parityarchitecture.rst:244`); `LocksOrdered` has
the absence of such validators for its hypothesis, and the runs have none.
`set-validator!` in a transaction checks the staged value; if the transaction then
raises, the validator may reject the value that stays. `StoreStaysValid` has the
hypothesis that no body calls it.

**Agents.** `clear-error` and `set-error-mode!` do not schedule the queue, so after
them an idle agent may keep actions for ever (`QueueNotStalled`,
`EveryActionSettles`), and a rejected submission may drop an older action than its
own (`RefusedNeverRuns`); `agent_live` leaves them out. `set-error-mode!` wakes
nobody, so `NoLostWakeup` excepts its steps. `await` waits for an idle agent that
has not failed, not for its own barrier: a failure of an action sent after the
barrier keeps it asleep, which `AwaitReturns` allows.

**Pipelines.** "Closing the destination stops upstream consumption"
(`docs/paritydecisions.rst:371`) holds at the next put only: the task takes one more
value and drops it, and inputs without output never notice. The output is closed
while the threads of cancelled inputs still run, although
`docs/paritydecisions.rst:369` says that it closes when all admitted work has ended.
Finished results are withheld until `parallelism` inputs are in work or the source
closes, so that a producer that waits for an answer before its next input waits for
ever. A cancellation before the task's first step, or a second one while it joins
its tasks, leaves the output open; `Finishes` excepts both. A failure without a
handler drops results of the same batch that came before it; `NothingForgotten` is
stated while the task runs. The results that wait for their turn are not bounded.

**Caches.** A memoized function with a time to live of zero starts again without
end (`core_memoize.py:209` says that only an outside change makes it); the instance
has one tick. The comparison of maps in `swap!` overwrites another thread's hit, and
a memoized call stores a cache made of one that a wrapped lookup has replaced since:
either sets the order of use back, so `VictimIsOldest` is stated for threads that all
call the memoized function, or all look up behind the Atom's lock, or for one thread
that does anything (`Exact`). A miss for a key that is
present makes a FIFO cache exceed its threshold once a key is evicted, and a hit on
an absent key of an LU cache, or a miss of an emptied LIRS cache, raises; no
scenario of a bound exercises the first, and the raising operations end the call.

The limits of a LIRS cache do not bound what it holds, so no property says they do. A
miss while the cache is filling takes the oldest key out of the history though it may
be cached (`core_cache.py:511`), and a miss for a key of the history puts the oldest
one among the candidates though it may be cached no longer (`core_cache.py:524`); such
a candidate frees nothing when its turn comes. With both limits 3, looking up a a b a
c d e f g h d i j k l in an empty cache leaves seven entries. The entries of a map that
a cache is seeded with are in neither history and stay until they are used: with both
limits 1, looking up b b c in a cache seeded with a leaves three. The instance has too
few keys for either: its limits are 2, and it has three keys in all.

**Compiler.** `IsKnownGap` names the forms for which the translation does not keep
the meaning: a `let*` or `loop*` that no macro wraps loses values in
statement position (`analyzer.py:3126`, `3312`); statements of a later argument run
before the calls of an earlier one (`generator.py:381`); a `recur` to a generator
function ends it; a `try` without catch whose `finally` does nothing is refused by
Python (`generator.py:3260`). The lenient reading of `WellFormed` names what is
accepted although it is ill formed: `(recur (recur x))`, and
`(f (loop* [x (recur 1)] x))` in a function of one argument. After a rejected `fn*`
its function context stays on the analyzer's stack and a `yield` at the top level is
accepted: where it is an expression, the function that the compiler wraps the value
in becomes a generator that runs nothing; where it is a statement, Python refuses the
module. `IsAcceptableIn` grants such a form a function around it. A `do` at the top
level with nothing in it fails an assertion (`compiler/__init__.py:279`), while
`docs/specialforms.rst:107` says that it returns `nil`, as it does anywhere else;
`WellFormedCompiles` says that no other form ends there.

## What is proved

For every value of the constants that satisfies `StmAssumption`,
`AgentAssumption`, `ChannelAssumption`, for pipelines with `PipelineAssumption`,
`CacheAssumption` with `MemoAssumption`, or `LispAssumption` with
`CompilerAssumption` (sets of threads, Refs, values, functions, keys and symbols,
kinds of channels, thresholds, depths of forms and bounds of any size, and any
back end of the compiler):

| Theorem | States |
|---|---|
| `StmProofs!TypeCorrect` | `Spec => []TypeOK` |
| `StmProofs!VersionsIdentifyValues` | `Spec => []VersionStampsValue` |
| `StmProofs!BodiesTracked` | `Spec => []Tracking` |
| `StmProofs!DeferredIsCurrent` | `Spec => []DeferredByThisAttempt` |
| `StmProofs!CommitsNotTorn` | `Spec => []NoTornCommit` |
| `StmProofs!LocksOrdered` | if no validator reads another Ref, `Spec => []LocksInOrder` |
| `StmProofs!StoreStaysValid` | if no body calls `set-validator!`, `Spec => []StoreValid` |
| `StmProofs!Implements` | `Spec => Serializable` |
| `AgentProofs!AgentTypeCorrect` | `Spec => []TypeOK` |
| `AgentProofs!LeaseIsExclusive` | `Spec => []LeaseExclusive` |
| `AgentProofs!NothingStalls` | if nobody clears the error or changes the mode, `Spec => []QueueNotStalled` |
| `AgentProofs!FailedIsQuiet` | `Spec => FailedRunsNothing` |
| `AgentProofs!NoWakeupLost` | `Spec => NoLostWakeup` |
| `AgentProofs!RefusedIsGone` | on the same condition, `Spec => []RefusedNeverRuns` |
| `AgentProofs!AgentImplements` | `Spec => Serialized` |
| `ChannelProofs!ChannelTypeCorrect` | `Spec => []TypeOK` |
| `ChannelProofs!NothingStale` | `Spec => []NoStaleWaiters` |
| `ChannelProofs!NoVainWait` | `Spec => []NobodyWaitsInVain` |
| `ChannelProofs!ServedInTurn` | `Spec => []InTurn` |
| `ChannelProofs!ChannelImplements` | `Spec => Linearizable` |
| `PipelineProofs!PipeTypeCorrect` | `PipeSpec => []PipeTypeOK` |
| `PipelineProofs!InputsAccountedFor` | `PipeSpec => []NothingForgotten` |
| `PipelineRefinement!DrainsBeforeEnd` | if the destination loses nothing (`Lossless`), `PipeSpec => []DrainedBeforeEnd` |
| `PipelineRefinement!OutputsInOrder` | on the same condition, `PipeSpec => InOrder` |
| `MemoProofs!ComputedOnce` | `Spec => []ComputesOnce` |
| `MemoProofs!WellFormedCaches` | `Spec => [](Covered => CacheWellFormed)` |
| `MemoProofs!BoundedCaches` | `Spec => [](Covered => SizeBounded)` |
| `MemoProofs!OldEntriesGo` | `Spec => []OldAreDropped` |
| `MemoProofs!OldestGoes` | `Spec => VictimIsOldest` |
| `AnalyzerProofs!EveryFormTaken` | a form that is well formed at a place is accepted in every context that offers the place |
| `AnalyzerProofs!EveryFormShows` | a form that is accepted is well formed where its node stands |
| `CompilerProofs!CompilerTypeCorrect` | `Spec => []TypeOK` |
| `CompilerProofs!AcceptedFormsAreUndone` | `Spec => AcceptedLeavesNothing` |
| `CompilerProofs!WhatIsRejectedIsIllFormed` | `Spec => []RejectsWhatIsIllFormed` |
| `CompilerProofs!WhatRunsIsWellFormed` | `Spec => []OnlyWellFormedRuns` |

**Transactions.** `TypeOK` is inductive with small additions (`TypeInv`).
Versions only grow and change with every publication, which gives
`VersionStampsValue`. `Tracking` says what a transaction's staged values are: on
the values it read, its body run alone shows what it was shown and leaves what it
staged; what it only commuted is the composition of the recorded functions. Alone
it is inductive relative to the types. `LockDiscipline` says which locks a thread
holds in each phase - those of the participants below its place while locking,
all of them while publishing, the rest while releasing. `CommitsNotTorn` and
`LocksOrdered` follow from it. The refinement combines them: at the step that
accepts a commit, every checked Ref has the version, hence the value, that was
read, so the guesses of `SerialStore` are right; while a commit is publishing, the
abstract store already holds its values (`Committed`), and no reader can tell
because the Refs not yet written are locked. Every other step maps to a step of
the abstract transaction or to a stutter. `DeferredByThisAttempt` is inductive
with the types: a retry starts with no deferred action, and `commit` takes them off
one by one.

**Agents.** `LeaseExclusive` - the agent is active exactly while one thread acts
for it, a scheduled runner finds an action, and a running one has seen the current
value - is inductive with `TypeOK`. The lemmas about `ScheduleNext`, which every
operation ends with, carry most of the proof. The refinement needs lemmas on the
numbers in a queue (`Ids` of an append and of a tail) and then, for each operation,
what happens to `Pending`. An idle agent that has not failed has an empty queue
only as long as each operation that leaves it so schedules what it finds;
`clear-error` and `set-error-mode!` do not, hence the hypothesis of `NothingStalls`.
`RefusedNeverRuns` uses it too: an action is refused by the `ScheduleNext` of its
own submission, so it must be the only one in the queue. The two action properties
are proved step by step from the types and the lease.

**Channels.** The four invariants are inductive together (`ChanInv`) with two
additions: calls are numbered in the order they are made, no two tasks sleep in
one call and nothing recorded bears the number of a later one (`Numbered`); and a
call that waits has had no effect (`NoEffectYet`). `NobodyWaitsInVain` needs in
addition that a put waits on fixed buffers only. Whatever `put`, `take`, `alts`,
`offer` or `poll` do when they need not wait is one of six effects (`Effect`):
nothing, a value stored, taken, handed to a waiting take, handed from a waiting
put, or taken with a waiting put moving up. For each there is a lemma that the
calls still waiting on that channel came after what it records; on the other
channels waiters may only go (`Elsewhere`). The effects are the actions of
`SerialChannels`, so the refinement follows: waiting, giving up, going on and
being cancelled are stutters.

**Pipelines.** The proof is about the forwarder together with the channels it uses.
One lemma for each operation of a channel (`PutEffect`, `TakeEffect`,
`SleepEffect`, `ResumeEffect`, `CloseEffect`, `CancelEffect`) says what its callers
can tell: whose futures it answers and with what, and how many values the buffer
and the takers gained. The invariant `PipeInv` adds to the two properties who may
wait where (`Sides`), in which call the forwarder sleeps (`Asleep`), that values
taken from the source, stored in it or offered to it do not outnumber those put
(`Balance`, without which the numbers of admitted inputs had no bound), and what
the forwarder knows of the results it holds (`WorkOK`). A step of another task may
only answer the forwarder, which moves an input from the source to the way to it.

That the outputs come in order needs more than the forwarder's own state: what came
out of the destination must tell where the forwarder is. `OrderInv` says so. At
every moment the outputs delivered are those of the inputs before the one whose turn
it is, and of that one as many as were put, with the one the forwarder sleeps in
when a take has let it go on (`ExactOK`, with `Ahead` for that one). It rests on
which outputs are known (`MadeOK`), on the forwarder having put whatever was due
before it admits or waits (`TurnOK`), on the waiting put being of the output that is
due (`Asked`), on a consumer that waits finding an empty buffer (`Hungry`), and on a
closed and empty source staying so (`Shut`). `DrainOK` is what a forwarder that came
to the end of its input knows. A thread that ends maps to `Make`, a put into the
buffer or to a waiting consumer and a take that lets the forwarder go on map to
`Deliver`, all else to a stutter. Division by `Fan`, which numbers the outputs, is
undone by a lemma on quotients and remainders (`OutputOfItem`). `Lossless` is
necessary: a sliding or dropping destination gives up outputs by design.

**Caches.** First each policy by itself: a cache is `Sound` when its map and the
policy's record of it agree, within the threshold where there is one, and seeding, a
hit, a miss and an eviction make sound caches of sound ones. For FIFO that is about
positions in a queue with free places; for TTL, that the queue is in the order of
time, that an entry's place in it is younger than the cut, and hence that what a miss
drops is exactly what is too old. Then the threads (`MemoInv`): whatever a thread
read, every cache it has made and not stored yet is sound (`Kept`), so a stale store
puts back a sound cache, and that is why comparing the maps alone does no harm to it.
`ComputesOnce` needs that the function's lock is held from the look to the store
(`Locked`), so the map that is stored or about to be (`Latest`) has every delay made;
behind the wrapped caches it needs that a computing thread holds the Atom's lock.
`ComputesOnce` speaks of one interface at a time (`OneInterface`), a memoized
function or wrapped lookups, since an eviction or a reset may forget. `Covered`
leaves out LIRS, and of FIFO the scenarios with `miss!` or `memo-swap!`: a miss for a
key that is present puts it twice into the queue (`core_cache.py:196`).

`VictimIsOldest` compares what a policy keeps with the history `older`, the pairs of
cached keys of which the first came in, or was used, before the second. The cache
agrees with it (`Aged`): an LRU table's ticks are distinct and rank the keys in that
order, a FIFO queue lists them in it. That gives the victim of one operation
(`MissesAge`), and is kept by it. What carries it through the threads is that a cache
made and not stored yet will still agree when it is stored (`Serves`), since no other
thread has one under way (`NobodyMakes`): the function's lock, the Atom's lock or the
single user sees to that. Without that condition the property is false.

**The compiler.** What it promises is about forms, so the proofs are inductions over
forms, of which the library has none that the provers can use. Forms are nested to
some depth, though, and a set that holds a form whenever it holds the form's parts
holds those nested less than `n` deep for every `n` (`FormInduction`). It needs that
`Analyze` and `WellFormed`, defined by recursion over all forms, look at nothing but
a form's parts (`AnalyzeIs`, `WellFormedIs`); that is shown first. Three facts about
every form follow, each with one lemma for each kind of form:

* `EveryFormGood`: in any context, the analysis raises, or pops what it pushed and
  makes one node. Between two forms of a list the context is the one before with the
  names bound so far (`InFrom`), and only the innermost function may have been marked
  as a generator (`Flagged`).
* `EveryFormTaken`: no check rejects too much. A context `Offers` a place if it has
  the names in scope, the recursion point and the function. The induction carries
  what the checks on the way up will ask of the node: that its recurs are in its tail
  position, and that it has none where none may be (`Placed`).
* `EveryFormShows`: no check rejects too little. The place of a form is made of what
  is on the stacks above some frames and points that are left behind (`Place`), and
  the form is well formed there if its node refers to none of those (`Clear`) and its
  recurs are where the place allows them (`Allows`). Nobody looks for the latter as
  long as all recursion points are left behind, since a recur then refers to one of
  them; that is why a rejected form's leftovers cannot make an ill-formed form run.

Every context offers the top level, so what is rejected is ill formed. The invariant
of the session (`Inv`) says that an analyzed form was accepted in a context that
differs from the present one by marks only; the generator goes on only if the tree
refers to nothing in it. A new context has the one frame in which nothing is bound,
which no node refers to, and stays new while the forms of a first `do` are accepted
(`NewStaysNew`); hence the second half of `RejectsWhatIsIllFormed`.

Each proof module sets the time of a leaf with `USE SMTT(60), ZenonT(60)`. Most
leaves need a second; the rest is margin for a busy machine.

Only model-checked:

* liveness (`EveryTransactionEnds`, `EveryActionSettles`, `AwaitReturns`,
  `TimeoutEndsWait`, `Finishes`, `EveryCallReturns`), which is outside the prover's
  reach under fairness;
* LIRS caches, of which the run checks only that every call on them ends
  (`EveryCallReturns`), and FIFO caches into which `miss!` or `memo-swap!` puts a key
  that they hold, which outgrow their thresholds;
* what the generated Python does (`RunsAsMeant`) and that Python accepts it
  (`WellFormedCompiles`): `Meaning`, `Generator` and `Python` use recursive operators,
  which the prover does not accept.

## Not modelled

* Transactions: maximum history (stored, never read), metadata, the list of
  watches (a Ref's watches are one step that returns or raises), transactions
  started by watches or validators, the text of errors.
* Agents: metadata, watches that call the agent, the validator as state (rejecting
  a result is a choice), which error handler is installed, thread bindings.
* Channels: the binding to one event loop and the argument checks of every
  function; a handler whose task is cancelled while its thread runs on; in the
  instance of the pipeline, sliding and dropping destinations.
* Caches: value functions, seeds larger than the limit, several keys swapped at
  once, snapshots; of atoms, validators and watches.
* Compiler: definitions (`def`, `deftype`, `reify`), quoting, interop, `letfn*`,
  async functions, functions of several arities or of any number of arguments,
  closures that outlive their call, warnings, and what a generator that raises
  leaves on its own stacks: the model ends there.
* Multimethods: in one thread a cache in front of a lookup, which tests reach. With
  threads `get_method` (`lang/multifn.py:88`) and a lookup that straddles a change of
  the hierarchy (`lang/multifn.py:133`) leave an old answer in the cache, so that no
  coherence property holds, and no document states one.
* Vars, bindings, namespaces, keywords, promises, futures, socket servers, `seque`:
  operations of one step under one lock, or confined to a thread.
* The rest of the repository - reader, importer, collections, numbers, spec,
  printing, data formats, test frameworks, most of the core library, and the parts
  of analyzer and generator that translate definitions and interop one to one - is
  text processing, one-to-one translation, immutable data, or input and output.
  There a state machine would restate the code line by line. These are by far the
  most of its lines, so the models cover a small share of the repository and most
  of what is concurrent in it.
