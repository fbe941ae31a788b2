# A TLA+ development of ing

`ing` is a small C++ library: timers that print statistics, a logger on top of
Boost.Log, reference-counted strings, names of threads, a spinlock, and a bridge
that starts a C++ `main` from Java. This directory models the parts of it that
have state, model-checks them on small instances with TLC, and proves the most
important facts for every size with TLAPS.

All paths below are relative to the repository.

## 1. The system

| Component | Source | State | Operations |
|---|---|---|---|
| timer registry | `src/timing.cpp` | `timers`, an intrusive ordered set of elements; an upgrade mutex and a condition variable; a spinlock and three accumulators per element | `timer::report(name, loc)` records a sample, creating the element if need be; `timer::report(os, regex)` prints statistics |
| timer life cycle | `src/uptime.cpp`, `src/timing.cpp` | the stopwatch, the name, the number of the last signal, the stream `m_os` | construction, `phase`, `finalize`, `format`, the destructors of three classes, the stopwatch's own `start`, `stop`, `resume` |
| spinlock | `include/ing/spinlock.hpp` | one `atomic_flag` | `try_lock`, `lock`, `unlock`, in three builds |
| reference-counted strings | `src/string.cpp`, `include/ing/string.hpp` | shared buffers with an atomic count, the static empty buffer | construct, copy, move, assign, swap, destroy |
| thread names | `src/threading.cpp`, `include/ing/threading.hpp` | a map from thread ids to strings, its spinlock, a thread-local iterator into it, the platform's name | `set_thread_name` and `get_thread_name` with and without an id, `sync_thread_name`, the end of a thread |
| logging setup | `src/logging.cpp` | Boost.Log's core (enabled, sinks, filter), the table of thresholds, the formatter factories, the global logger | `init_logging`, creating and destroying loggers, opening a record |
| log records and locations | `include/ing/logging.hpp` | one thread-local location, the open records of each thread, the exceptions on their way | a log statement and its end, making a logger, operands and destructors that log or throw |
| formatters and severity names | `src/logging.cpp:20-97, 250-395, 458-528` | the table of colours, the formatters of a sink | parsing of names and arguments, `%Default%`, `%SGR%` and the others |
| colour stripping | `src/logging.cpp:200-248` | the text of a record, two pointers | `%SGR(mode=strip)%` |
| jmain | `src/jmain.cpp` | `argv`, the pointers to free | `cmdline`'s constructor and destructor around `main` |

How they interact:

- A destroyed or re-phased timer (life cycle) stops its clock, logs a line,
  signals a handler and then calls the second half of `report(name, loc)`, which
  is where the registry begins. The registry locks the element's accumulators
  with the spinlock; thread names lock their map with it.
- Thread names are strings of the reference-counted kind; the map, the threads
  and the callers share buffers.
- A logger asks the table of thresholds for its level when it is created; a log
  statement passes the logger's filter, the core's filter, and is formatted by
  what the last `init_logging` configured, with the location and the thread's
  name. Colour stripping is one of the formatters.

What is hard here, in the order in which it was modelled:

1. `report(name, loc)` searches under a shared lock, upgrades it, allocates,
   inserts at a position computed before the upgrade, and makes the losers of
   the upgrade wait on a condition variable, with an exception path in between.
   A report walks the same set and lets go of the lock at each element.
2. The spinlock's waiting and waking.
3. Exceptions and unexpected calls in the life of a timer, whose destructors (three
   classes have one, each finishes a timer that still runs) must leave the
   signal handler and the report in order.
4. Counts dropped and taken concurrently; half of the accesses of the thread
   names happen without their lock, through iterators that a rehash may invalidate.
5. `init_logging` may be called repeatedly, may throw anywhere, and runs beside
   threads that log.
6. Records that are open inside each other and statements that an exception
   leaves, told apart by counting exceptions.
7. Scans and moves in place (colour stripping), formatters that append to one text
   in any order and look at what is there, partial allocation (`jmain`).

The full list, each entry at its line and with the properties aimed at it, is
under `hazards` in `PROJECT.json`.

## 2. The modules

    UpgradeMutex   boost::upgrade_mutex, external
      TimerRegistry   EXTENDS UpgradeMutex, implements TimerBoard
        TimerRegistryProofs
    TimerBoard     what the registry promises
    Spinlock       implements Mutex, proved in TimerRegistryProofs
    Owners         the threads, as UpgradeMutex and Spinlock know them
    Mutex          what a lock promises
    Timer          the life cycle up to the registry
      TimerProofs
    SharedBuffers  buffers and counts, one action per atomic operation
      StringRef       string objects over them, implements StringValues
        StringRefProofs
      ThreadNames     the map and the thread-local entries over them,
                      implements NameBoard
        ThreadNamesProofs
        ThreadNamesTest   the two programs of the test case thread_name
    StringValues   what a string promises: a value
    NameBoard      what the names promise: one name per thread
    Logging        init_logging, loggers, records
      LoggingProofs
    LogRecords     statements: the record, its location, exceptions
      LogRecordsProofs
    StripSgr       the formatter that strips colours
      Formatters      severities, factories and the other formatters
        FormattersProofs
    Jmain          the command line
      JmainProofs

Every module `M` that is run has a module `MCM` and one or two `.cfg` files. The
properties stand at the end of the module they are about, each with a comment.
Definitions named `Action_Variant` are mutants: variants of an action with a
plausible bug, used to confirm that the properties notice it; no specification
uses them.

### TimerRegistry

An element is its key: `timers[n]` counts the elements linked with key `n` (the
code must keep it at most 1), `samples[n][c]` the samples in each of its clocks,
`guard[n]` is the owner of its spinlock. `pc[t]` is the place of a thread in one
of the two functions, and one action is one step between two operations that
other threads can see:

| Actions | Code (`src/timing.cpp`) |
|---|---|
| `Call`, `Search`, `InsertCheck`, `SearchUnlock` | 175-186, the lookup under the shared lock |
| `TryUpgrade`, `NewElement`, `NewElementThrows` | 187-202, the upgrade and the allocation, with the destructor of the notifier on the exception path |
| `Insert`, `InsertCommit`, `InsertUnlock`, `NotifyAll`, `CreateUnlock` | 203-206 and 189-195 |
| `CvWait`, `SpuriousWakeup`, `Relock` | 207-213 |
| `GuardLock`, `Accumulate`, `GuardUnlock` | 214-221, three accumulators one after the other |
| `PrintAll`, `Begin`, `Visit`, `Extract`, `RowsDone`, `Advance`, `PrintReturn` | 230-279, the walk; each printed feature takes the spinlock anew |

The accumulators are the number of samples in them; a printed feature is the
number of samples behind it. Names are numbers, so that the order of the set
exists. `before` and `printed` are history variables for `ReportComplete` and
the refinement.

Two facts of the code that the model keeps and a reader may not expect: a thread
that had to wait does not search again (209-211 break out of the loop), so its
sample is dropped, which `TimerBoard` allows only if the name was unknown when
the call began; and a row may mix statistics of different moments.

### Spinlock

`build` chooses one of the three bodies of `lock()`: `"wait"` (C++20 `wait` and
`notify_one`), `"test"` (spin on `test()`), `"spin"`. Each action is one atomic
operation on the flag; `atomic_flag::wait` is blocked state with spurious
wakeups, `notify_one` wakes any one of the blocked threads.

### Timer

Time is a clock that ticks between the steps. `times` is what `m_times` of
`cpu_timer` is: the start while running, the elapsed time while stopped. A call
of `phase` goes through stop, log, format, signal, sample, restore. The log, the
formatting, the handler and the registry may throw; `Throw` leaves the call as an
exception does, without the restore.

| Actions | Code |
|---|---|
| `Init` | the constructors; if there is no memory for the name or the handler throws there, the base classes are destroyed at once |
| `Phase`, `Restore` | `uptime::phase` before and after `report`, `src/uptime.cpp:20-39` |
| `Log`, `Format` | the statement of the report and `uptime::format`, which exchanges `m_os` and gives it back, `src/timing.cpp:158-167`, `src/uptime.cpp:41-71` |
| `Reset`, `Signal`, `HandlerReturns` | the signals, for which `string_guard` cuts the name and puts it together again, `src/timing.cpp:144-173` |
| `Sample`, `SampleThrows` | the call of the registry, whose detail is `TimerRegistry` |
| `Destroy`, `EndUptime`, `EndCpuTimer` | the destructors of `timer`, `uptime` and `auto_cpu_timer`, each of which finishes a timer that it finds running |

`name` is the buffer of `m_name`: `size` times the same letter for the name given,
then the ids of phases, each with its `/` one character. `CutName` writes a NUL at
`basename` and keeps the character in `saved`, and `RestoreName` writes it back, also
when the handler throws. `handed` keeps the C strings that the handler has been given.
`basename` is the size modulo `ShortRange`, which stands for the 65536 values of an
`unsigned short`, so that names too long for it are among the cases. `stage` is the
number of the last signal.

### SharedBuffers, StringRef and ThreadNames

A buffer has contents (or `Freed`) and a count, an `int` that wraps around at
`IntMax`. That as many objects as a program has (and `nullstr`'s own reference)
can be counted is the assumption `CountsFit` of `StringRef`, and of `ThreadNames` for
the strings that the map and its callers have. In `StringRef` every special
member is split at its one atomic operation; `writes` and `reads` enforce what
C++ demands of any type, that an object which is written is used by one thread
only, while the buffers are shared without restriction.

In `ThreadNames` the map `entries`, its `guard`, the thread-local `ready` state
and the platform's name are separate, and copying a string is two steps (read
the pointer, count up), as is swapping one. `platform` names are cut by `Cut`;
`selfOnly` is a platform where a thread can only name itself. A thread may end
and another one start under the same id.

`NameBoard` is what these functions promise together: each thread has one name,
a call that sets it does so at one moment of the call, a call that gets it
returns the name of one such moment, and a thread introduces itself once. The
refinement mapping hides the empty string that `name_map[id]` makes just before
its swap and shows a call as done from its read or swap on.

The functions without an id do not take the lock (`src/threading.cpp:156, 167,
177`), and the model lets them run at any time. Two kinds of steps then have no
meaning in C++, and the history `undefined` notes that one was taken:

- `Overlap`: two threads are in one string, one of them between the halves of a swap
  and at least one of them without the lock;
- `UsesInvalid`: a thread uses its iterator after an insertion that rehashed the map.
  `Inserted` lets every insertion of a new element (50, 65) rehash or not, and the
  standard says that a rehash invalidates the iterators of all other threads.

Nothing can be said of what comes after such a step, so the properties are about
behaviours up to there, the run does not follow them further (`CONSTRAINT Defined`),
and the theorems, which have no such constraint, are of the form "unless `undefined`".
This asks no discipline of the program: every call may overlap with every other.
`renamed`, another history, has the threads whose name was replaced between the two
halves of `sync_thread_name`.

`ThreadNamesTest` runs the two lambdas of the test case `thread_name`
(`src/test/test_threading.cpp:10-46`) over these actions and does follow them beyond
an `Overlap`: there a string is a pointer, which is how the build has it.

### Logging

`init_logging` is one action per access to what other threads can see: disable
the core, reset it, enable it, clear the table, fill it entry by entry, build
the formats, register the factories, apply `[Core]`, construct the sinks, add
them one by one, or add the console. It throws at the entry, format, filter,
`DisableLogging` or sink that the configuration says is bad. `factories` is the call
whose formatter factories are registered. A configuration (a member of `Settings`) is
abstracted to what remains of it in the core and the table and to where it makes
the call throw; `boost::log::init_from_settings` is modelled from how it is used
and from what it is known to do (the core section first, all sinks constructed,
then added).

Beside it threads create loggers, which read the table, and write records: a
record belongs to the sinks that existed when it was opened. While the vector is
written by `init_logging` a reader may see any level. `Orders` is the order in
which the compiler evaluates `std::move(channel)` and
`minimum_severity_level(channel)` (`include/ing/logging.hpp:441-444`). The global
logger is one more logger, made by whichever call uses it first and never
destroyed.

### LogRecords

`v[t]` is the thread-local variable behind every logger's `LineID`. `stack[t]` is
what a thread is in the middle of: open records, because the operands of a
statement may log themselves, and destructors that an exception runs, which may
log, throw and catch as well. `raised[t]` is `std::uncaught_exceptions()`, which a
record counts when it is opened and its `record_pump` compares at its end. The
forms with a format string write in the helper's second constructor
(`include/ing/logging.hpp:389-394`); as it delegates, an exception there runs the
helper's destructor, so the frame is the same. A record carries, as history, the
locations that its thread stored while it was open; `written` is the record the
last step handed to the core.

### Formatters, StripSgr, Jmain

A case of `Formatters` is a section `[Attributes.SGR]`, a template and a record.
`Assign` puts one entry of the section into the table of colours, or throws at a name
that is no severity's. `Configure` makes the formatters of the template, or throws as
the factories do; then `CallFormatter` calls one after the other, and they append to
one text. `CallChain` takes `%Default%`, and a `%Scope%` that begins a line, apart into
the formatters they are chains of. A call of `%SGR(mode=strip)%` runs the steps of
`StripSgr` on what there is.

`"newline"` is Boost's `auto_newline`, with which the scopes begin
(`src/logging.cpp:345-347, 509`): it writes a newline unless the last character of the
text is one, be it a character of a message or of a colour. The repository does not show
what it does in an empty text; `NewlineIfEmpty` is a constant and the theorems hold for
both values. `plain` is, for the properties, what the same
template would write without any `%SGR%`, and `bare` is what the formatters did write,
without colours. The two can differ: after a message that ends a line, a colour hides
the newline, and the scopes are preceded by an empty line.

| Actions of `StripSgr` | Code (`src/logging.cpp`) |
|---|---|
| `Call` | the formatter is called, 201-225 |
| `Skip` | a turn of the loop of `find` that finds nothing; `After` keeps the step over the character behind an ESC, 207-219 |
| `FindFirst`, `FindNone` | the end of the first `find`, 227-228 |
| `Move` | another colour: one memmove, 234-240 |
| `Erase` | no other: the last statement, 241-245 |

`first` and `second` are the pair `a` of the code and `scan` is the `s` of `find`. If
`scan` has stepped over the terminator no action is enabled, as nothing is known of
what stands there. `Jmain` keeps the two arrays, each allocation of the library
with its failure, and a `main` that may leave any pointers in `argv`.

## 3. The runs

| Run | What it asks | Bounds and why they are enough |
|---|---|---|
| `registry_safety` | all safety of the registry, order and completeness of reports, the refinement of `TimerBoard` | 3 threads: a winner and a loser of the upgrade, and a third that prints or records an existing name in between; 2 names, so that an insertion can fall before or behind a walk; 2 features per clock; allocations fail |
| `registry_liveness` | waiters are woken and every call returns | 3 threads and one name: the race to create it, with one winner and two losers, under fairness; no allocation failures (see 4) |
| `spinlock` | exclusion, no lost wakeup, refinement of a fair mutex | 4 threads: a holder, a notified thread, a sleeping one and one that steals the flag |
| `timer` | accounting, signals, names and destructors in every order of calls and exceptions | 2 phase ids, 4 calls of the user, 4 ticks: each call can take time and be followed by each other; `ShortRange` 2 and names of 0, 1 and 3 characters: empty, of the greatest size that fits, and one whose `basename` falls into it |
| `string` | counts and life time of buffers, refinement of values | 2 threads, 3 objects, 2 buffers: objects that share and objects that do not, assigned and destroyed concurrently; `IntMax` 6, the least that `CountsFit` allows here: with 5 the count of `nullstr` wraps |
| `names` | no freed buffer or erased entry is used, no buffer is lost, refinement of `NameBoard`, what the platform knows | 2 threads that live twice under their ids, 4 buffers (a name in the map, in a temporary and in flight each), calls that overlap in every way and insertions that rehash or do not, up to the first undefined step; the platform where every thread can be named, which has more interleavings that matter to `SyncPublishes` (the theorems are about both) |
| `names_test_race` | an assertion of the test case, expected to fail | exactly the test's program |
| `logging` | reinitialisation, failures, records beside it | 3 calls with 10 configurations, one per way a call can go, so that two leftovers can meet a third; 2 threads, the global logger and another, 2 channels |
| `logging_order` | the threshold of a logger in a build that moves the channel first, expected to fail | one call |
| `log_records` | the location a record shows, and whether it is written at all | 2 threads, 3 frames (a statement in a destructor run out of a statement), 2 exceptions at a time, a logger with a threshold and one without |
| `formatters` | stripping against a definition of a colour sequence; colours and templates | as messages every text of up to 4 characters and every text of up to 4 pieces, sequences of every shape adjacent to each other and at both ends; templates that colour, reset and strip in several orders and more than once, or that are refused; headers, messages and scopes that are empty, end a line or do not; sections without, with repeated and with unknown names; every severity and none |
| `jmain` | everything is freed once, whatever fails | up to 3 arguments: first, middle, last |

`CHECK_DEADLOCK FALSE` is set where the system may stop: all calls of the bound
are made, the test has ended, the text is stripped, `jmain` has returned.
Symmetry is used over threads, handles, buffers and ids in runs without liveness
properties; names of the registry are ordered and not symmetric.

What the runs show beyond the names of the properties:

- `ReportComplete`, `ReportOrdered`: a report shows every matching timer that
  existed when it began, once, although it walks without the lock for most of
  the time. New timers may or may not appear.
- `RowsNeverGoBack`: the torn rows the code allows go forward only.
- `ImplementsFairMutex`: lock implies eventual entry *for somebody*: the lock is
  never idle while threads wait. No thread is promised its turn; the code does
  not promise it either.
- `TotalReportedOnce`: if the handler throws out of the constructor, no `~timer`
  runs; `~uptime` finds the timer running and reports the total to the timer's own
  stream. In every other case the base classes' destructors find it stopped.
- `SignalsNameTheTimer`: the handler is given the timer's name, whatever suffix it
  carries at the time. Of a name of 65536 characters or more it gets the whole with the
  first signal and only the beginning, of a size modulo 65536, with the others. The
  registry and the log always get the whole name.
- `ImplementsNameBoard`: until a step is undefined the functions of thread names
  look like single steps on one name per thread, except for what the platform
  knows, which `SyncPublishes` is about: a name that another thread sets between the
  two halves of `sync_thread_name` is overwritten on the platform, and this is the only
  way in which it knows another name than the map when the call returns.
- `LastInitWins`, `FailedInitLeavesPart`: what survives a call of `init_logging`
  after any earlier calls. After a call that throws the core has no sinks, and
  records go to Boost's default sink. The formatter factories of an earlier call
  survive if it throws in `[Thresholds]` or `[Attributes]`.
- `WrittenIffCompleted`: a statement's record is written if and only if no exception
  leaves the statement, also in a destructor that an exception runs and with
  exceptions thrown and caught inside the operands.
- `StrippedIsPlain`, `ColouredAsConfigured`: however a template colours, resets and
  strips, what is left is what it would write without colours, and empty lines in front
  of scopes at most; and the colour written is the one the section gives the severity of
  the record.
- `StaysInText`: the scan of the formatter reads behind the terminator only
  for texts that end with an ESC. Other irregular texts (ESC ESC, embedded NUL)
  keep sequences that should go but never lose a character.

### Disagreements found

- `names_test_race`. `get_thread_name()` reads the thread's entry without the
  lock while `set_thread_name(id, name)` replaces it. In the test case the child
  arrives at the barrier *before* it reads its name back
  (`src/test/test_threading.cpp:25-27`), and the parent renames it right after
  (line 41): the child may read the new name or a freed buffer.
- `logging_order`. The level of a new logger is looked up under a moved-from
  name if the compiler evaluates the move first.

## 4. Fairness

Only two runs use fairness, both weak fairness of each thread's own `Step`:

- `TimerRegistry!FairSpec`: the scheduler runs every thread that can take a step
  of a call it is in. No fairness is assumed of making calls or of
  spurious wakeups, so nothing is woken but by `notify_all`.
- `Spinlock!FairLockSpec`: the same, and a holder eventually unlocks, as all the
  critical sections in `timing.cpp` and `threading.cpp` do.

With `AllocMayFail` a lost wakeup exists in the registry: on the exception path
`notify_all` runs while the notifying thread has upgrade ownership only, so a loser
that is not in its wait yet, or that fails to upgrade between the notification and
the unlocking, misses it and may wait for ever. Waiting is therefore checked without
allocation failures, everything else with them; what holds with failures is the
theorem `WakersUntilMissed` (see 5). The bound of one call per thread hides
starvation of an upgrading thread by an endless stream of readers, which the mutex
permits.

## 5. The proofs

All theorems hold for any number of threads, names, phases and calls, from the
assumptions the modules name (`ASSUME ...Assumption`: the extra values differ from
the sets they extend, bounds are natural numbers). Where a count is compared with a
number of objects (`CountsFit`), threads and handles are finite sets.

Each proofs module has one invariant, `IInv`, with a lemma per action or group of
actions, the theorem `Inductive`, and the properties as consequences. TLC checked
each `IInv` on the instance of its run before it was proved.

**Registry** (`TimerRegistryProofs`). The properties are not inductive alone:
that a key is not linked twice depends on who owns the lock, and that on where
each thread is. The invariant `IInv` is built from parts, each with a lemma for
the recording steps and one for the printing steps:

- `TypeOK` and `IterAtElement`: a walking thread stands at a linked element.
- `Ownership`: shared, upgrade and exclusive ownership are exactly what `pc` says,
  and a writer is alone.
- `Position`: between check and commit the key is absent (`AbsentKey`), hence
  `UniqueKeys` and `CommitDataFresh`.
- `Sampling`: the spinlock of an element is held exactly in its critical section,
  and inside it the clocks lag behind each other by what `pc` says.
- `RowBehind`, `Walk`: what a report has printed is not ahead of the
  accumulators; what it has passed it has printed.
- `Knowledge`: what a thread knows about its name, which the refinement of
  `TimerBoard` needs to justify a drop.

`Waking` (a loser has an upgrader, a waiter has a waker) is a second invariant. It is
preserved by every step but two kinds, named by `Misses`: the notification of the
exceptional exit while a loser is on its way to its wait, and a failed upgrade
between that notification and the unlocking. `WakersUntilMissed` says that
`WaiterHasWaker` holds until such a step, whatever allocations fail, and
`WaitersHaveWakers`, for builds without failures, follows. Both kinds are needed: if
steps of either are allowed, TLC finds a waiter that nobody will notify.

**Spinlock** (the last section of `TimerRegistryProofs`, as the registry takes the lock
in one step). `SpinInv` adds to the types that the flag is set exactly if a thread holds
the lock, and `NoStrandedWaiter`. It proves exclusion and that every build implements
`Mutex`, which is what justifies that one step.

**Timer** (`TimerProofs`). `IInv` relates program counter and flags (`Control`),
the clock and the sums (`Elapsing`), the signals and the stage (`Signalling`), the
name (`Naming`; `Spelled`: with the cut taken back it is the one given and ids), what
the handler got (`Handing`) and the reports of
the three destructors (`Totalling`: a timer whose total is being reported, or has
been, is stopped, so that no further destructor reports it). It proves every
property of the run, for any `ShortRange`.

**Strings** (`StringRefProofs`). That a count is right when it goes down needs to be
known of all objects at once, while objects are constructed and assigned. `Exact` says
that a buffer's count is the number of objects that hold it and have counted
(`Holding`), plus `nullstr`'s own; `Alive`, that a buffer is allocated as long as
there is one; `Disjoint` is the rule of C++ about objects that are written; `Placed`
says what each thread is in the middle of: a reference that is not counted is one to
`nullstr`, or is kept alive by the object that was copied, which nobody may write
meanwhile. Steps change the set `Holding` by one object, so that the theorems on
cardinalities give `Exact`, and `CountsFit` keeps the `int` from wrapping. The count
of constructors in progress in `CountsAreExact` is the number of uncounted objects, by
a bijection. The refinement of `StringValues` follows from one fact: the contents of a
buffer do not change while it is allocated.

**Thread names** (`ThreadNamesProofs`). The invariant is `Sound`: unless a step was
`undefined`, `IInv` holds. In `IInv`, `Exact` and `Alive` are those of the strings, for
the map's entries, the parameters of calls and the strings that calls make. `Placed`
says what a call is in the middle of; above all, a pointer that was read from an entry
without the lock is still that entry's when it is counted or swapped (`Reading`). Of the
steps of other threads that could break this, those with the lock are excluded by it
(`Guarded`), and those without, or against one without, make an `Overlap`: the proof
shows that these are all. `Entered`: the entry behind an iterator is there, and an entry
is empty only inside the call of `set_thread_name(id, name)` that has made it.
`NoDanglingName`, `NoLostBuffer` and, with `Published`, `SyncPublishes` follow. For the
refinement each action is shown to map to the step of `NameBoard` that it stands for
(`MapsTo...`): construction and lookup to nothing, the insertion to `Introduce`, a read
to the moment of a get, a swap to that of a set.

**Logging** (`LoggingProofs`). `LastInitWins` is about the state that many steps, of
many calls, leave behind. `IInv` says for each place of `init_logging` what the core
(`CoreSoFar`), the sinks (`SinksSoFar`) and the table (`TableSoFar`) are then, in terms
of the configuration of the current call alone, which is why nothing of earlier calls is
left of these. `FactoriesSoFar` says from where on the factories are those of the
current call, and that it has read all its entries by then. `LoggersGetFirstMatch` is proved for
builds that evaluate the level first (`Orders \subseteq {"level first"}`); for others
`logging_order` refutes it.

**Log records** (`LogRecordsProofs`). `Sound` relates a thread's stack to its two
thread-local values: every open record has stored what the location now is
(`Located`), and has counted as many exceptions as there are destructors below it on
the stack (`Counted`), so that at its end the comparison in `record_pump` tells an
exception that leaves it from those that were there. It proves both properties of
the run for any depth.

**jmain** (`JmainProofs`). `Remembered` and `Accounted` say that the heap is exactly
the two arrays and the strings that the second array still names from the loop's
index on, whatever `main` does to the first; `Copied`, that the copies so far are in
their place.

**Formatters** (`FormattersProofs`). That a text *is* another one without some
sequences is stated by a rising function from the positions of the one onto the
remaining positions of the other (`Embedding`, `Lifts`). Such functions are extended when a
piece is moved or appended, and are unique for their range, so facts about texts of any
length need a least element (`LeastNat`) and no induction over the text. `IInv` says

- of the pointers (`Pointers`): they are in order, what stands behind the second is
  still the original, and the scan is behind the terminator only if an ESC is last;
- of what is in front of them (`Scanned`): a set of colours, in a regular text all that
  the scan has passed, is all that is missing there; hence `DoneInv`, the end of a call;
- of the text between calls (`PlainInv`): it is `bare` with colour sequences put in, and
  `bare` is `plain` with newlines put in that end empty lines (`Spaced`), both ending or
  not ending a line (`SameEnd`);
- of records whose scopes are not shown (`ScopeInv`): `bare` is `plain`;
- of the table (`TableInv`): each severity has the colour of the last entry so far that
  has its name.

For `StrippedIsPlain` two descriptions of the text meet: it is `bare` with sequences put
in, and the scan takes out sequences. As `bare` has no colour, the ones put in are all
there are (`AllTakenOut`), so what remains is `bare` again; and of an irregular text
the rest is `bare` with some of them still in (`FromTheRest`), which the
next formatter may append to and the next strip starts from. `bare` and `plain` grow by
the same texts but for the newline of the scopes, which only `bare` can get where
`plain` has one already: an empty line. `CasesAssumption` says of
a case only what types its parts have.

Every safety invariant and every action property that a passing run checks is proved.
Only model-checked: liveness (`CallsReturn`, the fairness half of
`ImplementsFairMutex`), which is out of the prover's reach. The types are proved as
theorems (`TypeCorrect`) and in no `.cfg`, as the properties there tell more; the
refinement of `Mutex` without fairness is proved and, being implied by
`ImplementsFairMutex`, not checked again.

Three definitions changed because a proof could not be found. First, the guards of two arms of
a `CASE` in the refinement mapping of `ThreadNames` overlapped, which leaves the
value unspecified where TLC takes the first. Second, `WaiterHasWaker` did not count a
thread on its exceptional exit among those who will notify. Third, the scan of
`StripSgr` was one recursive function; it is one step for each turn of the loop now, which
is closer to the code and has pointers that an invariant can be about.

## 6. Not modelled

- Memory orders: atomics are sequentially consistent. The count of a string goes
  down with `memory_order_relaxed` (`src/string.cpp:28`), whose consequence for the
  thread that frees the buffer is not visible here.
- More handles than an `int` can count: the models show what an `int` count does, and
  `CountsFit` (of `StringRef` and of `ThreadNames`) excludes those programs.
- What a program does after a step without a defined meaning: in `names` the properties
  end there, and `names_test_race` follows one kind of them.
- The exception of a malformed regular expression (`src/timing.cpp:235`), which leaves
  `timer::report(os, regex)` before it has touched anything, and with it no trace in the
  registry.
- `GetStringUTFChars` returning a null pointer, which `src/jmain.cpp:47-53` would copy
  from: that is undefined, and JNI has an exception pending then.
- `signal` replacing the handler while other threads call it
  (`src/timing.cpp:224-228`), which is unsynchronised.
- Overlapping calls of `init_logging`: they race on a plain vector.
- Layout: times, channels, locations and scopes of a record are given texts, the table of statistics is a list of rows and features; conversions of strings
  and names of the platform in wide characters are left out.
- `stream()` of a helper whose record was refused (`include/ing/logging.hpp:402`)
  reads a pump that was never constructed; every caller in the repository tests the
  helper first.
- `source_location`, the annotations and the build, which have no behaviour at
  run time; the feature macros appear as the set `Builds` and as the constants
  `Platforms` and `Orders`.
- Swapping loggers, and the generator alternative of `thread_specific`, which the
  repository does not use.

## 7. Plan

Done so far, in this order: registry, its abstract board and its proofs; the
spinlock and its proofs; the life of a timer and its proofs; strings; thread
names and their test; logging; records; colour stripping; `jmain`.

Then, over these: the redirection in `format` and the destructors of the base
classes with their proofs; exceptions out of log statements; the global logger;
severities and formatters; the count of a string as an `int`; `NameBoard` and the
refinement of it.

Then the proofs: strings, thread names, logging, records, `jmain`,
the lost wakeup of the registry as the steps by which it comes about, and the formatters
with the scan turn by turn.

Last, with their proofs: the cut of a timer's name for the handler, thread names without
an assumption about the calls and with the rehash of the map, what an earlier
configuration leaves to a call that throws, and the newlines in front of scopes.

Next: swap of loggers and the generator in `LogRecords`.
