# A formal model of cocpp

cocpp is a C++20 library of stackful coroutines. Coroutines run on several
threads ("envs"), are moved on by cooperative and by signal-driven switches,
and synchronise through mutexes, condition variables and channels of their own.
This directory holds TLA+ modules translated from the code under `src/`, the
TLC configurations that check them, and proofs for TLAPS. `PROJECT.json` lists
runs, mutants, hazards and findings, and names for every definition the lines
it stands for.

## 1. The system

| component | state | operations | who it talks to |
|---|---|---|---|
| `co_ctx`, a coroutine (`core/co_ctx.cpp`) | state (suspended, running, finished), wait flag with the set of resources waited for, priority, destroy lock, result | `real_entry`, `set_priority`, `enter_`/`leave_wait_resource_state` | tells its env about priorities and wake-ups; publishes `finished` |
| `co_env`, a thread that runs coroutines (`core/co_env.cpp`) | a list per priority, `min_priority__`, current coroutine, state, `schedule_lock__` with a count, `cv_sleep__` | `add_ctx`, `schedule_switch`, `wait_ctx`, `wake_up`, `stop_schedule`, `take_*_movable_ctx` | called by its own coroutines, by other threads, by the monitor |
| `co_manager` (`core/co_manager.cpp`) | `normal_set`, `expired_set`, `clean_up__`, timer queue | `get_best_env__`, `create_env`, monitor tasks, cleaner, clean-up | three background threads; creates, stops and deletes envs |
| handle `co` (`co/co.cpp`) | the coroutine it stands for | create, `wait`, `join`, `detach` | manager and env |
| `co_mutex`, `co_recursive_mutex`, `co_shared_mutex` (`sync/`) | owner(s), queue, spin lock | `lock`, `try_lock`, `unlock`, `*_shared` | wait flags of coroutines |
| `co_condition_variable` | list of waiters, spin lock | `wait`, `wait_until`, `notify_*` | wait flags; a mutex |
| semaphore, latch, wait group, barrier | a counter, a mutex, condition variables | acquire/release, count down, wait, arrive | mutex, condition variable |
| `co_chan` (`event/co_chan.h`) | queue, closed, mutex, two condition variables | `push`, `pop`, `close` | mutex, condition variable |
| `co_pipeline` | stages that are coroutines joined by channels | source, map, filter, reduce, take, skip, fork, group | channels |
| `co_timer` (`core/co_timer.cpp`) | status, expiry, callback | `start`, `stop`, `reset`, `run` | the manager's timer queue and thread |
| io wrappers | a descriptor | read, write, accept, ... | system calls, `yield` |

What is hard here: the scheduler reads wait flags that are set under many
different locks; `schedule_lock__` is released to sleep and around switches;
locks are released in the middle of an operation; the monitor and the users of
an env decide about it without holding anything of it; one `notify_one` per
value or per slot; clean-up while everything is running. `PROJECT.json`
(`hazards`) lists each of these at its line.

What makes each component correct:

* mutexes: exclusion, no lost wake-up, direct hand-over in order, every
  blocking `lock` returns;
* channel: results tell the truth, order, capacity, enough wake-ups, `close`
  releases everybody;
* pipeline: what comes out is what the stages mean, in every interleaving, and
  every stage ends, early or late;
* env: never asleep while a coroutine can run, highest priority first, lists
  that neither lose nor double a coroutine, joins that see a finished and
  existing coroutine, nothing destroyed while in use, a stop that is obeyed;
* timers: the queue holds exactly what runs, one start fires once, a wait ends
  for its own reason and ends at all;
* semaphore, latch, wait group, barrier: nobody sleeps on what has come, and
  every call returns that can;
* manager: consistent env sets, nothing stopped that should stay, everything
  that has ended deleted, clean-up that comes to an end.

## 2. Modules

| module | models | checked by |
|---|---|---|
| `ExclusiveLock` | what a mutex promises: one holder, granted to who asks | refinement in `CoMutex` |
| `CoMutex` | `co_mutex` | as part of `CoRecursiveMutex` |
| `CoRecursiveMutex` (EXTENDS `CoMutex`) | `co_recursive_mutex`: the count and the nested calls | `RecursiveMutex.cfg` |
| `ReadWriteLock` | what a read-write lock promises: readers together or a writer alone, handed on by its last holder | refinement in `CoSharedMutex` |
| `CoSharedMutex` | `co_shared_mutex` | `SharedMutex.cfg`, `SharedMutexMixed.cfg` |
| `CoChan` (`MCCoChan`) | `co_chan` with the waits of `co_condition_variable` | `Chan.cfg` |
| `CoSyncTools` | `co_counting_semaphore`, `co_latch`, `co_wait_group`, `co_barrier`, the timed waits of `co_condition_variable` | `SyncTools.cfg` |
| `CoPipeline` (`MCCoPipeline`) | `co_pipeline`, stages over channels | `Pipeline.cfg` |
| `CoEnv` (`MCCoEnv`) | `co_env`, `co_ctx`, joins and handles on one env | `EnvSafety.cfg`, `EnvLiveness.cfg` |
| `CoManager` (`MCCoManager`) | `co_manager` with several envs | `Manager.cfg`, `ManagerSteals.cfg` |
| `CoTimer` (`MCCoTimer`) | `co_timer`, the timer queue and thread, `sleep_until`, the timed `wait_ctx` | `Timer.cfg`, `TimerSameInstant.cfg` |
| `Queues` | what `std::list::remove` and the like leave of a queue (`Only`), `notify_one`, a sum | with the modules that use it |
| `QueueLemmas` | lemmas about queues, lists of waiters and sequences, for all the proofs | TLAPS |
| `CoMutexProofs` | proofs about `CoMutex` and `CoRecursiveMutex` | TLAPS |
| `CoManagerProofs` | proofs about `CoManager` and `CoTimer`, the two halves of `co_manager` | TLAPS |
| `CoSharedMutexProofs`, `CoChanProofs`, `CoSyncToolsProofs`, `CoPipelineProofs`, `CoEnvProofs` | proofs about the module of that name | TLAPS |

The MC modules add only what a configuration cannot express (a set with a
negative number or of records, symmetry, where a run starts). The definitions called "Mutant of X" are
deliberately wrong versions of X; each property is shown to fail with one.

### CoMutex

`owner`, `waitDeque` and `spinlock` are the fields; `waiting` is the set of
coroutines with `CO_CTX_FLAG_WAITING`; `pc` says where a coroutine is in
`lock` or `unlock`, and whether it holds the spin lock there (`Spun`). A step
touches shared state at one point: taking the spin lock, one statement group
under it, or the change of a wait flag, which the scheduler reads without the
spin lock. `LockSpin`, `LockTake`, `LockYield` are the 10ms spin (lines 22-53),
`LockEnqueue` to `LockGranted` the queue (55-69), the `Unlock...` actions
`unlock`. Anybody may call `unlock`, also without owning the mutex. That
`LockYield` or `LockEnqueue` is chosen freely stands for the deadline. A thread
that spins on the spin lock is one that waits in `LockSpin`.

### CoRecursiveMutex

The code is that of `co_mutex` with `lock_count__`, so the module extends
`CoMutex`, says of each action what it does to the count, and adds the two
calls that only change it: `LockAgain` and `UnlockOnce`, each one section under
the spin lock. `MaxDepth` bounds the nesting; the behaviours that never nest are
those of `co_mutex`, which needs no run of its own. The properties of `CoMutex`
are checked here, `Implements` among them: a nested call is a stutter of
`ExclusiveLock`.

### CoSharedMutex

As CoMutex, but with `owners`, `lockType` and typed queue entries. What
`wake_up_waiters__` does is in `WakeUpWaiters`: `std::remove_if` moves the
elements that stay, the writers, to the front and leaves the others where they
were, and the code then uses the rest of the deque. Sections under the spin
lock are one step, except for the wait flag. `Implements` maps it to
`ReadWriteLock`: the owners hold the lock as `lockType` says, also while they
still sleep, and whoever is inside a blocking call without owning the lock asks
for it; spinning, queueing and sleeping are stutters.

### CoChan

Every operation runs under the channel's `co_mutex`, so the code from taking it
to leaving it is one step; a condition wait ends the step. `cvFull` and
`cvEmpty` are the waiters: a coroutine sleeps while it is in one of them,
because the list and the flag change together under `cv_lock__`. Taking a
notified coroutine's predicate again is `PushResume`, `PushTaken` or `Pop`. The
histories `accepted`, `rejected` and `popped` record what the calls returned.

### CoSyncTools

Four tools of one shape, counters under a `co_mutex` and coroutines in the list
of a condition variable, as in CoChan; `Init` chooses the tool. `Acquire`,
`WaitReached` and `WaitBarrier` are the call and its next look after a wait;
`Pass` is the barrier's, which does not look again. `Release` is the loop of
`ReleaseOne`, between whose rounds the mutex is free. An exception is a step
that leaves the tool alone, an assertion a guard on the caller (`Done`).

A fifth choice is the condition variable itself with `wait_until` (`wait_for`
is the same): `WaitUntil` starts the timer, `Enlist` is the section under
`cv_lock__`, with the mutex held in between; `Expire` is the timer thread,
`TimeOut` the callback, in a coroutine of its own, which may run before its
coroutine is in the list or long after its wait (`due` tells by call).

### CoPipeline

The pipeline is chosen in `Init` from `Pipes`, a sequence of stages. `Source`,
`<<i, 0>>` and `<<i, w>>` are the coroutines of the source, of stage i and of
worker w of a fork there; `data[i]` and `closed` are the channels. A loop of a
stage is `Pop` (and what the stage does with the item), then `Push`; `PopEnd`
and `PushRefused` are the ways out, which differ from stage to stage, `Close`
and `CloseIn` the end. An item is the sequence of source items it was made
from, so that the result can be compared with `Wanted`, the meaning of the
stages as functions on sequences. A push or pop is one step, with a guard where
it would wait: one pusher, values that come out and `close` that releases are
what `CoChan` shows. The user reads the last channel and may close it. `popped[i]`
is a history: what has come out of channel i, for the user what he has read.

### CoEnv

One env and its thread. `pc` is where the thread is: in the code of `on`, in
`schedule_switch` (`switch`, with `schedule_lock__` held), after it has let go
of the lock because nothing can run (`nothing`), or in the loop of the idle
coroutine (`idle`, `test`), asleep, or at its end. Searching the lists,
rotating, and making the switch is one step: it happens under
`schedule_lock__`, `mu_normal_ctx__` and `mu_min_priority__`. Calls of other
threads are split where the env's thread may run in between (`calls`):
`add_ctx` into the test, the insertion, `min_priority__`, the state, the
wake-up; `leave_wait_resource_state` into the flag, `min_priority__` and the
wake-up. `stop_schedule` is one step: the state and the wake-up both need
`schedule_lock__`, and nothing that comes between them could tell.
`cv_sleep__` may wake spuriously. Two of its properties that sound alike are
different: `ListedOnce` is about the lists and where their search starts,
`HighestFirst` about what the thread then does.

### CoManager

Envs come and go (`life`), with the state, flags and sets of the code. Sections
under `normal_lock` are one step, except that the monitor keeps it from
collecting redundant envs to stopping them, because the envs themselves and
`add_ctx` do not need it and go on. `create_env` tests `clean_up__` and starts
the thread without the lock (`CreateEnv`) and takes it only to insert the env
(`InsertEnv`), which the manager's own `create_env` does under the lock it has
(`NewEnv`). `add_ctx` takes no lock that would keep the env from being stopped:
`AddCtx` is its two tests of the state, `MoveCtxToHere` the insertion, whatever
has become of the env, and `MarkBusy` its last line, which may come when the env
has run the coroutine already (`arrived`: between the last two). The history
`late` is who was inserted after the env's thread had ended. When the monitor
moves a coroutine, that is one step: whoever stops an env has `normal_lock`,
which the monitor keeps meanwhile. The test at the head of the monitor's loop
comes with the last task of a tick. Handles are left out. `Counts` is what
`schedule_lock__.count()` can be when the monitor asks.

### CoTimer

Locks are what this component is about, so they are all there: the mutex of
each timer, that of the queue, that of the event of the target, `finish_lock__`
and the `schedule_lock__` of each env. An actor (the timer thread, a coroutine
that waits, a coroutine made for an expired timer, the target at its end, a
user) has a place wherever it keeps locks and wants another one; `Held` and
`Needs` say which, and a step is taken when what it needs is free. A search in
the queue needs the mutexes of all timers in it, because `operator<` calls
`expire_time()`. `queue` is a set ordered by expiry: `InsertTimer` and
`RemoveTimer` go by the instant, not by the timer. The timer thread is
`timer_routine__` line by line: it does not look again whether the queue is
empty after `wait` (`IdleOver`, `NoFront`), creates a coroutine for an expired
timer in two steps (`CreateRun`, `WakeRunEnv`), and then stops or resets it. A
timed `wait_ctx` is ended by its target (`EndStop` to `EndWake`) or by its timer
(`RunUnsub` to `RunWake`); `waitFor` is the set of resources of a coroutine,
which lets a late callback be told from the right one. `Coincide` says whether
two timers may expire at the same instant, which the run for the other
properties excludes. `MCInit` chooses who takes part.

## 3. Runs

`pass` runs hold; `violation` runs check one statement found in the
repository, and fail.

| run | instance | result |
|---|---|---|
| `mutex` | 3 coroutines, 2 levels of nesting | a spinner, a head and a tail of the queue exist at once; 416 states |
| `shared_mutex` | 1 writer that also reads, 2 readers | correct, and an implementation of `ReadWriteLock`, while at most one writer exists: it queues behind readers, readers behind it, but never a writer behind a reader |
| `shared_mutex_mixed` | 2 writers, 2 readers | `WriterExcludes` fails |
| `chan` | 2 pushers with 2 values each, 2 poppers, sizes -1, 0, 1, 2 | newcomers overtake woken coroutines on either side; 6346 states |
| `sync_tools` | 3 coroutines, 3 calls each, counts 1 to 3, amounts 1 and 2 | also a release in the middle of the maximum, wrong amounts, drops, early and late timers; 502 106 states |
| `pipeline` | 9 pipelines, 4 items, sizes -1, 0, 1 | also with early ends and the user closing; 152654 states |
| `env_safety` | 2 coroutines, 2 priorities, up to symmetry | 849927 states |
| `env_liveness` | 2 coroutines, 1 priority | 10133 states |
| `manager` | 2 envs, up to 2 coroutines, at least and at most 1 env wanted | 138934 states |
| `manager_steals` | 2 envs, 2 coroutines | `IdleSteals` fails |
| `timer` | a sleeper, a coroutine that sleeps or joins, their target, a user's timer; expired timers run on the sleeper's env or elsewhere | all of them, or one of them and the user, or two waits of one; 263 434 states |
| `timer_same_instant` | 2 sleepers | `SleepersWake` fails |

Bounds. `MaxPush` bounds the values per pusher: two are enough to get out of
order and to fill every channel. `Items` is 4: enough for a `take` that leaves
something, a `group` with a remainder and a source that blocks behind it. `Waiters` are the coroutines that wait for
something outside the env, the others only join; it is empty in the liveness
run to keep it small. The run of the manager starts (`MCInit`) with nothing and one
coroutine to come; with two coroutines and two envs, one of them busy, for what
takes several (an env among others, the forced switch, a redundant env beside a
busy one); or with both when clean-up has begun and an env is still to be
inserted. From nothing, two of each take TLC too long; the safety properties are
proved for any number. `MaxDepth` is 2: with 3 an owner could go on for ever
between two nested locks, and no fairness of its calls would make it give up.
`MaxCalls` is 3: enough for a generation of the barrier, a next one and an old
token, and for a semaphore that is full, empty and full again. `Waits`,
`Starts` and `MaxTime` bound the waits of a coroutine, the starts of the user's
timer and the clock: a late callback needs two waits, a start after a stop or an
expiry two starts, and one tick tells expired from not expired. `Flags` bounds the sets of flags a user gives to an env.
Every model is finite otherwise; nothing is cut off by a state constraint. Two
coroutines suffice for a race between a waker, a sleeper and a third party,
since other threads are not counted among them; the mutex needs three for a
queue of two behind an owner. `CHECK_DEADLOCK FALSE` is given for CoEnv,
CoManager, CoPipeline, CoSyncTools and CoTimer, which end: an env that is done, a
process that has cleaned up, a pipeline read to its end, callers whose calls are
used up. It
is not given for the others: their callers can always call again.

Fairness. A thread that can take a step takes it (weak fairness: the operating
system). A coroutine that can run is run again and again, which CoEnv shows
for one env (`EverybodyRuns`), so the other modules may assume it. A contender
for a spin lock or a `co_mutex` gets it now and then: strong fairness, because
it is retaken by others in between; for `co_mutex` this is `LockReturns`. The
10ms deadline passes (strong fairness of taking or queueing). Who holds a lock
lets go of it, and who runs yields some time (on each env, whatever the others
do): an assumption about the callers.
Nobody has to push, to close, to add or to stop, but poppers keep popping. In a
pipeline every coroutine that can run does (weak fairness), and the user reads on.
The owner of a recursive mutex unlocks as often as it has locked, one day. In
CoSyncTools whoever is inside a call goes on when it is awake, and timers
expire. In CoTimer everybody who can go on does in the end, and time passes;
since all of them have finitely much to do, one weak fairness condition over
all of these steps says that (`GoesOn`). It does not say that somebody gets a
lock that others keep for each other: that is what `Stuck` is about.

What the checks show, beyond the violations below: the queue protocol shared by
the mutexes loses no wake-up although flag and spin lock change in two steps;
one `notify_one` per value and slot is enough in a channel; a pipeline delivers
what its stages mean, and the only coroutine that may stay for ever is a source
on a bounded channel whose first stage (func, filter, skip, fork) has stopped
early without closing it (`SourceStranded`; the code promises nothing there); `min_priority__`
never hides a coroutine once its waker has updated it; the env's test before
sleeping and the wake-up exclude each other; `wait_ctx` may rely on a single
`schedule_switch`; the monitor stops no more envs than it should although it
decides first and acts later; an env whose thread has ended is deleted, and
clean-up ends every env in `normal_set` or inserted before the cleaner's end,
whatever the cleaner and the monitor are doing; a timer that is started,
stopped, expired and reset by several threads is in the queue exactly while it
runs and fires once for a start, and a callback that comes late ends no other
wait; a semaphore's one `notify_one` per unit is enough on either side; a
barrier lets nobody through before the last has come.

Some of these hold with an exception, which is then part of the property and was
found necessary by leaving it out: a timed wait ends unless actors keep locks
from each other in a circle (`Stuck`: timer and event, timer and queue, queue
and schedule lock), the timer thread takes the first of an empty queue, or
clean-up has begun (`EveryWaitEnds`); a call on a counting tool returns unless
somebody has dropped out of the barrier, and a `wait_until` unless its timer has
expired before it was in the list (`EverybodyLeaves`); a pusher on a fixed
channel gets in unless pushes never stop (`CallsReturn`: a woken pusher that
finds the room taken queues at the end again, so an endless stream of newcomers
may pass it over for ever); an env whose thread has ended is empty but for
coroutines whose `add_ctx` had tested it before it was stopped (`EnvSets`, `late`);
clean-up ends every env but one inserted after the cleaner's end, by a
`create_env` that had tested `clean_up__` before it was set (`CleanUpEnds`). What must never happen
according to the code and yet does, without a place among the runs, is noted at
the hazards: the assertion of `move_ctx_to_here` (`co_env.cpp:83`), which `AddCtx`
and `MoveCtxToHere` do not keep; background tasks that end before the threads of
the envs (`co_manager.cpp:215`, against the comment of line 410); a timer thread
that misses clean-up (`co_manager.cpp:357`); a synchronous push that finds the
channel taken and waits for `close` (`co_chan.h:213`); and `timeout__`, which is
never reset (`co_condition_variable.h:31`).

## 4. Disagreements with the code's own words

1. `co_shared_mutex.cpp:209`: with a writer queued behind a reader,
   `wake_up_waiters__` wakes the wrong coroutines and makes a writer an owner
   in shared mode (`shared_mutex_mixed`).
2. `co_manager.cpp:463` and `287`: stealing and redistribution ask for a count
   of zero while they hold the lock that is counted, so they never move a
   coroutine (`manager_steals`). The counterexample gives both coroutines of
   the busy env their turns and the monitor its ticks.
3. `co_timer.cpp:136`: two timers that expire at the same instant are one
   element of the queue, so one of two coroutines that sleep until then is never
   woken (`timer_same_instant`); the run passes when the instants differ.

## 5. Proofs

Every safety property that a passing run checks is proved for all values of the
constants. Each proof has the same shape: an inductive invariant, a conjunction of named parts, defined in the module it is
about and checked by its run; one lemma per action; the theorem; and the
properties as consequences. An action property is proved from the invariant,
action by action. What follows says for each module what the parts are for.

The assumptions are those the modules state about their constants, and nothing
else, but for theorems with a hypothesis of their own (`CoSharedMutex`,
`CoTimer`), which is there because the code needs it. Sets that are counted are
assumed to be finite (coroutines in `CoChan` and `CoSyncTools`, envs in
`CoManager`, priorities in `CoEnv`).

### Mutexes (`CoMutexProofs`)

For any set `Ctx` and from `NoCtx \notin Ctx` only:

* `Invariance`: `SafeSpec => []IndInv`, with
  `IndInv == TypeOK /\ SpinLockInv /\ OwnerInv /\ DequeInv /\ WaitingInv`.
  `SpinLockInv`: who is in a section under the spin lock is who holds it, so
  there is one. `OwnerInv`: an owner is inside, or still in the queueing part
  of `lock` and out of the queue already. `DequeInv`: the queue has no
  duplicates, holds who queues and is not the owner, and is empty while the
  mutex is free. `WaitingInv`: a flag is set only while its coroutine is about
  to sleep or asleep, and an owner with a set flag is about to be woken.
* `Exclusion`, `WakeupsArrive`, `TypeCorrect` follow from it. Exclusion alone
  is not inductive: it needs that the coroutine taken from the queue is not
  inside, which is `DequeInv`.
* `HandsOffInOrder`: an action property, case by case over the actions.
* `Implementation`: every step of `CoMutex` is a step of `ExclusiveLock` or
  leaves its variables alone; the askers are those inside `lock` who do not own
  the mutex. Handing over to somebody queued is `HandOver`, and `DequeInv`
  says that the head of the queue is an asker.

For any `MaxDepth \in Nat \ {0}` besides, about `CoRecursiveMutex`:

* `RefinesMutex`: `RSafeSpec => SafeSpec`. A step of the recursive mutex is one
  of `CoMutex` or, when only the count changes, a stutter (`NextRefines`). So
  whatever is proved of `co_mutex` holds: `RecursiveExclusion`,
  `RecursiveInvariance`, `RecursiveHandOff`, `RecursiveImplementation`.
* `CountIsRight`: `RSafeSpec => []Counted`. `Counted` is inductive together with
  `IndInv`, from which it needs that only an owner is inside and that who is
  taken from the queue is a coroutine; its last part, 1 for an owner who is not
  inside, is what makes the hand-over leave 1.

### Read-write lock (`CoSharedMutexProofs`)

`co_shared_mutex` excludes only while no writer can be queued behind a reader,
as the run `shared_mutex_mixed` shows; so the theorems have the hypothesis
`NotMixed`: nobody reads, or one coroutine at most writes. The readers may be
any number, and the one writer may be a reader too.

* `SharedInvariance`: `SharedInv` is inductive under `NotMixed`. `OwnersInv`:
  all owners own the lock as they asked for it and as `lockType` says, a writer
  alone. `DequeInv`: the queue holds, as it asked, whoever queues and does not
  own the lock; it is empty when there is no owner to look at it; and while
  readers own the lock only writers are in it, since readers join. Under
  `NotMixed` the queue is then of one kind (`OneKindQueued`: a queued writer would
  be the only one there is, and own the lock), and of one kind what
  `std::remove_if` leaves behind is right.
* `SharedExclusion`, `SharedWakeupsArrive` and `SharedHeadFollows` follow.
* `SharedImplementation`: every step of `CoSharedMutex` is a step of
  `ReadWriteLock` or none. That a hand-over is one of the lock it implements, to
  one writer or to readers who asked, is `OneKindQueued` again. The abstract lock
  makes no promise of fairness; `ReadersGetIn`, which does, is model-checked.

### Channel (`CoChanProofs`)

For any finite disjoint sets of pushers and poppers, any set `Sizes` of integers
and any `MaxPush`:

* `ChanInvariance`: `ChanInv == ContentInv /\ ListsInv /\ EnoughAwake`.
  `ContentInv == TypeOK /\ Numbered /\ InOrder /\ PushTells` is what the channel
  holds; `TypeOK` has the capacity: a woken pusher finds room or looks again.
  `Numbered` is the strengthening: the value of a push that is under way is in
  nobody's hands yet, unless the push waits for it to be taken. So a value that
  goes in now is newer than all of its pusher's in the channel or popped
  (`InOrder`), and one that is turned away is not among them (`PushTells`).
  `pop` moves a value from the front of `data` to the end of `popped`, which
  leaves both together as they were (`ConcatMove`).
* `ChanEnoughAwake` counts. Who has been woken and not gone on is `Woken`: inside
  the wait and not in its list. A value more wakes one more if anybody sleeps
  (`NotifyWakesOne`), who goes on takes one of both (`OneGoesOn`), and who falls
  asleep finds nothing there. `ListsInv` makes the count right: nobody is in a
  list twice, and who is in one is inside the wait that the list is for.
* `ChanInOrder` and `ChanPushTells` follow.

### Counting tools and timed waits (`CoSyncToolsProofs`)

For any finite set of coroutines, any sizes and amounts, any number of calls:

* `ToolsInvariance`: `ToolsInv == TypeOK /\ ListsInv /\ PlacesInv /\ EnoughAwake`.
  `PlacesInv` keeps the five tools apart: where a coroutine is tells the tool,
  and only the waits of a condition variable leave timers behind. `ListsInv` is
  as in the channel, and is all there is to say of the condition variable:
  late and early callbacks list nobody twice.
* `ToolsEnoughAwake`. The semaphore counts as the channel does, on either side;
  a latch or wait group that is reached has emptied its list; at the barrier no
  token is of a later generation, so the last to come makes every token an old
  one at the moment in which nobody sleeps.
* `SyncInvariance`: `SyncInv == ToolsInv /\ BarrierCounts`. The equation of
  `BarrierCounts`, that the counters of the barrier differ by what has arrived and
  not waited, is inductive with `ToolsInv`: an arrival adds to the sum what it
  takes from `expected`, a wait takes its amount from the sum and from `count`,
  and the last wait of a generation starts the next with nobody in the sum. The
  bounds of `count` follow from the equation, since the sum is never negative.

`StepInv` says once what a step must keep; the lemma of an action shows that it
is such a step, and then only what it does to `EnoughAwake`.

### Env (`CoEnvProofs`)

For any coroutines, any finite set of priorities with 0 in it:

* `EnvInvariance`: `EnvInv` is inductive. `ListsInv` is about lists as sets and
  as sequences without duplicates; `ListedOnce`, which counts positions, follows
  from it. `MinInv`: `min_priority__` hides nobody whose waker has updated it;
  while the waker has not, `calls` says so. `NewInv`: who is being added is in no
  list. `ThreadInv` says on whose stack the thread is, by where it is. `JoinsInv`:
  who joins is asleep until its target has finished, and the handle it uses keeps
  the target from being destroyed. `NoMissedWakeup` is inductive together with
  them: the thread falls asleep only when nobody can run, and whoever makes a
  coroutine runnable after that still has to wake the env up.
* `EnvNoMissedWakeup`, `EnvListsOnce`, `EnvJoinGetsResult` follow, and the action
  property `EnvHighestFirst`: the search starts at or below the priority of
  everybody it should see, and takes the first it finds.

### Pipeline (`CoPipelineProofs`)

For any set of pipelines built of the stages there are, any number of items, any
items dropped and any bounds of the source (a fork has a worker and a group a
size, which the code needs to pass anything on):

* `PipelineTypes`: types, and `AtLabels`: where a coroutine can be.
* `PipelineInvariant`: `PipelineInv == TypeOK /\ AtLabels /\ (OrderFree => Flow)`
  is inductive. `After[i]` is what the pipeline says goes through channel i, a
  recursive function of the pipeline alone; `Flow` says how far each stage has
  got with it. `Follows`: what a stage has sent, with the item in its hand and
  the batch it collects, is exactly what `Apply` makes of what it has popped.
  `Forwards` is the same for a fork: what its workers have sent or hold is what
  they have popped, each item once. From these and `Apply` being monotonic
  (`ApplyPrefix`) whatever is sent is a part of `After[i]`; it is all of it when
  the stage is through and nobody behind it has stopped reading (`Completes`),
  and a channel is closed only by a stage that is through or by whoever reads it
  (`Closes`). A step at one stage leaves the others' part of `Flow` alone (`FlowStep`), so each lemma
  is about one kind of stage and one action.
* Behind a fork there is no order to compare. There `IsPart` and `IsWhole` go by
  the contents of items, which no two have in common (`Apart`); that is enough
  for func, filter, reduce and another fork, which is what `OrderFree` asks.
* `AlwaysAsWritten`: `AsWritten` is what `Flow` says of the last channel.

That `After` and the operators on sequences satisfy their recursive definitions
is proved by induction over the channel or the length (`AfterIs`,
`FlattenAppend`, `OnlyAppend`), with one lemma per kind of stage on what one item
more does (`TakeOneMore`, `SkipOneMore`, `GroupOneMore`).

### Manager (`CoManagerProofs`, first part)

For any finite set of envs, any coroutines, any `BaseEnv` and `MaxEnv`:

* `ManagerInvariance`: `ManagerInv == EnvSets /\ OverInv /\ RedundantInv`.
  `EnvSets` needs `OverInv`: an env whose thread has ended is `destroying` or
  converted, so neither the choice of an env nor the monitor picks it, and who
  gets into it all the same was `tested` before: `MoveCtxToHere` is the only step
  that does so, and counts it as `late`. The proof takes what `EnvSets` and `OverInv`
  say of single envs together (`DrainedInv`). `RedundantInv`: what the monitor has collected may be stopped and
  leaves enough without it, and this stays so while users create envs and
  coroutines and envs change without `normal_lock`; what may happen meanwhile
  only adds envs that take coroutines, but for those collected themselves.
* `ManagerStopsSparingly`: the action property follows, since nobody else stops
  an env while the monitor is about to (`NobodyElseStops`).

### Timers (`CoManagerProofs`, second part)

For any coroutines that wait, any number of waits, starts and ticks:

* `TimerInvariance`: `TimerInv` is inductive. `QueueInv` relates the queue to the
  timers that run, by who is how far in starting or stopping them; `FreshInv`:
  what has not begun has left no trace; `WaitInv` and `PendingInv`: as long as a
  timer, or the coroutine made for it, may still end a wait, that wait has not
  ended; `SubsInv`: the target tells those who are there; `FireInv`: a timer that
  has fired is on its way out of the queue. Its proof uses the locks only through
  their exclusion (`MutexHeld`): who takes a mutex is alone in the sections under
  it (`ThreadAlone`, `UserAlone`, `ClientAlone`, `TargetAlone`). `DistinctInv` is
  about the case `Coincide = FALSE` and says nothing in the other.
* `TimerWaitsEndInTime` and `TimerFiresOnce` are action properties that hold
  whether or not timers expire at the same instant.
* `TimerQueue`: `QueueHoldsRunning`, provided that no two do; otherwise
  `timer_same_instant` refutes it.

### Lemmas (`QueueLemmas`)

What `Head`, `Tail`, `Append`, `\o` and `NotifyOne` do to the members of a queue
and to their being distinct, and the counting of `Woken`. `Only`, the recursive
function for `remove`, is shown to keep exactly the members in its set by
induction over the prefix it has looked at. The provers cannot use an induction
theorem whose predicate is a parameter, so `SetInduction` is stated for a set
of numbers, and proved from the least element of its complement (`LeastNatural`).
`Sum`, a fold over a finite set, is treated alike: it is defined by a recursion
that takes some element out at every step, and induction over the number of
elements shows that it does not matter which (`SumIsStep`), whence `SumRemove`
and `SumSame`. For the pipeline there are the lemmas about prefixes, about one
element more for `Only` and `FlattenSeq`, and about quotients. The models that are proved about use `Only` instead of `SelectSeq` and `Remove`,
whose filter is an operator parameter.

### Only model-checked

Liveness, the fairness part of `Implements` included: `ENABLED` and fairness are
not handled by TLAPS here. These are `LockReturns`, `ReadersGetIn`,
`ValuesComeOut`, `CallsReturn`, `EverybodyRuns`, `JoinsReturn`, `Stops`,
`EndedDeleted`, `CleanUpEnds`, `PipelineEnds`, `EveryWaitEnds` and
`EverybodyLeaves`.

## 6. Not modelled

Shared stacks and stack contents, registers, allocation; `schedule_in_this_thread`;
`bind_env` and shared-stack coroutines (which are never moved); the setters of
the limits; local storage, exceptions passed through results; `co_call_once`, one
compare-and-swap; the loops of the timed mutexes, which only call `try_lock`; io
wrappers, which keep no state; locks inside the env's own data structures, whose
sections are atomic steps.

Of the timers: what a user's callback does, a callback that is exchanged while
its timer runs, spurious wake-ups of the timer thread, the end of the envs during
clean-up (CoManager has it), and the lifetime of the target of a timed
`wait_ctx`, whose event a late callback still uses. A coroutine waits for one
resource at a time except in CoTimer, where the set is what tells a late
callback from the right one. Of the condition variable: what `wait_until`
returns, and that it keeps the schedule lock of its env.

## 7. Plan

1. The composition of `CoTimer` with `CoEnv`: a timer's coroutine and its waiter
   on one env that sleeps, wakes and stops.
2. Result and schedule lock of `wait_until`.
