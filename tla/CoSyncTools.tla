---------------------------- MODULE CoSyncTools ----------------------------
(***************************************************************************)
(* The tools that count under a co_mutex and let coroutines wait on a       *)
(* condition variable: co_counting_semaphore (and with it the binary one),  *)
(* co_latch, co_wait_group and co_barrier; and the timed waits of a         *)
(* co_condition_variable itself.  The start chooses one of them.            *)
(*                                                                          *)
(* As in CoChan a step goes from taking the mutex to leaving it or to a     *)
(* wait, and a coroutine sleeps exactly while it is in a list of waiters.   *)
(* Where one call takes the mutex several times, the other coroutines may   *)
(* come in between.                                                         *)
(***************************************************************************)
EXTENDS Integers, Sequences, FiniteSets, SequencesExt, Queues

CONSTANTS Ctx,      \* coroutines
          Sizes,    \* LeastMaxValue; expected, or count, at the start
          Amounts,  \* the n of release, count_down and arrive
          MaxCalls  \* bound: how many calls each coroutine makes

ASSUME SyncAssumption ==
    /\ IsFiniteSet(Ctx)
    /\ Sizes \subseteq Nat \ {0}
    /\ Amounts \subseteq Nat \ {0}
    /\ MaxCalls \in Nat

VARIABLES tool,
          size,        \* LeastMaxValue, count__ of the wait group, max__
          count,       \* desired__, expect__, done__, or count__ of the barrier
          expected,    \* expected__ of the barrier
          generation,  \* generation__ of the barrier
          drops,       \* arrivals of this generation without a token
          cv,          \* the waiters of cv_empty__ or cond__
          cvFull,      \* the waiters of cv_full__
          pc,          \* what each coroutine is inside of
          n,           \* what it has still to release, n__ of its token
          token,       \* generation__ of its token
          calls,       \* how many calls it has made
          timer,       \* the timer of its wait_until
          due,         \* the expired timers, by call, whose callback has not run
          timeout      \* timeout__

barrierVars == <<expected, generation, drops, token>>
timedVars   == <<timer, due, timeout>>
countVars   == <<tool, size, count, barrierVars, cvFull, n>>
vars == <<countVars, cv, pc, calls, timedVars>>

Tools == {"semaphore", "latch", "wait group", "barrier", "condition variable"}

Init ==
    /\ tool \in Tools
    /\ size \in Sizes
    /\ tool = "condition variable" => size = Min(Sizes)  \* it counts nothing
    /\ CASE tool = "semaphore"  -> count \in 0..size
         [] tool = "wait group" -> count = 0
         [] OTHER -> count = size
    /\ expected = size
    /\ generation = 0
    /\ drops = 0
    /\ cv = <<>> /\ cvFull = <<>>
    /\ pc = [c \in Ctx |-> "idle"]
    /\ n = [c \in Ctx |-> 0]
    /\ token = [c \in Ctx |-> 0]
    /\ calls = [c \in Ctx |-> 0]
    /\ timer = [c \in Ctx |-> "stopped"]
    /\ due = {}
    /\ timeout = FALSE

-----------------------------------------------------------------------------
Asleep(c) == Contains(cv, c) \/ Contains(cvFull, c)

Goto(c, to) == pc' = [pc EXCEPT ![c] = to]

Call(c, t) ==
    /\ tool = t
    /\ pc[c] = "idle"
    /\ calls[c] < MaxCalls
    /\ calls' = [calls EXCEPT ![c] = @ + 1]
    /\ UNCHANGED <<tool, size>>
    /\ t # "condition variable" => UNCHANGED timedVars

(* The mutex is taken for the first time, or again after a wait. *)
Resume(c, at) ==
    /\ pc[c] = at
    /\ ~Asleep(c)
    /\ UNCHANGED <<tool, size, calls>>
    /\ at # "timed" => UNCHANGED timedVars

Wait(c, at) ==
    /\ cv' = Append(cv, c)
    /\ Goto(c, at)
    /\ UNCHANGED <<count, cvFull>>

-----------------------------------------------------------------------------
(* co_counting_semaphore *)

TakeOne(c) ==
    /\ count' = count - 1
    /\ cvFull' = NotifyOne(cvFull)
    /\ Goto(c, "idle")
    /\ UNCHANGED cv

Acquire(c) ==
    /\ Call(c, "semaphore") \/ Resume(c, "acquire")
    /\ IF count = 0 THEN Wait(c, "acquire") ELSE TakeOne(c)
    /\ UNCHANGED <<barrierVars, n>>

(* try_acquire that succeeds; one that fails changes nothing, and           *)
(* try_acquire_until tries until one succeeds or the time is over.          *)
TryAcquire(c) ==
    /\ Call(c, "semaphore")
    /\ count > 0
    /\ TakeOne(c)
    /\ UNCHANGED <<barrierVars, n>>

Release(c) ==
    /\ Call(c, "semaphore")
    /\ \E m \in Amounts : n' = [n EXCEPT ![c] = m]
    /\ Goto(c, "release")
    /\ UNCHANGED <<count, barrierVars, cv, cvFull>>

(* release_one__: one round of the loop in release. *)
ReleaseOne(c) ==
    /\ Resume(c, "release")
    /\ IF count = size
       THEN /\ cvFull' = Append(cvFull, c)
            /\ UNCHANGED <<count, cv, pc, n>>
       ELSE /\ count' = count + 1
            /\ cv' = NotifyOne(cv)
            /\ n' = [n EXCEPT ![c] = @ - 1]
            /\ Goto(c, IF n[c] = 1 THEN "idle" ELSE "release")
            /\ UNCHANGED cvFull
    /\ UNCHANGED barrierVars

-----------------------------------------------------------------------------
(* co_latch *)

(* count_down, alone or as the first half of arrive_and_wait; it throws if  *)
(* there is less to count.                                                  *)
CountDown(c) ==
    /\ Call(c, "latch")
    /\ \E m \in Amounts :
          IF count < m
          THEN UNCHANGED <<count, cv, pc>>
          ELSE /\ count' = count - m
               /\ cv' = IF count' = 0 THEN <<>> ELSE cv
               /\ \E to \in {"idle", "wait"} : Goto(c, to)
    /\ UNCHANGED <<barrierVars, cvFull, n>>

(* Mutant of Done: one of those who wait is told. *)
DoneForOne(c) ==
    /\ Call(c, "wait group")
    /\ count < size
    /\ count' = count + 1
    /\ cv' = IF count' = size THEN NotifyOne(cv) ELSE cv
    /\ UNCHANGED <<barrierVars, cvFull, pc, n>>

(* co_wait_group: done, at most as often as its assertion allows. *)
Done(c) ==
    /\ Call(c, "wait group")
    /\ count < size
    /\ count' = count + 1
    /\ cv' = IF count' = size THEN <<>> ELSE cv
    /\ UNCHANGED <<barrierVars, cvFull, pc, n>>

Reached == IF tool = "latch" THEN count = 0 ELSE count = size

(* wait of a latch and of a wait group. *)
WaitReached(c) ==
    /\ Call(c, "latch") \/ Call(c, "wait group") \/ Resume(c, "wait")
    /\ IF Reached
       THEN Goto(c, "idle") /\ UNCHANGED <<count, cv, cvFull>>
       ELSE Wait(c, "wait")
    /\ UNCHANGED <<barrierVars, n>>

-----------------------------------------------------------------------------
(* co_barrier *)

(* arrive, and arrive_and_drop, which forgets the token; both throw if      *)
(* fewer are expected.                                                      *)
Arrive(c) ==
    /\ Call(c, "barrier")
    /\ \E m \in Amounts :
          /\ expected >= m
          /\ expected' = expected - m
          /\ n' = [n EXCEPT ![c] = m]
    /\ token' = [token EXCEPT ![c] = generation]
    /\ Goto(c, "arrived")
    /\ UNCHANGED <<count, generation, drops, cv, cvFull>>

ArriveAndDrop(c) ==
    /\ Call(c, "barrier")
    /\ expected >= 1
    /\ expected' = expected - 1
    /\ drops' = drops + 1
    /\ UNCHANGED <<count, generation, token, cv, cvFull, pc, n>>

(* Mutant of LastOne: what is expected is not reset. *)
LastOneOnly(c) ==
    /\ generation' = generation + 1
    /\ count' = size
    /\ drops' = 0
    /\ cv' = <<>>
    /\ Goto(c, "idle")
    /\ UNCHANGED expected

LastOne(c) ==
    /\ generation' = generation + 1
    /\ count' = size
    /\ expected' = size
    /\ drops' = 0
    /\ cv' = <<>>
    /\ Goto(c, "idle")

(* wait; the last of a generation lets the others go.  An old token throws. *)
WaitBarrier(c) ==
    /\ Resume(c, "arrived")
    /\ IF token[c] # generation
       THEN /\ Goto(c, "idle")
            /\ UNCHANGED <<count, expected, generation, drops, cv, cvFull>>
       ELSE IF count = n[c]
       THEN LastOne(c) /\ UNCHANGED cvFull
       ELSE /\ count' = count - n[c]
            /\ cv' = Append(cv, c)
            /\ Goto(c, "barrier")
            /\ UNCHANGED <<expected, generation, drops, cvFull>>
    /\ UNCHANGED <<token, n>>

(* The wait is not in a loop. *)
Pass(c) ==
    /\ Resume(c, "barrier")
    /\ Goto(c, "idle")
    /\ UNCHANGED <<count, barrierVars, cv, cvFull, n>>

-----------------------------------------------------------------------------
(* co_condition_variable: wait_until and wait_for, with a predicate or not. *)
(* Who has started its timer but is not in the list yet has the mutex.      *)

MutexFree == \A c \in Ctx : pc[c] # "armed"

WaitUntil(c) ==
    /\ Call(c, "condition variable")
    /\ MutexFree
    /\ timer' = [timer EXCEPT ![c] = "running"]
    /\ Goto(c, "armed")
    /\ UNCHANGED <<count, barrierVars, cv, cvFull, n, due, timeout>>

(* The section under cv_lock__: into the list, and the mutex is free.       *)
Enlist(c) ==
    /\ Resume(c, "armed")
    /\ cv' = Append(cv, c)
    /\ Goto(c, "timed")
    /\ UNCHANGED <<count, barrierVars, cvFull, n, timedVars>>

(* Awake, and the mutex taken: back, the timer stopped ...                  *)
WaitUntilReturn(c) ==
    /\ Resume(c, "timed")
    /\ MutexFree
    /\ timer' = [timer EXCEPT ![c] = "stopped"]
    /\ Goto(c, "idle")
    /\ UNCHANGED <<count, barrierVars, cv, cvFull, n, due, timeout>>

(* ... or, while nobody has timed out, the predicate does not hold.         *)
WaitUntilAgain(c) ==
    /\ Resume(c, "timed")
    /\ MutexFree
    /\ ~timeout
    /\ Goto(c, "armed")
    /\ UNCHANGED <<count, barrierVars, cv, cvFull, n, timedVars>>

(* notify_one and notify_all, with the mutex or without.                    *)
Notify(c) ==
    /\ Call(c, "condition variable")
    /\ cv' \in {NotifyOne(cv), <<>>}
    /\ UNCHANGED <<count, barrierVars, cvFull, pc, n, timedVars>>

(* The timer expires; its callback runs later, in a coroutine of its own,   *)
(* also after the timer has been stopped.                                   *)
Expire(c) ==
    /\ timer[c] = "running"
    /\ timer' = [timer EXCEPT ![c] = "expired"]
    /\ due' = due \cup {<<c, calls[c]>>}
    /\ UNCHANGED <<countVars, cv, pc, calls, timeout>>

TimeOut(c, k) ==
    /\ <<c, k>> \in due
    /\ due' = due \ {<<c, k>>}
    /\ cv' = Only(cv, Ctx \ {c})
    /\ timeout' = TRUE
    /\ UNCHANGED <<countVars, pc, calls, timer>>

-----------------------------------------------------------------------------
Go(c) ==
    \/ Acquire(c) \/ ReleaseOne(c) \/ WaitReached(c) \/ WaitBarrier(c) \/ Pass(c)
    \/ Enlist(c) \/ WaitUntilReturn(c) \/ WaitUntilAgain(c)

Timer(c) == Expire(c) \/ \E k \in 1..MaxCalls : TimeOut(c, k)

Next == \E c \in Ctx :
    \/ Go(c) \/ Timer(c)
    \/ TryAcquire(c) \/ Release(c) \/ CountDown(c) \/ Done(c) \/ Arrive(c)
    \/ ArriveAndDrop(c) \/ WaitUntil(c) \/ Notify(c)

(* A coroutine goes on with what it is inside of, and time passes. *)
Fairness == \A c \in Ctx : WF_vars(pc[c] # "idle" /\ Go(c)) /\ WF_vars(Timer(c))

SafeSpec == Init /\ [][Next]_vars

Spec == SafeSpec /\ Fairness

-----------------------------------------------------------------------------
(* Properties *)

TypeOK ==
    /\ tool \in Tools /\ size \in Sizes
    /\ count \in Int /\ (tool # "barrier" => count \in 0..size)
    /\ expected \in 0..size /\ drops \in Nat /\ generation \in Nat
    /\ cv \in Seq(Ctx) /\ cvFull \in Seq(Ctx)
    /\ pc \in [Ctx -> {"idle", "acquire", "release", "wait", "arrived", "barrier",
                     "armed", "timed"}]
    /\ n \in [Ctx -> Nat]
    /\ token \in [Ctx -> 0..generation]
    /\ calls \in [Ctx -> 0..MaxCalls]
    /\ timer \in [Ctx -> {"stopped", "running", "expired"}]
    /\ due \subseteq Ctx \X (1..MaxCalls)
    /\ timeout \in BOOLEAN

(* Whoever is in a list is inside the wait that the list is for, once.      *)
ListsInv ==
    /\ IsInjective(cv) /\ IsInjective(cvFull)
    /\ \A c \in Ctx :
          /\ Contains(cv, c) => pc[c] \in {"acquire", "wait", "barrier", "timed"}
          /\ Contains(cvFull, c) => pc[c] = "release"

(* Everybody is inside the calls of the one tool there is, and only the     *)
(* waits of a condition variable have timers.                               *)
InsideOf(at) ==
    CASE at \in {"acquire", "release"} -> {"semaphore"}
      [] at = "wait"                  -> {"latch", "wait group"}
      [] at \in {"arrived", "barrier"} -> {"barrier"}
      [] at \in {"armed", "timed"}     -> {"condition variable"}
      [] OTHER                        -> Tools

PlacesInv ==
    /\ \A c \in Ctx :
          /\ tool \in InsideOf(pc[c])
          /\ pc[c] = "release" => n[c] > 0
          /\ timer[c] # "stopped" => tool = "condition variable" /\ calls[c] > 0
    /\ due # {} => tool = "condition variable"

(* Nobody sleeps on what has come: of those who wait for the semaphore, at  *)
(* least as many are awake as can get through; nobody sleeps at a latch or  *)
(* a wait group that has been reached; and at the barrier exactly those of  *)
(* the present generation sleep, so nobody passes it before all have come.  *)
(* Nobody is in the list twice, however timers and notifications mix, which *)
(* would take a notify_one from somebody else.                              *)
Awake(at) == Cardinality({c \in Ctx : pc[c] = at /\ ~Asleep(c)})

EnoughAwake ==
    CASE tool = "semaphore" ->
            /\ cv # <<>> => Awake("acquire") >= count
            /\ cvFull # <<>> => Awake("release") >= size - count
      [] tool = "barrier" ->
            \A c \in Ctx : pc[c] = "barrier" => (Asleep(c) <=> token[c] = generation)
      [] tool = "condition variable" -> IsInjective(cv)
      [] OTHER -> Reached => cv = <<>>

ToolsInv == TypeOK /\ ListsInv /\ PlacesInv /\ EnoughAwake

(* The counters of the barrier stay within the bounds its assertions give,  *)
(* and they differ by what has arrived and not waited.                      *)
Arrived == {c \in Ctx : pc[c] = "arrived" /\ token[c] = generation}

BarrierCounts ==
    tool = "barrier" =>
       /\ count \in 0..size /\ drops <= size
       /\ count = expected + drops + Sum(n, Arrived)

(* What a start of the tools leads to: the invariant of the proofs, and the *)
(* counters of the barrier.                                                 *)
SyncInv == ToolsInv /\ BarrierCounts

(* Every call returns, but for an acquire without a release, a release      *)
(* beyond the maximum, a latch or a wait group that is not reached, a       *)
(* generation of the barrier in which somebody has not come or has dropped  *)
(* out, and a wait_until whose timer expires before it is in the list       *)
(* (co_condition_variable.h:103-110), which only a notification ends then.  *)
MayStay(c) ==
    CASE pc[c] = "acquire" -> count = 0
      [] pc[c] = "release" -> count = size
      [] pc[c] = "wait"    -> ~Reached
      [] pc[c] = "barrier" -> token[c] = generation /\ (expected > 0 \/ drops > 0)
      [] pc[c] = "timed"   -> /\ Asleep(c) /\ timer[c] = "expired"
                             /\ <<c, calls[c]>> \notin due
      [] OTHER -> FALSE

EverybodyLeaves == \A c \in Ctx : <>[](pc[c] # "idle" => MayStay(c))
=============================================================================
