------------------------------ MODULE CoMutex ------------------------------
(***************************************************************************)
(* co_mutex (sync/co_mutex.cpp): a blocking mutex for coroutines.           *)
(*                                                                          *)
(* Its state is an owner and a queue of waiting coroutines, both guarded by *)
(* a co_spinlock.  lock() first spins for 10ms, letting go of the spin lock *)
(* and yielding between two attempts; then it joins the queue, sets its own *)
(* CO_CTX_FLAG_WAITING so that the scheduler no longer picks it, lets go of *)
(* the spin lock and yields.  unlock() hands the mutex directly to the head *)
(* of the queue and clears that coroutine's flag.                           *)
(*                                                                          *)
(* A step is a piece of the code that touches shared state at one point     *)
(* only: taking the spin lock, the statements under it that only use the    *)
(* data it guards, and the change of a wait flag, which the scheduler reads *)
(* without the spin lock.                                                   *)
(***************************************************************************)
EXTENDS Naturals, Sequences, SequencesExt

CONSTANTS Ctx,      \* the coroutines that use the mutex
          NoCtx     \* the null co_ctx pointer

ASSUME NoCtxAssumption == NoCtx \notin Ctx

VARIABLES owner,      \* owner__
          waitDeque,  \* wait_deque__
          spinlock,   \* who holds spinlock__, or NoCtx
          waiting,    \* the coroutines whose CO_CTX_FLAG_WAITING is set
          pc          \* where each coroutine is

vars == <<owner, waitDeque, spinlock, waiting, pc>>


(* Where a coroutine is, and whether it holds the spin lock there. *)
Unspun  == {"out", "spin", "asleep", "in"}
Spun    == {"check", "wait", "armed", "owned", "wake"}

TypeOK ==
    /\ owner \in Ctx \cup {NoCtx}
    /\ waitDeque \in Seq(Ctx)
    /\ spinlock \in Ctx \cup {NoCtx}
    /\ waiting \subseteq Ctx
    /\ pc \in [Ctx -> Unspun \cup Spun]

Init ==
    /\ owner = NoCtx
    /\ waitDeque = <<>>
    /\ spinlock = NoCtx
    /\ waiting = {}
    /\ pc = [c \in Ctx |-> "out"]

Goto(c, from, to) ==
    /\ pc[c] = from
    /\ pc' = [pc EXCEPT ![c] = to]

(* co_spinlock::lock returns; until then it only tests and yields. *)
SpinLock(c) ==
    /\ spinlock = NoCtx
    /\ spinlock' = c

SpinUnlock(c) ==
    /\ spinlock = c
    /\ spinlock' = NoCtx

-----------------------------------------------------------------------------
(* lock() *)

LockCall(c) ==
    /\ Goto(c, "out", "spin")
    /\ UNCHANGED <<owner, waitDeque, spinlock, waiting>>

(* The spin lock is taken on entry and again after each yield. *)
LockSpin(c) ==
    /\ Goto(c, "spin", "check")
    /\ SpinLock(c)
    /\ UNCHANGED <<owner, waitDeque, waiting>>

(* Mutant of LockTake: takes the mutex at the deadline whoever owns it. *)
LockTakeOwned(c) ==
    /\ Goto(c, "check", "in")
    /\ owner' = c
    /\ SpinUnlock(c)
    /\ UNCHANGED <<waitDeque, waiting>>

(* The mutex is free: inside the 10ms spin or right after it. *)
LockTake(c) ==
    /\ Goto(c, "check", "in")
    /\ owner = NoCtx
    /\ owner' = c
    /\ SpinUnlock(c)
    /\ UNCHANGED <<waitDeque, waiting>>

(* It is not, and the 10ms are not over: yield and try again. *)
LockYield(c) ==
    /\ Goto(c, "check", "spin")
    /\ owner # NoCtx
    /\ SpinUnlock(c)
    /\ UNCHANGED <<owner, waitDeque, waiting>>

(* The 10ms are over: join the queue. *)
LockEnqueue(c) ==
    /\ Goto(c, "check", "wait")
    /\ owner # NoCtx
    /\ waitDeque' = Append(waitDeque, c)
    /\ UNCHANGED <<owner, spinlock, waiting>>

(* The head of the waiting loop: owner__ != ctx, so set the wait flag ... *)
LockWait(c) ==
    /\ Goto(c, "wait", "armed")
    /\ owner # c
    /\ waiting' = waiting \cup {c}
    /\ UNCHANGED <<owner, waitDeque, spinlock>>

(* ... and only then let go of the spin lock and yield. *)
LockSleep(c) ==
    /\ Goto(c, "armed", "asleep")
    /\ SpinUnlock(c)
    /\ UNCHANGED <<owner, waitDeque, waiting>>

(* Mutant of LockWake: once awake, tests for a free mutex like a newcomer. *)
LockWakeCheck(c) ==
    /\ Goto(c, "asleep", "check")
    /\ c \notin waiting
    /\ SpinLock(c)
    /\ UNCHANGED <<owner, waitDeque, waiting>>

(* The scheduler runs the coroutine again only when its flag is clear. *)
LockWake(c) ==
    /\ Goto(c, "asleep", "wait")
    /\ c \notin waiting
    /\ SpinLock(c)
    /\ UNCHANGED <<owner, waitDeque, waiting>>

(* The head of the waiting loop again: the mutex was handed over. *)
LockGranted(c) ==
    /\ Goto(c, "wait", "in")
    /\ owner = c
    /\ SpinUnlock(c)
    /\ UNCHANGED <<owner, waitDeque, waiting>>

-----------------------------------------------------------------------------
(* try_lock(): one section under the spin lock, which it leaves free. *)

(* Mutant of TryLock: does not look whether the mutex is free. *)
TryLockOwned(c) ==
    /\ spinlock = NoCtx
    /\ owner' = c
    /\ Goto(c, "out", "in")
    /\ UNCHANGED <<waitDeque, spinlock, waiting>>

TryLock(c) ==
    /\ pc[c] = "out"
    /\ spinlock = NoCtx
    /\ IF owner = NoCtx
       THEN owner' = c /\ Goto(c, "out", "in")
       ELSE UNCHANGED <<owner, pc>>
    /\ UNCHANGED <<waitDeque, spinlock, waiting>>

-----------------------------------------------------------------------------
(* unlock(), by the owner or, against the rules, by somebody else. *)

UnlockSpin(c) ==
    /\ Goto(c, "in", "owned") \/ Goto(c, "out", "owned")
    /\ SpinLock(c)
    /\ UNCHANGED <<owner, waitDeque, waiting>>

(* logic_error("ctx is not owner"); the guard of the spin lock unwinds. *)
UnlockThrow(c) ==
    /\ Goto(c, "owned", "out")
    /\ owner # c
    /\ SpinUnlock(c)
    /\ UNCHANGED <<owner, waitDeque, waiting>>

(* Mutant of UnlockFree: frees the mutex although somebody is queued. *)
UnlockFreeQueued(c) ==
    /\ Goto(c, "owned", "out")
    /\ owner = c
    /\ owner' = NoCtx
    /\ SpinUnlock(c)
    /\ UNCHANGED <<waitDeque, waiting>>

UnlockFree(c) ==
    /\ Goto(c, "owned", "out")
    /\ owner = c
    /\ waitDeque = <<>>
    /\ owner' = NoCtx
    /\ SpinUnlock(c)
    /\ UNCHANGED <<waitDeque, waiting>>

(* Mutant of UnlockHandOver: the last to come is the first to be served. *)
UnlockHandOverLast(c) ==
    /\ Goto(c, "owned", "wake")
    /\ owner = c
    /\ waitDeque # <<>>
    /\ owner' = Last(waitDeque)
    /\ waitDeque' = Front(waitDeque)
    /\ UNCHANGED <<spinlock, waiting>>

UnlockHandOver(c) ==
    /\ Goto(c, "owned", "wake")
    /\ owner = c
    /\ waitDeque # <<>>
    /\ owner' = Head(waitDeque)
    /\ waitDeque' = Tail(waitDeque)
    /\ UNCHANGED <<spinlock, waiting>>

(* leave_wait_resource_state of the new owner, still under the spin lock. *)
UnlockWake(c) ==
    /\ Goto(c, "wake", "out")
    /\ waiting' = waiting \ {owner}
    /\ SpinUnlock(c)
    /\ UNCHANGED <<owner, waitDeque>>

-----------------------------------------------------------------------------
Locking(c) ==
    \/ LockCall(c)
    \/ LockSpin(c)
    \/ LockTake(c)
    \/ LockYield(c)
    \/ LockEnqueue(c)
    \/ LockWait(c)
    \/ LockSleep(c)
    \/ LockWake(c)
    \/ LockGranted(c)

Unlocking(c) ==
    \/ UnlockSpin(c)
    \/ UnlockThrow(c)
    \/ UnlockFree(c)
    \/ UnlockHandOver(c)
    \/ UnlockWake(c)

Next == \E c \in Ctx : Locking(c) \/ TryLock(c) \/ Unlocking(c)

SafeSpec == Init /\ [][Next]_vars

-----------------------------------------------------------------------------
(* Properties *)

(* The caller of lock() that has returned, or of try_lock() that returned   *)
(* true, and that has not yet completed unlock().                           *)
Holds(c) == pc[c] = "in" \/ (pc[c] = "owned" /\ owner = c)

(* Two coroutines never both believe they hold the mutex: a free mutex is   *)
(* taken by a spinner or try_lock only while nobody holds it and the head   *)
(* of the queue has not been made the owner (co_mutex.cpp:28, 48, 77, 90).  *)
MutualExclusion == \A c, d \in Ctx : Holds(c) /\ Holds(d) => c = d

InDeque(c) == Contains(waitDeque, c)

(* Whoever sleeps on the mutex with the wait flag set is still to be woken:  *)
(* it is queued behind an owner who has yet to unlock, or an unlock() has    *)
(* made it the owner and is about to clear the flag (co_mutex.cpp:60, 107).  *)
NoLostWakeup ==
    \A c \in waiting :
        \/ InDeque(c) /\ owner \notin {c, NoCtx}
        \/ owner = c /\ \E d \in Ctx : pc[d] = "wake"

(* As long as somebody queues, the mutex changes hands only to the head of   *)
(* the queue, never to a spinner, and the queue only loses its head          *)
(* (co_mutex.cpp:97-107).                                                    *)
HandOff ==
    waitDeque # <<>> =>
        \/ owner' = owner /\ IsPrefix(waitDeque, waitDeque')
        \/ owner' = Head(waitDeque) /\ waitDeque' = Tail(waitDeque)

FifoHandOff == [][HandOff]_vars

(* Every blocking lock() returns holding the mutex.                          *)
LockReturns == \A c \in Ctx : pc[c] = "spin" ~> pc[c] = "in"

(* co_mutex implements the lock it stands for: the owner is the holder, and  *)
(* the askers are those inside lock() who do not own it yet.                 *)
Asking == {c \in Ctx : pc[c] \in {"spin", "check", "wait", "armed", "asleep"}
                         /\ owner # c}

L == INSTANCE ExclusiveLock WITH holder <- owner, asking <- Asking

Implements     == L!Spec
ImplementsSafe == L!SafeSpec

-----------------------------------------------------------------------------
(* The inductive invariant behind the safety properties. *)

Queueing == {"wait", "armed", "asleep"}

SpinLockInv == \A c \in Ctx : pc[c] \in Spun <=> spinlock = c

OwnerInv ==
    /\ owner # NoCtx =>
         \/ pc[owner] \in {"in", "owned"}
         \/ pc[owner] \in Queueing /\ ~InDeque(owner)
    /\ \A c \in Ctx : pc[c] = "in" => owner = c

DequeInv ==
    /\ IsInjective(waitDeque)
    /\ \A c \in Ctx : InDeque(c) => pc[c] \in Queueing
    /\ \A c \in Ctx : pc[c] \in Queueing => InDeque(c) \/ owner = c
    /\ waitDeque # <<>> => owner # NoCtx

WaitingInv ==
    \A c \in Ctx :
        /\ c \in waiting => pc[c] \in {"armed", "asleep"}
        /\ pc[c] = "armed" => c \in waiting
        /\ c \in waiting /\ owner = c => \E d \in Ctx : pc[d] = "wake"

IndInv == TypeOK /\ SpinLockInv /\ OwnerInv /\ DequeInv /\ WaitingInv
=============================================================================
