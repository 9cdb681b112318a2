-------------------------- MODULE CoRecursiveMutex --------------------------
(***************************************************************************)
(* co_recursive_mutex (sync/co_recursive_mutex.cpp): co_mutex with a count  *)
(* of how often its owner has locked it.  The code repeats that of co_mutex,*)
(* so the actions here are those of CoMutex, and what they do to the count. *)
(*                                                                          *)
(* A lock, try_lock or unlock of the owner that only changes the count is   *)
(* one section under the spin lock, and leaves the rest as it was.          *)
(***************************************************************************)
EXTENDS CoMutex

CONSTANT MaxDepth  \* bound: how often the owner locks

ASSUME DepthAssumption == MaxDepth \in Nat \ {0}

VARIABLE lockCount  \* lock_count__

rvars == <<vars, lockCount>>

RInit == Init /\ lockCount = 0

-----------------------------------------------------------------------------
(* lock() and try_lock() *)

(* The owner locks again; the other coroutines do not notice. *)
LockAgain(c) ==
    /\ pc[c] = "in"
    /\ spinlock = NoCtx
    /\ owner = c
    /\ lockCount < MaxDepth
    /\ lockCount' = lockCount + 1
    /\ UNCHANGED vars

CountedTake(c) == LockTake(c) /\ lockCount' = lockCount + 1

CountedTryLock(c) ==
    /\ TryLock(c)
    /\ lockCount' = IF owner = NoCtx THEN lockCount + 1 ELSE lockCount

(* The parts of lock() that do not touch the count. *)
LockOn(c) ==
    /\ \/ LockCall(c)  \/ LockSpin(c)  \/ LockYield(c) \/ LockEnqueue(c)
       \/ LockWait(c)  \/ LockSleep(c) \/ LockWake(c)  \/ LockGranted(c)
    /\ UNCHANGED lockCount

-----------------------------------------------------------------------------
(* unlock() *)

UnlockOnce(c) ==
    /\ pc[c] = "in"
    /\ spinlock = NoCtx
    /\ owner = c
    /\ lockCount > 1
    /\ lockCount' = lockCount - 1
    /\ UNCHANGED vars

(* What goes on below is the last unlock() of the owner, or a wrong one. *)
UnlockBegin(c) ==
    /\ UnlockSpin(c)
    /\ pc[c] = "in" => lockCount = 1
    /\ UNCHANGED lockCount

CountedFree(c) == UnlockFree(c) /\ lockCount' = lockCount - 1

(* Mutant of CountedHandOver: the new owner's lock() is not counted. *)
UncountedHandOver(c) == UnlockHandOver(c) /\ lockCount' = lockCount - 1

CountedHandOver(c) == UnlockHandOver(c) /\ lockCount' = (lockCount - 1) + 1

UnlockOn(c) == (UnlockThrow(c) \/ UnlockWake(c)) /\ UNCHANGED lockCount

-----------------------------------------------------------------------------
RNext ==
    \E c \in Ctx :
        \/ LockAgain(c) \/ CountedTake(c) \/ CountedTryLock(c) \/ LockOn(c)
        \/ UnlockOnce(c) \/ UnlockBegin(c) \/ CountedFree(c) \/ CountedHandOver(c)
        \/ UnlockOn(c)

RSafeSpec == RInit /\ [][RNext]_rvars

(* As in CoMutex: a coroutine that keeps trying the spin lock gets it now   *)
(* and then, the spin of lock() ends, and what needs no lock is done.  The  *)
(* owner unlocks as often as it has locked, one day.                        *)
GetsSpinLock(c) ==
    /\ LockSpin(c) \/ LockWake(c) \/ (pc[c] = "in" /\ UnlockBegin(c))
    /\ UNCHANGED lockCount

EndsSpin(c) == CountedTake(c) \/ (LockEnqueue(c) /\ UNCHANGED lockCount)

GoesOn(c) ==
    \/ (LockWait(c) \/ LockSleep(c) \/ LockGranted(c)) /\ UNCHANGED lockCount
    \/ CountedFree(c) \/ CountedHandOver(c) \/ UnlockOn(c)

RFairness ==
    \A c \in Ctx :
        /\ SF_rvars(GetsSpinLock(c))
        /\ SF_rvars(EndsSpin(c))
        /\ SF_rvars(UnlockOnce(c))
        /\ WF_rvars(GoesOn(c))

RSpec == RSafeSpec /\ RFairness

-----------------------------------------------------------------------------
(* Properties; those of CoMutex are checked here as well. *)

(* The count is that of the present owner: 0 when the mutex is free, 1 when *)
(* it has just been handed over or is about to be given up, whatever the    *)
(* owner before did (co_recursive_mutex.cpp:90-106).                        *)
Counted ==
    /\ lockCount \in 0..MaxDepth
    /\ lockCount = 0 <=> owner = NoCtx
    /\ \A c \in Ctx : owner = c /\ pc[c] # "in" => lockCount = 1
=============================================================================
