--------------------------- MODULE CoMutexProofs ---------------------------
(***************************************************************************)
(* TLAPS proofs about CoMutex and, built on them, about CoRecursiveMutex,   *)
(* for every set of coroutines: the inductive invariant of co_mutex, mutual *)
(* exclusion, the absence of lost wake-ups, the FIFO hand-off and that it   *)
(* implements ExclusiveLock; that co_recursive_mutex refines it, so that    *)
(* all of this holds for it too, and that its count is right.               *)
(***************************************************************************)
EXTENDS CoRecursiveMutex, QueueLemmas

USE NoCtxAssumption

-----------------------------------------------------------------------------
(* A new co_mutex satisfies the invariant. *)
LEMMA InitIndInv == Init => IndInv
  BY DEF Init, IndInv, TypeOK, SpinLockInv, OwnerInv, DequeInv, WaitingInv,
         InDeque, Contains, IsInjective, Unspun, Spun, Queueing

(* Every step preserves the invariant.  Most actions only move one          *)
(* coroutine; the four that change the owner, the queue or a flag are       *)
(* split by conjunct.                                                       *)
LEMMA NextIndInv == IndInv /\ [Next]_vars => IndInv'
  <1> SUFFICES ASSUME IndInv, [Next]_vars PROVE IndInv'
    OBVIOUS
  <1> USE DEF Unspun, Spun, Queueing
  <1>1. ASSUME NEW c \in Ctx,
               \/ LockCall(c) \/ LockSpin(c) \/ LockYield(c) \/ LockSleep(c)
               \/ LockWake(c) \/ LockGranted(c) \/ UnlockSpin(c) \/ UnlockThrow(c)
        PROVE  IndInv'
    <2> USE <1>1 DEF IndInv, TypeOK, Goto, SpinLock, SpinUnlock,
                     LockCall, LockSpin, LockYield, LockSleep,
                     LockWake, LockGranted, UnlockSpin, UnlockThrow
    <2>1. TypeOK'
      OBVIOUS
    <2>2. SpinLockInv'
      BY DEF SpinLockInv
    <2>3. OwnerInv'
      BY DEF OwnerInv, SpinLockInv, DequeInv, InDeque
    <2>4. DequeInv'
      BY DEF DequeInv, OwnerInv, InDeque
    <2>5. WaitingInv'
      BY DEF WaitingInv
    <2> QED
      BY <2>1, <2>2, <2>3, <2>4, <2>5
  <1>2. ASSUME NEW c \in Ctx, LockTake(c) \/ TryLock(c)
        PROVE  IndInv'
    <2> USE <1>2 DEF IndInv, TypeOK, Goto, SpinUnlock, LockTake, TryLock
    <2>1. TypeOK'
      OBVIOUS
    <2>2. SpinLockInv'
      BY DEF SpinLockInv
    <2>3. OwnerInv'
      BY DEF OwnerInv, InDeque
    <2>4. DequeInv'
      BY DEF DequeInv, InDeque, Contains
    <2>5. WaitingInv'
      BY DEF WaitingInv
    <2> QED
      BY <2>1, <2>2, <2>3, <2>4, <2>5
  <1>3. ASSUME NEW c \in Ctx, LockEnqueue(c)
        PROVE  IndInv'
    <2> USE <1>3 DEF IndInv, TypeOK, Goto, LockEnqueue
    <2>1. ~InDeque(c) /\ owner # c
      BY DEF DequeInv, OwnerInv
    <2>2. \A e : InDeque(e)' <=> InDeque(e) \/ e = c
      BY ContainsAppend DEF InDeque
    <2>3. TypeOK'
      OBVIOUS
    <2>4. SpinLockInv'
      BY DEF SpinLockInv
    <2>5. OwnerInv'
      BY <2>1, <2>2 DEF OwnerInv
    <2>6. DequeInv'
      <3>1. IsInjective(waitDeque')
        BY <2>1, InjectiveAppend DEF DequeInv, InDeque
      <3> QED
        BY <2>2, <3>1 DEF DequeInv
    <2>7. WaitingInv'
      BY DEF WaitingInv
    <2> QED
      BY <2>3, <2>4, <2>5, <2>6, <2>7
  <1>4. ASSUME NEW c \in Ctx, LockWait(c)
        PROVE  IndInv'
    <2> USE <1>4 DEF IndInv, TypeOK, Goto, LockWait
    <2>1. TypeOK'
      OBVIOUS
    <2>2. SpinLockInv'
      BY DEF SpinLockInv
    <2>3. OwnerInv'
      BY DEF OwnerInv, InDeque
    <2>4. DequeInv'
      BY DEF DequeInv, InDeque
    <2>5. WaitingInv'
      BY DEF WaitingInv
    <2> QED
      BY <2>1, <2>2, <2>3, <2>4, <2>5
  <1>5. ASSUME NEW c \in Ctx, UnlockFree(c)
        PROVE  IndInv'
    <2> USE <1>5 DEF IndInv, TypeOK, Goto, SpinUnlock, UnlockFree
    <2>1. TypeOK'
      OBVIOUS
    <2>2. SpinLockInv'
      BY DEF SpinLockInv
    <2>3. OwnerInv'
      BY DEF OwnerInv
    <2>4. DequeInv'
      BY DEF DequeInv, InDeque, Contains
    <2>5. WaitingInv'
      BY DEF WaitingInv
    <2> QED
      BY <2>1, <2>2, <2>3, <2>4, <2>5
  <1>6. ASSUME NEW c \in Ctx, UnlockHandOver(c)
        PROVE  IndInv'
    <2> USE <1>6 DEF IndInv, TypeOK, Goto, UnlockHandOver
    <2> DEFINE h == Head(waitDeque)
    <2>1. h \in Ctx /\ Tail(waitDeque) \in Seq(Ctx) /\ InDeque(h)
      BY ContainsHead DEF InDeque
    <2>2. \A e : InDeque(e)' <=> InDeque(e) /\ e # h
      BY ContainsTail DEF DequeInv, InDeque
    <2>3. pc[h] \in Queueing /\ h # c
      BY <2>1 DEF DequeInv
    <2>4. TypeOK'
      BY <2>1
    <2>5. SpinLockInv'
      BY DEF SpinLockInv
    <2>6. OwnerInv'
      BY <2>1, <2>2, <2>3 DEF OwnerInv
    <2>7. DequeInv'
      <3>1. IsInjective(waitDeque')
        BY InjectiveTail DEF DequeInv
      <3> QED
        BY <2>1, <2>2, <2>3, <3>1 DEF DequeInv
    <2>8. WaitingInv'
      BY <2>3 DEF WaitingInv
    <2> QED
      BY <2>4, <2>5, <2>6, <2>7, <2>8
  <1>7. ASSUME NEW c \in Ctx, UnlockWake(c)
        PROVE  IndInv'
    <2> USE <1>7 DEF IndInv, TypeOK, Goto, SpinUnlock, UnlockWake
    <2>1. owner \notin {c, NoCtx} => pc[owner] # "armed"
      BY DEF SpinLockInv
    <2>2. TypeOK'
      OBVIOUS
    <2>3. SpinLockInv'
      BY DEF SpinLockInv
    <2>4. OwnerInv'
      BY DEF OwnerInv, InDeque
    <2>5. DequeInv'
      BY DEF DequeInv, InDeque
    <2>6. WaitingInv'
      BY <2>1 DEF WaitingInv
    <2> QED
      BY <2>2, <2>3, <2>4, <2>5, <2>6
  <1>8. CASE UNCHANGED vars
    BY <1>8 DEF vars, IndInv, TypeOK, SpinLockInv, OwnerInv, DequeInv,
                WaitingInv, InDeque
  <1> QED
    BY <1>1, <1>2, <1>3, <1>4, <1>5, <1>6, <1>7, <1>8
       DEF Next, Locking, Unlocking

-----------------------------------------------------------------------------
(* The invariant holds in every reachable state, for every set of           *)
(* coroutines: types, who holds the spin lock, who owns the mutex, who is   *)
(* queued and whose wait flag is set.                                       *)
THEOREM Invariance == SafeSpec => []IndInv
  <1>1. Init => IndInv
    BY InitIndInv
  <1>2. IndInv /\ [Next]_vars => IndInv'
    BY NextIndInv
  <1> QED
    BY <1>1, <1>2, PTL DEF SafeSpec

(* Every variable keeps its type.                                           *)
THEOREM TypeCorrect == SafeSpec => []TypeOK
  <1>1. IndInv => TypeOK
    BY DEF IndInv
  <1> QED
    BY <1>1, Invariance, PTL

(* co_mutex excludes: lock() and try_lock() never let a second coroutine in *)
(* while one has not completed unlock().                                    *)
THEOREM Exclusion == SafeSpec => []MutualExclusion
  <1>1. IndInv => MutualExclusion
    BY DEF IndInv, OwnerInv, MutualExclusion, Holds
  <1> QED
    BY <1>1, Invariance, PTL

(* No coroutine sleeps on the mutex with its wait flag set and nobody left  *)
(* to clear it.                                                             *)
THEOREM WakeupsArrive == SafeSpec => []NoLostWakeup
  <1>1. IndInv => NoLostWakeup
    <2> SUFFICES ASSUME IndInv, NEW c \in waiting
                 PROVE  \/ InDeque(c) /\ owner \notin {c, NoCtx}
                        \/ owner = c /\ \E d \in Ctx : pc[d] = "wake"
      BY DEF NoLostWakeup
    <2>1. c \in Ctx /\ pc[c] \in Queueing
      BY DEF IndInv, TypeOK, WaitingInv, Queueing
    <2>2. CASE owner = c
      BY <2>1, <2>2 DEF IndInv, WaitingInv
    <2>3. CASE owner # c
      <3>1. InDeque(c)
        BY <2>1, <2>3 DEF IndInv, DequeInv
      <3>2. owner # NoCtx
        BY <3>1 DEF IndInv, TypeOK, DequeInv, InDeque, Contains
      <3> QED
        BY <2>3, <3>1, <3>2
    <2> QED
      BY <2>2, <2>3
  <1> QED
    BY <1>1, Invariance, PTL

-----------------------------------------------------------------------------
(* push_back extends the wait queue and changes nothing of it. *)
LEMMA PrefixAppend ==
    ASSUME NEW S, NEW s \in Seq(S), NEW x \in S
    PROVE  IsPrefix(s, s) /\ IsPrefix(s, Append(s, x))
  BY DEF IsPrefix

(* While somebody queues, the mutex goes to nobody but the head of the      *)
(* queue, and the queue loses nobody else.                                  *)
THEOREM HandsOffInOrder == SafeSpec => FifoHandOff
  <1>1. IndInv /\ [Next]_vars => [HandOff]_vars
    <2> SUFFICES ASSUME IndInv, [Next]_vars, waitDeque # <<>>
                 PROVE  \/ owner' = owner /\ IsPrefix(waitDeque, waitDeque')
                        \/ owner' = Head(waitDeque) /\ waitDeque' = Tail(waitDeque)
      BY DEF HandOff
    <2>1. owner # NoCtx /\ waitDeque \in Seq(Ctx)
      BY DEF IndInv, TypeOK, DequeInv
    <2>2. waitDeque' = waitDeque => IsPrefix(waitDeque, waitDeque')
      BY <2>1 DEF IsPrefix
    <2>3. ASSUME NEW c \in Ctx, LockEnqueue(c) PROVE IsPrefix(waitDeque, waitDeque')
      BY <2>1, <2>3, PrefixAppend DEF LockEnqueue
    <2>4. ASSUME NEW c \in Ctx, Locking(c) \/ TryLock(c)
          PROVE  owner' = owner /\ IsPrefix(waitDeque, waitDeque')
      BY <2>1, <2>2, <2>3, <2>4
         DEF Locking, TryLock, LockCall, LockSpin, LockTake, LockYield, LockEnqueue,
             LockWait, LockSleep, LockWake, LockGranted
    <2>5. ASSUME NEW c \in Ctx, Unlocking(c)
          PROVE  \/ owner' = owner /\ waitDeque' = waitDeque
                 \/ owner' = Head(waitDeque) /\ waitDeque' = Tail(waitDeque)
      BY <2>5 DEF Unlocking, UnlockSpin, UnlockThrow, UnlockFree, UnlockHandOver,
                  UnlockWake
    <2> QED
      BY <2>2, <2>4, <2>5 DEF Next, vars
  <1> QED
    BY <1>1, Invariance, PTL DEF SafeSpec, FifoHandOff

-----------------------------------------------------------------------------
(* A new co_mutex is a free lock nobody has asked for. *)
LEMMA InitImplements == Init => L!Init
  BY DEF Init, L!Init, Asking

(* Every step of co_mutex is a step of the lock it implements, or none.     *)
LEMMA NextImplements == IndInv /\ [Next]_vars => [L!Next]_(L!vars)
  <1> SUFFICES ASSUME IndInv, [Next]_vars PROVE [L!Next]_(L!vars)
    OBVIOUS
  <1> USE DEF L!vars, Asking, Goto
  <1>1. owner \in Ctx \cup {NoCtx} /\ pc \in [Ctx -> Unspun \cup Spun]
    BY DEF IndInv, TypeOK
  <1>2. ASSUME NEW c \in Ctx, LockCall(c) PROVE L!Ask(c)
    BY <1>1, <1>2 DEF LockCall, L!Ask, IndInv, OwnerInv, Queueing
  <1>3. ASSUME NEW c \in Ctx, LockTake(c) PROVE L!Grant(c)
    BY <1>1, <1>3 DEF LockTake, L!Grant
  <1>4. ASSUME NEW c \in Ctx, TryLock(c) PROVE L!TryGrant(c) \/ UNCHANGED L!vars
    BY <1>1, <1>4 DEF TryLock, L!TryGrant
  <1>5. ASSUME NEW c \in Ctx,
               \/ LockSpin(c) \/ LockYield(c) \/ LockEnqueue(c) \/ LockWait(c)
               \/ LockSleep(c) \/ LockWake(c) \/ LockGranted(c)
               \/ UnlockSpin(c) \/ UnlockThrow(c) \/ UnlockWake(c)
        PROVE  UNCHANGED L!vars
    BY <1>1, <1>5 DEF LockSpin, LockYield, LockEnqueue, LockWait, LockSleep, LockWake,
                      LockGranted, UnlockSpin, UnlockThrow, UnlockWake
  <1>6. ASSUME NEW c \in Ctx, UnlockFree(c) PROVE L!Release(c)
    BY <1>1, <1>6 DEF UnlockFree, L!Release, IndInv, DequeInv, Queueing
  <1>7. ASSUME NEW c \in Ctx, UnlockHandOver(c)
        PROVE  \E d \in Ctx : L!HandOver(c, d)
    <2> DEFINE h == Head(waitDeque)
    <2>1. h \in Ctx /\ InDeque(h)
      BY <1>7, ContainsHead DEF UnlockHandOver, InDeque, IndInv, TypeOK
    <2>2. pc[h] \in Queueing /\ h # c
      BY <1>7, <2>1 DEF UnlockHandOver, IndInv, DequeInv, Queueing
    <2>3. h \in Asking
      BY <1>7, <2>1, <2>2 DEF UnlockHandOver, Queueing
    <2>4. Asking' = Asking \ {h}
      BY <1>1, <1>7, <2>1, <2>2 DEF UnlockHandOver
    <2> QED
      BY <1>7, <2>1, <2>3, <2>4 DEF UnlockHandOver, L!HandOver
  <1>8. CASE UNCHANGED vars
    BY <1>8 DEF vars
  <1> QED
    BY <1>2, <1>3, <1>4, <1>5, <1>6, <1>7, <1>8
       DEF Next, Locking, Unlocking, L!Next

(* co_mutex implements an exclusive lock: a lock granted only to somebody   *)
(* who asked, to one at a time, and given up only by its holder.            *)
THEOREM Implementation == SafeSpec => ImplementsSafe
  <1>1. Init => L!Init
    BY InitImplements
  <1>2. IndInv /\ [Next]_vars => [L!Next]_(L!vars)
    BY NextImplements
  <1> QED
    BY <1>1, <1>2, Invariance, PTL DEF SafeSpec, ImplementsSafe, L!SafeSpec

-----------------------------------------------------------------------------
(* The recursive mutex. *)

USE DepthAssumption

(* A step of the recursive mutex is one of co_mutex, or changes the count   *)
(* only.                                                                    *)
LEMMA NextRefines == [RNext]_rvars => [Next]_vars
  <1> SUFFICES ASSUME [RNext]_rvars PROVE [Next]_vars
    OBVIOUS
  <1>1. ASSUME NEW c \in Ctx, LockAgain(c) \/ UnlockOnce(c) PROVE UNCHANGED vars
    BY <1>1 DEF LockAgain, UnlockOnce
  <1>2. ASSUME NEW c \in Ctx, CountedTake(c) \/ LockOn(c) PROVE Locking(c)
    BY <1>2 DEF CountedTake, LockOn, Locking
  <1>3. ASSUME NEW c \in Ctx, CountedTryLock(c) PROVE TryLock(c)
    BY <1>3 DEF CountedTryLock
  <1>4. ASSUME NEW c \in Ctx,
               UnlockBegin(c) \/ CountedFree(c) \/ CountedHandOver(c) \/ UnlockOn(c)
        PROVE  Unlocking(c)
    BY <1>4 DEF UnlockBegin, CountedFree, CountedHandOver, UnlockOn, Unlocking
  <1>5. CASE UNCHANGED rvars
    BY <1>5 DEF rvars
  <1> QED
    BY <1>1, <1>2, <1>3, <1>4, <1>5 DEF RNext, Next

(* co_recursive_mutex, its count aside, behaves like a co_mutex whose owner *)
(* never locks twice: nested calls are invisible to the others.             *)
THEOREM RefinesMutex == RSafeSpec => SafeSpec
  <1>1. RInit => Init
    BY DEF RInit
  <1>2. [RNext]_rvars => [Next]_vars
    BY NextRefines
  <1> QED
    BY <1>1, <1>2, PTL DEF RSafeSpec, SafeSpec

(* However often its owner locks it, the mutex excludes the others.         *)
THEOREM RecursiveExclusion == RSafeSpec => []MutualExclusion
  BY RefinesMutex, Exclusion, PTL

(* What the whole of CoMutexProofs rests on holds for it as well.           *)
THEOREM RecursiveInvariance == RSafeSpec => []IndInv
  BY RefinesMutex, Invariance, PTL

(* It is handed over in order, and implements the abstract lock, in which a *)
(* nested lock() or unlock() is no step at all.                             *)
THEOREM RecursiveHandOff == RSafeSpec => FifoHandOff
  BY RefinesMutex, HandsOffInOrder, PTL

THEOREM RecursiveImplementation == RSafeSpec => ImplementsSafe
  BY RefinesMutex, Implementation, PTL

-----------------------------------------------------------------------------
(* Every step keeps the count right.                                        *)
LEMMA NextCounted == IndInv /\ Counted /\ [RNext]_rvars => Counted'
  <1> SUFFICES ASSUME IndInv, Counted, [RNext]_rvars PROVE Counted'
    OBVIOUS
  <1> USE DEF Counted, Unspun, Spun
  <1>1. owner \in Ctx \cup {NoCtx} /\ waitDeque \in Seq(Ctx)
        /\ pc \in [Ctx -> Unspun \cup Spun]
    BY DEF IndInv, TypeOK
  <1>2. ASSUME NEW c \in Ctx, LockAgain(c) PROVE Counted'
    BY <1>1, <1>2 DEF LockAgain, vars
  <1>3. ASSUME NEW c \in Ctx, CountedTake(c) PROVE Counted'
    BY <1>1, <1>3 DEF CountedTake, LockTake, Goto
  <1>4. ASSUME NEW c \in Ctx, CountedTryLock(c) PROVE Counted'
    BY <1>1, <1>4 DEF CountedTryLock, TryLock, Goto
  <1>5. ASSUME NEW c \in Ctx, LockOn(c) PROVE Counted'
    <2>1. owner' = owner /\ lockCount' = lockCount
      BY <1>5 DEF LockOn, LockCall, LockSpin, LockYield, LockEnqueue, LockWait, LockSleep,
                  LockWake, LockGranted
    <2>2. \A d \in Ctx : pc'[d] # "in" => pc[d] # "in"
      BY <1>1, <1>5 DEF LockOn, LockCall, LockSpin, LockYield, LockEnqueue, LockWait,
                        LockSleep, LockWake, LockGranted, Goto
    <2> QED
      BY <2>1, <2>2
  <1>6. ASSUME NEW c \in Ctx, UnlockOnce(c) PROVE Counted'
    BY <1>1, <1>6 DEF UnlockOnce, vars, IndInv, OwnerInv
  <1>7. ASSUME NEW c \in Ctx, UnlockBegin(c) PROVE Counted'
    BY <1>1, <1>7 DEF UnlockBegin, UnlockSpin, Goto
  <1>8. ASSUME NEW c \in Ctx, CountedFree(c) PROVE Counted'
    <2>1. owner = c /\ pc[c] = "owned" /\ owner' = NoCtx /\ lockCount' = lockCount - 1
      BY <1>8 DEF CountedFree, UnlockFree, Goto
    <2> QED
      BY <1>1, <2>1
  <1>9. ASSUME NEW c \in Ctx, CountedHandOver(c) PROVE Counted'
    <2>1. /\ owner = c /\ pc[c] = "owned" /\ pc' = [pc EXCEPT ![c] = "wake"]
          /\ waitDeque # <<>> /\ owner' = Head(waitDeque)
          /\ lockCount' = (lockCount - 1) + 1
      BY <1>9 DEF CountedHandOver, UnlockHandOver, Goto
    <2>2. lockCount = 1 /\ lockCount' = 1
      BY <2>1
    <2>3. owner' \in Ctx
      BY <1>1, <2>1
    <2> QED
      BY <2>2, <2>3
  <1>10. ASSUME NEW c \in Ctx, UnlockOn(c) PROVE Counted'
    BY <1>1, <1>10 DEF UnlockOn, UnlockThrow, UnlockWake, Goto
  <1>11. CASE UNCHANGED rvars
    BY <1>11 DEF rvars, vars
  <1> QED
    BY <1>2, <1>3, <1>4, <1>5, <1>6, <1>7, <1>8, <1>9, <1>10, <1>11 DEF RNext

(* The count is 0 exactly when the mutex is free, and 1 for an owner that   *)
(* has just got it or is about to give it up: no lock() is forgotten by a   *)
(* hand-over, and no unlock() frees the mutex early.                        *)
THEOREM CountIsRight == RSafeSpec => []Counted
  <1>1. RInit => Counted
    BY DEF RInit, Init, Counted
  <1>2. IndInv /\ Counted /\ [RNext]_rvars => Counted'
    BY NextCounted
  <1> QED
    BY <1>1, <1>2, RecursiveInvariance, PTL DEF RSafeSpec
=============================================================================
