------------------------ MODULE CoSharedMutexProofs ------------------------
(***************************************************************************)
(* TLAPS proofs about CoSharedMutex, for every set of coroutines: its       *)
(* safety, and that it implements ReadWriteLock.  They are about all uses   *)
(* but one: several writers mixed with readers, where wake_up_waiters__     *)
(* takes the wrong elements out of the queue (the run shared_mutex_mixed).  *)
(* First one lemma per action, in the order of the module.                  *)
(***************************************************************************)
EXTENDS CoSharedMutex, QueueLemmas

USE CtxAssumption

(* A new lock is free and nobody waits for it.                              *)
LEMMA InitSharedInv == Init => SharedInv
  <1> SUFFICES ASSUME Init PROVE SharedInv
    OBVIOUS
  <1>1. TypeOK
    BY DEF Init, TypeOK, Modes
  <1>2. SpinLockInv /\ CallersInv /\ OwnersInv /\ WaitingInv
    BY DEF Init, SpinLockInv, CallersInv, OwnersInv, WaitingInv
  <1>3. DequeInv
    BY DEF Init, DequeInv, Contains, IsInjective, Queueing
  <1> QED
    BY <1>1, <1>2, <1>3 DEF SharedInv

(* lock() or lock_shared() is called.                                       *)
LEMMA LockCallInv ==
    ASSUME SharedInv, NEW c \in Ctx, NEW m \in Modes, LockCall(c, m)
    PROVE  SharedInv'
  <1> USE DEF TypeOK, LockCall, Goto
  <1>1. TypeOK /\ SpinLockInv /\ CallersInv /\ OwnersInv /\ DequeInv /\ WaitingInv
    BY DEF SharedInv
  <1>2. TypeOK'
    BY <1>1 DEF Modes
  <1>3. SpinLockInv'
    BY <1>1 DEF SpinLockInv
  <1>4. CallersInv'
    BY <1>1 DEF CallersInv, Callers
  <1>5. OwnersInv'
    BY <1>1 DEF OwnersInv, SpinLockInv, Modes
  <1>6. DequeInv'
    BY <1>1 DEF DequeInv, SpinLockInv, OwnersInv, Entry, Queueing, Entries
  <1>7. WaitingInv'
    BY <1>1 DEF WaitingInv, SpinLockInv, OwnersInv
  <1> QED
    BY <1>2, <1>3, <1>4, <1>5, <1>6, <1>7 DEF SharedInv

(* The spin lock is taken.                                                  *)
LEMMA LockSpinInv ==
    ASSUME SharedInv, NEW c \in Ctx, LockSpin(c)
    PROVE  SharedInv'
  <1> USE DEF TypeOK, LockSpin, Goto, SpinLock
  <1>1. TypeOK /\ SpinLockInv /\ CallersInv /\ OwnersInv /\ DequeInv /\ WaitingInv
    BY DEF SharedInv
  <1>2. TypeOK'
    BY <1>1 DEF Modes
  <1>3. SpinLockInv'
    BY <1>1 DEF SpinLockInv
  <1>4. CallersInv'
    BY <1>1 DEF CallersInv, Callers
  <1>5. OwnersInv'
    BY <1>1 DEF OwnersInv, SpinLockInv, Modes
  <1>6. DequeInv'
    BY <1>1 DEF DequeInv, SpinLockInv, OwnersInv, Entry, Queueing, Entries
  <1>7. WaitingInv'
    BY <1>1 DEF WaitingInv, SpinLockInv, OwnersInv
  <1> QED
    BY <1>2, <1>3, <1>4, <1>5, <1>6, <1>7 DEF SharedInv

(* The lock is free for it: in at once.                                     *)
LEMMA LockTakeInv ==
    ASSUME SharedInv, NEW c \in Ctx, LockTake(c)
    PROVE  SharedInv'
  <1> USE DEF TypeOK, LockTake, Goto, SpinUnlock, Enter
  <1>1. TypeOK /\ SpinLockInv /\ CallersInv /\ OwnersInv /\ DequeInv /\ WaitingInv
    BY DEF SharedInv
  <1>2. TypeOK'
    BY <1>1 DEF Modes
  <1>3. SpinLockInv'
    BY <1>1 DEF SpinLockInv
  <1>4. CallersInv'
    BY <1>1 DEF CallersInv, Callers
  <1>5. OwnersInv'
    BY <1>1 DEF OwnersInv, SpinLockInv, Modes, Free
  <1>6. DequeInv'
    <2>1. waitDeque' = waitDeque /\ owners' = owners \cup {c} /\ mode' = mode
      BY <1>1 DEF LockTake, Enter, TypeOK
    <2>2. ~Queueing(c) /\ ~Queueing(c)' /\ \A d \in Ctx \ {c} : pc'[d] = pc[d]
      BY <1>1 DEF LockTake, Goto, TypeOK, Queueing
    <2>3. \A w \in Entries : Contains(waitDeque, w) => w.ctx # c /\ w.ctx \in Ctx
      BY <1>1, <2>2 DEF DequeInv, Entries
    <2>4. \A w \in Entries : Contains(waitDeque, w) =>
            w = Entry(w.ctx)' /\ Queueing(w.ctx)' /\ w.ctx \notin owners'
      BY <1>1, <2>1, <2>2, <2>3 DEF DequeInv, Entry, Queueing
    <2>5. \A d \in Ctx \ owners' : Queueing(d)' => Contains(waitDeque, Entry(d)')
      BY <1>1, <2>1, <2>2 DEF DequeInv, Entry, Queueing
    <2>6. ASSUME lockType' = "shared", NEW w \in Entries, Contains(waitDeque, w)
          PROVE  w.type = "unique"
      <3>1. waitDeque # <<>>
        BY <2>6 DEF Contains
      <3>2. lockType = "shared"
        BY <1>1, <2>6, <3>1 DEF LockTake, Enter, Free, DequeInv, OwnersInv
      <3> QED
        BY <1>1, <2>6, <3>2 DEF DequeInv
    <2> QED
      BY <1>1, <2>1, <2>4, <2>5, <2>6 DEF DequeInv
  <1>7. WaitingInv'
    BY <1>1 DEF WaitingInv, SpinLockInv, OwnersInv
  <1> QED
    BY <1>2, <1>3, <1>4, <1>5, <1>6, <1>7 DEF SharedInv

(* Not free: the spin goes on.                                              *)
LEMMA LockYieldInv ==
    ASSUME SharedInv, NEW c \in Ctx, LockYield(c)
    PROVE  SharedInv'
  <1> USE DEF TypeOK, LockYield, Goto, SpinUnlock
  <1>1. TypeOK /\ SpinLockInv /\ CallersInv /\ OwnersInv /\ DequeInv /\ WaitingInv
    BY DEF SharedInv
  <1>2. TypeOK'
    BY <1>1 DEF Modes
  <1>3. SpinLockInv'
    BY <1>1 DEF SpinLockInv
  <1>4. CallersInv'
    BY <1>1 DEF CallersInv, Callers
  <1>5. OwnersInv'
    BY <1>1 DEF OwnersInv, SpinLockInv, Modes
  <1>6. DequeInv'
    BY <1>1 DEF DequeInv, SpinLockInv, OwnersInv, Entry, Queueing, Entries
  <1>7. WaitingInv'
    BY <1>1 DEF WaitingInv, SpinLockInv, OwnersInv
  <1> QED
    BY <1>2, <1>3, <1>4, <1>5, <1>6, <1>7 DEF SharedInv

(* The spin is over: to the end of the queue.                               *)
LEMMA LockEnqueueInv ==
    ASSUME SharedInv, NEW c \in Ctx, LockEnqueue(c)
    PROVE  SharedInv'
  <1> USE DEF TypeOK, LockEnqueue, Goto
  <1>1. TypeOK /\ SpinLockInv /\ CallersInv /\ OwnersInv /\ DequeInv /\ WaitingInv
    BY DEF SharedInv
  <1>2. TypeOK'
    <2>1. Entry(c) \in Entries /\ waitDeque' = Append(waitDeque, Entry(c))
      BY <1>1 DEF LockEnqueue, TypeOK, Entry, Entries
    <2>2. waitDeque' \in Seq(Entries)
      BY <1>1, <2>1 DEF TypeOK
    <2> QED
      BY <1>1, <2>2 DEF TypeOK
  <1>3. SpinLockInv'
    BY <1>1 DEF SpinLockInv
  <1>4. CallersInv'
    BY <1>1 DEF CallersInv, Callers
  <1>5. OwnersInv'
    BY <1>1 DEF OwnersInv, SpinLockInv, Modes
  <1>6. DequeInv'
    <2>1. /\ waitDeque \in Seq(Entries) /\ Entry(c) \in Entries
          /\ waitDeque' = Append(waitDeque, Entry(c))
          /\ UNCHANGED <<owners, lockType, mode>> /\ ~Free(mode[c])
      BY <1>1 DEF LockEnqueue, TypeOK, Entry, Entries
    <2>2. /\ ~Queueing(c) /\ Queueing(c)' /\ c \notin owners
          /\ \A d \in Ctx \ {c} : pc'[d] = pc[d]
      BY <1>1 DEF LockEnqueue, Goto, TypeOK, Queueing, OwnersInv
    <2>3. \A e : Contains(waitDeque', e) <=> Contains(waitDeque, e) \/ e = Entry(c)
      BY <2>1, ContainsAppend
    <2>4. Entry(c).ctx = c /\ Entry(c).type = mode[c]
      BY DEF Entry
    <2>5. \A w \in Entries : Contains(waitDeque, w) => w.ctx # c /\ w.ctx \in Ctx
      BY <1>1, <2>2 DEF DequeInv, Entries
    <2>6. IsInjective(waitDeque')
      BY <1>1, <2>1, <2>4, <2>5, InjectiveAppend DEF DequeInv
    <2>7. \A w \in Entries : Contains(waitDeque', w) =>
            w = Entry(w.ctx)' /\ Queueing(w.ctx)' /\ w.ctx \notin owners'
      BY <1>1, <2>1, <2>2, <2>3, <2>4, <2>5 DEF DequeInv, Entry, Queueing
    <2>8. \A d \in Ctx \ owners' : Queueing(d)' => Contains(waitDeque', Entry(d)')
      BY <1>1, <2>1, <2>2, <2>3 DEF DequeInv, Entry, Queueing
    <2>9. owners' # {}
      BY <1>1, <2>1 DEF Free, OwnersInv, TypeOK, Modes
    <2>10. lockType' = "shared" =>
             \A w \in Entries : Contains(waitDeque', w) => w.type = "unique"
      BY <1>1, <2>1, <2>3, <2>4 DEF Free, DequeInv, TypeOK, Modes
    <2> QED
      BY <2>6, <2>7, <2>8, <2>9, <2>10 DEF DequeInv
  <1>7. WaitingInv'
    BY <1>1 DEF WaitingInv, SpinLockInv, OwnersInv
  <1> QED
    BY <1>2, <1>3, <1>4, <1>5, <1>6, <1>7 DEF SharedInv

(* Not an owner yet: the wait flag.                                         *)
LEMMA LockWaitInv ==
    ASSUME SharedInv, NEW c \in Ctx, LockWait(c)
    PROVE  SharedInv'
  <1> USE DEF TypeOK, LockWait, Goto
  <1>1. TypeOK /\ SpinLockInv /\ CallersInv /\ OwnersInv /\ DequeInv /\ WaitingInv
    BY DEF SharedInv
  <1>2. TypeOK'
    BY <1>1 DEF Modes
  <1>3. SpinLockInv'
    BY <1>1 DEF SpinLockInv
  <1>4. CallersInv'
    BY <1>1 DEF CallersInv, Callers
  <1>5. OwnersInv'
    BY <1>1 DEF OwnersInv, SpinLockInv, Modes
  <1>6. DequeInv'
    BY <1>1 DEF DequeInv, SpinLockInv, OwnersInv, Entry, Queueing, Entries
  <1>7. WaitingInv'
    BY <1>1 DEF WaitingInv, SpinLockInv, OwnersInv
  <1> QED
    BY <1>2, <1>3, <1>4, <1>5, <1>6, <1>7 DEF SharedInv

(* The spin lock is released, and the coroutine sleeps.                     *)
LEMMA LockSleepInv ==
    ASSUME SharedInv, NEW c \in Ctx, LockSleep(c)
    PROVE  SharedInv'
  <1> USE DEF TypeOK, LockSleep, Goto, SpinUnlock
  <1>1. TypeOK /\ SpinLockInv /\ CallersInv /\ OwnersInv /\ DequeInv /\ WaitingInv
    BY DEF SharedInv
  <1>2. TypeOK'
    BY <1>1 DEF Modes
  <1>3. SpinLockInv'
    BY <1>1 DEF SpinLockInv
  <1>4. CallersInv'
    BY <1>1 DEF CallersInv, Callers
  <1>5. OwnersInv'
    BY <1>1 DEF OwnersInv, SpinLockInv, Modes
  <1>6. DequeInv'
    BY <1>1 DEF DequeInv, SpinLockInv, OwnersInv, Entry, Queueing, Entries
  <1>7. WaitingInv'
    BY <1>1 DEF WaitingInv, SpinLockInv, OwnersInv
  <1> QED
    BY <1>2, <1>3, <1>4, <1>5, <1>6, <1>7 DEF SharedInv

(* Woken: the spin lock again.                                              *)
LEMMA LockWakeInv ==
    ASSUME SharedInv, NEW c \in Ctx, LockWake(c)
    PROVE  SharedInv'
  <1> USE DEF TypeOK, LockWake, Goto, SpinLock
  <1>1. TypeOK /\ SpinLockInv /\ CallersInv /\ OwnersInv /\ DequeInv /\ WaitingInv
    BY DEF SharedInv
  <1>2. TypeOK'
    BY <1>1 DEF Modes
  <1>3. SpinLockInv'
    BY <1>1 DEF SpinLockInv
  <1>4. CallersInv'
    BY <1>1 DEF CallersInv, Callers
  <1>5. OwnersInv'
    BY <1>1 DEF OwnersInv, SpinLockInv, Modes
  <1>6. DequeInv'
    BY <1>1 DEF DequeInv, SpinLockInv, OwnersInv, Entry, Queueing, Entries
  <1>7. WaitingInv'
    BY <1>1 DEF WaitingInv, SpinLockInv, OwnersInv
  <1> QED
    BY <1>2, <1>3, <1>4, <1>5, <1>6, <1>7 DEF SharedInv

(* An owner by now: in.                                                     *)
LEMMA LockGrantedInv ==
    ASSUME SharedInv, NEW c \in Ctx, LockGranted(c)
    PROVE  SharedInv'
  <1> USE DEF TypeOK, LockGranted, Goto, SpinUnlock
  <1>1. TypeOK /\ SpinLockInv /\ CallersInv /\ OwnersInv /\ DequeInv /\ WaitingInv
    BY DEF SharedInv
  <1>2. TypeOK'
    BY <1>1 DEF Modes
  <1>3. SpinLockInv'
    BY <1>1 DEF SpinLockInv
  <1>4. CallersInv'
    BY <1>1 DEF CallersInv, Callers
  <1>5. OwnersInv'
    BY <1>1 DEF OwnersInv, SpinLockInv, Modes
  <1>6. DequeInv'
    BY <1>1 DEF DequeInv, SpinLockInv, OwnersInv, Entry, Queueing, Entries
  <1>7. WaitingInv'
    BY <1>1 DEF WaitingInv, SpinLockInv, OwnersInv
  <1> QED
    BY <1>2, <1>3, <1>4, <1>5, <1>6, <1>7 DEF SharedInv

(* try_lock() or try_lock_shared() with success.                            *)
LEMMA TryLockInv ==
    ASSUME SharedInv, NEW c \in Ctx, NEW m \in Modes, TryLock(c, m)
    PROVE  SharedInv'
  <1> USE DEF TypeOK, TryLock, Goto, Enter
  <1>1. TypeOK /\ SpinLockInv /\ CallersInv /\ OwnersInv /\ DequeInv /\ WaitingInv
    BY DEF SharedInv
  <1>2. TypeOK'
    BY <1>1 DEF Modes
  <1>3. SpinLockInv'
    BY <1>1 DEF SpinLockInv
  <1>4. CallersInv'
    BY <1>1 DEF CallersInv, Callers
  <1>5. OwnersInv'
    BY <1>1 DEF OwnersInv, SpinLockInv, Modes, Free
  <1>6. DequeInv'
    <2>1. waitDeque' = waitDeque /\ owners' = owners \cup {c} /\ \A d \in Ctx \ {c} : mode'[d] = mode[d]
      BY <1>1 DEF TryLock, Enter, TypeOK
    <2>2. ~Queueing(c) /\ ~Queueing(c)' /\ \A d \in Ctx \ {c} : pc'[d] = pc[d]
      BY <1>1 DEF TryLock, Goto, TypeOK, Queueing
    <2>3. \A w \in Entries : Contains(waitDeque, w) => w.ctx # c /\ w.ctx \in Ctx
      BY <1>1, <2>2 DEF DequeInv, Entries
    <2>4. \A w \in Entries : Contains(waitDeque, w) =>
            w = Entry(w.ctx)' /\ Queueing(w.ctx)' /\ w.ctx \notin owners'
      BY <1>1, <2>1, <2>2, <2>3 DEF DequeInv, Entry, Queueing
    <2>5. \A d \in Ctx \ owners' : Queueing(d)' => Contains(waitDeque, Entry(d)')
      BY <1>1, <2>1, <2>2 DEF DequeInv, Entry, Queueing
    <2>6. ASSUME lockType' = "shared", NEW w \in Entries, Contains(waitDeque, w)
          PROVE  w.type = "unique"
      <3>1. waitDeque # <<>>
        BY <2>6 DEF Contains
      <3>2. lockType = "shared"
        BY <1>1, <2>6, <3>1 DEF TryLock, Enter, Free, DequeInv, OwnersInv
      <3> QED
        BY <1>1, <2>6, <3>2 DEF DequeInv
    <2> QED
      BY <1>1, <2>1, <2>4, <2>5, <2>6 DEF DequeInv
  <1>7. WaitingInv'
    BY <1>1 DEF WaitingInv, SpinLockInv, OwnersInv
  <1> QED
    BY <1>2, <1>3, <1>4, <1>5, <1>6, <1>7 DEF SharedInv

(* unlock() by somebody who has nothing to unlock.                          *)
LEMMA UnlockThrowInv ==
    ASSUME SharedInv, NEW c \in Ctx, NEW m \in Modes, UnlockThrow(c, m)
    PROVE  SharedInv'
  <1> USE DEF TypeOK, UnlockThrow
  <1>1. TypeOK /\ SpinLockInv /\ CallersInv /\ OwnersInv /\ DequeInv /\ WaitingInv
    BY DEF SharedInv
  <1>2. TypeOK'
    BY <1>1 DEF Modes
  <1>3. SpinLockInv'
    BY <1>1 DEF SpinLockInv
  <1>4. CallersInv'
    BY <1>1 DEF CallersInv, Callers
  <1>5. OwnersInv'
    BY <1>1 DEF OwnersInv, SpinLockInv, Modes
  <1>6. DequeInv'
    BY <1>1 DEF DequeInv, SpinLockInv, OwnersInv, Entry, Queueing, Entries
  <1>7. WaitingInv'
    BY <1>1 DEF WaitingInv, SpinLockInv, OwnersInv
  <1> QED
    BY <1>2, <1>3, <1>4, <1>5, <1>6, <1>7 DEF SharedInv

-----------------------------------------------------------------------------
(* Whoever is not mixed: writers among themselves, or one of them with any  *)
(* number of readers.                                                       *)
NotMixed == Readers = {} \/ \A a, b \in Writers : a = b

(* Then the queue never holds both kinds: a queued writer would be the only *)
(* one, and own the lock.                                                   *)
LEMMA OneKindQueued ==
    ASSUME SharedInv, NotMixed,
           NEW v \in Entries, NEW w \in Entries,
           Contains(waitDeque, v), Contains(waitDeque, w)
    PROVE  v.type = w.type
  <1>1. TypeOK /\ CallersInv /\ OwnersInv /\ DequeInv
    BY DEF SharedInv
  <1>2. SUFFICES ASSUME NEW u \in Entries, NEW r \in Entries,
                        Contains(waitDeque, u), Contains(waitDeque, r),
                        u.type = "unique", r.type = "shared"
                 PROVE  FALSE
    BY DEF Entries, Modes
  <1>3. /\ u.ctx \in Ctx /\ mode[u.ctx] = "unique" /\ Queueing(u.ctx) /\ u.ctx \notin owners
        /\ r.ctx \in Ctx /\ mode[r.ctx] = "shared" /\ Queueing(r.ctx)
    BY <1>1, <1>2 DEF DequeInv, Entries, Entry
  <1>4. u.ctx \in Writers /\ r.ctx \in Readers
    BY <1>1, <1>3 DEF CallersInv, Callers, Queueing
  <1>5. \A a, b \in Writers : a = b
    BY <1>4 DEF NotMixed
  <1>6. waitDeque # <<>>
    BY <1>2 DEF Contains
  <1>7. PICK o \in owners : TRUE
    BY <1>1, <1>6 DEF DequeInv
  <1>8. lockType # "shared" /\ lockType # "unlocked"
    BY <1>1, <1>2, <1>7 DEF DequeInv, OwnersInv
  <1>9. mode[o] = "unique" /\ pc[o] # "out" /\ o \in Ctx
    BY <1>1, <1>7, <1>8 DEF OwnersInv, TypeOK, Modes
  <1>10. o \in Writers
    BY <1>1, <1>9 DEF CallersInv, Callers
  <1> QED
    BY <1>3, <1>4, <1>5, <1>7, <1>10

(* So whoever is woken up by the last owner is the head of the queue alone, *)
(* a writer, or all of it, readers.                                         *)
LEMMA Handed ==
    ASSUME SharedInv, NotMixed, waitDeque # <<>>, Head(waitDeque).type = "shared"
    PROVE  Kept = <<>> /\ Rest = waitDeque
  <1>1. waitDeque \in Seq(Entries) /\ Len(waitDeque) \in Nat
    BY DEF SharedInv, TypeOK
  <1>2. Head(waitDeque) \in Entries /\ Contains(waitDeque, Head(waitDeque))
    BY <1>1, ContainsHead
  <1>3. \A e \in Entries : Contains(waitDeque, e) => e.type = "shared"
    BY <1>2, OneKindQueued
  <1>4. /\ Kept \in Seq(Entries)
        /\ \A e : Contains(Kept, e) <=> Contains(waitDeque, e) /\ e \in [type : {"unique"}, ctx : Ctx]
    <2> DEFINE U == [type : {"unique"}, ctx : Ctx]
    <2>1. Kept = Only(waitDeque, U)
      BY DEF Kept
    <2> HIDE DEF U
    <2>2. /\ Only(waitDeque, U) \in Seq(Entries)
          /\ \A e : Contains(Only(waitDeque, U), e) <=> Contains(waitDeque, e) /\ e \in U
      BY <1>1, OnlyMembers
    <2>3. Kept \in Seq(Entries) /\ \A e : Contains(Kept, e) <=> Contains(waitDeque, e) /\ e \in U
      BY <2>1, <2>2
    <2> QED
      BY <2>3 DEF U
  <1>5. \A e \in [type : {"unique"}, ctx : Ctx] : e \in Entries /\ e.type # "shared"
    BY DEF Entries, Modes
  <1>6. \A e : ~Contains(Kept, e)
    BY <1>3, <1>4, <1>5
  <1>7. Kept = <<>>
    BY <1>4, <1>6, ContainsHead
  <1> QED
    BY <1>1, <1>7 DEF Rest

(* What is left of the owners is not empty: nobody is woken.                *)
LEMMA UnlockOthersInv ==
    ASSUME SharedInv, NEW c \in Ctx, Unlock(c), owners \ {c} # {}
    PROVE  SharedInv'
  <1>1. TypeOK /\ SpinLockInv /\ CallersInv /\ OwnersInv /\ DequeInv /\ WaitingInv
    BY DEF SharedInv
  <1>2. /\ UNCHANGED <<lockType, waitDeque, waiting, spinlock, mode>>
        /\ owners' = owners \ {c}
        /\ pc[c] = "in" /\ pc' = [pc EXCEPT ![c] = "out"]
    BY DEF Unlock, WakeUpWaiters, Goto
  <1>3. TypeOK'
    BY <1>1, <1>2 DEF TypeOK
  <1>4. SpinLockInv' /\ CallersInv'
    BY <1>1, <1>2 DEF TypeOK, SpinLockInv, CallersInv, Callers
  <1>5. OwnersInv'
    BY <1>1, <1>2 DEF TypeOK, OwnersInv
  <1>6. DequeInv'
    BY <1>1, <1>2 DEF TypeOK, DequeInv, Entry, Queueing, Entries
  <1>7. WaitingInv'
    BY <1>1, <1>2 DEF TypeOK, WaitingInv
  <1> QED
    BY <1>3, <1>4, <1>5, <1>6, <1>7 DEF SharedInv

(* The last owner leaves, and nobody waits. *)
LEMMA UnlockFreeInv ==
    ASSUME SharedInv, NEW c \in Ctx, Unlock(c), owners \ {c} = {}, waitDeque = <<>>
    PROVE  SharedInv'
  <1>1. TypeOK /\ SpinLockInv /\ CallersInv /\ OwnersInv /\ DequeInv /\ WaitingInv
    BY DEF SharedInv
  <1>2. /\ UNCHANGED <<waitDeque, waiting, spinlock, mode>>
        /\ owners' = {} /\ lockType' = "unlocked"
        /\ pc[c] = "in" /\ pc' = [pc EXCEPT ![c] = "out"]
        /\ owners = {c}
    BY DEF Unlock, WakeUpWaiters, Goto
  <1>3. TypeOK'
    BY <1>1, <1>2 DEF TypeOK
  <1>4. SpinLockInv' /\ CallersInv'
    BY <1>1, <1>2 DEF TypeOK, SpinLockInv, CallersInv, Callers
  <1>5. OwnersInv'
    BY <1>1, <1>2 DEF TypeOK, OwnersInv
  <1>6. DequeInv'
    BY <1>1, <1>2 DEF TypeOK, DequeInv, Entry, Queueing, Entries
  <1>7. WaitingInv'
    BY <1>1, <1>2 DEF TypeOK, WaitingInv
  <1> QED
    BY <1>3, <1>4, <1>5, <1>6, <1>7 DEF SharedInv

(* The last owner hands the lock over, to the set "next" of those queued    *)
(* under "type"; the queue keeps the others.                                *)
LEMMA HandOverInv ==
    ASSUME SharedInv, NEW c \in Ctx, NEW type \in Modes, NEW next,
           pc[c] = "in", pc' = [pc EXCEPT ![c] = "out"], spinlock = NoCtx,
           UNCHANGED <<spinlock, mode>>, owners = {c},
           lockType' = type, owners' = next, waiting' = waiting \ next,
           next # {},
           \A d \in next : d \in Ctx /\ Queueing(d) /\ d # c /\ mode[d] = type,
           type = "unique" => \A d, e \in next : d = e,
           type = "shared" => waitDeque' = <<>>,
           waitDeque' \in Seq(Entries), IsInjective(waitDeque'),
           \A w \in Entries : Contains(waitDeque', w) <=> Contains(waitDeque, w) /\ w.ctx \notin next
    PROVE  SharedInv'
  <1>1. TypeOK /\ SpinLockInv /\ CallersInv /\ OwnersInv /\ DequeInv /\ WaitingInv
    BY DEF SharedInv
  <1>2. TypeOK'
    BY <1>1 DEF TypeOK
  <1>3. SpinLockInv' /\ CallersInv'
    BY <1>1 DEF TypeOK, SpinLockInv, CallersInv, Callers
  <1>4. \A d \in Ctx : pc[d] \notin {"check", "wait", "armed"}
    BY <1>1 DEF SpinLockInv
  <1>5. OwnersInv'
    BY <1>1, <1>4 DEF TypeOK, OwnersInv, Queueing, Modes
  <1>6. DequeInv'
    <2>1. \A w \in Entries : Contains(waitDeque', w) =>
            w = Entry(w.ctx)' /\ Queueing(w.ctx)' /\ w.ctx \notin owners'
      BY <1>1 DEF DequeInv, Entry, Queueing, Entries, TypeOK
    <2>2. \A d \in Ctx \ owners' : Queueing(d)' => Contains(waitDeque', Entry(d)')
      <3> SUFFICES ASSUME NEW d \in Ctx \ next, Queueing(d)'
                   PROVE  Contains(waitDeque', Entry(d))
        BY DEF Entry
      <3>1. d # c /\ Queueing(d)
        BY <1>1 DEF Queueing, TypeOK
      <3>2. Contains(waitDeque, Entry(d)) /\ Entry(d).ctx = d
        BY <1>1, <3>1 DEF DequeInv, Entry
      <3>3. Entry(d) \in Entries
        BY <1>1 DEF Entry, Entries, TypeOK
      <3> QED
        BY <3>2, <3>3
    <2>3. lockType' = "shared" =>
            \A w \in Entries : Contains(waitDeque', w) => w.type = "unique"
      BY DEF Contains
    <2> QED
      BY <2>1, <2>2, <2>3 DEF DequeInv
  <1>7. WaitingInv'
    BY <1>1 DEF TypeOK, WaitingInv
  <1> QED
    BY <1>2, <1>3, <1>5, <1>6, <1>7 DEF SharedInv

(* The last owner leaves somebody waiting.                                  *)
LEMMA UnlockHandOverInv ==
    ASSUME SharedInv, NotMixed, NEW c \in Ctx, Unlock(c), owners \ {c} = {}, waitDeque # <<>>
    PROVE  SharedInv'
  <1>1. TypeOK /\ OwnersInv /\ DequeInv
    BY DEF SharedInv
  <1>2. /\ pc[c] = "in" /\ pc' = [pc EXCEPT ![c] = "out"] /\ spinlock = NoCtx
        /\ UNCHANGED <<spinlock, mode>> /\ owners = {c}
    BY DEF Unlock, Goto
  <1>3. /\ waitDeque \in Seq(Entries) /\ Head(waitDeque) \in Entries
        /\ Tail(waitDeque) \in Seq(Entries) /\ Contains(waitDeque, Head(waitDeque))
    BY <1>1, ContainsHead DEF TypeOK
  <1>4. \A w \in Entries : Contains(waitDeque, w) =>
          w.ctx \in Ctx /\ Queueing(w.ctx) /\ w.ctx # c /\ mode[w.ctx] = w.type
    BY <1>1, <1>2 DEF DequeInv, Entries, Entry
  <1>5. CASE Head(waitDeque).type = "unique"
    <2> DEFINE h == Head(waitDeque)
    <2>1. /\ owners' = {h.ctx} /\ lockType' = "unique"
          /\ waitDeque' = Tail(waitDeque) /\ waiting' = waiting \ {h.ctx}
      BY <1>5 DEF Unlock, WakeUpWaiters
    <2>2. IsInjective(waitDeque')
      BY <1>1, <1>3, <2>1, InjectiveTail DEF DequeInv
    <2>3. \A w : Contains(waitDeque', w) <=> Contains(waitDeque, w) /\ w # h
      BY <1>1, <1>3, <2>1, ContainsTail DEF DequeInv
    <2>4. \A w \in Entries : Contains(waitDeque, w) => (w # h <=> w.ctx \notin {h.ctx})
      BY <1>1, <1>3 DEF DequeInv, Entry
    <2>5. \A d \in {h.ctx} : d \in Ctx /\ Queueing(d) /\ d # c /\ mode[d] = "unique"
      BY <1>3, <1>4, <1>5
    <2>6. \A w \in Entries : Contains(waitDeque', w) <=> Contains(waitDeque, w) /\ w.ctx \notin {h.ctx}
      BY <2>3, <2>4
    <2>7. waitDeque' \in Seq(Entries) /\ "unique" \in Modes
      BY <1>3, <2>1 DEF Modes
    <2> HIDE DEF h
    <2> QED
      BY <1>2, <2>1, <2>2, <2>5, <2>6, <2>7, HandOverInv
  <1>6. CASE Head(waitDeque).type = "shared"
    <2> DEFINE next == {w.ctx : w \in ToSet(waitDeque)}
    <2>1. Kept = <<>> /\ Rest = waitDeque
      BY <1>6, Handed
    <2>2. /\ owners' = next /\ lockType' = "shared"
          /\ waitDeque' = <<>> /\ waiting' = waiting \ next
      BY <1>6, <2>1 DEF Unlock, WakeUpWaiters
    <2>3. \A w : w \in ToSet(waitDeque) <=> w \in Entries /\ Contains(waitDeque, w)
      BY <1>3 DEF ToSet, Contains
    <2>4. \A w \in Entries : Contains(waitDeque, w) => w.type = "shared"
      BY <1>3, <1>6, OneKindQueued
    <2>5. \A d \in next : d \in Ctx /\ Queueing(d) /\ d # c /\ mode[d] = "shared"
      BY <1>4, <2>3, <2>4
    <2>6. next # {}
      BY <1>3, <2>3
    <2>7. \A w \in Entries : Contains(waitDeque, w) => w.ctx \in next
      BY <2>3
    <2>8. /\ \A w \in Entries : Contains(waitDeque', w) <=> Contains(waitDeque, w) /\ w.ctx \notin next
          /\ IsInjective(waitDeque') /\ waitDeque' \in Seq(Entries) /\ "shared" \in Modes
      BY <2>2, <2>7 DEF Contains, IsInjective, Modes
    <2> HIDE DEF next
    <2> QED
      BY <1>2, <2>2, <2>5, <2>6, <2>8, HandOverInv
  <1> QED
    BY <1>3, <1>5, <1>6 DEF Entries, Modes

(* Every step keeps the invariant.                                          *)
LEMMA NextSharedInv ==
    ASSUME NotMixed, SharedInv, [Next]_vars
    PROVE  SharedInv'
  <1>1. ASSUME NEW c \in Ctx, Locking(c) PROVE SharedInv'
    BY <1>1, LockCallInv, TryLockInv, LockSpinInv, LockTakeInv, LockYieldInv, LockEnqueueInv,
       LockWaitInv, LockSleepInv, LockWakeInv, LockGrantedInv DEF Locking
  <1>2. ASSUME NEW c \in Ctx, Unlocking(c) PROVE SharedInv'
    BY <1>2, UnlockOthersInv, UnlockFreeInv, UnlockHandOverInv, UnlockThrowInv DEF Unlocking
  <1>3. CASE UNCHANGED vars
    BY <1>3 DEF vars, SharedInv, TypeOK, SpinLockInv, CallersInv, OwnersInv, DequeInv, WaitingInv,
                Queueing, Entry
  <1> QED
    BY <1>1, <1>2, <1>3 DEF Next

-----------------------------------------------------------------------------
(* The inductive invariant of CoSharedMutex.                                *)
THEOREM SharedInvariance ==
    ASSUME NotMixed
    PROVE  SafeSpec => []SharedInv
  <1>1. SharedInv /\ [Next]_vars => SharedInv'
    BY NextSharedInv
  <1> QED
    BY InitSharedInv, <1>1, PTL DEF SafeSpec

(* A writer that is in is in alone (co_shared_mutex.cpp:22-26, 107).        *)
THEOREM SharedExclusion ==
    ASSUME NotMixed
    PROVE  SafeSpec => []WriterExcludes
  <1>1. SharedInv => WriterExcludes
    BY DEF SharedInv, OwnersInv, WriterExcludes, In
  <1> QED
    BY <1>1, SharedInvariance, PTL

(* Whoever sleeps is queued as it asked, behind an owner that is awake      *)
(* (lines 55-61, 140-146).                                                  *)
THEOREM SharedWakeupsArrive ==
    ASSUME NotMixed
    PROVE  SafeSpec => []NoLostWakeup
  <1>1. ASSUME SharedInv PROVE NoLostWakeup
    <2> SUFFICES ASSUME NEW c \in waiting
                 PROVE  Contains(waitDeque, Entry(c)) /\ owners \ waiting # {}
      BY DEF NoLostWakeup, Entry
    <2>1. TypeOK /\ DequeInv /\ WaitingInv
      BY <1>1 DEF SharedInv
    <2>2. c \in Ctx \ owners /\ Queueing(c)
      BY <2>1 DEF TypeOK, WaitingInv, Queueing
    <2>3. Contains(waitDeque, Entry(c))
      BY <2>1, <2>2 DEF DequeInv
    <2>4. owners # {}
      BY <2>1, <2>3 DEF DequeInv, Contains
    <2>5. owners \cap waiting = {}
      BY <2>1 DEF WaitingInv
    <2> QED
      BY <2>3, <2>4, <2>5
  <1> QED
    BY <1>1, SharedInvariance, PTL

(* When the last owner goes, the head of the queue follows, alone or with   *)
(* other readers (wake_up_waiters__, line 187).                             *)
THEOREM SharedHeadFollows ==
    ASSUME NotMixed
    PROVE  SafeSpec => HeadFollows
  <1>1. ASSUME SharedInv, [Next]_vars PROVE [HandOver]_vars
    <2> SUFFICES ASSUME owners \cap owners' = {}, owners # {}, waitDeque # <<>>
                 PROVE  /\ Head(waitDeque).ctx \in owners'
                        /\ \A i \in 1..Len(waitDeque) :
                             waitDeque[i].ctx \in owners' => i = 1 \/ waitDeque[i].type = "shared"
      BY DEF HandOver
    <2>1. TypeOK /\ DequeInv /\ waitDeque \in Seq(Entries)
      BY <1>1 DEF SharedInv, TypeOK
    <2>2. ~(UNCHANGED vars)
      BY DEF vars
    <2>3. \A c \in Ctx : ~Locking(c)
      BY DEF Locking, LockCall, TryLock, LockSpin, LockTake, LockYield, LockEnqueue, LockWait,
             LockSleep, LockWake, LockGranted, Enter
    <2>4. \A c \in Ctx, m \in Modes : ~UnlockThrow(c, m)
      BY DEF UnlockThrow
    <2>5. PICK c \in Ctx : Unlock(c)
      BY <1>1, <2>2, <2>3, <2>4 DEF Next, Unlocking
    <2>6. owners \ {c} = {}
      BY <2>5 DEF Unlock, WakeUpWaiters
    <2>7. /\ Head(waitDeque) \in Entries /\ Contains(waitDeque, Head(waitDeque))
          /\ Head(waitDeque) = waitDeque[1] /\ Len(waitDeque) \in Nat /\ 1 \in 1..Len(waitDeque)
          /\ \A i \in 1..Len(waitDeque) : waitDeque[i] \in Entries /\ Contains(waitDeque, waitDeque[i])
      BY <2>1, ContainsHead DEF Contains
    <2>8. CASE Head(waitDeque).type = "unique"
      <3>1. owners' = {Head(waitDeque).ctx}
        BY <2>5, <2>6, <2>8 DEF Unlock, WakeUpWaiters
      <3>2. ASSUME NEW i \in 1..Len(waitDeque), waitDeque[i].ctx = Head(waitDeque).ctx
            PROVE  i = 1
        <4>1. waitDeque[i] = waitDeque[1]
          BY <2>1, <2>7, <3>2 DEF DequeInv
        <4> QED
          BY <2>1, <2>7, <4>1 DEF DequeInv, IsInjective
      <3> QED
        BY <3>1, <3>2
    <2>9. CASE Head(waitDeque).type = "shared"
      <3>1. Kept = <<>> /\ Rest = waitDeque
        BY <1>1, <2>9, Handed
      <3>2. owners' = {w.ctx : w \in ToSet(waitDeque)}
        BY <2>5, <2>6, <2>9, <3>1 DEF Unlock, WakeUpWaiters
      <3>3. Head(waitDeque) \in ToSet(waitDeque)
        BY <2>1, <2>7 DEF ToSet
      <3>4. \A i \in 1..Len(waitDeque) : waitDeque[i].type = "shared"
        BY <1>1, <2>7, <2>9, OneKindQueued
      <3> QED
        BY <3>2, <3>3, <3>4
    <2> QED
      BY <2>7, <2>8, <2>9 DEF Entries, Modes
  <1>2. SharedInv /\ [Next]_vars => [HandOver]_vars
    BY <1>1
  <1> QED
    BY <1>2, SharedInvariance, PTL DEF SafeSpec, HeadFollows
-----------------------------------------------------------------------------
(* That co_shared_mutex implements ReadWriteLock. *)

(* Who holds the lock and who asks for it, in terms of CoSharedMutex.       *)
LEMMA Places ==
    ASSUME SharedInv
    PROVE  /\ Owning("shared") \cup Owning("unique") = owners
           /\ \A c \in Ctx : pc[c] = "out" =>
                /\ c \notin owners
                /\ c \notin Asking("shared") \cup Asking("unique")
  <1>1. OwnersInv /\ lockType \in Modes \cup {"unlocked"}
    BY DEF SharedInv, TypeOK
  <1> QED
    BY <1>1 DEF OwnersInv, Owning, Asking, Modes

(* A new lock is free, and nobody asks for it.                              *)
LEMMA InitImplements == Init => L!Init
  BY DEF Init, L!Init, Owning, Asking

(* lock() and lock_shared() are called. *)
LEMMA LockCallImplements ==
    ASSUME SharedInv, NEW c \in Ctx, NEW m \in Modes, LockCall(c, m)
    PROVE  L!AskToRead(c) \/ L!AskToWrite(c)
  <1>1. TypeOK
    BY DEF SharedInv
  <1>2. /\ pc[c] = "out" /\ pc' = [pc EXCEPT ![c] = "spin"]
        /\ mode' = [mode EXCEPT ![c] = m] /\ UNCHANGED <<owners, lockType>>
    BY DEF LockCall, Goto
  <1>3. c \notin owners /\ L!Idle(c)
    BY <1>2, Places DEF L!Idle, L!Holding
  <1>4. \A k \in Modes : Owning(k)' = Owning(k)
    BY <1>2 DEF Owning
  <1>5. Asking(m)' = Asking(m) \cup {c}
    BY <1>1, <1>2, <1>3 DEF Asking, TypeOK
  <1>6. \A k \in Modes \ {m} : Asking(k)' = Asking(k)
    BY <1>1, <1>2, <1>3 DEF Asking, TypeOK
  <1> QED
    BY <1>3, <1>4, <1>5, <1>6 DEF L!AskToRead, L!AskToWrite, Modes

(* The spin of lock() or lock_shared() finds the lock free for it.          *)
LEMMA LockTakeImplements ==
    ASSUME SharedInv, NEW c \in Ctx, LockTake(c)
    PROVE  L!Read(c) \/ L!Write(c)
  <1>1. TypeOK /\ OwnersInv
    BY DEF SharedInv
  <1>2. /\ pc[c] = "check" /\ pc' = [pc EXCEPT ![c] = "in"]
        /\ Free(mode[c]) /\ owners' = owners \cup {c} /\ lockType' = mode[c]
        /\ UNCHANGED mode
    BY DEF LockTake, Goto, Enter
  <1>3. c \notin owners /\ mode[c] \in Modes
    BY <1>1, <1>2 DEF OwnersInv, TypeOK
  <1>4. c \in Asking(mode[c])
    BY <1>2, <1>3 DEF Asking
  <1>5. \A k \in Modes : Asking(k)' = Asking(k) \ {c}
    BY <1>1, <1>2 DEF Asking, TypeOK
  <1>6. \A k \in Modes \ {mode[c]} : c \notin Asking(k)
    BY DEF Asking
  <1>7. CASE mode[c] = "shared"
    <2>1. lockType \in {"shared", "unlocked"} /\ lockType' = "shared"
      BY <1>2, <1>7 DEF Free
    <2>2. Owning("unique") = {} /\ Owning("unique")' = {}
      BY <2>1 DEF Owning
    <2>3. Owning("shared") = owners
      BY <2>2, Places
    <2>4. Owning("shared")' = owners \cup {c}
      BY <1>2, <2>1 DEF Owning
    <2> QED
      BY <1>4, <1>5, <1>6, <1>7, <2>2, <2>3, <2>4 DEF L!Read, Modes
  <1>8. CASE mode[c] = "unique"
    <2>1. owners = {} /\ lockType' = "unique"
      BY <1>2, <1>8 DEF Free
    <2>2. Owning("unique") = {} /\ Owning("shared") = {} /\ Owning("shared")' = {}
      BY <2>1 DEF Owning
    <2>3. Owning("unique")' = {c}
      BY <1>2, <2>1 DEF Owning
    <2> QED
      BY <1>4, <1>5, <1>6, <1>8, <2>2, <2>3 DEF L!Write, L!Holding, Modes
  <1> QED
    BY <1>3, <1>7, <1>8 DEF Modes

(* try_lock() or try_lock_shared() succeeds.                                *)
LEMMA TryLockImplements ==
    ASSUME SharedInv, NEW c \in Ctx, NEW m \in Modes, TryLock(c, m)
    PROVE  L!TryRead(c) \/ L!TryWrite(c)
  <1>1. TypeOK
    BY DEF SharedInv
  <1>2. /\ pc[c] = "out" /\ pc' = [pc EXCEPT ![c] = "in"]
        /\ Free(m) /\ owners' = owners \cup {c} /\ lockType' = m
        /\ mode' = [mode EXCEPT ![c] = m]
    BY DEF TryLock, Goto, Enter
  <1>3. L!Idle(c)
    BY <1>2, Places DEF L!Idle, L!Holding
  <1>4. \A k \in Modes : Asking(k)' = Asking(k)
    BY <1>1, <1>2 DEF Asking, TypeOK
  <1>5. CASE m = "shared"
    <2>1. lockType \in {"shared", "unlocked"} /\ lockType' = "shared"
      BY <1>2, <1>5 DEF Free
    <2>2. Owning("unique") = {} /\ Owning("unique")' = {}
      BY <2>1 DEF Owning
    <2>3. Owning("shared") = owners
      BY <2>2, Places
    <2>4. Owning("shared")' = owners \cup {c}
      BY <1>2, <2>1 DEF Owning
    <2> QED
      BY <1>3, <1>4, <2>2, <2>3, <2>4 DEF L!TryRead, Modes
  <1>6. CASE m = "unique"
    <2>1. owners = {} /\ lockType' = "unique"
      BY <1>2, <1>6 DEF Free
    <2>2. Owning("unique") = {} /\ Owning("shared") = {} /\ Owning("shared")' = {}
      BY <2>1 DEF Owning
    <2>3. Owning("unique")' = {c}
      BY <1>2, <2>1 DEF Owning
    <2> QED
      BY <1>3, <1>4, <2>2, <2>3 DEF L!TryWrite, L!Holding, Modes
  <1> QED
    BY <1>5, <1>6 DEF Modes

(* What is between asking and owning, and an unlock() that throws, is not   *)
(* seen from outside.                                                       *)
LEMMA HiddenSteps ==
    ASSUME SharedInv, NEW c \in Ctx,
           \/ LockSpin(c) \/ LockYield(c) \/ LockEnqueue(c) \/ LockWait(c)
           \/ LockSleep(c) \/ LockWake(c) \/ LockGranted(c)
           \/ \E m \in Modes : UnlockThrow(c, m)
    PROVE  UNCHANGED L!vars
  <1>1. TypeOK /\ OwnersInv
    BY DEF SharedInv
  <1>2. UNCHANGED <<owners, lockType, mode>>
    BY DEF LockSpin, LockYield, LockEnqueue, LockWait, LockSleep, LockWake, LockGranted,
           UnlockThrow
  <1>3. \A d \in Ctx \ owners : pc'[d] \in {"out", "in"} <=> pc[d] \in {"out", "in"}
    BY <1>1 DEF TypeOK, LockSpin, LockYield, LockEnqueue, LockWait, LockSleep, LockWake,
                LockGranted, UnlockThrow, Goto
  <1>4. \A k \in Modes : Asking(k)' = Asking(k) /\ Owning(k)' = Owning(k)
    BY <1>1, <1>2, <1>3 DEF Asking, Owning, TypeOK
  <1> QED
    BY <1>4 DEF L!vars, Modes

(* unlock() or unlock_shared() by an owner that leaves others, or nobody.   *)
LEMMA LeaveImplements ==
    ASSUME SharedInv, NEW c \in Ctx, Unlock(c), owners \ {c} # {} \/ waitDeque = <<>>
    PROVE  L!Leave(c)
  <1>1. TypeOK /\ OwnersInv
    BY DEF SharedInv
  <1>2. /\ pc[c] = "in" /\ pc' = [pc EXCEPT ![c] = "out"] /\ c \in owners
        /\ owners' = owners \ {c} /\ UNCHANGED mode
    BY DEF Unlock, WakeUpWaiters, Goto
  <1>3. lockType' = IF owners' = {} THEN "unlocked" ELSE lockType
    BY DEF Unlock, WakeUpWaiters
  <1>4. \A k \in Modes : Owning(k)' = Owning(k) \ {c}
    BY <1>2, <1>3 DEF Owning, Modes
  <1>5. \A k \in Modes : Asking(k)' = Asking(k)
    BY <1>1, <1>2 DEF Asking, TypeOK
  <1>6. c \in L!Holding
    BY <1>2, Places DEF L!Holding
  <1> QED
    BY <1>4, <1>5, <1>6 DEF L!Leave, Modes

(* It is handed on to the writer at the head of the queue, or to all that   *)
(* queue, readers.                                                          *)
LEMMA HandOnImplements ==
    ASSUME SharedInv, NotMixed, NEW c \in Ctx, Unlock(c), owners \ {c} = {}, waitDeque # <<>>
    PROVE  \/ \E d \in Ctx : L!HandToWriter(c, d)
           \/ \E next \in SUBSET Ctx : L!HandToReaders(c, next)
  <1>1. TypeOK /\ DequeInv
    BY DEF SharedInv
  <1>2. /\ pc[c] = "in" /\ pc' = [pc EXCEPT ![c] = "out"] /\ mode' = mode /\ owners = {c}
    BY DEF Unlock, Goto
  <1>3. /\ waitDeque \in Seq(Entries) /\ Head(waitDeque) \in Entries
        /\ Contains(waitDeque, Head(waitDeque))
    BY <1>1, ContainsHead DEF TypeOK
  <1>4. \A w \in Entries : Contains(waitDeque, w) =>
          w.ctx \in Ctx /\ Queueing(w.ctx) /\ w.ctx # c /\ mode[w.ctx] = w.type
    BY <1>1, <1>2 DEF DequeInv, Entries, Entry
  <1>5. CASE Head(waitDeque).type = "unique"
    <2> DEFINE d == Head(waitDeque).ctx
    <2>1. owners' = {d} /\ lockType' = "unique"
      BY <1>5 DEF Unlock, WakeUpWaiters
    <2>2. d \in Ctx /\ Queueing(d) /\ d # c /\ mode[d] = "unique"
      BY <1>3, <1>4, <1>5
    <2> HIDE DEF d
    <2>3. L!Holding = {c}
      BY <1>2, Places DEF L!Holding
    <2>4. d \in Asking("unique") /\ d \notin Asking("shared")
      BY <1>2, <2>2 DEF Asking, Queueing
    <2>5. Asking("unique")' = Asking("unique") \ {d} /\ Asking("shared")' = Asking("shared")
      BY <1>1, <1>2, <2>1, <2>2 DEF Asking, TypeOK
    <2>6. Owning("shared")' = {} /\ Owning("unique")' = {d}
      BY <2>1 DEF Owning
    <2>7. L!HandToWriter(c, d)
      BY <2>3, <2>4, <2>5, <2>6 DEF L!HandToWriter
    <2> QED
      BY <2>2, <2>7
  <1>6. CASE Head(waitDeque).type = "shared"
    <2> DEFINE next == {w.ctx : w \in ToSet(waitDeque)}
    <2>1. Rest = waitDeque
      BY <1>6, Handed
    <2>2. owners' = next /\ lockType' = "shared"
      BY <1>6, <2>1 DEF Unlock, WakeUpWaiters
    <2>3. \A w : w \in ToSet(waitDeque) <=> w \in Entries /\ Contains(waitDeque, w)
      BY <1>3 DEF ToSet, Contains
    <2>4. \A w \in Entries : Contains(waitDeque, w) => w.type = "shared"
      BY <1>3, <1>6, OneKindQueued
    <2>5. \A d \in next : d \in Ctx /\ Queueing(d) /\ d # c /\ mode[d] = "shared"
      BY <1>4, <2>3, <2>4
    <2>6. next # {}
      BY <1>3, <2>3
    <2> HIDE DEF next
    <2>7. L!Holding = {c}
      BY <1>2, Places DEF L!Holding
    <2>8. next \subseteq Asking("shared")
      BY <1>2, <2>5 DEF Asking, Queueing
    <2>9. Asking("shared")' = Asking("shared") \ next /\ Asking("unique")' = Asking("unique")
      BY <1>1, <1>2, <2>2, <2>5 DEF Asking, TypeOK
    <2>10. Owning("unique")' = {} /\ Owning("shared")' = next
      BY <2>2 DEF Owning
    <2>11. L!HandToReaders(c, next)
      BY <2>6, <2>7, <2>8, <2>9, <2>10 DEF L!HandToReaders
    <2> QED
      BY <2>5, <2>11
  <1> QED
    BY <1>3, <1>5, <1>6 DEF Entries, Modes

(* Every step of co_shared_mutex is a step of the lock it implements, or    *)
(* none.                                                                    *)
LEMMA NextImplements ==
    ASSUME NotMixed, SharedInv, [Next]_vars
    PROVE  [L!Next]_(L!vars)
  <1>1. ASSUME NEW c \in Ctx, Locking(c) PROVE [L!Next]_(L!vars)
    <2>1. CASE \E m \in Modes : LockCall(c, m)
      BY <2>1, LockCallImplements DEF L!Next
    <2>2. CASE LockTake(c)
      BY <2>2, LockTakeImplements DEF L!Next
    <2>3. CASE \E m \in Modes : TryLock(c, m)
      BY <2>3, TryLockImplements DEF L!Next
    <2>4. CASE \/ LockSpin(c) \/ LockYield(c) \/ LockEnqueue(c) \/ LockWait(c)
               \/ LockSleep(c) \/ LockWake(c) \/ LockGranted(c)
      BY <2>4, HiddenSteps
    <2> QED
      BY <1>1, <2>1, <2>2, <2>3, <2>4 DEF Locking
  <1>2. ASSUME NEW c \in Ctx, Unlocking(c) PROVE [L!Next]_(L!vars)
    <2>1. CASE Unlock(c) /\ (owners \ {c} # {} \/ waitDeque = <<>>)
      BY <2>1, LeaveImplements DEF L!Next
    <2>2. CASE Unlock(c) /\ owners \ {c} = {} /\ waitDeque # <<>>
      BY <2>2, HandOnImplements DEF L!Next
    <2>3. CASE \E m \in Modes : UnlockThrow(c, m)
      BY <2>3, HiddenSteps
    <2> QED
      BY <1>2, <2>1, <2>2, <2>3 DEF Unlocking
  <1>3. CASE UNCHANGED vars
    BY <1>3 DEF vars, L!vars, Owning, Asking
  <1> QED
    BY <1>1, <1>2, <1>3 DEF Next

(* co_shared_mutex implements a read-write lock: granted only as it was     *)
(* asked for, to readers together or to a writer alone, and handed on by    *)
(* its last holder to one writer or to readers (co_shared_mutex.cpp:15-218).*)
THEOREM SharedImplementation ==
    ASSUME NotMixed
    PROVE  SafeSpec => Implements
  <1>1. SharedInv /\ [Next]_vars => [L!Next]_(L!vars)
    BY NextImplements
  <1> QED
    BY InitImplements, <1>1, SharedInvariance, PTL DEF SafeSpec, Implements, L!Spec
=============================================================================
