--------------------------- MODULE CoSharedMutex ---------------------------
(***************************************************************************)
(* co_shared_mutex (sync/co_shared_mutex.cpp): a read-write lock.           *)
(*                                                                          *)
(* A set of owners and a lock type say who is in and how; one queue holds   *)
(* the coroutines that wait to read and to write.  Waiting works as in      *)
(* co_mutex: a 10ms spin, then the queue and the wait flag.  Readers enter  *)
(* at once while other readers are in, also past queued writers.            *)
(*                                                                          *)
(* Everything between taking and leaving the spin lock is one step, except  *)
(* that setting the wait flag is separate from leaving it: the flags are    *)
(* read by the scheduler alone, and who it lets run needs the spin lock.    *)
(***************************************************************************)
EXTENDS Naturals, Sequences, SequencesExt, Queues

CONSTANTS Ctx,      \* the coroutines that use the lock
          Writers,  \* those that call lock() and try_lock()
          Readers,  \* those that call lock_shared() and try_lock_shared()
          NoCtx     \* nobody holds the spin lock

ASSUME CtxAssumption ==
    /\ Writers \subseteq Ctx
    /\ Readers \subseteq Ctx
    /\ NoCtx \notin Ctx

VARIABLES owners,     \* owners__
          lockType,   \* lock_type__
          waitDeque,  \* wait_deque__
          spinlock,   \* who holds spinlock__, or NoCtx
          waiting,    \* the coroutines whose CO_CTX_FLAG_WAITING is set
          mode,       \* how each coroutine last asked for the lock
          pc          \* where each coroutine is

vars == <<owners, lockType, waitDeque, spinlock, waiting, mode, pc>>

Modes == {"unique", "shared"}

(* What the queue holds. *)
Entries == [type : Modes, ctx : Ctx]

TypeOK ==
    /\ owners \subseteq Ctx
    /\ lockType \in Modes \cup {"unlocked"}
    /\ waitDeque \in Seq(Entries)
    /\ spinlock \in Ctx \cup {NoCtx}
    /\ waiting \subseteq Ctx
    /\ mode \in [Ctx -> Modes]
    /\ pc \in [Ctx -> {"out", "spin", "check", "wait", "armed", "asleep", "in"}]

Init ==
    /\ owners = {}
    /\ lockType = "unlocked"
    /\ waitDeque = <<>>
    /\ spinlock = NoCtx
    /\ waiting = {}
    /\ mode = [c \in Ctx |-> "shared"]
    /\ pc = [c \in Ctx |-> "out"]

Goto(c, from, to) ==
    /\ pc[c] = from
    /\ pc' = [pc EXCEPT ![c] = to]

SpinLock(c) ==
    /\ spinlock = NoCtx
    /\ spinlock' = c

SpinUnlock(c) ==
    /\ spinlock = c
    /\ spinlock' = NoCtx

Callers(m) == IF m = "unique" THEN Writers ELSE Readers

(* Mutant of Free: a writer only looks out for other writers. *)
FreeOfWriters(m) == lockType \in {"shared", "unlocked"} \/ (m = "unique" /\ owners = {})

(* lock() wants no owner at all, lock_shared() no unique owner. *)
Free(m) ==
    IF m = "unique" THEN owners = {} ELSE lockType \in {"shared", "unlocked"}

Enter(c, m) ==
    /\ lockType' = m
    /\ owners' = owners \cup {c}

-----------------------------------------------------------------------------
(* lock() and lock_shared() *)

LockCall(c, m) ==
    /\ c \in Callers(m)
    /\ Goto(c, "out", "spin")
    /\ mode' = [mode EXCEPT ![c] = m]
    /\ UNCHANGED <<owners, lockType, waitDeque, spinlock, waiting>>

LockSpin(c) ==
    /\ Goto(c, "spin", "check")
    /\ SpinLock(c)
    /\ UNCHANGED <<owners, lockType, waitDeque, waiting, mode>>

LockTake(c) ==
    /\ Goto(c, "check", "in")
    /\ Free(mode[c])
    /\ Enter(c, mode[c])
    /\ SpinUnlock(c)
    /\ UNCHANGED <<waitDeque, waiting, mode>>

LockYield(c) ==
    /\ Goto(c, "check", "spin")
    /\ ~Free(mode[c])
    /\ SpinUnlock(c)
    /\ UNCHANGED <<owners, lockType, waitDeque, waiting, mode>>

(* Mutant of LockEnqueue: queues under the type the lock has, which may be   *)
(* unlocked by now.                                                         *)
LockEnqueueLockType(c) ==
    /\ Goto(c, "check", "wait")
    /\ waitDeque' = Append(waitDeque, [type |-> lockType, ctx |-> c])
    /\ UNCHANGED <<owners, lockType, spinlock, waiting, mode>>

LockEnqueue(c) ==
    /\ Goto(c, "check", "wait")
    /\ ~Free(mode[c])
    /\ waitDeque' = Append(waitDeque, [type |-> mode[c], ctx |-> c])
    /\ UNCHANGED <<owners, lockType, spinlock, waiting, mode>>

LockWait(c) ==
    /\ Goto(c, "wait", "armed")
    /\ c \notin owners
    /\ waiting' = waiting \cup {c}
    /\ UNCHANGED <<owners, lockType, waitDeque, spinlock, mode>>

LockSleep(c) ==
    /\ Goto(c, "armed", "asleep")
    /\ SpinUnlock(c)
    /\ UNCHANGED <<owners, lockType, waitDeque, waiting, mode>>

(* Mutant of LockWake: the woken coroutine asks again from the start. *)
LockWakeSpin(c) ==
    /\ Goto(c, "asleep", "check")
    /\ c \notin waiting
    /\ SpinLock(c)
    /\ UNCHANGED <<owners, lockType, waitDeque, waiting, mode>>

LockWake(c) ==
    /\ Goto(c, "asleep", "wait")
    /\ c \notin waiting
    /\ SpinLock(c)
    /\ UNCHANGED <<owners, lockType, waitDeque, waiting, mode>>

LockGranted(c) ==
    /\ Goto(c, "wait", "in")
    /\ c \in owners
    /\ SpinUnlock(c)
    /\ UNCHANGED <<owners, lockType, waitDeque, waiting, mode>>

-----------------------------------------------------------------------------
(* try_lock() and try_lock_shared(): one section under the spin lock. *)

TryLock(c, m) ==
    /\ c \in Callers(m)
    /\ spinlock = NoCtx
    /\ Free(m)
    /\ Goto(c, "out", "in")
    /\ Enter(c, m)
    /\ mode' = [mode EXCEPT ![c] = m]
    /\ UNCHANGED <<waitDeque, spinlock, waiting>>

-----------------------------------------------------------------------------
(* wake_up_waiters__ once the owners left are "left". *)

(* remove_if moves the elements that stay, the writers, to the front and     *)
(* leaves the rest of the deque as it was; the code takes that rest for the  *)
(* removed elements.                                                         *)
Kept == Only(waitDeque, [type : {"unique"}, ctx : Ctx])
Rest == SubSeq(waitDeque, Len(Kept) + 1, Len(waitDeque))

(* Mutant of WakeUpWaiters: serves the end of the queue before its head. *)
WakeUpLast(left) ==
    \/ /\ left # {}
       /\ owners' = left
       /\ UNCHANGED <<lockType, waitDeque, waiting>>
    \/ /\ left = {} /\ waitDeque = <<>>
       /\ owners' = {}
       /\ lockType' = "unlocked"
       /\ UNCHANGED <<waitDeque, waiting>>
    \/ /\ left = {} /\ waitDeque # <<>>
       /\ owners' = {Last(waitDeque).ctx}
       /\ lockType' = Last(waitDeque).type
       /\ waitDeque' = Front(waitDeque)
       /\ waiting' = waiting \ owners'

WakeUpWaiters(left) ==
    \/ /\ left # {}
       /\ owners' = left
       /\ UNCHANGED <<lockType, waitDeque, waiting>>
    \/ /\ left = {}
       /\ waitDeque = <<>>
       /\ owners' = {}
       /\ lockType' = "unlocked"
       /\ UNCHANGED <<waitDeque, waiting>>
    \/ /\ left = {}
       /\ waitDeque # <<>>
       /\ Head(waitDeque).type = "unique"
       /\ owners' = {Head(waitDeque).ctx}
       /\ lockType' = "unique"
       /\ waitDeque' = Tail(waitDeque)
       /\ waiting' = waiting \ {Head(waitDeque).ctx}
    \/ /\ left = {}
       /\ waitDeque # <<>>
       /\ Head(waitDeque).type = "shared"
       /\ owners' = {w.ctx : w \in ToSet(Rest)}
       /\ lockType' = "shared"
       /\ waitDeque' = Kept
       /\ waiting' = waiting \ owners'

(* Mutant of Unlock: the last reader leaves without a look at the queue. *)
UnlockNoWake(c) ==
    /\ spinlock = NoCtx
    /\ Goto(c, "in", "out")
    /\ lockType = mode[c]
    /\ c \in owners
    /\ owners' = owners \ {c}
    /\ lockType' = IF owners' = {} THEN "unlocked" ELSE lockType
    /\ UNCHANGED <<waitDeque, waiting, spinlock, mode>>

(* unlock() and unlock_shared() by a coroutine that is in. *)
Unlock(c) ==
    /\ spinlock = NoCtx
    /\ Goto(c, "in", "out")
    /\ lockType = mode[c]
    /\ c \in owners
    /\ WakeUpWaiters(owners \ {c})
    /\ UNCHANGED <<spinlock, mode>>

(* The same calls with m when the lock is not so owned: logic_error. *)
UnlockThrow(c, m) ==
    /\ spinlock = NoCtx
    /\ pc[c] \in {"in", "out"}
    /\ lockType # m \/ c \notin owners
    /\ pc' = [pc EXCEPT ![c] = IF m = mode[c] THEN "out" ELSE @]
    /\ UNCHANGED <<owners, lockType, waitDeque, spinlock, waiting, mode>>

-----------------------------------------------------------------------------
Locking(c) ==
    \/ \E m \in Modes : LockCall(c, m) \/ TryLock(c, m)
    \/ LockSpin(c)
    \/ LockTake(c)
    \/ LockYield(c)
    \/ LockEnqueue(c)
    \/ LockWait(c)
    \/ LockSleep(c)
    \/ LockWake(c)
    \/ LockGranted(c)

Unlocking(c) == Unlock(c) \/ \E m \in Modes : UnlockThrow(c, m)

Next == \E c \in Ctx : Locking(c) \/ Unlocking(c)

SafeSpec == Init /\ [][Next]_vars

(* As for co_mutex: the scheduler comes back to every coroutine that may    *)
(* run, a contender gets the spin lock now and then, the spin of lock() and *)
(* lock_shared() ends at its deadline, and who is in unlocks one day.       *)
Fairness ==
    \A c \in Ctx :
        /\ SF_vars(LockSpin(c))
        /\ SF_vars(LockTake(c) \/ LockEnqueue(c))
        /\ WF_vars(LockWait(c))
        /\ WF_vars(LockSleep(c))
        /\ SF_vars(LockWake(c))
        /\ WF_vars(LockGranted(c))
        /\ SF_vars(Unlock(c))

Spec == SafeSpec /\ Fairness

-----------------------------------------------------------------------------
(* Properties *)

In(c, m) == pc[c] = "in" /\ mode[c] = m

(* While lock() or a successful try_lock() is not yet undone, nobody else is *)
(* in, to read or to write (co_shared_mutex.cpp:22-26, 107, 199-217).        *)
WriterExcludes ==
    \A c, d \in Ctx : In(c, "unique") /\ pc[d] = "in" => c = d

(* Whoever sleeps on the lock is queued exactly as it asked, and behind an   *)
(* owner whose unlock will look at the queue (lines 55-61, 140-146, 187).    *)
NoLostWakeup ==
    \A c \in waiting :
        /\ Contains(waitDeque, [type |-> mode[c], ctx |-> c])
        /\ owners \ waiting # {}

(* The lock is handed over without a gap, so that a writer at the head of    *)
(* the queue cannot be overtaken once the last owner is gone: only the head  *)
(* of the queue, alone, or with the other readers follows.                   *)
HandOver ==
    owners \cap owners' = {} /\ owners # {} /\ waitDeque # <<>> =>
      /\ Head(waitDeque).ctx \in owners'
      /\ \A i \in 1..Len(waitDeque) :
           waitDeque[i].ctx \in owners' => i = 1 \/ waitDeque[i].type = "shared"

HeadFollows == [][HandOver]_vars

(* Every lock_shared() returns: a reader only ever waits for one writer.     *)
ReadersGetIn ==
    \A c \in Readers : pc[c] = "spin" /\ mode[c] = "shared" ~> pc[c] = "in"

(* co_shared_mutex implements the lock it stands for: its owners hold it as   *)
(* lockType says, and those inside lock() or lock_shared() who do not own it *)
(* yet ask for it.                                                           *)
Owning(m) == IF lockType = m THEN owners ELSE {}

Asking(m) ==
    {c \in Ctx : mode[c] = m /\ pc[c] \notin {"out", "in"} /\ c \notin owners}

L == INSTANCE ReadWriteLock
       WITH reading <- Owning("shared"), writing <- Owning("unique"),
            toRead <- Asking("shared"), toWrite <- Asking("unique")

Implements == L!Spec

-----------------------------------------------------------------------------
(* The inductive invariant behind the first two, part by part. *)

Entry(c)    == [type |-> mode[c], ctx |-> c]
Queueing(c) == pc[c] \in {"wait", "armed", "asleep"}

(* Who is in a section under the spin lock is who holds it. *)
SpinLockInv ==
    \A c \in Ctx : pc[c] \in {"check", "wait", "armed"} <=> spinlock = c

(* Everybody calls what it is there to call. *)
CallersInv == \A c \in Ctx : pc[c] # "out" => c \in Callers(mode[c])

(* The owners are those who are in and those about to learn that they are;   *)
(* all own the lock as they asked, a writer alone.                           *)
OwnersInv ==
    /\ lockType = "unlocked" <=> owners = {}
    /\ \A c \in Ctx : pc[c] = "in" => c \in owners
    /\ \A c \in owners : pc[c] \in {"in", "wait", "asleep"} /\ mode[c] = lockType
    /\ lockType = "unique" => \A c, d \in owners : c = d

(* The queue holds, once and as it asked, whoever queues and does not own    *)
(* the lock yet; it is empty when there is no owner to look at it, and while *)
(* readers are in only writers are in it.                                    *)
DequeInv ==
    /\ IsInjective(waitDeque)
    /\ \A w \in Entries : Contains(waitDeque, w) =>
         w = Entry(w.ctx) /\ Queueing(w.ctx) /\ w.ctx \notin owners
    /\ \A c \in Ctx \ owners : Queueing(c) => Contains(waitDeque, Entry(c))
    /\ owners = {} => waitDeque = <<>>
    /\ lockType = "shared" =>
         \A w \in Entries : Contains(waitDeque, w) => w.type = "unique"

(* A wait flag is set only while its coroutine is going to sleep or asleep,  *)
(* and not an owner.                                                         *)
WaitingInv == \A c \in waiting : pc[c] \in {"armed", "asleep"} /\ c \notin owners

(* What makes the lock exclude and wake up, step by step, as long as readers *)
(* and several writers are not mixed (co_shared_mutex.cpp:15-260).           *)
SharedInv ==
    TypeOK /\ SpinLockInv /\ CallersInv /\ OwnersInv /\ DequeInv /\ WaitingInv
=============================================================================
