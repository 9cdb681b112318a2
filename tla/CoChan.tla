------------------------------- MODULE CoChan -------------------------------
(***************************************************************************)
(* co_chan (event/co_chan.h): a channel between coroutines.  One class per  *)
(* kind implements push; pop and close are shared.                          *)
(*                                                                          *)
(* Every operation runs under the co_mutex mu__, so the code from taking    *)
(* the mutex to leaving it is one step here (CoMutex shows that it may be:  *)
(* one holder at a time).  A wait on a condition variable ends such a step: *)
(* the coroutine is entered in the list of waiters and its wait flag is set *)
(* before any notify can run, because both happen under cv_lock__, and      *)
(* notify takes the entry out and clears the flag.  So a coroutine sleeps   *)
(* exactly while it is in one of the two lists, and goes on, at the         *)
(* predicate of the wait, some time after it was taken out.                 *)
(***************************************************************************)
EXTENDS Integers, Sequences, FiniteSets, SequencesExt, Queues

CONSTANTS Pushers,  \* the coroutines that push
          Poppers,  \* the coroutines that pop
          Sizes,    \* the max_size a channel is made with
          MaxPush   \* bound: how many values each coroutine pushes

ASSUME ChanAssumption ==
    /\ Pushers \cap Poppers = {}
    /\ Sizes \subseteq Int
    /\ MaxPush \in Nat
ASSUME FiniteAssumption == IsFiniteSet(Pushers) /\ IsFiniteSet(Poppers)

VARIABLES maxSize,   \* below 0: unlimited_chan, 0: sync_chan, above: fixed_chan
          data,      \* data__
          closed,    \* closed__
          cvFull,    \* the waiters of cv_full__
          cvEmpty,   \* the waiters of cv_empty__
          pc,        \* what each coroutine is inside of
          calls,     \* how often each pusher has called push
          accepted,  \* the values whose push returned true
          rejected,  \* the values whose push returned false
          popped     \* the values pop has returned, in order

vars == <<maxSize, data, closed, cvFull, cvEmpty, pc, calls, accepted, rejected, popped>>

Procs == Pushers \cup Poppers

(* The n-th value a coroutine pushes. *)
Values == Pushers \X (1..MaxPush)
Item(c) == <<c, calls[c]>>

(* A bounded channel never holds more than it is made for: a pusher woken   *)
(* because there is room looks again, since another may have come first     *)
(* (co_chan.h:171).                                                         *)
TypeOK ==
    /\ maxSize \in Sizes
    /\ data \in Seq(Values)
    /\ maxSize > 0 => Len(data) <= maxSize
    /\ maxSize = 0 => Len(data) <= 1
    /\ closed \in BOOLEAN
    /\ cvFull \in Seq(Pushers)
    /\ cvEmpty \in Seq(Poppers)
    /\ pc \in [Procs -> {"idle", "room", "taken", "data"}]
    /\ calls \in [Pushers -> 0..MaxPush]
    /\ accepted \subseteq Values
    /\ rejected \subseteq Values
    /\ popped \in Seq(Values)

Init ==
    /\ maxSize \in Sizes
    /\ data = <<>>
    /\ closed = FALSE
    /\ cvFull = <<>>
    /\ cvEmpty = <<>>
    /\ pc = [c \in Procs |-> "idle"]
    /\ calls = [c \in Pushers |-> 0]
    /\ accepted = {}
    /\ rejected = {}
    /\ popped = <<>>

Goto(c, to) == pc' = [pc EXCEPT ![c] = to]

Asleep(c) == Contains(cvFull, c) \/ Contains(cvEmpty, c)

-----------------------------------------------------------------------------
(* push *)

(* A fixed or synchronous channel that holds as much as it may. *)
Full ==
    \/ maxSize > 0 /\ Len(data) = maxSize
    \/ maxSize = 0 /\ Len(data) = 1

(* Mutant of RoomOrClosed: whoever was notified does not look again. *)
Notified == TRUE

(* What a pusher that found the channel full waits for: in a fixed channel  *)
(* for room, in a synchronous one for nothing but the end.                  *)
RoomOrClosed == closed \/ (maxSize > 0 /\ Len(data) < maxSize)

WaitForRoom(c) ==
    /\ cvFull' = Append(cvFull, c)
    /\ Goto(c, "room")
    /\ UNCHANGED <<data, closed, cvEmpty, accepted, rejected, popped>>

(* Mutant of PushRejected: says true although the channel is closed. *)
PushRejectedTrue(c) ==
    /\ accepted' = accepted \cup {<<c, calls'[c]>>}
    /\ Goto(c, "idle")
    /\ UNCHANGED <<data, closed, cvFull, cvEmpty, rejected, popped>>

PushRejected(c) ==
    /\ rejected' = rejected \cup {<<c, calls'[c]>>}
    /\ Goto(c, "idle")
    /\ UNCHANGED <<data, closed, cvFull, cvEmpty, accepted, popped>>

(* Mutant of PushAccepted: does not tell the poppers. *)
PushSilently(c) ==
    /\ data' = Append(data, <<c, calls'[c]>>)
    /\ IF maxSize = 0
       THEN /\ cvFull' = Append(cvFull, c)
            /\ Goto(c, "taken")
            /\ UNCHANGED accepted
       ELSE /\ accepted' = accepted \cup {<<c, calls'[c]>>}
            /\ Goto(c, "idle")
            /\ UNCHANGED cvFull
    /\ UNCHANGED <<closed, cvEmpty, rejected, popped>>

(* A synchronous push always waits after it: for its value to be taken.     *)
PushAccepted(c) ==
    /\ data' = Append(data, <<c, calls'[c]>>)
    /\ cvEmpty' = NotifyOne(cvEmpty)
    /\ IF maxSize = 0
       THEN /\ cvFull' = Append(cvFull, c)
            /\ Goto(c, "taken")
            /\ UNCHANGED accepted
       ELSE /\ accepted' = accepted \cup {<<c, calls'[c]>>}
            /\ Goto(c, "idle")
            /\ UNCHANGED cvFull
    /\ UNCHANGED <<closed, rejected, popped>>

Push(c) ==
    /\ pc[c] = "idle"
    /\ calls[c] < MaxPush
    /\ UNCHANGED maxSize
    /\ calls' = [calls EXCEPT ![c] = @ + 1]
    /\ \/ closed /\ PushRejected(c)
       \/ ~closed /\ Full /\ WaitForRoom(c)
       \/ ~closed /\ ~Full /\ PushAccepted(c)

(* Woken from the first wait. *)
PushResume(c) ==
    /\ pc[c] = "room"
    /\ ~Asleep(c)
    /\ UNCHANGED <<maxSize, calls>>
    /\ \/ ~RoomOrClosed /\ WaitForRoom(c)
       \/ RoomOrClosed /\ closed /\ PushRejected(c)
       \/ RoomOrClosed /\ ~closed /\ PushAccepted(c)

(* Woken from the second wait, that of a synchronous push. *)
PushTaken(c) ==
    /\ pc[c] = "taken"
    /\ ~Asleep(c)
    /\ IF closed \/ data = <<>>
       THEN /\ accepted' = accepted \cup {Item(c)}
            /\ Goto(c, "idle")
            /\ UNCHANGED cvFull
       ELSE /\ cvFull' = Append(cvFull, c)
            /\ UNCHANGED <<accepted, pc>>
    /\ UNCHANGED <<maxSize, data, closed, cvEmpty, calls, rejected, popped>>

-----------------------------------------------------------------------------
(* pop and close *)

(* Mutant of Take: the value pushed last. *)
TakeLast(c) ==
    /\ data # <<>>
    /\ popped' = Append(popped, Last(data))
    /\ data' = Front(data)
    /\ cvFull' = NotifyOne(cvFull)
    /\ Goto(c, "idle")
    /\ UNCHANGED cvEmpty

(* Mutant of Take: only notifies when the channel was full. *)
TakeFromFull(c) ==
    /\ data # <<>>
    /\ popped' = Append(popped, Head(data))
    /\ data' = Tail(data)
    /\ cvFull' = IF Len(data) = maxSize THEN NotifyOne(cvFull) ELSE cvFull
    /\ Goto(c, "idle")
    /\ UNCHANGED cvEmpty

Take(c) ==
    /\ data # <<>>
    /\ popped' = Append(popped, Head(data))
    /\ data' = Tail(data)
    /\ cvFull' = NotifyOne(cvFull)
    /\ Goto(c, "idle")
    /\ UNCHANGED cvEmpty

WaitForData(c) ==
    /\ data = <<>>
    /\ ~closed
    /\ cvEmpty' = Append(cvEmpty, c)
    /\ Goto(c, "data")
    /\ UNCHANGED <<data, cvFull, popped>>

(* nullopt: the channel is empty for good. *)
PopNothing(c) ==
    /\ data = <<>>
    /\ closed
    /\ Goto(c, "idle")
    /\ UNCHANGED <<data, cvFull, cvEmpty, popped>>

(* A call of pop, or one woken from its wait: the same cases. *)
Pop(c) ==
    /\ pc[c] = "idle" \/ (pc[c] = "data" /\ ~Asleep(c))
    /\ Take(c) \/ WaitForData(c) \/ PopNothing(c)
    /\ UNCHANGED <<maxSize, closed, calls, accepted, rejected>>

(* Mutant of Close: releases the pushers only. *)
CloseFullOnly ==
    /\ closed' = TRUE
    /\ cvFull' = <<>>
    /\ UNCHANGED <<maxSize, data, cvEmpty, pc, calls, accepted, rejected, popped>>

(* notify_all on both condition variables; closing twice does no harm. *)
Close ==
    /\ closed' = TRUE
    /\ cvFull' = <<>>
    /\ cvEmpty' = <<>>
    /\ UNCHANGED <<maxSize, data, pc, calls, accepted, rejected, popped>>

-----------------------------------------------------------------------------
Next ==
    \/ \E c \in Pushers : Push(c) \/ PushResume(c) \/ PushTaken(c)
    \/ \E c \in Poppers : Pop(c)
    \/ Close

SafeSpec == Init /\ [][Next]_vars

(* Whoever may run does, and gets the mutex.  The callers: poppers keep     *)
(* popping; nobody has to push or close.                                    *)
Fairness ==
    /\ \A c \in Pushers : SF_vars(PushResume(c)) /\ SF_vars(PushTaken(c))
    /\ \A c \in Poppers : SF_vars(Pop(c))

Spec == SafeSpec /\ Fairness

-----------------------------------------------------------------------------
(* Properties *)

Delivered == ToSet(popped) \cup ToSet(data)

(* What push returns is what happens: a value whose push returned true is in *)
(* the channel or was popped, one whose push returned false never will be,  *)
(* also when the channel is closed while push waits (co_chan.h:163-183); and *)
(* on a synchronous channel that is still open, true comes only once the    *)
(* value has been popped (lines 225-227).                                   *)
PushTells ==
    /\ accepted \subseteq Delivered
    /\ rejected \cap Delivered = {}
    /\ maxSize = 0 /\ ~closed => accepted \subseteq ToSet(popped)

(* Values come out once, and those of one pusher in the order it pushed     *)
(* them, through any number of waits, wake-ups and poppers.                 *)
InOrder ==
    LET all == popped \o data
    IN  \A i, j \in 1..Len(all) :
          i < j /\ all[i][1] = all[j][1] => all[i][2] < all[j][2]

Awake(S, where) == {c \in S : pc[c] = where /\ ~Asleep(c)}

(* While a popper sleeps, as many others as there are values have been woken *)
(* to fetch them; while a pusher sleeps on a fixed channel, as many others  *)
(* as there is room.  One notify_one per value and per slot is enough       *)
(* although newcomers may be faster than those woken (lines 181, 196, 261). *)
EnoughAwake ==
    /\ cvEmpty # <<>> => Cardinality(Awake(Poppers, "data")) >= Len(data)
    /\ maxSize > 0 /\ cvFull # <<>> =>
         Cardinality(Awake(Pushers, "room")) >= maxSize - Len(data)

(* As long as somebody pops, every value that got into the channel gets out. *)
ValuesComeOut == \A v \in Values : Contains(data, v) ~> Contains(popped, v)

(* Pushes never stop coming. *)
EndlessPushes == []<><<\E c \in Pushers : Push(c)>>_vars

(* Nobody stays in a call: close() lets everybody go (lines 271-278), and on *)
(* a fixed channel a pusher gets in although room may be gone again when it  *)
(* wakes (lines 171-173), unless newcomers take it for ever: who is passed   *)
(* over queues at the end again, so endless pushes may keep it out.          *)
CallsReturn ==
    /\ \A c \in Procs : closed ~> closed /\ pc[c] = "idle"
    /\ EndlessPushes \/ \A c \in Pushers : pc[c] = "room" /\ maxSize > 0 ~> pc[c] # "room"

-----------------------------------------------------------------------------
(* The calls so far number the values, and that of a push still under way   *)
(* is in the channel only if the push waits for it to be taken.             *)
Numbered ==
    /\ \A c \in Pushers : pc[c] # "idle" => calls[c] > 0
    /\ \A c \in Pushers : pc[c] = "taken" => Item(c) \in Delivered
    /\ \A v \in Delivered : v[2] <= calls[v[1]]
                            /\ (pc[v[1]] = "room" => v[2] < calls[v[1]])
    /\ \A v \in rejected : v[2] <= calls[v[1]]
                           /\ (pc[v[1]] # "idle" => v[2] < calls[v[1]])

(* What makes InOrder and PushTells survive every step of push, pop and     *)
(* close.                                                                   *)
ContentInv == TypeOK /\ Numbered /\ InOrder /\ PushTells

(* Nobody is in a list twice, and who is in one is inside the wait that goes *)
(* with it; nobody is left in a list of a closed channel.                   *)
ListsInv ==
    /\ IsInjective(cvFull) /\ IsInjective(cvEmpty)
    /\ \A c \in Pushers : Contains(cvFull, c) => pc[c] \in {"room", "taken"}
    /\ \A c \in Poppers : Contains(cvEmpty, c) => pc[c] = "data"
    /\ \A c \in Pushers : pc[c] = "taken" => maxSize = 0
    /\ closed => cvFull = <<>> /\ cvEmpty = <<>>

(* The inductive invariant of the channel (co_chan.h:152-280).              *)
ChanInv == ContentInv /\ ListsInv /\ EnoughAwake
=============================================================================
