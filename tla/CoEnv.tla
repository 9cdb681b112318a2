------------------------------- MODULE CoEnv -------------------------------
(***************************************************************************)
(* co_env (core/co_env.cpp) with the coroutines it schedules                *)
(* (core/co_ctx.cpp): one thread that runs coroutines of several            *)
(* priorities and sleeps when none can run.                                 *)
(*                                                                          *)
(* The thread is in the code of a coroutine or of its idle coroutine, or in *)
(* schedule_switch.  It holds schedule_lock__ from entering schedule_switch *)
(* until it has switched, but not while it sleeps.  Other threads add       *)
(* coroutines, clear wait flags, change priorities and stop the env.  They  *)
(* are not tied to schedule_lock__ except to wake the thread up, so what    *)
(* they do is split where the thread may run in between: a coroutine can    *)
(* run as soon as its flag is clear, min_priority__ follows later, the      *)
(* wake-up last.                                                            *)
(***************************************************************************)
EXTENDS Naturals, Sequences, FiniteSets, SequencesExt, Queues

CONSTANTS Ctx,   \* the coroutines
          NoCtx, \* no coroutine
          Idle,  \* idle_ctx__
          Pri,   \* the priorities in use; 0 is the highest
          Waiters \* bound: the coroutines that wait for something outside

ASSUME EnvAssumption ==
    /\ Idle \notin Ctx /\ NoCtx \notin Ctx /\ Idle # NoCtx
    /\ Pri \subseteq Nat /\ 0 \in Pri /\ IsFiniteSet(Pri)
    /\ Waiters \subseteq Ctx

VARIABLES list,     \* all_normal_ctx__: the coroutines of each priority
          minPri,   \* min_priority__
          prio,     \* priority__ of each coroutine
          status,   \* state of each coroutine
          waiting,  \* CO_CTX_FLAG_WAITING
          locked,   \* CO_CTX_FLAG_LOCKED: some handle may still ask for it
          on,       \* whose stack the thread runs on
          pc,       \* where the thread is
          envState, \* idle, busy or destroying
          calls,    \* the calls of other threads under way, and how far they are
          joins,    \* for whose end each coroutine waits
          oldPri    \* the priority to restore after that

vars == <<list, minPri, prio, status, waiting, locked, on, pc, envState, calls,
          joins, oldPri>>

(* What add_ctx and leave_wait_resource_state still have to do for a coroutine. *)
Stages == {"move", "addMin", "busy", "addWake", "min", "wake"}

TypeOK ==
    /\ list \in [Pri -> Seq(Ctx)]
    /\ minPri \in Pri
    /\ prio \in [Ctx -> Pri]
    /\ status \in [Ctx -> {"absent", "suspended", "running", "finished", "destroyed"}]
    /\ waiting \subseteq Ctx
    /\ locked \subseteq Ctx
    /\ on \in Ctx \cup {Idle}
    /\ pc \in {"code", "publish", "switch", "nothing", "idle", "test", "asleep", "done"}
    /\ envState \in {"idle", "busy", "destroying"}
    /\ calls \subseteq Ctx \X Stages
    /\ joins \in [Ctx -> Ctx \cup {NoCtx}]
    /\ oldPri \in [Ctx -> Pri]

Init ==
    /\ list = [p \in Pri |-> <<>>]
    /\ minPri = 0
    /\ prio = [c \in Ctx |-> 0]
    /\ status = [c \in Ctx |-> "absent"]
    /\ waiting = {}
    /\ locked = {}
    /\ on = Idle
    /\ pc = "idle"
    /\ envState = "idle"
    /\ calls = {}
    /\ joins = [c \in Ctx |-> NoCtx]
    /\ oldPri = [c \in Ctx |-> 0]

(* co_state_manager: the final state stays. *)
SetState(s) == envState' = IF envState = "destroying" THEN envState ELSE s

(* Mutant of LowerMin: takes over the priority, higher or lower. *)
SetMin(p) == minPri' = p

LowerMin(p) == minPri' = IF p < minPri THEN p ELSE minPri

(* co_ctx::can_schedule *)
CanRun(c) == status[c] \in {"suspended", "running"} /\ c \notin waiting

Candidates(l) ==
    {c \in Ctx : CanRun(c) /\ \E p \in Pri : p >= minPri /\ Contains(l[p], c)}

Call(c, stage) == calls' = calls \cup {<<c, stage>>}

Proceed(c, from, to) ==
    /\ <<c, from>> \in calls
    /\ calls' = (calls \ {<<c, from>>}) \cup {<<c, to>>}

Adding(c) == \E s \in {"move", "addMin", "busy", "addWake"} : <<c, s>> \in calls
Waking(c) == \E s \in {"min", "wake"} : <<c, s>> \in calls

(* A coroutine is somebody's to wait for and to change once the call that   *)
(* created it has returned, until its handle has let go of it.              *)
Held(c) == c \in locked /\ ~Adding(c)

(* need_sleep__ *)
NeedSleep == Candidates(list) = {} /\ envState # "destroying"

-----------------------------------------------------------------------------
(* The code of the running coroutine.  Once it has set its wait flag it     *)
(* does nothing but yield.                                                  *)

Runs(c) == on = c /\ pc = "code" /\ c \notin waiting

(* this_co::yield, or the yield of a wait. *)
Yield(c) ==
    /\ on = c /\ pc = "code"
    /\ pc' = "switch"
    /\ UNCHANGED <<list, minPri, prio, status, waiting, locked, on, envState, calls,
                   joins, oldPri>>

(* enter_wait_resource_state: a wait somebody outside will end. *)
EnterWait(c) ==
    /\ c \in Waiters
    /\ Runs(c)
    /\ joins[c] = NoCtx
    /\ waiting' = waiting \cup {c}
    /\ UNCHANGED <<list, minPri, prio, status, locked, on, pc, envState, calls, joins,
                   oldPri>>

(* Mutant of MoveToPriority: forgets min_priority__. *)
MoveKeepMin(c, p) ==
    /\ prio' = [prio EXCEPT ![c] = p]
    /\ list' = IF p = prio[c] THEN list
               ELSE [list EXCEPT ![prio[c]] = Only(@, Ctx \ {c}), ![p] = Append(@, c)]
    /\ UNCHANGED minPri

(* set_priority and handle_priority_changed: to the end of the new list. *)
MoveToPriority(c, p) ==
    /\ prio' = [prio EXCEPT ![c] = p]
    /\ IF p = prio[c]
       THEN UNCHANGED <<list, minPri>>
       ELSE /\ list' = [list EXCEPT ![prio[c]] = Only(@, Ctx \ {c}), ![p] = Append(@, c)]
            /\ LowerMin(p)

(* Mutant of Join: only waits for a coroutine that has started to run. *)
JoinRunning(c, t) ==
    /\ Runs(c)
    /\ joins[c] = NoCtx
    /\ c # t
    /\ Held(t)
    /\ joins' = [joins EXCEPT ![c] = t]
    /\ oldPri' = [oldPri EXCEPT ![c] = prio[c]]
    /\ MoveToPriority(c, prio[t])
    /\ waiting' = IF status[t] = "running" THEN waiting \cup {c} ELSE waiting
    /\ UNCHANGED <<status, locked, on, pc, envState, calls>>

(* wait_ctx(t): take over the priority of t and, unless it has finished,    *)
(* subscribe to its end.  finish_lock__ makes the test and the subscription *)
(* one step.                                                                *)
Join(c, t) ==
    /\ Runs(c)
    /\ joins[c] = NoCtx
    /\ c # t
    /\ Held(t)
    /\ joins' = [joins EXCEPT ![c] = t]
    /\ oldPri' = [oldPri EXCEPT ![c] = prio[c]]
    /\ MoveToPriority(c, prio[t])
    /\ waiting' = IF status[t] = "finished" THEN waiting ELSE waiting \cup {c}
    /\ UNCHANGED <<status, locked, on, pc, envState, calls>>

(* Back from wait_ctx: take the result, restore the priority, and let go of *)
(* the coroutine (co::join, co::~co), but not while somebody else waits for *)
(* it, or keep it (co::wait).                                               *)
JoinReturn(c) ==
    /\ Runs(c)
    /\ joins[c] # NoCtx
    /\ MoveToPriority(c, oldPri[c])
    /\ \/ /\ \A d \in Ctx \ {c} : joins[d] # joins[c]
          /\ locked' = locked \ {joins[c]}
       \/ UNCHANGED locked
    /\ joins' = [joins EXCEPT ![c] = NoCtx]
    /\ UNCHANGED <<status, waiting, on, pc, envState, calls, oldPri>>

(* real_entry: the entry function has returned or thrown. *)
Finish(c) ==
    /\ Runs(c)
    /\ joins[c] = NoCtx
    /\ status' = [status EXCEPT ![c] = "finished"]
    /\ pc' = "publish"
    /\ UNCHANGED <<list, minPri, prio, waiting, locked, on, envState, calls, joins, oldPri>>

(* finished().pub(): clear the flag of whoever waits for it ...             *)
Publish(c) ==
    /\ on = c /\ pc = "publish"
    /\ \E d \in waiting :
         /\ joins[d] = c
         /\ waiting' = waiting \ {d}
         /\ Call(d, "min")
    /\ UNCHANGED <<list, minPri, prio, status, locked, on, pc, envState, joins, oldPri>>

(* Mutant of Leave: the coroutine goes before it has told everybody. *)
LeaveEarly(c) ==
    /\ on = c /\ pc = "publish"
    /\ pc' = "switch"
    /\ UNCHANGED <<list, minPri, prio, status, waiting, locked, on, envState, calls,
                   joins, oldPri>>

(* ... and, when all have been woken up, switch away for the last time. *)
Leave(c) ==
    /\ on = c /\ pc = "publish"
    /\ \A d \in Ctx : joins[d] = c => d \notin waiting /\ ~Waking(d)
    /\ pc' = "switch"
    /\ UNCHANGED <<list, minPri, prio, status, waiting, locked, on, envState, calls,
                   joins, oldPri>>

-----------------------------------------------------------------------------
(* schedule_switch *)

(* remove_detached_ctx__: finished, unlocked and not current. *)
Detached == {c \in Ctx : status[c] = "finished" /\ c \notin locked /\ c # on}

Swept == [p \in Pri |-> Only(list[p], Ctx \ Detached)]

Suspended(s) == IF on \in Ctx /\ s[on] = "running" THEN [s EXCEPT ![on] = "suspended"] ELSE s

SweptStatus == [c \in Ctx |-> IF c \in Detached THEN "destroyed" ELSE status[c]]

(* choose_ctx_from_normal_list__: the first coroutine that can run, by      *)
(* priority from min_priority__ on; it goes to the end of its list.         *)
IsFirst(c, p) ==
    /\ CanRun(c)
    /\ p >= minPri
    /\ \A q \in Pri : q >= minPri /\ q < p =>
         \A d \in ToSet(Swept[q]) : ~CanRun(d)
    /\ \E i \in 1..Len(Swept[p]) :
         /\ Swept[p][i] = c
         /\ \A j \in 1..(i - 1) : ~CanRun(Swept[p][j])

(* Mutant of SwitchTo: the list is not rotated. *)
SwitchToSame(c, p) ==
    /\ pc = "switch"
    /\ envState # "destroying"
    /\ IsFirst(c, p)
    /\ list' = Swept
    /\ minPri' = p
    /\ status' = [Suspended(SweptStatus) EXCEPT ![c] = "running"]
    /\ on' = c
    /\ pc' = "code"
    /\ SetState("busy")
    /\ UNCHANGED <<prio, waiting, locked, calls, joins, oldPri>>

SwitchTo(c, p) ==
    /\ pc = "switch"
    /\ envState # "destroying"
    /\ IsFirst(c, p)
    /\ list' = [Swept EXCEPT ![p] = Append(Only(@, Ctx \ {c}), c)]
    /\ minPri' = p
    /\ status' = [Suspended(SweptStatus) EXCEPT ![c] = "running"]
    /\ on' = c
    /\ pc' = "code"
    /\ SetState("busy")
    /\ UNCHANGED <<prio, waiting, locked, calls, joins, oldPri>>

(* Nobody can run, or the env is to end: the idle coroutine is next.  The   *)
(* lock is released before the thread thinks of sleeping.                   *)
SwitchToIdle ==
    /\ pc = "switch"
    /\ envState = "destroying" \/ \A c \in Ctx, p \in Pri : ~IsFirst(c, p)
    /\ list' = Swept
    /\ status' = SweptStatus
    /\ pc' = "nothing"
    /\ UNCHANGED <<minPri, prio, waiting, locked, on, envState, calls, joins, oldPri>>

(* Mutant of NothingToRun: sleeps without a second look at the lists. *)
NothingToRunSleep ==
    /\ pc = "nothing"
    /\ IF on \in waiting
       THEN /\ pc' = "asleep"
            /\ UNCHANGED <<status, on>>
       ELSE /\ pc' = "idle"
            /\ status' = Suspended(status)
            /\ on' = Idle
    /\ UNCHANGED <<list, minPri, prio, waiting, locked, envState, calls, joins, oldPri>>

(* Mutant of NothingToRun: no coroutine at all is next. *)
NothingToRunNobody ==
    /\ pc = "nothing"
    /\ pc' = "idle"
    /\ status' = Suspended(status)
    /\ on' = NoCtx
    /\ UNCHANGED <<list, minPri, prio, waiting, locked, envState, calls, joins, oldPri>>

(* sleep_if_need__ of prepare_to_switch, on the stack of a coroutine: sleep  *)
(* while nobody can run and this one waits.  Else go to the idle coroutine.  *)
(* The test and falling asleep are one step under schedule_lock__.          *)
NothingToRun ==
    /\ pc = "nothing"
    /\ IF NeedSleep /\ on \in waiting
       THEN /\ pc' = "asleep"
            /\ UNCHANGED <<status, on>>
       ELSE /\ pc' = "idle"
            /\ status' = Suspended(status)
            /\ on' = Idle
    /\ UNCHANGED <<list, minPri, prio, waiting, locked, envState, calls, joins, oldPri>>

(* start_schedule_routine__: back in the loop of the idle coroutine. *)
GoIdle ==
    /\ pc = "idle"
    /\ SetState("idle")
    /\ pc' = "test"
    /\ UNCHANGED <<list, minPri, prio, status, waiting, locked, on, calls, joins, oldPri>>

IdleTest ==
    /\ pc = "test"
    /\ pc' = IF NeedSleep THEN "asleep"
             ELSE IF envState = "destroying" THEN "done" ELSE "switch"
    /\ IF pc' = "done"    \* remove_all_ctx__
       THEN /\ list' = [p \in Pri |-> <<>>]
            /\ status' = [c \in Ctx |->
                            IF \E p \in Pri : Contains(list[p], c) THEN "destroyed" ELSE status[c]]
       ELSE UNCHANGED <<list, status>>
    /\ UNCHANGED <<minPri, prio, waiting, locked, on, envState, calls, joins, oldPri>>

(* cv_sleep__ returns, notified or not; the test is next. *)
Awake == pc' = IF on = Idle THEN "test" ELSE "nothing"

Spurious ==
    /\ pc = "asleep"
    /\ Awake
    /\ UNCHANGED <<list, minPri, prio, status, waiting, locked, on, envState, calls, joins,
                   oldPri>>

-----------------------------------------------------------------------------
(* Other threads. *)

(* create_and_schedule_ctx and add_ctx, which throws when the env is to end.  *)
AddCtx(c, p, handle) ==
    /\ status[c] = "absent" /\ ~Adding(c)
    /\ envState # "destroying"
    /\ prio' = [prio EXCEPT ![c] = p]
    /\ locked' = IF handle THEN locked \cup {c} ELSE locked
    /\ Call(c, "move")
    /\ UNCHANGED <<list, minPri, status, waiting, on, pc, envState, joins, oldPri>>

(* move_ctx_to_here: into the list of its priority; then min_priority__, then *)
(* busy and the wake-up.  The env may have been stopped in between.           *)
MoveToHere(c) ==
    /\ Proceed(c, "move", "addMin")
    /\ status' = [status EXCEPT ![c] = "suspended"]
    /\ list' = [list EXCEPT ![prio[c]] = Append(@, c)]
    /\ UNCHANGED <<minPri, prio, waiting, locked, on, pc, envState, joins, oldPri>>

(* leave_wait_resource_state: the flag; then min_priority__, then the       *)
(* wake-up.  A coroutine is not woken up after its env is gone.             *)
LeaveWait(c) ==
    /\ c \in waiting
    /\ joins[c] = NoCtx
    /\ status[c] # "destroyed"
    /\ waiting' = waiting \ {c}
    /\ Call(c, "min")
    /\ UNCHANGED <<list, minPri, prio, status, locked, on, pc, envState, joins, oldPri>>

UpdateMin(c) ==
    /\ Proceed(c, "addMin", "busy") \/ Proceed(c, "min", "wake")
    /\ LowerMin(prio[c])
    /\ UNCHANGED <<list, prio, status, waiting, locked, on, pc, envState, joins, oldPri>>

LockFree == pc # "switch"

MarkBusy(c) ==
    /\ LockFree
    /\ Proceed(c, "busy", "addWake")
    /\ SetState("busy")
    /\ UNCHANGED <<list, minPri, prio, status, waiting, locked, on, pc, joins, oldPri>>

(* wake_up: under schedule_lock__, so not between the test and the sleep. *)
WakeUp(c) ==
    /\ LockFree
    /\ \E s \in {"addWake", "wake"} :
         /\ <<c, s>> \in calls
         /\ calls' = calls \ {<<c, s>>}
    /\ IF pc = "asleep" THEN Awake ELSE UNCHANGED pc
    /\ UNCHANGED <<list, minPri, prio, status, waiting, locked, on, envState, joins, oldPri>>

(* co::set_priority through a handle. *)
SetPriority(c, p) ==
    /\ Held(c)
    /\ status[c] # "destroyed"
    /\ MoveToPriority(c, p)
    /\ UNCHANGED <<status, waiting, locked, on, pc, envState, calls, joins, oldPri>>

(* co::detach: nobody will ask for it any more. *)
Detach(c) ==
    /\ Held(c)
    /\ \A d \in Ctx : joins[d] # c
    /\ locked' = locked \ {c}
    /\ UNCHANGED <<list, minPri, prio, status, waiting, on, pc, envState, calls, joins, oldPri>>

(* Mutant of StopSchedule: without the wake-up. *)
StopAsleep ==
    /\ envState # "destroying"
    /\ LockFree
    /\ SetState("destroying")
    /\ UNCHANGED <<list, minPri, prio, status, waiting, locked, on, pc, calls, joins, oldPri>>

(* stop_schedule: the state and the wake-up. *)
StopSchedule ==
    /\ envState # "destroying"
    /\ LockFree
    /\ SetState("destroying")
    /\ IF pc = "asleep" THEN Awake ELSE UNCHANGED pc
    /\ UNCHANGED <<list, minPri, prio, status, waiting, locked, on, calls, joins, oldPri>>

-----------------------------------------------------------------------------
Code(c) ==
    \/ Yield(c) \/ EnterWait(c) \/ JoinReturn(c) \/ Finish(c) \/ Publish(c) \/ Leave(c)
    \/ \E t \in Ctx : Join(c, t)

Switching ==
    \/ \E c \in Ctx, p \in Pri : SwitchTo(c, p)
    \/ SwitchToIdle \/ NothingToRun \/ GoIdle \/ IdleTest

Others(c) ==
    \/ \E p \in Pri, h \in BOOLEAN : AddCtx(c, p, h)
    \/ MoveToHere(c)
    \/ LeaveWait(c) \/ UpdateMin(c) \/ MarkBusy(c) \/ WakeUp(c) \/ Detach(c)
    \/ \E p \in Pri : SetPriority(c, p)

Next ==
    \/ \E c \in Ctx : Code(c) \/ Others(c)
    \/ Switching
    \/ Spurious
    \/ StopSchedule

SafeSpec == Init /\ [][Next]_vars

(* The thread keeps running, and so do the threads that wake a coroutine up. *)
(* A coroutine that runs yields, waits or finishes some time.                *)
Fairness ==
    /\ WF_vars(Switching)
    /\ \A c \in Ctx :
         /\ WF_vars(MoveToHere(c) \/ UpdateMin(c))
         /\ SF_vars(MarkBusy(c))
         /\ SF_vars(WakeUp(c))
         /\ WF_vars(Yield(c))
         /\ SF_vars(JoinReturn(c))
         /\ WF_vars(Publish(c) \/ Leave(c))

Spec == SafeSpec /\ Fairness

-----------------------------------------------------------------------------
(* Properties *)

Live(c) == status[c] \in {"suspended", "running", "finished"}

(* The thread does not sleep while a coroutine can run, unless whoever made  *)
(* it runnable has not come to its wake-up yet: the test before the sleep    *)
(* and the notification exclude each other (co_env.cpp:256-262, 660-685).    *)
NoMissedWakeup ==
    pc = "asleep" => \A c \in Ctx : CanRun(c) => Adding(c) \/ Waking(c)

(* The call that made c runnable has not updated min_priority__ yet. *)
Unannounced(c) == <<c, "addMin">> \in calls \/ <<c, "min">> \in calls

(* Whoever is switched to has the highest priority of those that can run,    *)
(* short of those that have just been made runnable (co_env.cpp:531-541).    *)
SwitchToHighest ==
    \A c \in Ctx : pc = "switch" /\ pc' = "code" /\ on' = c =>
      \A d \in Ctx : CanRun(d) /\ ~Unannounced(d) => prio[d] >= prio[c]

HighestFirst == [][SwitchToHighest]_vars

(* A coroutine is in the list of its priority, once, and in no other, until  *)
(* it is destroyed: moves between lists, the rotation of a list and the      *)
(* sweep of finished coroutines lose and duplicate nobody.  The lists are    *)
(* searched from min_priority__ on; that never hides a coroutine that can    *)
(* run, once its waker has updated the minimum (co_env.cpp:531-541, 564,     *)
(* 614-621).                                                                 *)
ListedOnce ==
    /\ \A c \in Ctx : CanRun(c) /\ ~Unannounced(c) => prio[c] >= minPri
    /\ \A c \in Ctx, p \in Pri :
          Cardinality({i \in 1..Len(list[p]) : list[p][i] = c}) =
              IF Live(c) /\ p = prio[c] THEN 1 ELSE 0

(* wait_ctx returns with the coroutine it waited for finished and not yet    *)
(* destroyed, although it does not look again after its one                  *)
(* schedule_switch (co_env.cpp:166-186).  No coroutine is destroyed while    *)
(* the env runs on its stack or its handle is in use, short of the env's own *)
(* end.                                                                      *)
JoinGetsResult ==
    /\ \A c \in Ctx : joins[c] # NoCtx /\ Runs(c) => status[joins[c]] = "finished"
    /\ \A c \in Ctx : status[c] = "destroyed" /\ pc # "done" =>
         /\ on # c
         /\ c \notin locked
         /\ \A d \in Ctx : joins[d] # c

(* With one priority, whoever can run will run: the lists rotate.            *)
EverybodyRuns ==
    \A c \in Ctx : CanRun(c) ~> on = c \/ c \in waiting \/ envState = "destroying"

(* The end of a coroutine ends the wait for it.                              *)
JoinsReturn ==
    \A c, t \in Ctx : joins[c] = t /\ status[t] = "finished" ~>
        joins[c] # t \/ envState = "destroying"

(* An env that is told to stop does, as soon as its coroutine yields.        *)
Stops == envState = "destroying" ~> pc = "done"

-----------------------------------------------------------------------------
(* The inductive invariant behind the safety properties. *)

(* The lists hold who lives, by priority.                                    *)
ListsInv ==
    /\ \A p \in Pri : IsInjective(list[p])
    /\ \A c \in Ctx, p \in Pri : Contains(list[p], c) <=> Live(c) /\ p = prio[c]

(* Whose waker has updated the minimum is not hidden by it.                  *)
MinInv == \A c \in Ctx : CanRun(c) /\ ~Unannounced(c) => prio[c] >= minPri

(* Who is being added is in no list yet, and has no handle that can be used. *)
NewInv ==
    /\ \A c \in Ctx : <<c, "move">> \in calls => status[c] = "absent"
    /\ \A c \in locked : status[c] = "absent" => <<c, "move">> \in calls

(* On whose stack the thread is, by where it is.                             *)
ThreadInv ==
    /\ on \in Ctx => status[on] \in {"running", "finished"}
    /\ pc = "code" /\ on \in Ctx => status[on] = "running"
    /\ pc = "publish" => on \in Ctx /\ status[on] = "finished"
    /\ pc \in {"idle", "test", "done"} => on = Idle

(* Whoever waits for a coroutine is asleep, or it has finished; its handle   *)
(* keeps it until then.  Nobody is on the stack of one that is destroyed.    *)
JoinsInv ==
    pc # "done" =>
      /\ \A c \in Ctx : joins[c] # NoCtx =>
           joins[c] \in locked /\ (c \in waiting \/ status[joins[c]] = "finished")
      /\ \A c \in Ctx : status[c] = "destroyed" => on # c /\ c \notin locked

(* What keeps the lists, the thread and the joins right, although other      *)
(* threads change them between the steps of the env (co_env.cpp:64-95,       *)
(* 117-186, 201-214, 240-262, 519-578, 614-685).                             *)
EnvInv ==
    /\ TypeOK /\ ListsInv /\ MinInv /\ NewInv /\ ThreadInv /\ JoinsInv
    /\ NoMissedWakeup
=============================================================================
