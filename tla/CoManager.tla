----------------------------- MODULE CoManager -----------------------------
(***************************************************************************)
(* co_manager (core/co_manager.cpp): the envs of the process, from their    *)
(* creation to their deletion, and who gives coroutines to them.            *)
(*                                                                          *)
(* Three parties take turns under normal_lock: whoever creates a coroutine, *)
(* the monitor thread, which on every second tick redistributes, steals and *)
(* stops redundant envs, and the cleaner thread, which deletes the envs     *)
(* whose thread has ended.  The envs themselves (CoEnv in detail, here as   *)
(* much of it as the manager sees) do not take that lock, neither does      *)
(* add_ctx once an env has been chosen, and create_env takes it only when   *)
(* the env is there.                                                        *)
(*                                                                          *)
(* Handles are left out: a finished coroutine may be destroyed.             *)
(***************************************************************************)
EXTENDS Integers, FiniteSets, Functions

CONSTANTS Env,     \* the envs that may come to exist
          Ctx,     \* the coroutines that may come to exist
          Nowhere, \* not given to an env
          BaseEnv, \* base_env_count
          MaxEnv,  \* max_env_count
          Flags    \* bound: the sets of flags a user gives to an env

ASSUME ManagerAssumption ==
    /\ Nowhere \notin Env
    /\ IsFiniteSet(Env)
    /\ BaseEnv \in Nat \ {0}
    /\ MaxEnv \in Nat \ {0}
    /\ Flags \subseteq SUBSET {"kept", "exclusive"}

VARIABLES life,      \* of each env and its thread
          state,     \* state() of each env
          kept,      \* CO_ENV_FLAG_DONT_AUTO_DESTROY
          exclusive, \* CO_ENV_FLAG_EXCLUSIVE
          scheduled, \* CO_ENV_FLAG_SCHEDULED: switched since the last tick
          signalled, \* a switch signal is on its way to the thread
          normal,    \* normal_set
          expired,   \* expired_set
          at,        \* the env that was chosen for each coroutine
          ctx,       \* what each coroutine does
          arrived,   \* the add_ctx that have inserted but not set the state yet
          late,      \* history: who was inserted after the env's thread had ended
          cleanUp,   \* clean_up__
          cleaner,   \* where clean_env_routine__ is
          monitor,   \* where monitor_routine__ is
          double,    \* double_timeout
          redundant  \* idle_env_list of destroy_redundant_env__

envVars == <<life, state, kept, exclusive, scheduled, signalled>>
setVars == <<normal, expired>>
ctxVars == <<at, ctx, arrived, late>>
jobVars == <<cleanUp, cleaner, monitor, double, redundant>>
managerVars == <<envVars, setVars, ctxVars, jobVars>>

Listed == {"suspended", "running", "waiting", "finished"}

(* Inside add_ctx, before and after its tests of the env's state.           *)
Adding == {"chosen", "tested"}

ManagerTypeOK ==
    /\ life \in [Env -> {"none", "started", "runs", "ended", "removed", "deleted"}]
    /\ state \in [Env -> {"created", "idle", "busy", "blocked", "destroying"}]
    /\ kept \subseteq Env /\ exclusive \subseteq Env
    /\ scheduled \subseteq Env /\ signalled \subseteq Env
    /\ normal \subseteq Env /\ expired \subseteq Env
    /\ at \in [Ctx -> Env \cup {Nowhere}]
    /\ ctx \in [Ctx -> Listed \cup Adding \cup {"new", "gone"}]
    /\ \A c \in Ctx : at[c] \in Env <=> ctx[c] \in Listed \cup Adding
    /\ arrived \subseteq Ctx \X Env
    /\ late \subseteq Ctx
    /\ cleanUp \in BOOLEAN
    /\ cleaner \in {"start", "wait", "woken", "done"}
    /\ monitor \in {"sleep", "redistribute", "steal", "collect", "stop", "done"}
    /\ double \in BOOLEAN
    /\ redundant \subseteq Env

ManagerInit ==
    /\ life = [e \in Env |-> "none"]
    /\ state = [e \in Env |-> "created"]
    /\ kept = {} /\ exclusive = {} /\ scheduled = {} /\ signalled = {}
    /\ normal = {} /\ expired = {}
    /\ at = [c \in Ctx |-> Nowhere]
    /\ ctx = [c \in Ctx |-> "new"]
    /\ arrived = {} /\ late = {}
    /\ cleanUp = FALSE
    /\ cleaner = "start"
    /\ monitor = "sleep"
    /\ double = FALSE
    /\ redundant = {}

(* Threads other than the monitor get normal_lock.  It keeps the lock from  *)
(* collecting the redundant envs to stopping them; the other sections under *)
(* the lock are one step each.                                              *)
NormalLock == monitor # "stop"

Ctxs(e)     == {c \in Ctx : at[c] = e /\ ctx[c] \in Listed}
Running(e)  == {c \in Ctxs(e) : ctx[c] = "running"}
Finished(e) == {c \in Ctxs(e) : ctx[c] = "finished"}

(* The thread has drained the lists for the last time. *)
Over(e) == life[e] \in {"ended", "removed", "deleted"}

(* The envs the manager may not schedule on or stop by itself. *)
Converted(e) == state[e] = "created"   \* CO_ENV_FLAG_NO_SCHE_THREAD

CanScheduleCtx(e) == state[e] \notin {"blocked", "destroying"} /\ ~Converted(e)
Schedulable       == {e \in normal : CanScheduleCtx(e)}
CanAutoDestroy(e) == ~Converted(e) /\ e \notin kept
IsBlocked(e)      == state[e] \in {"busy", "blocked"} /\ e \notin scheduled

(* The final state stays. *)
SetState(s, E) ==
    state' = [e \in Env |-> IF e \in E /\ state[e] # "destroying" THEN s ELSE state[e]]

-----------------------------------------------------------------------------
(* Creating envs and coroutines *)

(* The coroutines C, in the state new otherwise, are no more. *)
Discard(C, new) ==
    /\ ctx' = [c \in Ctx |-> IF c \in C THEN "gone" ELSE new[c]]
    /\ at' = [c \in Ctx |-> IF c \in C THEN Nowhere ELSE at[c]]
    /\ UNCHANGED <<arrived, late>>

(* co::create_env(dont_auto_destroy) and set_exclusive.  Neither the test of *)
(* clean_up__ nor the start of the thread is under normal_lock ...           *)
CreateEnv(e, flags) ==
    /\ ~cleanUp              \* assert(!clean_up__)
    /\ life[e] = "none"
    /\ life' = [life EXCEPT ![e] = "started"]
    /\ SetState("idle", {e})
    /\ kept' = IF "kept" \in flags THEN kept \cup {e} ELSE kept
    /\ exclusive' = IF "exclusive" \in flags THEN exclusive \cup {e} ELSE exclusive
    /\ UNCHANGED <<scheduled, signalled, setVars, ctxVars, jobVars>>

(* ... only the insertion is, and clean-up may be over by then.              *)
InsertEnv(e) ==
    /\ life[e] = "started"
    /\ NormalLock
    /\ life' = [life EXCEPT ![e] = "runs"]
    /\ normal' = normal \cup {e}
    /\ UNCHANGED <<state, kept, exclusive, scheduled, signalled, expired, ctxVars, jobVars>>

(* An env that is made and inserted by who has normal_lock. *)
NewEnv(e) ==
    /\ life[e] = "none"
    /\ life' = [life EXCEPT ![e] = "runs"]
    /\ normal' = normal \cup {e}

(* current_env() on a thread that has none yet. *)
ConvertThread(e) ==
    /\ NormalLock
    /\ NewEnv(e)
    /\ UNCHANGED <<state, kept, exclusive, scheduled, signalled, expired, ctxVars, jobVars>>

(* get_best_env__: an idle env; else the one with the least to do of those   *)
(* that take coroutines, unless they are too few; else a new one.            *)
IdleEnvs    == {e \in normal : state[e] = "idle"}
Candidates  == Schedulable \ exclusive
LeastLoaded == {e \in Candidates : \A f \in Candidates :
                                     Cardinality(Ctxs(e)) <= Cardinality(Ctxs(f))}
BestEnvs    == IF IdleEnvs # {} THEN IdleEnvs ELSE LeastLoaded
WantsNewEnv == IdleEnvs = {} /\ (Candidates = {} \/ Cardinality(Candidates) < BaseEnv)

ChooseEnv(c) ==
    /\ ctx[c] = "new"
    /\ NormalLock
    /\ ctx' = [ctx EXCEPT ![c] = "chosen"]
    /\ \E e \in Env :
         /\ at' = [at EXCEPT ![c] = e]
         /\ \/ /\ ~WantsNewEnv
               /\ e \in BestEnvs
               /\ UNCHANGED <<life, state, normal>>
            \/ /\ WantsNewEnv /\ ~cleanUp
               /\ NewEnv(e)
               /\ SetState("idle", {e})
    /\ UNCHANGED <<kept, exclusive, scheduled, signalled, expired, arrived, late, jobVars>>

(* add_ctx on the chosen env, normal_lock released: the env may have been    *)
(* stopped, and even deleted, since.  The tests of its state come first (the *)
(* second is an assertion: where it fails the process ends) ...              *)
AddCtx(c) ==
    /\ ctx[c] = "chosen"
    /\ IF state[at[c]] # "destroying"
       THEN /\ ctx' = [ctx EXCEPT ![c] = "tested"]
            /\ UNCHANGED <<at, arrived, late>>
       ELSE Discard({c}, ctx)
    /\ UNCHANGED <<envVars, setVars, jobVars>>

(* ... then move_ctx_to_here inserts it, whatever has become of the env ...  *)
MoveCtxToHere(c) ==
    /\ ctx[c] = "tested"
    /\ ctx' = [ctx EXCEPT ![c] = "suspended"]
    /\ arrived' = arrived \cup {<<c, at[c]>>}
    /\ late' = IF Over(at[c]) THEN late \cup {c} ELSE late
    /\ UNCHANGED <<envVars, at, setVars, jobVars>>

(* ... and sets the state, although the thread may have run it already.      *)
MarkBusy(c, e) ==
    /\ <<c, e>> \in arrived
    /\ arrived' = arrived \ {<<c, e>>}
    /\ SetState("busy", {e})
    /\ UNCHANGED <<life, kept, exclusive, scheduled, signalled, at, ctx, late, setVars, jobVars>>

-----------------------------------------------------------------------------
(* The envs *)

(* The second half of a schedule_switch that has swept, or a whole one from  *)
(* the idle coroutine.  remove_detached_ctx__ destroys who finished before.  *)
Resume(e, c) ==
    /\ life[e] = "runs" /\ state[e] # "destroying" /\ ~Converted(e)
    /\ Running(e) = {}
    /\ c \in Ctxs(e) /\ ctx[c] = "suspended"
    /\ \E swept \in {{}, Finished(e)} : Discard(swept, [ctx EXCEPT ![c] = "running"])
    /\ SetState("busy", {e})
    /\ scheduled' = scheduled \cup {e}
    /\ UNCHANGED <<life, kept, exclusive, signalled, setVars, jobVars>>

(* The coroutine yields, waits for something or has finished. *)
Switch(c, how) ==
    /\ ctx[c] = "running"
    /\ Discard(Finished(at[c]), [ctx EXCEPT ![c] = how])
    /\ scheduled' = scheduled \cup {at[c]}
    /\ UNCHANGED <<life, state, kept, exclusive, signalled, setVars, jobVars>>

Wake(c) ==
    /\ ctx[c] = "waiting"
    /\ ctx' = [ctx EXCEPT ![c] = "suspended"]
    /\ UNCHANGED <<envVars, at, arrived, late, setVars, jobVars>>

(* Nobody can run: the idle coroutine sleeps. *)
GoIdle(e) ==
    /\ life[e] = "runs" /\ state[e] = "busy"
    /\ \A c \in Ctxs(e) : ctx[c] \in {"waiting", "finished"}
    /\ SetState("idle", {e})
    /\ UNCHANGED <<life, kept, exclusive, scheduled, signalled, setVars, ctxVars, jobVars>>

(* The switch signal arrives: the coroutine is preempted, unless it or the  *)
(* scheduler is in a section with count__ > 0.                              *)
Preempt(e) ==
    /\ e \in signalled
    /\ signalled' = signalled \ {e}
    /\ \/ UNCHANGED <<ctx, scheduled>>
       \/ \E c \in Running(e) : /\ ctx' = [ctx EXCEPT ![c] = "suspended"]
                                /\ scheduled' = scheduled \cup {e}
    /\ UNCHANGED <<life, state, kept, exclusive, at, arrived, late, setVars, jobVars>>

(* Mutant of End: the lists are left as they are. *)
EndUndrained(e) ==
    /\ life[e] = "runs" /\ state[e] = "destroying"
    /\ Running(e) = {}
    /\ life' = [life EXCEPT ![e] = "ended"]
    /\ scheduled' = scheduled \ {e}
    /\ signalled' = signalled \ {e}
    /\ UNCHANGED <<state, kept, exclusive, setVars, ctxVars, jobVars>>

(* The loop of the thread ends: remove_all_ctx__. *)
End(e) ==
    /\ life[e] = "runs" /\ state[e] = "destroying"
    /\ Running(e) = {}
    /\ life' = [life EXCEPT ![e] = "ended"]
    /\ Discard(Ctxs(e), ctx)
    /\ scheduled' = scheduled \ {e}
    /\ signalled' = signalled \ {e}
    /\ UNCHANGED <<state, kept, exclusive, setVars, jobVars>>

NotifyCleaner == cleaner' = IF cleaner = "wait" THEN "woken" ELSE cleaner

(* task_finished().pub(): remove_env__. *)
RemoveEnv(e) ==
    /\ life[e] = "ended"
    /\ NormalLock
    /\ life' = [life EXCEPT ![e] = "removed"]
    /\ normal' = normal \ {e}
    /\ expired' = expired \cup {e}
    /\ NotifyCleaner
    /\ UNCHANGED <<state, kept, exclusive, scheduled, signalled, ctxVars, cleanUp, monitor,
                   double, redundant>>

-----------------------------------------------------------------------------
(* The monitor *)

GotoTask(from, to) == monitor = from /\ monitor' = to

(* The test of the loop comes with the last task of a tick. *)
NextTick == IF cleanUp THEN "done" ELSE "sleep"

(* force_schedule__ on every tick, unless clean-up came during the sleep; the *)
(* other tasks on every second one.                                           *)
ForceSchedule ==
    /\ GotoTask("sleep", IF double THEN "redistribute" ELSE NextTick)
    /\ double' = ~double
    /\ LET Checked == IF cleanUp THEN {} ELSE normal
       IN  /\ signalled' = signalled \cup
                {e \in Checked : IsBlocked(e) /\ Cardinality(Ctxs(e)) > 1}
           /\ scheduled' = scheduled \ Checked
    /\ UNCHANGED <<life, state, kept, exclusive, setVars, ctxVars, cleanUp, cleaner, redundant>>

(* can_force_schedule: nobody holds schedule_lock__ or disables preemption. *)
CanForceSchedule(count) == count = 0

(* How the count stands when the monitor asks: it has just locked the        *)
(* schedule itself, and the thread may be waiting for the lock or be asleep   *)
(* in a co_preempt_guard.                                                    *)
Counts == {1, 2}

CanMove(c) == ctx[c] \in {"suspended", "waiting"}

(* redistribute_ctx__: whoever can be moved goes from the blocked envs to    *)
(* the best ones.                                                            *)
Redistribute ==
    /\ GotoTask("redistribute", "steal")
    /\ \E count \in Counts, locked \in SUBSET normal :
         LET Asked == IF CanForceSchedule(count) /\ ~cleanUp THEN locked ELSE {}
             Moved == {c \in Ctx : CanMove(c) /\ at[c] \in {e \in Asked : IsBlocked(e)}}
         IN  /\ SetState("blocked", {e \in Asked : IsBlocked(e)})
             /\ scheduled' = scheduled \ Asked
             /\ \E best \in [Moved -> BestEnvs] :
                  at' = [c \in Ctx |-> IF c \in Moved THEN best[c] ELSE at[c]]
    /\ UNCHANGED <<life, kept, exclusive, signalled, setVars, ctx, arrived, late, cleanUp, cleaner,
                   double, redundant>>

(* steal_ctx_routine__: a coroutine of another env for each idle one.  The    *)
(* search stops at the first idle env in the order of normal_set, so any     *)
(* thief may find nothing.                                                   *)
Steal ==
    /\ GotoTask("steal", "collect")
    /\ \E count \in Counts :
         LET Thieves == {e \in IdleEnvs \ exclusive : CanForceSchedule(count)}
             Loot    == {c \in Ctx : CanMove(c) /\ at[c] \in normal \ IdleEnvs}
         IN  \E got \in UNION {Injection(T, Loot) : T \in SUBSET Thieves} :
               /\ at' = [c \in Ctx |-> IF c \in Range(got)
                                      THEN CHOOSE e \in DOMAIN got : got[e] = c
                                      ELSE at[c]]
               /\ SetState("busy", DOMAIN got)
    /\ UNCHANGED <<life, kept, exclusive, scheduled, signalled, setVars, ctx, arrived, late,
                   cleanUp, cleaner, double, redundant>>

(* Mutant of CollectRedundant: one too many. *)
CollectOneMore ==
    /\ GotoTask("collect", "stop")
    /\ LET Idle   == {e \in IdleEnvs : CanAutoDestroy(e) /\ Ctxs(e) = {}}
           Excess == Cardinality(Schedulable) - MaxEnv
       IN  redundant' \in IF Excess < 0 THEN {{}}
                          ELSE IF Cardinality(Idle) <= Excess + 1 THEN {Idle}
                          ELSE {R \in SUBSET Idle : Cardinality(R) = Excess + 1}
    /\ UNCHANGED <<envVars, setVars, ctxVars, cleanUp, cleaner, double>>

(* destroy_redundant_env__, first half: as many of the idle and empty envs   *)
(* as there are too many.                                                    *)
CollectRedundant ==
    /\ GotoTask("collect", "stop")
    /\ LET Idle   == {e \in IdleEnvs : CanAutoDestroy(e) /\ Ctxs(e) = {}}
           Excess == Cardinality(Schedulable) - MaxEnv
       IN  redundant' \in IF Excess <= 0 THEN {{}}
                          ELSE IF Cardinality(Idle) <= Excess THEN {Idle}
                          ELSE {R \in SUBSET Idle : Cardinality(R) = Excess}
    /\ UNCHANGED <<envVars, setVars, ctxVars, cleanUp, cleaner, double>>

(* Mutant of StopRedundant: keeps the lock until what it stopped is gone. *)
StopAndWait ==
    /\ GotoTask("stop", IF redundant = {} THEN NextTick ELSE "stop")
    /\ SetState("destroying", redundant)
    /\ UNCHANGED <<life, kept, exclusive, scheduled, signalled, setVars, ctxVars, cleanUp,
                   cleaner, double, redundant>>

(* Second half: stop them. *)
StopRedundant ==
    /\ GotoTask("stop", NextTick)
    /\ SetState("destroying", redundant)
    /\ redundant' = {}
    /\ UNCHANGED <<life, kept, exclusive, scheduled, signalled, setVars, ctxVars, cleanUp,
                   cleaner, double>>

-----------------------------------------------------------------------------
(* The cleaner and the end of the process *)

Delete(E) == life' = [e \in Env |-> IF e \in E THEN "deleted" ELSE life[e]]

ConvertedEnvs == {e \in normal : Converted(e)}

(* Mutant of SetCleanUp: nobody is notified. *)
SetCleanUpQuietly ==
    /\ ~cleanUp
    /\ NormalLock
    /\ cleanUp' = TRUE
    /\ SetState("destroying", normal \ ConvertedEnvs)
    /\ expired' = expired \cup ConvertedEnvs
    /\ normal' = normal \ ConvertedEnvs
    /\ life' = [e \in Env |-> IF e \in ConvertedEnvs THEN "removed" ELSE life[e]]
    /\ UNCHANGED <<kept, exclusive, scheduled, signalled, ctxVars, cleaner, monitor, double,
                   redundant>>

(* set_clean_up__: stop the threads; the envs without one are expired. *)
SetCleanUp ==
    /\ ~cleanUp
    /\ NormalLock
    /\ cleanUp' = TRUE
    /\ SetState("destroying", normal \ ConvertedEnvs)
    /\ expired' = expired \cup ConvertedEnvs
    /\ normal' = normal \ ConvertedEnvs
    /\ life' = [e \in Env |-> IF e \in ConvertedEnvs THEN "removed" ELSE life[e]]
    /\ NotifyCleaner
    /\ UNCHANGED <<kept, exclusive, scheduled, signalled, ctxVars, monitor, double, redundant>>

(* clean_env_routine__: between two waits of the cleaner it holds the lock.  *)
(* Woken up, it deletes what has expired and waits for more ...              *)
CleanerWait ==
    /\ cleaner \in {"start", "woken"} /\ ~cleanUp
    /\ NormalLock
    /\ cleaner' = "wait"
    /\ IF cleaner = "woken" THEN Delete(expired) /\ expired' = {}
                            ELSE UNCHANGED <<life, expired>>
    /\ UNCHANGED <<state, kept, exclusive, scheduled, signalled, normal, ctxVars, cleanUp,
                   monitor, double, redundant>>

(* ... or, at the end, stops what is still there and forgets it; if nothing  *)
(* is there and it has not waited, it does not look at what has expired.     *)
CleanerEnd ==
    /\ cleaner \in {"start", "woken"} /\ cleanUp
    /\ NormalLock
    /\ cleaner' = "done"
    /\ SetState("destroying", normal \ ConvertedEnvs)
    /\ normal' = {}
    /\ IF cleaner = "woken" \/ normal # {}
       THEN Delete(expired \cup ConvertedEnvs) /\ expired' = {}
       ELSE UNCHANGED <<life, expired>>
    /\ UNCHANGED <<kept, exclusive, scheduled, signalled, ctxVars, cleanUp, monitor, double,
                   redundant>>

CleanerSpurious ==
    /\ cleaner = "wait"
    /\ cleaner' = "woken"
    /\ UNCHANGED <<envVars, setVars, ctxVars, cleanUp, monitor, double, redundant>>

-----------------------------------------------------------------------------
Runs(e) ==
    \/ \E c \in Ctx : Resume(e, c)
    \/ GoIdle(e) \/ Preempt(e) \/ End(e)

Code(c) == \E how \in {"suspended", "waiting", "finished"} : Switch(c, how)

Users ==
    \/ \E e \in Env, flags \in Flags : CreateEnv(e, flags)
    \/ \E e \in Env : InsertEnv(e) \/ ConvertThread(e)
    \/ \E c \in Ctx : ChooseEnv(c) \/ AddCtx(c) \/ MoveCtxToHere(c) \/ Wake(c)
    \/ \E c \in Ctx, e \in Env : MarkBusy(c, e)

Monitor ==
    ForceSchedule \/ Redistribute \/ Steal \/ CollectRedundant \/ StopRedundant

ManagerNext ==
    \/ Users
    \/ \E e \in Env : Runs(e) \/ RemoveEnv(e)
    \/ \E c \in Ctx : Code(c)
    \/ Monitor
    \/ SetCleanUp
    \/ CleanerWait \/ CleanerEnd \/ CleanerSpurious

SafeManagerSpec == ManagerInit /\ [][ManagerNext]_managerVars

(* The threads of the manager and of the envs run, those that contend for    *)
(* normal_lock get it some time, and what runs on an env yields some time.   *)
(* An env ends once, so there fairness need not tell one from the other.     *)
ManagerFairness ==
    /\ WF_managerVars(Monitor)
    /\ SF_managerVars(CleanerWait \/ CleanerEnd)
    /\ WF_managerVars(\E e \in Env : End(e))
    /\ SF_managerVars(\E e \in Env : RemoveEnv(e))
    /\ \A e \in Env : WF_managerVars(\E c \in Running(e) : Code(c))

ManagerSpec == SafeManagerSpec /\ ManagerFairness

(* Where coroutines matter: the list of an env rotates, so each gets its     *)
(* turn (EverybodyRuns of CoEnv).                                            *)
RunningSpec == ManagerSpec /\ \A c \in Ctx : SF_managerVars(\E e \in Env : Resume(e, c))

-----------------------------------------------------------------------------
(* Properties *)

(* An env is in one set, by how far its end has come, and when its thread    *)
(* has ended nothing is left in it: the thread drains its lists before it    *)
(* reports, and nobody moves a coroutine there.  Only an add_ctx that had    *)
(* tested the env before it was stopped may come later (co_env.cpp:83-91,    *)
(* 415-416, co_manager.cpp:153-159, 178-226).                                *)
EnvSets ==
    /\ ManagerTypeOK
    /\ \A e \in Env : e \in normal => life[e] \in {"runs", "ended"}
    /\ \A e \in expired : life[e] = "removed"
    /\ \A e \in Env : Over(e) => Ctxs(e) \subseteq late

(* The monitor stops no env that was to be kept or has no thread of its own, *)
(* and leaves max_env_count that take coroutines, although it decides before *)
(* it acts (co_manager.cpp:308-335).                                         *)
Stopped == {e \in Env : state[e] # "destroying" /\ state'[e] = "destroying"}

StopSparingly ==
    monitor = "stop" /\ Stopped # {} =>
      /\ \A e \in Stopped : CanAutoDestroy(e)
      /\ Cardinality(Schedulable \ Stopped) >= MaxEnv

StopsSparingly == [][StopSparingly]_managerVars

(* The env of a thread that has ended is deleted; nobody but the cleaner     *)
(* does it, which sleeps without a condition (co_manager.cpp:219).  If it    *)
(* has not come to its first wait yet the notification is lost.              *)
EndedDeleted ==
    \A e \in Env : life[e] = "ended" /\ cleaner # "start" ~> life[e] = "deleted" \/ cleanUp

(* Clean-up wakes up and ends the cleaner, the monitor and every thread of   *)
(* an env, also of one that is inserted while clean-up goes on.  What is in  *)
(* normal_set after the cleaner's end was inserted later still, by a         *)
(* create_env that had tested clean_up__ before it was set, and is left      *)
(* running (co_manager.cpp:89-100, 178-226, 337-347).                        *)
CleanUpEnds ==
    cleanUp ~> /\ cleaner = "done" /\ monitor = "done"
               /\ \A e \in Env \ normal : life[e] # "runs"

(* No env stays idle for ever while another has more than one coroutine that *)
(* could run (README.md:53-56, co_manager.cpp:441-491).                      *)
Crowded == {f \in normal \ IdleEnvs :
              Cardinality({c \in Ctxs(f) : ctx[c] \in {"suspended", "running"}}) > 1}

IdleSteals ==
    \A e \in Env : []<>~(e \in IdleEnvs \ exclusive /\ Crowded # {} /\ ~cleanUp)

-----------------------------------------------------------------------------
(* The inductive invariant behind the first two. *)

(* An env whose thread has ended has been stopped, so nobody chooses it any  *)
(* more; one that does not exist yet has not been touched; no coroutine is   *)
(* given to a converted env, so no add_ctx sets its state.                   *)
OverInv ==
    /\ \A e \in Env : Over(e) => state[e] = "destroying" \/ Converted(e)
    /\ \A e \in Env : life[e] = "none" => Converted(e)
    /\ \A c \in Ctx : at[c] \in Env => ~Converted(at[c])
    /\ \A a \in arrived : ~Converted(a[2])

(* What is to be stopped may be, and enough is left without it.              *)
RedundantInv ==
    /\ redundant # {} => monitor = "stop"
    /\ \A e \in redundant : CanAutoDestroy(e)
    /\ redundant # {} => Cardinality(Schedulable \ redundant) >= MaxEnv

(* What keeps the sets of envs and the monitor's decision right, although    *)
(* the envs and add_ctx go on without normal_lock (co_manager.cpp:135-347,   *)
(* 436).                                                                     *)
ManagerInv == EnvSets /\ OverInv /\ RedundantInv
=============================================================================
