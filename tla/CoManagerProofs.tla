--------------------------- MODULE CoManagerProofs ---------------------------
(***************************************************************************)
(* Proofs about co_manager: its sets of envs and its monitor (CoManager),   *)
(* then its timers and the thread that runs them (CoTimer).                 *)
(*                                                                         *)
(* For every number of envs, coroutines and limits the sets of envs are     *)
(* what they should be in every reachable state, and the monitor stops envs *)
(* sparingly.  For every number of coroutines, waits and starts and every   *)
(* bound of the clock the queue, status__ and the waits agree in every      *)
(* state, a timer that fires once fires once, and a wait ends only with its *)
(* own timer or the end of its target.                                      *)
(*                                                                         *)
(* ManagerInv and TimerInv are inductive, so most lemmas below say that one *)
(* action preserves the one or the other, conjunct by conjunct.             *)
(***************************************************************************)
EXTENDS CoManager, CoTimer, QueueLemmas

-----------------------------------------------------------------------------
(* The sets of envs (CoManager)                                            *)

USE ManagerAssumption

-----------------------------------------------------------------------------
(* The parts of the invariant *)

SetsInv ==
    /\ \A e \in normal : life[e] \in {"runs", "ended"}
    /\ \A e \in expired : life[e] = "removed"

(* What EnvSets and OverInv say of an env whose thread has ended, together. *)
DrainedInv ==
    /\ \A e \in Env : Over(e) => /\ state[e] = "destroying" \/ Converted(e)
                                /\ Ctxs(e) \subseteq late
    /\ \A e \in Env : life[e] = "none" => Converted(e)
    /\ \A c \in Ctx : at[c] \in Env => ~Converted(at[c])
    /\ \A a \in arrived : ~Converted(a[2])

LEMMA ManagerParts == /\ ManagerInv <=> ManagerTypeOK /\ SetsInv /\ DrainedInv /\ RedundantInv
                      /\ ManagerInv' <=> ManagerTypeOK' /\ SetsInv' /\ DrainedInv' /\ RedundantInv'
  BY DEF ManagerInv, EnvSets, SetsInv, OverInv, DrainedInv, ManagerTypeOK

LEMMA InitManagerInv == ManagerInit => ManagerInv
  <1> SUFFICES ASSUME ManagerInit PROVE ManagerTypeOK /\ SetsInv /\ DrainedInv /\ RedundantInv
    BY ManagerParts
  <1>1. ManagerTypeOK
    BY DEF ManagerInit, ManagerTypeOK, Listed, Adding
  <1>2. SetsInv /\ DrainedInv /\ RedundantInv
    BY DEF ManagerInit, SetsInv, DrainedInv, RedundantInv, Over, Converted, Ctxs
  <1> QED
    BY <1>1, <1>2

(* What is left beyond the redundant envs does not become less while more   *)
(* envs become schedulable.                                                 *)
LEMMA MoreSchedulable ==
    ASSUME normal' \subseteq Env, Schedulable \subseteq Schedulable', redundant' = redundant,
           Cardinality(Schedulable \ redundant) >= MaxEnv
    PROVE  Cardinality(Schedulable' \ redundant') >= MaxEnv
  <1>1. IsFiniteSet(Schedulable' \ redundant')
    BY FS_Subset DEF Schedulable
  <1>2. /\ IsFiniteSet(Schedulable \ redundant)
        /\ Cardinality(Schedulable \ redundant) <= Cardinality(Schedulable' \ redundant')
    BY <1>1, FS_Subset
  <1>3. /\ Cardinality(Schedulable \ redundant) \in Nat
        /\ Cardinality(Schedulable' \ redundant') \in Nat
    BY <1>1, <1>2, FS_CardinalityType
  <1> QED
    BY <1>2, <1>3

-----------------------------------------------------------------------------
(* The actions *)

(* The env is new, so nothing is given to it, and nothing of it is to be stopped. *)
LEMMA CreateEnvInv ==
    ASSUME ManagerInv, NEW e \in Env, NEW flags \in Flags, CreateEnv(e, flags)
    PROVE  ManagerInv'
  <1> USE DEF CreateEnv, SetState, envVars, setVars, ctxVars, jobVars
  <1>1. ManagerTypeOK /\ SetsInv /\ DrainedInv /\ RedundantInv
    BY ManagerParts
  <1>2. ManagerTypeOK'
    BY <1>1 DEF ManagerTypeOK, Listed, Adding
  <1>3. SetsInv'
    BY <1>1 DEF ManagerTypeOK, SetsInv
  <1>4. DrainedInv'
    BY <1>1 DEF ManagerTypeOK, DrainedInv, Over, Converted, Ctxs
  <1>5. RedundantInv'
    <2>1. UNCHANGED <<redundant, normal, monitor>> /\ Converted(e) /\ e \notin normal
      BY <1>1 DEF ManagerTypeOK, DrainedInv, SetsInv
    <2>2. \A f \in Env : f # e => state'[f] = state[f] /\ (f \in kept' <=> f \in kept)
      BY <1>1 DEF ManagerTypeOK
    <2>3. \A f \in redundant : f # e /\ CanAutoDestroy(f)'
      BY <1>1, <2>1, <2>2 DEF ManagerTypeOK, RedundantInv, CanAutoDestroy, Converted
    <2>4. Schedulable \subseteq Schedulable'
      BY <1>1, <2>1, <2>2 DEF Schedulable, CanScheduleCtx, Converted, ManagerTypeOK
    <2> QED
      BY <1>1, <2>1, <2>3, <2>4, MoreSchedulable DEF ManagerTypeOK, RedundantInv
  <1> QED
    BY <1>2, <1>3, <1>4, <1>5, ManagerParts

(* The env gets into normal_set; the lock is free, so nothing is to be stopped. *)
LEMMA InsertEnvInv ==
    ASSUME ManagerInv, NEW e \in Env, InsertEnv(e)
    PROVE  ManagerInv'
  <1> USE DEF InsertEnv, envVars, setVars, ctxVars, jobVars
  <1>1. ManagerTypeOK /\ SetsInv /\ DrainedInv /\ RedundantInv
    BY ManagerParts
  <1>2. ManagerTypeOK'
    BY <1>1 DEF ManagerTypeOK, Listed, Adding
  <1>3. SetsInv'
    BY <1>1 DEF ManagerTypeOK, SetsInv
  <1>4. DrainedInv'
    BY <1>1 DEF ManagerTypeOK, DrainedInv, Over, Converted, Ctxs
  <1>5. RedundantInv'
    BY <1>1 DEF RedundantInv, NormalLock
  <1> QED
    BY <1>2, <1>3, <1>4, <1>5, ManagerParts

(* As InsertEnv, of an env that is new and stays in the state created. *)
LEMMA ConvertThreadInv ==
    ASSUME ManagerInv, NEW e \in Env, ConvertThread(e)
    PROVE  ManagerInv'
  <1> USE DEF ConvertThread, NewEnv, envVars, setVars, ctxVars, jobVars
  <1>1. ManagerTypeOK /\ SetsInv /\ DrainedInv /\ RedundantInv
    BY ManagerParts
  <1>2. ManagerTypeOK'
    BY <1>1 DEF ManagerTypeOK, Listed, Adding
  <1>3. SetsInv'
    BY <1>1 DEF ManagerTypeOK, SetsInv
  <1>4. DrainedInv'
    BY <1>1 DEF ManagerTypeOK, DrainedInv, Over, Converted, Ctxs
  <1>5. RedundantInv'
    BY <1>1 DEF RedundantInv, NormalLock
  <1> QED
    BY <1>2, <1>3, <1>4, <1>5, ManagerParts

(* The chosen env exists and is not converted: idle, least loaded, or new. *)
LEMMA ChooseEnvInv ==
    ASSUME ManagerInv, NEW c \in Ctx, ChooseEnv(c)
    PROVE  ManagerInv'
  <1> USE DEF ChooseEnv, NewEnv, SetState, BestEnvs, IdleEnvs, LeastLoaded, Candidates, envVars,
     setVars, ctxVars, jobVars
  <1>1. ManagerTypeOK /\ SetsInv /\ DrainedInv /\ RedundantInv
    BY ManagerParts
  <1>2. ManagerTypeOK'
    BY <1>1 DEF ManagerTypeOK, Listed, Adding
  <1>3. SetsInv'
    BY <1>1 DEF ManagerTypeOK, SetsInv
  <1>4. DrainedInv'
    BY <1>1 DEF ManagerTypeOK, DrainedInv, Over, Converted, Ctxs, SetsInv, Schedulable,
                CanScheduleCtx
  <1>5. RedundantInv'
    BY <1>1 DEF RedundantInv, NormalLock
  <1> QED
    BY <1>2, <1>3, <1>4, <1>5, ManagerParts

(* The env chosen before may have been stopped since: then the coroutine is discarded. *)
LEMMA AddCtxInv ==
    ASSUME ManagerInv, NEW c \in Ctx, AddCtx(c)
    PROVE  ManagerInv'
  <1> USE DEF AddCtx, Discard, envVars, setVars, ctxVars, jobVars
  <1>1. ManagerTypeOK /\ SetsInv /\ DrainedInv /\ RedundantInv
    BY ManagerParts
  <1>2. ManagerTypeOK'
    BY <1>1 DEF ManagerTypeOK, Listed, Adding
  <1>3. SetsInv'
    BY <1>1 DEF ManagerTypeOK, SetsInv
  <1>4. DrainedInv'
    BY <1>1 DEF ManagerTypeOK, DrainedInv, Over, Converted, Ctxs, Listed
  <1>5. RedundantInv'
    BY <1>1 DEF RedundantInv, CanAutoDestroy, Converted, Schedulable, CanScheduleCtx
  <1> QED
    BY <1>2, <1>3, <1>4, <1>5, ManagerParts

(* If its thread has ended, the coroutine is late. *)
LEMMA MoveCtxToHereInv ==
    ASSUME ManagerInv, NEW c \in Ctx, MoveCtxToHere(c)
    PROVE  ManagerInv'
  <1> USE DEF MoveCtxToHere, envVars, setVars, ctxVars, jobVars
  <1>1. ManagerTypeOK /\ SetsInv /\ DrainedInv /\ RedundantInv
    BY ManagerParts
  <1>0. at[c] \in Env /\ ~Converted(at[c])
    BY <1>1 DEF ManagerTypeOK, DrainedInv, Adding
  <1>2. ManagerTypeOK'
    BY <1>0, <1>1 DEF ManagerTypeOK, Listed, Adding
  <1>3. SetsInv'
    BY <1>1 DEF ManagerTypeOK, SetsInv
  <1>4. DrainedInv'
    <2>1. \A a \in arrived' : ~Converted(a[2])'
      BY <1>0, <1>1 DEF DrainedInv, Converted
    <2>2. ASSUME NEW e \in Env, Over(e)' PROVE Ctxs(e)' \subseteq late'
      <3>1. Over(e) /\ Ctxs(e) \subseteq late
        BY <1>1, <2>2 DEF DrainedInv, Over
      <3>2. \A d \in Ctxs(e)' : d \in Ctxs(e) \/ (d = c /\ at[c] = e)
        BY <1>1 DEF Ctxs, ManagerTypeOK
      <3> QED
        BY <3>1, <3>2
    <2> QED
      BY <1>1, <2>1, <2>2 DEF DrainedInv, Over, Converted
  <1>5. RedundantInv'
    BY <1>1 DEF RedundantInv, CanAutoDestroy, Converted, Schedulable, CanScheduleCtx
  <1> QED
    BY <1>2, <1>3, <1>4, <1>5, ManagerParts

(* A stopped env stays stopped, a blocked one can be scheduled on again. *)
LEMMA MarkBusyInv ==
    ASSUME ManagerInv, NEW c \in Ctx, NEW e \in Env, MarkBusy(c, e)
    PROVE  ManagerInv'
  <1> USE DEF MarkBusy, SetState, envVars, setVars, ctxVars, jobVars
  <1>1. ManagerTypeOK /\ SetsInv /\ DrainedInv /\ RedundantInv
    BY ManagerParts
  <1>0. ~Converted(e)
    BY <1>1 DEF DrainedInv
  <1>2. ManagerTypeOK'
    BY <1>1 DEF ManagerTypeOK, Listed, Adding
  <1>3. SetsInv'
    BY <1>1 DEF ManagerTypeOK, SetsInv
  <1>4. DrainedInv'
    <2>1. \A f \in Env : (Converted(f)' <=> Converted(f))
                         /\ (state[f] = "destroying" => state'[f] = "destroying")
      BY <1>0, <1>1 DEF Converted, ManagerTypeOK
    <2>2. \A a \in arrived' : a \in arrived /\ a[2] \in Env
      BY <1>1 DEF ManagerTypeOK
    <2>3. \A f \in Env : Ctxs(f)' = Ctxs(f) /\ (Over(f)' <=> Over(f))
      BY DEF Ctxs, Over
    <2> QED
      BY <1>1, <2>1, <2>2, <2>3 DEF DrainedInv
  <1>5. RedundantInv'
    <2>1. UNCHANGED <<redundant, normal, kept, monitor>>
      OBVIOUS
    <2>2. \A f \in redundant : CanAutoDestroy(f)'
      BY <1>0, <1>1, <2>1 DEF ManagerTypeOK, RedundantInv, CanAutoDestroy, Converted
    <2>3. Schedulable \subseteq Schedulable'
      BY <1>0, <1>1, <2>1 DEF Schedulable, CanScheduleCtx, Converted, ManagerTypeOK
    <2> QED
      BY <1>1, <2>1, <2>2, <2>3, MoreSchedulable DEF ManagerTypeOK, RedundantInv
  <1> QED
    BY <1>2, <1>3, <1>4, <1>5, ManagerParts

(* A coroutine becomes ready where it is. *)
LEMMA WakeInv ==
    ASSUME ManagerInv, NEW c \in Ctx, Wake(c)
    PROVE  ManagerInv'
  <1> USE DEF Wake, envVars, setVars, ctxVars, jobVars
  <1>1. ManagerTypeOK /\ SetsInv /\ DrainedInv /\ RedundantInv
    BY ManagerParts
  <1>2. ManagerTypeOK'
    BY <1>1 DEF ManagerTypeOK, Listed, Adding
  <1>3. SetsInv'
    BY <1>1 DEF ManagerTypeOK, SetsInv
  <1>4. DrainedInv'
    BY <1>1 DEF ManagerTypeOK, DrainedInv, Over, Converted, Ctxs, Listed
  <1>5. RedundantInv'
    BY <1>1 DEF RedundantInv, CanAutoDestroy, Converted, Schedulable, CanScheduleCtx
  <1> QED
    BY <1>2, <1>3, <1>4, <1>5, ManagerParts

(* The env runs, so it is not over; it may only become busy, which keeps it schedulable. *)
LEMMA ResumeInv ==
    ASSUME ManagerInv, NEW e \in Env, NEW c \in Ctx, Resume(e, c)
    PROVE  ManagerInv'
  <1> USE DEF Resume, SetState, Discard, Finished, envVars, setVars, ctxVars, jobVars
  <1>1. ManagerTypeOK /\ SetsInv /\ DrainedInv /\ RedundantInv
    BY ManagerParts
  <1>2. ManagerTypeOK'
    BY <1>1 DEF ManagerTypeOK, Listed, Adding
  <1>3. SetsInv'
    BY <1>1 DEF ManagerTypeOK, SetsInv
  <1>4. DrainedInv'
    BY <1>1 DEF ManagerTypeOK, DrainedInv, Over, Converted, Ctxs
  <1>5. RedundantInv'
    <2>1. UNCHANGED <<redundant, normal, kept, monitor>>
      OBVIOUS
    <2>2. \A f \in redundant : CanAutoDestroy(f)'
      BY <1>1, <2>1 DEF ManagerTypeOK, RedundantInv, DrainedInv, CanAutoDestroy, Converted
    <2>3. Schedulable \subseteq Schedulable'
      BY <1>1, <2>1 DEF Schedulable, CanScheduleCtx, Converted, DrainedInv, ManagerTypeOK
    <2> QED
      BY <1>1, <2>1, <2>2, <2>3, MoreSchedulable DEF ManagerTypeOK, RedundantInv
  <1> QED
    BY <1>2, <1>3, <1>4, <1>5, ManagerParts

(* From busy to idle: schedulable before and after. *)
LEMMA GoIdleInv ==
    ASSUME ManagerInv, NEW e \in Env, GoIdle(e)
    PROVE  ManagerInv'
  <1> USE DEF GoIdle, SetState, envVars, setVars, ctxVars, jobVars
  <1>1. ManagerTypeOK /\ SetsInv /\ DrainedInv /\ RedundantInv
    BY ManagerParts
  <1>2. ManagerTypeOK'
    BY <1>1 DEF ManagerTypeOK, Listed, Adding
  <1>3. SetsInv'
    BY <1>1 DEF ManagerTypeOK, SetsInv
  <1>4. DrainedInv'
    BY <1>1 DEF ManagerTypeOK, DrainedInv, Over, Converted, Ctxs
  <1>5. RedundantInv'
    BY <1>1 DEF RedundantInv, CanAutoDestroy, Converted, Schedulable, CanScheduleCtx, ManagerTypeOK
  <1> QED
    BY <1>2, <1>3, <1>4, <1>5, ManagerParts

(* Only coroutines and flags change. *)
LEMMA PreemptInv ==
    ASSUME ManagerInv, NEW e \in Env, Preempt(e)
    PROVE  ManagerInv'
  <1> USE DEF Preempt, Running, envVars, setVars, ctxVars, jobVars
  <1>1. ManagerTypeOK /\ SetsInv /\ DrainedInv /\ RedundantInv
    BY ManagerParts
  <1>2. ManagerTypeOK'
    BY <1>1 DEF ManagerTypeOK, Listed, Adding
  <1>3. SetsInv'
    BY <1>1 DEF ManagerTypeOK, SetsInv
  <1>4. DrainedInv'
    BY <1>1 DEF ManagerTypeOK, DrainedInv, Over, Converted, Ctxs
  <1>5. RedundantInv'
    BY <1>1 DEF RedundantInv, CanAutoDestroy, Converted, Schedulable, CanScheduleCtx
  <1> QED
    BY <1>2, <1>3, <1>4, <1>5, ManagerParts

(* The lists are drained in the step that ends the thread. *)
LEMMA EndInv ==
    ASSUME ManagerInv, NEW e \in Env, End(e)
    PROVE  ManagerInv'
  <1> USE DEF End, Discard, envVars, setVars, ctxVars, jobVars
  <1>1. ManagerTypeOK /\ SetsInv /\ DrainedInv /\ RedundantInv
    BY ManagerParts
  <1>2. ManagerTypeOK'
    BY <1>1 DEF ManagerTypeOK, Listed, Adding
  <1>3. SetsInv'
    BY <1>1 DEF ManagerTypeOK, SetsInv
  <1>4. DrainedInv'
    BY <1>1 DEF ManagerTypeOK, DrainedInv, Over, Converted, Ctxs
  <1>5. RedundantInv'
    BY <1>1 DEF RedundantInv, CanAutoDestroy, Converted, Schedulable, CanScheduleCtx
  <1> QED
    BY <1>2, <1>3, <1>4, <1>5, ManagerParts

(* From normal_set to expired_set, in the step that records it. *)
LEMMA RemoveEnvInv ==
    ASSUME ManagerInv, NEW e \in Env, RemoveEnv(e)
    PROVE  ManagerInv'
  <1> USE DEF RemoveEnv, NotifyCleaner, envVars, setVars, ctxVars, jobVars
  <1>1. ManagerTypeOK /\ SetsInv /\ DrainedInv /\ RedundantInv
    BY ManagerParts
  <1>2. ManagerTypeOK'
    BY <1>1 DEF ManagerTypeOK, Listed, Adding
  <1>3. SetsInv'
    BY <1>1 DEF ManagerTypeOK, SetsInv
  <1>4. DrainedInv'
    BY <1>1 DEF ManagerTypeOK, DrainedInv, Over, Converted, Ctxs
  <1>5. RedundantInv'
    BY <1>1 DEF RedundantInv, NormalLock
  <1> QED
    BY <1>2, <1>3, <1>4, <1>5, ManagerParts

(* Only coroutines and flags change. *)
LEMMA SwitchInv ==
    ASSUME ManagerInv, NEW c \in Ctx, NEW how \in {"suspended", "waiting", "finished"},
           Switch(c, how)
    PROVE  ManagerInv'
  <1> USE DEF Switch, Discard, Finished, envVars, setVars, ctxVars, jobVars
  <1>1. ManagerTypeOK /\ SetsInv /\ DrainedInv /\ RedundantInv
    BY ManagerParts
  <1>2. ManagerTypeOK'
    BY <1>1 DEF ManagerTypeOK, Listed, Adding
  <1>3. SetsInv'
    BY <1>1 DEF ManagerTypeOK, SetsInv
  <1>4. DrainedInv'
    BY <1>1 DEF ManagerTypeOK, DrainedInv, Over, Converted, Ctxs, Listed
  <1>5. RedundantInv'
    BY <1>1 DEF RedundantInv, CanAutoDestroy, Converted, Schedulable, CanScheduleCtx
  <1> QED
    BY <1>2, <1>3, <1>4, <1>5, ManagerParts

(* Only flags change. *)
LEMMA ForceScheduleInv ==
    ASSUME ManagerInv, ForceSchedule
    PROVE  ManagerInv'
  <1> USE DEF ForceSchedule, GotoTask, NextTick, envVars, setVars, ctxVars, jobVars
  <1>1. ManagerTypeOK /\ SetsInv /\ DrainedInv /\ RedundantInv
    BY ManagerParts
  <1>2. ManagerTypeOK'
    BY <1>1 DEF ManagerTypeOK, Listed, Adding
  <1>3. SetsInv'
    BY <1>1 DEF ManagerTypeOK, SetsInv
  <1>4. DrainedInv'
    BY <1>1 DEF ManagerTypeOK, DrainedInv, Over, Converted, Ctxs
  <1>5. RedundantInv'
    BY <1>1 DEF RedundantInv, CanAutoDestroy, Converted, Schedulable, CanScheduleCtx
  <1> QED
    BY <1>2, <1>3, <1>4, <1>5, ManagerParts

(* Who is moved goes to a best env, which exists and is not converted. *)
LEMMA RedistributeInv ==
    ASSUME ManagerInv, Redistribute
    PROVE  ManagerInv'
  <1> USE DEF Redistribute, GotoTask, SetState, BestEnvs, IdleEnvs, LeastLoaded, Candidates,
     CanMove, IsBlocked, envVars, setVars, ctxVars, jobVars
  <1>1. ManagerTypeOK /\ SetsInv /\ DrainedInv /\ RedundantInv
    BY ManagerParts
  <1>2. ManagerTypeOK'
    <2>1. PICK counted \in Counts, locked \in SUBSET normal :
            LET Asked == IF CanForceSchedule(counted) /\ ~cleanUp THEN locked ELSE {}
                Moved == {c \in Ctx : CanMove(c) /\ at[c] \in {e \in Asked : IsBlocked(e)}}
            IN  /\ SetState("blocked", {e \in Asked : IsBlocked(e)})
                /\ scheduled' = scheduled \ Asked
                /\ \E best \in [Moved -> BestEnvs] :
                     at' = [c \in Ctx |-> IF c \in Moved THEN best[c] ELSE at[c]]
      OBVIOUS
    <2> DEFINE Asked == IF CanForceSchedule(counted) /\ ~cleanUp THEN locked ELSE {}
               Moved == {c \in Ctx : CanMove(c) /\ at[c] \in {e \in Asked : IsBlocked(e)}}
    <2>2. PICK best \in [Moved -> BestEnvs] :
            at' = [c \in Ctx |-> IF c \in Moved THEN best[c] ELSE at[c]]
      BY <2>1
    <2>3. BestEnvs \subseteq Env
      BY <1>1 DEF ManagerTypeOK, Schedulable
    <2>4. \A c \in Moved : ctx[c] \in Listed /\ best[c] \in Env
      BY <2>3 DEF Listed
    <2>5. /\ at' \in [Ctx -> Env \cup {Nowhere}]
          /\ \A c \in Ctx : at'[c] \in Env <=> ctx[c] \in Listed \cup Adding
      BY <1>1, <2>2, <2>4 DEF ManagerTypeOK
    <2>6. state' \in [Env -> {"created", "idle", "busy", "blocked", "destroying"}]
      BY <1>1, <2>1 DEF ManagerTypeOK
    <2>7. scheduled' \subseteq Env
      BY <1>1, <2>1 DEF ManagerTypeOK
    <2> QED
      BY <1>1, <2>5, <2>6, <2>7 DEF ManagerTypeOK
  <1>3. SetsInv'
    BY <1>1 DEF ManagerTypeOK, SetsInv
  <1>4. DrainedInv'
    <2>1. /\ UNCHANGED <<life, ctx, late, arrived>>
          /\ \A e \in Env : \/ state'[e] = state[e]
                            \/ state[e] \in {"busy", "blocked"} /\ state'[e] = "blocked"
          /\ \A c \in Ctx : at'[c] = at[c] \/ (at'[c] \in BestEnvs /\ CanMove(c))
      BY <1>1 DEF ManagerTypeOK
    <2>2. \A e \in BestEnvs : e \in Env /\ state[e] \notin {"created", "destroying"}
      BY <1>1 DEF ManagerTypeOK, Schedulable, CanScheduleCtx, Converted
    <2>3. \A e \in Env : (Over(e)' <=> Over(e)) /\ (Converted(e)' <=> Converted(e))
      BY <2>1 DEF Over, Converted
    <2>4. ASSUME NEW e \in Env, Over(e)
          PROVE  (state'[e] = "destroying" \/ Converted(e)') /\ Ctxs(e)' \subseteq late'
      <3>1. (state[e] = "destroying" \/ Converted(e)) /\ Ctxs(e) \subseteq late
        BY <1>1, <2>4 DEF DrainedInv
      <3>2. e \notin BestEnvs
        BY <2>2, <3>1 DEF Converted
      <3>3. Ctxs(e)' \subseteq late'
        BY <2>1, <3>1, <3>2 DEF Ctxs
      <3> QED
        BY <2>1, <2>3, <3>1, <3>3
    <2>5. \A e \in Env : life'[e] = "none" => Converted(e)'
      BY <1>1, <2>1, <2>3 DEF DrainedInv
    <2>6. ASSUME NEW c \in Ctx, at'[c] \in Env PROVE state'[at'[c]] # "created"
      <3>1. CASE at'[c] = at[c]
        BY <1>1, <2>1, <2>6, <3>1 DEF DrainedInv, Converted
      <3>2. CASE at'[c] \in BestEnvs
        BY <2>1, <2>2, <3>2
      <3> QED
        BY <2>1, <3>1, <3>2
    <2>7. \A a \in arrived' : a[2] \in Env /\ ~Converted(a[2])'
      BY <1>1, <2>1, <2>3 DEF DrainedInv, ManagerTypeOK
    <2> QED
      BY <2>3, <2>4, <2>5, <2>6, <2>7 DEF DrainedInv, Converted
  <1>5. RedundantInv'
    BY <1>1 DEF RedundantInv, CanAutoDestroy, Converted, Schedulable, CanScheduleCtx
  <1> QED
    BY <1>2, <1>3, <1>4, <1>5, ManagerParts

(* Who is stolen goes to an idle env. *)
LEMMA StealInv ==
    ASSUME ManagerInv, Steal
    PROVE  ManagerInv'
  <1>1. ManagerTypeOK /\ SetsInv /\ DrainedInv /\ RedundantInv
    BY ManagerParts
  <1>2. /\ at' \in [Ctx -> Env \cup {Nowhere}]
        /\ state' \in [Env -> {"created", "idle", "busy", "blocked", "destroying"}]
        /\ \A c \in Ctx : at'[c] = at[c] \/ ctx[c] \in Listed
        /\ \A c \in Ctx : at'[c] = at[c] \/ (at'[c] \in normal /\ state[at'[c]] = "idle")
        /\ \A e \in Env : state'[e] = state[e] \/ (state[e] = "idle" /\ state'[e] = "busy")
    <2>1. PICK counted \in Counts :
            LET Thieves == {e \in IdleEnvs \ exclusive : CanForceSchedule(counted)}
                Loot    == {c \in Ctx : CanMove(c) /\ at[c] \in normal \ IdleEnvs}
            IN  \E got \in UNION {Injection(T, Loot) : T \in SUBSET Thieves} :
                  /\ at' = [c \in Ctx |-> IF c \in Range(got)
                                         THEN CHOOSE e \in DOMAIN got : got[e] = c
                                         ELSE at[c]]
                  /\ SetState("busy", DOMAIN got)
      BY DEF Steal
    <2> DEFINE Thieves == {e \in IdleEnvs \ exclusive : CanForceSchedule(counted)}
               Loot    == {c \in Ctx : CanMove(c) /\ at[c] \in normal \ IdleEnvs}
    <2>2. PICK got \in UNION {Injection(T, Loot) : T \in SUBSET Thieves} :
            /\ at' = [c \in Ctx |-> IF c \in Range(got)
                                   THEN CHOOSE e \in DOMAIN got : got[e] = c
                                   ELSE at[c]]
            /\ SetState("busy", DOMAIN got)
      BY <2>1
    <2>3. PICK T \in SUBSET Thieves : got \in Injection(T, Loot)
      BY <2>2
    <2>4. got \in [T -> Loot] /\ DOMAIN got = T
      BY <2>3 DEF Injection, IsInjective
    <2>5. \A c \in Range(got) : c \in Loot /\ \E e \in DOMAIN got : got[e] = c
      BY <2>4 DEF Range
    <2> DEFINE Thief(c) == CHOOSE e \in DOMAIN got : got[e] = c
    <2>6. \A c \in Range(got) : Thief(c) \in T
      BY <2>4, <2>5
    <2> HIDE DEF Thief
    <2>7. \A c \in Ctx : at'[c] = IF c \in Range(got) THEN Thief(c) ELSE at[c]
      BY <2>2 DEF Thief
    <2>8. \A e \in T : e \in normal /\ state[e] = "idle"
      BY <2>3 DEF IdleEnvs
    <2>9. \A e \in Env : state'[e] = IF e \in T THEN "busy" ELSE state[e]
      BY <1>1, <2>2, <2>4, <2>8 DEF SetState, ManagerTypeOK
    <2>10. at' = [c \in Ctx |-> at'[c]] /\ state' = [e \in Env |-> state'[e]]
      BY <2>2 DEF SetState
    <2>11. \A c \in Range(got) : ctx[c] \in Listed
      BY <2>5 DEF CanMove, Listed
    <2>12. \A c \in Ctx : at'[c] \in Env \cup {Nowhere}
      BY <1>1, <2>6, <2>7, <2>8 DEF ManagerTypeOK
    <2>13. \A e \in Env : state'[e] \in {"created", "idle", "busy", "blocked", "destroying"}
      BY <1>1, <2>9 DEF ManagerTypeOK
    <2>14. \A c \in Ctx : at'[c] = at[c] \/ (at'[c] \in normal /\ state[at'[c]] = "idle")
      BY <2>6, <2>7, <2>8
    <2>15. \A e \in Env : state'[e] = state[e] \/ (state[e] = "idle" /\ state'[e] = "busy")
      BY <2>8, <2>9
    <2> QED
      BY <2>7, <2>10, <2>11, <2>12, <2>13, <2>14, <2>15
  <1>3. UNCHANGED <<life, kept, exclusive, scheduled, signalled, normal, expired, ctx, arrived,
                    late, cleanUp, cleaner, double, redundant>>
        /\ monitor = "steal" /\ monitor' = "collect"
    BY DEF Steal, GotoTask, setVars
  <1>4. ManagerTypeOK'
    BY <1>1, <1>2, <1>3 DEF ManagerTypeOK, Listed, Ctxs
  <1>5. SetsInv'
    BY <1>1, <1>3 DEF SetsInv
  <1>6. DrainedInv'
    BY <1>1, <1>2, <1>3 DEF ManagerTypeOK, DrainedInv, Over, Converted, Ctxs
  <1>7. RedundantInv'
    BY <1>1, <1>3 DEF RedundantInv
  <1> QED
    BY <1>4, <1>5, <1>6, <1>7, ManagerParts

(* What is collected is schedulable, and no more than there are too many. *)
LEMMA CollectRedundantInv ==
    ASSUME ManagerInv, CollectRedundant
    PROVE  ManagerInv'
  <1> USE DEF CollectRedundant, GotoTask, IdleEnvs, envVars, setVars, ctxVars, jobVars
  <1>1. ManagerTypeOK /\ SetsInv /\ DrainedInv /\ RedundantInv
    BY ManagerParts
  <1>2. ManagerTypeOK'
    BY <1>1 DEF ManagerTypeOK, Listed, Adding
  <1>3. SetsInv'
    BY <1>1 DEF ManagerTypeOK, SetsInv
  <1>4. DrainedInv'
    BY <1>1 DEF ManagerTypeOK, DrainedInv, Over, Converted, Ctxs
  <1>5. RedundantInv'
    <2> DEFINE Spare   == {e \in IdleEnvs : CanAutoDestroy(e) /\ Ctxs(e) = {}}
               Excess == Cardinality(Schedulable) - MaxEnv
    <2>1. /\ UNCHANGED <<state, kept, normal>>
          /\ monitor' = "stop"
          /\ redundant' \in IF Excess <= 0 THEN {{}}
                            ELSE IF Cardinality(Spare) <= Excess THEN {Spare}
                            ELSE {R \in SUBSET Spare : Cardinality(R) = Excess}
      OBVIOUS
    <2>2. Spare \subseteq Schedulable /\ Schedulable \subseteq Env
      BY <1>1 DEF ManagerTypeOK, Schedulable, CanScheduleCtx, CanAutoDestroy
    <2>3. redundant' \subseteq Spare
      BY <2>1
    <2>4. Schedulable' = Schedulable /\ \A e \in redundant' : CanAutoDestroy(e)'
      BY <2>1, <2>3 DEF Schedulable, CanScheduleCtx, CanAutoDestroy, Converted
    <2>5. IsFiniteSet(Schedulable) /\ IsFiniteSet(redundant')
      BY <2>2, <2>3, FS_Subset
    <2>6. Cardinality(Schedulable) \in Nat /\ Cardinality(redundant') \in Nat
      BY <2>5, FS_CardinalityType
    <2>7. Excess \in Int
      BY <2>6
    <2> HIDE DEF Spare
    <2>8. ASSUME redundant' # {}
          PROVE  Cardinality(Schedulable \ redundant') >= MaxEnv
      <3>1. Cardinality(redundant') <= Excess
        <4> HIDE DEF Excess
        <4> QED
          BY <2>1, <2>6, <2>7, <2>8
      <3>2. Schedulable \cap redundant' = redundant'
        BY <2>2, <2>3
      <3>3. Cardinality(Schedulable \ redundant')
              = Cardinality(Schedulable) - Cardinality(redundant')
        BY <2>5, <3>2, FS_Difference
      <3> QED
        BY <2>6, <3>1, <3>3
    <2> QED
      BY <2>1, <2>4, <2>8 DEF RedundantInv
  <1> QED
    BY <1>2, <1>3, <1>4, <1>5, ManagerParts

(* Nothing is left to be stopped. *)
LEMMA StopRedundantInv ==
    ASSUME ManagerInv, StopRedundant
    PROVE  ManagerInv'
  <1> USE DEF StopRedundant, GotoTask, NextTick, SetState, envVars, setVars, ctxVars, jobVars
  <1>1. ManagerTypeOK /\ SetsInv /\ DrainedInv /\ RedundantInv
    BY ManagerParts
  <1>2. ManagerTypeOK'
    BY <1>1 DEF ManagerTypeOK, Listed, Adding
  <1>3. SetsInv'
    BY <1>1 DEF ManagerTypeOK, SetsInv
  <1>4. DrainedInv'
    BY <1>1 DEF ManagerTypeOK, DrainedInv, Over, Converted, Ctxs, RedundantInv, CanAutoDestroy
  <1>5. RedundantInv'
    BY <1>1 DEF RedundantInv, CanAutoDestroy, Converted, Schedulable, CanScheduleCtx
  <1> QED
    BY <1>2, <1>3, <1>4, <1>5, ManagerParts

(* The converted envs, which never have a coroutine, are expired; the others are stopped. *)
LEMMA SetCleanUpInv ==
    ASSUME ManagerInv, SetCleanUp
    PROVE  ManagerInv'
  <1> USE DEF SetCleanUp, SetState, ConvertedEnvs, NotifyCleaner, envVars, setVars, ctxVars,
     jobVars
  <1>1. ManagerTypeOK /\ SetsInv /\ DrainedInv /\ RedundantInv
    BY ManagerParts
  <1>2. ManagerTypeOK'
    BY <1>1 DEF ManagerTypeOK, Listed, Adding
  <1>3. SetsInv'
    BY <1>1 DEF ManagerTypeOK, SetsInv
  <1>4. DrainedInv'
    BY <1>1 DEF ManagerTypeOK, DrainedInv, Over, Converted, Ctxs
  <1>5. RedundantInv'
    BY <1>1 DEF RedundantInv, NormalLock
  <1> QED
    BY <1>2, <1>3, <1>4, <1>5, ManagerParts

(* What has expired is deleted, and was over already. *)
LEMMA CleanerWaitInv ==
    ASSUME ManagerInv, CleanerWait
    PROVE  ManagerInv'
  <1> USE DEF CleanerWait, Delete, envVars, setVars, ctxVars, jobVars
  <1>1. ManagerTypeOK /\ SetsInv /\ DrainedInv /\ RedundantInv
    BY ManagerParts
  <1>2. ManagerTypeOK'
    BY <1>1 DEF ManagerTypeOK, Listed, Adding
  <1>3. SetsInv'
    BY <1>1 DEF ManagerTypeOK, SetsInv
  <1>4. DrainedInv'
    BY <1>1 DEF ManagerTypeOK, DrainedInv, Over, Converted, Ctxs, SetsInv
  <1>5. RedundantInv'
    BY <1>1 DEF RedundantInv, CanAutoDestroy, Converted, Schedulable, CanScheduleCtx
  <1> QED
    BY <1>2, <1>3, <1>4, <1>5, ManagerParts

(* As CleanerWait, and the rest of normal_set is forgotten. *)
LEMMA CleanerEndInv ==
    ASSUME ManagerInv, CleanerEnd
    PROVE  ManagerInv'
  <1> USE DEF CleanerEnd, Delete, SetState, ConvertedEnvs, envVars, setVars, ctxVars, jobVars
  <1>1. ManagerTypeOK /\ SetsInv /\ DrainedInv /\ RedundantInv
    BY ManagerParts
  <1>2. ManagerTypeOK'
    BY <1>1 DEF ManagerTypeOK, Listed, Adding
  <1>3. SetsInv'
    BY <1>1 DEF ManagerTypeOK, SetsInv
  <1>4. DrainedInv'
    BY <1>1 DEF ManagerTypeOK, DrainedInv, Over, Converted, Ctxs, SetsInv
  <1>5. RedundantInv'
    BY <1>1 DEF RedundantInv, NormalLock
  <1> QED
    BY <1>2, <1>3, <1>4, <1>5, ManagerParts

(* Only where the cleaner is changes. *)
LEMMA CleanerSpuriousInv ==
    ASSUME ManagerInv, CleanerSpurious
    PROVE  ManagerInv'
  <1> USE DEF CleanerSpurious, envVars, setVars, ctxVars, jobVars
  <1>1. ManagerTypeOK /\ SetsInv /\ DrainedInv /\ RedundantInv
    BY ManagerParts
  <1>2. ManagerTypeOK'
    BY <1>1 DEF ManagerTypeOK, Listed, Adding
  <1>3. SetsInv'
    BY <1>1 DEF ManagerTypeOK, SetsInv
  <1>4. DrainedInv'
    BY <1>1 DEF ManagerTypeOK, DrainedInv, Over, Converted, Ctxs
  <1>5. RedundantInv'
    BY <1>1 DEF RedundantInv, CanAutoDestroy, Converted, Schedulable, CanScheduleCtx
  <1> QED
    BY <1>2, <1>3, <1>4, <1>5, ManagerParts

-----------------------------------------------------------------------------
(* The theorems *)

LEMMA NextManagerInv ==
    ASSUME ManagerInv, [ManagerNext]_managerVars
    PROVE  ManagerInv'
  <1>1. CASE Users
    BY <1>1, CreateEnvInv, InsertEnvInv, ConvertThreadInv, ChooseEnvInv, AddCtxInv,
       MoveCtxToHereInv, MarkBusyInv, WakeInv DEF Users
  <1>2. CASE \E e \in Env : Runs(e) \/ RemoveEnv(e)
    BY <1>2, ResumeInv, GoIdleInv, PreemptInv, EndInv, RemoveEnvInv DEF Runs
  <1>3. CASE \E c \in Ctx : Code(c)
    BY <1>3, SwitchInv DEF Code
  <1>4. CASE Monitor
    BY <1>4, ForceScheduleInv, RedistributeInv, StealInv, CollectRedundantInv, StopRedundantInv
       DEF Monitor
  <1>5. CASE SetCleanUp \/ CleanerWait \/ CleanerEnd \/ CleanerSpurious
    BY <1>5, SetCleanUpInv, CleanerWaitInv, CleanerEndInv, CleanerSpuriousInv
  <1>6. CASE UNCHANGED managerVars
    BY <1>6 DEF managerVars, envVars, setVars, ctxVars, jobVars, ManagerInv, EnvSets,
                ManagerTypeOK, OverInv, Over, RedundantInv, Ctxs, Converted, CanAutoDestroy,
                Schedulable, CanScheduleCtx
  <1> QED
    BY <1>1, <1>2, <1>3, <1>4, <1>5, <1>6 DEF ManagerNext

(* Of every reachable state: an env is in one set, by how far its end has    *)
(* come; when its thread has ended nothing is left in it but what an add_ctx *)
(* that had tested it before put there later; and what the monitor has       *)
(* collected may be stopped (co_env.cpp:83-91, 415-416, co_manager.cpp:      *)
(* 87-102, 135-347, 436).                                                    *)
THEOREM ManagerInvariance == SafeManagerSpec => []ManagerInv
  BY InitManagerInv, NextManagerInv, PTL DEF SafeManagerSpec

(* Only StopRedundant stops an env while the monitor has the lock.           *)
LEMMA NobodyElseStops ==
    ASSUME ManagerInv, [ManagerNext]_managerVars, monitor = "stop", ~StopRedundant, NEW e \in Env,
           state'[e] = "destroying"
    PROVE  state[e] = "destroying"
  <1> USE DEF SetState, envVars
  <1>0. state \in [Env -> {"created", "idle", "busy", "blocked", "destroying"}]
    BY DEF ManagerInv, EnvSets, ManagerTypeOK
  <1>1. CASE Users
    BY <1>0, <1>1 DEF Users, CreateEnv, InsertEnv, ConvertThread, ChooseEnv, AddCtx, MoveCtxToHere,
         MarkBusy, Wake, NormalLock
  <1>2. CASE \E f \in Env : Runs(f) \/ RemoveEnv(f)
    <2>1. PICK f \in Env : \/ \E c \in Ctx : Resume(f, c)
                           \/ GoIdle(f) \/ Preempt(f) \/ End(f) \/ RemoveEnv(f)
      BY <1>2 DEF Runs
    <2>2. CASE (\E c \in Ctx : Resume(f, c)) \/ GoIdle(f) \/ Preempt(f)
      BY <1>0, <2>2 DEF Resume, GoIdle, Preempt
    <2>3. CASE End(f) \/ RemoveEnv(f)
      BY <1>0, <2>3 DEF End, RemoveEnv, NormalLock
    <2> QED
      BY <2>1, <2>2, <2>3
  <1>3. CASE \E c \in Ctx : Code(c)
    BY <1>3 DEF Code, Switch
  <1>4. CASE Monitor
    BY <1>4 DEF Monitor, ForceSchedule, Redistribute, Steal, CollectRedundant, GotoTask
  <1>5. CASE SetCleanUp \/ CleanerWait \/ CleanerEnd \/ CleanerSpurious
    BY <1>5 DEF SetCleanUp, CleanerWait, CleanerEnd, CleanerSpurious, NormalLock
  <1>6. CASE UNCHANGED managerVars
    BY <1>6 DEF managerVars
  <1> QED
    BY <1>1, <1>2, <1>3, <1>4, <1>5, <1>6 DEF ManagerNext

(* Every step in which envs are stopped by the monitor stops none that was   *)
(* to be kept or has no thread of its own, and leaves max_env_count that     *)
(* take coroutines (co_manager.cpp:308-335).                                 *)
LEMMA StopsSparinglyStep ==
    ASSUME ManagerInv, [ManagerNext]_managerVars
    PROVE  StopSparingly
  <1> SUFFICES ASSUME monitor = "stop", Stopped # {}
               PROVE  /\ \A e \in Stopped : CanAutoDestroy(e)
                      /\ Cardinality(Schedulable \ Stopped) >= MaxEnv
    BY DEF StopSparingly
  <1>1. StopRedundant
    BY NobodyElseStops DEF Stopped
  <1>2. Stopped \subseteq redundant
    BY <1>1 DEF Stopped, StopRedundant, SetState, ManagerInv, EnvSets, ManagerTypeOK
  <1>3. /\ \A e \in redundant : CanAutoDestroy(e)
        /\ Cardinality(Schedulable \ redundant) >= MaxEnv
    BY <1>2 DEF ManagerInv, RedundantInv
  <1>4. Schedulable \subseteq Env
    BY DEF Schedulable, ManagerInv, EnvSets, ManagerTypeOK
  <1>5. IsFiniteSet(Schedulable \ Stopped)
    BY <1>4, FS_Subset
  <1>6. /\ IsFiniteSet(Schedulable \ redundant)
        /\ Cardinality(Schedulable \ redundant) <= Cardinality(Schedulable \ Stopped)
    BY <1>2, <1>5, FS_Subset
  <1>7. Cardinality(Schedulable \ redundant) \in Nat /\ Cardinality(Schedulable \ Stopped) \in Nat
    BY <1>5, <1>6, FS_CardinalityType
  <1> QED
    BY <1>2, <1>3, <1>6, <1>7

THEOREM ManagerStopsSparingly == SafeManagerSpec => StopsSparingly
  BY ManagerInvariance, StopsSparinglyStep, PTL DEF SafeManagerSpec, StopsSparingly

-----------------------------------------------------------------------------
(* The timers and their thread (CoTimer)                                   *)

HIDE ManagerAssumption
USE ClientAssumption, BoundAssumption

-----------------------------------------------------------------------------
(* Timers and who has their mutex *)

LEMMA TimerFacts ==
    /\ UserTimer \notin ClientTimer /\ UserTimer \in Timer /\ ClientTimer \subseteq Timer
    /\ \A t \in Timer : t \in ClientTimer \/ t = UserTimer
    /\ \A t \in ClientTimer : t[1] \in Client /\ t[2] \in 1..Waits /\ t = <<t[1], t[2]>>
    /\ \A c \in Client, n \in 1..Waits : <<c, n>> \in ClientTimer
  BY DEF UserTimer, ClientTimer, Timer

(* Whoever starts or stops a timer has its mutex. *)
LEMMA MutexHeld ==
    /\ \A c \in Client : pc[c] = "insert" =>
         <<"client", c>> \in Actor /\ TimerLock(Cur(c)) \in Held(<<"client", c>>)
    /\ <<"target">> \in Actor
    /\ endAt = "remove" => TimerLock(Head(subs)) \in Held(<<"target">>)
    /\ <<"user">> \in Actor
    /\ userAt # "out" => TimerLock(UserTimer) \in Held(<<"user">>)
  BY DEF Actor, Held

(* So when the timer thread has what it needs, nobody else does that with   *)
(* the timer in its hand or one of the queue ...                            *)
LEMMA ThreadAlone ==
    ASSUME threadAt = "fired", CanGoOn(<<"thread">>), NEW t \in queue \cup {front}
    PROVE  ~InInsert(t) /\ ~InRemove(t)
  <1>1. TimerLock(t) \in Needs(<<"thread">>)
    BY DEF Needs, Searches
  <1>2. \A b \in Actor : b # <<"thread">> => TimerLock(t) \notin Held(b)
    BY <1>1 DEF CanGoOn, Free
  <1>3. <<"target">> # <<"thread">> /\ <<"user">> # <<"thread">>
        /\ \A c \in Client : <<"client", c>> # <<"thread">>
    OBVIOUS
  <1> QED
    BY <1>2, <1>3, MutexHeld DEF InInsert, InRemove

(* ... and the same of the user, of a coroutine that has begun to wait, and *)
(* of the target.                                                           *)
LEMMA UserAlone ==
    ASSUME userAt # "out", CanGoOn(<<"user">>), NEW t \in queue \ {UserTimer}
    PROVE  ~InInsert(t) /\ ~InRemove(t)
  <1>1. TimerLock(t) \in Needs(<<"user">>)
    BY DEF Needs, Searches
  <1>2. \A b \in Actor : b # <<"user">> => TimerLock(t) \notin Held(b)
    BY <1>1 DEF CanGoOn, Free
  <1>3. <<"target">> # <<"user">> /\ \A c \in Client : <<"client", c>> # <<"user">>
    OBVIOUS
  <1> QED
    BY <1>2, <1>3, MutexHeld DEF InInsert, InRemove

LEMMA ClientAlone ==
    ASSUME NEW c \in Client, pc[c] = "insert", CanGoOn(<<"client", c>>),
           NEW t \in queue \ {Cur(c)}
    PROVE  ~InInsert(t) /\ ~InRemove(t)
  <1>1. TimerLock(t) \in Needs(<<"client", c>>)
    BY DEF Needs, Searches
  <1>2. \A b \in Actor : b # <<"client", c>> => TimerLock(t) \notin Held(b)
    BY <1>1 DEF CanGoOn, Free
  <1>3. /\ <<"target">> # <<"client", c>> /\ <<"user">> # <<"client", c>>
        /\ \A d \in Client : d # c => <<"client", d>> # <<"client", c>>
    OBVIOUS
  <1> QED
    BY <1>2, <1>3, MutexHeld DEF InInsert, InRemove

LEMMA TargetAlone ==
    ASSUME endAt = "stop", CanGoOn(<<"target">>)
    PROVE  ~InInsert(Head(subs))
  <1>1. TimerLock(Head(subs)) \in Needs(<<"target">>)
    BY DEF Needs
  <1>2. \A b \in Actor : b # <<"target">> => TimerLock(Head(subs)) \notin Held(b)
    BY <1>1 DEF CanGoOn, Free
  <1>3. <<"user">> # <<"target">> /\ \A c \in Client : <<"client", c>> # <<"target">>
    OBVIOUS
  <1> QED
    BY <1>2, <1>3, MutexHeld DEF InInsert

(* A queue that is not empty has an earliest timer. *)
LEMMA EarliestInQueue ==
    ASSUME TypeOK, queue # {}
    PROVE  Earliest \in queue
  <1> DEFINE Times == {expire[t] : t \in queue}
  <1>1. Times \in SUBSET Nat /\ Times # {}
    BY DEF TypeOK
  <1>2. PICK x \in Times : \A y \in Times : x <= y
    BY <1>1, LeastNatural
  <1>3. \E t \in queue : \A u \in queue : expire[t] <= expire[u]
    BY <1>2
  <1> QED
    BY <1>3 DEF Earliest

(* The timer of a coroutine's wait is no other's.                           *)
LEMMA CurFacts ==
    /\ \A c \in Client : Cur(c) # UserTimer /\ Owner(Cur(c)) = c /\ Cur(c)[2] = count[c]
    /\ \A c, d \in Client : Cur(c) = Cur(d) => c = d
  BY DEF Cur, Owner, UserTimer

LEMMA CurIsTimer ==
    ASSUME TypeOK, WaitInv, NEW c \in Client, pc[c] = "insert"
    PROVE  Cur(c) \in ClientTimer /\ Begun(Cur(c))
  <1>1. count[c] \in 1..Waits
    BY DEF TypeOK, WaitInv
  <1> QED
    BY <1>1, TimerFacts DEF Cur, Begun, Owner

LEMMA NewTimerFacts ==
    ASSUME TypeOK, NEW c \in Client, NEW e, Begin(c, NewTimer(c), e)
    PROVE  /\ NewTimer(c) \in ClientTimer /\ NewTimer(c) = <<c, count[c] + 1>>
           /\ ~Begun(NewTimer(c)) /\ Owner(NewTimer(c)) = c
           /\ NewTimer(c) # UserTimer /\ count[c] \in Nat
  <1>1. count[c] \in 0..Waits /\ count[c] < Waits
    BY DEF TypeOK, Begin
  <1>2. count[c] + 1 \in 1..Waits
    BY <1>1
  <1>3. NewTimer(c) \in ClientTimer
    BY <1>2, TimerFacts DEF NewTimer
  <1> QED
    BY <1>1, <1>3, TimerFacts DEF NewTimer, Begun, Owner

(* The target's next subscriber is a timer of wait_ctx.                     *)
LEMMA HeadJoins ==
    ASSUME TypeOK, SubsInv, endAt \in {"stop", "remove", "leave", "wake"}
    PROVE  /\ Head(subs) \in joins /\ Head(subs) \in ClientTimer
           /\ Head(subs) # UserTimer
           /\ Tail(subs) \in Seq(joins)
           /\ Len(subs) # 1 => Tail(subs) # <<>>
  <1>1. subs \in Seq(joins) /\ subs # <<>> /\ joins \subseteq ClientTimer
    BY DEF TypeOK, SubsInv
  <1>2. Head(subs) \in joins /\ Tail(subs) \in Seq(joins)
    BY <1>1
  <1>3. Len(subs) # 1 => Tail(subs) # <<>>
    <2>1. Len(Tail(subs)) = Len(subs) - 1 /\ Len(subs) \in Nat
      BY <1>1
    <2>2. Tail(subs) = <<>> => Len(Tail(subs)) = 0
      OBVIOUS
    <2> QED
      BY <2>1, <2>2
  <1> QED
    BY <1>1, <1>2, <1>3, TimerFacts

(* The subscribers, when there is one more timer of wait_ctx. *)
LEMMA MoreSubs ==
    ASSUME NEW S, NEW T, S \subseteq T, NEW s \in Seq(S), NEW t \in T
    PROVE  Append(s, t) \in Seq(T) /\ Append(s, t) # <<>>
  <1>1. s \in Seq(T)
    OBVIOUS
  <1> QED
    BY <1>1

-----------------------------------------------------------------------------
(* The actions *)

LEMMA InitTimerInv == Init => TimerInv
  <1> SUFFICES ASSUME Init PROVE TimerInv
    OBVIOUS
  <1>1. TypeOK
    <2>1. subs \in Seq(joins)
      BY DEF Init
    <2>2. UserTimer \in Timer /\ NoEnv \in RunOn \cup {NoEnv}
      BY TimerFacts
    <2>3. /\ expire \in [Timer -> 0..MaxTime + 1]
          /\ runs \in [Timer -> RunOn \cup {NoEnv}]
          /\ waitFor \in [Client -> SUBSET (Client \X (0..Waits))]
          /\ runAt \in [ClientTimer -> {"none", "created", "unsub", "leave", "wake", "ended"}]
          /\ pc \in [Client -> {"out", "insert", "asleep"}]
      BY DEF Init
    <2>4. now \in 0..MaxTime
      BY DEF Init
    <2> QED
      BY <2>1, <2>2, <2>3, <2>4 DEF Init, TypeOK
  <1>2. QueueInv /\ DistinctInv
    BY DEF Init, QueueInv, DistinctInv, InInsert, InRemove
  <1>3. FreshInv /\ WaitInv /\ PendingInv /\ SubsInv
    BY DEF Init, FreshInv, WaitInv, PendingInv, SubsInv, Pending
  <1>4. FireInv
    BY DEF Init, FireInv
  <1> QED
    BY <1>1, <1>2, <1>3, <1>4 DEF TimerInv

(* The new timer of c has begun after the step; the others are as before.   *)
LEMMA BegunMore ==
    ASSUME TypeOK, NEW c \in Client, NEW t \in ClientTimer, t = <<c, count[c] + 1>>,
           count' = [count EXCEPT ![c] = @ + 1], count[c] \in Nat
    PROVE  /\ \A u \in ClientTimer : Begun(u) => Begun(u)' /\ u # t
           /\ \A u \in ClientTimer : ~Begun(u)' => ~Begun(u) /\ u # t
  <1>1. count'[c] = count[c] + 1 /\ \A d \in Client \ {c} : count'[d] = count[d]
    BY DEF TypeOK
  <1>2. t[1] = c /\ t[2] = count[c] + 1
    OBVIOUS
  <1>3. \A d \in Client : count[d] \in Nat
    BY DEF TypeOK
  <1> SUFFICES ASSUME NEW u \in ClientTimer
               PROVE  /\ Begun(u) => Begun(u)' /\ u # t
                      /\ ~Begun(u)' => ~Begun(u) /\ u # t
    OBVIOUS
  <1>4. u[1] \in Client /\ u[2] \in Nat
    BY TimerFacts
  <1>5. CASE u[1] = c
    BY <1>1, <1>2, <1>3, <1>4, <1>5 DEF Begun, Owner
  <1>6. CASE u[1] # c
    BY <1>1, <1>2, <1>3, <1>4, <1>6 DEF Begun, Owner
  <1> QED
    BY <1>5, <1>6

(* What both waits do: the timer is new, so nobody knows of it.             *)
LEMMA BeginTypeOK ==
    ASSUME TypeOK, NEW c \in Client, NEW e \in Instants(NewTimer(c)),
           Begin(c, NewTimer(c), e), joins' \subseteq ClientTimer, subs' \in Seq(joins'),
           waitFor' \in [Client -> SUBSET (Client \X (0..Waits))]
    PROVE  TypeOK'
  <1> DEFINE t == NewTimer(c)
  <1>1. t \in Timer /\ e \in 0..MaxTime + 1
    BY NewTimerFacts, TimerFacts DEF Instants
  <1>2. count' \in [Client -> 0..Waits]
    <2>1. count[c] \in 0..Waits /\ count[c] < Waits
      BY DEF TypeOK, Begin
    <2> QED
      BY <2>1 DEF TypeOK, Begin
  <1> HIDE DEF t
  <1>3. expire' \in [Timer -> 0..MaxTime + 1] /\ running' \subseteq Timer
    BY <1>1 DEF TypeOK, Begin, t
  <1>4. pc' \in [Client -> {"out", "insert", "asleep"}]
    BY DEF TypeOK, Begin
  <1>5. UNCHANGED <<now, queue, loop, front, runs, timerCleanUp, threadAt, runAt, endAt, userAt, starts>>
    BY DEF Begin, userVars
  <1> QED
    BY <1>2, <1>3, <1>4, <1>5 DEF TypeOK

LEMMA BeginKept ==
    ASSUME TimerInv, NEW c \in Client, NEW e \in Instants(NewTimer(c)),
           Begin(c, NewTimer(c), e), joins \subseteq joins',
           endAt = "running" \/ subs' = subs
    PROVE  QueueInv' /\ DistinctInv' /\ FireInv'
  <1> DEFINE t == NewTimer(c)
  <1>1. TypeOK /\ QueueInv /\ DistinctInv /\ FreshInv /\ SubsInv /\ FireInv
    BY DEF TimerInv
  <1>2. /\ t \in ClientTimer /\ t \in Timer /\ t = <<c, count[c] + 1>> /\ ~Begun(t)
        /\ t # UserTimer /\ count[c] \in Nat
    BY <1>1, NewTimerFacts, TimerFacts
  <1>3. t \notin running \cup queue \cup joins /\ runAt[t] = "none"
    BY <1>1, <1>2 DEF FreshInv
  <1>4. Coincide \/ \A u \in running \ {t} : expire[u] # e
    BY DEF Instants
  <1> HIDE DEF t
  <1>5. /\ pc[c] = "out" /\ count' = [count EXCEPT ![c] = @ + 1]
        /\ pc' = [pc EXCEPT ![c] = "insert"] /\ running' = running \cup {t}
        /\ expire' = [expire EXCEPT ![t] = e]
        /\ UNCHANGED <<queue, runAt, endAt, userAt, front, threadAt, now>>
    BY DEF Begin, t, userVars
  <1>6. expire'[t] = e /\ \A u \in Timer \ {t} : expire'[u] = expire[u]
    BY <1>1, <1>2, <1>5 DEF TypeOK
  <1>7. /\ \A u : InInsert(u)' <=> InInsert(u) \/ u = t
        /\ \A u : InRemove(u)' <=> InRemove(u)
    <2>1. Cur(c)' = t /\ \A d \in Client \ {c} : Cur(d)' = Cur(d)
      BY <1>1, <1>2, <1>5 DEF TypeOK, Cur
    <2> QED
      BY <1>1, <1>5, <2>1 DEF TypeOK, InInsert, InRemove
  <1>8. ~InRemove(t)
    BY <1>1, <1>2, <1>3, HeadJoins DEF InRemove
  <1>9. QueueInv'
    BY <1>1, <1>2, <1>3, <1>5, <1>7, <1>8 DEF QueueInv
  <1>10. DistinctInv'
    <2> SUFFICES ASSUME ~Coincide PROVE DistinctInv'
      BY <1>5 DEF DistinctInv
    <2>1. running \subseteq Timer /\ queue \subseteq Timer
      BY <1>1 DEF TypeOK
    <2>2. \A u \in running' \ queue' : InInsert(u)'
      BY <1>1, <1>5, <1>7 DEF DistinctInv
    <2>3. \A u \in Timer : InRemove(u)' => u \in queue'
      BY <1>1, <1>5, <1>7 DEF DistinctInv
    <2>4. \A u, w \in running' : expire'[u] = expire'[w] => u = w
      BY <1>1, <1>3, <1>4, <1>5, <1>6, <2>1 DEF DistinctInv
    <2>5. \A u, w \in queue' : expire'[u] = expire'[w] => u = w
      BY <1>1, <1>3, <1>5, <1>6, <2>1 DEF DistinctInv
    <2> QED
      BY <2>2, <2>3, <2>4, <2>5 DEF DistinctInv
  <1>11. FireInv'
    <2>1. \A u \in ClientTimer : Begun(u) => Begun(u)' /\ u # t
      BY <1>1, <1>2, <1>5, BegunMore
    <2>2. \A u \in ClientTimer : runAt[u] # "none" => expire'[u] = expire[u]
      BY <1>2, <1>3, <1>6, TimerFacts
    <2>3. /\ \A u \in ClientTimer \cap (running' \cup queue') :
               runAt'[u] # "none" => u = front' /\ threadAt' \in {"notify", "fired"}
          /\ \A u \in ClientTimer : runAt'[u] # "none" => now' >= expire'[u]
      BY <1>1, <1>3, <1>5, <2>2 DEF FireInv
    <2>4. threadAt' = "create" /\ front' \in ClientTimer =>
            /\ Begun(front)' /\ runAt'[front'] = "none" /\ now' >= expire'[front']
            /\ front' \in joins' \cup running'
      BY <1>1, <1>5, <1>6, <2>1, TimerFacts DEF FireInv, Begun, Owner
    <2> QED
      BY <2>3, <2>4 DEF FireInv
  <1> QED
    BY <1>9, <1>10, <1>11

(* The timer is new, so nobody knows of it, and the coroutine waits for nothing yet. *)
LEMMA SleepUntilInv ==
    ASSUME TimerInv, NEW c \in Client, SleepUntil(c)
    PROVE  TimerInv'
  <1>1. TypeOK /\ FreshInv /\ WaitInv /\ PendingInv /\ SubsInv
    BY DEF TimerInv
  <1>2. PICK e \in Instants(NewTimer(c)) : Begin(c, NewTimer(c), e)
    BY DEF SleepUntil
  <1>3. PICK t : t = NewTimer(c)
    OBVIOUS
  <1>4. /\ t \in ClientTimer /\ t = <<c, count[c] + 1>> /\ ~Begun(t) /\ Owner(t) = c
        /\ count[c] \in Nat
    BY <1>1, <1>2, <1>3, NewTimerFacts
  <1>5. /\ pc[c] = "out" /\ count' = [count EXCEPT ![c] = @ + 1]
        /\ pc' = [pc EXCEPT ![c] = "insert"] /\ running' = running \cup {t}
        /\ waitFor' = [waitFor EXCEPT ![c] = @ \cup {<<c, 0>>}]
        /\ UNCHANGED <<queue, runAt, endAt, joins, subs>>
    BY <1>2, <1>4, <1>3 DEF Begin, SleepUntil, Itself
  <1>6. t \notin joins /\ waitFor[c] = {}
    BY <1>1, <1>4, <1>5 DEF FreshInv, WaitInv
  <1>7. TypeOK'
    <2>1. waitFor' \in [Client -> SUBSET (Client \X (0..Waits))]
      BY <1>1, <1>5 DEF TypeOK
    <2>2. joins' \subseteq ClientTimer /\ subs' \in Seq(joins')
      BY <1>1, <1>5 DEF TypeOK
    <2> QED
      BY <1>1, <1>2, <2>1, <2>2, BeginTypeOK
  <1>8. QueueInv' /\ DistinctInv' /\ FireInv'
    BY <1>2, <1>5, BeginKept
  <1>9. FreshInv'
    <2>1. \A u \in ClientTimer : ~Begun(u)' => ~Begun(u) /\ u # t
      BY <1>1, <1>4, <1>5, BegunMore
    <2> QED
      BY <1>1, <1>5, <2>1 DEF FreshInv
  <1>10. /\ waitFor' \in [Client -> SUBSET (Client \X (0..Waits))]
         /\ Cur(c)' = t /\ Resource(t)' = <<c, 0>>
         /\ waitFor'[c] = {Resource(t)'}
         /\ \A d \in Client \ {c} : /\ Cur(d)' = Cur(d) /\ Resource(Cur(d))' = Resource(Cur(d))
                                  /\ waitFor'[d] = waitFor[d] /\ count'[d] = count[d]
                                  /\ pc'[d] = pc[d]
    <2>1. \A d \in Client \ {c} : Cur(d) # t /\ count'[d] = count[d] /\ pc'[d] = pc[d]
      BY <1>1, <1>4, <1>5 DEF TypeOK, Cur
    <2>2. \A d \in Client \ {c} : Cur(d)' = Cur(d) /\ Resource(Cur(d))' = Resource(Cur(d))
      BY <1>5, <2>1 DEF Resource, TimerId, Itself, Owner, Cur
    <2>3. Cur(c)' = t /\ Resource(t)' = <<c, 0>>
      <3>1. count'[c] = count[c] + 1
        BY <1>1, <1>5 DEF TypeOK
      <3>2. Owner(t)' = c
        BY <1>4 DEF Owner
      <3> QED
        BY <1>4, <1>5, <1>6, <3>1, <3>2 DEF Cur, Resource, Itself
    <2>4. waitFor' \in [Client -> SUBSET (Client \X (0..Waits))]
      BY <1>7 DEF TypeOK
    <2>5. waitFor'[c] = {Resource(t)'} /\ \A d \in Client \ {c} : waitFor'[d] = waitFor[d]
      BY <1>1, <1>5, <1>6, <2>3 DEF TypeOK
    <2> QED
      BY <2>1, <2>2, <2>3, <2>4, <2>5
  <1>11. WaitInv'
    <2>1. count'[c] > 0 /\ pc'[c] = "insert"
      BY <1>1, <1>4, <1>5 DEF TypeOK
    <2>2. waitFor'[c] = {Resource(Cur(c))'}
      <3>1. Resource(Cur(c))' = Resource(t)'
        BY <1>10 DEF Resource, TimerId, Itself, Owner
      <3> QED
        BY <1>10, <3>1
    <2>3. \A d \in Client \ {c} :
            /\ pc'[d] = "insert" => count'[d] > 0
            /\ pc'[d] = "out" => waitFor'[d] = {}
            /\ waitFor'[d] # {} => waitFor'[d] = {Resource(Cur(d))'}
      BY <1>1, <1>10 DEF WaitInv
    <2> QED
      BY <2>1, <2>2, <2>3 DEF WaitInv
  <1>12. PendingInv'
    <2> SUFFICES ASSUME NEW u \in ClientTimer \ joins', Pending(u)'
                 PROVE  u = Cur(Owner(u))' /\ waitFor'[Owner(u)] # {}
      BY DEF PendingInv, Owner
    <2>1. CASE u = t
      BY <1>4, <1>10, <2>1 DEF Owner
    <2>2. CASE u # t
      <3>1. Pending(u) /\ u \notin joins
        BY <1>5, <2>2 DEF Pending
      <3>2. u = Cur(Owner(u)) /\ waitFor[Owner(u)] # {} /\ Owner(u) \in Client
        BY <1>1, <3>1, TimerFacts DEF PendingInv, Owner
      <3>3. Owner(u) # c
        BY <1>6, <3>2
      <3> QED
        BY <1>10, <3>2, <3>3
    <2> QED
      BY <2>1, <2>2
  <1>13. SubsInv'
    BY <1>1, <1>5 DEF SubsInv
  <1> QED
    BY <1>7, <1>8, <1>9, <1>11, <1>12, <1>13 DEF TimerInv

(* As SleepUntil; the timer is also a subscriber now. *)
LEMMA WaitCtxInv ==
    ASSUME TimerInv, NEW c \in Client, WaitCtx(c)
    PROVE  TimerInv'
  <1>1. TypeOK /\ FreshInv /\ WaitInv /\ PendingInv /\ SubsInv
    BY DEF TimerInv
  <1>2. PICK e \in Instants(NewTimer(c)) : Begin(c, NewTimer(c), e)
    BY DEF WaitCtx
  <1>3. PICK t : t = NewTimer(c)
    OBVIOUS
  <1>4. /\ t \in ClientTimer /\ t = <<c, count[c] + 1>> /\ ~Begun(t) /\ Owner(t) = c
        /\ count[c] \in Nat
    BY <1>1, <1>2, <1>3, NewTimerFacts
  <1>5. /\ pc[c] = "out" /\ count' = [count EXCEPT ![c] = @ + 1]
        /\ pc' = [pc EXCEPT ![c] = "insert"] /\ running' = running \cup {t}
        /\ waitFor' = [waitFor EXCEPT ![c] = @ \cup {t}]
        /\ joins' = joins \cup {t} /\ subs' = Append(subs, t)
        /\ endAt = "running"
        /\ UNCHANGED <<queue, runAt, endAt>>
    BY <1>2, <1>4, <1>3 DEF Begin, WaitCtx, TimerId
  <1>6. t \notin joins /\ waitFor[c] = {}
    BY <1>1, <1>4, <1>5 DEF FreshInv, WaitInv
  <1>7. TypeOK'
    <2>1. waitFor' \in [Client -> SUBSET (Client \X (0..Waits))]
      BY <1>1, <1>4, <1>5, TimerFacts DEF TypeOK, ClientTimer
    <2>2. joins' \subseteq ClientTimer /\ subs' \in Seq(joins')
      BY <1>1, <1>4, <1>5, MoreSubs DEF TypeOK
    <2> QED
      BY <1>1, <1>2, <2>1, <2>2, BeginTypeOK
  <1>8. QueueInv' /\ DistinctInv' /\ FireInv'
    BY <1>2, <1>5, BeginKept
  <1>9. FreshInv'
    <2>1. \A u \in ClientTimer : ~Begun(u)' => ~Begun(u) /\ u # t
      BY <1>1, <1>4, <1>5, BegunMore
    <2> QED
      BY <1>1, <1>5, <2>1 DEF FreshInv
  <1>10. /\ waitFor' \in [Client -> SUBSET (Client \X (0..Waits))]
         /\ Cur(c)' = t /\ Resource(t)' = t
         /\ waitFor'[c] = {Resource(t)'}
         /\ \A d \in Client \ {c} : /\ Cur(d)' = Cur(d) /\ Resource(Cur(d))' = Resource(Cur(d))
                                  /\ waitFor'[d] = waitFor[d] /\ count'[d] = count[d]
                                  /\ pc'[d] = pc[d]
    <2>1. \A d \in Client \ {c} : Cur(d) # t /\ count'[d] = count[d] /\ pc'[d] = pc[d]
      BY <1>1, <1>4, <1>5 DEF TypeOK, Cur
    <2>2. \A d \in Client \ {c} : Cur(d)' = Cur(d) /\ Resource(Cur(d))' = Resource(Cur(d))
      BY <1>5, <2>1 DEF Resource, TimerId, Itself, Owner, Cur
    <2>3. Cur(c)' = t /\ Resource(t)' = t
      <3>1. count'[c] = count[c] + 1
        BY <1>1, <1>5 DEF TypeOK
      <3> QED
        BY <1>4, <1>5, <3>1 DEF Cur, Resource, TimerId
    <2>4. waitFor' \in [Client -> SUBSET (Client \X (0..Waits))]
      BY <1>7 DEF TypeOK
    <2>5. waitFor'[c] = {Resource(t)'} /\ \A d \in Client \ {c} : waitFor'[d] = waitFor[d]
      BY <1>1, <1>5, <1>6, <2>3 DEF TypeOK
    <2> QED
      BY <2>1, <2>2, <2>3, <2>4, <2>5
  <1>11. WaitInv'
    <2>1. count'[c] > 0 /\ pc'[c] = "insert"
      BY <1>1, <1>4, <1>5 DEF TypeOK
    <2>2. waitFor'[c] = {Resource(Cur(c))'}
      BY <1>10 DEF Resource, TimerId, Itself, Owner
    <2>3. \A d \in Client \ {c} :
            /\ pc'[d] = "insert" => count'[d] > 0
            /\ pc'[d] = "out" => waitFor'[d] = {}
            /\ waitFor'[d] # {} => waitFor'[d] = {Resource(Cur(d))'}
      BY <1>1, <1>10 DEF WaitInv
    <2> QED
      BY <2>1, <2>2, <2>3 DEF WaitInv
  <1>12. PendingInv'
    <2> SUFFICES ASSUME NEW u \in ClientTimer \ joins', Pending(u)'
                 PROVE  u = Cur(Owner(u))' /\ waitFor'[Owner(u)] # {}
      BY DEF PendingInv, Owner
    <2>1. CASE u = t
      BY <1>4, <1>10, <2>1 DEF Owner
    <2>2. CASE u # t
      <3>1. Pending(u) /\ u \notin joins
        BY <1>5, <2>2 DEF Pending
      <3>2. u = Cur(Owner(u)) /\ waitFor[Owner(u)] # {} /\ Owner(u) \in Client
        BY <1>1, <3>1, TimerFacts DEF PendingInv, Owner
      <3>3. Owner(u) # c
        BY <1>6, <3>2
      <3> QED
        BY <1>10, <3>2, <3>3
    <2> QED
      BY <2>1, <2>2
  <1>13. SubsInv'
    BY <1>5 DEF SubsInv
  <1> QED
    BY <1>7, <1>8, <1>9, <1>11, <1>12, <1>13 DEF TimerInv

(* No other timer in the queue is being stopped, so it expires at another instant. *)
LEMMA InsertInv ==
    ASSUME TimerInv, NEW c \in Client, Insert(c)
    PROVE  TimerInv'
  <1>1. TypeOK /\ QueueInv /\ DistinctInv /\ FreshInv /\ WaitInv
        /\ PendingInv /\ SubsInv /\ FireInv
    BY DEF TimerInv
  <1>2. /\ pc[c] = "insert" /\ pc' = [pc EXCEPT ![c] = "asleep"] /\ CanGoOn(<<"client", c>>)
        /\ UNCHANGED <<now, expire, running, loop, front, runs, waitFor, count, joins, subs,
                       timerCleanUp, runAt, endAt, userAt, starts>>
    BY DEF Insert, waitVars, userVars
  <1>3. /\ Cur(c) \in ClientTimer /\ Begun(Cur(c)) /\ Cur(c) # UserTimer
        /\ \A d \in Client : Cur(d) = Cur(c) => d = c
    BY <1>1, <1>2, CurIsTimer, CurFacts
  <1>4. InInsert(Cur(c)) /\ Cur(c) \in running \ queue
    BY <1>1, <1>2, <1>3, TimerFacts DEF QueueInv, InInsert
  <1>5. \A u \in queue : u \in running
    BY <1>1, <1>2, <1>4, ClientAlone DEF QueueInv
  <1>6. Coincide \/ Same(Cur(c)) = {}
    BY <1>1, <1>4, <1>5 DEF DistinctInv, Same
  <1>7. /\ queue' \subseteq queue \cup {Cur(c)} /\ queue \subseteq queue'
        /\ Coincide \/ queue' = queue \cup {Cur(c)}
    BY <1>6 DEF Insert, InsertTimer
  <1>8. \/ threadAt' = threadAt
        \/ threadAt = "idle" /\ threadAt' = "idleUp"
        \/ threadAt = "until" /\ threadAt' = "untilUp"
    BY DEF Insert, Notified
  <1>9. \A u : InRemove(u)' <=> InRemove(u)
    BY <1>2 DEF InRemove
  <1>10. \A u : InInsert(u)' <=> InInsert(u) /\ u # Cur(c)
    BY <1>1, <1>2, <1>3 DEF TypeOK, InInsert, Cur
  <1>11. TypeOK'
    <2>1. pc' \in [Client -> {"out", "insert", "asleep"}]
      BY <1>1, <1>2 DEF TypeOK
    <2>2. queue' \subseteq Timer
      BY <1>1, <1>3, <1>7, TimerFacts DEF TypeOK
    <2> QED
      BY <1>1, <1>2, <1>8, <2>1, <2>2 DEF TypeOK
  <1>12. QueueInv'
    BY <1>1, <1>2, <1>4, <1>7, <1>9, <1>10 DEF QueueInv
  <1>13. DistinctInv'
    BY <1>1, <1>2, <1>4, <1>5, <1>7, <1>9, <1>10 DEF DistinctInv
  <1>14. FreshInv' /\ WaitInv' /\ PendingInv' /\ SubsInv'
    <2>1. \A u : Begun(u)' = Begun(u) /\ Pending(u)' = Pending(u) /\ Resource(u)' = Resource(u)
      BY <1>2 DEF Begun, Owner, Pending, Resource, TimerId, Itself
    <2>2. \A d \in Client : Cur(d)' = Cur(d)
      BY <1>2 DEF Cur
    <2>3. FreshInv'
      BY <1>1, <1>2, <1>3, <1>7, <2>1 DEF FreshInv
    <2>4. WaitInv'
      BY <1>1, <1>2, <2>1, <2>2 DEF TypeOK, WaitInv
    <2>5. PendingInv' /\ SubsInv'
      BY <1>1, <1>2, <2>1, <2>2, TimerFacts DEF PendingInv, SubsInv, Owner
    <2> QED
      BY <2>3, <2>4, <2>5
  <1>15. FireInv'
    BY <1>1, <1>2, <1>4, <1>7, <1>8 DEF FireInv, Begun, Owner
  <1> QED
    BY <1>11, <1>12, <1>13, <1>14, <1>15 DEF TimerInv

(* The wait is over. *)
LEMMA ReturnInv ==
    ASSUME TimerInv, NEW c \in Client, Return(c)
    PROVE  TimerInv'
  <1> USE DEF Return, timerVars, waitVars, userVars
  <1>1. TypeOK /\ QueueInv /\ DistinctInv /\ FreshInv /\ WaitInv /\ PendingInv /\ SubsInv /\ FireInv
    BY DEF TimerInv
  <1>2. TypeOK'
    <2>1. pc' \in [Client -> {"out", "insert", "asleep"}]
      BY <1>1 DEF TypeOK
    <2> QED
      BY <1>1, <2>1 DEF TypeOK
  <1>3. QueueInv'
    BY <1>1, TimerFacts DEF TypeOK, QueueInv, InInsert, InRemove, Cur
  <1>4. DistinctInv'
    BY <1>1, TimerFacts DEF TypeOK, DistinctInv, QueueInv, InInsert, InRemove, Cur
  <1>5. (FreshInv /\ WaitInv /\ PendingInv /\ SubsInv)'
    <2>1. FreshInv'
      BY <1>1, TimerFacts DEF TypeOK, FreshInv, Begun, Owner
    <2>2. WaitInv'
      BY <1>1, TimerFacts DEF TypeOK, WaitInv, Resource, TimerId, Itself, Owner, Cur
    <2>3. PendingInv'
      BY <1>1, TimerFacts DEF TypeOK, PendingInv, WaitInv, Pending, Resource, TimerId, Itself,
         Owner, Cur
    <2>4. SubsInv'
      BY <1>1, TimerFacts DEF TypeOK, SubsInv
    <2> QED
      BY <2>1, <2>2, <2>3, <2>4
  <1>6. FireInv'
    BY <1>1, TimerFacts DEF TypeOK, FireInv, Begun, Owner
  <1> QED
    BY <1>2, <1>3, <1>4, <1>5, <1>6 DEF TimerInv

(* Only where the thread is changes. *)
LEMMA TestCleanUpInv ==
    ASSUME TimerInv, TestCleanUp
    PROVE  TimerInv'
  <1> USE DEF TestCleanUp, Thread, KeepsTimers, timerVars, waitVars, userVars
  <1>1. TypeOK /\ QueueInv /\ DistinctInv /\ FreshInv /\ WaitInv /\ PendingInv /\ SubsInv /\ FireInv
    BY DEF TimerInv
  <1>2. TypeOK'
    BY <1>1, TimerFacts DEF TypeOK
  <1>3. QueueInv'
    BY <1>1, TimerFacts DEF TypeOK, QueueInv, InInsert, InRemove, Cur
  <1>4. DistinctInv'
    BY <1>1, TimerFacts DEF TypeOK, DistinctInv, QueueInv, InInsert, InRemove, Cur
  <1>5. (FreshInv /\ WaitInv /\ PendingInv /\ SubsInv)'
    BY <1>1, TimerFacts DEF TypeOK, FreshInv, WaitInv, PendingInv, SubsInv, Begun, Pending,
       Resource, TimerId, Itself, Owner, Cur
  <1>6. FireInv'
    BY <1>1, TimerFacts DEF TypeOK, FireInv, Begun, Owner
  <1> QED
    BY <1>2, <1>3, <1>4, <1>5, <1>6 DEF TimerInv

(* Only where the thread is changes. *)
LEMMA TestEmptyInv ==
    ASSUME TimerInv, TestEmpty
    PROVE  TimerInv'
  <1> USE DEF TestEmpty, Thread, KeepsTimers, timerVars, waitVars, userVars
  <1>1. TypeOK /\ QueueInv /\ DistinctInv /\ FreshInv /\ WaitInv /\ PendingInv /\ SubsInv /\ FireInv
    BY DEF TimerInv
  <1>2. TypeOK'
    BY <1>1, TimerFacts DEF TypeOK
  <1>3. QueueInv'
    BY <1>1, TimerFacts DEF TypeOK, QueueInv, InInsert, InRemove, Cur
  <1>4. DistinctInv'
    BY <1>1, TimerFacts DEF TypeOK, DistinctInv, QueueInv, InInsert, InRemove, Cur
  <1>5. (FreshInv /\ WaitInv /\ PendingInv /\ SubsInv)'
    BY <1>1, TimerFacts DEF TypeOK, FreshInv, WaitInv, PendingInv, SubsInv, Begun, Pending,
       Resource, TimerId, Itself, Owner, Cur
  <1>6. FireInv'
    BY <1>1, TimerFacts DEF TypeOK, FireInv, Begun, Owner
  <1> QED
    BY <1>2, <1>3, <1>4, <1>5, <1>6 DEF TimerInv

(* Only where the thread is changes. *)
LEMMA IdleOverInv ==
    ASSUME TimerInv, IdleOver
    PROVE  TimerInv'
  <1> USE DEF IdleOver, Thread, KeepsTimers, timerVars, waitVars, userVars
  <1>1. TypeOK /\ QueueInv /\ DistinctInv /\ FreshInv /\ WaitInv /\ PendingInv /\ SubsInv /\ FireInv
    BY DEF TimerInv
  <1>2. TypeOK'
    BY <1>1, TimerFacts DEF TypeOK
  <1>3. QueueInv'
    BY <1>1, TimerFacts DEF TypeOK, QueueInv, InInsert, InRemove, Cur
  <1>4. DistinctInv'
    BY <1>1, TimerFacts DEF TypeOK, DistinctInv, QueueInv, InInsert, InRemove, Cur
  <1>5. (FreshInv /\ WaitInv /\ PendingInv /\ SubsInv)'
    BY <1>1, TimerFacts DEF TypeOK, FreshInv, WaitInv, PendingInv, SubsInv, Begun, Pending,
       Resource, TimerId, Itself, Owner, Cur
  <1>6. FireInv'
    BY <1>1, TimerFacts DEF TypeOK, FireInv, Begun, Owner
  <1> QED
    BY <1>2, <1>3, <1>4, <1>5, <1>6 DEF TimerInv

(* Only where the thread is changes, and what it has in hand. *)
LEMMA UntilOverInv ==
    ASSUME TimerInv, UntilOver
    PROVE  TimerInv'
  <1> USE DEF UntilOver, Thread, timerVars, waitVars, userVars
  <1>1. TypeOK /\ QueueInv /\ DistinctInv /\ FreshInv /\ WaitInv /\ PendingInv /\ SubsInv /\ FireInv
    BY DEF TimerInv
  <1>2. TypeOK'
    BY <1>1, TimerFacts DEF TypeOK
  <1>3. QueueInv'
    BY <1>1, TimerFacts DEF TypeOK, QueueInv, InInsert, InRemove, Cur
  <1>4. DistinctInv'
    BY <1>1, TimerFacts DEF TypeOK, DistinctInv, QueueInv, InInsert, InRemove, Cur
  <1>5. (FreshInv /\ WaitInv /\ PendingInv /\ SubsInv)'
    BY <1>1, TimerFacts DEF TypeOK, FreshInv, WaitInv, PendingInv, SubsInv, Begun, Pending,
       Resource, TimerId, Itself, Owner, Cur
  <1>6. FireInv'
    BY <1>1, TimerFacts DEF TypeOK, FireInv, Begun, Owner
  <1> QED
    BY <1>2, <1>3, <1>4, <1>5, <1>6 DEF TimerInv

(* Only where the thread is changes. *)
LEMMA UntilNowInv ==
    ASSUME TimerInv, UntilNow
    PROVE  TimerInv'
  <1> USE DEF UntilNow, Thread, KeepsTimers, timerVars, waitVars, userVars
  <1>1. TypeOK /\ QueueInv /\ DistinctInv /\ FreshInv /\ WaitInv /\ PendingInv /\ SubsInv /\ FireInv
    BY DEF TimerInv
  <1>2. TypeOK'
    BY <1>1, TimerFacts DEF TypeOK
  <1>3. QueueInv'
    BY <1>1, TimerFacts DEF TypeOK, QueueInv, InInsert, InRemove, Cur
  <1>4. DistinctInv'
    BY <1>1, TimerFacts DEF TypeOK, DistinctInv, QueueInv, InInsert, InRemove, Cur
  <1>5. (FreshInv /\ WaitInv /\ PendingInv /\ SubsInv)'
    BY <1>1, TimerFacts DEF TypeOK, FreshInv, WaitInv, PendingInv, SubsInv, Begun, Pending,
       Resource, TimerId, Itself, Owner, Cur
  <1>6. FireInv'
    BY <1>1, TimerFacts DEF TypeOK, FireInv, Begun, Owner
  <1> QED
    BY <1>2, <1>3, <1>4, <1>5, <1>6 DEF TimerInv

(* Only where the thread is changes. *)
LEMMA BreakOffInv ==
    ASSUME TimerInv, BreakOff
    PROVE  TimerInv'
  <1> USE DEF BreakOff, Thread, KeepsTimers, timerVars, waitVars, userVars
  <1>1. TypeOK /\ QueueInv /\ DistinctInv /\ FreshInv /\ WaitInv /\ PendingInv /\ SubsInv /\ FireInv
    BY DEF TimerInv
  <1>2. TypeOK'
    BY <1>1, TimerFacts DEF TypeOK
  <1>3. QueueInv'
    BY <1>1, TimerFacts DEF TypeOK, QueueInv, InInsert, InRemove, Cur
  <1>4. DistinctInv'
    BY <1>1, TimerFacts DEF TypeOK, DistinctInv, QueueInv, InInsert, InRemove, Cur
  <1>5. (FreshInv /\ WaitInv /\ PendingInv /\ SubsInv)'
    BY <1>1, TimerFacts DEF TypeOK, FreshInv, WaitInv, PendingInv, SubsInv, Begun, Pending,
       Resource, TimerId, Itself, Owner, Cur
  <1>6. FireInv'
    BY <1>1, TimerFacts DEF TypeOK, FireInv, Begun, Owner
  <1> QED
    BY <1>2, <1>3, <1>4, <1>5, <1>6 DEF TimerInv

(* Only where the thread is changes. *)
LEMMA NoFrontInv ==
    ASSUME TimerInv, NoFront
    PROVE  TimerInv'
  <1> USE DEF NoFront, Thread, KeepsTimers, timerVars, waitVars, userVars
  <1>1. TypeOK /\ QueueInv /\ DistinctInv /\ FreshInv /\ WaitInv /\ PendingInv /\ SubsInv /\ FireInv
    BY DEF TimerInv
  <1>2. TypeOK'
    BY <1>1, TimerFacts DEF TypeOK
  <1>3. QueueInv'
    BY <1>1, TimerFacts DEF TypeOK, QueueInv, InInsert, InRemove, Cur
  <1>4. DistinctInv'
    BY <1>1, TimerFacts DEF TypeOK, DistinctInv, QueueInv, InInsert, InRemove, Cur
  <1>5. (FreshInv /\ WaitInv /\ PendingInv /\ SubsInv)'
    BY <1>1, TimerFacts DEF TypeOK, FreshInv, WaitInv, PendingInv, SubsInv, Begun, Pending,
       Resource, TimerId, Itself, Owner, Cur
  <1>6. FireInv'
    BY <1>1, TimerFacts DEF TypeOK, FireInv, Begun, Owner
  <1> QED
    BY <1>2, <1>3, <1>4, <1>5, <1>6 DEF TimerInv

(* The earliest timer has not fired yet, or it would not be in the queue. *)
LEMMA TakeFrontInv ==
    ASSUME TimerInv, TakeFront
    PROVE  TimerInv'
  <1> USE DEF TakeFront, Thread, timerVars, waitVars, userVars
  <1>1. TypeOK /\ QueueInv /\ DistinctInv /\ FreshInv /\ WaitInv /\ PendingInv /\ SubsInv /\ FireInv
    BY DEF TimerInv
  <1>2. TypeOK'
    <2>1. Earliest \in Timer
      BY <1>1, EarliestInQueue DEF TypeOK
    <2> QED
      BY <1>1, <2>1 DEF TypeOK
  <1>3. QueueInv'
    BY <1>1, TimerFacts DEF TypeOK, QueueInv, InInsert, InRemove, Cur
  <1>4. DistinctInv'
    BY <1>1, TimerFacts DEF TypeOK, DistinctInv, QueueInv, InInsert, InRemove, Cur
  <1>5. (FreshInv /\ WaitInv /\ PendingInv /\ SubsInv)'
    BY <1>1, TimerFacts DEF TypeOK, FreshInv, WaitInv, PendingInv, SubsInv, Begun, Pending,
       Resource, TimerId, Itself, Owner, Cur
  <1>6. FireInv'
    <2> DEFINE t == Earliest
    <2>1. t \in queue /\ t \in Timer
      BY <1>1, EarliestInQueue DEF TypeOK
    <2>2. threadAt = "begin" /\ front' = t /\ (threadAt' = "create" => now >= expire[t])
      OBVIOUS
    <2>3. \A u \in ClientTimer \cap (running \cup queue) : runAt[u] = "none"
      BY <1>1, <2>2 DEF FireInv
    <2>4. t \in ClientTimer => Begun(t)
      BY <1>1, <2>1 DEF FreshInv
    <2>5. t \in ClientTimer => t \in joins \cup running
      BY <1>1, <2>1, TimerFacts, HeadJoins DEF QueueInv, InRemove
    <2> HIDE DEF t
    <2> QED
      BY <1>1, <2>1, <2>2, <2>3, <2>4, <2>5 DEF FireInv, Begun, Owner
  <1> QED
    BY <1>2, <1>3, <1>4, <1>5, <1>6 DEF TimerInv

(* The timer fires: its time has come. *)
LEMMA CreateRunInv ==
    ASSUME TimerInv, CreateRun
    PROVE  TimerInv'
  <1> USE DEF CreateRun, Thread, timerVars, waitVars, userVars
  <1>1. TypeOK /\ QueueInv /\ DistinctInv /\ FreshInv /\ WaitInv /\ PendingInv /\ SubsInv /\ FireInv
    BY DEF TimerInv
  <1>2. /\ threadAt = "create"
        /\ front \in ClientTimer =>
             /\ Begun(front) /\ runAt[front] = "none" /\ front \in joins \cup running
             /\ runAt' = [runAt EXCEPT ![front] = "created"]
        /\ front \notin ClientTimer => runAt' = runAt
        /\ UNCHANGED <<running, queue, joins, count, waitFor>>
    BY <1>1, TimerFacts DEF FireInv, TypeOK
  <1>3. TypeOK'
    BY <1>1, TimerFacts DEF TypeOK
  <1>4. QueueInv'
    BY <1>1, TimerFacts DEF TypeOK, QueueInv, InInsert, InRemove, Cur
  <1>5. DistinctInv'
    BY <1>1, TimerFacts DEF TypeOK, DistinctInv, QueueInv, InInsert, InRemove, Cur
  <1>6. (FreshInv /\ WaitInv /\ PendingInv /\ SubsInv)'
    <2>1. FreshInv'
      BY <1>1, <1>2 DEF TypeOK, FreshInv, Begun, Owner
    <2>2. WaitInv'
      BY <1>1, TimerFacts DEF TypeOK, WaitInv, Resource, TimerId, Itself, Owner, Cur
    <2>3. PendingInv'
      <3>1. \A t \in ClientTimer \ joins : Pending(t)' => Pending(t)
        BY <1>1, <1>2 DEF TypeOK, Pending
      <3> QED
        BY <1>1, <1>2, <3>1 DEF PendingInv, Owner, Cur
    <2>4. SubsInv'
      BY <1>1, TimerFacts DEF TypeOK, SubsInv
    <2> QED
      BY <2>1, <2>2, <2>3, <2>4
  <1>7. FireInv'
    <2>1. threadAt' = "notify" /\ UNCHANGED <<front, now, expire>>
      OBVIOUS
    <2>2. \A t \in ClientTimer : runAt'[t] # "none" => t = front \/ runAt[t] # "none"
      BY <1>1, <1>2 DEF TypeOK
    <2>3. \A t \in ClientTimer : runAt'[t] # "none" => now >= expire[t]
      BY <1>1, <1>2, <2>2 DEF FireInv
    <2>4. \A t \in ClientTimer \cap (running \cup queue) : runAt'[t] # "none" => t = front
      BY <1>1, <2>2 DEF FireInv
    <2> QED
      BY <1>2, <2>1, <2>3, <2>4 DEF FireInv
  <1> QED
    BY <1>3, <1>4, <1>5, <1>6, <1>7 DEF TimerInv

(* Only where the thread is changes, and the env of a user's callback. *)
LEMMA WakeRunEnvInv ==
    ASSUME TimerInv, WakeRunEnv
    PROVE  TimerInv'
  <1> USE DEF WakeRunEnv, Thread, timerVars, waitVars, userVars
  <1>1. TypeOK /\ QueueInv /\ DistinctInv /\ FreshInv /\ WaitInv /\ PendingInv /\ SubsInv /\ FireInv
    BY DEF TimerInv
  <1>2. TypeOK'
    BY <1>1, TimerFacts DEF TypeOK
  <1>3. QueueInv'
    BY <1>1, TimerFacts DEF TypeOK, QueueInv, InInsert, InRemove, Cur
  <1>4. DistinctInv'
    BY <1>1, TimerFacts DEF TypeOK, DistinctInv, QueueInv, InInsert, InRemove, Cur
  <1>5. (FreshInv /\ WaitInv /\ PendingInv /\ SubsInv)'
    BY <1>1, TimerFacts DEF TypeOK, FreshInv, WaitInv, PendingInv, SubsInv, Begun, Pending,
       Resource, TimerId, Itself, Owner, Cur
  <1>6. FireInv'
    BY <1>1, TimerFacts DEF TypeOK, FireInv, Begun, Owner
  <1> QED
    BY <1>2, <1>3, <1>4, <1>5, <1>6 DEF TimerInv

(* Nobody is starting or stopping the timer, so it leaves the queue if it is there. *)
LEMMA StopFrontInv ==
    ASSUME TimerInv, StopFront
    PROVE  TimerInv'
  <1> USE DEF StopFront, Thread, RemoveTimer, Same, timerVars, waitVars, userVars
  <1>1. TypeOK /\ QueueInv /\ DistinctInv /\ FreshInv /\ WaitInv /\ PendingInv /\ SubsInv /\ FireInv
    BY DEF TimerInv
  <1>2. threadAt = "fired" /\ threadAt' = "top" /\ CanGoOn(<<"thread">>)
        /\ front' = UserTimer
        /\ UNCHANGED <<now, pc, count, endAt, subs, userAt, expire, joins, runAt, waitFor>>
    OBVIOUS
  <1>3. \A t \in queue \cup {front} : ~InInsert(t) /\ ~InRemove(t)
    BY <1>2, ThreadAlone
  <1>4. /\ front \in Timer /\ running' = running \ {front} /\ front \notin queue'
        /\ queue' \subseteq queue
        /\ Coincide \/ queue' = queue \ {front}
    <2>1. front \in Timer
      BY <1>1 DEF TypeOK
    <2>2. CASE front \in running
      <3>1. Coincide \/ Same(front) = {front}
        BY <1>1, <1>3, <2>2 DEF DistinctInv
      <3> QED
        BY <2>1, <2>2, <3>1
    <2>3. CASE front \notin running
      BY <1>1, <1>3, <2>1, <2>3 DEF QueueInv
    <2> QED
      BY <2>2, <2>3
  <1>5. \A t : InInsert(t)' = InInsert(t) /\ InRemove(t)' = InRemove(t)
    BY <1>2 DEF InInsert, InRemove, Cur
  <1>6. TypeOK'
    BY <1>1, TimerFacts DEF TypeOK
  <1>7. QueueInv'
    BY <1>1, <1>3, <1>4, <1>5 DEF QueueInv
  <1>8. DistinctInv'
    BY <1>1, <1>2, <1>3, <1>4, <1>5 DEF DistinctInv
  <1>9. (FreshInv /\ WaitInv /\ PendingInv /\ SubsInv)'
    <2>1. FreshInv'
      BY <1>1, <1>2, <1>4, TimerFacts DEF TypeOK, FreshInv, Begun, Owner
    <2>2. WaitInv'
      BY <1>1, <1>2, <1>4, TimerFacts DEF TypeOK, WaitInv, Resource, TimerId, Itself, Owner, Cur
    <2>3. PendingInv'
      BY <1>1, <1>2, <1>4, TimerFacts DEF TypeOK, PendingInv, WaitInv, Pending, Resource, TimerId,
         Itself, Owner, Cur
    <2>4. SubsInv'
      BY <1>1, <1>2, <1>4, TimerFacts DEF TypeOK, SubsInv
    <2> QED
      BY <2>1, <2>2, <2>3, <2>4
  <1>10. FireInv'
    BY <1>1, <1>2, <1>4 DEF FireInv
  <1> QED
    BY <1>6, <1>7, <1>8, <1>9, <1>10 DEF TimerInv

(* The user's timer gets another instant than the other timers in the queue, none of which is
being stopped. *)
LEMMA ResetFrontInv ==
    ASSUME TimerInv, ResetFront
    PROVE  TimerInv'
  <1> USE DEF ResetFront, Thread, FromNow, Instants, Same, timerVars, waitVars, userVars
  <1>1. TypeOK /\ QueueInv /\ DistinctInv /\ FreshInv /\ WaitInv /\ PendingInv /\ SubsInv /\ FireInv
    BY DEF TimerInv
  <1>2. PICK e \in FromNow(front) \ {now} :
          /\ expire' = [expire EXCEPT ![front] = e]
          /\ LET rest == IF front \in running THEN queue \ Same(front) ELSE queue IN
             queue' = IF \E u \in rest : expire[u] = e THEN rest ELSE rest \cup {front}
    OBVIOUS
  <1>3. /\ threadAt = "fired" /\ threadAt' = "top" /\ CanGoOn(<<"thread">>)
        /\ front = UserTimer /\ running' = running \cup {UserTimer}
        /\ UNCHANGED <<now, pc, count, endAt, subs, userAt, joins, runAt, waitFor, front>>
    OBVIOUS
  <1>4. \A t \in queue \cup {UserTimer} : ~InInsert(t) /\ ~InRemove(t)
    BY <1>3, ThreadAlone
  <1>5. queue \subseteq running
    BY <1>1, <1>4 DEF QueueInv
  <1>6. /\ expire' \in [Timer -> 0..MaxTime + 1] /\ expire'[UserTimer] = e
        /\ \A t \in Timer \ {UserTimer} : expire'[t] = expire[t]
        /\ Coincide \/ \A t \in running \ {UserTimer} : expire[t] # e
    BY <1>1, <1>2, <1>3, TimerFacts DEF TypeOK
  <1>7. /\ queue' \subseteq queue \cup {UserTimer}
        /\ Coincide \/ queue' = queue \cup {UserTimer}
    <2> DEFINE rest == IF UserTimer \in running THEN queue \ Same(UserTimer) ELSE queue
    <2>1. queue' = IF \E u \in rest : expire[u] = e THEN rest ELSE rest \cup {UserTimer}
      BY <1>2, <1>3
    <2>2. Coincide \/ rest = queue \ {UserTimer}
      <3>1. CASE UserTimer \in running
        BY <1>1, <1>4, <3>1 DEF DistinctInv
      <3>2. CASE UserTimer \notin running
        BY <1>5, <3>2
      <3> QED
        BY <3>1, <3>2
    <2>3. rest \subseteq queue
      OBVIOUS
    <2> HIDE DEF rest
    <2>4. CASE Coincide
      BY <2>1, <2>3, <2>4
    <2>5. CASE ~Coincide
      BY <1>5, <1>6, <2>1, <2>2, <2>5
    <2> QED
      BY <2>4, <2>5
  <1>8. \A t : InInsert(t)' = InInsert(t) /\ InRemove(t)' = InRemove(t)
    BY <1>3 DEF InInsert, InRemove, Cur
  <1>9. TypeOK'
    <2>1. running' \subseteq Timer /\ queue' \subseteq Timer
      BY <1>1, <1>3, <1>7, TimerFacts DEF TypeOK
    <2>2. starts' \in 0..Starts
      BY <1>1 DEF TypeOK
    <2> QED
      BY <1>1, <1>6, <2>1, <2>2 DEF TypeOK
  <1>10. QueueInv'
    BY <1>1, <1>3, <1>4, <1>7, <1>8 DEF QueueInv
  <1>11. DistinctInv'
    BY <1>1, <1>3, <1>4, <1>5, <1>6, <1>7, <1>8 DEF TypeOK, DistinctInv
  <1>12. (FreshInv /\ WaitInv /\ PendingInv /\ SubsInv)'
    <2>1. FreshInv'
      BY <1>1, <1>3, <1>7, TimerFacts DEF TypeOK, FreshInv, Begun, Owner
    <2>2. WaitInv'
      BY <1>1, <1>3, <1>7, TimerFacts DEF TypeOK, WaitInv, Resource, TimerId, Itself, Owner, Cur
    <2>3. PendingInv'
      BY <1>1, <1>3, <1>7, TimerFacts DEF TypeOK, PendingInv, WaitInv, Pending, Resource,
         TimerId, Itself, Owner, Cur
    <2>4. SubsInv'
      BY <1>1, <1>3, <1>7, TimerFacts DEF TypeOK, SubsInv
    <2> QED
      BY <2>1, <2>2, <2>3, <2>4
  <1>13. FireInv'
    <2>1. \A t \in ClientTimer : expire'[t] = expire[t]
      BY <1>6, TimerFacts
    <2>2. \A t \in ClientTimer : t \in running' \cup queue' => t \in running \cup queue
      BY <1>3, <1>7, TimerFacts
    <2>3. threadAt' = "top" /\ \A t \in ClientTimer : t # front
      BY <1>3, TimerFacts
    <2> QED
      BY <1>1, <1>3, <2>1, <2>2, <2>3 DEF FireInv
  <1> QED
    BY <1>9, <1>10, <1>11, <1>12, <1>13 DEF TimerInv

(* Nothing of the timers changes. *)
LEMMA SetTimerCleanUpInv ==
    ASSUME TimerInv, SetTimerCleanUp
    PROVE  TimerInv'
  <1> USE DEF SetTimerCleanUp, Notified, timerVars, waitVars, userVars
  <1>1. TypeOK /\ QueueInv /\ DistinctInv /\ FreshInv /\ WaitInv /\ PendingInv /\ SubsInv /\ FireInv
    BY DEF TimerInv
  <1>2. TypeOK'
    BY <1>1, TimerFacts DEF TypeOK
  <1>3. QueueInv'
    BY <1>1, TimerFacts DEF TypeOK, QueueInv, InInsert, InRemove, Cur
  <1>4. DistinctInv'
    BY <1>1, TimerFacts DEF TypeOK, DistinctInv, QueueInv, InInsert, InRemove, Cur
  <1>5. (FreshInv /\ WaitInv /\ PendingInv /\ SubsInv)'
    BY <1>1, TimerFacts DEF TypeOK, FreshInv, WaitInv, PendingInv, SubsInv, Begun, Pending,
       Resource, TimerId, Itself, Owner, Cur
  <1>6. FireInv'
    BY <1>1, TimerFacts DEF TypeOK, FireInv, Begun, Owner
  <1> QED
    BY <1>2, <1>3, <1>4, <1>5, <1>6 DEF TimerInv

(* Only where the coroutine is changes. *)
LEMMA RunBeginInv ==
    ASSUME TimerInv, NEW t \in ClientTimer, RunBegin(t)
    PROVE  TimerInv'
  <1> USE DEF RunBegin, Run, timerVars, waitVars, userVars
  <1>1. TypeOK /\ QueueInv /\ DistinctInv /\ FreshInv /\ WaitInv /\ PendingInv /\ SubsInv /\ FireInv
    BY DEF TimerInv
  <1>2. TypeOK'
    <2>1. runAt' \in [ClientTimer -> {"none", "created", "unsub", "leave", "wake", "ended"}]
      BY <1>1 DEF TypeOK
    <2>2. runs' \in [Timer -> RunOn \cup {NoEnv}]
      BY <1>1 DEF TypeOK
    <2> QED
      BY <1>1, <2>1, <2>2 DEF TypeOK
  <1>3. QueueInv'
    BY <1>1, TimerFacts DEF TypeOK, QueueInv, InInsert, InRemove, Cur
  <1>4. DistinctInv'
    BY <1>1, TimerFacts DEF TypeOK, DistinctInv, QueueInv, InInsert, InRemove, Cur
  <1>5. (FreshInv /\ WaitInv /\ PendingInv /\ SubsInv)'
    <2>1. FreshInv'
      BY <1>1, TimerFacts DEF TypeOK, FreshInv, Begun, Owner
    <2>2. WaitInv'
      BY <1>1, TimerFacts DEF TypeOK, WaitInv, Resource, TimerId, Itself, Owner, Cur
    <2>3. PendingInv'
      BY <1>1, TimerFacts DEF TypeOK, PendingInv, WaitInv, Pending, Resource, TimerId, Itself,
         Owner, Cur
    <2>4. SubsInv'
      BY <1>1, TimerFacts DEF TypeOK, SubsInv
    <2> QED
      BY <2>1, <2>2, <2>3, <2>4
  <1>6. FireInv'
    BY <1>1, TimerFacts DEF TypeOK, FireInv, Begun, Owner
  <1> QED
    BY <1>2, <1>3, <1>4, <1>5, <1>6 DEF TimerInv

(* One subscriber less, unless the target is telling them already. *)
LEMMA RunUnsubInv ==
    ASSUME TimerInv, NEW t \in ClientTimer, RunUnsub(t)
    PROVE  TimerInv'
  <1> USE DEF RunUnsub, Run, timerVars, waitVars, userVars
  <1>1. TypeOK /\ QueueInv /\ DistinctInv /\ FreshInv /\ WaitInv /\ PendingInv /\ SubsInv /\ FireInv
    BY DEF TimerInv
  <1>2. TypeOK'
    <2>1. subs' \in Seq(joins')
      BY <1>1, OnlyMembers DEF TypeOK
    <2>2. runAt' \in [ClientTimer -> {"none", "created", "unsub", "leave", "wake", "ended"}]
      BY <1>1 DEF TypeOK
    <2> QED
      BY <1>1, <2>1, <2>2, TimerFacts DEF TypeOK
  <1>3. QueueInv'
    BY <1>1, TimerFacts DEF TypeOK, QueueInv, InInsert, InRemove, Cur
  <1>4. DistinctInv'
    BY <1>1, TimerFacts DEF TypeOK, DistinctInv, QueueInv, InInsert, InRemove, Cur
  <1>5. (FreshInv /\ WaitInv /\ PendingInv /\ SubsInv)'
    <2>1. FreshInv'
      BY <1>1, TimerFacts DEF TypeOK, FreshInv, Begun, Owner
    <2>2. WaitInv'
      BY <1>1, TimerFacts DEF TypeOK, WaitInv, Resource, TimerId, Itself, Owner, Cur
    <2>3. PendingInv'
      BY <1>1, TimerFacts DEF TypeOK, PendingInv, WaitInv, Pending, Resource, TimerId, Itself,
         Owner, Cur
    <2>4. SubsInv'
      BY <1>1, TimerFacts DEF TypeOK, SubsInv
    <2> QED
      BY <2>1, <2>2, <2>3, <2>4
  <1>6. FireInv'
    BY <1>1, TimerFacts DEF TypeOK, FireInv, Begun, Owner
  <1> QED
    BY <1>2, <1>3, <1>4, <1>5, <1>6 DEF TimerInv

(* Its own wait ends, if it has not ended. *)
LEMMA RunLeaveInv ==
    ASSUME TimerInv, NEW t \in ClientTimer, RunLeave(t)
    PROVE  TimerInv'
  <1> USE DEF RunLeave, Run, LeaveWait, timerVars, waitVars, userVars
  <1>1. TypeOK /\ QueueInv /\ DistinctInv /\ FreshInv /\ WaitInv /\ PendingInv /\ SubsInv /\ FireInv
    BY DEF TimerInv
  <1>2. TypeOK'
    <2>1. runAt' \in [ClientTimer -> {"none", "created", "unsub", "leave", "wake", "ended"}]
      BY <1>1 DEF TypeOK
    <2>2. runs' \in [Timer -> RunOn \cup {NoEnv}]
      BY <1>1 DEF TypeOK
    <2>3. waitFor' \in [Client -> SUBSET (Client \X (0..Waits))]
      BY <1>1 DEF TypeOK
    <2> QED
      BY <1>1, <2>1, <2>2, <2>3 DEF TypeOK
  <1>3. QueueInv'
    BY <1>1, TimerFacts DEF TypeOK, QueueInv, InInsert, InRemove, Cur
  <1>4. DistinctInv'
    BY <1>1, TimerFacts DEF TypeOK, DistinctInv, QueueInv, InInsert, InRemove, Cur
  <1>5. (FreshInv /\ WaitInv /\ PendingInv /\ SubsInv)'
    <2>1. FreshInv'
      BY <1>1, TimerFacts DEF TypeOK, FreshInv, Begun, Owner
    <2>2. WaitInv'
      <3>1. /\ UNCHANGED <<count, joins, pc>>
            /\ waitFor' \in [Client -> SUBSET (Client \X (0..Waits))]
            /\ \A c \in Client : waitFor'[c] \subseteq waitFor[c]
        BY <1>1 DEF TypeOK
      <3>2. \A c \in Client : Cur(c)' = Cur(c) /\ Resource(Cur(c))' = Resource(Cur(c))
        BY <3>1 DEF Resource, TimerId, Itself, Owner, Cur
      <3>3. \A c \in Client : waitFor'[c] # {} => waitFor'[c] = {Resource(Cur(c))}
        BY <1>1, <3>1 DEF WaitInv
      <3> QED
        BY <1>1, <3>1, <3>2, <3>3 DEF WaitInv
    <2>3. PendingInv'
      <3> SUFFICES ASSUME NEW u \in ClientTimer \ joins', Pending(u)'
                   PROVE  u = Cur(Owner(u))' /\ waitFor'[Owner(u)] # {}
        BY DEF PendingInv, Owner
      <3>1. /\ runAt[t] = "leave" /\ runAt'[t] \in {"ended", "wake"}
            /\ \A w \in ClientTimer \ {t} : runAt'[w] = runAt[w]
            /\ UNCHANGED <<running, joins, count>>
        BY <1>1 DEF TypeOK
      <3>2. u # t /\ u \notin joins /\ Pending(u) /\ Pending(t)
        BY <3>1 DEF Pending
      <3>3. /\ u = Cur(Owner(u)) /\ waitFor[Owner(u)] = {<<Owner(u), 0>>}
            /\ Owner(u) \in Client /\ Owner(t) \in Client
        BY <1>1, <3>2, TimerFacts DEF PendingInv, WaitInv, Resource, Itself, Owner
      <3>4. /\ waitFor' \in [Client -> SUBSET (Client \X (0..Waits))]
            /\ waitFor'[Owner(t)] = waitFor[Owner(t)] \ {Resource(t)}
            /\ \A c \in Client \ {Owner(t)} : waitFor'[c] = waitFor[c]
        BY <1>1, <3>3 DEF TypeOK
      <3>5. CASE t \in joins
        <4>1. Resource(t) = t /\ t[2] # 0
          BY <3>5, TimerFacts DEF Resource, TimerId
        <4>2. Resource(t) # <<Owner(u), 0>>
          BY <4>1
        <4>3. waitFor'[Owner(u)] # {}
          <5>1. CASE Owner(u) = Owner(t)
            <6>1. waitFor'[Owner(u)] = {<<Owner(u), 0>>} \ {Resource(t)}
              BY <3>3, <3>4, <5>1
            <6> QED
              BY <4>2, <6>1
          <5>2. CASE Owner(u) # Owner(t)
            BY <3>3, <3>4, <5>2
          <5> QED
            BY <5>1, <5>2
        <4> QED
          BY <3>1, <3>3, <4>3 DEF Cur, Owner
      <3>6. CASE t \notin joins
        <4>1. Owner(u) # Owner(t)
          BY <1>1, <3>2, <3>3, <3>6 DEF PendingInv
        <4> QED
          BY <3>1, <3>3, <3>4, <4>1 DEF Cur, Owner
      <3> QED
        BY <3>5, <3>6
    <2>4. SubsInv'
      BY <1>1, TimerFacts DEF TypeOK, SubsInv
    <2> QED
      BY <2>1, <2>2, <2>3, <2>4
  <1>6. FireInv'
    BY <1>1, TimerFacts DEF TypeOK, FireInv, Begun, Owner
  <1> QED
    BY <1>2, <1>3, <1>4, <1>5, <1>6 DEF TimerInv

(* Only where the coroutine is changes. *)
LEMMA RunWakeInv ==
    ASSUME TimerInv, NEW t \in ClientTimer, RunWake(t)
    PROVE  TimerInv'
  <1> USE DEF RunWake, Run, timerVars, waitVars, userVars
  <1>1. TypeOK /\ QueueInv /\ DistinctInv /\ FreshInv /\ WaitInv /\ PendingInv /\ SubsInv /\ FireInv
    BY DEF TimerInv
  <1>2. TypeOK'
    <2>1. runAt' \in [ClientTimer -> {"none", "created", "unsub", "leave", "wake", "ended"}]
      BY <1>1 DEF TypeOK
    <2>2. runs' \in [Timer -> RunOn \cup {NoEnv}]
      BY <1>1 DEF TypeOK
    <2> QED
      BY <1>1, <2>1, <2>2 DEF TypeOK
  <1>3. QueueInv'
    BY <1>1, TimerFacts DEF TypeOK, QueueInv, InInsert, InRemove, Cur
  <1>4. DistinctInv'
    BY <1>1, TimerFacts DEF TypeOK, DistinctInv, QueueInv, InInsert, InRemove, Cur
  <1>5. (FreshInv /\ WaitInv /\ PendingInv /\ SubsInv)'
    <2>1. FreshInv'
      BY <1>1, TimerFacts DEF TypeOK, FreshInv, Begun, Owner
    <2>2. WaitInv'
      BY <1>1, TimerFacts DEF TypeOK, WaitInv, Resource, TimerId, Itself, Owner, Cur
    <2>3. PendingInv'
      BY <1>1, TimerFacts DEF TypeOK, PendingInv, WaitInv, Pending, Resource, TimerId, Itself,
         Owner, Cur
    <2>4. SubsInv'
      BY <1>1, TimerFacts DEF TypeOK, SubsInv
    <2> QED
      BY <2>1, <2>2, <2>3, <2>4
  <1>6. FireInv'
    BY <1>1, TimerFacts DEF TypeOK, FireInv, Begun, Owner
  <1> QED
    BY <1>2, <1>3, <1>4, <1>5, <1>6 DEF TimerInv

(* Only where the target is changes. *)
LEMMA FinishInv ==
    ASSUME TimerInv, Finish
    PROVE  TimerInv'
  <1> USE DEF Finish, Target, timerVars, waitVars, userVars
  <1>1. TypeOK /\ QueueInv /\ DistinctInv /\ FreshInv /\ WaitInv /\ PendingInv /\ SubsInv /\ FireInv
    BY DEF TimerInv
  <1>2. TypeOK'
    BY <1>1, TimerFacts DEF TypeOK
  <1>3. QueueInv'
    BY <1>1, TimerFacts DEF TypeOK, QueueInv, InInsert, InRemove, Cur
  <1>4. DistinctInv'
    BY <1>1, TimerFacts DEF TypeOK, DistinctInv, QueueInv, InInsert, InRemove, Cur
  <1>5. (FreshInv /\ WaitInv /\ PendingInv /\ SubsInv)'
    BY <1>1, TimerFacts DEF TypeOK, FreshInv, WaitInv, PendingInv, SubsInv, Begun, Pending,
       Resource, TimerId, Itself, Owner, Cur
  <1>6. FireInv'
    BY <1>1, TimerFacts DEF TypeOK, FireInv, Begun, Owner
  <1> QED
    BY <1>2, <1>3, <1>4, <1>5, <1>6 DEF TimerInv

(* Only where the target is changes. *)
LEMMA PublishInv ==
    ASSUME TimerInv, Publish
    PROVE  TimerInv'
  <1> USE DEF Publish, Target, timerVars, waitVars, userVars
  <1>1. TypeOK /\ QueueInv /\ DistinctInv /\ FreshInv /\ WaitInv /\ PendingInv /\ SubsInv /\ FireInv
    BY DEF TimerInv
  <1>2. TypeOK'
    BY <1>1, TimerFacts DEF TypeOK
  <1>3. QueueInv'
    BY <1>1, TimerFacts DEF TypeOK, QueueInv, InInsert, InRemove, Cur
  <1>4. DistinctInv'
    BY <1>1, TimerFacts DEF TypeOK, DistinctInv, QueueInv, InInsert, InRemove, Cur
  <1>5. (FreshInv /\ WaitInv /\ PendingInv /\ SubsInv)'
    BY <1>1, TimerFacts DEF TypeOK, FreshInv, WaitInv, PendingInv, SubsInv, Begun, Pending,
       Resource, TimerId, Itself, Owner, Cur
  <1>6. FireInv'
    BY <1>1, TimerFacts DEF TypeOK, FireInv, Begun, Owner
  <1> QED
    BY <1>2, <1>3, <1>4, <1>5, <1>6 DEF TimerInv

(* Nobody is starting the timer, so it is in the queue if it runs. *)
LEMMA EndStopInv ==
    ASSUME TimerInv, EndStop
    PROVE  TimerInv'
  <1> USE DEF EndStop, Target, timerVars, waitVars, userVars
  <1>1. TypeOK /\ QueueInv /\ DistinctInv /\ FreshInv /\ WaitInv /\ PendingInv /\ SubsInv /\ FireInv
    BY DEF TimerInv
  <1>2. /\ Head(subs) \in joins /\ Head(subs) \in ClientTimer /\ Head(subs) # UserTimer
        /\ ~InInsert(Head(subs))
    BY <1>1, HeadJoins, TargetAlone
  <1>3. /\ endAt = "stop" /\ endAt' = IF Head(subs) \in running THEN "remove" ELSE "leave"
        /\ running' = running \ {Head(subs)}
        /\ UNCHANGED <<queue, subs, userAt, pc, count, expire, runAt, threadAt, front, joins, now>>
    OBVIOUS
  <1>4. /\ \A t : InInsert(t)' = InInsert(t)
        /\ \A t : InRemove(t)' <=> InRemove(t) \/ (t = Head(subs) /\ t \in running)
    BY <1>3 DEF InInsert, InRemove, Cur
  <1>5. TypeOK'
    BY <1>1, TimerFacts DEF TypeOK
  <1>6. QueueInv'
    BY <1>1, <1>2, <1>3, <1>4 DEF QueueInv
  <1>7. DistinctInv'
    BY <1>1, <1>2, <1>3, <1>4 DEF DistinctInv
  <1>8. (FreshInv /\ WaitInv /\ PendingInv /\ SubsInv)'
    BY <1>1, TimerFacts DEF TypeOK, FreshInv, WaitInv, PendingInv, SubsInv, Begun, Pending,
       Resource, TimerId, Itself, Owner, Cur
  <1>9. FireInv'
    BY <1>1, <1>2, <1>3 DEF FireInv, Begun, Owner
  <1> QED
    BY <1>5, <1>6, <1>7, <1>8, <1>9 DEF TimerInv

(* The timer leaves the queue, and no other does. *)
LEMMA EndRemoveInv ==
    ASSUME TimerInv, EndRemove
    PROVE  TimerInv'
  <1> USE DEF EndRemove, Target, RemoveTimer, Same, Notified, timerVars, waitVars, userVars
  <1>1. TypeOK /\ QueueInv /\ DistinctInv /\ FreshInv /\ WaitInv /\ PendingInv /\ SubsInv /\ FireInv
    BY DEF TimerInv
  <1>2. Head(subs) # UserTimer /\ Head(subs) \in Timer
    BY <1>1, HeadJoins, TimerFacts
  <1>3. InRemove(Head(subs)) /\ Head(subs) \notin running
    BY <1>1, <1>2 DEF QueueInv, InRemove
  <1>4. Coincide \/ queue' = queue \ {Head(subs)}
    BY <1>1, <1>2, <1>3 DEF DistinctInv
  <1>5. /\ endAt = "remove" /\ endAt' = "leave"
        /\ UNCHANGED <<subs, userAt, pc, count, expire, running>>
    OBVIOUS
  <1>6. /\ \A t : InInsert(t)' = InInsert(t)
        /\ \A t : InRemove(t)' => InRemove(t) /\ t # Head(subs)
    BY <1>2, <1>5 DEF InInsert, InRemove, Cur
  <1>7. TypeOK'
    BY <1>1, TimerFacts DEF TypeOK
  <1>8. QueueInv'
    BY <1>1, TimerFacts DEF TypeOK, QueueInv, InInsert, InRemove, Cur
  <1>9. DistinctInv'
    BY <1>1, <1>3, <1>4, <1>5, <1>6 DEF DistinctInv
  <1>10. (FreshInv /\ WaitInv /\ PendingInv /\ SubsInv)'
    BY <1>1, TimerFacts DEF TypeOK, FreshInv, WaitInv, PendingInv, SubsInv, Begun, Pending,
       Resource, TimerId, Itself, Owner, Cur
  <1>11. FireInv'
    BY <1>1, TimerFacts DEF TypeOK, FireInv, Begun, Owner
  <1> QED
    BY <1>7, <1>8, <1>9, <1>10, <1>11 DEF TimerInv

(* The wait that ends is that of the subscriber. *)
LEMMA EndLeaveInv ==
    ASSUME TimerInv, EndLeave
    PROVE  TimerInv'
  <1> USE DEF EndLeave, Target, LeaveWait, NextSub, timerVars, waitVars, userVars
  <1>1. TypeOK /\ QueueInv /\ DistinctInv /\ FreshInv /\ WaitInv /\ PendingInv /\ SubsInv /\ FireInv
    BY DEF TimerInv
  <1>2. /\ Head(subs) \in joins /\ Head(subs) \in ClientTimer
        /\ Tail(subs) \in Seq(joins)
        /\ Len(subs) # 1 => Tail(subs) # <<>>
    BY <1>1, HeadJoins
  <1>3. TypeOK'
    <2>1. subs' \in Seq(joins')
      BY <1>1, <1>2 DEF TypeOK
    <2>2. waitFor' \in [Client -> SUBSET (Client \X (0..Waits))]
      BY <1>1 DEF TypeOK
    <2> QED
      BY <1>1, <2>1, <2>2 DEF TypeOK
  <1>4. QueueInv'
    BY <1>1, TimerFacts DEF TypeOK, QueueInv, InInsert, InRemove, Cur
  <1>5. DistinctInv'
    BY <1>1, TimerFacts DEF TypeOK, DistinctInv, QueueInv, InInsert, InRemove, Cur
  <1>6. (FreshInv /\ WaitInv /\ PendingInv /\ SubsInv)'
    <2>1. FreshInv'
      BY <1>1, <1>2, TimerFacts DEF TypeOK, FreshInv, Begun, Owner
    <2>2. WaitInv'
      <3>1. /\ UNCHANGED <<count, joins, pc>>
            /\ waitFor' \in [Client -> SUBSET (Client \X (0..Waits))]
            /\ \A c \in Client : waitFor'[c] \subseteq waitFor[c]
        BY <1>1 DEF TypeOK
      <3>2. \A c \in Client : Cur(c)' = Cur(c) /\ Resource(Cur(c))' = Resource(Cur(c))
        BY <3>1 DEF Resource, TimerId, Itself, Owner, Cur
      <3>3. \A c \in Client : waitFor'[c] # {} => waitFor'[c] = {Resource(Cur(c))}
        BY <1>1, <3>1 DEF WaitInv
      <3> QED
        BY <1>1, <3>1, <3>2, <3>3 DEF WaitInv
    <2>3. PendingInv'
      <3> DEFINE t == Head(subs)
      <3> SUFFICES ASSUME NEW u \in ClientTimer \ joins', Pending(u)'
                   PROVE  u = Cur(Owner(u))' /\ waitFor'[Owner(u)] # {}
        BY DEF PendingInv, Owner
      <3>1. t \in joins /\ t \in ClientTimer /\ UNCHANGED <<running, joins, count, runAt>>
        BY <1>2
      <3>2. u \notin joins /\ Pending(u)
        BY <3>1 DEF Pending
      <3>3. /\ u = Cur(Owner(u)) /\ waitFor[Owner(u)] = {<<Owner(u), 0>>}
            /\ Owner(u) \in Client /\ Owner(t) \in Client
        <4>1. Owner(u) \in Client /\ Owner(t) \in Client
          BY <3>1, TimerFacts DEF Owner
        <4>2. u = Cur(Owner(u)) /\ waitFor[Owner(u)] # {}
          BY <1>1, <3>2 DEF PendingInv
        <4>3. waitFor[Owner(u)] = {Resource(u)}
          BY <1>1, <4>1, <4>2 DEF WaitInv
        <4> QED
          BY <3>2, <4>1, <4>2, <4>3 DEF Resource, Itself
      <3>4. /\ waitFor' \in [Client -> SUBSET (Client \X (0..Waits))]
            /\ waitFor'[Owner(t)] = waitFor[Owner(t)] \ {Resource(t)}
            /\ \A c \in Client \ {Owner(t)} : waitFor'[c] = waitFor[c]
        BY <1>1, <3>3 DEF TypeOK
      <3>5. Resource(t) = t /\ t[2] # 0
        BY <3>1, TimerFacts DEF Resource, TimerId
      <3>6. Resource(t) # <<Owner(u), 0>>
        BY <3>5
      <3>7. waitFor'[Owner(u)] # {}
        <4>1. CASE Owner(u) = Owner(t)
          <5>1. waitFor'[Owner(u)] = {<<Owner(u), 0>>} \ {Resource(t)}
            BY <3>3, <3>4, <4>1
          <5> QED
            BY <3>6, <5>1
        <4>2. CASE Owner(u) # Owner(t)
          BY <3>3, <3>4, <4>2
        <4> QED
          BY <4>1, <4>2
      <3> QED
        BY <3>1, <3>3, <3>7 DEF Cur, Owner
    <2>4. SubsInv'
      BY <1>1, <1>2, TimerFacts DEF TypeOK, SubsInv
    <2> QED
      BY <2>1, <2>2, <2>3, <2>4
  <1>7. FireInv'
    BY <1>1, TimerFacts DEF TypeOK, FireInv, Begun, Owner
  <1> QED
    BY <1>3, <1>4, <1>5, <1>6, <1>7 DEF TimerInv

(* The next subscriber's turn. *)
LEMMA EndWakeInv ==
    ASSUME TimerInv, EndWake
    PROVE  TimerInv'
  <1> USE DEF EndWake, Target, NextSub, timerVars, waitVars, userVars
  <1>1. TypeOK /\ QueueInv /\ DistinctInv /\ FreshInv /\ WaitInv /\ PendingInv /\ SubsInv /\ FireInv
    BY DEF TimerInv
  <1>2. /\ Head(subs) \in joins /\ Head(subs) \in ClientTimer
        /\ Tail(subs) \in Seq(joins)
        /\ Len(subs) # 1 => Tail(subs) # <<>>
    BY <1>1, HeadJoins
  <1>3. TypeOK'
    <2>1. subs' \in Seq(joins')
      BY <1>1, <1>2 DEF TypeOK
    <2>2. waitFor' \in [Client -> SUBSET (Client \X (0..Waits))]
      BY <1>1 DEF TypeOK
    <2> QED
      BY <1>1, <2>1, <2>2 DEF TypeOK
  <1>4. QueueInv'
    BY <1>1, TimerFacts DEF TypeOK, QueueInv, InInsert, InRemove, Cur
  <1>5. DistinctInv'
    BY <1>1, TimerFacts DEF TypeOK, DistinctInv, QueueInv, InInsert, InRemove, Cur
  <1>6. (FreshInv /\ WaitInv /\ PendingInv /\ SubsInv)'
    <2>1. FreshInv'
      BY <1>1, <1>2, TimerFacts DEF TypeOK, FreshInv, Begun, Owner
    <2>2. WaitInv'
      BY <1>1, <1>2, TimerFacts DEF TypeOK, WaitInv, Resource, TimerId, Itself, Owner, Cur
    <2>3. PendingInv'
      BY <1>1, <1>2, TimerFacts DEF TypeOK, PendingInv, WaitInv, Pending, Resource, TimerId,
         Itself, Owner, Cur
    <2>4. SubsInv'
      BY <1>1, <1>2, TimerFacts DEF TypeOK, SubsInv
    <2> QED
      BY <2>1, <2>2, <2>3, <2>4
  <1>7. FireInv'
    BY <1>1, TimerFacts DEF TypeOK, FireInv, Begun, Owner
  <1> QED
    BY <1>3, <1>4, <1>5, <1>6, <1>7 DEF TimerInv

(* The timer does not run, so it is not in the queue. *)
LEMMA UserStartInv ==
    ASSUME TimerInv, UserStart
    PROVE  TimerInv'
  <1> USE DEF UserStart, UserStep, FromNow, Instants, timerVars, waitVars, userVars
  <1>1. TypeOK /\ QueueInv /\ DistinctInv /\ FreshInv /\ WaitInv /\ PendingInv /\ SubsInv /\ FireInv
    BY DEF TimerInv
  <1>2. UserTimer \notin queue
    <2>1. ~InRemove(UserTimer)
      BY <1>1, HeadJoins DEF InRemove
    <2> QED
      BY <1>1, <2>1, TimerFacts DEF QueueInv
  <1>3. TypeOK'
    <2>1. expire' \in [Timer -> 0..MaxTime + 1]
      BY <1>1, TimerFacts DEF TypeOK
    <2>2. running' \subseteq Timer
      BY <1>1, TimerFacts DEF TypeOK
    <2>3. starts' \in 0..Starts
      BY <1>1 DEF TypeOK
    <2> QED
      BY <1>1, <2>1, <2>2, <2>3 DEF TypeOK
  <1>4. QueueInv'
    <2>1. /\ userAt = "out" /\ userAt' = "insert" /\ running' = running \cup {UserTimer}
          /\ UNCHANGED <<pc, count, endAt, subs, queue>>
      OBVIOUS
    <2>2. /\ \A t : InInsert(t)' <=> InInsert(t) \/ t = UserTimer
          /\ \A t : InRemove(t)' <=> InRemove(t)
      BY <2>1 DEF InInsert, InRemove, Cur
    <2>3. ~InRemove(UserTimer)
      BY <1>1, <2>1, HeadJoins DEF InRemove
    <2> QED
      BY <1>1, <1>2, <2>1, <2>2, <2>3 DEF QueueInv
  <1>5. DistinctInv'
    <2> SUFFICES ASSUME ~Coincide PROVE DistinctInv'
      BY DEF DistinctInv
    <2>1. /\ userAt = "out" /\ userAt' = "insert" /\ running' = running \cup {UserTimer}
          /\ UNCHANGED <<pc, count, endAt, subs, queue>>
      OBVIOUS
    <2>2. /\ InInsert(UserTimer)'
          /\ \A t : InInsert(t) => InInsert(t)'
          /\ \A t : InRemove(t)' => InRemove(t)
      BY <2>1 DEF InInsert, InRemove, Cur
    <2>3. /\ \A t \in Timer \ {UserTimer} : expire'[t] = expire[t]
          /\ \A t \in running : expire'[UserTimer] # expire[t]
      BY <1>1, TimerFacts DEF TypeOK
    <2>4. (\A t \in running \ queue : InInsert(t))'
      BY <1>1, <2>1, <2>2 DEF DistinctInv
    <2>5. (\A t \in Timer : InRemove(t) => t \in queue)'
      BY <1>1, <2>1, <2>2 DEF DistinctInv
    <2>6. \A t, u \in running \cup {UserTimer} : expire'[t] = expire'[u] => t = u
      BY <1>1, <2>3 DEF DistinctInv, TypeOK
    <2>7. \A t, u \in queue : expire'[t] = expire'[u] => t = u
      BY <1>1, <1>2, <2>3 DEF DistinctInv, TypeOK
    <2> QED
      BY <2>1, <2>4, <2>5, <2>6, <2>7 DEF DistinctInv
  <1>6. (FreshInv /\ WaitInv /\ PendingInv /\ SubsInv)'
    <2>1. FreshInv'
      BY <1>1, TimerFacts DEF TypeOK, FreshInv, Begun, Owner
    <2>2. WaitInv'
      BY <1>1, TimerFacts DEF TypeOK, WaitInv, Resource, TimerId, Itself, Owner, Cur
    <2>3. PendingInv'
      BY <1>1, TimerFacts DEF TypeOK, PendingInv, WaitInv, Pending, Resource, TimerId, Itself,
         Owner, Cur
    <2>4. SubsInv'
      BY <1>1, TimerFacts DEF TypeOK, SubsInv
    <2> QED
      BY <2>1, <2>2, <2>3, <2>4
  <1>7. FireInv'
    BY <1>1, TimerFacts DEF TypeOK, FireInv, Begun, Owner
  <1> QED
    BY <1>3, <1>4, <1>5, <1>6, <1>7 DEF TimerInv

(* As Insert. *)
LEMMA UserInsertInv ==
    ASSUME TimerInv, UserInsert
    PROVE  TimerInv'
  <1> USE DEF UserInsert, UserStep, InsertTimer, Notified, Same, timerVars, waitVars, userVars
  <1>1. TypeOK /\ QueueInv /\ DistinctInv /\ FreshInv /\ WaitInv /\ PendingInv /\ SubsInv /\ FireInv
    BY DEF TimerInv
  <1>2. InInsert(UserTimer) /\ UserTimer \in running \ queue
    BY <1>1, TimerFacts DEF QueueInv, InInsert
  <1>3. \A u \in queue : u \in running
    BY <1>1, <1>2, UserAlone DEF QueueInv
  <1>4. Coincide \/ Same(UserTimer) = {}
    BY <1>1, <1>2, <1>3 DEF DistinctInv
  <1>5. /\ queue' \subseteq queue \cup {UserTimer} /\ queue \subseteq queue'
        /\ Coincide \/ queue' = queue \cup {UserTimer}
    BY <1>4
  <1>6. /\ userAt = "insert" /\ userAt' = "out"
        /\ UNCHANGED <<pc, count, endAt, subs, running, expire>>
    OBVIOUS
  <1>7. /\ \A t : InInsert(t)' <=> InInsert(t) /\ t # UserTimer
        /\ \A t : InRemove(t)' <=> InRemove(t)
    BY <1>6, CurFacts DEF InInsert, InRemove, Cur
  <1>8. TypeOK'
    BY <1>1, TimerFacts DEF TypeOK
  <1>9. QueueInv'
    <2>1. \A t \in Timer : InInsert(t)' => t \in running' \ queue'
      BY <1>1, <1>5, <1>6, <1>7 DEF QueueInv
    <2>2. \A t \in Timer : InRemove(t)' => t \notin running'
      BY <1>1, <1>6, <1>7 DEF QueueInv
    <2>3. \A t \in queue' \ running' : InRemove(t)'
      BY <1>2, <1>3, <1>5, <1>6
    <2> QED
      BY <2>1, <2>2, <2>3 DEF QueueInv
  <1>10. DistinctInv'
    <2> SUFFICES ASSUME ~Coincide PROVE DistinctInv'
      BY DEF DistinctInv
    <2>1. \A t \in running' \ queue' : InInsert(t)'
      BY <1>1, <1>5, <1>6, <1>7 DEF DistinctInv
    <2>2. \A t \in Timer : InRemove(t)' => t \in queue'
      BY <1>1, <1>5, <1>7 DEF DistinctInv
    <2>3. queue' \subseteq running
      BY <1>2, <1>3, <1>5
    <2>4. \A t, u \in running' : expire'[t] = expire'[u] => t = u
      BY <1>1, <1>6 DEF DistinctInv
    <2> QED
      BY <1>6, <2>1, <2>2, <2>3, <2>4 DEF DistinctInv
  <1>11. (FreshInv /\ WaitInv /\ PendingInv /\ SubsInv)'
    BY <1>1, TimerFacts DEF TypeOK, FreshInv, WaitInv, PendingInv, SubsInv, Begun, Pending,
       Resource, TimerId, Itself, Owner, Cur
  <1>12. FireInv'
    BY <1>1, TimerFacts DEF TypeOK, FireInv, Begun, Owner
  <1> QED
    BY <1>8, <1>9, <1>10, <1>11, <1>12 DEF TimerInv

(* The timer runs and is not being started, so it is in the queue. *)
LEMMA UserStopInv ==
    ASSUME TimerInv, UserStop
    PROVE  TimerInv'
  <1> USE DEF UserStop, UserStep, timerVars, waitVars, userVars
  <1>1. TypeOK /\ QueueInv /\ DistinctInv /\ FreshInv /\ WaitInv /\ PendingInv /\ SubsInv /\ FireInv
    BY DEF TimerInv
  <1>2. /\ userAt = "out" /\ userAt' = "remove" /\ UserTimer \in running
        /\ running' = running \ {UserTimer}
        /\ UNCHANGED <<pc, count, endAt, subs, queue, expire>>
    OBVIOUS
  <1>3. ~InInsert(UserTimer)
    BY <1>2, CurFacts DEF InInsert
  <1>4. /\ \A t : InInsert(t)' <=> InInsert(t)
        /\ \A t : InRemove(t)' <=> InRemove(t) \/ t = UserTimer
    BY <1>2 DEF InInsert, InRemove, Cur
  <1>5. TypeOK'
    BY <1>1, TimerFacts DEF TypeOK
  <1>6. QueueInv'
    BY <1>1, <1>2, <1>3, <1>4, TimerFacts DEF QueueInv
  <1>7. DistinctInv'
    BY <1>1, <1>2, <1>3, <1>4 DEF DistinctInv
  <1>8. (FreshInv /\ WaitInv /\ PendingInv /\ SubsInv)'
    BY <1>1, TimerFacts DEF TypeOK, FreshInv, WaitInv, PendingInv, SubsInv, Begun, Pending,
       Resource, TimerId, Itself, Owner, Cur
  <1>9. FireInv'
    BY <1>1, TimerFacts DEF TypeOK, FireInv, Begun, Owner
  <1> QED
    BY <1>5, <1>6, <1>7, <1>8, <1>9 DEF TimerInv

(* As EndRemove. *)
LEMMA UserRemoveInv ==
    ASSUME TimerInv, UserRemove
    PROVE  TimerInv'
  <1> USE DEF UserRemove, UserStep, RemoveTimer, Same, Notified, timerVars, waitVars, userVars
  <1>1. TypeOK /\ QueueInv /\ DistinctInv /\ FreshInv /\ WaitInv /\ PendingInv /\ SubsInv /\ FireInv
    BY DEF TimerInv
  <1>2. /\ userAt = "remove" /\ userAt' = "out" /\ queue' = queue \ Same(UserTimer)
        /\ UNCHANGED <<pc, count, endAt, subs, running, expire>>
    OBVIOUS
  <1>3. InRemove(UserTimer) /\ UserTimer \notin running
    BY <1>1, <1>2, TimerFacts DEF QueueInv, InRemove
  <1>4. Coincide \/ queue' = queue \ {UserTimer}
    BY <1>1, <1>2, <1>3, TimerFacts DEF DistinctInv
  <1>5. /\ \A t : InInsert(t)' = InInsert(t)
        /\ \A t : InRemove(t)' => InRemove(t)
        /\ ~InRemove(UserTimer)'
    <2>1. endAt = "remove" => Head(subs) # UserTimer
      BY <1>1, HeadJoins
    <2> QED
      BY <1>2, <2>1 DEF InInsert, InRemove, Cur
  <1>6. TypeOK'
    BY <1>1, TimerFacts DEF TypeOK
  <1>7. QueueInv'
    BY <1>1, TimerFacts DEF TypeOK, QueueInv, InInsert, InRemove, Cur
  <1>8. DistinctInv'
    BY <1>1, <1>2, <1>3, <1>4, <1>5 DEF DistinctInv
  <1>9. (FreshInv /\ WaitInv /\ PendingInv /\ SubsInv)'
    BY <1>1, TimerFacts DEF TypeOK, FreshInv, WaitInv, PendingInv, SubsInv, Begun, Pending,
       Resource, TimerId, Itself, Owner, Cur
  <1>10. FireInv'
    BY <1>1, TimerFacts DEF TypeOK, FireInv, Begun, Owner
  <1> QED
    BY <1>6, <1>7, <1>8, <1>9, <1>10 DEF TimerInv

(* Only the time changes. *)
LEMMA TickInv ==
    ASSUME TimerInv, Tick
    PROVE  TimerInv'
  <1> USE DEF Tick, timerVars, waitVars, userVars
  <1>1. TypeOK /\ QueueInv /\ DistinctInv /\ FreshInv /\ WaitInv /\ PendingInv /\ SubsInv /\ FireInv
    BY DEF TimerInv
  <1>2. TypeOK'
    <2>1. now' \in 0..MaxTime
      BY <1>1 DEF TypeOK
    <2> QED
      BY <1>1, <2>1 DEF TypeOK
  <1>3. QueueInv'
    BY <1>1, TimerFacts DEF TypeOK, QueueInv, InInsert, InRemove, Cur
  <1>4. DistinctInv'
    BY <1>1, TimerFacts DEF TypeOK, DistinctInv, QueueInv, InInsert, InRemove, Cur
  <1>5. (FreshInv /\ WaitInv /\ PendingInv /\ SubsInv)'
    BY <1>1, TimerFacts DEF TypeOK, FreshInv, WaitInv, PendingInv, SubsInv, Begun, Pending,
       Resource, TimerId, Itself, Owner, Cur
  <1>6. FireInv'
    BY <1>1, TimerFacts DEF TypeOK, FireInv, Begun, Owner
  <1> QED
    BY <1>2, <1>3, <1>4, <1>5, <1>6 DEF TimerInv

LEMMA StutterTimerInv ==
    ASSUME TimerInv, UNCHANGED vars
    PROVE  TimerInv'
  <1> USE DEF vars, timerVars, waitVars, userVars
  <1>1. TypeOK'
    BY DEF TimerInv, TypeOK
  <1>2. QueueInv' /\ DistinctInv'
    BY DEF TimerInv, QueueInv, DistinctInv, InInsert, InRemove, Cur
  <1>3. FreshInv' /\ WaitInv' /\ SubsInv'
    BY DEF TimerInv, FreshInv, WaitInv, SubsInv, Begun, Resource, TimerId, Itself, Owner, Cur
  <1>4. PendingInv'
    BY DEF TimerInv, PendingInv, Pending, Owner, Cur
  <1>5. FireInv'
    BY DEF TimerInv, FireInv, Begun, Owner
  <1> QED
    BY <1>1, <1>2, <1>3, <1>4, <1>5 DEF TimerInv

(* Every step preserves the invariant. *)
LEMMA NextTimerInv ==
    ASSUME TimerInv, [Next]_vars
    PROVE  TimerInv'
  <1>1. CASE \E c \in Client : SleepUntil(c) \/ WaitCtx(c) \/ Insert(c) \/ Return(c)
    BY <1>1, SleepUntilInv, WaitCtxInv, InsertInv, ReturnInv
  <1>2. CASE TimerRoutine
    BY <1>2, TestCleanUpInv, TestEmptyInv, IdleOverInv, UntilOverInv, UntilNowInv, BreakOffInv,
       NoFrontInv, TakeFrontInv, CreateRunInv, WakeRunEnvInv, StopFrontInv, ResetFrontInv
       DEF TimerRoutine
  <1>3. CASE \E t \in ClientTimer : RunTimer(t)
    BY <1>3, RunBeginInv, RunUnsubInv, RunLeaveInv, RunWakeInv DEF RunTimer
  <1>4. CASE TargetEnds
    BY <1>4, FinishInv, PublishInv, EndStopInv, EndRemoveInv, EndLeaveInv, EndWakeInv
       DEF TargetEnds
  <1>5. CASE UserUses
    BY <1>5, UserStartInv, UserInsertInv, UserStopInv, UserRemoveInv DEF UserUses
  <1>6. CASE SetTimerCleanUp \/ Tick
    BY <1>6, SetTimerCleanUpInv, TickInv
  <1>7. CASE UNCHANGED vars
    BY <1>7, StutterTimerInv
  <1> QED
    BY <1>1, <1>2, <1>3, <1>4, <1>5, <1>6, <1>7 DEF Next

-----------------------------------------------------------------------------
(* The theorems *)

(* The invariant of the timers: what the queue, status__ and the waits have *)
(* to do with each other in every state, whoever has got how far            *)
(* (co_timer.cpp:47-81, co_manager.cpp:349-395, co_env.cpp:117-147).        *)
THEOREM TimerInvariance == SafeSpec => []TimerInv
  <1>1. Init => TimerInv
    BY InitTimerInv
  <1>2. TimerInv /\ [Next]_vars => TimerInv'
    BY NextTimerInv
  <1> QED
    BY <1>1, <1>2, PTL DEF SafeSpec

(* A timer that is started, stopped, expired or reset by several threads is *)
(* neither lost nor left in the queue, if no two timers expire at the same  *)
(* instant (co_timer.cpp:47-69, co_manager.cpp:397-434).                    *)
THEOREM TimerQueue ==
    ASSUME Coincide = FALSE
    PROVE  SafeSpec => []QueueHoldsRunning
  <1>1. TimerInv => QueueHoldsRunning
    <2> SUFFICES ASSUME TimerInv, NEW t \in Timer, Settled(t)
                 PROVE  t \in running <=> t \in queue
      BY DEF QueueHoldsRunning
    <2>1. ~InInsert(t) /\ ~InRemove(t)
      <3>1. \A c \in Client : <<"client", c>> # <<"run", t>>
        OBVIOUS
      <3>2. <<"target">> # <<"run", t>> /\ <<"user">> # <<"run", t>>
        OBVIOUS
      <3> QED
        BY <3>1, <3>2, MutexHeld DEF Settled, InInsert, InRemove
    <2> QED
      BY <2>1 DEF TimerInv, QueueInv, DistinctInv, TypeOK
  <1> QED
    BY <1>1, TimerInvariance, PTL

(* What the mutexes alone do not give: a wait that ends has a reason of its *)
(* own.  Only the coroutine of an expired timer and the end of the target   *)
(* take away what a coroutine waits for, and the timer is that of its last  *)
(* wait (co_env.cpp:123-147, co_ctx.cpp:192-204).                           *)
THEOREM TimerWaitsEndInTime == SafeSpec => WaitsEndInTime
  <1>1. ASSUME TimerInv, [Next]_vars PROVE [EndInTime]_vars
    <2> SUFFICES ASSUME Next PROVE EndInTime
      BY <1>1
    <2>0. TypeOK /\ WaitInv /\ PendingInv /\ FireInv /\ SubsInv
      BY <1>1 DEF TimerInv
    <2> SUFFICES ASSUME NEW c \in Client, waitFor[c] # {}, waitFor'[c] = {}
                 PROVE  now >= expire[Cur(c)] \/ (Cur(c) \in joins /\ endAt # "running")
      BY DEF EndInTime
    <2>1. waitFor[c] = {Resource(Cur(c))}
      BY <2>0 DEF WaitInv
    <2>2. \/ \E t \in ClientTimer : RunLeave(t)
          \/ EndLeave
      <3>1. waitFor' # waitFor
        OBVIOUS
      <3>2. \A d \in Client : SleepUntil(d) => waitFor[c] \subseteq waitFor'[c]
        BY <2>0 DEF SleepUntil, TypeOK
      <3>3. \A d \in Client : WaitCtx(d) => waitFor[c] \subseteq waitFor'[c]
        BY <2>0 DEF WaitCtx, TypeOK
      <3>4. ~TimerRoutine
        BY <3>1 DEF TimerRoutine, Thread, TestCleanUp, TestEmpty, IdleOver, UntilOver, UntilNow,
           BreakOff, NoFront, TakeFront, CreateRun, WakeRunEnv, StopFront, ResetFront, waitVars
      <3>5. ~UserUses
        BY <3>1 DEF UserUses, UserStart, UserInsert, UserStop, UserRemove, UserStep, waitVars
      <3>6. \A d \in Client : ~Insert(d) /\ ~Return(d)
        BY <3>1 DEF Insert, Return, waitVars
      <3>7. ~SetTimerCleanUp /\ ~Tick
        BY <3>1 DEF SetTimerCleanUp, Tick, waitVars
      <3>8. \A t \in ClientTimer : ~RunBegin(t) /\ ~RunUnsub(t) /\ ~RunWake(t)
        BY <3>1 DEF RunBegin, RunUnsub, RunWake
      <3>9. ~Finish /\ ~Publish /\ ~EndStop /\ ~EndRemove /\ ~EndWake
        BY <3>1 DEF Finish, Publish, EndStop, EndRemove, EndWake
      <3> QED
        BY <3>2, <3>3, <3>4, <3>5, <3>6, <3>7, <3>8, <3>9 DEF Next, RunTimer, TargetEnds
    <2>3. CASE \E t \in ClientTimer : RunLeave(t)
      <3>1. PICK t \in ClientTimer : RunLeave(t)
        BY <2>3
      <3>2. /\ runAt[t] = "leave" /\ now >= expire[t] /\ Owner(t) \in Client
        BY <2>0, <3>1, TimerFacts DEF RunLeave, Run, FireInv, Owner
      <3>3. Owner(t) = c /\ Resource(t) = Resource(Cur(c))
        BY <2>0, <2>1, <3>1, <3>2 DEF RunLeave, LeaveWait, TypeOK
      <3>4. Cur(c) = t
        <4>1. CASE t \in joins
          BY <2>0, <3>1, <3>3, <4>1, TimerFacts DEF Resource, TimerId, Itself, Cur, Owner
        <4>2. CASE t \notin joins
          BY <2>0, <3>1, <3>2, <3>3, <4>2 DEF PendingInv, Pending
        <4> QED
          BY <4>1, <4>2
      <3> QED
        BY <3>2, <3>4
    <2>4. CASE EndLeave
      <3> DEFINE t == Head(subs)
      <3>1. endAt = "leave" /\ waitFor' = [waitFor EXCEPT ![Owner(t)] = @ \ {Resource(t)}]
        BY <2>4 DEF EndLeave, Target, LeaveWait
      <3>2. t \in joins /\ t \in ClientTimer /\ Owner(t) \in Client
        BY <2>0, <3>1, HeadJoins, TimerFacts DEF Owner
      <3>3. Owner(t) = c /\ Resource(t) = Resource(Cur(c))
        BY <2>0, <2>1, <3>1, <3>2 DEF TypeOK
      <3>4. Cur(c) = t
        BY <3>2, <3>3, TimerFacts DEF Resource, TimerId, Itself, Cur, Owner
      <3> QED
        BY <3>1, <3>2, <3>4
    <2> QED
      BY <2>2, <2>3, <2>4
  <1>2. TimerInv /\ [Next]_vars => [EndInTime]_vars
    BY <1>1
  <1> QED
    BY <1>2, TimerInvariance, PTL DEF SafeSpec, WaitsEndInTime

(* One start, one expiry: the timer thread never makes a second coroutine   *)
(* for a timer that fires once (co_manager.cpp:363-391).                    *)
THEOREM TimerFiresOnce == SafeSpec => FiresOnce
  <1>1. ASSUME TimerInv, [Next]_vars PROVE [FireOnce]_vars
    <2> SUFFICES ASSUME Next, NEW t \in ClientTimer, runAt[t] # "none", runAt'[t] = "created",
                        runAt[t] # "created"
                 PROVE  FALSE
      BY <1>1 DEF FireOnce
    <2>0. TypeOK /\ FireInv
      BY <1>1 DEF TimerInv
    <2>1. runAt' # runAt
      OBVIOUS
    <2>2. ~CreateRun
      BY <2>0, <2>1 DEF CreateRun, Thread, FireInv, TypeOK
    <2>3. ~TimerRoutine
      BY <2>1, <2>2 DEF TimerRoutine, KeepsTimers, TestCleanUp, TestEmpty, IdleOver, UntilOver,
         UntilNow, BreakOff, NoFront, TakeFront, WakeRunEnv, StopFront, ResetFront
    <2>4. ~UserUses
      BY <2>1 DEF UserUses, UserStart, UserInsert, UserStop, UserRemove, UserStep
    <2>5. \A c \in Client : ~SleepUntil(c) /\ ~WaitCtx(c) /\ ~Insert(c) /\ ~Return(c)
      BY <2>1 DEF SleepUntil, WaitCtx, Begin, Insert, Return
    <2>6. ~SetTimerCleanUp /\ ~Tick /\ ~TargetEnds
      BY <2>1 DEF SetTimerCleanUp, Tick, TargetEnds, Finish, Publish, EndStop, EndRemove, EndLeave,
         EndWake, Target
    <2>7. \A u \in ClientTimer : ~RunTimer(u)
      BY <2>0 DEF RunTimer, RunBegin, RunUnsub, RunLeave, RunWake, Run, TypeOK
    <2> QED
      BY <2>3, <2>4, <2>5, <2>6, <2>7 DEF Next
  <1>2. TimerInv /\ [Next]_vars => [FireOnce]_vars
    BY <1>1
  <1> QED
    BY <1>2, TimerInvariance, PTL DEF SafeSpec, FiresOnce
=============================================================================
