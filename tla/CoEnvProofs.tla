----------------------------- MODULE CoEnvProofs -----------------------------
(***************************************************************************)
(* Proofs about co_env (CoEnv): the lists, the sleep of the thread and the  *)
(* joins are right in every reachable state, and who is switched to has the *)
(* highest priority, for every set of coroutines and of priorities.         *)
(*                                                                         *)
(* EnvInv is inductive.  The lemmas about the lists come first, then one    *)
(* per action of Next, conjunct by conjunct, then the theorems.             *)
(***************************************************************************)
EXTENDS CoEnv, QueueLemmas, FiniteSetTheorems

USE EnvAssumption

-----------------------------------------------------------------------------
(* The lists *)

(* A coroutine that lives moves to the end of the list of its new priority. *)
LEMMA MoveLists ==
    ASSUME TypeOK, ListsInv, NEW c \in Ctx, NEW p \in Pri, Live(c), MoveToPriority(c, p),
           UNCHANGED status
    PROVE  /\ list' \in [Pri -> Seq(Ctx)] /\ prio' \in [Ctx -> Pri] /\ minPri' \in Pri
           /\ ListsInv'
           /\ minPri' <= minPri
           /\ prio'[c] = p
           /\ p = prio[c] \/ minPri' <= p
           /\ \A d \in Ctx \ {c} : prio'[d] = prio[d]
  <1> USE DEF TypeOK, MoveToPriority
  <1>1. /\ prio' \in [Ctx -> Pri] /\ prio'[c] = p /\ \A d \in Ctx \ {c} : prio'[d] = prio[d]
        /\ minPri' \in Pri /\ minPri' <= minPri /\ (p = prio[c] \/ minPri' <= p)
    BY DEF LowerMin
  <1>2. CASE p = prio[c]
    BY <1>1, <1>2 DEF ListsInv, Live
  <1>3. CASE p # prio[c]
    <2> DEFINE Rest == Only(list[prio[c]], Ctx \ {c})
               More == Append(list[p], c)
    <2>1. /\ Rest \in Seq(Ctx)
          /\ \A d \in Ctx : Contains(Rest, d) <=> Contains(list[prio[c]], d) /\ d # c
          /\ IsInjective(Rest)
      <3>1. list[prio[c]] \in Seq(Ctx) /\ IsInjective(list[prio[c]])
        BY DEF ListsInv
      <3> QED
        BY <3>1, OnlyMembers
    <2>2. ~Contains(list[p], c)
      BY <1>3 DEF ListsInv
    <2>3. /\ More \in Seq(Ctx)
          /\ \A d \in Ctx : Contains(More, d) <=> Contains(list[p], d) \/ d = c
          /\ IsInjective(More)
      BY <2>2, ContainsAppend, InjectiveAppend DEF ListsInv
    <2>4. list' = [list EXCEPT ![prio[c]] = Rest, ![p] = More]
      BY <1>3
    <2> HIDE DEF Rest, More
    <2>5. /\ list' \in [Pri -> Seq(Ctx)] /\ list'[prio[c]] = Rest /\ list'[p] = More
          /\ \A q \in Pri \ {p, prio[c]} : list'[q] = list[q]
      BY <1>3, <2>1, <2>3, <2>4
    <2>6. \A q \in Pri : IsInjective(list'[q])
      BY <2>1, <2>3, <2>5 DEF ListsInv
    <2>7. \A d \in Ctx, q \in Pri : Contains(list'[q], d) <=> Live(d) /\ q = prio'[d]
      <3> SUFFICES ASSUME NEW d \in Ctx, NEW q \in Pri
                   PROVE  Contains(list'[q], d) <=> Live(d) /\ q = prio'[d]
        OBVIOUS
      <3>1. \A r \in Pri : Contains(list[r], d) <=> Live(d) /\ r = prio[d]
        BY DEF ListsInv
      <3>2. p \in Pri /\ prio[c] \in Pri /\ Live(c)
        OBVIOUS
      <3>3. CASE q = p
        BY <1>1, <1>3, <2>3, <2>5, <3>1, <3>2, <3>3
      <3>4. CASE q = prio[c]
        BY <1>1, <1>3, <2>1, <2>5, <3>1, <3>2, <3>4
      <3>5. CASE q # p /\ q # prio[c]
        BY <1>1, <2>5, <3>1, <3>5
      <3> QED
        BY <3>3, <3>4, <3>5
    <2> QED
      BY <1>1, <2>5, <2>6, <2>7 DEF ListsInv, Live
  <1> QED
    BY <1>2, <1>3

(* The sweep leaves who lives and is not detached. *)
LEMMA SweptLists ==
    ASSUME TypeOK, ListsInv
    PROVE  /\ Swept \in [Pri -> Seq(Ctx)]
           /\ \A p \in Pri : IsInjective(Swept[p])
           /\ \A c \in Ctx, p \in Pri :
                Contains(Swept[p], c) <=> Live(c) /\ p = prio[c] /\ c \notin Detached
  <1>1. \A p \in Pri : /\ Swept[p] \in Seq(Ctx)
                       /\ IsInjective(Swept[p])
                       /\ \A c \in Ctx : Contains(Swept[p], c)
                                           <=> Contains(list[p], c) /\ c \notin Detached
    <2> TAKE p \in Pri
    <2>1. list[p] \in Seq(Ctx) /\ IsInjective(list[p])
      BY DEF TypeOK, ListsInv
    <2>2. Swept[p] = Only(list[p], Ctx \ Detached)
      BY DEF Swept
    <2> QED
      BY <2>1, <2>2, OnlyMembers
  <1> QED
    BY <1>1 DEF Swept, ListsInv

(* The search from min_priority__ on finds who has the highest priority.    *)
LEMMA FirstIsHighest ==
    ASSUME TypeOK, ListsInv, MinInv, NEW c \in Ctx, NEW p \in Pri, IsFirst(c, p)
    PROVE  /\ prio[c] = p /\ CanRun(c)
           /\ \A d \in Ctx : CanRun(d) /\ ~Unannounced(d) => prio[d] >= p
  <1>1. Contains(Swept[p], c) /\ CanRun(c)
    BY DEF IsFirst, Contains
  <1>2. prio[c] = p
    BY <1>1, SweptLists
  <1>3. ASSUME NEW d \in Ctx, CanRun(d), ~Unannounced(d)
        PROVE  prio[d] >= p
    <2>1. Contains(Swept[prio[d]], d)
      BY <1>3, SweptLists DEF TypeOK, CanRun, Live, Detached
    <2>2. d \in ToSet(Swept[prio[d]])
      BY <2>1, SweptLists DEF Contains, ToSet, TypeOK
    <2>3. prio[d] >= minPri
      BY <1>3 DEF MinInv
    <2>4. prio[d] \in Pri /\ p \in Nat /\ prio[d] \in Nat
      BY DEF TypeOK
    <2>5. prio[d] < p => ~CanRun(d)
      BY <2>2, <2>3, <2>4 DEF IsFirst
    <2> QED
      BY <1>3, <2>4, <2>5
  <1> QED
    BY <1>1, <1>2, <1>3

(* Who can run although the search finds nobody has not been announced yet. *)
LEMMA NobodyToRun ==
    ASSUME TypeOK, ListsInv, MinInv, Candidates(list) = {}, NEW c \in Ctx, CanRun(c)
    PROVE  Unannounced(c)
  BY DEF TypeOK, ListsInv, MinInv, Candidates, CanRun, Live

-----------------------------------------------------------------------------
(* The actions *)

LEMMA InitEnvInv == Init => EnvInv
  <1> SUFFICES ASSUME Init PROVE EnvInv
    OBVIOUS
  <1>1. TypeOK
    BY DEF Init, TypeOK
  <1>2. ListsInv
    BY DEF Init, ListsInv, Live, IsInjective, Contains
  <1>3. MinInv /\ NewInv /\ ThreadInv /\ JoinsInv /\ NoMissedWakeup
    BY DEF Init, MinInv, CanRun, NewInv, ThreadInv, JoinsInv, NoMissedWakeup
  <1> QED
    BY <1>1, <1>2, <1>3 DEF EnvInv

(* Only where the thread is changes. *)
LEMMA YieldInv ==
    ASSUME EnvInv, NEW c \in Ctx, Yield(c)
    PROVE  EnvInv'
  <1> USE DEF Yield
  <1>1. TypeOK /\ ListsInv /\ MinInv /\ NewInv /\ ThreadInv /\ JoinsInv /\ NoMissedWakeup
    BY DEF EnvInv
  <1>2. TypeOK'
    BY <1>1 DEF TypeOK, Stages
  <1>3. ListsInv'
    BY <1>1 DEF TypeOK, ListsInv, Live
  <1>4. MinInv'
    BY <1>1 DEF TypeOK, MinInv, CanRun, Unannounced
  <1>5. NewInv'
    BY <1>1 DEF TypeOK, NewInv, Adding
  <1>6. ThreadInv'
    BY <1>1 DEF TypeOK, ThreadInv
  <1>7. JoinsInv'
    BY <1>1 DEF TypeOK, JoinsInv, ThreadInv
  <1>8. NoMissedWakeup'
    BY <1>1 DEF TypeOK, NoMissedWakeup, CanRun, Adding, Waking
  <1> QED
    BY <1>2, <1>3, <1>4, <1>5, <1>6, <1>7, <1>8 DEF EnvInv

(* One less can run. *)
LEMMA EnterWaitInv ==
    ASSUME EnvInv, NEW c \in Ctx, EnterWait(c)
    PROVE  EnvInv'
  <1> USE DEF EnterWait, Runs
  <1>1. TypeOK /\ ListsInv /\ MinInv /\ NewInv /\ ThreadInv /\ JoinsInv /\ NoMissedWakeup
    BY DEF EnvInv
  <1>2. TypeOK'
    BY <1>1 DEF TypeOK, Stages
  <1>3. ListsInv'
    BY <1>1 DEF TypeOK, ListsInv, Live
  <1>4. MinInv'
    BY <1>1 DEF TypeOK, MinInv, CanRun, Unannounced
  <1>5. NewInv'
    BY <1>1 DEF TypeOK, NewInv, Adding
  <1>6. ThreadInv'
    BY <1>1 DEF TypeOK, ThreadInv
  <1>7. JoinsInv'
    BY <1>1 DEF TypeOK, JoinsInv, ThreadInv
  <1>8. NoMissedWakeup'
    BY <1>1 DEF TypeOK, NoMissedWakeup, CanRun, Adding, Waking
  <1> QED
    BY <1>2, <1>3, <1>4, <1>5, <1>6, <1>7, <1>8 DEF EnvInv

(* The handle of the target is in use, so the target exists, finished or not. *)
LEMMA JoinInv ==
    ASSUME EnvInv, NEW c \in Ctx, NEW t \in Ctx, Join(c, t)
    PROVE  EnvInv'
  <1> USE DEF Join, Runs, Held
  <1>1. TypeOK /\ ListsInv /\ MinInv /\ NewInv /\ ThreadInv /\ JoinsInv /\ NoMissedWakeup
    BY DEF EnvInv
  <1>2. /\ list' \in [Pri -> Seq(Ctx)] /\ prio' \in [Ctx -> Pri] /\ minPri' \in Pri
        /\ ListsInv'
        /\ minPri' <= minPri
        /\ prio'[c] = prio[t]
        /\ prio[t] = prio[c] \/ minPri' <= prio[t]
        /\ \A d \in Ctx \ {c} : prio'[d] = prio[d]
    <2>1. Live(c) /\ prio[t] \in Pri
      BY <1>1 DEF TypeOK, ThreadInv, Live
    <2> QED
      BY <1>1, <2>1, MoveLists
  <1>3. TypeOK'
    BY <1>1, <1>2 DEF TypeOK
  <1>4. ListsInv'
    BY <1>1, <1>2 DEF ListsInv
  <1>5. MinInv'
    <2> SUFFICES ASSUME NEW d \in Ctx, CanRun(d)', ~Unannounced(d)'
                 PROVE  prio'[d] >= minPri'
      BY DEF MinInv
    <2>1. minPri \in Nat /\ minPri' \in Nat /\ prio[d] \in Nat /\ prio'[d] \in Nat
      BY <1>1, <1>2 DEF TypeOK
    <2>2. prio[d] >= minPri
      BY <1>1 DEF MinInv, CanRun, Unannounced
    <2>3. CASE d = c
      BY <1>2, <2>1, <2>2, <2>3
    <2>4. CASE d # c
      <3>1. prio'[d] = prio[d] /\ minPri' <= minPri
        BY <1>2, <2>4
      <3> QED
        BY <2>1, <2>2, <3>1
    <2> QED
      BY <2>3, <2>4
  <1>6. NewInv'
    BY <1>1 DEF TypeOK, NewInv, Adding
  <1>7. ThreadInv'
    BY <1>1 DEF TypeOK, ThreadInv
  <1>8. JoinsInv'
    BY <1>1 DEF TypeOK, JoinsInv, ThreadInv
  <1>9. NoMissedWakeup'
    BY <1>1 DEF TypeOK, NoMissedWakeup, CanRun, Adding, Waking
  <1> QED
    BY <1>3, <1>4, <1>5, <1>6, <1>7, <1>8, <1>9 DEF EnvInv

(* A handle is let go of only by the last who waits for its coroutine. *)
LEMMA JoinReturnInv ==
    ASSUME EnvInv, NEW c \in Ctx, JoinReturn(c)
    PROVE  EnvInv'
  <1> USE DEF JoinReturn, Runs
  <1>1. TypeOK /\ ListsInv /\ MinInv /\ NewInv /\ ThreadInv /\ JoinsInv /\ NoMissedWakeup
    BY DEF EnvInv
  <1>2. /\ list' \in [Pri -> Seq(Ctx)] /\ prio' \in [Ctx -> Pri] /\ minPri' \in Pri
        /\ ListsInv'
        /\ minPri' <= minPri
        /\ prio'[c] = oldPri[c]
        /\ oldPri[c] = prio[c] \/ minPri' <= oldPri[c]
        /\ \A d \in Ctx \ {c} : prio'[d] = prio[d]
    <2>1. Live(c) /\ oldPri[c] \in Pri
      BY <1>1 DEF TypeOK, ThreadInv, Live
    <2> QED
      BY <1>1, <2>1, MoveLists
  <1>3. TypeOK'
    BY <1>1, <1>2 DEF TypeOK
  <1>4. ListsInv'
    BY <1>1, <1>2 DEF ListsInv
  <1>5. MinInv'
    <2> SUFFICES ASSUME NEW d \in Ctx, CanRun(d)', ~Unannounced(d)'
                 PROVE  prio'[d] >= minPri'
      BY DEF MinInv
    <2>1. minPri \in Nat /\ minPri' \in Nat /\ prio[d] \in Nat /\ prio'[d] \in Nat
      BY <1>1, <1>2 DEF TypeOK
    <2>2. prio[d] >= minPri
      BY <1>1 DEF MinInv, CanRun, Unannounced
    <2>3. CASE d = c
      BY <1>2, <2>1, <2>2, <2>3
    <2>4. CASE d # c
      <3>1. prio'[d] = prio[d] /\ minPri' <= minPri
        BY <1>2, <2>4
      <3> QED
        BY <2>1, <2>2, <3>1
    <2> QED
      BY <2>3, <2>4
  <1>6. NewInv'
    BY <1>1 DEF TypeOK, NewInv, Adding
  <1>7. ThreadInv'
    BY <1>1 DEF TypeOK, ThreadInv
  <1>8. JoinsInv'
    BY <1>1 DEF TypeOK, JoinsInv, ThreadInv
  <1>9. NoMissedWakeup'
    BY <1>1 DEF TypeOK, NoMissedWakeup, CanRun, Adding, Waking
  <1> QED
    BY <1>3, <1>4, <1>5, <1>6, <1>7, <1>8, <1>9 DEF EnvInv

(* Who has finished stays in its list. *)
LEMMA FinishInv ==
    ASSUME EnvInv, NEW c \in Ctx, Finish(c)
    PROVE  EnvInv'
  <1> USE DEF Finish, Runs
  <1>1. TypeOK /\ ListsInv /\ MinInv /\ NewInv /\ ThreadInv /\ JoinsInv /\ NoMissedWakeup
    BY DEF EnvInv
  <1>2. TypeOK'
    BY <1>1 DEF TypeOK, Stages
  <1>3. ListsInv'
    BY <1>1 DEF TypeOK, ListsInv, Live, ThreadInv
  <1>4. MinInv'
    BY <1>1 DEF TypeOK, MinInv, CanRun, Unannounced
  <1>5. NewInv'
    BY <1>1 DEF TypeOK, NewInv, Adding, ThreadInv, Live
  <1>6. ThreadInv'
    BY <1>1 DEF TypeOK, ThreadInv
  <1>7. JoinsInv'
    BY <1>1 DEF TypeOK, JoinsInv, ThreadInv
  <1>8. NoMissedWakeup'
    BY <1>1 DEF TypeOK, NoMissedWakeup, CanRun, Adding, Waking
  <1> QED
    BY <1>2, <1>3, <1>4, <1>5, <1>6, <1>7, <1>8 DEF EnvInv

(* The waits that end are for a coroutine that has finished. *)
LEMMA PublishInv ==
    ASSUME EnvInv, NEW c \in Ctx, Publish(c)
    PROVE  EnvInv'
  <1> USE DEF Publish, Call
  <1>1. TypeOK /\ ListsInv /\ MinInv /\ NewInv /\ ThreadInv /\ JoinsInv /\ NoMissedWakeup
    BY DEF EnvInv
  <1>2. TypeOK'
    BY <1>1 DEF TypeOK, Stages
  <1>3. ListsInv'
    BY <1>1 DEF TypeOK, ListsInv, Live
  <1>4. MinInv'
    BY <1>1 DEF TypeOK, MinInv, CanRun, Unannounced
  <1>5. NewInv'
    BY <1>1 DEF TypeOK, NewInv, Adding
  <1>6. ThreadInv'
    BY <1>1 DEF TypeOK, ThreadInv
  <1>7. JoinsInv'
    BY <1>1 DEF TypeOK, JoinsInv, ThreadInv
  <1>8. NoMissedWakeup'
    BY <1>1 DEF TypeOK, NoMissedWakeup, CanRun, Adding, Waking
  <1> QED
    BY <1>2, <1>3, <1>4, <1>5, <1>6, <1>7, <1>8 DEF EnvInv

(* Only where the thread is changes. *)
LEMMA LeaveInv ==
    ASSUME EnvInv, NEW c \in Ctx, Leave(c)
    PROVE  EnvInv'
  <1> USE DEF Leave
  <1>1. TypeOK /\ ListsInv /\ MinInv /\ NewInv /\ ThreadInv /\ JoinsInv /\ NoMissedWakeup
    BY DEF EnvInv
  <1>2. TypeOK'
    BY <1>1 DEF TypeOK, Stages
  <1>3. ListsInv'
    BY <1>1 DEF TypeOK, ListsInv, Live
  <1>4. MinInv'
    BY <1>1 DEF TypeOK, MinInv, CanRun, Unannounced
  <1>5. NewInv'
    BY <1>1 DEF TypeOK, NewInv, Adding
  <1>6. ThreadInv'
    BY <1>1 DEF TypeOK, ThreadInv
  <1>7. JoinsInv'
    BY <1>1 DEF TypeOK, JoinsInv, ThreadInv
  <1>8. NoMissedWakeup'
    BY <1>1 DEF TypeOK, NoMissedWakeup, CanRun, Adding, Waking
  <1> QED
    BY <1>2, <1>3, <1>4, <1>5, <1>6, <1>7, <1>8 DEF EnvInv

(* Who is destroyed is swept from the lists; the first that can run shows
where the search may start. *)
LEMMA SwitchToInv ==
    ASSUME EnvInv, NEW c \in Ctx, NEW p \in Pri, SwitchTo(c, p)
    PROVE  EnvInv'
  <1> USE DEF SwitchTo, SetState
  <1>1. TypeOK /\ ListsInv /\ MinInv /\ NewInv /\ ThreadInv /\ JoinsInv /\ NoMissedWakeup
    BY DEF EnvInv
  <1>2. /\ prio[c] = p /\ CanRun(c) /\ c \notin Detached
        /\ \A d \in Ctx : CanRun(d) /\ ~Unannounced(d) => prio[d] >= p
    BY <1>1, FirstIsHighest DEF CanRun, Detached
  <1>3. /\ status' \in [Ctx -> {"absent", "suspended", "running", "finished", "destroyed"}]
        /\ status'[c] = "running"
        /\ \A d \in Ctx \ {c} :
             status'[d] = IF d \in Detached THEN "destroyed"
                          ELSE IF d = on /\ status[d] = "running" THEN "suspended"
                          ELSE status[d]
    BY <1>1 DEF TypeOK, Suspended, SweptStatus, Detached
  <1>4. /\ list' \in [Pri -> Seq(Ctx)]
        /\ \A q \in Pri : IsInjective(list'[q])
        /\ \A d \in Ctx, q \in Pri : Contains(list'[q], d) <=> Contains(Swept[q], d)
    <2> DEFINE Rest == Only(Swept[p], Ctx \ {c})
               More == Append(Rest, c)
    <2>1. /\ Swept \in [Pri -> Seq(Ctx)] /\ \A q \in Pri : IsInjective(Swept[q])
          /\ Contains(Swept[p], c)
      BY <1>1, <1>2, SweptLists DEF CanRun, Live
    <2>2. /\ Rest \in Seq(Ctx) /\ IsInjective(Rest)
          /\ \A d \in Ctx : Contains(Rest, d) <=> Contains(Swept[p], d) /\ d # c
      BY <2>1, OnlyMembers
    <2> HIDE DEF Rest
    <2>3. /\ More \in Seq(Ctx) /\ IsInjective(More)
          /\ \A d \in Ctx : Contains(More, d) <=> Contains(Rest, d) \/ d = c
      BY <2>2, ContainsAppend, InjectiveAppend
    <2>4. list' = [Swept EXCEPT ![p] = More]
      BY DEF Rest
    <2> HIDE DEF More
    <2>5. /\ list' \in [Pri -> Seq(Ctx)] /\ list'[p] = More
          /\ \A q \in Pri \ {p} : list'[q] = Swept[q]
      BY <2>1, <2>3, <2>4
    <2> QED
      BY <2>1, <2>2, <2>3, <2>5
  <1>5. TypeOK'
    BY <1>1, <1>3, <1>4 DEF TypeOK
  <1>6. ListsInv'
    <2>1. \A d \in Ctx : Live(d)' <=> Live(d) /\ d \notin Detached
      BY <1>2, <1>3 DEF Live, CanRun
    <2> QED
      BY <1>1, <1>4, <2>1, SweptLists DEF ListsInv
  <1>7. MinInv'
    <2>1. \A d \in Ctx : CanRun(d)' => CanRun(d)
      BY <1>2, <1>3 DEF CanRun
    <2> QED
      BY <1>2, <2>1 DEF MinInv, Unannounced
  <1>8. NewInv'
    <2>1. \A d \in Ctx : status'[d] = "absent" <=> status[d] = "absent"
      BY <1>2, <1>3 DEF CanRun, Detached
    <2> QED
      BY <1>1, <2>1 DEF TypeOK, NewInv
  <1>9. ThreadInv'
    BY <1>3 DEF ThreadInv
  <1>10. JoinsInv'
    BY <1>1, <1>2, <1>3 DEF TypeOK, JoinsInv, CanRun, Detached
  <1>11. NoMissedWakeup'
    BY <1>1 DEF TypeOK, NoMissedWakeup, CanRun, Adding, Waking
  <1> QED
    BY <1>5, <1>6, <1>7, <1>8, <1>9, <1>10, <1>11 DEF EnvInv

(* As SwitchTo, with nobody chosen. *)
LEMMA SwitchToIdleInv ==
    ASSUME EnvInv, SwitchToIdle
    PROVE  EnvInv'
  <1> USE DEF SwitchToIdle
  <1>1. TypeOK /\ ListsInv /\ MinInv /\ NewInv /\ ThreadInv /\ JoinsInv /\ NoMissedWakeup
    BY DEF EnvInv
  <1>2. TypeOK'
    BY <1>1, SweptLists DEF TypeOK, SweptStatus
  <1>3. ListsInv'
    <2>1. \A d \in Ctx : Live(d)' <=> Live(d) /\ d \notin Detached
      BY DEF Live, SweptStatus, Detached
    <2> QED
      BY <1>1, <2>1, SweptLists DEF ListsInv
  <1>4. MinInv'
    BY <1>1 DEF TypeOK, MinInv, CanRun, Unannounced, SweptStatus
  <1>5. NewInv'
    BY <1>1 DEF TypeOK, NewInv, SweptStatus, Detached
  <1>6. ThreadInv'
    BY <1>1 DEF TypeOK, ThreadInv, SweptStatus, Detached
  <1>7. JoinsInv'
    BY <1>1 DEF TypeOK, JoinsInv, SweptStatus, Detached
  <1>8. NoMissedWakeup'
    BY <1>1 DEF TypeOK, NoMissedWakeup, CanRun, Adding, Waking
  <1> QED
    BY <1>2, <1>3, <1>4, <1>5, <1>6, <1>7, <1>8 DEF EnvInv

(* Asleep only if the search finds nobody: who can run is not announced yet. *)
LEMMA NothingToRunInv ==
    ASSUME EnvInv, NothingToRun
    PROVE  EnvInv'
  <1> USE DEF NothingToRun, Suspended
  <1>1. TypeOK /\ ListsInv /\ MinInv /\ NewInv /\ ThreadInv /\ JoinsInv /\ NoMissedWakeup
    BY DEF EnvInv
  <1>2. TypeOK'
    BY <1>1 DEF TypeOK, Stages
  <1>3. ListsInv'
    BY <1>1 DEF TypeOK, ListsInv, Live
  <1>4. MinInv'
    BY <1>1 DEF TypeOK, MinInv, CanRun, Unannounced
  <1>5. NewInv'
    BY <1>1 DEF TypeOK, NewInv, Adding
  <1>6. ThreadInv'
    BY <1>1 DEF TypeOK, ThreadInv
  <1>7. JoinsInv'
    BY <1>1 DEF TypeOK, JoinsInv, ThreadInv
  <1>8. NoMissedWakeup'
    BY <1>1, NobodyToRun DEF TypeOK, NoMissedWakeup, CanRun, Adding, Waking, NeedSleep,
       Unannounced
  <1> QED
    BY <1>2, <1>3, <1>4, <1>5, <1>6, <1>7, <1>8 DEF EnvInv

(* Only where the thread is and the state of the env change. *)
LEMMA GoIdleInv ==
    ASSUME EnvInv, GoIdle
    PROVE  EnvInv'
  <1> USE DEF GoIdle, SetState
  <1>1. TypeOK /\ ListsInv /\ MinInv /\ NewInv /\ ThreadInv /\ JoinsInv /\ NoMissedWakeup
    BY DEF EnvInv
  <1>2. TypeOK'
    BY <1>1 DEF TypeOK, Stages
  <1>3. ListsInv'
    BY <1>1 DEF TypeOK, ListsInv, Live
  <1>4. MinInv'
    BY <1>1 DEF TypeOK, MinInv, CanRun, Unannounced
  <1>5. NewInv'
    BY <1>1 DEF TypeOK, NewInv, Adding
  <1>6. ThreadInv'
    BY <1>1 DEF TypeOK, ThreadInv
  <1>7. JoinsInv'
    BY <1>1 DEF TypeOK, JoinsInv, ThreadInv
  <1>8. NoMissedWakeup'
    BY <1>1 DEF TypeOK, NoMissedWakeup, CanRun, Adding, Waking
  <1> QED
    BY <1>2, <1>3, <1>4, <1>5, <1>6, <1>7, <1>8 DEF EnvInv

(* As NothingToRun; at the end of the env all that live are destroyed. *)
LEMMA IdleTestInv ==
    ASSUME EnvInv, IdleTest
    PROVE  EnvInv'
  <1> USE DEF IdleTest
  <1>1. TypeOK /\ ListsInv /\ MinInv /\ NewInv /\ ThreadInv /\ JoinsInv /\ NoMissedWakeup
    BY DEF EnvInv
  <1>2. \/ UNCHANGED <<list, status>> /\ pc' # "done"
        \/ /\ pc' = "done"
           /\ list' = [q \in Pri |-> <<>>]
           /\ status' = [d \in Ctx |-> IF Live(d) THEN "destroyed" ELSE status[d]]
    <2>1. \A d \in Ctx : (\E q \in Pri : Contains(list[q], d)) <=> Live(d)
      BY <1>1 DEF TypeOK, ListsInv
    <2>2. [d \in Ctx |-> IF \E q \in Pri : Contains(list[q], d) THEN "destroyed" ELSE status[d]]
            = [d \in Ctx |-> IF Live(d) THEN "destroyed" ELSE status[d]]
      BY <2>1
    <2> QED
      BY <2>2
  <1>3. TypeOK'
    <2>1. list' \in [Pri -> Seq(Ctx)]
      <3>1. CASE list' = list
        BY <1>1, <3>1 DEF TypeOK
      <3>2. CASE list' = [q \in Pri |-> <<>>]
        BY <3>2
      <3> QED
        BY <1>2, <3>1, <3>2
    <2>2. status' \in [Ctx -> {"absent", "suspended", "running", "finished", "destroyed"}]
      BY <1>1, <1>2 DEF TypeOK
    <2> QED
      BY <1>1, <2>1, <2>2 DEF TypeOK
  <1>4. ListsInv'
    <2>1. CASE UNCHANGED <<list, status>>
      BY <1>1, <2>1 DEF ListsInv, Live
    <2>2. CASE ~(UNCHANGED <<list, status>>)
      <3>1. \A q \in Pri : list'[q] = <<>>
        BY <1>2, <2>2
      <3>2. \A d \in Ctx : ~Live(d)'
        BY <1>1, <1>2, <2>2 DEF TypeOK, Live
      <3> QED
        BY <3>1, <3>2 DEF ListsInv, IsInjective, Contains
    <2> QED
      BY <2>1, <2>2
  <1>5. MinInv'
    BY <1>1 DEF TypeOK, MinInv, CanRun, Unannounced
  <1>6. NewInv'
    <2>1. \A d \in Ctx : status'[d] = "absent" <=> status[d] = "absent"
      BY <1>2 DEF Live
    <2> QED
      BY <1>1, <2>1 DEF TypeOK, NewInv
  <1>7. ThreadInv'
    BY <1>1 DEF TypeOK, ThreadInv
  <1>8. JoinsInv'
    BY <1>1 DEF TypeOK, JoinsInv, ThreadInv
  <1>9. NoMissedWakeup'
    BY <1>1, NobodyToRun DEF TypeOK, NoMissedWakeup, CanRun, Adding, Waking, NeedSleep,
       Unannounced
  <1> QED
    BY <1>3, <1>4, <1>5, <1>6, <1>7, <1>8, <1>9 DEF EnvInv

(* The thread is awake. *)
LEMMA SpuriousInv ==
    ASSUME EnvInv, Spurious
    PROVE  EnvInv'
  <1> USE DEF Spurious, Awake
  <1>1. TypeOK /\ ListsInv /\ MinInv /\ NewInv /\ ThreadInv /\ JoinsInv /\ NoMissedWakeup
    BY DEF EnvInv
  <1>2. TypeOK'
    BY <1>1 DEF TypeOK, Stages
  <1>3. ListsInv'
    BY <1>1 DEF TypeOK, ListsInv, Live
  <1>4. MinInv'
    BY <1>1 DEF TypeOK, MinInv, CanRun, Unannounced
  <1>5. NewInv'
    BY <1>1 DEF TypeOK, NewInv, Adding
  <1>6. ThreadInv'
    BY <1>1 DEF TypeOK, ThreadInv
  <1>7. JoinsInv'
    BY <1>1 DEF TypeOK, JoinsInv, ThreadInv
  <1>8. NoMissedWakeup'
    BY <1>1 DEF TypeOK, NoMissedWakeup, CanRun, Adding, Waking
  <1> QED
    BY <1>2, <1>3, <1>4, <1>5, <1>6, <1>7, <1>8 DEF EnvInv

(* The new coroutine is nowhere yet. *)
LEMMA AddCtxInv ==
    ASSUME EnvInv, NEW c \in Ctx, NEW p \in Pri, NEW handle \in BOOLEAN, AddCtx(c, p, handle)
    PROVE  EnvInv'
  <1> USE DEF AddCtx, Call, Adding
  <1>1. TypeOK /\ ListsInv /\ MinInv /\ NewInv /\ ThreadInv /\ JoinsInv /\ NoMissedWakeup
    BY DEF EnvInv
  <1>2. TypeOK'
    BY <1>1 DEF TypeOK, Stages
  <1>3. ListsInv'
    BY <1>1 DEF TypeOK, ListsInv, Live
  <1>4. MinInv'
    BY <1>1 DEF TypeOK, MinInv, CanRun, Unannounced
  <1>5. NewInv'
    BY <1>1 DEF TypeOK, NewInv, Adding
  <1>6. ThreadInv'
    BY <1>1 DEF TypeOK, ThreadInv
  <1>7. JoinsInv'
    BY <1>1 DEF TypeOK, JoinsInv, ThreadInv
  <1>8. NoMissedWakeup'
    BY <1>1 DEF TypeOK, NoMissedWakeup, CanRun, Adding, Waking
  <1> QED
    BY <1>2, <1>3, <1>4, <1>5, <1>6, <1>7, <1>8 DEF EnvInv

(* It is in no list, and enters that of its priority. *)
LEMMA MoveToHereInv ==
    ASSUME EnvInv, NEW c \in Ctx, MoveToHere(c)
    PROVE  EnvInv'
  <1> USE DEF MoveToHere, Proceed
  <1>1. TypeOK /\ ListsInv /\ MinInv /\ NewInv /\ ThreadInv /\ JoinsInv /\ NoMissedWakeup
    BY DEF EnvInv
  <1>2. /\ list' \in [Pri -> Seq(Ctx)]
        /\ \A q \in Pri : IsInjective(list'[q])
        /\ \A d \in Ctx, q \in Pri :
             Contains(list'[q], d) <=> Contains(list[q], d) \/ (d = c /\ q = prio[c])
    <2> DEFINE More == Append(list[prio[c]], c)
    <2>1. /\ prio[c] \in Pri /\ list[prio[c]] \in Seq(Ctx) /\ IsInjective(list[prio[c]])
          /\ ~Contains(list[prio[c]], c)
      BY <1>1 DEF TypeOK, ListsInv, NewInv, Live
    <2>2. /\ More \in Seq(Ctx) /\ IsInjective(More)
          /\ \A d \in Ctx : Contains(More, d) <=> Contains(list[prio[c]], d) \/ d = c
      BY <2>1, ContainsAppend, InjectiveAppend
    <2> HIDE DEF More
    <2>3. list' = [list EXCEPT ![prio[c]] = More]
      BY DEF More
    <2>4. /\ list' \in [Pri -> Seq(Ctx)] /\ list'[prio[c]] = More
          /\ \A q \in Pri \ {prio[c]} : list'[q] = list[q]
      BY <1>1, <2>1, <2>2, <2>3 DEF TypeOK
    <2> QED
      BY <1>1, <2>2, <2>4 DEF ListsInv
  <1>3. TypeOK'
    BY <1>1, <1>2 DEF TypeOK, Stages
  <1>4. ListsInv'
    BY <1>1, <1>2 DEF TypeOK, ListsInv, NewInv, Live
  <1>5. MinInv'
    BY <1>1 DEF TypeOK, MinInv, CanRun, Unannounced
  <1>6. NewInv'
    BY <1>1 DEF TypeOK, NewInv, Adding
  <1>7. ThreadInv'
    BY <1>1 DEF TypeOK, ThreadInv, NewInv
  <1>8. JoinsInv'
    BY <1>1 DEF TypeOK, JoinsInv, ThreadInv, NewInv
  <1>9. NoMissedWakeup'
    BY <1>1 DEF TypeOK, NoMissedWakeup, CanRun, Adding, Waking
  <1> QED
    BY <1>3, <1>4, <1>5, <1>6, <1>7, <1>8, <1>9 DEF EnvInv

(* Its waker has yet to announce it. *)
LEMMA LeaveWaitInv ==
    ASSUME EnvInv, NEW c \in Ctx, LeaveWait(c)
    PROVE  EnvInv'
  <1> USE DEF LeaveWait, Call
  <1>1. TypeOK /\ ListsInv /\ MinInv /\ NewInv /\ ThreadInv /\ JoinsInv /\ NoMissedWakeup
    BY DEF EnvInv
  <1>2. TypeOK'
    BY <1>1 DEF TypeOK, Stages
  <1>3. ListsInv'
    BY <1>1 DEF TypeOK, ListsInv, Live
  <1>4. MinInv'
    BY <1>1 DEF TypeOK, MinInv, CanRun, Unannounced
  <1>5. NewInv'
    BY <1>1 DEF TypeOK, NewInv, Adding
  <1>6. ThreadInv'
    BY <1>1 DEF TypeOK, ThreadInv
  <1>7. JoinsInv'
    BY <1>1 DEF TypeOK, JoinsInv, ThreadInv
  <1>8. NoMissedWakeup'
    BY <1>1 DEF TypeOK, NoMissedWakeup, CanRun, Adding, Waking
  <1> QED
    BY <1>2, <1>3, <1>4, <1>5, <1>6, <1>7, <1>8 DEF EnvInv

(* The minimum takes it in. *)
LEMMA UpdateMinInv ==
    ASSUME EnvInv, NEW c \in Ctx, UpdateMin(c)
    PROVE  EnvInv'
  <1> USE DEF UpdateMin, Proceed, LowerMin
  <1>1. TypeOK /\ ListsInv /\ MinInv /\ NewInv /\ ThreadInv /\ JoinsInv /\ NoMissedWakeup
    BY DEF EnvInv
  <1>2. TypeOK'
    BY <1>1 DEF TypeOK, Stages
  <1>3. ListsInv'
    BY <1>1 DEF TypeOK, ListsInv, Live
  <1>4. MinInv'
    <2>1. minPri \in Nat /\ \A d \in Ctx : prio[d] \in Nat
      BY <1>1 DEF TypeOK
    <2>2. minPri' \in Nat /\ minPri' <= minPri /\ minPri' <= prio[c]
      BY <2>1
    <2>3. ASSUME NEW d \in Ctx \ {c}, ~Unannounced(d)'
          PROVE  ~Unannounced(d)
      BY <2>3 DEF Unannounced
    <2> QED
      BY <1>1, <2>1, <2>2, <2>3 DEF MinInv, CanRun
  <1>5. NewInv'
    BY <1>1 DEF TypeOK, NewInv, Adding
  <1>6. ThreadInv'
    BY <1>1 DEF TypeOK, ThreadInv
  <1>7. JoinsInv'
    BY <1>1 DEF TypeOK, JoinsInv, ThreadInv
  <1>8. NoMissedWakeup'
    BY <1>1 DEF TypeOK, NoMissedWakeup, CanRun, Adding, Waking
  <1> QED
    BY <1>2, <1>3, <1>4, <1>5, <1>6, <1>7, <1>8 DEF EnvInv

(* The wake-up is still to come. *)
LEMMA MarkBusyInv ==
    ASSUME EnvInv, NEW c \in Ctx, MarkBusy(c)
    PROVE  EnvInv'
  <1> USE DEF MarkBusy, Proceed, SetState
  <1>1. TypeOK /\ ListsInv /\ MinInv /\ NewInv /\ ThreadInv /\ JoinsInv /\ NoMissedWakeup
    BY DEF EnvInv
  <1>2. TypeOK'
    BY <1>1 DEF TypeOK, Stages
  <1>3. ListsInv'
    BY <1>1 DEF TypeOK, ListsInv, Live
  <1>4. MinInv'
    BY <1>1 DEF TypeOK, MinInv, CanRun, Unannounced
  <1>5. NewInv'
    BY <1>1 DEF TypeOK, NewInv, Adding
  <1>6. ThreadInv'
    BY <1>1 DEF TypeOK, ThreadInv
  <1>7. JoinsInv'
    BY <1>1 DEF TypeOK, JoinsInv, ThreadInv
  <1>8. NoMissedWakeup'
    BY <1>1 DEF TypeOK, NoMissedWakeup, CanRun, Adding, Waking
  <1> QED
    BY <1>2, <1>3, <1>4, <1>5, <1>6, <1>7, <1>8 DEF EnvInv

(* The thread is awake. *)
LEMMA WakeUpInv ==
    ASSUME EnvInv, NEW c \in Ctx, WakeUp(c)
    PROVE  EnvInv'
  <1> USE DEF WakeUp, Awake
  <1>1. TypeOK /\ ListsInv /\ MinInv /\ NewInv /\ ThreadInv /\ JoinsInv /\ NoMissedWakeup
    BY DEF EnvInv
  <1>2. TypeOK'
    BY <1>1 DEF TypeOK, Stages
  <1>3. ListsInv'
    BY <1>1 DEF TypeOK, ListsInv, Live
  <1>4. MinInv'
    BY <1>1 DEF TypeOK, MinInv, CanRun, Unannounced
  <1>5. NewInv'
    BY <1>1 DEF TypeOK, NewInv, Adding
  <1>6. ThreadInv'
    BY <1>1 DEF TypeOK, ThreadInv
  <1>7. JoinsInv'
    BY <1>1 DEF TypeOK, JoinsInv, ThreadInv
  <1>8. NoMissedWakeup'
    BY <1>1 DEF TypeOK, NoMissedWakeup, CanRun, Adding, Waking
  <1> QED
    BY <1>2, <1>3, <1>4, <1>5, <1>6, <1>7, <1>8 DEF EnvInv

(* A coroutine with a handle in use lives. *)
LEMMA SetPriorityInv ==
    ASSUME EnvInv, NEW c \in Ctx, NEW p \in Pri, SetPriority(c, p)
    PROVE  EnvInv'
  <1> USE DEF SetPriority, Held
  <1>1. TypeOK /\ ListsInv /\ MinInv /\ NewInv /\ ThreadInv /\ JoinsInv /\ NoMissedWakeup
    BY DEF EnvInv
  <1>2. /\ list' \in [Pri -> Seq(Ctx)] /\ prio' \in [Ctx -> Pri] /\ minPri' \in Pri
        /\ ListsInv'
        /\ minPri' <= minPri
        /\ prio'[c] = p
        /\ p = prio[c] \/ minPri' <= p
        /\ \A d \in Ctx \ {c} : prio'[d] = prio[d]
    <2>1. Live(c) /\ p \in Pri
      BY <1>1 DEF TypeOK, NewInv, Adding, Live
    <2> QED
      BY <1>1, <2>1, MoveLists
  <1>3. TypeOK'
    BY <1>1, <1>2 DEF TypeOK
  <1>4. ListsInv'
    BY <1>1, <1>2 DEF ListsInv
  <1>5. MinInv'
    <2> SUFFICES ASSUME NEW d \in Ctx, CanRun(d)', ~Unannounced(d)'
                 PROVE  prio'[d] >= minPri'
      BY DEF MinInv
    <2>1. minPri \in Nat /\ minPri' \in Nat /\ prio[d] \in Nat /\ prio'[d] \in Nat
      BY <1>1, <1>2 DEF TypeOK
    <2>2. prio[d] >= minPri
      BY <1>1 DEF MinInv, CanRun, Unannounced
    <2>3. CASE d = c
      BY <1>2, <2>1, <2>2, <2>3
    <2>4. CASE d # c
      <3>1. prio'[d] = prio[d] /\ minPri' <= minPri
        BY <1>2, <2>4
      <3> QED
        BY <2>1, <2>2, <3>1
    <2> QED
      BY <2>3, <2>4
  <1>6. NewInv'
    BY <1>1 DEF TypeOK, NewInv, Adding
  <1>7. ThreadInv'
    BY <1>1 DEF TypeOK, ThreadInv
  <1>8. JoinsInv'
    BY <1>1 DEF TypeOK, JoinsInv, ThreadInv
  <1>9. NoMissedWakeup'
    BY <1>1 DEF TypeOK, NoMissedWakeup, CanRun, Adding, Waking
  <1> QED
    BY <1>3, <1>4, <1>5, <1>6, <1>7, <1>8, <1>9 DEF EnvInv

(* Nobody waits for it. *)
LEMMA DetachInv ==
    ASSUME EnvInv, NEW c \in Ctx, Detach(c)
    PROVE  EnvInv'
  <1> USE DEF Detach, Held
  <1>1. TypeOK /\ ListsInv /\ MinInv /\ NewInv /\ ThreadInv /\ JoinsInv /\ NoMissedWakeup
    BY DEF EnvInv
  <1>2. TypeOK'
    BY <1>1 DEF TypeOK, Stages
  <1>3. ListsInv'
    BY <1>1 DEF TypeOK, ListsInv, Live
  <1>4. MinInv'
    BY <1>1 DEF TypeOK, MinInv, CanRun, Unannounced
  <1>5. NewInv'
    BY <1>1 DEF TypeOK, NewInv, Adding
  <1>6. ThreadInv'
    BY <1>1 DEF TypeOK, ThreadInv
  <1>7. JoinsInv'
    BY <1>1 DEF TypeOK, JoinsInv, ThreadInv
  <1>8. NoMissedWakeup'
    BY <1>1 DEF TypeOK, NoMissedWakeup, CanRun, Adding, Waking
  <1> QED
    BY <1>2, <1>3, <1>4, <1>5, <1>6, <1>7, <1>8 DEF EnvInv

(* The thread is awake and sees the state. *)
LEMMA StopScheduleInv ==
    ASSUME EnvInv, StopSchedule
    PROVE  EnvInv'
  <1> USE DEF StopSchedule, SetState, Awake
  <1>1. TypeOK /\ ListsInv /\ MinInv /\ NewInv /\ ThreadInv /\ JoinsInv /\ NoMissedWakeup
    BY DEF EnvInv
  <1>2. TypeOK'
    BY <1>1 DEF TypeOK, Stages
  <1>3. ListsInv'
    BY <1>1 DEF TypeOK, ListsInv, Live
  <1>4. MinInv'
    BY <1>1 DEF TypeOK, MinInv, CanRun, Unannounced
  <1>5. NewInv'
    BY <1>1 DEF TypeOK, NewInv, Adding
  <1>6. ThreadInv'
    BY <1>1 DEF TypeOK, ThreadInv
  <1>7. JoinsInv'
    BY <1>1 DEF TypeOK, JoinsInv, ThreadInv
  <1>8. NoMissedWakeup'
    BY <1>1 DEF TypeOK, NoMissedWakeup, CanRun, Adding, Waking
  <1> QED
    BY <1>2, <1>3, <1>4, <1>5, <1>6, <1>7, <1>8 DEF EnvInv

-----------------------------------------------------------------------------
(* The theorems *)

LEMMA NextEnvInv ==
    ASSUME EnvInv, [Next]_vars
    PROVE  EnvInv'
  <1>1. CASE \E c \in Ctx : Code(c)
    BY <1>1, YieldInv, EnterWaitInv, JoinReturnInv, FinishInv, PublishInv, LeaveInv, JoinInv
       DEF Code
  <1>2. CASE \E c \in Ctx : Others(c)
    BY <1>2, AddCtxInv, MoveToHereInv, LeaveWaitInv, UpdateMinInv, MarkBusyInv, WakeUpInv,
       DetachInv, SetPriorityInv DEF Others
  <1>3. CASE Switching
    BY <1>3, SwitchToInv, SwitchToIdleInv, NothingToRunInv, GoIdleInv, IdleTestInv
       DEF Switching
  <1>4. CASE Spurious \/ StopSchedule
    BY <1>4, SpuriousInv, StopScheduleInv
  <1>5. CASE UNCHANGED vars
    BY <1>5 DEF vars, EnvInv, TypeOK, ListsInv, MinInv, NewInv, ThreadInv, JoinsInv,
                NoMissedWakeup, Live, CanRun, Unannounced, Adding, Waking
  <1> QED
    BY <1>1, <1>2, <1>3, <1>4, <1>5 DEF Next

(* Of every reachable state: the lists hold who lives, by priority; the      *)
(* search starts early enough; the thread is on the stack of somebody who    *)
(* exists; and who waits for a coroutine is asleep or finds it finished.     *)
THEOREM EnvInvariance == SafeSpec => []EnvInv
  BY InitEnvInv, NextEnvInv, PTL DEF SafeSpec

(* The env never sleeps while a coroutine can run whose waker is through     *)
(* (co_env.cpp:256-262, 660-685).                                            *)
THEOREM EnvNoMissedWakeup == SafeSpec => []NoMissedWakeup
  <1>1. EnvInv => NoMissedWakeup
    BY DEF EnvInv
  <1> QED
    BY <1>1, EnvInvariance, PTL

(* Moves between lists, their rotation and the sweep lose and duplicate      *)
(* nobody, and min_priority__ hides nobody (co_env.cpp:531-541, 564,         *)
(* 614-621).                                                                 *)
THEOREM EnvListsOnce == SafeSpec => []ListedOnce
  <1>1. ASSUME EnvInv, NEW c \in Ctx, NEW p \in Pri
        PROVE  Cardinality({i \in 1..Len(list[p]) : list[p][i] = c})
                 = IF Live(c) /\ p = prio[c] THEN 1 ELSE 0
    <2> DEFINE Places == {i \in 1..Len(list[p]) : list[p][i] = c}
    <2>1. /\ list[p] \in Seq(Ctx) /\ IsInjective(list[p])
          /\ Contains(list[p], c) <=> Live(c) /\ p = prio[c]
      BY <1>1 DEF EnvInv, TypeOK, ListsInv
    <2>2. CASE ~Contains(list[p], c)
      <3>1. Places = {}
        BY <2>2 DEF Contains
      <3> QED
        BY <2>1, <2>2, <3>1, FS_EmptySet
    <2>3. CASE Contains(list[p], c)
      <3>1. PICK i \in 1..Len(list[p]) : list[p][i] = c
        BY <2>3 DEF Contains
      <3>2. Places = {i}
        BY <2>1, <3>1 DEF IsInjective
      <3> QED
        BY <2>1, <2>3, <3>2, FS_Singleton
    <2> QED
      BY <2>2, <2>3
  <1>2. EnvInv => ListedOnce
    BY <1>1 DEF ListedOnce, EnvInv, MinInv
  <1> QED
    BY <1>2, EnvInvariance, PTL

(* wait_ctx returns with its coroutine finished and not yet destroyed, and   *)
(* nobody is destroyed while the env is on its stack or its handle in use    *)
(* (co_env.cpp:166-186).                                                     *)
THEOREM EnvJoinGetsResult == SafeSpec => []JoinGetsResult
  <1>1. EnvInv => JoinGetsResult
    BY DEF EnvInv, JoinGetsResult, JoinsInv, Runs, TypeOK
  <1> QED
    BY <1>1, EnvInvariance, PTL

(* Only the switch to a coroutine takes the thread into its code.            *)
LEMMA OnlySwitchTo ==
    ASSUME EnvInv, [Next]_vars, pc = "switch", pc' = "code"
    PROVE  \E c \in Ctx, p \in Pri : SwitchTo(c, p)
  <1>1. ASSUME NEW c \in Ctx, Code(c) PROVE FALSE
    BY <1>1 DEF Code, Yield, EnterWait, JoinReturn, Finish, Publish, Leave, Join, Runs
  <1>2. ASSUME NEW c \in Ctx, Others(c) PROVE FALSE
    BY <1>2 DEF Others, AddCtx, MoveToHere, LeaveWait, UpdateMin, MarkBusy, WakeUp, Detach,
                SetPriority
  <1>3. ~(Spurious \/ StopSchedule \/ UNCHANGED vars)
    BY DEF Spurious, StopSchedule, vars
  <1>4. ~(SwitchToIdle \/ NothingToRun \/ GoIdle \/ IdleTest)
    BY DEF SwitchToIdle, NothingToRun, GoIdle, IdleTest
  <1> QED
    BY <1>1, <1>2, <1>3, <1>4 DEF Next, Switching

(* Whoever the env switches to has the highest priority of those that can    *)
(* run and have been announced (co_env.cpp:531-541).                         *)
THEOREM EnvHighestFirst == SafeSpec => HighestFirst
  <1>1. ASSUME EnvInv, [Next]_vars PROVE SwitchToHighest
    <2> SUFFICES ASSUME pc = "switch", pc' = "code"
                 PROVE  \A c \in Ctx : on' = c =>
                          \A d \in Ctx : CanRun(d) /\ ~Unannounced(d) => prio[d] >= prio[c]
      BY DEF SwitchToHighest
    <2>1. PICK c \in Ctx, p \in Pri : SwitchTo(c, p)
      BY <1>1, OnlySwitchTo
    <2>2. on' = c /\ IsFirst(c, p)
      BY <2>1 DEF SwitchTo
    <2> QED
      BY <1>1, <2>2, FirstIsHighest DEF EnvInv
  <1> QED
    BY <1>1, EnvInvariance, PTL DEF SafeSpec, HighestFirst
=============================================================================
