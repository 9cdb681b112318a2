------------------------- MODULE CoSyncToolsProofs -------------------------
(***************************************************************************)
(* TLAPS proofs about CoSyncTools, for every finite set of coroutines and   *)
(* every size: the inductive invariant of the five tools, and with it that  *)
(* nobody sleeps on what has come; and that the counters of the barrier     *)
(* differ by what has arrived.                                              *)
(***************************************************************************)
EXTENDS CoSyncTools, QueueLemmas

USE SyncAssumption

Places == {"idle", "acquire", "release", "wait", "arrived", "barrier", "armed", "timed"}
Waits  == {"acquire", "wait", "barrier", "timed"}

LEMMA SizesNatural == \A s \in Sizes : s \in Nat /\ s > 0
  OBVIOUS

(* The tool that somebody must be using to be at a place.                   *)
LEMMA Inside ==
    ASSUME NEW t, NEW at
    PROVE  /\ at \in {"acquire", "release"} => (t \in InsideOf(at) <=> t = "semaphore")
           /\ at = "wait" => (t \in InsideOf(at) <=> t \in {"latch", "wait group"})
           /\ at \in {"arrived", "barrier"} => (t \in InsideOf(at) <=> t = "barrier")
           /\ at \in {"armed", "timed"} => (t \in InsideOf(at) <=> t = "condition variable")
           /\ at = "idle" => (t \in InsideOf(at) <=> t \in Tools)
  BY DEF InsideOf

-----------------------------------------------------------------------------
(* A step of c: what it does to a list, to the counters, to the timers.     *)

(* The list stays, or loses some, and c may have come.                      *)
ListStep(w, v, c) ==
    /\ v \in Seq(Ctx) /\ IsInjective(v)
    /\ \A d \in Ctx : Contains(v, d) => Contains(w, d) \/ d = c

CountStep(c) ==
    /\ count' \in Int /\ (tool # "barrier" => count' \in 0..size)
    /\ n' \in [Ctx -> Nat] /\ \A d \in Ctx \ {c} : n'[d] = n[d]

BarrierStep ==
    /\ expected' \in 0..size /\ drops' \in Nat /\ generation' \in Nat
    /\ token' \in [Ctx -> 0..generation']

TimedStep ==
    /\ timer' \in [Ctx -> {"stopped", "running", "expired"}]
    /\ due' \subseteq Ctx \X (1..MaxCalls)
    /\ timeout' \in BOOLEAN
    /\ \A c \in Ctx : timer'[c] # "stopped" => tool = "condition variable" /\ calls'[c] > 0
    /\ due' # {} => tool = "condition variable"

LEMMA ListKept ==
    ASSUME NEW w \in Seq(Ctx), IsInjective(w), NEW c \in Ctx
    PROVE  ListStep(w, w, c)
  BY DEF ListStep

LEMMA ListEnter ==
    ASSUME NEW w \in Seq(Ctx), IsInjective(w), NEW c \in Ctx, ~Contains(w, c)
    PROVE  ListStep(w, Append(w, c), c)
  <1>1. \A d \in Ctx : Contains(Append(w, c), d) <=> Contains(w, d) \/ d = c
    BY ContainsAppend
  <1>2. IsInjective(Append(w, c))
    BY InjectiveAppend
  <1> QED
    BY <1>1, <1>2 DEF ListStep

LEMMA ListNotify ==
    ASSUME NEW w \in Seq(Ctx), IsInjective(w), NEW c \in Ctx
    PROVE  ListStep(w, NotifyOne(w), c)
  BY NotifyType, NotifyMembers DEF ListStep

LEMMA ListEmpty ==
    ASSUME NEW w, NEW c \in Ctx
    PROVE  ListStep(w, <<>>, c)
  BY NobodyInEmpty DEF ListStep, IsInjective

LEMMA OnlyLess ==
    ASSUME NEW w \in Seq(Ctx), IsInjective(w), NEW S
    PROVE  /\ Only(w, S) \in Seq(Ctx) /\ IsInjective(Only(w, S))
           /\ \A d \in Ctx : Contains(Only(w, S), d) => Contains(w, d)
  BY OnlyMembers

(* All that a step must keep, but for EnoughAwake.                          *)
LEMMA StepInv ==
    ASSUME TypeOK, ListsInv, PlacesInv, NEW c \in Ctx, NEW to \in Places,
           UNCHANGED <<tool, size>>, calls' \in [Ctx -> 0..MaxCalls],
           pc' = [pc EXCEPT ![c] = to], tool \in InsideOf(to),
           CountStep(c), BarrierStep, TimedStep,
           ListStep(cv, cv', c), ListStep(cvFull, cvFull', c),
           Contains(cv', c) => to \in Waits,
           Contains(cvFull', c) => to = "release",
           to = "release" => n'[c] > 0
    PROVE  TypeOK' /\ ListsInv' /\ PlacesInv'
  <1>1. pc' \in [Ctx -> Places] /\ pc'[c] = to /\ \A d \in Ctx \ {c} : pc'[d] = pc[d]
    BY DEF TypeOK, Places
  <1>2. TypeOK'
    <2>1. cv' \in Seq(Ctx) /\ cvFull' \in Seq(Ctx)
      BY DEF ListStep
    <2> QED
      BY <1>1, <2>1 DEF TypeOK, Places, CountStep, BarrierStep, TimedStep
  <1>3. ListsInv'
    BY <1>1 DEF ListsInv, ListStep, Waits
  <1>4. PlacesInv'
    BY <1>1 DEF PlacesInv, CountStep, TimedStep
  <1> QED
    BY <1>2, <1>3, <1>4

(* What a call or the return from a wait says of who goes on: it is in no   *)
(* list.                                                                    *)
LEMMA CallStep ==
    ASSUME TypeOK, ListsInv, PlacesInv, NEW c \in Ctx, NEW t, Call(c, t)
    PROVE  /\ pc[c] = "idle" /\ tool = t /\ UNCHANGED <<tool, size>>
           /\ ~Contains(cv, c) /\ ~Contains(cvFull, c)
           /\ calls' \in [Ctx -> 0..MaxCalls]
           /\ calls'[c] > 0 /\ \A d \in Ctx \ {c} : calls'[d] = calls[d]
           /\ tool # "condition variable" => TimedStep
  <1>1. pc[c] = "idle" /\ tool = t /\ UNCHANGED <<tool, size>>
    BY DEF Call
  <1>2. ~Contains(cv, c) /\ ~Contains(cvFull, c)
    BY <1>1 DEF ListsInv
  <1>3. /\ calls' \in [Ctx -> 0..MaxCalls]
        /\ calls'[c] > 0 /\ \A d \in Ctx \ {c} : calls'[d] = calls[d]
    <2>1. calls[c] \in 0..MaxCalls /\ calls[c] < MaxCalls /\ calls' = [calls EXCEPT ![c] = calls[c] + 1]
      BY DEF Call, TypeOK
    <2> QED
      BY <2>1 DEF TypeOK
  <1>4. tool # "condition variable" => TimedStep
    BY <1>1, <1>3 DEF Call, TypeOK, PlacesInv, TimedStep, timedVars
  <1> QED
    BY <1>1, <1>2, <1>3, <1>4

LEMMA ResumeStep ==
    ASSUME TypeOK, ListsInv, PlacesInv, NEW c \in Ctx, NEW at, Resume(c, at)
    PROVE  /\ pc[c] = at /\ tool \in InsideOf(at) /\ UNCHANGED <<tool, size>>
           /\ ~Contains(cv, c) /\ ~Contains(cvFull, c)
           /\ calls' \in [Ctx -> 0..MaxCalls] /\ calls' = calls
           /\ pc[c] # "timed" => TimedStep
  <1>1. pc[c] = at /\ tool \in InsideOf(at) /\ UNCHANGED <<tool, size, calls>>
    BY DEF Resume, PlacesInv
  <1>2. ~Contains(cv, c) /\ ~Contains(cvFull, c)
    BY DEF Resume, Asleep
  <1>3. pc[c] # "timed" => TimedStep
    BY <1>1 DEF Resume, TypeOK, PlacesInv, TimedStep, timedVars
  <1> QED
    BY <1>1, <1>2, <1>3 DEF TypeOK

-----------------------------------------------------------------------------
(* The semaphore: how many are awake, now and after a step.                 *)

LEMMA AwakeNow ==
    ASSUME ListsInv
    PROVE  /\ Awake("acquire") = Cardinality(Woken(Ctx, pc, cv, "acquire"))
           /\ Awake("release") = Cardinality(Woken(Ctx, pc, cvFull, "release"))
  <1>1. {c \in Ctx : pc[c] = "acquire" /\ ~Asleep(c)} = Woken(Ctx, pc, cv, "acquire")
    BY DEF ListsInv, Asleep, Woken
  <1>2. {c \in Ctx : pc[c] = "release" /\ ~Asleep(c)} = Woken(Ctx, pc, cvFull, "release")
    BY DEF ListsInv, Asleep, Woken
  <1> QED
    BY <1>1, <1>2 DEF Awake

LEMMA AwakeThen ==
    ASSUME ListsInv'
    PROVE  /\ Awake("acquire")' = Cardinality(Woken(Ctx, pc', cv', "acquire"))
           /\ Awake("release")' = Cardinality(Woken(Ctx, pc', cvFull', "release"))
  <1>1. {c \in Ctx : pc'[c] = "acquire" /\ ~(Contains(cv', c) \/ Contains(cvFull', c))}
          = Woken(Ctx, pc', cv', "acquire")
    BY DEF ListsInv, Woken
  <1>2. {c \in Ctx : pc'[c] = "release" /\ ~(Contains(cv', c) \/ Contains(cvFull', c))}
          = Woken(Ctx, pc', cvFull', "release")
    BY DEF ListsInv, Woken
  <1> QED
    BY <1>1, <1>2 DEF Awake, Asleep

(* What the invariant says while the tool is the semaphore.                 *)
LEMMA SemaphoreNow ==
    ASSUME ToolsInv, tool = "semaphore"
    PROVE  /\ cv # <<>> => Cardinality(Woken(Ctx, pc, cv, "acquire")) >= count
           /\ cvFull # <<>> => Cardinality(Woken(Ctx, pc, cvFull, "release")) >= size - count
           /\ \A c \in Ctx : Contains(cv, c) => pc[c] = "acquire"
           /\ \A c \in Ctx : Contains(cvFull, c) => pc[c] = "release"
  <1>1. EnoughAwake /\ ListsInv /\ PlacesInv
    BY DEF ToolsInv
  <1>2. /\ cv # <<>> => Awake("acquire") >= count
        /\ cvFull # <<>> => Awake("release") >= size - count
    BY <1>1 DEF EnoughAwake
  <1>3. \A c \in Ctx : Contains(cv, c) => pc[c] = "acquire"
    BY <1>1, Inside DEF ListsInv, PlacesInv
  <1> QED
    BY <1>1, <1>2, <1>3, AwakeNow DEF ListsInv

LEMMA SemaphoreThen ==
    ASSUME ListsInv', tool' = "semaphore",
           cv' # <<>> => Cardinality(Woken(Ctx, pc', cv', "acquire")) >= count',
           cvFull' # <<>> => Cardinality(Woken(Ctx, pc', cvFull', "release")) >= size' - count'
    PROVE  EnoughAwake'
  BY AwakeThen DEF EnoughAwake

(* Who takes one makes room for one, and tells one.                         *)
LEMMA TakeOneInv ==
    ASSUME ToolsInv, NEW c \in Ctx, pc[c] \in {"idle", "acquire"}, tool = "semaphore",
           count > 0, TakeOne(c), UNCHANGED <<tool, size, barrierVars, n>>,
           calls' \in [Ctx -> 0..MaxCalls], TimedStep,
           ~Contains(cv, c), ~Contains(cvFull, c)
    PROVE  ToolsInv'
  <1>1. TypeOK /\ ListsInv /\ PlacesInv
    BY DEF ToolsInv
  <1>2. /\ pc' = [pc EXCEPT ![c] = "idle"] /\ cv' = cv /\ cvFull' = NotifyOne(cvFull)
        /\ count' = count - 1
        /\ count \in 0..size /\ size \in Nat
        /\ cv \in Seq(Ctx) /\ cvFull \in Seq(Ctx) /\ IsInjective(cv) /\ IsInjective(cvFull)
    BY <1>1 DEF TakeOne, Goto, TypeOK, ListsInv
  <1>3. TypeOK' /\ ListsInv' /\ PlacesInv'
    <2>1. CountStep(c)
      BY <1>1, <1>2 DEF CountStep, TypeOK
    <2>2. BarrierStep
      BY <1>1 DEF BarrierStep, TypeOK, barrierVars
    <2>3. ListStep(cv, cv', c) /\ ListStep(cvFull, cvFull', c)
      BY <1>2, ListKept, ListNotify
    <2>4. ~Contains(cv', c) /\ ~Contains(cvFull', c)
      BY <1>2, NotifyMembers
    <2>5. tool \in InsideOf("idle") /\ "idle" \in Places
      BY <1>1, Inside DEF TypeOK, Places
    <2> QED
      BY <1>1, <1>2, <2>1, <2>2, <2>3, <2>4, <2>5, StepInv
  <1>4. \A d \in Ctx \ {c} : pc'[d] = pc[d]
    BY <1>1, <1>2 DEF TypeOK
  <1>5. cv' # <<>> => Cardinality(Woken(Ctx, pc', cv', "acquire")) >= count'
    <2>1. Cardinality(Woken(Ctx, pc', cv, "acquire")) >= Cardinality(Woken(Ctx, pc, cv, "acquire")) - 1
      BY <1>4, OneGoesOn
    <2>2. /\ Cardinality(Woken(Ctx, pc', cv, "acquire")) \in Nat
          /\ Cardinality(Woken(Ctx, pc, cv, "acquire")) \in Nat
      BY WokenCount
    <2> QED
      BY <1>2, <2>1, <2>2, SemaphoreNow
  <1>6. cvFull' # <<>> => Cardinality(Woken(Ctx, pc', cvFull', "release")) >= size' - count'
    <2> SUFFICES ASSUME cvFull' # <<>>
                 PROVE  Cardinality(Woken(Ctx, pc', cvFull', "release")) >= size' - count'
      OBVIOUS
    <2>1. cvFull # <<>>
      BY <1>2 DEF NotifyOne
    <2>2. \A d \in Ctx : Contains(cvFull, d) => pc[d] = "release"
      BY SemaphoreNow
    <2>3. Cardinality(Woken(Ctx, pc, cvFull', "release")) = Cardinality(Woken(Ctx, pc, cvFull, "release")) + 1
      BY <1>2, <2>1, <2>2, NotifyWakesOne
    <2>4. \A d \in Ctx : pc[d] = "release" => pc'[d] = "release"
      BY <1>4
    <2>5. Cardinality(Woken(Ctx, pc', cvFull', "release")) >= Cardinality(Woken(Ctx, pc, cvFull', "release"))
      BY <2>4, OthersStay
    <2>6. /\ Cardinality(Woken(Ctx, pc', cvFull', "release")) \in Nat
          /\ Cardinality(Woken(Ctx, pc, cvFull', "release")) \in Nat
          /\ Cardinality(Woken(Ctx, pc, cvFull, "release")) \in Nat
      BY WokenCount
    <2> QED
      BY <1>2, <2>1, <2>3, <2>5, <2>6, SemaphoreNow
  <1> QED
    BY <1>3, <1>5, <1>6, SemaphoreThen DEF ToolsInv

LEMMA AcquireInv ==
    ASSUME ToolsInv, NEW c \in Ctx, Acquire(c)
    PROVE  ToolsInv'
  <1>1. TypeOK /\ ListsInv /\ PlacesInv
    BY DEF ToolsInv
  <1>2. /\ pc[c] \in {"idle", "acquire"} /\ tool = "semaphore"
        /\ UNCHANGED <<tool, size, barrierVars, n>>
        /\ calls' \in [Ctx -> 0..MaxCalls] /\ TimedStep
        /\ ~Contains(cv, c) /\ ~Contains(cvFull, c)
    <2>1. CASE Call(c, "semaphore")
      BY <1>1, <2>1, CallStep DEF Acquire, Call
    <2>2. CASE Resume(c, "acquire")
      BY <1>1, <2>2, ResumeStep, Inside DEF Acquire
    <2> QED
      BY <2>1, <2>2 DEF Acquire
  <1>3. /\ count \in 0..size /\ size \in Nat
        /\ cv \in Seq(Ctx) /\ cvFull \in Seq(Ctx) /\ IsInjective(cv) /\ IsInjective(cvFull)
    BY <1>1, <1>2 DEF TypeOK, ListsInv
  <1>4. CASE count # 0 /\ TakeOne(c)
    BY <1>2, <1>3, <1>4, TakeOneInv
  <1>5. CASE count = 0 /\ Wait(c, "acquire")
    <2>1. /\ pc' = [pc EXCEPT ![c] = "acquire"] /\ cv' = Append(cv, c)
          /\ cvFull' = cvFull /\ count' = count
      BY <1>5 DEF Wait, Goto
    <2>2. TypeOK' /\ ListsInv' /\ PlacesInv'
      <3>1. CountStep(c)
        BY <1>1, <1>2, <1>3, <2>1 DEF CountStep, TypeOK
      <3>2. BarrierStep
        BY <1>1, <1>2 DEF BarrierStep, TypeOK, barrierVars
      <3>3. ListStep(cv, cv', c) /\ ListStep(cvFull, cvFull', c)
        BY <1>2, <1>3, <2>1, ListKept, ListEnter
      <3>4. tool \in InsideOf("acquire") /\ "acquire" \in Places /\ "acquire" \in Waits
        BY <1>2, Inside DEF Places, Waits
      <3> QED
        BY <1>1, <1>2, <2>1, <3>1, <3>2, <3>3, <3>4, StepInv
    <2>3. Cardinality(Woken(Ctx, pc', cv', "acquire")) \in Nat
      BY WokenCount
    <2>4. cvFull' # <<>> => Cardinality(Woken(Ctx, pc', cvFull', "release")) >= size' - count'
      <3>1. \A d \in Ctx : pc[d] = "release" => pc'[d] = "release"
        BY <1>1, <1>2, <2>1 DEF TypeOK
      <3>2. Cardinality(Woken(Ctx, pc', cvFull, "release")) >= Cardinality(Woken(Ctx, pc, cvFull, "release"))
        BY <3>1, OthersStay
      <3>3. /\ Cardinality(Woken(Ctx, pc', cvFull, "release")) \in Nat
            /\ Cardinality(Woken(Ctx, pc, cvFull, "release")) \in Nat
        BY WokenCount
      <3> QED
        BY <1>2, <1>3, <2>1, <3>2, <3>3, SemaphoreNow
    <2> QED
      BY <1>2, <1>5, <2>1, <2>2, <2>3, <2>4, SemaphoreThen DEF ToolsInv
  <1> QED
    BY <1>4, <1>5 DEF Acquire

LEMMA TryAcquireInv ==
    ASSUME ToolsInv, NEW c \in Ctx, TryAcquire(c)
    PROVE  ToolsInv'
  <1>1. TypeOK /\ ListsInv /\ PlacesInv
    BY DEF ToolsInv
  <1>2. /\ pc[c] = "idle" /\ tool = "semaphore" /\ UNCHANGED <<tool, size>>
        /\ ~Contains(cv, c) /\ ~Contains(cvFull, c)
        /\ calls' \in [Ctx -> 0..MaxCalls] /\ TimedStep
    BY <1>1, CallStep DEF TryAcquire, Call
  <1>3. TakeOne(c) /\ count > 0 /\ UNCHANGED <<barrierVars, n>>
    BY DEF TryAcquire
  <1> QED
    BY <1>2, <1>3, TakeOneInv

(* A release begins: one more is awake at it.                               *)
LEMMA ReleaseInv ==
    ASSUME ToolsInv, NEW c \in Ctx, Release(c)
    PROVE  ToolsInv'
  <1>1. TypeOK /\ ListsInv /\ PlacesInv
    BY DEF ToolsInv
  <1>2. /\ pc[c] = "idle" /\ tool = "semaphore" /\ UNCHANGED <<tool, size>>
        /\ ~Contains(cv, c) /\ ~Contains(cvFull, c)
        /\ calls' \in [Ctx -> 0..MaxCalls] /\ TimedStep
    BY <1>1, CallStep DEF Release, Call
  <1>3. /\ count \in 0..size /\ size \in Nat
        /\ cv \in Seq(Ctx) /\ cvFull \in Seq(Ctx) /\ IsInjective(cv) /\ IsInjective(cvFull)
    BY <1>1, <1>2 DEF TypeOK, ListsInv
  <1>4. PICK m \in Amounts : n' = [n EXCEPT ![c] = m]
    BY DEF Release
  <1>5. /\ pc' = [pc EXCEPT ![c] = "release"]
        /\ UNCHANGED <<count, barrierVars, cv, cvFull>>
    BY DEF Release, Goto
  <1>6. m \in Nat /\ m > 0
    OBVIOUS
  <1>7. TypeOK' /\ ListsInv' /\ PlacesInv'
    <2>1. CountStep(c) /\ n'[c] > 0
      BY <1>1, <1>3, <1>4, <1>5, <1>6 DEF CountStep, TypeOK
    <2>2. BarrierStep
      BY <1>1, <1>5 DEF BarrierStep, TypeOK, barrierVars
    <2>3. ListStep(cv, cv', c) /\ ListStep(cvFull, cvFull', c)
      BY <1>3, <1>5, ListKept
    <2>4. tool \in InsideOf("release") /\ "release" \in Places
      BY <1>2, Inside DEF Places
    <2> QED
      BY <1>1, <1>2, <1>5, <2>1, <2>2, <2>3, <2>4, StepInv
  <1>8. \A d \in Ctx : /\ pc[d] = "acquire" => pc'[d] = "acquire"
                       /\ pc[d] = "release" => pc'[d] = "release"
    BY <1>1, <1>2, <1>5 DEF TypeOK
  <1>9. /\ Cardinality(Woken(Ctx, pc', cv, "acquire")) >= Cardinality(Woken(Ctx, pc, cv, "acquire"))
        /\ Cardinality(Woken(Ctx, pc', cvFull, "release")) >= Cardinality(Woken(Ctx, pc, cvFull, "release"))
    BY <1>8, OthersStay
  <1>10. /\ Cardinality(Woken(Ctx, pc', cv, "acquire")) \in Nat
         /\ Cardinality(Woken(Ctx, pc, cv, "acquire")) \in Nat
         /\ Cardinality(Woken(Ctx, pc', cvFull, "release")) \in Nat
         /\ Cardinality(Woken(Ctx, pc, cvFull, "release")) \in Nat
    BY WokenCount
  <1>11. /\ cv' # <<>> => Cardinality(Woken(Ctx, pc', cv', "acquire")) >= count'
         /\ cvFull' # <<>> => Cardinality(Woken(Ctx, pc', cvFull', "release")) >= size' - count'
    BY <1>2, <1>3, <1>5, <1>9, <1>10, SemaphoreNow
  <1> QED
    BY <1>2, <1>7, <1>11, SemaphoreThen DEF ToolsInv

(* Who gives one back has room for it, or sleeps while there is none.       *)
LEMMA ReleaseOneInv ==
    ASSUME ToolsInv, NEW c \in Ctx, ReleaseOne(c)
    PROVE  ToolsInv'
  <1>1. TypeOK /\ ListsInv /\ PlacesInv
    BY DEF ToolsInv
  <1>2. /\ pc[c] = "release" /\ tool = "semaphore" /\ UNCHANGED <<tool, size, barrierVars>>
        /\ calls' \in [Ctx -> 0..MaxCalls] /\ TimedStep
        /\ ~Contains(cv, c) /\ ~Contains(cvFull, c)
    BY <1>1, ResumeStep, Inside DEF ReleaseOne
  <1>3. /\ count \in 0..size /\ size \in Nat /\ n[c] \in Nat /\ n[c] > 0
        /\ cv \in Seq(Ctx) /\ cvFull \in Seq(Ctx) /\ IsInjective(cv) /\ IsInjective(cvFull)
    BY <1>1, <1>2 DEF TypeOK, ListsInv, PlacesInv
  <1>4. BarrierStep
    BY <1>1, <1>2 DEF BarrierStep, TypeOK, barrierVars
  <1>5. tool \in InsideOf("release") /\ tool \in InsideOf("idle") /\ {"release", "idle"} \subseteq Places
    BY <1>1, <1>2, Inside DEF TypeOK, Places
  <1>6. CASE count = size
    <2>1. cvFull' = Append(cvFull, c) /\ UNCHANGED <<count, cv, pc, n>>
      BY <1>6 DEF ReleaseOne
    <2>2. TypeOK' /\ ListsInv' /\ PlacesInv'
      <3>1. CountStep(c) /\ n'[c] > 0
        BY <1>1, <1>3, <2>1 DEF CountStep, TypeOK
      <3>2. ListStep(cv, cv', c) /\ ListStep(cvFull, cvFull', c)
        BY <1>2, <1>3, <2>1, ListKept, ListEnter
      <3>3. pc' = [pc EXCEPT ![c] = "release"]
        BY <1>1, <1>2, <2>1 DEF TypeOK
      <3>4. ~Contains(cv', c)
        BY <1>2, <2>1
      <3> QED
        BY <1>1, <1>2, <1>4, <1>5, <3>1, <3>2, <3>3, <3>4, StepInv
    <2>3. Cardinality(Woken(Ctx, pc', cvFull', "release")) \in Nat
      BY WokenCount
    <2>4. /\ cv' # <<>> => Cardinality(Woken(Ctx, pc', cv', "acquire")) >= count'
          /\ cvFull' # <<>> => Cardinality(Woken(Ctx, pc', cvFull', "release")) >= size' - count'
      BY <1>2, <1>3, <1>6, <2>1, <2>3, SemaphoreNow
    <2> QED
      BY <1>2, <2>2, <2>4, SemaphoreThen DEF ToolsInv
  <1>7. CASE count # size
    <2>1. PICK to \in {"idle", "release"} :
            pc' = [pc EXCEPT ![c] = to] /\ (to = "release" => n[c] # 1)
      BY <1>7 DEF ReleaseOne, Goto
    <2>2. /\ count' = count + 1 /\ cv' = NotifyOne(cv) /\ cvFull' = cvFull
          /\ n' = [n EXCEPT ![c] = n[c] - 1]
      BY <1>7 DEF ReleaseOne
    <2>3. TypeOK' /\ ListsInv' /\ PlacesInv'
      <3>1. CountStep(c) /\ (to = "release" => n'[c] > 0)
        BY <1>1, <1>3, <1>7, <2>1, <2>2 DEF CountStep, TypeOK
      <3>2. ListStep(cv, cv', c) /\ ListStep(cvFull, cvFull', c)
        BY <1>2, <1>3, <2>2, ListKept, ListNotify
      <3>3. ~Contains(cv', c) /\ ~Contains(cvFull', c)
        BY <1>2, <1>3, <2>2, NotifyMembers
      <3> QED
        BY <1>1, <1>2, <1>4, <1>5, <2>1, <3>1, <3>2, <3>3, StepInv
    <2>4. \A d \in Ctx \ {c} : pc'[d] = pc[d]
      BY <1>1, <2>1 DEF TypeOK
    <2>5. cvFull' # <<>> => Cardinality(Woken(Ctx, pc', cvFull', "release")) >= size' - count'
      <3>1. Cardinality(Woken(Ctx, pc', cvFull, "release")) >= Cardinality(Woken(Ctx, pc, cvFull, "release")) - 1
        BY <2>4, OneGoesOn
      <3>2. /\ Cardinality(Woken(Ctx, pc', cvFull, "release")) \in Nat
            /\ Cardinality(Woken(Ctx, pc, cvFull, "release")) \in Nat
        BY WokenCount
      <3> QED
        BY <1>2, <1>3, <2>2, <3>1, <3>2, SemaphoreNow
    <2>6. cv' # <<>> => Cardinality(Woken(Ctx, pc', cv', "acquire")) >= count'
      <3> SUFFICES ASSUME cv' # <<>>
                   PROVE  Cardinality(Woken(Ctx, pc', cv', "acquire")) >= count'
        OBVIOUS
      <3>1. cv # <<>>
        BY <2>2 DEF NotifyOne
      <3>2. \A d \in Ctx : Contains(cv, d) => pc[d] = "acquire"
        BY <1>2, SemaphoreNow
      <3>3. Cardinality(Woken(Ctx, pc, cv', "acquire")) = Cardinality(Woken(Ctx, pc, cv, "acquire")) + 1
        BY <1>3, <2>2, <3>1, <3>2, NotifyWakesOne
      <3>4. \A d \in Ctx : pc[d] = "acquire" => pc'[d] = "acquire"
        BY <1>2, <2>4
      <3>5. Cardinality(Woken(Ctx, pc', cv', "acquire")) >= Cardinality(Woken(Ctx, pc, cv', "acquire"))
        BY <3>4, OthersStay
      <3>6. /\ Cardinality(Woken(Ctx, pc', cv', "acquire")) \in Nat
            /\ Cardinality(Woken(Ctx, pc, cv', "acquire")) \in Nat
            /\ Cardinality(Woken(Ctx, pc, cv, "acquire")) \in Nat
        BY WokenCount
      <3> QED
        BY <1>2, <1>3, <2>2, <3>1, <3>3, <3>5, <3>6, SemaphoreNow
    <2> QED
      BY <1>2, <2>3, <2>5, <2>6, SemaphoreThen DEF ToolsInv
  <1> QED
    BY <1>6, <1>7

-----------------------------------------------------------------------------
(* The latch and the wait group *)

LEMMA ReachedThen ==
    ASSUME UNCHANGED tool, tool \in {"latch", "wait group"}, Reached' => cv' = <<>>
    PROVE  EnoughAwake'
  BY DEF EnoughAwake

LEMMA ReachedNow ==
    ASSUME ToolsInv, tool \in {"latch", "wait group"}
    PROVE  Reached => cv = <<>>
  BY DEF ToolsInv, EnoughAwake

LEMMA CountDownInv ==
    ASSUME ToolsInv, NEW c \in Ctx, CountDown(c)
    PROVE  ToolsInv'
  <1>1. TypeOK /\ ListsInv /\ PlacesInv
    BY DEF ToolsInv
  <1>2. /\ pc[c] = "idle" /\ tool = "latch" /\ UNCHANGED <<tool, size, barrierVars, cvFull, n>>
        /\ ~Contains(cv, c) /\ ~Contains(cvFull, c)
        /\ calls' \in [Ctx -> 0..MaxCalls] /\ TimedStep
    BY <1>1, CallStep DEF CountDown, Call
  <1>3. /\ count \in 0..size /\ size \in Nat
        /\ cv \in Seq(Ctx) /\ cvFull \in Seq(Ctx) /\ IsInjective(cv) /\ IsInjective(cvFull)
    BY <1>1, <1>2 DEF TypeOK, ListsInv
  <1>4. PICK to \in {"idle", "wait"} :
          /\ pc' = [pc EXCEPT ![c] = to]
          /\ count' \in 0..count
          /\ \/ cv' = cv /\ (count' = 0 => count' = count)
             \/ cv' = <<>>
    <2>1. PICK m \in Amounts :
            IF count < m
            THEN UNCHANGED <<count, cv, pc>>
            ELSE /\ count' = count - m
                 /\ cv' = IF count' = 0 THEN <<>> ELSE cv
                 /\ \E to \in {"idle", "wait"} : Goto(c, to)
      BY DEF CountDown
    <2>2. m \in Nat
      OBVIOUS
    <2>3. CASE count < m
      <3>1. pc' = [pc EXCEPT ![c] = "idle"]
        BY <1>1, <1>2, <2>1, <2>3 DEF TypeOK
      <3> QED
        BY <1>3, <2>1, <2>3, <3>1
    <2>4. CASE ~(count < m)
      BY <1>3, <2>1, <2>2, <2>4 DEF Goto
    <2> QED
      BY <2>3, <2>4
  <1>5. TypeOK' /\ ListsInv' /\ PlacesInv'
    <2>1. CountStep(c)
      BY <1>1, <1>2, <1>3, <1>4 DEF CountStep, TypeOK
    <2>2. BarrierStep
      BY <1>1, <1>2 DEF BarrierStep, TypeOK, barrierVars
    <2>3. ListStep(cv, cv', c) /\ ListStep(cvFull, cvFull', c)
      BY <1>2, <1>3, <1>4, ListKept, ListEmpty
    <2>4. ~Contains(cv', c) /\ ~Contains(cvFull', c)
      BY <1>2, <1>4, NobodyInEmpty
    <2>5. tool \in InsideOf(to) /\ to \in Places /\ to # "release"
      BY <1>1, <1>2, Inside DEF TypeOK, Places
    <2> QED
      BY <1>1, <1>2, <1>4, <2>1, <2>2, <2>3, <2>4, <2>5, StepInv
  <1>6. Reached' => cv' = <<>>
    BY <1>2, <1>4, ReachedNow DEF Reached
  <1> QED
    BY <1>2, <1>5, <1>6, ReachedThen DEF ToolsInv

LEMMA DoneInv ==
    ASSUME ToolsInv, NEW c \in Ctx, Done(c)
    PROVE  ToolsInv'
  <1>1. TypeOK /\ ListsInv /\ PlacesInv
    BY DEF ToolsInv
  <1>2. /\ pc[c] = "idle" /\ tool = "wait group"
        /\ UNCHANGED <<tool, size, barrierVars, cvFull, pc, n>>
        /\ ~Contains(cv, c) /\ ~Contains(cvFull, c)
        /\ calls' \in [Ctx -> 0..MaxCalls] /\ TimedStep
    BY <1>1, CallStep DEF Done, Call
  <1>3. /\ count \in 0..size /\ size \in Nat
        /\ cv \in Seq(Ctx) /\ cvFull \in Seq(Ctx) /\ IsInjective(cv) /\ IsInjective(cvFull)
    BY <1>1, <1>2 DEF TypeOK, ListsInv
  <1>4. /\ count < size /\ count' = count + 1
        /\ cv' = IF count' = size THEN <<>> ELSE cv
    BY DEF Done
  <1>5. TypeOK' /\ ListsInv' /\ PlacesInv'
    <2>1. CountStep(c)
      <3>1. count' \in 0..size
        BY <1>3, <1>4
      <3>2. n' = n /\ n \in [Ctx -> Nat]
        BY <1>1, <1>2 DEF TypeOK
      <3> QED
        BY <3>1, <3>2 DEF CountStep
    <2>2. BarrierStep
      BY <1>1, <1>2 DEF BarrierStep, TypeOK, barrierVars
    <2>3. ListStep(cv, cv', c) /\ ListStep(cvFull, cvFull', c)
      BY <1>2, <1>3, <1>4, ListKept, ListEmpty
    <2>4. ~Contains(cv', c) /\ ~Contains(cvFull', c)
      BY <1>2, <1>4, NobodyInEmpty
    <2>5. tool \in InsideOf("idle") /\ "idle" \in Places
      BY <1>1, Inside DEF TypeOK, Places
    <2>6. pc' = [pc EXCEPT ![c] = "idle"]
      BY <1>1, <1>2 DEF TypeOK
    <2> QED
      BY <1>1, <1>2, <2>1, <2>2, <2>3, <2>4, <2>5, <2>6, StepInv
  <1>6. Reached' => cv' = <<>>
    BY <1>2, <1>3, <1>4 DEF Reached
  <1> QED
    BY <1>2, <1>5, <1>6, ReachedThen DEF ToolsInv

LEMMA WaitReachedInv ==
    ASSUME ToolsInv, NEW c \in Ctx, WaitReached(c)
    PROVE  ToolsInv'
  <1>1. TypeOK /\ ListsInv /\ PlacesInv
    BY DEF ToolsInv
  <1>2. /\ tool \in {"latch", "wait group"}
        /\ UNCHANGED <<tool, size, barrierVars, n>>
        /\ ~Contains(cv, c) /\ ~Contains(cvFull, c)
        /\ calls' \in [Ctx -> 0..MaxCalls] /\ TimedStep
    <2>1. CASE Call(c, "latch")
      BY <1>1, <2>1, CallStep DEF WaitReached, Call
    <2>2. CASE Call(c, "wait group")
      BY <1>1, <2>2, CallStep DEF WaitReached, Call
    <2>3. CASE Resume(c, "wait")
      BY <1>1, <2>3, ResumeStep, Inside DEF WaitReached
    <2> QED
      BY <2>1, <2>2, <2>3 DEF WaitReached
  <1>3. /\ cv \in Seq(Ctx) /\ cvFull \in Seq(Ctx) /\ IsInjective(cv) /\ IsInjective(cvFull)
        /\ UNCHANGED <<count, cvFull>>
    BY <1>1, <1>2 DEF TypeOK, ListsInv, WaitReached, Wait
  <1>4. PICK to \in {"idle", "wait"} :
          /\ pc' = [pc EXCEPT ![c] = to]
          /\ IF to = "idle" THEN cv' = cv ELSE ~Reached /\ cv' = Append(cv, c)
    BY DEF WaitReached, Wait, Goto
  <1>5. TypeOK' /\ ListsInv' /\ PlacesInv'
    <2>1. CountStep(c)
      BY <1>1, <1>2, <1>3 DEF CountStep, TypeOK
    <2>2. BarrierStep
      BY <1>1, <1>2 DEF BarrierStep, TypeOK, barrierVars
    <2>3. ListStep(cv, cv', c) /\ ListStep(cvFull, cvFull', c)
      BY <1>2, <1>3, <1>4, ListKept, ListEnter
    <2>4. (Contains(cv', c) => to \in Waits) /\ ~Contains(cvFull', c)
      BY <1>2, <1>3, <1>4 DEF Waits
    <2>5. tool \in InsideOf(to) /\ to \in Places /\ to # "release"
      BY <1>1, <1>2, Inside DEF TypeOK, Places
    <2> QED
      BY <1>1, <1>2, <1>4, <2>1, <2>2, <2>3, <2>4, <2>5, StepInv
  <1>6. Reached' => cv' = <<>>
    BY <1>2, <1>3, <1>4, ReachedNow DEF Reached
  <1> QED
    BY <1>2, <1>5, <1>6, ReachedThen DEF ToolsInv

-----------------------------------------------------------------------------
(* The barrier *)

(* Those of the present generation sleep, and no token is of a later one.   *)
LEMMA BarrierNow ==
    ASSUME ToolsInv, tool = "barrier", NEW c \in Ctx
    PROVE  /\ pc[c] = "barrier" => (Contains(cv, c) <=> token[c] = generation)
           /\ token[c] \in Nat /\ token[c] <= generation /\ generation \in Nat
  <1>1. EnoughAwake /\ TypeOK /\ ListsInv
    BY DEF ToolsInv
  <1>2. pc[c] = "barrier" => (Asleep(c) <=> token[c] = generation)
    BY <1>1 DEF EnoughAwake
  <1>3. pc[c] = "barrier" => ~Contains(cvFull, c)
    BY <1>1 DEF ListsInv
  <1>4. token[c] \in 0..generation /\ generation \in Nat
    BY <1>1 DEF TypeOK
  <1> QED
    BY <1>2, <1>3, <1>4 DEF Asleep

LEMMA BarrierThen ==
    ASSUME UNCHANGED tool, tool = "barrier", ListsInv',
           \A c \in Ctx : pc'[c] = "barrier" => (Contains(cv', c) <=> token'[c] = generation')
    PROVE  EnoughAwake'
  <1>1. \A c \in Ctx : pc'[c] = "barrier" => ~Contains(cvFull', c)
    BY DEF ListsInv
  <1>2. \A c \in Ctx : pc'[c] = "barrier" => (Asleep(c)' <=> token'[c] = generation')
    BY <1>1 DEF Asleep
  <1> QED
    BY <1>2 DEF EnoughAwake

LEMMA ArriveInv ==
    ASSUME ToolsInv, NEW c \in Ctx, Arrive(c)
    PROVE  ToolsInv'
  <1>1. TypeOK /\ ListsInv /\ PlacesInv
    BY DEF ToolsInv
  <1>2. /\ pc[c] = "idle" /\ tool = "barrier" /\ UNCHANGED <<tool, size>>
        /\ ~Contains(cv, c) /\ ~Contains(cvFull, c)
        /\ calls' \in [Ctx -> 0..MaxCalls] /\ TimedStep
    BY <1>1, CallStep DEF Arrive, Call
  <1>3. PICK m \in Amounts :
          expected >= m /\ expected' = expected - m /\ n' = [n EXCEPT ![c] = m]
    BY DEF Arrive
  <1>4. /\ pc' = [pc EXCEPT ![c] = "arrived"] /\ token' = [token EXCEPT ![c] = generation]
        /\ UNCHANGED <<count, generation, drops, cv, cvFull>>
    BY DEF Arrive, Goto
  <1>5. m \in Nat /\ size \in Nat /\ generation \in Nat /\ expected \in 0..size
    BY <1>1 DEF TypeOK
  <1>6. TypeOK' /\ ListsInv' /\ PlacesInv'
    <2>1. CountStep(c)
      BY <1>1, <1>2, <1>3, <1>4, <1>5 DEF CountStep, TypeOK
    <2>2. BarrierStep
      <3>1. expected' \in 0..size
        BY <1>3, <1>5
      <3>2. token' \in [Ctx -> 0..generation']
        BY <1>1, <1>4, <1>5 DEF TypeOK
      <3> QED
        BY <1>1, <1>4, <3>1, <3>2 DEF BarrierStep, TypeOK
    <2>3. ListStep(cv, cv', c) /\ ListStep(cvFull, cvFull', c)
      BY <1>1, <1>4, ListKept DEF TypeOK, ListsInv
    <2>4. tool \in InsideOf("arrived") /\ "arrived" \in Places
      BY <1>2, Inside DEF Places
    <2> QED
      BY <1>1, <1>2, <1>4, <2>1, <2>2, <2>3, <2>4, StepInv
  <1>7. \A d \in Ctx : pc'[d] = "barrier" => (Contains(cv', d) <=> token'[d] = generation')
    <2>1. \A d \in Ctx : pc'[d] = "barrier" => pc[d] = "barrier" /\ token'[d] = token[d]
      BY <1>1, <1>4 DEF TypeOK
    <2> QED
      BY <1>2, <1>4, <2>1, BarrierNow
  <1> QED
    BY <1>2, <1>6, <1>7, BarrierThen DEF ToolsInv

LEMMA ArriveAndDropInv ==
    ASSUME ToolsInv, NEW c \in Ctx, ArriveAndDrop(c)
    PROVE  ToolsInv'
  <1>1. TypeOK /\ ListsInv /\ PlacesInv
    BY DEF ToolsInv
  <1>2. /\ pc[c] = "idle" /\ tool = "barrier" /\ UNCHANGED <<tool, size>>
        /\ ~Contains(cv, c) /\ ~Contains(cvFull, c)
        /\ calls' \in [Ctx -> 0..MaxCalls] /\ TimedStep
    BY <1>1, CallStep DEF ArriveAndDrop, Call
  <1>3. /\ expected >= 1 /\ expected' = expected - 1 /\ drops' = drops + 1
        /\ UNCHANGED <<count, generation, token, cv, cvFull, pc, n>>
    BY DEF ArriveAndDrop
  <1>4. TypeOK' /\ ListsInv' /\ PlacesInv'
    <2>1. CountStep(c)
      BY <1>1, <1>2, <1>3 DEF CountStep, TypeOK
    <2>2. BarrierStep
      <3>1. size \in Nat /\ expected \in 0..size /\ drops \in Nat
        BY <1>1 DEF TypeOK
      <3>2. expected' \in 0..size /\ drops' \in Nat
        BY <1>3, <3>1
      <3> QED
        BY <1>1, <1>3, <3>2 DEF BarrierStep, TypeOK
    <2>3. ListStep(cv, cv', c) /\ ListStep(cvFull, cvFull', c)
      BY <1>1, <1>3, ListKept DEF TypeOK, ListsInv
    <2>4. tool \in InsideOf("idle") /\ "idle" \in Places
      BY <1>1, Inside DEF TypeOK, Places
    <2>5. pc' = [pc EXCEPT ![c] = "idle"]
      BY <1>1, <1>2, <1>3 DEF TypeOK
    <2> QED
      BY <1>1, <1>2, <1>3, <2>1, <2>2, <2>3, <2>4, <2>5, StepInv
  <1>5. \A d \in Ctx : pc'[d] = "barrier" => (Contains(cv', d) <=> token'[d] = generation')
    BY <1>2, <1>3, BarrierNow
  <1> QED
    BY <1>2, <1>4, <1>5, BarrierThen DEF ToolsInv

(* The last of a generation makes every token old, and nobody sleeps; the   *)
(* others go to sleep with the token of the present one.                    *)
LEMMA WaitBarrierInv ==
    ASSUME ToolsInv, NEW c \in Ctx, WaitBarrier(c)
    PROVE  ToolsInv'
  <1>1. TypeOK /\ ListsInv /\ PlacesInv
    BY DEF ToolsInv
  <1>2. /\ pc[c] = "arrived" /\ tool = "barrier" /\ UNCHANGED <<tool, size, token, n>>
        /\ ~Contains(cv, c) /\ ~Contains(cvFull, c)
        /\ calls' \in [Ctx -> 0..MaxCalls] /\ TimedStep
    BY <1>1, ResumeStep, Inside DEF WaitBarrier
  <1>3. /\ cv \in Seq(Ctx) /\ cvFull \in Seq(Ctx) /\ IsInjective(cv) /\ IsInjective(cvFull)
        /\ cvFull' = cvFull
        /\ size \in Nat /\ count \in Int /\ expected \in 0..size /\ drops \in Nat
        /\ generation \in Nat /\ token \in [Ctx -> 0..generation] /\ n \in [Ctx -> Nat]
        /\ pc \in [Ctx -> Places]
    BY <1>1 DEF TypeOK, ListsInv, WaitBarrier, Places
  <1>4. /\ tool \in InsideOf("idle") /\ tool \in InsideOf("barrier")
        /\ {"idle", "barrier"} \subseteq Places /\ "barrier" \in Waits
    BY <1>1, <1>2, Inside DEF TypeOK, Places, Waits
  <1>5. CASE token[c] # generation
    <2>1. /\ pc' = [pc EXCEPT ![c] = "idle"]
          /\ UNCHANGED <<count, expected, generation, drops, cv>>
      BY <1>5 DEF WaitBarrier, Goto
    <2>2. CountStep(c) /\ BarrierStep
      BY <1>2, <1>3, <2>1 DEF CountStep, BarrierStep
    <2>3. ListStep(cv, cv', c) /\ ListStep(cvFull, cvFull', c)
      BY <1>3, <2>1, ListKept
    <2>4. TypeOK' /\ ListsInv' /\ PlacesInv'
      BY <1>1, <1>2, <1>3, <1>4, <2>1, <2>2, <2>3, StepInv
    <2>5. \A d \in Ctx : pc'[d] = "barrier" => (Contains(cv', d) <=> token'[d] = generation')
      BY <1>2, <1>3, <2>1, BarrierNow
    <2> QED
      BY <1>2, <2>4, <2>5, BarrierThen DEF ToolsInv
  <1>6. CASE token[c] = generation /\ count = n[c]
    <2>1. /\ pc' = [pc EXCEPT ![c] = "idle"]
          /\ generation' = generation + 1 /\ count' = size /\ expected' = size
          /\ drops' = 0 /\ cv' = <<>>
      BY <1>6 DEF WaitBarrier, LastOne, Goto
    <2>2. CountStep(c) /\ BarrierStep
      BY <1>2, <1>3, <2>1 DEF CountStep, BarrierStep
    <2>3. ListStep(cv, cv', c) /\ ListStep(cvFull, cvFull', c) /\ ~Contains(cv', c)
      BY <1>3, <2>1, ListKept, ListEmpty, NobodyInEmpty
    <2>4. TypeOK' /\ ListsInv' /\ PlacesInv'
      BY <1>1, <1>2, <1>3, <1>4, <2>1, <2>2, <2>3, StepInv
    <2>5. \A d \in Ctx : ~Contains(cv', d) /\ token'[d] # generation'
      BY <1>2, <1>3, <2>1, NobodyInEmpty
    <2> QED
      BY <1>2, <2>4, <2>5, BarrierThen DEF ToolsInv
  <1>7. CASE token[c] = generation /\ count # n[c]
    <2>1. /\ pc' = [pc EXCEPT ![c] = "barrier"]
          /\ count' = count - n[c] /\ cv' = Append(cv, c)
          /\ UNCHANGED <<expected, generation, drops>>
      BY <1>7 DEF WaitBarrier, Goto
    <2>2. CountStep(c) /\ BarrierStep
      BY <1>2, <1>3, <2>1 DEF CountStep, BarrierStep
    <2>3. ListStep(cv, cv', c) /\ ListStep(cvFull, cvFull', c)
      BY <1>2, <1>3, <2>1, ListKept, ListEnter
    <2>4. TypeOK' /\ ListsInv' /\ PlacesInv'
      BY <1>1, <1>2, <1>3, <1>4, <2>1, <2>2, <2>3, StepInv
    <2>5. \A d \in Ctx : Contains(cv', d) <=> Contains(cv, d) \/ d = c
      BY <1>3, <2>1, ContainsAppend
    <2>6. \A d \in Ctx : pc'[d] = "barrier" => (Contains(cv', d) <=> token'[d] = generation')
      BY <1>2, <1>3, <1>7, <2>1, <2>5, BarrierNow
    <2> QED
      BY <1>2, <2>4, <2>6, BarrierThen DEF ToolsInv
  <1> QED
    BY <1>5, <1>6, <1>7

LEMMA PassInv ==
    ASSUME ToolsInv, NEW c \in Ctx, Pass(c)
    PROVE  ToolsInv'
  <1>1. TypeOK /\ ListsInv /\ PlacesInv
    BY DEF ToolsInv
  <1>2. /\ pc[c] = "barrier" /\ tool = "barrier" /\ UNCHANGED <<tool, size>>
        /\ ~Contains(cv, c) /\ ~Contains(cvFull, c)
        /\ calls' \in [Ctx -> 0..MaxCalls] /\ TimedStep
    BY <1>1, ResumeStep, Inside DEF Pass
  <1>3. /\ pc' = [pc EXCEPT ![c] = "idle"]
        /\ UNCHANGED <<count, barrierVars, cv, cvFull, n>>
    BY DEF Pass, Goto
  <1>4. TypeOK' /\ ListsInv' /\ PlacesInv'
    <2>1. CountStep(c) /\ BarrierStep
      BY <1>1, <1>2, <1>3 DEF CountStep, BarrierStep, TypeOK, barrierVars
    <2>2. ListStep(cv, cv', c) /\ ListStep(cvFull, cvFull', c)
      BY <1>1, <1>3, ListKept DEF TypeOK, ListsInv
    <2>3. tool \in InsideOf("idle") /\ "idle" \in Places
      BY <1>1, Inside DEF TypeOK, Places
    <2> QED
      BY <1>1, <1>2, <1>3, <2>1, <2>2, <2>3, StepInv
  <1>5. \A d \in Ctx : pc'[d] = "barrier" => (Contains(cv', d) <=> token'[d] = generation')
    <2>1. \A d \in Ctx : pc'[d] = "barrier" => pc[d] = "barrier"
      BY <1>1, <1>3 DEF TypeOK
    <2> QED
      BY <1>2, <1>3, <2>1, BarrierNow DEF barrierVars
  <1> QED
    BY <1>2, <1>4, <1>5, BarrierThen DEF ToolsInv

-----------------------------------------------------------------------------
(* The condition variable *)

(* All that is left to say of it is in ListsInv.                            *)
LEMMA CondThen ==
    ASSUME UNCHANGED tool, tool = "condition variable", TypeOK', ListsInv', PlacesInv'
    PROVE  ToolsInv'
  BY DEF ToolsInv, EnoughAwake, ListsInv

LEMMA CondStep ==
    ASSUME ToolsInv, tool = "condition variable", NEW c \in Ctx,
           NEW to \in {"idle", "armed", "timed"}, pc' = [pc EXCEPT ![c] = to],
           UNCHANGED <<tool, size, count, barrierVars, cvFull, n>>,
           calls' \in [Ctx -> 0..MaxCalls], TimedStep,
           ListStep(cv, cv', c), ~Contains(cvFull, c),
           Contains(cv', c) => to = "timed"
    PROVE  ToolsInv'
  <1>1. TypeOK /\ ListsInv /\ PlacesInv
    BY DEF ToolsInv
  <1>2. CountStep(c) /\ BarrierStep
    BY <1>1 DEF CountStep, BarrierStep, TypeOK, barrierVars
  <1>3. ListStep(cvFull, cvFull', c)
    BY <1>1, ListKept DEF TypeOK, ListsInv
  <1>4. tool \in InsideOf(to) /\ to \in Places /\ (to = "timed" => to \in Waits)
    BY <1>1, Inside DEF TypeOK, Places, Waits
  <1>5. TypeOK' /\ ListsInv' /\ PlacesInv'
    BY <1>1, <1>2, <1>3, <1>4, StepInv
  <1> QED
    BY <1>5, CondThen

LEMMA WaitUntilInv ==
    ASSUME ToolsInv, NEW c \in Ctx, WaitUntil(c)
    PROVE  ToolsInv'
  <1>1. TypeOK /\ ListsInv /\ PlacesInv
    BY DEF ToolsInv
  <1>2. /\ pc[c] = "idle" /\ tool = "condition variable" /\ UNCHANGED <<tool, size>>
        /\ ~Contains(cv, c) /\ ~Contains(cvFull, c)
        /\ calls' \in [Ctx -> 0..MaxCalls]
        /\ calls'[c] > 0 /\ \A d \in Ctx \ {c} : calls'[d] = calls[d]
    BY <1>1, CallStep DEF WaitUntil, Call
  <1>3. /\ timer' = [timer EXCEPT ![c] = "running"] /\ pc' = [pc EXCEPT ![c] = "armed"]
        /\ UNCHANGED <<count, barrierVars, cv, cvFull, n, due, timeout>>
    BY DEF WaitUntil, Goto
  <1>4. TimedStep
    BY <1>1, <1>2, <1>3 DEF TimedStep, TypeOK, PlacesInv
  <1>5. ListStep(cv, cv', c)
    BY <1>1, <1>3, ListKept DEF TypeOK, ListsInv
  <1> QED
    BY <1>2, <1>3, <1>4, <1>5, CondStep

LEMMA EnlistInv ==
    ASSUME ToolsInv, NEW c \in Ctx, Enlist(c)
    PROVE  ToolsInv'
  <1>1. TypeOK /\ ListsInv /\ PlacesInv
    BY DEF ToolsInv
  <1>2. /\ pc[c] = "armed" /\ tool = "condition variable" /\ UNCHANGED <<tool, size>>
        /\ ~Contains(cv, c) /\ ~Contains(cvFull, c)
        /\ calls' \in [Ctx -> 0..MaxCalls] /\ TimedStep
    <2>1. Resume(c, "armed")
      BY DEF Enlist
    <2>2. pc[c] = "armed" /\ tool = "condition variable"
      BY <1>1, <2>1, ResumeStep, Inside
    <2> QED
      BY <1>1, <2>1, <2>2, ResumeStep
  <1>3. /\ cv' = Append(cv, c) /\ pc' = [pc EXCEPT ![c] = "timed"]
        /\ UNCHANGED <<count, barrierVars, cvFull, n>>
    BY DEF Enlist, Goto
  <1>4. ListStep(cv, cv', c)
    BY <1>1, <1>2, <1>3, ListEnter DEF TypeOK, ListsInv
  <1> QED
    BY <1>2, <1>3, <1>4, CondStep

LEMMA WaitUntilReturnInv ==
    ASSUME ToolsInv, NEW c \in Ctx, WaitUntilReturn(c)
    PROVE  ToolsInv'
  <1>1. TypeOK /\ ListsInv /\ PlacesInv
    BY DEF ToolsInv
  <1>2. /\ pc[c] = "timed" /\ tool = "condition variable" /\ UNCHANGED <<tool, size>>
        /\ ~Contains(cv, c) /\ ~Contains(cvFull, c)
        /\ calls' \in [Ctx -> 0..MaxCalls] /\ calls' = calls
    BY <1>1, ResumeStep, Inside DEF WaitUntilReturn
  <1>3. /\ timer' = [timer EXCEPT ![c] = "stopped"] /\ pc' = [pc EXCEPT ![c] = "idle"]
        /\ UNCHANGED <<count, barrierVars, cv, cvFull, n, due, timeout>>
    BY DEF WaitUntilReturn, Goto
  <1>4. TimedStep
    BY <1>1, <1>2, <1>3 DEF TimedStep, TypeOK, PlacesInv
  <1>5. ListStep(cv, cv', c)
    BY <1>1, <1>3, ListKept DEF TypeOK, ListsInv
  <1> QED
    BY <1>2, <1>3, <1>4, <1>5, CondStep

LEMMA WaitUntilAgainInv ==
    ASSUME ToolsInv, NEW c \in Ctx, WaitUntilAgain(c)
    PROVE  ToolsInv'
  <1>1. TypeOK /\ ListsInv /\ PlacesInv
    BY DEF ToolsInv
  <1>2. /\ pc[c] = "timed" /\ tool = "condition variable" /\ UNCHANGED <<tool, size>>
        /\ ~Contains(cv, c) /\ ~Contains(cvFull, c)
        /\ calls' \in [Ctx -> 0..MaxCalls] /\ calls' = calls
    BY <1>1, ResumeStep, Inside DEF WaitUntilAgain
  <1>3. /\ pc' = [pc EXCEPT ![c] = "armed"]
        /\ UNCHANGED <<count, barrierVars, cv, cvFull, n, timedVars>>
    BY DEF WaitUntilAgain, Goto
  <1>4. TimedStep
    BY <1>1, <1>2, <1>3 DEF TimedStep, TypeOK, PlacesInv, timedVars
  <1>5. ListStep(cv, cv', c)
    BY <1>1, <1>3, ListKept DEF TypeOK, ListsInv
  <1> QED
    BY <1>2, <1>3, <1>4, <1>5, CondStep

LEMMA NotifyInv ==
    ASSUME ToolsInv, NEW c \in Ctx, Notify(c)
    PROVE  ToolsInv'
  <1>1. TypeOK /\ ListsInv /\ PlacesInv
    BY DEF ToolsInv
  <1>2. /\ pc[c] = "idle" /\ tool = "condition variable" /\ UNCHANGED <<tool, size>>
        /\ ~Contains(cv, c) /\ ~Contains(cvFull, c)
        /\ calls' \in [Ctx -> 0..MaxCalls]
        /\ calls'[c] > 0 /\ \A d \in Ctx \ {c} : calls'[d] = calls[d]
    BY <1>1, CallStep DEF Notify, Call
  <1>3. /\ cv' \in {NotifyOne(cv), <<>>}
        /\ UNCHANGED <<count, barrierVars, cvFull, pc, n, timedVars>>
    BY DEF Notify
  <1>4. TimedStep
    BY <1>1, <1>2, <1>3 DEF TimedStep, TypeOK, PlacesInv, timedVars
  <1>5. cv \in Seq(Ctx) /\ IsInjective(cv) /\ pc' = [pc EXCEPT ![c] = "idle"]
    BY <1>1, <1>2, <1>3 DEF TypeOK, ListsInv
  <1>6. ListStep(cv, cv', c) /\ ~Contains(cv', c)
    <2>1. CASE cv' = NotifyOne(cv)
      BY <1>2, <1>5, <2>1, ListNotify, NotifyMembers
    <2>2. CASE cv' = <<>>
      BY <2>2, ListEmpty, NobodyInEmpty
    <2> QED
      BY <1>3, <2>1, <2>2
  <1> QED
    BY <1>2, <1>3, <1>4, <1>5, <1>6, CondStep

(* A timer has its own steps, and c may be anywhere, or in the list.        *)
LEMMA TimerStepInv ==
    ASSUME ToolsInv, NEW c \in Ctx, tool = "condition variable",
           UNCHANGED <<countVars, pc, calls>>, TimedStep,
           cv' = cv \/ cv' = Only(cv, Ctx \ {c})
    PROVE  ToolsInv'
  <1>1. TypeOK /\ ListsInv /\ PlacesInv
    BY DEF ToolsInv
  <1>2. /\ cv' \in Seq(Ctx) /\ IsInjective(cv')
        /\ \A d \in Ctx : Contains(cv', d) => Contains(cv, d)
    <2>1. cv \in Seq(Ctx) /\ IsInjective(cv)
      BY <1>1 DEF TypeOK, ListsInv
    <2>2. CASE cv' = cv
      BY <2>1, <2>2
    <2>3. CASE cv' = Only(cv, Ctx \ {c})
      BY <2>1, <2>3, OnlyLess
    <2> QED
      BY <2>2, <2>3
  <1>3. TypeOK'
    <2>1. UNCHANGED <<tool, size, count, expected, generation, drops, token, cvFull, n, pc, calls>>
      BY DEF countVars, barrierVars
    <2> QED
      BY <1>1, <1>2, <2>1 DEF TypeOK, TimedStep
  <1>4. ListsInv'
    BY <1>1, <1>2 DEF ListsInv, countVars
  <1>5. PlacesInv'
    BY <1>1 DEF PlacesInv, TimedStep, countVars
  <1> QED
    BY <1>3, <1>4, <1>5, CondThen DEF countVars

LEMMA TimerInv ==
    ASSUME ToolsInv, NEW c \in Ctx, Timer(c)
    PROVE  ToolsInv'
  <1>1. TypeOK /\ ListsInv /\ PlacesInv
    BY DEF ToolsInv
  <1>2. CASE Expire(c)
    <2>1. /\ timer[c] = "running" /\ timer' = [timer EXCEPT ![c] = "expired"]
          /\ due' = due \cup {<<c, calls[c]>>}
          /\ UNCHANGED <<countVars, cv, pc, calls, timeout>>
      BY <1>2 DEF Expire
    <2>2. tool = "condition variable"
      BY <1>1, <2>1 DEF PlacesInv
    <2>3. TimedStep
      <3>1. calls[c] \in 0..MaxCalls /\ calls[c] > 0
        BY <1>1, <2>1 DEF TypeOK, PlacesInv
      <3>2. <<c, calls[c]>> \in Ctx \X (1..MaxCalls)
        BY <3>1
      <3>3. due' \subseteq Ctx \X (1..MaxCalls)
        BY <1>1, <2>1, <3>2 DEF TypeOK
      <3>4. timer' \in [Ctx -> {"stopped", "running", "expired"}] /\ timeout' \in BOOLEAN
        BY <1>1, <2>1 DEF TypeOK
      <3>5. \A d \in Ctx : timer'[d] # "stopped" => timer[d] # "stopped"
        BY <1>1, <2>1 DEF TypeOK
      <3>6. calls' = calls
        BY <2>1
      <3> QED
        BY <1>1, <2>2, <3>3, <3>4, <3>5, <3>6 DEF TimedStep, PlacesInv
    <2> QED
      BY <2>1, <2>2, <2>3, TimerStepInv
  <1>3. ASSUME NEW k \in 1..MaxCalls, TimeOut(c, k) PROVE ToolsInv'
    <2>1. /\ <<c, k>> \in due /\ due' = due \ {<<c, k>>}
          /\ cv' = Only(cv, Ctx \ {c}) /\ timeout' = TRUE
          /\ UNCHANGED <<countVars, pc, calls, timer>>
      BY <1>3 DEF TimeOut
    <2>2. tool = "condition variable"
      BY <1>1, <2>1 DEF PlacesInv
    <2>3. TimedStep
      BY <1>1, <2>1, <2>2 DEF TimedStep, TypeOK, PlacesInv
    <2> QED
      BY <2>1, <2>2, <2>3, TimerStepInv
  <1> QED
    BY <1>2, <1>3 DEF Timer

-----------------------------------------------------------------------------
LEMMA InitToolsInv == Init => ToolsInv
  <1> SUFFICES ASSUME Init PROVE ToolsInv
    OBVIOUS
  <1>1. /\ tool \in Tools /\ size \in Sizes /\ expected = size /\ generation = 0
        /\ drops = 0 /\ cv = <<>> /\ cvFull = <<>> /\ pc = [c \in Ctx |-> "idle"]
        /\ n = [c \in Ctx |-> 0] /\ token = [c \in Ctx |-> 0] /\ calls = [c \in Ctx |-> 0]
        /\ timer = [c \in Ctx |-> "stopped"] /\ due = {} /\ timeout = FALSE
    BY DEF Init
  <1>2. size \in Nat /\ size > 0 /\ size \in 0..size /\ count \in 0..size /\ count \in Int
    <2>1. size \in Nat /\ size > 0
      BY <1>1, SizesNatural
    <2>2. 0 \in 0..size /\ size \in 0..size
      BY <2>1
    <2>3. count \in 0..size \/ count = 0 \/ count = size
      BY DEF Init
    <2>4. count \in 0..size
      BY <2>2, <2>3, Zenon
    <2>5. count \in Int
      BY <2>4
    <2> QED
      BY <2>1, <2>2, <2>4, <2>5
  <1>3. TypeOK
    <2>1. cv \in Seq(Ctx) /\ cvFull \in Seq(Ctx)
      BY <1>1
    <2>2. expected \in 0..size /\ drops \in Nat /\ generation \in Nat /\ count \in Int
      BY <1>1, <1>2
    <2>4. token \in [Ctx -> 0..generation]
      <3>1. 0 \in 0..generation
        BY <1>1
      <3> QED
        BY <1>1, <3>1
    <2>3. calls \in [Ctx -> 0..MaxCalls] /\ n \in [Ctx -> Nat]
      BY <1>1
    <2> QED
      BY <1>1, <1>2, <2>1, <2>2, <2>3, <2>4 DEF TypeOK
  <1>4. ListsInv
    BY <1>1, NobodyInEmpty DEF ListsInv, IsInjective
  <1>5. PlacesInv
    BY <1>1, Inside DEF PlacesInv
  <1>6. EnoughAwake
    BY <1>1, <1>4 DEF EnoughAwake, ListsInv, Tools
  <1> QED
    BY <1>3, <1>4, <1>5, <1>6 DEF ToolsInv

LEMMA NextToolsInv ==
    ASSUME ToolsInv, [Next]_vars
    PROVE  ToolsInv'
  <1>1. ASSUME NEW c \in Ctx, Go(c) PROVE ToolsInv'
    BY <1>1, AcquireInv, ReleaseOneInv, WaitReachedInv, WaitBarrierInv, PassInv,
       EnlistInv, WaitUntilReturnInv, WaitUntilAgainInv DEF Go
  <1>2. ASSUME NEW c \in Ctx,
               \/ TryAcquire(c) \/ Release(c) \/ CountDown(c) \/ Done(c) \/ Arrive(c)
               \/ ArriveAndDrop(c) \/ WaitUntil(c) \/ Notify(c)
        PROVE  ToolsInv'
    BY <1>2, TryAcquireInv, ReleaseInv, CountDownInv, DoneInv, ArriveInv,
       ArriveAndDropInv, WaitUntilInv, NotifyInv
  <1>3. ASSUME UNCHANGED vars PROVE ToolsInv'
    <2>1. UNCHANGED <<tool, size, count, expected, generation, drops, token, cv, cvFull, n,
                      pc, calls, timer, due, timeout>>
      BY <1>3 DEF vars, countVars, barrierVars, timedVars
    <2>2. TypeOK' /\ ListsInv' /\ PlacesInv'
      BY <2>1 DEF ToolsInv, TypeOK, ListsInv, PlacesInv
    <2>3. EnoughAwake'
      BY <2>1 DEF ToolsInv, EnoughAwake, Awake, Asleep, Reached
    <2> QED
      BY <2>2, <2>3 DEF ToolsInv
  <1> QED
    BY <1>1, <1>2, <1>3, TimerInv DEF Next

-----------------------------------------------------------------------------
(* Each of the tools is always in a state that its invariant describes      *)
(* (co_counting_semaphore.h, co_latch.cpp, co_wait_group.cpp, co_barrier.h, *)
(* co_condition_variable.h).                                                *)
THEOREM ToolsInvariance == SafeSpec => []ToolsInv
  <1>1. ToolsInv /\ [Next]_vars => ToolsInv'
    BY NextToolsInv
  <1> QED
    BY <1>1, InitToolsInv, PTL DEF SafeSpec

(* Nobody sleeps on what has come: one notify_one per release and acquire   *)
(* is enough for the semaphore, a latch or a wait group that is reached has *)
(* told everybody, exactly those of the present generation sleep at the     *)
(* barrier, and no timer or notification puts anybody in a list twice.      *)
THEOREM ToolsEnoughAwake == SafeSpec => []EnoughAwake
  <1>1. ToolsInv => EnoughAwake
    BY DEF ToolsInv
  <1> QED
    BY <1>1, ToolsInvariance, PTL

-----------------------------------------------------------------------------
(* What the barrier counts *)

(* The equation is enough: what is in it is natural, so the bounds follow.  *)
LEMMA ArrivedSum ==
    ASSUME ToolsInv
    PROVE  IsFiniteSet(Arrived) /\ Sum(n, Arrived) \in Nat
  <1>1. IsFiniteSet(Arrived)
    BY FS_Subset DEF Arrived
  <1>2. \A c \in Arrived : n[c] \in Nat
    BY DEF ToolsInv, TypeOK, Arrived
  <1> QED
    BY <1>1, <1>2, SumRemove

LEMMA BarrierEquation ==
    ASSUME ToolsInv', count' \in Int, count' <= size', Arrived' \in SUBSET Ctx,
           count' = expected' + drops' + Sum(n', Arrived')
    PROVE  BarrierCounts'
  <1>1. size' \in Nat /\ expected' \in Nat /\ drops' \in Nat /\ n' \in [Ctx -> Nat]
    BY DEF ToolsInv, TypeOK
  <1>2. IsFiniteSet(Arrived') /\ \A c \in Arrived' : n'[c] \in Nat
    BY <1>1, FS_Subset
  <1>3. Sum(n', Arrived') \in Nat
    BY <1>2, SumRemove
  <1>4. count' \in 0..size' /\ drops' <= size'
    BY <1>1, <1>3
  <1> QED
    BY <1>4 DEF BarrierCounts

LEMMA ArriveCounts ==
    ASSUME ToolsInv, ToolsInv', BarrierCounts, NEW c \in Ctx, Arrive(c)
    PROVE  BarrierCounts'
  <1>1. pc[c] = "idle" /\ tool = "barrier" /\ UNCHANGED <<tool, size>>
    BY DEF Arrive, Call
  <1>2. PICK m \in Amounts :
          expected >= m /\ expected' = expected - m /\ n' = [n EXCEPT ![c] = m]
    BY DEF Arrive
  <1>3. /\ pc' = [pc EXCEPT ![c] = "arrived"] /\ token' = [token EXCEPT ![c] = generation]
        /\ UNCHANGED <<count, generation, drops>>
    BY DEF Arrive, Goto
  <1>4. /\ m \in Nat /\ size \in Nat /\ expected \in Nat /\ drops \in Nat /\ count \in Int
        /\ n \in [Ctx -> Nat] /\ DOMAIN pc = Ctx /\ DOMAIN token = Ctx
    BY DEF ToolsInv, TypeOK
  <1>5. c \notin Arrived /\ Arrived' = Arrived \cup {c}
    BY <1>1, <1>3, <1>4 DEF Arrived
  <1>6. IsFiniteSet(Arrived) /\ Sum(n, Arrived) \in Nat
    BY ArrivedSum
  <1>7. Sum(n', Arrived') = Sum(n, Arrived) + m
    <2>1. IsFiniteSet(Arrived') /\ \A d \in Arrived' : n'[d] \in Nat
      BY <1>2, <1>4, <1>5, <1>6, FS_AddElement DEF Arrived
    <2>2. c \in Arrived' /\ Arrived' \ {c} = Arrived /\ n'[c] = m
      BY <1>2, <1>4, <1>5
    <2>3. Sum(n', Arrived') = Sum(n', Arrived) + m
      BY <2>1, <2>2, SumRemove
    <2>4. \A d \in Arrived : n'[d] = n[d]
      BY <1>2, <1>4, <1>5
    <2>5. Sum(n', Arrived) = Sum(n, Arrived)
      BY <1>6, <2>4, SumSame
    <2> QED
      BY <2>3, <2>5
  <1>8. count \in 0..size /\ count = expected + drops + Sum(n, Arrived)
    BY <1>1 DEF BarrierCounts
  <1>9. /\ count' \in Int /\ count' <= size'
        /\ count' = expected' + drops' + Sum(n', Arrived')
    BY <1>1, <1>2, <1>3, <1>4, <1>6, <1>7, <1>8
  <1>10. Arrived' \in SUBSET Ctx
    BY DEF Arrived
  <1> QED
    BY <1>9, <1>10, BarrierEquation

LEMMA ArriveAndDropCounts ==
    ASSUME ToolsInv, ToolsInv', BarrierCounts, NEW c \in Ctx, ArriveAndDrop(c)
    PROVE  BarrierCounts'
  <1>1. tool = "barrier" /\ UNCHANGED <<tool, size>>
    BY DEF ArriveAndDrop, Call
  <1>2. /\ expected' = expected - 1 /\ drops' = drops + 1
        /\ UNCHANGED <<count, generation, token, pc, n>>
    BY DEF ArriveAndDrop
  <1>3. size \in Nat /\ expected \in Nat /\ drops \in Nat /\ count \in Int
    BY DEF ToolsInv, TypeOK
  <1>4. Arrived' = Arrived /\ Arrived \in SUBSET Ctx
    BY <1>2 DEF Arrived
  <1>5. count \in 0..size /\ count = expected + drops + Sum(n, Arrived) /\ Sum(n, Arrived) \in Nat
    BY <1>1, ArrivedSum DEF BarrierCounts
  <1>6. Sum(n', Arrived') = Sum(n, Arrived)
    BY <1>2, <1>4
  <1>7. /\ count' \in Int /\ count' <= size'
        /\ count' = expected' + drops' + Sum(n', Arrived')
    BY <1>1, <1>2, <1>3, <1>5, <1>6
  <1> QED
    BY <1>4, <1>7, BarrierEquation

(* The last one makes the tokens of all who have arrived old; the others    *)
(* take what they came with out of the count, and are no longer arrived.    *)
LEMMA WaitBarrierCounts ==
    ASSUME ToolsInv, ToolsInv', BarrierCounts, NEW c \in Ctx, WaitBarrier(c)
    PROVE  BarrierCounts'
  <1>1. pc[c] = "arrived" /\ UNCHANGED <<tool, size, token, n>>
    BY DEF WaitBarrier, Resume
  <1>2. tool = "barrier"
    BY <1>1, Inside DEF ToolsInv, PlacesInv
  <1>3. /\ size \in Nat /\ expected \in Nat /\ drops \in Nat /\ count \in Int
        /\ generation \in Nat /\ token \in [Ctx -> 0..generation]
        /\ n \in [Ctx -> Nat] /\ DOMAIN pc = Ctx
    <2>1. TypeOK
      BY DEF ToolsInv
    <2>2. size \in Nat
      BY <2>1 DEF TypeOK
    <2> QED
      BY <2>1, <2>2 DEF TypeOK
  <1>4. Arrived' \in SUBSET Ctx
    BY DEF Arrived
  <1>5. IsFiniteSet(Arrived) /\ Sum(n, Arrived) \in Nat
    BY ArrivedSum
  <1>6. count \in 0..size /\ count = expected + drops + Sum(n, Arrived)
    BY <1>2 DEF BarrierCounts
  <1>7. CASE token[c] # generation
    <2>1. pc' = [pc EXCEPT ![c] = "idle"] /\ UNCHANGED <<count, expected, generation, drops>>
      BY <1>7 DEF WaitBarrier, Goto
    <2>2. Arrived' = Arrived
      BY <1>1, <1>3, <1>7, <2>1 DEF Arrived
    <2>3. Sum(n', Arrived') = Sum(n, Arrived)
      BY <1>1, <2>2
    <2> QED
      BY <1>1, <1>3, <1>4, <1>6, <2>1, <2>3, BarrierEquation
  <1>8. CASE token[c] = generation /\ count = n[c]
    <2>1. generation' = generation + 1 /\ count' = size /\ expected' = size /\ drops' = 0
      BY <1>8 DEF WaitBarrier, LastOne
    <2>2. Arrived' = {}
      <3>1. \A d \in Ctx : token'[d] # generation'
        BY <1>1, <1>3, <2>1
      <3> QED
        BY <3>1 DEF Arrived
    <2>3. Sum(n', Arrived') = 0
      BY <2>2, SumEmpty
    <2> QED
      BY <1>1, <1>3, <1>4, <2>1, <2>3, BarrierEquation
  <1>9. CASE token[c] = generation /\ count # n[c]
    <2>1. /\ pc' = [pc EXCEPT ![c] = "barrier"] /\ count' = count - n[c]
          /\ UNCHANGED <<expected, generation, drops>>
      BY <1>9 DEF WaitBarrier, Goto
    <2>2. c \in Arrived /\ Arrived' = Arrived \ {c}
      BY <1>1, <1>3, <1>9, <2>1 DEF Arrived
    <2>3. \A d \in Arrived : n[d] \in Nat
      BY <1>3 DEF Arrived
    <2>4. Sum(n, Arrived) = Sum(n, Arrived \ {c}) + n[c] /\ Sum(n, Arrived \ {c}) \in Nat
      BY <1>5, <2>2, <2>3, SumRemove
    <2>5. Sum(n', Arrived') = Sum(n, Arrived \ {c})
      BY <1>1, <2>2
    <2>6. n[c] \in Nat
      BY <1>3
    <2> QED
      BY <1>1, <1>3, <1>4, <1>6, <2>1, <2>4, <2>5, <2>6, BarrierEquation
  <1> QED
    BY <1>7, <1>8, <1>9

LEMMA PassCounts ==
    ASSUME BarrierCounts, ToolsInv, NEW c \in Ctx, Pass(c)
    PROVE  BarrierCounts'
  <1>1. /\ pc[c] = "barrier" /\ pc' = [pc EXCEPT ![c] = "idle"]
        /\ UNCHANGED <<tool, size, count, barrierVars, n>>
    BY DEF Pass, Resume, Goto
  <1>2. DOMAIN pc = Ctx
    BY DEF ToolsInv, TypeOK
  <1>3. Arrived' = Arrived
    BY <1>1, <1>2 DEF Arrived, barrierVars
  <1> QED
    BY <1>1, <1>3 DEF BarrierCounts, barrierVars

(* The other steps are of the other tools.                                  *)
LEMMA OtherTools ==
    ASSUME ToolsInv, NEW c \in Ctx,
           \/ Acquire(c) \/ ReleaseOne(c) \/ WaitReached(c) \/ Enlist(c) \/ WaitUntilReturn(c)
           \/ WaitUntilAgain(c) \/ Timer(c) \/ TryAcquire(c) \/ Release(c) \/ CountDown(c)
           \/ Done(c) \/ WaitUntil(c) \/ Notify(c)
    PROVE  UNCHANGED tool /\ tool # "barrier"
  <1>1. \A d \in Ctx : /\ tool \in InsideOf(pc[d])
                       /\ timer[d] # "stopped" => tool = "condition variable"
    BY DEF ToolsInv, PlacesInv
  <1>2. due # {} => tool = "condition variable"
    BY DEF ToolsInv, PlacesInv
  <1>3. CASE Acquire(c) \/ ReleaseOne(c) \/ WaitReached(c)
    BY <1>1, <1>3, Inside DEF Acquire, ReleaseOne, WaitReached, Call, Resume
  <1>4. CASE Enlist(c) \/ WaitUntilReturn(c) \/ WaitUntilAgain(c)
    BY <1>1, <1>4, Inside DEF Enlist, WaitUntilReturn, WaitUntilAgain, Resume
  <1>5. CASE Timer(c)
    BY <1>1, <1>2, <1>5 DEF Timer, Expire, TimeOut, countVars
  <1>6. CASE \/ TryAcquire(c) \/ Release(c) \/ CountDown(c) \/ Done(c) \/ WaitUntil(c)
             \/ Notify(c)
    BY <1>6 DEF TryAcquire, Release, CountDown, Done, WaitUntil, Notify, Call
  <1> QED
    BY <1>3, <1>4, <1>5, <1>6

LEMMA InitCounts == Init => BarrierCounts
  <1> SUFFICES ASSUME Init, tool = "barrier"
               PROVE  /\ count \in 0..size /\ drops <= size
                      /\ count = expected + drops + Sum(n, Arrived)
    BY DEF BarrierCounts
  <1>1. count = size /\ expected = size /\ drops = 0 /\ size \in Sizes /\ pc = [c \in Ctx |-> "idle"]
    BY DEF Init
  <1>2. size \in Nat
    BY <1>1, SizesNatural
  <1>3. Arrived = {}
    BY <1>1 DEF Arrived
  <1>4. Sum(n, Arrived) = 0
    BY <1>3, SumEmpty
  <1> QED
    BY <1>1, <1>2, <1>4

(* The counters of the barrier stay within the bounds that its assertions   *)
(* give (co_barrier.h), and what it still waits for is what it expects,     *)
(* what has dropped out and what has arrived and not waited yet.            *)
THEOREM SyncInvariance == SafeSpec => []SyncInv
  <1>1. Init => SyncInv
    BY InitToolsInv, InitCounts DEF SyncInv
  <1>2. ASSUME SyncInv, [Next]_vars PROVE SyncInv'
    <2>1. ToolsInv /\ BarrierCounts /\ ToolsInv'
      BY <1>2, NextToolsInv DEF SyncInv
    <2>2. ASSUME NEW c \in Ctx, Arrive(c) PROVE BarrierCounts'
      BY <2>1, <2>2, ArriveCounts
    <2>3. ASSUME NEW c \in Ctx, ArriveAndDrop(c) PROVE BarrierCounts'
      BY <2>1, <2>3, ArriveAndDropCounts
    <2>4. ASSUME NEW c \in Ctx, WaitBarrier(c) PROVE BarrierCounts'
      BY <2>1, <2>4, WaitBarrierCounts
    <2>5. ASSUME NEW c \in Ctx, Pass(c) PROVE BarrierCounts'
      BY <2>1, <2>5, PassCounts
    <2>6. ASSUME UNCHANGED tool, tool # "barrier" PROVE BarrierCounts'
      BY <2>6 DEF BarrierCounts
    <2>7. ASSUME UNCHANGED vars PROVE BarrierCounts'
      <3>1. UNCHANGED <<tool, size, count, expected, generation, drops, token, n, pc>>
        BY <2>7 DEF vars, countVars, barrierVars
      <3> QED
        BY <2>1, <3>1 DEF BarrierCounts, Arrived
    <2>8. ASSUME Next PROVE BarrierCounts'
      <3>1. PICK c \in Ctx :
              \/ Go(c) \/ Timer(c)
              \/ TryAcquire(c) \/ Release(c) \/ CountDown(c) \/ Done(c) \/ Arrive(c)
              \/ ArriveAndDrop(c) \/ WaitUntil(c) \/ Notify(c)
        BY <2>8 DEF Next
      <3>2. \/ Arrive(c) \/ ArriveAndDrop(c) \/ WaitBarrier(c) \/ Pass(c)
            \/ (UNCHANGED tool /\ tool # "barrier")
        BY <2>1, <3>1, OtherTools DEF Go
      <3>3. CASE Arrive(c)
        BY <2>2, <3>3
      <3>4. CASE ArriveAndDrop(c)
        BY <2>3, <3>4
      <3>5. CASE WaitBarrier(c)
        BY <2>4, <3>5
      <3>6. CASE Pass(c)
        BY <2>5, <3>6
      <3>7. CASE UNCHANGED tool /\ tool # "barrier"
        BY <2>6, <3>7
      <3> QED
        BY <3>2, <3>3, <3>4, <3>5, <3>6, <3>7
    <2> QED
      BY <1>2, <2>1, <2>7, <2>8 DEF SyncInv
  <1> QED
    BY <1>1, <1>2, PTL DEF SafeSpec
=============================================================================
