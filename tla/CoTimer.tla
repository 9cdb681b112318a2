------------------------------ MODULE CoTimer ------------------------------
(***************************************************************************)
(* Timers: co_timer, the timer queue and timer thread of co_manager, and    *)
(* the two waits of a coroutine that end by a timer, this_co::sleep_until   *)
(* and the wait_ctx with a timeout, which the end of its target ends too.   *)
(*                                                                          *)
(* This component is about locks.  Every timer has a recursive mutex, and   *)
(* so have the queue and the list of the target's finished event; an env    *)
(* has its schedule_lock__, which wake_up takes.  An actor that keeps locks *)
(* while it wants another one has a place of its own for that; what it has  *)
(* there is Held, what its next step takes is Needs.  Locks taken and given *)
(* back within a step are only in Needs.                                    *)
(*                                                                          *)
(* Actors are the timer thread, the coroutines that wait (each on an env of *)
(* its own), the coroutines created for expired timers, the target at its   *)
(* end, and a user who starts and stops a timer.                            *)
(***************************************************************************)
EXTENDS Naturals, Sequences, FiniteSets, SequencesExt, Queues

CONSTANTS Sleeper,    \* coroutines that may call sleep_until
          Joiner,     \* coroutines that may call wait_ctx with a timeout
          User,       \* the owner of a timer that no wait has made
          Elsewhere,  \* envs that none of the coroutines above is on
          NoEnv,
          RunOn,      \* the envs get_best_env__ may choose for an expired timer
          Waits,      \* how often a coroutine waits, at most
          Starts,     \* how often the user starts the timer, at most
          MaxTime,    \* the end of time
          Coincide    \* whether two timers may expire at the same instant

Client == Sleeper \cup Joiner

ASSUME ClientAssumption ==
    /\ User \notin Client
    /\ RunOn \subseteq Client \cup {Elsewhere}
    /\ Elsewhere \notin Client
    /\ NoEnv \notin RunOn
ASSUME BoundAssumption ==
    Waits \in Nat \ {0} /\ Starts \in Nat /\ MaxTime \in Nat /\ Coincide \in BOOLEAN

(* Each wait makes a timer of its own; the user has one timer. *)
UserTimer   == <<User, 1>>
ClientTimer == Client \X (1..Waits)
Timer       == ClientTimer \cup {UserTimer}

VARIABLES now,          \* steady_clock::now()
          expire,       \* expire_time__ of each timer
          running,      \* the timers whose status__ is running
          queue,        \* timer_queue__
          loop,         \* whether the user's timer is a loop timer
          front,        \* the timer the thread has in hand, the user's when none
          runs,         \* the env of the coroutine made for an expired timer, or NoEnv
          waitFor,      \* the resources a coroutine waits for; it can run if none
          count,        \* how many of its waits a coroutine has begun
          starts,       \* how many times the user has started the timer
          joins,        \* the timers made by wait_ctx
          subs,         \* subscribers of the target's end that are still to be told
          timerCleanUp, \* clean_up__
          pc,           \* where each coroutine is
          threadAt,     \* ... the timer thread
          runAt,        \* ... each coroutine that runs a timer
          endAt,        \* ... the target
          userAt        \* ... the user

timerVars == <<expire, running, queue>>
waitVars  == <<waitFor, count, joins, subs>>
userVars  == <<userAt, starts>>
vars == <<now, timerVars, loop, front, runs, waitVars, timerCleanUp,
          pc, threadAt, runAt, endAt, userVars>>

TypeOK ==
    /\ now \in 0..MaxTime
    /\ expire \in [Timer -> 0..MaxTime + 1]
    /\ running \subseteq Timer /\ queue \subseteq Timer
    /\ loop \in BOOLEAN
    /\ front \in Timer
    /\ runs \in [Timer -> RunOn \cup {NoEnv}]
    /\ waitFor \in [Client -> SUBSET (Client \X (0..Waits))]
    /\ count \in [Client -> 0..Waits]
    /\ joins \subseteq ClientTimer
    /\ subs \in Seq(joins)
    /\ timerCleanUp \in BOOLEAN
    /\ pc \in [Client -> {"out", "insert", "asleep"}]
    /\ threadAt \in {"top", "look", "idle", "idleUp", "begin", "create", "notify",
                     "fired", "until", "untilUp", "done", "crashed"}
    /\ runAt \in [ClientTimer -> {"none", "created", "unsub", "leave", "wake", "ended"}]
    /\ endAt \in {"running", "finished", "stop", "remove", "leave", "wake", "done"}
    /\ userAt \in {"out", "insert", "remove"}
    /\ starts \in 0..Starts

Init ==
    /\ now = 0
    /\ expire = [t \in Timer |-> 0]
    /\ running = {} /\ queue = {}
    /\ loop \in BOOLEAN
    /\ front = UserTimer
    /\ runs = [t \in Timer |-> NoEnv]
    /\ waitFor = [c \in Client |-> {}]
    /\ count \in [Client -> 0..Waits]
    /\ joins = {} /\ subs = <<>>
    /\ timerCleanUp = FALSE
    /\ pc = [c \in Client |-> "out"]
    /\ threadAt = "top"
    /\ runAt = [t \in ClientTimer |-> "none"]
    /\ endAt \in {"running", "done"}
    /\ userAt = "out"
    /\ starts \in 0..Starts

-----------------------------------------------------------------------------
(* Locks *)

QueueLock    == <<"mu_timer_queue__">>
EventLock    == <<"mu_cb_list__">>
FinishLock   == <<"finish_lock__">>
TimerLock(t) == <<"mutex__", t>>
EnvLock(c)   == <<"schedule_lock__", c>>

(* Who may have or want a lock now. *)
Actor ==
    {<<"thread">>, <<"target">>, <<"user">>}
        \cup {<<"client", c>> : c \in {d \in Client : pc[d] = "insert"}}
        \cup {<<"run", t>> : t \in {u \in ClientTimer : runAt[u] \notin {"none", "ended"}}}

(* The timer of a coroutine's wait, and of its next one. *)
Cur(c)   == <<c, count[c]>>
Owner(t) == t[1]

(* Mutant of NewTimer: the timer of the wait before. *)
OldTimer(c) == Cur(c)

NewTimer(c) == <<c, count[c] + 1>>

(* A search in the set looks at the expire_time of the timers in it. *)
Searches(t) == {QueueLock} \cup {TimerLock(u) : u \in queue \ {t}}

Earliest == CHOOSE t \in queue : \A u \in queue : expire[t] <= expire[u]

(* The coroutine made for timer t is in run(), with the timer's mutex. *)
RunsNow(t) == runAt[t] \in {"unsub", "leave", "wake"}

Held(a) ==
    CASE a[1] = "thread" ->
            IF threadAt \in {"top", "look", "begin", "create", "notify", "fired"}
            THEN {QueueLock} ELSE {}
      [] a[1] = "client" ->
            {EnvLock(a[2]), TimerLock(Cur(a[2]))}
               \cup (IF Cur(a[2]) \in joins THEN {FinishLock} ELSE {})
      [] a[1] = "run" -> IF RunsNow(a[2]) THEN {TimerLock(a[2])} ELSE {}
      [] a[1] = "target" ->
            CASE endAt \in {"stop", "leave", "wake"} -> {EventLock}
              [] endAt = "remove" -> {EventLock, TimerLock(Head(subs))}
              [] OTHER -> {}
      [] a[1] = "user" -> IF userAt # "out" THEN {TimerLock(UserTimer)} ELSE {}

Needs(a) ==
    CASE a[1] = "thread" ->
            CASE threadAt \in {"idleUp", "untilUp"} -> {QueueLock}
              [] threadAt = "begin" /\ queue # {} -> {TimerLock(Earliest)}
              [] threadAt = "notify" /\ runs[front] \in Client ->
                    {EnvLock(runs[front])}
              [] threadAt = "fired" -> {TimerLock(front)} \cup Searches(front)
              [] OTHER -> {}
      [] a[1] = "client" -> Searches(Cur(a[2]))
      [] a[1] = "run" ->
            CASE runAt[a[2]] = "created" -> {TimerLock(a[2])}
              [] runAt[a[2]] = "unsub" -> {EventLock}
              [] runAt[a[2]] = "wake"  -> {EnvLock(Owner(a[2]))}
              [] OTHER -> {}
      [] a[1] = "target" ->
            CASE endAt = "stop"   -> {TimerLock(Head(subs))}
              [] endAt = "remove" -> Searches(Head(subs))
              [] endAt = "wake"   -> {EnvLock(Owner(Head(subs)))}
              [] OTHER -> {}
      [] a[1] = "user" -> IF userAt # "out" THEN Searches(UserTimer) ELSE {}

(* Nobody else has one of these locks. *)
Free(locks, a) == \A b \in Actor \ {a} : Held(b) \cap locks = {}

CanGoOn(a) == Needs(a) = {} \/ Free(Needs(a), a)

(* Who is in the middle of something on env e; a forced switch does not     *)
(* happen there.                                                            *)
ThreadFree(e) ==
    /\ e \in Client => pc[e] # "insert"
    /\ \A t \in ClientTimer : runs[t] = e => ~RunsNow(t)

-----------------------------------------------------------------------------
(* The queue.  It is a set ordered by expire_time: two timers that expire   *)
(* at the same instant are one element to it.                               *)

Same(t) == {u \in queue : expire[u] = expire[t]}

(* Mutant of Notified: the timer thread is not told. *)
Unnoticed == UNCHANGED threadAt

(* notify_one of cv_timer_queue__, on which only the timer thread waits. *)
Notified ==
    threadAt' = CASE threadAt = "idle"  -> "idleUp"
                  [] threadAt = "until" -> "untilUp"
                  [] OTHER -> threadAt

InsertTimer(t) == queue' = IF Same(t) = {} THEN queue \cup {t} ELSE queue

(* Mutant of RemoveTimer: it stays where it is. *)
LeaveTimer(t) == UNCHANGED queue

RemoveTimer(t) == queue' = queue \ Same(t)

(* The instants a timer may be started for. *)
Instants(t) ==
    {e \in 0..MaxTime + 1 :
        /\ t # UserTimer => e <= MaxTime
        /\ Coincide \/ \A u \in running \ {t} : expire[u] # e}

(* update_timeout_time__ of a timer with an interval, which may be 0. *)
FromNow(t) == {e \in Instants(t) : e >= now}

-----------------------------------------------------------------------------
(* What a coroutine waits for: itself in sleep_until, which is also the     *)
(* mutant of TimerId; its timer in wait_ctx.                                *)
Itself(t) == <<Owner(t), 0>>

TimerId(t) == t

Resource(t) == IF t \in joins THEN TimerId(t) ELSE Itself(t)

(* Coroutines that wait.  All up to the insertion into the queue is one     *)
(* step: until then nobody else knows of the timer.                         *)

Begin(c, t, e) ==
    /\ pc[c] = "out"
    /\ count[c] < Waits
    /\ ThreadFree(c)
    /\ Free({EnvLock(c)}, <<"client", c>>)
    /\ count' = [count EXCEPT ![c] = @ + 1]
    /\ expire' = [expire EXCEPT ![t] = e]
    /\ running' = running \cup {t}
    /\ pc' = [pc EXCEPT ![c] = "insert"]
    /\ UNCHANGED <<now, queue, loop, front, runs, timerCleanUp, threadAt, runAt, endAt,
                   userVars>>

(* this_co::sleep_until: it waits for itself. *)
SleepUntil(c) ==
    /\ c \in Sleeper
    /\ \E e \in Instants(NewTimer(c)) : Begin(c, NewTimer(c), e)
    /\ waitFor' = [waitFor EXCEPT ![c] = @ \cup {Itself(NewTimer(c))}]
    /\ UNCHANGED <<joins, subs>>

(* wait_ctx of a target that has not finished; the time may be over already. *)
(* The target cannot finish before the timer is started.                    *)
WaitCtx(c) ==
    /\ c \in Joiner
    /\ Free({FinishLock}, <<"client", c>>)
    /\ endAt = "running"
    /\ \E e \in Instants(NewTimer(c)) : Begin(c, NewTimer(c), e)
    /\ waitFor' = [waitFor EXCEPT ![c] = @ \cup {TimerId(NewTimer(c))}]
    /\ joins' = joins \cup {NewTimer(c)}
    /\ subs' = Append(subs, NewTimer(c))

(* The rest of start(); then the locks are released, and the env goes on to *)
(* another coroutine.                                                       *)
Insert(c) ==
    /\ pc[c] = "insert"
    /\ CanGoOn(<<"client", c>>)
    /\ InsertTimer(Cur(c))
    /\ Notified
    /\ pc' = [pc EXCEPT ![c] = "asleep"]
    /\ UNCHANGED <<now, expire, running, loop, front, runs, waitVars, timerCleanUp, runAt, endAt,
                   userVars>>

(* The scheduler picks it again.  A timed wait_ctx only stops its timer     *)
(* from the event of its target.                                            *)
Return(c) ==
    /\ pc[c] = "asleep"
    /\ waitFor[c] = {}
    /\ ThreadFree(c)
    /\ pc' = [pc EXCEPT ![c] = "out"]
    /\ UNCHANGED <<now, timerVars, loop, front, runs, waitVars, timerCleanUp, threadAt, runAt,
                   endAt, userVars>>

-----------------------------------------------------------------------------
(* timer_routine__.  The thread has the queue's lock except while it waits. *)

Thread(from, to) ==
    /\ threadAt = from
    /\ threadAt' = to
    /\ CanGoOn(<<"thread">>)
    /\ UNCHANGED <<now, waitVars, timerCleanUp, pc, endAt, userVars>>

KeepsTimers == UNCHANGED <<timerVars, loop, front, runs, runAt>>

TestCleanUp == Thread("top", IF timerCleanUp THEN "done" ELSE "look") /\ KeepsTimers

TestEmpty == Thread("look", IF queue = {} THEN "idle" ELSE "begin") /\ KeepsTimers

(* cv_timer_queue__.wait returns: on to the first element, without another  *)
(* look whether there is one.  wait_until returns: back to the head.        *)
IdleOver == Thread("idleUp", "begin") /\ KeepsTimers

UntilOver ==
    /\ Thread("untilUp", "top")
    /\ front' = UserTimer
    /\ UNCHANGED <<timerVars, loop, runs, runAt>>

(* wait_until returns because the time has come. *)
UntilNow ==
    /\ threadAt = "until"
    /\ now >= expire[front]
    /\ Thread("until", "untilUp")
    /\ KeepsTimers

BreakOff == timerCleanUp /\ Thread("begin", "done") /\ KeepsTimers

(* begin() of an empty set is dereferenced. *)
NoFront == ~timerCleanUp /\ queue = {} /\ Thread("begin", "crashed") /\ KeepsTimers

TakeFront ==
    /\ ~timerCleanUp
    /\ queue # {}
    /\ Thread("begin", IF now >= expire[Earliest] THEN "create" ELSE "until")
    /\ front' = Earliest
    /\ UNCHANGED <<timerVars, loop, runs, runAt>>

(* create_and_schedule_ctx: the new coroutine is in the list of some env,   *)
(* and may run; then that env is woken up.  What the user's callback does   *)
(* is left out.                                                             *)
CreateRun ==
    /\ Thread("create", "notify")
    /\ \E e \in RunOn : runs' = [runs EXCEPT ![front] = e]
    /\ runAt' = IF front = UserTimer THEN runAt ELSE [runAt EXCEPT ![front] = "created"]
    /\ UNCHANGED <<timerVars, loop, front>>

WakeRunEnv ==
    /\ Thread("notify", "fired")
    /\ runs' = IF front = UserTimer THEN [runs EXCEPT ![front] = NoEnv] ELSE runs
    /\ UNCHANGED <<timerVars, loop, front, runAt>>

(* Mutant of StopFront: the timer is not stopped. *)
KeepFront ==
    /\ ~(front = UserTimer /\ loop)
    /\ Thread("fired", "top")
    /\ front' = UserTimer
    /\ UNCHANGED <<timerVars, loop, runs, runAt>>

(* front->stop() of a timer that fires once ... *)
StopFront ==
    /\ ~(front = UserTimer /\ loop)
    /\ Thread("fired", "top")
    /\ running' = running \ {front}
    /\ IF front \in running THEN RemoveTimer(front) ELSE UNCHANGED queue
    /\ front' = UserTimer
    /\ UNCHANGED <<expire, loop, runs, runAt>>

(* ... and front->reset() of one that fires again and again. *)
ResetFront ==
    /\ front = UserTimer /\ loop
    /\ Thread("fired", "top")
    /\ running' = running \cup {front}
    /\ \E e \in FromNow(front) \ {now} :
          /\ expire' = [expire EXCEPT ![front] = e]
          /\ LET rest == IF front \in running THEN queue \ Same(front) ELSE queue IN
             queue' = IF \E u \in rest : expire[u] = e THEN rest ELSE rest \cup {front}
    /\ UNCHANGED <<loop, front, runs, runAt>>

TimerRoutine ==
    \/ TestCleanUp
    \/ TestEmpty
    \/ IdleOver
    \/ UntilOver
    \/ UntilNow
    \/ BreakOff
    \/ NoFront
    \/ TakeFront
    \/ CreateRun
    \/ WakeRunEnv
    \/ StopFront
    \/ ResetFront

(* set_clean_up__ does not take the queue's lock. *)
SetTimerCleanUp ==
    /\ ~timerCleanUp
    /\ timerCleanUp' = TRUE
    /\ Notified
    /\ UNCHANGED <<now, timerVars, loop, front, runs, waitVars, pc, runAt, endAt, userVars>>

-----------------------------------------------------------------------------
(* leave_wait_resource_state(r): the flag, then the wake-up if it is clear. *)

LeaveWait(t) == waitFor' = [waitFor EXCEPT ![Owner(t)] = @ \ {Resource(t)}]

(* It waits for something else than the timer. *)
Asleep(t) == waitFor[Owner(t)] \ {Resource(t)} # {}

(* The coroutine made for an expired timer: run(), all of it with the       *)
(* timer's mutex.  The callback of wait_ctx unsubscribes first.             *)

Run(t, from, to) ==
    /\ runAt[t] = from
    /\ runAt' = [runAt EXCEPT ![t] = to]
    /\ CanGoOn(<<"run", t>>)
    /\ runs' = IF to = "ended" /\ threadAt # "notify"
               THEN [runs EXCEPT ![t] = NoEnv] ELSE runs
    /\ UNCHANGED <<now, timerVars, loop, front, count, joins, timerCleanUp, pc, threadAt, endAt,
                   userVars>>

RunBegin(t) ==
    /\ ThreadFree(runs[t])
    /\ Run(t, "created", IF t \in joins THEN "unsub" ELSE "leave")
    /\ UNCHANGED <<waitFor, subs>>

RunUnsub(t) ==
    /\ Run(t, "unsub", "leave")
    /\ subs' = IF endAt \in {"running", "finished"} THEN Only(subs, ClientTimer \ {t}) ELSE subs
    /\ UNCHANGED waitFor

RunLeave(t) ==
    /\ Run(t, "leave", IF Asleep(t) THEN "ended" ELSE "wake")
    /\ LeaveWait(t)
    /\ UNCHANGED subs

RunWake(t) == Run(t, "wake", "ended") /\ UNCHANGED <<waitFor, subs>>

RunTimer(t) == RunBegin(t) \/ RunUnsub(t) \/ RunLeave(t) \/ RunWake(t)

-----------------------------------------------------------------------------
(* The end of the target: it tells its subscribers in turn, all of it with  *)
(* the lock of the event.                                                   *)

Target(from, to) ==
    /\ endAt = from
    /\ endAt' = to
    /\ CanGoOn(<<"target">>)
    /\ UNCHANGED <<now, expire, loop, front, runs, count, joins, timerCleanUp, pc, runAt,
                   userVars>>

Finish ==
    /\ Free({FinishLock}, <<"target">>)
    /\ Target("running", "finished")
    /\ UNCHANGED <<running, queue, waitFor, subs, threadAt>>

Publish ==
    /\ Target("finished", IF subs = <<>> THEN "done" ELSE "stop")
    /\ UNCHANGED <<running, queue, waitFor, subs, threadAt>>

(* timer->stop(), which returns at once if the timer is stopped already ... *)
EndStop ==
    LET t == Head(subs) IN
    /\ Target("stop", IF t \in running THEN "remove" ELSE "leave")
    /\ running' = running \ {t}
    /\ UNCHANGED <<queue, waitFor, subs, threadAt>>

EndRemove ==
    /\ Target("remove", "leave")
    /\ RemoveTimer(Head(subs))
    /\ Notified
    /\ UNCHANGED <<running, waitFor, subs>>

NextSub == IF Len(subs) = 1 THEN "done" ELSE "stop"

(* ... and the wake-up of the one who waits. *)
EndLeave ==
    LET t == Head(subs) IN
    /\ Target("leave", IF Asleep(t) THEN NextSub ELSE "wake")
    /\ LeaveWait(t)
    /\ subs' = IF Asleep(t) THEN Tail(subs) ELSE subs
    /\ UNCHANGED <<running, queue, threadAt>>

EndWake ==
    /\ Target("wake", NextSub)
    /\ subs' = Tail(subs)
    /\ UNCHANGED <<running, queue, waitFor, threadAt>>

TargetEnds == Finish \/ Publish \/ EndStop \/ EndRemove \/ EndLeave \/ EndWake

-----------------------------------------------------------------------------
(* start() and stop() of the user's timer, up to the queue and then in it. *)

UserStep(from, to) ==
    /\ userAt = from
    /\ userAt' = to
    /\ CanGoOn(<<"user">>)
    /\ UNCHANGED <<now, loop, front, runs, waitVars, timerCleanUp, pc, runAt, endAt>>

UserStart ==
    /\ UserTimer \notin running
    /\ starts < Starts
    /\ starts' = starts + 1
    /\ Free({TimerLock(UserTimer)}, <<"user">>)
    /\ UserStep("out", "insert")
    /\ \E e \in FromNow(UserTimer) : expire' = [expire EXCEPT ![UserTimer] = e]
    /\ running' = running \cup {UserTimer}
    /\ UNCHANGED <<queue, threadAt>>

UserInsert ==
    /\ UserStep("insert", "out")
    /\ InsertTimer(UserTimer)
    /\ Notified
    /\ UNCHANGED <<expire, running, starts>>

UserStop ==
    /\ UserTimer \in running
    /\ Free({TimerLock(UserTimer)}, <<"user">>)
    /\ UserStep("out", "remove")
    /\ running' = running \ {UserTimer}
    /\ UNCHANGED <<expire, queue, threadAt, starts>>

UserRemove ==
    /\ UserStep("remove", "out")
    /\ RemoveTimer(UserTimer)
    /\ Notified
    /\ UNCHANGED <<expire, running, starts>>

UserUses == UserStart \/ UserInsert \/ UserStop \/ UserRemove

-----------------------------------------------------------------------------
Tick ==
    /\ now < MaxTime
    /\ now' = now + 1
    /\ UNCHANGED <<timerVars, loop, front, runs, waitVars, timerCleanUp, pc, threadAt, runAt,
                   endAt, userVars>>

Next ==
    \/ \E c \in Client : SleepUntil(c) \/ WaitCtx(c) \/ Insert(c) \/ Return(c)
    \/ TimerRoutine
    \/ SetTimerCleanUp
    \/ \E t \in ClientTimer : RunTimer(t)
    \/ TargetEnds
    \/ UserUses
    \/ Tick

SafeSpec == Init /\ [][Next]_vars

(* Whoever can go on does in the end, and time passes; nobody has to wait,  *)
(* to end, or to use a timer.  All have finitely much to do, so this is     *)
(* said of all of them together.                                            *)
GoesOn ==
    \/ TimerRoutine
    \/ \E c \in Client : Insert(c) \/ Return(c)
    \/ \E t \in ClientTimer : RunTimer(t)
    \/ Publish \/ EndStop \/ EndRemove \/ EndLeave \/ EndWake
    \/ UserInsert \/ UserRemove
    \/ Tick

Fairness == WF_vars(GoesOn)

Spec == SafeSpec /\ Fairness

-----------------------------------------------------------------------------
(* Properties *)

(* While nobody is in the middle of a change, the queue holds the timers    *)
(* that run, and no other: a timer that is started, stopped, expired or     *)
(* reset by several threads is neither lost nor left behind.                *)
Settled(t) == \A a \in Actor : TimerLock(t) \notin Held(a) \/ a = <<"run", t>>

QueueHoldsRunning ==
    \A t \in Timer : Settled(t) => (t \in running <=> t \in queue)

(* A wait ends for its own reason only: its time has come, or its target    *)
(* has finished.  The coroutine of an earlier timer, late, does nothing to  *)
(* a later wait (co_env.cpp:123-147, co_ctx.cpp:192-204).                   *)
EndInTime ==
    \A c \in Client : waitFor[c] # {} /\ waitFor'[c] = {} =>
      now >= expire[Cur(c)] \/ (Cur(c) \in joins /\ endAt # "running")

WaitsEndInTime == [][EndInTime]_vars

(* One start, one expiry: the thread makes at most one coroutine of a timer *)
(* that fires once, although others may stop it at any time                 *)
(* (co_manager.cpp:363-391).                                                *)
FireOnce ==
    \A t \in ClientTimer : runAt[t] # "none" /\ runAt'[t] = "created" => runAt[t] = "created"

FiresOnce == [][FireOnce]_vars

(* Actors that keep locks from each other, in a circle. *)
Stuck ==
    LET Blocked == {a \in Actor : Held(a) # {} /\ Needs(a) # {}}
    IN \E A \in SUBSET Blocked :
         A # {} /\ \A a \in A : \E b \in A \ {a} : Held(b) \cap Needs(a) # {}

(* Every wait returns, unless locks are taken in a circle, the thread runs  *)
(* into the empty queue, or everything is being cleaned up.                 *)
EveryWaitEnds ==
    \A c \in Client :
        pc[c] = "asleep" ~> pc[c] = "out" \/ Stuck \/ timerCleanUp \/ threadAt = "crashed"

(* Every wait returns while nothing is cleaned up. *)
SleepersWake == \A c \in Client : pc[c] = "asleep" ~> pc[c] = "out" \/ timerCleanUp

-----------------------------------------------------------------------------
(* The inductive invariant behind the safety properties. *)

(* Between start() or stop() and the queue, with the timer's mutex.         *)
InInsert(t) ==
    \/ t = UserTimer /\ userAt = "insert"
    \/ \E c \in Client : pc[c] = "insert" /\ t = Cur(c)

InRemove(t) ==
    \/ t = UserTimer /\ userAt = "remove"
    \/ endAt = "remove" /\ t = Head(subs)

QueueInv ==
    /\ \A t \in Timer : InInsert(t) => t \in running \ queue
    /\ \A t \in Timer : InRemove(t) => t \notin running
    /\ \A t \in queue \ running : InRemove(t)

(* The queue has all there should be, unless timers expire at the same      *)
(* instant.                                                                 *)
DistinctInv ==
    Coincide \/
      /\ \A t \in running \ queue : InInsert(t)
      /\ \A t \in Timer : InRemove(t) => t \in queue
      /\ \A t, u \in running : expire[t] = expire[u] => t = u
      /\ \A t, u \in queue : expire[t] = expire[u] => t = u

Begun(t) == t[2] <= count[Owner(t)]

(* The timer of a wait that has not ended yet.                              *)
Pending(t) ==
    \/ runAt[t] \in {"created", "unsub", "leave"}
    \/ runAt[t] = "none" /\ t \in running

(* A wait that has not begun has left no trace of its timer.                *)
FreshInv ==
    \A t \in ClientTimer : ~Begun(t) =>
      t \notin running \cup queue \cup joins /\ runAt[t] = "none"

(* A coroutine waits for what its last timer stands for, if anything, and   *)
(* its wait does not end before the timer does, or the target.              *)
WaitInv ==
    /\ \A c \in Client : pc[c] = "insert" => count[c] > 0
    /\ \A c \in Client : pc[c] = "out" => waitFor[c] = {}
    /\ \A c \in Client : waitFor[c] # {} => waitFor[c] = {Resource(Cur(c))}

PendingInv ==
    \A t \in ClientTimer \ joins : Pending(t) =>
      t = Cur(Owner(t)) /\ waitFor[Owner(t)] # {}

(* The target tells those who are there.                                    *)
SubsInv == endAt \in {"stop", "remove", "leave", "wake"} => subs # <<>>

(* A timer that has fired is on its way out of the queue.                   *)
FireInv ==
    /\ \A t \in ClientTimer \cap (running \cup queue) :
         runAt[t] # "none" => t = front /\ threadAt \in {"notify", "fired"}
    /\ threadAt = "create" /\ front \in ClientTimer =>
         /\ Begun(front) /\ runAt[front] = "none" /\ now >= expire[front]
         /\ front \in joins \cup running
    /\ \A t \in ClientTimer : runAt[t] # "none" => now >= expire[t]

(* What keeps the queue, the timers and the waits in step, although several *)
(* threads start, stop and fire them under different locks                  *)
(* (co_timer.cpp:47-81, co_manager.cpp:349-395, co_env.cpp:117-147).        *)
TimerInv ==
    /\ TypeOK
    /\ QueueInv
    /\ DistinctInv
    /\ FreshInv
    /\ WaitInv
    /\ PendingInv
    /\ SubsInv
    /\ FireInv
=============================================================================
