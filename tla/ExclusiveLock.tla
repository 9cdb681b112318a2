--------------------------- MODULE ExclusiveLock ---------------------------
(***************************************************************************)
(* What co_mutex promises its callers, without the spin lock, the bounded   *)
(* spin or the wait queue: a lock that at most one coroutine holds, that is *)
(* granted only to a coroutine asking for it, and that is either set free   *)
(* or handed directly to an asker when it is given up.                      *)
(***************************************************************************)
CONSTANTS Ctx,      \* the coroutines
          NoCtx     \* the null co_ctx pointer

VARIABLES holder,   \* the coroutine that holds the lock, or NoCtx
          asking    \* the coroutines inside a blocking lock()

vars == <<holder, asking>>

TypeOK ==
    /\ holder \in Ctx \cup {NoCtx}
    /\ asking \subseteq Ctx

Init ==
    /\ holder = NoCtx
    /\ asking = {}

Ask(c) ==
    /\ holder # c
    /\ c \notin asking
    /\ asking' = asking \cup {c}
    /\ UNCHANGED holder

Grant(c) ==
    /\ holder = NoCtx
    /\ c \in asking
    /\ holder' = c
    /\ asking' = asking \ {c}

(* A non-blocking attempt that succeeds. *)
TryGrant(c) ==
    /\ holder = NoCtx
    /\ c \notin asking
    /\ holder' = c
    /\ UNCHANGED asking

Release(c) ==
    /\ holder = c
    /\ holder' = NoCtx
    /\ UNCHANGED asking

HandOver(c, d) ==
    /\ holder = c
    /\ d \in asking
    /\ holder' = d
    /\ asking' = asking \ {d}

Next ==
    \E c \in Ctx :
        \/ Ask(c)
        \/ Grant(c)
        \/ TryGrant(c)
        \/ Release(c)
        \/ \E d \in Ctx : HandOver(c, d)

Given(d) == Grant(d) \/ \E c \in Ctx : HandOver(c, d)

SafeSpec == Init /\ [][Next]_vars

(* Nobody who asks is passed over for ever. *)
Spec == SafeSpec /\ \A d \in Ctx : WF_vars(Given(d))
=============================================================================
