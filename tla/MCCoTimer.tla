----------------------------- MODULE MCCoTimer -----------------------------
(* Model values for CoTimer.  Who takes part is chosen at the start: all    *)
(* coroutines, each for one wait; one of them, once, and the user; or one   *)
(* of them, twice.  The timer thread meets all.                             *)
EXTENDS CoTimer

Plays(waits, user) ==
    /\ \A c \in Client : Waits - count[c] = waits[c]
    /\ starts = IF user THEN 0 ELSE Starts
    /\ loop => user
    /\ endAt = IF \E c \in Joiner : waits[c] > 0 THEN "running" ELSE "done"

MCInit ==
    /\ Init
    /\ \/ Plays([c \in Client |-> 1], FALSE)
       \/ \E c \in Client \ Joiner : Plays([d \in Client |-> IF d = c THEN 1 ELSE 0], TRUE)
       \/ \E c \in Joiner : Plays([d \in Client |-> IF d = c THEN 2 ELSE 0], FALSE)

MCSpec == MCInit /\ [][Next]_vars /\ Fairness
=============================================================================
