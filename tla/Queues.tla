------------------------------- MODULE Queues -------------------------------
(***************************************************************************)
(* What is left of a queue after std::list::remove, remove_if and erase in  *)
(* a loop, and of the waiters of a condition variable after notify_one; and *)
(* a sum.                                                                   *)
(***************************************************************************)
EXTENDS Naturals, Sequences, FiniteSetsExt

(* The elements of s that are in S, in their order. *)
Only(s, S) ==
    LET only[n \in 0..Len(s)] ==
          IF n = 0 THEN <<>>
          ELSE IF s[n] \in S THEN Append(only[n - 1], s[n])
          ELSE only[n - 1]
    IN  only[Len(s)]

(* notify_one: take the first waiter out, if there is one. *)
NotifyOne(waiters) == IF waiters = <<>> THEN <<>> ELSE Tail(waiters)

(* What f adds up to over the finite set S. *)
Sum(f, S) == FoldSet(LAMBDA x, sum : sum + f[x], 0, S)
=============================================================================
