--------------------------- MODULE ReadWriteLock ---------------------------
(***************************************************************************)
(* What co_shared_mutex promises its callers, without the spin lock, the    *)
(* bounded spin or the wait queue: a lock that several coroutines hold to   *)
(* read or one holds to write, that is granted only to who asks for it and  *)
(* as it asks, and that the last holder sets free or hands on to those who  *)
(* ask: to one writer, or to some readers at once.                          *)
(***************************************************************************)
CONSTANTS Ctx       \* the coroutines

VARIABLES reading,  \* the coroutines that hold the lock to read
          writing,  \* the coroutine that holds it to write, in a set
          toRead,   \* the coroutines inside lock_shared()
          toWrite   \* the coroutines inside lock()

vars == <<reading, writing, toRead, toWrite>>

Holding == reading \cup writing

Idle(c) == c \in Ctx \ (Holding \cup toRead \cup toWrite)

Init ==
    /\ reading = {}
    /\ writing = {}
    /\ toRead = {}
    /\ toWrite = {}

AskToRead(c) ==
    /\ Idle(c)
    /\ toRead' = toRead \cup {c}
    /\ UNCHANGED <<reading, writing, toWrite>>

AskToWrite(c) ==
    /\ Idle(c)
    /\ toWrite' = toWrite \cup {c}
    /\ UNCHANGED <<reading, writing, toRead>>

(* Readers join readers. *)
Read(c) ==
    /\ writing = {}
    /\ c \in toRead
    /\ reading' = reading \cup {c}
    /\ toRead' = toRead \ {c}
    /\ UNCHANGED <<writing, toWrite>>

Write(c) ==
    /\ Holding = {}
    /\ c \in toWrite
    /\ writing' = {c}
    /\ toWrite' = toWrite \ {c}
    /\ UNCHANGED <<reading, toRead>>

(* Attempts that do not block, and succeed. *)
TryRead(c) ==
    /\ writing = {}
    /\ Idle(c)
    /\ reading' = reading \cup {c}
    /\ UNCHANGED <<writing, toRead, toWrite>>

TryWrite(c) ==
    /\ Holding = {}
    /\ Idle(c)
    /\ writing' = {c}
    /\ UNCHANGED <<reading, toRead, toWrite>>

Leave(c) ==
    /\ c \in Holding
    /\ reading' = reading \ {c}
    /\ writing' = writing \ {c}
    /\ UNCHANGED <<toRead, toWrite>>

HandToWriter(c, d) ==
    /\ Holding = {c}
    /\ d \in toWrite
    /\ reading' = {}
    /\ writing' = {d}
    /\ toWrite' = toWrite \ {d}
    /\ UNCHANGED toRead

HandToReaders(c, next) ==
    /\ Holding = {c}
    /\ next \subseteq toRead
    /\ next # {}
    /\ reading' = next
    /\ writing' = {}
    /\ toRead' = toRead \ next
    /\ UNCHANGED toWrite

Next ==
    \E c \in Ctx :
        \/ AskToRead(c) \/ AskToWrite(c)
        \/ Read(c) \/ Write(c)
        \/ TryRead(c) \/ TryWrite(c)
        \/ Leave(c)
        \/ \E d \in Ctx : HandToWriter(c, d)
        \/ \E next \in SUBSET Ctx : HandToReaders(c, next)

Spec == Init /\ [][Next]_vars
=============================================================================
