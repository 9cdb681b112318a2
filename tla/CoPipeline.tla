----------------------------- MODULE CoPipeline -----------------------------
(***************************************************************************)
(* co_pipeline (pipeline/co_pipeline.h): a source and a chain of stages,    *)
(* each a coroutine (fork: several) that pops from the channel before it    *)
(* and pushes into a channel of its own; the user reads the last channel.   *)
(*                                                                          *)
(* What a stage does to a value is abstract: an item is the sequence of the *)
(* source's items it was made from.  A function keeps it, group and reduce  *)
(* join several.                                                            *)
(*                                                                          *)
(* Only the source's channel may be bounded: the stages make theirs with    *)
(* the default size.  It has one pusher, so that push and pop may be one    *)
(* step each, push with a guard: CoChan shows that poppers get every value, *)
(* that a pusher that waits for room gets in and that close releases all.   *)
(***************************************************************************)
EXTENDS Integers, Sequences, SequencesExt, Queues

CONSTANTS Items,     \* bound: how many items the source has
          Dropped,   \* the source's items that a filter does not let pass
          Pipes,     \* the pipelines: sequences of records [kind, n]
          Sizes      \* the max_chan_size a source is made with

Plain == {"func", "filter", "reduce"}                 \* without a number
Counted == {"take", "skip", "fork", "group"}          \* take(n), ...
Stages == [kind : Plain \cup Counted, n : Nat]

ASSUME PipelineAssumption ==
    /\ Items \in Nat
    /\ Dropped \subseteq 1..Items
    /\ Sizes \subseteq Int
    /\ Pipes \subseteq Seq(Stages)
    /\ \A p \in Pipes : \A i \in DOMAIN p : p[i].kind \in {"fork", "group"} => p[i].n > 0

VARIABLES pipe,     \* the stages
          maxSize,  \* of the source's channel
          data,     \* what is in channel i, 0 being the source's
          popped,   \* history: what has been popped from it
          closed,   \* the channels that are closed
          pc,       \* what each coroutine is about to do
          count,    \* its loop counter
          batch,    \* what group and reduce have collected
          hand,     \* the item a coroutine is about to push
          ended,    \* the user has read the end
          quit      \* the user has closed the last channel

vars == <<pipe, maxSize, data, popped, closed, pc, count, batch, hand, ended, quit>>

(* The coroutines: the source, <<i, 0>> for stage i, <<i, w>> for worker w   *)
(* of a fork at i.                                                           *)
Source == <<0, 0>>
Workers(p, i) == IF p[i].kind = "fork" THEN {<<i, w>> : w \in 1..p[i].n} ELSE {}
Cos(p) == {Source} \cup UNION {{<<i, 0>>} \cup Workers(p, i) : i \in DOMAIN p}

Stage(c) == pipe[c[1]]
In(c)    == c[1] - 1
Out(c)   == c[1]
LastChan == Len(pipe)

Entry(p, c) ==
    IF c = Source THEN "push"
    ELSE LET s == p[c[1]]
         IN  CASE s.kind = "fork" /\ c[2] = 0 -> "join"
               [] s.kind = "take" /\ s.n = 0  -> "close"
               [] OTHER                       -> "pop"

Item == Seq(1..Items)

TypeOK ==
    /\ pipe \in Pipes
    /\ maxSize \in Sizes
    /\ data \in [0..LastChan -> Seq(Item)]
    /\ popped \in [0..LastChan -> Seq(Item)]
    /\ closed \subseteq 0..LastChan
    /\ pc \in [Cos(pipe) -> {"pop", "push", "taken", "join", "close", "closeIn", "done"}]
    /\ count \in [Cos(pipe) -> Nat]
    /\ \A c \in Cos(pipe) :
         count[c] <= IF c = Source THEN Items ELSE Stage(c).n
    /\ batch \in [Cos(pipe) -> Seq(Item)]
    /\ hand \in [Cos(pipe) -> Item]
    /\ ended \in BOOLEAN
    /\ quit \in BOOLEAN

Init ==
    /\ pipe \in Pipes
    /\ maxSize \in Sizes
    /\ data = [i \in 0..LastChan |-> <<>>]
    /\ popped = [i \in 0..LastChan |-> <<>>]
    /\ closed = {}
    /\ pc = [c \in Cos(pipe) |-> Entry(pipe, c)]
    /\ count = [c \in Cos(pipe) |-> 0]
    /\ batch = [c \in Cos(pipe) |-> <<>>]
    /\ hand = [c \in Cos(pipe) |-> <<>>]
    /\ ended = FALSE
    /\ quit = FALSE

Goto(c, to) == pc' = [pc EXCEPT ![c] = to]
Counting(c) == count' = [count EXCEPT ![c] = @ + 1]

chanVars == <<data, popped>>
ownVars  == <<count, batch, hand>>
userVars == <<ended, quit>>

-----------------------------------------------------------------------------
(* push and pop of channel i *)

HasRoom(i) ==
    \/ i > 0 \/ maxSize < 0
    \/ Len(data[i]) < IF maxSize = 0 THEN 1 ELSE maxSize

Accepted(i, x) ==
    /\ i \notin closed
    /\ HasRoom(i)
    /\ data' = [data EXCEPT ![i] = Append(@, x)]
    /\ UNCHANGED popped

Refused(i) == i \in closed /\ UNCHANGED chanVars

Popped(i) ==
    /\ data[i] # <<>>
    /\ data' = [data EXCEPT ![i] = Tail(@)]
    /\ popped' = [popped EXCEPT ![i] = Append(@, Head(data[i]))]

AtEnd(i) == data[i] = <<>> /\ i \in closed /\ UNCHANGED chanVars

-----------------------------------------------------------------------------
(* The source: the constructors from a function, a collection, a range ...   *)

SourcePush ==
    /\ pc[Source] = "push"
    /\ count[Source] < Items
    /\ Accepted(0, <<count[Source] + 1>>)
    /\ Counting(Source)
    /\ IF maxSize = 0 THEN Goto(Source, "taken") ELSE UNCHANGED pc
    /\ UNCHANGED <<pipe, maxSize, closed, batch, hand, userVars>>

(* A push into a synchronous channel returns. *)
SourceTaken ==
    /\ pc[Source] = "taken"
    /\ 0 \in closed \/ data[0] = <<>>
    /\ Goto(Source, "push")
    /\ UNCHANGED <<pipe, maxSize, chanVars, closed, ownVars, userVars>>

SourceStops ==
    /\ pc[Source] = "push"
    /\ count[Source] = Items \/ 0 \in closed
    /\ Goto(Source, "close")
    /\ UNCHANGED <<pipe, maxSize, chanVars, closed, ownVars, userVars>>

-----------------------------------------------------------------------------
(* A stage has popped x *)

Passes(x) == ToSet(x) \cap Dropped = {}

(* func, fork and take push whatever they pop. *)
PassOn(c, x) ==
    /\ Stage(c).kind \in {"func", "fork", "take"}
    /\ hand' = [hand EXCEPT ![c] = x]
    /\ Goto(c, "push")
    /\ UNCHANGED <<count, batch>>

Filter(c, x) ==
    /\ Stage(c).kind = "filter"
    /\ IF Passes(x) THEN hand' = [hand EXCEPT ![c] = x] /\ Goto(c, "push")
                    ELSE UNCHANGED <<hand, pc>>
    /\ UNCHANGED <<count, batch>>

(* Two loops: the first counts, the second copies. *)
Skip(c, x) ==
    /\ Stage(c).kind = "skip"
    /\ IF count[c] < Stage(c).n
       THEN Counting(c) /\ UNCHANGED <<hand, pc>>
       ELSE hand' = [hand EXCEPT ![c] = x] /\ Goto(c, "push") /\ UNCHANGED count
    /\ UNCHANGED batch

Group(c, x) ==
    /\ Stage(c).kind = "group"
    /\ LET all == Append(batch[c], x)
       IN  IF Len(all) = Stage(c).n
           THEN /\ hand' = [hand EXCEPT ![c] = FlattenSeq(all)]
                /\ batch' = [batch EXCEPT ![c] = <<>>]
                /\ Goto(c, "push")
           ELSE batch' = [batch EXCEPT ![c] = all] /\ UNCHANGED <<hand, pc>>
    /\ UNCHANGED count

Reduce(c, x) ==
    /\ Stage(c).kind = "reduce"
    /\ batch' = [batch EXCEPT ![c] = Append(@, x)]
    /\ UNCHANGED <<count, hand, pc>>

Pop(c) ==
    /\ pc[c] = "pop"
    /\ Popped(In(c))
    /\ LET x == Head(data[In(c)])
       IN  PassOn(c, x) \/ Filter(c, x) \/ Skip(c, x) \/ Group(c, x) \/ Reduce(c, x)
    /\ UNCHANGED <<pipe, maxSize, closed, userVars>>

(* pop returned nothing.  reduce pushes its result, group forgets a batch    *)
(* that is not full, a worker of a fork leaves the rest to its parent; skip, *)
(* if it was still counting, pops once more with the same outcome.           *)
PopEnd(c) ==
    /\ pc[c] = "pop"
    /\ AtEnd(In(c))
    /\ CASE Stage(c).kind = "reduce" -> /\ hand' = [hand EXCEPT ![c] = FlattenSeq(batch[c])]
                                        /\ Goto(c, "push")
         [] Stage(c).kind = "fork"   -> Goto(c, "done") /\ UNCHANGED hand
         [] OTHER                    -> Goto(c, "close") /\ UNCHANGED hand
    /\ UNCHANGED <<pipe, maxSize, closed, count, batch, userVars>>

-----------------------------------------------------------------------------
(* A stage pushes *)

(* Mutant of Push: take looks for its end one item too late. *)
PushMore(c) ==
    /\ pc[c] = "push"
    /\ c # Source
    /\ Accepted(Out(c), hand[c])
    /\ CASE Stage(c).kind = "take"   ->
              Counting(c) /\ Goto(c, IF count[c] = Stage(c).n THEN "close" ELSE "pop")
         [] Stage(c).kind = "reduce" -> Goto(c, "close") /\ UNCHANGED count
         [] OTHER                    -> Goto(c, "pop") /\ UNCHANGED count
    /\ UNCHANGED <<pipe, maxSize, closed, batch, hand, userVars>>

(* take counts and stops at its number, reduce has pushed its only item. *)
Push(c) ==
    /\ pc[c] = "push"
    /\ c # Source
    /\ Accepted(Out(c), hand[c])
    /\ CASE Stage(c).kind = "take"   ->
              Counting(c) /\ Goto(c, IF count'[c] = Stage(c).n THEN "close" ELSE "pop")
         [] Stage(c).kind = "reduce" -> Goto(c, "close") /\ UNCHANGED count
         [] OTHER                    -> Goto(c, "pop") /\ UNCHANGED count
    /\ UNCHANGED <<pipe, maxSize, closed, batch, hand, userVars>>

(* push returned false: the item in hand is lost and the stage stops, group  *)
(* by closing the channel before it.                                         *)
PushRefused(c) ==
    /\ pc[c] = "push"
    /\ c # Source
    /\ Refused(Out(c))
    /\ CASE Stage(c).kind = "fork"  -> Goto(c, "done")
         [] Stage(c).kind = "group" -> Goto(c, "closeIn")
         [] OTHER                   -> Goto(c, "close")
    /\ UNCHANGED <<pipe, maxSize, closed, ownVars, userVars>>

(* Mutant of Join: does not wait for the workers. *)
JoinNobody(c) ==
    /\ pc[c] = "join"
    /\ Goto(c, "close")
    /\ UNCHANGED <<pipe, maxSize, chanVars, closed, ownVars, userVars>>

(* fork has started its workers and joins them one after the other. *)
Join(c) ==
    /\ pc[c] = "join"
    /\ \A w \in Workers(pipe, c[1]) : pc[w] = "done"
    /\ Goto(c, "close")
    /\ UNCHANGED <<pipe, maxSize, chanVars, closed, ownVars, userVars>>

(* Mutant of Close: take leaves the channel before it open. *)
CloseOwn(c) ==
    /\ pc[c] = "close"
    /\ closed' = closed \cup {Out(c)}
    /\ Goto(c, "done")
    /\ UNCHANGED <<pipe, maxSize, chanVars, ownVars, userVars>>

(* Everybody closes its own channel; take then also the one before it. *)
Close(c) ==
    /\ pc[c] = "close"
    /\ closed' = closed \cup {Out(c)}
    /\ Goto(c, IF c # Source /\ Stage(c).kind = "take" THEN "closeIn" ELSE "done")
    /\ UNCHANGED <<pipe, maxSize, chanVars, ownVars, userVars>>

CloseIn(c) ==
    /\ pc[c] = "closeIn"
    /\ closed' = closed \cup {In(c)}
    /\ Goto(c, "done")
    /\ UNCHANGED <<pipe, maxSize, chanVars, ownVars, userVars>>

-----------------------------------------------------------------------------
(* The user, who reads the last channel to its end, with pipeline::to or     *)
(* from pipeline::chan, and may close the latter before that.                *)

Read ==
    /\ ~ended
    /\ Popped(LastChan)
    /\ UNCHANGED <<pipe, maxSize, closed, pc, ownVars, ended, quit>>

ReadEnd ==
    /\ ~ended
    /\ AtEnd(LastChan)
    /\ ended' = TRUE
    /\ UNCHANGED <<pipe, maxSize, closed, pc, ownVars, quit>>

Quit ==
    /\ ~ended /\ ~quit
    /\ quit' = TRUE
    /\ closed' = closed \cup {LastChan}
    /\ UNCHANGED <<pipe, maxSize, chanVars, pc, ownVars, ended>>

-----------------------------------------------------------------------------
SourceNext == SourcePush \/ SourceTaken \/ SourceStops

CoNext(c) ==
    /\ c \in Cos(pipe)
    /\ \/ Pop(c) \/ PopEnd(c) \/ Push(c) \/ PushRefused(c)
       \/ Join(c) \/ Close(c) \/ CloseIn(c)

UserNext == Read \/ ReadEnd \/ Quit

Next ==
    \/ SourceNext
    \/ \E c \in Cos(pipe) : CoNext(c)
    \/ UserNext

SafeSpec == Init /\ [][Next]_vars

(* Coroutines that can run do, and the user reads on until the end.          *)
Fairness ==
    /\ WF_vars(SourceNext)
    /\ \A c \in UNION {Cos(p) : p \in Pipes} : WF_vars(CoNext(c))
    /\ WF_vars(Read \/ ReadEnd)

Spec == SafeSpec /\ Fairness

-----------------------------------------------------------------------------
(* Properties *)

(* What the stages mean, as functions on whole sequences. *)
Apply(s, xs) ==
    CASE s.kind = "filter" -> Only(xs, {x \in Item : Passes(x)})
      [] s.kind = "take"   -> SubSeq(xs, 1, IF s.n < Len(xs) THEN s.n ELSE Len(xs))
      [] s.kind = "skip"   -> SubSeq(xs, s.n + 1, Len(xs))
      [] s.kind = "group"  -> [k \in 1..(Len(xs) \div s.n) |->
                                 FlattenSeq(SubSeq(xs, (k - 1) * s.n + 1, k * s.n))]
      [] s.kind = "reduce" -> <<FlattenSeq(xs)>>
      [] OTHER             -> xs

(* What the pipeline says goes through channel i, and to the user.           *)
After[i \in 0..Len(pipe)] ==
    IF i = 0 THEN [k \in 1..Items |-> <<k>>] ELSE Apply(pipe[i], After[i - 1])

Wanted == After[LastChan]

Forks == {i \in DOMAIN pipe : pipe[i].kind = "fork"}

(* No stage behind a fork depends on the order.                              *)
OrderFree ==
    \A i, j \in DOMAIN pipe :
        i \in Forks /\ i < j => pipe[j].kind \in {"func", "filter", "reduce", "fork"}

Used(xs) == ToSet(FlattenSeq(xs))

(* However the coroutines interleave, the user reads what the pipeline says: *)
(* behind a fork in some order, elsewhere in this order; all of it, if he    *)
(* does not close the channel, although take closes channels under those who *)
(* push, and a fork's workers end one by one (co_pipeline.h:264-459).  Said  *)
(* only where no stage behind a fork depends on the order.                   *)
AsWritten ==
    LET got == popped[LastChan]
        all == ended /\ ~quit
    IN  IF Forks = {}
        THEN IsPrefix(got, Wanted) /\ (all => got = Wanted)
        ELSE OrderFree =>
               /\ Len(got) <= Len(Wanted)
               /\ IsInjective(FlattenSeq(got))
               /\ Used(got) \subseteq Used(Wanted)
               /\ all => Len(got) = Len(Wanted) /\ Used(got) = Used(Wanted)

(* The one case in which a coroutine stays for ever: the source's channel is *)
(* bounded, and the first stage stopped early without closing it, because    *)
(* somebody after it closed a channel: func, filter, skip and fork do that   *)
(* (lines 254, 281, 356, 451).                                               *)
SourceStranded ==
    /\ maxSize >= 0
    /\ pipe # <<>>
    /\ pipe[1].kind \in {"func", "filter", "skip", "fork"}
    /\ quit \/ \E i \in DOMAIN pipe : pipe[i].kind = "take"

(* Otherwise everybody ends, the user included: every close reaches those    *)
(* who push above and those who pop below.                                   *)
PipelineEnds ==
    <>(/\ ended
       /\ \A c \in Cos(pipe) : pc[c] = "done" \/ (c = Source /\ SourceStranded))

-----------------------------------------------------------------------------
(* Why AsWritten holds: what each stage has made of what it has popped, and  *)
(* how that relates to what the pipeline says.                               *)

(* Where a coroutine can be.                                                 *)
Labels(c) ==
    IF c = Source THEN {"push", "taken", "close", "done"}
    ELSE CASE Stage(c).kind = "fork" /\ c[2] = 0       -> {"join", "close", "done"}
           [] Stage(c).kind = "fork" /\ c[2] # 0       -> {"pop", "push", "done"}
           [] Stage(c).kind \in {"take", "group"}      -> {"pop", "push", "close", "closeIn", "done"}
           [] OTHER                                    -> {"pop", "push", "close", "done"}

AtLabels ==
    \A c \in Cos(pipe) :
        /\ pc[c] \in Labels(c)
        /\ c # Source /\ Stage(c).kind = "take" /\ pc[c] \in {"pop", "push"} => count[c] < Stage(c).n

Main(i) == <<i, 0>>
Sent(i) == popped[i] \o data[i]

(* Whoever reads channel i no longer does, and may have closed it.           *)
Cut(i) == IF i = LastChan THEN quit ELSE pc[Main(i + 1)] = "done"

Ordered(i) == \A j \in 1..i : j \notin Forks

(* What the items consist of; no two have a part in common.                  *)
Contents(xs) == {ToSet(xs[k]) : k \in DOMAIN xs}
Apart(xs) ==
    /\ \A k \in DOMAIN xs : IsInjective(xs[k])
    /\ \A j, k \in DOMAIN xs : j # k =>
          ToSet(xs[j]) # ToSet(xs[k]) /\ ToSet(xs[j]) \cap ToSet(xs[k]) = {}

(* xs is a part of what goes through channel i, or all of it.                *)
IsPart(i, xs) ==
    IF Ordered(i) THEN IsPrefix(xs, After[i])
    ELSE Apart(xs) /\ Contents(xs) \subseteq Contents(After[i])
IsWhole(i, xs) ==
    IF Ordered(i) THEN xs = After[i]
    ELSE Apart(xs) /\ Contents(xs) = Contents(After[i])

(* A stage with one coroutine: what it has collected and sent follows from   *)
(* what it has popped.                                                       *)
Follows(i) ==
    LET c  == Main(i)
        s  == pipe[i]
        xs == popped[i - 1]
    IN  pc[c] \in {"pop", "push"} =>
          CASE s.kind = "reduce" -> /\ Sent(i) = <<>>
                                    /\ pc[c] = "pop" => batch[c] = xs
                                    /\ pc[c] = "push" => IsWhole(i, <<hand[c]>>)
            [] OTHER ->
                 /\ Apply(s, xs) = IF pc[c] = "pop" THEN Sent(i) ELSE Append(Sent(i), hand[c])
                 /\ s.kind = "take" => count[c] = Len(Sent(i))
                 /\ s.kind = "skip" => count[c] = IF Len(xs) < s.n THEN Len(xs) ELSE s.n
                 /\ s.kind = "group" =>
                      batch[c] = SubSeq(xs, (Len(xs) \div s.n) * s.n + 1, Len(xs))

(* A fork: an item that has been popped has been sent or is in the hand of   *)
(* one worker, and is lost only when the channel is closed from below.       *)
Forwards(i) ==
    LET ws   == Workers(pipe, i)
        held == {c \in ws : pc[c] = "push"}
    IN  /\ pc[Main(i)] # "join" => \A c \in ws : pc[c] = "done"
        /\ IsInjective(Sent(i))
        /\ ToSet(Sent(i)) \cup {hand[c] : c \in held} \subseteq ToSet(popped[i - 1])
        /\ \A c \in held : hand[c] \notin ToSet(Sent(i))
        /\ \A c, d \in held : c # d => hand[c] # hand[d]
        /\ ~Cut(i) =>
             /\ ToSet(popped[i - 1]) \subseteq ToSet(Sent(i)) \cup {hand[c] : c \in held}
             /\ \A c \in ws : pc[c] = "done" => i - 1 \in closed /\ data[i - 1] = <<>>

(* A channel is closed by the coroutine that pushes into it, at its end, or  *)
(* by the one that reads it, ...                                             *)
Closes(i) ==
    i \in closed =>
        \/ Cut(i)
        \/ pc[Main(i)] = "done"
        \/ pc[Main(i)] = "closeIn" /\ pipe[i].kind = "take"

(* ... and before it is, it has had everything, unless its reader gave up.   *)
Completes(i) ==
    pc[Main(i)] \in {"close", "closeIn", "done"} /\ ~Cut(i) => IsWhole(i, Sent(i))

Flow ==
    /\ Sent(0) = SubSeq(After[0], 1, count[Source])
    /\ \A i \in DOMAIN pipe : IF i \in Forks THEN Forwards(i) ELSE Follows(i)
    /\ \A i \in 0..LastChan : IsPart(i, Sent(i)) /\ Closes(i) /\ Completes(i)
    /\ ended => LastChan \in closed /\ data[LastChan] = <<>>

PipelineInv == TypeOK /\ AtLabels /\ (OrderFree => Flow)
=============================================================================
