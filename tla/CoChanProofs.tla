---------------------------- MODULE CoChanProofs ----------------------------
(***************************************************************************)
(* TLAPS proofs about CoChan, for every set of pushers and poppers, every   *)
(* size and any number of pushes: its inductive invariant, and with it that *)
(* results of push tell the truth, that values keep their order, and that   *)
(* nobody sleeps on a value or on room that is there.                       *)
(***************************************************************************)
EXTENDS CoChan, QueueLemmas

USE ChanAssumption

LEMMA InitContentInv == Init => ContentInv
  <1> SUFFICES ASSUME Init PROVE ContentInv
    OBVIOUS
  <1>1. data = <<>> /\ popped = <<>> /\ popped \o data = <<>> /\ Delivered = {}
    BY DEF Init, Delivered, ToSet
  <1>2. TypeOK
    <2>1. <<>> \in Seq(Values) /\ <<>> \in Seq(Pushers) /\ <<>> \in Seq(Poppers) /\ Len(<<>>) = 0
      OBVIOUS
    <2>2. pc \in [Procs -> {"idle", "room", "taken", "data"}] /\ calls \in [Pushers -> 0..MaxPush]
      BY DEF Init
    <2>3. maxSize \in Sizes /\ (maxSize > 0 => Len(data) <= maxSize) /\ (maxSize = 0 => Len(data) <= 1)
      <3>1. maxSize \in Int /\ Len(data) = 0
        BY <2>1 DEF Init
      <3> QED
        BY <3>1 DEF Init
    <2>4. data \in Seq(Values) /\ popped \in Seq(Values)
      BY <2>1 DEF Init
    <2>5. cvFull \in Seq(Pushers) /\ cvEmpty \in Seq(Poppers)
      BY <2>1 DEF Init
    <2>6. closed \in BOOLEAN /\ accepted \subseteq Values /\ rejected \subseteq Values
      BY DEF Init
    <2> QED
      BY <2>2, <2>3, <2>4, <2>5, <2>6 DEF TypeOK
  <1>3. Numbered
    BY <1>1 DEF Init, Numbered, Procs
  <1>4. InOrder
    BY <1>1 DEF InOrder
  <1>5. PushTells
    BY <1>1 DEF Init, PushTells
  <1> QED
    BY <1>2, <1>3, <1>4, <1>5 DEF ContentInv

-----------------------------------------------------------------------------
(* A push that ends or goes to sleep now: one just called, or one woken     *)
(* from its first wait.                                                     *)
Pushing(c) ==
    /\ c \in Pushers
    /\ maxSize' = maxSize
    /\ \/ pc[c] = "idle" /\ calls[c] < MaxPush /\ calls' = [calls EXCEPT ![c] = @ + 1]
       \/ pc[c] = "room" /\ calls' = calls

(* The item of a push that comes to its end now: nobody has seen it yet.    *)
LEMMA FreshItem ==
    ASSUME ContentInv, NEW c, Pushing(c)
    PROVE  /\ calls' \in [Pushers -> 0..MaxPush]
           /\ <<c, calls'[c]>> \in Values
           /\ calls'[c] > 0
           /\ \A d \in Pushers \ {c} : calls'[d] = calls[d]
           /\ \A v \in Delivered \cup rejected : v[1] = c => v[2] < calls'[c]
           /\ <<c, calls'[c]>> \notin Delivered \cup rejected
  <1> USE DEF ContentInv, TypeOK, Numbered, Procs, Pushing
  <1>1. calls \in [Pushers -> 0..MaxPush] /\ MaxPush \in Nat /\ pc \in [Procs -> {"idle", "room", "taken", "data"}]
    OBVIOUS
  <1>2. calls[c] \in 0..MaxPush
    BY <1>1
  <1>3. calls' \in [Pushers -> 0..MaxPush] /\ \A d \in Pushers \ {c} : calls'[d] = calls[d]
    BY <1>1, <1>2
  <1>4. calls'[c] > 0
    BY <1>1, <1>2
  <1>5. <<c, calls'[c]>> \in Values
    BY <1>3, <1>4 DEF Values
  <1>6. \A v \in Delivered \cup rejected : v[1] = c => v[2] < calls'[c]
    <2> SUFFICES ASSUME NEW v \in Delivered \cup rejected, v[1] = c PROVE v[2] < calls'[c]
      OBVIOUS
    <2>1. v \in Values
      <3>1. Delivered \subseteq Values
        BY DEF Delivered, ToSet
      <3> QED
        BY <3>1
    <2>2. v[2] \in Nat
      BY <2>1 DEF Values
    <2>3. CASE pc[c] = "idle"
      BY <1>1, <1>2, <2>2, <2>3
    <2>4. CASE pc[c] = "room"
      BY <1>1, <1>2, <2>2, <2>4
    <2> QED
      BY <2>3, <2>4
  <1>7. <<c, calls'[c]>> \notin Delivered \cup rejected
    <2> SUFFICES ASSUME <<c, calls'[c]>> \in Delivered \cup rejected PROVE FALSE
      OBVIOUS
    <2>1. calls'[c] < calls'[c]
      BY <1>6
    <2> QED
      BY <1>3, <2>1
  <1> QED
    BY <1>3, <1>4, <1>5, <1>6, <1>7

(* Delivered, and the two sequences behind it, have the values of their     *)
(* type, and the order of InOrder is over them.                             *)
LEMMA DeliveredType ==
    ASSUME ContentInv
    PROVE  /\ Delivered \subseteq Values
           /\ popped \o data \in Seq(Values)
           /\ \A i \in 1..Len(popped \o data) : (popped \o data)[i] \in Delivered
  <1>1. data \in Seq(Values) /\ popped \in Seq(Values)
    BY DEF ContentInv, TypeOK
  <1>2. Delivered \subseteq Values
    BY <1>1 DEF Delivered, ToSet
  <1>3. popped \o data \in Seq(Values)
    BY <1>1
  <1>4. \A i \in 1..Len(popped \o data) : (popped \o data)[i] \in Delivered
    BY <1>1, ToSetConcat DEF Delivered
  <1> QED
    BY <1>2, <1>3, <1>4

(* The order is one of the values that have come out and of those that will. *)
LEMMA SameOrder ==
    ASSUME InOrder, popped' \o data' = popped \o data
    PROVE  InOrder'
  <1> DEFINE all == popped \o data
  <1>1. \A i, j \in 1..Len(all) : i < j /\ all[i][1] = all[j][1] => all[i][2] < all[j][2]
    BY DEF InOrder
  <1>2. all' = all
    OBVIOUS
  <1> HIDE DEF all
  <1>3. (\A i, j \in 1..Len(all) : i < j /\ all[i][1] = all[j][1] => all[i][2] < all[j][2])'
    BY <1>1, <1>2
  <1> QED
    BY <1>3 DEF InOrder, all

(* The step that puts a value into the channel.                             *)
LEMMA AcceptedContentInv ==
    ASSUME ContentInv, NEW c, Pushing(c), PushAccepted(c), ~closed,
           maxSize > 0 => Len(data) < maxSize,
           maxSize = 0 => Len(data) = 0
    PROVE  ContentInv'
  <1> DEFINE v == <<c, calls'[c]>>
  <1>1. TypeOK /\ Numbered /\ InOrder /\ PushTells
    BY DEF ContentInv
  <1>2. /\ c \in Pushers /\ c \in Procs /\ v \in Values
        /\ data' = Append(data, v)
        /\ UNCHANGED <<maxSize, closed, rejected, popped>>
        /\ data \in Seq(Values) /\ popped \in Seq(Values)
    BY <1>1, FreshItem DEF Pushing, PushAccepted, TypeOK, Procs
  <1>3. /\ data' \in Seq(Values)
        /\ Len(data') = Len(data) + 1
        /\ ToSet(data') = ToSet(data) \cup {v}
    <2>1. data \in Seq(Values) /\ v \in Values
      BY <1>2
    <2> HIDE DEF v
    <2>2. /\ Append(data, v) \in Seq(Values)
          /\ Len(Append(data, v)) = Len(data) + 1
          /\ ToSet(Append(data, v)) = ToSet(data) \cup {v}
      BY ONLY <2>1, ToSetAppend
    <2> QED
      BY <1>2, <2>2
  <1>4. Delivered' = Delivered \cup {v}
    BY <1>2, <1>3 DEF Delivered
  <1>5. /\ calls' \in [Pushers -> 0..MaxPush]
        /\ calls'[c] > 0
        /\ \A d \in Pushers \ {c} : calls'[d] = calls[d]
        /\ \A w \in Delivered \cup rejected : w[1] = c => w[2] < calls'[c]
        /\ v \notin Delivered \cup rejected
    BY FreshItem
  <1>6. /\ pc' \in [Procs -> {"idle", "room", "taken", "data"}]
        /\ pc'[c] \in {"idle", "taken"}
        /\ \A d \in Procs \ {c} : pc'[d] = pc[d]
    BY <1>1, <1>2 DEF PushAccepted, Goto, TypeOK
  <1>7. TypeOK'
    <2>1. Len(data) \in Nat /\ maxSize \in Int
      BY <1>1, <1>2 DEF TypeOK
    <2>2. (maxSize > 0 => Len(data') <= maxSize) /\ (maxSize = 0 => Len(data') <= 1)
      BY <1>3, <2>1
    <2>3. cvEmpty' \in Seq(Poppers)
      BY <1>1, NotifyType DEF TypeOK, PushAccepted
    <2>4. cvFull' \in Seq(Pushers)
      <3>1. cvFull \in Seq(Pushers) /\ Append(cvFull, c) \in Seq(Pushers)
        BY <1>1, <1>2 DEF TypeOK
      <3>2. cvFull' = cvFull \/ cvFull' = Append(cvFull, c)
        BY DEF PushAccepted
      <3> QED
        BY <3>1, <3>2
    <2>5. accepted' \subseteq Values
      BY <1>1, <1>2 DEF TypeOK, PushAccepted
    <2> QED
      BY <1>1, <1>2, <1>3, <1>5, <1>6, <2>2, <2>3, <2>4, <2>5 DEF TypeOK
  <1>8. Numbered'
    <2>1. \A d \in Pushers : pc'[d] # "idle" => calls'[d] > 0
      BY <1>1, <1>5, <1>6 DEF Numbered, Procs
    <2>2. \A d \in Pushers : pc'[d] = "taken" => <<d, calls'[d]>> \in Delivered'
      BY <1>1, <1>4, <1>5, <1>6 DEF Numbered, Procs, Item
    <2>3. ASSUME NEW w \in Delivered'
          PROVE  w[2] <= calls'[w[1]] /\ (pc'[w[1]] = "room" => w[2] < calls'[w[1]])
      <3>1. CASE w = v
        BY <1>2, <1>5, <1>6, <3>1
      <3>2. CASE w \in Delivered /\ w[1] = c
        <4>1. w[2] \in Nat /\ calls'[c] \in Nat
          BY <1>2, <1>5, <3>2, DeliveredType DEF Values
        <4> QED
          BY <1>5, <3>2, <4>1
      <3>3. CASE w \in Delivered /\ w[1] # c
        <4>1. w[1] \in Pushers \ {c}
          BY <3>3, DeliveredType DEF Values
        <4> QED
          BY <1>1, <1>5, <1>6, <3>3, <4>1 DEF Numbered, Procs
      <3> QED
        BY <1>4, <3>1, <3>2, <3>3
    <2>4. ASSUME NEW w \in rejected'
          PROVE  w[2] <= calls'[w[1]] /\ (pc'[w[1]] # "idle" => w[2] < calls'[w[1]])
      <3>1. w \in rejected /\ w[1] \in Pushers /\ w[2] \in Nat
        <4>1. w \in rejected
          BY <1>2
        <4>2. rejected \subseteq Values
          BY <1>1 DEF TypeOK
        <4> QED
          BY <4>1, <4>2 DEF Values
      <3>2. CASE w[1] = c
        <4>1. calls'[c] \in Nat
          BY <1>2, <1>5
        <4> QED
          BY <1>5, <3>1, <3>2, <4>1
      <3>3. CASE w[1] # c
        BY <1>1, <1>5, <1>6, <3>1, <3>3 DEF Numbered, Procs
      <3> QED
        BY <3>2, <3>3
    <2> QED
      BY <2>1, <2>2, <2>3, <2>4 DEF Numbered, Item
  <1>9. InOrder'
    <2> DEFINE all == popped \o data
    <2>1. popped' \o data' = Append(all, v)
      BY <1>2, ConcatAppend
    <2>2. /\ all \in Seq(Values) /\ Len(all) \in Nat /\ Len(Append(all, v)) = Len(all) + 1
          /\ \A i \in 1..Len(all) : Append(all, v)[i] = all[i] /\ all[i] \in Delivered
          /\ Append(all, v)[Len(all) + 1] = v
      BY <1>2, DeliveredType
    <2> SUFFICES ASSUME NEW i \in 1..Len(Append(all, v)), NEW j \in 1..Len(Append(all, v)),
                        i < j, Append(all, v)[i][1] = Append(all, v)[j][1]
                 PROVE  Append(all, v)[i][2] < Append(all, v)[j][2]
      BY <2>1 DEF InOrder
    <2>3. i \in 1..Len(all)
      BY <2>2
    <2>4. CASE j \in 1..Len(all)
      BY <1>1, <2>2, <2>3, <2>4 DEF InOrder
    <2>5. CASE j = Len(all) + 1
      BY <1>5, <2>2, <2>3, <2>5
    <2> HIDE DEF all
    <2>6. j \in 1..Len(all) \/ j = Len(all) + 1
      BY <2>2
    <2> QED
      BY <2>4, <2>5, <2>6
  <1>10. PushTells'
    <2>1. accepted' \subseteq accepted \cup {v} /\ (maxSize = 0 => accepted' = accepted)
      BY DEF PushAccepted
    <2> QED
      BY <1>1, <1>2, <1>4, <1>5, <2>1 DEF PushTells
  <1> QED
    BY <1>7, <1>8, <1>9, <1>10 DEF ContentInv

(* The steps that turn a push away, and that send it to sleep.              *)
LEMMA NotAcceptedContentInv ==
    ASSUME ContentInv, NEW c, Pushing(c), PushRejected(c) \/ WaitForRoom(c)
    PROVE  ContentInv'
  <1> DEFINE v == <<c, calls'[c]>>
  <1>1. TypeOK /\ Numbered /\ InOrder /\ PushTells
    BY DEF ContentInv
  <1>2. /\ c \in Pushers /\ c \in Procs /\ v \in Values
        /\ UNCHANGED <<maxSize, data, closed, cvEmpty, accepted, popped>>
    BY FreshItem DEF Pushing, PushRejected, WaitForRoom, Procs
  <1>3. Delivered' = Delivered
    BY <1>2 DEF Delivered
  <1>4. /\ calls' \in [Pushers -> 0..MaxPush]
        /\ calls'[c] > 0
        /\ \A d \in Pushers \ {c} : calls'[d] = calls[d]
        /\ \A w \in Delivered \cup rejected : w[1] = c => w[2] < calls'[c]
        /\ v \notin Delivered \cup rejected
    BY FreshItem
  <1>5. /\ pc' \in [Procs -> {"idle", "room", "taken", "data"}]
        /\ \A d \in Procs \ {c} : pc'[d] = pc[d]
    BY <1>1, <1>2 DEF PushRejected, WaitForRoom, Goto, TypeOK
  <1>6. \/ pc'[c] = "idle" /\ rejected' = rejected \cup {v} /\ cvFull' = cvFull
        \/ pc'[c] = "room" /\ rejected' = rejected /\ cvFull' = Append(cvFull, c)
    BY <1>1, <1>2 DEF PushRejected, WaitForRoom, Goto, TypeOK
  <1>7. TypeOK'
    <2>1. cvFull' \in Seq(Pushers)
      <3>1. cvFull \in Seq(Pushers) /\ Append(cvFull, c) \in Seq(Pushers)
        BY <1>1, <1>2 DEF TypeOK
      <3> QED
        BY <1>6, <3>1
    <2>2. rejected' \subseteq Values
      BY <1>1, <1>2, <1>6 DEF TypeOK
    <2> QED
      BY <1>1, <1>2, <1>4, <1>5, <2>1, <2>2 DEF TypeOK
  <1>8. Numbered'
    <2>1. \A d \in Pushers : pc'[d] # "idle" => calls'[d] > 0
      BY <1>1, <1>4, <1>5 DEF Numbered, Procs
    <2>2. \A d \in Pushers : pc'[d] = "taken" => <<d, calls'[d]>> \in Delivered'
      BY <1>1, <1>3, <1>4, <1>5, <1>6 DEF Numbered, Procs, Item
    <2>3. ASSUME NEW w \in Delivered'
          PROVE  w[2] <= calls'[w[1]] /\ (pc'[w[1]] = "room" => w[2] < calls'[w[1]])
      <3>1. w \in Delivered /\ w[1] \in Pushers /\ w[2] \in Nat
        BY <1>3, DeliveredType DEF Values
      <3>2. CASE w[1] = c
        <4>1. calls'[c] \in Nat
          BY <1>2, <1>4
        <4> QED
          BY <1>4, <3>1, <3>2, <4>1
      <3>3. CASE w[1] # c
        BY <1>1, <1>4, <1>5, <3>1, <3>3 DEF Numbered, Procs
      <3> QED
        BY <3>2, <3>3
    <2>4. ASSUME NEW w \in rejected'
          PROVE  w[2] <= calls'[w[1]] /\ (pc'[w[1]] # "idle" => w[2] < calls'[w[1]])
      <3>1. CASE w = v /\ pc'[c] = "idle"
        BY <1>2, <1>4, <3>1
      <3>2. CASE w \in rejected
        <4>1. w[1] \in Pushers /\ w[2] \in Nat
          BY <1>1, <3>2 DEF TypeOK, Values
        <4>2. CASE w[1] = c
          <5>1. calls'[c] \in Nat
            BY <1>2, <1>4
          <5> QED
            BY <1>4, <3>2, <4>1, <4>2, <5>1
        <4>3. CASE w[1] # c
          BY <1>1, <1>4, <1>5, <3>2, <4>1, <4>3 DEF Numbered, Procs
        <4> QED
          BY <4>2, <4>3
      <3> QED
        BY <1>6, <3>1, <3>2
    <2> QED
      BY <2>1, <2>2, <2>3, <2>4 DEF Numbered, Item
  <1>9. InOrder'
    BY <1>1, <1>2, SameOrder
  <1>10. PushTells'
    BY <1>1, <1>2, <1>3, <1>4, <1>6 DEF PushTells
  <1> QED
    BY <1>7, <1>8, <1>9, <1>10 DEF ContentInv

(* A synchronous push that comes back from its second wait, or waits again. *)
LEMMA PushTakenContentInv ==
    ASSUME ContentInv, NEW c \in Pushers, PushTaken(c)
    PROVE  ContentInv'
  <1>1. TypeOK /\ Numbered /\ InOrder /\ PushTells
    BY DEF ContentInv
  <1>2. /\ c \in Procs /\ pc[c] = "taken"
        /\ UNCHANGED <<maxSize, data, closed, cvEmpty, calls, rejected, popped>>
        /\ Item(c) \in Delivered /\ Item(c) \in Values
    BY <1>1, DeliveredType DEF PushTaken, Procs, Numbered
  <1>3. Delivered' = Delivered
    BY <1>2 DEF Delivered
  <1>4. \/ closed \/ data = <<>>
        \/ accepted' = accepted
    BY DEF PushTaken
  <1>5. \/ accepted' = accepted \cup {Item(c)} /\ pc' = [pc EXCEPT ![c] = "idle"] /\ cvFull' = cvFull
        \/ accepted' = accepted /\ pc' = pc /\ cvFull' = Append(cvFull, c)
    BY DEF PushTaken, Goto
  <1>6. /\ pc' \in [Procs -> {"idle", "room", "taken", "data"}]
        /\ \A d \in Procs : pc'[d] = pc[d] \/ pc'[d] = "idle"
    BY <1>1, <1>2, <1>5 DEF TypeOK
  <1>7. TypeOK'
    <2>1. cvFull' \in Seq(Pushers)
      <3>1. cvFull \in Seq(Pushers) /\ Append(cvFull, c) \in Seq(Pushers)
        BY <1>1 DEF TypeOK
      <3> QED
        BY <1>5, <3>1
    <2>2. accepted' \subseteq Values
      BY <1>1, <1>2, <1>5 DEF TypeOK
    <2> QED
      BY <1>1, <1>2, <1>6, <2>1, <2>2 DEF TypeOK
  <1>8. Numbered'
    <2>1. \A d \in Pushers : pc'[d] # "idle" => pc[d] = pc'[d]
      BY <1>6 DEF Procs
    <2>2. \A w \in Delivered \cup rejected : w[1] \in Pushers
      BY <1>1, DeliveredType DEF TypeOK, Values
    <2>3. \A d \in Pushers : pc'[d] # "idle" => calls'[d] > 0
      BY <1>1, <1>2, <2>1 DEF Numbered
    <2>4. \A d \in Pushers : pc'[d] = "taken" => Item(d)' \in Delivered'
      BY <1>1, <1>2, <1>3, <2>1 DEF Numbered, Item
    <2>5. \A w \in Delivered' : w[2] <= calls'[w[1]]
                                /\ (pc'[w[1]] = "room" => w[2] < calls'[w[1]])
      BY <1>1, <1>2, <1>3, <2>1, <2>2 DEF Numbered
    <2>6. \A w \in rejected' : w[2] <= calls'[w[1]]
                               /\ (pc'[w[1]] # "idle" => w[2] < calls'[w[1]])
      BY <1>1, <1>2, <2>1, <2>2 DEF Numbered
    <2> QED
      BY <2>3, <2>4, <2>5, <2>6 DEF Numbered
  <1>9. InOrder'
    BY <1>1, <1>2, SameOrder
  <1>10. PushTells'
    <2>1. data = <<>> => Delivered = ToSet(popped)
      BY DEF Delivered, ToSet
    <2> QED
      BY <1>1, <1>2, <1>3, <1>4, <1>5, <2>1 DEF PushTells
  <1> QED
    BY <1>7, <1>8, <1>9, <1>10 DEF ContentInv

-----------------------------------------------------------------------------
(* pop and close *)

LEMMA PopContentInv ==
    ASSUME ContentInv, NEW c \in Poppers, Pop(c)
    PROVE  ContentInv'
  <1>1. TypeOK /\ Numbered /\ InOrder /\ PushTells
    BY DEF ContentInv
  <1>2. /\ c \in Procs /\ c \notin Pushers
        /\ UNCHANGED <<maxSize, closed, calls, accepted, rejected>>
        /\ data \in Seq(Values) /\ popped \in Seq(Values)
    BY <1>1 DEF Pop, Procs, TypeOK
  <1>3. /\ popped' \in Seq(Values) /\ data' \in Seq(Values)
        /\ popped' \o data' = popped \o data
        /\ Delivered' = Delivered
        /\ Len(data') <= Len(data)
        /\ ToSet(popped) \subseteq ToSet(popped')
    <2>1. CASE Take(c)
      <3>1. data # <<>> /\ popped' = Append(popped, Head(data)) /\ data' = Tail(data)
        BY <2>1 DEF Take
      <3>2. /\ Head(data) \in Values /\ data' \in Seq(Values) /\ Len(data') = Len(data) - 1
            /\ ToSet(data) = {Head(data)} \cup ToSet(data')
        BY <1>2, <3>1, ToSetTail
      <3>3. popped' \in Seq(Values) /\ ToSet(popped') = ToSet(popped) \cup {Head(data)}
        BY <1>2, <3>1, <3>2, ToSetAppend
      <3>4. popped' \o data' = popped \o data
        BY <1>2, <3>1, ConcatMove
      <3>5. Len(data) \in Nat
        BY <1>2
      <3> QED
        BY <3>2, <3>3, <3>4, <3>5 DEF Delivered
    <2>2. CASE WaitForData(c) \/ PopNothing(c)
      <3>1. UNCHANGED <<data, popped>> /\ Len(data) \in Nat
        BY <1>2, <2>2 DEF WaitForData, PopNothing
      <3> QED
        BY <1>2, <3>1 DEF Delivered
    <2> QED
      BY <2>1, <2>2 DEF Pop
  <1>4. /\ pc' \in [Procs -> {"idle", "room", "taken", "data"}]
        /\ \A d \in Pushers : pc'[d] = pc[d]
    BY <1>1, <1>2 DEF Pop, Take, WaitForData, PopNothing, Goto, TypeOK, Procs
  <1>5. cvFull' \in Seq(Pushers) /\ cvEmpty' \in Seq(Poppers)
    <2>1. cvFull \in Seq(Pushers) /\ cvEmpty \in Seq(Poppers)
      BY <1>1 DEF TypeOK
    <2>2. NotifyOne(cvFull) \in Seq(Pushers) /\ Append(cvEmpty, c) \in Seq(Poppers)
      BY <2>1, NotifyType
    <2>3. /\ cvFull' = cvFull \/ cvFull' = NotifyOne(cvFull)
          /\ cvEmpty' = cvEmpty \/ cvEmpty' = Append(cvEmpty, c)
      BY DEF Pop, Take, WaitForData, PopNothing
    <2> QED
      BY <2>1, <2>2, <2>3
  <1>6. TypeOK'
    <2>1. Len(data) \in Nat /\ Len(data') \in Nat /\ maxSize \in Int
      BY <1>1, <1>2, <1>3 DEF TypeOK
    <2>2. (maxSize > 0 => Len(data') <= maxSize) /\ (maxSize = 0 => Len(data') <= 1)
      BY <1>1, <1>3, <2>1 DEF TypeOK
    <2> QED
      BY <1>1, <1>2, <1>3, <1>4, <1>5, <2>2 DEF TypeOK
  <1>7. Numbered'
    <2>1. \A w \in Delivered \cup rejected : w[1] \in Pushers
      BY <1>1, DeliveredType DEF TypeOK, Values
    <2>2. \A d \in Pushers : Item(d)' = Item(d)
      BY <1>2 DEF Item
    <2> QED
      BY <1>1, <1>2, <1>3, <1>4, <2>1, <2>2 DEF Numbered
  <1>8. InOrder'
    BY <1>1, <1>3, SameOrder
  <1>9. PushTells'
    BY <1>1, <1>2, <1>3 DEF PushTells
  <1> QED
    BY <1>6, <1>7, <1>8, <1>9 DEF ContentInv

LEMMA CloseContentInv ==
    ASSUME ContentInv, Close
    PROVE  ContentInv'
  <1>1. TypeOK /\ Numbered /\ InOrder /\ PushTells
    BY DEF ContentInv
  <1>2. /\ UNCHANGED <<maxSize, data, pc, calls, accepted, rejected, popped>>
        /\ closed' = TRUE /\ cvFull' = <<>> /\ cvEmpty' = <<>>
    BY DEF Close
  <1>3. Delivered' = Delivered
    BY <1>2 DEF Delivered
  <1>4. TypeOK'
    <2>1. cvFull' \in Seq(Pushers) /\ cvEmpty' \in Seq(Poppers)
      BY <1>2
    <2> QED
      BY <1>1, <1>2, <2>1 DEF TypeOK
  <1>5. Numbered'
    BY <1>1, <1>2, <1>3 DEF Numbered, Item
  <1>6. InOrder'
    BY <1>1, <1>2, SameOrder
  <1>7. PushTells'
    BY <1>1, <1>2, <1>3 DEF PushTells
  <1> QED
    BY <1>4, <1>5, <1>6, <1>7 DEF ContentInv

(* A channel that is not full holds less than it may. *)
LEMMA NotFull ==
    ASSUME NEW m \in Int, NEW n \in Nat,
           m > 0 => n <= m, m = 0 => n <= 1,
           ~(m > 0 /\ n = m), ~(m = 0 /\ n = 1)
    PROVE  (m > 0 => n < m) /\ (m = 0 => n = 0)
  <1>1. CASE m > 0
    BY <1>1
  <1>2. CASE m = 0
    BY <1>2
  <1> QED
    BY <1>1, <1>2

(* A push finds room: both ways to accept do. *)
LEMMA PushContentInv ==
    ASSUME ContentInv, NEW c \in Pushers, Push(c) \/ PushResume(c)
    PROVE  ContentInv'
  <1>1. /\ data \in Seq(Values) /\ Len(data) \in Nat /\ maxSize \in Int
        /\ maxSize > 0 => Len(data) <= maxSize
        /\ maxSize = 0 => Len(data) <= 1
    BY DEF ContentInv, TypeOK
  <1>2. Pushing(c)
    BY DEF Push, PushResume, Pushing
  <1>3. CASE ~closed /\ ~Full /\ PushAccepted(c)
    <2>1. ~(maxSize > 0 /\ Len(data) = maxSize) /\ ~(maxSize = 0 /\ Len(data) = 1)
      BY <1>3, Zenon DEF Full
    <2>2. (maxSize > 0 => Len(data) < maxSize) /\ (maxSize = 0 => Len(data) = 0)
      BY <1>1, <2>1, NotFull
    <2> QED
      BY <1>2, <1>3, <2>2, AcceptedContentInv
  <1>4. CASE ~closed /\ RoomOrClosed /\ PushAccepted(c)
    <2>1. maxSize > 0 /\ Len(data) < maxSize
      BY <1>4, Zenon DEF RoomOrClosed
    <2>2. (maxSize > 0 => Len(data) < maxSize) /\ (maxSize = 0 => Len(data) = 0)
      BY <1>1, <2>1
    <2> QED
      BY <1>2, <1>4, <2>2, AcceptedContentInv
  <1>5. CASE PushRejected(c) \/ WaitForRoom(c)
    BY <1>2, <1>5, NotAcceptedContentInv
  <1> QED
    BY <1>3, <1>4, <1>5 DEF Push, PushResume

LEMMA NextContentInv ==
    ASSUME ContentInv, [Next]_vars
    PROVE  ContentInv'
  <1>1. ASSUME NEW c \in Pushers, Push(c) \/ PushResume(c) PROVE ContentInv'
    BY <1>1, PushContentInv
  <1>2. ASSUME NEW c \in Pushers, PushTaken(c) PROVE ContentInv'
    BY <1>2, PushTakenContentInv
  <1>3. ASSUME NEW c \in Poppers, Pop(c) PROVE ContentInv'
    BY <1>3, PopContentInv
  <1>4. CASE Close
    BY <1>4, CloseContentInv
  <1>5. CASE UNCHANGED vars
    <2>1. UNCHANGED <<maxSize, data, closed, cvFull, cvEmpty, pc, calls, accepted, rejected, popped>>
      BY <1>5 DEF vars
    <2>2. Delivered' = Delivered /\ \A c : Item(c)' = Item(c)
      BY <2>1 DEF Delivered, Item
    <2>3. TypeOK' /\ Numbered' /\ PushTells'
      BY <2>1, <2>2 DEF ContentInv, TypeOK, Numbered, PushTells
    <2>4. InOrder'
      BY <2>1, SameOrder DEF ContentInv
    <2> QED
      BY <2>3, <2>4 DEF ContentInv
  <1> QED
    BY <1>1, <1>2, <1>3, <1>4, <1>5 DEF Next

-----------------------------------------------------------------------------
(* A step of coroutine c, which is in no list before, leaves both lists as  *)
(* they should be: each of them stays, loses its first, or gets c.          *)
LEMMA ListsKept ==
    ASSUME TypeOK, ListsInv, NEW c \in Procs, NEW to, ~Asleep(c),
           pc' = [pc EXCEPT ![c] = to], UNCHANGED <<maxSize, closed>>,
           \/ cvFull' = cvFull
           \/ cvFull' = NotifyOne(cvFull)
           \/ cvFull' = Append(cvFull, c) /\ c \in Pushers /\ to \in {"room", "taken"} /\ ~closed,
           \/ cvEmpty' = cvEmpty
           \/ cvEmpty' = NotifyOne(cvEmpty)
           \/ cvEmpty' = Append(cvEmpty, c) /\ c \in Poppers /\ to = "data" /\ ~closed,
           to = "taken" => maxSize = 0
    PROVE  ListsInv'
  <1>1. /\ cvFull \in Seq(Pushers) /\ cvEmpty \in Seq(Poppers)
        /\ ~Contains(cvFull, c) /\ ~Contains(cvEmpty, c)
        /\ IsInjective(cvFull) /\ IsInjective(cvEmpty)
    BY DEF TypeOK, ListsInv, Asleep
  <1>2. pc'[c] = to /\ \A d \in Procs \ {c} : pc'[d] = pc[d]
    BY DEF TypeOK
  <1>3. IsInjective(cvFull') /\ \A d : Contains(cvFull', d) =>
          Contains(cvFull, d) \/ (d = c /\ to \in {"room", "taken"})
    <2>1. CASE cvFull' = cvFull
      BY <1>1, <2>1
    <2>2. CASE cvFull' = NotifyOne(cvFull)
      BY <1>1, <2>2, NotifyMembers
    <2>3. CASE cvFull' = Append(cvFull, c) /\ c \in Pushers /\ to \in {"room", "taken"}
      BY <1>1, <2>3, ContainsAppend, InjectiveAppend
    <2> QED
      BY <2>1, <2>2, <2>3
  <1>4. IsInjective(cvEmpty') /\ \A d : Contains(cvEmpty', d) =>
          Contains(cvEmpty, d) \/ (d = c /\ to = "data")
    <2>1. CASE cvEmpty' = cvEmpty
      BY <1>1, <2>1
    <2>2. CASE cvEmpty' = NotifyOne(cvEmpty)
      BY <1>1, <2>2, NotifyMembers
    <2>3. CASE cvEmpty' = Append(cvEmpty, c) /\ c \in Poppers /\ to = "data"
      BY <1>1, <2>3, ContainsAppend, InjectiveAppend
    <2> QED
      BY <2>1, <2>2, <2>3
  <1>5. /\ \A d \in Pushers : Contains(cvFull', d) => pc'[d] \in {"room", "taken"}
        /\ \A d \in Poppers : Contains(cvEmpty', d) => pc'[d] = "data"
    BY <1>1, <1>2, <1>3, <1>4 DEF ListsInv, Procs
  <1>6. \A d \in Pushers : pc'[d] = "taken" => maxSize' = 0
    BY <1>2 DEF ListsInv, Procs
  <1>7. closed' => cvFull' = <<>> /\ cvEmpty' = <<>>
    BY DEF ListsInv, NotifyOne
  <1> QED
    BY <1>3, <1>4, <1>5, <1>6, <1>7 DEF ListsInv

-----------------------------------------------------------------------------
(* How many have been woken and are on their way. *)
LEMMA AwakeIsWoken ==
    ASSUME TypeOK
    PROVE  /\ Awake(Poppers, "data") = Woken(Poppers, pc, cvEmpty, "data")
           /\ Awake(Pushers, "room") = Woken(Pushers, pc, cvFull, "room")
  <1>1. cvFull \in Seq(Pushers) /\ cvEmpty \in Seq(Poppers)
    BY DEF TypeOK
  <1>2. \A c : (Contains(cvFull, c) => c \in Pushers) /\ (Contains(cvEmpty, c) => c \in Poppers)
    BY <1>1, WaiterType
  <1> QED
    BY <1>2 DEF Awake, Asleep, Woken

LEMMA AwakeIsWokenNext ==
    ASSUME TypeOK'
    PROVE  /\ Awake(Poppers, "data")' = Woken(Poppers, pc', cvEmpty', "data")
           /\ Awake(Pushers, "room")' = Woken(Pushers, pc', cvFull', "room")
  <1>1. cvFull' \in Seq(Pushers) /\ cvEmpty' \in Seq(Poppers)
    BY DEF TypeOK
  <1>2. \A c : (Contains(cvFull', c) => c \in Pushers) /\ (Contains(cvEmpty', c) => c \in Poppers)
    BY <1>1, WaiterType
  <1> QED
    BY <1>2 DEF Awake, Asleep, Woken

(* The counts that EnoughAwake compares, by the step's name for them.       *)
LEMMA EnoughIs ==
    ASSUME TypeOK
    PROVE  EnoughAwake <=>
             /\ cvEmpty # <<>> => Cardinality(Woken(Poppers, pc, cvEmpty, "data")) >= Len(data)
             /\ maxSize > 0 /\ cvFull # <<>> =>
                  Cardinality(Woken(Pushers, pc, cvFull, "room")) >= maxSize - Len(data)
  BY AwakeIsWoken DEF EnoughAwake

LEMMA EnoughIsNext ==
    ASSUME TypeOK'
    PROVE  EnoughAwake' <=>
             /\ cvEmpty' # <<>> => Cardinality(Woken(Poppers, pc', cvEmpty', "data")) >= Len(data')
             /\ maxSize' > 0 /\ cvFull' # <<>> =>
                  Cardinality(Woken(Pushers, pc', cvFull', "room")) >= maxSize' - Len(data')
  BY AwakeIsWokenNext DEF EnoughAwake

-----------------------------------------------------------------------------
(* The steps.  A value that is accepted is one more to be fetched, and one  *)
(* popper is notified; the pusher takes the room it was woken for.          *)
LEMMA AcceptedWakes ==
    ASSUME ChanInv, TypeOK', NEW c \in Pushers, PushAccepted(c), ~closed, ~Asleep(c),
           maxSize' = maxSize
    PROVE  ListsInv' /\ EnoughAwake'
  <1>1. TypeOK /\ ListsInv /\ EnoughAwake
    BY DEF ChanInv, ContentInv
  <1>2. /\ data \in Seq(Values) /\ Len(data) \in Nat /\ maxSize \in Int
        /\ data' \in Seq(Values) /\ Len(data') \in Nat
        /\ cvFull \in Seq(Pushers) /\ cvEmpty \in Seq(Poppers)
        /\ pc \in [Procs -> {"idle", "room", "taken", "data"}]
        /\ c \in Procs
    BY <1>1 DEF TypeOK, Procs
  <1>3. Len(data') = Len(data) + 1
    BY <1>2 DEF PushAccepted
  <1>4. PICK to \in {"taken", "idle"} :
          /\ pc' = [pc EXCEPT ![c] = to] /\ UNCHANGED closed
          /\ cvEmpty' = NotifyOne(cvEmpty)
          /\ maxSize = 0 => cvFull' = Append(cvFull, c) /\ to = "taken"
          /\ maxSize # 0 => cvFull' = cvFull
          /\ to = "taken" => maxSize = 0
    BY DEF PushAccepted, Goto
  <1>5. ListsInv'
    BY <1>1, <1>2, <1>4, ListsKept
  <1>6. \A d \in Procs \ {c} : pc'[d] = pc[d]
    BY <1>2, <1>4
  <1>7. cvEmpty' # <<>> => Cardinality(Woken(Poppers, pc', cvEmpty', "data")) >= Len(data')
    <2> SUFFICES ASSUME cvEmpty' # <<>>
                 PROVE  Cardinality(Woken(Poppers, pc', cvEmpty', "data")) >= Len(data')
      OBVIOUS
    <2>1. cvEmpty # <<>> /\ IsInjective(cvEmpty)
          /\ \A d \in Poppers : Contains(cvEmpty, d) => pc[d] = "data"
      BY <1>1, <1>4 DEF NotifyOne, ListsInv
    <2>2. Cardinality(Woken(Poppers, pc, cvEmpty, "data")) >= Len(data)
      BY <1>1, <2>1, EnoughIs
    <2>3. Cardinality(Woken(Poppers, pc, cvEmpty', "data"))
            = Cardinality(Woken(Poppers, pc, cvEmpty, "data")) + 1
      BY <1>2, <1>4, <2>1, FiniteAssumption, NotifyWakesOne
    <2>4. Woken(Poppers, pc', cvEmpty', "data") = Woken(Poppers, pc, cvEmpty', "data")
      <3>1. \A d \in Poppers : pc'[d] = pc[d]
        BY <1>6 DEF Procs
      <3> QED
        BY <3>1, SameWoken
    <2>5. Cardinality(Woken(Poppers, pc, cvEmpty, "data")) \in Nat
      BY FiniteAssumption, WokenCount
    <2> QED
      BY <1>2, <1>3, <2>2, <2>3, <2>4, <2>5
  <1>8. maxSize' > 0 /\ cvFull' # <<>> =>
          Cardinality(Woken(Pushers, pc', cvFull', "room")) >= maxSize' - Len(data')
    <2> SUFFICES ASSUME maxSize > 0, cvFull' # <<>>
                 PROVE  Cardinality(Woken(Pushers, pc', cvFull', "room")) >= maxSize - Len(data')
      OBVIOUS
    <2>1. cvFull' = cvFull
      BY <1>2, <1>4
    <2>2. Cardinality(Woken(Pushers, pc, cvFull, "room")) >= maxSize - Len(data)
      BY <1>1, <2>1, EnoughIs
    <2>3. Cardinality(Woken(Pushers, pc', cvFull, "room"))
            >= Cardinality(Woken(Pushers, pc, cvFull, "room")) - 1
      <3>1. \A d \in Pushers \ {c} : pc'[d] = pc[d]
        BY <1>6 DEF Procs
      <3> QED
        BY <3>1, FiniteAssumption, OneGoesOn
    <2>4. /\ Cardinality(Woken(Pushers, pc, cvFull, "room")) \in Nat
          /\ Cardinality(Woken(Pushers, pc', cvFull, "room")) \in Nat
      BY FiniteAssumption, WokenCount
    <2> QED
      BY <1>2, <1>3, <2>1, <2>2, <2>3, <2>4
  <1> QED
    BY <1>5, <1>7, <1>8, EnoughIsNext

(* A push that waits finds no room, so nobody need be on the way to it.     *)
LEMMA WaitForRoomWakes ==
    ASSUME ChanInv, TypeOK', NEW c \in Pushers, WaitForRoom(c), ~closed, ~Asleep(c),
           maxSize' = maxSize, maxSize > 0 => Len(data) >= maxSize
    PROVE  ListsInv' /\ EnoughAwake'
  <1>1. TypeOK /\ ListsInv /\ EnoughAwake
    BY DEF ChanInv, ContentInv
  <1>2. /\ data \in Seq(Values) /\ Len(data) \in Nat /\ maxSize \in Int
        /\ pc \in [Procs -> {"idle", "room", "taken", "data"}]
        /\ c \in Procs
    BY <1>1 DEF TypeOK, Procs
  <1>3. /\ pc' = [pc EXCEPT ![c] = "room"] /\ cvFull' = Append(cvFull, c)
        /\ UNCHANGED <<data, closed, cvEmpty>>
    BY DEF WaitForRoom, Goto
  <1>4. ListsInv'
    BY <1>1, <1>2, <1>3, ListsKept
  <1>5. \A d \in Poppers : pc'[d] = pc[d]
    BY <1>2, <1>3 DEF Procs
  <1>6. cvEmpty' # <<>> => Cardinality(Woken(Poppers, pc', cvEmpty', "data")) >= Len(data')
    <2>1. Woken(Poppers, pc', cvEmpty, "data") = Woken(Poppers, pc, cvEmpty, "data")
      BY <1>5, SameWoken
    <2>2. cvEmpty # <<>> => Cardinality(Woken(Poppers, pc, cvEmpty, "data")) >= Len(data)
      BY <1>1, EnoughIs
    <2> QED
      BY <1>3, <2>1, <2>2
  <1>7. Cardinality(Woken(Pushers, pc', cvFull', "room")) \in Nat
    BY FiniteAssumption, WokenCount
  <1>8. maxSize' > 0 /\ cvFull' # <<>> =>
          Cardinality(Woken(Pushers, pc', cvFull', "room")) >= maxSize' - Len(data')
    BY <1>2, <1>3, <1>7
  <1> QED
    BY <1>4, <1>6, <1>8, EnoughIsNext

(* A push that fails does so on a closed channel, where nobody is listed.   *)
LEMMA RejectedWakes ==
    ASSUME ChanInv, NEW c \in Pushers, PushRejected(c), closed, maxSize' = maxSize
    PROVE  ListsInv' /\ EnoughAwake'
  <1>1. TypeOK /\ ListsInv
    BY DEF ChanInv, ContentInv
  <1>2. cvFull = <<>> /\ cvEmpty = <<>>
    BY <1>1 DEF ListsInv
  <1>3. ~Asleep(c) /\ c \in Procs
    BY <1>2, NobodyInEmpty DEF Asleep, Procs
  <1>4. pc' = [pc EXCEPT ![c] = "idle"] /\ UNCHANGED <<closed, cvFull, cvEmpty>>
    BY DEF PushRejected, Goto
  <1>5. ListsInv'
    BY <1>1, <1>3, <1>4, ListsKept
  <1> QED
    BY <1>2, <1>4, <1>5 DEF EnoughAwake

LEMMA PushWakes ==
    ASSUME ChanInv, TypeOK', NEW c \in Pushers, Push(c) \/ PushResume(c)
    PROVE  ListsInv' /\ EnoughAwake'
  <1>1. TypeOK /\ ListsInv
    BY DEF ChanInv, ContentInv
  <1>2. Len(data) \in Nat /\ maxSize \in Int /\ cvFull \in Seq(Pushers) /\ cvEmpty \in Seq(Poppers)
    BY <1>1 DEF TypeOK
  <1>3. maxSize' = maxSize
    BY DEF Push, PushResume
  <1>4. ~Asleep(c)
    <2>1. CASE pc[c] = "idle"
      <3>1. ~Contains(cvFull, c)
        BY <1>1, <2>1 DEF ListsInv
      <3>2. ~Contains(cvEmpty, c)
        BY <1>2, WaiterType
      <3> QED
        BY <3>1, <3>2 DEF Asleep
    <2>2. CASE PushResume(c)
      BY <2>2 DEF PushResume
    <2> QED
      BY <2>1, <2>2 DEF Push
  <1>5. CASE closed /\ PushRejected(c)
    BY <1>3, <1>5, RejectedWakes
  <1>6. CASE ~closed /\ PushAccepted(c)
    BY <1>3, <1>4, <1>6, AcceptedWakes
  <1>7. CASE ~closed /\ Full /\ WaitForRoom(c)
    <2>1. maxSize > 0 => Len(data) >= maxSize
      BY <1>2, <1>7 DEF Full
    <2> QED
      BY <1>3, <1>4, <1>7, <2>1, WaitForRoomWakes
  <1>8. CASE ~RoomOrClosed /\ WaitForRoom(c)
    <2>1. ~closed /\ ~(maxSize > 0 /\ Len(data) < maxSize)
      BY <1>8, Zenon DEF RoomOrClosed
    <2>2. maxSize > 0 => Len(data) >= maxSize
      BY <1>2, <2>1
    <2> QED
      BY <1>3, <1>4, <1>8, <2>1, <2>2, WaitForRoomWakes
  <1> QED
    BY <1>5, <1>6, <1>7, <1>8 DEF Push, PushResume

(* The second wait is that of a synchronous channel only.                   *)
LEMMA PushTakenWakes ==
    ASSUME ChanInv, TypeOK', NEW c \in Pushers, PushTaken(c)
    PROVE  ListsInv' /\ EnoughAwake'
  <1>1. TypeOK /\ ListsInv /\ EnoughAwake
    BY DEF ChanInv, ContentInv
  <1>2. /\ pc \in [Procs -> {"idle", "room", "taken", "data"}] /\ c \in Procs
        /\ closed \in BOOLEAN
    BY <1>1 DEF TypeOK, Procs
  <1>3. /\ pc[c] = "taken" /\ maxSize = 0 /\ ~Asleep(c)
        /\ UNCHANGED <<maxSize, data, closed, cvEmpty>>
    BY <1>1 DEF PushTaken, ListsInv
  <1>4. PICK to \in {"taken", "idle"} :
          /\ pc' = [pc EXCEPT ![c] = to]
          /\ cvFull' = cvFull \/ (cvFull' = Append(cvFull, c) /\ to = "taken" /\ ~closed)
    <2>1. CASE closed \/ data = <<>>
      BY <2>1 DEF PushTaken, Goto
    <2>2. CASE ~(closed \/ data = <<>>)
      <3>1. pc = [pc EXCEPT ![c] = "taken"]
        BY <1>2, <1>3
      <3> QED
        BY <2>2, <3>1 DEF PushTaken
    <2> QED
      BY <2>1, <2>2
  <1>5. ListsInv'
    BY <1>1, <1>2, <1>3, <1>4, ListsKept
  <1>6. \A d \in Poppers : pc'[d] = pc[d]
    BY <1>2, <1>4 DEF Procs
  <1>7. cvEmpty' # <<>> => Cardinality(Woken(Poppers, pc', cvEmpty', "data")) >= Len(data')
    BY <1>1, <1>3, <1>6, SameWoken, EnoughIs
  <1> QED
    BY <1>3, <1>5, <1>7, EnoughIsNext

(* A value that is taken leaves room for one, and one pusher is notified;   *)
(* the popper takes the value it was woken for.                             *)
LEMMA TakeWakes ==
    ASSUME ChanInv, TypeOK', NEW c \in Poppers, Take(c), ~Asleep(c), UNCHANGED <<maxSize, closed>>
    PROVE  ListsInv' /\ EnoughAwake'
  <1>1. TypeOK /\ ListsInv /\ EnoughAwake
    BY DEF ChanInv, ContentInv
  <1>2. /\ data \in Seq(Values) /\ Len(data) \in Nat /\ maxSize \in Int
        /\ cvFull \in Seq(Pushers) /\ cvEmpty \in Seq(Poppers)
        /\ pc \in [Procs -> {"idle", "room", "taken", "data"}]
        /\ c \in Procs
    BY <1>1 DEF TypeOK, Procs
  <1>3. Len(data') = Len(data) - 1
    BY <1>2 DEF Take
  <1>4. /\ pc' = [pc EXCEPT ![c] = "idle"] /\ UNCHANGED cvEmpty
        /\ cvFull' = NotifyOne(cvFull)
    BY DEF Take, Goto
  <1>5. ListsInv'
    BY <1>1, <1>2, <1>4, ListsKept
  <1>6. \A d \in Procs \ {c} : pc'[d] = pc[d]
    BY <1>2, <1>4
  <1>7. cvEmpty' # <<>> => Cardinality(Woken(Poppers, pc', cvEmpty', "data")) >= Len(data')
    <2> SUFFICES ASSUME cvEmpty # <<>>
                 PROVE  Cardinality(Woken(Poppers, pc', cvEmpty, "data")) >= Len(data')
      BY <1>4
    <2>1. Cardinality(Woken(Poppers, pc, cvEmpty, "data")) >= Len(data)
      BY <1>1, EnoughIs
    <2>2. Cardinality(Woken(Poppers, pc', cvEmpty, "data"))
            >= Cardinality(Woken(Poppers, pc, cvEmpty, "data")) - 1
      <3>1. \A d \in Poppers \ {c} : pc'[d] = pc[d]
        BY <1>6 DEF Procs
      <3> QED
        BY <3>1, FiniteAssumption, OneGoesOn
    <2>3. /\ Cardinality(Woken(Poppers, pc, cvEmpty, "data")) \in Nat
          /\ Cardinality(Woken(Poppers, pc', cvEmpty, "data")) \in Nat
      BY FiniteAssumption, WokenCount
    <2> QED
      BY <1>2, <1>3, <2>1, <2>2, <2>3
  <1>8. maxSize' > 0 /\ cvFull' # <<>> =>
          Cardinality(Woken(Pushers, pc', cvFull', "room")) >= maxSize' - Len(data')
    <2> SUFFICES ASSUME maxSize > 0, cvFull' # <<>>
                 PROVE  Cardinality(Woken(Pushers, pc', cvFull', "room")) >= maxSize - Len(data')
      OBVIOUS
    <2>1. cvFull # <<>> /\ IsInjective(cvFull)
          /\ \A d \in Pushers : Contains(cvFull, d) => pc[d] = "room"
      BY <1>1, <1>2, <1>4 DEF NotifyOne, ListsInv
    <2>2. Cardinality(Woken(Pushers, pc, cvFull, "room")) >= maxSize - Len(data)
      BY <1>1, <2>1, EnoughIs
    <2>3. Cardinality(Woken(Pushers, pc, cvFull', "room"))
            = Cardinality(Woken(Pushers, pc, cvFull, "room")) + 1
      BY <1>2, <1>4, <2>1, FiniteAssumption, NotifyWakesOne
    <2>4. Woken(Pushers, pc', cvFull', "room") = Woken(Pushers, pc, cvFull', "room")
      <3>1. \A d \in Pushers : pc'[d] = pc[d]
        BY <1>6 DEF Procs
      <3> QED
        BY <3>1, SameWoken
    <2>5. Cardinality(Woken(Pushers, pc, cvFull, "room")) \in Nat
      BY FiniteAssumption, WokenCount
    <2> QED
      BY <1>2, <1>3, <2>2, <2>3, <2>4, <2>5
  <1> QED
    BY <1>5, <1>7, <1>8, EnoughIsNext

(* A pop that waits or gives up finds nothing to fetch.                     *)
LEMMA NothingWakes ==
    ASSUME ChanInv, TypeOK', NEW c \in Poppers, WaitForData(c) \/ PopNothing(c), ~Asleep(c),
           UNCHANGED <<maxSize, closed>>
    PROVE  ListsInv' /\ EnoughAwake'
  <1>1. TypeOK /\ ListsInv /\ EnoughAwake
    BY DEF ChanInv, ContentInv
  <1>2. pc \in [Procs -> {"idle", "room", "taken", "data"}] /\ c \in Procs
    BY <1>1 DEF TypeOK, Procs
  <1>3. /\ data = <<>> /\ UNCHANGED <<data, cvFull>>
        /\ \/ pc' = [pc EXCEPT ![c] = "data"] /\ cvEmpty' = Append(cvEmpty, c) /\ ~closed
           \/ pc' = [pc EXCEPT ![c] = "idle"] /\ cvEmpty' = cvEmpty
    BY DEF WaitForData, PopNothing, Goto
  <1>4. ListsInv'
    BY <1>1, <1>2, <1>3, ListsKept
  <1>5. \A d \in Pushers : pc'[d] = pc[d]
    BY <1>2, <1>3 DEF Procs
  <1>6. cvEmpty' # <<>> => Cardinality(Woken(Poppers, pc', cvEmpty', "data")) >= Len(data')
    <2>1. Cardinality(Woken(Poppers, pc', cvEmpty', "data")) \in Nat
      BY FiniteAssumption, WokenCount
    <2>2. Len(data') = 0
      BY <1>3
    <2> QED
      BY <2>1, <2>2
  <1>7. maxSize' > 0 /\ cvFull' # <<>> =>
          Cardinality(Woken(Pushers, pc', cvFull', "room")) >= maxSize' - Len(data')
    BY <1>1, <1>3, <1>5, SameWoken, EnoughIs
  <1> QED
    BY <1>4, <1>6, <1>7, EnoughIsNext

LEMMA PopWakes ==
    ASSUME ChanInv, TypeOK', NEW c \in Poppers, Pop(c)
    PROVE  ListsInv' /\ EnoughAwake'
  <1>1. TypeOK /\ ListsInv
    BY DEF ChanInv, ContentInv
  <1>2. ~Asleep(c)
    <2>1. CASE pc[c] = "idle"
      <3>1. ~Contains(cvEmpty, c)
        BY <1>1, <2>1 DEF ListsInv
      <3>2. ~Contains(cvFull, c)
        BY <1>1, WaiterType DEF TypeOK
      <3> QED
        BY <3>1, <3>2 DEF Asleep
    <2> QED
      BY <2>1 DEF Pop
  <1>3. UNCHANGED <<maxSize, closed>>
    BY DEF Pop
  <1>4. CASE Take(c)
    BY <1>2, <1>3, <1>4, TakeWakes
  <1>5. CASE WaitForData(c) \/ PopNothing(c)
    BY <1>2, <1>3, <1>5, NothingWakes
  <1> QED
    BY <1>4, <1>5 DEF Pop

(* close() leaves nobody in the lists.                                      *)
LEMMA CloseWakes ==
    ASSUME ChanInv, Close
    PROVE  ListsInv' /\ EnoughAwake'
  <1>1. ListsInv
    BY DEF ChanInv
  <1>2. cvFull' = <<>> /\ cvEmpty' = <<>> /\ UNCHANGED <<maxSize, pc>>
    BY DEF Close
  <1>3. ListsInv'
    BY <1>1, <1>2, NobodyInEmpty DEF ListsInv, IsInjective
  <1> QED
    BY <1>2, <1>3 DEF EnoughAwake

LEMMA InitChanInv == Init => ChanInv
  <1> SUFFICES ASSUME Init PROVE ChanInv
    OBVIOUS
  <1>1. cvFull = <<>> /\ cvEmpty = <<>> /\ \A c \in Pushers : pc[c] = "idle"
    BY DEF Init, Procs
  <1>2. ListsInv
    BY <1>1, NobodyInEmpty DEF ListsInv, IsInjective
  <1> QED
    BY <1>1, <1>2, InitContentInv DEF ChanInv, EnoughAwake

(* Every step preserves the invariant.                                      *)
LEMMA NextChanInv ==
    ASSUME ChanInv, [Next]_vars
    PROVE  ChanInv'
  <1>1. ContentInv' /\ TypeOK'
    BY NextContentInv DEF ChanInv, ContentInv
  <1>2. ASSUME NEW c \in Pushers, Push(c) \/ PushResume(c) PROVE ListsInv' /\ EnoughAwake'
    BY <1>1, <1>2, PushWakes
  <1>3. ASSUME NEW c \in Pushers, PushTaken(c) PROVE ListsInv' /\ EnoughAwake'
    BY <1>1, <1>3, PushTakenWakes
  <1>4. ASSUME NEW c \in Poppers, Pop(c) PROVE ListsInv' /\ EnoughAwake'
    BY <1>1, <1>4, PopWakes
  <1>5. ASSUME Close PROVE ListsInv' /\ EnoughAwake'
    BY <1>5, CloseWakes
  <1>6. ASSUME UNCHANGED vars PROVE ListsInv' /\ EnoughAwake'
    BY <1>6 DEF vars, ChanInv, ListsInv, EnoughAwake, Awake, Asleep
  <1>7. ListsInv' /\ EnoughAwake'
    BY <1>2, <1>3, <1>4, <1>5, <1>6 DEF Next, ChanInv
  <1> QED
    BY <1>1, <1>7 DEF ChanInv

-----------------------------------------------------------------------------
(* The channel of every size, for any number of callers, is always in a     *)
(* state that its invariant describes (co_chan.h:152-280).                  *)
THEOREM ChanInvariance == SafeSpec => []ChanInv
  <1>1. ChanInv /\ [Next]_vars => ChanInv'
    BY NextChanInv
  <1> QED
    BY <1>1, InitChanInv, PTL DEF SafeSpec

(* Values come out once, those of one pusher in the order of its pushes.    *)
THEOREM ChanInOrder == SafeSpec => []InOrder
  <1>1. ChanInv => InOrder
    BY DEF ChanInv, ContentInv
  <1> QED
    BY <1>1, ChanInvariance, PTL

(* push tells the truth about the value it was given.                       *)
THEOREM ChanPushTells == SafeSpec => []PushTells
  <1>1. ChanInv => PushTells
    BY DEF ChanInv, ContentInv
  <1> QED
    BY <1>1, ChanInvariance, PTL

(* One notify_one per value and per slot is enough: whoever sleeps on a     *)
(* value or on room has others awake for all there is (co_chan.h:181, 196,  *)
(* 261).                                                                    *)
THEOREM ChanEnoughAwake == SafeSpec => []EnoughAwake
  <1>1. ChanInv => EnoughAwake
    BY DEF ChanInv
  <1> QED
    BY <1>1, ChanInvariance, PTL
=============================================================================
