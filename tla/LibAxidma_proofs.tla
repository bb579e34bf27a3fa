--------------------------- MODULE LibAxidma_proofs ---------------------------
(* What the library's arrays list, what a completion signal runs, and that *)
(* the tables it uses are there.                                           *)
EXTENDS LibAxidma, FiniteSetTheorems, TLAPS

LEMMA NumIsPositive == num \in Nat \ {0} /\ Slots = 0..(num - 1)
  BY LibConstants DEF num, Slots, Chan, Kinds

LEMMA ChansTyped ==
  ASSUME NEW i \in 1..num
  PROVE  Chans[i] \in Chan /\ Chans[i].kind \in Kinds /\ Chans[i].channel_id \in Ids
<1>1. Chans[i] \in Chan
  BY LibConstants DEF num
<1> QED
  BY <1>1 DEF Chan, Ids

-----------------------------------------------------------------------------
(* Types.                                                                  *)

LEMMA InitTypes == Init => TypeInv
  BY NumIsPositive DEF Init, TypeInv, TypeOK

(* The number of channels of a kind.                                       *)
LEMMA OfKindFinite ==
  ASSUME NEW k, NEW n \in 0..num
  PROVE  /\ IsFiniteSet(OfKind(k, n)) /\ Cardinality(OfKind(k, n)) \in Nat
         /\ OfKind(k, n) \subseteq OfKind(k, num)
         /\ Cardinality(OfKind(k, n)) <= Cardinality(OfKind(k, num))
<1>0. num \in Nat
  BY NumIsPositive
<1>1. IsFiniteSet(1..num) /\ OfKind(k, num) \subseteq 1..num
  BY <1>0, FS_Interval DEF OfKind
<1>2. IsFiniteSet(OfKind(k, num))
  BY <1>1, FS_Subset
<1>3. OfKind(k, n) \subseteq OfKind(k, num)
  BY <1>0 DEF OfKind
<1> QED
  BY <1>2, <1>3, FS_Subset, FS_CardinalityType

LEMMA RoomIsNat == \A k : Room(k) \in Nat
  BY OfKindFinite, NumIsPositive DEF Room

LEMMA TypeStep ==
  ASSUME TypeInv, [Next]_vars
  PROVE  TypeInv'
<1> USE DEF TypeInv, TypeOK
<1>1. CASE OpenDevice
  BY <1>1 DEF OpenDevice, handle, cbs
<1>2. CASE Alloc
  <2>1. /\ pc' \in {"fill", "out"} /\ table' \in {"raw", "null", "freed"}
        /\ UNCHANGED <<initialized, num_channels, cbs, wild, running, pending, ran>>
    BY <1>2 DEF Alloc
  <2>2. entered' \in 0..num
    BY <1>2, NumIsPositive DEF Alloc
  <2>3. array' \in [Kinds -> [ids : Seq(Ids \cup {NULL}), room : Nat]]
    <3>1. ASSUME NEW k \in Kinds
          PROVE  [i \in 1..Len(array[k].ids) |-> NULL] \in Seq(Ids \cup {NULL})
      <4>1. Len(array[k].ids) \in Nat
        OBVIOUS
      <4> QED
        BY <4>1
    <3>2. CASE array' = [k \in Kinds |-> [ids  |-> [i \in 1..Len(array[k].ids) |-> NULL],
                                         room |-> Room(k)]]
      BY <3>1, <3>2, RoomIsNat
    <3>3. CASE array' = [k \in Kinds |-> [array[k] EXCEPT !.room = 0]]
      BY <3>3
    <3> QED
      BY <1>2, <3>2, <3>3 DEF Alloc
  <2> QED
    BY <2>1, <2>2, <2>3 DEF cbs
<1>3. CASE Fill
  <2> DEFINE i == entered + 1
             k == Chans[i].kind
  <2>1. i \in 1..num /\ entered \in Slots
    BY <1>3, NumIsPositive DEF Fill
  <2>2. k \in Kinds /\ IdAt(i) \in Ids
    BY <2>1, ChansTyped DEF IdAt
  <2>3. array' = [array EXCEPT ![k].ids = Append(@, IdAt(i))]
    BY <1>3 DEF Fill
  <2>4. array' \in [Kinds -> [ids : Seq(Ids \cup {NULL}), room : Nat]]
    <3> HIDE DEF k, i
    <3>1. Append(array[k].ids, IdAt(i)) \in Seq(Ids \cup {NULL})
      BY <2>2
    <3> QED
      BY <2>2, <2>3, <3>1
  <2>5. /\ pc' \in {"fill", "setup"} /\ table' \in {"raw", "filled", table}
        /\ num_channels' = num /\ entered' = i
        /\ callback' = [callback EXCEPT ![entered] = NULL]
        /\ user_data' = [user_data EXCEPT ![entered] = NULL]
        /\ wild' \in BOOLEAN
        /\ UNCHANGED <<initialized, arg, asked, running, pending, ran>>
    BY <1>3 DEF Fill
  <2> QED
    BY <2>1, <2>4, <2>5, NumIsPositive
<1>4. CASE Setup
  BY <1>4 DEF Setup, cbs
<1>5. CASE Destroy
  BY <1>5 DEF Destroy, cbs
<1>6. CASE Close
  BY <1>6 DEF Close
<1>7. CASE SetData
  BY <1>7 DEF SetData, Registration, handle
<1>8. CASE HandleSignal
  <2> DEFINE id == Head(pending)
             s  == HandlerSlot(id)
  <2>1. id \in Ids /\ Tail(pending) \in Seq(Ids)
    BY <1>8 DEF HandleSignal
  <2>2. /\ pc' \in {pc, "aborted"} /\ pending' = Tail(pending) /\ wild' \in BOOLEAN
        /\ UNCHANGED <<handle, cbs, running>>
    BY <1>8 DEF HandleSignal
  <2>3. ran' \in [id : Ids, callback : Callbacks, data : Callbacks \cup {NULL}] \cup {Nothing}
    <3>1. \/ ran' = Nothing
          \/ /\ s \in Slots /\ callback[s] # NULL
             /\ ran' = [id |-> id, callback |-> callback[s], data |-> user_data[s]]
      BY <1>8 DEF HandleSignal, Runs, Written
    <3> HIDE DEF id, s
    <3> QED
      BY <2>1, <3>1
  <2> QED
    BY <2>1, <2>2, <2>3 DEF handle, cbs
<1>9. ASSUME NEW id \in Ids, Transfer(id) \/ Complete(id) \/ Stop(id)
      PROVE  TypeInv'
  <2>1. /\ UNCHANGED <<pc, handle, cbs, wild, ran>>
        /\ \/ running' = [running EXCEPT ![id] = running[id] + 1]
           \/ \E late \in {0, 1} : running' = [running EXCEPT ![id] = late]
           \/ running[id] > 0 /\ running' = [running EXCEPT ![id] = running[id] - 1]
        /\ pending' = pending \/ pending' = Append(pending, id)
    <3>1. CASE Transfer(id)
      BY <3>1 DEF Transfer
    <3>2. CASE Complete(id)
      BY <3>2 DEF Complete
    <3>3. CASE Stop(id)
      BY <3>3 DEF Stop
    <3> QED
      BY <1>9, <3>1, <3>2, <3>3
  <2>2. running' \in [Ids -> Nat]
    <3>1. running \in [Ids -> Nat]
      OBVIOUS
    <3>2. running[id] > 0 => running[id] - 1 \in Nat
      BY <3>1
    <3>3. running[id] + 1 \in Nat
      BY <3>1
    <3>4. \A n \in Nat : [running EXCEPT ![id] = n] \in [Ids -> Nat]
      BY <3>1
    <3>5. 0 \in Nat /\ 1 \in Nat
      OBVIOUS
    <3> QED
      BY <2>1, <3>2, <3>3, <3>4, <3>5
  <2>3. pending' \in Seq(Ids)
    <3>1. Append(pending, id) \in Seq(Ids)
      OBVIOUS
    <3> QED
      BY <2>1, <3>1
  <2> QED
    BY <2>1, <2>2, <2>3 DEF handle, cbs
<1>10. ASSUME NEW id \in Ids, NEW value \in Callbacks, SetCallback(id, value)
       PROVE  TypeInv'
  BY <1>10 DEF SetCallback, Registration, handle
<1>11. CASE UNCHANGED vars
  BY <1>11 DEF vars, handle, cbs
<1> QED
  BY <1>1, <1>2, <1>3, <1>4, <1>5, <1>6, <1>7, <1>8, <1>9, <1>10, <1>11 DEF Next

(* The library's fields, and what the handler runs, are what they can be,  *)
(* for any channels, whatever ids they have, whatever signals come, and    *)
(* however often axidma_init is called (libaxidma.c).                      *)
THEOREM LibTypeCorrect == Spec => []TypeOK
<1>1. TypeInv => TypeOK
  BY DEF TypeInv
<1> QED
  BY <1>1, InitTypes, TypeStep, PTL DEF Spec

-----------------------------------------------------------------------------
(* The arrays.                                                             *)

(* What is listed after a step.                                            *)
LEMMA ListedNext ==
  ASSUME NEW k \in Kinds
  PROVE  LET ids == array'[k].ids
         IN Listed(k, entered)' <=>
               /\ Len(ids) = Cardinality(OfKind(k, entered'))
               /\ {ids[j] : j \in DOMAIN ids} =
                     {Chans[i].channel_id : i \in OfKind(k, entered')}
  BY DEF Listed, OfKind

(* One more channel is entered into the array of its kind.                 *)
LEMMA OneMoreListed ==
  ASSUME TypeInv, Fill, NEW k \in Kinds, Listed(k, entered)
  PROVE  Listed(k, entered)' /\ array'[k].room = array[k].room
<1> DEFINE i == entered + 1
           c == Chans[i]
           ids == array[k].ids
<1>1. /\ i \in 1..num /\ entered \in 0..num /\ entered \in Nat
      /\ array' = [array EXCEPT ![c.kind].ids = Append(@, c.channel_id)]
      /\ array \in [Kinds -> [ids : Seq(Ids \cup {NULL}), room : Nat]]
      /\ entered' = i
  BY NumIsPositive DEF Fill, TypeInv, TypeOK, IdAt
<1>2. c.kind \in Kinds /\ c.channel_id \in Ids
  BY <1>1, ChansTyped
<1>3. OfKind(k, i) = IF c.kind = k THEN OfKind(k, entered) \cup {i} ELSE OfKind(k, entered)
  <2>1. 1..i = (1..entered) \cup {i}
    BY <1>1
  <2>2. \A j : j \in OfKind(k, i) <=> j \in OfKind(k, entered) \/ (j = i /\ c.kind = k)
    BY <2>1 DEF OfKind
  <2> QED
    BY <2>2
<1>4. /\ i \notin OfKind(k, entered) /\ IsFiniteSet(OfKind(k, entered))
      /\ Cardinality(OfKind(k, entered)) \in Nat
  <2>1. i \notin OfKind(k, entered)
    BY <1>1 DEF OfKind
  <2> QED
    BY <1>1, <2>1, OfKindFinite
<1>5. /\ Len(ids) = Cardinality(OfKind(k, entered))
      /\ {ids[j] : j \in DOMAIN ids} = {Chans[j].channel_id : j \in OfKind(k, entered)}
  BY DEF Listed
<1> HIDE DEF c, i
<1>6. CASE c.kind # k
  <2>1. array'[k] = array[k]
    BY <1>1, <1>2, <1>6
  <2> QED
    BY <1>1, <1>3, <1>5, <1>6, <2>1, ListedNext
<1>7. CASE c.kind = k
  <2>1. array'[k].ids = Append(ids, c.channel_id) /\ array'[k].room = array[k].room
    BY <1>1, <1>2, <1>7
  <2>2. Cardinality(OfKind(k, i)) = Cardinality(OfKind(k, entered)) + 1
    BY <1>3, <1>4, <1>7, FS_AddElement
  <2>3. ids \in Seq(Ids \cup {NULL}) /\ Len(ids) \in Nat
    BY <1>1
  <2> DEFINE new == Append(ids, c.channel_id)
  <2>4. /\ Len(new) = Len(ids) + 1 /\ DOMAIN new = 1..(Len(ids) + 1)
        /\ DOMAIN ids = 1..Len(ids) /\ new[Len(ids) + 1] = c.channel_id
    BY <1>2, <2>3
  <2>5. \A j \in 1..Len(ids) : new[j] = ids[j]
    BY <1>2, <2>3
  <2>6. DOMAIN new = DOMAIN ids \cup {Len(ids) + 1}
    BY <2>3, <2>4
  <2> HIDE DEF new
  <2>7. {new[j] : j \in DOMAIN new} = {ids[j] : j \in DOMAIN ids} \cup {c.channel_id}
    BY <2>4, <2>5, <2>6
  <2>8. {Chans[j].channel_id : j \in OfKind(k, i)} =
           {Chans[j].channel_id : j \in OfKind(k, entered)} \cup {c.channel_id}
    BY <1>3, <1>7 DEF c
  <2>9. array'[k].ids = new
    BY <2>1 DEF new
  <2> QED
    <3>1. Len(new) = Cardinality(OfKind(k, i))
      BY <1>5, <2>2, <2>4
    <3>2. {new[j] : j \in DOMAIN new} = {Chans[j].channel_id : j \in OfKind(k, i)}
      BY <1>5, <2>7, <2>8
    <3> QED
      BY <1>1, <2>1, <2>9, <3>1, <3>2, ListedNext
<1> QED
  BY <1>6, <1>7

LEMMA InitArrays == Init => ArraysInv
  BY DEF Init, ArraysInv

LEMMA ArraysStay ==
  ASSUME ArraysInv, UNCHANGED <<pc, initialized, array, entered>>
  PROVE  ArraysInv'
  BY DEF ArraysInv, Listed, OfKind, Room

LEMMA ArraysStep ==
  ASSUME Reinit = "never", TypeInv, ArraysInv, [Next]_vars
  PROVE  ArraysInv'
<1>1. CASE OpenDevice
  <2>1. pc = "out" /\ pc' \in {"out", "alloc"} /\ ~initialized /\ UNCHANGED handle
    BY <1>1 DEF OpenDevice
  <2>2. \A k \in Kinds : array[k].ids = <<>>
    BY <1>1 DEF OpenDevice
  <2> QED
    BY <2>1, <2>2 DEF ArraysInv, handle
<1>2. CASE Alloc
  <2>1. pc = "alloc" /\ pc' \in {"fill", "out"} /\ ~initialized /\ ~initialized'
    BY <1>2 DEF Alloc, ArraysInv, TypeInv, TypeOK
  <2>2. ASSUME pc' = "fill", NEW k \in Kinds
        PROVE  Listed(k, entered)' /\ array'[k].room = Room(k)
    <3>1. /\ array'[k] = [ids |-> [i \in 1..Len(array[k].ids) |-> NULL], room |-> Room(k)]
          /\ entered' = 0
      BY <1>2, <2>2 DEF Alloc
    <3>2. array[k].ids = <<>>
      BY <2>1 DEF ArraysInv
    <3>3. [i \in 1..Len(<<>>) |-> NULL] = <<>>
      OBVIOUS
    <3>4. OfKind(k, 0) = {}
      BY DEF OfKind
    <3>5. array'[k].ids = <<>>
      BY <3>1, <3>2, <3>3
    <3>6. Len(<<>>) = 0 /\ DOMAIN <<>> = {}
      OBVIOUS
    <3> QED
      <4>1. Len(array'[k].ids) = Cardinality(OfKind(k, entered'))
        BY <3>1, <3>4, <3>5, <3>6, FS_EmptySet
      <4>2. {array'[k].ids[j] : j \in DOMAIN array'[k].ids} =
               {Chans[j].channel_id : j \in OfKind(k, entered')}
        BY <3>1, <3>4, <3>5, <3>6
      <4>3. array'[k].room = Room(k)
        BY <3>1
      <4> QED
        BY <4>1, <4>2, <4>3, ListedNext
  <2> QED
    BY <2>1, <2>2 DEF ArraysInv, Room, OfKind
<1>3. CASE Fill
  <2>1. /\ pc = "fill" /\ entered' = entered + 1 /\ ~initialized /\ ~initialized'
        /\ pc' = IF entered' = num THEN "setup" ELSE "fill"
    BY <1>3 DEF Fill, ArraysInv, TypeInv, TypeOK
  <2>2. \A k \in Kinds : Listed(k, entered)' /\ array'[k].room = Room(k)
    BY <1>3, <2>1, OneMoreListed DEF ArraysInv
  <2>3. entered' = num => \A k \in Kinds : Listed(k, num)'
    BY <2>2 DEF Listed, OfKind
  <2> QED
    BY <2>1, <2>2, <2>3 DEF ArraysInv, Room, OfKind
<1>4. CASE Setup \/ Close \/ SetData
  <2>1. UNCHANGED <<array, entered>> /\ pc' \in {"in", "out"}
        /\ (initialized' => pc = "setup" \/ initialized)
        /\ (initialized' => pc' = "in")
    BY <1>4 DEF Setup, Close, SetData, handle, ArraysInv, TypeInv, TypeOK
  <2> QED
    BY <2>1 DEF ArraysInv, Listed, OfKind
<1>5. CASE Destroy
  <2>1. pc = "in" /\ pc' = "close" /\ UNCHANGED initialized
    BY <1>5 DEF Destroy
  <2>2. \A k \in Kinds : array'[k].ids = array[k].ids
    BY <1>5 DEF Destroy, TypeInv, TypeOK
  <2> QED
    <3>1. \A k \in Kinds : Listed(k, num) => Listed(k, num)'
      BY <2>2 DEF Listed, OfKind
    <3>2. initialized => \A k \in Kinds : Listed(k, num)
      BY DEF ArraysInv
    <3> QED
      BY <2>1, <3>1, <3>2 DEF ArraysInv
<1>6. CASE HandleSignal
  <2>1. UNCHANGED handle /\ pc' \in {pc, "aborted"}
    BY <1>6 DEF HandleSignal
  <2> QED
    BY <2>1 DEF handle, ArraysInv, Listed, OfKind, Room
<1>7. ASSUME NEW id \in Ids, Transfer(id) \/ Complete(id) \/ Stop(id)
      PROVE  ArraysInv'
  BY <1>7, ArraysStay DEF Transfer, Complete, Stop, handle
<1>8. ASSUME NEW id \in Ids, NEW value \in Callbacks, SetCallback(id, value)
      PROVE  ArraysInv'
  BY <1>8 DEF SetCallback, handle, ArraysInv, Listed, OfKind
<1>9. CASE UNCHANGED vars
  BY <1>9, ArraysStay DEF vars, handle
<1> QED
  BY <1>1, <1>2, <1>3, <1>4, <1>5, <1>6, <1>7, <1>8, <1>9 DEF Next

(* For any channels, the arrays that a handle hands out list exactly the   *)
(* ids of the driver's channels, by kind (libaxidma.c:107-147), whatever   *)
(* signals come meanwhile; in a program that does not call axidma_init     *)
(* again once it has filled them.                                          *)
THEOREM ArraysAreRight ==
  ASSUME Reinit = "never"
  PROVE  Spec => []ArraysAreTheChannels
<1>1. ArraysInv => ArraysAreTheChannels
  BY DEF ArraysInv, ArraysAreTheChannels
<1> QED
  BY <1>1, InitTypes, InitArrays, TypeStep, ArraysStep, PTL DEF Spec

-----------------------------------------------------------------------------
(* What a completion signal runs.                                          *)

LEMMA InitCallbacks ==
  ASSUME IdsAreSlots, Init
  PROVE  CallbackInv
  BY NumIsPositive
     DEF Init, CallbackInv, CallbackTypes, TablesInv, RegisteredInv, InUse, IdsAreSlots

(* The invariant is kept by every step.                                    *)
LEMMA CallbackStep ==
  ASSUME IdsAreSlots, Drains, CallbackInv, [Next]_vars
  PROVE  CallbackInv'
<1> USE DEF CallbackInv, CallbackTypes, TablesInv, RegisteredInv, InUse, IdsAreSlots
<1>1. CASE OpenDevice
  BY <1>1 DEF OpenDevice, handle, cbs
<1>2. CASE Alloc
  BY <1>2, NumIsPositive DEF Alloc, handle, cbs
<1>3. CASE Fill
  <2>1. /\ pc = "fill" /\ entered \in 0..(num - 1) /\ num_channels' = num
        /\ pc' \in {"fill", "setup"} /\ (pc' = "setup" => entered' = num /\ table' = "filled")
        /\ entered' = entered + 1
        /\ callback'  = [callback EXCEPT ![entered] = NULL]
        /\ user_data' = [user_data EXCEPT ![entered] = NULL]
        /\ UNCHANGED <<arg, asked, running, pending>>
    BY <1>3, NumIsPositive DEF Fill
  <2>2. /\ entered \in Slots /\ entered' \in 0..num
        /\ \A s \in Slots : s < entered' <=> s < entered \/ s = entered
        /\ \A s \in Slots : s < num
    BY <2>1, NumIsPositive
  <2> QED
    BY <2>1, <2>2
<1>4. CASE Setup
  BY <1>4 DEF Setup, handle, cbs
<1>5. CASE Destroy
  BY <1>5 DEF Destroy, handle, cbs
<1>6. CASE Close
  BY <1>6 DEF Close, handle, cbs
<1>7. CASE SetData
  BY <1>7 DEF SetData, SlotOf, handle, cbs
<1>8. CASE HandleSignal
  <2>1. /\ pending # <<>> /\ pending' = Tail(pending)
        /\ pc' = IF Head(pending) <= num_channels THEN pc ELSE "aborted"
        /\ UNCHANGED <<handle, cbs, running>>
    BY <1>8 DEF HandleSignal
  <2>2. Head(pending) \in Ids /\ Tail(pending) \in Seq(Ids)
    <3> HIDE DEF IdsAreSlots
    <3> QED
      BY <2>1
  <2>3. InUse /\ num_channels = num
    BY <2>1
  <2>4. pc' = pc
    BY <2>1, <2>2, <2>3, NumIsPositive DEF IdsAreSlots
  <2> QED
    BY <2>1, <2>2, <2>3, <2>4 DEF handle, cbs
<1>9. ASSUME NEW id \in Ids, Transfer(id) \/ Complete(id) \/ Stop(id)
      PROVE  CallbackInv'
  <2>1. InUse /\ pc' = pc /\ UNCHANGED <<handle, cbs>>
    BY <1>9 DEF Transfer, Complete, Stop
  <2>2. running' \in [Ids -> Nat] /\ pending' \in Seq(Ids)
    <3> HIDE DEF IdsAreSlots
    <3>1. CASE Transfer(id)
      BY <3>1 DEF Transfer
    <3>2. CASE Complete(id)
      <4>1. running[id] - 1 \in Nat
        BY <3>2 DEF Complete
      <4> QED
        BY <3>2, <4>1 DEF Complete
    <3>3. CASE Stop(id)
      <4>1. \E late \in {0, 1} : running' = [running EXCEPT ![id] = late]
        BY <3>3 DEF Stop
      <4>2. running' \in [Ids -> Nat]
        BY <4>1
      <4> QED
        BY <3>3, <4>2 DEF Stop
    <3> QED
      BY <1>9, <3>1, <3>2, <3>3
  <2> QED
    BY <2>1, <2>2 DEF handle, cbs
<1>10. ASSUME NEW id \in Ids, NEW value \in Callbacks, SetCallback(id, value)
       PROVE  CallbackInv'
  BY <1>10 DEF SetCallback, SlotOf, Registration, handle, cbs
<1>11. CASE UNCHANGED vars
  BY <1>11 DEF vars, handle, cbs
<1> QED
  BY <1>1, <1>2, <1>3, <1>4, <1>5, <1>6, <1>7, <1>8, <1>9, <1>10, <1>11 DEF Next

(* What one signal runs, in a state of the invariant.                      *)
LEMMA SignalRuns ==
  ASSUME IdsAreSlots, CallbackInv, HandleSignal
  PROVE  LET id == Head(pending)
             replacing == pc = "set_data" /\ arg.id = id
         IN /\ ~replacing => ran' = IF asked[id] = NULL THEN Nothing
                                    ELSE [id |-> id, callback |-> asked[id], data |-> asked[id]]
            /\ replacing  => ran' = [id |-> id, callback |-> arg.value, data |-> asked[id]]
<1> DEFINE id == Head(pending)
<1>1. InUse /\ id \in Ids /\ id \in Slots
  BY DEF HandleSignal, CallbackInv, CallbackTypes, TablesInv, IdsAreSlots
<1>2. id <= num_channels /\ table = "filled" /\ HandlerSlot(id) = id
  BY <1>1, NumIsPositive DEF CallbackInv, TablesInv, HandlerSlot
<1>3. ran' = IF callback[id] # NULL
             THEN [id |-> id, callback |-> callback[id], data |-> user_data[id]]
             ELSE Nothing
  BY <1>1, <1>2 DEF HandleSignal, Runs, Written
<1>4. /\ user_data[id] = asked[id]
      /\ callback[id] = IF pc = "set_data" /\ arg.id = id THEN arg.value ELSE asked[id]
  BY <1>1 DEF CallbackInv, RegisteredInv
<1>5. pc = "set_data" => arg.value # NULL
  BY LibConstants DEF CallbackInv, RegisteredInv, Registration
<1> QED
  BY <1>3, <1>4, <1>5

(* For any number of channels, callbacks and transfers, a completion runs  *)
(* the function registered for its channel with the data registered with   *)
(* it, and the only exception is a registration that the signal interrupts *)
(* (libaxidma.c:190-215, 394-406); provided the ids are 0 .. n - 1 in some *)
(* order and no signal comes any more after axidma_destroy; however often  *)
(* axidma_init is called.                                                  *)
THEOREM CallbacksAreMatched ==
  ASSUME IdsAreSlots, Drains
  PROVE  Spec => CallbackGetsItsData
<1>1. CallbackInv /\ [Next]_vars =>
        [HandleSignal =>
          LET id == Head(pending)
              replacing == pc = "set_data" /\ arg.id = id
          IN /\ ~replacing => ran' = IF asked[id] = NULL THEN Nothing
                                     ELSE [id |-> id, callback |-> asked[id], data |-> asked[id]]
             /\ replacing  => ran' = [id |-> id, callback |-> arg.value, data |-> asked[id]]]_vars
  BY SignalRuns
<1> QED
  BY <1>1, InitCallbacks, CallbackStep, PTL DEF Spec, CallbackGetsItsData

-----------------------------------------------------------------------------
(* Nothing outside the tables is used.                                     *)

LEMMA WildStep ==
  ASSUME IdsAreSlots, CallbackInv, TypeInv, ArraysInv, ~wild, [Next]_vars
  PROVE  ~wild'
<1>1. CASE Fill
  <2>1. /\ pc = "fill" /\ entered' = entered + 1
        /\ entered \in 0..num /\ entered + 1 \in 0..num /\ entered + 1 \in 1..num
    BY <1>1, NumIsPositive DEF Fill, TypeInv, TypeOK
  <2>2. PICK k \in Kinds : k = Chans[entered + 1].kind
    BY <2>1, ChansTyped
  <2>3. Listed(k, entered)' /\ array[k].room = Room(k)
    BY <1>1, <2>1, OneMoreListed DEF ArraysInv
  <2>4. array'[k].ids = Append(array[k].ids, IdAt(entered + 1))
    BY <1>1, <2>2 DEF Fill, TypeInv, TypeOK
  <2>5. array[k].ids \in Seq(Ids \cup {NULL}) /\ IdAt(entered + 1) \in Ids
    BY <2>1, ChansTyped DEF TypeInv, TypeOK, IdAt
  <2>6. Len(array'[k].ids) = Len(array[k].ids) + 1 /\ Len(array[k].ids) \in Nat
    BY <2>4, <2>5
  <2>7. Len(array'[k].ids) = Cardinality(OfKind(k, entered + 1))
    BY <2>1, <2>3, ListedNext
  <2>8. Cardinality(OfKind(k, entered + 1)) <= Room(k) /\ Room(k) \in Nat
    BY <2>1, OfKindFinite, RoomIsNat DEF Room
  <2>9. ~(Len(array[k].ids) >= array[k].room)
    BY <2>3, <2>6, <2>7, <2>8
  <2> QED
    BY <1>1, <2>2, <2>9 DEF Fill
<1>2. CASE HandleSignal
  <2>1. InUse /\ Head(pending) \in Slots
    BY <1>2 DEF HandleSignal, CallbackInv, CallbackTypes, TablesInv, IdsAreSlots
  <2>2. Written(HandlerSlot(Head(pending)))
    BY <2>1 DEF CallbackInv, TablesInv, HandlerSlot, Written
  <2>3. wild' = (wild \/ (Head(pending) <= num_channels /\ FALSE))
    BY <1>2, <2>2 DEF HandleSignal
  <2> QED
    BY <2>3
<1>3. ASSUME NEW id \in Ids, NEW value \in Callbacks, SetCallback(id, value)
      PROVE  ~wild'
  BY <1>3 DEF SetCallback, SlotOf, IdsAreSlots
<1>4. CASE OpenDevice \/ Alloc \/ Setup \/ Destroy \/ Close \/ SetData
  BY <1>4 DEF OpenDevice, Alloc, Setup, Destroy, Close, SetData
<1>5. ASSUME NEW id \in Ids, Transfer(id) \/ Complete(id) \/ Stop(id)
      PROVE  ~wild'
  BY <1>5 DEF Transfer, Complete, Stop
<1>6. CASE UNCHANGED vars
  BY <1>6 DEF vars
<1> QED
  BY <1>1, <1>2, <1>3, <1>4, <1>5, <1>6 DEF Next

(* The library and the signal handler use nothing outside tables that are  *)
(* allocated and written, whenever a signal comes (libaxidma.c:107-147,    *)
(* 190-215, 401): for any number of channels with the ids 0 .. n - 1 in    *)
(* some order, if no signal comes any more after axidma_destroy, and       *)
(* axidma_init is not called again once it has filled the arrays.          *)
THEOREM TablesStayAlive ==
  ASSUME IdsAreSlots, Drains, Reinit = "never"
  PROVE  Spec => []TablesAreAlive
<1>1. Init => ~wild
  BY DEF Init
<1>2. ~wild => TablesAreAlive
  BY DEF TablesAreAlive
<1> QED
  BY <1>1, <1>2, InitTypes, InitArrays, InitCallbacks,
     TypeStep, ArraysStep, CallbackStep, WildStep, PTL DEF Spec

=============================================================================
