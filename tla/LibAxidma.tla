------------------------------ MODULE LibAxidma ------------------------------
(***************************************************************************)
(* The library's handle, channel tables and completion callbacks           *)
(* (library/libaxidma.c): axidma_init, axidma_destroy,                     *)
(* axidma_set_callback and the handler of the completion signal, which     *)
(* interrupts the program between any two of their steps.                  *)
(*                                                                         *)
(* The driver answers the library's queries with the channels of AxidmaOf. *)
(* It sends one signal, carrying the channel's id, for each asynchronous   *)
(* transfer that completes, whether or not the device is still open.       *)
(* Drains is an assumption about those signals and not something a program *)
(* can make sure of: axidma_stop_transfer does not wait for a completion   *)
(* that is on its way, and no call tells whether one is.                   *)
(*                                                                         *)
(* Operators named Bug... are faulty versions of the operator that follows *)
(* them; no action uses them.                                              *)
(***************************************************************************)
EXTENDS Naturals, Sequences, FiniteSets

CONSTANTS
    Chans,        \* the driver's channels, in the order of the device tree
    Callbacks,    \* what a program registers: a function and its data
    NULL,         \* the null pointer
    Drains,       \* can no signal come any more once the program calls
                  \* axidma_destroy?
    Reinit,       \* is axidma_init called again once it has filled the
                  \* arrays: "never", when they have been "destroyed", or
                  \* "always", after a failed setup_dma_callback too?
    MaxTransfers  \* bound: transfers under way or to be signalled

Kinds == {"dma_tx", "dma_rx", "vdma_tx", "vdma_rx"}
Chan  == [channel_id : Nat, kind : Kinds]

num   == Len(Chans)
Slots == 0..(num - 1)           \* the indices of dev->channels
Ids   == {Chans[i].channel_id : i \in 1..num}

(* AxidmaOf accepts only trees with such channels.                         *)
ASSUME LibConstants ==
    /\ Chans \in Seq(Chan) /\ Chans # <<>>
    /\ \A i, j \in 1..num : Chans[i].channel_id = Chans[j].channel_id => i = j
    /\ NULL \notin Callbacks
    /\ Drains \in BOOLEAN /\ Reinit \in {"never", "destroyed", "always"}
    /\ MaxTransfers \in Nat

VARIABLES
    pc,           \* where the program is in a call of the library
    initialized,  \* axidma_dev.initialized
    table,        \* axidma_dev.channels: "null", "raw", "filled" or "freed"
    num_channels, \* axidma_dev.num_channels
    callback,     \* axidma_dev.channels[slot].callback
    user_data,    \* axidma_dev.channels[slot].user_data
    array,        \* per kind: its ids, as long as len says, and the room
    entered,      \* the channels categorize_channels has entered
    wild,         \* memory outside a live, written object was used
    arg,          \* what axidma_set_callback is registering
    running,      \* per id: asynchronous transfers to be signalled
    pending,      \* the ids of the signals to be handled, oldest first
    asked,        \* per id: the last registration (history)
    ran           \* what the last signal ran (history)

handle == <<initialized, table, num_channels, array, entered>>
cbs    == <<callback, user_data, arg, asked>>
vars   == <<pc, handle, cbs, wild, running, pending, ran>>

Nothing == [id |-> 0, callback |-> NULL, data |-> NULL]
NoArg   == [id |-> 0, value |-> NULL]
Registration == [id : Ids, value : Callbacks]

TypeOK ==
    /\ pc \in {"out", "alloc", "fill", "setup", "in", "set_data", "close", "aborted"}
    /\ initialized \in BOOLEAN
    /\ table \in {"null", "raw", "filled", "freed"}
    /\ num_channels \in {0, num}
    /\ callback  \in [Slots -> Callbacks \cup {NULL}]
    /\ user_data \in [Slots -> Callbacks \cup {NULL}]
    /\ array \in [Kinds -> [ids : Seq(Ids \cup {NULL}), room : Nat]]
    /\ entered \in 0..num
    /\ wild \in BOOLEAN
    /\ arg \in Registration \cup {NoArg}
    /\ running \in [Ids -> Nat]
    /\ pending \in Seq(Ids)
    /\ asked \in [Ids -> Callbacks \cup {NULL}]
    /\ ran \in [id : Ids, callback : Callbacks, data : Callbacks \cup {NULL}]
               \cup {Nothing}

Init ==
    /\ pc = "out"
    /\ initialized = FALSE
    /\ table = "null"
    /\ num_channels = 0
    /\ callback  = [s \in Slots |-> NULL]
    /\ user_data = [s \in Slots |-> NULL]
    /\ array = [k \in Kinds |-> [ids |-> <<>>, room |-> 0]]
    /\ entered = 0
    /\ wild = FALSE
    /\ arg = NoArg
    /\ running = [id \in Ids |-> 0]
    /\ pending = <<>>
    /\ asked = [id \in Ids |-> NULL]
    /\ ran = Nothing

-----------------------------------------------------------------------------
(* axidma_init.                                                            *)

(* The device is opened and the channels are asked for; if that fails the  *)
(* file is closed again.  A program tries again after a failure; a failed  *)
(* setup_dma_callback has left the arrays and the table filled.            *)
OpenDevice ==
    /\ pc = "out"
    /\ ~initialized
    /\ \/ \A k \in Kinds : array[k].ids = <<>>
       \/ Reinit = "destroyed" /\ table # "filled"
       \/ Reinit = "always"
    /\ \/ pc' = "alloc"
       \/ UNCHANGED pc
    /\ UNCHANGED <<handle, cbs, wild, running, pending, ran>>

(* Those of the first n channels that are of a kind.                       *)
OfKind(k, n) == {i \in 1..n : Chans[i].kind = k}

BugRoom(k) ==                   \* fault: transmit and receive counts swapped
    Cardinality(OfKind(CASE k = "dma_tx" -> "dma_rx" [] k = "dma_rx" -> "dma_tx"
                         [] OTHER -> k, num))

(* The driver's count of a kind.                                           *)
Room(k) == Cardinality(OfKind(k, num))

(* categorize_channels: the five arrays.  The new ones have the old        *)
(* lengths; if one cannot be allocated those before it are freed.          *)
Alloc ==
    /\ pc = "alloc"
    /\ \/ /\ pc' = "fill"
          /\ table' = "raw"
          /\ entered' = 0
          /\ array' = [k \in Kinds |-> [ids  |-> [i \in 1..Len(array[k].ids) |-> NULL],
                                        room |-> Room(k)]]
       \/ /\ pc' = "out"
          /\ table' = "null"
          /\ UNCHANGED <<entered, array>>
       \/ /\ pc' = "out"
          /\ table' = "freed"
          /\ array' = [k \in Kinds |-> [array[k] EXCEPT !.room = 0]]
          /\ UNCHANGED entered
    /\ UNCHANGED <<initialized, num_channels, cbs, wild, running, pending, ran>>

BugIdAt(i) == i - 1             \* fault: the position is stored

(* The id that the loop stores for a channel.                              *)
IdAt(i) == Chans[i].channel_id

(* One round of its loop: a channel goes into the array of its kind,       *)
(* behind what that has, and its element of the table is written.          *)
Fill ==
    /\ pc = "fill"
    /\ entered < num
    /\ num_channels' = num
    /\ LET i == entered + 1
           k == Chans[i].kind
       IN /\ array' = [array EXCEPT ![k].ids = Append(@, IdAt(i))]
          /\ wild' = (wild \/ Len(array[k].ids) >= array[k].room)
          /\ entered' = i
          /\ IF i = num THEN pc' = "setup" /\ table' = "filled"
                        ELSE UNCHANGED <<pc, table>>
    /\ callback'  = [callback EXCEPT ![entered] = NULL]
    /\ user_data' = [user_data EXCEPT ![entered] = NULL]
    /\ UNCHANGED <<initialized, arg, asked, running, pending, ran>>

(* setup_dma_callback.  When it fails the file is closed and the arrays    *)
(* stay.                                                                   *)
Setup ==
    /\ pc = "setup"
    /\ \/ pc' = "in"  /\ initialized' = TRUE
       \/ pc' = "out" /\ UNCHANGED initialized
    /\ UNCHANGED <<table, num_channels, array, entered, cbs, wild, running, pending, ran>>

-----------------------------------------------------------------------------
(* axidma_destroy, in two steps: the arrays are freed, the file is closed. *)
Destroy ==
    /\ pc = "in"
    /\ Drains => pending = <<>> /\ \A id \in Ids : running[id] = 0
    /\ pc' = "close"
    /\ table' = "freed"
    /\ array' = [k \in Kinds |-> [array[k] EXCEPT !.room = 0]]
    /\ UNCHANGED <<initialized, num_channels, entered, cbs, wild, running, pending, ran>>

Close ==
    /\ pc = "close"
    /\ pc' = "out"
    /\ initialized' = FALSE
    /\ asked' = [id \in Ids |-> NULL]
    /\ UNCHANGED <<table, num_channels, array, entered, callback, user_data, arg, wild,
                   running, pending, ran>>

-----------------------------------------------------------------------------
(* Callbacks.                                                              *)

(* The element of dev->channels that a channel's id selects.               *)
BugSlotOf(id) ==                \* fault: find_channel's element
    (CHOOSE i \in 1..num : Chans[i].channel_id = id) - 1

SlotOf(id) == id

HandlerSlot(id) == id

(* axidma_set_callback, in two steps.                                      *)
SetCallback(id, value) ==
    /\ pc = "in"
    /\ pc' = "set_data"
    /\ arg' = [id |-> id, value |-> value]
    /\ callback' = IF SlotOf(id) \in Slots
                   THEN [callback EXCEPT ![SlotOf(id)] = value] ELSE callback
    /\ wild' = (wild \/ SlotOf(id) \notin Slots)
    /\ UNCHANGED <<handle, user_data, asked, running, pending, ran>>

SetData ==
    /\ pc = "set_data"
    /\ pc' = "in"
    /\ asked' = [asked EXCEPT ![arg.id] = arg.value]
    /\ arg' = NoArg
    /\ user_data' = IF SlotOf(arg.id) \in Slots
                    THEN [user_data EXCEPT ![SlotOf(arg.id)] = arg.value] ELSE user_data
    /\ UNCHANGED <<handle, callback, wild, running, pending, ran>>

BugRuns(s) == TRUE              \* fault: a missing callback is called

Runs(s) == callback[s] # NULL

(* The element is allocated and written.                                   *)
Written(s) ==
    /\ s \in Slots
    /\ table = "filled" \/ (table = "raw" /\ s < entered)

(* axidma_callback, the handler of the oldest signal.                      *)
HandleSignal ==
    /\ pc # "aborted"
    /\ pending # <<>>
    /\ pending' = Tail(pending)
    /\ LET id   == Head(pending)
           s    == HandlerSlot(id)
           pass == id <= num_channels
           live == Written(s)
       IN /\ pc' = IF pass THEN pc ELSE "aborted"
          /\ wild' = (wild \/ (pass /\ ~live))
          /\ ran' = IF pass /\ live /\ Runs(s)
                    THEN [id |-> id, callback |-> callback[s], data |-> user_data[s]]
                    ELSE Nothing
    /\ UNCHANGED <<handle, cbs, running>>

-----------------------------------------------------------------------------
(* The driver.                                                             *)

(* An asynchronous transfer is accepted.                                   *)
Transfer(id) ==
    /\ pc = "in"
    /\ Len(pending) < MaxTransfers
    /\ \A i \in Ids : running[i] < MaxTransfers
    /\ running' = [running EXCEPT ![id] = @ + 1]
    /\ UNCHANGED <<pc, handle, cbs, wild, pending, ran>>

(* One completes, and the process is sent its signal.                      *)
Complete(id) ==
    /\ pc # "aborted"
    /\ running[id] > 0
    /\ Len(pending) < MaxTransfers
    /\ running' = [running EXCEPT ![id] = @ - 1]
    /\ pending' = Append(pending, id)
    /\ UNCHANGED <<pc, handle, cbs, wild, ran>>

(* axidma_stop_transfer.  It does not wait for a callback that runs, of    *)
(* which a channel has one at most: the signal of that transfer is still   *)
(* to come, at any time from now on.                                       *)
Stop(id) ==
    /\ pc = "in"
    /\ running[id] > 0
    /\ \E late \in {0, 1} : running' = [running EXCEPT ![id] = late]
    /\ UNCHANGED <<pc, handle, cbs, wild, pending, ran>>

Next ==
    \/ OpenDevice \/ Alloc \/ Fill \/ Setup
    \/ Destroy \/ Close
    \/ SetData \/ HandleSignal
    \/ \E id \in Ids : Transfer(id) \/ Complete(id) \/ Stop(id)
    \/ \E id \in Ids, value \in Callbacks : SetCallback(id, value)

Spec == Init /\ [][Next]_vars

-----------------------------------------------------------------------------
(* Properties.                                                             *)

(* A kind's array lists the ids of that kind's among the first n channels. *)
Listed(k, n) ==
    LET ids == array[k].ids
    IN /\ Len(ids) = Cardinality(OfKind(k, n))
       /\ {ids[j] : j \in DOMAIN ids} = {Chans[i].channel_id : i \in OfKind(k, n)}

(* libaxidma.h:78 and its like, of the four arrays: "An array of           *)
(* channel ID's of the available AXI DMA transmit channels"; and           *)
(* libaxidma.h:56-58: axidma_init may be called again after                *)
(* axidma_destroy.                                                         *)
ArraysAreTheChannels ==
    initialized /\ pc # "close" => \A k \in Kinds : Listed(k, num)

(* The library and the signal handler stay within tables that are          *)
(* allocated and written, whenever a signal comes (libaxidma.c:190-215).   *)
TablesAreAlive == ~wild

(* libaxidma.h:45-51: a completion runs the function registered for the    *)
(* channel that has finished, with the data registered with it.  While     *)
(* axidma_set_callback replaces the channel's registration, and only then, *)
(* the new function can be run with the old data (libaxidma.c:402-403).    *)
CallbackGetsItsData ==
    [][HandleSignal =>
        LET id == Head(pending)
            replacing == pc = "set_data" /\ arg.id = id
        IN /\ ~replacing => ran' = IF asked[id] = NULL THEN Nothing
                                   ELSE [id |-> id, callback |-> asked[id], data |-> asked[id]]
           /\ replacing  => ran' = [id |-> id, callback |-> arg.value, data |-> asked[id]]]_vars

-----------------------------------------------------------------------------
(* The inductive invariants.  First, of the types, and of the arrays for a *)
(* program that does not call axidma_init again: categorize_channels       *)
(* starts from arrays that hold nothing, and makes room for what it will   *)
(* append.                                                                 *)

TypeInv == TypeOK /\ (pc = "set_data" => arg \in Registration)

ArraysInv ==
    /\ pc = "alloc" => \A k \in Kinds : array[k].ids = <<>>
    /\ pc = "fill" => \A k \in Kinds : Listed(k, entered) /\ array[k].room = Room(k)
    /\ pc = "setup" \/ initialized => \A k \in Kinds : Listed(k, num)
    /\ initialized => pc \notin {"out", "alloc", "fill", "setup"}

(* Then, of the callbacks, for ids that are the channels' positions in     *)
(* some order, if no signal comes any more after axidma_destroy (Drains).  *)

IdsAreSlots == Ids = Slots

CallbackTypes ==
    /\ entered \in 0..num
    /\ callback  \in [Slots -> Callbacks \cup {NULL}]
    /\ user_data \in [Slots -> Callbacks \cup {NULL}]
    /\ asked \in [Ids -> Callbacks \cup {NULL}]
    /\ running \in [Ids -> Nat]
    /\ pending \in Seq(Ids)
    /\ pc \in {"out", "alloc", "fill", "setup", "in", "set_data", "close"}

(* The program is between axidma_init and axidma_destroy.                  *)
InUse == pc \in {"in", "set_data"}

(* Signals and transfers exist only while the tables do.                   *)
TablesInv ==
    /\ InUse \/ pc = "setup" => table = "filled" /\ num_channels = num
    /\ ~InUse => pending = <<>> /\ \A id \in Ids : running[id] = 0

(* The tables hold what was asked for, but for the registration in hand.   *)
RegisteredInv ==
    /\ pc = "set_data" => arg \in Registration
    /\ ~InUse /\ pc # "close" => \A id \in Ids : asked[id] = NULL
    /\ pc = "fill" => \A s \in Slots :
          s < entered => callback[s] = NULL /\ user_data[s] = NULL
    /\ pc = "setup" => \A s \in Slots : callback[s] = NULL /\ user_data[s] = NULL
    /\ InUse => \A id \in Ids :
          /\ user_data[id] = asked[id]
          /\ callback[id] = IF pc = "set_data" /\ arg.id = id THEN arg.value ELSE asked[id]

CallbackInv == CallbackTypes /\ TablesInv /\ RegisteredInv

=============================================================================
