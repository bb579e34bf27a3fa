----------------------------- MODULE AxidmaTest -----------------------------
(***************************************************************************)
(* The program examples/axidma_test.c: for ever, it receives a buffer from *)
(* the hardware with a blocking transfer, cuts it into four datagrams and  *)
(* sends them.  The blocking transfer is one step that succeeds or fails   *)
(* (AxidmaDma shows that it returns).  A byte of the buffer stands for its *)
(* place in it.  The labels behind the loop are only reached from before   *)
(* it; init_data, verify_data, single_transfer_test, mm2s_test and         *)
(* time_dma are not called.                                                *)
(*                                                                         *)
(* Operators named Bug... are faulty versions of the operator that follows *)
(* them; no action uses them.                                              *)
(***************************************************************************)
EXTENDS UdpClient, FiniteSetsExt

CONSTANTS
    SizeOptions,       \* the sizes the options can give
    DEFAULT_TRANS_SIZE \* four datagrams and a little, in the code

VARIABLE received      \* did the last transfer succeed?

vars == <<main, udp, received>>

Init == MainInit /\ UdpInit /\ received = FALSE

ParseArgs == SizesGiven(Accepted(SizeOptions, DEFAULT_TRANS_SIZE))

(* The array, of four, that byte i of the buffer goes to: the first whose  *)
(* end is not reached, and none behind the fourth.                         *)
BugArrayOf(i) ==
    LET fits == {k \in 1..4 : i <= k * BUFFER_SIZE} IN IF fits = {} THEN 0 ELSE Min(fits)
ArrayOf(i) ==
    LET fits == {k \in 1..4 : i < k * BUFFER_SIZE} IN IF fits = {} THEN 0 ELSE Min(fits)

(* The loop of s2mm_test: byte i goes to place j of its array, and j is    *)
(* counted on and set back.  The arrays are on the stack, not initialised. *)
Place(c, i) ==
    LET k == ArrayOf(i)
    IN  [arrays |-> IF k = 0 THEN c.arrays ELSE [c.arrays EXCEPT ![k][c.j] = i],
         j      |-> IF c.j + 1 = BUFFER_SIZE THEN 0 ELSE c.j + 1]
cut[n \in Nat] ==
    IF n = 0 THEN [arrays |-> [k \in 1..4 |-> [j \in 0..(BUFFER_SIZE - 1) |-> NULL]], j |-> 0]
    ELSE Place(cut[n - 1], n - 1)
Cut(size) == cut[size].arrays

(* One round of the endless loop of main.                                  *)
S2mm ==
    /\ pc = "loop" /\ wire' = <<>>
    /\ \/ received' = TRUE /\ Send(Cut(rx_size))
       \/ received' = FALSE /\ UNCHANGED <<pc, todo>>
    /\ UNCHANGED <<held, rc, port>> /\ Sizes2

Startup ==
    /\ ParseArgs \/ Refused \/ Take \/ FindChannels("loop") \/ Give
    /\ UNCHANGED <<udp, received>>

Next == Startup \/ S2mm \/ (UdpNext /\ UNCHANGED received)

Spec == Init /\ [][Next]_vars /\ WF_vars(Next)

-----------------------------------------------------------------------------
TypeOK == MainTypeOK /\ UdpTypeOK /\ received \in BOOLEAN /\ Len(wire) <= 4

(* The datagrams, in the order they leave, are the first bytes of the      *)
(* buffer that was received, each byte once and in its place; where the    *)
(* buffer is too short for them, they hold bytes nobody wrote.  Four leave *)
(* after a transfer that succeeded, none after one that failed.            *)
DatagramsAreTheBuffer ==
    /\ \A k \in 1..Len(wire), j \in 0..(BUFFER_SIZE - 1) :
          LET i == (k - 1) * BUFFER_SIZE + j
          IN  wire[k][j] = IF i < rx_size THEN i ELSE NULL
    /\ pc = "loop" => Len(wire) = IF received THEN 4 ELSE 0

(* The loop goes on for ever, unless the program ends.                     *)
LoopGoesOn == []<>(pc \in {"loop", "exit", "dead"})

-----------------------------------------------------------------------------
(* The inductive form of the above: what has left and what is still to be  *)
(* sent are the four arrays.                                               *)
Sending == {"socket", "bind", "sendto", "close"}
Array   == [0..(BUFFER_SIZE - 1) -> Nat \cup {NULL}]

DatagramsInv ==
    /\ LadderInv /\ UdpTypeOK /\ received \in BOOLEAN
    /\ wire \in Seq(Array) /\ Len(wire) <= 4
    /\ \A k \in 1..Len(wire) : wire[k] = Cut(rx_size)[k]
    /\ pc \notin Sending \cup {"loop", "dead"} => wire = <<>> /\ ~received
    /\ pc = "loop" => Len(wire) = IF received THEN 4 ELSE 0
    /\ pc \in Sending =>
          /\ received
          /\ todo \in Seq(Array) /\ todo # <<>>
          /\ Len(wire) + Len(todo) = IF pc = "close" THEN 5 ELSE 4
          /\ \A k \in 1..Len(todo) : todo[k] = Cut(rx_size)[4 - Len(todo) + k]
=============================================================================
