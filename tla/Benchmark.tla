----------------------------- MODULE Benchmark -----------------------------
(***************************************************************************)
(* The program examples/axidma_benchmark.c: its options, the resources it  *)
(* takes and gives back, the transfer whose data it verifies, and the      *)
(* transfers it times.  The hardware may overwrite a byte of the transmit  *)
(* buffer and writes the first bytes of the receive buffer, all or none of *)
(* them included.  Left out: what is printed, -h, and the assertions of    *)
(* the library on channel ids (the ids given exist).                       *)
(*                                                                         *)
(* Operators named Bug... are faulty versions of the operator that follows *)
(* them; no action uses them.                                              *)
(***************************************************************************)
EXTENDS Integers, Bits

CONSTANTS
    Sizes,                 \* the sizes, in bytes, that the options can give, positive
    DEFAULT_TRANSFER_SIZE, \* the size without an option
    Numbers                \* the numbers of transfers to time

VARIABLES
    pc,        \* where the program is
    args,      \* what parse_args has read so far
    held,      \* the resources the program holds
    tx, rx,    \* the contents of the two buffers, once filled
    written,   \* what the transfer did to them: rx bytes, a tx byte (history)
    transfers, \* transfers that succeeded
    rc         \* the value main returns

vars == <<pc, args, held, tx, rx, written, transfers, rc>>

Resources == {"device", "tx_buf", "rx_buf"}

Init ==
    /\ pc = "start"
    /\ args = [use_vdma |-> FALSE, tx_channel |-> -1, rx_channel |-> -1,
               tx_size |-> DEFAULT_TRANSFER_SIZE, rx_size |-> DEFAULT_TRANSFER_SIZE,
               num_transfers |-> 1, tx_frame |-> FALSE, rx_frame |-> FALSE]
    /\ held = {} /\ tx = <<>> /\ rx = <<>> /\ written = [rx |-> 0, tx |-> -1]
    /\ transfers = 0 /\ rc = 0

Quiet  == UNCHANGED <<tx, rx, written, transfers>>
Go(l)  == pc' = l
Ret(v) == rc' = v

-----------------------------------------------------------------------------
(* parse_args, an option at a time.  It does not initialise the two flags  *)
(* that say whether a frame was given.  A frame's size replaces the        *)
(* buffer's.                                                               *)
Enter ==
    /\ pc = "start" /\ Go("parse")
    /\ \E t, r \in BOOLEAN : args' = [args EXCEPT !.tx_frame = t, !.rx_frame = r]
    /\ UNCHANGED <<held, rc>> /\ Quiet

Option ==
    /\ pc = "parse"
    /\ \/ args' = [args EXCEPT !.use_vdma = TRUE]
       \/ args' = [args EXCEPT !.tx_channel = 0]
       \/ args' = [args EXCEPT !.rx_channel = 1]
       \/ \E n \in Sizes : args' = [args EXCEPT !.tx_size = n]
       \/ \E n \in Sizes : args' = [args EXCEPT !.rx_size = n]
       \/ \E n \in Sizes : args' = [args EXCEPT !.tx_size = n, !.tx_frame = TRUE]
       \/ \E n \in Sizes : args' = [args EXCEPT !.rx_size = n, !.rx_frame = TRUE]
       \/ \E n \in Numbers : args' = [args EXCEPT !.num_transfers = n]
    /\ UNCHANGED <<pc, held, rc>> /\ Quiet

Accepted ==
    /\ (args.tx_channel = -1) = (args.rx_channel = -1)
    /\ (args.tx_size = DEFAULT_TRANSFER_SIZE) = (args.rx_size = DEFAULT_TRANSFER_SIZE)
    /\ args.use_vdma => args.tx_frame /\ args.rx_frame

BadOption ==
    /\ pc = "parse" /\ Go("exit") /\ Ret(1)
    /\ UNCHANGED <<args, held>> /\ Quiet

ParseEnd ==
    /\ pc = "parse"
    /\ IF Accepted THEN Go("init") /\ UNCHANGED rc ELSE Go("exit") /\ Ret(1)
    /\ UNCHANGED <<args, held>> /\ Quiet

-----------------------------------------------------------------------------
(* The steps of main that take something, and where each goes if it fails. *)
Taking == [init |-> "device", malloc_tx |-> "tx_buf", malloc_rx |-> "rx_buf"]
AfterTaking == [init |-> "malloc_tx", malloc_tx |-> "malloc_rx", malloc_rx |-> "channels"]
OnFail == [init |-> "exit", malloc_tx |-> "destroy", malloc_rx |-> "free_tx"]

Take ==
    /\ pc \in DOMAIN Taking
    /\ \/ held' = held \cup {Taking[pc]} /\ Go(AfterTaking[pc]) /\ UNCHANGED rc
       \/ Go(OnFail[pc]) /\ Ret(IF pc = "init" THEN 1 ELSE -1) /\ UNCHANGED held
    /\ UNCHANGED args /\ Quiet

(* The kind asked for may have no channels; the first ones are the default.*)
FindChannels ==
    /\ pc = "channels"
    /\ \/ /\ args' = IF args.tx_channel = -1
                     THEN [args EXCEPT !.tx_channel = 0, !.rx_channel = 1] ELSE args
          /\ Go("fill") /\ UNCHANGED rc
       \/ Go("free_rx") /\ Ret(-19) /\ UNCHANGED args
    /\ UNCHANGED held /\ Quiet

-----------------------------------------------------------------------------
(* init_data and verify_data, byte by byte.  The leftover bytes are those  *)
(* after the last whole word, but the code indexes the buffer from 0.      *)
TEST_PATTERN(i) == xor(305442014, i)                       \* 0x1234ACDE ^ i
Byte(n, b)      == (n \div 256^b) % 256

Filled(n, base) ==
    [j \in 0..(n - 1) |->
        CASE j < (n % 4)           -> Byte(TEST_PATTERN(base + n \div 4 + j), 0)
          [] j >= (n % 4) /\ j < 4 * (n \div 4) -> Byte(TEST_PATTERN(base + j \div 4), j % 4)
          [] OTHER                 -> 0]

WordIs(buf, i, value) == \A b \in 0..3 : buf[4 * i + b] = Byte(value, b)

BugSkipsFirstWord(buf, n) ==
    /\ \A i \in 1..(n \div 4 - 1) : WordIs(buf, i, TEST_PATTERN(i))
    /\ \A i \in 0..((n % 4) - 1) : buf[i] = TEST_PATTERN(i + n \div 4)

(* A byte is compared with a whole pattern.                                *)
TxUnchanged(buf, n) ==
    /\ \A i \in 0..(n \div 4 - 1) : WordIs(buf, i, TEST_PATTERN(i))
    /\ \A i \in 0..((n % 4) - 1) : buf[i] = TEST_PATTERN(i + n \div 4)

RxUnchanged(buf, n, tx_size) ==
    /\ \A i \in 0..(n \div 4 - 1) : WordIs(buf, i, TEST_PATTERN(i + tx_size))
    /\ \A i \in 0..((n % 4) - 1) : buf[i] = TEST_PATTERN(i + tx_size + n \div 4)

(* single_transfer_test                                                    *)
Fill ==
    /\ pc = "fill" /\ Go("transfer")
    /\ tx' = Filled(args.tx_size, 0) /\ rx' = Filled(args.rx_size, args.tx_size)
    /\ UNCHANGED <<args, held, rc, written, transfers>>

FirstTransfer ==
    /\ pc = "transfer"
    /\ \/ /\ \E k \in 0..args.rx_size, j \in (-1)..(args.tx_size - 1) :
                /\ rx' = [i \in DOMAIN rx |-> IF i < k THEN 0 ELSE rx[i]]
                /\ tx' = [i \in DOMAIN tx |-> IF i = j THEN 255 - tx[i] ELSE tx[i]]
                /\ written' = [rx |-> k, tx |-> j]
          /\ transfers' = transfers + 1
          /\ Go("verify") /\ UNCHANGED rc
       \/ Go("free_rx") /\ Ret(-1) /\ UNCHANGED <<tx, rx, written, transfers>>
    /\ UNCHANGED <<args, held>>

Verify ==
    /\ pc = "verify"
    /\ IF TxUnchanged(tx, args.tx_size) /\ ~RxUnchanged(rx, args.rx_size, args.tx_size)
       THEN Go("time") /\ Ret(0)
       ELSE Go("free_rx") /\ Ret(-22)
    /\ UNCHANGED <<args, held>> /\ Quiet

BugFailureIsTheEnd ==
    /\ pc = "time" /\ transfers - 1 < args.num_transfers
    /\ \/ transfers' = transfers + 1 /\ UNCHANGED pc
       \/ Go("free_rx") /\ UNCHANGED transfers
    /\ UNCHANGED <<args, held, tx, rx, written, rc>>

(* time_dma                                                                *)
TimedTransfer ==
    /\ pc = "time" /\ transfers - 1 < args.num_transfers
    /\ \/ transfers' = transfers + 1 /\ UNCHANGED <<pc, rc>>
       \/ Go("free_rx") /\ Ret(-1) /\ UNCHANGED transfers
    /\ UNCHANGED <<args, held, tx, rx, written>>

TimeEnd ==
    /\ pc = "time" /\ transfers - 1 >= args.num_transfers
    /\ Go("free_rx") /\ Ret(0)
    /\ UNCHANGED <<args, held>> /\ Quiet

-----------------------------------------------------------------------------
(* The labels at the end of main, each running into the next.              *)
Giving == [free_rx |-> "rx_buf", free_tx |-> "tx_buf", destroy |-> "device"]
AfterGiving == [free_rx |-> "free_tx", free_tx |-> "destroy", destroy |-> "exit"]

Give ==
    /\ pc \in DOMAIN Giving
    /\ held' = held \ {Giving[pc]} /\ Go(AfterGiving[pc])
    /\ UNCHANGED <<args, rc>> /\ Quiet

Next ==
    \/ Enter \/ Option \/ BadOption \/ ParseEnd
    \/ Take \/ FindChannels
    \/ Fill \/ FirstTransfer \/ Verify \/ TimedTransfer \/ TimeEnd
    \/ Give

Spec == Init /\ [][Next]_vars

-----------------------------------------------------------------------------
TypeOK ==
    /\ held \subseteq Resources
    /\ args.tx_size \in Sizes \cup {DEFAULT_TRANSFER_SIZE}
    /\ args.rx_size \in Sizes \cup {DEFAULT_TRANSFER_SIZE}
    /\ \A j \in DOMAIN tx : tx[j] \in 0..255
    /\ \A j \in DOMAIN rx : rx[j] \in 0..255
    /\ transfers \in Nat /\ rc \in Int

(* main gives back exactly what it holds, whichever step failed, and holds *)
(* nothing when it returns.                                                *)
GivesBackAll ==
    /\ pc \in DOMAIN Giving => Giving[pc] \in held
    /\ pc = "exit" => held = {}

(* The program exits with 0 only if the verified transfer and every timed  *)
(* one succeeded, the transmit buffer was left alone and the receive       *)
(* buffer was written to.                                                  *)
ZeroIsEarned ==
    pc = "exit" /\ rc = 0 =>
        /\ transfers > args.num_transfers
        /\ written.tx = -1
        /\ args.rx_size % 4 = 0 => written.rx > 0

(* The verdict is right about buffers of whole words: the test passes if   *)
(* and only if the transmit buffer is unchanged and the receive buffer is  *)
(* not.                                                                    *)
VerdictIsRight ==
    [][Verify /\ args.tx_size % 4 = 0 /\ args.rx_size % 4 = 0 =>
          (rc' = 0) = (written.tx = -1 /\ written.rx > 0)]_vars

(* The same of every size: "For transmit, verify that it is unchanged"     *)
(* (axidma_benchmark.c:316).  False: with leftover bytes a good transfer   *)
(* is reported as an overwritten transmit buffer.                          *)
UnchangedPasses ==
    [][Verify /\ written.tx = -1 /\ written.rx = args.rx_size => rc' = 0]_vars

-----------------------------------------------------------------------------
(* What main holds where it is.                                            *)
HeldAt(l) ==
    CASE l \in {"start", "parse", "init", "exit"} -> {}
      [] l \in {"malloc_tx", "destroy"} -> {"device"}
      [] l \in {"malloc_rx", "free_tx"} -> {"device", "tx_buf"}
      [] OTHER -> Resources

Options ==
    [use_vdma : BOOLEAN, tx_channel : {-1, 0}, rx_channel : {-1, 1},
     tx_size : Sizes \cup {DEFAULT_TRANSFER_SIZE}, rx_size : Sizes \cup {DEFAULT_TRANSFER_SIZE},
     num_transfers : Numbers \cup {1}, tx_frame : BOOLEAN, rx_frame : BOOLEAN]

(* Before the verification the buffers are what init_data put there, but   *)
(* for what the transfer did to them.                                      *)
DataInv ==
    /\ \A j \in DOMAIN tx : tx[j] \in 0..255
    /\ \A j \in DOMAIN rx : rx[j] \in 0..255
    /\ pc \in {"transfer", "verify"} =>
          LET was == Filled(args.tx_size, 0)
              had == Filled(args.rx_size, args.tx_size)
          IN  /\ written.rx \in 0..args.rx_size /\ written.tx \in (-1)..(args.tx_size - 1)
              /\ tx = [j \in 0..(args.tx_size - 1) |->
                          IF j = written.tx THEN 255 - was[j] ELSE was[j]]
              /\ rx = [j \in 0..(args.rx_size - 1) |-> IF j < written.rx THEN 0 ELSE had[j]]
    /\ pc = "transfer" => written.rx = 0 /\ written.tx = -1

(* What a verified transfer did to the buffers.                            *)
Tested == written.tx = -1 /\ (args.rx_size % 4 = 0 => written.rx > 0)

ResultInv ==
    /\ pc = "time" => Tested
    /\ pc \in {"free_rx", "free_tx", "destroy", "exit"} /\ rc = 0 =>
          Tested /\ transfers > args.num_transfers

BenchInv ==
    /\ held = HeldAt(pc) /\ args \in Options /\ transfers \in Nat /\ rc \in Int
    /\ pc \in {"start", "parse", "init", "malloc_tx", "malloc_rx", "channels", "fill"} =>
          written = [rx |-> 0, tx |-> -1]
    /\ DataInv /\ ResultInv
=============================================================================
