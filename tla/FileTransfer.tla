---------------------------- MODULE FileTransfer ----------------------------
(***************************************************************************)
(* The program examples/axidma_transfer.c: it reads a file into a DMA      *)
(* buffer, sends it through the hardware and writes what comes back to     *)
(* another file, with the robust_read and robust_write of examples/util.c. *)
(* The input file may be cut short after its length was read, a read or a  *)
(* write may do less than asked, fail, or be interrupted.  The library     *)
(* functions are those of libaxidma.                                       *)
(***************************************************************************)
EXTENDS Integers

CONSTANTS
    Lengths,     \* the lengths of the input file
    OutputSizes  \* what -s and -o can give, -1 if neither is given

VARIABLES
    pc,          \* where the program is
    held,        \* the files, the device and the buffers it holds
    length,      \* of the input file, as it is now
    input_size,  \* of the input, as fstat told
    output_size, \* of the output
    got, put,    \* bytes read from the input and written to the output
    sent,        \* did the transfer succeed?
    rc,          \* the value transfer_file or main is about to return
    cut          \* was the input file cut short? (history)

io   == <<length, input_size, output_size, got, put, sent, cut>>
vars == <<pc, held, rc, io>>

Go(l)  == pc' = l
Ret(v) == rc' = v

Init ==
    /\ pc = "start" /\ held = {} /\ length = 0
    /\ input_size = 0 /\ output_size = -1 /\ got = 0 /\ put = 0
    /\ sent = FALSE /\ rc = 0 /\ cut = FALSE

-----------------------------------------------------------------------------
(* parse_args refuses some command lines.                                  *)
ParseArgs ==
    /\ pc = "start"
    /\ \/ /\ output_size' \in OutputSizes /\ length' \in Lengths
          /\ Go("open_input") /\ UNCHANGED rc
       \/ Go("exit") /\ Ret(1) /\ UNCHANGED <<output_size, length>>
    /\ UNCHANGED <<held, input_size, got, put, sent, cut>>

(* The steps that take something: what, where they lead, where they go     *)
(* when they fail, and the value returned then.                            *)
Step(gets, next, fail, value) == [gets |-> gets, next |-> next, fail |-> fail, rc |-> value]
Steps ==
    [open_input    |-> Step("input_fd", "open_output", "exit", 1),
     open_output   |-> Step("output_fd", "init", "close_input", -1),
     init          |-> Step("device", "fstat", "close_output", 1),
     malloc_input  |-> Step("input_buf", "read", "answer", -12),
     malloc_output |-> Step("output_buf", "transfer", "free_input", -12)]

(* mmap refuses a length of 0, and a negative one as far too large.        *)
Room(l) ==
    CASE l = "malloc_input" -> input_size > 0 [] l = "malloc_output" -> output_size > 0
      [] OTHER -> TRUE

Take ==
    /\ pc \in DOMAIN Steps
    /\ \/ /\ Room(pc)
          /\ held' = held \cup {Steps[pc].gets} /\ Go(Steps[pc].next) /\ UNCHANGED rc
       \/ Go(Steps[pc].fail) /\ Ret(Steps[pc].rc) /\ UNCHANGED held
    /\ UNCHANGED io

Fstat ==
    /\ pc = "fstat"
    /\ \/ /\ input_size' = length
          /\ output_size' = IF output_size = -1 THEN length ELSE output_size
          /\ Go("channels") /\ UNCHANGED rc
       \/ Go("destroy") /\ Ret(1) /\ UNCHANGED <<input_size, output_size>>
    /\ UNCHANGED <<held, length, got, put, sent, cut>>

FindChannels ==
    /\ pc = "channels"
    /\ \/ Go("malloc_input") /\ UNCHANGED rc
       \/ Go("destroy") /\ Ret(-19)
    /\ UNCHANGED <<held, io>>

(* The input file is somebody else's too.                                  *)
CutShort ==
    /\ pc \notin {"start", "exit"} /\ length > 0
    /\ length' = length - 1 /\ cut' = TRUE
    /\ UNCHANGED <<pc, held, rc, input_size, output_size, got, put, sent>>

-----------------------------------------------------------------------------
(* robust_read, one read at a time.  A read of nothing ends the loop: at   *)
(* the end of the file, and when the buffer is full.                       *)
ReadSome ==
    /\ pc = "read"
    /\ \E n \in 1..(input_size - got) :
          got + n <= length /\ got' = got + n
    /\ UNCHANGED <<pc, held, rc, length, input_size, output_size, put, sent, cut>>

ReadEnd ==
    /\ pc = "read" /\ (got = input_size \/ got >= length)
    /\ Go("malloc_output")
    /\ UNCHANGED <<held, rc, io>>

(* An interrupted read returns -1, which is not -EINTR: it ends the loop   *)
(* like any other error.                                                   *)
ReadFails ==
    /\ pc = "read"
    /\ held' = held \ {"input_buf"} /\ Go("answer") /\ Ret(-1)
    /\ UNCHANGED io

(* axidma_twoway_transfer(..., true)                                       *)
Transfer ==
    /\ pc = "transfer"
    /\ \/ sent' = TRUE /\ Go("write") /\ UNCHANGED rc
       \/ Go("free_output") /\ Ret(-1) /\ UNCHANGED sent
    /\ UNCHANGED <<held, length, input_size, output_size, got, put, cut>>

(* robust_write                                                            *)
WriteSome ==
    /\ pc = "write"
    /\ \E n \in 1..(output_size - put) : put' = put + n
    /\ UNCHANGED <<pc, held, rc, length, input_size, output_size, got, sent, cut>>

WriteEnd ==
    /\ pc = "write" /\ put = output_size
    /\ Go("free_output") /\ Ret(put)
    /\ UNCHANGED <<held, io>>

WriteFails ==
    /\ pc = "write" /\ put < output_size
    /\ Go("free_output") /\ Ret(-1)
    /\ UNCHANGED <<held, io>>

-----------------------------------------------------------------------------
(* The labels, each running into the next; between those of transfer_file  *)
(* and those of main, main turns an error into a positive number.          *)
Giving ==
    [free_output |-> "output_buf", free_input |-> "input_buf", destroy |-> "device",
     close_output |-> "output_fd", close_input |-> "input_fd"]
AfterGiving ==
    [free_output |-> "free_input", free_input |-> "answer", destroy |-> "close_output",
     close_output |-> "close_input", close_input |-> "exit"]

Give ==
    /\ pc \in DOMAIN Giving
    /\ held' = held \ {Giving[pc]} /\ Go(AfterGiving[pc])
    /\ UNCHANGED <<rc, io>>

Answer ==
    /\ pc = "answer" /\ Go("destroy") /\ Ret(IF rc < 0 THEN -rc ELSE 0)
    /\ UNCHANGED <<held, io>>

Next ==
    \/ ParseArgs \/ Take \/ Fstat \/ FindChannels \/ CutShort
    \/ ReadSome \/ ReadEnd \/ ReadFails
    \/ Transfer \/ WriteSome \/ WriteEnd \/ WriteFails
    \/ Answer \/ Give

Spec == Init /\ [][Next]_vars

-----------------------------------------------------------------------------
TypeOK ==
    /\ held \subseteq {"input_fd", "output_fd", "device", "input_buf", "output_buf"}
    /\ length \in Nat /\ input_size \in Nat /\ output_size \in Int
    /\ got \in 0..input_size /\ put \in Nat /\ rc \in Int

(* Every resource is given back exactly once, whichever step failed.       *)
GivesBackAll ==
    /\ pc \in DOMAIN Giving => Giving[pc] \in held
    /\ pc = "exit" => held = {}

(* The program exits with 0 only when the whole input was read, unless     *)
(* somebody cut it short, the transfer succeeded and the whole output was  *)
(* written.                                                                *)
ZeroMeansAll ==
    pc = "exit" /\ rc = 0 =>
        /\ got = input_size \/ cut
        /\ sent
        /\ put = output_size

-----------------------------------------------------------------------------
(* What the program holds where it is.                                     *)
HeldAt(l) ==
    CASE l \in {"start", "open_input", "exit"} -> {}
      [] l \in {"open_output", "close_input"} -> {"input_fd"}
      [] l \in {"init", "close_output"} -> {"input_fd", "output_fd"}
      [] l \in {"fstat", "channels", "malloc_input", "answer", "destroy"} ->
            {"input_fd", "output_fd", "device"}
      [] l \in {"read", "malloc_output", "free_input"} ->
            {"input_fd", "output_fd", "device", "input_buf"}
      [] OTHER -> {"input_fd", "output_fd", "device", "input_buf", "output_buf"}

AllRead == got = input_size \/ cut

(* What is known when: the length of the input, what has been read of it,  *)
(* and what a return value stands for, before and after the answer.        *)
BytesInv ==
    /\ pc \in {"start", "open_input", "open_output", "init", "fstat"} => got = 0 /\ input_size = 0
    /\ pc \in {"channels", "malloc_input", "read"} /\ ~cut => length = input_size
    /\ pc \in {"malloc_output", "transfer", "write"} => AllRead
    /\ pc = "write" => sent
    /\ pc \in {"free_output", "free_input", "answer"} /\ rc >= 0 =>
          AllRead /\ sent /\ put = output_size
    /\ pc \in {"destroy", "close_output", "close_input", "exit"} /\ rc = 0 =>
          AllRead /\ sent /\ put = output_size

FileInv == TypeOK /\ held = HeldAt(pc) /\ BytesInv
=============================================================================
