------------------------------ MODULE InterDma ------------------------------
(***************************************************************************)
(* The two-thread modem program examples/interdma.c.  Thread "mm2s"        *)
(* (udp_recv, mm2s_all_test) sends frames, thread "s2mm" (the loop of      *)
(* main, s2mm_all_test) receives them, each through one buffer.  Both      *)
(* start an asynchronous transfer and sleep on a condition variable until  *)
(* the library's callback (txcall, rxcall) signals it.  The callback runs  *)
(* in a signal handler, and the driver sends the signal to the very thread *)
(* that started the transfer (axidma_dma.c:248, 159): it interrupts that   *)
(* thread wherever it is.                                                  *)
(*                                                                         *)
(* A thread's mutex is only ever taken by the thread and by its handler,   *)
(* and the thread does not run while its handler does: a handler that      *)
(* finds the mutex free is one step, one that does not never ends.         *)
(*                                                                         *)
(* Operators named Bug... are faulty versions of the operator that follows *)
(* them; no action uses them.                                              *)
(***************************************************************************)
EXTENDS FrameHeader

CONSTANTS
    RandomParams,\* the modulations and Mb numbers randBtw comes up with, pairs
                 \* of m_Mod \X Mbs
    OtherFrames, \* headers, in Bytes, of frames the peer sends by itself
    NULL,        \* no frame
    MaxRounds    \* bound, per thread: its rounds

Threads == {"mm2s", "s2mm"}
Bytes   == [0..(HEAD_SIZE - 1) -> 0..255]

VARIABLES
    pc,          \* per thread: where it is in its loop
    mutex,       \* per thread: does its code hold its mutex?
    signalled,   \* per thread: has its condition been signalled since it waits?
    blocked,     \* per thread: its handler waits for the mutex the thread holds
    rounds,      \* per thread: `total' of udp_recv, `totalCount' of main
    callbacks,   \* per thread: txnum, rxnum
    random_flag, \* which header is sent next
    msf,         \* the header being sent
    running,     \* per thread: transfers the hardware has not ended
    pending,     \* per thread: signals that wait for the thread
    buffer,      \* per thread: the header in its buffer, NULL once cleaned
    air,         \* the last frame the peer got
    copies,      \* the copies that process_s2mm threads hold, by round
    leaked,      \* the copies no thread was created for
    trouble      \* per thread: what upset its loop, if anything (history)

locks == <<mutex, signalled, blocked>>
data  == <<random_flag, msf, buffer, air, copies, leaked>>
io    == <<running, pending, callbacks>>
vars  == <<pc, locks, rounds, io, data, trouble>>

Set(f, t, v) == [f EXCEPT ![t] = v]
Goto(t, l)   == pc' = Set(pc, t, l)

Init ==
    /\ pc = [t \in Threads |-> "fill"]
    /\ mutex = [t \in Threads |-> FALSE]
    /\ signalled = [t \in Threads |-> FALSE]
    /\ blocked = [t \in Threads |-> FALSE]
    /\ rounds = [t \in Threads |-> 0]
    /\ callbacks = [t \in Threads |-> 0]
    /\ random_flag = 2 /\ msf = NULL
    /\ running = [t \in Threads |-> 0]
    /\ pending = [t \in Threads |-> 0]
    /\ buffer = [t \in Threads |-> NULL]
    /\ air = NULL
    /\ copies = {} /\ leaked = {}
    /\ trouble = [t \in Threads |-> "none"]

(* An unasked wake-up is remembered for good: from then on the loop and    *)
(* its transfers may be out of step.                                       *)
Upset(t, what) ==
    trouble' = Set(trouble, t, IF trouble[t] = "spurious" THEN "spurious" ELSE what)

(* The thread's own code runs.                                             *)
At(t, l) == pc[t] = l /\ ~blocked[t]

-----------------------------------------------------------------------------
(* The transmitter's next header: its third round is the first random one. *)
NextHeaders(flag) ==
    CASE flag = 2 -> {[modulation |-> QAM64, Mb |-> 0, ldpcNum |-> 362]}
      [] flag = 1 -> {[modulation |-> BPSK, Mb |-> 63, ldpcNum |-> 16]}
      [] OTHER    -> {random_mm2s(p[1], p[2]) : p \in RandomParams}

BugFlag(n) == random_flag - 1
NextFlag(n) == IF n \in {2, 3} THEN random_flag - 1 ELSE random_flag

FillTx ==
    LET flag == NextFlag(rounds["mm2s"] + 1)
    IN  /\ random_flag' = flag
        /\ msf' \in NextHeaders(flag)
        /\ buffer' = Set(buffer, "mm2s", revert_char(constrM2S(msf'), HEAD_SIZE))

(* clean_rx_data                                                           *)
FillRx == buffer' = Set(buffer, "s2mm", NULL) /\ UNCHANGED <<random_flag, msf>>

(* The top of a round: the buffer is cleaned, and filled to be sent.       *)
Fill(t) ==
    /\ At(t, "fill") /\ rounds[t] < MaxRounds[t]
    /\ rounds' = Set(rounds, t, rounds[t] + 1)
    /\ IF t = "mm2s" THEN FillTx ELSE FillRx
    /\ Goto(t, "start")
    /\ UNCHANGED <<locks, io, air, copies, leaked, trouble>>

(* axidma_oneway_transfer(..., false), whose result the program ignores.   *)
Start(t) ==
    /\ At(t, "start")
    /\ \/ running' = Set(running, t, running[t] + 1) /\ UNCHANGED trouble
       \/ Upset(t, "refused") /\ UNCHANGED running
    /\ Goto(t, "lock")
    /\ UNCHANGED <<locks, rounds, pending, callbacks, data>>

Lock(t) ==
    /\ At(t, "lock") /\ ~mutex[t]
    /\ mutex' = Set(mutex, t, TRUE)
    /\ Goto(t, "wait")
    /\ UNCHANGED <<signalled, blocked, rounds, io, data, trouble>>

BugNoWait(t) ==
    /\ At(t, "wait") /\ Goto(t, "woken")
    /\ UNCHANGED <<locks, rounds, io, data, trouble>>

(* pthread_cond_wait releases the mutex and goes to sleep in one step, and *)
(* takes the mutex back when it wakes.                                     *)
Wait(t) ==
    /\ At(t, "wait")
    /\ mutex' = Set(mutex, t, FALSE)
    /\ signalled' = Set(signalled, t, FALSE)
    /\ Goto(t, "asleep")
    /\ UNCHANGED <<blocked, rounds, io, data, trouble>>

Wake(t) ==
    /\ At(t, "asleep") /\ signalled[t] /\ ~mutex[t]
    /\ mutex' = Set(mutex, t, TRUE)
    /\ Goto(t, "woken")
    /\ UNCHANGED <<signalled, blocked, rounds, io, data, trouble>>

(* POSIX allows it to return unasked, and no predicate is tested.  Bound:  *)
(* once in all.                                                            *)
WakeUnasked(t) ==
    /\ \A u \in Threads : trouble[u] # "spurious"
    /\ At(t, "asleep") /\ ~signalled[t] /\ ~mutex[t]
    /\ mutex' = Set(mutex, t, TRUE)
    /\ Upset(t, "spurious")
    /\ Goto(t, "woken")
    /\ UNCHANGED <<signalled, blocked, rounds, io, data>>

(* s2mm_all_test copies the buffer and gives the copy to a new thread; if  *)
(* there is none it returns with the mutex locked and the copy leaked.     *)
Copy ==
    LET copy == [round |-> rounds["s2mm"], head |-> buffer["s2mm"]]
    IN  /\ At("s2mm", "woken")
        /\ \/ /\ copies' = copies \cup {copy}
              /\ Goto("s2mm", "unlock")
              /\ UNCHANGED <<leaked, trouble>>
           \/ /\ leaked' = leaked \cup {copy}
              /\ Upset("s2mm", "create")
              /\ Goto("s2mm", "fill")
              /\ UNCHANGED copies
        /\ UNCHANGED <<locks, rounds, io, random_flag, msf, buffer, air>>

Unlock(t) ==
    /\ At(t, IF t = "mm2s" THEN "woken" ELSE "unlock")
    /\ mutex' = Set(mutex, t, FALSE)
    /\ Goto(t, "fill")
    /\ UNCHANGED <<signalled, blocked, rounds, io, data, trouble>>

(* txcall and rxcall: the signal is for a thread that waits, or lost.      *)
BugNoSignal(t) ==
    /\ pending[t] > 0 /\ ~blocked[t] /\ ~mutex[t]
    /\ pending' = Set(pending, t, pending[t] - 1)
    /\ callbacks' = Set(callbacks, t, callbacks[t] + 1)
    /\ UNCHANGED <<pc, locks, rounds, running, data, trouble>>

Callback(t) ==
    /\ pending[t] > 0 /\ ~blocked[t] /\ ~mutex[t]
    /\ pending' = Set(pending, t, pending[t] - 1)
    /\ callbacks' = Set(callbacks, t, callbacks[t] + 1)
    /\ IF pc[t] = "asleep"
       THEN signalled' = Set(signalled, t, TRUE) /\ UNCHANGED trouble
       ELSE Upset(t, "early") /\ UNCHANGED signalled
    /\ UNCHANGED <<pc, mutex, blocked, rounds, running, data>>

(* The signal comes while the thread holds the mutex: its handler waits    *)
(* for a mutex that only the thread it has interrupted could release.      *)
CallbackBlocks(t) ==
    /\ pending[t] > 0 /\ ~blocked[t] /\ mutex[t]
    /\ pending' = Set(pending, t, pending[t] - 1)
    /\ blocked' = Set(blocked, t, TRUE)
    /\ Upset(t, "early")
    /\ UNCHANGED <<pc, mutex, signalled, rounds, running, callbacks, data>>

(* A transfer ends.  The transmitter's frame reaches the peer, and what    *)
(* the receiver gets is that frame come back or one of the peer's own.     *)
HwEnds(t) ==
    /\ running[t] > 0
    /\ running' = Set(running, t, running[t] - 1)
    /\ pending' = Set(pending, t, pending[t] + 1)
    /\ IF t = "mm2s"
       THEN air' = buffer["mm2s"] /\ UNCHANGED buffer
       ELSE /\ \E head \in OtherFrames \cup ({air} \ {NULL}) :
                  buffer' = Set(buffer, "s2mm", head)
            /\ UNCHANGED air
    /\ UNCHANGED <<pc, locks, rounds, callbacks, random_flag, msf, copies, leaked, trouble>>

(* process_s2mm: what getInfo makes of a header, NULL if it is not one.    *)
getInfo(head) ==
    LET charpack == long2char(head)
    IN  IF head # NULL /\ getHeadS2M(charpack) = 1234
        THEN getParamS2M(char2bit(charpack, LONG)) ELSE NULL

(* With a length of 0 the loop that shows the words jumps back for ever.   *)
Process ==
    \E c \in copies :
        /\ LET info == getInfo(c.head)
           IN  info # NULL => info.ldpcnum > 0
        /\ copies' = copies \ {c}
        /\ UNCHANGED <<pc, locks, rounds, io, random_flag, msf, buffer, air, leaked, trouble>>

Code(t) ==
    \/ Fill(t) \/ Start(t) \/ Lock(t) \/ Wait(t) \/ Wake(t) \/ Unlock(t)
    \/ t = "s2mm" /\ Copy

Handler(t) == Callback(t) \/ CallbackBlocks(t)

Next ==
    \/ \E t \in Threads : Code(t) \/ Handler(t) \/ WakeUnasked(t) \/ HwEnds(t)
    \/ Process

(* A thread that can run, does: its code or its handler.  Nothing is asked *)
(* of the hardware, nor that a thread wakes unasked.                       *)
Runs(t)  == Code(t) \/ Handler(t)
Fairness == \A t \in Threads : WF_vars(Runs(t))

Spec == Init /\ [][Next]_vars /\ Fairness

-----------------------------------------------------------------------------
Words == MAX_SIZE \div LONG          \* the words of a buffer and of a copy
Heads == Bytes \cup {NULL}
Infos ==                             \* what getInfo makes of a header
    [crc_r : Nat, ldpc_tnum : Nat, amp_dresult : Nat, modu : Nat, Mb : Nat, ldpcnum : Nat]

TypeOK ==
    /\ pc \in [Threads -> {"fill", "start", "lock", "wait", "asleep", "woken", "unlock"}]
    /\ mutex \in [Threads -> BOOLEAN] /\ signalled \in [Threads -> BOOLEAN]
    /\ blocked \in [Threads -> BOOLEAN]
    /\ \A t \in Threads :
          /\ rounds[t] \in 0..MaxRounds[t] /\ callbacks[t] \in 0..MaxRounds[t]
          /\ running[t] \in 0..MaxRounds[t] /\ pending[t] \in 0..MaxRounds[t]
    /\ random_flag \in 0..2
    /\ buffer["mm2s"] \in Heads /\ buffer["s2mm"] \in Heads /\ air \in Heads
    /\ \A c \in copies \cup leaked : c.round \in 1..MaxRounds["s2mm"] /\ c.head \in Heads
    /\ trouble \in [Threads -> {"none", "refused", "create", "early", "spurious"}]

(* What a process_s2mm thread is given is a whole frame: the receiver      *)
(* wakes only after the hardware has filled the buffer that it cleaned     *)
(* before, unless a wake-up came unasked (interdma.c: the wait has no      *)
(* predicate).                                                             *)
CopiesAreFrames ==
    trouble["s2mm"] # "spurious" => \A c \in copies \cup leaked : c.head # NULL

(* Every round of a loop is one transfer that has ended and been told of:  *)
(* when an undisturbed thread is about to fill its buffer again, neither   *)
(* the hardware nor a signal still refers to what was in it.               *)
RoundsAreTransfers ==
    \A t \in Threads :
        pc[t] = "fill" /\ trouble[t] = "none" =>
            callbacks[t] = rounds[t] /\ pending[t] = 0 /\ running[t] = 0

(* The receiver of a frame reads in its header what the sender put there,  *)
(* the frame fits in the buffer, and what getInfo shows of it lies inside  *)
(* the copy.                                                               *)
PeerReadsTheHeader ==
    [][Fill("mm2s") =>
        LET info == getInfo(buffer'["mm2s"])
        IN  /\ info # NULL
            /\ info.modu = msf'.modulation /\ info.Mb = msf'.Mb /\ info.ldpcnum = msf'.ldpcNum
            /\ tx_bytes(msf') <= MAX_SIZE
            /\ shown_words(info.ldpcnum) \subseteq 0..(Words - 1)]_vars

(* As long as the hardware ends its transfers, a thread goes round its     *)
(* loop for ever; it stays behind only after a transfer was refused, the   *)
(* creation of a thread failed, or a signal came while it was not waiting. *)
LoopsGoOn ==
    \A t \in Threads :
        \/ <>[](running[t] > 0)
        \/ pc[t] = "start" ~> (pc[t] = "fill" \/ trouble[t] # "none")

-----------------------------------------------------------------------------
(* What is under way: transfers, and signals of transfers that have ended. *)
Busy(t) == running[t] + pending[t]

FunctionsInv ==
    /\ pc \in [Threads -> {"fill", "start", "lock", "wait", "asleep", "woken", "unlock"}]
    /\ mutex \in [Threads -> BOOLEAN] /\ signalled \in [Threads -> BOOLEAN]
    /\ blocked \in [Threads -> BOOLEAN]
    /\ rounds \in [Threads -> Nat] /\ callbacks \in [Threads -> Nat]
    /\ running \in [Threads -> Nat] /\ pending \in [Threads -> Nat]
    /\ trouble \in [Threads -> {"none", "refused", "create", "early", "spurious"}]

(* A round starts one transfer at most, a transfer is signalled once, and  *)
(* a signal is one callback.                                               *)
CountsInv(t) ==
    /\ rounds[t] <= MaxRounds[t]
    /\ pc[t] # "fill" => rounds[t] >= 1
    /\ Busy(t) + callbacks[t] + (IF pc[t] = "start" THEN 1 ELSE 0) <= rounds[t]

(* Before anything upset the loop.                                         *)
CalmInv(t) ==
    trouble[t] = "none" =>
        /\ ~blocked[t] /\ mutex[t] = (pc[t] \in {"wait", "woken", "unlock"})
        /\ pc[t] \in {"fill", "woken", "unlock"} => callbacks[t] = rounds[t] /\ Busy(t) = 0
        /\ pc[t] = "start" => callbacks[t] + 1 = rounds[t] /\ Busy(t) = 0
        /\ pc[t] \in {"lock", "wait"} => callbacks[t] + 1 = rounds[t] /\ Busy(t) = 1
        /\ pc[t] = "asleep" =>
              IF signalled[t] THEN callbacks[t] = rounds[t] /\ Busy(t) = 0
              ELSE callbacks[t] + 1 = rounds[t] /\ Busy(t) = 1

(* Unless a wake-up came unasked: who is told that the transfer has ended  *)
(* finds the frame in the buffer.                                          *)
FrameInv ==
    trouble["s2mm"] # "spurious" =>
        /\ Busy("s2mm") <= 1
        /\ pc["s2mm"] \in {"fill", "start", "woken", "unlock"} => Busy("s2mm") = 0
        /\ pc["s2mm"] = "asleep" /\ signalled["s2mm"] =>
              Busy("s2mm") = 0 /\ buffer["s2mm"] # NULL
        /\ pending["s2mm"] > 0 \/ pc["s2mm"] \in {"woken", "unlock"} => buffer["s2mm"] # NULL
        /\ CopiesAreFrames

(* What the buffers hold, and which header comes next.                     *)
HeadsInv ==
    /\ buffer \in [Threads -> Heads] /\ air \in Heads
    /\ \A c \in copies \cup leaked : c.round \in 1..MaxRounds["s2mm"] /\ c.head \in Heads
    /\ random_flag = IF rounds["mm2s"] <= 1 THEN 2 ELSE IF rounds["mm2s"] = 2 THEN 1 ELSE 0

LoopInv ==
    /\ FunctionsInv /\ FrameInv /\ HeadsInv
    /\ \A t \in Threads : CountsInv(t) /\ CalmInv(t)
=============================================================================
