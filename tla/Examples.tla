------------------------------ MODULE Examples ------------------------------
(* One of the example programs runs.  The programs are modelled separately *)
(* and share nothing; only one of them takes steps in a behaviour.  The    *)
(* modem program first takes its resources (InterDmaMain) and then runs    *)
(* its two threads (InterDma).                                             *)
EXTENDS Integers

CONSTANTS
    NULL,                                    \* no frame, and a byte nobody wrote
    RandomParams, OtherFrames, MaxRounds,                      \* interdma
    BenchSizes, BENCH_SIZE, BenchNumbers,                      \* axidma_benchmark
    FileLengths, OutputSizes,                                  \* axidma_transfer
    TestSizes, TEST_SIZE, TEST_DATAGRAM,                       \* axidma_test
    UartSizes, UART_SIZE, UART_DATAGRAM,                       \* dma_uart
    StringSizes, BufferSizes,                                  \* test_axidma
    image_byte_size, ImageLengths,                             \* axidma_display_image
    FirstPort, LastPort, SkippedPort                           \* mgpio

VARIABLES
    program,                                                  \* which one runs
    i_pc, mutex, signalled, blocked, rounds, callbacks, random_flag, msf,
    running, pending, buffer, air, copies, leaked, trouble, callback,  \* interdma
    b_pc, args, b_held, tx, rx, written, transfers, b_rc,              \* benchmark
    f_pc, f_held, length, input_size, output_size, got, put, sent, f_rc, cut, \* transfer
    m_pc, m_held, m_rc, tx_size, rx_size,                     \* main of the others
    todo, port, wire, received, thread,                       \* axidma_test, dma_uart
    send_buf, t_sent,                                         \* test_axidma
    channel, d_length, read, d_running, display, missed, d_cut,        \* display_image
    command, g_port, gpio, input, passed, ignored             \* mgpio

i_vars == <<i_pc, mutex, signalled, blocked, rounds, callbacks, random_flag, msf,
            running, pending, buffer, air, copies, leaked, trouble>>
b_vars == <<b_pc, args, b_held, tx, rx, written, transfers, b_rc>>
f_vars == <<f_pc, f_held, length, input_size, output_size, got, put, sent, f_rc, cut>>
m_vars == <<m_held, m_rc>>
s_vars == <<tx_size, rx_size>>
u_vars == <<todo, port, wire>>
d_vars == <<channel, d_length, read, d_running, display, missed, d_cut>>
g_vars == <<command, g_port, gpio, input, passed, ignored>>
vars   == <<program, i_vars, callback, b_vars, f_vars, m_pc, m_vars, s_vars, u_vars, received,
            thread, send_buf, t_sent, d_vars, g_vars>>

InterDma == INSTANCE InterDma WITH pc <- i_pc
InterDmaMain == INSTANCE InterDmaMain WITH
    pc <- m_pc, held <- m_held, rc <- m_rc, MAX_SIZE <- InterDma!MAX_SIZE
Benchmark == INSTANCE Benchmark WITH
    pc <- b_pc, held <- b_held, rc <- b_rc,
    Sizes <- BenchSizes, DEFAULT_TRANSFER_SIZE <- BENCH_SIZE, Numbers <- BenchNumbers
FileTransfer == INSTANCE FileTransfer WITH
    pc <- f_pc, held <- f_held, rc <- f_rc, Lengths <- FileLengths
AxidmaTest == INSTANCE AxidmaTest WITH
    pc <- m_pc, held <- m_held, rc <- m_rc,
    SizeOptions <- TestSizes, DEFAULT_TRANS_SIZE <- TEST_SIZE, BUFFER_SIZE <- TEST_DATAGRAM
DmaUart == INSTANCE DmaUart WITH
    pc <- m_pc, held <- m_held, rc <- m_rc,
    SizeOptions <- UartSizes, DEFAULT_TRANS_SIZE <- UART_SIZE, BUFFER_SIZE <- UART_DATAGRAM
TestAxidma == INSTANCE TestAxidma WITH
    pc <- m_pc, held <- m_held, rc <- m_rc, sent <- t_sent,
    Strings <- StringSizes, SizeOptions <- BufferSizes
DisplayImage == INSTANCE DisplayImage WITH
    pc <- m_pc, held <- m_held, rc <- m_rc, length <- d_length, running <- d_running,
    cut <- d_cut, Lengths <- ImageLengths
Gpio == INSTANCE Gpio WITH pc <- m_pc, port <- g_port

Threads == {"mm2s", "s2mm"}

(* Sizes and lengths are numbers of bytes; parse_args refuses a size that  *)
(* is not positive, where it looks at it.                                  *)
ASSUME ExampleConstants ==
    /\ MaxRounds \in [Threads -> Nat] /\ RandomParams \subseteq InterDma!m_Mod \X InterDma!Mbs
    /\ OtherFrames \subseteq InterDma!Bytes /\ NULL \notin InterDma!Bytes \cup InterDma!Infos
    /\ BenchSizes \subseteq Nat \ {0} /\ BENCH_SIZE \in Nat \ {0} /\ BenchNumbers \subseteq Nat
    /\ FileLengths \subseteq Nat /\ OutputSizes \subseteq Int
    /\ TestSizes \subseteq Nat /\ TEST_SIZE \in Nat /\ TEST_DATAGRAM \in Nat \ {0}
    /\ UartSizes \subseteq Nat /\ UART_SIZE \in Nat
    /\ StringSizes \subseteq Nat \ {0} /\ BufferSizes \subseteq Nat
    /\ image_byte_size \in Nat /\ ImageLengths \subseteq Nat
    /\ FirstPort \in Nat /\ LastPort \in Nat /\ FirstPort <= LastPort

(* The buffers lie in the pool of contiguous memory, which has megabytes   *)
(* (README.md:92-96).  In one of more than a gigabyte a test pattern could *)
(* look like a byte.                                                       *)
ASSUME BelowAGigabyte == \A n \in BenchSizes \cup {BENCH_SIZE} : n < 1073741824

(* What Int2String makes of the number of a port is read as that number.   *)
ASSUME PortsAreNamed == \A p \in Gpio!Ports : Gpio!Named(p) = p

(* Of the powers by which the programs shift and mask.                     *)
ASSUME Powers ==
    /\ \A k \in 0..30 : 2^k \in Nat \ {0}
    /\ \A b \in 0..3 : 256^b \in Nat \ {0}
    /\ 2^0 = 1 /\ 2^1 = 2 /\ 256^0 = 1
ASSUME Power28 == 2^28 = 268435456
ASSUME SmallPowers ==
    /\ 2^2 = 4 /\ 2^3 = 8 /\ 2^4 = 16 /\ 2^5 = 32
    /\ 2^6 = 64 /\ 2^7 = 128 /\ 2^8 = 256 /\ 2^9 = 512

(* Each program's own variables, where main starts from included.          *)
Start ==
    [interdma |-> "start", axidma_test |-> "start", dma_uart |-> "start", test_axidma |-> "start",
     benchmark |-> "none", transfer |-> "none", display |-> "signal", mgpio |-> "scanf"]

Init ==
    /\ program \in DOMAIN Start /\ m_pc = Start[program]
    /\ m_held = {} /\ m_rc = 0 /\ tx_size = 0 /\ rx_size = 0 /\ callback = {}
    /\ InterDma!Init /\ Benchmark!Init /\ FileTransfer!Init
    /\ todo = <<>> /\ port = "free" /\ wire = <<>> /\ received = FALSE /\ thread = "none"
    /\ send_buf = 0 /\ t_sent = FALSE
    /\ channel = "default" /\ d_length = 0 /\ read = 0 /\ d_cut = FALSE
    /\ d_running = TRUE /\ missed = FALSE /\ display = FALSE
    /\ g_port = FirstPort /\ gpio = [p \in Gpio!Ports |-> "none"]
    /\ input = TRUE /\ passed = FALSE /\ ignored = FALSE
    /\ command \in IF program = "mgpio" THEN 0..6 ELSE {0}

(* What a program does not have does not change while it runs.             *)
Others ==
    /\ program # "interdma" => UNCHANGED <<i_vars, callback>>
    /\ program # "benchmark" => UNCHANGED b_vars
    /\ program # "transfer" => UNCHANGED f_vars
    /\ program \in {"benchmark", "transfer"} => UNCHANGED m_pc
    /\ program \in {"benchmark", "transfer", "mgpio"} => UNCHANGED m_vars
    /\ program \in {"benchmark", "transfer", "mgpio", "display"} => UNCHANGED s_vars
    /\ program \notin {"axidma_test", "dma_uart"} => UNCHANGED u_vars
    /\ program # "axidma_test" => UNCHANGED received
    /\ program # "dma_uart" => UNCHANGED thread
    /\ program # "test_axidma" => UNCHANGED <<send_buf, t_sent>>
    /\ program # "display" => UNCHANGED d_vars
    /\ program # "mgpio" => UNCHANGED g_vars

(* What a fair scheduler lets run of the programs with one main thread.    *)
MainRuns ==
    /\ UNCHANGED program
    /\ \/ program = "axidma_test" /\ AxidmaTest!Next
       \/ program = "dma_uart" /\ DmaUart!Main
       \/ program = "display" /\ DisplayImage!Main
    /\ Others

Next ==
    /\ UNCHANGED program
    /\ \/ program = "interdma" /\ InterDmaMain!Next /\ UNCHANGED i_vars
       \/ program = "interdma" /\ m_pc = "loop" /\ InterDma!Next
          /\ UNCHANGED <<m_pc, m_vars, s_vars, callback>>
       \/ program = "benchmark" /\ Benchmark!Next
       \/ program = "transfer" /\ FileTransfer!Next
       \/ program = "axidma_test" /\ AxidmaTest!Next
       \/ program = "dma_uart" /\ DmaUart!Next
       \/ program = "test_axidma" /\ TestAxidma!Next
       \/ program = "display" /\ DisplayImage!Next
       \/ program = "mgpio" /\ Gpio!Next
    /\ Others

Fairness ==
    /\ \A t \in Threads : WF_i_vars(program = "interdma" /\ m_pc = "loop" /\ InterDma!Runs(t))
    /\ WF_vars(MainRuns)

Spec == Init /\ [][Next]_vars /\ Fairness

-----------------------------------------------------------------------------
(* The type invariants of the programs.                                    *)
TypeOK ==
    /\ InterDma!TypeOK /\ Benchmark!TypeOK /\ FileTransfer!TypeOK
    /\ program = "interdma" => InterDmaMain!TypeOK
    /\ program = "axidma_test" => AxidmaTest!TypeOK
    /\ program = "dma_uart" => DmaUart!TypeOK
    /\ program = "test_axidma" => TestAxidma!TypeOK
    /\ program = "display" => DisplayImage!TypeOK
    /\ program = "mgpio" => Gpio!TypeOK

(* A process_s2mm thread is given whole frames, unless the receiver woke   *)
(* unasked (interdma.c:532).                                               *)
CopiesAreFrames == InterDma!CopiesAreFrames

(* At the top of an undisturbed round the last transfer has ended and its  *)
(* one callback has run (interdma.c:337, 531), which main has registered   *)
(* before its loops began.                                                 *)
RoundsAreTransfers ==
    program = "interdma" => InterDma!RoundsAreTransfers /\ InterDmaMain!ReadyForLoops

(* The receiver of a frame reads in its header what the sender put there,  *)
(* and shows words of the frame only (interdma.c:391, util_interdma.c).    *)
PeerReadsTheHeader == InterDma!PeerReadsTheHeader

(* The endless loops go on: a thread of interdma unless its hardware stops *)
(* or one of the known mishaps befell it, those of axidma_test.c:810 and   *)
(* dma_uart.c:819 unless the program ends.                                 *)
LoopsGoOn ==
    /\ program = "interdma" => InterDma!LoopsGoOn
    /\ program = "axidma_test" => AxidmaTest!LoopGoesOn
    /\ program = "dma_uart" => DmaUart!LoopGoesOn

(* Every program gives back exactly what it holds, whichever step fails.   *)
GivesBackAll ==
    /\ Benchmark!GivesBackAll /\ FileTransfer!GivesBackAll
    /\ program = "interdma" => InterDmaMain!GivesBackAll
    /\ program = "axidma_test" => AxidmaTest!GivesBackAll
    /\ program = "dma_uart" => DmaUart!GivesBackAll
    /\ program = "test_axidma" => TestAxidma!GivesBackAll
    /\ program = "display" => DisplayImage!GivesBackAll

(* A program reports success (the exit code 0, the word "passed") only if  *)
(* it did what it reports: axidma_benchmark.c:547, axidma_transfer.c:339,  *)
(* test_axidma.c:202, axidma_display_image.c:350, mgpio.c:199-317.         *)
SuccessIsEarned ==
    /\ Benchmark!ZeroIsEarned /\ FileTransfer!ZeroMeansAll
    /\ program = "test_axidma" => TestAxidma!ZeroIsEarned
    /\ program = "display" => DisplayImage!ZeroIsEarned
    /\ program = "mgpio" => Gpio!PassedMeansDone

(* The benchmark's verdict is right about buffers of whole words           *)
(* (axidma_benchmark.c:319).                                               *)
VerdictIsRight == Benchmark!VerdictIsRight

(* A transfer that touches nothing it should not passes the test, whatever *)
(* the sizes: "For transmit, verify that it is unchanged"                  *)
(* (axidma_benchmark.c:316).  False.                                       *)
UnchangedPasses == Benchmark!UnchangedPasses

(* The datagrams of axidma_test are the buffer it received, byte for byte  *)
(* (axidma_test.c:557-601).                                                *)
DatagramsAreTheBuffer == program = "axidma_test" => AxidmaTest!DatagramsAreTheBuffer

(* Once the receiving thread of dma_uart has its port (dma_uart.c:896),    *)
(* the next attempt to send ends the program (udpclient.c:52).             *)
SendingEndsTheProgram == DmaUart!SendingEndsTheProgram

(* The image is displayed from a buffer the program still holds, unless it *)
(* was killed or could not stop the hardware (axidma_display_image.c:350). *)
BufferOutlivesDisplay == DisplayImage!BufferOutlivesDisplay

(* A signal ends the display, unless it comes between the test of the flag *)
(* and the sleep (axidma_display_image.c:340-342).                         *)
InterruptEnds == DisplayImage!InterruptEnds

-----------------------------------------------------------------------------
(* The inductive invariants of the programs together.                      *)
ProgramsInv ==
    /\ program \in DOMAIN Start
    /\ InterDma!LoopInv /\ Benchmark!BenchInv /\ FileTransfer!FileInv
    /\ program = "interdma" => InterDmaMain!StartupInv
    /\ program = "axidma_test" => AxidmaTest!DatagramsInv
    /\ program = "dma_uart" => DmaUart!UartInv
    /\ program = "test_axidma" => TestAxidma!EarnedInv
    /\ IF program = "display" THEN DisplayImage!DisplayInv ELSE ~display
    /\ program = "mgpio" => Gpio!PortsInv
=============================================================================
