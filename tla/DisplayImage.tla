---------------------------- MODULE DisplayImage ----------------------------
(***************************************************************************)
(* The program examples/axidma_display_image.c: it reads an image file     *)
(* into a DMA buffer, has the driver show the buffer in a cyclic video     *)
(* transfer, sleeps until a signal asks it to stop, and takes everything   *)
(* down again.  Three signals (SIGINT, SIGTERM, SIGQUIT) clear a flag that *)
(* main tests before it sleeps; any other one, and these before main has   *)
(* installed their handler, kill the program.  The file may be cut short   *)
(* while it is read.                                                       *)
(*                                                                         *)
(* Left out: -h, what is printed, the width and the height (an image has   *)
(* one size), and the product of the two overflowing.                      *)
(*                                                                         *)
(* Operators named Bug... are faulty versions of the operator that follows *)
(* them; no action uses them.                                              *)
(***************************************************************************)
EXTENDS Integers

CONSTANTS
    image_byte_size, \* of the image
    Lengths          \* the lengths the file can have

VARIABLES
    pc,        \* where main is
    held,      \* the resources it holds
    rc,        \* the value it returns
    channel,   \* tx_channel: "default" until one is known, "valid" or "invalid"
    length,    \* of the file, as it is now
    read,      \* bytes read from it
    running,   \* the flag the handler clears
    display,   \* does the hardware read the buffer?
    missed,    \* did the last signal come between the test of the flag and
               \* the sleep? (history)
    cut        \* was the file cut short? (history)

file == <<length, read, cut>>
flag == <<running, missed>>
vars == <<pc, held, rc, channel, file, flag, display>>

Go(l)  == pc' = l
Ret(v) == rc' = v

Init ==
    /\ pc = "signal" /\ held = {} /\ rc = 0 /\ channel = "default"
    /\ length = 0 /\ read = 0 /\ cut = FALSE
    /\ running = TRUE /\ missed = FALSE /\ display = FALSE

Alive == pc \notin {"exit", "killed"}

-----------------------------------------------------------------------------
(* The handlers are installed, then the arguments are parsed.              *)
InstallHandlers ==
    /\ pc = "signal" /\ Go("parse")
    /\ UNCHANGED <<held, rc, channel, file, flag, display>>

ParseArgs ==
    /\ pc = "parse"
    /\ \/ /\ Go("open_image") /\ UNCHANGED rc
          /\ channel' \in {"default", "valid", "invalid"} /\ length' \in Lengths
       \/ Go("exit") /\ Ret(1) /\ UNCHANGED <<channel, length>>
    /\ UNCHANGED <<held, read, cut, flag, display>>

(* The steps that take something: what, where they lead, and where they go *)
(* when they fail.                                                         *)
Step(gets, next, fail) == [gets |-> gets, next |-> next, fail |-> fail]
Steps ==
    [open_image  |-> Step("image_fd", "open_axidma", "exit"),
     open_axidma |-> Step("axidma_fd", "channel", "close_image"),
     mmap        |-> Step("image_buf", "fstat", "close_axidma")]

Take ==
    /\ pc \in DOMAIN Steps
    /\ \/ held' = held \cup {Steps[pc].gets} /\ Go(Steps[pc].next) /\ UNCHANGED rc
       \/ Go(Steps[pc].fail) /\ Ret(1) /\ UNCHANGED held
    /\ UNCHANGED <<channel, file, flag, display>>

(* Only if none was given.  Where the driver does not say, there is no     *)
(* memory to ask it, or no channel, the device stays open.                 *)
FindChannel ==
    /\ pc = "channel"
    /\ IF channel # "default" THEN Go("mmap") /\ UNCHANGED <<rc, channel>>
       ELSE \/ Go("mmap") /\ channel' = "valid" /\ UNCHANGED rc
            \/ Go("close_image") /\ rc' \in {-1, -12, -19} /\ UNCHANGED channel
    /\ UNCHANGED <<held, file, flag, display>>

Fstat ==
    /\ pc = "fstat"
    /\ \/ length >= image_byte_size /\ Go("read") /\ UNCHANGED rc
       \/ Go("free_image_buf") /\ Ret(1)
    /\ UNCHANGED <<held, channel, file, flag, display>>

ReadSome ==
    /\ pc = "read"
    /\ \E n \in 1..(image_byte_size - read) : read + n <= length /\ read' = read + n
    /\ UNCHANGED <<pc, held, rc, channel, length, cut, flag, display>>

ReadEnd ==
    /\ pc = "read" /\ (read = image_byte_size \/ read >= length)
    /\ Go("video")
    /\ UNCHANGED <<held, rc, channel, file, flag, display>>

ReadFails ==
    /\ pc = "read" /\ Go("free_image_buf") /\ Ret(-1)
    /\ UNCHANGED <<held, channel, file, flag, display>>

Killed == Go("killed") /\ held' = {}

(* AXIDMA_DMA_VIDEO_WRITE: axidma_video_transfer answers 0 whether or not  *)
(* it has started anything, and follows a null pointer if there is no such *)
(* channel: the kernel ends the program and closes its files.              *)
Video ==
    /\ pc = "video"
    /\ \/ Go("check") /\ display' \in {channel = "valid", FALSE} /\ UNCHANGED <<held, rc>>
       \/ Go("free_image_buf") /\ Ret(-1) /\ UNCHANGED <<held, display>>
       \/ channel = "invalid" /\ Killed /\ UNCHANGED <<rc, display>>
    /\ UNCHANGED <<channel, file, flag>>

BugCheck ==
    /\ pc = "check" /\ Go("suspend")
    /\ UNCHANGED <<held, rc, channel, file, flag, display>>

(* The flag is tested, and only then, in another step, main goes to sleep. *)
Check ==
    /\ pc = "check" /\ Go(IF running THEN "suspend" ELSE "stop")
    /\ UNCHANGED <<held, rc, channel, file, flag, display>>

Suspend ==
    /\ pc = "suspend" /\ Go("asleep")
    /\ UNCHANGED <<held, rc, channel, file, flag, display>>

BugStop ==
    /\ pc = "stop" /\ Go("free_image_buf") /\ Ret(0)
    /\ UNCHANGED <<held, channel, file, flag, display>>

(* AXIDMA_STOP_DMA_CHANNEL, with the same null pointer.                    *)
Stop ==
    /\ pc = "stop"
    /\ \/ channel = "valid" /\ Go("free_image_buf") /\ display' = FALSE /\ Ret(0) /\ UNCHANGED held
       \/ channel = "valid" /\ Go("free_image_buf") /\ Ret(-1) /\ UNCHANGED <<held, display>>
       \/ channel = "invalid" /\ Killed /\ UNCHANGED <<rc, display>>
    /\ UNCHANGED <<channel, file, flag>>

(* The labels at the end of main, each running into the next.              *)
Giving ==
    [free_image_buf |-> "image_buf", close_axidma |-> "axidma_fd", close_image |-> "image_fd"]
AfterGiving ==
    [free_image_buf |-> "close_axidma", close_axidma |-> "close_image", close_image |-> "exit"]

Give ==
    /\ pc \in DOMAIN Giving
    /\ held' = held \ {Giving[pc]} /\ Go(AfterGiving[pc])
    /\ UNCHANGED <<rc, channel, file, flag, display>>

Main ==
    \/ InstallHandlers \/ ParseArgs \/ Take \/ FindChannel \/ Fstat
    \/ ReadSome \/ ReadEnd \/ ReadFails \/ Video \/ Check \/ Suspend \/ Stop \/ Give

-----------------------------------------------------------------------------
(* signal_handler.  A signal wakes main only if it is asleep already.      *)
Interrupt ==
    /\ Alive /\ pc # "signal"
    /\ running' = FALSE
    /\ missed' = (pc = "suspend" \/ (missed /\ pc # "asleep"))
    /\ pc' = IF pc = "asleep" THEN "check" ELSE pc
    /\ UNCHANGED <<held, rc, channel, file, display>>

(* The kernel takes back what a killed program held; nothing stops the     *)
(* hardware.                                                               *)
Kill ==
    /\ Alive /\ Killed
    /\ UNCHANGED <<rc, channel, file, flag, display>>

CutShort ==
    /\ pc \in {"fstat", "read"} /\ length > 0
    /\ length' = length - 1 /\ cut' = TRUE
    /\ UNCHANGED <<pc, held, rc, channel, read, flag, display>>

Next == Main \/ Interrupt \/ Kill \/ CutShort

Spec == Init /\ [][Next]_vars /\ WF_vars(Main)

-----------------------------------------------------------------------------
TypeOK ==
    /\ held \subseteq {"image_fd", "axidma_fd", "image_buf"}
    /\ channel \in {"default", "valid", "invalid"}
    /\ length \in Nat /\ read \in 0..image_byte_size /\ rc \in Int
    /\ running \in BOOLEAN /\ missed \in BOOLEAN /\ display \in BOOLEAN /\ cut \in BOOLEAN

(* What main leaves open when it has found no channel.                     *)
Left == IF channel = "default" /\ rc < 0 THEN {"axidma_fd"} ELSE {}

(* main gives back exactly what it holds, whichever step failed, except    *)
(* that it leaves the device open if it has found no channel (280).        *)
GivesBackAll ==
    /\ pc \in DOMAIN Giving => Giving[pc] \in held
    /\ pc = "exit" => held = Left

(* The hardware reads the buffer only while the program holds it; after a  *)
(* failure to stop it, which the exit code tells, and after a kill, which  *)
(* nothing tells the driver, it may go on.                                 *)
BufferOutlivesDisplay ==
    display => "image_buf" \in held \/ rc = -1 \/ pc = "killed"

(* The program exits with 0 only if it read the whole image, unless        *)
(* somebody cut the file short, was told to stop and stopped the hardware. *)
ZeroIsEarned ==
    pc = "exit" /\ rc = 0 => (read = image_byte_size \/ cut) /\ ~running /\ ~display

(* A signal ends the program, unless it comes in the one moment between    *)
(* the test of the flag and the sleep; then the next signal does.          *)
InterruptEnds == (~running /\ ~missed) ~> ~Alive

-----------------------------------------------------------------------------
(* What main holds where it is.                                            *)
HeldAt(l) ==
    CASE l \in {"signal", "parse", "open_image", "killed"} -> {}
      [] l = "exit" -> Left
      [] l = "open_axidma" -> {"image_fd"}
      [] l = "close_image" -> {"image_fd"} \cup Left
      [] l \in {"channel", "mmap", "close_axidma"} -> {"image_fd", "axidma_fd"}
      [] OTHER -> {"image_fd", "axidma_fd", "image_buf"}

Labels == {"free_image_buf", "close_axidma", "close_image", "exit"}
Shown  == {"check", "suspend", "asleep", "stop"}
Behind == Shown \cup {"mmap", "fstat", "read", "video", "free_image_buf", "close_axidma"}

LadderInv ==
    /\ held = HeldAt(pc)
    /\ pc \notin Labels \cup {"killed"} => rc = 0
    /\ pc \in Behind => channel # "default"

(* What has been read when, and when the hardware may be at work.          *)
ReadInv ==
    /\ pc = "read" /\ ~cut => length >= image_byte_size
    /\ pc \in Shown \cup {"video"} => read = image_byte_size \/ cut
    /\ display => pc \in Shown \cup {"killed"} \/ rc = -1
    /\ pc = "stop" => ~running
    /\ pc \in Labels /\ rc = 0 => (read = image_byte_size \/ cut) /\ ~running /\ ~display

DisplayInv == TypeOK /\ LadderInv /\ ReadInv
=============================================================================
