------------------------------ MODULE AxidmaDma ------------------------------
(***************************************************************************)
(* The transfer path of the driver (driver/axidma_dma.c) and the part of   *)
(* the kernel's dmaengine it calls.                                        *)
(*                                                                         *)
(* A thread enters the driver through one of the transfer ioctls.  The     *)
(* call prepares and submits one descriptor (two for a read-write          *)
(* transfer), starts it, and, when asked to wait, sleeps on a completion   *)
(* that lives on its own stack until the channel's callback completes it   *)
(* or the 1 ms timeout expires.  The callback learns whom to notify from   *)
(* cb_data[channel]: ONE record per channel, rewritten field by field by   *)
(* every call, without a lock.  The interrupt and the tasklet that runs    *)
(* the callback interleave with all of it.                                 *)
(*                                                                         *)
(* Clients pass the channel ids the driver gave them.  Of an unknown one   *)
(* the read and write ioctls say -ENODEV, but the video and the stop ioctl *)
(* dereference the NULL they find (axidma_dma.c:594, 625).                 *)
(*                                                                         *)
(* Operators named Bug... are faulty versions of the operator that follows *)
(* them; no action uses them.                                              *)
(***************************************************************************)
EXTENDS Naturals

CONSTANTS
    Threads,     \* threads that issue ioctls on the device
    Chans,       \* channel ids, as returned by AXIDMA_GET_DMA_CHANNELS
    Dir,         \* chan->dir of each channel: "READ" or "WRITE"
    Type,        \* chan->type of each channel: "DMA" or "VDMA"
    Uses,        \* the channels each thread uses (the clients' discipline)
    Waits,       \* the values of trans->wait the clients use on a channel
    RtSignals,   \* the signals VALID_NOTIFY_SIGNAL accepts
    NoSignal,    \* any other value of a notify_signal field, -1 included
    NULL,        \* the null pointer
    Garbage,     \* what a field of a kmalloc'ed cb_data holds before a write
    MaxCookie    \* bound: descriptors ever submitted to one channel

Cookies == 1..MaxCookie
Leg     == 1..2

TransferOps == {"read", "write", "rw", "video"}
Errors      == {"ENODEV", "EFAULT", "EINVAL", "EBUSY", "ETIME"}

(* One thread per channel.  README.md asks for more than this: one thread  *)
(* at a time for the whole driver.                                         *)
ExclusiveUse == \A t, u \in Threads : t # u => Uses[t] \cap Uses[u] = {}

(* A channel all of whose transfers are blocking, or all asynchronous.     *)
Pure(c) == Waits[c] \in {{TRUE}, {FALSE}}

ASSUME ConstantsAssumption ==
    /\ Chans # {}
    /\ Dir  \in [Chans -> {"READ", "WRITE"}]
    /\ Type \in [Chans -> {"DMA", "VDMA"}]
    /\ Uses \in [Threads -> SUBSET Chans]
    /\ Waits \in [Chans -> SUBSET BOOLEAN]
    /\ MaxCookie \in Nat

ASSUME DistinctAssumption ==
    /\ NULL \notin Threads
    /\ Garbage \notin Threads \cup {NULL}
    /\ NoSignal \notin RtSignals
    /\ Garbage \notin RtSignals \cup {NoSignal}

VARIABLES
    notify_signal,  \* dev->notify_signal
    cb_data,        \* dev->cb_data: per channel [comp, notify_signal, process]
    torn,           \* history: the descriptors whose record a call of the other
                    \* kind began to rewrite before their callback was through
    pc,             \* where each thread is in its ioctl
    op,             \* the transfer ioctl each thread is in
    tfr,            \* the axidma_transfer structs on each thread's stack
    leg,            \* which of them is being prepared or started
    rc,             \* its return code; of the last ioctl once it returned
    done,           \* comp.done of the completion on each thread's stack
    lastUsed,       \* the channel's last assigned cookie
    lastComplete,   \* the channel's last completed cookie
    stage,          \* life of each descriptor of each channel
    owner,          \* the thread that submitted it
    asked,          \* the notification it asked for (see Wanted)
    told,           \* the thread its callback woke or signalled
    performed,      \* the descriptors the hardware carried out
    cb              \* the channel's callback: [pc, cookie, comp]

callVars   == <<pc, op, tfr, leg, rc>>
engineVars == <<lastUsed, lastComplete, stage, owner, asked, told, performed>>
recordVars == <<cb_data, torn>>
vars == <<notify_signal, recordVars, callVars, done, engineVars, cb>>

-----------------------------------------------------------------------------
(* Types.                                                                  *)

CallStates == {"idle", "prep", "cb_comp", "cb_signal", "cb_process",
               "submit", "issue", "wait", "status", "stop_dma"}
Stages == {"free", "pending", "active", "done", "callback",
           "woke", "signalled", "silent", "dropped"}
Notices == {"wake", "signal", "nothing"}
Transfer == [chan : Chans, wait : BOOLEAN,
             notify_signal : RtSignals \cup {NoSignal},
             cookie : 0..MaxCookie]
CbData   == [comp : Threads \cup {NULL, Garbage},
             notify_signal : RtSignals \cup {NoSignal, Garbage},
             process : Threads \cup {NULL, Garbage}]
Callback == [pc : {"idle", "enter", "complete", "signal", "send", "oops"},
             cookie : 0..MaxCookie,
             comp : Threads \cup {NULL, Garbage}]

(* The axidma_transfer structs of a thread that is not in a call.          *)
NoFrame == [i \in Leg |-> [chan |-> CHOOSE c \in Chans : TRUE, wait |-> FALSE,
                           notify_signal |-> NoSignal, cookie |-> 0]]
IdleCallback == [pc |-> "idle", cookie |-> 0, comp |-> NULL]

CallTypeOK ==
    /\ pc  \in [Threads -> CallStates]
    /\ op  \in [Threads -> TransferOps \cup {"none"}]
    /\ tfr \in [Threads -> [Leg -> Transfer]]
    /\ leg \in [Threads -> Leg]
    /\ rc  \in [Threads -> Errors \cup {"OK"}]

EngineTypeOK ==
    /\ lastUsed     \in [Chans -> 0..MaxCookie]
    /\ lastComplete \in [Chans -> 0..MaxCookie]
    /\ stage     \in [Chans -> [Cookies -> Stages]]
    /\ owner     \in [Chans -> [Cookies -> Threads \cup {NULL}]]
    /\ asked     \in [Chans -> [Cookies -> Notices]]
    /\ told      \in [Chans -> [Cookies -> Threads \cup {NULL, Garbage}]]
    /\ performed \in [Chans -> SUBSET Cookies]

TypeOK ==
    /\ CallTypeOK
    /\ EngineTypeOK
    /\ notify_signal \in RtSignals \cup {NoSignal}
    /\ cb_data \in [Chans -> CbData]
    /\ torn    \in [Chans -> SUBSET Cookies]
    /\ done    \in [Threads -> BOOLEAN]
    /\ cb      \in [Chans -> Callback]

(* dev is kmalloc'ed: notify_signal holds anything until the first         *)
(* AXIDMA_SET_DMA_SIGNAL, and cb_data holds anything until a call.         *)
Init ==
    /\ notify_signal \in RtSignals \cup {NoSignal}
    /\ cb_data = [c \in Chans |->
                    [comp |-> Garbage, notify_signal |-> Garbage, process |-> Garbage]]
    /\ torn = [c \in Chans |-> {}]
    /\ pc  = [t \in Threads |-> "idle"]
    /\ op  = [t \in Threads |-> "none"]
    /\ tfr = [t \in Threads |-> NoFrame]
    /\ leg = [t \in Threads |-> 1]
    /\ rc  = [t \in Threads |-> "OK"]
    /\ done = [t \in Threads |-> FALSE]
    /\ lastUsed     = [c \in Chans |-> 0]
    /\ lastComplete = [c \in Chans |-> 0]
    /\ stage     = [c \in Chans |-> [n \in Cookies |-> "free"]]
    /\ owner     = [c \in Chans |-> [n \in Cookies |-> NULL]]
    /\ asked     = [c \in Chans |-> [n \in Cookies |-> "nothing"]]
    /\ told      = [c \in Chans |-> [n \in Cookies |-> NULL]]
    /\ performed = [c \in Chans |-> {}]
    /\ cb = [c \in Chans |-> IdleCallback]

-----------------------------------------------------------------------------
(* dmaengine, as the driver uses it (xilinx_dma.c and dmaengine.h).        *)

(* tx_submit: the descriptor gets the next cookie and joins the pending    *)
(* list.  The cookie bound only disables the successful outcome.           *)
EngineSubmit(c, n, t, notice) ==
    /\ lastUsed[c] < MaxCookie
    /\ n = lastUsed[c] + 1
    /\ lastUsed' = [lastUsed EXCEPT ![c] = n]
    /\ stage'    = [stage EXCEPT ![c][n] = "pending"]
    /\ owner'    = [owner EXCEPT ![c][n] = t]
    /\ asked'    = [asked EXCEPT ![c][n] = notice]
    /\ UNCHANGED <<lastComplete, told, performed>>

(* device_issue_pending: the whole pending list is handed to the hardware. *)
EngineIssue(c) ==
    /\ stage' = [stage EXCEPT ![c] =
                   [n \in Cookies |-> IF stage[c][n] = "pending" THEN "active"
                                      ELSE stage[c][n]]]
    /\ UNCHANGED <<lastUsed, lastComplete, owner, asked, told, performed>>

(* device_terminate_all: the hardware is halted and every listed           *)
(* descriptor freed.  It does not wait for a callback that is running.     *)
EngineTerminate(c) ==
    /\ stage' = [stage EXCEPT ![c] =
                   [n \in Cookies |-> IF stage[c][n] \in {"pending", "active", "done"}
                                      THEN "dropped" ELSE stage[c][n]]]
    /\ UNCHANGED <<lastUsed, lastComplete, owner, asked, told, performed>>

(* dma_cookie_status: a comparison with the channel's two counters.        *)
TxComplete(c, k) == k <= lastComplete[c] \/ k > lastUsed[c]

(* The interrupt handler: the oldest active descriptor is complete.  The   *)
(* hardware may also never raise it.                                       *)
HwComplete(c) ==
    \E n \in Cookies :
        /\ stage[c][n] = "active"
        /\ \A m \in Cookies : m < n => stage[c][m] # "active"
        /\ stage' = [stage EXCEPT ![c][n] = "done"]
        /\ lastComplete' = [lastComplete EXCEPT ![c] = n]
        /\ performed' = [performed EXCEPT ![c] = @ \cup {n}]
        /\ UNCHANGED <<lastUsed, owner, asked, told>>
        /\ UNCHANGED <<notify_signal, recordVars, callVars, done, cb>>

(* The tasklet unlinks the oldest done descriptor and, having dropped the  *)
(* channel lock, calls its callback.  One tasklet runs per channel.        *)
CallbackEnter(c) ==
    \E n \in Cookies :
        /\ cb[c].pc = "idle"
        /\ stage[c][n] = "done"
        /\ \A m \in Cookies : m < n => stage[c][m] # "done"
        /\ stage' = [stage EXCEPT ![c][n] = "callback"]
        /\ cb' = [cb EXCEPT ![c] = [pc |-> "enter", cookie |-> n, comp |-> NULL]]
        /\ UNCHANGED <<lastUsed, lastComplete, owner, asked, told, performed>>
        /\ UNCHANGED <<notify_signal, recordVars, callVars, done>>

-----------------------------------------------------------------------------
(* axidma_dma_callback.  Each field of cb_data is read when it is needed,  *)
(* while a call on the same channel may be rewriting the record.  The      *)
(* fields are plain ones: what the source reads twice, once to test it and *)
(* once to use it, the compiler may read twice or keep from the first time.*)

CallbackReturn(c, how, whom) ==
    /\ stage' = [stage EXCEPT ![c][cb[c].cookie] = how]
    /\ told'  = [told EXCEPT ![c][cb[c].cookie] = whom]
    /\ cb'    = [cb EXCEPT ![c] = IdleCallback]
    /\ UNCHANGED <<lastUsed, lastComplete, owner, asked, performed>>

(* A null pointer is used, in a tasklet: this callback never returns.      *)
(* Whether anything else still runs after the oops is left open.           *)
Oops(c) ==
    /\ cb' = [cb EXCEPT ![c].pc = "oops"]
    /\ UNCHANGED engineVars

CallbackReadComp(c) ==
    /\ cb[c].pc = "enter"
    /\ cb' = [cb EXCEPT ![c] =
                [@ EXCEPT !.pc   = IF cb_data[c].comp # NULL THEN "complete" ELSE "signal",
                          !.comp = cb_data[c].comp]]
    /\ UNCHANGED <<notify_signal, recordVars, callVars, done, engineVars>>

(* complete(): of the pointer that was tested, or of what is there now.  A *)
(* completion is identified with the thread on whose stack it lives, since *)
(* a thread that makes the same call again has it at the same address.     *)
CallbackComplete(c) ==
    /\ cb[c].pc = "complete"
    /\ \E comp \in {cb[c].comp, cb_data[c].comp} :
          /\ done' = [t \in Threads |-> IF t = comp THEN TRUE ELSE done[t]]
          /\ \/ comp # NULL /\ CallbackReturn(c, "woke", comp)
             \/ comp = NULL /\ Oops(c)
    /\ UNCHANGED <<notify_signal, recordVars, callVars>>

CallbackReadSignal(c) ==
    /\ cb[c].pc = "signal"
    /\ \/ /\ cb_data[c].notify_signal \in RtSignals
          /\ cb' = [cb EXCEPT ![c].pc = "send"]
          /\ UNCHANGED engineVars
       \/ /\ cb_data[c].notify_signal \notin RtSignals
          /\ CallbackReturn(c, "silent", NULL)
    /\ UNCHANGED <<notify_signal, recordVars, callVars, done>>

(* send_sig_info(): with the signal that was tested, or with the one that  *)
(* is there now; it refuses one that is no signal, the -1 of a blocking    *)
(* call, before it looks at the task.                                      *)
CallbackSend(c) ==
    /\ cb[c].pc = "send"
    /\ \/ cb_data[c].process # NULL /\ CallbackReturn(c, "signalled", cb_data[c].process)
       \/ cb_data[c].process = NULL /\ Oops(c)
       \/ cb_data[c].notify_signal \notin RtSignals /\ CallbackReturn(c, "silent", NULL)
    /\ UNCHANGED <<notify_signal, recordVars, callVars, done>>

Kernel(c) ==
    \/ CallbackEnter(c)      \/ CallbackReadComp(c) \/ CallbackComplete(c)
    \/ CallbackReadSignal(c) \/ CallbackSend(c)

-----------------------------------------------------------------------------
(* The ioctls.  A call that is refused returns at once; one that is        *)
(* accepted fills its axidma_transfer structs and goes on to "prep".       *)

Refuse(t, code) ==
    /\ pc[t] = "idle"
    /\ rc' = [rc EXCEPT ![t] = code]
    /\ UNCHANGED <<pc, op, tfr, leg>>

Begin(t, o, first, second) ==
    /\ pc[t] = "idle"
    /\ pc'  = [pc EXCEPT ![t] = "prep"]
    /\ op'  = [op EXCEPT ![t] = o]
    /\ tfr' = [tfr EXCEPT ![t] = [i \in Leg |-> IF i = 1 THEN first ELSE second]]
    /\ leg' = [leg EXCEPT ![t] = 1]
    /\ rc'  = [rc EXCEPT ![t] = "OK"]

(* What the caller of a transfer is to be told of its completion.          *)
Wanted(x) == IF x.wait THEN "wake"
             ELSE IF x.notify_signal \in RtSignals THEN "signal" ELSE "nothing"

NewTransfer(c, w) ==
    [chan |-> c, wait |-> w, notify_signal |-> notify_signal, cookie |-> 0]

(* axidma_read_transfer and axidma_write_transfer.  -EFAULT: the buffer is *)
(* not inside an allocation of the caller.                                 *)
OneWay(t, o, dir, c, w) ==
    /\ w \in Waits[c]
    /\ \/ Dir[c] # dir /\ Refuse(t, "ENODEV")
       \/ Dir[c] = dir /\ Refuse(t, "EFAULT")
       \/ Dir[c] = dir /\ Begin(t, o, NewTransfer(c, w), NewTransfer(c, w))

ReadTransfer(t, c, w)  == OneWay(t, "read", "READ", c, w)
WriteTransfer(t, c, w) == OneWay(t, "write", "WRITE", c, w)

(* axidma_rw_transfer: the transmit leg never waits, whatever the caller   *)
(* asked for; the receive leg does as it is told.                          *)
RwTransfer(t, tx, rx, w) ==
    /\ FALSE \in Waits[tx] /\ w \in Waits[rx]
    /\ LET valid == Dir[tx] = "WRITE" /\ Dir[rx] = "READ"
       IN \/ ~valid /\ Refuse(t, "ENODEV")
          \/ valid /\ Refuse(t, "EFAULT")
          \/ valid /\ Begin(t, "rw", NewTransfer(tx, FALSE), NewTransfer(rx, w))

(* axidma_video_transfer.  Its test of the channel's type and direction    *)
(* (chan == NULL && ...) rejects no channel that exists, and its failures  *)
(* return 0.                                                               *)
VideoTransfer(t, c) ==
    /\ FALSE \in Waits[c]
    /\ \/ Refuse(t, "OK")
       \/ Begin(t, "video", NewTransfer(c, FALSE), NewTransfer(c, FALSE))

StartCall(t) ==
    /\ \E c \in Uses[t] :
          \/ \E w \in BOOLEAN :
                \/ ReadTransfer(t, c, w)
                \/ WriteTransfer(t, c, w)
                \/ \E rx \in Uses[t] : RwTransfer(t, c, rx, w)
          \/ VideoTransfer(t, c)
    /\ UNCHANGED <<notify_signal, recordVars, done, engineVars, cb>>

(* axidma_set_signal.                                                      *)
SetSignal(t) ==
    /\ \E s \in RtSignals \cup {NoSignal} :
          \/ /\ s \in RtSignals
             /\ notify_signal' = s
             /\ Refuse(t, "OK")
          \/ /\ s \notin RtSignals
             /\ Refuse(t, "EINVAL")
             /\ UNCHANGED notify_signal
    /\ UNCHANGED <<recordVars, done, engineVars, cb>>

(* axidma_stop_channel: nothing is checked that could fail.                *)
StopChannel(t, c) ==
    /\ EngineTerminate(c)
    /\ Refuse(t, "OK")
    /\ UNCHANGED <<notify_signal, recordVars, done, cb>>

-----------------------------------------------------------------------------
(* axidma_prep_transfer, for the leg the call has reached.                 *)

Cur(t)     == tfr[t][leg[t]]
Chan(t)    == Cur(t).chan
LastLeg(t) == IF op[t] = "rw" THEN 2 ELSE 1
TypeOf(t)  == IF op[t] = "video" THEN "VDMA" ELSE Type[Chan(t)]

(* The call returns and its stack frame is gone.                           *)
Return(t, from, code) ==
    /\ pc[t] = from
    /\ pc'  = [pc EXCEPT ![t] = "idle"]
    /\ op'  = [op EXCEPT ![t] = "none"]
    /\ tfr' = [tfr EXCEPT ![t] = NoFrame]
    /\ leg' = [leg EXCEPT ![t] = 1]
    /\ rc'  = [rc EXCEPT ![t] = code]

Goto(t, from, to) ==
    /\ pc[t] = from
    /\ pc' = [pc EXCEPT ![t] = to]

Fail(t, from, code) ==
    /\ Goto(t, from, "stop_dma")
    /\ rc' = [rc EXCEPT ![t] = code]
    /\ UNCHANGED <<op, tfr, leg>>

BugPrepForgetsCallback(t) ==    \* fault: cb_data is not set up
    /\ Goto(t, "prep", "submit")
    /\ UNCHANGED <<op, tfr, leg, rc, notify_signal, recordVars, done, engineVars, cb>>

(* The engine gives a descriptor, or NULL, or (VDMA only) refuses the      *)
(* channel configuration first.                                            *)
PrepDescriptor(t) ==
    /\ \/ Goto(t, "prep", "cb_comp") /\ UNCHANGED <<op, tfr, leg, rc>>
       \/ Fail(t, "prep", "EBUSY")
       \/ TypeOf(t) = "VDMA" /\ Fail(t, "prep", "EINVAL")
    /\ UNCHANGED <<notify_signal, recordVars, done, engineVars, cb>>

(* The descriptors of the channel whose callback is still to come, and     *)
(* which wait while the call does not, or the other way round.             *)
Outstanding == {"pending", "active", "done", "callback"}
OtherKind(t) == {n \in Cookies : /\ stage[Chan(t)][n] \in Outstanding
                                 /\ (asked[Chan(t)][n] = "wake") # Cur(t).wait}

(* The three assignments to cb_data that a running callback can see apart. *)
WriteComp(t, comp) ==
    /\ Goto(t, "cb_comp", "cb_signal")
    /\ cb_data' = [cb_data EXCEPT ![Chan(t)].comp = comp]
    /\ torn' = [torn EXCEPT ![Chan(t)] = @ \cup OtherKind(t)]
    /\ UNCHANGED <<notify_signal, op, tfr, leg, rc, done, engineVars, cb>>

BugCompNotReset(t) ==           \* fault: only a call that waits sets comp
    WriteComp(t, IF Cur(t).wait THEN t ELSE cb_data[Chan(t)].comp)

SetCbComp(t) == WriteComp(t, IF Cur(t).wait THEN t ELSE NULL)

BugCbSignalForgotten(t) ==      \* fault: the signal is not passed on
    /\ Goto(t, "cb_signal", "cb_process")
    /\ cb_data' = [cb_data EXCEPT ![Chan(t)].notify_signal = NoSignal]
    /\ UNCHANGED <<notify_signal, torn, op, tfr, leg, rc, done, engineVars, cb>>

SetCbSignal(t) ==
    /\ Goto(t, "cb_signal", "cb_process")
    /\ cb_data' = [cb_data EXCEPT ![Chan(t)].notify_signal =
                     IF Cur(t).wait THEN NoSignal ELSE Cur(t).notify_signal]
    /\ UNCHANGED <<notify_signal, torn, op, tfr, leg, rc, done, engineVars, cb>>

BugProcessIsSignal(t) ==        \* fault: the wrong field is copied
    /\ Goto(t, "cb_process", "submit")
    /\ cb_data' = [cb_data EXCEPT ![Chan(t)].process = Cur(t).notify_signal]
    /\ done' = [done EXCEPT ![t] = IF Cur(t).wait THEN FALSE ELSE @]
    /\ UNCHANGED <<notify_signal, torn, op, tfr, leg, rc, engineVars, cb>>

(* With wait, init_completion follows: it forgets an earlier complete().   *)
SetCbProcess(t) ==
    /\ Goto(t, "cb_process", "submit")
    /\ cb_data' = [cb_data EXCEPT ![Chan(t)].process = IF Cur(t).wait THEN NULL ELSE t]
    /\ done' = [done EXCEPT ![t] = IF Cur(t).wait THEN FALSE ELSE @]
    /\ UNCHANGED <<notify_signal, torn, op, tfr, leg, rc, engineVars, cb>>

(* A read-write transfer prepares its second leg before it starts either.  *)
Submit(t) ==
    /\ \/ \E n \in Cookies :
             /\ EngineSubmit(Chan(t), n, t, Wanted(Cur(t)))
             /\ tfr' = [tfr EXCEPT ![t][leg[t]].cookie = n]
             /\ \/ leg[t] < LastLeg(t) /\ Goto(t, "submit", "prep")
                                       /\ leg' = [leg EXCEPT ![t] = 2]
                \/ leg[t] = LastLeg(t) /\ Goto(t, "submit", "issue")
                                       /\ leg' = [leg EXCEPT ![t] = 1]
             /\ UNCHANGED <<op, rc>>
       \/ Fail(t, "submit", "EBUSY") /\ UNCHANGED engineVars
    /\ UNCHANGED <<notify_signal, recordVars, done, cb>>

-----------------------------------------------------------------------------
(* axidma_start_transfer.                                                  *)

(* The leg is over without an error: start the next one, or return 0.      *)
LegDone(t, from) ==
    \/ /\ leg[t] < LastLeg(t)
       /\ Goto(t, from, "issue")
       /\ leg' = [leg EXCEPT ![t] = 2]
       /\ UNCHANGED <<op, tfr, rc>>
    \/ leg[t] = LastLeg(t) /\ Return(t, from, "OK")

BugIssueNothing(t) ==           \* fault: the pending list is not flushed
    /\ \/ Cur(t).wait /\ Goto(t, "issue", "wait") /\ UNCHANGED <<op, tfr, leg, rc>>
       \/ ~Cur(t).wait /\ LegDone(t, "issue")
    /\ UNCHANGED <<notify_signal, recordVars, done, engineVars, cb>>

Issue(t) ==
    /\ EngineIssue(Chan(t))
    /\ \/ Cur(t).wait /\ Goto(t, "issue", "wait") /\ UNCHANGED <<op, tfr, leg, rc>>
       \/ ~Cur(t).wait /\ LegDone(t, "issue")
    /\ UNCHANGED <<notify_signal, recordVars, done, cb>>

(* wait_for_completion_timeout consumes the completion it was woken by...  *)
Wake(t) ==
    /\ Goto(t, "wait", "status")
    /\ done[t]
    /\ done' = [done EXCEPT ![t] = FALSE]
    /\ UNCHANGED <<notify_signal, recordVars, op, tfr, leg, rc, engineVars, cb>>

BugWaitForever(t) == FALSE      \* fault: wait_for_completion, without a timeout

(* ... or gives up after AXIDMA_DMA_TIMEOUT; the status is then ignored.   *)
Timeout(t) ==
    /\ ~done[t]
    /\ Fail(t, "wait", "ETIME")
    /\ UNCHANGED <<notify_signal, recordVars, done, engineVars, cb>>

BugWakeIsSuccess(t) ==          \* fault: the status is not looked at
    /\ LegDone(t, "status")
    /\ UNCHANGED <<notify_signal, recordVars, done, engineVars, cb>>

CheckStatus(t) ==
    /\ \/ TxComplete(Chan(t), Cur(t).cookie) /\ LegDone(t, "status")
       \/ ~TxComplete(Chan(t), Cur(t).cookie) /\ Fail(t, "status", "EBUSY")
    /\ UNCHANGED <<notify_signal, recordVars, done, engineVars, cb>>

BugNoTerminate(t) ==            \* fault: the failed descriptor stays queued
    /\ Return(t, "stop_dma", IF op[t] = "video" THEN "OK" ELSE rc[t])
    /\ UNCHANGED <<notify_signal, recordVars, done, engineVars, cb>>

(* Label stop_dma of both functions.  axidma_video_transfer then drops rc. *)
StopDma(t) ==
    /\ EngineTerminate(Chan(t))
    /\ Return(t, "stop_dma", IF op[t] = "video" THEN "OK" ELSE rc[t])
    /\ UNCHANGED <<notify_signal, recordVars, done, cb>>

-----------------------------------------------------------------------------
InCall(t) ==
    \/ PrepDescriptor(t) \/ SetCbComp(t) \/ SetCbSignal(t) \/ SetCbProcess(t)
    \/ Submit(t) \/ Issue(t) \/ Wake(t) \/ Timeout(t) \/ CheckStatus(t)
    \/ StopDma(t)

Next ==
    \/ \E t \in Threads : \/ StartCall(t) \/ SetSignal(t) \/ InCall(t)
                          \/ \E c \in Uses[t] : StopChannel(t, c)
    \/ \E c \in Chans : HwComplete(c) \/ Kernel(c)

(* A thread inside a call keeps running: every step of it is enabled or is *)
(* a wait with a timeout.  A scheduled tasklet runs.  Nothing obliges a    *)
(* client to call, or the hardware to finish a transfer.                   *)
Fairness ==
    /\ \A t \in Threads : WF_vars(InCall(t))
    /\ \A c \in Chans : WF_vars(Kernel(c))

Spec == Init /\ [][Next]_vars /\ Fairness

-----------------------------------------------------------------------------
(* Properties.                                                             *)

Finished == {"woke", "signalled", "silent"}

(* A blocking transfer that returns 0 (axidma_dma.c:296-314) returns it    *)
(* only if the hardware carried out the very descriptor this call          *)
(* submitted, whatever late callbacks of earlier calls on the channel did  *)
(* to the completion it slept on.                                          *)
RealSuccess ==
    \A t \in Threads :
        /\ pc[t] # "idle" /\ pc'[t] = "idle" /\ rc'[t] = "OK"
        /\ Cur(t).wait
        => Cur(t).cookie \in performed[Chan(t)]

SuccessIsReal == [][RealSuccess]_vars

(* A blocking transfer's buffer is the caller's again once the call has    *)
(* returned, with success, error or timeout: the hardware neither holds    *)
(* nor will be given a descriptor that points into it.                     *)
NoDmaAfterReturn ==
    \A c \in Chans, n \in Cookies :
        /\ stage[c][n] \in {"pending", "active"}
        /\ asked[c][n] = "wake"
        => \E i \in Leg : /\ pc[owner[c][n]] # "idle"
                          /\ tfr[owner[c][n]][i].chan = c
                          /\ tfr[owner[c][n]][i].cookie = n

(* Each callback that ran told the thread that submitted the descriptor,   *)
(* in the way it asked for: it was woken if it waits, signalled if a       *)
(* signal was set; and no callback used a null pointer (axidma_dma.c:153,  *)
(* 159).  Later calls of the same kind may rewrite cb_data while the       *)
(* callback reads it; late callbacks, timeouts and stops make no           *)
(* difference either.  Only a call of the other kind that comes before the *)
(* callback is through does: a blocking call while an asynchronous         *)
(* transfer is in flight, or an asynchronous one while the callback of a   *)
(* blocking call that timed out is still running.                          *)
NotifiedAsAsked ==
    \A c \in Chans :
        /\ cb[c].pc = "oops" => cb[c].cookie \in torn[c]
        /\ \A n \in Cookies \ torn[c] : stage[c][n] \in Finished =>
              /\ asked[c][n] = "wake" => stage[c][n] = "woke"
              /\ asked[c][n] = "signal" => stage[c][n] = "signalled"
              /\ stage[c][n] = "woke" => asked[c][n] = "wake"
              /\ stage[c][n] # "silent" => told[c][n] = owner[c][n]

(* No callback acts on a cb_data field that no call has written: the array *)
(* is kmalloc'ed and its first contents are arbitrary.                     *)
NoGarbageRead ==
    \A c \in Chans : /\ cb[c].comp # Garbage
                     /\ \A n \in Cookies : told[c][n] # Garbage

(* What a call leaves behind when it returns, and the next call on the     *)
(* channel sends or the hardware goes on with after an error, is only ever *)
(* the transmit leg of a read-write transfer: not issued when the receive  *)
(* leg could not be prepared (axidma_dma.c:534-537), possibly running when *)
(* the receive leg failed or timed out (axidma_dma.c:545-547).             *)
LegsLeft ==
    \A t \in Threads : pc[t] # "idle" /\ pc'[t] = "idle" =>
        \A n \in Cookies, i \in Leg :
            LET c == tfr[t][i].chan
                transmitLeg == op[t] = "rw" /\ i = 1 /\ leg[t] = 2
            IN tfr[t][i].cookie = n /\ owner[c][n] = t =>
               /\ stage'[c][n] = "pending" =>
                     transmitLeg /\ rc'[t] \in {"EBUSY", "EINVAL"}
               /\ stage'[c][n] = "active" /\ rc'[t] # "OK" => transmitLeg

OnlyTransmitLegsStayBehind == [][LegsLeft]_vars

(* libaxidma.h:197-200, of asynchronous transfers: the callback "will be   *)
(* invoked upon completion of the transfer".  So a transfer submitted with *)
(* a valid signal, whose callback has run, was signalled to its submitter. *)
AsyncIsSignalled ==
    \A c \in Chans, n \in Cookies :
        stage[c][n] \in Finished /\ asked[c][n] = "signal"
        => stage[c][n] = "signalled" /\ told[c][n] = owner[c][n]

(* axidma_dma.c:149, of the callback: "For synchronous transfers, notify   *)
(* the kernel thread waiting."  So the thread it completes is inside the   *)
(* call that submitted the descriptor.                                     *)
SyncWakesWaiter ==
    [][\A c \in Chans, n \in Cookies :
          stage[c][n] # "woke" /\ stage'[c][n] = "woke"
          => \E t \in Threads : /\ told'[c][n] = t
                               /\ pc[t] \in {"wait", "status", "stop_dma"}
                               /\ Chan(t) = c /\ Cur(t).cookie = n]_vars

(* Every ioctl returns, even if the hardware never finishes a transfer.    *)
CallsReturn == \A t \in Threads : pc[t] # "idle" ~> pc[t] = "idle"

=============================================================================
