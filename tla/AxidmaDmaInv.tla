---------------------------- MODULE AxidmaDmaInv ----------------------------
(***************************************************************************)
(* The inductive invariants behind the properties of AxidmaDma: what is    *)
(* true of the engine's lists, of the frames of the calls in progress, and *)
(* of the callback record, at every instant.                               *)
(***************************************************************************)
EXTENDS AxidmaDma

(* A channel's cookies are handed out, issued and completed in order.      *)
EngineOK(c) ==
    /\ lastComplete[c] <= lastUsed[c]
    /\ lastComplete[c] # 0 => lastComplete[c] \in performed[c]
    /\ \A n \in Cookies : stage[c][n] = "free" <=> n > lastUsed[c]
    /\ \A n \in Cookies : n <= lastComplete[c] => stage[c][n] \notin {"pending", "active"}
    /\ \A m, n \in Cookies : stage[c][m] = "active" /\ stage[c][n] = "pending" => m < n

EngineInv == \A c \in Chans : EngineOK(c)

(* A running callback works on a descriptor no list holds any more.        *)
CallbackInv ==
    \A c \in Chans : cb[c].pc # "idle" =>
        cb[c].cookie \in Cookies /\ stage[c][cb[c].cookie] = "callback"

PrepStates  == {"prep", "cb_comp", "cb_signal", "cb_process", "submit"}
StartStates == {"issue", "wait", "status"}

(* The frames of a call: which legs it has, and which have been submitted. *)
(* Only the last leg of a call can be waited for.                          *)
FrameOK(t) ==
    /\ pc[t] = "idle" => tfr[t] = NoFrame /\ leg[t] = 1
    /\ leg[t] <= LastLeg(t)
    /\ \A i \in Leg : tfr[t][i].cookie <= lastUsed[tfr[t][i].chan]
    /\ op[t] = "rw" => tfr[t][1].chan # tfr[t][2].chan /\ ~tfr[t][1].wait
    /\ op[t] # "rw" => tfr[t][2].cookie = 0
    /\ op[t] = "video" => ~tfr[t][1].wait
    /\ pc[t] \in PrepStates =>
          /\ Cur(t).cookie = 0
          /\ leg[t] = 2 => tfr[t][1].cookie # 0
          /\ leg[t] = 1 => tfr[t][2].cookie = 0
    /\ pc[t] \in StartStates => \A i \in 1..LastLeg(t) : tfr[t][i].cookie # 0
    /\ pc[t] \in {"wait", "status"} => Cur(t).wait
    /\ pc[t] = "stop_dma" =>
          /\ rc[t] # "OK"
          /\ leg[t] = 1 => tfr[t][2].cookie = 0

FrameInv == \A t \in Threads : FrameOK(t)

(* A descriptor somebody waits for is listed only while the frame of the   *)
(* call that submitted it is alive.                                        *)
WaitedInv ==
    \A c \in Chans, n \in Cookies :
        /\ stage[c][n] \in {"pending", "active"}
        /\ asked[c][n] = "wake"
        => \E i \in Leg : /\ pc[owner[c][n]] # "idle"
                          /\ tfr[owner[c][n]][i].chan = c
                          /\ tfr[owner[c][n]][i].cookie = n
                          /\ tfr[owner[c][n]][i].wait
OwnerInv ==
    \A c \in Chans, n \in Cookies : stage[c][n] # "free" => owner[c][n] \in Threads

DmaInv == TypeOK /\ EngineInv /\ CallbackInv /\ FrameInv /\ OwnerInv /\ WaitedInv

(* With one thread per channel, a call in progress holds the channel's     *)
(* last cookie.                                                            *)
LastCookieInv ==
    \A t \in Threads : \A i \in Leg :
        /\ pc[t] # "idle" => tfr[t][i].chan \in Uses[t]
        /\ tfr[t][i].cookie # 0 => tfr[t][i].cookie = lastUsed[tfr[t][i].chan]

-----------------------------------------------------------------------------
(* The callback record.                                                    *)

(* The record of a channel has been written before the first callback.     *)
WrittenInv ==
    /\ \A t \in Threads :
          /\ pc[t] \in {"cb_signal", "cb_process", "submit"} =>
                cb_data[Chan(t)].comp # Garbage
          /\ pc[t] = "submit" => cb_data[Chan(t)].process # Garbage
    /\ \A c \in Chans : lastUsed[c] # 0 =>
          cb_data[c].comp # Garbage /\ cb_data[c].process # Garbage

(* The signal of a call is the one that was set when it began; a valid one *)
(* is never taken back.  A call waits as its client does on that channel.  *)
AskingInv ==
    \A t \in Threads : pc[t] # "idle" =>
        /\ tfr[t][1].notify_signal = tfr[t][2].notify_signal
        /\ tfr[t][1].notify_signal \in RtSignals => notify_signal \in RtSignals
        /\ \A i \in Leg : tfr[t][i].wait \in Waits[tfr[t][i].chan]

(* What a call has written of its channel's record.                        *)
RecordInv ==
    \A t \in Threads :
        /\ pc[t] \in {"cb_signal", "cb_process", "submit"} =>
              cb_data[Chan(t)].comp = IF Cur(t).wait THEN t ELSE NULL
        /\ pc[t] \in {"cb_process", "submit"} /\ ~Cur(t).wait =>
              cb_data[Chan(t)].notify_signal = Cur(t).notify_signal
        /\ pc[t] = "submit" /\ ~Cur(t).wait => cb_data[Chan(t)].process = t

(* Since calls of one kind, and of one thread, write the same into it, the *)
(* record fits each outstanding descriptor whose caller waits ...          *)
BlockingFits(c, n) == cb_data[c].comp = owner[c][n]

(* ... and each of the others, but for the signal, which the first         *)
(* descriptor that asks for one settles for all that follow.               *)
AsyncFits(c, n) ==
    /\ cb_data[c].comp = NULL
    /\ cb_data[c].process = owner[c][n]
    /\ asked[c][n] = "signal" =>
          /\ cb_data[c].notify_signal \in RtSignals
          /\ notify_signal \in RtSignals
          /\ \A t \in Threads, i \in Leg : pc[t] # "idle" /\ tfr[t][i].chan = c =>
                tfr[t][i].notify_signal \in RtSignals

Fits(c, n) ==
    /\ asked[c][n] = "wake" => BlockingFits(c, n)
    /\ asked[c][n] # "wake" => AsyncFits(c, n)

FitsInv ==
    \A c \in Chans, n \in Cookies :
        /\ stage[c][n] # "free" =>
              /\ c \in Uses[owner[c][n]]
              /\ (asked[c][n] = "wake") \in Waits[c]
        /\ stage[c][n] \in Outstanding /\ n \notin torn[c] => Fits(c, n)

(* Nothing is torn on a channel used in one way.                           *)
TornInv == \A c \in Chans : Pure(c) => torn[c] = {}

(* A callback that has read the record goes the way its descriptor asks.   *)
ReaderOK(c, n) ==
    /\ asked[c][n] = "wake" => cb[c].pc = "complete" /\ cb[c].comp = owner[c][n]
    /\ asked[c][n] # "wake" => cb[c].pc \in {"signal", "send"}

ReaderInv ==
    \A c \in Chans :
        cb[c].pc \notin {"idle", "enter"} /\ cb[c].cookie \notin torn[c] =>
            ReaderOK(c, cb[c].cookie)

NotifyInv ==
    AskingInv /\ RecordInv /\ FitsInv /\ TornInv /\ ReaderInv /\ NotifiedAsAsked

-----------------------------------------------------------------------------
(* What a call in progress has already handed to the hardware.             *)

Unsent(t, i) == stage[tfr[t][i].chan][tfr[t][i].cookie] = "pending"

(* A started leg is no longer pending: neither the one that is waited for, *)
(* nor the transmit leg once the receive leg is started.                   *)
SentInv ==
    \A t \in Threads :
        /\ pc[t] \in {"wait", "status"} => ~Unsent(t, leg[t])
        /\ pc[t] \in StartStates /\ leg[t] = 2 => ~Unsent(t, 1)
        /\ pc[t] = "stop_dma" =>
              /\ rc[t] \in {"EBUSY", "EINVAL", "ETIME"}
              /\ rc[t] = "ETIME" /\ leg[t] = 2 => tfr[t][1].cookie # 0 /\ ~Unsent(t, 1)
=============================================================================
