--------------------------- MODULE TransferService ---------------------------
(***************************************************************************)
(* What the transfer ioctls promise (include/axidma_ioctl.h), with no      *)
(* callback, completion, timeout or status in sight.                       *)
(*                                                                         *)
(* A client calls for a transfer on one channel, or on two; each becomes a *)
(* numbered transfer of its channel.  The hardware carries a channel's     *)
(* live transfers out in order.  A call that waits for a transfer answers  *)
(* "OK" only when that transfer was carried out, and, whatever it answers, *)
(* only when the hardware is through with its buffer.                      *)
(***************************************************************************)
EXTENDS Naturals

CONSTANTS
    Clients,       \* the threads that make calls
    Channels,      \* the channels
    NoChannel,     \* "no channel is waited for"
    MaxTransfers   \* bound: transfers ever accepted on one channel

VARIABLES
    answer,     \* of each client: what its last call answered, or "busy"
    using,      \* the channels its call may put transfers on
    awaited,    \* the channel whose transfer it waits for, or NoChannel
    mine,       \* the transfers its call put on a channel
    accepted,   \* of each channel: the number of transfers put on it
    live,       \* the transfers the hardware may still carry out
    performed   \* the transfers it carried out

clientVars  == <<answer, using, awaited, mine>>
channelVars == <<accepted, live, performed>>
vars == <<clientVars, channelVars>>

Transfers == 1..MaxTransfers

TypeOK ==
    /\ answer    \in [Clients -> {"OK", "failed", "busy"}]
    /\ using     \in [Clients -> SUBSET Channels]
    /\ awaited   \in [Clients -> Channels \cup {NoChannel}]
    /\ mine      \in [Clients -> SUBSET (Channels \X Transfers)]
    /\ accepted  \in [Channels -> 0..MaxTransfers]
    /\ live      \in [Channels -> SUBSET Transfers]
    /\ performed \in [Channels -> SUBSET Transfers]

Init ==
    /\ answer    = [t \in Clients |-> "OK"]
    /\ using     = [t \in Clients |-> {}]
    /\ awaited   = [t \in Clients |-> NoChannel]
    /\ mine      = [t \in Clients |-> {}]
    /\ accepted  = [c \in Channels |-> 0]
    /\ live      = [c \in Channels |-> {}]
    /\ performed = [c \in Channels |-> {}]

Idle(t) == answer[t] # "busy"

(* A call the driver refuses, or one that concerns no transfer.            *)
AnswerAtOnce(t) ==
    /\ Idle(t)
    /\ \E a \in {"OK", "failed"} : answer' = [answer EXCEPT ![t] = a]
    /\ UNCHANGED <<using, awaited, mine, channelVars>>

(* AXIDMA_STOP_DMA_CHANNEL discards what is live on a channel.             *)
Stop(t, c) ==
    /\ Idle(t)
    /\ answer' = [answer EXCEPT ![t] = "OK"]
    /\ live'   = [live EXCEPT ![c] = {}]
    /\ UNCHANGED <<using, awaited, mine, accepted, performed>>

Request(t) ==
    \E cs \in SUBSET Channels, a \in Channels \cup {NoChannel} :
        /\ Idle(t)
        /\ cs # {} /\ a \in cs \cup {NoChannel}
        /\ answer'  = [answer EXCEPT ![t] = "busy"]
        /\ using'   = [using EXCEPT ![t] = cs]
        /\ awaited' = [awaited EXCEPT ![t] = a]
        /\ UNCHANGED <<mine, channelVars>>

(* At most one transfer of a call goes on each of its channels.            *)
Accept(t, c) ==
    /\ answer[t] = "busy"
    /\ c \in using[t] /\ \A n \in Transfers : <<c, n>> \notin mine[t]
    /\ accepted[c] < MaxTransfers
    /\ accepted' = [accepted EXCEPT ![c] = @ + 1]
    /\ live'     = [live EXCEPT ![c] = @ \cup {accepted[c] + 1}]
    /\ mine'     = [mine EXCEPT ![t] = @ \cup {<<c, accepted[c] + 1>>}]
    /\ UNCHANGED <<answer, using, awaited, performed>>

Perform(c) ==
    \E n \in live[c] :
        /\ \A m \in live[c] : n <= m
        /\ live'      = [live EXCEPT ![c] = @ \ {n}]
        /\ performed' = [performed EXCEPT ![c] = @ \cup {n}]
        /\ UNCHANGED <<clientVars, accepted>>

(* The call answers, having perhaps discarded what was live on one of its  *)
(* channels.  An awaited transfer is no longer live; after "OK" it was     *)
(* carried out.                                                            *)
Answer(t) ==
    /\ answer[t] = "busy"
    /\ \/ UNCHANGED live
       \/ \E c \in using[t] : live' = [live EXCEPT ![c] = {}]
    /\ \E a \in {"OK", "failed"} :
          /\ awaited[t] # NoChannel =>
                LET c == awaited[t] IN
                  /\ \A n \in Transfers : <<c, n>> \in mine[t] => n \notin live'[c]
                  /\ a = "OK" => \E n \in performed[c] : <<c, n>> \in mine[t]
          /\ answer' = [answer EXCEPT ![t] = a]
    /\ using'   = [using EXCEPT ![t] = {}]
    /\ awaited' = [awaited EXCEPT ![t] = NoChannel]
    /\ mine'    = [mine EXCEPT ![t] = {}]
    /\ UNCHANGED <<accepted, performed>>

Next ==
    \/ \E t \in Clients : \/ AnswerAtOnce(t) \/ Request(t) \/ Answer(t)
                          \/ \E c \in Channels : Stop(t, c) \/ Accept(t, c)
    \/ \E c \in Channels : Perform(c)

Safety == Init /\ [][Next]_vars

(* Every call is answered.                                                 *)
Spec == Safety /\ \A t \in Clients : WF_vars(Answer(t))
=============================================================================
