----------------------------- MODULE UdpClient -----------------------------
(***************************************************************************)
(* udp_send of examples/udpclient.c, as the main thread of a program calls *)
(* it: a socket of its own for every datagram, always bound to the same    *)
(* port, and the end of the program when anything fails.  A datagram is    *)
(* BUFFER_SIZE bytes whatever the size asked for; a byte read from behind  *)
(* the caller's array is NULL.                                             *)
(*                                                                         *)
(* Operators named Bug... are faulty versions of the operator that follows *)
(* them; no action uses them.                                              *)
(***************************************************************************)
EXTENDS ExampleMain

CONSTANTS
    BUFFER_SIZE, \* bytes of a datagram
    NULL         \* a byte that nobody wrote

VARIABLES
    todo, \* the arrays main has still to send, the one being sent first
    port, \* who has the local port (CLIENT_PORT, LOCAL_PORT) in this program
    wire  \* the datagrams sent since the last reception

udp == <<todo, port, wire>>

UdpInit == todo = <<>> /\ port = "free" /\ wire = <<>>

(* exit(1): the kernel takes everything back.                              *)
Die == Go("dead") /\ Ret(1) /\ held' = {} /\ port' = "free"

(* main calls udp_send for one array after the other.                      *)
Send(arrays) == Go("socket") /\ todo' = arrays

Socket ==
    /\ pc = "socket"
    /\ \/ Go("bind") /\ UNCHANGED <<held, rc, port>>
       \/ Die
    /\ Sizes2 /\ UNCHANGED <<todo, wire>>

BugBind ==
    /\ pc = "bind"
    /\ \/ Go("sendto") /\ port' = "client" /\ UNCHANGED <<held, rc>>
       \/ Die
    /\ Sizes2 /\ UNCHANGED <<todo, wire>>

(* The port may also be another program's.                                 *)
Bind ==
    /\ pc = "bind"
    /\ \/ port = "free" /\ Go("sendto") /\ port' = "client" /\ UNCHANGED <<held, rc>>
       \/ Die
    /\ Sizes2 /\ UNCHANGED <<todo, wire>>

Datagram(array) ==
    [j \in 0..(BUFFER_SIZE - 1) |-> IF j \in DOMAIN array THEN array[j] ELSE NULL]

SendTo ==
    /\ pc = "sendto"
    /\ \/ Go("close") /\ wire' = Append(wire, Datagram(Head(todo))) /\ UNCHANGED <<held, rc, port>>
       \/ Die /\ UNCHANGED wire
    /\ Sizes2 /\ UNCHANGED todo

Close ==
    /\ pc = "close"
    /\ port' = "free" /\ todo' = Tail(todo)
    /\ Go(IF todo' = <<>> THEN "loop" ELSE "socket")
    /\ UNCHANGED <<held, rc, wire>> /\ Sizes2

UdpNext == Socket \/ Bind \/ SendTo \/ Close

UdpTypeOK ==
    /\ port \in {"free", "client", "thread"}
    /\ pc \in {"sendto", "close"} => port = "client"
=============================================================================
