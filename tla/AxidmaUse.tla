------------------------------ MODULE AxidmaUse ------------------------------
(***************************************************************************)
(* Transfers in flight together with the buffers they use: what            *)
(* driver/axidma_dma.c leaves running on the channels while the mappings   *)
(* of AxidmaBuffers come and go.                                           *)
(*                                                                         *)
(* A transfer call translates its user range once, when it starts, and the *)
(* hardware works on the memory found then.  Nothing ties the two          *)
(* together afterwards: the buffer's mapping takes no reference for a      *)
(* transfer, closing the file or ending the process stops no channel, and  *)
(* the record of a transfer keeps a bare pointer to its task.              *)
(*                                                                         *)
(* AxidmaDma has the steps inside one call; here a call that returned is   *)
(* one step, and a call that waits is a step to start and one to end.      *)
(* README.md allows one thread, and the wait is uninterruptible: a process *)
(* does nothing, and does not end, during a call.                          *)
(*                                                                         *)
(* Operators named Bug... are faulty versions of the operator that follows *)
(* them; no action uses them.                                              *)
(***************************************************************************)
EXTENDS AxidmaBuffers, Sequences

CONSTANTS
    Chans,       \* DMA channels
    MaxFlights,  \* bound: transfers on the channels at one time
    Careful      \* does a client keep the buffers of its transfers mapped?

ASSUME UseConstants ==
    /\ MaxFlights \in Nat \ {0}
    /\ Careful \in BOOLEAN

VARIABLE
    queue        \* the transfers each channel holds, in the order submitted

useVars == <<vars, queue>>

(* wait: a call sleeps until it completes.  async, video: started and left *)
(* to run.  leg: the transmit leg of a read-write call.  stranded: such a  *)
(* leg, submitted by a call that then failed, and not issued.              *)
Kinds  == {"wait", "async", "video", "leg", "stranded"}
Memory == {NoAddress.mem} \cup ({"own"} \X Allocs) \cup ({"imported"} \X Bufs)

(* struct axidma_cb_data: the task is a bare pointer.  gone: it has ended. *)
Flight == [kind : Kinds, task : Procs, gone : BOOLEAN,
           lo : Addr, hi : Addr, mem : Memory]

UseTypeOK ==
    /\ TypeOK
    /\ queue \in [Chans -> Seq(Flight)]

UseInit == Init /\ queue = [c \in Chans |-> <<>>]

InFlight == UNION {{queue[c][i] : i \in DOMAIN queue[c]} : c \in Chans}

BugBusy(p) == FALSE    \* fault: a signal ends the wait, and the call returns

(* The wait for a completion cannot be interrupted.                        *)
Busy(p) == \E f \in InFlight : f.kind = "wait" /\ f.task = p

-----------------------------------------------------------------------------
(* The transfer calls.                                                     *)

NewFlight(p, kind, lo, hi) ==
    [kind |-> kind, task |-> p, gone |-> FALSE, lo |-> lo, hi |-> hi,
     mem |-> ToDma(lo, hi).mem]

Places == UNION {{<<c, i>> : i \in DOMAIN queue[c]} : c \in Chans}
Room(n) == Cardinality(Places) + n <= MaxFlights

MayCall(p) == p \in opened /\ ~Busy(p)

(* axidma_read_transfer and axidma_write_transfer.  A range of no buffer   *)
(* is refused, and nothing changes; a transfer that cannot be prepared     *)
(* terminates its channel (stop_dma).                                      *)
OneWay(p, c, lo, hi, wait) ==
    /\ MayCall(p) /\ Room(1)
    /\ lo < hi
    /\ ToDma(lo, hi) # NoAddress
    /\ \/ queue' = [queue EXCEPT ![c] =
                      Append(@, NewFlight(p, IF wait THEN "wait" ELSE "async", lo, hi))]
       \/ queue' = [queue EXCEPT ![c] = <<>>]
    /\ UNCHANGED vars

(* axidma_rw_transfer.  Both ranges are translated first.  The transmit    *)
(* leg is never waited for; when the receive leg cannot be prepared it     *)
(* stays submitted, the receive channel is terminated and the call fails.  *)
TwoWay(p, tx, rx, tlo, thi, rlo, rhi, wait) ==
    /\ MayCall(p) /\ tx # rx /\ Room(2)
    /\ tlo < thi /\ rlo < rhi
    /\ ToDma(tlo, thi) # NoAddress
    /\ ToDma(rlo, rhi) # NoAddress
    /\ \/ queue' = [queue EXCEPT
              ![tx] = Append(@, NewFlight(p, "leg", tlo, thi)),
              ![rx] = Append(@, NewFlight(p, IF wait THEN "wait" ELSE "async", rlo, rhi))]
       \/ queue' = [queue EXCEPT
              ![tx] = Append(@, NewFlight(p, "stranded", tlo, thi)),
              ![rx] = <<>>]
       \/ queue' = [queue EXCEPT ![tx] = <<>>]
    /\ UNCHANGED vars

(* axidma_video_transfer: one frame is enough here.                        *)
Video(p, c, lo, hi) ==
    /\ MayCall(p) /\ Room(1)
    /\ lo < hi
    /\ ToDma(lo, hi) # NoAddress
    /\ \/ queue' = [queue EXCEPT ![c] = Append(@, NewFlight(p, "video", lo, hi))]
       \/ queue' = [queue EXCEPT ![c] = <<>>]
    /\ UNCHANGED vars

(* A channel works in order.  A video transfer starts over again, and what *)
(* is stranded waits for the next call on the channel to issue it.         *)
Complete(c) ==
    /\ queue[c] # <<>>
    /\ Head(queue[c]).kind # "video"
    /\ Head(queue[c]).kind = "stranded" =>
          \E i \in DOMAIN queue[c] : queue[c][i].kind # "stranded"
    /\ queue' = [queue EXCEPT ![c] = Tail(@)]
    /\ UNCHANGED vars

(* The wait for a completion on c times out: the whole channel is          *)
(* terminated, but no other.                                               *)
Timeout(c) ==
    /\ \E i \in DOMAIN queue[c] : queue[c][i].kind = "wait"
    /\ queue' = [queue EXCEPT ![c] = <<>>]
    /\ UNCHANGED vars

(* axidma_stop_channel.                                                    *)
Stop(p, c) ==
    /\ MayCall(p)
    /\ queue' = [queue EXCEPT ![c] = <<>>]
    /\ UNCHANGED vars

-----------------------------------------------------------------------------
(* The calls on buffers.                                                   *)

(* What a careful client keeps mapped: the buffers of the transfers it     *)
(* knows to be running.  It is told of no leg and of nothing stranded.     *)
Known(f) == f.kind \in {"async", "video"}

Free(p, lo, hi) ==
    /\ ~Busy(p)
    /\ Careful => \A f \in InFlight :
                     f.task = p /\ ~f.gone /\ Known(f) => ~Overlaps(f, lo, hi)
    /\ Munmap(p, lo, hi)
    /\ UNCHANGED queue

(* The process ends.  Its channels are not stopped.                        *)
End(p) ==
    /\ ~Busy(p)
    /\ Exit(p)
    /\ queue' = [c \in Chans |->
          [i \in DOMAIN queue[c] |->
             IF queue[c][i].task = p THEN [queue[c][i] EXCEPT !.gone = TRUE]
                                     ELSE queue[c][i]]]

BufferCall(p) ==
    /\ ~Busy(p)
    /\ \/ \E root, excl \in BOOLEAN : Open(p, root, excl)
       \/ Close(p)
       \/ \E lo, hi \in Addr : Mmap(p, lo, hi)
       \/ \E b \in Bufs, lo \in Addr : MapOther(p, b, lo)
       \/ \E m \in imports : Register(p, m)
       \/ \E a \in Addr : Unregister(p, a)
    /\ UNCHANGED queue

-----------------------------------------------------------------------------
TransferCall(p) ==
    \E c \in Chans, lo, hi \in Addr, wait \in BOOLEAN :
        \/ OneWay(p, c, lo, hi, wait)
        \/ Video(p, c, lo, hi)
        \/ \E rx \in Chans, rlo, rhi \in Addr : TwoWay(p, c, rx, lo, hi, rlo, rhi, wait)

UseNext ==
    \/ \E p \in Procs :
          \/ BufferCall(p)
          \/ TransferCall(p)
          \/ End(p)
          \/ \E c \in Chans : Stop(p, c)
          \/ \E lo, hi \in Addr : Free(p, lo, hi)
    \/ \E c \in Chans : Complete(c) \/ Timeout(c)

UseSpec == UseInit /\ [][UseNext]_useVars

-----------------------------------------------------------------------------
(* Properties.                                                             *)

(* The memory a transfer was given is still held for it.                   *)
Live(f) ==
    \/ f.mem[1] = "own" /\ f.mem[2] \in memory
    \/ f.mem[1] = "imported" /\ held[f.mem[2]]["map"] > 0

(* With one process, that keeps the buffers of the transfers it knows of   *)
(* mapped, the hardware never works on memory that was given back, except  *)
(* for what the client cannot wait for: the transmit leg of a read-write   *)
(* call that has returned (axidma_dma.c:506, 545), the leg stranded by one *)
(* that failed (axidma_dma.c:535), and what still runs when its process    *)
(* ended (axidma_chrdev.c:206-222, 249-253).  A call that waits is covered *)
(* by itself: it ends, or its channel is terminated, before the process    *)
(* can unmap anything or end.  Imported memory is never given back at all. *)
TransfersMeetMemory ==
    \A f \in InFlight :
        \/ Live(f)
        \/ f.kind \in {"leg", "stranded"} /\ f.mem[1] = "own"
        \/ f.gone /\ f.kind # "wait" /\ f.mem[1] = "own"

=============================================================================
