----------------------------- MODULE AxidmaUnbind -----------------------------
(***************************************************************************)
(* The bring-up of AxidmaProbe with an administrator who unbinds a node    *)
(* through sysfs and binds it again (driver/axi_dma.c).                    *)
(*                                                                         *)
(* Unloading the module waits for open files, since they hold it; unbinding*)
(* does not.  axidma_remove then frees the structure that the private data *)
(* of the open files points to, and a client that opens the device while   *)
(* axidma_remove is about to delete it gets such a file as well.           *)
(***************************************************************************)
EXTENDS AxidmaProbe

VARIABLE stale   \* files whose device was, or is being, unbound under them

unbindVars == <<vars, stale>>

UnbindTypeOK ==
    /\ TypeOK
    /\ stale \in SUBSET [node : Nodes, private_data : Nodes \cup {NULL}]

UnbindInit == Init /\ stale = {}

(* axidma_remove of a bound device, open files or not.                     *)
Unbind(n) ==
    /\ ~removing
    /\ pc[n] = "bound"
    /\ \A m \in Nodes \ {n} : Settled(m)
    /\ pc' = [pc EXCEPT ![n] = "cdev_del"]
    /\ failed' = [failed EXCEPT ![n] = "nothing"]
    /\ stale' = stale \cup {f \in files : f.private_data = n}
    /\ files' = {f \in files : f.private_data # n}
    /\ UNCHANGED <<held, chans, lost, axidma_dev, removing>>

(* axidma_open before cdev_del has run.                                    *)
OpenLate(n) ==
    /\ pc[n] = "cdev_del" /\ "cdev" \in held[n]
    /\ ~removing
    /\ stale' = stale \cup {[node |-> n, private_data |-> axidma_dev]}
    /\ UNCHANGED vars

(* axidma_release: touches nothing of the device.                          *)
ReleaseStale(f) ==
    /\ f \in stale
    /\ stale' = stale \ {f}
    /\ UNCHANGED vars

UnbindNext ==
    \/ \E n \in Nodes :
          \/ Unbind(n) \/ OpenLate(n)
          \/ UNCHANGED stale /\ (Succeed(n) \/ Fail(n) \/ Rollback(n) \/ Remove(n))
          \/ UNCHANGED stale /\ pc[n] # "cdev_del" /\ Open(n)
    \/ \E f \in files : UNCHANGED stale /\ Release(f)
    \/ \E f \in stale : ReleaseStale(f)
    \/ stale = {} /\ UNCHANGED stale /\ Unload
    \/ UNCHANGED stale /\ Reload

UnbindSpec == UnbindInit /\ [][UnbindNext]_unbindVars

-----------------------------------------------------------------------------
(* Properties.                                                             *)

(* What the driver's calls take for granted of the structure a file points *)
(* to: it is held, its channels are requested and its buffer lists are     *)
(* initialised (axidma_chrdev.c:587).                                      *)
Usable(f) ==
    /\ f.private_data \in Nodes
    /\ Things \subseteq held[f.private_data]
    /\ chans[f.private_data] = NumChans
    /\ pc[f.private_data] = "bound"

(* A call on an open file meets a usable device, whatever was loaded,      *)
(* unloaded, bound and unbound, with two exceptions: the device was        *)
(* unbound while the file was open (axi_dma.c:78-97), and the moment       *)
(* between cdev_add and the initialisation of the two lists                *)
(* (axidma_chrdev.c:580-588).                                              *)
OnlyUnbindingStrandsFiles ==
    \A f \in files : Usable(f) \/ pc[f.node] = "lists"

-----------------------------------------------------------------------------
(* The inductive invariant: AxidmaProbe's, and of its FilesInv what is     *)
(* true although a device can be removed while the module stays.           *)
LiveInv ==
    /\ \A n \in Nodes :
          pc[n] \in {"region", "class", "device", "cdev", "lists", "bound"} => axidma_dev = n
    /\ \A f \in files : /\ pc[f.node] \in {"lists", "bound"}
                         /\ f.private_data = f.node
                         /\ ~removing

=============================================================================
