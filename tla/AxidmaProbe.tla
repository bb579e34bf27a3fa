----------------------------- MODULE AxidmaProbe -----------------------------
(***************************************************************************)
(* Bring-up, rollback and removal of the driver: axidma_probe and          *)
(* axidma_remove (driver/axi_dma.c), axidma_dma_init and axidma_dma_exit   *)
(* (axidma_dma.c), axidma_chrdev_init and axidma_chrdev_exit               *)
(* (axidma_chrdev.c).                                                      *)
(*                                                                         *)
(* The code is a long line of calls each of which may fail, with a goto to *)
(* the label that starts to undo what came before.  Flow is that line, and *)
(* Labels are the labels.  A client can open the device as soon as         *)
(* cdev_add has returned; axidma_open gives it the device the GLOBAL       *)
(* pointer axidma_dev has at that moment.                                  *)
(*                                                                         *)
(* Operators named Bug... are faulty versions of the operator that follows *)
(* them; no action uses them.                                              *)
(***************************************************************************)
EXTENDS Naturals

CONSTANTS
    Nodes,      \* device tree nodes "xlnx,axidma-chrdev"
    NumChans,   \* the channels each of them lists
    NULL        \* the null pointer

ASSUME ProbeConstants == NumChans \in Nat \ {0} /\ NULL \notin Nodes

VARIABLES
    pc,          \* where the probe or removal of each node is
    held,        \* what the driver holds for it
    chans,       \* how many of its channels have been requested
    lost,        \* what it held when its device structure was freed, with
                 \* the step that had failed
    failed,      \* the step its probe failed at
    axidma_dev,  \* the global pointer: whose structure it points to
    files,       \* open files: [node, private_data]
    removing     \* the module is being unloaded

vars == <<pc, held, chans, lost, failed, axidma_dev, files, removing>>

Things == {"dev", "channels", "cb_data", "region", "class", "device", "cdev"}

(* What each step takes, what follows it, and where it goes if it fails.   *)
Step(takes, next, fail) == [takes |-> takes, next |-> next, fail |-> fail]

Flow ==
    [ idle     |-> Step("dev",      "mask",     "idle"),
      mask     |-> Step("nothing",  "count",    "free_axidma_dev"),
      count    |-> Step("nothing",  "channels", "free_axidma_dev"),
      channels |-> Step("channels", "cb_data",  "free_axidma_dev"),
      cb_data  |-> Step("cb_data",  "parse",    "free_channels"),
      parse    |-> Step("nothing",  "request",  "free_axidma_dev"),
      request  |-> Step("channel",  "region",   "release_channels"),
      region   |-> Step("region",   "class",    "exit_release"),
      class    |-> Step("class",    "device",   "free_chrdev_region"),
      device   |-> Step("device",   "cdev",     "class_cleanup"),
      cdev     |-> Step("cdev",     "lists",    "device_cleanup"),
      lists    |-> Step("nothing",  "bound",    "cannot_fail") ]

(* What each label gives back, and what follows it.  The labels exit_...   *)
(* are the statements of axidma_dma_exit; cdev_del starts                  *)
(* axidma_chrdev_exit, which goes on with the labels' own statements.      *)
Label(gives, next) == [gives |-> gives, next |-> next]

Labels ==
    [ release_channels   |-> Label("requested", "free_callback_data"),
      free_callback_data |-> Label("cb_data",  "free_channels"),
      free_channels      |-> Label("channels", "free_axidma_dev"),
      free_axidma_dev    |-> Label("dev",      "idle"),
      cdev_del           |-> Label("cdev",     "device_cleanup"),
      device_cleanup     |-> Label("device",   "class_cleanup"),
      class_cleanup      |-> Label("class",    "free_chrdev_region"),
      free_chrdev_region |-> Label("region",   "exit_release"),
      exit_release       |-> Label("requested", "exit_channels"),
      exit_channels      |-> Label("channels", "exit_cb_data"),
      exit_cb_data       |-> Label("cb_data",  "free_axidma_dev") ]

TypeOK ==
    /\ pc   \in [Nodes -> DOMAIN Flow \cup DOMAIN Labels \cup {"bound"}]
    /\ held \in [Nodes -> SUBSET Things]
    /\ chans \in [Nodes -> 0..NumChans]
    /\ lost \in [Nodes -> SUBSET (Things \X (DOMAIN Flow \cup {"nothing"}))]
    /\ failed \in [Nodes -> DOMAIN Flow \cup {"nothing"}]
    /\ axidma_dev \in Nodes \cup {NULL}
    /\ files \in SUBSET [node : Nodes, private_data : Nodes \cup {NULL}]
    /\ removing \in BOOLEAN

Init ==
    /\ pc   = [n \in Nodes |-> "idle"]
    /\ held = [n \in Nodes |-> {}]
    /\ chans = [n \in Nodes |-> 0]
    /\ lost = [n \in Nodes |-> {}]
    /\ failed = [n \in Nodes |-> "nothing"]
    /\ axidma_dev = NULL
    /\ files = {}
    /\ removing = FALSE

-----------------------------------------------------------------------------
(* Probing.  The platform bus probes one device at a time.                 *)

Settled(n) == pc[n] \in {"idle", "bound"}

(* class_create refuses a name that is taken: all nodes use chrdev_name.   *)
Possible(n) == pc[n] = "class" => \A m \in Nodes : "class" \notin held[m]

BugLastChannel(n) == chans[n] = NumChans   \* fault: the loop runs once more

LastChannel(n) == chans[n] + 1 = NumChans

Take(n) ==
    LET what == Flow[pc[n]].takes
    IN \/ /\ what \in Things
          /\ held' = [held EXCEPT ![n] = @ \cup {what}]
          /\ pc' = [pc EXCEPT ![n] = Flow[@].next]
          /\ UNCHANGED chans
       \/ /\ what = "nothing"
          /\ pc' = [pc EXCEPT ![n] = Flow[@].next]
          /\ UNCHANGED <<held, chans>>
       \/ /\ what = "channel"
          /\ chans' = [chans EXCEPT ![n] = @ + 1]
          /\ pc' = [pc EXCEPT ![n] = IF LastChannel(n) THEN "region" ELSE @]
          /\ UNCHANGED held

(* A step of the probe succeeds.  The global pointer is set on entry to    *)
(* axidma_chrdev_init.                                                     *)
Succeed(n) ==
    /\ pc[n] \in DOMAIN Flow
    /\ ~removing
    /\ \A m \in Nodes \ {n} : Settled(m)
    /\ Possible(n)
    /\ Take(n)
    /\ axidma_dev' = IF pc[n] = "request" /\ LastChannel(n) THEN n ELSE axidma_dev
    /\ UNCHANGED <<lost, failed, files, removing>>

BugOnFail(n) ==                 \* fault: goto the label above the right one
    IF pc[n] = "cb_data" THEN "free_callback_data" ELSE Flow[pc[n]].fail

OnFail(n) == Flow[pc[n]].fail

(* A step of the probe fails.                                              *)
Fail(n) ==
    /\ pc[n] \in DOMAIN Flow
    /\ ~removing
    /\ \A m \in Nodes \ {n} : Settled(m)
    /\ OnFail(n) # "cannot_fail"
    /\ failed' = [failed EXCEPT ![n] = pc[n]]
    /\ pc' = [pc EXCEPT ![n] = OnFail(n)]
    /\ UNCHANGED <<held, chans, lost, axidma_dev, files, removing>>

BugGives(n) ==                  \* fault: axidma_dma_exit forgets cb_data
    IF pc[n] = "exit_cb_data" THEN "nothing" ELSE Labels[pc[n]].gives

Gives(n) == Labels[pc[n]].gives

(* One label's statement.  With the device structure go the pointers to    *)
(* whatever it still holds.                                                *)
Rollback(n) ==
    LET what == Gives(n)
    IN /\ pc[n] \in DOMAIN Labels
       /\ \/ /\ what = "requested"
             /\ chans' = [chans EXCEPT ![n] = 0]
             /\ UNCHANGED <<held, lost>>
          \/ /\ what = "dev"
             /\ held' = [held EXCEPT ![n] = {}]
             /\ lost' = [lost EXCEPT ![n] = @ \cup ((held[n] \ {"dev"}) \X {failed[n]})]
             /\ UNCHANGED chans
          \/ /\ what \notin {"dev", "requested"}
             /\ held' = [held EXCEPT ![n] = @ \ {what}]
             /\ UNCHANGED <<chans, lost>>
       /\ pc' = [pc EXCEPT ![n] = Labels[@].next]
       /\ UNCHANGED <<failed, axidma_dev, files, removing>>

-----------------------------------------------------------------------------
(* Clients and the module's end.                                           *)

BugOpenTooEarly(n) ==           \* fault: cdev_add before the device node
    /\ "region" \in held[n]
    /\ ~removing
    /\ files' = files \cup {[node |-> n, private_data |-> axidma_dev]}
    /\ UNCHANGED <<pc, held, chans, lost, failed, axidma_dev, removing>>

(* axidma_open, once cdev_add has made the device live.                    *)
Open(n) ==
    /\ "cdev" \in held[n]
    /\ ~removing
    /\ files' = files \cup {[node |-> n, private_data |-> axidma_dev]}
    /\ UNCHANGED <<pc, held, chans, lost, failed, axidma_dev, removing>>

(* axidma_release.                                                         *)
Release(f) ==
    /\ f \in files
    /\ files' = files \ {f}
    /\ UNCHANGED <<pc, held, chans, lost, failed, axidma_dev, removing>>

BugUnload ==                    \* fault: fops.owner is not set
    /\ ~removing
    /\ \A n \in Nodes : Settled(n)
    /\ removing' = TRUE
    /\ UNCHANGED <<pc, held, chans, lost, failed, axidma_dev, files>>

(* rmmod: the open files hold the module (fops.owner), so there are none;  *)
(* from here on the module cannot be opened.                               *)
Unload ==
    /\ ~removing
    /\ files = {}
    /\ \A n \in Nodes : Settled(n)
    /\ removing' = TRUE
    /\ UNCHANGED <<pc, held, chans, lost, failed, axidma_dev, files>>

(* axidma_remove of a bound device.                                        *)
Remove(n) ==
    /\ removing
    /\ pc[n] = "bound"
    /\ \A m \in Nodes \ {n} : Settled(m)
    /\ pc' = [pc EXCEPT ![n] = "cdev_del"]
    /\ failed' = [failed EXCEPT ![n] = "nothing"]
    /\ UNCHANGED <<held, chans, lost, axidma_dev, files, removing>>

(* The module is loaded again: its data starts afresh.                     *)
Reload ==
    /\ removing
    /\ \A n \in Nodes : pc[n] = "idle"
    /\ removing' = FALSE
    /\ axidma_dev' = NULL
    /\ UNCHANGED <<pc, held, chans, lost, failed, files>>

Next ==
    \/ \E n \in Nodes : Succeed(n) \/ Fail(n) \/ Rollback(n) \/ Open(n) \/ Remove(n)
    \/ \E f \in files : Release(f)
    \/ Unload \/ Reload

Spec == Init /\ [][Next]_vars

-----------------------------------------------------------------------------
(* Properties.                                                             *)

(* One node, as in README.md and the documentation of the device tree.     *)
OneNode == \A m, n \in Nodes : m = n

(* The rollback of a failed probe, and a removal, forget nothing: except   *)
(* that when the device tree cannot be parsed (axidma_dma.c:711-714) the   *)
(* two arrays allocated before are lost.                                   *)
OnlyParseFailureLeaks ==
    \A n \in Nodes :
        /\ lost[n] \subseteq {"channels", "cb_data"} \X {"parse"}
        /\ pc[n] = "idle" => held[n] = {} /\ chans[n] = 0

(* No label gives back what is not held: whatever step failed, the goto    *)
(* enters the line of labels at the right place.                           *)
GivesOnlyHeld ==
    \A n \in Nodes : pc[n] \in DOMAIN Labels =>
        Gives(n) \in held[n] \cup {"requested"}

(* axidma_chrdev.c:245, of axidma_open: "Place the axidma structure in the *)
(* private data of the file".  So the private data of every open file is   *)
(* an initialised device structure, all of whose channels the driver has   *)
(* requested.                                                              *)
OpenFileValid ==
    \A f \in files :
        /\ f.private_data \in Nodes
        /\ {"dev", "channels", "cb_data"} \subseteq held[f.private_data]
        /\ chans[f.private_data] = NumChans

-----------------------------------------------------------------------------
(* The inductive invariant.                                                *)

(* When each thing is held.                                                *)
HeldOK(n) ==
    LET parseFailed == pc[n] = "free_axidma_dev" /\ failed[n] = "parse"
    IN /\ "dev" \in held[n] <=> pc[n] # "idle"
       /\ "channels" \in held[n] <=>
             \/ parseFailed
             \/ pc[n] \notin {"idle", "mask", "count", "channels", "exit_cb_data",
                             "free_axidma_dev"}
       /\ "cb_data" \in held[n] <=>
             \/ parseFailed
             \/ pc[n] \notin {"idle", "mask", "count", "channels", "cb_data",
                             "free_channels", "free_axidma_dev"}
       /\ "region" \in held[n] <=>
             pc[n] \in {"class", "device", "cdev", "lists", "bound", "cdev_del",
                       "device_cleanup", "class_cleanup", "free_chrdev_region"}
       /\ "class" \in held[n] <=>
             pc[n] \in {"device", "cdev", "lists", "bound", "cdev_del",
                       "device_cleanup", "class_cleanup"}
       /\ "device" \in held[n] <=>
             pc[n] \in {"cdev", "lists", "bound", "cdev_del", "device_cleanup"}
       /\ "cdev" \in held[n] <=> pc[n] \in {"lists", "bound", "cdev_del"}

(* How many channels are requested.                                        *)
AllRequested == {"region", "class", "device", "cdev", "lists", "bound", "cdev_del",
                 "device_cleanup", "class_cleanup", "free_chrdev_region", "exit_release"}

ChansOK(n) ==
    /\ pc[n] \in AllRequested => chans[n] = NumChans
    /\ pc[n] = "request" => chans[n] < NumChans
    /\ pc[n] \notin AllRequested \cup {"request", "release_channels"} => chans[n] = 0

NodeOK(n) ==
    /\ HeldOK(n)
    /\ ChansOK(n)
    /\ pc[n] \in DOMAIN Labels \ {"free_axidma_dev"} => failed[n] # "parse"
    /\ lost[n] \subseteq {"channels", "cb_data"} \X {"parse"}

ProbeInv == TypeOK /\ \A n \in Nodes : NodeOK(n)

(* While a file is open its device is live and the module stays.           *)
FilesInv ==
    /\ \A n \in Nodes :
          /\ pc[n] \in {"region", "class", "device", "cdev", "lists", "bound"}
                => axidma_dev = n
          /\ pc[n] = "cdev_del" => removing
    /\ \A f \in files : /\ pc[f.node] \in {"lists", "bound"}
                         /\ f.private_data = f.node
                         /\ ~removing

=============================================================================
