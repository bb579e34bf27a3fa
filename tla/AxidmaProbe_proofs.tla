------------------------- MODULE AxidmaProbe_proofs -------------------------
(***************************************************************************)
(* Theorems about bring-up and removal, for every number of nodes and      *)
(* channels.                                                               *)
(***************************************************************************)
EXTENDS AxidmaProbe, TLAPS

(* The steps and the labels, by name.                                      *)
LEMMA Points ==
  /\ DOMAIN Flow = {"idle", "mask", "count", "channels", "cb_data", "parse",
                    "request", "region", "class", "device", "cdev", "lists"}
  /\ DOMAIN Labels = {"release_channels", "free_callback_data", "free_channels",
                      "free_axidma_dev", "cdev_del", "device_cleanup",
                      "class_cleanup", "free_chrdev_region", "exit_release",
                      "exit_channels", "exit_cb_data"}
<1>1. DOMAIN Flow = {"idle", "mask", "count", "channels", "cb_data", "parse",
                    "request", "region", "class", "device", "cdev", "lists"}
  BY DEF Flow
<1>2. DOMAIN Labels = {"release_channels", "free_callback_data", "free_channels",
                      "free_axidma_dev", "cdev_del", "device_cleanup",
                      "class_cleanup", "free_chrdev_region", "exit_release",
                      "exit_channels", "exit_cb_data"}
  BY DEF Labels
<1> QED
  BY <1>1, <1>2

(* What the two tables say of the points they lead to.                     *)
LEMMA NextIsTable ==
  ASSUME NEW p \in DOMAIN Flow
  PROVE  /\ p # "request" =>
              /\ Flow[p].takes \in Things \cup {"nothing"}
              /\ Flow[p].next # "cdev_del"
              /\ Flow[p].next \in {"region", "class", "device", "cdev", "lists", "bound"}
                    => p \in {"region", "class", "device", "cdev", "lists"}
              /\ p = "lists" => Flow[p].next = "bound"
         /\ Flow[p].fail \notin {"region", "class", "device", "cdev", "lists", "bound",
                                 "cdev_del"}
         /\ p = "lists" => Flow[p].fail = "cannot_fail"
<1>1. CASE p = "idle"
  <2>1. Flow["idle"] = Step("dev", "mask", "idle")
    BY DEF Flow
  <2> QED
    BY <1>1, <2>1 DEF Step, Things
<1>2. CASE p = "mask"
  <2>1. Flow["mask"] = Step("nothing", "count", "free_axidma_dev")
    BY DEF Flow
  <2> QED
    BY <1>2, <2>1 DEF Step, Things
<1>3. CASE p = "count"
  <2>1. Flow["count"] = Step("nothing", "channels", "free_axidma_dev")
    BY DEF Flow
  <2> QED
    BY <1>3, <2>1 DEF Step, Things
<1>4. CASE p = "channels"
  <2>1. Flow["channels"] = Step("channels", "cb_data", "free_axidma_dev")
    BY DEF Flow
  <2> QED
    BY <1>4, <2>1 DEF Step, Things
<1>5. CASE p = "cb_data"
  <2>1. Flow["cb_data"] = Step("cb_data", "parse", "free_channels")
    BY DEF Flow
  <2> QED
    BY <1>5, <2>1 DEF Step, Things
<1>6. CASE p = "parse"
  <2>1. Flow["parse"] = Step("nothing", "request", "free_axidma_dev")
    BY DEF Flow
  <2> QED
    BY <1>6, <2>1 DEF Step, Things
<1>7. CASE p = "request"
  <2>1. Flow["request"] = Step("channel", "region", "release_channels")
    BY DEF Flow
  <2> QED
    BY <1>7, <2>1 DEF Step, Things
<1>8. CASE p = "region"
  <2>1. Flow["region"] = Step("region", "class", "exit_release")
    BY DEF Flow
  <2> QED
    BY <1>8, <2>1 DEF Step, Things
<1>9. CASE p = "class"
  <2>1. Flow["class"] = Step("class", "device", "free_chrdev_region")
    BY DEF Flow
  <2> QED
    BY <1>9, <2>1 DEF Step, Things
<1>10. CASE p = "device"
  <2>1. Flow["device"] = Step("device", "cdev", "class_cleanup")
    BY DEF Flow
  <2> QED
    BY <1>10, <2>1 DEF Step, Things
<1>11. CASE p = "cdev"
  <2>1. Flow["cdev"] = Step("cdev", "lists", "device_cleanup")
    BY DEF Flow
  <2> QED
    BY <1>11, <2>1 DEF Step, Things
<1>12. CASE p = "lists"
  <2>1. Flow["lists"] = Step("nothing", "bound", "cannot_fail")
    BY DEF Flow
  <2> QED
    BY <1>12, <2>1 DEF Step, Things
<1> QED
  BY <1>1, <1>2, <1>3, <1>4, <1>5, <1>6, <1>7, <1>8, <1>9, <1>10, <1>11, <1>12, Points

LEMMA LabelsGoDown ==
  ASSUME NEW p \in DOMAIN Labels
  PROVE  Labels[p].next \notin {"region", "class", "device", "cdev", "lists", "bound",
                               "cdev_del"}
<1>1. CASE p = "release_channels"
  <2>1. Labels["release_channels"] = Label("requested", "free_callback_data")
    BY DEF Labels
  <2> QED
    BY <1>1, <2>1 DEF Label
<1>2. CASE p = "free_callback_data"
  <2>1. Labels["free_callback_data"] = Label("cb_data", "free_channels")
    BY DEF Labels
  <2> QED
    BY <1>2, <2>1 DEF Label
<1>3. CASE p = "free_channels"
  <2>1. Labels["free_channels"] = Label("channels", "free_axidma_dev")
    BY DEF Labels
  <2> QED
    BY <1>3, <2>1 DEF Label
<1>4. CASE p = "free_axidma_dev"
  <2>1. Labels["free_axidma_dev"] = Label("dev", "idle")
    BY DEF Labels
  <2> QED
    BY <1>4, <2>1 DEF Label
<1>5. CASE p = "cdev_del"
  <2>1. Labels["cdev_del"] = Label("cdev", "device_cleanup")
    BY DEF Labels
  <2> QED
    BY <1>5, <2>1 DEF Label
<1>6. CASE p = "device_cleanup"
  <2>1. Labels["device_cleanup"] = Label("device", "class_cleanup")
    BY DEF Labels
  <2> QED
    BY <1>6, <2>1 DEF Label
<1>7. CASE p = "class_cleanup"
  <2>1. Labels["class_cleanup"] = Label("class", "free_chrdev_region")
    BY DEF Labels
  <2> QED
    BY <1>7, <2>1 DEF Label
<1>8. CASE p = "free_chrdev_region"
  <2>1. Labels["free_chrdev_region"] = Label("region", "exit_release")
    BY DEF Labels
  <2> QED
    BY <1>8, <2>1 DEF Label
<1>9. CASE p = "exit_release"
  <2>1. Labels["exit_release"] = Label("requested", "exit_channels")
    BY DEF Labels
  <2> QED
    BY <1>9, <2>1 DEF Label
<1>10. CASE p = "exit_channels"
  <2>1. Labels["exit_channels"] = Label("channels", "exit_cb_data")
    BY DEF Labels
  <2> QED
    BY <1>10, <2>1 DEF Label
<1>11. CASE p = "exit_cb_data"
  <2>1. Labels["exit_cb_data"] = Label("cb_data", "free_axidma_dev")
    BY DEF Labels
  <2> QED
    BY <1>11, <2>1 DEF Label
<1> QED
  BY <1>1, <1>2, <1>3, <1>4, <1>5, <1>6, <1>7, <1>8, <1>9, <1>10, <1>11, Points

LEMMA InitProbe == Init => ProbeInv /\ FilesInv
<1> SUFFICES ASSUME Init PROVE ProbeInv /\ FilesInv
  OBVIOUS
<1>1. TypeOK
  <2>1. chans \in [Nodes -> 0..NumChans]
    BY ProbeConstants DEF Init
  <2>2. removing \in BOOLEAN
    BY DEF Init
  <2> QED
    BY <2>1, <2>2, Points DEF Init, TypeOK
<1>2. ASSUME NEW n \in Nodes
      PROVE  NodeOK(n)
  BY DEF Init, NodeOK, HeldOK, ChansOK, AllRequested
<1>3. FilesInv
  BY DEF Init, FilesInv
<1> QED
  BY <1>1, <1>2, <1>3 DEF ProbeInv

(* A step of one node leaves the others as they are.                       *)
LEMMA OthersStay ==
  ASSUME ProbeInv, NEW n \in Nodes, NEW m \in Nodes, m # n,
         pc'[m] = pc[m], held'[m] = held[m], chans'[m] = chans[m],
         lost'[m] = lost[m], failed'[m] = failed[m]
  PROVE  NodeOK(m)'
BY DEF ProbeInv, NodeOK, HeldOK, ChansOK

-----------------------------------------------------------------------------
(* The probe goes on.                                                      *)

LEMMA TakeStep ==
  ASSUME ProbeInv, NEW n \in Nodes, pc[n] \in DOMAIN Flow, Take(n),
         UNCHANGED <<lost, failed>>
  PROVE  /\ pc' \in [Nodes -> DOMAIN Flow \cup DOMAIN Labels \cup {"bound"}]
         /\ held' \in [Nodes -> SUBSET Things]
         /\ chans' \in [Nodes -> 0..NumChans]
         /\ NodeOK(n)'
<1>0. /\ pc \in [Nodes -> DOMAIN Flow \cup DOMAIN Labels \cup {"bound"}]
      /\ held \in [Nodes -> SUBSET Things]
      /\ chans \in [Nodes -> 0..NumChans]
      /\ HeldOK(n) /\ ChansOK(n)
      /\ pc[n] \in DOMAIN Labels \ {"free_axidma_dev"} => failed[n] # "parse"
      /\ lost[n] \subseteq {"channels", "cb_data"} \X {"parse"}
  BY DEF ProbeInv, TypeOK, NodeOK
<1> DEFINE Moved(next) == pc' = [pc EXCEPT ![n] = next]
<1>1. CASE pc[n] = "idle"
  <2>1. Flow["idle"] = Step("dev", "mask", "idle")
    BY DEF Flow
  <2>2. Moved("mask") /\ held' = [held EXCEPT ![n] = @ \cup {"dev"}] /\ UNCHANGED chans
    BY <1>1, <2>1 DEF Take, Step, Things
  <2>3. HeldOK(n)'
    BY <1>0, <1>1, <2>2 DEF HeldOK
  <2>4. ChansOK(n)'
    BY <1>0, <1>1, <2>2 DEF ChansOK, AllRequested
  <2> QED
    BY <1>0, <2>2, <2>3, <2>4, Points DEF NodeOK, Things
<1>2. CASE pc[n] = "mask"
  <2>1. Flow["mask"] = Step("nothing", "count", "free_axidma_dev")
    BY DEF Flow
  <2>2. Moved("count") /\ UNCHANGED held /\ UNCHANGED chans
    BY <1>2, <2>1 DEF Take, Step, Things
  <2>3. HeldOK(n)'
    BY <1>0, <1>2, <2>2 DEF HeldOK
  <2>4. ChansOK(n)'
    BY <1>0, <1>2, <2>2 DEF ChansOK, AllRequested
  <2> QED
    BY <1>0, <2>2, <2>3, <2>4, Points DEF NodeOK, Things
<1>3. CASE pc[n] = "count"
  <2>1. Flow["count"] = Step("nothing", "channels", "free_axidma_dev")
    BY DEF Flow
  <2>2. Moved("channels") /\ UNCHANGED held /\ UNCHANGED chans
    BY <1>3, <2>1 DEF Take, Step, Things
  <2>3. HeldOK(n)'
    BY <1>0, <1>3, <2>2 DEF HeldOK
  <2>4. ChansOK(n)'
    BY <1>0, <1>3, <2>2 DEF ChansOK, AllRequested
  <2> QED
    BY <1>0, <2>2, <2>3, <2>4, Points DEF NodeOK, Things
<1>4. CASE pc[n] = "channels"
  <2>1. Flow["channels"] = Step("channels", "cb_data", "free_axidma_dev")
    BY DEF Flow
  <2>2. Moved("cb_data") /\ held' = [held EXCEPT ![n] = @ \cup {"channels"}] /\ UNCHANGED chans
    BY <1>4, <2>1 DEF Take, Step, Things
  <2>3. HeldOK(n)'
    BY <1>0, <1>4, <2>2 DEF HeldOK
  <2>4. ChansOK(n)'
    BY <1>0, <1>4, <2>2 DEF ChansOK, AllRequested
  <2> QED
    BY <1>0, <2>2, <2>3, <2>4, Points DEF NodeOK, Things
<1>5. CASE pc[n] = "cb_data"
  <2>1. Flow["cb_data"] = Step("cb_data", "parse", "free_channels")
    BY DEF Flow
  <2>2. Moved("parse") /\ held' = [held EXCEPT ![n] = @ \cup {"cb_data"}] /\ UNCHANGED chans
    BY <1>5, <2>1 DEF Take, Step, Things
  <2>3. HeldOK(n)'
    BY <1>0, <1>5, <2>2 DEF HeldOK
  <2>4. ChansOK(n)'
    BY <1>0, <1>5, <2>2 DEF ChansOK, AllRequested
  <2> QED
    BY <1>0, <2>2, <2>3, <2>4, Points DEF NodeOK, Things
<1>6. CASE pc[n] = "parse"
  <2>1. Flow["parse"] = Step("nothing", "request", "free_axidma_dev")
    BY DEF Flow
  <2>2. Moved("request") /\ UNCHANGED held /\ UNCHANGED chans
    BY <1>6, <2>1 DEF Take, Step, Things
  <2>3. HeldOK(n)'
    BY <1>0, <1>6, <2>2 DEF HeldOK
  <2>4. ChansOK(n)'
    BY <1>0, <1>6, <2>2, ProbeConstants DEF ChansOK, AllRequested
  <2> QED
    BY <1>0, <2>2, <2>3, <2>4, Points DEF NodeOK, Things
<1>7. CASE pc[n] = "request"
  <2>1. Flow["request"] = Step("channel", "region", "release_channels")
    BY DEF Flow
  <2>2. /\ chans' = [chans EXCEPT ![n] = @ + 1]
        /\ pc' = [pc EXCEPT ![n] = IF LastChannel(n) THEN "region" ELSE @]
        /\ UNCHANGED held
    BY <1>7, <2>1 DEF Take, Step, Things
  <2>3. chans[n] \in Nat /\ chans[n] + 1 <= NumChans
    BY <1>0, <1>7, ProbeConstants DEF ChansOK
  <2>4. chans' \in [Nodes -> 0..NumChans]
    BY <1>0, <2>2, <2>3, ProbeConstants
  <2>5. HeldOK(n)'
    BY <1>0, <1>7, <2>2 DEF HeldOK
  <2>6. ChansOK(n)'
    BY <1>0, <1>7, <2>2, <2>3, ProbeConstants DEF ChansOK, AllRequested, LastChannel
  <2>7. pc' \in [Nodes -> DOMAIN Flow \cup DOMAIN Labels \cup {"bound"}]
    BY <1>0, <2>2, Points
  <2>8. (pc[n] \in DOMAIN Labels \ {"free_axidma_dev"} => failed[n] # "parse")'
    <3>1. pc'[n] \in {"region", "request"}
      BY <1>0, <1>7, <2>2
    <3> QED
      BY <3>1, Points
  <2>9. (lost[n] \subseteq {"channels", "cb_data"} \X {"parse"})'
    BY <1>0
  <2>10. NodeOK(n)'
    BY <2>5, <2>6, <2>8, <2>9 DEF NodeOK
  <2> QED
    BY <1>0, <2>2, <2>4, <2>7, <2>10
<1>8. CASE pc[n] = "region"
  <2>1. Flow["region"] = Step("region", "class", "exit_release")
    BY DEF Flow
  <2>2. Moved("class") /\ held' = [held EXCEPT ![n] = @ \cup {"region"}] /\ UNCHANGED chans
    BY <1>8, <2>1 DEF Take, Step, Things
  <2>3. HeldOK(n)'
    BY <1>0, <1>8, <2>2 DEF HeldOK
  <2>4. ChansOK(n)'
    BY <1>0, <1>8, <2>2 DEF ChansOK, AllRequested
  <2> QED
    BY <1>0, <2>2, <2>3, <2>4, Points DEF NodeOK, Things
<1>9. CASE pc[n] = "class"
  <2>1. Flow["class"] = Step("class", "device", "free_chrdev_region")
    BY DEF Flow
  <2>2. Moved("device") /\ held' = [held EXCEPT ![n] = @ \cup {"class"}] /\ UNCHANGED chans
    BY <1>9, <2>1 DEF Take, Step, Things
  <2>3. HeldOK(n)'
    BY <1>0, <1>9, <2>2 DEF HeldOK
  <2>4. ChansOK(n)'
    BY <1>0, <1>9, <2>2 DEF ChansOK, AllRequested
  <2> QED
    BY <1>0, <2>2, <2>3, <2>4, Points DEF NodeOK, Things
<1>10. CASE pc[n] = "device"
  <2>1. Flow["device"] = Step("device", "cdev", "class_cleanup")
    BY DEF Flow
  <2>2. Moved("cdev") /\ held' = [held EXCEPT ![n] = @ \cup {"device"}] /\ UNCHANGED chans
    BY <1>10, <2>1 DEF Take, Step, Things
  <2>3. HeldOK(n)'
    BY <1>0, <1>10, <2>2 DEF HeldOK
  <2>4. ChansOK(n)'
    BY <1>0, <1>10, <2>2 DEF ChansOK, AllRequested
  <2> QED
    BY <1>0, <2>2, <2>3, <2>4, Points DEF NodeOK, Things
<1>11. CASE pc[n] = "cdev"
  <2>1. Flow["cdev"] = Step("cdev", "lists", "device_cleanup")
    BY DEF Flow
  <2>2. Moved("lists") /\ held' = [held EXCEPT ![n] = @ \cup {"cdev"}] /\ UNCHANGED chans
    BY <1>11, <2>1 DEF Take, Step, Things
  <2>3. HeldOK(n)'
    BY <1>0, <1>11, <2>2 DEF HeldOK
  <2>4. ChansOK(n)'
    BY <1>0, <1>11, <2>2 DEF ChansOK, AllRequested
  <2> QED
    BY <1>0, <2>2, <2>3, <2>4, Points DEF NodeOK, Things
<1>12. CASE pc[n] = "lists"
  <2>1. Flow["lists"] = Step("nothing", "bound", "cannot_fail")
    BY DEF Flow
  <2>2. Moved("bound") /\ UNCHANGED held /\ UNCHANGED chans
    BY <1>12, <2>1 DEF Take, Step, Things
  <2>3. HeldOK(n)'
    BY <1>0, <1>12, <2>2 DEF HeldOK
  <2>4. ChansOK(n)'
    BY <1>0, <1>12, <2>2 DEF ChansOK, AllRequested
  <2> QED
    BY <1>0, <2>2, <2>3, <2>4, Points DEF NodeOK, Things
<1> QED
  BY <1>1, <1>2, <1>3, <1>4, <1>5, <1>6, <1>7, <1>8, <1>9, <1>10, <1>11, <1>12, Points

LEMMA SucceedStep ==
  ASSUME ProbeInv, NEW n \in Nodes, Succeed(n)
  PROVE  ProbeInv'
<1>1. /\ pc[n] \in DOMAIN Flow
      /\ Take(n)
      /\ UNCHANGED <<lost, failed, files, removing>>
      /\ axidma_dev' \in Nodes \cup {NULL}
  BY DEF Succeed, ProbeInv, TypeOK
<1>2. TypeOK'
  BY <1>1, TakeStep DEF ProbeInv, TypeOK
<1>3. \A m \in Nodes : m # n => NodeOK(m)'
  BY <1>1, OthersStay DEF Take, ProbeInv, TypeOK
<1> QED
  BY <1>1, <1>2, <1>3, TakeStep DEF ProbeInv

(* A step fails.                                                           *)
LEMMA FailStep ==
  ASSUME ProbeInv, NEW n \in Nodes, Fail(n)
  PROVE  ProbeInv'
<1>0. /\ pc \in [Nodes -> DOMAIN Flow \cup DOMAIN Labels \cup {"bound"}]
      /\ failed \in [Nodes -> DOMAIN Flow \cup {"nothing"}]
      /\ HeldOK(n) /\ ChansOK(n)
      /\ pc[n] \in DOMAIN Labels \ {"free_axidma_dev"} => failed[n] # "parse"
      /\ lost[n] \subseteq {"channels", "cb_data"} \X {"parse"}
  BY DEF ProbeInv, TypeOK, NodeOK
<1>1. /\ pc[n] \in DOMAIN Flow
      /\ OnFail(n) # "cannot_fail"
      /\ failed' = [failed EXCEPT ![n] = pc[n]]
      /\ pc' = [pc EXCEPT ![n] = OnFail(n)]
      /\ UNCHANGED <<held, chans, lost, axidma_dev, files, removing>>
  BY DEF Fail
<1> DEFINE Goal == OnFail(n) \in DOMAIN Labels \cup {"idle"} /\ HeldOK(n)' /\ ChansOK(n)'
                   /\ (pc[n] \in DOMAIN Labels \ {"free_axidma_dev"} => failed[n] # "parse")'
<1>2. ASSUME pc[n] = "idle"
     PROVE  Goal
  <2>1. OnFail(n) = "idle"
    <3>1. Flow["idle"] = Step("dev", "mask", "idle")
      BY DEF Flow
    <3> QED
      BY <1>2, <3>1 DEF OnFail, Step
  <2>2. HeldOK(n)'
    BY <1>0, <1>1, <1>2, <2>1 DEF HeldOK
  <2>3. ChansOK(n)'
    BY <1>0, <1>1, <1>2, <2>1 DEF ChansOK, AllRequested
  <2> QED
    BY <1>0, <1>1, <1>2, <2>1, <2>2, <2>3, Points
<1>3. ASSUME pc[n] = "mask"
     PROVE  Goal
  <2>1. OnFail(n) = "free_axidma_dev"
    <3>1. Flow["mask"] = Step("nothing", "count", "free_axidma_dev")
      BY DEF Flow
    <3> QED
      BY <1>3, <3>1 DEF OnFail, Step
  <2>2. HeldOK(n)'
    BY <1>0, <1>1, <1>3, <2>1 DEF HeldOK
  <2>3. ChansOK(n)'
    BY <1>0, <1>1, <1>3, <2>1 DEF ChansOK, AllRequested
  <2> QED
    BY <1>0, <1>1, <1>3, <2>1, <2>2, <2>3, Points
<1>4. ASSUME pc[n] = "count"
     PROVE  Goal
  <2>1. OnFail(n) = "free_axidma_dev"
    <3>1. Flow["count"] = Step("nothing", "channels", "free_axidma_dev")
      BY DEF Flow
    <3> QED
      BY <1>4, <3>1 DEF OnFail, Step
  <2>2. HeldOK(n)'
    BY <1>0, <1>1, <1>4, <2>1 DEF HeldOK
  <2>3. ChansOK(n)'
    BY <1>0, <1>1, <1>4, <2>1 DEF ChansOK, AllRequested
  <2> QED
    BY <1>0, <1>1, <1>4, <2>1, <2>2, <2>3, Points
<1>5. ASSUME pc[n] = "channels"
     PROVE  Goal
  <2>1. OnFail(n) = "free_axidma_dev"
    <3>1. Flow["channels"] = Step("channels", "cb_data", "free_axidma_dev")
      BY DEF Flow
    <3> QED
      BY <1>5, <3>1 DEF OnFail, Step
  <2>2. HeldOK(n)'
    BY <1>0, <1>1, <1>5, <2>1 DEF HeldOK
  <2>3. ChansOK(n)'
    BY <1>0, <1>1, <1>5, <2>1 DEF ChansOK, AllRequested
  <2> QED
    BY <1>0, <1>1, <1>5, <2>1, <2>2, <2>3, Points
<1>6. ASSUME pc[n] = "cb_data"
     PROVE  Goal
  <2>1. OnFail(n) = "free_channels"
    <3>1. Flow["cb_data"] = Step("cb_data", "parse", "free_channels")
      BY DEF Flow
    <3> QED
      BY <1>6, <3>1 DEF OnFail, Step
  <2>2. HeldOK(n)'
    BY <1>0, <1>1, <1>6, <2>1 DEF HeldOK
  <2>3. ChansOK(n)'
    BY <1>0, <1>1, <1>6, <2>1 DEF ChansOK, AllRequested
  <2> QED
    BY <1>0, <1>1, <1>6, <2>1, <2>2, <2>3, Points
<1>7. ASSUME pc[n] = "parse"
     PROVE  Goal
  <2>1. OnFail(n) = "free_axidma_dev"
    <3>1. Flow["parse"] = Step("nothing", "request", "free_axidma_dev")
      BY DEF Flow
    <3> QED
      BY <1>7, <3>1 DEF OnFail, Step
  <2>2. HeldOK(n)'
    BY <1>0, <1>1, <1>7, <2>1 DEF HeldOK
  <2>3. ChansOK(n)'
    BY <1>0, <1>1, <1>7, <2>1 DEF ChansOK, AllRequested
  <2> QED
    BY <1>0, <1>1, <1>7, <2>1, <2>2, <2>3, Points
<1>8. ASSUME pc[n] = "request"
     PROVE  Goal
  <2>1. OnFail(n) = "release_channels"
    <3>1. Flow["request"] = Step("channel", "region", "release_channels")
      BY DEF Flow
    <3> QED
      BY <1>8, <3>1 DEF OnFail, Step
  <2>2. HeldOK(n)'
    BY <1>0, <1>1, <1>8, <2>1 DEF HeldOK
  <2>3. ChansOK(n)'
    BY <1>0, <1>1, <1>8, <2>1 DEF ChansOK, AllRequested
  <2> QED
    BY <1>0, <1>1, <1>8, <2>1, <2>2, <2>3, Points
<1>9. ASSUME pc[n] = "region"
     PROVE  Goal
  <2>1. OnFail(n) = "exit_release"
    <3>1. Flow["region"] = Step("region", "class", "exit_release")
      BY DEF Flow
    <3> QED
      BY <1>9, <3>1 DEF OnFail, Step
  <2>2. HeldOK(n)'
    BY <1>0, <1>1, <1>9, <2>1 DEF HeldOK
  <2>3. ChansOK(n)'
    BY <1>0, <1>1, <1>9, <2>1 DEF ChansOK, AllRequested
  <2> QED
    BY <1>0, <1>1, <1>9, <2>1, <2>2, <2>3, Points
<1>10. ASSUME pc[n] = "class"
     PROVE  Goal
  <2>1. OnFail(n) = "free_chrdev_region"
    <3>1. Flow["class"] = Step("class", "device", "free_chrdev_region")
      BY DEF Flow
    <3> QED
      BY <1>10, <3>1 DEF OnFail, Step
  <2>2. HeldOK(n)'
    BY <1>0, <1>1, <1>10, <2>1 DEF HeldOK
  <2>3. ChansOK(n)'
    BY <1>0, <1>1, <1>10, <2>1 DEF ChansOK, AllRequested
  <2> QED
    BY <1>0, <1>1, <1>10, <2>1, <2>2, <2>3, Points
<1>11. ASSUME pc[n] = "device"
     PROVE  Goal
  <2>1. OnFail(n) = "class_cleanup"
    <3>1. Flow["device"] = Step("device", "cdev", "class_cleanup")
      BY DEF Flow
    <3> QED
      BY <1>11, <3>1 DEF OnFail, Step
  <2>2. HeldOK(n)'
    BY <1>0, <1>1, <1>11, <2>1 DEF HeldOK
  <2>3. ChansOK(n)'
    BY <1>0, <1>1, <1>11, <2>1 DEF ChansOK, AllRequested
  <2> QED
    BY <1>0, <1>1, <1>11, <2>1, <2>2, <2>3, Points
<1>12. ASSUME pc[n] = "cdev"
     PROVE  Goal
  <2>1. OnFail(n) = "device_cleanup"
    <3>1. Flow["cdev"] = Step("cdev", "lists", "device_cleanup")
      BY DEF Flow
    <3> QED
      BY <1>12, <3>1 DEF OnFail, Step
  <2>2. HeldOK(n)'
    BY <1>0, <1>1, <1>12, <2>1 DEF HeldOK
  <2>3. ChansOK(n)'
    BY <1>0, <1>1, <1>12, <2>1 DEF ChansOK, AllRequested
  <2> QED
    BY <1>0, <1>1, <1>12, <2>1, <2>2, <2>3, Points
<1>13. ASSUME pc[n] = "lists"
     PROVE  Goal
  <2>1. OnFail(n) = "cannot_fail"
    <3>1. Flow["lists"] = Step("nothing", "bound", "cannot_fail")
      BY DEF Flow
    <3> QED
      BY <1>13, <3>1 DEF OnFail, Step
  <2> QED
    BY <1>1, <2>1
<1> HIDE DEF Goal
<1>14. Goal
  BY <1>1, <1>2, <1>3, <1>4, <1>5, <1>6, <1>7, <1>8, <1>9, <1>10, <1>11, <1>12, <1>13, Points
<1>15. TypeOK'
  <2>1. pc' \in [Nodes -> DOMAIN Flow \cup DOMAIN Labels \cup {"bound"}]
    BY <1>0, <1>1, <1>14, Points DEF Goal
  <2>2. failed' \in [Nodes -> DOMAIN Flow \cup {"nothing"}]
    BY <1>0, <1>1
  <2> QED
    BY <1>1, <2>1, <2>2 DEF ProbeInv, TypeOK
<1>16. \A m \in Nodes : m # n => NodeOK(m)'
  BY <1>0, <1>1, OthersStay
<1> QED
  BY <1>0, <1>1, <1>14, <1>15, <1>16 DEF Goal, ProbeInv, NodeOK

-----------------------------------------------------------------------------
(* The labels.                                                             *)

LEMMA RollbackStep ==
  ASSUME ProbeInv, NEW n \in Nodes, Rollback(n)
  PROVE  ProbeInv'
<1>0. /\ pc \in [Nodes -> DOMAIN Flow \cup DOMAIN Labels \cup {"bound"}]
      /\ held \in [Nodes -> SUBSET Things]
      /\ chans \in [Nodes -> 0..NumChans]
      /\ lost \in [Nodes -> SUBSET (Things \X (DOMAIN Flow \cup {"nothing"}))]
      /\ failed[n] \in DOMAIN Flow \cup {"nothing"}
      /\ HeldOK(n) /\ ChansOK(n)
      /\ pc[n] \in DOMAIN Labels \ {"free_axidma_dev"} => failed[n] # "parse"
      /\ lost[n] \subseteq {"channels", "cb_data"} \X {"parse"}
  BY DEF ProbeInv, TypeOK, NodeOK
<1>1. /\ pc[n] \in DOMAIN Labels
      /\ pc' = [pc EXCEPT ![n] = Labels[@].next]
      /\ UNCHANGED <<failed, axidma_dev, files, removing>>
  BY DEF Rollback
<1> DEFINE Goal == /\ Labels[pc[n]].next \in DOMAIN Labels \cup {"idle"}
                   /\ held' \in [Nodes -> SUBSET Things]
                   /\ chans' \in [Nodes -> 0..NumChans]
                   /\ lost' \in [Nodes -> SUBSET (Things \X (DOMAIN Flow \cup {"nothing"}))]
                   /\ NodeOK(n)'
                   /\ \A m \in Nodes : m # n =>
                        /\ held'[m] = held[m] /\ chans'[m] = chans[m] /\ lost'[m] = lost[m]
<1>2. ASSUME pc[n] = "release_channels"
     PROVE  Goal
  <2>1. Labels[pc[n]].next = "free_callback_data" /\ Gives(n) = "requested"
    <3>1. Labels["release_channels"] = Label("requested", "free_callback_data")
      BY DEF Labels
    <3> QED
      BY <1>2, <3>1 DEF Gives, Label
  <2>2. chans' = [chans EXCEPT ![n] = 0] /\ UNCHANGED <<held, lost>>
    BY <2>1 DEF Rollback
  <2>3. HeldOK(n)'
    BY <1>0, <1>1, <1>2, <2>1, <2>2, Points DEF HeldOK
  <2>4. ChansOK(n)'
    BY <1>0, <1>1, <1>2, <2>1, <2>2 DEF ChansOK, AllRequested
  <2> QED
    BY <1>0, <1>1, <1>2, <2>1, <2>2, <2>3, <2>4, Points, ProbeConstants DEF NodeOK
<1>3. ASSUME pc[n] = "free_callback_data"
     PROVE  Goal
  <2>1. Labels[pc[n]].next = "free_channels" /\ Gives(n) = "cb_data"
    <3>1. Labels["free_callback_data"] = Label("cb_data", "free_channels")
      BY DEF Labels
    <3> QED
      BY <1>3, <3>1 DEF Gives, Label
  <2>2. held' = [held EXCEPT ![n] = @ \ {"cb_data"}] /\ UNCHANGED <<chans, lost>>
    BY <2>1 DEF Rollback
  <2>3. HeldOK(n)'
    BY <1>0, <1>1, <1>3, <2>1, <2>2, Points DEF HeldOK
  <2>4. ChansOK(n)'
    BY <1>0, <1>1, <1>3, <2>1, <2>2 DEF ChansOK, AllRequested
  <2> QED
    BY <1>0, <1>1, <1>3, <2>1, <2>2, <2>3, <2>4, Points, ProbeConstants DEF NodeOK
<1>4. ASSUME pc[n] = "free_channels"
     PROVE  Goal
  <2>1. Labels[pc[n]].next = "free_axidma_dev" /\ Gives(n) = "channels"
    <3>1. Labels["free_channels"] = Label("channels", "free_axidma_dev")
      BY DEF Labels
    <3> QED
      BY <1>4, <3>1 DEF Gives, Label
  <2>2. held' = [held EXCEPT ![n] = @ \ {"channels"}] /\ UNCHANGED <<chans, lost>>
    BY <2>1 DEF Rollback
  <2>3. HeldOK(n)'
    BY <1>0, <1>1, <1>4, <2>1, <2>2, Points DEF HeldOK
  <2>4. ChansOK(n)'
    BY <1>0, <1>1, <1>4, <2>1, <2>2 DEF ChansOK, AllRequested
  <2> QED
    BY <1>0, <1>1, <1>4, <2>1, <2>2, <2>3, <2>4, Points, ProbeConstants DEF NodeOK
<1>5. ASSUME pc[n] = "free_axidma_dev"
     PROVE  Goal
  <2>1. Labels[pc[n]].next = "idle" /\ Gives(n) = "dev"
    <3>1. Labels["free_axidma_dev"] = Label("dev", "idle")
      BY DEF Labels
    <3> QED
      BY <1>5, <3>1 DEF Gives, Label
  <2>2. /\ held' = [held EXCEPT ![n] = {}]
        /\ lost' = [lost EXCEPT ![n] = @ \cup ((held[n] \ {"dev"}) \X {failed[n]})]
        /\ UNCHANGED chans
    BY <2>1 DEF Rollback
  <2>3. (held[n] \ {"dev"}) \X {failed[n]} \subseteq {"channels", "cb_data"} \X {"parse"}
    <3>1. held[n] \ {"dev"} \subseteq {"channels", "cb_data"}
      BY <1>0, <1>5 DEF HeldOK, Things
    <3>2. failed[n] # "parse" => held[n] \ {"dev"} = {}
      BY <1>0, <1>5, <3>1 DEF HeldOK
    <3> QED
      BY <3>1, <3>2
  <2>4. lost'[n] \subseteq {"channels", "cb_data"} \X {"parse"}
    BY <1>0, <2>2, <2>3
  <2>5. lost' \in [Nodes -> SUBSET (Things \X (DOMAIN Flow \cup {"nothing"}))]
    <3>1. {"channels", "cb_data"} \X {"parse"} \subseteq Things \X (DOMAIN Flow \cup {"nothing"})
      BY Points DEF Things
    <3> QED
      BY <1>0, <2>2, <2>4, <3>1
  <2>6. HeldOK(n)'
    BY <1>0, <1>1, <1>5, <2>1, <2>2, Points DEF HeldOK
  <2>7. ChansOK(n)'
    BY <1>0, <1>1, <1>5, <2>1, <2>2 DEF ChansOK, AllRequested
  <2>8. (pc[n] \in DOMAIN Labels \ {"free_axidma_dev"} => failed[n] # "parse")'
    BY <1>0, <1>1, <2>1, Points
  <2>9. NodeOK(n)'
    BY <2>4, <2>6, <2>7, <2>8 DEF NodeOK
  <2>10. held' \in [Nodes -> SUBSET Things]
    BY <1>0, <2>2
  <2> QED
    BY <1>0, <2>1, <2>2, <2>5, <2>9, <2>10, Points
<1>6. ASSUME pc[n] = "cdev_del"
     PROVE  Goal
  <2>1. Labels[pc[n]].next = "device_cleanup" /\ Gives(n) = "cdev"
    <3>1. Labels["cdev_del"] = Label("cdev", "device_cleanup")
      BY DEF Labels
    <3> QED
      BY <1>6, <3>1 DEF Gives, Label
  <2>2. held' = [held EXCEPT ![n] = @ \ {"cdev"}] /\ UNCHANGED <<chans, lost>>
    BY <2>1 DEF Rollback
  <2>3. HeldOK(n)'
    BY <1>0, <1>1, <1>6, <2>1, <2>2, Points DEF HeldOK
  <2>4. ChansOK(n)'
    BY <1>0, <1>1, <1>6, <2>1, <2>2 DEF ChansOK, AllRequested
  <2> QED
    BY <1>0, <1>1, <1>6, <2>1, <2>2, <2>3, <2>4, Points, ProbeConstants DEF NodeOK
<1>7. ASSUME pc[n] = "device_cleanup"
     PROVE  Goal
  <2>1. Labels[pc[n]].next = "class_cleanup" /\ Gives(n) = "device"
    <3>1. Labels["device_cleanup"] = Label("device", "class_cleanup")
      BY DEF Labels
    <3> QED
      BY <1>7, <3>1 DEF Gives, Label
  <2>2. held' = [held EXCEPT ![n] = @ \ {"device"}] /\ UNCHANGED <<chans, lost>>
    BY <2>1 DEF Rollback
  <2>3. HeldOK(n)'
    BY <1>0, <1>1, <1>7, <2>1, <2>2, Points DEF HeldOK
  <2>4. ChansOK(n)'
    BY <1>0, <1>1, <1>7, <2>1, <2>2 DEF ChansOK, AllRequested
  <2> QED
    BY <1>0, <1>1, <1>7, <2>1, <2>2, <2>3, <2>4, Points, ProbeConstants DEF NodeOK
<1>8. ASSUME pc[n] = "class_cleanup"
     PROVE  Goal
  <2>1. Labels[pc[n]].next = "free_chrdev_region" /\ Gives(n) = "class"
    <3>1. Labels["class_cleanup"] = Label("class", "free_chrdev_region")
      BY DEF Labels
    <3> QED
      BY <1>8, <3>1 DEF Gives, Label
  <2>2. held' = [held EXCEPT ![n] = @ \ {"class"}] /\ UNCHANGED <<chans, lost>>
    BY <2>1 DEF Rollback
  <2>3. HeldOK(n)'
    BY <1>0, <1>1, <1>8, <2>1, <2>2, Points DEF HeldOK
  <2>4. ChansOK(n)'
    BY <1>0, <1>1, <1>8, <2>1, <2>2 DEF ChansOK, AllRequested
  <2> QED
    BY <1>0, <1>1, <1>8, <2>1, <2>2, <2>3, <2>4, Points, ProbeConstants DEF NodeOK
<1>9. ASSUME pc[n] = "free_chrdev_region"
     PROVE  Goal
  <2>1. Labels[pc[n]].next = "exit_release" /\ Gives(n) = "region"
    <3>1. Labels["free_chrdev_region"] = Label("region", "exit_release")
      BY DEF Labels
    <3> QED
      BY <1>9, <3>1 DEF Gives, Label
  <2>2. held' = [held EXCEPT ![n] = @ \ {"region"}] /\ UNCHANGED <<chans, lost>>
    BY <2>1 DEF Rollback
  <2>3. HeldOK(n)'
    BY <1>0, <1>1, <1>9, <2>1, <2>2, Points DEF HeldOK
  <2>4. ChansOK(n)'
    BY <1>0, <1>1, <1>9, <2>1, <2>2 DEF ChansOK, AllRequested
  <2> QED
    BY <1>0, <1>1, <1>9, <2>1, <2>2, <2>3, <2>4, Points, ProbeConstants DEF NodeOK
<1>10. ASSUME pc[n] = "exit_release"
     PROVE  Goal
  <2>1. Labels[pc[n]].next = "exit_channels" /\ Gives(n) = "requested"
    <3>1. Labels["exit_release"] = Label("requested", "exit_channels")
      BY DEF Labels
    <3> QED
      BY <1>10, <3>1 DEF Gives, Label
  <2>2. chans' = [chans EXCEPT ![n] = 0] /\ UNCHANGED <<held, lost>>
    BY <2>1 DEF Rollback
  <2>3. HeldOK(n)'
    BY <1>0, <1>1, <1>10, <2>1, <2>2, Points DEF HeldOK
  <2>4. ChansOK(n)'
    BY <1>0, <1>1, <1>10, <2>1, <2>2 DEF ChansOK, AllRequested
  <2> QED
    BY <1>0, <1>1, <1>10, <2>1, <2>2, <2>3, <2>4, Points, ProbeConstants DEF NodeOK
<1>11. ASSUME pc[n] = "exit_channels"
     PROVE  Goal
  <2>1. Labels[pc[n]].next = "exit_cb_data" /\ Gives(n) = "channels"
    <3>1. Labels["exit_channels"] = Label("channels", "exit_cb_data")
      BY DEF Labels
    <3> QED
      BY <1>11, <3>1 DEF Gives, Label
  <2>2. held' = [held EXCEPT ![n] = @ \ {"channels"}] /\ UNCHANGED <<chans, lost>>
    BY <2>1 DEF Rollback
  <2>3. HeldOK(n)'
    BY <1>0, <1>1, <1>11, <2>1, <2>2, Points DEF HeldOK
  <2>4. ChansOK(n)'
    BY <1>0, <1>1, <1>11, <2>1, <2>2 DEF ChansOK, AllRequested
  <2> QED
    BY <1>0, <1>1, <1>11, <2>1, <2>2, <2>3, <2>4, Points, ProbeConstants DEF NodeOK
<1>12. ASSUME pc[n] = "exit_cb_data"
     PROVE  Goal
  <2>1. Labels[pc[n]].next = "free_axidma_dev" /\ Gives(n) = "cb_data"
    <3>1. Labels["exit_cb_data"] = Label("cb_data", "free_axidma_dev")
      BY DEF Labels
    <3> QED
      BY <1>12, <3>1 DEF Gives, Label
  <2>2. held' = [held EXCEPT ![n] = @ \ {"cb_data"}] /\ UNCHANGED <<chans, lost>>
    BY <2>1 DEF Rollback
  <2>3. HeldOK(n)'
    BY <1>0, <1>1, <1>12, <2>1, <2>2, Points DEF HeldOK
  <2>4. ChansOK(n)'
    BY <1>0, <1>1, <1>12, <2>1, <2>2 DEF ChansOK, AllRequested
  <2> QED
    BY <1>0, <1>1, <1>12, <2>1, <2>2, <2>3, <2>4, Points, ProbeConstants DEF NodeOK
<1> HIDE DEF Goal
<1>13. Goal
  BY <1>1, <1>2, <1>3, <1>4, <1>5, <1>6, <1>7, <1>8, <1>9, <1>10, <1>11, <1>12, Points
<1>14. TypeOK'
  <2>1. pc' \in [Nodes -> DOMAIN Flow \cup DOMAIN Labels \cup {"bound"}]
    BY <1>0, <1>1, <1>13, Points DEF Goal
  <2>2. /\ held' \in [Nodes -> SUBSET Things]
        /\ chans' \in [Nodes -> 0..NumChans]
        /\ lost' \in [Nodes -> SUBSET (Things \X (DOMAIN Flow \cup {"nothing"}))]
    BY <1>13 DEF Goal
  <2> QED
    BY <1>1, <2>1, <2>2 DEF ProbeInv, TypeOK
<1>15. \A m \in Nodes : m # n => NodeOK(m)'
  BY <1>0, <1>1, <1>13, OthersStay DEF Goal
<1> QED
  BY <1>13, <1>14, <1>15 DEF Goal, ProbeInv

(* The remaining steps move no resource.                                   *)
LEMMA QuietStep ==
  ASSUME ProbeInv,
         \/ \E n \in Nodes : Open(n) \/ Remove(n)
         \/ \E f \in files : Release(f)
         \/ Unload \/ Reload \/ UNCHANGED vars
  PROVE  ProbeInv'
<1>1. ASSUME NEW n \in Nodes, Remove(n)
      PROVE  ProbeInv'
  <2>0. /\ pc[n] = "bound" /\ pc' = [pc EXCEPT ![n] = "cdev_del"]
        /\ failed' = [failed EXCEPT ![n] = "nothing"]
        /\ UNCHANGED <<held, chans, lost, axidma_dev, files, removing>>
        /\ NodeOK(n) /\ pc \in [Nodes -> DOMAIN Flow \cup DOMAIN Labels \cup {"bound"}]
        /\ failed \in [Nodes -> DOMAIN Flow \cup {"nothing"}]
    BY <1>1 DEF Remove, ProbeInv, TypeOK
  <2>1. TypeOK'
    BY <2>0, Points DEF ProbeInv, TypeOK
  <2>2. HeldOK(n)' /\ ChansOK(n)'
    BY <2>0 DEF NodeOK, HeldOK, ChansOK, AllRequested
  <2>3. \A m \in Nodes : m # n => NodeOK(m)'
    BY <2>0, OthersStay
  <2> QED
    BY <2>0, <2>1, <2>2, <2>3 DEF ProbeInv, NodeOK
<1>2. CASE UNCHANGED <<pc, held, chans, lost, failed>>
  <2>1. TypeOK'
    <3>1. CASE \E n \in Nodes : Open(n)
      BY <1>2, <3>1 DEF Open, ProbeInv, TypeOK
    <3>2. CASE \E f \in files : Release(f)
      BY <1>2, <3>2 DEF Release, ProbeInv, TypeOK
    <3>3. CASE Unload
      BY <1>2, <3>3 DEF Unload, ProbeInv, TypeOK
    <3>4. CASE Reload
      BY <1>2, <3>4 DEF Reload, ProbeInv, TypeOK
    <3>5. CASE UNCHANGED vars
      BY <3>5 DEF vars, ProbeInv, TypeOK
    <3>6. ASSUME NEW n \in Nodes, Remove(n) PROVE TypeOK'
      BY <1>1, <3>6 DEF ProbeInv
    <3> QED
      BY <3>1, <3>2, <3>3, <3>4, <3>5, <3>6
  <2>2. \A n \in Nodes : NodeOK(n)'
    BY <1>2 DEF ProbeInv, NodeOK, HeldOK, ChansOK
  <2> QED
    BY <2>1, <2>2 DEF ProbeInv
<1> QED
  BY <1>1, <1>2 DEF Open, Release, Unload, Reload, vars

LEMMA ProbeStep ==
  ASSUME ProbeInv, [Next]_vars
  PROVE  ProbeInv'
BY SucceedStep, FailStep, RollbackStep, QuietStep DEF Next

LEMMA LeaksOnlyOnParseFailure == ProbeInv => OnlyParseFailureLeaks
<1> SUFFICES ASSUME ProbeInv, NEW n \in Nodes
             PROVE  /\ lost[n] \subseteq {"channels", "cb_data"} \X {"parse"}
                    /\ pc[n] = "idle" => held[n] = {} /\ chans[n] = 0
  BY DEF OnlyParseFailureLeaks
<1>1. HeldOK(n) /\ ChansOK(n) /\ held[n] \subseteq Things
  BY DEF ProbeInv, NodeOK, TypeOK
<1>2. pc[n] = "idle" => held[n] = {}
  BY <1>1 DEF HeldOK, Things
<1>3. pc[n] = "idle" => chans[n] = 0
  BY <1>1 DEF ChansOK, AllRequested
<1> QED
  BY <1>2, <1>3 DEF ProbeInv, NodeOK

LEMMA LabelsGiveOnlyHeld == ProbeInv => GivesOnlyHeld
<1> SUFFICES ASSUME ProbeInv, NEW n \in Nodes, pc[n] \in DOMAIN Labels
             PROVE  Gives(n) \in held[n] \cup {"requested"}
  BY DEF GivesOnlyHeld
<1>1. HeldOK(n)
  BY DEF ProbeInv, NodeOK
<1>2. CASE pc[n] = "release_channels"
  <2>1. Labels["release_channels"] = Label("requested", "free_callback_data")
    BY DEF Labels
  <2> QED
    BY <1>1, <1>2, <2>1 DEF HeldOK, Gives, Label
<1>3. CASE pc[n] = "free_callback_data"
  <2>1. Labels["free_callback_data"] = Label("cb_data", "free_channels")
    BY DEF Labels
  <2> QED
    BY <1>1, <1>3, <2>1 DEF HeldOK, Gives, Label
<1>4. CASE pc[n] = "free_channels"
  <2>1. Labels["free_channels"] = Label("channels", "free_axidma_dev")
    BY DEF Labels
  <2> QED
    BY <1>1, <1>4, <2>1 DEF HeldOK, Gives, Label
<1>5. CASE pc[n] = "free_axidma_dev"
  <2>1. Labels["free_axidma_dev"] = Label("dev", "idle")
    BY DEF Labels
  <2> QED
    BY <1>1, <1>5, <2>1 DEF HeldOK, Gives, Label
<1>6. CASE pc[n] = "cdev_del"
  <2>1. Labels["cdev_del"] = Label("cdev", "device_cleanup")
    BY DEF Labels
  <2> QED
    BY <1>1, <1>6, <2>1 DEF HeldOK, Gives, Label
<1>7. CASE pc[n] = "device_cleanup"
  <2>1. Labels["device_cleanup"] = Label("device", "class_cleanup")
    BY DEF Labels
  <2> QED
    BY <1>1, <1>7, <2>1 DEF HeldOK, Gives, Label
<1>8. CASE pc[n] = "class_cleanup"
  <2>1. Labels["class_cleanup"] = Label("class", "free_chrdev_region")
    BY DEF Labels
  <2> QED
    BY <1>1, <1>8, <2>1 DEF HeldOK, Gives, Label
<1>9. CASE pc[n] = "free_chrdev_region"
  <2>1. Labels["free_chrdev_region"] = Label("region", "exit_release")
    BY DEF Labels
  <2> QED
    BY <1>1, <1>9, <2>1 DEF HeldOK, Gives, Label
<1>10. CASE pc[n] = "exit_release"
  <2>1. Labels["exit_release"] = Label("requested", "exit_channels")
    BY DEF Labels
  <2> QED
    BY <1>1, <1>10, <2>1 DEF HeldOK, Gives, Label
<1>11. CASE pc[n] = "exit_channels"
  <2>1. Labels["exit_channels"] = Label("channels", "exit_cb_data")
    BY DEF Labels
  <2> QED
    BY <1>1, <1>11, <2>1 DEF HeldOK, Gives, Label
<1>12. CASE pc[n] = "exit_cb_data"
  <2>1. Labels["exit_cb_data"] = Label("cb_data", "free_axidma_dev")
    BY DEF Labels
  <2> QED
    BY <1>1, <1>12, <2>1 DEF HeldOK, Gives, Label
<1> QED
  BY <1>2, <1>3, <1>4, <1>5, <1>6, <1>7, <1>8, <1>9, <1>10, <1>11, <1>12, Points

(* For any number of nodes and channels, and whichever steps of whichever  *)
(* probes fail: nothing is leaked, except the two arrays when the device   *)
(* tree cannot be parsed (axidma_dma.c:711-714).                           *)
THEOREM OnlyParseFailureLeaksHolds == Spec => []OnlyParseFailureLeaks
BY LeaksOnlyOnParseFailure, InitProbe, ProbeStep, PTL DEF Spec

(* No goto enters the line of labels at a wrong place: each label gives    *)
(* back something that is held (axidma_dma.c:726-732, axidma_chrdev.c:     *)
(* 599-607, axi_dma.c:71-75).                                              *)
THEOREM GivesOnlyHeldHolds == Spec => []GivesOnlyHeld
BY LabelsGiveOnlyHeld, InitProbe, ProbeStep, PTL DEF Spec

-----------------------------------------------------------------------------
(* Open files, with one node.                                              *)

LEMMA FilesStep ==
  ASSUME OneNode, ProbeInv, FilesInv, [Next]_vars
  PROVE  FilesInv'
<1>0. pc \in [Nodes -> DOMAIN Flow \cup DOMAIN Labels \cup {"bound"}]
  BY DEF ProbeInv, TypeOK
<1>1. ASSUME NEW n \in Nodes, Succeed(n)
      PROVE  FilesInv'
  <2>1. /\ pc[n] \in DOMAIN Flow /\ ~removing /\ Take(n)
        /\ axidma_dev' = IF pc[n] = "request" /\ LastChannel(n) THEN n ELSE axidma_dev
        /\ UNCHANGED <<files, removing>>
        /\ \A m \in Nodes : m = n
    BY <1>1 DEF Succeed, OneNode
  <2>2. CASE pc[n] = "request"
    <3>1. Flow["request"] = Step("channel", "region", "release_channels")
      BY DEF Flow
    <3>2. pc' = [pc EXCEPT ![n] = IF LastChannel(n) THEN "region" ELSE @]
      BY <2>1, <2>2, <3>1 DEF Take, Step, Things
    <3>3. files = {}
      BY <2>1, <2>2 DEF FilesInv, ProbeInv, TypeOK
    <3> QED
      BY <1>0, <2>1, <2>2, <3>2, <3>3 DEF FilesInv
  <2>3. CASE pc[n] # "request"
    <3>1. pc' = [pc EXCEPT ![n] = Flow[pc[n]].next]
      <4>1. Flow[pc[n]].takes \in Things \cup {"nothing"}
        BY <2>1, <2>3, NextIsTable
      <4>2. Flow[pc[n]].takes # "channel"
        BY <4>1 DEF Things
      <4> QED
        BY <2>1, <4>2 DEF Take
    <3>2. axidma_dev' = axidma_dev
      BY <2>1, <2>3
    <3>3. /\ Flow[pc[n]].next # "cdev_del"
          /\ Flow[pc[n]].next \in {"region", "class", "device", "cdev", "lists", "bound"}
                => pc[n] \in {"region", "class", "device", "cdev", "lists"}
          /\ pc[n] = "lists" => Flow[pc[n]].next = "bound"
      BY <2>1, <2>3, NextIsTable
    <3>4. pc[n] # "bound" /\ pc'[n] = Flow[pc[n]].next
      BY <1>0, <2>1, <3>1, Points
    <3>5. ASSUME NEW f \in files
          PROVE  pc'[f.node] = "bound" /\ f.private_data = f.node /\ ~removing
      <4>1. f.node = n /\ pc[f.node] \in {"lists", "bound"} /\ f.private_data = f.node
        BY <2>1 DEF FilesInv, ProbeInv, TypeOK
      <4> QED
        BY <2>1, <3>3, <3>4, <4>1
    <3>6. pc'[n] \in {"region", "class", "device", "cdev", "lists", "bound"} => axidma_dev = n
      BY <3>3, <3>4 DEF FilesInv
    <3> QED
      BY <2>1, <3>2, <3>3, <3>4, <3>5, <3>6 DEF FilesInv
  <2> QED
    BY <2>2, <2>3
<1>2. ASSUME NEW n \in Nodes, Fail(n)
      PROVE  FilesInv'
  <2>1. /\ pc' = [pc EXCEPT ![n] = OnFail(n)]
        /\ pc[n] \in DOMAIN Flow /\ OnFail(n) # "cannot_fail"
        /\ UNCHANGED <<axidma_dev, files, removing>>
        /\ \A m \in Nodes : m = n
    BY <1>2 DEF Fail, OneNode
  <2>2. OnFail(n) \notin {"region", "class", "device", "cdev", "lists", "bound", "cdev_del"}
        /\ pc[n] # "lists"
    BY <2>1, NextIsTable DEF OnFail
  <2>3. files = {}
    BY <2>1, <2>2, Points DEF FilesInv, ProbeInv, TypeOK
  <2> QED
    BY <1>0, <2>1, <2>2, <2>3 DEF FilesInv
<1>3. ASSUME NEW n \in Nodes, Rollback(n)
      PROVE  FilesInv'
  <2>1. /\ pc[n] \in DOMAIN Labels
        /\ pc' = [pc EXCEPT ![n] = Labels[pc[n]].next]
        /\ UNCHANGED <<axidma_dev, files, removing>>
        /\ \A m \in Nodes : m = n
    BY <1>3 DEF Rollback, OneNode
  <2>2. Labels[pc[n]].next \notin {"region", "class", "device", "cdev", "lists", "bound", "cdev_del"}
    BY <2>1, LabelsGoDown
  <2>3. files = {}
    BY <2>1, Points DEF FilesInv, ProbeInv, TypeOK
  <2> QED
    BY <1>0, <2>1, <2>2, <2>3 DEF FilesInv
<1>4. ASSUME NEW n \in Nodes, Open(n)
      PROVE  FilesInv'
  <2>1. /\ "cdev" \in held[n] /\ ~removing
        /\ files' = files \cup {[node |-> n, private_data |-> axidma_dev]}
        /\ UNCHANGED <<pc, axidma_dev, removing>>
    BY <1>4 DEF Open
  <2>2. pc[n] \in {"lists", "bound"}
    BY <2>1 DEF ProbeInv, NodeOK, HeldOK, FilesInv
  <2>3. axidma_dev = n
    BY <2>2 DEF FilesInv
  <2> QED
    BY <2>1, <2>2, <2>3 DEF FilesInv
<1>5. ASSUME NEW n \in Nodes, Remove(n)
      PROVE  FilesInv'
  BY <1>0, <1>5 DEF Remove, FilesInv, OneNode
<1>6. ASSUME NEW f \in files, Release(f)
      PROVE  FilesInv'
  BY <1>6 DEF Release, FilesInv
<1>7. CASE Unload
  BY <1>7 DEF Unload, FilesInv
<1>8. CASE Reload
  BY <1>8 DEF Reload, FilesInv
<1>9. CASE UNCHANGED vars
  BY <1>9 DEF vars, FilesInv
<1> QED
  BY <1>1, <1>2, <1>3, <1>4, <1>5, <1>6, <1>7, <1>8, <1>9 DEF Next

(* With one node, whatever fails and however often the module is loaded,   *)
(* every open file's private data is a live device with all its channels   *)
(* (axidma_chrdev.c:233-247).                                              *)
THEOREM OpenFileIsValid ==
  ASSUME OneNode
  PROVE  Spec => []OpenFileValid
<1>1. ProbeInv /\ FilesInv => OpenFileValid
  <2> SUFFICES ASSUME ProbeInv, FilesInv, NEW f \in files
               PROVE  /\ f.private_data \in Nodes
                      /\ {"dev", "channels", "cb_data"} \subseteq held[f.private_data]
                      /\ chans[f.private_data] = NumChans
    BY DEF OpenFileValid
  <2>1. f.private_data = f.node /\ f.node \in Nodes /\ pc[f.node] \in {"lists", "bound"}
    BY DEF FilesInv, ProbeInv, TypeOK
  <2>2. HeldOK(f.node) /\ ChansOK(f.node)
    BY <2>1 DEF ProbeInv, NodeOK
  <2> QED
    BY <2>1, <2>2 DEF HeldOK, ChansOK, AllRequested
<1> QED
  BY <1>1, InitProbe, ProbeStep, FilesStep, PTL DEF Spec

=============================================================================
