--------------------------- MODULE MCBringUp_proofs ---------------------------
(***************************************************************************)
(* Theorems about bring-up and removal with an administrator who unbinds   *)
(* nodes at any moment, for every number of nodes and channels; and about  *)
(* the parsing of a device tree node, for every number of entries.         *)
(***************************************************************************)
EXTENDS MCBringUp, AxidmaProbe_proofs, FiniteSetTheorems

(* What unbinding adds to AxidmaProbe is one step; a late open changes     *)
(* nothing that AxidmaProbe looks at.                                      *)
LEMMA StepOrUnbind ==
  ASSUME [UnbindNext]_unbindVars
  PROVE  [Next]_vars \/ \E n \in Nodes : Unbind(n)
<1>1. ASSUME NEW n \in Nodes, OpenLate(n) PROVE UNCHANGED vars
  BY <1>1 DEF OpenLate
<1>2. ASSUME UNCHANGED unbindVars PROVE UNCHANGED vars
  BY <1>2 DEF unbindVars
<1>3. ASSUME NEW f \in stale, ReleaseStale(f) PROVE UNCHANGED vars
  BY <1>3 DEF ReleaseStale
<1> QED
  BY <1>1, <1>2, <1>3 DEF UnbindNext, Next

LEMMA UnbindKeepsProbe ==
  ASSUME ProbeInv, NEW n \in Nodes, Unbind(n)
  PROVE  ProbeInv'
<1>1. /\ pc[n] = "bound" /\ pc' = [pc EXCEPT ![n] = "cdev_del"]
      /\ failed' = [failed EXCEPT ![n] = "nothing"]
      /\ UNCHANGED <<held, chans, lost, axidma_dev, removing>>
      /\ files' \subseteq files
      /\ NodeOK(n) /\ pc \in [Nodes -> DOMAIN Flow \cup DOMAIN Labels \cup {"bound"}]
      /\ failed \in [Nodes -> DOMAIN Flow \cup {"nothing"}]
  BY DEF Unbind, ProbeInv, TypeOK
<1>2. TypeOK'
  BY <1>1, Points DEF ProbeInv, TypeOK
<1>3. HeldOK(n)' /\ ChansOK(n)'
  BY <1>1 DEF NodeOK, HeldOK, ChansOK, AllRequested
<1>4. \A m \in Nodes : m # n => NodeOK(m)'
  BY <1>1, OthersStay
<1> QED
  BY <1>1, <1>2, <1>3, <1>4 DEF ProbeInv, NodeOK

LEMMA UnbindProbeStep ==
  ASSUME ProbeInv, [UnbindNext]_unbindVars
  PROVE  ProbeInv'
BY StepOrUnbind, ProbeStep, UnbindKeepsProbe

LEMMA UnbindInitProbe == UnbindInit => ProbeInv /\ LiveInv
BY InitProbe DEF UnbindInit, FilesInv, LiveInv

(* Whatever fails, and whatever is unloaded or unbound: nothing is leaked, *)
(* except the two arrays when the device tree cannot be parsed             *)
(* (axidma_dma.c:711-714), and no label gives back what is not held        *)
(* (axi_dma.c:40-97); for any number of nodes and channels.                *)
THEOREM UnbindingLeaksNothing == UnbindSpec => [](OnlyParseFailureLeaks /\ GivesOnlyHeld)
<1>1. ProbeInv => OnlyParseFailureLeaks /\ GivesOnlyHeld
  BY LeaksOnlyOnParseFailure, LabelsGiveOnlyHeld
<1> QED
  BY <1>1, UnbindInitProbe, UnbindProbeStep, PTL DEF UnbindSpec

-----------------------------------------------------------------------------
(* Open files, with one node.                                              *)

(* A step while the device is being unbound, and the module stays: no file *)
(* that counts is open, and only the labels go on.                         *)
LEMMA WhileUnbinding ==
  ASSUME OneNode, ProbeInv, LiveInv, [UnbindNext]_unbindVars,
         NEW n \in Nodes, pc[n] = "cdev_del", ~removing
  PROVE  LiveInv'
<1>1. files = {} /\ \A m \in Nodes : m = n
  BY DEF LiveInv, ProbeInv, TypeOK, OneNode
<1>2. pc[n] \in DOMAIN Labels /\ pc[n] \notin DOMAIN Flow
  BY Points
<1>3. CASE Rollback(n)
  <2>1. /\ pc' = [pc EXCEPT ![n] = Labels[pc[n]].next]
        /\ UNCHANGED <<axidma_dev, files, removing>>
    BY <1>3 DEF Rollback
  <2>2. Labels[pc[n]].next \notin {"region", "class", "device", "cdev", "lists", "bound"}
    BY <1>2, LabelsGoDown
  <2> QED
    BY <1>1, <2>1, <2>2 DEF LiveInv, ProbeInv, TypeOK
<1>4. CASE UNCHANGED vars
  BY <1>4 DEF vars, LiveInv
<1>5. Rollback(n) \/ UNCHANGED vars
  <2>1. ~Succeed(n) /\ ~Fail(n) /\ ~Remove(n) /\ ~Unbind(n)
    BY <1>2 DEF Succeed, Fail, Remove, Unbind
  <2>2. ~Unload /\ ~Reload
    BY DEF Unload, Reload, Settled
  <2>3. \A m \in Nodes : OpenLate(m) => UNCHANGED vars
    BY DEF OpenLate
  <2>4. \A f \in stale : ReleaseStale(f) => UNCHANGED vars
    BY DEF ReleaseStale
  <2>5. UNCHANGED unbindVars => UNCHANGED vars
    BY DEF unbindVars
  <2> QED
    BY <1>1, <2>1, <2>2, <2>3, <2>4, <2>5 DEF UnbindNext
<1> QED
  BY <1>3, <1>4, <1>5

LEMMA LiveStep ==
  ASSUME OneNode, ProbeInv, LiveInv, [UnbindNext]_unbindVars
  PROVE  LiveInv'
<1>1. ASSUME NEW n \in Nodes, pc[n] = "cdev_del", ~removing
      PROVE  LiveInv'
  BY <1>1, WhileUnbinding
<1>2. ASSUME NEW n \in Nodes, Unbind(n)
      PROVE  LiveInv'
  <2>1. /\ pc' = [pc EXCEPT ![n] = "cdev_del"]
        /\ files' = {f \in files : f.private_data # n}
        /\ UNCHANGED <<axidma_dev, removing>>
        /\ \A m \in Nodes : m = n
        /\ pc \in [Nodes -> DOMAIN Flow \cup DOMAIN Labels \cup {"bound"}]
    BY <1>2 DEF Unbind, OneNode, ProbeInv, TypeOK
  <2>2. files' = {}
    BY <2>1 DEF LiveInv, ProbeInv, TypeOK
  <2> QED
    BY <2>1, <2>2 DEF LiveInv
<1>3. CASE [Next]_vars /\ \A n \in Nodes : pc[n] = "cdev_del" => removing
  <2>1. FilesInv
    BY <1>3 DEF LiveInv, FilesInv
  <2>2. FilesInv'
    BY <1>3, <2>1, FilesStep
  <2> QED
    BY <2>2 DEF LiveInv, FilesInv
<1> QED
  BY <1>1, <1>2, <1>3, StepOrUnbind

(* With one node, a call on an open file meets a usable device, whatever   *)
(* fails and whatever is loaded, unloaded, bound and unbound; the two      *)
(* exceptions are a device that was unbound under the file                 *)
(* (axi_dma.c:78-97) and the moment before the buffer lists are            *)
(* initialised (axidma_chrdev.c:580-588).                                  *)
THEOREM OnlyUnbindingStrandsFilesHolds ==
  ASSUME OneNode
  PROVE  UnbindSpec => []OnlyUnbindingStrandsFiles
<1>1. ProbeInv /\ LiveInv => OnlyUnbindingStrandsFiles
  <2> SUFFICES ASSUME ProbeInv, LiveInv, NEW f \in files, pc[f.node] # "lists"
               PROVE  Usable(f)
    BY DEF OnlyUnbindingStrandsFiles
  <2>1. f.private_data = f.node /\ f.node \in Nodes /\ pc[f.node] = "bound"
    BY DEF LiveInv, ProbeInv, TypeOK
  <2>2. HeldOK(f.node) /\ ChansOK(f.node)
    BY <2>1 DEF ProbeInv, NodeOK
  <2> QED
    BY <2>1, <2>2 DEF Usable, Things, HeldOK, ChansOK, AllRequested
<1> QED
  BY <1>1, UnbindInitProbe, UnbindProbeStep, LiveStep, PTL DEF UnbindSpec

-----------------------------------------------------------------------------
(* Parsing.                                                                *)

LEMMA OneMore ==
  ASSUME NEW E, NEW s \in Seq(E), NEW e \in E
  PROVE  /\ Append(s, e) \in Seq(E) /\ Len(Append(s, e)) = Len(s) + 1
         /\ DOMAIN s = 1..Len(s) /\ Len(s) \in Nat
         /\ DOMAIN Append(s, e) = DOMAIN s \cup {Len(s) + 1} /\ Len(s) + 1 \notin DOMAIN s
         /\ Append(s, e)[Len(s) + 1] = e
         /\ \A i \in DOMAIN s : Append(s, e)[i] = s[i]
<1>1. /\ Append(s, e) \in Seq(E) /\ Len(Append(s, e)) = Len(s) + 1
      /\ DOMAIN s = 1..Len(s) /\ Len(s) \in Nat
      /\ DOMAIN Append(s, e) = 1..(Len(s) + 1)
      /\ Append(s, e)[Len(s) + 1] = e
  OBVIOUS
<1>2. \A i \in 1..Len(s) : Append(s, e)[i] = s[i]
  OBVIOUS
<1>3. 1..(Len(s) + 1) = (1..Len(s)) \cup {Len(s) + 1} /\ Len(s) + 1 \notin 1..Len(s)
  BY <1>1
<1> QED
  BY <1>1, <1>2, <1>3

LEMMA OneCardinality == \A S : Of!Cardinality(S) = Cardinality(S)
BY DEF Of!Cardinality, Of!IsFiniteSet, Cardinality, IsFiniteSet

(* The channels of a kind, when one more channel is entered.               *)
LEMMA OneMoreOfKind ==
  ASSUME Of!TypeOK, NEW x \in Of!Chan, o_channels' = Append(o_channels, x), NEW k
  PROVE  /\ IsFiniteSet(Of!OfKind(k)) /\ Cardinality(Of!OfKind(k)) \in Nat
         /\ Cardinality(Of!OfKind(k)') =
               Cardinality(Of!OfKind(k)) + (IF x.kind = k THEN 1 ELSE 0)
<1>1. o_channels \in Seq(Of!Chan)
  BY DEF Of!TypeOK
<1> DEFINE last == Len(o_channels) + 1
<1>2. /\ Len(o_channels) \in Nat /\ DOMAIN o_channels = 1..Len(o_channels)
      /\ DOMAIN o_channels' = DOMAIN o_channels \cup {last} /\ last \notin DOMAIN o_channels
      /\ o_channels'[last] = x
      /\ \A i \in DOMAIN o_channels : o_channels'[i] = o_channels[i]
  BY <1>1, OneMore
<1>3. IsFiniteSet(Of!OfKind(k))
  <2>1. IsFiniteSet(1..Len(o_channels))
    BY <1>2, FS_Interval
  <2>2. Of!OfKind(k) \in SUBSET (1..Len(o_channels))
    BY <1>2 DEF Of!OfKind
  <2> QED
    BY <2>1, <2>2, FS_Subset
<1>4. Of!OfKind(k)' = IF x.kind = k THEN Of!OfKind(k) \cup {last} ELSE Of!OfKind(k)
  <2>1. \A i : i \in Of!OfKind(k)' <=> i \in Of!OfKind(k) \/ (i = last /\ x.kind = k)
    BY <1>2 DEF Of!OfKind
  <2> QED
    BY <2>1
<1>5. last \notin Of!OfKind(k)
  BY <1>2 DEF Of!OfKind
<1>6. Cardinality(Of!OfKind(k)) \in Nat
  BY <1>3, FS_CardinalityType
<1>7. Cardinality(Of!OfKind(k) \cup {last}) = Cardinality(Of!OfKind(k)) + 1
  BY <1>3, <1>5, FS_AddElement
<1> QED
  BY <1>3, <1>4, <1>6, <1>7

LEMMA ParseInit == Of!Init => Of!ParseInv
<1> SUFFICES ASSUME Of!Init PROVE Of!ParseInv
  OBVIOUS
<1>1. Of!TypeOK
  BY BringUpConstants DEF Of!Init, Of!TypeOK
<1>2. Len(o_tree) = 0 /\ Len(o_channels) = 0 /\ DOMAIN o_tree = {} /\ DOMAIN o_channels = {}
  BY DEF Of!Init
<1>3. \A k : Cardinality(Of!OfKind(k)) = 0
  BY <1>2, FS_EmptySet DEF Of!OfKind
<1>4. /\ o_pc = "count" /\ o_rc = "OK" /\ o_num_chans = 0
      /\ \A k \in Of!Kinds : o_counts[k] = 0
  BY DEF Of!Init
<1>5. Of!MatchedInv
  <2>1. \A i \in DOMAIN o_tree : Of!Parsed(i)
    BY <1>2
  <2>2. \A k \in Of!Kinds : o_counts[k] = Cardinality(Of!OfKind(k))
    BY <1>3, <1>4
  <2>3. Len(o_tree) = Len(o_channels)
    BY <1>2
  <2> QED
    BY <2>1, <2>2, <2>3, OneCardinality DEF Of!MatchedInv
<1>6. \A k \in Of!Kinds : o_counts[k] <= Len(o_tree)
  BY <1>2, <1>4
<1> QED
  BY <1>1, <1>2, <1>4, <1>5, <1>6 DEF Of!ParseInv, Of!AcceptsGoodTrees, Of!Accepted

LEMMA CountStep ==
  ASSUME Of!ParseInv, Of!Count
  PROVE  Of!ParseInv'
<1>1. /\ o_pc = "count" /\ o_num_chans = 0 /\ Len(o_tree) = 0 /\ o_rc = "OK"
      /\ UNCHANGED <<o_dma_names, o_dmas, o_tree, o_channels, o_counts>>
      /\ Of!TypeOK
  <2>1. o_tree \in Seq(Of!Entry)
    BY DEF Of!ParseInv, Of!TypeOK
  <2> QED
    BY <2>1 DEF Of!Count, Of!node, Of!ParseInv
<1>2. o_dma_names.len \in -1..MaxChans
  BY DEF Of!ParseInv, Of!TypeOK, Of!Property
<1>3. Of!MatchedInv
  BY DEF Of!ParseInv
<1>4. CASE /\ o_dma_names.present /\ o_dmas.present
           /\ o_dma_names.len > 0 /\ o_dmas.len = o_dma_names.len
           /\ o_num_chans' = o_dma_names.len
           /\ o_pc' = "parse" /\ UNCHANGED o_rc
  <2>1. Of!TypeOK'
    BY <1>1, <1>2, <1>4, BringUpConstants DEF Of!TypeOK
  <2>2. Of!MatchedInv'
    BY <1>1, <1>3, <1>4 DEF Of!MatchedInv, Of!NothingWrong, Of!Parsed, Of!AllGiven, Of!OfKind
  <2>3. Len(o_tree) <= o_num_chans' /\ \A k \in Of!Kinds : o_counts[k] <= Len(o_tree)
    BY <1>1, <1>2, <1>4, BringUpConstants DEF Of!ParseInv
  <2> QED
    BY <1>1, <1>4, <2>1, <2>2, <2>3 DEF Of!ParseInv, Of!AcceptsGoodTrees, Of!Accepted
<1>5. CASE /\ \/ ~o_dma_names.present \/ ~o_dmas.present
              \/ o_dma_names.len <= 0 \/ o_dmas.len <= 0
              \/ o_dmas.len # o_dma_names.len
           /\ Of!Finish("EINVAL") /\ UNCHANGED o_num_chans
  <2>1. o_pc' = "done" /\ o_rc' = "EINVAL"
    BY <1>5 DEF Of!Finish
  <2>2. Of!TypeOK'
    BY <1>1, <1>5, <2>1 DEF Of!TypeOK
  <2>3. ~Of!GoodTree'
    <3>1. o_dmas.len \in Int /\ o_dma_names.len \in Int
      BY <1>1, BringUpConstants DEF Of!TypeOK, Of!Property
    <3> QED
      BY <1>1, <1>5, <3>1 DEF Of!GoodTree
  <2> QED
    BY <1>1, <1>5, <2>1, <2>2, <2>3
       DEF Of!ParseInv, Of!AcceptsGoodTrees, Of!Accepted, Of!MatchedInv, Of!NothingWrong
<1> QED
  BY <1>1, <1>4, <1>5 DEF Of!Count

LEMMA ParseEndStep ==
  ASSUME Of!ParseInv, Of!ParseEnd
  PROVE  Of!ParseInv'
<1>1. /\ o_pc = "parse" /\ o_pc' = "unique" /\ Len(o_channels) = o_num_chans
      /\ UNCHANGED <<o_dma_names, o_dmas, o_tree, o_rc, o_num_chans, o_channels, o_counts>>
  BY DEF Of!ParseEnd, Of!node
<1>2. Of!TypeOK'
  BY <1>1 DEF Of!ParseInv, Of!TypeOK
<1>3. Of!MatchedInv'
  BY <1>1 DEF Of!ParseInv, Of!MatchedInv, Of!NothingWrong, Of!Parsed, Of!AllGiven, Of!OfKind
<1> QED
  BY <1>1, <1>2, <1>3 DEF Of!ParseInv, Of!AcceptsGoodTrees, Of!Accepted

(* The check of the ids accepts exactly the trees without two channels of  *)
(* the same id.                                                            *)
LEMMA UniqueStep ==
  ASSUME Of!ParseInv, Of!CheckUniqueIds
  PROVE  Of!ParseInv'
<1> DEFINE Twice == \E i, j \in 1..o_num_chans : Of!SameId(i, j)
<1>1. /\ o_pc = "unique" /\ o_pc' = "done"
      /\ o_rc' = IF Twice THEN "EINVAL" ELSE "OK"
      /\ UNCHANGED <<o_dma_names, o_dmas, o_tree, o_num_chans, o_channels, o_counts>>
  BY DEF Of!CheckUniqueIds, Of!node, Of!Finish
<1>2. Of!TypeOK'
  BY <1>1 DEF Of!ParseInv, Of!TypeOK
<1>3. Of!MatchedInv'
  BY <1>1 DEF Of!ParseInv, Of!MatchedInv, Of!NothingWrong, Of!Parsed, Of!AllGiven, Of!OfKind
<1>4. /\ o_dma_names.present /\ o_dmas.present
      /\ o_dmas.len > 0 /\ o_dmas.len = o_dma_names.len
      /\ Len(o_tree) = o_dmas.len /\ o_num_chans = o_dmas.len
      /\ DOMAIN o_tree = 1..o_num_chans /\ o_num_chans \in Nat
      /\ \A i \in DOMAIN o_tree : Of!Parsed(i)
  BY <1>1 DEF Of!ParseInv, Of!MatchedInv, Of!NothingWrong, Of!TypeOK
<1>5. ~Twice <=> \A i, j \in DOMAIN o_tree : o_tree[i].child.id = o_tree[j].child.id => i = j
  <2>1. \A i, j \in DOMAIN o_tree : Of!SameId(i, j) <=>
                                       i < j /\ o_tree[i].child.id = o_tree[j].child.id
    BY <1>4 DEF Of!SameId, Of!Parsed
  <2> QED
    BY <1>4, <2>1
<1>6. Of!GoodTree' <=> ~Twice
  <2>1. \A i \in DOMAIN o_tree : Of!GoodEntry(o_tree[i])
    BY <1>4 DEF Of!Parsed
  <2> HIDE DEF Twice
  <2> QED
    BY <1>1, <1>4, <1>5, <2>1 DEF Of!GoodTree, Of!GoodEntry
<1>7. Of!AcceptsGoodTrees'
  <2> HIDE DEF Twice
  <2> QED
    BY <1>1, <1>4, <1>6 DEF Of!AcceptsGoodTrees, Of!Parsed
<1>8. Len(o_channels) = o_num_chans
  BY <1>1 DEF Of!ParseInv
<1>9. /\ Len(o_tree) <= o_num_chans
      /\ \A k \in Of!Kinds : o_counts[k] <= Len(o_tree)
  BY DEF Of!ParseInv
<1> QED
  BY <1>1, <1>2, <1>3, <1>7, <1>8, <1>9 DEF Of!ParseInv

(* One round of the loop: a refused entry, or the null child whose name    *)
(* the message reads, ends the parsing; any other adds its channel.        *)
LEMMA RefusedEntry ==
  ASSUME Of!ParseInv, NEW e \in Of!Entry, Of!ParseEntry(e), o_pc' = "done"
  PROVE  Of!ParseInv'
<1> DEFINE last == Len(o_tree) + 1
<1>1. /\ o_pc = "parse" /\ Len(o_channels) < o_num_chans /\ o_num_chans \in 0..MaxChans
      /\ o_tree' = Append(o_tree, e)
      /\ UNCHANGED <<o_dma_names, o_dmas, o_num_chans>>
      /\ o_counts \in [Of!Kinds -> 0..MaxChans] /\ Len(o_tree) = Len(o_channels)
      /\ \A k \in Of!Kinds : o_counts[k] <= Len(o_tree)
      /\ o_tree \in Seq(Of!Entry) /\ o_channels \in Seq(Of!Chan)
  BY DEF Of!ParseInv, Of!TypeOK, Of!MatchedInv, Of!NothingWrong, Of!ParseEntry, Of!node
<1>2. /\ o_tree' \in Seq(Of!Entry) /\ Len(o_tree') = Len(o_tree) + 1 /\ Len(o_tree) \in Nat
      /\ last \in DOMAIN o_tree' /\ o_tree'[last] = e
  BY <1>1, OneMore
<1>3. /\ o_rc' \in {"EINVAL", "oops"}
      /\ o_rc' = "oops" => Of!NullChild(e)
      /\ ~Of!GoodEntry(e)
      /\ o_channels' = o_channels
      /\ o_counts' = o_counts \/ o_counts' = Of!Counted(e)
  <2>1. CASE /\ ~Of!ArgsOK(e) \/ ~Of!CountOK(e)
             /\ Of!Finish("EINVAL")
             /\ UNCHANGED <<o_channels, o_counts>>
    BY <2>1 DEF Of!ArgsOK, Of!CountOK, Of!Finish, Of!GoodEntry, Of!Entry
  <2>2. CASE /\ Of!NullChild(e)
             /\ Of!Finish("oops")
             /\ UNCHANGED <<o_channels, o_counts>>
    BY <2>2 DEF Of!NullChild, Of!Finish, Of!GoodEntry
  <2>3. CASE /\ ~e.child.has_id \/ Of!KindOf(e) = {}
             /\ Of!Finish("EINVAL")
             /\ UNCHANGED <<o_channels, o_counts>>
    <3>1. ~Of!GoodEntry(e)
      BY <2>3 DEF Of!GoodEntry, Of!KindOf, Of!Entry, Of!Child, Of!AnyKind, Of!Kinds
    <3> QED
      BY <2>3, <3>1 DEF Of!Finish
  <2>4. CASE /\ \E k \in Of!KindOf(e) :
                   o_channels' = IF e.name
                                 THEN Append(o_channels,
                                             [channel_id |-> e.child.id, kind |-> k])
                                 ELSE o_channels
             /\ o_counts' = Of!Counted(e)
             /\ IF e.name THEN UNCHANGED <<o_pc, o_rc>> ELSE Of!Finish("EINVAL")
    <3>1. ~e.name
      BY <1>1, <2>4
    <3> QED
      BY <2>4, <3>1 DEF Of!Finish, Of!GoodEntry
  <2> QED
    BY <2>1, <2>2, <2>3, <2>4 DEF Of!ParseEntry
<1>4. /\ o_counts' \in [Of!Kinds -> 0..MaxChans]
      /\ \A k \in Of!Kinds : o_counts'[k] <= Len(o_tree')
  <2>1. \A k \in Of!Kinds : o_counts[k] \in 0..Len(o_tree)
    BY <1>1, <1>2
  <2>2. Len(o_tree') \in 0..MaxChans
    BY <1>1, <1>2, BringUpConstants
  <2>3. \A k \in Of!Kinds : o_counts'[k] \in 0..Len(o_tree')
    BY <1>1, <1>2, <1>3, <2>1 DEF Of!Counted
  <2>4. o_counts' \in [Of!Kinds -> Int]
    BY <1>1, <1>3, BringUpConstants DEF Of!Counted
  <2> QED
    BY <2>2, <2>3, <2>4, BringUpConstants
<1>5. Of!TypeOK'
  BY <1>1, <1>2, <1>3, <1>4 DEF Of!ParseInv, Of!TypeOK
<1>6. ~Of!GoodTree'
  BY <1>2, <1>3 DEF Of!GoodTree
<1>7. Of!AcceptsGoodTrees'
  BY <1>2, <1>3, <1>6 DEF Of!AcceptsGoodTrees
<1>8. Of!MatchedInv'
  BY <1>3 DEF Of!MatchedInv, Of!NothingWrong
<1> QED
  BY <1>1, <1>2, <1>3, <1>4, <1>5, <1>7, <1>8 DEF Of!ParseInv, Of!Accepted

LEMMA AcceptedEntry ==
  ASSUME Of!ParseInv, NEW e \in Of!Entry, Of!ParseEntry(e), o_pc' # "done"
  PROVE  Of!ParseInv'
<1> DEFINE last == Len(o_tree) + 1
<1>1. /\ o_pc = "parse" /\ o_rc = "OK" /\ Len(o_channels) < o_num_chans
      /\ o_num_chans \in 0..MaxChans /\ o_tree' = Append(o_tree, e)
      /\ UNCHANGED <<o_dma_names, o_dmas, o_num_chans>>
      /\ o_counts \in [Of!Kinds -> 0..MaxChans] /\ Len(o_tree) = Len(o_channels)
      /\ \A k \in Of!Kinds : o_counts[k] <= Len(o_tree)
      /\ o_tree \in Seq(Of!Entry) /\ o_channels \in Seq(Of!Chan)
      /\ \A i \in DOMAIN o_tree : Of!Parsed(i)
      /\ Of!AllGiven => \A k \in Of!Kinds : o_counts[k] = Cardinality(Of!OfKind(k))
  BY OneCardinality DEF Of!ParseInv, Of!TypeOK, Of!MatchedInv, Of!NothingWrong, Of!ParseEntry, Of!node
<1>2. /\ Of!ArgsOK(e) /\ Of!CountOK(e) /\ ~Of!NullChild(e) /\ e.child.has_id /\ e.name
      /\ o_pc' = "parse" /\ o_rc' = "OK"
      /\ o_counts' = Of!Counted(e)
      /\ \E k \in Of!KindOf(e) :
            o_channels' = Append(o_channels, [channel_id |-> e.child.id, kind |-> k])
  BY <1>1 DEF Of!ParseEntry, Of!Finish
<1>3. PICK k \in Of!KindOf(e) :
         o_channels' = Append(o_channels, [channel_id |-> e.child.id, kind |-> k])
  BY <1>2
<1> DEFINE x == [channel_id |-> e.child.id, kind |-> k]
<1>4. /\ k \in Of!AnyKind /\ x \in Of!Chan /\ x.kind = k /\ x.channel_id = e.child.id
      /\ e.child.compatible # "other"
      /\ e.child.compatible # "missing" => e.child.compatible \in Of!Kinds /\ k = e.child.compatible
  BY <1>3 DEF Of!KindOf, Of!AnyKind, Of!Chan, Of!Entry, Of!Child, Of!Kinds
<1>5. o_channels' = Append(o_channels, x)
  BY <1>3
<1> HIDE DEF x
<1>6. /\ o_tree' \in Seq(Of!Entry) /\ Len(o_tree') = Len(o_tree) + 1 /\ Len(o_tree) \in Nat
      /\ DOMAIN o_tree = 1..Len(o_tree)
      /\ DOMAIN o_tree' = DOMAIN o_tree \cup {last} /\ last \notin DOMAIN o_tree
      /\ o_tree'[last] = e /\ \A i \in DOMAIN o_tree : o_tree'[i] = o_tree[i]
  BY <1>1, OneMore
<1>7. /\ o_channels' \in Seq(Of!Chan) /\ Len(o_channels') = Len(o_channels) + 1
      /\ DOMAIN o_channels = 1..Len(o_channels) /\ o_channels'[last] = x
      /\ \A i \in DOMAIN o_channels : o_channels'[i] = o_channels[i]
  BY <1>1, <1>4, <1>5, OneMore
<1>8. Of!GoodEntry(e)
  BY <1>2, <1>4
     DEF Of!GoodEntry, Of!ArgsOK, Of!CountOK, Of!NullChild, Of!Entry
<1>9. \A i \in DOMAIN o_tree' : Of!Parsed(i)'
  <2> SUFFICES ASSUME NEW i \in DOMAIN o_tree' PROVE Of!Parsed(i)'
    OBVIOUS
  <2>1. CASE i = last
    BY <1>4, <1>6, <1>7, <1>8, <2>1 DEF Of!Parsed
  <2>2. CASE i \in DOMAIN o_tree
    BY <1>1, <1>6, <1>7, <2>2 DEF Of!Parsed
  <2> QED
    BY <1>6, <2>1, <2>2
<1>10. Of!AllGiven' => \A j \in Of!Kinds : o_counts'[j] = Cardinality(Of!OfKind(j)')
  <2> SUFFICES ASSUME Of!AllGiven', NEW j \in Of!Kinds
               PROVE  o_counts'[j] = Cardinality(Of!OfKind(j)')
    OBVIOUS
  <2>1. Of!AllGiven /\ e.child.compatible # "missing"
    BY <1>6 DEF Of!AllGiven
  <2>2. o_counts'[j] = o_counts[j] + (IF k = j THEN 1 ELSE 0)
    BY <1>1, <1>2, <1>4, <2>1 DEF Of!Counted
  <2>3. Cardinality(Of!OfKind(j)') = Cardinality(Of!OfKind(j)) + (IF x.kind = j THEN 1 ELSE 0)
    BY <1>4, <1>5, OneMoreOfKind DEF Of!ParseInv
  <2>4. o_counts[j] = Cardinality(Of!OfKind(j))
    BY <1>1, <2>1
  <2> QED
    BY <1>4, <2>2, <2>3, <2>4
<1>11. /\ o_counts' \in [Of!Kinds -> 0..MaxChans]
       /\ \A j \in Of!Kinds : o_counts'[j] <= Len(o_tree')
  BY <1>1, <1>2, <1>6, BringUpConstants DEF Of!Counted
<1>12. Of!TypeOK'
  BY <1>1, <1>2, <1>6, <1>7, <1>11 DEF Of!ParseInv, Of!TypeOK
<1>13. Of!MatchedInv'
  BY <1>1, <1>6, <1>7, <1>9, <1>10, OneCardinality DEF Of!MatchedInv
<1>14. Len(o_tree') <= o_num_chans'
  BY <1>1, <1>6
<1>15. /\ o_dma_names'.present /\ o_dmas'.present /\ o_dma_names'.len > 0
       /\ o_dmas'.len = o_dma_names'.len /\ o_num_chans' = o_dmas'.len
  BY <1>1 DEF Of!ParseInv
<1> QED
  BY <1>2, <1>11, <1>12, <1>13, <1>14, <1>15
     DEF Of!ParseInv, Of!AcceptsGoodTrees, Of!Accepted

LEMMA ParseStep ==
  ASSUME Of!ParseInv, Of!Next
  PROVE  Of!ParseInv'
BY CountStep, ParseEndStep, UniqueStep, RefusedEntry, AcceptedEntry DEF Of!Next

LEMMA ParseStutter ==
  ASSUME Of!ParseInv, UNCHANGED ofVars
  PROVE  Of!ParseInv'
BY DEF ofVars, Of!ParseInv, Of!TypeOK, Of!MatchedInv, Of!NothingWrong, Of!Parsed, Of!AllGiven,
       Of!OfKind, Of!AcceptsGoodTrees, Of!Accepted, Of!GoodTree

-----------------------------------------------------------------------------
(* The two parts together.                                                 *)

LEMMA StaleStep ==
  ASSUME UnbindTypeOK, [UnbindNext]_unbindVars
  PROVE  stale' \in SUBSET [node : Nodes, private_data : Nodes \cup {NULL}]
<1>1. UNCHANGED stale \/ \/ \E n \in Nodes : Unbind(n) \/ OpenLate(n)
                         \/ \E f \in stale : ReleaseStale(f)
  BY DEF UnbindNext, unbindVars
<1>2. ASSUME NEW n \in Nodes, Unbind(n)
      PROVE  stale' \subseteq stale \cup files
  BY <1>2 DEF Unbind
<1>3. ASSUME NEW n \in Nodes, OpenLate(n)
      PROVE  stale' \subseteq stale \cup [node : Nodes, private_data : Nodes \cup {NULL}]
  BY <1>3 DEF OpenLate, UnbindTypeOK, TypeOK
<1>4. ASSUME NEW f \in stale, ReleaseStale(f)
      PROVE  stale' \subseteq stale
  BY <1>4 DEF ReleaseStale
<1> QED
  BY <1>1, <1>2, <1>3, <1>4 DEF UnbindTypeOK, TypeOK

BringUpInv == ProbeInv /\ UnbindTypeOK /\ Of!ParseInv

LEMMA BringUpStart == BringUpInit => BringUpInv
BY ParseInit, UnbindInitProbe DEF BringUpInit, BringUpInv, UnbindInit, UnbindTypeOK, ProbeInv

LEMMA BringUpStep ==
  ASSUME BringUpInv, [BringUpNext]_<<part, ofVars, unbindVars>>
  PROVE  BringUpInv'
<1>1. [UnbindNext]_unbindVars
  BY DEF BringUpNext
<1>2. Of!ParseInv'
  BY ParseStep, ParseStutter DEF BringUpInv, BringUpNext
<1>3. ProbeInv'
  BY <1>1, UnbindProbeStep DEF BringUpInv
<1>4. UnbindTypeOK'
  BY <1>1, <1>3, StaleStep DEF BringUpInv, UnbindTypeOK, ProbeInv
<1> QED
  BY <1>2, <1>3, <1>4 DEF BringUpInv

LEMMA BringUpInvariant == BringUpSpec => []BringUpInv
BY BringUpStart, BringUpStep, PTL DEF BringUpSpec

(* The steps of axidma_of.c and of bring-up keep the device's fields what  *)
(* they can be, for any number of nodes, channels and entries.             *)
THEOREM BringUpTyped == BringUpSpec => []BringUpTypeOK
<1>1. BringUpInv => BringUpTypeOK
  BY DEF BringUpInv, BringUpTypeOK, Of!ParseInv
<1> QED
  BY <1>1, BringUpInvariant, PTL

(* However many entries a device tree node has and whatever they are: the  *)
(* driver accepts exactly the well-formed trees (and a channel node that   *)
(* lacks 'compatible'), its channels then are the tree's, and nothing but  *)
(* the missing second child oopses (axidma_of.c:98-216).                   *)
THEOREM GoodTreesAreAccepted == BringUpSpec => []AcceptsGoodTrees
<1>1. BringUpInv => AcceptsGoodTrees
  BY DEF BringUpInv, AcceptsGoodTrees, Of!ParseInv
<1> QED
  BY <1>1, BringUpInvariant, PTL

(* The four counts the library sizes its arrays by are the channels of     *)
(* each kind, for any number of channels (axidma_of.c:24-61).              *)
THEOREM CountsMatch == BringUpSpec => []CountsAreTheChannels
<1>1. BringUpInv => CountsAreTheChannels
  BY DEF BringUpInv, CountsAreTheChannels, Of!ParseInv, Of!MatchedInv, Of!NothingWrong,
         Of!Accepted, Of!CountsAreTheChannels, Of!OfKind
<1> QED
  BY <1>1, BringUpInvariant, PTL
=============================================================================
