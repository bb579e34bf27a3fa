------------------------------- MODULE AxidmaOf -------------------------------
(***************************************************************************)
(* Parsing of the driver's device-tree node (driver/axidma_of.c), as       *)
(* axidma_dma_init calls it: axidma_of_num_channels, then                  *)
(* axidma_of_parse_dma_nodes, one step per round of its loop, then         *)
(* axidma_check_unique_ids.                                                *)
(*                                                                         *)
(* A property list is known by its length, negative if it cannot be read.  *)
(* An entry of 'dmas' is chosen when the loop comes to it: whether its     *)
(* phandle can be followed, the arguments, how many children the DMA's     *)
(* node has, and the child the argument names.                             *)
(*                                                                         *)
(* Operators named Bug... are faulty versions of the operator that follows *)
(* them; no action uses them.                                              *)
(***************************************************************************)
EXTENDS Integers, Sequences, FiniteSets

CONSTANTS
    Ids,             \* device ids that occur in the tree
    MaxChans         \* bound: entries of 'dmas'

(* The type and direction of a channel, and what an uninitialised pair of  *)
(* them can be: one of those, or no enumerator at all.                     *)
Kinds   == {"dma_tx", "dma_rx", "vdma_tx", "vdma_rx"}
AnyKind == Kinds \cup {"none"}

Property == [present : BOOLEAN, len : -1..MaxChans]

Child ==
    [has_id : BOOLEAN, id : Ids, compatible : Kinds \cup {"other", "missing"}]

Entry ==
    [phandle : BOOLEAN, args_count : 0..1, channel : 0..2, child_count : 0..3,
     child : Child, name : BOOLEAN]

VARIABLES
    dma_names, dmas, \* the node's two lists
    tree,            \* the entries met so far
    pc,              \* "count", "parse", "unique" or "done"
    rc,              \* "OK", or the error parsing ended with
    num_chans,       \* dev->num_chans
    channels,        \* dev->channels, as far as it is filled
    counts           \* dev->num_dma_tx_chans and the other three

node == <<dma_names, dmas>>
vars == <<node, tree, pc, rc, num_chans, channels, counts>>

Chan == [channel_id : Ids, kind : AnyKind]

TypeOK ==
    /\ dma_names \in Property
    /\ dmas \in Property
    /\ tree \in Seq(Entry)
    /\ pc \in {"count", "parse", "unique", "done"}
    /\ rc \in {"OK", "EINVAL", "oops"}
    /\ num_chans \in 0..MaxChans
    /\ channels \in Seq(Chan)
    /\ counts \in [Kinds -> 0..MaxChans]

Init ==
    /\ dma_names \in Property
    /\ dmas \in Property
    /\ tree = <<>>
    /\ pc = "count"
    /\ rc = "OK"
    /\ num_chans = 0
    /\ channels = <<>>
    /\ counts = [k \in Kinds |-> 0]

Finish(code) == pc' = "done" /\ rc' = code

-----------------------------------------------------------------------------
(* axidma_of_num_channels.                                                 *)
BugCount ==                     \* fault: the lengths are not compared
    /\ pc = "count"
    /\ dma_names.present /\ dmas.present
    /\ dma_names.len > 0 /\ dmas.len > 0
    /\ num_chans' = dma_names.len
    /\ pc' = "parse" /\ UNCHANGED rc
    /\ UNCHANGED <<node, tree, channels, counts>>

Count ==
    /\ pc = "count"
    /\ \/ /\ dma_names.present /\ dmas.present
          /\ dma_names.len > 0 /\ dmas.len = dma_names.len
          /\ num_chans' = dma_names.len
          /\ pc' = "parse" /\ UNCHANGED rc
       \/ /\ \/ ~dma_names.present \/ ~dmas.present
             \/ dma_names.len <= 0 \/ dmas.len <= 0
             \/ dmas.len # dma_names.len
          /\ Finish("EINVAL")
          /\ UNCHANGED num_chans
    /\ UNCHANGED <<node, tree, channels, counts>>

-----------------------------------------------------------------------------
(* axidma_of_parse_dma_nodes.                                              *)

(* The phandle and its arguments.                                          *)
ArgsOK(e) == e.phandle /\ e.args_count >= 1 /\ e.channel \in {0, 1}

(* axidma_of_parse_channel: the child exists ...                           *)
CountOK(e) == e.child_count \in 1..2

(* ... or is the null pointer, whose name the error message then reads.    *)
NullChild(e) == e.channel = 1 /\ e.child_count = 1

(* axidma_parse_compatible_property: the channel's kind, and whether it is *)
(* counted.  Without the property the message is printed, and 0 returned.  *)
KindOf(e) ==
    CASE e.child.compatible \in Kinds -> {e.child.compatible}
      [] e.child.compatible = "missing" -> AnyKind
      [] OTHER -> {}

BugCounted(e) ==                \* fault: every transmit channel is a DMA's
    [counts EXCEPT ![IF e.child.compatible = "vdma_tx" THEN "dma_tx"
                     ELSE e.child.compatible] = @ + 1]

Counted(e) ==
    IF e.child.compatible \in Kinds
    THEN [counts EXCEPT ![e.child.compatible] = @ + 1]
    ELSE counts

(* One round of the loop.                                                  *)
ParseEntry(e) ==
    /\ pc = "parse"
    /\ Len(channels) < num_chans
    /\ tree' = Append(tree, e)
    /\ \/ /\ ~ArgsOK(e) \/ ~CountOK(e)
          /\ Finish("EINVAL")
          /\ UNCHANGED <<channels, counts>>
       \/ /\ ArgsOK(e) /\ CountOK(e) /\ NullChild(e)
          /\ Finish("oops")
          /\ UNCHANGED <<channels, counts>>
       \/ /\ ArgsOK(e) /\ CountOK(e) /\ ~NullChild(e)
          /\ ~e.child.has_id \/ KindOf(e) = {}
          /\ Finish("EINVAL")
          /\ UNCHANGED <<channels, counts>>
       \/ /\ ArgsOK(e) /\ CountOK(e) /\ ~NullChild(e) /\ e.child.has_id
          /\ \E k \in KindOf(e) :
                channels' = IF e.name
                            THEN Append(channels, [channel_id |-> e.child.id, kind |-> k])
                            ELSE channels
          /\ counts' = Counted(e)
          /\ IF e.name THEN UNCHANGED <<pc, rc>> ELSE Finish("EINVAL")
    /\ UNCHANGED <<node, num_chans>>

(* The loop ends.                                                          *)
ParseEnd ==
    /\ pc = "parse"
    /\ Len(channels) = num_chans
    /\ pc' = "unique"
    /\ UNCHANGED <<node, tree, rc, num_chans, channels, counts>>

(* axidma_check_unique_ids.                                                *)
SameId(i, j) == i < j /\ channels[i].channel_id = channels[j].channel_id

CheckUniqueIds ==
    /\ pc = "unique"
    /\ Finish(IF \E i, j \in 1..num_chans : SameId(i, j) THEN "EINVAL" ELSE "OK")
    /\ UNCHANGED <<node, tree, num_chans, channels, counts>>

Next == Count \/ (\E e \in Entry : ParseEntry(e)) \/ ParseEnd \/ CheckUniqueIds

Spec == Init /\ [][Next]_vars

-----------------------------------------------------------------------------
(* Properties.                                                             *)

Accepted == pc = "done" /\ rc = "OK"

(* README.md:45-51: what a device tree for the driver looks like.          *)
GoodEntry(e) ==
    /\ e.phandle /\ e.args_count = 1 /\ e.channel \in {0, 1}
    /\ e.child_count \in 1..2 /\ e.channel < e.child_count
    /\ e.child.has_id /\ e.child.compatible # "other" /\ e.name

AllGiven == \A i \in DOMAIN tree : tree[i].child.compatible # "missing"

GoodTree ==
    /\ dma_names.present /\ dmas.present
    /\ dmas.len > 0 /\ dmas.len = dma_names.len /\ Len(tree) = dmas.len
    /\ \A i \in DOMAIN tree : GoodEntry(tree[i])
    /\ \A i, j \in DOMAIN tree : tree[i].child.id = tree[j].child.id => i = j

(* A tree is accepted exactly when it is well formed, where a channel node *)
(* without 'compatible' passes too, and the driver's channels then are the *)
(* tree's, in its order.  Nothing but an entry that names the second child *)
(* of a node with one child brings the kernel down (axidma_of.c:98-109).   *)
AcceptsGoodTrees ==
    pc = "done" =>
        /\ rc = "OK" <=> GoodTree
        /\ rc = "OK" => \A i \in DOMAIN tree :
              /\ channels[i].channel_id = tree[i].child.id
              /\ channels[i].kind # tree[i].child.compatible
                    => tree[i].child.compatible = "missing"
        /\ rc = "oops" => NullChild(tree[Len(tree)])

(* axidma_ioctl.h:79-85, of the four counts: "DMA transmit channels        *)
(* available" and so on; the library allocates its arrays from them.  They *)
(* are, if every channel node has a 'compatible' property                  *)
(* (axidma_of.c:24-61).                                                    *)
CountsAreTheChannels ==
    Accepted /\ AllGiven => \A k \in Kinds :
        counts[k] = Cardinality({i \in DOMAIN channels : channels[i].kind = k})

(* README.md:51, of the device ids: "they can be completely arbitrary.     *)
(* This is how the channels are referred to in both the driver and from    *)
(* userspace".  The transfer calls use &dev->cb_data[channel_id], of an    *)
(* array with one element per channel (axidma_dma.c:390, 701).             *)
CallbackDataExists ==
    Accepted => \A i \in DOMAIN channels : channels[i].channel_id < num_chans

-----------------------------------------------------------------------------
(* The inductive invariant: as long as nothing is wrong, the channels are  *)
(* those of the entries met so far, which are as they should be.           *)

OfKind(k) == {i \in DOMAIN channels : channels[i].kind = k}

Parsed(i) ==
    /\ GoodEntry(tree[i])
    /\ channels[i].channel_id = tree[i].child.id
    /\ channels[i].kind # tree[i].child.compatible => tree[i].child.compatible = "missing"

NothingWrong == pc # "done" \/ rc = "OK"

MatchedInv ==
    NothingWrong => /\ Len(tree) = Len(channels)
                    /\ \A i \in DOMAIN tree : Parsed(i)
                    /\ AllGiven => \A k \in Kinds : counts[k] = Cardinality(OfKind(k))

ParseInv ==
    /\ TypeOK
    /\ Len(tree) <= num_chans
    /\ \A k \in Kinds : counts[k] <= Len(tree)
    /\ pc # "done" => rc = "OK"
    /\ pc = "count" => num_chans = 0
    /\ pc \in {"parse", "unique"} =>
          /\ dma_names.present /\ dmas.present
          /\ dma_names.len > 0 /\ dmas.len = dma_names.len /\ num_chans = dmas.len
    /\ pc = "unique" \/ Accepted => Len(channels) = num_chans
    /\ MatchedInv
    /\ AcceptsGoodTrees

=============================================================================
