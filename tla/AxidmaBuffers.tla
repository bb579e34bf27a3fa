---------------------------- MODULE AxidmaBuffers ----------------------------
(***************************************************************************)
(* The DMA buffers of the driver (driver/axidma_chrdev.c) and the library  *)
(* calls that create and destroy them.                                     *)
(*                                                                         *)
(* A client gets a buffer by mapping the device (axidma_malloc), or        *)
(* imports one that another driver exported (axidma_register_buffer).  The *)
(* driver notes each in a list with the USER address it had when it was    *)
(* made, and a transfer finds the device address of a range by searching   *)
(* the two lists for the first entry that contains it.  Own buffers are    *)
(* given back when their mapping is closed; imported ones never are, since *)
(* the driver refuses the ioctl that would do it.                          *)
(*                                                                         *)
(* Addresses are pages: a range is [lo, hi).  list_add puts an entry at    *)
(* the head and a structure's number grows with time, so a list is the set *)
(* of its structures and its first match is the newest.  The driver takes  *)
(* no lock here and README.md allows one thread: calls are atomic.         *)
(*                                                                         *)
(* The address and the size of an import are what the caller says they     *)
(* are: the driver stores both unchecked.  The clients here tell the truth *)
(* (Register), and import what they have mapped, the whole of it.          *)
(*                                                                         *)
(* Operators named Bug... are faulty versions of the operator that follows *)
(* them; no action uses them.                                              *)
(***************************************************************************)
EXTENDS Naturals, FiniteSets

CONSTANTS
    Procs,         \* processes
    NumPages,      \* bound: pages of an address space
    Bufs,          \* buffers exported by another driver
    BufPages,      \* the size of each
    MaxAllocs,     \* bound: mappings of the device ever made
    MaxRegs,       \* bound: buffers ever imported
    PartialUnmap   \* may a client unmap a part of a mapping?

Addr   == 1..(NumPages + 1)
Allocs == 1..MaxAllocs
Regs   == 1..MaxRegs
Refs   == {"get", "attach", "map"}

ASSUME BufferConstants ==
    /\ NumPages \in Nat \ {0}
    /\ MaxAllocs \in Nat
    /\ MaxRegs \in Nat
    /\ Bufs # {}
    /\ BufPages \in [Bufs -> 1..NumPages]
    /\ PartialUnmap \in BOOLEAN

VARIABLES
    opened,           \* the processes that have the device open
    vmas,             \* the mappings of the device
    imports,          \* the mappings of other drivers' buffers
    made,             \* the number of axidma_dma_allocations ever made
    alloc,            \* their user_addr and size
    dmabuf_list,      \* dev->dmabuf_list
    memory,           \* the coherent memory held, by the structure it was for
    uaf,              \* a structure was used after it was freed
    regs,             \* the number of axidma_external_allocations ever made
    ext,              \* their user_addr, size and buffer
    external_dmabufs, \* dev->external_dmabufs
    held,             \* references the driver holds on each exported buffer
    rc                \* the result of each process's last call

ownVars    == <<made, alloc, dmabuf_list, memory, uaf>>
importVars == <<regs, ext, external_dmabufs, held>>
vars == <<opened, vmas, imports, ownVars, importVars, rc>>

(* data is vm_private_data; reg is the last import made of the mapping.    *)
Vma    == [proc : Procs, lo : Addr, hi : Addr, data : Allocs]
Import == [proc : Procs, lo : Addr, hi : Addr, buf : Bufs, reg : 0..MaxRegs]
Alloc  == [user_addr : 0..(NumPages + 1), size : 0..NumPages]
Ext    == [user_addr : 0..(NumPages + 1), size : 0..NumPages, buf : Bufs]

TypeOK ==
    /\ opened \in SUBSET Procs
    /\ vmas \in SUBSET Vma
    /\ imports \in SUBSET Import
    /\ made \in 0..MaxAllocs
    /\ alloc \in [Allocs -> Alloc]
    /\ dmabuf_list \in SUBSET Allocs
    /\ memory \in SUBSET Allocs
    /\ uaf \in BOOLEAN
    /\ regs \in 0..MaxRegs
    /\ ext \in [Regs -> Ext]
    /\ external_dmabufs \in SUBSET Regs
    /\ held \in [Bufs -> [Refs -> Nat]]
    /\ rc \in [Procs -> {"OK", "EACCES", "EINVAL", "ENOMEM", "EFAIL", "ENOTTY"}]

Init ==
    /\ opened = {}
    /\ vmas = {}
    /\ imports = {}
    /\ made = 0
    /\ alloc = [n \in Allocs |-> [user_addr |-> 0, size |-> 0]]
    /\ dmabuf_list = {}
    /\ memory = {}
    /\ uaf = FALSE
    /\ regs = 0
    /\ ext = [n \in Regs |-> [user_addr |-> 0, size |-> 0, buf |-> CHOOSE b \in Bufs : TRUE]]
    /\ external_dmabufs = {}
    /\ held = [b \in Bufs |-> [r \in Refs |-> 0]]
    /\ rc = [p \in Procs |-> "OK"]

Answer(p, code) == rc' = [rc EXCEPT ![p] = code]

-----------------------------------------------------------------------------
(* Address translation.                                                    *)

(* valid_dma_request.                                                      *)
Covers(e, lo, hi) == e.user_addr <= lo /\ hi <= e.user_addr + e.size

BugOldest(found) ==             \* fault: list_add_tail
    CHOOSE n \in found : \A k \in found : n <= k

(* The first match of a list.                                              *)
Newest(found) == CHOOSE n \in found : \A k \in found : k <= n

(* axidma_uservirt_to_dma: which memory, and how far into it.              *)
NoAddress == [mem |-> <<"none", 0>>, off |-> 0]

ToDma(lo, hi) ==
    LET own      == {n \in dmabuf_list : Covers(alloc[n], lo, hi)}
        imported == {n \in external_dmabufs : Covers(ext[n], lo, hi)}
        a == Newest(own)
        x == Newest(imported)
    IN CASE own # {} ->
                [mem |-> <<"own", a>>, off |-> lo - alloc[a].user_addr]
         [] own = {} /\ imported # {} ->
                [mem |-> <<"imported", ext[x].buf>>, off |-> lo - ext[x].user_addr]
         [] OTHER -> NoAddress

-----------------------------------------------------------------------------
(* The device file.  Several processes may have it open: O_EXCL is asked   *)
(* for, but no opener is remembered.                                       *)
Open(p, root, excl) ==
    /\ \/ ~root /\ Answer(p, "EACCES") /\ UNCHANGED opened
       \/ root /\ ~excl /\ Answer(p, "EINVAL") /\ UNCHANGED opened
       \/ root /\ excl /\ Answer(p, "OK") /\ opened' = opened \cup {p}
    /\ UNCHANGED <<vmas, imports, ownVars, importVars>>

(* close(): the buffers, and the imports, stay.                            *)
Close(p) ==
    /\ p \in opened
    /\ opened' = opened \ {p}
    /\ Answer(p, "OK")
    /\ UNCHANGED <<vmas, imports, ownVars, importVars>>

-----------------------------------------------------------------------------
(* Mappings.                                                               *)

Overlaps(v, lo, hi) == v.lo < hi /\ lo < v.hi
Inside(v, lo, hi)   == lo <= v.lo /\ v.hi <= hi

(* The kernel places a mapping where the process has none.                 *)
Unused(p, lo, hi) ==
    /\ lo < hi
    /\ \A v \in vmas : v.proc = p => ~Overlaps(v, lo, hi)
    /\ \A v \in imports : v.proc = p => ~Overlaps(v, lo, hi)

BugMmapEnd(p, lo, hi) ==        \* fault: the end address is noted as the size
    /\ p \in opened /\ Unused(p, lo, hi) /\ made < MaxAllocs
    /\ made' = made + 1
    /\ alloc' = [alloc EXCEPT ![made + 1] = [user_addr |-> lo, size |-> hi]]
    /\ dmabuf_list' = dmabuf_list \cup {made + 1}
    /\ memory' = memory \cup {made + 1}
    /\ vmas' = vmas \cup {[proc |-> p, lo |-> lo, hi |-> hi, data |-> made + 1]}
    /\ Answer(p, "OK")
    /\ UNCHANGED <<opened, imports, uaf, importVars>>

(* axidma_malloc and axidma_mmap.  Each failure frees what was allocated   *)
(* before it.                                                              *)
Mmap(p, lo, hi) ==
    /\ p \in opened
    /\ Unused(p, lo, hi)
    /\ \/ /\ made < MaxAllocs
          /\ made' = made + 1
          /\ alloc' = [alloc EXCEPT ![made + 1] = [user_addr |-> lo, size |-> hi - lo]]
          /\ dmabuf_list' = dmabuf_list \cup {made + 1}
          /\ memory' = memory \cup {made + 1}
          /\ vmas' = vmas \cup {[proc |-> p, lo |-> lo, hi |-> hi, data |-> made + 1]}
          /\ Answer(p, "OK")
          /\ UNCHANGED uaf
       \/ Answer(p, "ENOMEM") /\ UNCHANGED <<vmas, ownVars>>
    /\ UNCHANGED <<opened, imports, importVars>>

BugCloseKeepsEntry(closed) ==   \* fault: list_del is forgotten
    /\ uaf' = (uaf \/ \E v \in closed : v.data \notin memory)
    /\ memory' = memory \ {v.data : v \in closed}
    /\ UNCHANGED <<made, alloc, dmabuf_list>>

(* axidma_vma_close, for each closed piece of a mapping.  Two pieces of    *)
(* one mapping have the same vm_private_data; the first frees it.          *)
VmaClose(closed) ==
    /\ dmabuf_list' = dmabuf_list \ {v.data : v \in closed}
    /\ memory' = memory \ {v.data : v \in closed}
    /\ uaf' = \/ uaf
              \/ \E v \in closed : \/ v.data \notin memory
                                   \/ \E w \in closed : w # v /\ w.data = v.data
    /\ UNCHANGED <<made, alloc>>

(* The pieces of a mapping that are left when [lo, hi) is unmapped.        *)
Rest(v, lo, hi) ==
    {w \in {[v EXCEPT !.hi = lo], [v EXCEPT !.lo = hi]} : w.lo < w.hi}

(* munmap, as in axidma_free.  It does not fail, whatever part of which    *)
(* mappings the range names.                                               *)
Munmap(p, lo, hi) ==
    LET cut  == {v \in vmas : v.proc = p /\ Overlaps(v, lo, hi)}
        gone == {v \in imports : v.proc = p /\ Overlaps(v, lo, hi)}
    IN /\ lo < hi
       /\ cut \cup gone # {}
       /\ \A v \in gone : Inside(v, lo, hi)
       /\ PartialUnmap \/ \A v \in cut : Inside(v, lo, hi)
       /\ vmas' = (vmas \ cut) \cup UNION {Rest(v, lo, hi) : v \in cut}
       /\ imports' = imports \ gone
       /\ VmaClose(cut)
       /\ Answer(p, "OK")
       /\ UNCHANGED <<opened, importVars>>

(* The process ends, at any moment: its mappings and its file are closed.  *)
Exit(p) ==
    LET closed == {v \in vmas : v.proc = p}
    IN /\ vmas' = vmas \ closed
       /\ imports' = {v \in imports : v.proc # p}
       /\ opened' = opened \ {p}
       /\ VmaClose(closed)
       /\ Answer(p, "OK")
       /\ UNCHANGED importVars

-----------------------------------------------------------------------------
(* Imported buffers.                                                       *)

(* The other driver's mmap.                                                *)
MapOther(p, b, lo) ==
    LET hi == lo + BufPages[b]
    IN /\ hi \in Addr
       /\ Unused(p, lo, hi)
       /\ imports' = imports \cup
            {[proc |-> p, lo |-> lo, hi |-> hi, buf |-> b, reg |-> 0]}
       /\ Answer(p, "OK")
       /\ UNCHANGED <<opened, vmas, ownVars, importVars>>

(* axidma_get_external: what it has taken when it fails at a step, and     *)
(* what the labels it then goes to give back.                              *)
Failures == {"kmalloc", "get", "attach", "map", "nents"}

Taken(at) ==
    CASE at \in {"kmalloc", "get"} -> {}
      [] at = "attach" -> {"get"}
      [] at = "map"    -> {"get", "attach"}
      [] at = "nents"  -> {"get", "attach", "map"}

BugUndo(at) ==                  \* fault: goto detach_ext_dma in both places
    CASE at \in {"kmalloc", "get"} -> {}
      [] at = "attach" -> {"get"}
      [] at \in {"map", "nents"} -> {"get", "attach"}

Undo(at) ==
    CASE at \in {"kmalloc", "get"} -> {}
      [] at = "attach" -> {"get"}
      [] at = "map"    -> {"attach", "get"}
      [] at = "nents"  -> {"map", "attach", "get"}

Register(p, m) ==
    /\ p \in opened
    /\ m \in imports /\ m.proc = p
    /\ \/ /\ regs < MaxRegs
          /\ regs' = regs + 1
          /\ ext' = [ext EXCEPT ![regs + 1] =
                       [user_addr |-> m.lo, size |-> m.hi - m.lo, buf |-> m.buf]]
          /\ external_dmabufs' = external_dmabufs \cup {regs + 1}
          /\ held' = [held EXCEPT ![m.buf] = [r \in Refs |-> @[r] + 1]]
          /\ imports' = (imports \ {m}) \cup {[m EXCEPT !.reg = regs + 1]}
          /\ Answer(p, "OK")
       \/ \E at \in Failures :
             /\ held' = [held EXCEPT ![m.buf] =
                           [r \in Refs |-> @[r] + (IF r \in Taken(at) \ Undo(at) THEN 1 ELSE 0)]]
             /\ Answer(p, IF at = "kmalloc" THEN "ENOMEM" ELSE "EFAIL")
             /\ UNCHANGED <<imports, regs, ext, external_dmabufs>>
    /\ UNCHANGED <<opened, vmas, ownVars>>

(* axidma_unregister_buffer: the number of its ioctl, 10, is not less than *)
(* AXIDMA_NUM_IOCTLS.                                                      *)
Unregister(p, a) ==
    /\ p \in opened
    /\ Answer(p, "ENOTTY")
    /\ UNCHANGED <<opened, vmas, imports, ownVars, importVars>>

-----------------------------------------------------------------------------
Next == \E p \in Procs :
    \/ \E root, excl \in BOOLEAN : Open(p, root, excl)
    \/ Close(p)
    \/ Exit(p)
    \/ \E lo, hi \in Addr : Mmap(p, lo, hi) \/ Munmap(p, lo, hi)
    \/ \E b \in Bufs, lo \in Addr : MapOther(p, b, lo)
    \/ \E m \in imports : Register(p, m)
    \/ \E a \in Addr : Unregister(p, a)

Spec == Init /\ [][Next]_vars

-----------------------------------------------------------------------------
(* Properties.                                                             *)

(* README.md: one process at a time.                                       *)
OneProcess == \A p, q \in Procs : p = q

(* Translation is current: a range inside a buffer that is mapped now is   *)
(* translated to that buffer, at that offset, although older entries of    *)
(* the lists, those of imports never go away, may contain the same         *)
(* addresses (axidma_chrdev.c:74-110).                                     *)
TranslationIsCurrent ==
    \A lo, hi \in Addr : lo < hi =>
        /\ \A v \in vmas : v.lo <= lo /\ hi <= v.hi =>
              ToDma(lo, hi) = [mem |-> <<"own", v.data>>, off |-> lo - v.lo]
        /\ \A v \in imports : v.reg # 0 /\ v.lo <= lo /\ hi <= v.hi =>
              ToDma(lo, hi) = [mem |-> <<"imported", v.buf>>, off |-> lo - v.lo]

(* The driver's own buffers are exactly the mappings of the device: none   *)
(* is listed, or keeps its memory, without its mapping, none is mapped     *)
(* with its memory given back, and none is given back twice                *)
(* (axidma_chrdev.c:206-222, 255-323).                                     *)
BuffersAreTheMappings ==
    /\ dmabuf_list = {v.data : v \in vmas}
    /\ memory = dmabuf_list
    /\ \A v, w \in vmas : v.data = w.data => v = w
    /\ ~uaf

(* The driver holds one reference, one attachment and one mapping of an    *)
(* exported buffer for each list entry that will use it, also when an      *)
(* import failed half-way (axidma_chrdev.c:112-204).                       *)
HeldForEntries ==
    \A b \in Bufs, r \in Refs :
        held[b][r] = Cardinality({n \in external_dmabufs : ext[n].buf = b})

-----------------------------------------------------------------------------
(* The inductive invariants.                                               *)

(* The types, where no mapping of another driver's buffer is empty.        *)
TypeInv == TypeOK /\ \A m \in imports : m.lo < m.hi

(* The mappings of a process do not overlap.                               *)
LayoutInv ==
    /\ \A v \in vmas \cup imports : v.lo < v.hi
    /\ \A v, w \in vmas : v.proc = w.proc /\ v # w => ~Overlaps(v, w.lo, w.hi)
    /\ \A v, w \in imports : v.proc = w.proc /\ v # w => ~Overlaps(v, w.lo, w.hi)
    /\ \A v \in vmas, w \in imports : v.proc = w.proc => ~Overlaps(v, w.lo, w.hi)

(* A mapping is where its structure says, and a number is given once.      *)
EntryInv ==
    \A v \in vmas : /\ v.data <= made
                    /\ alloc[v.data] = [user_addr |-> v.lo, size |-> v.hi - v.lo]

(* The import of a mapping is listed, and no newer one meets its range.    *)
ImportInv ==
    /\ \A n \in external_dmabufs : n <= regs
    /\ \A m \in imports : m.reg # 0 =>
          /\ m.reg \in external_dmabufs
          /\ ext[m.reg] = [user_addr |-> m.lo, size |-> m.hi - m.lo, buf |-> m.buf]
          /\ \A n \in external_dmabufs : n > m.reg =>
                \/ ext[n].user_addr + ext[n].size <= m.lo
                \/ m.hi <= ext[n].user_addr

BuffersInv == TypeOK /\ LayoutInv /\ EntryInv /\ BuffersAreTheMappings

=============================================================================
