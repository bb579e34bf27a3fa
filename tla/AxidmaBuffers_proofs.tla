------------------------ MODULE AxidmaBuffers_proofs ------------------------
(***************************************************************************)
(* Theorems about the driver's buffers, for every number of pages,         *)
(* buffers, mappings and imports.  Where it says so, the clients unmap     *)
(* whole buffers only (PartialUnmap = FALSE), or there is one process at a *)
(* time, as README.md asks.                                                *)
(***************************************************************************)
EXTENDS AxidmaBuffers, FiniteSetTheorems, TLAPS

LEMMA InitInv == Init => BuffersInv /\ ImportInv
<1> SUFFICES ASSUME Init PROVE BuffersInv /\ ImportInv
  OBVIOUS
<1>1. TypeOK
  <2>1. (CHOOSE b \in Bufs : TRUE) \in Bufs
    BY BufferConstants
  <2>2. ext \in [Regs -> Ext]
    BY <2>1, BufferConstants DEF Init, Ext
  <2>3. held \in [Bufs -> [Refs -> Nat]]
    BY DEF Init
  <2>4. alloc \in [Allocs -> Alloc]
    BY BufferConstants DEF Init, Alloc
  <2>5. rc \in [Procs -> {"OK", "EACCES", "EINVAL", "ENOMEM", "EFAIL", "ENOTTY"}]
    BY DEF Init
  <2>6. made \in 0..MaxAllocs /\ regs \in 0..MaxRegs
    BY BufferConstants DEF Init
  <2>7. uaf \in BOOLEAN
    BY DEF Init
  <2>8. /\ opened \in SUBSET Procs /\ vmas \in SUBSET Vma /\ imports \in SUBSET Import
        /\ dmabuf_list \in SUBSET Allocs /\ memory \in SUBSET Allocs
        /\ external_dmabufs \in SUBSET Regs
    BY DEF Init
  <2> QED
    BY <2>2, <2>3, <2>4, <2>5, <2>6, <2>7, <2>8 DEF TypeOK
<1>2. LayoutInv /\ EntryInv /\ ImportInv
  BY DEF Init, LayoutInv, EntryInv, ImportInv
<1>3. BuffersAreTheMappings
  BY DEF Init, BuffersAreTheMappings
<1> QED
  BY <1>1, <1>2, <1>3 DEF BuffersInv

-----------------------------------------------------------------------------
(* Types.                                                                  *)

LEMMA CloseType ==
  ASSUME TypeOK, NEW closed \in SUBSET vmas, VmaClose(closed)
  PROVE  /\ made' \in 0..MaxAllocs
         /\ alloc' \in [Allocs -> Alloc]
         /\ dmabuf_list' \in SUBSET Allocs
         /\ memory' \in SUBSET Allocs
         /\ uaf' \in BOOLEAN
BY DEF TypeOK, VmaClose

LEMMA AnswerType ==
  ASSUME TypeOK, NEW p \in Procs,
         NEW code \in {"OK", "EACCES", "EINVAL", "ENOMEM", "EFAIL", "ENOTTY"},
         Answer(p, code)
  PROVE  rc' \in [Procs -> {"OK", "EACCES", "EINVAL", "ENOMEM", "EFAIL", "ENOTTY"}]
BY DEF TypeOK, Answer

LEMMA ChangedMappings ==
  ASSUME TypeInv, NEW p \in Procs,
         \/ Exit(p)
         \/ \E lo, hi \in Addr : Mmap(p, lo, hi) \/ Munmap(p, lo, hi)
  PROVE  TypeInv'
<1>1. CASE Exit(p)
  <2> DEFINE closed == {v \in vmas : v.proc = p}
  <2>1. /\ VmaClose(closed) /\ vmas' = vmas \ closed /\ imports' \subseteq imports
        /\ opened' \subseteq opened /\ UNCHANGED importVars /\ Answer(p, "OK")
    BY <1>1 DEF Exit
  <2>2. closed \in SUBSET vmas
    OBVIOUS
  <2> HIDE DEF closed
  <2> QED
    BY <2>1, <2>2, CloseType, AnswerType DEF TypeInv, TypeOK, importVars
<1>2. ASSUME NEW lo \in Addr, NEW hi \in Addr, Munmap(p, lo, hi)
      PROVE  TypeInv'
  <2> DEFINE cut == {v \in vmas : v.proc = p /\ Overlaps(v, lo, hi)}
  <2>1. /\ VmaClose(cut) /\ imports' \subseteq imports /\ Answer(p, "OK")
        /\ vmas' = (vmas \ cut) \cup UNION {Rest(v, lo, hi) : v \in cut}
        /\ UNCHANGED <<opened, importVars>>
    BY <1>2 DEF Munmap
  <2>2. cut \in SUBSET vmas
    OBVIOUS
  <2> HIDE DEF cut
  <2>3. \A v \in cut : Rest(v, lo, hi) \subseteq Vma
    BY <2>2 DEF TypeInv, TypeOK, Rest, Vma
  <2>4. vmas' \subseteq Vma
    BY <2>1, <2>3 DEF TypeInv, TypeOK
  <2> QED
    BY <2>1, <2>2, <2>4, CloseType, AnswerType DEF TypeInv, TypeOK, importVars
<1>3. ASSUME NEW lo \in Addr, NEW hi \in Addr, Mmap(p, lo, hi)
      PROVE  TypeInv'
  <2> DEFINE new == [proc |-> p, lo |-> lo, hi |-> hi, data |-> made + 1]
  <2>1. lo < hi /\ UNCHANGED <<opened, imports, importVars>>
    BY <1>3 DEF Mmap, Unused
  <2>2. CASE UNCHANGED <<vmas, ownVars>> /\ Answer(p, "ENOMEM")
    BY <2>1, <2>2, AnswerType DEF TypeInv, TypeOK, ownVars, importVars
  <2>3. CASE /\ made < MaxAllocs
             /\ made' = made + 1
             /\ alloc' = [alloc EXCEPT ![made + 1] = [user_addr |-> lo, size |-> hi - lo]]
             /\ dmabuf_list' = dmabuf_list \cup {made + 1}
             /\ memory' = memory \cup {made + 1}
             /\ vmas' = vmas \cup {new}
             /\ Answer(p, "OK")
             /\ UNCHANGED uaf
    <3>1. made + 1 \in Allocs /\ new \in Vma
      BY <2>3, BufferConstants DEF TypeInv, TypeOK, Allocs, Vma
    <3> QED
      BY <2>1, <2>3, <3>1, AnswerType, BufferConstants
         DEF TypeInv, TypeOK, Alloc, Addr, importVars
  <2> QED
    BY <1>3, <2>2, <2>3 DEF Mmap
<1> QED
  BY <1>1, <1>2, <1>3

LEMMA ChangedImports ==
  ASSUME TypeInv, NEW p \in Procs,
         \/ \E b \in Bufs, lo \in Addr : MapOther(p, b, lo)
         \/ \E m \in imports : Register(p, m)
  PROVE  TypeInv'
<1>1. ASSUME NEW b \in Bufs, NEW lo \in Addr, MapOther(p, b, lo)
      PROVE  TypeInv'
  <2> DEFINE new == [proc |-> p, lo |-> lo, hi |-> lo + BufPages[b], buf |-> b, reg |-> 0]
  <2>1. /\ imports' = imports \cup {new} /\ lo + BufPages[b] \in Addr
        /\ lo < lo + BufPages[b] /\ Answer(p, "OK")
        /\ UNCHANGED <<opened, vmas, ownVars, importVars>>
    BY <1>1 DEF MapOther, Unused
  <2>2. new \in Import /\ new.lo < new.hi
    BY <2>1, BufferConstants DEF Import
  <2> HIDE DEF new
  <2> QED
    BY <2>1, <2>2, AnswerType DEF TypeInv, TypeOK, ownVars, importVars
<1>2. ASSUME NEW m \in imports, Register(p, m)
      PROVE  TypeInv'
  <2>0. UNCHANGED <<opened, vmas, ownVars>>
    BY <1>2 DEF Register
  <2>1. m \in Import /\ m.lo < m.hi
    BY DEF TypeInv, TypeOK
  <2>2. CASE \E at \in Failures :
               /\ held' = [held EXCEPT ![m.buf] =
                    [r \in Refs |-> @[r] + (IF r \in Taken(at) \ Undo(at) THEN 1 ELSE 0)]]
               /\ Answer(p, IF at = "kmalloc" THEN "ENOMEM" ELSE "EFAIL")
               /\ UNCHANGED <<imports, regs, ext, external_dmabufs>>
    BY <2>0, <2>1, <2>2, AnswerType DEF TypeInv, TypeOK, Import, ownVars
  <2>3. CASE /\ regs < MaxRegs
             /\ regs' = regs + 1
             /\ ext' = [ext EXCEPT ![regs + 1] =
                          [user_addr |-> m.lo, size |-> m.hi - m.lo, buf |-> m.buf]]
             /\ external_dmabufs' = external_dmabufs \cup {regs + 1}
             /\ held' = [held EXCEPT ![m.buf] = [r \in Refs |-> @[r] + 1]]
             /\ imports' = (imports \ {m}) \cup {[m EXCEPT !.reg = regs + 1]}
             /\ Answer(p, "OK")
    <3>1. regs + 1 \in Regs
      BY <2>3, BufferConstants DEF TypeInv, TypeOK, Regs
    <3>2. /\ [m EXCEPT !.reg = regs + 1] \in Import
          /\ [m EXCEPT !.reg = regs + 1].lo < [m EXCEPT !.reg = regs + 1].hi
      BY <2>1, <3>1, BufferConstants DEF Regs, Import
    <3>3. [user_addr |-> m.lo, size |-> m.hi - m.lo, buf |-> m.buf] \in Ext
      BY <2>1, BufferConstants DEF Ext, Import, Addr
    <3>4. held' \in [Bufs -> [Refs -> Nat]]
      BY <2>1, <2>3 DEF TypeInv, TypeOK, Import
    <3> DEFINE newer == [m EXCEPT !.reg = regs + 1]
               entry == [user_addr |-> m.lo, size |-> m.hi - m.lo, buf |-> m.buf]
    <3>5. ext' = [ext EXCEPT ![regs + 1] = entry] /\ imports' = (imports \ {m}) \cup {newer}
      BY <2>3
    <3>6. entry \in Ext /\ newer \in Import /\ newer.lo < newer.hi
      BY <3>2, <3>3
    <3> HIDE DEF newer, entry
    <3>7. ext' \in [Regs -> Ext] /\ external_dmabufs' \in SUBSET Regs /\ regs' \in 0..MaxRegs
      BY <2>3, <3>1, <3>5, <3>6, BufferConstants DEF TypeInv, TypeOK, Regs
    <3>8. imports' \in SUBSET Import /\ \A x \in imports' : x.lo < x.hi
      BY <3>5, <3>6 DEF TypeInv, TypeOK
    <3> QED
      BY <2>0, <2>3, <3>4, <3>7, <3>8, AnswerType DEF TypeInv, TypeOK, ownVars
  <2> QED
    BY <1>2, <2>2, <2>3 DEF Register
<1> QED
  BY <1>1, <1>2

LEMMA TypeStep ==
  ASSUME TypeInv, [Next]_vars
  PROVE  TypeInv'
<1>1. ASSUME NEW p \in Procs,
             \/ \E root, excl \in BOOLEAN : Open(p, root, excl)
             \/ Close(p)
             \/ \E a \in Addr : Unregister(p, a)
      PROVE  TypeInv'
  BY <1>1, AnswerType DEF TypeInv, TypeOK, Open, Close, Unregister, ownVars, importVars
<1>2. CASE UNCHANGED vars
  BY <1>2 DEF vars, ownVars, importVars, TypeInv, TypeOK
<1> QED
  BY <1>1, <1>2, ChangedMappings, ChangedImports DEF Next

(* Type correctness (axidma_chrdev.c, the whole character device), also    *)
(* where clients unmap parts of buffers.                                   *)
THEOREM BuffersTypeCorrect == Spec => []TypeOK
<1>1. Init => TypeInv
  BY InitInv DEF BuffersInv, LayoutInv, TypeInv
<1>2. TypeInv => TypeOK
  BY DEF TypeInv
<1> QED
  BY <1>1, <1>2, TypeStep, PTL DEF Spec

-----------------------------------------------------------------------------
(* The driver's own buffers.                                               *)

(* With whole buffers unmapped, a munmap leaves no piece of a mapping.     *)
LEMMA NothingLeft ==
  ASSUME TypeOK, NEW lo \in Addr, NEW hi \in Addr,
         NEW v \in vmas, Inside(v, lo, hi)
  PROVE  Rest(v, lo, hi) = {}
<1>1. v \in Vma
  BY DEF TypeOK
<1>2. /\ [v EXCEPT !.hi = lo].lo = v.lo /\ [v EXCEPT !.hi = lo].hi = lo
      /\ [v EXCEPT !.lo = hi].lo = hi /\ [v EXCEPT !.lo = hi].hi = v.hi
  BY <1>1 DEF Vma
<1>3. ~(v.lo < lo) /\ ~(hi < v.hi)
  BY <1>1, BufferConstants DEF Inside, Vma, Addr
<1> QED
  BY <1>2, <1>3 DEF Rest

LEMMA MunmapWhole ==
  ASSUME TypeOK, ~PartialUnmap, NEW p \in Procs, NEW lo \in Addr, NEW hi \in Addr,
         Munmap(p, lo, hi)
  PROVE  LET cut == {v \in vmas : v.proc = p /\ Overlaps(v, lo, hi)}
         IN /\ vmas' = vmas \ cut
            /\ VmaClose(cut)
<1> DEFINE cut == {v \in vmas : v.proc = p /\ Overlaps(v, lo, hi)}
<1>1. \A v \in cut : Rest(v, lo, hi) = {}
  BY NothingLeft DEF Munmap
<1>2. UNION {Rest(v, lo, hi) : v \in cut} = {}
  BY <1>1
<1>3. vmas' = (vmas \ cut) \cup UNION {Rest(v, lo, hi) : v \in cut}
  BY DEF Munmap
<1> QED
  BY <1>2, <1>3 DEF Munmap

LEMMA CloseInv ==
  ASSUME BuffersInv, NEW closed \in SUBSET vmas, VmaClose(closed),
         vmas' = vmas \ closed, imports' \subseteq imports
  PROVE  LayoutInv' /\ EntryInv' /\ BuffersAreTheMappings'
<1>1. LayoutInv'
  BY DEF BuffersInv, LayoutInv, Overlaps
<1>2. EntryInv'
  BY DEF BuffersInv, EntryInv, VmaClose
<1>3. dmabuf_list' = {v.data : v \in vmas'}
  BY DEF BuffersInv, BuffersAreTheMappings, VmaClose
<1>4. memory' = dmabuf_list'
  BY DEF BuffersInv, BuffersAreTheMappings, VmaClose
<1>5. uaf' = FALSE
  BY DEF BuffersInv, BuffersAreTheMappings, VmaClose, TypeOK
<1>6. \A v, w \in vmas' : v.data = w.data => v = w
  BY DEF BuffersInv, BuffersAreTheMappings
<1> QED
  BY <1>1, <1>2, <1>3, <1>4, <1>5, <1>6 DEF BuffersAreTheMappings

LEMMA OpenStep ==
  ASSUME BuffersInv, NEW p \in Procs,
         \/ \E root, excl \in BOOLEAN : Open(p, root, excl)
         \/ Close(p)
         \/ \E a \in Addr : Unregister(p, a)
  PROVE  LayoutInv' /\ EntryInv' /\ BuffersAreTheMappings'
<1>1. UNCHANGED <<vmas, imports, ownVars, importVars>>
  BY DEF Open, Close, Unregister
<1> QED
  BY <1>1
     DEF BuffersInv, LayoutInv, EntryInv, BuffersAreTheMappings, Overlaps, ownVars

LEMMA ExitStep ==
  ASSUME BuffersInv, NEW p \in Procs, Exit(p)
  PROVE  LayoutInv' /\ EntryInv' /\ BuffersAreTheMappings'
<1> DEFINE closed == {v \in vmas : v.proc = p}
<1>1. VmaClose(closed) /\ vmas' = vmas \ closed /\ imports' \subseteq imports
  BY DEF Exit
<1>2. closed \in SUBSET vmas
  OBVIOUS
<1> HIDE DEF closed
<1> QED
  BY <1>1, <1>2, CloseInv

LEMMA MunmapStep ==
  ASSUME BuffersInv, ~PartialUnmap, NEW p \in Procs, NEW lo \in Addr, NEW hi \in Addr,
         Munmap(p, lo, hi)
  PROVE  LayoutInv' /\ EntryInv' /\ BuffersAreTheMappings'
<1> DEFINE cut == {v \in vmas : v.proc = p /\ Overlaps(v, lo, hi)}
<1>1. VmaClose(cut) /\ vmas' = vmas \ cut
  BY MunmapWhole DEF BuffersInv
<1>2. imports' \subseteq imports
  BY DEF Munmap
<1>3. cut \in SUBSET vmas
  OBVIOUS
<1> HIDE DEF cut
<1> QED
  BY <1>1, <1>2, <1>3, CloseInv

LEMMA MmapStep ==
  ASSUME BuffersInv, NEW p \in Procs, NEW lo \in Addr, NEW hi \in Addr,
         Mmap(p, lo, hi)
  PROVE  LayoutInv' /\ EntryInv' /\ BuffersAreTheMappings'
<1> DEFINE new == [proc |-> p, lo |-> lo, hi |-> hi, data |-> made + 1]
<1>1. CASE UNCHANGED <<vmas, ownVars>> /\ Answer(p, "ENOMEM")
  BY <1>1
     DEF Mmap, BuffersInv, LayoutInv, EntryInv, BuffersAreTheMappings, Overlaps, ownVars
<1>2. CASE /\ made < MaxAllocs
           /\ made' = made + 1
           /\ alloc' = [alloc EXCEPT ![made + 1] = [user_addr |-> lo, size |-> hi - lo]]
           /\ dmabuf_list' = dmabuf_list \cup {made + 1}
           /\ memory' = memory \cup {made + 1}
           /\ vmas' = vmas \cup {new}
           /\ Answer(p, "OK")
           /\ UNCHANGED uaf
  <2>1. lo < hi /\ UNCHANGED <<opened, imports, importVars>>
    BY DEF Mmap, Unused
  <2>2. made + 1 \in Allocs /\ new \in Vma
    BY <1>2, BufferConstants DEF BuffersInv, TypeOK, Allocs, Vma
  <2>4. LayoutInv'
    BY <1>2, <2>1, <2>2, BufferConstants
       DEF BuffersInv, TypeOK, LayoutInv, Mmap, Unused, Overlaps, Vma, Import, Addr
  <2>5. \A v \in vmas : v.data \in Allocs /\ v.data # made + 1
    <3>1. made \in Nat
      BY BufferConstants DEF BuffersInv, TypeOK
    <3>2. \A v \in vmas : v.data \in Allocs /\ v.data <= made
      BY DEF BuffersInv, TypeOK, EntryInv, Vma
    <3> QED
      BY <3>1, <3>2, BufferConstants DEF Allocs
  <2>6. EntryInv'
    <3>1. new.data <= made' /\ alloc'[new.data] = [user_addr |-> new.lo, size |-> new.hi - new.lo]
      BY <1>2, <2>2, BufferConstants DEF BuffersInv, TypeOK, Allocs
    <3>2. ASSUME NEW v \in vmas
          PROVE  v.data <= made' /\ alloc'[v.data] = [user_addr |-> v.lo, size |-> v.hi - v.lo]
      <4>1. v.data <= made /\ alloc[v.data] = [user_addr |-> v.lo, size |-> v.hi - v.lo]
        BY DEF BuffersInv, EntryInv
      <4>2. alloc'[v.data] = alloc[v.data]
        BY <1>2, <2>5 DEF BuffersInv, TypeOK
      <4>3. v.data <= made'
        BY <1>2, <4>1, <2>5, BufferConstants DEF BuffersInv, TypeOK, Allocs
      <4> QED
        BY <4>1, <4>2, <4>3
    <3> QED
      BY <1>2, <3>1, <3>2 DEF EntryInv
  <2>7. BuffersAreTheMappings'
    <3>1. {v.data : v \in vmas'} = {v.data : v \in vmas} \cup {made + 1}
      <4>1. vmas' = vmas \cup {new} /\ new.data = made + 1
        BY <1>2
      <4> HIDE DEF new
      <4> QED
        BY <4>1
    <3>2. \A v, w \in vmas' : v.data = w.data => v = w
      BY <1>2, <2>5 DEF BuffersInv, BuffersAreTheMappings
    <3> QED
      BY <1>2, <3>1, <3>2 DEF BuffersInv, BuffersAreTheMappings
  <2> QED
    BY <2>4, <2>6, <2>7
<1> QED
  BY <1>1, <1>2 DEF Mmap

LEMMA MapOtherStep ==
  ASSUME BuffersInv, NEW p \in Procs, NEW b \in Bufs, NEW lo \in Addr,
         MapOther(p, b, lo)
  PROVE  LayoutInv' /\ EntryInv' /\ BuffersAreTheMappings'
<1> DEFINE new == [proc |-> p, lo |-> lo, hi |-> lo + BufPages[b], buf |-> b, reg |-> 0]
<1>1. /\ imports' = imports \cup {new}
      /\ lo + BufPages[b] \in Addr
      /\ UNCHANGED <<opened, vmas, ownVars, importVars>>
      /\ Unused(p, lo, lo + BufPages[b])
      /\ Answer(p, "OK")
  BY DEF MapOther
<1>2. new \in Import
  BY <1>1, BufferConstants DEF Import
<1>3. LayoutInv'
  BY <1>1, <1>2, BufferConstants
     DEF BuffersInv, TypeOK, LayoutInv, Unused, Overlaps, Vma, Import, Addr
<1> QED
  BY <1>1, <1>3 DEF BuffersInv, EntryInv, BuffersAreTheMappings, ownVars

LEMMA RegisterStep ==
  ASSUME BuffersInv, NEW p \in Procs, NEW m \in imports, Register(p, m)
  PROVE  LayoutInv' /\ EntryInv' /\ BuffersAreTheMappings'
<1>1. UNCHANGED <<opened, vmas, ownVars>>
  BY DEF Register
<1>2. imports' = imports \/ imports' = (imports \ {m}) \cup {[m EXCEPT !.reg = regs + 1]}
  BY DEF Register
<1>3. m \in Import /\ m.lo < m.hi
  BY DEF BuffersInv, TypeOK, LayoutInv
<1>4. LayoutInv'
  BY <1>1, <1>2, <1>3 DEF BuffersInv, LayoutInv, Overlaps, Import
<1> QED
  BY <1>1, <1>4 DEF BuffersInv, EntryInv, BuffersAreTheMappings, ownVars

LEMMA BuffersStep ==
  ASSUME BuffersInv, ~PartialUnmap, [Next]_vars
  PROVE  BuffersInv'
<1>1. TypeOK'
  BY TypeStep DEF BuffersInv, LayoutInv, TypeInv
<1>2. CASE Next
  BY <1>1, <1>2, OpenStep, ExitStep, MmapStep, MunmapStep, MapOtherStep, RegisterStep
     DEF Next, BuffersInv
<1>3. CASE UNCHANGED vars
  BY <1>1, <1>3 DEF vars, ownVars, importVars, BuffersInv, LayoutInv, EntryInv,
                    BuffersAreTheMappings, Overlaps
<1> QED
  BY <1>2, <1>3

(* Whatever the processes do, short of unmapping a part of a buffer, the   *)
(* driver's buffers are exactly the mappings of the device                 *)
(* (axidma_chrdev.c:206-222, 255-323): no leak, no dangling entry, nothing *)
(* freed twice.                                                            *)
THEOREM BuffersHold ==
  ASSUME ~PartialUnmap
  PROVE  Spec => []BuffersAreTheMappings
<1>1. Init => BuffersInv
  BY InitInv
<1>2. BuffersInv /\ [Next]_vars => BuffersInv'
  BY BuffersStep
<1>3. BuffersInv => BuffersAreTheMappings
  BY DEF BuffersInv
<1> QED
  BY <1>1, <1>2, <1>3, PTL DEF Spec

-----------------------------------------------------------------------------
(* Translation.                                                            *)

LEMMA ImportStep ==
  ASSUME BuffersInv, BuffersInv', ImportInv, OneProcess, [Next]_vars
  PROVE  ImportInv'
<1> DEFINE Fine(m, list, e) ==
             /\ m.reg \in list
             /\ e[m.reg] = [user_addr |-> m.lo, size |-> m.hi - m.lo, buf |-> m.buf]
             /\ \A n \in list : n > m.reg =>
                   \/ e[n].user_addr + e[n].size <= m.lo
                   \/ m.hi <= e[n].user_addr
<1>1. CASE UNCHANGED importVars /\ \A m \in imports' : m \in imports \/ m.reg = 0
  BY <1>1 DEF ImportInv, importVars
<1>2. ASSUME NEW p \in Procs, NEW m \in imports, Register(p, m)
      PROVE  ImportInv'
  <2>1. CASE UNCHANGED <<imports, regs, ext, external_dmabufs>>
    BY <2>1 DEF ImportInv
  <2>2. CASE /\ regs < MaxRegs
             /\ regs' = regs + 1
             /\ ext' = [ext EXCEPT ![regs + 1] =
                          [user_addr |-> m.lo, size |-> m.hi - m.lo, buf |-> m.buf]]
             /\ external_dmabufs' = external_dmabufs \cup {regs + 1}
             /\ imports' = (imports \ {m}) \cup {[m EXCEPT !.reg = regs + 1]}
    <3> DEFINE new == [m EXCEPT !.reg = regs + 1]
    <3>1. m \in Import /\ regs \in Nat /\ regs + 1 \in Regs
      BY <2>2, BufferConstants DEF BuffersInv, TypeOK, Regs
    <3>2. /\ new.reg = regs + 1 /\ new.lo = m.lo /\ new.hi = m.hi /\ new.buf = m.buf
      BY <3>1 DEF Import
    <3>3. \A n \in external_dmabufs : n \in Regs /\ n <= regs /\ n # regs + 1
      BY <3>1 DEF ImportInv, BuffersInv, TypeOK, Regs
    <3>4. \A n \in external_dmabufs : ext'[n] = ext[n]
      BY <2>2, <3>1, <3>3 DEF BuffersInv, TypeOK
    <3>5. ext'[regs + 1] = [user_addr |-> m.lo, size |-> m.hi - m.lo, buf |-> m.buf]
      BY <2>2, <3>1 DEF BuffersInv, TypeOK
    <3>6. \A n \in external_dmabufs' : n <= regs'
      BY <2>2, <3>1, <3>3 DEF Regs
    <3>7. Fine(new, external_dmabufs', ext')
      BY <2>2, <3>1, <3>2, <3>3, <3>5 DEF Regs
    <3>8. ASSUME NEW v \in imports, v # m, v.reg # 0
          PROVE  Fine(v, external_dmabufs', ext')
      <4>1. Fine(v, external_dmabufs, ext)
        BY <3>8 DEF ImportInv
      <4>2. v \in Import /\ v.proc = m.proc
        BY <3>1 DEF OneProcess, BuffersInv, TypeOK, Import
      <4>3. v.hi <= m.lo \/ m.hi <= v.lo
        BY <3>1, <3>8, <4>2, BufferConstants
           DEF BuffersInv, LayoutInv, Overlaps, Import, Addr
      <4>4. ext'[regs + 1].user_addr + ext'[regs + 1].size = m.hi
        BY <3>1, <3>5, BufferConstants DEF Import, Addr
      <4>5. ASSUME NEW n \in external_dmabufs', n > v.reg
            PROVE  \/ ext'[n].user_addr + ext'[n].size <= v.lo
                   \/ v.hi <= ext'[n].user_addr
        <5>1. CASE n \in external_dmabufs
          BY <5>1, <4>1, <4>5, <3>4
        <5>2. CASE n = regs + 1
          BY <5>2, <4>3, <4>4, <3>5
        <5> QED
          BY <5>1, <5>2, <2>2
      <4> QED
        BY <4>1, <4>5, <3>4, <2>2
    <3> HIDE DEF Fine, new
    <3>9. \A v \in imports' : v = new \/ (v \in imports /\ v # m)
      BY <2>2 DEF new
    <3>10. \A v \in imports' : v.reg # 0 => Fine(v, external_dmabufs', ext')
      BY <3>7, <3>8, <3>9
    <3> QED
      BY <3>6, <3>10 DEF ImportInv, Fine
  <2> QED
    BY <1>2, <2>1, <2>2 DEF Register
<1>3. CASE UNCHANGED vars
  BY <1>1, <1>3 DEF vars
<1>4. ASSUME NEW p \in Procs,
             \/ \E root, excl \in BOOLEAN : Open(p, root, excl)
             \/ Close(p)
             \/ \E a \in Addr : Unregister(p, a)
             \/ \E lo, hi \in Addr : Mmap(p, lo, hi) \/ Munmap(p, lo, hi)
             \/ Exit(p)
             \/ \E b \in Bufs, lo \in Addr : MapOther(p, b, lo)
      PROVE  ImportInv'
  <2>1. UNCHANGED importVars
    BY <1>4 DEF Open, Close, Unregister, Mmap, Munmap, Exit, MapOther
  <2>2. CASE \/ \E root, excl \in BOOLEAN : Open(p, root, excl)
             \/ Close(p)
             \/ \E a \in Addr : Unregister(p, a)
             \/ \E lo, hi \in Addr : Mmap(p, lo, hi)
    BY <1>1, <2>1, <2>2 DEF Open, Close, Unregister, Mmap
  <2>3. CASE \E lo, hi \in Addr : Munmap(p, lo, hi)
    <3>1. imports' \subseteq imports
      BY <2>3 DEF Munmap
    <3> QED
      BY <1>1, <2>1, <3>1
  <2>4. CASE Exit(p)
    BY <1>1, <2>1, <2>4 DEF Exit
  <2>5. CASE \E b \in Bufs, lo \in Addr : MapOther(p, b, lo)
    BY <1>1, <2>1, <2>5 DEF MapOther
  <2> QED
    BY <1>4, <2>2, <2>3, <2>4, <2>5
<1> QED
  BY <1>2, <1>3, <1>4 DEF Next

(* An entry with no newer one among those found is the newest.             *)
LEMMA NewestIs ==
  ASSUME NEW found \in SUBSET Nat, NEW x \in found, \A k \in found : k <= x
  PROVE  Newest(found) = x
<1>1. \A n \in found : (\A k \in found : k <= n) => n = x
  OBVIOUS
<1> QED
  BY <1>1 DEF Newest

LEMMA InvTranslates ==
  ASSUME BuffersInv, ImportInv, OneProcess
  PROVE  TranslationIsCurrent
<1> SUFFICES ASSUME NEW lo \in Addr, NEW hi \in Addr, lo < hi
             PROVE  /\ \A v \in vmas : v.lo <= lo /\ hi <= v.hi =>
                          ToDma(lo, hi) = [mem |-> <<"own", v.data>>, off |-> lo - v.lo]
                    /\ \A v \in imports : v.reg # 0 /\ v.lo <= lo /\ hi <= v.hi =>
                          ToDma(lo, hi) = [mem |-> <<"imported", v.buf>>, off |-> lo - v.lo]
  BY DEF TranslationIsCurrent
<1> DEFINE own      == {n \in dmabuf_list : Covers(alloc[n], lo, hi)}
           imported == {n \in external_dmabufs : Covers(ext[n], lo, hi)}
<1>0. lo \in Nat /\ hi \in Nat
  BY BufferConstants DEF Addr
<1>1. \A v \in vmas : v \in Vma /\ v.lo \in Nat /\ v.hi \in Nat /\ v.lo < v.hi
  BY BufferConstants DEF BuffersInv, TypeOK, LayoutInv, Vma, Addr
<1>2. \A v \in imports : v \in Import /\ v.lo \in Nat /\ v.hi \in Nat /\ v.lo < v.hi
  BY BufferConstants DEF BuffersInv, TypeOK, LayoutInv, Import, Addr
<1>3. ASSUME NEW n \in own
      PROVE  \E w \in vmas : n = w.data /\ w.lo <= lo /\ hi <= w.hi
  <2>1. PICK w \in vmas : n = w.data
    BY DEF BuffersInv, BuffersAreTheMappings
  <2>2. alloc[n] = [user_addr |-> w.lo, size |-> w.hi - w.lo]
    BY <2>1 DEF BuffersInv, EntryInv
  <2>3. w.lo <= lo /\ hi <= w.lo + (w.hi - w.lo)
    BY <2>2 DEF Covers
  <2> QED
    BY <1>0, <1>1, <2>1, <2>3
<1>4. ASSUME NEW v \in vmas, v.lo <= lo, hi <= v.hi
      PROVE  ToDma(lo, hi) = [mem |-> <<"own", v.data>>, off |-> lo - v.lo]
  <2>1. alloc[v.data] = [user_addr |-> v.lo, size |-> v.hi - v.lo]
    BY DEF BuffersInv, EntryInv
  <2>2. v.data \in own
    BY <1>0, <1>1, <1>4, <2>1 DEF Covers, BuffersInv, BuffersAreTheMappings
  <2>3. ASSUME NEW n \in own
        PROVE  n = v.data
    <3>1. PICK w \in vmas : n = w.data /\ w.lo <= lo /\ hi <= w.hi
      BY <1>3
    <3>2. w.lo < v.hi /\ v.lo < w.hi
      BY <1>0, <1>1, <1>4, <3>1
    <3>3. w.proc = v.proc
      BY <1>1 DEF OneProcess, Vma
    <3>4. w # v => ~Overlaps(w, v.lo, v.hi)
      BY <3>3 DEF BuffersInv, LayoutInv
    <3> QED
      BY <3>1, <3>2, <3>4 DEF Overlaps
  <2>4. Newest(own) = v.data
    <3>1. own \in SUBSET Nat
      <4>1. \A n \in dmabuf_list : n \in Nat
        BY BufferConstants DEF BuffersInv, TypeOK, Allocs
      <4> QED
        BY <4>1
    <3> QED
      BY <2>2, <2>3, <3>1, NewestIs
  <2> HIDE DEF own
  <2>5. own # {} => ToDma(lo, hi) = [mem |-> <<"own", Newest(own)>>,
                                     off |-> lo - alloc[Newest(own)].user_addr]
    BY DEF ToDma, own
  <2> QED
    BY <2>1, <2>2, <2>4, <2>5
<1>5. ASSUME NEW v \in imports, v.reg # 0, v.lo <= lo, hi <= v.hi
      PROVE  ToDma(lo, hi) = [mem |-> <<"imported", v.buf>>, off |-> lo - v.lo]
  <2>1. /\ v.reg \in external_dmabufs
        /\ ext[v.reg] = [user_addr |-> v.lo, size |-> v.hi - v.lo, buf |-> v.buf]
        /\ \A n \in external_dmabufs : n > v.reg =>
              \/ ext[n].user_addr + ext[n].size <= v.lo
              \/ v.hi <= ext[n].user_addr
    BY <1>5 DEF ImportInv
  <2>2. own = {}
    <3> SUFFICES ASSUME NEW n \in own PROVE FALSE
      OBVIOUS
    <3>1. PICK w \in vmas : n = w.data /\ w.lo <= lo /\ hi <= w.hi
      BY <1>3
    <3>2. w.lo < v.hi /\ v.lo < w.hi
      BY <1>0, <1>1, <1>2, <1>5, <3>1
    <3>3. w.proc = v.proc
      BY <1>1, <1>2 DEF OneProcess, Vma, Import
    <3>4. ~Overlaps(w, v.lo, v.hi)
      BY <3>3 DEF BuffersInv, LayoutInv
    <3> QED
      BY <3>2, <3>4 DEF Overlaps
  <2>3. v.reg \in imported
    BY <1>0, <1>2, <1>5, <2>1 DEF Covers
  <2>4. imported \in SUBSET Nat
    <3>1. \A n \in external_dmabufs : n \in Nat
      BY BufferConstants DEF BuffersInv, TypeOK, Regs
    <3> QED
      BY <3>1
  <2>5. ASSUME NEW n \in imported
        PROVE  n <= v.reg
    <3>1. ext[n] \in Ext
      BY DEF BuffersInv, TypeOK
    <3>2. ext[n].user_addr <= lo /\ hi <= ext[n].user_addr + ext[n].size
      BY DEF Covers
    <3>3. /\ ~(ext[n].user_addr + ext[n].size <= v.lo)
          /\ ~(v.hi <= ext[n].user_addr)
      BY <1>0, <1>2, <1>5, <3>1, <3>2, BufferConstants DEF Ext
    <3>4. ~(n > v.reg)
      BY <2>1, <3>3
    <3> QED
      BY <2>3, <2>4, <3>4
  <2>6. Newest(imported) = v.reg
    BY <2>3, <2>4, <2>5, NewestIs
  <2> HIDE DEF own, imported
  <2>7. own = {} /\ imported # {} =>
          ToDma(lo, hi) = [mem |-> <<"imported", ext[Newest(imported)].buf>>,
                           off |-> lo - ext[Newest(imported)].user_addr]
    BY DEF ToDma, own, imported
  <2> QED
    BY <2>1, <2>2, <2>3, <2>6, <2>7
<1> QED
  BY <1>4, <1>5

(* With one process at a time and whole buffers unmapped, every range      *)
(* inside a buffer that is mapped now is translated to that buffer         *)
(* (axidma_chrdev.c:74-110), for any number of stale imports.              *)
THEOREM TranslationHolds ==
  ASSUME ~PartialUnmap, OneProcess
  PROVE  Spec => []TranslationIsCurrent
<1>1. Init => BuffersInv /\ ImportInv
  BY InitInv
<1>2. BuffersInv /\ ImportInv /\ [Next]_vars => BuffersInv' /\ ImportInv'
  BY BuffersStep, ImportStep
<1>3. BuffersInv /\ ImportInv => TranslationIsCurrent
  BY InvTranslates
<1> QED
  BY <1>1, <1>2, <1>3, PTL DEF Spec

-----------------------------------------------------------------------------
(* References to exported buffers.                                         *)

Entries(b) == {n \in external_dmabufs : ext[n].buf = b}

LEMMA EntriesFinite ==
  ASSUME TypeOK, NEW b
  PROVE  IsFiniteSet(Entries(b))
<1>1. IsFiniteSet(Regs)
  BY FS_Interval, BufferConstants DEF Regs
<1>2. Entries(b) \subseteq Regs
  BY DEF TypeOK, Entries
<1> QED
  BY <1>1, <1>2, FS_Subset

(* Every failure of an import gives back all it had taken.                 *)
LEMMA NothingKept == \A at \in Failures : Taken(at) \ Undo(at) = {}
BY DEF Failures, Taken, Undo

HeldInv == HeldForEntries /\ \A n \in external_dmabufs : n <= regs

LEMMA RegisterHeld ==
  ASSUME TypeOK, HeldInv, NEW p \in Procs, NEW m \in imports, Register(p, m)
  PROVE  HeldInv'
<1>0. m \in Import /\ m.buf \in Bufs
  BY DEF TypeOK, Import
<1>1. CASE /\ \E at \in Failures : held' = [held EXCEPT ![m.buf] =
                 [r \in Refs |-> @[r] + (IF r \in Taken(at) \ Undo(at) THEN 1 ELSE 0)]]
           /\ UNCHANGED <<regs, ext, external_dmabufs>>
  <2>1. \A b \in Bufs, r \in Refs : held'[b][r] = held[b][r]
    BY <1>0, <1>1, NothingKept DEF TypeOK
  <2> QED
    BY <1>1, <2>1 DEF HeldInv, HeldForEntries
<1>2. CASE /\ regs < MaxRegs
           /\ regs' = regs + 1
           /\ ext' = [ext EXCEPT ![regs + 1] =
                        [user_addr |-> m.lo, size |-> m.hi - m.lo, buf |-> m.buf]]
           /\ external_dmabufs' = external_dmabufs \cup {regs + 1}
           /\ held' = [held EXCEPT ![m.buf] = [r \in Refs |-> @[r] + 1]]
  <2>1. regs \in Nat /\ regs + 1 \in Regs
    BY <1>2, BufferConstants DEF TypeOK, Regs
  <2>2. \A n \in external_dmabufs : n \in Regs /\ n <= regs /\ n # regs + 1
    BY <2>1 DEF HeldInv, TypeOK, Regs
  <2>3. \A n \in external_dmabufs : ext'[n].buf = ext[n].buf
    BY <1>2, <2>1, <2>2 DEF TypeOK
  <2>4. ext'[regs + 1].buf = m.buf
    BY <1>2, <2>1 DEF TypeOK
  <2>5. ASSUME NEW b \in Bufs, NEW r \in Refs
        PROVE  held'[b][r] = Cardinality(Entries(b)')
    <3>1. held[b][r] = Cardinality(Entries(b)) /\ held[b][r] \in Nat
      BY DEF HeldInv, HeldForEntries, TypeOK, Entries
    <3>2. CASE b = m.buf
      <4>1. Entries(b)' = Entries(b) \cup {regs + 1}
        BY <1>2, <2>3, <2>4, <3>2 DEF Entries
      <4>2. (regs + 1) \notin Entries(b)
        BY <2>2 DEF Entries
      <4>3. Cardinality(Entries(b)') = Cardinality(Entries(b)) + 1
        BY <4>1, <4>2, EntriesFinite, FS_AddElement
      <4>4. held'[b][r] = held[b][r] + 1
        BY <1>2, <3>2 DEF TypeOK
      <4> QED
        BY <3>1, <4>3, <4>4
    <3>3. CASE b # m.buf
      <4>1. Entries(b)' = Entries(b)
        BY <1>2, <2>3, <2>4, <3>3 DEF Entries
      <4>2. held'[b][r] = held[b][r]
        BY <1>0, <1>2, <3>3 DEF TypeOK
      <4> QED
        BY <3>1, <4>1, <4>2
    <3> QED
      BY <3>2, <3>3
  <2>6. \A n \in external_dmabufs' : n <= regs'
    BY <1>2, <2>1, <2>2 DEF Regs
  <2> QED
    BY <2>5, <2>6 DEF HeldInv, HeldForEntries, Entries
<1> QED
  BY <1>1, <1>2 DEF Register

LEMMA HeldStep ==
  ASSUME TypeOK, HeldInv, [Next]_vars
  PROVE  HeldInv'
<1>1. CASE UNCHANGED importVars
  BY <1>1 DEF importVars, HeldInv, HeldForEntries
<1>2. ASSUME NEW p \in Procs,
             \/ \E root, excl \in BOOLEAN : Open(p, root, excl)
             \/ Close(p)
             \/ \E a \in Addr : Unregister(p, a)
             \/ \E lo, hi \in Addr : Mmap(p, lo, hi) \/ Munmap(p, lo, hi)
             \/ Exit(p)
             \/ \E b \in Bufs, lo \in Addr : MapOther(p, b, lo)
      PROVE  UNCHANGED importVars
  BY <1>2 DEF Open, Close, Unregister, Mmap, Munmap, Exit, MapOther
<1> QED
  BY <1>1, <1>2, RegisterHeld DEF Next, vars

(* The driver holds one reference, one attachment and one mapping of an    *)
(* exported buffer for each of its list entries, whichever step of any     *)
(* import failed (axidma_chrdev.c:112-176), and whatever is unmapped.      *)
THEOREM ReferencesHold == Spec => []HeldForEntries
<1>1. Init => TypeInv /\ HeldInv
  <2>1. ASSUME Init PROVE HeldInv
    <3>1. \A b \in Bufs : Entries(b) = {}
      BY <2>1 DEF Init, Entries
    <3>2. \A b \in Bufs, r \in Refs : held[b][r] = 0
      BY <2>1 DEF Init
    <3> QED
      BY <2>1, <3>1, <3>2, FS_EmptySet DEF Init, HeldInv, HeldForEntries, Entries
  <2> QED
    BY <2>1, InitInv DEF BuffersInv, LayoutInv, TypeInv
<1>2. TypeInv /\ HeldInv /\ [Next]_vars => TypeInv' /\ HeldInv'
  BY TypeStep, HeldStep DEF TypeInv
<1>3. HeldInv => HeldForEntries
  BY DEF HeldInv
<1> QED
  BY <1>1, <1>2, <1>3, PTL DEF Spec

=============================================================================
