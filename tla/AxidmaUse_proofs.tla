-------------------------- MODULE AxidmaUse_proofs --------------------------
(***************************************************************************)
(* Theorems about transfers and the buffers they use, for any number of    *)
(* pages, buffers, channels and transfers in flight.                       *)
(***************************************************************************)
EXTENDS AxidmaUse, AxidmaBuffers_proofs, WellFoundedInduction

-----------------------------------------------------------------------------
(* The buffers' side is AxidmaBuffers.                                     *)

LEMMA UseStepIsStep == [UseNext]_useVars => [Next]_vars
<1>1. ASSUME NEW p \in Procs, BufferCall(p) PROVE Next
  BY <1>1 DEF BufferCall, Next
<1>2. ASSUME NEW p \in Procs, TransferCall(p) PROVE UNCHANGED vars
  BY <1>2 DEF TransferCall, OneWay, Video, TwoWay
<1>3. ASSUME NEW p \in Procs, End(p) PROVE Next
  BY <1>3 DEF End, Next
<1>4. ASSUME NEW p \in Procs, NEW c \in Chans, Stop(p, c) PROVE UNCHANGED vars
  BY <1>4 DEF Stop
<1>5. ASSUME NEW p \in Procs, NEW lo \in Addr, NEW hi \in Addr, Free(p, lo, hi)
      PROVE  Next
  BY <1>5 DEF Free, Next
<1>6. ASSUME NEW c \in Chans, Complete(c) \/ Timeout(c) PROVE UNCHANGED vars
  BY <1>6 DEF Complete, Timeout
<1> QED
  BY <1>1, <1>2, <1>3, <1>4, <1>5, <1>6 DEF UseNext, useVars

(* Whatever the transfers do, the buffers behave as AxidmaBuffers says, so *)
(* its theorems hold with transfers in flight (axidma_chrdev.c).           *)
THEOREM BuffersUnderTransfers == UseSpec => Spec
<1>1. UseInit => Init
  BY DEF UseInit
<1> QED
  BY <1>1, UseStepIsStep, PTL DEF UseSpec, Spec

-----------------------------------------------------------------------------
(* The inductive invariant.                                                *)

(* A transfer into an imported buffer finds it held.  One into a buffer of *)
(* the driver's own lies inside the mapping that keeps it, unless nobody   *)
(* waits for it or its process has ended.                                  *)
Placed(f) ==
    /\ f \in Flight
    /\ f.lo < f.hi
    /\ \/ f.mem[1] = "imported" /\ held[f.mem[2]]["map"] > 0
       \/ /\ f.mem[1] = "own"
          /\ \/ f.kind \in {"leg", "stranded"}
             \/ f.gone /\ f.kind # "wait"
             \/ ~f.gone /\ \E v \in vmas : /\ v.proc = f.task
                                           /\ v.data = f.mem[2]
                                           /\ Inside(f, v.lo, v.hi)

QueueType == queue \in [Chans -> Seq(Flight)]

UseInv ==
    /\ BuffersInv /\ ImportInv /\ HeldInv
    /\ QueueType
    /\ \A f \in InFlight : Placed(f)

LEMMA InFlightIs ==
  \A f : f \in InFlight <=> \E c \in Chans : \E i \in DOMAIN queue[c] : f = queue[c][i]
BY DEF InFlight

(* A list that is not empty has a newest entry.                            *)
LEMMA NewestIsIn ==
  ASSUME NEW n \in Nat, NEW s \in SUBSET (1..n), s # {}
  PROVE  Newest(s) \in s
<1> DEFINE Above(k) == {j \in s : j > k}
           T == {Above(k) : k \in s}
<1>1. IsFiniteSet(s)
  <2>1. IsFiniteSet(1..n)
    BY FS_Interval
  <2> QED
    BY <2>1, FS_Subset
<1>2. /\ \A k \in s : Above(k) \in SUBSET s
      /\ \A k, m \in s : k > m => /\ Above(k) \subseteq Above(m)
                                  /\ k \in Above(m) /\ k \notin Above(k)
  <2>1. s \subseteq Nat
    OBVIOUS
  <2>2. ASSUME NEW k \in s, NEW m \in s, k > m
        PROVE  Above(k) \subseteq Above(m)
    <3>1. ASSUME NEW j \in s, j > k PROVE j > m
      <4>1. j \in Nat /\ k \in Nat /\ m \in Nat
        BY <2>1
      <4> QED
        BY <2>2, <3>1, <4>1
    <3> QED
      BY <3>1
  <2>3. ASSUME NEW k \in s, NEW m \in s, k > m
        PROVE  k \in Above(m) /\ k \notin Above(k)
    BY <2>1, <2>3
  <2>4. ASSUME NEW k \in s PROVE Above(k) \in SUBSET s
    OBVIOUS
  <2> HIDE DEF Above
  <2> QED
    BY <2>2, <2>3, <2>4
<1> HIDE DEF Above
<1>0. T \subseteq FiniteSubsetsOf(s) /\ T # {}
  <2>1. FiniteSubsetsOf(s) = SUBSET s
    BY <1>1, FS_FiniteSubsetsOfFinite
  <2>2. PICK k \in s : TRUE
    OBVIOUS
  <2>3. Above(k) \in T
    OBVIOUS
  <2>4. T \subseteq SUBSET s
    BY <1>2
  <2> HIDE DEF T
  <2> QED
    BY <2>1, <2>3, <2>4
<1>3. PICK x \in T : \A y \in T : <<y, x>> \notin StrictSubsetOrdering(s)
  <2> HIDE DEF T
  <2> QED
    BY <1>0, FS_StrictSubsetOrderingWellFounded, WFMin
<1>4. PICK m \in s : x = Above(m)
  BY <1>3
<1>5. ASSUME NEW k \in s, k > m PROVE FALSE
  <2>1. <<Above(k), Above(m)>> \in StrictSubsetOrdering(s)
    BY <1>2, <1>5 DEF StrictSubsetOrdering
  <2>2. Above(k) \in T
    OBVIOUS
  <2> QED
    BY <1>3, <1>4, <2>1, <2>2
<1>6. \A k \in s : k <= m
  <2>1. s \subseteq Nat
    OBVIOUS
  <2> QED
    BY <1>5, <2>1
<1> QED
  BY <1>6 DEF Newest

-----------------------------------------------------------------------------
(* The queues.                                                             *)

(* What a call puts in flight.                                             *)
LEMMA NewIsFlight ==
  ASSUME TypeOK, NEW p \in Procs, NEW kind \in Kinds,
         NEW lo \in Addr, NEW hi \in Addr
  PROVE  NewFlight(p, kind, lo, hi) \in Flight
<1> DEFINE own      == {n \in dmabuf_list : Covers(alloc[n], lo, hi)}
           imported == {n \in external_dmabufs : Covers(ext[n], lo, hi)}
<1>0. /\ own \subseteq Allocs /\ imported \subseteq Regs
      /\ ext \in [Regs -> Ext]
  BY DEF TypeOK
<1> SUFFICES ToDma(lo, hi).mem \in Memory
  BY DEF NewFlight, Flight
<1>1. CASE own # {}
  <2>1. Newest(own) \in Allocs
    BY <1>0, <1>1, NewestIsIn, BufferConstants DEF Allocs
  <2>2. ToDma(lo, hi).mem = <<"own", Newest(own)>>
    BY <1>1 DEF ToDma
  <2>3. <<"own", Newest(own)>> \in {"own"} \X Allocs
    BY <2>1
  <2> QED
    BY <2>2, <2>3, Zenon DEF Memory
<1>2. CASE own = {} /\ imported # {}
  <2>1. Newest(imported) \in imported
    BY <1>0, <1>2, NewestIsIn, BufferConstants DEF Regs
  <2>2. ext[Newest(imported)].buf \in Bufs
    BY <1>0, <2>1 DEF Ext
  <2>3. ToDma(lo, hi).mem = <<"imported", ext[Newest(imported)].buf>>
    BY <1>2 DEF ToDma
  <2>4. <<"imported", ext[Newest(imported)].buf>> \in {"imported"} \X Bufs
    BY <2>2
  <2> QED
    BY <2>3, <2>4, Zenon DEF Memory
<1>3. CASE own = {} /\ imported = {}
  BY <1>3 DEF ToDma, Memory
<1> QED
  BY <1>1, <1>2, <1>3

(* The queues after a call, a completion or a terminate.                   *)
LEMMA AppendFlight ==
  ASSUME QueueType, NEW c \in Chans, NEW g \in Flight,
         queue' = [queue EXCEPT ![c] = Append(@, g)]
  PROVE  QueueType' /\ \A f \in InFlight' : f = g \/ f \in InFlight
<1>1. QueueType'
  BY DEF QueueType
<1>2. ASSUME NEW d \in Chans, NEW i \in DOMAIN queue'[d]
      PROVE  queue'[d][i] = g \/ \E j \in DOMAIN queue[d] : queue'[d][i] = queue[d][j]
  <2>1. CASE d # c
    BY <2>1 DEF QueueType
  <2>2. CASE d = c
    <3>1. queue'[d] = Append(queue[d], g) /\ queue[d] \in Seq(Flight)
      BY <2>2 DEF QueueType
    <3>2. i \in 1..(Len(queue[d]) + 1) /\ DOMAIN queue[d] = 1..Len(queue[d])
      BY <3>1
    <3> QED
      BY <3>1, <3>2
  <2> QED
    BY <2>1, <2>2
<1> QED
  BY <1>1, <1>2 DEF InFlight

LEMMA FewerFlights ==
  ASSUME QueueType, NEW c \in Chans,
         \/ queue' = [queue EXCEPT ![c] = <<>>]
         \/ queue[c] # <<>> /\ queue' = [queue EXCEPT ![c] = Tail(@)]
  PROVE  QueueType' /\ InFlight' \subseteq InFlight
<1>1. QueueType'
  <2>1. queue[c] \in Seq(Flight)
    BY DEF QueueType
  <2>2. queue[c] # <<>> => Tail(queue[c]) \in Seq(Flight)
    BY <2>1
  <2>3. <<>> \in Seq(Flight)
    OBVIOUS
  <2> QED
    BY <2>2, <2>3 DEF QueueType
<1>2. ASSUME NEW d \in Chans, NEW i \in DOMAIN queue'[d]
      PROVE  \E j \in DOMAIN queue[d] : queue'[d][i] = queue[d][j]
  <2>1. CASE d # c
    BY <2>1 DEF QueueType
  <2>2. CASE d = c /\ queue[c] # <<>> /\ queue' = [queue EXCEPT ![c] = Tail(@)]
    <3>1. queue'[d] = Tail(queue[d]) /\ queue[d] \in Seq(Flight) /\ queue[d] # <<>>
      BY <2>2 DEF QueueType
    <3>2. /\ i \in 1..(Len(queue[d]) - 1) /\ DOMAIN queue[d] = 1..Len(queue[d])
          /\ Tail(queue[d])[i] = queue[d][i + 1]
      BY <3>1
    <3> QED
      BY <3>1, <3>2
  <2>3. CASE d = c /\ queue' = [queue EXCEPT ![c] = <<>>]
    BY <2>3 DEF QueueType
  <2> QED
    BY <2>1, <2>2, <2>3
<1> QED
  BY <1>1, <1>2 DEF InFlight

LEMMA OrphanedFlights ==
  ASSUME QueueType, NEW p \in Procs, End(p)
  PROVE  QueueType'
<1> DEFINE Orphan(f) == IF f.task = p THEN [f EXCEPT !.gone = TRUE] ELSE f
<1>1. queue' = [c \in Chans |-> [i \in DOMAIN queue[c] |-> Orphan(queue[c][i])]]
  BY DEF End
<1>2. \A f \in Flight : Orphan(f) \in Flight
  BY DEF Flight
<1> HIDE DEF Orphan
<1>3. ASSUME NEW c \in Chans
      PROVE  [i \in DOMAIN queue[c] |-> Orphan(queue[c][i])] \in Seq(Flight)
  <2>1. queue[c] \in Seq(Flight)
    BY DEF QueueType
  <2>2. \A i \in DOMAIN queue[c] : queue[c][i] \in Flight
    BY <2>1
  <2>3. DOMAIN queue[c] = 1..Len(queue[c]) /\ Len(queue[c]) \in Nat
    BY <2>1
  <2> QED
    BY <1>2, <2>2, <2>3
<1> QED
  BY <1>1, <1>3 DEF QueueType

LEMMA QueueStep ==
  ASSUME TypeOK, QueueType, [UseNext]_useVars
  PROVE  QueueType'
<1>1. ASSUME NEW p \in Procs, NEW c \in Chans, NEW lo \in Addr, NEW hi \in Addr,
             NEW wait \in BOOLEAN,
             OneWay(p, c, lo, hi, wait) \/ Video(p, c, lo, hi)
      PROVE  QueueType'
  <2>1. ASSUME NEW kind \in Kinds,
               queue' = [queue EXCEPT ![c] = Append(@, NewFlight(p, kind, lo, hi))]
        PROVE  QueueType'
    BY <2>1, NewIsFlight, AppendFlight
  <2>2. CASE queue' = [queue EXCEPT ![c] = <<>>]
    BY <2>2, FewerFlights
  <2> QED
    BY <1>1, <2>1, <2>2 DEF OneWay, Video, Kinds
<1>2. ASSUME NEW p \in Procs, NEW tx \in Chans, NEW rx \in Chans,
             NEW lo \in Addr, NEW hi \in Addr, NEW rlo \in Addr, NEW rhi \in Addr,
             NEW wait \in BOOLEAN, TwoWay(p, tx, rx, lo, hi, rlo, rhi, wait)
      PROVE  QueueType'
  <2> DEFINE Leg(kind) == Append(queue[tx], NewFlight(p, kind, lo, hi))
             Rx(kind)  == Append(queue[rx], NewFlight(p, kind, rlo, rhi))
  <2>1. \A kind \in Kinds : Leg(kind) \in Seq(Flight) /\ Rx(kind) \in Seq(Flight)
    BY NewIsFlight DEF QueueType
  <2>2. ASSUME NEW g \in Seq(Flight), NEW h \in Seq(Flight),
               queue' = [queue EXCEPT ![tx] = g, ![rx] = h]
        PROVE  QueueType'
    BY <2>2 DEF QueueType
  <2>3. CASE queue' = [queue EXCEPT ![tx] = <<>>]
    BY <2>3, FewerFlights
  <2>4. tx # rx /\ <<>> \in Seq(Flight)
    BY <1>2 DEF TwoWay
  <2>5. CASE queue' = [queue EXCEPT
                ![tx] = Append(@, NewFlight(p, "leg", lo, hi)),
                ![rx] = Append(@, NewFlight(p, IF wait THEN "wait" ELSE "async", rlo, rhi))]
    <3>1. queue' = [queue EXCEPT ![tx] = Leg("leg"),
                                 ![rx] = Rx(IF wait THEN "wait" ELSE "async")]
      BY <2>4, <2>5 DEF QueueType
    <3>2. Leg("leg") \in Seq(Flight) /\ Rx(IF wait THEN "wait" ELSE "async") \in Seq(Flight)
      BY <2>1 DEF Kinds
    <3> HIDE DEF Leg, Rx
    <3> QED
      BY <2>2, <3>1, <3>2
  <2>6. CASE queue' = [queue EXCEPT ![tx] = Append(@, NewFlight(p, "stranded", lo, hi)),
                                    ![rx] = <<>>]
    <3>1. queue' = [queue EXCEPT ![tx] = Leg("stranded"), ![rx] = <<>>]
      BY <2>4, <2>6 DEF QueueType
    <3>2. Leg("stranded") \in Seq(Flight)
      BY <2>1 DEF Kinds
    <3> HIDE DEF Leg, Rx
    <3> QED
      BY <2>2, <2>4, <3>1, <3>2
  <2> QED
    BY <1>2, <2>3, <2>5, <2>6 DEF TwoWay
<1>3. ASSUME NEW p \in Procs, TransferCall(p) PROVE QueueType'
  BY <1>1, <1>2, <1>3 DEF TransferCall
<1>4. ASSUME NEW c \in Chans,
             Complete(c) \/ Timeout(c) \/ \E p \in Procs : Stop(p, c)
      PROVE  QueueType'
  BY <1>4, FewerFlights DEF Complete, Timeout, Stop
<1>5. ASSUME UNCHANGED queue PROVE QueueType'
  BY <1>5 DEF QueueType
<1> QED
  BY <1>3, <1>4, <1>5, OrphanedFlights DEF UseNext, useVars, BufferCall, Free

(* Type correctness of transfers and buffers together (axidma_dma.c,       *)
(* axidma_chrdev.c), whatever the clients do: a transfer's memory is a     *)
(* buffer that was made, or one that was imported.                         *)
THEOREM UseTypeCorrect == UseSpec => []UseTypeOK
<1>1. UseInit => TypeInv /\ QueueType
  BY InitInv DEF UseInit, BuffersInv, LayoutInv, TypeInv, QueueType
<1>2. TypeInv /\ QueueType /\ [UseNext]_useVars => (TypeInv /\ QueueType)'
  <2> SUFFICES ASSUME TypeInv, QueueType, [UseNext]_useVars
               PROVE  TypeInv' /\ QueueType'
    OBVIOUS
  <2>1. TypeInv'
    BY UseStepIsStep, TypeStep
  <2>2. QueueType'
    BY QueueStep DEF TypeInv
  <2> QED
    BY <2>1, <2>2
<1>3. TypeInv /\ QueueType => UseTypeOK
  BY DEF TypeInv, QueueType, UseTypeOK
<1> QED
  BY <1>1, <1>2, <1>3, PTL DEF UseSpec

-----------------------------------------------------------------------------
(* Where the transfers' memory is.                                         *)

(* Held references only grow.                                              *)
LEMMA HeldGrows ==
  ASSUME BuffersInv, HeldInv, BuffersInv', HeldInv', [Next]_vars,
         NEW b \in Bufs, held[b]["map"] > 0
  PROVE  held'[b]["map"] > 0
<1>1. CASE UNCHANGED held
  BY <1>1
<1>2. ASSUME NEW p \in Procs, NEW m \in imports, Register(p, m)
      PROVE  held'[b]["map"] > 0
  <2>1. held \in [Bufs -> [Refs -> Nat]] /\ m.buf \in Bufs /\ "map" \in Refs
    BY DEF BuffersInv, TypeOK, Import, Refs
  <2>2. CASE held' = [held EXCEPT ![m.buf] = [r \in Refs |-> @[r] + 1]]
    BY <2>1, <2>2
  <2>3. ASSUME NEW at \in Failures,
               held' = [held EXCEPT ![m.buf] =
                 [r \in Refs |-> @[r] + (IF r \in Taken(at) \ Undo(at) THEN 1 ELSE 0)]]
        PROVE  held'[b]["map"] > 0
    <3>1. Taken(at) \ Undo(at) = {}
      BY NothingKept
    <3> QED
      BY <2>1, <2>3, <3>1
  <2> QED
    BY <1>2, <2>2, <2>3 DEF Register
<1>3. ASSUME NEW p \in Procs,
             \/ \E root, excl \in BOOLEAN : Open(p, root, excl)
             \/ Close(p)
             \/ \E a \in Addr : Unregister(p, a)
             \/ \E lo, hi \in Addr : Mmap(p, lo, hi) \/ Munmap(p, lo, hi)
             \/ Exit(p)
             \/ \E x \in Bufs, lo \in Addr : MapOther(p, x, lo)
      PROVE  UNCHANGED held
  BY <1>3 DEF Open, Close, Unregister, Mmap, Munmap, Exit, MapOther, importVars
<1> QED
  BY <1>1, <1>2, <1>3 DEF Next, vars, importVars

(* What a transfer is given when it starts.                                *)
LEMMA NewIsPlaced ==
  ASSUME UseInv, OneProcess, NEW p \in Procs, NEW kind \in Kinds,
         NEW lo \in Addr, NEW hi \in Addr, lo < hi, ToDma(lo, hi) # NoAddress
  PROVE  Placed(NewFlight(p, kind, lo, hi))
<1> DEFINE own      == {n \in dmabuf_list : Covers(alloc[n], lo, hi)}
           imported == {n \in external_dmabufs : Covers(ext[n], lo, hi)}
           f        == NewFlight(p, kind, lo, hi)
<1>0. /\ dmabuf_list \subseteq Allocs /\ external_dmabufs \subseteq Regs
      /\ ext \in [Regs -> Ext] /\ vmas \subseteq Vma
  BY DEF UseInv, BuffersInv, TypeOK
<1>1. /\ f.kind = kind /\ f.task = p /\ f.gone = FALSE /\ f.lo = lo /\ f.hi = hi
      /\ f.mem = ToDma(lo, hi).mem
  BY DEF NewFlight
<1>5. f \in Flight
  BY NewIsFlight DEF UseInv, BuffersInv
<1>2. CASE own # {}
  <2> DEFINE a == Newest(own)
  <2>2. a \in own
    BY <1>0, <1>2, NewestIsIn, BufferConstants DEF Allocs
  <2>3. f.mem = <<"own", a>>
    BY <1>1, <1>2 DEF ToDma
  <2>4. PICK v \in vmas : v.data = a
    BY <2>2 DEF UseInv, BuffersInv, BuffersAreTheMappings
  <2>5. alloc[a] = [user_addr |-> v.lo, size |-> v.hi - v.lo]
    BY <2>4 DEF UseInv, BuffersInv, EntryInv
  <2>6. v.proc = p /\ v.lo \in Nat /\ v.hi \in Nat /\ lo \in Nat /\ hi \in Nat
    BY <1>0, BufferConstants DEF OneProcess, Vma, Addr
  <2>7. Inside(f, v.lo, v.hi)
    BY <1>1, <2>2, <2>5, <2>6 DEF Covers, Inside
  <2>9. f.mem[1] = "own" /\ f.mem[2] = a
    BY <2>3
  <2>10. v.proc = f.task /\ v.data = f.mem[2] /\ ~f.gone
    BY <1>1, <2>4, <2>6, <2>9
  <2>11. Placed(f)
    <3> HIDE DEF a, f
    <3> QED
      BY <1>1, <1>5, <2>4, <2>7, <2>9, <2>10 DEF Placed
  <2> QED
    BY <2>11
<1>3. CASE own = {} /\ imported # {}
  <2> DEFINE x == Newest(imported)
  <2>1. x \in imported
    BY <1>0, <1>3, NewestIsIn, BufferConstants DEF Regs
  <2>2. f.mem = <<"imported", ext[x].buf>>
    BY <1>1, <1>3 DEF ToDma
  <2>3. ext[x].buf \in Bufs
    BY <1>0, <2>1 DEF Ext
  <2>4. held[ext[x].buf]["map"] > 0
    <3> DEFINE b == ext[x].buf
    <3>1. x \in Entries(b) /\ IsFiniteSet(Entries(b))
      BY <2>1, EntriesFinite DEF Entries, UseInv, BuffersInv
    <3>2. Cardinality(Entries(b)) \in Nat /\ Cardinality(Entries(b)) # 0
      BY <3>1, FS_EmptySet, FS_CardinalityType
    <3> QED
      BY <2>3, <3>2 DEF UseInv, HeldInv, HeldForEntries, Entries, Refs
  <2> QED
    BY <1>1, <1>5, <2>2, <2>4 DEF Placed
<1> QED
  BY <1>2, <1>3 DEF ToDma

(* What transfers in flight keep while a step takes nothing from them.     *)
LEMMA StillPlaced ==
  ASSUME UseInv, BuffersInv', HeldInv', [Next]_vars, vmas \subseteq vmas',
         NEW f, Placed(f)
  PROVE  Placed(f)'
<1>1. CASE f.mem[1] = "imported"
  <2>1. f.mem \in {NoAddress.mem} \cup ({"own"} \X Allocs) \cup ({"imported"} \X Bufs)
    BY DEF Placed, Flight, Memory
  <2>2. NoAddress.mem[1] = "none"
    BY DEF NoAddress
  <2>3. f.mem[2] \in Bufs
    BY <1>1, <2>1, <2>2
  <2>4. held[f.mem[2]]["map"] > 0
    BY <1>1 DEF Placed
  <2> QED
    BY <1>1, <2>3, <2>4, HeldGrows DEF Placed, UseInv
<1>2. CASE f.mem[1] # "imported"
  BY <1>2 DEF Placed
<1> QED
  BY <1>1, <1>2

-----------------------------------------------------------------------------
(* The steps.                                                              *)

LEMMA BuffersSide ==
  ASSUME UseInv, ~PartialUnmap, OneProcess, [UseNext]_useVars
  PROVE  [Next]_vars /\ BuffersInv' /\ ImportInv' /\ HeldInv'
BY UseStepIsStep, BuffersStep, ImportStep, HeldStep DEF UseInv, BuffersInv

(* A step that starts, ends or drops transfers.                            *)
LEMMA TransferStep ==
  ASSUME UseInv, ~PartialUnmap, OneProcess, UNCHANGED vars, QueueType',
         \A f \in InFlight' : f \in InFlight \/ Placed(f)
  PROVE  UseInv'
<1>1. BuffersInv' /\ ImportInv' /\ HeldInv'
  BY BuffersStep, ImportStep, HeldStep DEF UseInv, BuffersInv
<1>2. \A f \in InFlight' : Placed(f)
  BY DEF UseInv
<1>3. \A f : Placed(f) => Placed(f)'
  BY DEF Placed, vars, importVars
<1> QED
  BY <1>1, <1>2, <1>3 DEF UseInv

LEMMA CallStep ==
  ASSUME UseInv, ~PartialUnmap, OneProcess, NEW p \in Procs, TransferCall(p)
  PROVE  UseInv'
<1>0. UNCHANGED vars /\ QueueType
  BY DEF TransferCall, OneWay, Video, TwoWay, UseInv
<1>1. ASSUME NEW c \in Chans, NEW kind \in Kinds, NEW lo \in Addr, NEW hi \in Addr,
             lo < hi, ToDma(lo, hi) # NoAddress,
             queue' = [queue EXCEPT ![c] = Append(@, NewFlight(p, kind, lo, hi))]
      PROVE  UseInv'
  <2>1. Placed(NewFlight(p, kind, lo, hi))
    BY <1>1, NewIsPlaced
  <2>2. NewFlight(p, kind, lo, hi) \in Flight
    BY <2>1 DEF Placed
  <2> QED
    BY <1>0, <1>1, <2>1, <2>2, AppendFlight, TransferStep
<1>4. ASSUME NEW c \in Chans, queue' = [queue EXCEPT ![c] = <<>>]
      PROVE  UseInv'
  BY <1>0, <1>4, FewerFlights, TransferStep
<1>2. ASSUME NEW c \in Chans, NEW lo \in Addr, NEW hi \in Addr, NEW wait \in BOOLEAN,
             OneWay(p, c, lo, hi, wait) \/ Video(p, c, lo, hi)
      PROVE  UseInv'
  BY <1>1, <1>2, <1>4 DEF OneWay, Video, Kinds
<1>3. ASSUME NEW tx \in Chans, NEW rx \in Chans, NEW lo \in Addr, NEW hi \in Addr,
             NEW rlo \in Addr, NEW rhi \in Addr, NEW wait \in BOOLEAN,
             TwoWay(p, tx, rx, lo, hi, rlo, rhi, wait)
      PROVE  UseInv'
  <2> DEFINE kind == IF wait THEN "wait" ELSE "async"
             g == NewFlight(p, "leg", lo, hi)
             h == NewFlight(p, kind, rlo, rhi)
  <2>1. /\ tx # rx /\ lo < hi /\ rlo < rhi
        /\ ToDma(lo, hi) # NoAddress /\ ToDma(rlo, rhi) # NoAddress
    BY <1>3 DEF TwoWay
  <2>4. CASE queue' = [queue EXCEPT ![tx] = <<>>]
    BY <1>4, <2>4
  <2>2. CASE queue' = [queue EXCEPT ![tx] = Append(@, NewFlight(p, "stranded", lo, hi)),
                                    ![rx] = <<>>]
    <3> DEFINE s == NewFlight(p, "stranded", lo, hi)
    <3>1. Placed(s)
      BY <2>1, NewIsPlaced DEF Kinds
    <3>2. s \in Flight
      BY <3>1 DEF Placed
    <3> HIDE DEF s
    <3>3. queue' = [d \in Chans |-> IF d = tx THEN Append(queue[tx], s)
                                   ELSE IF d = rx THEN <<>> ELSE queue[d]]
      BY <1>0, <2>1, <2>2 DEF QueueType, s
    <3>4. QueueType'
      BY <1>0, <3>2, <3>3 DEF QueueType
    <3>5. ASSUME NEW d \in Chans, NEW i \in DOMAIN queue'[d]
          PROVE  queue'[d][i] = s \/ queue'[d][i] \in InFlight
      <4>1. queue[d] \in Seq(Flight) /\ DOMAIN queue[d] = 1..Len(queue[d])
        BY <1>0 DEF QueueType
      <4>2. CASE d = tx
        <5>1. queue'[d] = Append(queue[d], s) /\ i \in 1..(Len(queue[d]) + 1)
          BY <3>2, <3>3, <4>1, <4>2
        <5>2. CASE i = Len(queue[d]) + 1
          BY <3>2, <4>1, <5>1, <5>2
        <5>3. CASE i # Len(queue[d]) + 1
          <6>1. i \in DOMAIN queue[d] /\ queue'[d][i] = queue[d][i]
            BY <3>2, <4>1, <5>1, <5>3
          <6> QED
            BY <6>1, InFlightIs
        <5> QED
          BY <5>2, <5>3
      <4>3. CASE d # tx
        BY <3>3, <4>3, InFlightIs
      <4> QED
        BY <4>2, <4>3
    <3>6. \A f \in InFlight' : f = s \/ f \in InFlight
      <4> SUFFICES ASSUME NEW f \in InFlight' PROVE f = s \/ f \in InFlight
        OBVIOUS
      <4>1. PICK d \in Chans : \E i \in DOMAIN queue'[d] : f = queue'[d][i]
        BY DEF InFlight
      <4> QED
        BY <3>5, <4>1
    <3> QED
      BY <1>0, <3>1, <3>4, <3>6, TransferStep
  <2>3. CASE queue' = [queue EXCEPT ![tx] = Append(@, g), ![rx] = Append(@, h)]
    <3>1. kind \in Kinds /\ "leg" \in Kinds
      BY DEF Kinds
    <3> HIDE DEF kind
    <3>2. Placed(g) /\ Placed(h)
      BY <2>1, <3>1, NewIsPlaced
    <3>3. g \in Flight /\ h \in Flight
      BY <3>2 DEF Placed
    <3> HIDE DEF g, h
    <3>4. QueueType'
      <4>1. Append(queue[tx], g) \in Seq(Flight) /\ Append(queue[rx], h) \in Seq(Flight)
        BY <1>0, <3>3 DEF QueueType
      <4>2. queue' = [d \in Chans |-> IF d = tx THEN Append(queue[tx], g)
                                     ELSE IF d = rx THEN Append(queue[rx], h)
                                     ELSE queue[d]]
        BY <1>0, <2>1, <2>3 DEF QueueType
      <4> QED
        BY <1>0, <4>1, <4>2 DEF QueueType
    <3>5. \A f \in InFlight' : f = g \/ f = h \/ f \in InFlight
      <4>1. ASSUME NEW d \in Chans, NEW i \in DOMAIN queue'[d]
            PROVE  \/ queue'[d][i] = g \/ queue'[d][i] = h
                   \/ \E j \in DOMAIN queue[d] : queue'[d][i] = queue[d][j]
        <5>1. \A x \in Flight : queue'[d] = Append(queue[d], x) =>
                 queue'[d][i] = x \/ \E j \in DOMAIN queue[d] : queue'[d][i] = queue[d][j]
          <6> SUFFICES ASSUME NEW x \in Flight, queue'[d] = Append(queue[d], x)
                       PROVE  queue'[d][i] = x
                              \/ \E j \in DOMAIN queue[d] : queue'[d][i] = queue[d][j]
            OBVIOUS
          <6>1. queue[d] \in Seq(Flight)
            BY <1>0 DEF QueueType
          <6>2. i \in 1..(Len(queue[d]) + 1) /\ DOMAIN queue[d] = 1..Len(queue[d])
            BY <6>1
          <6> QED
            BY <6>1, <6>2
        <5>2. CASE d = tx
          BY <1>0, <2>1, <2>3, <3>3, <5>1, <5>2 DEF QueueType
        <5>3. CASE d = rx
          BY <1>0, <2>1, <2>3, <3>3, <5>1, <5>3 DEF QueueType
        <5>4. CASE d # tx /\ d # rx
          BY <1>0, <2>3, <5>4 DEF QueueType
        <5> QED
          BY <5>2, <5>3, <5>4
      <4>2. ASSUME NEW f \in InFlight'
            PROVE  f = g \/ f = h \/ f \in InFlight
        <5>1. PICK d \in Chans : \E i \in DOMAIN queue'[d] : f = queue'[d][i]
          BY <4>2 DEF InFlight
        <5>2. PICK i \in DOMAIN queue'[d] : f = queue'[d][i]
          BY <5>1
        <5> QED
          BY <4>1, <5>2, InFlightIs
      <4> QED
        BY <4>2
    <3> QED
      BY <1>0, <3>2, <3>4, <3>5, TransferStep
  <2> QED
    BY <1>3, <2>2, <2>3, <2>4 DEF TwoWay
<1> QED
  BY <1>2, <1>3 DEF TransferCall

(* The calls that make buffers take none away.                             *)
LEMMA BufferCallStep ==
  ASSUME UseInv, ~PartialUnmap, OneProcess, [UseNext]_useVars,
         NEW p \in Procs, BufferCall(p)
  PROVE  UseInv'
<1>1. vmas \subseteq vmas'
  BY DEF BufferCall, Open, Close, Mmap, MapOther, Register, Unregister
<1>2. UNCHANGED queue
  BY DEF BufferCall
<1>3. InFlight' = InFlight /\ QueueType'
  BY <1>2 DEF InFlight, UseInv, QueueType
<1>4. \A f \in InFlight : Placed(f)'
  BY <1>1, BuffersSide, StillPlaced DEF UseInv
<1> QED
  BY <1>3, <1>4, BuffersSide DEF UseInv

(* A careful client unmaps nothing that its transfers use.                 *)
LEMMA FreeStep ==
  ASSUME UseInv, ~PartialUnmap, OneProcess, Careful, [UseNext]_useVars,
         NEW p \in Procs, NEW lo \in Addr, NEW hi \in Addr, Free(p, lo, hi)
  PROVE  UseInv'
<1> DEFINE cut == {v \in vmas : v.proc = p /\ Overlaps(v, lo, hi)}
<1>1. UNCHANGED queue
  BY DEF Free
<1>2. InFlight' = InFlight /\ QueueType'
  BY <1>1 DEF InFlight, UseInv, QueueType
<1>3. Munmap(p, lo, hi)
  BY DEF Free
<1>4. vmas' = vmas \ cut /\ held' = held
  BY <1>3, MunmapWhole DEF UseInv, BuffersInv, Munmap, importVars
<1>5. \A v \in cut : Inside(v, lo, hi)
  BY <1>3 DEF Munmap
<1>6. ASSUME NEW f \in InFlight PROVE Placed(f)'
  <2>1. Placed(f)
    BY DEF UseInv
  <2>2. f.task = p
    BY <2>1 DEF Placed, Flight, OneProcess
  <2>3. f.kind # "wait"
    BY <2>2 DEF Free, Busy
  <2>4. ASSUME f.mem[1] = "own", f.kind \notin {"leg", "stranded"}, ~f.gone,
               NEW v \in vmas, v.proc = f.task, v.data = f.mem[2], Inside(f, v.lo, v.hi)
        PROVE  v \in vmas'
    <3>1. Known(f)
      BY <2>1, <2>3, <2>4 DEF Known, Placed, Flight, Kinds
    <3>2. ~Overlaps(f, lo, hi)
      BY <2>2, <2>4, <3>1 DEF Free
    <3>3. v \notin cut
      <4>1. /\ f.lo \in Nat /\ f.hi \in Nat /\ lo \in Nat /\ hi \in Nat
            /\ v.lo \in Nat /\ v.hi \in Nat /\ f.lo < f.hi
        BY <2>1, BufferConstants DEF Placed, Flight, Addr, UseInv, BuffersInv, TypeOK, Vma
      <4> QED
        BY <1>5, <2>4, <3>2, <4>1 DEF Inside, Overlaps
    <3> QED
      BY <1>4, <3>3
  <2> QED
    BY <1>4, <2>1, <2>3, <2>4 DEF Placed
<1> QED
  BY <1>2, <1>6, BuffersSide DEF UseInv

(* A process ends between its calls; its transfers are then nobody's.      *)
LEMMA EndStep ==
  ASSUME UseInv, ~PartialUnmap, OneProcess, [UseNext]_useVars,
         NEW p \in Procs, End(p)
  PROVE  UseInv'
<1> DEFINE Orphan(f) == [f EXCEPT !.gone = TRUE]
<1>1. queue' = [c \in Chans |-> [i \in DOMAIN queue[c] |-> Orphan(queue[c][i])]]
  <2>1. \A f \in InFlight : f.task = p
    BY DEF UseInv, Placed, Flight, OneProcess
  <2>2. \A c \in Chans : \A i \in DOMAIN queue[c] : queue[c][i].task = p
    BY <2>1 DEF InFlight
  <2> QED
    BY <2>2 DEF End
<1>2. QueueType'
  BY OrphanedFlights DEF UseInv
<1>3. held' = held
  BY DEF End, Exit, importVars
<1>4. \A f \in InFlight' : \E g \in InFlight : f = Orphan(g)
  BY <1>1 DEF InFlight
<1>5. ASSUME NEW g \in InFlight PROVE Placed(Orphan(g))'
  <2>1. Placed(g) /\ g \in Flight
    BY DEF UseInv, Placed
  <2>2. g.kind # "wait"
    BY <2>1 DEF End, Busy, Placed, Flight, OneProcess
  <2>3. /\ Orphan(g) \in Flight /\ Orphan(g).lo = g.lo /\ Orphan(g).hi = g.hi
        /\ Orphan(g).mem = g.mem /\ Orphan(g).kind = g.kind /\ Orphan(g).gone
    BY <2>1 DEF Flight
  <2> HIDE DEF Orphan
  <2> QED
    BY <1>3, <2>1, <2>2, <2>3 DEF Placed
<1> QED
  BY <1>2, <1>4, <1>5, BuffersSide DEF UseInv

LEMMA UseStep ==
  ASSUME UseInv, ~PartialUnmap, OneProcess, Careful, [UseNext]_useVars
  PROVE  UseInv'
<1>1. ASSUME NEW c \in Chans,
             Complete(c) \/ Timeout(c) \/ \E p \in Procs : Stop(p, c)
      PROVE  UseInv'
  <2>1. UNCHANGED vars /\ QueueType
    BY <1>1 DEF Complete, Timeout, Stop, UseInv
  <2>2. QueueType' /\ InFlight' \subseteq InFlight
    BY <1>1, <2>1, FewerFlights DEF Complete, Timeout, Stop
  <2> QED
    BY <2>1, <2>2, TransferStep
<1>2. CASE UNCHANGED useVars
  <2>1. UNCHANGED vars /\ QueueType' /\ InFlight' = InFlight
    BY <1>2 DEF useVars, UseInv, QueueType, InFlight
  <2> QED
    BY <2>1, TransferStep
<1> QED
  BY <1>1, <1>2, CallStep, BufferCallStep, FreeStep, EndStep DEF UseNext

(* With one process, whole unmaps and a client that keeps the buffers of   *)
(* its transfers mapped, the hardware works on held memory only, apart     *)
(* from legs nobody waits for and transfers whose process has ended        *)
(* (axidma_dma.c:506-547, axidma_chrdev.c:206-222), for any number of      *)
(* buffers, channels and transfers.                                        *)
THEOREM TransfersStayInMemory ==
  ASSUME ~PartialUnmap, OneProcess, Careful
  PROVE  UseSpec => []TransfersMeetMemory
<1>1. UseInit => UseInv
  <2> SUFFICES ASSUME UseInit PROVE UseInv
    OBVIOUS
  <2>1. BuffersInv /\ ImportInv /\ HeldInv
    <3>1. \A b \in Bufs : Entries(b) = {}
      BY DEF UseInit, Init, Entries
    <3>2. \A b \in Bufs, r \in Refs : held[b][r] = 0
      BY DEF UseInit, Init
    <3>3. HeldInv
      BY <3>1, <3>2, FS_EmptySet DEF UseInit, Init, HeldInv, HeldForEntries, Entries
    <3> QED
      BY <3>3, InitInv DEF UseInit
  <2>2. QueueType /\ InFlight = {}
    BY DEF UseInit, QueueType, InFlight
  <2> QED
    BY <2>1, <2>2 DEF UseInv
<1>2. UseInv /\ [UseNext]_useVars => UseInv'
  BY UseStep
<1>3. UseInv => TransfersMeetMemory
  <2> SUFFICES ASSUME UseInv, NEW f \in InFlight
               PROVE  \/ Live(f)
                      \/ f.kind \in {"leg", "stranded"} /\ f.mem[1] = "own"
                      \/ f.gone /\ f.kind # "wait" /\ f.mem[1] = "own"
    BY DEF TransfersMeetMemory
  <2>1. Placed(f)
    BY DEF UseInv
  <2>2. \A v \in vmas : v.data \in memory
    BY DEF UseInv, BuffersInv, BuffersAreTheMappings
  <2> QED
    BY <2>1, <2>2 DEF Placed, Live
<1> QED
  BY <1>1, <1>2, <1>3, PTL DEF UseSpec

=============================================================================
