--------------------------- MODULE Examples_proofs ---------------------------
(***************************************************************************)
(* Theorems about the example programs, for all sizes, files, frames and   *)
(* numbers of rounds.                                                      *)
(***************************************************************************)
EXTENDS Examples, Bits, SequenceTheorems, WellFoundedInduction, TLAPS

(* A set of natural numbers has a least element: how what a recursive      *)
(* function computes is shown below.                                       *)
LEMMA HasLeast ==
  ASSUME NEW S \in SUBSET Nat, S # {}
  PROVE  \E m \in S : \A k \in S : m <= k
<1> DEFINE R == {ss \in Nat \X Nat : ss[1] < ss[2]}
<1>1. IsWellFoundedOn(R, Nat)
  BY NatLessThanWellFounded DEF OpToRel
<1>2. PICK m \in S : \A k \in S : ~ (<<k, m>> \in R)
  BY <1>1, WFMin
<1>3. \A k \in S : ~(k < m)
  BY <1>2
<1> QED
  BY <1>3

-----------------------------------------------------------------------------
(* The numbers that the examples take apart into bits.                     *)

(* What the loop of `field' goes through, from the last bit down.          *)
LEMMA FieldLoop ==
  ASSUME NEW a, NEW to \in Nat, \A i \in 0..to : a[i] \in Nat
  PROVE  \E temp \in [0..(to + 1) -> Nat] :
            /\ field(a, 0, to) = temp[0] /\ temp[to + 1] = 0
            /\ \A i \in 0..to : temp[i] = 2 * temp[i + 1] + a[i]
<1> DEFINE Loop(g, j) ==
             /\ g[to + 1] = 0
             /\ \A i \in (to + 1 - j)..to : g[i] = 2 * g[i + 1] + a[i]
           Bad == {j \in Nat : j <= to + 1 /\ ~ \E g \in [0..(to + 1) -> Nat] : Loop(g, j)}
           Body(g) == [i \in 0..(to + 1) |-> IF i > to THEN 0 ELSE 2 * g[i + 1] + a[i]]
           t == CHOOSE g : g = Body(g)
<1>1. Bad = {}
  <2> SUFFICES ASSUME Bad # {} PROVE FALSE
    OBVIOUS
  <2>1. PICK n \in Bad : \A k \in Bad : n <= k
    BY HasLeast
  <2>2. n # 0
    <3> DEFINE z == [i \in 0..(to + 1) |-> 0]
    <3>1. z \in [0..(to + 1) -> Nat] /\ Loop(z, 0)
      OBVIOUS
    <3> QED
      BY <3>1
  <2>3. n - 1 \in Nat /\ n - 1 <= to + 1 /\ ~(n <= n - 1) /\ to + 1 - n \in 0..to
    BY <2>1, <2>2
  <2>4. PICK g \in [0..(to + 1) -> Nat] : Loop(g, n - 1)
    BY <2>1, <2>3
  <2> DEFINE i0 == to + 1 - n
             v == 2 * g[i0 + 1] + a[i0]
             h == [g EXCEPT ![i0] = v]
  <2>5. i0 \in 0..to /\ i0 + 1 \in 0..(to + 1) /\ i0 # to + 1 /\ v \in Nat
    BY <2>3
  <2>6. h \in [0..(to + 1) -> Nat] /\ h[to + 1] = 0
    BY <2>4, <2>5
  <2>7. ASSUME NEW i \in (to + 1 - n)..to PROVE h[i] = 2 * h[i + 1] + a[i]
    <3>1. CASE i = i0
      <4>1. h[i] = v /\ h[i + 1] = g[i0 + 1]
        BY <2>5, <3>1
      <4> QED
        BY <3>1, <4>1
    <3>2. CASE i # i0
      <4>1. i \in (to + 1 - (n - 1))..to /\ i + 1 # i0 /\ i \in 0..(to + 1) /\ i + 1 \in 0..(to + 1)
        BY <2>3, <3>2
      <4>2. h[i] = g[i] /\ h[i + 1] = g[i + 1]
        BY <3>2, <4>1
      <4> QED
        BY <2>4, <4>1, <4>2
    <3> QED
      BY <3>1, <3>2
  <2> QED
    BY <2>1, <2>6, <2>7
<1>2. to + 1 \in Nat /\ to + 1 <= to + 1 /\ to + 1 - (to + 1) = 0
  OBVIOUS
<1>3. PICK g \in [0..(to + 1) -> Nat] : Loop(g, to + 1)
  BY <1>1, <1>2
<1>4. g = Body(g)
  <2>1. \A i \in 0..(to + 1) : g[i] = IF i > to THEN 0 ELSE 2 * g[i + 1] + a[i]
    BY <1>3
  <2> QED
    BY <2>1
<1>5. t = Body(t)
  BY <1>4
<1>6. field(a, 0, to) = t[0]
  BY DEF field
<1> HIDE DEF t
<1>7. /\ t[to + 1] = 0 /\ DOMAIN t = 0..(to + 1)
      /\ \A i \in 0..to : t[i] = 2 * t[i + 1] + a[i]
  BY <1>5
<1>8. t \in [0..(to + 1) -> Nat]
  <2> DEFINE Wrong == {j \in Nat : j <= to + 1 /\ t[to + 1 - j] \notin Nat}
  <2>1. Wrong = {}
    <3> SUFFICES ASSUME Wrong # {} PROVE FALSE
      OBVIOUS
    <3>1. PICK n \in Wrong : \A k \in Wrong : n <= k
      BY HasLeast
    <3>2. n # 0
      BY <1>7, <3>1
    <3>3. /\ n - 1 \in Nat /\ n - 1 <= to + 1 /\ ~(n <= n - 1)
          /\ to + 1 - n \in 0..to /\ to + 1 - (n - 1) = (to + 1 - n) + 1
      BY <3>1, <3>2
    <3>4. t[(to + 1 - n) + 1] \in Nat
      BY <3>1, <3>3
    <3>5. t[to + 1 - n] = 2 * t[(to + 1 - n) + 1] + a[to + 1 - n] /\ a[to + 1 - n] \in Nat
      BY <1>7, <3>3
    <3>6. \A x, y \in Nat : 2 * x + y \in Nat
      OBVIOUS
    <3>7. t[to + 1 - n] \in Nat
      BY <3>4, <3>5, <3>6, Zenon
    <3> QED
      BY <3>1, <3>7
  <2>2. ASSUME NEW i \in 0..(to + 1) PROVE t[i] \in Nat
    <3>1. to + 1 - i \in Nat /\ to + 1 - i <= to + 1 /\ to + 1 - (to + 1 - i) = i
      OBVIOUS
    <3> QED
      BY <2>1, <3>1
  <2>3. t = [i \in 0..(to + 1) |-> t[i]]
    BY <1>5
  <2> QED
    BY <2>2, <2>3
<1> QED
  BY <1>6, <1>7, <1>8

(* A bit is 0 or 1.                                                        *)
LEMMA BitIs ==
  ASSUME NEW n \in Nat, NEW k \in 0..30
  PROVE  bit(n, k) \in {0, 1}
<1>1. \A d \in Nat \ {0} : (n \div d) % 2 \in {0, 1}
  OBVIOUS
<1> QED
  BY <1>1, Powers DEF bit

(* Eight bits make a byte.                                                 *)
LEMMA ByteIs ==
  ASSUME NEW a, \A i \in 0..7 : a[i] \in {0, 1}
  PROVE  field(a, 0, 7) \in 0..255
<1>1. PICK temp \in [0..(7 + 1) -> Nat] :
         /\ field(a, 0, 7) = temp[0] /\ temp[7 + 1] = 0
         /\ \A i \in 0..7 : temp[i] = 2 * temp[i + 1] + a[i]
  <2>1. 7 \in Nat /\ \A i \in 0..7 : a[i] \in Nat
    OBVIOUS
  <2> QED
    BY <2>1, FieldLoop, Zenon
<1>2. /\ temp[8] = 0 /\ \A i \in 0..8 : temp[i] \in Nat
      /\ \A i \in 0..7 : a[i] \in 0..1 /\ temp[i] = 2 * temp[i + 1] + a[i]
  <2>1. 7 + 1 = 8
    OBVIOUS
  <2> QED
    BY <1>1, <2>1
<1>3. temp[7] \in 0..1 /\ temp[6] \in 0..3 /\ temp[5] \in 0..7 /\ temp[4] \in 0..15
  <2>1. temp[7] = 2 * temp[8] + a[7] /\ temp[8] = 0 /\ a[7] \in 0..1
    BY <1>2
  <2>2. temp[7] \in 0..1
    BY <2>1
  <2>3. temp[6] = 2 * temp[7] + a[6] /\ a[6] \in 0..1
    BY <1>2
  <2>4. temp[6] \in 0..3
    BY <2>2, <2>3
  <2>5. temp[5] = 2 * temp[6] + a[5] /\ a[5] \in 0..1
    BY <1>2
  <2>6. temp[5] \in 0..7
    BY <2>4, <2>5
  <2>7. temp[4] = 2 * temp[5] + a[4] /\ a[4] \in 0..1
    BY <1>2
  <2> QED
    BY <2>2, <2>4, <2>6, <2>7
<1>4. temp[3] \in 0..31 /\ temp[2] \in 0..63 /\ temp[1] \in 0..127 /\ temp[0] \in 0..255
  <2>1. temp[3] = 2 * temp[4] + a[3] /\ a[3] \in 0..1
    BY <1>2
  <2>2. temp[3] \in 0..31
    BY <1>3, <2>1
  <2>3. temp[2] = 2 * temp[3] + a[2] /\ a[2] \in 0..1
    BY <1>2
  <2>4. temp[2] \in 0..63
    BY <2>2, <2>3
  <2>5. temp[1] = 2 * temp[2] + a[1] /\ a[1] \in 0..1
    BY <1>2
  <2>6. temp[1] \in 0..127
    BY <2>4, <2>5
  <2>7. temp[0] = 2 * temp[1] + a[0] /\ a[0] \in 0..1
    BY <1>2
  <2> QED
    BY <2>2, <2>4, <2>6, <2>7
<1> QED
  BY <1>1, <1>4

(* A number below 2^28 has no bit 28.                                      *)
LEMMA SmallQuotient ==
  ASSUME NEW n \in Nat, n < 268435456
  PROVE  n \div 268435456 = 0
BY SMT

(* 0x1234ACDE ^ n: the second of its two last bits is set if n ends in two *)
(* zero bits, and its bit 28 if n is below that.                           *)
LEMMA XorIs ==
  ASSUME NEW n \in Nat
  PROVE  /\ xor(305442014, n) \in Nat
         /\ n % 4 = 0 => xor(305442014, n) % 4 = 2
         /\ n < 268435456 => xor(305442014, n) > 255
<1> DEFINE a == [k \in 0..30 |-> (bit(305442014, k) + bit(n, k)) % 2]
<1>1. \A k \in 0..30 : a[k] \in {0, 1}
  <2>1. \A k \in 0..30 : bit(305442014, k) \in {0, 1} /\ bit(n, k) \in {0, 1}
    BY BitIs, SMT
  <2> QED
    BY <2>1
<1>2. n % 4 = 0 => a[0] = 0 /\ a[1] = 1
  <2>1. bit(305442014, 0) = 0 /\ bit(305442014, 1) = 1
    BY Powers, SMT DEF bit
  <2>2. n % 4 = 0 => bit(n, 0) = 0 /\ bit(n, 1) = 0
    BY Powers, SMT DEF bit
  <2> QED
    BY <2>1, <2>2, SMT
<1>3. n < 268435456 => a[28] = 1
  <2>1. bit(305442014, 28) = 1
    BY Power28, SMT DEF bit
  <2>2. n < 268435456 => bit(n, 28) = 0
    BY Power28, SmallQuotient, SMT DEF bit
  <2> QED
    BY <2>1, <2>2, SMT
<1>4. xor(305442014, n) = field(a, 0, 30)
  BY SMT DEF xor
<1> HIDE DEF a
<1>5. PICK temp \in [0..(30 + 1) -> Nat] :
         /\ field(a, 0, 30) = temp[0] /\ temp[30 + 1] = 0
         /\ \A i \in 0..30 : temp[i] = 2 * temp[i + 1] + a[i]
  <2>1. 30 \in Nat /\ \A i \in 0..30 : a[i] \in Nat
    BY <1>1
  <2> QED
    BY <2>1, FieldLoop, Zenon
<1>6. /\ \A i \in 0..31 : temp[i] \in Nat
      /\ \A i \in 0..30 : a[i] \in 0..1 /\ temp[i] = 2 * temp[i + 1] + a[i]
  <2>1. 30 + 1 = 31
    OBVIOUS
  <2> QED
    BY <1>1, <1>5, <2>1
<1>7. n % 4 = 0 => temp[0] % 4 = 2
  <2>1. temp[0] = 2 * temp[1] + a[0] /\ temp[1] = 2 * temp[2] + a[1] /\ temp[2] \in Nat
    BY <1>6
  <2>2. \A m \in Nat : (2 * (2 * m + 1) + 0) % 4 = 2
    OBVIOUS
  <2> QED
    BY <1>2, <2>1, <2>2
<1>8. n < 268435456 => temp[0] > 255
  <2> SUFFICES ASSUME n < 268435456 PROVE temp[0] > 255
    BY SMT
  <2>1. \A i \in 0..30 : temp[i] \in Nat /\ temp[i + 1] \in Nat /\ temp[i] >= 2 * temp[i + 1]
    BY <1>6
  <2>2. temp[28] >= 1
    BY <1>3, <1>6, SMT
  <2>3. temp[27] >= 2 /\ temp[26] >= 4 /\ temp[25] >= 8 /\ temp[24] >= 16
    BY <2>1, <2>2
  <2>4. temp[23] >= 32 /\ temp[22] >= 64 /\ temp[21] >= 128 /\ temp[20] >= 256
    BY <2>1, <2>3
  <2>5. temp[19] >= 256 /\ temp[18] >= 256 /\ temp[17] >= 256 /\ temp[16] >= 256
    BY <2>1, <2>4
  <2>6. temp[15] >= 256 /\ temp[14] >= 256 /\ temp[13] >= 256 /\ temp[12] >= 256
    BY <2>1, <2>5
  <2>7. temp[11] >= 256 /\ temp[10] >= 256 /\ temp[9] >= 256 /\ temp[8] >= 256
    BY <2>1, <2>6
  <2>8. temp[7] >= 256 /\ temp[6] >= 256 /\ temp[5] >= 256 /\ temp[4] >= 256
    BY <2>1, <2>7
  <2>9. temp[3] >= 256 /\ temp[2] >= 256 /\ temp[1] >= 256 /\ temp[0] >= 256
    BY <2>1, <2>8
  <2> QED
    BY <1>6, <2>9
<1>9. temp[0] \in Nat /\ xor(305442014, n) = temp[0]
  BY <1>4, <1>5, <1>6, SMT
<1> QED
  BY <1>7, <1>8, <1>9, SMT

(* The buffers of interdma have a size.                                    *)
LEMMA MaxSize == InterDma!MAX_SIZE \in Nat
BY DEF InterDma!MAX_SIZE, InterDma!MAX_DATA_NUM, InterDma!LDPC_K

-----------------------------------------------------------------------------
(* axidma_display_image.                                                   *)

(* The steps that take something: what is held afterwards is what the next *)
(* step, or the label, expects.                                            *)
LEMMA DisplayTake ==
  ASSUME DisplayImage!DisplayInv, DisplayImage!Take
  PROVE  DisplayImage!DisplayInv'
<1>1. /\ DisplayImage!TypeOK /\ DisplayImage!LadderInv /\ DisplayImage!ReadInv
      /\ UNCHANGED <<channel, DisplayImage!file, DisplayImage!flag, display>>
  BY DEF DisplayImage!DisplayInv, DisplayImage!Take
<1>2. /\ m_rc = 0
      /\ \/ /\ m_pc = "open_image" /\ m_held = {}
            /\ \/ m_held' = {"image_fd"} /\ m_pc' = "open_axidma" /\ m_rc' = 0
               \/ m_held' = {} /\ m_pc' = "exit" /\ m_rc' = 1
         \/ /\ m_pc = "open_axidma" /\ m_held = {"image_fd"}
            /\ \/ m_held' = {"image_fd", "axidma_fd"} /\ m_pc' = "channel" /\ m_rc' = 0
               \/ m_held' = {"image_fd"} /\ m_pc' = "close_image" /\ m_rc' = 1
         \/ /\ m_pc = "mmap" /\ m_held = {"image_fd", "axidma_fd"}
            /\ \/ m_held' = {"image_fd", "axidma_fd", "image_buf"} /\ m_pc' = "fstat" /\ m_rc' = 0
               \/ m_held' = {"image_fd", "axidma_fd"} /\ m_pc' = "close_axidma" /\ m_rc' = 1
  BY <1>1 DEF DisplayImage!Take, DisplayImage!Steps, DisplayImage!Step, DisplayImage!Go,
     DisplayImage!Ret, DisplayImage!LadderInv, DisplayImage!HeldAt, DisplayImage!Labels
<1>3. DisplayImage!TypeOK'
  BY <1>1, <1>2 DEF DisplayImage!TypeOK, DisplayImage!file, DisplayImage!flag
<1>4. DisplayImage!LadderInv'
  BY <1>1, <1>2 DEF DisplayImage!LadderInv, DisplayImage!HeldAt, DisplayImage!Labels,
     DisplayImage!Behind, DisplayImage!Shown, DisplayImage!Left
<1>5. DisplayImage!ReadInv'
  BY <1>1, <1>2 DEF DisplayImage!ReadInv, DisplayImage!Labels, DisplayImage!Shown,
     DisplayImage!file, DisplayImage!flag
<1> QED
  BY <1>3, <1>4, <1>5 DEF DisplayImage!DisplayInv

(* The labels.                                                             *)
LEMMA DisplayGive ==
  ASSUME DisplayImage!DisplayInv, DisplayImage!Give
  PROVE  DisplayImage!DisplayInv'
<1>1. /\ DisplayImage!TypeOK /\ DisplayImage!LadderInv /\ DisplayImage!ReadInv
      /\ UNCHANGED <<m_rc, channel, DisplayImage!file, DisplayImage!flag, display>>
  BY DEF DisplayImage!DisplayInv, DisplayImage!Give
<1>2. \/ /\ m_pc = "free_image_buf" /\ channel # "default"
         /\ m_pc' = "close_axidma" /\ m_held' = {"image_fd", "axidma_fd"}
      \/ /\ m_pc = "close_axidma" /\ channel # "default"
         /\ m_pc' = "close_image" /\ m_held' = {"image_fd"}
      \/ /\ m_pc = "close_image"
         /\ m_pc' = "exit" /\ m_held' = DisplayImage!Left
  BY <1>1 DEF DisplayImage!Give, DisplayImage!Giving, DisplayImage!AfterGiving, DisplayImage!Go,
     DisplayImage!LadderInv, DisplayImage!HeldAt, DisplayImage!Left, DisplayImage!Behind
<1>3. DisplayImage!TypeOK'
  BY <1>1, <1>2 DEF DisplayImage!TypeOK, DisplayImage!file, DisplayImage!flag, DisplayImage!Left
<1>4. DisplayImage!LadderInv'
  BY <1>1, <1>2 DEF DisplayImage!LadderInv, DisplayImage!HeldAt, DisplayImage!Labels,
     DisplayImage!Behind, DisplayImage!Shown, DisplayImage!Left
<1>5. DisplayImage!ReadInv'
  BY <1>1, <1>2 DEF DisplayImage!ReadInv, DisplayImage!Labels, DisplayImage!Shown,
     DisplayImage!file, DisplayImage!flag
<1> QED
  BY <1>3, <1>4, <1>5 DEF DisplayImage!DisplayInv

(* The steps between taking and giving, and the signals.                   *)
LEMMA DisplayOthers ==
  ASSUME DisplayImage!DisplayInv,
         \/ DisplayImage!InstallHandlers \/ DisplayImage!ParseArgs \/ DisplayImage!FindChannel
         \/ DisplayImage!Fstat \/ DisplayImage!ReadSome \/ DisplayImage!ReadEnd
         \/ DisplayImage!ReadFails \/ DisplayImage!Video \/ DisplayImage!Check
         \/ DisplayImage!Suspend \/ DisplayImage!Stop
         \/ DisplayImage!Interrupt \/ DisplayImage!Kill \/ DisplayImage!CutShort
  PROVE  DisplayImage!DisplayInv'
<1> USE ExampleConstants
    DEF DisplayImage!DisplayInv, DisplayImage!TypeOK, DisplayImage!LadderInv, DisplayImage!ReadInv,
        DisplayImage!HeldAt, DisplayImage!Labels, DisplayImage!Behind, DisplayImage!Shown,
        DisplayImage!Left,
        DisplayImage!Go, DisplayImage!Ret, DisplayImage!file, DisplayImage!flag
<1>1. CASE DisplayImage!InstallHandlers
  BY <1>1 DEF DisplayImage!InstallHandlers
<1>2. CASE DisplayImage!ParseArgs
  BY <1>2 DEF DisplayImage!ParseArgs
<1>3. CASE DisplayImage!FindChannel
  BY <1>3 DEF DisplayImage!FindChannel
<1>4. CASE DisplayImage!Fstat
  BY <1>4 DEF DisplayImage!Fstat
<1>5. CASE DisplayImage!ReadSome
  BY <1>5 DEF DisplayImage!ReadSome
<1>6. CASE DisplayImage!ReadEnd
  BY <1>6 DEF DisplayImage!ReadEnd
<1>7. CASE DisplayImage!ReadFails
  BY <1>7 DEF DisplayImage!ReadFails
<1>8. CASE DisplayImage!Video
  <2>1. display' \in BOOLEAN
    BY <1>8, Zenon DEF DisplayImage!Video
  <2>2. /\ m_pc = "video" /\ UNCHANGED <<channel, d_length, read, d_cut, d_running, missed>>
        /\ \/ m_pc' = "check" /\ UNCHANGED <<m_held, m_rc>>
           \/ m_pc' = "free_image_buf" /\ m_rc' = -1 /\ UNCHANGED <<m_held, display>>
           \/ m_pc' = "killed" /\ m_held' = {} /\ UNCHANGED <<m_rc, display>>
    BY <1>8 DEF DisplayImage!Video, DisplayImage!Killed
  <2> QED
    BY <2>1, <2>2
<1>9. CASE DisplayImage!Check
  BY <1>9 DEF DisplayImage!Check
<1>10. CASE DisplayImage!Suspend
  BY <1>10 DEF DisplayImage!Suspend
<1>11. CASE DisplayImage!Stop
  <2>1. /\ m_pc = "stop" /\ UNCHANGED <<channel, d_length, read, d_cut, d_running, missed>>
        /\ \/ /\ m_pc' = "free_image_buf" /\ m_rc' = 0 /\ UNCHANGED m_held /\ ~display'
              /\ display' \in BOOLEAN
           \/ m_pc' = "free_image_buf" /\ m_rc' = -1 /\ UNCHANGED <<m_held, display>>
           \/ m_pc' = "killed" /\ m_held' = {} /\ UNCHANGED <<m_rc, display>>
    BY <1>11 DEF DisplayImage!Stop, DisplayImage!Killed
  <2> QED
    BY <2>1
<1>12. CASE DisplayImage!Interrupt
  BY <1>12 DEF DisplayImage!Interrupt, DisplayImage!Alive
<1>13. CASE DisplayImage!Kill
  BY <1>13 DEF DisplayImage!Kill, DisplayImage!Alive, DisplayImage!Killed
<1>14. CASE DisplayImage!CutShort
  BY <1>14 DEF DisplayImage!CutShort
<1> QED
  BY <1>1, <1>2, <1>3, <1>4, <1>5, <1>6, <1>7, <1>8, <1>9, <1>10, <1>11, <1>12, <1>13, <1>14

LEMMA DisplayStep ==
  ASSUME DisplayImage!DisplayInv, DisplayImage!Next
  PROVE  DisplayImage!DisplayInv'
BY DisplayTake, DisplayGive, DisplayOthers DEF DisplayImage!Next, DisplayImage!Main

-----------------------------------------------------------------------------
(* axidma_transfer.                                                        *)

(* The steps of both functions that take something.                        *)
LEMMA FileTake ==
  ASSUME FileTransfer!FileInv, FileTransfer!Take
  PROVE  FileTransfer!FileInv'
<1>1. /\ FileTransfer!TypeOK /\ f_held = FileTransfer!HeldAt(f_pc) /\ FileTransfer!BytesInv
      /\ UNCHANGED FileTransfer!io
  BY DEF FileTransfer!FileInv, FileTransfer!Take
<1>2. \/ /\ f_pc = "open_input"
         /\ \/ f_held' = {"input_fd"} /\ f_pc' = "open_output" /\ f_rc' = f_rc
            \/ f_held' = {} /\ f_pc' = "exit" /\ f_rc' = 1
      \/ /\ f_pc = "open_output"
         /\ \/ f_held' = {"input_fd", "output_fd"} /\ f_pc' = "init" /\ f_rc' = f_rc
            \/ f_held' = {"input_fd"} /\ f_pc' = "close_input" /\ f_rc' = -1
      \/ /\ f_pc = "init"
         /\ \/ /\ f_held' = {"input_fd", "output_fd", "device"} /\ f_pc' = "fstat"
               /\ f_rc' = f_rc
            \/ f_held' = {"input_fd", "output_fd"} /\ f_pc' = "close_output" /\ f_rc' = 1
      \/ /\ f_pc = "malloc_input"
         /\ \/ /\ f_held' = {"input_fd", "output_fd", "device", "input_buf"} /\ f_pc' = "read"
               /\ f_rc' = f_rc
            \/ f_held' = {"input_fd", "output_fd", "device"} /\ f_pc' = "answer" /\ f_rc' = -12
      \/ /\ f_pc = "malloc_output"
         /\ \/ /\ f_held' = {"input_fd", "output_fd", "device", "input_buf", "output_buf"}
               /\ f_pc' = "transfer" /\ f_rc' = f_rc
            \/ /\ f_held' = {"input_fd", "output_fd", "device", "input_buf"}
               /\ f_pc' = "free_input" /\ f_rc' = -12
  BY <1>1 DEF FileTransfer!Take, FileTransfer!Steps, FileTransfer!Step, FileTransfer!Go,
     FileTransfer!Ret, FileTransfer!HeldAt
<1>3. FileTransfer!TypeOK'
  BY <1>1, <1>2 DEF FileTransfer!TypeOK, FileTransfer!io
<1>4. (f_held = FileTransfer!HeldAt(f_pc))'
  BY <1>2 DEF FileTransfer!HeldAt
<1>5. FileTransfer!BytesInv'
  BY <1>1, <1>2 DEF FileTransfer!BytesInv, FileTransfer!AllRead, FileTransfer!io
<1> QED
  BY <1>3, <1>4, <1>5 DEF FileTransfer!FileInv

(* The labels of both functions.                                           *)
LEMMA FileGive ==
  ASSUME FileTransfer!FileInv, FileTransfer!Give
  PROVE  FileTransfer!FileInv'
<1>1. /\ FileTransfer!TypeOK /\ f_held = FileTransfer!HeldAt(f_pc) /\ FileTransfer!BytesInv
      /\ UNCHANGED <<f_rc, FileTransfer!io>>
  BY DEF FileTransfer!FileInv, FileTransfer!Give
<1>2. \/ f_pc = "free_output" /\ f_pc' = "free_input"
      \/ f_pc = "free_input" /\ f_pc' = "answer"
      \/ f_pc = "destroy" /\ f_pc' = "close_output"
      \/ f_pc = "close_output" /\ f_pc' = "close_input"
      \/ f_pc = "close_input" /\ f_pc' = "exit"
  BY DEF FileTransfer!Give, FileTransfer!Giving, FileTransfer!AfterGiving, FileTransfer!Go
<1>3. f_held' = FileTransfer!HeldAt(f_pc')
  BY <1>1, <1>2 DEF FileTransfer!Give, FileTransfer!Giving, FileTransfer!HeldAt
<1>4. FileTransfer!TypeOK'
  BY <1>1, <1>3 DEF FileTransfer!TypeOK, FileTransfer!io, FileTransfer!HeldAt
<1>5. FileTransfer!BytesInv'
  BY <1>1, <1>2 DEF FileTransfer!BytesInv, FileTransfer!AllRead, FileTransfer!io
<1>6. (f_held = FileTransfer!HeldAt(f_pc))'
  BY <1>3 DEF FileTransfer!HeldAt
<1> QED
  BY <1>4, <1>5, <1>6 DEF FileTransfer!FileInv

(* Reading, transferring and writing.                                      *)
LEMMA FileOthers ==
  ASSUME FileTransfer!FileInv,
         \/ FileTransfer!ParseArgs \/ FileTransfer!Fstat \/ FileTransfer!FindChannels
         \/ FileTransfer!CutShort \/ FileTransfer!ReadSome \/ FileTransfer!ReadEnd
         \/ FileTransfer!ReadFails \/ FileTransfer!Transfer \/ FileTransfer!WriteSome
         \/ FileTransfer!WriteEnd \/ FileTransfer!WriteFails \/ FileTransfer!Answer
  PROVE  FileTransfer!FileInv'
<1> USE ExampleConstants
    DEF FileTransfer!FileInv, FileTransfer!TypeOK, FileTransfer!HeldAt, FileTransfer!BytesInv,
        FileTransfer!AllRead, FileTransfer!Go, FileTransfer!Ret, FileTransfer!io
<1>1. CASE FileTransfer!ParseArgs
  BY <1>1 DEF FileTransfer!ParseArgs
<1>2. CASE FileTransfer!Fstat
  BY <1>2 DEF FileTransfer!Fstat
<1>3. CASE FileTransfer!FindChannels
  BY <1>3 DEF FileTransfer!FindChannels
<1>4. CASE FileTransfer!CutShort
  BY <1>4 DEF FileTransfer!CutShort
<1>5. CASE FileTransfer!ReadSome
  BY <1>5 DEF FileTransfer!ReadSome
<1>6. CASE FileTransfer!ReadEnd
  BY <1>6 DEF FileTransfer!ReadEnd
<1>7. CASE FileTransfer!ReadFails
  BY <1>7 DEF FileTransfer!ReadFails
<1>8. CASE FileTransfer!Transfer
  BY <1>8 DEF FileTransfer!Transfer
<1>9. CASE FileTransfer!WriteSome
  BY <1>9 DEF FileTransfer!WriteSome
<1>10. CASE FileTransfer!WriteEnd
  BY <1>10 DEF FileTransfer!WriteEnd
<1>11. CASE FileTransfer!WriteFails
  BY <1>11 DEF FileTransfer!WriteFails
<1>12. CASE FileTransfer!Answer
  BY <1>12 DEF FileTransfer!Answer
<1> QED
  BY <1>1, <1>2, <1>3, <1>4, <1>5, <1>6, <1>7, <1>8, <1>9, <1>10, <1>11, <1>12

LEMMA FileStep ==
  ASSUME FileTransfer!FileInv, FileTransfer!Next
  PROVE  FileTransfer!FileInv'
BY FileTake, FileGive, FileOthers DEF FileTransfer!Next

-----------------------------------------------------------------------------
(* mgpio.                                                                  *)

(* A port that has been reached stays done: the others write elsewhere.    *)
LEMMA GpioAccess ==
  ASSUME Gpio!PortsInv, Gpio!Access
  PROVE  Gpio!PortsInv'
<1>1. /\ m_pc = "test" /\ m_pc' = "test" /\ UNCHANGED <<command, input, passed>> /\ ~passed
      /\ g_port \in Gpio!Ports /\ g_port' = g_port + 1
      /\ g_port \in FirstPort..LastPort
      /\ gpio \in [Gpio!Ports -> {"none", "in", "low", "high"}] /\ command \in 0..6
      /\ command = 1 \/ gpio[g_port] # "none"
      /\ \/ /\ gpio' = [gpio EXCEPT ![g_port] = Gpio!Written(command, @)]
            /\ ignored' = (ignored \/ Gpio!Refuses(command, gpio[g_port]))
         \/ ignored' = TRUE /\ UNCHANGED gpio
  <2>1. g_port \in Gpio!Ports /\ g_port \in FirstPort..LastPort
    BY ExampleConstants DEF Gpio!Access, Gpio!PortsInv, Gpio!TypeOK, Gpio!Past, Gpio!Ports
  <2>2. Gpio!Named(g_port) = g_port
    BY <2>1, PortsAreNamed
  <2> QED
    BY <2>1, <2>2 DEF Gpio!Access, Gpio!PortsInv, Gpio!TypeOK
<1>2. Gpio!Written(command, gpio[g_port]) \in {"none", "in", "low", "high"}
  BY <1>1 DEF Gpio!Written
<1>3. gpio' \in [Gpio!Ports -> {"none", "in", "low", "high"}]
  BY <1>1, <1>2
<1>4. g_port' \in FirstPort..(LastPort + 1)
  BY <1>1, ExampleConstants
<1>5. Gpio!TypeOK'
  BY <1>1, <1>3, <1>4 DEF Gpio!TypeOK, Gpio!Ports
<1>6. ASSUME ~ignored', NEW p \in Gpio!Ports, p < g_port'
      PROVE  Gpio!Done(p)'
  <2>1. /\ ~ignored /\ ~Gpio!Refuses(command, gpio[g_port])
        /\ gpio' = [gpio EXCEPT ![g_port] = Gpio!Written(command, @)]
    BY <1>1, <1>6
  <2>2. CASE p = g_port
    BY <1>1, <2>1, <2>2 DEF Gpio!Done, Gpio!Written, Gpio!Refuses
  <2>3. CASE p # g_port
    <3>1. p < g_port
      BY <1>1, <1>6, <2>3, ExampleConstants DEF Gpio!Ports
    <3>2. Gpio!Done(p)
      BY <1>1, <2>1, <3>1 DEF Gpio!PortsInv
    <3> QED
      BY <1>1, <2>1, <2>3, <3>2 DEF Gpio!Done
  <2> QED
    BY <2>2, <2>3
<1>7. Gpio!PassedMeansDone'
  BY <1>1 DEF Gpio!PassedMeansDone
<1>8. \A p \in Gpio!Ports' : ~ignored' /\ p < g_port' => Gpio!Done(p)'
  BY <1>6 DEF Gpio!Ports
<1> QED
  BY <1>1, <1>5, <1>7, <1>8 DEF Gpio!PortsInv

LEMMA GpioStep ==
  ASSUME Gpio!PortsInv, Gpio!Next
  PROVE  Gpio!PortsInv'
<1> USE ExampleConstants
    DEF Gpio!PortsInv, Gpio!TypeOK, Gpio!PassedMeansDone, Gpio!Done, Gpio!Ports
<1>1. CASE Gpio!Scanf
  BY <1>1 DEF Gpio!Scanf
<1>2. CASE Gpio!NotANumber
  BY <1>2 DEF Gpio!NotANumber
<1>3. CASE Gpio!Skip
  BY <1>3 DEF Gpio!Skip, Gpio!Past
<1>4. CASE Gpio!OpenFails
  BY <1>4 DEF Gpio!OpenFails
<1>5. CASE Gpio!Passed
  BY <1>5 DEF Gpio!Passed, Gpio!Past
<1> QED
  BY GpioAccess, <1>1, <1>2, <1>3, <1>4, <1>5 DEF Gpio!Next

-----------------------------------------------------------------------------
(* interdma, until its threads run.                                        *)

(* Where the steps and the labels of main lead.                            *)
LEMMA InterDmaMainTake ==
  ASSUME InterDmaMain!LadderInv, InterDmaMain!Take
  PROVE  /\ InterDmaMain!LadderInv' /\ UNCHANGED <<tx_size, rx_size>>
         /\ m_pc \in {"init", "malloc_tx", "malloc_rx"}
         /\ \/ m_pc' \in {"malloc_tx", "malloc_rx", "channels"} /\ UNCHANGED m_rc
            \/ m_pc' \in {"exit", "destroy", "free_tx"} /\ m_rc' \in {1, -1}
BY DEF InterDmaMain!Take, InterDmaMain!Steps, InterDmaMain!Step,
   InterDmaMain!LadderInv, InterDmaMain!HeldAt, InterDmaMain!MainTypeOK,
   InterDmaMain!Go, InterDmaMain!Ret, InterDmaMain!Sizes2

LEMMA InterDmaMainGive ==
  ASSUME InterDmaMain!LadderInv, InterDmaMain!Give
  PROVE  /\ InterDmaMain!LadderInv' /\ UNCHANGED <<m_rc, tx_size, rx_size>>
         /\ m_pc \in {"free_rx", "free_tx", "destroy"}
         /\ m_pc' \in {"free_tx", "destroy", "exit"}
BY DEF InterDmaMain!Give, InterDmaMain!Giving, InterDmaMain!AfterGiving,
   InterDmaMain!LadderInv, InterDmaMain!HeldAt, InterDmaMain!MainTypeOK, InterDmaMain!Go,
   InterDmaMain!Ret, InterDmaMain!Sizes2

LEMMA StartupStep ==
  ASSUME InterDmaMain!StartupInv, InterDmaMain!Next
  PROVE  InterDmaMain!StartupInv'
<1> USE DEF InterDmaMain!StartupInv, InterDmaMain!TypeOK
<1>1. CASE InterDmaMain!init_args /\ UNCHANGED callback
  BY <1>1, MaxSize DEF InterDmaMain!init_args, InterDmaMain!SizesGiven,
     InterDmaMain!LadderInv, InterDmaMain!HeldAt, InterDmaMain!MainTypeOK, InterDmaMain!Go
<1>2. CASE InterDmaMain!Take /\ UNCHANGED callback
  BY <1>2, InterDmaMainTake DEF InterDmaMain!LadderInv
<1>3. CASE InterDmaMain!FindChannels("callbacks") /\ UNCHANGED callback
  BY <1>3 DEF InterDmaMain!FindChannels, InterDmaMain!LadderInv, InterDmaMain!HeldAt,
     InterDmaMain!MainTypeOK, InterDmaMain!Go, InterDmaMain!Ret, InterDmaMain!Sizes2
<1>4. CASE InterDmaMain!Give /\ UNCHANGED callback
  BY <1>4, InterDmaMainGive DEF InterDmaMain!LadderInv
<1>5. CASE InterDmaMain!SetCallbacks
  BY <1>5 DEF InterDmaMain!SetCallbacks, InterDmaMain!LadderInv, InterDmaMain!HeldAt,
     InterDmaMain!MainTypeOK, InterDmaMain!Go, InterDmaMain!Sizes2
<1>6. CASE InterDmaMain!Create
  BY <1>6 DEF InterDmaMain!Create, InterDmaMain!LadderInv, InterDmaMain!HeldAt,
     InterDmaMain!MainTypeOK, InterDmaMain!Go, InterDmaMain!Sizes2
<1> QED
  BY <1>1, <1>2, <1>3, <1>4, <1>5, <1>6 DEF InterDmaMain!Next, InterDmaMain!Startup

-----------------------------------------------------------------------------
(* test_axidma.                                                            *)

(* Where the steps and the labels of main lead.                            *)
LEMMA TestAxidmaTake ==
  ASSUME TestAxidma!LadderInv, TestAxidma!Take
  PROVE  /\ TestAxidma!LadderInv' /\ UNCHANGED <<tx_size, rx_size>>
         /\ m_pc \in {"init", "malloc_tx", "malloc_rx"}
         /\ \/ m_pc' \in {"malloc_tx", "malloc_rx", "channels"} /\ UNCHANGED m_rc
            \/ m_pc' \in {"exit", "destroy", "free_tx"} /\ m_rc' \in {1, -1}
BY DEF TestAxidma!Take, TestAxidma!Steps, TestAxidma!Step, TestAxidma!LadderInv,
   TestAxidma!HeldAt, TestAxidma!MainTypeOK, TestAxidma!Go, TestAxidma!Ret, TestAxidma!Sizes2

LEMMA TestAxidmaGive ==
  ASSUME TestAxidma!LadderInv, TestAxidma!Give
  PROVE  /\ TestAxidma!LadderInv' /\ UNCHANGED <<m_rc, tx_size, rx_size>>
         /\ m_pc \in {"free_rx", "free_tx", "destroy"}
         /\ m_pc' \in {"free_tx", "destroy", "exit"}
BY DEF TestAxidma!Give, TestAxidma!Giving, TestAxidma!AfterGiving, TestAxidma!LadderInv,
   TestAxidma!HeldAt, TestAxidma!MainTypeOK, TestAxidma!Go, TestAxidma!Ret, TestAxidma!Sizes2

LEMMA TestStep ==
  ASSUME TestAxidma!EarnedInv, TestAxidma!Next
  PROVE  TestAxidma!EarnedInv'
<1> USE ExampleConstants DEF TestAxidma!EarnedInv, TestAxidma!TypeOK
<1>1. CASE TestAxidma!Option
  <2>1. /\ m_pc = "start" /\ UNCHANGED <<m_pc, m_held, m_rc, t_sent>>
        /\ tx_size' \in Nat /\ rx_size' \in Nat /\ rx_size' = send_buf'
    BY <1>1 DEF TestAxidma!Option, TestAxidma!LadderInv, TestAxidma!MainTypeOK
  <2> QED
    BY <2>1 DEF TestAxidma!LadderInv, TestAxidma!HeldAt, TestAxidma!MainTypeOK
<1>2. CASE TestAxidma!ParseEnd
  BY <1>2 DEF TestAxidma!ParseEnd, TestAxidma!LadderInv, TestAxidma!HeldAt,
     TestAxidma!MainTypeOK, TestAxidma!Go, TestAxidma!Sizes2
<1>3. CASE TestAxidma!Refused /\ UNCHANGED <<send_buf, t_sent>>
  BY <1>3 DEF TestAxidma!Refused, TestAxidma!LadderInv, TestAxidma!HeldAt,
     TestAxidma!MainTypeOK, TestAxidma!Go, TestAxidma!Ret, TestAxidma!Sizes2
<1>4. CASE TestAxidma!Take /\ UNCHANGED <<send_buf, t_sent>>
  BY <1>4, TestAxidmaTake DEF TestAxidma!LadderInv
<1>5. CASE TestAxidma!FindChannels("transfer") /\ UNCHANGED <<send_buf, t_sent>>
  BY <1>5 DEF TestAxidma!FindChannels, TestAxidma!LadderInv, TestAxidma!HeldAt,
     TestAxidma!MainTypeOK, TestAxidma!Go, TestAxidma!Ret, TestAxidma!Sizes2
<1>6. CASE TestAxidma!Give /\ UNCHANGED <<send_buf, t_sent>>
  BY <1>6, TestAxidmaGive DEF TestAxidma!LadderInv
<1>7. CASE TestAxidma!Transfer
  <2>1. /\ m_pc = "transfer" /\ m_pc' = "free_rx"
        /\ UNCHANGED <<m_held, tx_size, rx_size, send_buf>>
        /\ \/ m_rc' = 0 /\ t_sent' = TRUE
           \/ m_rc' = -1 /\ t_sent' = FALSE
    BY <1>7 DEF TestAxidma!Transfer, TestAxidma!Go, TestAxidma!Ret, TestAxidma!Sizes2
  <2>2. TestAxidma!LadderInv'
    BY <2>1 DEF TestAxidma!LadderInv, TestAxidma!HeldAt, TestAxidma!MainTypeOK
  <2>3. t_sent' \in BOOLEAN
    BY <2>1, Zenon
  <2>4. m_rc' = 0 => t_sent' = TRUE
    BY <2>1
  <2>5. m_rc' = 0 => t_sent'
    BY <2>4, Zenon
  <2> QED
    BY <2>1, <2>2, <2>3, <2>5 DEF TestAxidma!LadderInv
<1> QED
  BY <1>1, <1>2, <1>3, <1>4, <1>5, <1>6, <1>7 DEF TestAxidma!Next, TestAxidma!Startup

-----------------------------------------------------------------------------
(* dma_uart.                                                               *)

(* Where the steps and the labels of main lead.                            *)
LEMMA DmaUartTake ==
  ASSUME DmaUart!LadderInv, DmaUart!Take
  PROVE  /\ DmaUart!LadderInv' /\ UNCHANGED <<tx_size, rx_size>>
         /\ m_pc \in {"init", "malloc_tx", "malloc_rx"}
         /\ \/ m_pc' \in {"malloc_tx", "malloc_rx", "channels"} /\ UNCHANGED m_rc
            \/ m_pc' \in {"exit", "destroy", "free_tx"} /\ m_rc' \in {1, -1}
BY DEF DmaUart!Take, DmaUart!Steps, DmaUart!Step, DmaUart!LadderInv, DmaUart!HeldAt,
   DmaUart!MainTypeOK, DmaUart!Go, DmaUart!Ret, DmaUart!Sizes2

LEMMA DmaUartGive ==
  ASSUME DmaUart!LadderInv, DmaUart!Give
  PROVE  /\ DmaUart!LadderInv' /\ UNCHANGED <<m_rc, tx_size, rx_size>>
         /\ m_pc \in {"free_rx", "free_tx", "destroy"}
         /\ m_pc' \in {"free_tx", "destroy", "exit"}
BY DEF DmaUart!Give, DmaUart!Giving, DmaUart!AfterGiving, DmaUart!LadderInv, DmaUart!HeldAt,
   DmaUart!MainTypeOK, DmaUart!Go, DmaUart!Ret, DmaUart!Sizes2

(* Before the loop, and behind it.                                         *)
LEMMA DmaUartStartup ==
  ASSUME DmaUart!LadderInv, DmaUart!Startup
  PROVE  /\ DmaUart!LadderInv' /\ UNCHANGED <<todo, port, wire, thread>>
         /\ m_pc' \notin {"loop", "socket", "bind", "sendto", "close"} \/ m_pc' = "create"
         /\ m_pc \notin {"loop", "socket", "bind", "sendto", "close", "dead"}
<1> USE ExampleConstants DEF DmaUart!udp
<1>1. CASE DmaUart!ParseArgs /\ UNCHANGED <<DmaUart!udp, thread>>
  BY <1>1 DEF DmaUart!ParseArgs, DmaUart!SizesGiven, DmaUart!Accepted, DmaUart!LadderInv,
     DmaUart!HeldAt, DmaUart!MainTypeOK, DmaUart!Go, DmaUart!Ret, DmaUart!Sizes2
<1>2. CASE DmaUart!Refused /\ UNCHANGED <<DmaUart!udp, thread>>
  BY <1>2 DEF DmaUart!Refused, DmaUart!LadderInv, DmaUart!HeldAt, DmaUart!MainTypeOK,
     DmaUart!Go, DmaUart!Ret, DmaUart!Sizes2
<1>3. CASE DmaUart!Take /\ UNCHANGED <<DmaUart!udp, thread>>
  BY <1>3, DmaUartTake
<1>4. CASE DmaUart!FindChannels("create") /\ UNCHANGED <<DmaUart!udp, thread>>
  BY <1>4 DEF DmaUart!FindChannels, DmaUart!LadderInv, DmaUart!HeldAt, DmaUart!MainTypeOK,
     DmaUart!Go, DmaUart!Ret, DmaUart!Sizes2
<1>5. CASE DmaUart!Give /\ UNCHANGED <<DmaUart!udp, thread>>
  BY <1>5, DmaUartGive
<1> QED
  BY <1>1, <1>2, <1>3, <1>4, <1>5 DEF DmaUart!Startup

(* Both threads, and another program that has the port.                    *)
LEMMA UartStep ==
  ASSUME DmaUart!UartInv, DmaUart!Next
  PROVE  DmaUart!UartInv'
<1> USE DEF DmaUart!UartInv, DmaUart!TypeOK, DmaUart!UdpTypeOK
<1>1. CASE DmaUart!Startup
  BY <1>1, DmaUartStartup DEF DmaUart!LadderInv
<1> USE DEF DmaUart!LadderInv, DmaUart!HeldAt, DmaUart!MainTypeOK, DmaUart!Go, DmaUart!Ret,
            DmaUart!Sizes2, DmaUart!Die
<1>2. CASE DmaUart!Create
  BY <1>2 DEF DmaUart!Create, DmaUart!Send
<1>3. CASE DmaUart!S2mm
  BY <1>3 DEF DmaUart!S2mm, DmaUart!Send
<1>4. CASE DmaUart!Socket /\ thread' = IF m_pc' = "dead" THEN "none" ELSE thread
  BY <1>4 DEF DmaUart!Socket
<1>5. CASE DmaUart!Bind /\ thread' = IF m_pc' = "dead" THEN "none" ELSE thread
  BY <1>5 DEF DmaUart!Bind
<1>6. CASE DmaUart!SendTo /\ thread' = IF m_pc' = "dead" THEN "none" ELSE thread
  BY <1>6 DEF DmaUart!SendTo
<1>7. CASE DmaUart!Close /\ thread' = IF m_pc' = "dead" THEN "none" ELSE thread
  BY <1>7 DEF DmaUart!Close
<1>8. CASE DmaUart!Thread
  BY <1>8 DEF DmaUart!Thread, DmaUart!RecvSocket, DmaUart!RecvBind, DmaUart!RecvFrom,
     DmaUart!Mm2s, DmaUart!ThreadGoes, DmaUart!ThreadDies, DmaUart!main
<1> QED
  BY <1>1, <1>2, <1>3, <1>4, <1>5, <1>6, <1>7, <1>8
     DEF DmaUart!Next, DmaUart!Main, DmaUart!UdpNext

-----------------------------------------------------------------------------
(* axidma_test.                                                            *)

(* Where the steps and the labels of main lead.                            *)
LEMMA AxidmaTestTake ==
  ASSUME AxidmaTest!LadderInv, AxidmaTest!Take
  PROVE  /\ AxidmaTest!LadderInv' /\ UNCHANGED <<tx_size, rx_size>>
         /\ m_pc \in {"init", "malloc_tx", "malloc_rx"}
         /\ \/ m_pc' \in {"malloc_tx", "malloc_rx", "channels"} /\ UNCHANGED m_rc
            \/ m_pc' \in {"exit", "destroy", "free_tx"} /\ m_rc' \in {1, -1}
BY DEF AxidmaTest!Take, AxidmaTest!Steps, AxidmaTest!Step, AxidmaTest!LadderInv,
   AxidmaTest!HeldAt, AxidmaTest!MainTypeOK, AxidmaTest!Go, AxidmaTest!Ret, AxidmaTest!Sizes2

LEMMA AxidmaTestGive ==
  ASSUME AxidmaTest!LadderInv, AxidmaTest!Give
  PROVE  /\ AxidmaTest!LadderInv' /\ UNCHANGED <<m_rc, tx_size, rx_size>>
         /\ m_pc \in {"free_rx", "free_tx", "destroy"}
         /\ m_pc' \in {"free_tx", "destroy", "exit"}
BY DEF AxidmaTest!Give, AxidmaTest!Giving, AxidmaTest!AfterGiving, AxidmaTest!LadderInv,
   AxidmaTest!HeldAt, AxidmaTest!MainTypeOK, AxidmaTest!Go, AxidmaTest!Ret, AxidmaTest!Sizes2

(* Before the loop, and behind it.                                         *)
LEMMA AxidmaTestStartup ==
  ASSUME AxidmaTest!LadderInv, AxidmaTest!Startup
  PROVE  /\ AxidmaTest!LadderInv' /\ UNCHANGED <<todo, port, wire, received>>
         /\ m_pc' \notin {"loop", "socket", "bind", "sendto", "close"} \/ m_pc' = "loop"
         /\ m_pc \notin {"loop", "socket", "bind", "sendto", "close", "dead"}
<1> USE ExampleConstants DEF AxidmaTest!udp
<1>1. CASE AxidmaTest!ParseArgs /\ UNCHANGED <<AxidmaTest!udp, received>>
  BY <1>1 DEF AxidmaTest!ParseArgs, AxidmaTest!SizesGiven, AxidmaTest!Accepted,
     AxidmaTest!LadderInv, AxidmaTest!HeldAt, AxidmaTest!MainTypeOK, AxidmaTest!Go,
     AxidmaTest!Ret, AxidmaTest!Sizes2
<1>2. CASE AxidmaTest!Refused /\ UNCHANGED <<AxidmaTest!udp, received>>
  BY <1>2 DEF AxidmaTest!Refused, AxidmaTest!LadderInv, AxidmaTest!HeldAt,
     AxidmaTest!MainTypeOK, AxidmaTest!Go, AxidmaTest!Ret, AxidmaTest!Sizes2
<1>3. CASE AxidmaTest!Take /\ UNCHANGED <<AxidmaTest!udp, received>>
  BY <1>3, AxidmaTestTake
<1>4. CASE AxidmaTest!FindChannels("loop") /\ UNCHANGED <<AxidmaTest!udp, received>>
  BY <1>4 DEF AxidmaTest!FindChannels, AxidmaTest!LadderInv, AxidmaTest!HeldAt,
     AxidmaTest!MainTypeOK, AxidmaTest!Go, AxidmaTest!Ret, AxidmaTest!Sizes2
<1>5. CASE AxidmaTest!Give /\ UNCHANGED <<AxidmaTest!udp, received>>
  BY <1>5, AxidmaTestGive
<1> QED
  BY <1>1, <1>2, <1>3, <1>4, <1>5 DEF AxidmaTest!Startup

(* Division by the size of a datagram.                                     *)
LEMMA SameParts ==
  ASSUME NEW B \in Nat \ {0}, NEW q \in Nat, NEW r \in 0..(B - 1),
         NEW d \in Nat, NEW m \in 0..(B - 1), q * B + r = d * B + m
  PROVE  q = d /\ r = m
<1>1. CASE q > d
  <2>1. PICK e \in Nat : q = d + 1 + e
    <3>1. q - d - 1 \in Nat /\ q = d + 1 + (q - d - 1)
      BY <1>1
    <3> QED
      BY <3>1
  <2>2. q * B = d * B + B + e * B /\ e * B \in Nat
    BY <2>1
  <2> QED
    BY <2>2
<1>2. CASE q < d
  <2>1. PICK e \in Nat : d = q + 1 + e
    <3>1. d - q - 1 \in Nat /\ d = q + 1 + (d - q - 1)
      BY <1>2
    <3> QED
      BY <3>1
  <2>2. d * B = q * B + B + e * B /\ e * B \in Nat
    BY <2>1
  <2> QED
    BY <2>2
<1>3. CASE q = d
  BY <1>3
<1> QED
  BY <1>1, <1>2, <1>3

LEMMA QuotientIs ==
  ASSUME NEW B \in Nat \ {0}, NEW q \in Nat, NEW r \in 0..(B - 1)
  PROVE  (q * B + r) % B = r
<1> DEFINE n == q * B + r
           d == n \div B
           m == n % B
<1>1. n \in Nat /\ d \in Nat /\ m \in 0..(B - 1) /\ n = d * B + m
  OBVIOUS
<1> HIDE DEF d, m
<1>2. m = r
  BY <1>1, SameParts
<1> QED
  BY <1>2 DEF m

LEMMA NextRemainder ==
  ASSUME NEW B \in Nat \ {0}, NEW n \in Nat
  PROVE  (n + 1) % B = IF (n % B) + 1 = B THEN 0 ELSE (n % B) + 1
<1> DEFINE q == n \div B
           r == n % B
<1>1. q \in Nat /\ r \in 0..(B - 1) /\ n = q * B + r
  OBVIOUS
<1> HIDE DEF q, r
<1>2. CASE r + 1 = B
  <2>1. n + 1 = (q + 1) * B + 0
    BY <1>1, <1>2
  <2>2. ((q + 1) * B + 0) % B = 0
    BY <1>1, QuotientIs
  <2> QED
    BY <1>2, <2>1, <2>2 DEF r
<1>3. CASE r + 1 # B
  <2>1. n + 1 = q * B + (r + 1) /\ r + 1 \in 0..(B - 1)
    BY <1>1, <1>3
  <2>2. (q * B + (r + 1)) % B = r + 1
    BY <1>1, <2>1, QuotientIs
  <2> QED
    BY <1>3, <2>1, <2>2 DEF r
<1> QED
  BY <1>2, <1>3

(* The chain of comparisons finds the array a byte belongs to.             *)
LEMMA ArrayOfIs ==
  ASSUME NEW i \in Nat
  PROVE  /\ AxidmaTest!ArrayOf(i) \in 0..4
         /\ AxidmaTest!ArrayOf(i) = 0 => 4 * TEST_DATAGRAM <= i
         /\ AxidmaTest!ArrayOf(i) # 0 =>
              /\ (AxidmaTest!ArrayOf(i) - 1) * TEST_DATAGRAM <= i
              /\ i < AxidmaTest!ArrayOf(i) * TEST_DATAGRAM
<1> DEFINE B == TEST_DATAGRAM
           fits == {k \in 1..4 : i < k * B}
<1>0. B \in Nat \ {0}
  BY ExampleConstants
<1> HIDE DEF B
<1>1. CASE fits = {}
  <2>1. ~(i < 4 * B)
    BY <1>1
  <2>2. AxidmaTest!ArrayOf(i) = 0
    BY <1>1 DEF AxidmaTest!ArrayOf, B
  <2> QED
    BY <1>0, <2>1, <2>2 DEF B
<1>2. CASE fits # {}
  <2>1. PICK k \in fits : \A m \in fits : k <= m
    BY <1>2, HasLeast
  <2>2. AxidmaTest!ArrayOf(i) = AxidmaTest!Min(fits)
    BY <1>2 DEF AxidmaTest!ArrayOf, B
  <2>3. AxidmaTest!Min(fits) \in fits /\ \A m \in fits : AxidmaTest!Min(fits) <= m
    BY <2>1 DEF AxidmaTest!Min
  <2> DEFINE a == AxidmaTest!Min(fits)
  <2>4. a \in 1..4 /\ i < a * B /\ \A m \in 1..4 : i < m * B => a <= m
    BY <2>3
  <2> HIDE DEF a
  <2>5. (a - 1) * B <= i
    <3>1. CASE a = 1
      BY <1>0, <3>1
    <3>2. CASE a > 1
      <4>1. a - 1 \in 1..4 /\ ~(a <= a - 1)
        BY <2>4, <3>2
      <4>2. ~(i < (a - 1) * B)
        BY <2>4, <4>1
      <4> QED
        BY <1>0, <2>4, <4>1, <4>2
    <3> QED
      BY <2>4, <3>1, <3>2
  <2> QED
    BY <2>2, <2>4, <2>5 DEF a, B
<1> QED
  BY <1>1, <1>2

(* The first n bytes of a buffer, cut up: byte (k - 1) * B + j is in place *)
(* j of array k.                                                           *)
Arrays(n) ==
    [k \in 1..4 |->
        [j \in 0..(TEST_DATAGRAM - 1) |->
            IF (k - 1) * TEST_DATAGRAM + j < n THEN (k - 1) * TEST_DATAGRAM + j ELSE NULL]]

LEMMA PlaceIs ==
  ASSUME NEW n \in Nat
  PROVE  AxidmaTest!Place([arrays |-> Arrays(n), j |-> n % TEST_DATAGRAM], n)
           = [arrays |-> Arrays(n + 1), j |-> (n + 1) % TEST_DATAGRAM]
<1> DEFINE B == TEST_DATAGRAM
           c == [arrays |-> Arrays(n), j |-> n % B]
           a == AxidmaTest!ArrayOf(n)
<1>0. B \in Nat \ {0} /\ n % B \in 0..(B - 1)
  BY ExampleConstants
<1>1. (n + 1) % B = IF (n % B) + 1 = B THEN 0 ELSE (n % B) + 1
  BY <1>0, NextRemainder
<1>2. a \in 0..4 /\ (a = 0 => 4 * B <= n) /\ (a # 0 => (a - 1) * B <= n /\ n < a * B)
  BY ArrayOfIs
<1>3. CASE a = 0
  <2>1. ASSUME NEW k \in 1..4, NEW j \in 0..(B - 1)
        PROVE  (k - 1) * B + j < n /\ (k - 1) * B + j < n + 1
    BY <1>0, <1>2, <1>3, <2>1
  <2>2. Arrays(n + 1) = Arrays(n)
    BY <2>1 DEF Arrays
  <2> QED
    BY <1>1, <1>3, <2>2 DEF AxidmaTest!Place
<1>4. CASE a # 0
  <2>1. a \in 1..4 /\ n = (a - 1) * B + (n - (a - 1) * B) /\ n - (a - 1) * B \in 0..(B - 1)
        /\ a - 1 \in Nat
    BY <1>0, <1>2, <1>4
  <2>2. n % B = n - (a - 1) * B
    BY <1>0, <2>1, QuotientIs
  <2> HIDE DEF a, B
  <2>3. ASSUME NEW k \in 1..4, NEW j \in 0..(B - 1)
        PROVE  (k - 1) * B + j = n <=> k = a /\ j = n % B
    <3>1. CASE k = a
      BY <1>0, <2>1, <2>2, <3>1
    <3>2. CASE k # a
      <4>1. (k - 1) * B + j # n
        <5>1. k - 1 \in Nat /\ (a - 1) * B + (n % B) = n
          BY <1>0, <2>1, <2>2
        <5>2. k - 1 # a - 1
          BY <2>1, <3>2
        <5> QED
          BY <1>0, <2>1, <5>1, <5>2, SameParts
      <4> QED
        BY <3>2, <4>1
    <3> QED
      BY <3>1, <3>2
  <2>4. Arrays(n + 1) = [Arrays(n) EXCEPT ![a][n % B] = n]
    <3> DEFINE A == [Arrays(n) EXCEPT ![a][n % B] = n]
    <3>1. ASSUME NEW k \in 1..4 PROVE Arrays(n + 1)[k] = A[k]
      <4>1. ASSUME NEW j \in 0..(B - 1) PROVE Arrays(n + 1)[k][j] = A[k][j]
        <5>1. (k - 1) * B + j \in Int
          BY <1>0
        <5>2. Arrays(n + 1)[k][j] = IF (k - 1) * B + j < n + 1 THEN (k - 1) * B + j ELSE NULL
          BY DEF Arrays, B
        <5>3. Arrays(n)[k][j] = IF (k - 1) * B + j < n THEN (k - 1) * B + j ELSE NULL
          BY DEF Arrays, B
        <5>4. A[k][j] = IF k = a /\ j = n % B THEN n ELSE Arrays(n)[k][j]
          BY <2>1, <1>0 DEF Arrays, B
        <5> QED
          BY <2>3, <5>1, <5>2, <5>3, <5>4
      <4>2. /\ DOMAIN Arrays(n + 1)[k] = 0..(B - 1) /\ DOMAIN A[k] = 0..(B - 1)
            /\ Arrays(n + 1)[k] = [j \in 0..(B - 1) |-> Arrays(n + 1)[k][j]]
            /\ A[k] = [j \in 0..(B - 1) |-> A[k][j]]
        BY <2>1 DEF Arrays, B
      <4> HIDE DEF A
      <4> QED
        BY <4>1, <4>2
    <3>2. /\ Arrays(n + 1) = [k \in 1..4 |-> Arrays(n + 1)[k]]
          /\ A = [k \in 1..4 |-> A[k]]
      BY DEF Arrays
    <3> HIDE DEF A
    <3>3. Arrays(n + 1) = A
      BY <3>1, <3>2
    <3> QED
      BY <3>3 DEF A
  <2> QED
    BY <1>1, <1>4, <2>4 DEF AxidmaTest!Place, a, B
<1> QED
  BY <1>3, <1>4

(* Cutting n bytes puts each of the first ones in its place, by the least  *)
(* n for which it does not.                                                *)
LEMMA CutIs == \A n \in Nat : AxidmaTest!Cut(n) = Arrays(n)
<1> DEFINE B    == TEST_DATAGRAM
           c    == AxidmaTest!cut
           zero == [arrays |-> [k \in 1..4 |-> [j \in 0..(B - 1) |-> NULL]], j |-> 0]
           g    == [n \in Nat |-> [arrays |-> Arrays(n), j |-> n % B]]
           Bad  == {n \in Nat : c[n] # g[n]}
<1>0. B \in Nat \ {0}
  BY ExampleConstants
<1>1. zero = g[0]
  <2>1. 0 % B = 0
    <3>1. 0 * B + 0 = 0 /\ 0 \in 0..(B - 1)
      BY <1>0
    <3> QED
      BY <1>0, <3>1, QuotientIs
  <2>2. ASSUME NEW k \in 1..4, NEW j \in 0..(B - 1) PROVE ~((k - 1) * B + j < 0)
    BY <1>0
  <2>3. Arrays(0) = zero.arrays
    BY <2>2 DEF Arrays
  <2> QED
    BY <2>1, <2>3
<1>2. \A n \in Nat : n # 0 => g[n] = AxidmaTest!Place(g[n - 1], n - 1)
  <2>1. ASSUME NEW n \in Nat, n # 0 PROVE g[n] = AxidmaTest!Place(g[n - 1], n - 1)
    <3>1. n - 1 \in Nat /\ (n - 1) + 1 = n
      BY <2>1
    <3> QED
      BY <3>1, PlaceIs
  <2> QED
    BY <2>1
<1> HIDE DEF g
<1>3. g = [n \in Nat |-> IF n = 0 THEN zero ELSE AxidmaTest!Place(g[n - 1], n - 1)]
  <2>1. g = [n \in Nat |-> g[n]]
    BY DEF g
  <2> QED
    BY <1>1, <1>2, <2>1
<1>4. c = [n \in Nat |-> IF n = 0 THEN zero ELSE AxidmaTest!Place(c[n - 1], n - 1)]
  BY <1>3 DEF AxidmaTest!cut
<1> HIDE DEF c
<1>5. Bad = {}
  <2> SUFFICES ASSUME Bad # {} PROVE FALSE
    OBVIOUS
  <2>1. PICK n \in Bad : \A k \in Bad : n <= k
    BY HasLeast
  <2>2. n \in Nat /\ c[n] # g[n]
    OBVIOUS
  <2>3. n # 0
    BY <1>1, <1>4, <2>2
  <2>4. n - 1 \in Nat /\ c[n - 1] = g[n - 1]
    <3>1. n - 1 \in Nat /\ ~(n <= n - 1)
      BY <2>2, <2>3
    <3> QED
      BY <2>1, <3>1
  <2>5. c[n] = AxidmaTest!Place(c[n - 1], n - 1)
    BY <1>4, <2>2, <2>3
  <2> QED
    BY <1>2, <2>2, <2>3, <2>4, <2>5
<1>6. ASSUME NEW n \in Nat PROVE AxidmaTest!Cut(n) = Arrays(n)
  <2>1. c[n] = g[n]
    BY <1>5
  <2>2. AxidmaTest!Cut(n) = c[n].arrays
    BY DEF AxidmaTest!Cut, c
  <2> QED
    BY <2>1, <2>2 DEF g
<1> QED
  BY <1>6

(* The four arrays are datagrams.                                          *)
LEMMA ArraysAreFour ==
  ASSUME NEW n \in Nat
  PROVE  /\ Arrays(n) \in Seq(AxidmaTest!Array) /\ Len(Arrays(n)) = 4
         /\ \A k \in 1..4 : /\ Arrays(n)[k] \in AxidmaTest!Array
                            /\ AxidmaTest!Datagram(Arrays(n)[k]) = Arrays(n)[k]
<1> DEFINE B == TEST_DATAGRAM
<1>0. B \in Nat \ {0}
  BY ExampleConstants
<1>1. ASSUME NEW k \in 1..4 PROVE Arrays(n)[k] \in [0..(B - 1) -> Nat \cup {NULL}]
  <2>1. \A j \in 0..(B - 1) : (k - 1) * B + j \in Nat
    BY <1>0
  <2> HIDE DEF B
  <2> QED
    BY <2>1 DEF Arrays, B
<1>2. Arrays(n) \in [1..4 -> AxidmaTest!Array]
  <2>1. Arrays(n) = [k \in 1..4 |-> Arrays(n)[k]]
    BY DEF Arrays
  <2> QED
    BY <1>1, <2>1 DEF AxidmaTest!Array
<1>3. Arrays(n) \in Seq(AxidmaTest!Array) /\ Len(Arrays(n)) = 4
  <2>1. Arrays(n) \in Seq(AxidmaTest!Array)
    BY <1>2, SeqDef
  <2>2. DOMAIN Arrays(n) = 1..4
    BY <1>2
  <2> QED
    BY <2>1, <2>2
<1>4. ASSUME NEW k \in 1..4 PROVE AxidmaTest!Datagram(Arrays(n)[k]) = Arrays(n)[k]
  BY <1>1 DEF AxidmaTest!Datagram
<1> QED
  BY <1>2, <1>3, <1>4

LEMMA DatagramsStep ==
  ASSUME AxidmaTest!DatagramsInv, AxidmaTest!Next
  PROVE  AxidmaTest!DatagramsInv'
<1> DEFINE A == Arrays(rx_size)
<1>0. /\ rx_size \in Nat /\ AxidmaTest!Cut(rx_size) = A
      /\ A \in Seq(AxidmaTest!Array) /\ Len(A) = 4
      /\ \A k \in 1..4 : A[k] \in AxidmaTest!Array /\ AxidmaTest!Datagram(A[k]) = A[k]
  BY CutIs, ArraysAreFour
     DEF AxidmaTest!DatagramsInv, AxidmaTest!LadderInv, AxidmaTest!MainTypeOK
<1>1. CASE AxidmaTest!Startup
  BY <1>1, AxidmaTestStartup DEF AxidmaTest!DatagramsInv, AxidmaTest!UdpTypeOK, AxidmaTest!Sending
<1> SUFFICES ASSUME AxidmaTest!S2mm \/ (AxidmaTest!UdpNext /\ UNCHANGED received)
             PROVE  AxidmaTest!DatagramsInv'
  BY <1>1 DEF AxidmaTest!Next
<1>2. rx_size' = rx_size /\ tx_size' = tx_size
  BY DEF AxidmaTest!S2mm, AxidmaTest!UdpNext, AxidmaTest!Socket, AxidmaTest!Bind,
     AxidmaTest!SendTo, AxidmaTest!Close, AxidmaTest!Sizes2
<1>3. AxidmaTest!Cut(rx_size)' = A
  BY <1>0, <1>2, CutIs DEF AxidmaTest!Cut, AxidmaTest!cut, AxidmaTest!Place, AxidmaTest!ArrayOf
<1>4. AxidmaTest!LadderInv' /\ AxidmaTest!UdpTypeOK'
  <2> USE DEF AxidmaTest!DatagramsInv, AxidmaTest!LadderInv, AxidmaTest!HeldAt,
              AxidmaTest!MainTypeOK, AxidmaTest!UdpTypeOK, AxidmaTest!Go, AxidmaTest!Ret,
              AxidmaTest!Die
  <2>1. CASE AxidmaTest!S2mm
    BY <1>2, <2>1 DEF AxidmaTest!S2mm, AxidmaTest!Send
  <2>2. CASE AxidmaTest!Socket
    BY <1>2, <2>2 DEF AxidmaTest!Socket
  <2>3. CASE AxidmaTest!Bind
    BY <1>2, <2>3 DEF AxidmaTest!Bind
  <2>4. CASE AxidmaTest!SendTo
    BY <1>2, <2>4 DEF AxidmaTest!SendTo
  <2>5. CASE AxidmaTest!Close
    BY <1>2, <2>5 DEF AxidmaTest!Close
  <2> QED
    BY <2>1, <2>2, <2>3, <2>4, <2>5 DEF AxidmaTest!UdpNext
<1> HIDE DEF A
<1> USE DEF AxidmaTest!DatagramsInv, AxidmaTest!Sending, AxidmaTest!Go
<1>5. CASE AxidmaTest!S2mm
  <2>1. /\ m_pc = "loop" /\ wire' = <<>>
        /\ \/ received' = TRUE /\ m_pc' = "socket" /\ todo' = A
           \/ received' = FALSE /\ m_pc' = "loop"
    BY <1>0, <1>5 DEF AxidmaTest!S2mm, AxidmaTest!Send
  <2>2. wire' \in Seq(AxidmaTest!Array) /\ Len(wire') = 0
    BY <2>1
  <2>3. CASE m_pc' = "socket"
    <3>1. received' = TRUE /\ todo' = A
      BY <2>1, <2>3
    <3>2. todo' \in Seq(AxidmaTest!Array) /\ Len(todo') = 4 /\ todo' # <<>>
      BY <1>0, <3>1
    <3> QED
      BY <1>3, <1>4, <2>2, <2>3, <3>1, <3>2
  <2>4. CASE m_pc' = "loop"
    <3>1. received' = FALSE
      BY <2>1, <2>4
    <3>2. ~received' /\ received' \in BOOLEAN
      BY <3>1, Zenon
    <3> QED
      BY <1>3, <1>4, <2>2, <2>4, <3>2
  <2> QED
    BY <2>1, <2>3, <2>4
<1>6. CASE (AxidmaTest!Socket \/ AxidmaTest!Bind) /\ UNCHANGED received
  BY <1>0, <1>3, <1>4, <1>6 DEF AxidmaTest!Socket, AxidmaTest!Bind, AxidmaTest!Die
<1>7. CASE AxidmaTest!SendTo /\ UNCHANGED received
  <2>1. CASE m_pc' = "close"
    <3>1. /\ m_pc = "sendto" /\ UNCHANGED <<todo, received>>
          /\ wire' = Append(wire, AxidmaTest!Datagram(Head(todo)))
      BY <1>7, <2>1 DEF AxidmaTest!SendTo, AxidmaTest!Die
    <3>2. /\ todo \in Seq(AxidmaTest!Array) /\ todo # <<>> /\ Len(wire) + Len(todo) = 4
          /\ Head(todo) = A[Len(wire) + 1] /\ Len(wire) + 1 \in 1..4
      <4>1. /\ todo \in Seq(AxidmaTest!Array) /\ todo # <<>> /\ wire \in Seq(AxidmaTest!Array)
            /\ Len(wire) + Len(todo) = 4
            /\ \A k \in 1..Len(todo) : todo[k] = A[4 - Len(todo) + k]
        BY <1>0, <3>1
      <4>2. Len(todo) \in Nat \ {0} /\ Len(wire) \in Nat /\ Head(todo) = todo[1]
        BY <4>1
      <4> QED
        BY <4>1, <4>2
    <3>3. wire' = Append(wire, A[Len(wire) + 1]) /\ A[Len(wire) + 1] \in AxidmaTest!Array
      BY <1>0, <3>1, <3>2
    <3>4. wire' \in Seq(AxidmaTest!Array) /\ Len(wire') = Len(wire) + 1
      BY <3>3
    <3>5. \A k \in 1..Len(wire') : wire'[k] = A[k]
      BY <1>0, <3>3, <3>4
    <3> QED
      BY <1>0, <1>3, <1>4, <2>1, <3>1, <3>2, <3>4, <3>5
  <2>2. CASE m_pc' = "dead"
    BY <1>0, <1>3, <1>4, <1>7, <2>2 DEF AxidmaTest!SendTo, AxidmaTest!Die
  <2> QED
    BY <1>7, <2>1, <2>2 DEF AxidmaTest!SendTo, AxidmaTest!Die
<1>8. CASE AxidmaTest!Close /\ UNCHANGED received
  <2>1. /\ m_pc = "close" /\ wire' = wire /\ received' = received /\ todo' = Tail(todo)
        /\ m_pc' = IF todo' = <<>> THEN "loop" ELSE "socket"
    BY <1>8 DEF AxidmaTest!Close
  <2>2. /\ todo \in Seq(AxidmaTest!Array) /\ todo # <<>> /\ Len(wire) + Len(todo) = 5
        /\ Len(wire) \in Nat /\ Len(todo) \in Nat
        /\ \A k \in 1..Len(todo) : todo[k] = A[4 - Len(todo) + k]
    BY <1>0, <2>1
  <2>3. /\ todo' \in Seq(AxidmaTest!Array) /\ Len(todo') = Len(todo) - 1
        /\ \A k \in 1..Len(todo') : todo'[k] = todo[k + 1]
    BY <2>1, <2>2
  <2>4. \A k \in 1..Len(todo') : todo'[k] = A[4 - Len(todo') + k]
    BY <2>2, <2>3
  <2>5. CASE todo' = <<>>
    <3>1. m_pc' = "loop" /\ Len(todo') = 0
      BY <2>1, <2>5
    <3>2. Len(wire') = 4
      <4> HIDE DEF AxidmaTest!DatagramsInv
      <4>1. Len(todo) = 1
        BY <2>2, <2>3, <3>1
      <4>2. Len(wire) \in Nat /\ Len(todo) \in Nat /\ Len(wire) + Len(todo) = 5
        BY <2>2
      <4>3. \A m, n \in Nat : m + n = 5 /\ n = 1 => m = 4
        OBVIOUS
      <4>5. Len(wire) = 4
        BY <4>1, <4>2, <4>3, Zenon
      <4>4. wire' = wire
        BY <2>1
      <4> QED
        BY <4>5, <4>4
    <3>3. received' /\ received' \in BOOLEAN
      BY <2>1
    <3> QED
      BY <1>0, <1>3, <1>4, <2>1, <3>1, <3>2, <3>3
  <2>6. CASE todo' # <<>>
    <3>1. /\ m_pc' = "socket" /\ received' /\ Len(wire') + Len(todo') = 4
          /\ Len(wire') <= 4
      BY <2>1, <2>2, <2>3, <2>6
    <3> QED
      BY <1>0, <1>3, <1>4, <2>1, <2>3, <2>4, <2>6, <3>1
  <2> QED
    BY <2>5, <2>6
<1> QED
  BY <1>5, <1>6, <1>7, <1>8 DEF AxidmaTest!UdpNext

(* The property is what the invariant says once the cut is known.          *)
LEMMA DatagramsFollow ==
  ASSUME AxidmaTest!DatagramsInv
  PROVE  AxidmaTest!DatagramsAreTheBuffer
<1>1. rx_size \in Nat /\ AxidmaTest!Cut(rx_size) = Arrays(rx_size)
  BY CutIs DEF AxidmaTest!DatagramsInv, AxidmaTest!LadderInv, AxidmaTest!MainTypeOK
<1>2. ASSUME NEW k \in 1..Len(wire), NEW j \in 0..(TEST_DATAGRAM - 1)
      PROVE  wire[k][j] = IF (k - 1) * TEST_DATAGRAM + j < rx_size
                          THEN (k - 1) * TEST_DATAGRAM + j ELSE NULL
  <2>1. k \in 1..4 /\ wire[k] = Arrays(rx_size)[k]
    BY <1>1 DEF AxidmaTest!DatagramsInv
  <2> QED
    BY <2>1 DEF Arrays
<1> QED
  BY <1>2 DEF AxidmaTest!DatagramsAreTheBuffer, AxidmaTest!DatagramsInv

-----------------------------------------------------------------------------
(* interdma.  A step of a thread, of its handler or of its hardware leaves *)
(* what belongs to the other thread alone.                                 *)

ThreadOK(t) == InterDma!CountsInv(t) /\ InterDma!CalmInv(t)

(* A step of one thread leaves the other's locks and counts alone.         *)
LEMMA OtherThreadStays ==
  ASSUME NEW t \in Threads, NEW u \in Threads, u # t, ThreadOK(u),
         i_pc'[u] = i_pc[u], mutex'[u] = mutex[u], signalled'[u] = signalled[u],
         blocked'[u] = blocked[u], rounds'[u] = rounds[u], callbacks'[u] = callbacks[u],
         running'[u] = running[u], pending'[u] = pending[u], trouble'[u] = trouble[u]
  PROVE  ThreadOK(u)'
BY DEF ThreadOK, InterDma!CountsInv, InterDma!CalmInv, InterDma!Busy

(* What a step of t is, seen from the counts and the locks.                *)
LEMMA ThreadSteps ==
  ASSUME InterDma!LoopInv, NEW t \in Threads,
         \/ InterDma!Code(t) \/ InterDma!Handler(t) \/ InterDma!WakeUnasked(t)
         \/ InterDma!HwEnds(t)
  PROVE  /\ InterDma!FunctionsInv'
         /\ \A u \in Threads : ThreadOK(u)'
<1> USE DEF InterDma!FunctionsInv, InterDma!At, InterDma!Goto, InterDma!Set, InterDma!Upset,
            InterDma!locks, InterDma!data, InterDma!io, Threads, InterDma!Threads
<1>0. /\ InterDma!FunctionsInv /\ ThreadOK("mm2s") /\ ThreadOK("s2mm")
      /\ MaxRounds \in [Threads -> Nat]
  BY ExampleConstants DEF InterDma!LoopInv, ThreadOK
<1> SUFFICES /\ InterDma!FunctionsInv' /\ ThreadOK(t)'
             /\ \A u \in Threads : u # t =>
                   /\ i_pc'[u] = i_pc[u] /\ mutex'[u] = mutex[u] /\ signalled'[u] = signalled[u]
                   /\ blocked'[u] = blocked[u] /\ rounds'[u] = rounds[u]
                   /\ callbacks'[u] = callbacks[u] /\ running'[u] = running[u]
                   /\ pending'[u] = pending[u] /\ trouble'[u] = trouble[u]
  BY <1>0, OtherThreadStays
<1>1. CASE InterDma!Fill(t)
  BY <1>0, <1>1 DEF InterDma!Fill, ThreadOK, InterDma!CountsInv, InterDma!CalmInv, InterDma!Busy
<1>2. CASE InterDma!Start(t)
  BY <1>0, <1>2 DEF InterDma!Start, ThreadOK, InterDma!CountsInv, InterDma!CalmInv, InterDma!Busy
<1>3. CASE InterDma!Lock(t)
  BY <1>0, <1>3 DEF InterDma!Lock, ThreadOK, InterDma!CountsInv, InterDma!CalmInv, InterDma!Busy
<1>4. CASE InterDma!Wait(t)
  <2>1. InterDma!FunctionsInv'
    BY <1>0, <1>4 DEF InterDma!Wait
  <2>2. /\ i_pc[t] = "wait" /\ i_pc'[t] = "asleep" /\ mutex'[t] = FALSE /\ signalled'[t] = FALSE
        /\ blocked'[t] = blocked[t] /\ rounds'[t] = rounds[t] /\ callbacks'[t] = callbacks[t]
        /\ running'[t] = running[t] /\ pending'[t] = pending[t] /\ trouble'[t] = trouble[t]
    BY <1>0, <1>4 DEF InterDma!Wait
  <2>3. ThreadOK(t)'
    BY <1>0, <2>1, <2>2
       DEF ThreadOK, InterDma!CountsInv, InterDma!CalmInv, InterDma!Busy
  <2>4. \A u \in Threads : u # t =>
           /\ i_pc'[u] = i_pc[u] /\ mutex'[u] = mutex[u] /\ signalled'[u] = signalled[u]
           /\ blocked'[u] = blocked[u] /\ rounds'[u] = rounds[u]
           /\ callbacks'[u] = callbacks[u] /\ running'[u] = running[u]
           /\ pending'[u] = pending[u] /\ trouble'[u] = trouble[u]
    BY <1>0, <1>4 DEF InterDma!Wait
  <2> QED
    BY <2>1, <2>3, <2>4
<1>5. CASE InterDma!Wake(t)
  BY <1>0, <1>5 DEF InterDma!Wake, ThreadOK, InterDma!CountsInv, InterDma!CalmInv, InterDma!Busy
<1>6. CASE InterDma!Unlock(t)
  <2>1. InterDma!FunctionsInv'
    BY <1>0, <1>6 DEF InterDma!Unlock
  <2>2. /\ i_pc[t] \in {"woken", "unlock"} /\ i_pc'[t] = "fill" /\ mutex'[t] = FALSE
        /\ blocked'[t] = blocked[t] /\ rounds'[t] = rounds[t] /\ callbacks'[t] = callbacks[t]
        /\ running'[t] = running[t] /\ pending'[t] = pending[t] /\ trouble'[t] = trouble[t]
    BY <1>0, <1>6 DEF InterDma!Unlock
  <2>3. ThreadOK(t)'
    BY <1>0, <2>1, <2>2
       DEF ThreadOK, InterDma!CountsInv, InterDma!CalmInv, InterDma!Busy
  <2>4. \A u \in Threads : u # t =>
           /\ i_pc'[u] = i_pc[u] /\ mutex'[u] = mutex[u] /\ signalled'[u] = signalled[u]
           /\ blocked'[u] = blocked[u] /\ rounds'[u] = rounds[u]
           /\ callbacks'[u] = callbacks[u] /\ running'[u] = running[u]
           /\ pending'[u] = pending[u] /\ trouble'[u] = trouble[u]
    BY <1>0, <1>6 DEF InterDma!Unlock
  <2> QED
    BY <2>1, <2>3, <2>4
<1>7. CASE t = "s2mm" /\ InterDma!Copy
  BY <1>0, <1>7 DEF InterDma!Copy, ThreadOK, InterDma!CountsInv, InterDma!CalmInv, InterDma!Busy
<1>8. CASE InterDma!Callback(t)
  <2>1. InterDma!FunctionsInv'
    <3>1. trouble' \in [Threads -> {"none", "refused", "create", "early", "spurious"}]
      BY <1>0, <1>8 DEF InterDma!Callback
    <3>2. signalled' \in [Threads -> BOOLEAN]
      BY <1>0, <1>8 DEF InterDma!Callback
    <3>3. /\ pending' \in [Threads -> Nat] /\ callbacks' \in [Threads -> Nat]
          /\ UNCHANGED <<i_pc, mutex, blocked, rounds, running>>
      BY <1>0, <1>8 DEF InterDma!Callback
    <3> QED
      BY <1>0, <3>1, <3>2, <3>3
  <2>2. /\ i_pc'[t] = i_pc[t] /\ mutex'[t] = mutex[t] /\ blocked'[t] = blocked[t]
        /\ rounds'[t] = rounds[t] /\ running'[t] = running[t] /\ pending[t] > 0
        /\ pending'[t] = pending[t] - 1 /\ callbacks'[t] = callbacks[t] + 1
        /\ \/ i_pc[t] = "asleep" /\ signalled'[t] = TRUE /\ trouble'[t] = trouble[t]
           \/ trouble'[t] # "none"
    BY <1>0, <1>8 DEF InterDma!Callback
  <2>3. ThreadOK(t)'
    <3>1. InterDma!CountsInv(t)'
      BY <1>0, <2>1, <2>2 DEF ThreadOK, InterDma!CountsInv, InterDma!Busy
    <3>2. CASE trouble'[t] # "none"
      BY <3>1, <3>2 DEF ThreadOK, InterDma!CalmInv
    <3>3. CASE i_pc[t] = "asleep" /\ signalled'[t] = TRUE /\ trouble'[t] = trouble[t]
      <4>1. CASE trouble[t] = "none"
        <5>1. ~signalled[t]
          BY <1>0, <2>2, <3>3, <4>1 DEF ThreadOK, InterDma!CalmInv, InterDma!Busy
        <5>2. /\ callbacks[t] + 1 = rounds[t] /\ running[t] + pending[t] = 1
              /\ ~blocked[t] /\ mutex[t] = FALSE
          BY <1>0, <3>3, <4>1, <5>1 DEF ThreadOK, InterDma!CalmInv, InterDma!Busy
        <5>3. callbacks'[t] = rounds'[t] /\ running'[t] + pending'[t] = 0
          BY <1>0, <2>2, <5>2
        <5>4. /\ i_pc'[t] = "asleep" /\ ~blocked'[t] /\ mutex'[t] = FALSE /\ signalled'[t]
              /\ "asleep" \notin {"wait", "woken", "unlock"}
          BY <2>2, <3>3, <5>2, Zenon
        <5>5. mutex'[t] = (i_pc'[t] \in {"wait", "woken", "unlock"})
          <6>1. i_pc'[t] \notin {"wait", "woken", "unlock"}
            BY <5>4
          <6>2. (i_pc'[t] \in {"wait", "woken", "unlock"}) = FALSE
            BY <6>1
          <6> QED
            BY <5>4, <6>2, Zenon
        <5>6. IF signalled'[t] THEN callbacks'[t] = rounds'[t] /\ running'[t] + pending'[t] = 0
              ELSE callbacks'[t] + 1 = rounds'[t] /\ running'[t] + pending'[t] = 1
          BY <5>3, <5>4, Zenon
        <5>7. InterDma!CalmInv(t)'
          BY <5>4, <5>5, <5>6 DEF InterDma!CalmInv, InterDma!Busy
        <5> QED
          BY <3>1, <5>7 DEF ThreadOK
      <4> QED
        BY <3>1, <3>3, <4>1 DEF ThreadOK, InterDma!CalmInv
    <3> QED
      BY <2>2, <3>2, <3>3
  <2>4. \A u \in Threads : u # t =>
           /\ i_pc'[u] = i_pc[u] /\ mutex'[u] = mutex[u] /\ signalled'[u] = signalled[u]
           /\ blocked'[u] = blocked[u] /\ rounds'[u] = rounds[u]
           /\ callbacks'[u] = callbacks[u] /\ running'[u] = running[u]
           /\ pending'[u] = pending[u] /\ trouble'[u] = trouble[u]
    BY <1>0, <1>8 DEF InterDma!Callback
  <2> QED
    BY <2>1, <2>3, <2>4
<1>9. CASE InterDma!CallbackBlocks(t)
  <2>1. InterDma!FunctionsInv'
    BY <1>0, <1>9 DEF InterDma!CallbackBlocks
  <2>2. /\ i_pc'[t] = i_pc[t] /\ rounds'[t] = rounds[t] /\ running'[t] = running[t]
        /\ pending[t] > 0 /\ pending'[t] = pending[t] - 1 /\ callbacks'[t] = callbacks[t]
        /\ trouble'[t] # "none"
    BY <1>0, <1>9 DEF InterDma!CallbackBlocks
  <2>3. ThreadOK(t)'
    BY <1>0, <2>1, <2>2
       DEF ThreadOK, InterDma!CountsInv, InterDma!CalmInv, InterDma!Busy
  <2>4. \A u \in Threads : u # t =>
           /\ i_pc'[u] = i_pc[u] /\ mutex'[u] = mutex[u] /\ signalled'[u] = signalled[u]
           /\ blocked'[u] = blocked[u] /\ rounds'[u] = rounds[u]
           /\ callbacks'[u] = callbacks[u] /\ running'[u] = running[u]
           /\ pending'[u] = pending[u] /\ trouble'[u] = trouble[u]
    BY <1>0, <1>9 DEF InterDma!CallbackBlocks
  <2> QED
    BY <2>1, <2>3, <2>4
<1>10. CASE InterDma!WakeUnasked(t)
  BY <1>0, <1>10 DEF InterDma!WakeUnasked, ThreadOK, InterDma!CountsInv, InterDma!CalmInv,
     InterDma!Busy
<1>11. CASE InterDma!HwEnds(t)
  BY <1>0, <1>11 DEF InterDma!HwEnds, ThreadOK, InterDma!CountsInv, InterDma!CalmInv, InterDma!Busy
<1> QED
  BY <1>1, <1>2, <1>3, <1>4, <1>5, <1>6, <1>7, <1>8, <1>9, <1>10, <1>11
     DEF InterDma!Code, InterDma!Handler

(* InterDma's operators on bits are those of Bits.                         *)
LEMMA SameConversions ==
  /\ \A n, k : InterDma!bit(n, k) = bit(n, k)
  /\ \A a, from, to : InterDma!field(a, from, to) = field(a, from, to)
<1>1. \A n, k : InterDma!bit(n, k) = bit(n, k)
  BY Zenon DEF InterDma!bit, bit
<1>2. \A a, from, to : InterDma!field(a, from, to) = field(a, from, to)
  BY Zenon DEF InterDma!field, field
<1> QED
  BY <1>1, <1>2

(* Whatever header is asked for, what leaves is eight bytes.               *)
LEMMA HeadIs ==
  ASSUME NEW f, f.modulation \in Nat, f.Mb \in Nat, f.ldpcNum \in Nat
  PROVE  InterDma!revert_char(InterDma!constrM2S(f), InterDma!HEAD_SIZE) \in InterDma!Bytes
<1> DEFINE pack == [i \in 0..(64 - 1) |->
                       IF i \in {60, 57, 53, 52, 50} THEN 1
                       ELSE IF i \in 26..27 THEN InterDma!bit(f.modulation, i - 26)
                       ELSE IF i \in 20..25 THEN InterDma!bit(f.Mb, i - 20)
                       ELSE IF i \in 11..19 THEN InterDma!bit(f.ldpcNum, i - 11)
                       ELSE 0]
           bits == [i \in 0..(64 - 1) |-> pack[64 - 1 - i]]
           byte(j) == [i \in 0..(8 - 1) |-> [k \in 0..7 |-> bits[8 * j + k]][8 - 1 - i]]
           head == [j \in 0..(8 - 1) |-> InterDma!field(byte(j), 0, 7)]
<1>1. \A i \in 0..63 : pack[i] \in {0, 1}
  <2>1. \A i \in 26..27 : InterDma!bit(f.modulation, i - 26) \in {0, 1}
    BY BitIs, SameConversions
  <2>2. \A i \in 20..25 : InterDma!bit(f.Mb, i - 20) \in {0, 1}
    BY BitIs, SameConversions
  <2>3. \A i \in 11..19 : InterDma!bit(f.ldpcNum, i - 11) \in {0, 1}
    BY BitIs, SameConversions
  <2> QED
    BY <2>1, <2>2, <2>3
<1>2. InterDma!revert_char(InterDma!constrM2S(f), InterDma!HEAD_SIZE)
        = [j \in 0..(8 - 1) |-> head[8 - 1 - j]]
  BY Zenon DEF InterDma!constrM2S, InterDma!bit2char, InterDma!revert_char, InterDma!PACK_LEN,
     InterDma!HEAD_SIZE
<1> HIDE DEF pack
<1>3. \A j \in 0..7 : \A i \in 0..7 : byte(j)[i] \in {0, 1}
  BY <1>1
<1> HIDE DEF byte
<1>4. \A j \in 0..7 : head[j] \in 0..255
  BY <1>3, ByteIs, SameConversions
<1> HIDE DEF head
<1>5. [j \in 0..(8 - 1) |-> head[8 - 1 - j]] \in [0..(8 - 1) -> 0..255]
  BY <1>4
<1> QED
  BY <1>2, <1>5 DEF InterDma!HEAD_SIZE, InterDma!Bytes

(* Quotients rounded up, of what is positive.                              *)
LEMMA BlocksAreFew ==
  ASSUME NEW u \in Nat \ {0}, NEW d \in Nat \ {0}, u <= 400 * d
  PROVE  (u + d - 1) \div d \in 1..400
<1> DEFINE x == u + d - 1
           q == x \div d
<1>1. x \in Nat /\ d \in Nat \ {0} /\ d <= x /\ x < 401 * d
  BY SMT
<1> HIDE DEF x
<1>2. q \in Nat /\ q * d <= x /\ x < (q + 1) * d
  BY <1>1, SMT
<1> HIDE DEF q
<1>3. q # 0
  BY <1>1, <1>2, SMT
<1>4. q < 401
  <2> SUFFICES ASSUME q >= 401 PROVE FALSE
    BY <1>2, SMT
  <2>1. \A m, n, k \in Nat : m >= n => m * k >= n * k
    BY SMT
  <2>2. q * d >= 401 * d
    BY <1>1, <1>2, <2>1, SMT
  <2>3. q * d \in Nat /\ 401 * d \in Nat
    BY <1>1, <1>2, SMT
  <2> HIDE DEF q
  <2> QED
    BY <1>1, <1>2, <2>2, <2>3, SMT
<1>5. q \in 1..400
  BY <1>2, <1>3, <1>4, SMT
<1> QED
  BY <1>5, SMT DEF q, x

(* Every header of the transmitter fits its fields.                        *)
LEMMA NextHeaderFits ==
  ASSUME NEW flag, NEW f \in InterDma!NextHeaders(flag)
  PROVE  f.modulation \in 0..3 /\ f.Mb \in 0..63 /\ f.ldpcNum \in 1..400
<1>1. CASE flag = 2 \/ flag = 1
  BY <1>1, SMT DEF InterDma!NextHeaders, InterDma!QAM64, InterDma!BPSK
<1>2. CASE flag # 2 /\ flag # 1
  <2>1. PICK p \in RandomParams : f = InterDma!random_mm2s(p[1], p[2])
    BY <1>2 DEF InterDma!NextHeaders
  <2>2. p[1] \in 0..3 /\ p[2] \in 0..63
    BY ExampleConstants DEF InterDma!m_Mod, InterDma!Mbs, InterDma!BPSK, InterDma!QAM64
  <2>3. InterDma!bits_per_symbol(p[1]) \in {1, 2, 4, 6}
    BY <2>2 DEF InterDma!bits_per_symbol, InterDma!BPSK, InterDma!QPSK, InterDma!QAM16,
       InterDma!QAM64
  <2> DEFINE u == 448 * (69 * 10 - 1) * InterDma!bits_per_symbol(p[1])
             d == (p[2] + 22) * 256 - 512
  <2>4. u \in Nat \ {0} /\ u <= 1852032
    BY <2>3, SMT
  <2>5. d \in Nat \ {0} /\ d >= 5120
    BY <2>2, SMT
  <2>6. f = [modulation |-> p[1], Mb |-> p[2], ldpcNum |-> (u + d - 1) \div d]
    BY <2>1 DEF InterDma!random_mm2s
  <2> HIDE DEF u, d
  <2>7. u \in Nat \ {0} /\ d \in Nat \ {0} /\ u <= 400 * d
    BY <2>4, <2>5, SMT
  <2>8. (u + d - 1) \div d \in 1..400
    BY <2>7, BlocksAreFew, Zenon
  <2> QED
    BY <2>2, <2>6, <2>8, SMT
<1> QED
  BY <1>1, <1>2, Zenon

(* Buffers, copies and what is on its way hold headers.                    *)
LEMMA HeadsStep ==
  ASSUME InterDma!LoopInv, InterDma!Next
  PROVE  InterDma!HeadsInv'
<1> USE DEF InterDma!Goto, InterDma!Set, InterDma!Threads, InterDma!data, InterDma!Heads
<1>0. /\ InterDma!FunctionsInv /\ InterDma!HeadsInv /\ MaxRounds \in [Threads -> Nat]
      /\ OtherFrames \subseteq InterDma!Bytes /\ NULL \notin InterDma!Bytes
      /\ \A t \in Threads : InterDma!CountsInv(t)
  BY ExampleConstants DEF InterDma!LoopInv, Threads
<1>1. CASE InterDma!Fill("mm2s")
  <2>1. /\ rounds["mm2s"] \in Nat /\ rounds'["mm2s"] = rounds["mm2s"] + 1
        /\ random_flag' = InterDma!NextFlag(rounds["mm2s"] + 1)
        /\ msf' \in InterDma!NextHeaders(random_flag')
        /\ UNCHANGED <<air, copies, leaked>>
        /\ buffer' = [buffer EXCEPT !["mm2s"] =
              InterDma!revert_char(InterDma!constrM2S(msf'), InterDma!HEAD_SIZE)]
    BY <1>0, <1>1 DEF InterDma!Fill, InterDma!FillTx, InterDma!FunctionsInv
  <2>2. random_flag' = IF rounds'["mm2s"] <= 1 THEN 2 ELSE IF rounds'["mm2s"] = 2 THEN 1 ELSE 0
    BY <1>0, <2>1 DEF InterDma!NextFlag, InterDma!HeadsInv
  <2>3. InterDma!revert_char(InterDma!constrM2S(msf'), InterDma!HEAD_SIZE) \in InterDma!Bytes
    BY <2>1, NextHeaderFits, HeadIs
  <2>4. buffer' \in [Threads -> InterDma!Heads]
    BY <1>0, <2>1, <2>3 DEF InterDma!HeadsInv, Threads
  <2> QED
    BY <1>0, <2>1, <2>2, <2>4 DEF InterDma!HeadsInv, Threads, InterDma!Bytes
<1>2. CASE InterDma!Fill("s2mm")
  <2>1. /\ rounds'["mm2s"] = rounds["mm2s"] /\ UNCHANGED <<random_flag, air, copies, leaked>>
        /\ buffer' = [buffer EXCEPT !["s2mm"] = NULL]
    BY <1>0, <1>2 DEF InterDma!Fill, InterDma!FillRx, InterDma!FunctionsInv
  <2>2. buffer' \in [Threads -> InterDma!Heads]
    BY <1>0, <2>1 DEF InterDma!HeadsInv, Threads
  <2> QED
    BY <1>0, <2>1, <2>2 DEF InterDma!HeadsInv, Threads, InterDma!Bytes
<1>3. CASE InterDma!Copy
  <2>1. /\ UNCHANGED <<random_flag, buffer, air, rounds>>
        /\ copies' \cup leaked' = copies \cup leaked \cup {[round |-> rounds["s2mm"], head |-> buffer["s2mm"]]}
    BY <1>3 DEF InterDma!Copy
  <2>2. rounds["s2mm"] \in 1..MaxRounds["s2mm"]
    BY <1>0, <1>3 DEF InterDma!Copy, InterDma!At, InterDma!CountsInv, InterDma!FunctionsInv, Threads
  <2>3. \A c \in copies' \cup leaked' : c.round \in 1..MaxRounds["s2mm"] /\ c.head \in InterDma!Heads
    <3>1. buffer["s2mm"] \in InterDma!Heads
      BY <1>0 DEF InterDma!HeadsInv
    <3>2. \A c \in copies \cup leaked : c.round \in 1..MaxRounds["s2mm"] /\ c.head \in InterDma!Heads
      BY <1>0 DEF InterDma!HeadsInv
    <3> QED
      BY <2>1, <2>2, <3>1, <3>2
  <2> QED
    BY <1>0, <2>1, <2>3 DEF InterDma!HeadsInv, InterDma!Bytes
<1>4. ASSUME NEW t \in Threads, InterDma!HwEnds(t) PROVE InterDma!HeadsInv'
  <2>1. /\ UNCHANGED <<random_flag, copies, leaked, rounds>>
        /\ \/ air' = buffer["mm2s"] /\ UNCHANGED buffer
           \/ \E head \in OtherFrames \cup ({air} \ {NULL}) :
                 buffer' = [buffer EXCEPT !["s2mm"] = head] /\ UNCHANGED air
    BY <1>4 DEF InterDma!HwEnds, Threads
  <2>2. buffer' \in [Threads -> InterDma!Heads] /\ air' \in InterDma!Heads
    BY <1>0, <2>1 DEF InterDma!HeadsInv, Threads
  <2> QED
    BY <1>0, <2>1, <2>2 DEF InterDma!HeadsInv, Threads, InterDma!Bytes
<1>5. ASSUME NEW t \in Threads,
             \/ InterDma!Start(t) \/ InterDma!Lock(t) \/ InterDma!Wait(t) \/ InterDma!Wake(t)
             \/ InterDma!Unlock(t) \/ InterDma!Handler(t) \/ InterDma!WakeUnasked(t)
      PROVE  InterDma!HeadsInv'
  <2>1. UNCHANGED <<random_flag, buffer, air, copies, leaked, rounds>>
    BY <1>5 DEF InterDma!Start, InterDma!Lock, InterDma!Wait, InterDma!Wake, InterDma!Unlock,
       InterDma!Handler, InterDma!Callback, InterDma!CallbackBlocks, InterDma!WakeUnasked
  <2> QED
    BY <1>0, <2>1 DEF InterDma!HeadsInv, InterDma!Bytes
<1>6. CASE InterDma!Process
  <2>1. UNCHANGED <<random_flag, buffer, air, leaked, rounds>> /\ copies' \subseteq copies
    BY <1>6 DEF InterDma!Process
  <2> QED
    BY <1>0, <2>1 DEF InterDma!HeadsInv, InterDma!Bytes
<1> QED
  BY <1>1, <1>2, <1>3, <1>4, <1>5, <1>6 DEF InterDma!Next, InterDma!Code, Threads

(* What the transmitter and the process_s2mm threads do leaves the         *)
(* receiver's frame alone.                                                 *)
LEMMA FrameStays ==
  ASSUME InterDma!FrameInv,
         i_pc'["s2mm"] = i_pc["s2mm"], signalled'["s2mm"] = signalled["s2mm"],
         running'["s2mm"] = running["s2mm"], pending'["s2mm"] = pending["s2mm"],
         buffer'["s2mm"] = buffer["s2mm"], trouble'["s2mm"] = trouble["s2mm"],
         copies' \subseteq copies, leaked' = leaked
  PROVE  InterDma!FrameInv'
BY DEF InterDma!FrameInv, InterDma!Busy, InterDma!CopiesAreFrames

(* The buffer holds a whole frame from the end of its transfer to the      *)
(* next.                                                                   *)
LEMMA FrameStep ==
  ASSUME InterDma!LoopInv, InterDma!Next
  PROVE  InterDma!FrameInv'
<1> USE DEF InterDma!Goto, InterDma!Set, InterDma!Threads, InterDma!data, InterDma!io,
            InterDma!locks, InterDma!At, InterDma!Upset
<1>0. /\ InterDma!FunctionsInv /\ InterDma!FrameInv /\ InterDma!CountsInv("s2mm")
      /\ buffer \in [Threads -> InterDma!Heads]
      /\ OtherFrames \subseteq InterDma!Bytes /\ NULL \notin InterDma!Bytes
  BY ExampleConstants DEF InterDma!LoopInv, InterDma!HeadsInv, Threads
<1>1. ASSUME \/ InterDma!Code("mm2s") \/ InterDma!Handler("mm2s")
             \/ InterDma!WakeUnasked("mm2s") \/ InterDma!HwEnds("mm2s")
      PROVE  InterDma!FrameInv'
  <2>1. /\ i_pc'["s2mm"] = i_pc["s2mm"] /\ signalled'["s2mm"] = signalled["s2mm"]
        /\ running'["s2mm"] = running["s2mm"] /\ pending'["s2mm"] = pending["s2mm"]
        /\ buffer'["s2mm"] = buffer["s2mm"] /\ trouble'["s2mm"] = trouble["s2mm"]
        /\ UNCHANGED <<copies, leaked>>
    BY <1>0, <1>1
       DEF InterDma!Code, InterDma!Fill, InterDma!FillTx, InterDma!Start, InterDma!Lock,
           InterDma!Wait, InterDma!Wake, InterDma!Unlock, InterDma!Handler, InterDma!Callback,
           InterDma!CallbackBlocks, InterDma!WakeUnasked, InterDma!HwEnds,
           InterDma!FunctionsInv, Threads
  <2> QED
    BY <1>0, <2>1, FrameStays
<1>2. CASE InterDma!Process
  <2>1. UNCHANGED <<i_pc, InterDma!io, buffer, leaked, trouble>> /\ signalled' = signalled
        /\ copies' \subseteq copies
    BY <1>2 DEF InterDma!Process
  <2> QED
    BY <1>0, <2>1, FrameStays
<1> USE DEF InterDma!FrameInv, InterDma!CopiesAreFrames, InterDma!Busy, InterDma!FunctionsInv,
   Threads
<1>3. CASE InterDma!Fill("s2mm")
  BY <1>0, <1>3 DEF InterDma!Fill, InterDma!FillRx
<1>4. CASE InterDma!Start("s2mm")
  BY <1>0, <1>4 DEF InterDma!Start
<1>5. CASE InterDma!Lock("s2mm")
  BY <1>0, <1>5 DEF InterDma!Lock
<1>6. CASE InterDma!Wait("s2mm")
  BY <1>0, <1>6 DEF InterDma!Wait
<1>7. CASE InterDma!Wake("s2mm")
  BY <1>0, <1>7 DEF InterDma!Wake
<1>8. CASE InterDma!Unlock("s2mm")
  BY <1>0, <1>8 DEF InterDma!Unlock
<1>9. CASE InterDma!Copy
  BY <1>0, <1>9 DEF InterDma!Copy
<1>10. CASE InterDma!Callback("s2mm")
  BY <1>0, <1>10 DEF InterDma!Callback
<1>11. CASE InterDma!CallbackBlocks("s2mm")
  BY <1>0, <1>11 DEF InterDma!CallbackBlocks
<1>12. CASE InterDma!WakeUnasked("s2mm")
  BY <1>0, <1>12 DEF InterDma!WakeUnasked
<1>13. CASE InterDma!HwEnds("s2mm")
  BY <1>0, <1>13 DEF InterDma!HwEnds
<1> QED
  BY <1>1, <1>2, <1>3, <1>4, <1>5, <1>6, <1>7, <1>8, <1>9, <1>10, <1>11, <1>12, <1>13
     DEF InterDma!Next, InterDma!Code, InterDma!Handler

LEMMA InterDmaStep ==
  ASSUME InterDma!LoopInv, InterDma!Next
  PROVE  InterDma!LoopInv'
<1>1. InterDma!FunctionsInv' /\ \A u \in Threads : ThreadOK(u)'
  <2>1. CASE InterDma!Process
    <3>1. UNCHANGED <<i_pc, mutex, signalled, blocked, rounds, running, pending, callbacks, trouble>>
      BY <2>1 DEF InterDma!Process, InterDma!locks, InterDma!io
    <3>2. InterDma!FunctionsInv'
      BY <3>1 DEF InterDma!LoopInv, InterDma!FunctionsInv, InterDma!Threads
    <3>3. \A u \in Threads : ThreadOK(u)
      BY DEF InterDma!LoopInv, ThreadOK, Threads, InterDma!Threads
    <3>4. ASSUME NEW u \in Threads PROVE ThreadOK(u)'
      BY <3>1, <3>3 DEF ThreadOK, InterDma!CountsInv, InterDma!CalmInv, InterDma!Busy
    <3> QED
      BY <3>2, <3>4
  <2>2. CASE \E t \in Threads : \/ InterDma!Code(t) \/ InterDma!Handler(t)
                                \/ InterDma!WakeUnasked(t) \/ InterDma!HwEnds(t)
    BY <2>2, ThreadSteps
  <2> QED
    BY <2>1, <2>2 DEF InterDma!Next, Threads, InterDma!Threads
<1>2. \A u \in InterDma!Threads : InterDma!CountsInv(u)' /\ InterDma!CalmInv(u)'
  BY <1>1 DEF ThreadOK, Threads, InterDma!Threads
<1>3. (\A u \in InterDma!Threads : InterDma!CountsInv(u) /\ InterDma!CalmInv(u))'
  BY <1>2 DEF InterDma!Threads
<1> QED
  BY <1>1, <1>3, HeadsStep, FrameStep DEF InterDma!LoopInv

LEMMA InterDmaStays ==
  ASSUME InterDma!LoopInv, UNCHANGED i_vars
  PROVE  InterDma!LoopInv'
<1>1. UNCHANGED <<i_pc, mutex, signalled, blocked, rounds, callbacks, random_flag, running,
                 pending, buffer, air, copies, leaked, trouble>>
  BY DEF i_vars
<1>2. InterDma!FunctionsInv'
  BY <1>1 DEF InterDma!LoopInv, InterDma!FunctionsInv, InterDma!Threads
<1>3. InterDma!FrameInv'
  BY <1>1, FrameStays DEF InterDma!LoopInv
<1>4. InterDma!HeadsInv'
  BY <1>1 DEF InterDma!LoopInv, InterDma!HeadsInv, InterDma!Threads, InterDma!Heads, InterDma!Bytes
<1>5. (\A t \in InterDma!Threads : InterDma!CountsInv(t) /\ InterDma!CalmInv(t))'
  BY <1>1 DEF InterDma!LoopInv, InterDma!CountsInv, InterDma!CalmInv, InterDma!Busy,
     InterDma!Threads
<1> QED
  BY <1>2, <1>3, <1>4, <1>5 DEF InterDma!LoopInv

(* The properties are parts of the invariant.                              *)
LEMMA InterDmaFollows ==
  ASSUME InterDma!LoopInv
  PROVE  InterDma!TypeOK /\ InterDma!CopiesAreFrames /\ InterDma!RoundsAreTransfers
<1>0. /\ InterDma!FunctionsInv /\ InterDma!FrameInv /\ InterDma!HeadsInv
      /\ \A t \in InterDma!Threads : InterDma!CountsInv(t) /\ InterDma!CalmInv(t)
      /\ MaxRounds \in [InterDma!Threads -> Nat]
  BY ExampleConstants DEF InterDma!LoopInv, Threads, InterDma!Threads
<1>1. \A t \in InterDma!Threads :
         /\ rounds[t] \in 0..MaxRounds[t] /\ callbacks[t] \in 0..MaxRounds[t]
         /\ running[t] \in 0..MaxRounds[t] /\ pending[t] \in 0..MaxRounds[t]
  BY <1>0 DEF InterDma!FunctionsInv, InterDma!CountsInv, InterDma!Busy
<1>2. random_flag \in 0..2
  BY <1>0 DEF InterDma!HeadsInv
<1>3. InterDma!TypeOK
  BY <1>0, <1>1, <1>2 DEF InterDma!TypeOK, InterDma!FunctionsInv, InterDma!HeadsInv,
     InterDma!Threads
<1>4. InterDma!RoundsAreTransfers
  BY <1>0 DEF InterDma!RoundsAreTransfers, InterDma!CalmInv, InterDma!Busy, InterDma!FunctionsInv
<1>5. InterDma!CopiesAreFrames
  BY <1>0, Zenon DEF InterDma!FrameInv, InterDma!CopiesAreFrames
<1> QED
  BY <1>3, <1>4, <1>5

-----------------------------------------------------------------------------
(* A program that takes no step keeps its invariant.                       *)

(* A program does not notice the steps of another.                         *)
LEMMA FileStays ==
  ASSUME FileTransfer!FileInv, UNCHANGED f_vars
  PROVE  FileTransfer!FileInv'
BY DEF f_vars, FileTransfer!FileInv, FileTransfer!TypeOK, FileTransfer!HeldAt,
   FileTransfer!BytesInv, FileTransfer!AllRead

LEMMA StartupStays ==
  ASSUME InterDmaMain!StartupInv, UNCHANGED <<m_pc, m_vars, s_vars, callback>>
  PROVE  InterDmaMain!StartupInv'
BY DEF m_vars, s_vars, InterDmaMain!StartupInv, InterDmaMain!TypeOK, InterDmaMain!LadderInv,
   InterDmaMain!HeldAt, InterDmaMain!MainTypeOK

LEMMA TestStays ==
  ASSUME TestAxidma!EarnedInv, UNCHANGED <<m_pc, m_vars, s_vars, send_buf, t_sent>>
  PROVE  TestAxidma!EarnedInv'
BY DEF m_vars, s_vars, TestAxidma!EarnedInv, TestAxidma!TypeOK, TestAxidma!LadderInv,
   TestAxidma!HeldAt, TestAxidma!MainTypeOK

LEMMA DisplayStays ==
  ASSUME DisplayImage!DisplayInv, UNCHANGED <<m_pc, m_vars, d_vars>>
  PROVE  DisplayImage!DisplayInv'
BY DEF m_vars, d_vars, DisplayImage!DisplayInv, DisplayImage!TypeOK, DisplayImage!LadderInv,
   DisplayImage!ReadInv, DisplayImage!HeldAt, DisplayImage!Labels, DisplayImage!Shown,
   DisplayImage!Behind, DisplayImage!Left

LEMMA GpioStays ==
  ASSUME Gpio!PortsInv, UNCHANGED <<m_pc, g_vars>>
  PROVE  Gpio!PortsInv'
BY DEF g_vars, Gpio!PortsInv, Gpio!TypeOK, Gpio!PassedMeansDone, Gpio!Done, Gpio!Ports

LEMMA UartStays ==
  ASSUME DmaUart!UartInv, UNCHANGED <<m_pc, m_vars, s_vars, u_vars, thread>>
  PROVE  DmaUart!UartInv'
BY DEF m_vars, s_vars, u_vars, DmaUart!UartInv, DmaUart!LadderInv, DmaUart!HeldAt,
   DmaUart!MainTypeOK, DmaUart!UdpTypeOK, DmaUart!TypeOK

LEMMA DatagramsStay ==
  ASSUME AxidmaTest!DatagramsInv, UNCHANGED <<m_pc, m_vars, s_vars, u_vars, received>>
  PROVE  AxidmaTest!DatagramsInv'
<1>1. UNCHANGED <<m_pc, m_held, m_rc, tx_size, rx_size, todo, port, wire, received>>
  BY DEF m_vars, s_vars, u_vars
<1>2. /\ AxidmaTest!LadderInv' /\ AxidmaTest!UdpTypeOK'
  BY <1>1 DEF AxidmaTest!DatagramsInv, AxidmaTest!LadderInv, AxidmaTest!HeldAt,
     AxidmaTest!MainTypeOK, AxidmaTest!UdpTypeOK
<1>3. AxidmaTest!Cut(rx_size)' = AxidmaTest!Cut(rx_size)
  BY <1>1 DEF AxidmaTest!Cut, AxidmaTest!cut, AxidmaTest!Place, AxidmaTest!ArrayOf
<1>4. AxidmaTest!Array' = AxidmaTest!Array
  BY DEF AxidmaTest!Array
<1> QED
  BY <1>1, <1>2, <1>3, <1>4 DEF AxidmaTest!DatagramsInv, AxidmaTest!Sending

-----------------------------------------------------------------------------
(* axidma_benchmark.                                                       *)

(* The options give sizes and numbers.                                     *)
LEMMA SizesAre ==
  ASSUME Benchmark!BenchInv
  PROVE  args.tx_size \in Nat \ {0} /\ args.rx_size \in Nat \ {0} /\ args.num_transfers \in Nat
<1>1. \A n \in BenchSizes \cup {BENCH_SIZE} : n \in Nat \ {0}
  BY ExampleConstants
<1>2. \A n \in BenchNumbers \cup {1} : n \in Nat
  BY ExampleConstants
<1>3. /\ args.tx_size \in BenchSizes \cup {BENCH_SIZE}
      /\ args.rx_size \in BenchSizes \cup {BENCH_SIZE}
      /\ args.num_transfers \in BenchNumbers \cup {1}
  BY DEF Benchmark!BenchInv, Benchmark!Options
<1> QED
  BY <1>1, <1>2, <1>3

(* The benchmark's pattern is that of Bits.                                *)
LEMMA PatternIsXor ==
  ASSUME NEW n
  PROVE  Benchmark!TEST_PATTERN(n) = xor(305442014, n)
<1>1. \A m : Benchmark!xor(m, n) = xor(m, n)
  BY Zenon DEF Benchmark!xor, xor, Benchmark!bit, bit, Benchmark!field, field
<1> QED
  BY <1>1, SMT DEF Benchmark!TEST_PATTERN

(* A pattern's bytes are bytes, and the first one of a word in whole words *)
(* is not zero.                                                            *)
LEMMA PatternIs ==
  ASSUME NEW n \in Nat
  PROVE  /\ Benchmark!TEST_PATTERN(n) \in Nat
         /\ \A b \in 0..3 : Benchmark!Byte(Benchmark!TEST_PATTERN(n), b) \in 0..255
         /\ n % 4 = 0 => Benchmark!Byte(Benchmark!TEST_PATTERN(n), 0) # 0
<1> DEFINE p == Benchmark!TEST_PATTERN(n)
<1>1. p \in Nat /\ (n % 4 = 0 => p % 4 = 2)
  BY PatternIsXor, XorIs, SMT
<1> HIDE DEF p
<1>2. \A b \in 0..3 : Benchmark!Byte(p, b) \in 0..255
  <2>1. \A d \in Nat \ {0} : (p \div d) % 256 \in 0..255
    BY <1>1
  <2> QED
    BY <2>1, Powers DEF Benchmark!Byte
<1>3. p % 4 = 2 => Benchmark!Byte(p, 0) # 0
  <2>1. p \div 1 = p
    BY <1>1
  <2>2. Benchmark!Byte(p, 0) = p % 256
    BY <2>1, Powers DEF Benchmark!Byte
  <2>3. p % 4 = 2 => p % 256 # 0
    BY <1>1
  <2> QED
    BY <2>2, <2>3
<1> QED
  BY <1>1, <1>2, <1>3 DEF p

(* A whole pattern is more than a byte.                                    *)
LEMMA PatternIsNoByte ==
  ASSUME NEW n \in Nat, n < 268435456
  PROVE  Benchmark!TEST_PATTERN(n) > 255
BY PatternIsXor, XorIs, SMT

(* init_data fills a buffer with bytes, and one of whole words with the    *)
(* words that verify_data expects.                                         *)
LEMMA FilledIs ==
  ASSUME NEW n \in Nat, NEW base \in Nat
  PROVE  /\ Benchmark!Filled(n, base) \in [0..(n - 1) -> 0..255]
         /\ n % 4 = 0 =>
              \A j \in 0..(n - 1) :
                 Benchmark!Filled(n, base)[j]
                   = Benchmark!Byte(Benchmark!TEST_PATTERN(base + j \div 4), j % 4)
<1> DEFINE B(i, b) == Benchmark!Byte(Benchmark!TEST_PATTERN(i), b)
           F == Benchmark!Filled(n, base)
<1>1. \A i \in Nat : \A b \in 0..3 : B(i, b) \in 0..255
  BY PatternIs
<1>2. F = [j \in 0..(n - 1) |->
             CASE j < (n % 4)           -> B(base + n \div 4 + j, 0)
               [] j >= (n % 4) /\ j < 4 * (n \div 4) -> B(base + j \div 4, j % 4)
               [] OTHER                 -> 0]
  BY Zenon DEF Benchmark!Filled
<1> HIDE DEF B, F
<1>3. ASSUME NEW j \in 0..(n - 1) PROVE F[j] \in 0..255
  <2>1. base + n \div 4 + j \in Nat /\ base + j \div 4 \in Nat /\ j % 4 \in 0..3 /\ 0 \in 0..3
    OBVIOUS
  <2>2. F[j] \in {B(base + n \div 4 + j, 0), B(base + j \div 4, j % 4), 0}
    BY <1>2
  <2>3. B(base + n \div 4 + j, 0) \in 0..255 /\ B(base + j \div 4, j % 4) \in 0..255
    BY <1>1, <2>1
  <2> QED
    BY <2>2, <2>3
<1>4. F \in [0..(n - 1) -> 0..255]
  <2>1. F = [j \in 0..(n - 1) |-> F[j]]
    BY <1>2
  <2> QED
    BY <1>3, <2>1
<1>5. ASSUME n % 4 = 0, NEW j \in 0..(n - 1) PROVE F[j] = B(base + j \div 4, j % 4)
  <2>1. ~(j < n % 4) /\ j >= n % 4 /\ j < 4 * (n \div 4)
    BY <1>5
  <2> QED
    BY <1>2, <2>1
<1> QED
  BY <1>4, <1>5 DEF B, F

(* A byte in a word.                                                       *)
LEMMA WordsAre ==
  ASSUME NEW n \in Nat, n % 4 = 0
  PROVE  /\ \A j \in 0..(n - 1) : /\ j \div 4 \in 0..(n \div 4 - 1) /\ j % 4 \in 0..3
                                  /\ 4 * (j \div 4) + (j % 4) = j
         /\ \A i \in 0..(n \div 4 - 1) : \A b \in 0..3 :
               /\ 4 * i + b \in 0..(n - 1) /\ (4 * i + b) \div 4 = i /\ (4 * i + b) % 4 = b
<1>1. n = 4 * (n \div 4) /\ n \div 4 \in Nat
  OBVIOUS
<1>2. ASSUME NEW j \in 0..(n - 1)
      PROVE  /\ j \div 4 \in 0..(n \div 4 - 1) /\ j % 4 \in 0..3 /\ 4 * (j \div 4) + (j % 4) = j
  BY <1>1
<1>3. ASSUME NEW i \in 0..(n \div 4 - 1), NEW b \in 0..3
      PROVE  4 * i + b \in 0..(n - 1) /\ (4 * i + b) \div 4 = i /\ (4 * i + b) % 4 = b
  BY <1>1
<1> QED
  BY <1>2, <1>3

(* What verify_data finds: a byte of the transmit buffer that has changed  *)
(* whatever the size, since it compares a leftover byte with a pattern,    *)
(* which is greater; and, in whole words, nothing else.                    *)
LEMMA VerdictOnTx ==
  ASSUME Benchmark!BenchInv, b_pc = "verify"
  PROVE  /\ Benchmark!TxUnchanged(tx, args.tx_size) => written.tx = -1
         /\ args.tx_size % 4 = 0 /\ written.tx = -1 => Benchmark!TxUnchanged(tx, args.tx_size)
<1> DEFINE n == args.tx_size
           F == Benchmark!Filled(n, 0)
           P(i) == Benchmark!TEST_PATTERN(i)
<1>1. /\ n \in Nat \ {0} /\ written.tx \in (-1)..(n - 1) /\ \A j \in DOMAIN tx : tx[j] \in 0..255
      /\ tx = [j \in 0..(n - 1) |-> IF j = written.tx THEN 255 - F[j] ELSE F[j]]
  BY SizesAre DEF Benchmark!BenchInv, Benchmark!DataInv
<1>2. /\ F \in [0..(n - 1) -> 0..255]
      /\ n % 4 = 0 => \A j \in 0..(n - 1) : F[j] = Benchmark!Byte(P(0 + j \div 4), j % 4)
  <2>1. n \in Nat /\ 0 \in Nat
    BY <1>1
  <2> QED
    BY <2>1, FilledIs
<1>3. Benchmark!TxUnchanged(tx, n)
        <=> /\ \A i \in 0..(n \div 4 - 1) : \A b \in 0..3 : tx[4 * i + b] = Benchmark!Byte(P(i), b)
            /\ \A i \in 0..((n % 4) - 1) : tx[i] = P(i + n \div 4)
  BY DEF Benchmark!TxUnchanged, Benchmark!WordIs
<1>4. n % 4 # 0 => P(0 + n \div 4) > 255
  <2>1. n < 1073741824
    BY BelowAGigabyte, SMT DEF Benchmark!BenchInv, Benchmark!Options
  <2>2. 0 + n \div 4 \in Nat /\ 0 + n \div 4 < 268435456
    BY <1>1, <2>1, SMT
  <2> HIDE DEF n
  <2> QED
    BY <2>2, PatternIsNoByte, SMT
<1> HIDE DEF n, F, P
<1>5. CASE n % 4 # 0
  <2>1. 0 \in 0..((n % 4) - 1) /\ 0 \in DOMAIN tx
    BY <1>1, <1>5
  <2>2. tx[0] \in 0..255
    BY <1>1, <2>1
  <2>3. ~(tx[0] = P(0 + n \div 4))
    BY <1>4, <1>5, <2>2
  <2> QED
    BY <1>3, <1>5, <2>1, <2>3 DEF n
<1>6. CASE n % 4 = 0
  <2>1. /\ \A j \in 0..(n - 1) : /\ j \div 4 \in 0..(n \div 4 - 1) /\ j % 4 \in 0..3
                                 /\ 4 * (j \div 4) + (j % 4) = j
        /\ \A i \in 0..(n \div 4 - 1) : \A b \in 0..3 :
               /\ 4 * i + b \in 0..(n - 1) /\ (4 * i + b) \div 4 = i /\ (4 * i + b) % 4 = b
    BY <1>1, <1>6, WordsAre
  <2>2. ASSUME Benchmark!TxUnchanged(tx, n), written.tx # -1 PROVE FALSE
    <3> DEFINE j == written.tx
    <3>1. j \in 0..(n - 1)
      BY <1>1, <2>2
    <3>2. tx[j] = 255 - F[j] /\ F[j] \in 0..255
      BY <1>1, <1>2, <3>1
    <3> HIDE DEF j
    <3>3. tx[4 * (j \div 4) + (j % 4)] = Benchmark!Byte(P(j \div 4), j % 4)
      BY <1>3, <2>1, <2>2, <3>1
    <3>4. tx[j] = Benchmark!Byte(P(j \div 4), j % 4)
      BY <2>1, <3>1, <3>3
    <3>5. 0 + j \div 4 = j \div 4
      BY <3>1
    <3>6. F[j] = Benchmark!Byte(P(j \div 4), j % 4)
      BY <1>2, <1>6, <3>1, <3>5
    <3> QED
      BY <3>2, <3>4, <3>6
  <2>3. ASSUME written.tx = -1 PROVE Benchmark!TxUnchanged(tx, n)
    <3>1. \A j \in 0..(n - 1) : tx[j] = F[j]
      BY <1>1, <2>3
    <3>2. ASSUME NEW i \in 0..(n \div 4 - 1), NEW b \in 0..3
          PROVE  tx[4 * i + b] = Benchmark!Byte(P(i), b)
      <4> DEFINE j == 4 * i + b
      <4>1. j \in 0..(n - 1) /\ j \div 4 = i /\ j % 4 = b
        BY <2>1
      <4> HIDE DEF j
      <4>2. 0 + j \div 4 = i
        BY <4>1
      <4>3. tx[j] = Benchmark!Byte(P(i), b)
        BY <1>2, <1>6, <3>1, <4>1, <4>2
      <4> QED
        BY <4>3 DEF j
    <3>3. 0..((n % 4) - 1) = {}
      BY <1>6
    <3> QED
      BY <1>3, <3>2, <3>3
  <2> QED
    BY <2>2, <2>3 DEF n
<1> QED
  BY <1>5, <1>6

(* In whole words it finds the first bytes of the receive buffer that the  *)
(* hardware has written, if it has: a byte that is written is none that    *)
(* was there, when the pattern's first word depends on whole words only.   *)
LEMMA VerdictOnRx ==
  ASSUME Benchmark!BenchInv, b_pc = "verify", args.rx_size % 4 = 0
  PROVE  /\ ~Benchmark!RxUnchanged(rx, args.rx_size, args.tx_size) => written.rx > 0
         /\ args.tx_size % 4 = 0 /\ written.rx > 0 =>
               ~Benchmark!RxUnchanged(rx, args.rx_size, args.tx_size)
<1> DEFINE m == args.rx_size
           n == args.tx_size
           G == Benchmark!Filled(m, n)
           P(i) == Benchmark!TEST_PATTERN(i)
<1>1. /\ m \in Nat \ {0} /\ n \in Nat /\ written.rx \in 0..m /\ m % 4 = 0
      /\ rx = [j \in 0..(m - 1) |-> IF j < written.rx THEN 0 ELSE G[j]]
  BY SizesAre DEF Benchmark!BenchInv, Benchmark!DataInv
<1>2. \A j \in 0..(m - 1) : G[j] = Benchmark!Byte(P(n + j \div 4), j % 4)
  BY <1>1, FilledIs
<1>3. Benchmark!RxUnchanged(rx, m, n)
        <=> /\ \A i \in 0..(m \div 4 - 1) : \A b \in 0..3 :
                  rx[4 * i + b] = Benchmark!Byte(P(i + n), b)
            /\ \A i \in 0..((m % 4) - 1) : rx[i] = P(i + n + m \div 4)
  BY DEF Benchmark!RxUnchanged, Benchmark!WordIs
<1>4. n % 4 = 0 => Benchmark!Byte(P(n), 0) # 0
  BY <1>1, PatternIs
<1> HIDE DEF m, n, G, P
<1>5. \A i \in 0..(m \div 4 - 1) : \A b \in 0..3 :
         /\ 4 * i + b \in 0..(m - 1) /\ (4 * i + b) \div 4 = i /\ (4 * i + b) % 4 = b
  BY <1>1, WordsAre
<1>6. ASSUME ~(written.rx > 0) PROVE Benchmark!RxUnchanged(rx, m, n)
  <2>1. \A j \in 0..(m - 1) : rx[j] = G[j]
    BY <1>1, <1>6
  <2>2. ASSUME NEW i \in 0..(m \div 4 - 1), NEW b \in 0..3
        PROVE  rx[4 * i + b] = Benchmark!Byte(P(i + n), b)
    <3> DEFINE j == 4 * i + b
    <3>1. j \in 0..(m - 1) /\ n + j \div 4 = i + n /\ j % 4 = b
      BY <1>1, <1>5
    <3> HIDE DEF j
    <3>2. rx[j] = Benchmark!Byte(P(i + n), b)
      BY <1>2, <2>1, <3>1
    <3> QED
      BY <3>2 DEF j
  <2>3. 0..((m % 4) - 1) = {}
    BY <1>1
  <2> QED
    BY <1>3, <2>2, <2>3
<1>7. ASSUME n % 4 = 0, written.rx > 0, Benchmark!RxUnchanged(rx, m, n) PROVE FALSE
  <2>1. 0 \in 0..(m \div 4 - 1) /\ 0 \in 0..3 /\ 4 * 0 + 0 = 0 /\ 0 + n = n /\ 0 \in 0..(m - 1)
    BY <1>1
  <2>2. rx[4 * 0 + 0] = Benchmark!Byte(P(0 + n), 0)
    BY <1>3, <1>7, <2>1
  <2>3. rx[0] = 0
    BY <1>1, <1>7, <2>1
  <2> QED
    BY <1>4, <1>7, <2>1, <2>2, <2>3
<1> QED
  BY <1>6, <1>7 DEF m, n

(* The steps that neither fill the buffers nor start the first transfer.   *)
LEMMA DataStays ==
  ASSUME Benchmark!DataInv, UNCHANGED <<tx, rx>>, b_pc' \notin {"transfer", "verify"}
  PROVE  Benchmark!DataInv'
BY DEF Benchmark!DataInv

(* The options.                                                            *)
LEMMA BenchParse ==
  ASSUME Benchmark!BenchInv,
         \/ Benchmark!Enter \/ Benchmark!Option \/ Benchmark!BadOption \/ Benchmark!ParseEnd
  PROVE  Benchmark!BenchInv'
<1>1. /\ b_held = {} /\ args \in Benchmark!Options /\ transfers \in Nat /\ b_rc \in Int
      /\ written = [rx |-> 0, tx |-> -1] /\ Benchmark!DataInv
      /\ b_pc \in {"start", "parse"}
  BY DEF Benchmark!BenchInv, Benchmark!HeldAt, Benchmark!Enter, Benchmark!Option,
     Benchmark!BadOption, Benchmark!ParseEnd
<1>2. /\ UNCHANGED <<b_held, tx, rx, written, transfers>> /\ b_rc' \in Int
      /\ \/ b_pc' \in {"parse", "init"}
         \/ b_pc' = "exit" /\ b_rc' = 1
  <2> USE <1>1 DEF Benchmark!Quiet, Benchmark!Go, Benchmark!Ret
  <2>1. CASE Benchmark!Enter
    BY <2>1 DEF Benchmark!Enter
  <2>2. CASE Benchmark!Option
    <3>1. UNCHANGED <<b_pc, b_held, b_rc, tx, rx, written, transfers>> /\ b_pc = "parse"
      BY <2>2, Zenon DEF Benchmark!Option
    <3> QED
      BY <3>1
  <2>3. CASE Benchmark!BadOption
    BY <2>3 DEF Benchmark!BadOption
  <2>4. CASE Benchmark!ParseEnd
    BY <2>4 DEF Benchmark!ParseEnd
  <2> QED
    BY <2>1, <2>2, <2>3, <2>4
<1>3. args' \in Benchmark!Options
  BY <1>1 DEF Benchmark!Enter, Benchmark!Option, Benchmark!BadOption, Benchmark!ParseEnd,
     Benchmark!Options
<1>4. Benchmark!DataInv'
  BY <1>1, <1>2, DataStays
<1>5. args' \in Benchmark!Options'
  BY <1>3 DEF Benchmark!Options
<1>6. Benchmark!ResultInv'
  BY <1>2 DEF Benchmark!ResultInv
<1>7. (b_held = Benchmark!HeldAt(b_pc))'
  BY <1>1, <1>2 DEF Benchmark!HeldAt
<1> QED
  BY <1>1, <1>2, <1>4, <1>5, <1>6, <1>7 DEF Benchmark!BenchInv

(* Taking resources and finding channels.                                  *)
LEMMA BenchTake ==
  ASSUME Benchmark!BenchInv, Benchmark!Take \/ Benchmark!FindChannels
  PROVE  Benchmark!BenchInv'
<1>1. /\ b_held = Benchmark!HeldAt(b_pc) /\ args \in Benchmark!Options
      /\ transfers \in Nat /\ b_rc \in Int
      /\ written = [rx |-> 0, tx |-> -1] /\ Benchmark!DataInv
      /\ b_pc \in {"init", "malloc_tx", "malloc_rx", "channels"}
  BY DEF Benchmark!BenchInv, Benchmark!Take, Benchmark!Taking, Benchmark!FindChannels
<1>2. /\ UNCHANGED <<tx, rx, written, transfers>> /\ b_rc' \in Int
      /\ \/ b_pc' \in {"malloc_tx", "malloc_rx", "channels", "fill"}
         \/ b_pc' \in {"exit", "destroy", "free_tx", "free_rx"} /\ b_rc' \in {1, -1, -19}
  BY <1>1 DEF Benchmark!Take, Benchmark!Taking, Benchmark!AfterTaking, Benchmark!OnFail,
     Benchmark!FindChannels, Benchmark!Quiet, Benchmark!Go, Benchmark!Ret
<1>3. args' \in Benchmark!Options
  BY <1>1 DEF Benchmark!Take, Benchmark!FindChannels, Benchmark!Options
<1>4. Benchmark!DataInv'
  BY <1>1, <1>2, DataStays
<1>5. args' \in Benchmark!Options'
  BY <1>3 DEF Benchmark!Options
<1>6. Benchmark!ResultInv'
  BY <1>2 DEF Benchmark!ResultInv
<1>7. (b_held = Benchmark!HeldAt(b_pc))'
  BY <1>1 DEF Benchmark!HeldAt, Benchmark!Resources, Benchmark!Take, Benchmark!Taking,
     Benchmark!AfterTaking, Benchmark!OnFail, Benchmark!FindChannels, Benchmark!Go
<1> QED
  BY <1>1, <1>2, <1>4, <1>5, <1>6, <1>7 DEF Benchmark!BenchInv

(* init_data depends on the sizes alone.                                   *)
LEMMA FilledIsConstant ==
  ASSUME NEW n, NEW base
  PROVE  Benchmark!Filled(n, base)' = Benchmark!Filled(n, base)
BY SMT DEF Benchmark!Filled, Benchmark!Byte, Benchmark!TEST_PATTERN, Benchmark!xor,
   Benchmark!field, Benchmark!bit

(* What the transfer may make of a byte is a byte.                         *)
LEMMA InvertedBytes ==
  ASSUME NEW n, NEW f \in [0..(n - 1) -> 0..255]
  PROVE  \A i \in 0..(n - 1) : f[i] \in 0..255 /\ 255 - f[i] \in 0..255 /\ 0 \in 0..255
<1>1. \A b \in 0..255 : 255 - b \in 0..255 /\ 0 \in 0..255
  OBVIOUS
<1>2. \A i \in 0..(n - 1) : f[i] \in 0..255
  OBVIOUS
<1> QED
  BY <1>1, <1>2, Zenon

(* Filling the buffers and the first transfer.                             *)
LEMMA BenchData ==
  ASSUME Benchmark!BenchInv, Benchmark!Fill \/ Benchmark!FirstTransfer
  PROVE  Benchmark!BenchInv'
<1> DEFINE n == args.tx_size
           m == args.rx_size
           F == Benchmark!Filled(n, 0)
           G == Benchmark!Filled(m, n)
<1>1. /\ b_held = Benchmark!HeldAt(b_pc) /\ args \in Benchmark!Options
      /\ transfers \in Nat /\ b_rc \in Int /\ b_pc \in {"fill", "transfer"}
  BY DEF Benchmark!BenchInv, Benchmark!Fill, Benchmark!FirstTransfer
<1>2. /\ UNCHANGED <<args, b_held>>
      /\ args' \in Benchmark!Options'
  BY <1>1 DEF Benchmark!Fill, Benchmark!FirstTransfer, Benchmark!Options
<1>3. /\ n \in Nat \ {0} /\ m \in Nat \ {0}
      /\ F \in [0..(n - 1) -> 0..255] /\ G \in [0..(m - 1) -> 0..255]
  <2>1. n \in Nat \ {0} /\ m \in Nat \ {0} /\ 0 \in Nat
    BY SizesAre
  <2> QED
    BY <2>1, FilledIs
<1>4. Benchmark!Filled(args.tx_size, 0)' = F /\ Benchmark!Filled(args.rx_size, args.tx_size)' = G
  BY <1>2, FilledIsConstant, Zenon
<1>5. CASE Benchmark!Fill
  <2>1. /\ b_pc' = "transfer" /\ tx' = F /\ rx' = G /\ UNCHANGED <<b_rc, written, transfers>>
        /\ written = [rx |-> 0, tx |-> -1]
    BY <1>5 DEF Benchmark!Fill, Benchmark!Go, Benchmark!BenchInv
  <2>2. written.rx = 0 /\ written.tx = -1
    BY <2>1
  <2> HIDE DEF F, G
  <2>3. /\ F = [j \in 0..(n - 1) |-> IF j = -1 THEN 255 - F[j] ELSE F[j]]
        /\ G = [j \in 0..(m - 1) |-> IF j < 0 THEN 0 ELSE G[j]]
    BY <1>3
  <2>4. /\ tx' = [j \in 0..(n - 1) |-> IF j = written'.tx THEN 255 - F[j] ELSE F[j]]
        /\ rx' = [j \in 0..(m - 1) |-> IF j < written'.rx THEN 0 ELSE G[j]]
        /\ written'.rx = 0 /\ written'.tx = -1
        /\ written'.rx \in 0..m /\ written'.tx \in (-1)..(n - 1)
    BY <1>3, <2>1, <2>2, <2>3
  <2>5. /\ \A j \in DOMAIN tx' : tx'[j] \in 0..255
        /\ \A j \in DOMAIN rx' : rx'[j] \in 0..255
    BY <1>3, <2>1
  <2>6. Benchmark!DataInv'
    BY <1>2, <1>4, <2>4, <2>5 DEF Benchmark!DataInv
  <2> QED
    BY <1>1, <1>2, <2>1, <2>6, <1>5
       DEF Benchmark!BenchInv, Benchmark!ResultInv, Benchmark!HeldAt, Benchmark!Fill
<1>6. CASE Benchmark!FirstTransfer
  <2> HIDE DEF F, G
  <2>1. CASE b_pc' = "verify"
    <3>1. PICK k \in 0..m, j \in (-1)..(n - 1) :
             /\ rx' = [i \in DOMAIN rx |-> IF i < k THEN 0 ELSE rx[i]]
             /\ tx' = [i \in DOMAIN tx |-> IF i = j THEN 255 - tx[i] ELSE tx[i]]
             /\ written' = [rx |-> k, tx |-> j]
             /\ transfers' = transfers + 1 /\ UNCHANGED b_rc
      BY <1>6, <2>1 DEF Benchmark!FirstTransfer, Benchmark!Go
    <3>2. tx = F /\ rx = G
      <4>1. /\ written.rx = 0 /\ written.tx = -1
            /\ tx = [i \in 0..(n - 1) |-> IF i = written.tx THEN 255 - F[i] ELSE F[i]]
            /\ rx = [i \in 0..(m - 1) |-> IF i < written.rx THEN 0 ELSE G[i]]
        BY <1>6 DEF Benchmark!FirstTransfer, Benchmark!BenchInv, Benchmark!DataInv, F, G
      <4> QED
        BY <1>3, <4>1
    <3>3. /\ rx' = [i \in 0..(m - 1) |-> IF i < k THEN 0 ELSE G[i]]
          /\ tx' = [i \in 0..(n - 1) |-> IF i = j THEN 255 - F[i] ELSE F[i]]
          /\ written'.rx = k /\ written'.tx = j
      BY <1>3, <3>1, <3>2
    <3>4. /\ \A i \in DOMAIN tx' : tx'[i] \in 0..255
          /\ \A i \in DOMAIN rx' : rx'[i] \in 0..255
      <4>1. \A i \in 0..(n - 1) : F[i] \in 0..255 /\ 255 - F[i] \in 0..255
        BY <1>3, InvertedBytes, Zenon
      <4>2. \A i \in 0..(m - 1) : G[i] \in 0..255 /\ 0 \in 0..255
        BY <1>3, InvertedBytes, Zenon
      <4>3. \A i \in DOMAIN tx' : tx'[i] \in 0..255
        BY <3>3, <4>1
      <4> QED
        BY <3>3, <4>2, <4>3
    <3>5. Benchmark!DataInv'
      BY <1>2, <1>4, <2>1, <3>3, <3>4 DEF Benchmark!DataInv
    <3> QED
      BY <1>1, <1>2, <1>6, <2>1, <3>1, <3>5
         DEF Benchmark!BenchInv, Benchmark!ResultInv, Benchmark!HeldAt, Benchmark!FirstTransfer
  <2>2. CASE b_pc' # "verify"
    <3>1. b_pc' = "free_rx" /\ b_rc' = -1 /\ UNCHANGED <<tx, rx, written, transfers>>
      BY <1>6, <2>2 DEF Benchmark!FirstTransfer, Benchmark!Go, Benchmark!Ret
    <3>2. Benchmark!DataInv'
      BY <3>1, DataStays DEF Benchmark!BenchInv
    <3> QED
      BY <1>1, <1>2, <1>6, <3>1, <3>2
         DEF Benchmark!BenchInv, Benchmark!ResultInv, Benchmark!HeldAt, Benchmark!FirstTransfer
  <2> QED
    BY <2>1, <2>2
<1> QED
  BY <1>5, <1>6

(* The verdict, the timed transfers and the labels.                        *)
LEMMA BenchEnd ==
  ASSUME Benchmark!BenchInv,
         \/ Benchmark!Verify \/ Benchmark!TimedTransfer \/ Benchmark!TimeEnd \/ Benchmark!Give
  PROVE  Benchmark!BenchInv'
<1>1. /\ b_held = Benchmark!HeldAt(b_pc) /\ args \in Benchmark!Options
      /\ transfers \in Nat /\ b_rc \in Int
      /\ Benchmark!DataInv /\ Benchmark!ResultInv /\ args.num_transfers \in Nat
  BY SizesAre DEF Benchmark!BenchInv
<1>2. UNCHANGED <<args, tx, rx, written>>
  BY DEF Benchmark!Verify, Benchmark!TimedTransfer, Benchmark!TimeEnd, Benchmark!Give,
     Benchmark!Quiet
<1>3. args' \in Benchmark!Options'
  BY <1>1, <1>2 DEF Benchmark!Options
<1>4. /\ b_pc' \in {"time", "free_rx", "free_tx", "destroy", "exit"}
      /\ b_rc' \in Int /\ transfers' \in Nat
  BY <1>1 DEF Benchmark!Verify, Benchmark!TimedTransfer, Benchmark!TimeEnd, Benchmark!Give,
     Benchmark!Giving, Benchmark!AfterGiving, Benchmark!Quiet, Benchmark!Go, Benchmark!Ret
<1>5. Benchmark!DataInv'
  BY <1>1, <1>2, <1>4, DataStays
<1>6. Benchmark!ResultInv'
  <2>1. CASE Benchmark!Verify
    <3>1. /\ b_pc = "verify"
          /\ \/ /\ b_pc' = "time" /\ Benchmark!TxUnchanged(tx, args.tx_size)
                /\ ~Benchmark!RxUnchanged(rx, args.rx_size, args.tx_size)
             \/ b_pc' = "free_rx" /\ b_rc' = -22
      BY <2>1 DEF Benchmark!Verify, Benchmark!Go, Benchmark!Ret
    <3>2. b_pc' = "time" => Benchmark!Tested
      BY <3>1, VerdictOnTx, VerdictOnRx DEF Benchmark!Tested
    <3> QED
      BY <1>2, <3>1, <3>2 DEF Benchmark!ResultInv, Benchmark!Tested
  <2>2. CASE Benchmark!TimedTransfer
    BY <1>1, <1>2, <2>2 DEF Benchmark!TimedTransfer, Benchmark!ResultInv, Benchmark!Tested,
       Benchmark!Go, Benchmark!Ret
  <2>3. CASE Benchmark!TimeEnd
    BY <1>1, <1>2, <2>3 DEF Benchmark!TimeEnd, Benchmark!ResultInv, Benchmark!Tested,
       Benchmark!Go, Benchmark!Ret, Benchmark!Quiet
  <2>4. CASE Benchmark!Give
    BY <1>1, <1>2, <2>4 DEF Benchmark!Give, Benchmark!ResultInv, Benchmark!Tested,
       Benchmark!Giving, Benchmark!AfterGiving, Benchmark!Go, Benchmark!Quiet
  <2> QED
    BY <2>1, <2>2, <2>3, <2>4
<1>7. (b_held = Benchmark!HeldAt(b_pc))'
  BY <1>1 DEF Benchmark!HeldAt, Benchmark!Resources, Benchmark!Verify, Benchmark!TimedTransfer,
     Benchmark!TimeEnd, Benchmark!Give, Benchmark!Giving, Benchmark!AfterGiving, Benchmark!Go
<1> QED
  BY <1>3, <1>4, <1>5, <1>6, <1>7 DEF Benchmark!BenchInv

LEMMA BenchStep ==
  ASSUME Benchmark!BenchInv, Benchmark!Next
  PROVE  Benchmark!BenchInv'
BY BenchParse, BenchTake, BenchData, BenchEnd DEF Benchmark!Next

LEMMA BenchStays ==
  ASSUME Benchmark!BenchInv, UNCHANGED b_vars
  PROVE  Benchmark!BenchInv'
<1>1. UNCHANGED <<b_pc, args, b_held, tx, rx, written, transfers, b_rc>>
  BY DEF b_vars
<1>2. /\ Benchmark!Filled(args.tx_size, 0)' = Benchmark!Filled(args.tx_size, 0)
      /\ Benchmark!Filled(args.rx_size, args.tx_size)' = Benchmark!Filled(args.rx_size, args.tx_size)
  BY <1>1, FilledIsConstant, Zenon
<1>3. Benchmark!DataInv'
  BY <1>1, <1>2 DEF Benchmark!BenchInv, Benchmark!DataInv
<1>4. Benchmark!ResultInv' /\ (b_held = Benchmark!HeldAt(b_pc))'
  BY <1>1 DEF Benchmark!BenchInv, Benchmark!ResultInv, Benchmark!Tested, Benchmark!HeldAt,
     Benchmark!Resources
<1>5. args' \in Benchmark!Options'
  BY <1>1 DEF Benchmark!BenchInv, Benchmark!Options
<1> QED
  BY <1>1, <1>3, <1>4, <1>5 DEF Benchmark!BenchInv

-----------------------------------------------------------------------------
(* One of the programs runs, from its first step on.                       *)

(* The invariants hold where the program starts.                           *)
LEMMA Begins ==
  ASSUME Init
  PROVE  ProgramsInv
<1>1. /\ program \in {"interdma", "axidma_test", "dma_uart", "test_axidma", "benchmark", "transfer",
                      "display", "mgpio"}
      /\ m_pc = Start[program]
      /\ m_held = {} /\ m_rc = 0 /\ tx_size = 0 /\ rx_size = 0 /\ callback = {}
  BY DEF Init, Start
<1>2. InterDma!LoopInv
  <2>1. /\ InterDma!FunctionsInv /\ InterDma!FrameInv /\ InterDma!HeadsInv
    BY DEF Init, InterDma!Init, InterDma!FunctionsInv, InterDma!FrameInv, InterDma!HeadsInv,
       InterDma!Busy, InterDma!CopiesAreFrames, InterDma!Threads, InterDma!Heads
  <2>2. ASSUME NEW t \in InterDma!Threads PROVE InterDma!CountsInv(t) /\ InterDma!CalmInv(t)
    <3>1. /\ i_pc[t] = "fill" /\ mutex[t] = FALSE /\ signalled[t] = FALSE /\ blocked[t] = FALSE
          /\ rounds[t] = 0 /\ callbacks[t] = 0 /\ running[t] = 0 /\ pending[t] = 0
      BY DEF Init, InterDma!Init
    <3>2. MaxRounds[t] \in Nat
      BY ExampleConstants DEF Threads, InterDma!Threads
    <3>3. InterDma!CountsInv(t)
      BY <3>1, <3>2 DEF InterDma!CountsInv, InterDma!Busy
    <3>4. ~blocked[t] /\ mutex[t] = (i_pc[t] \in {"wait", "woken", "unlock"})
      <4>1. (i_pc[t] \in {"wait", "woken", "unlock"}) = FALSE
        BY <3>1
      <4> QED
        BY <3>1, <4>1, Zenon
    <3> QED
      BY <3>1, <3>3, <3>4 DEF InterDma!CalmInv, InterDma!Busy
  <2> QED
    BY <2>1, <2>2 DEF InterDma!LoopInv
<1>3. Benchmark!BenchInv
  <2>1. /\ b_pc = "start" /\ b_held = {} /\ transfers = 0 /\ b_rc = 0
        /\ written = [rx |-> 0, tx |-> -1] /\ tx = <<>> /\ rx = <<>>
        /\ args = [use_vdma |-> FALSE, tx_channel |-> -1, rx_channel |-> -1,
                   tx_size |-> BENCH_SIZE, rx_size |-> BENCH_SIZE,
                   num_transfers |-> 1, tx_frame |-> FALSE, rx_frame |-> FALSE]
    BY DEF Init, Benchmark!Init
  <2>2. args \in Benchmark!Options
    BY <2>1 DEF Benchmark!Options
  <2>3. Benchmark!DataInv
    BY <2>1 DEF Benchmark!DataInv
  <2> QED
    BY <2>1, <2>2, <2>3 DEF Benchmark!BenchInv, Benchmark!ResultInv, Benchmark!HeldAt
<1>4. FileTransfer!FileInv
  BY ExampleConstants DEF Init, FileTransfer!Init, FileTransfer!FileInv, FileTransfer!TypeOK,
     FileTransfer!HeldAt, FileTransfer!BytesInv, FileTransfer!AllRead
<1>5. program = "interdma" => InterDmaMain!StartupInv
  BY <1>1 DEF Start, InterDmaMain!StartupInv, InterDmaMain!TypeOK, InterDmaMain!LadderInv,
     InterDmaMain!HeldAt, InterDmaMain!MainTypeOK
<1>6. program = "axidma_test" => AxidmaTest!DatagramsInv
  <2>1. wire = <<>> /\ todo = <<>> /\ port = "free" /\ received = FALSE
    BY DEF Init
  <2>2. received \in BOOLEAN /\ ~received
    BY <2>1, Zenon
  <2>3. wire \in Seq(AxidmaTest!Array) /\ Len(wire) = 0
    BY <2>1
  <2> QED
    BY <1>1, <2>1, <2>2, <2>3
       DEF Start, AxidmaTest!DatagramsInv, AxidmaTest!LadderInv, AxidmaTest!HeldAt,
           AxidmaTest!MainTypeOK, AxidmaTest!UdpTypeOK, AxidmaTest!Sending
<1>7. program = "dma_uart" => DmaUart!UartInv
  <2>1. wire = <<>> /\ todo = <<>> /\ port = "free" /\ thread = "none"
    BY DEF Init
  <2> QED
    BY <1>1, <2>1
       DEF Start, DmaUart!UartInv, DmaUart!LadderInv, DmaUart!HeldAt, DmaUart!MainTypeOK,
           DmaUart!UdpTypeOK, DmaUart!TypeOK
<1>8. program = "test_axidma" => TestAxidma!EarnedInv
  <2>1. send_buf = 0 /\ t_sent = FALSE
    BY DEF Init
  <2>2. t_sent \in BOOLEAN /\ ~t_sent
    BY <2>1, Zenon
  <2> QED
    BY <1>1, <2>1, <2>2
       DEF Start, TestAxidma!EarnedInv, TestAxidma!LadderInv, TestAxidma!HeldAt,
           TestAxidma!MainTypeOK, TestAxidma!TypeOK
<1>9. IF program = "display" THEN DisplayImage!DisplayInv ELSE ~display
  <2>1. /\ channel = "default" /\ d_length = 0 /\ read = 0 /\ d_cut = FALSE
        /\ d_running = TRUE /\ missed = FALSE /\ display = FALSE
    BY DEF Init
  <2>2. /\ d_cut \in BOOLEAN /\ d_running \in BOOLEAN /\ missed \in BOOLEAN /\ display \in BOOLEAN
        /\ ~display
    BY <2>1, Zenon
  <2>3. program = "display" => DisplayImage!DisplayInv
    BY <1>1, <2>1, <2>2, ExampleConstants
       DEF Start, DisplayImage!DisplayInv, DisplayImage!TypeOK, DisplayImage!LadderInv,
           DisplayImage!ReadInv, DisplayImage!HeldAt, DisplayImage!Labels, DisplayImage!Shown,
           DisplayImage!Behind
  <2> QED
    BY <2>2, <2>3
<1>10. program = "mgpio" => Gpio!PortsInv
  <2>1. /\ program = "mgpio" => command \in 0..6
        /\ g_port = FirstPort /\ gpio = [p \in Gpio!Ports |-> "none"]
        /\ input = TRUE /\ passed = FALSE /\ ignored = FALSE
    BY DEF Init
  <2>2. input \in BOOLEAN /\ passed \in BOOLEAN /\ ignored \in BOOLEAN /\ ~passed
    BY <2>1, Zenon
  <2> QED
    BY <1>1, <2>1, <2>2, ExampleConstants
       DEF Start, Gpio!PortsInv, Gpio!TypeOK, Gpio!PassedMeansDone, Gpio!Ports
<1> QED
  BY <1>1, <1>2, <1>3, <1>4, <1>5, <1>6, <1>7, <1>8, <1>9, <1>10 DEF ProgramsInv, Start

(* The program that runs keeps its own, and the others theirs.             *)
LEMMA Continues ==
  ASSUME ProgramsInv, Next
  PROVE  ProgramsInv'
<1>1. /\ program' = program /\ program \in DOMAIN Start
      /\ InterDma!LoopInv /\ Benchmark!BenchInv /\ FileTransfer!FileInv
  BY DEF ProgramsInv, Next
<1>2. InterDma!LoopInv'
  BY <1>1, InterDmaStep, InterDmaStays DEF Next, Others
<1>3. Benchmark!BenchInv'
  BY <1>1, BenchStep, BenchStays DEF Next, Others
<1>4. FileTransfer!FileInv'
  BY <1>1, FileStep, FileStays DEF Next, Others
<1>5. program = "interdma" => InterDmaMain!StartupInv'
  BY StartupStep, StartupStays DEF ProgramsInv, Next
<1>6. program = "axidma_test" => AxidmaTest!DatagramsInv'
  BY DatagramsStep DEF ProgramsInv, Next
<1>7. program = "dma_uart" => DmaUart!UartInv'
  BY UartStep DEF ProgramsInv, Next
<1>8. program = "test_axidma" => TestAxidma!EarnedInv'
  BY TestStep DEF ProgramsInv, Next
<1>9. program = "display" => DisplayImage!DisplayInv'
  BY DisplayStep DEF ProgramsInv, Next
<1>10. program # "display" => ~display'
  <2>1. program # "display" => ~display /\ UNCHANGED d_vars
    BY DEF ProgramsInv, Next, Others
  <2>2. ASSUME UNCHANGED d_vars PROVE display' = display
    BY <2>2 DEF d_vars
  <2> QED
    BY <2>1, <2>2, Zenon
<1>11. program = "mgpio" => Gpio!PortsInv'
  BY GpioStep DEF ProgramsInv, Next
<1>12. DOMAIN Start' = DOMAIN Start
  BY DEF Start
<1> QED
  BY <1>1, <1>2, <1>3, <1>4, <1>5, <1>6, <1>7, <1>8, <1>9, <1>10, <1>11, <1>12, Zenon
     DEF ProgramsInv

LEMMA Stutters ==
  ASSUME ProgramsInv, UNCHANGED vars
  PROVE  ProgramsInv'
<1>1. /\ program' = program /\ program \in DOMAIN Start
      /\ InterDma!LoopInv /\ Benchmark!BenchInv /\ FileTransfer!FileInv
      /\ UNCHANGED i_vars /\ UNCHANGED b_vars /\ UNCHANGED f_vars /\ UNCHANGED d_vars
      /\ UNCHANGED <<m_pc, m_vars, s_vars, callback>>
      /\ UNCHANGED <<m_pc, m_vars, s_vars, send_buf, t_sent>>
      /\ UNCHANGED <<m_pc, m_vars, d_vars>> /\ UNCHANGED <<m_pc, g_vars>>
      /\ UNCHANGED <<m_pc, m_vars, s_vars, u_vars, thread>>
      /\ UNCHANGED <<m_pc, m_vars, s_vars, u_vars, received>>
  BY DEF ProgramsInv, vars
<1>2. InterDma!LoopInv' /\ Benchmark!BenchInv' /\ FileTransfer!FileInv'
  BY <1>1, InterDmaStays, BenchStays, FileStays
<1>3. /\ program = "interdma" => InterDmaMain!StartupInv'
      /\ program = "axidma_test" => AxidmaTest!DatagramsInv'
      /\ program = "dma_uart" => DmaUart!UartInv'
      /\ program = "test_axidma" => TestAxidma!EarnedInv'
      /\ program = "display" => DisplayImage!DisplayInv'
      /\ program = "mgpio" => Gpio!PortsInv'
  BY <1>1, StartupStays, DatagramsStay, UartStays, TestStays, DisplayStays, GpioStays
     DEF ProgramsInv
<1>4. program # "display" => ~display'
  <2>1. display' = display
    BY <1>1 DEF d_vars
  <2> QED
    BY <2>1, Zenon DEF ProgramsInv
<1>5. DOMAIN Start' = DOMAIN Start
  BY DEF Start
<1> QED
  BY <1>1, <1>2, <1>3, <1>4, <1>5, Zenon DEF ProgramsInv

LEMMA Inductive == Spec => []ProgramsInv
<1>1. Init => ProgramsInv
  BY Begins
<1>2. ProgramsInv /\ [Next]_vars => ProgramsInv'
  BY Continues, Stutters
<1> QED
  BY <1>1, <1>2, PTL DEF Spec

-----------------------------------------------------------------------------
(* What a frame's receiver reads in its header.                            *)

(* What the loop of `field' goes through in any part of an array.          *)
LEMMA PartLoop ==
  ASSUME NEW a, NEW from \in Nat, NEW to \in Nat, from <= to, \A i \in from..to : a[i] \in Nat
  PROVE  \E temp \in [from..(to + 1) -> Nat] :
            /\ field(a, from, to) = temp[from] /\ temp[to + 1] = 0
            /\ \A i \in from..to : temp[i] = 2 * temp[i + 1] + a[i]
<1> DEFINE w == to - from + 1
           b == [i \in 0..(w - 1) |-> a[from + i]]
           Body(g) == [i \in from..(to + 1) |-> IF i > to THEN 0 ELSE 2 * g[i + 1] + a[i]]
           t == CHOOSE g : g = Body(g)
<1>0. w \in Nat \ {0} /\ to = from + (w - 1) /\ \A k \in 0..(w - 1) : from + k \in from..to
  OBVIOUS
<1> HIDE DEF w
<1>1. PICK u \in [0..((w - 1) + 1) -> Nat] :
         /\ u[(w - 1) + 1] = 0
         /\ \A i \in 0..(w - 1) : u[i] = 2 * u[i + 1] + b[i]
  <2>1. w - 1 \in Nat /\ \A i \in 0..(w - 1) : b[i] \in Nat
    BY <1>0
  <2> HIDE DEF b
  <2> QED
    BY <2>1, FieldLoop
<1>2. u \in [0..w -> Nat] /\ u[w] = 0 /\ \A k \in 0..(w - 1) : u[k] = 2 * u[k + 1] + a[from + k]
  BY <1>0, <1>1
<1> DEFINE h == [i \in from..(to + 1) |-> u[i - from]]
<1>3. h = Body(h)
  <2>1. ASSUME NEW i \in from..(to + 1) PROVE h[i] = IF i > to THEN 0 ELSE 2 * h[i + 1] + a[i]
    <3>1. CASE i > to
      <4>1. i - from = w
        BY <1>0, <3>1
      <4> QED
        BY <1>2, <3>1, <4>1
    <3>2. CASE i <= to
      <4>1. /\ i - from \in 0..(w - 1) /\ i + 1 \in from..(to + 1)
            /\ (i + 1) - from = (i - from) + 1 /\ from + (i - from) = i
        BY <1>0, <3>2
      <4>2. h[i] = u[i - from] /\ h[i + 1] = u[(i - from) + 1]
        BY <4>1
      <4>3. u[i - from] = 2 * u[(i - from) + 1] + a[from + (i - from)]
        BY <1>2, <4>1
      <4> QED
        BY <3>2, <4>1, <4>2, <4>3
    <3> QED
      BY <3>1, <3>2
  <2> QED
    BY <2>1
<1>4. t = Body(t)
  BY <1>3
<1>5. field(a, from, to) = t[from]
  BY DEF field
<1> HIDE DEF t
<1>6. /\ t[to + 1] = 0
      /\ \A i \in from..to : t[i] = 2 * t[i + 1] + a[i]
  BY <1>4
(* The loop has one result: the two agree from the end down.               *)
<1>7. \A k \in 0..w : t[from + k] = u[k]
  <2> DEFINE Wrong == {j \in Nat : j <= w /\ t[from + (w - j)] # u[w - j]}
  <2>1. Wrong = {}
    <3> SUFFICES ASSUME Wrong # {} PROVE FALSE
      OBVIOUS
    <3>1. PICK n \in Wrong : \A k \in Wrong : n <= k
      BY HasLeast
    <3>2. n # 0
      <4>1. from + (w - 0) = to + 1 /\ w - 0 = w
        BY <1>0
      <4> QED
        BY <1>2, <1>6, <3>1, <4>1
    <3>3. /\ n - 1 \in Nat /\ n - 1 <= w /\ ~(n <= n - 1)
          /\ w - n \in 0..(w - 1) /\ w - (n - 1) = (w - n) + 1
          /\ from + (w - n) \in from..to
          /\ from + (w - (n - 1)) = (from + (w - n)) + 1
      BY <1>0, <3>1, <3>2
    <3>4. t[(from + (w - n)) + 1] = u[(w - n) + 1]
      BY <3>1, <3>3
    <3>5. t[from + (w - n)] = 2 * t[(from + (w - n)) + 1] + a[from + (w - n)]
      BY <1>6, <3>3
    <3>6. u[w - n] = 2 * u[(w - n) + 1] + a[from + (w - n)]
      BY <1>2, <3>3
    <3>7. t[from + (w - n)] = u[w - n]
      BY <3>4, <3>5, <3>6, Zenon
    <3> QED
      BY <3>1, <3>7
  <2>2. ASSUME NEW k \in 0..w PROVE t[from + k] = u[k]
    <3>1. w - k \in Nat /\ w - k <= w /\ w - (w - k) = k
      BY <1>0
    <3> QED
      BY <2>1, <3>1
  <2> QED
    BY <2>2
<1>8. t \in [from..(to + 1) -> Nat]
  <2>1. t = [i \in from..(to + 1) |-> t[i]]
    BY <1>4
  <2>2. ASSUME NEW i \in from..(to + 1) PROVE t[i] \in Nat
    <3>1. i - from \in 0..w /\ from + (i - from) = i
      BY <1>0
    <3>2. t[from + (i - from)] = u[i - from]
      BY <1>7, <3>1
    <3> QED
      BY <1>2, <3>1, <3>2
  <2> QED
    BY <2>1, <2>2
<1> QED
  BY <1>5, <1>6, <1>8

(* A number from its bits, by the quotients by the powers of two.          *)
LEMMA Halves ==
  ASSUME NEW n \in Nat
  PROVE  /\ n \div 2^0 = n
         /\ \A k \in 0..8 : n \div 2^k = 2 * (n \div 2^(k + 1)) + bit(n, k)
<1>1. n \div 1 = n
  OBVIOUS
<1> DEFINE Half(d, e) == n \div d = 2 * (n \div e) + ((n \div d) % 2)
<1>2. Half(1, 2) /\ Half(2, 4) /\ Half(4, 8)
  OBVIOUS
<1>3. Half(8, 16) /\ Half(16, 32) /\ Half(32, 64)
  OBVIOUS
<1>4. Half(64, 128) /\ Half(128, 256) /\ Half(256, 512)
  OBVIOUS
<1> HIDE DEF Half
<1>5. ASSUME NEW k \in 0..8
      PROVE  Half(2^k, 2^(k + 1))
  <2>1. CASE k = 0
    <3>1. k + 1 = 1
      BY <2>1
    <3>2. 2^k = 1 /\ 2^(k + 1) = 2
      BY <2>1, <3>1, Powers, SmallPowers, Zenon
    <3> QED
      BY <1>2, <3>2, SMT
  <2>2. CASE k = 1
    <3>1. k + 1 = 2
      BY <2>2
    <3>2. 2^k = 2 /\ 2^(k + 1) = 4
      BY <2>2, <3>1, Powers, SmallPowers, Zenon
    <3> QED
      BY <1>2, <3>2, SMT
  <2>3. CASE k = 2
    <3>1. k + 1 = 3
      BY <2>3
    <3>2. 2^k = 4 /\ 2^(k + 1) = 8
      BY <2>3, <3>1, SmallPowers, Zenon
    <3> QED
      BY <1>2, <3>2, SMT
  <2>4. CASE k = 3
    <3>1. k + 1 = 4
      BY <2>4
    <3>2. 2^k = 8 /\ 2^(k + 1) = 16
      BY <2>4, <3>1, SmallPowers, Zenon
    <3> QED
      BY <1>3, <3>2, SMT
  <2>5. CASE k = 4
    <3>1. k + 1 = 5
      BY <2>5
    <3>2. 2^k = 16 /\ 2^(k + 1) = 32
      BY <2>5, <3>1, SmallPowers, Zenon
    <3> QED
      BY <1>3, <3>2, SMT
  <2>6. CASE k = 5
    <3>1. k + 1 = 6
      BY <2>6
    <3>2. 2^k = 32 /\ 2^(k + 1) = 64
      BY <2>6, <3>1, SmallPowers, Zenon
    <3> QED
      BY <1>3, <3>2, SMT
  <2>7. CASE k = 6
    <3>1. k + 1 = 7
      BY <2>7
    <3>2. 2^k = 64 /\ 2^(k + 1) = 128
      BY <2>7, <3>1, SmallPowers, Zenon
    <3> QED
      BY <1>4, <3>2, SMT
  <2>8. CASE k = 7
    <3>1. k + 1 = 8
      BY <2>8
    <3>2. 2^k = 128 /\ 2^(k + 1) = 256
      BY <2>8, <3>1, SmallPowers, SMT
    <3> QED
      BY <1>4, <3>2, SMT
  <2>9. CASE k = 8
    <3>1. k + 1 = 9
      BY <2>9
    <3>2. 2^k = 256 /\ 2^(k + 1) = 512
      BY <2>9, <3>1, SmallPowers, SMT
    <3> QED
      BY <1>4, <3>2, SMT
  <2> QED
    BY <2>1, <2>2, <2>3, <2>4, <2>5, <2>6, <2>7, <2>8, <2>9
<1> QED
  BY <1>1, <1>5, Powers DEF bit, Half

(* The part of an array holds the bits of n, all that n has.               *)
HasBits(a, from, to, n) ==
    /\ n \in Nat /\ from \in Nat /\ to \in Nat /\ to - from + 1 \in 1..9
    /\ n \div 2^(to - from + 1) = 0
    /\ \A k \in 0..(to - from) : a[from + k] = bit(n, k)

(* Such bits put together are n.                                           *)
LEMMA FieldOfBits ==
  ASSUME NEW a, NEW from, NEW to, NEW n, HasBits(a, from, to, n)
  PROVE  field(a, from, to) = n
<1> DEFINE w == to - from + 1
<1>0. /\ n \in Nat /\ from \in Nat /\ to \in Nat /\ w \in 1..9
      /\ n \div 2^w = 0 /\ to + 1 = from + w
      /\ \A k \in 0..(w - 1) : a[from + k] = bit(n, k)
  <2>1. n \in Nat /\ from \in Nat /\ to \in Nat /\ w \in 1..9 /\ n \div 2^w = 0
    BY DEF HasBits
  <2>2. to + 1 = from + w /\ w - 1 = to - from
    BY <2>1
  <2>3. \A k \in 0..(to - from) : a[from + k] = bit(n, k)
    BY DEF HasBits
  <2> QED
    BY <2>1, <2>2, <2>3
<1> HIDE DEF w
<1>1. from <= to /\ \A i \in from..to : a[i] \in Nat
  <2>1. \A k \in 0..(w - 1) : a[from + k] \in {0, 1}
    BY <1>0, BitIs
  <2>2. ASSUME NEW i \in from..to PROVE a[i] \in Nat
    <3>1. i - from \in 0..(w - 1) /\ from + (i - from) = i
      BY <1>0
    <3> QED
      BY <2>1, <3>1
  <2> QED
    BY <1>0, <2>2
<1>2. PICK temp \in [from..(to + 1) -> Nat] :
         /\ field(a, from, to) = temp[from] /\ temp[to + 1] = 0
         /\ \A i \in from..to : temp[i] = 2 * temp[i + 1] + a[i]
  BY <1>0, <1>1, PartLoop, Zenon
<1> DEFINE Wrong == {j \in Nat : j <= w /\ temp[from + (w - j)] # n \div 2^(w - j)}
<1>3. Wrong = {}
  <2> SUFFICES ASSUME Wrong # {} PROVE FALSE
    OBVIOUS
  <2>1. PICK m \in Wrong : \A k \in Wrong : m <= k
    BY HasLeast
  <2>2. m # 0
    <3>1. w - 0 = w /\ from + (w - 0) = to + 1
      BY <1>0
    <3> QED
      BY <1>0, <1>2, <2>1, <3>1
  <2>3. /\ m - 1 \in Nat /\ m - 1 <= w /\ ~(m <= m - 1)
        /\ w - m \in 0..(w - 1) /\ w - m \in 0..8 /\ w - (m - 1) = (w - m) + 1
        /\ from + (w - m) \in from..to /\ from + (w - (m - 1)) = (from + (w - m)) + 1
    BY <1>0, <2>1, <2>2
  <2>4. temp[(from + (w - m)) + 1] = n \div 2^((w - m) + 1)
    BY <2>1, <2>3, Zenon
  <2>5. temp[from + (w - m)] = 2 * temp[(from + (w - m)) + 1] + bit(n, w - m)
    <3>1. temp[from + (w - m)] = 2 * temp[(from + (w - m)) + 1] + a[from + (w - m)]
      BY <1>2, <2>3
    <3>2. a[from + (w - m)] = bit(n, w - m)
      BY <1>0, <2>3
    <3> QED
      BY <3>1, <3>2, Zenon
  <2>6. temp[from + (w - m)] = n \div 2^(w - m)
    <3>1. n \div 2^(w - m) = 2 * (n \div 2^((w - m) + 1)) + bit(n, w - m)
      BY <1>0, <2>3, Halves
    <3> QED
      BY <2>4, <2>5, <3>1, Zenon
  <2> QED
    BY <2>1, <2>6
<1>4. temp[from] = n \div 2^0
  <2>1. w \in Nat /\ w <= w /\ w - w = 0 /\ from + (w - w) = from
    BY <1>0
  <2> QED
    BY <1>3, <2>1
<1> QED
  BY <1>0, <1>2, <1>4, Halves

(* Eight bits put together have these bits.                                *)
LEMMA BitOfField ==
  ASSUME NEW a, NEW k \in 0..7, \A i \in 0..7 : a[i] \in {0, 1}
  PROVE  bit(field(a, 0, 7), k) = a[k]
<1>1. PICK temp \in [0..(7 + 1) -> Nat] :
         /\ field(a, 0, 7) = temp[0] /\ temp[7 + 1] = 0
         /\ \A i \in 0..7 : temp[i] = 2 * temp[i + 1] + a[i]
  <2>1. 7 \in Nat /\ \A i \in 0..7 : a[i] \in Nat
    OBVIOUS
  <2> QED
    BY <2>1, FieldLoop, Zenon
<1> DEFINE n == temp[0]
<1>2. \A i \in 0..7 : temp[i] \in Nat /\ temp[i + 1] \in Nat
  <2>1. 7 + 1 = 8 /\ \A i \in 0..7 : i \in 0..8 /\ i + 1 \in 0..8
    OBVIOUS
  <2> QED
    BY <1>1, <2>1, Zenon
<1>3. n \in Nat
  BY <1>2
<1> HIDE DEF n
<1>4. \A x, y, u, v : x \in Nat /\ y \in Nat /\ u \in {0, 1} /\ v \in {0, 1}
                        /\ 2 * x + u = 2 * y + v => x = y /\ u = v
  OBVIOUS
<1> DEFINE Wrong == {i \in Nat : i <= 8 /\ n \div 2^i # temp[i]}
<1>5. \A i \in 0..7 : n \div 2^i = temp[i] =>
                        n \div 2^(i + 1) = temp[i + 1] /\ bit(n, i) = a[i]
  <2> TAKE i \in 0..7
  <2>0. i \in 0..8 /\ i \in 0..30 /\ i + 1 \in 0..30
    OBVIOUS
  <2>1. bit(n, i) \in {0, 1}
    BY <1>3, BitIs
  <2>2. n \div 2^(i + 1) \in Nat
    <3>1. \A d \in Nat \ {0} : n \div d \in Nat
      BY <1>3
    <3> QED
      BY <3>1, <2>0, Powers, Zenon
  <2>3. n \div 2^i = 2 * (n \div 2^(i + 1)) + bit(n, i)
    BY <1>3, <2>0, Halves, Zenon
  <2>4. temp[i] = 2 * temp[i + 1] + a[i]
    BY <1>1
  <2>5. ASSUME n \div 2^i = temp[i]
        PROVE  2 * (n \div 2^(i + 1)) + bit(n, i) = 2 * temp[i + 1] + a[i]
    BY <2>3, <2>4, <2>5
  <2> QED
    BY <1>2, <1>4, <2>1, <2>2, <2>5
<1>6. Wrong = {}
  <2> SUFFICES ASSUME Wrong # {} PROVE FALSE
    OBVIOUS
  <2>1. PICK m \in Wrong : \A j \in Wrong : m <= j
    BY HasLeast
  <2>2. m # 0
    BY <1>3, <2>1, Halves DEF n
  <2>3. m - 1 \in 0..7 /\ (m - 1) + 1 = m /\ m - 1 \in Nat /\ m - 1 <= 8 /\ ~(m <= m - 1)
    BY <2>1, <2>2
  <2>4. n \div 2^(m - 1) = temp[m - 1]
    BY <2>1, <2>3
  <2> QED
    BY <1>5, <2>1, <2>3, <2>4
<1>7. n \div 2^k = temp[k]
  BY <1>6
<1> QED
  BY <1>1, <1>5, <1>7 DEF n

(* A byte is the sum of its bits.                                          *)
LEMMA ByteSum ==
  ASSUME NEW a, \A i \in 0..7 : a[i] \in {0, 1}
  PROVE  field(a, 0, 7) = a[0] + 2 * a[1] + 4 * a[2] + 8 * a[3]
                            + 16 * a[4] + 32 * a[5] + 64 * a[6] + 128 * a[7]
<1>1. PICK temp \in [0..(7 + 1) -> Nat] :
         /\ field(a, 0, 7) = temp[0] /\ temp[7 + 1] = 0
         /\ \A i \in 0..7 : temp[i] = 2 * temp[i + 1] + a[i]
  <2>1. 7 \in Nat /\ \A i \in 0..7 : a[i] \in Nat
    OBVIOUS
  <2> QED
    BY <2>1, FieldLoop, Zenon
<1>2. /\ temp[8] = 0 /\ \A i \in 0..8 : temp[i] \in Nat
      /\ \A i \in 0..7 : a[i] \in 0..1 /\ temp[i] = 2 * temp[i + 1] + a[i]
  <2>1. 7 + 1 = 8
    OBVIOUS
  <2> QED
    BY <1>1, <2>1
<1>3. /\ temp[7] = 2 * temp[8] + a[7] /\ temp[6] = 2 * temp[7] + a[6]
      /\ temp[5] = 2 * temp[6] + a[5] /\ temp[4] = 2 * temp[5] + a[4]
      /\ temp[3] = 2 * temp[4] + a[3] /\ temp[2] = 2 * temp[3] + a[2]
      /\ temp[1] = 2 * temp[2] + a[1] /\ temp[0] = 2 * temp[1] + a[0]
  BY <1>2
<1>4. /\ a[0] \in {0, 1} /\ a[1] \in {0, 1} /\ a[2] \in {0, 1} /\ a[3] \in {0, 1}
      /\ a[4] \in {0, 1} /\ a[5] \in {0, 1} /\ a[6] \in {0, 1} /\ a[7] \in {0, 1}
  OBVIOUS
<1>5. /\ temp[0] \in Nat /\ temp[1] \in Nat /\ temp[2] \in Nat /\ temp[3] \in Nat /\ temp[4] \in Nat
      /\ temp[5] \in Nat /\ temp[6] \in Nat /\ temp[7] \in Nat /\ temp[8] = 0
  BY <1>2
<1>6. temp[6] = a[6] + 2 * a[7]
  BY <1>3, <1>4, <1>5
<1>7. \A x, u, v \in Nat : 2 * (2 * x + u) + v = v + 2 * u + 4 * x
  OBVIOUS
<1>8. a[0] \in Nat /\ a[1] \in Nat /\ a[2] \in Nat /\ a[3] \in Nat /\ a[4] \in Nat /\ a[5] \in Nat
  BY <1>4
<1>9. temp[4] = a[4] + 2 * a[5] + 4 * temp[6]
  <2>1. 2 * (2 * temp[6] + a[5]) + a[4] = a[4] + 2 * a[5] + 4 * temp[6]
    BY <1>5, <1>7, <1>8
  <2>2. temp[4] = 2 * temp[5] + a[4] /\ temp[5] = 2 * temp[6] + a[5]
    BY <1>3
  <2> QED
    BY <2>1, <2>2, Zenon
<1>10. temp[2] = a[2] + 2 * a[3] + 4 * temp[4]
  <2>1. 2 * (2 * temp[4] + a[3]) + a[2] = a[2] + 2 * a[3] + 4 * temp[4]
    BY <1>5, <1>7, <1>8
  <2>2. temp[2] = 2 * temp[3] + a[2] /\ temp[3] = 2 * temp[4] + a[3]
    BY <1>3
  <2> QED
    BY <2>1, <2>2, Zenon
<1>11. temp[0] = a[0] + 2 * a[1] + 4 * temp[2]
  <2>1. 2 * (2 * temp[2] + a[1]) + a[0] = a[0] + 2 * a[1] + 4 * temp[2]
    BY <1>5, <1>7, <1>8
  <2>2. temp[0] = 2 * temp[1] + a[0] /\ temp[1] = 2 * temp[2] + a[1]
    BY <1>3
  <2> QED
    BY <2>1, <2>2, Zenon
<1>12. \A a0, a1, a2, a3, a4, a5, a6, a7 \in {0, 1} :
          a0 + 2 * a1 + 4 * (a2 + 2 * a3 + 4 * (a4 + 2 * a5 + 4 * (a6 + 2 * a7)))
            = a0 + 2 * a1 + 4 * a2 + 8 * a3 + 16 * a4 + 32 * a5 + 64 * a6 + 128 * a7
  OBVIOUS
<1>13. temp[0]
         = a[0] + 2 * a[1] + 4 * (a[2] + 2 * a[3] + 4 * (a[4] + 2 * a[5] + 4 * (a[6] + 2 * a[7])))
  BY <1>6, <1>9, <1>10, <1>11, Zenon
<1>14. a[0] + 2 * a[1] + 4 * (a[2] + 2 * a[3] + 4 * (a[4] + 2 * a[5] + 4 * (a[6] + 2 * a[7])))
         = a[0] + 2 * a[1] + 4 * a[2] + 8 * a[3] + 16 * a[4] + 32 * a[5] + 64 * a[6] + 128 * a[7]
  BY <1>4, <1>12
<1> QED
  BY <1>1, <1>13, <1>14, Zenon

(* The bits that constrM2S makes a header of (util_interdma.c).            *)
Pack(f) ==
    [i \in 0..(64 - 1) |->
        IF i \in {60, 57, 53, 52, 50} THEN 1
        ELSE IF i \in 26..27 THEN InterDma!bit(f.modulation, i - 26)
        ELSE IF i \in 20..25 THEN InterDma!bit(f.Mb, i - 20)
        ELSE IF i \in 11..19 THEN InterDma!bit(f.ldpcNum, i - 11)
        ELSE 0]

(* They carry the three fields, and the constant digits in front.          *)
LEMMA PackIs ==
  ASSUME NEW f, f.modulation \in Nat, f.Mb \in Nat, f.ldpcNum \in Nat
  PROVE  /\ \A i \in 0..63 : Pack(f)[i] \in {0, 1}
         /\ \A i \in 0..1 : Pack(f)[26 + i] = bit(f.modulation, i)
         /\ \A i \in 0..5 : Pack(f)[20 + i] = bit(f.Mb, i)
         /\ \A i \in 0..8 : Pack(f)[11 + i] = bit(f.ldpcNum, i)
         /\ \A i \in 48..63 : Pack(f)[i] = IF i \in {60, 57, 53, 52, 50} THEN 1 ELSE 0
<1>1. \A i \in 26..27 : Pack(f)[i] = bit(f.modulation, i - 26) /\ i - 26 \in 0..1
  <2> TAKE i \in 26..27
  <2>1. Pack(f)[i] = InterDma!bit(f.modulation, i - 26) /\ i - 26 \in 0..1
    BY DEF Pack
  <2> QED
    BY <2>1, SameConversions, Zenon
<1>2. \A i \in 20..25 : Pack(f)[i] = bit(f.Mb, i - 20) /\ i - 20 \in 0..5
  <2> TAKE i \in 20..25
  <2>1. Pack(f)[i] = InterDma!bit(f.Mb, i - 20) /\ i - 20 \in 0..5
    BY DEF Pack
  <2> QED
    BY <2>1, SameConversions, Zenon
<1>3. \A i \in 11..19 : Pack(f)[i] = bit(f.ldpcNum, i - 11) /\ i - 11 \in 0..8
  <2> TAKE i \in 11..19
  <2>1. Pack(f)[i] = InterDma!bit(f.ldpcNum, i - 11) /\ i - 11 \in 0..8
    BY DEF Pack
  <2> QED
    BY <2>1, SameConversions, Zenon
<1>4. \A i \in 0..63 : i \notin 26..27 /\ i \notin 20..25 /\ i \notin 11..19 =>
         Pack(f)[i] = IF i \in {60, 57, 53, 52, 50} THEN 1 ELSE 0
  BY DEF Pack
<1>5. \A i \in 0..63 : Pack(f)[i] \in {0, 1}
  <2>1. \A i \in 26..27 : Pack(f)[i] \in {0, 1}
    BY <1>1, BitIs
  <2>2. \A i \in 20..25 : Pack(f)[i] \in {0, 1}
    BY <1>2, BitIs
  <2>3. \A i \in 11..19 : Pack(f)[i] \in {0, 1}
    BY <1>3, BitIs
  <2> QED
    BY <1>4, <2>1, <2>2, <2>3
<1>6. \A i \in 0..1 : 26 + i \in 26..27 /\ (26 + i) - 26 = i
  OBVIOUS
<1>7. \A i \in 0..5 : 20 + i \in 20..25 /\ (20 + i) - 20 = i
  OBVIOUS
<1>8. \A i \in 0..8 : 11 + i \in 11..19 /\ (11 + i) - 11 = i
  OBVIOUS
<1> QED
  BY <1>1, <1>2, <1>3, <1>4, <1>5, <1>6, <1>7, <1>8

(* The bytes of a header, before they are turned round for the machine.    *)
HeadByte(f, j) ==
    [i \in 0..(8 - 1) |->
        [k \in 0..7 |-> [l \in 0..(64 - 1) |-> Pack(f)[64 - 1 - l]][8 * j + k]][8 - 1 - i]]

(* Its bits, from the last to the first, are eight of those packed.        *)
LEMMA HeadByteIs ==
  ASSUME NEW f, NEW j \in 0..7, NEW k \in 0..7
  PROVE  HeadByte(f, j)[k] = Pack(f)[56 - 8 * j + k]
<1>1. /\ 8 - 1 - k \in 0..7 /\ 8 * j + (8 - 1 - k) \in 0..63
      /\ 64 - 1 - (8 * j + (8 - 1 - k)) = 56 - 8 * j + k
  OBVIOUS
<1> QED
  BY <1>1 DEF HeadByte

(* What the peer makes of the bytes of a header.                           *)
Charpack(f) == InterDma!long2char(InterDma!revert_char(InterDma!constrM2S(f), InterDma!HEAD_SIZE))

(* The machine's byte order cancels out: these are the bytes themselves.   *)
LEMMA CharpackIs ==
  ASSUME NEW f, NEW j \in 0..7
  PROVE  Charpack(f)[j] = field(HeadByte(f, j), 0, 7)
<1>1. InterDma!constrM2S(f) = [i \in 0..(8 - 1) |-> InterDma!field(HeadByte(f, i), 0, 7)]
  BY Zenon DEF InterDma!constrM2S, InterDma!bit2char, InterDma!revert_char, InterDma!PACK_LEN,
     InterDma!HEAD_SIZE, HeadByte, Pack
<1>2. /\ 8 - 1 - j \in 0..(8 - 1) /\ 8 - 1 - (8 - 1 - j) = j /\ j \in 0..(8 - 1)
  OBVIOUS
<1> DEFINE head == [i \in 0..(8 - 1) |-> InterDma!constrM2S(f)[8 - 1 - i]]
<1>3. Charpack(f)[j] = head[8 - 1 - j]
  BY <1>2, Zenon DEF Charpack, InterDma!long2char, InterDma!revert_char, InterDma!HEAD_SIZE,
     InterDma!LONG
<1>4. head[8 - 1 - j] = InterDma!constrM2S(f)[j]
  BY <1>2
<1>5. InterDma!constrM2S(f)[j] = InterDma!field(HeadByte(f, j), 0, 7)
  BY <1>1, <1>2
<1> QED
  BY <1>3, <1>4, <1>5, SameConversions

(* The bits the peer looks at.                                             *)
RData(f) == InterDma!revert_char(InterDma!char2bit(Charpack(f), InterDma!LONG), InterDma!PACK_LEN)

(* They are those the sender packed.                                       *)
LEMMA BitsSurvive ==
  ASSUME NEW f, f.modulation \in Nat, f.Mb \in Nat, f.ldpcNum \in Nat, NEW i \in 0..63
  PROVE  RData(f)[i] = Pack(f)[i]
<1> DEFINE j == (63 - i) \div 8
           k == 7 - ((63 - i) % 8)
<1>1. j \in 0..7 /\ k \in 0..7 /\ 56 - 8 * j + k = i
  OBVIOUS
<1>2. 64 - 1 - i \in 0..(8 * 8 - 1) /\ i \in 0..(64 - 1) /\ 64 - 1 - i = 63 - i
  OBVIOUS
<1> DEFINE b == [n \in 0..(8 * 8 - 1) |-> InterDma!bit(Charpack(f)[n \div 8], 7 - (n % 8))]
<1>3. RData(f) = [n \in 0..(64 - 1) |-> b[64 - 1 - n]]
  BY Zenon DEF RData, InterDma!revert_char, InterDma!char2bit, InterDma!LONG, InterDma!PACK_LEN
<1>4. RData(f)[i] = InterDma!bit(Charpack(f)[j], k)
  <2>1. b[64 - 1 - i] = InterDma!bit(Charpack(f)[j], k)
    BY <1>2
  <2> HIDE DEF b
  <2> QED
    BY <1>2, <1>3, <2>1
<1> HIDE DEF j, k
<1>5. \A n \in 0..7 : HeadByte(f, j)[n] \in {0, 1}
  <2> TAKE n \in 0..7
  <2>1. HeadByte(f, j)[n] = Pack(f)[56 - 8 * j + n]
    BY <1>1, HeadByteIs
  <2>2. 56 - 8 * j + n \in 0..63
    BY <1>1
  <2> QED
    BY <2>1, <2>2, PackIs
<1>6. bit(field(HeadByte(f, j), 0, 7), k) = HeadByte(f, j)[k]
  BY <1>1, <1>5, BitOfField
<1>7. HeadByte(f, j)[k] = Pack(f)[i]
  BY <1>1, HeadByteIs
<1>8. Charpack(f)[j] = field(HeadByte(f, j), 0, 7)
  BY <1>1, CharpackIs
<1> QED
  BY <1>4, <1>6, <1>7, <1>8, SameConversions, Zenon

(* The peer recognises the header by its first two bytes.                  *)
LEMMA HeadIsRecognised ==
  ASSUME NEW f, f.modulation \in Nat, f.Mb \in Nat, f.ldpcNum \in Nat
  PROVE  InterDma!getHeadS2M(Charpack(f)) = 1234
<1>1. ASSUME NEW j \in {0, 1}
      PROVE  /\ Charpack(f)[j] = field(HeadByte(f, j), 0, 7)
             /\ \A n \in 0..7 : /\ HeadByte(f, j)[n] = Pack(f)[56 - 8 * j + n]
                                /\ HeadByte(f, j)[n] \in {0, 1}
  <2>1. j \in 0..7 /\ \A n \in 0..7 : 56 - 8 * j + n \in 0..63
    OBVIOUS
  <2> QED
    BY <2>1, CharpackIs, HeadByteIs, PackIs
<1>2. /\ 56 - 8 * 0 = 56 /\ 56 - 8 * 1 = 48
      /\ \A n \in 0..7 : 56 + n \in 48..63 /\ 48 + n \in 48..63
  OBVIOUS
<1>3. \A n \in 0..7 : HeadByte(f, 0)[n] = IF n \in {1, 4} THEN 1 ELSE 0
  <2> TAKE n \in 0..7
  <2>1. HeadByte(f, 0)[n] = Pack(f)[56 + n]
    BY <1>1, <1>2
  <2>2. Pack(f)[56 + n] = IF 56 + n \in {60, 57, 53, 52, 50} THEN 1 ELSE 0
    BY <1>2, PackIs
  <2> QED
    BY <2>1, <2>2
<1>4. \A n \in 0..7 : HeadByte(f, 1)[n] = IF n \in {2, 4, 5} THEN 1 ELSE 0
  <2> TAKE n \in 0..7
  <2>1. HeadByte(f, 1)[n] = Pack(f)[48 + n]
    BY <1>1, <1>2
  <2>2. Pack(f)[48 + n] = IF 48 + n \in {60, 57, 53, 52, 50} THEN 1 ELSE 0
    BY <1>2, PackIs
  <2> QED
    BY <2>1, <2>2
<1>5. Charpack(f)[0] = 18
  <2> DEFINE h == HeadByte(f, 0)
  <2>1. field(h, 0, 7) = h[0] + 2 * h[1] + 4 * h[2] + 8 * h[3]
                            + 16 * h[4] + 32 * h[5] + 64 * h[6] + 128 * h[7]
    BY <1>1, ByteSum
  <2>2. h[0] = 0 /\ h[1] = 1 /\ h[2] = 0 /\ h[3] = 0 /\ h[4] = 1 /\ h[5] = 0 /\ h[6] = 0 /\ h[7] = 0
    BY <1>3
  <2> HIDE DEF h
  <2>3. field(h, 0, 7) = 18
    BY <2>1, <2>2, SMT
  <2> QED
    BY <1>1, <2>3 DEF h
<1>6. Charpack(f)[1] = 52
  <2> DEFINE h == HeadByte(f, 1)
  <2>1. field(h, 0, 7) = h[0] + 2 * h[1] + 4 * h[2] + 8 * h[3]
                            + 16 * h[4] + 32 * h[5] + 64 * h[6] + 128 * h[7]
    BY <1>1, ByteSum
  <2>2. h[0] = 0 /\ h[1] = 0 /\ h[2] = 1 /\ h[3] = 0 /\ h[4] = 1 /\ h[5] = 1 /\ h[6] = 0 /\ h[7] = 0
    BY <1>4
  <2> HIDE DEF h
  <2>3. field(h, 0, 7) = 52
    BY <2>1, <2>2, SMT
  <2> QED
    BY <1>1, <2>3 DEF h
<1> QED
  BY <1>5, <1>6, SMT DEF InterDma!getHeadS2M

(* It reads what the sender asked for.                                     *)
LEMMA HeaderIsRead ==
  ASSUME NEW f, f.modulation \in 0..3, f.Mb \in 0..63, f.ldpcNum \in 0..511,
         NEW head, head = InterDma!revert_char(InterDma!constrM2S(f), InterDma!HEAD_SIZE)
  PROVE  /\ InterDma!getInfo(head) # NULL
         /\ InterDma!getInfo(head).modu = f.modulation
         /\ InterDma!getInfo(head).Mb = f.Mb
         /\ InterDma!getInfo(head).ldpcnum = f.ldpcNum
<1> DEFINE r == RData(f)
           info == [crc_r |-> r[39], ldpc_tnum |-> InterDma!field(r, 30, 38),
                    amp_dresult |-> InterDma!field(r, 28, 29), modu |-> InterDma!field(r, 26, 27),
                    Mb |-> InterDma!field(r, 20, 25), ldpcnum |-> InterDma!field(r, 11, 19)]
<1>0. f.modulation \in Nat /\ f.Mb \in Nat /\ f.ldpcNum \in Nat
  OBVIOUS
<1>1. head # NULL
  BY <1>0, HeadIs, ExampleConstants
<1>2. InterDma!getInfo(head) = info
  <2>1. InterDma!getHeadS2M(InterDma!long2char(head)) = 1234
    BY <1>0, HeadIsRecognised DEF Charpack
  <2> QED
    <3>1. InterDma!getInfo(head)
            = InterDma!getParamS2M(InterDma!char2bit(InterDma!long2char(head), InterDma!LONG))
      BY <1>1, <2>1, Zenon DEF InterDma!getInfo
    <3>2. InterDma!revert_char(InterDma!char2bit(InterDma!long2char(head), InterDma!LONG),
                               InterDma!PACK_LEN) = r
      BY Zenon DEF RData, Charpack
    <3>3. \A bits, d : d = InterDma!revert_char(bits, InterDma!PACK_LEN) =>
             InterDma!getParamS2M(bits)
               = [crc_r |-> d[39], ldpc_tnum |-> InterDma!field(d, 30, 38),
                  amp_dresult |-> InterDma!field(d, 28, 29), modu |-> InterDma!field(d, 26, 27),
                  Mb |-> InterDma!field(d, 20, 25), ldpcnum |-> InterDma!field(d, 11, 19)]
      BY SMT DEF InterDma!getParamS2M
    <3> QED
      BY <3>1, <3>2, <3>3, Zenon
<1>3. \A i \in 0..63 : r[i] = Pack(f)[i] /\ r[i] \in Nat
  <2>1. \A i \in 0..63 : r[i] = Pack(f)[i]
    BY <1>0, BitsSurvive
  <2>2. \A i \in 0..63 : Pack(f)[i] \in {0, 1}
    BY <1>0, PackIs
  <2> QED
    BY <2>1, <2>2
<1> HIDE DEF r
<1>4. InterDma!field(r, 26, 27) = f.modulation
  <2>1. 27 - 26 + 1 = 2 /\ 2 \in 1..9 /\ 26 \in Nat /\ 27 \in Nat
    OBVIOUS
  <2>2. f.modulation \div 2^2 = 0
    BY SmallPowers, SMT
  <2>3. \A k \in 0..(27 - 26) : k \in 0..1 /\ 26 + k \in 0..63
    OBVIOUS
  <2>4. \A k \in 0..(27 - 26) : r[26 + k] = bit(f.modulation, k)
    BY <1>0, <1>3, <2>3, PackIs
  <2>5. HasBits(r, 26, 27, f.modulation)
    BY <1>0, <2>1, <2>2, <2>4 DEF HasBits
  <2> QED
    BY <2>5, FieldOfBits, SameConversions, Zenon
<1>5. InterDma!field(r, 20, 25) = f.Mb
  <2>1. 25 - 20 + 1 = 6 /\ 6 \in 1..9 /\ 20 \in Nat /\ 25 \in Nat
    OBVIOUS
  <2>2. f.Mb \div 2^6 = 0
    BY SmallPowers, SMT
  <2>3. \A k \in 0..(25 - 20) : k \in 0..5 /\ 20 + k \in 0..63
    OBVIOUS
  <2>4. \A k \in 0..(25 - 20) : r[20 + k] = bit(f.Mb, k)
    BY <1>0, <1>3, <2>3, PackIs
  <2>5. HasBits(r, 20, 25, f.Mb)
    BY <1>0, <2>1, <2>2, <2>4 DEF HasBits
  <2> QED
    BY <2>5, FieldOfBits, SameConversions, Zenon
<1>6. InterDma!field(r, 11, 19) = f.ldpcNum
  <2>1. 19 - 11 + 1 = 9 /\ 9 \in 1..9 /\ 11 \in Nat /\ 19 \in Nat
    OBVIOUS
  <2>2. f.ldpcNum \div 2^9 = 0
    BY SmallPowers, SMT
  <2>3. \A k \in 0..(19 - 11) : k \in 0..8 /\ 11 + k \in 0..63
    OBVIOUS
  <2>4. \A k \in 0..(19 - 11) : r[11 + k] = bit(f.ldpcNum, k)
    BY <1>0, <1>3, <2>3, PackIs
  <2>5. HasBits(r, 11, 19, f.ldpcNum)
    BY <1>0, <2>1, <2>2, <2>4 DEF HasBits
  <2> QED
    BY <2>5, FieldOfBits, SameConversions, Zenon
<1>7. \A from, to \in 0..63 : from <= to => InterDma!field(r, from, to) \in Nat
  <2> SUFFICES ASSUME NEW from \in 0..63, NEW to \in 0..63, from <= to
               PROVE  field(r, from, to) \in Nat
    BY SameConversions, Zenon
  <2>1. from \in Nat /\ to \in Nat /\ (\A i \in from..to : r[i] \in Nat) /\ from \in from..(to + 1)
    BY <1>3
  <2>2. PICK temp \in [from..(to + 1) -> Nat] :
           /\ field(r, from, to) = temp[from] /\ temp[to + 1] = 0
           /\ \A i \in from..to : temp[i] = 2 * temp[i + 1] + r[i]
    BY <2>1, PartLoop, Zenon
  <2> QED
    BY <2>1, <2>2
<1>8. info \in InterDma!Infos
  <2>1. r[39] \in Nat /\ InterDma!field(r, 30, 38) \in Nat /\ InterDma!field(r, 28, 29) \in Nat
    BY <1>3, <1>7
  <2> QED
    BY <1>0, <1>4, <1>5, <1>6, <2>1 DEF InterDma!Infos
<1> QED
  BY <1>2, <1>4, <1>5, <1>6, <1>8, ExampleConstants

(* A frame of that many blocks fits in its buffer, and what is shown of it *)
(* in the copy.                                                            *)
LEMMA FrameFits ==
  ASSUME NEW f, f.ldpcNum \in 1..400
  PROVE  /\ InterDma!tx_bytes(f) <= InterDma!MAX_SIZE
         /\ InterDma!shown_words(f.ldpcNum) \subseteq 0..(InterDma!Words - 1)
<1> DEFINE n == f.ldpcNum
           count == n * 5632
<1>0. n \in 1..400
  OBVIOUS
<1>1. InterDma!MAX_SIZE = 359744 /\ InterDma!Words = 44968
  BY SMT DEF InterDma!MAX_SIZE, InterDma!MAX_DATA_NUM, InterDma!LDPC_K, InterDma!Words,
     InterDma!LONG
<1>2. InterDma!tx_bytes(f) = (count + 7) \div 8 + 8
  BY SMT DEF InterDma!tx_bytes, InterDma!datalen_inbyte, InterDma!LDPC_K, InterDma!HEAD_SIZE
<1>3. InterDma!shown_words(n) = 0..4 \cup (count \div 64 + 1 - 25)..(count \div 64 + 1 + 4)
  BY SMT DEF InterDma!shown_words, InterDma!LDPC_K, InterDma!PACK_LEN
<1> HIDE DEF n
<1>4. (count + 7) \div 8 = 704 * n /\ count \div 64 = 88 * n
  BY <1>0, SMT
<1> HIDE DEF count
<1>5. InterDma!tx_bytes(f) <= InterDma!MAX_SIZE
  BY <1>0, <1>1, <1>2, <1>4, SMT
<1>6. 0..4 \cup (88 * n + 1 - 25)..(88 * n + 1 + 4) \subseteq 0..(InterDma!Words - 1)
  <2>1. ASSUME NEW k \in Int, 0 <= k, k <= 88 * n + 5 PROVE k \in 0..(InterDma!Words - 1)
    <3>1. k <= 44967
      BY <1>0, <2>1, SMT
    <3>2. InterDma!Words \in Int /\ InterDma!Words = 44967 + 1
      BY <1>1, SMT
    <3>3. k <= InterDma!Words - 1
      BY <2>1, <3>1, <3>2, SMT
    <3>4. InterDma!Words \in Int
      BY <3>2, SMT
    <3> QED
      BY <2>1, <3>3, <3>4
  <2>2. \A k \in 0..4 : k \in Int /\ 0 <= k /\ k <= 88 * n + 5
    BY <1>0, SMT
  <2>3. \A k \in (88 * n + 1 - 25)..(88 * n + 1 + 4) : k \in Int /\ 0 <= k /\ k <= 88 * n + 5
    BY <1>0, SMT
  <2> QED
    BY <2>1, <2>2, <2>3, Zenon
<1> QED
  BY <1>3, <1>4, <1>5, <1>6, Zenon DEF n
(* Whatever header the transmitter comes up with, its receiver reads it.   *)
LEMMA PeerReads ==
  ASSUME NEW flag, NEW f \in InterDma!NextHeaders(flag),
         NEW head, head = InterDma!revert_char(InterDma!constrM2S(f), InterDma!HEAD_SIZE)
  PROVE  LET info == InterDma!getInfo(head)
         IN  /\ info # NULL
             /\ info.modu = f.modulation /\ info.Mb = f.Mb /\ info.ldpcnum = f.ldpcNum
             /\ InterDma!tx_bytes(f) <= InterDma!MAX_SIZE
             /\ InterDma!shown_words(info.ldpcnum) \subseteq 0..(InterDma!Words - 1)
<1>1. f.modulation \in 0..3 /\ f.Mb \in 0..63 /\ f.ldpcNum \in 1..400
  BY NextHeaderFits
<1>2. f.ldpcNum \in 0..511
  BY <1>1, SMT
<1>3. /\ InterDma!getInfo(head) # NULL
      /\ InterDma!getInfo(head).modu = f.modulation
      /\ InterDma!getInfo(head).Mb = f.Mb
      /\ InterDma!getInfo(head).ldpcnum = f.ldpcNum
  BY <1>1, <1>2, HeaderIsRead
<1>4. /\ InterDma!tx_bytes(f) <= InterDma!MAX_SIZE
      /\ InterDma!shown_words(f.ldpcNum) \subseteq 0..(InterDma!Words - 1)
  BY <1>1, FrameFits
<1> QED
  BY <1>3, <1>4, Zenon

-----------------------------------------------------------------------------
(* What the programs guarantee.                                            *)

(* The programs' variables have their types; a thread of interdma is told  *)
(* of no more transfers than it has begun rounds (interdma.c:306, 504),    *)
(* whatever the sizes and the numbers of rounds.                           *)
THEOREM ProgramsTyped == Spec => []TypeOK
<1>1. ASSUME ProgramsInv PROVE TypeOK
  <2>1. InterDma!TypeOK
    BY <1>1, InterDmaFollows DEF ProgramsInv
  <2>2. Benchmark!TypeOK
    BY <1>1 DEF ProgramsInv, Benchmark!BenchInv, Benchmark!TypeOK, Benchmark!DataInv,
       Benchmark!HeldAt, Benchmark!Options, Benchmark!Resources
  <2>3. /\ FileTransfer!TypeOK
        /\ program = "interdma" => InterDmaMain!TypeOK
        /\ program = "dma_uart" => DmaUart!TypeOK
        /\ program = "test_axidma" => TestAxidma!TypeOK
        /\ program = "display" => DisplayImage!TypeOK
        /\ program = "mgpio" => Gpio!TypeOK
    BY <1>1 DEF ProgramsInv, FileTransfer!FileInv, InterDmaMain!StartupInv, DmaUart!UartInv,
       TestAxidma!EarnedInv, DisplayImage!DisplayInv, Gpio!PortsInv
  <2>4. program = "axidma_test" => AxidmaTest!TypeOK
    BY <1>1 DEF ProgramsInv, AxidmaTest!DatagramsInv, AxidmaTest!LadderInv, AxidmaTest!TypeOK
  <2> QED
    BY <2>1, <2>2, <2>3, <2>4 DEF TypeOK
<1> QED
  BY <1>1, Inductive, PTL

(* A process_s2mm thread is given whole frames, unless the receiver woke   *)
(* unasked (interdma.c:532): whatever the peer sends and however the       *)
(* threads, their handlers and the hardware take turns.                    *)
THEOREM CopiesAreWhole == Spec => []CopiesAreFrames
<1>1. ProgramsInv => CopiesAreFrames
  BY InterDmaFollows DEF ProgramsInv, CopiesAreFrames
<1> QED
  BY <1>1, Inductive, PTL

(* At the top of an undisturbed round the last transfer has ended and its  *)
(* one callback has run (interdma.c:337, 531), which main registered       *)
(* before the loops began, after any number of rounds.                     *)
THEOREM RoundsEnd == Spec => []RoundsAreTransfers
<1>1. ASSUME ProgramsInv PROVE RoundsAreTransfers
  <2>1. InterDma!RoundsAreTransfers
    BY <1>1, InterDmaFollows DEF ProgramsInv
  <2>2. program = "interdma" => InterDmaMain!ReadyForLoops
    BY <1>1 DEF ProgramsInv, InterDmaMain!StartupInv, InterDmaMain!LadderInv,
       InterDmaMain!HeldAt, InterDmaMain!ReadyForLoops
  <2> QED
    BY <2>1, <2>2 DEF RoundsAreTransfers
<1> QED
  BY <1>1, Inductive, PTL

(* Every program gives back exactly what it holds, whichever step fails:   *)
(* the labels at the end of each main (axidma_benchmark.c:559,             *)
(* axidma_transfer.c:342, axidma_display_image.c:358 and their like) are   *)
(* entered where what they give back has been taken.                       *)
THEOREM NothingIsLeftBehind == Spec => []GivesBackAll
<1>1. ASSUME ProgramsInv PROVE GivesBackAll
  <2>1. Benchmark!GivesBackAll
    BY <1>1 DEF ProgramsInv, Benchmark!BenchInv, Benchmark!HeldAt, Benchmark!Resources,
       Benchmark!GivesBackAll, Benchmark!Giving
  <2>2. FileTransfer!GivesBackAll
    BY <1>1 DEF ProgramsInv, FileTransfer!FileInv, FileTransfer!HeldAt,
       FileTransfer!GivesBackAll, FileTransfer!Giving
  <2>3. program = "interdma" => InterDmaMain!GivesBackAll
    BY <1>1 DEF ProgramsInv, InterDmaMain!StartupInv, InterDmaMain!LadderInv,
       InterDmaMain!HeldAt, InterDmaMain!GivesBackAll, InterDmaMain!Giving
  <2>4. program = "axidma_test" => AxidmaTest!GivesBackAll
    BY <1>1 DEF ProgramsInv, AxidmaTest!DatagramsInv, AxidmaTest!LadderInv,
       AxidmaTest!HeldAt, AxidmaTest!GivesBackAll, AxidmaTest!Giving
  <2>5. program = "dma_uart" => DmaUart!GivesBackAll
    BY <1>1 DEF ProgramsInv, DmaUart!UartInv, DmaUart!LadderInv, DmaUart!HeldAt,
       DmaUart!GivesBackAll, DmaUart!Giving
  <2>6. program = "test_axidma" => TestAxidma!GivesBackAll
    BY <1>1 DEF ProgramsInv, TestAxidma!EarnedInv, TestAxidma!LadderInv, TestAxidma!HeldAt,
       TestAxidma!GivesBackAll, TestAxidma!Giving
  <2>7. program = "display" => DisplayImage!GivesBackAll
    BY <1>1 DEF ProgramsInv, DisplayImage!DisplayInv, DisplayImage!LadderInv,
       DisplayImage!HeldAt, DisplayImage!Left, DisplayImage!GivesBackAll, DisplayImage!Giving
  <2> QED
    BY <2>1, <2>2, <2>3, <2>4, <2>5, <2>6, <2>7 DEF GivesBackAll
<1> QED
  BY <1>1, Inductive, PTL

(* A program that reports success did what it reports: the benchmark       *)
(* verified its buffers and completed its transfers                        *)
(* (axidma_benchmark.c:547), the file and the string were transferred      *)
(* whole (axidma_transfer.c:339, test_axidma.c:202), the image displayed   *)
(* until the stop (axidma_display_image.c:350), every port reached by the  *)
(* command (mgpio.c:199-317).                                              *)
THEOREM SuccessIsReal == Spec => []SuccessIsEarned
<1>1. ASSUME ProgramsInv PROVE SuccessIsEarned
  <2>1. Benchmark!ZeroIsEarned
    BY <1>1 DEF ProgramsInv, Benchmark!BenchInv, Benchmark!ResultInv, Benchmark!Tested,
       Benchmark!ZeroIsEarned
  <2>2. FileTransfer!ZeroMeansAll
    BY <1>1 DEF ProgramsInv, FileTransfer!FileInv, FileTransfer!BytesInv,
       FileTransfer!AllRead, FileTransfer!ZeroMeansAll
  <2>3. program = "test_axidma" => TestAxidma!ZeroIsEarned
    BY <1>1 DEF ProgramsInv, TestAxidma!EarnedInv, TestAxidma!ZeroIsEarned
  <2>4. program = "display" => DisplayImage!ZeroIsEarned
    BY <1>1 DEF ProgramsInv, DisplayImage!DisplayInv, DisplayImage!ReadInv,
       DisplayImage!Labels, DisplayImage!ZeroIsEarned
  <2>5. program = "mgpio" => Gpio!PassedMeansDone
    BY <1>1 DEF ProgramsInv, Gpio!PortsInv
  <2> QED
    BY <2>1, <2>2, <2>3, <2>4, <2>5 DEF SuccessIsEarned
<1> QED
  BY <1>1, Inductive, PTL

(* The datagrams of axidma_test are the buffer it received, byte for byte  *)
(* (axidma_test.c:557-601), whatever the sizes of the buffer and of a      *)
(* datagram.                                                               *)
THEOREM DatagramsAreRight == Spec => []DatagramsAreTheBuffer
<1>1. ProgramsInv => DatagramsAreTheBuffer
  BY DatagramsFollow DEF ProgramsInv, DatagramsAreTheBuffer
<1> QED
  BY <1>1, Inductive, PTL

(* The image is displayed from a buffer the program still holds, unless it *)
(* was killed or could not stop the hardware (axidma_display_image.c:350). *)
THEOREM DisplayHasItsBuffer == Spec => []BufferOutlivesDisplay
<1>1. ASSUME ProgramsInv PROVE BufferOutlivesDisplay
  <2>1. CASE program = "display"
    BY <1>1, <2>1
       DEF ProgramsInv, DisplayImage!DisplayInv, DisplayImage!LadderInv, DisplayImage!ReadInv,
           DisplayImage!HeldAt, DisplayImage!Shown, BufferOutlivesDisplay,
           DisplayImage!BufferOutlivesDisplay
  <2>2. CASE program # "display"
    BY <1>1, <2>2 DEF ProgramsInv, BufferOutlivesDisplay, DisplayImage!BufferOutlivesDisplay
  <2> QED
    BY <2>1, <2>2
<1> QED
  BY <1>1, Inductive, PTL

(* The benchmark's verdict is right about buffers of whole words           *)
(* (axidma_benchmark.c:319), whatever their sizes: a byte that is          *)
(* overwritten in the one, and one that is written in the other, is found. *)
THEOREM VerdictIsTrue == Spec => VerdictIsRight
<1> DEFINE A == Benchmark!Verify /\ args.tx_size % 4 = 0 /\ args.rx_size % 4 = 0 =>
                   (b_rc' = 0) = (written.tx = -1 /\ written.rx > 0)
<1>1. ASSUME ProgramsInv PROVE [A]_(Benchmark!vars)
  <2> SUFFICES ASSUME Benchmark!Verify, args.tx_size % 4 = 0, args.rx_size % 4 = 0
               PROVE  b_rc' = 0 <=> written.tx = -1 /\ written.rx > 0
    OBVIOUS
  <2>1. Benchmark!BenchInv /\ b_pc = "verify"
    BY <1>1 DEF ProgramsInv, Benchmark!Verify
  <2>2. b_rc' = 0 <=> /\ Benchmark!TxUnchanged(tx, args.tx_size)
                      /\ ~Benchmark!RxUnchanged(rx, args.rx_size, args.tx_size)
    BY DEF Benchmark!Verify, Benchmark!Ret
  <2> QED
    BY <2>1, <2>2, VerdictOnTx, VerdictOnRx
<1>2. ProgramsInv => [A]_(Benchmark!vars)
  BY <1>1
<1> QED
  BY <1>2, Inductive, PTL DEF VerdictIsRight, Benchmark!VerdictIsRight

(* The receiver of a frame reads in its header what the sender put there   *)
(* and shows words of the frame only (interdma.c:391, util_interdma.c),    *)
(* for every header that random_mm2s can come up with, and the frame fits  *)
(* in the buffer it is sent from.                                          *)
THEOREM HeadersSurvive == Spec => PeerReadsTheHeader
<1> DEFINE A ==
      InterDma!Fill("mm2s") =>
        LET info == InterDma!getInfo(buffer'["mm2s"])
        IN  /\ info # NULL
            /\ info.modu = msf'.modulation /\ info.Mb = msf'.Mb /\ info.ldpcnum = msf'.ldpcNum
            /\ InterDma!tx_bytes(msf') <= InterDma!MAX_SIZE
            /\ InterDma!shown_words(info.ldpcnum) \subseteq 0..(InterDma!Words - 1)
<1>1. ASSUME ProgramsInv PROVE [A]_(InterDma!vars)
  <2> SUFFICES ASSUME InterDma!Fill("mm2s") PROVE A
    OBVIOUS
  <2> DEFINE head == InterDma!revert_char(InterDma!constrM2S(msf'), InterDma!HEAD_SIZE)
  <2>1. buffer \in [Threads -> InterDma!Heads]
    BY <1>1 DEF ProgramsInv, InterDma!LoopInv, InterDma!HeadsInv, Threads, InterDma!Threads
  <2>2. /\ msf' \in InterDma!NextHeaders(random_flag')
        /\ buffer' = [buffer EXCEPT !["mm2s"] = head]
    BY DEF InterDma!Fill, InterDma!FillTx, InterDma!Set
  <2>3. buffer'["mm2s"] = head
    BY <2>1, <2>2 DEF Threads
  <2> HIDE DEF head
  <2> QED
    BY <2>2, <2>3, PeerReads DEF head
<1>2. ProgramsInv => [A]_(InterDma!vars)
  BY <1>1
<1> QED
  BY <1>2, Inductive, PTL DEF PeerReadsTheHeader, InterDma!PeerReadsTheHeader
=============================================================================
