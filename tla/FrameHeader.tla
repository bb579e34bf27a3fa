---------------------------- MODULE FrameHeader ----------------------------
(***************************************************************************)
(* The 64-bit headers of the frames of examples/interdma.c, and the        *)
(* conversions of examples/util_interdma.c that build and read them, on    *)
(* the 64-bit little-endian machine the program runs on.  A `char' is a    *)
(* number from 0 to 255, a C array a function whose domain starts at 0.    *)
(* BugConstrM2S is a faulty version of constrM2S; nothing uses it.         *)
(***************************************************************************)
EXTENDS Bits

PACK_LEN  == 64
HEAD_SIZE == 8
LDPC_K    == 5632             \* the bits of one LDPC block
LONG      == 8                \* sizeof(long)

MAX_DATA_NUM == (LDPC_K * (512 - 1)) \div 64
MAX_SIZE     == 8 * MAX_DATA_NUM                    \* bytes of each buffer

BPSK == 0  QPSK == 1  QAM16 == 2  QAM64 == 3
m_Mod == BPSK..QAM64
Mbs   == 0..63

(* The first len elements of an array in the opposite order.  The code     *)
(* copies an element more than it reverses, the one behind arrays of len   *)
(* elements; what it reads and overwrites there is left out.               *)
revert_char(a, len) == [i \in 0..(len - 1) |-> a[len - 1 - i]]

char2bit(pack, len) == [i \in 0..(8 * len - 1) |-> bit(pack[i \div 8], 7 - (i % 8))]

bit2char(bits, len) ==
    [j \in 0..(len - 1) |-> field(revert_char([k \in 0..7 |-> bits[8 * j + k]], 8), 0, 7)]

(* Reading a long from memory and cutting it up again, most significant    *)
(* byte first, turns the bytes of a little-endian machine round.           *)
long2char(memory) == [i \in 0..(LONG - 1) |-> memory[LONG - 1 - i]]

BugConstrM2S(f) ==
    LET pack == [i \in 0..(PACK_LEN - 1) |->
                    IF i \in {60, 57, 53, 52, 50} THEN 1
                    ELSE IF i \in 26..27 THEN bit(f.modulation, i - 26)
                    ELSE IF i \in 20..25 THEN bit(f.Mb, i - 20)
                    ELSE IF i \in 12..19 THEN bit(f.ldpcNum, i - 12)
                    ELSE 0]
    IN  bit2char(revert_char(pack, PACK_LEN), HEAD_SIZE)

(* The header asking for ldpcNum blocks.  The five constant ones make its  *)
(* first four hexadecimal digits 1, 2, 3, 4.                               *)
constrM2S(f) ==
    LET pack == [i \in 0..(PACK_LEN - 1) |->
                    IF i \in {60, 57, 53, 52, 50} THEN 1
                    ELSE IF i \in 26..27 THEN bit(f.modulation, i - 26)
                    ELSE IF i \in 20..25 THEN bit(f.Mb, i - 20)
                    ELSE IF i \in 11..19 THEN bit(f.ldpcNum, i - 11)
                    ELSE 0]
    IN  bit2char(revert_char(pack, PACK_LEN), HEAD_SIZE)

getHeadS2M(data) ==
    (data[0] \div 16) * 1000 + (data[0] % 16) * 100
      + (data[1] \div 16) * 10 + (data[1] % 16)

getParamS2M(bits) ==
    LET r_data == revert_char(bits, PACK_LEN)
    IN  [crc_r       |-> r_data[39],
         ldpc_tnum   |-> field(r_data, 30, 38),
         amp_dresult |-> field(r_data, 28, 29),
         modu        |-> field(r_data, 26, 27),
         Mb          |-> field(r_data, 20, 25),
         ldpcnum     |-> field(r_data, 11, 19)]

-----------------------------------------------------------------------------
(* The length that random_mm2s gives the frame of a modulation and an Mb:  *)
(* as many blocks as fill the modulation symbols of one frame.             *)
bits_per_symbol(modu) ==
    CASE modu = BPSK -> 1 [] modu = QPSK -> 2 [] modu = QAM16 -> 4 [] modu = QAM64 -> 6

random_mm2s(modu, mb) ==
    LET cal_u == 448 * (69 * 10 - 1) * bits_per_symbol(modu)
        cal_d == (mb + 22) * 256 - 512
    IN  [modulation |-> modu, Mb |-> mb, ldpcNum |-> (cal_u + cal_d - 1) \div cal_d]

(* The bytes mm2s_all_test sends for a header.                             *)
datalen_inbyte(f) == (f.ldpcNum * LDPC_K + 7) \div 8
tx_bytes(f)       == datalen_inbyte(f) + HEAD_SIZE

(* The words of the buffer that getInfo shows of a frame of ldpcnum > 0    *)
(* blocks: the first five, then, after the skip, the last thirty of the    *)
(* totalct + 5.                                                            *)
shown_words(ldpcnum) ==
    LET totalct == (ldpcnum * LDPC_K) \div PACK_LEN + 1
    IN  0..4 \cup (totalct - 25)..(totalct + 4)
=============================================================================
