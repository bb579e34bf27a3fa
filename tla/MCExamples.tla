----------------------------- MODULE MCExamples -----------------------------
(* The instance of Examples that TLC checks: three rounds of the modem's   *)
(* transmitter, which reach the first random header, and two of its        *)
(* receiver; buffers of whole and of broken words; files of up to three    *)
(* bytes; datagrams of two bytes and buffers that are shorter than four of *)
(* them, as long, and longer; three GPIO ports, one left out between them. *)
EXTENDS Examples

(* The peer's own frames: a header for no blocks, 1234 and zeros.          *)
EmptyFrame == {[i \in 0..7 |-> IF i = 7 THEN 18 ELSE IF i = 6 THEN 52 ELSE 0]}
OneRandom  == {<<2, 40>>}
Rounds     == [t \in Threads |-> IF t = "mm2s" THEN 3 ELSE 2]
AnyOutput  == {-1, 0, 3}
=============================================================================
