-------------------------------- MODULE Bits --------------------------------
(***************************************************************************)
(* What the examples do to numbers with >>, &, |, and ^: the numbers are   *)
(* never negative here, and a C array is a function whose domain starts    *)
(* at 0.                                                                   *)
(***************************************************************************)
EXTENDS Naturals

bit(n, k) == (n \div 2^k) % 2

(* The number whose bits, least significant first, are a[from] to a[to],   *)
(* summed up as the loops of getParamM2S and getParamS2M do.               *)
field(a, from, to) ==
    LET temp[i \in from..(to + 1)] == IF i > to THEN 0 ELSE 2 * temp[i + 1] + a[i]
    IN  temp[from]

(* m ^ n, of two ints that are not negative.                               *)
xor(m, n) == field([k \in 0..30 |-> (bit(m, k) + bit(n, k)) % 2], 0, 30)
=============================================================================
