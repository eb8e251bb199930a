-------------------------- MODULE MC_FundingScript --------------------------
(***************************************************************************)
(* FundingScript for TLC: every term up to 300 (the opcodes OP_1..OP_16,   *)
(* the one-byte pushes, the sign byte at 128, the two-byte pushes from     *)
(* 256) and the boundaries 32767, 32768 and 65535 of the u16 range; two    *)
(* compressed 33-byte keys.                                                *)
(***************************************************************************)
EXTENDS FundingScript

CONSTANTS K1, K2

MCKeys == {K1, K2}
MCKeyBytes == [k \in MCKeys |->
                 <<IF k = K1 THEN 2 ELSE 3>> \o [i \in 1 .. 32 |-> (7 * i) % 256]]
MCTerms == (0 .. 300) \cup {32767, 32768, 32769, 65535}

=============================================================================
