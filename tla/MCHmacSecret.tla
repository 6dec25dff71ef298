----------------------------- MODULE MCHmacSecret -----------------------------
(***************************************************************************)
(* HmacSecret with model values for relying parties and salts.             *)
(***************************************************************************)
EXTENDS HmacSecret, TLC

CONSTANTS r1, r2, s1, s2

MCRPs == {r1, r2}
MCSalts == {s1, s2}
Symmetric == Permutations(MCRPs) \cup Permutations(MCSalts)
=============================================================================
