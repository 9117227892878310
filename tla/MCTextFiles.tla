---------------------------- MODULE MCTextFiles -----------------------------
(* Three texts, no two of which have a byte in common.                     *)
EXTENDS TextFiles, TLC

CONSTANTS x, y, z, w, r1, p, q, i1, i2, i3

Symmetry == Permutations(Inodes) \cup Permutations(Paths)

MCWriteTexts == {<<x>>, <<y, y>>}
MCAppendTexts == {<<z>>}
=============================================================================
