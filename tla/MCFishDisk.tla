---------------------------- MODULE MCFishDisk -----------------------------
EXTENDS FishDisk, TLC

CONSTANTS a, b, x

MCValidNames == {a, b}
MCBadNames   == {}
MCByte       == {NUL, x}
MCTexts      == {<<x>>}
Symmetry     == Permutations(MCValidNames)
=============================================================================
