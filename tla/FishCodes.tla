----------------------------- MODULE FishCodes -----------------------------
(***************************************************************************)
(* The return codes of the Fish filesystem (include/fish.h).  Zero is      *)
(* success and every error is negative, so that a caller may test "< 0".   *)
(***************************************************************************)
EXTENDS Integers

FISH_OK           == 0
FISH_ERR_EXISTS   == -1
FISH_ERR_NOTDIR   == -2
FISH_ERR_NOENT    == -3
FISH_ERR_FULL     == -4
FISH_ERR_NAME     == -5
FISH_ERR_ISDIR    == -6
FISH_ERR_NOTEMPTY == -7
FISH_ERR_SPACE    == -8
FISH_ERR_NODISK   == -9
FISH_ERR_IO       == -10
FISH_ERR_FORMAT   == -11
=============================================================================
