--------------------------- MODULE MCSpaceManager ---------------------------
(***************************************************************************)
(* An instance of SpaceManager for TLC: three bitmaps of 7 bits.  The first*)
(* has two free blocks, the second seven, the third four and three extra   *)
(* bits.                                                                   *)
(***************************************************************************)
EXTENDS SpaceManager

=============================================================================
