------------------------------ MODULE FsLayout ------------------------------
(***************************************************************************)
(* The constants of fs.h that the kernel and mkfs share.                   *)
(***************************************************************************)
EXTENDS Integers

CONSTANTS NDIRECT, NINDIRECT, BSIZE

MAXFILE == NDIRECT + NINDIRECT
NoAddr  == 0

ASSUME FsLayoutAssumption == NDIRECT \in Nat /\ NINDIRECT \in Nat /\ BSIZE \in Nat \ {0}
=============================================================================
