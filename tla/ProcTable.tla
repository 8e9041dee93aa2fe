----------------------------- MODULE ProcTable ------------------------------
(* The slots of ptable.proc and pointers to them (proc.c, param.h).        *)
EXTENDS Integers

CONSTANT NPROC

Slots == 0 .. NPROC - 1
None  == -1         \* the null pointer
=============================================================================
