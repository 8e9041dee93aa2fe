------------------------------- MODULE MCLog -------------------------------
(* The instance of Log at the limit of the log (MCLogFull.cfg), which      *)
(* MCSleep extends.                                                        *)
EXTENDS Log

\* mkfs puts the inodes behind the log: any block may be one of theirs.
InodeBlocks == [j \in nlog .. LOGSIZE |-> CHOOSE b \in Blocks : TRUE]
=============================================================================
