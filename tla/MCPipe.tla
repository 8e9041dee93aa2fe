------------------------------- MODULE MCPipe -------------------------------
(* Instances of Pipe: MCPipe.cfg (two writers, one of them killed),        *)
(* MCPipeKill.cfg (what becomes of a killed process).                      *)
EXTENDS Pipe
=============================================================================
