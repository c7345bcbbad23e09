--------------------------- MODULE MCPythonService ---------------------------
(* Instances of PythonService for TLC.                                       *)
EXTENDS PythonService, TLC

CONSTANTS t1, t2, a, b
=============================================================================
