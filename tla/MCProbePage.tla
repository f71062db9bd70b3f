----------------------------- MODULE MCProbePage -----------------------------
(* Model values for TLC: two connections, two versions of the binary.       *)
EXTENDS ProbePage
=============================================================================
