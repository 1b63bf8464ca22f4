---------------------------- MODULE MCAuditChain ----------------------------
(* Two recorders of the same event, three rows, a clock of three values    *)
(* and a retention of one second.                                          *)
EXTENDS AuditChain, TLC

WriterSymmetry == Permutations(Writers)
=============================================================================
