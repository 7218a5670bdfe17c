--------------------------- MODULE MCAuditTamper ---------------------------
(* AuditTamper on small instances: symmetric requests and keys.            *)
EXTENDS AuditTamper, TLC

Symmetry == Permutations(Reqs) \cup Permutations(Keys)
===========================================================================
