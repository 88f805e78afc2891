--------------------------- MODULE MC_OperatorMain ---------------------------
(* Two namespace names the flags may give, in a cluster with one more.     *)
EXTENDS OperatorMain

MCNames == {"sdi-observer", "sdi"}
MCAllSpaces == MCNames \cup {"kube-system"}
=============================================================================
