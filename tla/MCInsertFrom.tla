---------------------------- MODULE MCInsertFrom ----------------------------
(***************************************************************************)
(* InsertFrom with containers of up to three rows of two lengths, and for  *)
(* each policy a limit too strict for any row and one that takes several.  *)
(***************************************************************************)
EXTENDS InsertFrom, TLC

MCPolicies ==
    [kind : {"RowCount"}, limit : {0, 2}] \cup
    [kind : {"SizeThreshold"}, limit : {0, 9}] \cup
    [kind : {"MaxPacket"}, limit : {6, 12}]

MCContainers == UNION {[1..n -> {2, 4}] : n \in 0..3}
=============================================================================
