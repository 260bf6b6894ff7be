---------------------------- MODULE MCAuditChain ----------------------------
(***************************************************************************)
(* Two deals of one organization, so that the entries of a deal and those  *)
(* of its organization differ, and one of another.                         *)
(***************************************************************************)
EXTENDS AuditChain

CONSTANTS d1, d2, d3, o1, o2

MCDeals == {d1, d2, d3}
MCOrgOf == [d \in MCDeals |-> IF d = d3 THEN o2 ELSE o1]
=============================================================================
