---------------------------- MODULE MCDashboard ----------------------------
(***************************************************************************)
(* Two deals of two branches of one organization, one of them in the trash, *)
(* asked for by the head office and by one branch.                          *)
(***************************************************************************)
EXTENDS Dashboard, TLC

CONSTANTS d1, d2, o1, b1, b2, t1, t2

MCDeals == {d1, d2}
MCOrgOf == d1 :> o1 @@ d2 :> o1
MCBranchOf == d1 :> b1 @@ d2 :> b2
MCScopes == {<<o1, All>>, <<o1, b1>>}
MCThreads == {t1, t2}
MCLeftRows ==
  {d1 :> Deal("NONE", {}, FALSE)         @@ d2 :> Deal("APPROVED", {}, TRUE),
   d1 :> Deal("PENDING", {"GM"}, FALSE)  @@ d2 :> Deal("PENDING", {"DIRECTOR"}, TRUE)}
=============================================================================
