--------------------------- MODULE MCDealWorkflow ---------------------------
(* Instances of DealWorkflow for TLC.                                      *)
EXTENDS DealWorkflow, TLC

CONSTANTS o1, o2

(* Prices in small units: the default limits 5000 / 15000 rupees and the   *)
(* default 3% threshold, scaled to a car of 100.                           *)
Car(discount) ==
    [ex_showroom |-> 100, road_tax |-> 0, insurance |-> 0, corporate_discount |-> 0,
     festival_discount |-> 0, manual_discount |-> discount, adjustments |-> 0]

(* No discount, a discount (always a loss: create_deal prices at cost), and *)
(* a discount the pricing engine refuses.                                  *)
SmallQuotes == {Car(0), Car(10), Car(100)}

DefaultConfig == [gm_discount_limit |-> 5, director_discount_limit |-> 15,
                  min_margin_threshold |-> 3]

(* An organization that sells at cost, the only way to an automatic approval *)
(* in create_deal, and whose directors sign every other deal.              *)
StrictConfig == [gm_discount_limit |-> 5, director_discount_limit |-> 5,
                 min_margin_threshold |-> 0]

TwoOrgs == (o1 :> DefaultConfig @@ o2 :> StrictConfig)

Symmetry == Permutations(Deals)
=============================================================================
