------------------------------- MODULE Pricing -------------------------------
(***************************************************************************)
(* The two pure engines every deal goes through: the price breakdown of    *)
(* pricing_engine.py and the routing decision of profit_guard.py.  Amounts *)
(* are integers (paise): the code's floats are sums and differences of     *)
(* amounts with two decimals, and the only product, the 1% tax collected   *)
(* at source, is rounded to two decimals.                                  *)
(***************************************************************************)
EXTENDS Integers

CONSTANTS
    TCS_THRESHOLD,      \* 1,000,000 rupees in the code
    TCS_RATE            \* whole percent, 1 in the code

ASSUME TcsAssumption == TCS_THRESHOLD \in Nat /\ TCS_RATE \in Nat

AUTO_APPROVE == "AUTO_APPROVE"
GM_APPROVAL == "GM_APPROVAL"
DIRECTOR_APPROVAL == "DIRECTOR_APPROVAL"

Decisions == {AUTO_APPROVE, GM_APPROVAL, DIRECTOR_APPROVAL}

OrgConfigs == [gm_discount_limit : Int,
               director_discount_limit : Int,
               min_margin_threshold : Int]

PricingInputs == [ex_showroom : Int, road_tax : Int, insurance : Int,
                  corporate_discount : Int, festival_discount : Int,
                  manual_discount : Int, adjustments : Int]

-----------------------------------------------------------------------------
(* pricing_engine.calculate_final_price *)

_compute_tcs(ex_showroom) ==
    IF ex_showroom >= TCS_THRESHOLD
    THEN (ex_showroom * TCS_RATE + 50) \div 100
    ELSE 0

(* Slip: the discount the salesperson gave is not counted.                  *)
scheme_discount(in) == in.corporate_discount + in.festival_discount

total_discount(in) ==
    in.corporate_discount + in.festival_discount + in.manual_discount

final_price(in) ==
    in.ex_showroom + in.road_tax + in.insurance + _compute_tcs(in.ex_showroom)
        - total_discount(in) + in.adjustments

(* The input passes _validate_non_negative on every component and the final *)
(* price is positive; otherwise PricingError is raised.  The adjustments    *)
(* may be negative: they are the only component that is not validated.      *)
PriceAccepted(in) ==
    /\ in.ex_showroom >= 0
    /\ in.road_tax >= 0
    /\ in.insurance >= 0
    /\ in.corporate_discount >= 0
    /\ in.festival_discount >= 0
    /\ in.manual_discount >= 0
    /\ final_price(in) > 0

-----------------------------------------------------------------------------
(* profit_guard.evaluate *)

margin(base_price, discount, cost) == (base_price - discount) - cost

(* margin_percent < min_margin_threshold, multiplied out; a cost of zero    *)
(* gives a margin percentage of zero.                                       *)
BelowThreshold(m, cost, threshold) ==
    IF cost = 0 THEN 0 < threshold ELSE m * 100 < threshold * cost

(* First match wins, in the order of the code's rules 1 to 5.               *)
evaluate(base_price, discount, cost, cfg) ==
    LET m == margin(base_price, discount, cost)
    IN  IF m < 0 THEN DIRECTOR_APPROVAL
        ELSE IF BelowThreshold(m, cost, cfg.min_margin_threshold) THEN GM_APPROVAL
        ELSE IF discount > cfg.director_discount_limit THEN DIRECTOR_APPROVAL
        ELSE IF discount > cfg.gm_discount_limit THEN GM_APPROVAL
        ELSE AUTO_APPROVE

-----------------------------------------------------------------------------
(* What create_deal asks of the two engines: the base price and the cost    *)
(* are both the ex-showroom price, and the discount is the sum of all three.*)
CreateDecision(in, cfg) ==
    evaluate(in.ex_showroom, total_discount(in), in.ex_showroom, cfg)

CreateMargin(in) ==
    margin(in.ex_showroom, total_discount(in), in.ex_showroom)
=============================================================================
