---------------------------- MODULE PricingProofs ----------------------------
(***************************************************************************)
(* What the two pricing engines decide, for every amount and every limit   *)
(* an organization may configure, and which price list a deal is priced    *)
(* from, for any organizations and sheets.                                 *)
(***************************************************************************)
EXTENDS PriceBook, FiniteSetTheorems, TLAPS

(* Limits are amounts of money: the code's columns hold no negative ones.    *)
Configs == {cfg \in OrgConfigs : cfg.gm_discount_limit >= 0 /\ cfg.director_discount_limit >= 0}

(* The margin of a deal as create_deal prices it is its discount, negated,   *)
(* because the base price and the cost are the same column.                  *)
LEMMA MarginIsDiscount ==
    ASSUME NEW in \in PricingInputs
    PROVE  /\ total_discount(in) \in Int
           /\ CreateMargin(in) = -total_discount(in)
BY DEF PricingInputs, total_discount, CreateMargin, margin

LEMMA AcceptedDiscounts ==
    ASSUME NEW in \in PricingInputs, PriceAccepted(in)
    PROVE  /\ in.ex_showroom \in Nat
           /\ 0 <= in.manual_discount /\ in.manual_discount <= total_discount(in)
BY DEF PricingInputs, PriceAccepted, total_discount

LEMMA DecisionsDiffer ==
    /\ AUTO_APPROVE # GM_APPROVAL
    /\ AUTO_APPROVE # DIRECTOR_APPROVAL
    /\ GM_APPROVAL # DIRECTOR_APPROVAL
BY DEF AUTO_APPROVE, GM_APPROVAL, DIRECTOR_APPROVAL

(* The whole of create_deal's routing: any discount at all makes the deal    *)
(* the director's, and without one it is the GM's unless the organization    *)
(* asks for no margin; the two discount limits never decide.                 *)
THEOREM CreateRouting ==
    ASSUME NEW in \in PricingInputs, PriceAccepted(in), NEW cfg \in Configs
    PROVE  /\ CreateDecision(in, cfg) = DIRECTOR_APPROVAL <=> total_discount(in) > 0
           /\ CreateDecision(in, cfg) = AUTO_APPROVE <=>
                 /\ total_discount(in) = 0
                 /\ ~BelowThreshold(0, in.ex_showroom, cfg.min_margin_threshold)
<1> DEFINE t == total_discount(in)
           ex == in.ex_showroom
<1>1. /\ t \in Int /\ 0 <= t /\ ex \in Int
      /\ margin(ex, t, ex) = -t
  BY MarginIsDiscount, AcceptedDiscounts DEF CreateMargin, PricingInputs
<1>2. /\ cfg.gm_discount_limit \in Int /\ cfg.gm_discount_limit >= 0
      /\ cfg.director_discount_limit \in Int /\ cfg.director_discount_limit >= 0
  BY DEF Configs, OrgConfigs
<1> HIDE DEF t, ex
<1>3. CASE t > 0
  <2>1. evaluate(ex, t, ex, cfg) = DIRECTOR_APPROVAL
    BY <1>1, <1>3 DEF evaluate
  <2> QED BY <1>1, <1>3, <2>1, DecisionsDiffer DEF CreateDecision, t, ex
<1>4. CASE t = 0
  <2>1. margin(ex, t, ex) = 0
    BY <1>1, <1>4 DEF margin
  <2>2. evaluate(ex, t, ex, cfg) =
            IF BelowThreshold(0, ex, cfg.min_margin_threshold) THEN GM_APPROVAL
            ELSE AUTO_APPROVE
    BY <1>2, <1>4, <2>1 DEF evaluate
  <2> QED BY <1>4, <2>2, DecisionsDiffer DEF CreateDecision, t, ex
<1> QED BY <1>1, <1>3, <1>4

(* Lowering a discount never costs an automatic approval (profit_guard):     *)
(* a margin above the threshold stays above it as it grows.                  *)
THEOREM AutoIsDownwardClosed ==
    ASSUME NEW base \in Int, NEW cost \in Int, NEW cfg \in OrgConfigs,
           NEW high \in Int, NEW low \in Int, low <= high,
           evaluate(base, high, cost, cfg) = AUTO_APPROVE
    PROVE  evaluate(base, low, cost, cfg) = AUTO_APPROVE
<1> DEFINE mh == margin(base, high, cost)
           ml == margin(base, low, cost)
           floor == cfg.min_margin_threshold * cost
<1>1. mh \in Int /\ ml \in Int /\ mh <= ml /\ floor \in Int
  BY DEF margin, OrgConfigs
<1>2. cfg.gm_discount_limit \in Int /\ cfg.director_discount_limit \in Int
  BY DEF OrgConfigs
<1>3. /\ ~(mh < 0) /\ ~BelowThreshold(mh, cost, cfg.min_margin_threshold)
      /\ ~(high > cfg.director_discount_limit) /\ ~(high > cfg.gm_discount_limit)
  BY DecisionsDiffer DEF evaluate
<1>4. ~BelowThreshold(ml, cost, cfg.min_margin_threshold)
  <2>1. CASE cost = 0
    BY <1>3, <2>1 DEF BelowThreshold
  <2>2. CASE cost # 0
    <3>1. ~(mh * 100 < floor)
      BY <1>3, <2>2 DEF BelowThreshold
    <3> HIDE DEF mh, ml, floor
    <3>2. ~(ml * 100 < floor)
      BY <1>1, <3>1
    <3> QED BY <2>2, <3>2 DEF BelowThreshold, floor, ml
  <2> QED BY <2>1, <2>2
<1> HIDE DEF mh, ml
<1>5. ~(ml < 0) /\ ~(low > cfg.director_discount_limit) /\ ~(low > cfg.gm_discount_limit)
  BY <1>1, <1>2, <1>3
<1> QED BY <1>4, <1>5 DEF evaluate, ml

(* A preview is never stricter than the deal: where analyze_deal's base      *)
(* price covers the cost, an automatic or a GM decision of create_deal was   *)
(* previewed as nothing harder.                                              *)
THEOREM PreviewIsLowerBound ==
    ASSUME NEW in \in PricingInputs, PriceAccepted(in), NEW cfg \in Configs,
           NEW base \in Int, base >= in.ex_showroom,
           NEW preview, preview = evaluate(base, in.manual_discount, in.ex_showroom, cfg)
    PROVE  /\ CreateDecision(in, cfg) = AUTO_APPROVE => preview = AUTO_APPROVE
           /\ CreateDecision(in, cfg) # DIRECTOR_APPROVAL => preview # DIRECTOR_APPROVAL
<1> DEFINE ex == in.ex_showroom
           d == in.manual_discount
           m == margin(base, d, ex)
<1>1. /\ ex \in Nat /\ d \in Int /\ 0 <= d /\ d <= total_discount(in)
      /\ total_discount(in) \in Int
  BY AcceptedDiscounts, MarginIsDiscount DEF PricingInputs
<1>2. /\ cfg.gm_discount_limit \in Int /\ cfg.gm_discount_limit >= 0
      /\ cfg.director_discount_limit \in Int /\ cfg.director_discount_limit >= 0
      /\ cfg.min_margin_threshold \in Int
  BY DEF Configs, OrgConfigs
<1> SUFFICES ASSUME CreateDecision(in, cfg) # DIRECTOR_APPROVAL
             PROVE  /\ CreateDecision(in, cfg) = AUTO_APPROVE => preview = AUTO_APPROVE
                    /\ preview # DIRECTOR_APPROVAL
  BY DecisionsDiffer
<1>3. d = 0 /\ total_discount(in) = 0
  BY <1>1, CreateRouting
<1>4. m \in Int /\ m >= 0
  BY <1>1, <1>3 DEF margin
<1>5. preview # DIRECTOR_APPROVAL
  <2>1. ~(m < 0) /\ ~(d > cfg.director_discount_limit)
    BY <1>1, <1>2, <1>3, <1>4
  <2> QED BY <2>1, DecisionsDiffer DEF evaluate
<1>6. ASSUME CreateDecision(in, cfg) = AUTO_APPROVE PROVE preview = AUTO_APPROVE
  <2>1. ~BelowThreshold(0, ex, cfg.min_margin_threshold)
    BY <1>6, CreateRouting
  <2>2. ~BelowThreshold(m, ex, cfg.min_margin_threshold)
    <3>1. CASE ex = 0
      BY <2>1, <3>1 DEF BelowThreshold
    <3>2. CASE ex # 0
      <4> DEFINE floor == cfg.min_margin_threshold * ex
      <4>1. floor \in Int /\ ~(0 * 100 < floor)
        BY <1>1, <1>2, <2>1, <3>2 DEF BelowThreshold
      <4> HIDE DEF floor, m
      <4>2. ~(m * 100 < floor)
        BY <1>4, <4>1
      <4> QED BY <3>2, <4>2 DEF BelowThreshold, floor
    <3> QED BY <3>1, <3>2
  <2>3. /\ ~(m < 0) /\ ~(d > cfg.director_discount_limit)
        /\ ~(d > cfg.gm_discount_limit)
    BY <1>1, <1>2, <1>3, <1>4
  <2> HIDE DEF m
  <2> QED BY <2>2, <2>3 DEF evaluate, m
<1> QED BY <1>5, <1>6

-----------------------------------------------------------------------------
(* Price lists *)

Row(org, batch, active, variant, ex, five, fifteen, bh) ==
    [organization_id |-> org, upload_batch |-> batch, is_active |-> active,
     variant |-> variant, ex_showroom_price |-> ex,
     total_5yr |-> five, total_15yr |-> fifteen, total_bh |-> bh]

IsRow(r) ==
    \E active \in BOOLEAN : \E org, batch, variant, ex, five, fifteen, bh :
        r = Row(org, batch, active, variant, ex, five, fifteen, bh)

(* The active rows of an organization are all of its newest batch, and it    *)
(* has some if it has any rows.                                              *)
BatchInv ==
    /\ uploads \in Nat
    /\ \A r \in car_models : IsRow(r) /\ r.upload_batch \in 0..uploads - 1
    /\ \A r, q \in car_models :
          r.organization_id = q.organization_id /\ r.is_active =>
              q.upload_batch <= r.upload_batch
    /\ \A q \in car_models : \E r \in car_models :
          r.organization_id = q.organization_id /\ r.is_active

Retired(r) == [r EXCEPT !.is_active = FALSE]

LEMMA RetiredRow ==
    ASSUME NEW r, IsRow(r)
    PROVE  /\ IsRow(Retired(r)) /\ Retired(r).is_active = FALSE
           /\ Retired(r).organization_id = r.organization_id
           /\ Retired(r).upload_batch = r.upload_batch
<1>1. PICK active \in BOOLEAN : \E org, batch, variant, ex, five, fifteen, bh :
          r = Row(org, batch, active, variant, ex, five, fifteen, bh)
  BY DEF IsRow
<1>2. PICK org, batch, variant, ex, five, fifteen, bh :
          r = Row(org, batch, active, variant, ex, five, fifteen, bh)
  BY <1>1
<1>3. Retired(r) = Row(org, batch, FALSE, variant, ex, five, fifteen, bh)
  <2>1. ASSUME NEW a, NEW b
        PROVE  [Row(org, batch, a, variant, ex, five, fifteen, bh) EXCEPT !.is_active = b] =
                    Row(org, batch, b, variant, ex, five, fifteen, bh)
    BY DEF Row
  <2> QED BY <1>2, <2>1 DEF Retired
<1>4. IsRow(Retired(r))
  BY <1>3 DEF IsRow
<1> QED BY <1>2, <1>3, <1>4 DEF Row

(* The rows of a sheet belong to the upload that brought them.               *)
LEMMA UploadedRows ==
    ASSUME NEW org, NEW sheet, NEW r \in NewRows(sheet, org)
    PROVE  /\ IsRow(r) /\ r.organization_id = org
           /\ r.upload_batch = uploads /\ r.is_active = TRUE
<1>1. PICK row, map : r = transform_output(row, map, org, uploads)
  BY DEF NewRows
<1> QED BY <1>1 DEF transform_output, IsRow, Row

(* What an upload leaves: the rows of other organizations as they were, its  *)
(* own old rows retired, and the rows of the sheet.                          *)
LEMMA Swap ==
    ASSUME BatchInv, NEW org \in Orgs, NEW sheet \in Sheets, ingest_excel(org, sheet)
    PROVE  /\ \A r \in car_models : r.organization_id # org => r \in car_models'
           /\ \A r \in car_models' :
                 IF r.organization_id # org THEN r \in car_models
                 ELSE \/ r \in NewRows(sheet, org)
                      \/ \E q \in car_models :
                            /\ q.organization_id = org /\ q.upload_batch = r.upload_batch
                            /\ r.is_active = FALSE /\ IsRow(r)
           /\ NewRows(sheet, org) # {} /\ NewRows(sheet, org) \subseteq car_models'
           /\ uploads' = uploads + 1
<1>1. /\ car_models' = Retire(org, uploads) \cup NewRows(sheet, org)
      /\ uploads' = uploads + 1 /\ NewRows(sheet, org) # {}
  BY DEF ingest_excel
<1>2. \A r \in car_models : IsRow(r) /\ r.upload_batch # uploads
  BY DEF BatchInv
<1>3. Retire(org, uploads) =
        {IF r.organization_id = org /\ r.is_active THEN Retired(r) ELSE r : r \in car_models}
  BY <1>2 DEF Retire, Retired
<1>4. \A r \in car_models : r.organization_id # org => r \in Retire(org, uploads)
  BY <1>3
<1>5. ASSUME NEW r \in Retire(org, uploads)
      PROVE  IF r.organization_id # org THEN r \in car_models
             ELSE \E q \in car_models :
                    /\ q.organization_id = org /\ q.upload_batch = r.upload_batch
                    /\ r.is_active = FALSE /\ IsRow(r)
  <2>1. PICK q \in car_models :
            r = IF q.organization_id = org /\ q.is_active THEN Retired(q) ELSE q
    BY <1>3
  <2>2. CASE q.organization_id = org /\ q.is_active
    <3>1. r = Retired(q) /\ IsRow(q)
      BY <1>2, <2>1, <2>2
    <3>2. IsRow(r) /\ r.is_active = FALSE /\ r.organization_id = q.organization_id
          /\ r.upload_batch = q.upload_batch
      BY <3>1, RetiredRow
    <3> QED BY <2>2, <3>2
  <2>3. CASE q.organization_id = org /\ ~q.is_active
    <3>1. r = q /\ IsRow(q)
      BY <1>2, <2>1, <2>3
    <3>2. r.is_active = FALSE
      BY <2>3, <3>1 DEF IsRow, Row
    <3> QED BY <2>3, <3>1, <3>2
  <2>4. CASE q.organization_id # org
    BY <2>1, <2>4
  <2> QED BY <2>2, <2>3, <2>4
<1>6. \A r \in NewRows(sheet, org) : r.organization_id = org
  BY UploadedRows
<1> QED BY <1>1, <1>4, <1>5, <1>6

LEMMA BatchSteps == BatchInv /\ [Next]_vars => BatchInv'
<1> SUFFICES ASSUME BatchInv, [Next]_vars PROVE BatchInv'
  OBVIOUS
<1>1. ASSUME NEW org \in Orgs, NEW sheet \in Sheets, ingest_excel(org, sheet)
      PROVE  BatchInv'
  <2> DEFINE New == NewRows(sheet, org)
  <2>1. /\ \A r \in car_models : r.organization_id # org => r \in car_models'
        /\ \A r \in car_models' :
              IF r.organization_id # org THEN r \in car_models
              ELSE \/ r \in New
                   \/ \E q \in car_models :
                         /\ q.organization_id = org /\ q.upload_batch = r.upload_batch
                         /\ r.is_active = FALSE /\ IsRow(r)
        /\ New # {} /\ New \subseteq car_models'
        /\ uploads' = uploads + 1
    BY <1>1, Swap
  <2>2. \A r \in New : /\ IsRow(r) /\ r.organization_id = org
                       /\ r.upload_batch = uploads /\ r.is_active = TRUE
    BY UploadedRows
  <2> HIDE DEF New
  <2>3. /\ uploads \in Nat
        /\ \A r \in car_models : IsRow(r) /\ r.upload_batch \in 0..uploads - 1
    BY DEF BatchInv
  <2>4. \A r \in car_models' : IsRow(r) /\ r.upload_batch \in 0..uploads' - 1
    BY <2>1, <2>2, <2>3
  <2>5. ASSUME NEW r \in car_models', NEW q \in car_models',
               r.organization_id = q.organization_id, r.is_active
        PROVE  q.upload_batch <= r.upload_batch
    <3>1. CASE r.organization_id # org
      BY <2>1, <2>5, <3>1 DEF BatchInv
    <3>2. CASE r.organization_id = org
      <4>1. r \in New
        BY <2>1, <2>5, <3>2
      <4> QED BY <2>1, <2>2, <2>3, <2>4, <4>1
    <3> QED BY <3>1, <3>2
  <2>6. ASSUME NEW q \in car_models'
        PROVE  \E r \in car_models' : r.organization_id = q.organization_id /\ r.is_active
    <3>1. CASE q.organization_id # org
      BY <2>1, <2>6, <3>1 DEF BatchInv
    <3>2. CASE q.organization_id = org
      BY <2>1, <2>2, <3>2
    <3> QED BY <3>1, <3>2
  <2> QED BY <2>1, <2>3, <2>4, <2>5, <2>6 DEF BatchInv
<1>2. ASSUME NEW org \in Orgs, NEW sheet \in Sheets, ingest_refused(org, sheet)
      PROVE  BatchInv'
  <2>1. car_models' = car_models /\ uploads' = uploads + 1
    BY <1>2 DEF ingest_refused
  <2> QED BY <2>1 DEF BatchInv, IsRow
<1>3. ASSUME UNCHANGED <<car_models, uploads>> PROVE BatchInv'
  BY <1>3 DEF BatchInv, IsRow
<1> QED BY <1>1, <1>2, <1>3 DEF Next, vars, no_pricing, analyze_deal, create_deal

(* excel_ingestion.py:625: whatever sheets an organization uploads, accepted *)
(* or refused, what it sells from is one upload, the newest that brought     *)
(* rows, and once it has a list it is never without.                         *)
THEOREM OneListForSale == Spec => []OneActiveBatch
<1>1. Init => BatchInv
  BY DEF Init, BatchInv
<1>2. BatchInv => OneActiveBatch
  <2> SUFFICES ASSUME BatchInv, NEW org \in Orgs
               PROVE  LET stored == {r.upload_batch : r \in {q \in car_models : q.organization_id = org}}
                      IN  {r.upload_batch : r \in Active(org)} =
                              IF stored = {} THEN {} ELSE {Max(stored)}
    BY DEF OneActiveBatch
  <2> DEFINE stored == {r.upload_batch : r \in {q \in car_models : q.organization_id = org}}
  <2>1. CASE stored = {}
    BY <2>1 DEF Active
  <2>2. CASE stored # {}
    <3>1. PICK a \in car_models : a.organization_id = org /\ a.is_active
      BY <2>2 DEF BatchInv
    <3>2. stored \subseteq Nat /\ a.upload_batch \in stored
      BY <3>1 DEF BatchInv
    <3>3. \A b \in stored : a.upload_batch >= b
      BY <3>1 DEF BatchInv
    <3>4. Max(stored) = a.upload_batch
      <4> HIDE DEF stored
      <4>1. Max(stored) \in stored /\ \A b \in stored : Max(stored) >= b
        BY <3>2, <3>3 DEF Max
      <4>2. Max(stored) \in Nat /\ a.upload_batch \in Nat
        BY <3>2, <4>1
      <4>3. Max(stored) >= a.upload_batch /\ a.upload_batch >= Max(stored)
        BY <3>2, <3>3, <4>1
      <4> QED BY <4>2, <4>3
    <3>5. \A r \in Active(org) : r.upload_batch = a.upload_batch
      BY <3>1 DEF Active, BatchInv
    <3>6. {r.upload_batch : r \in Active(org)} = {a.upload_batch}
      BY <3>1, <3>5 DEF Active
    <3> QED BY <2>2, <3>4, <3>6
  <2> QED BY <2>1, <2>2
<1> QED BY <1>1, <1>2, BatchSteps, PTL DEF Spec

(* An upload moves at most the list of its own organization, and then every  *)
(* row for sale comes from that upload.                                      *)
THEOREM UploadsSwapWhole == Spec => UploadAllOrNothing
<1>1. BatchInv /\ [Next]_vars =>
        LET moved == {org \in Orgs : Active(org)' # Active(org)}
        IN  /\ Cardinality(moved) <= 1
            /\ \A org \in moved : \A r \in Active(org)' : r.upload_batch = uploads
  <2> SUFFICES ASSUME BatchInv, [Next]_vars
               PROVE  LET moved == {org \in Orgs : Active(org)' # Active(org)}
                      IN  /\ Cardinality(moved) <= 1
                          /\ \A org \in moved : \A r \in Active(org)' : r.upload_batch = uploads
    OBVIOUS
  <2> DEFINE moved == {org \in Orgs : Active(org)' # Active(org)}
  <2>1. CASE car_models' = car_models
    <3>1. moved = {}
      BY <2>1 DEF Active
    <3> QED BY <3>1, FS_EmptySet
  <2>2. ASSUME NEW org \in Orgs, NEW sheet \in Sheets, ingest_excel(org, sheet)
        PROVE  /\ Cardinality(moved) <= 1
               /\ \A o \in moved : \A r \in Active(o)' : r.upload_batch = uploads
    <3>1. ASSUME NEW o \in Orgs \ {org} PROVE Active(o)' = Active(o)
      BY <2>2, Swap DEF Active
    <3>2. \A r \in Active(org)' : r.upload_batch = uploads
      <4> SUFFICES ASSUME NEW r \in car_models', r.organization_id = org, r.is_active
                   PROVE  r.upload_batch = uploads
        BY DEF Active
      <4>1. r \in NewRows(sheet, org)
        BY <2>2, Swap
      <4> QED BY <4>1, UploadedRows
    <3>3. moved = {} \/ moved = {org}
      BY <3>1
    <3>4. Cardinality(moved) <= 1
      BY <3>3, FS_EmptySet, FS_Singleton
    <3> QED BY <3>2, <3>3, <3>4
  <2> QED
    BY <2>1, <2>2 DEF Next, vars, no_pricing, analyze_deal, create_deal, ingest_refused
<1>2. Init => BatchInv
  BY DEF Init, BatchInv
<1> QED BY <1>1, <1>2, BatchSteps, PTL DEF Spec, UploadAllOrNothing

-----------------------------------------------------------------------------
(* The rows of the price lists, and what is answered from them *)

RowType ==
    [organization_id : Orgs, upload_batch : Nat, is_active : BOOLEAN, variant : Variants,
     ex_showroom_price : Int, total_5yr : Prices, total_15yr : Prices, total_bh : Prices]

LEMMA FirstOf == \A a, b \in Prices : First(a, b) \in Prices
BY DEF First, Prices

LEMMA FirstNumber == \A a \in Prices, b \in Int : First(a, b) \in Int
BY DEF First, Prices

(* Every row an upload stores has its variant and an ex-showroom price: a row *)
(* without the first is skipped, one without the second refused.             *)
LEMMA StoredRows ==
    ASSUME BatchInv, NEW org \in Orgs, NEW sheet \in Sheets, ingest_excel(org, sheet),
           NEW r \in NewRows(sheet, org)
    PROVE  r \in RowType
<1>1. PICK map : map = map_columns(sheet.headers)
  OBVIOUS
<1>2. PICK row \in sheet.rows : Usable(row, map) /\ r = transform_output(row, map, org, uploads)
  BY <1>1 DEF NewRows
<1>3. \A f \in Totals \cup {"ex_showroom_price"} : Cell(row, map, f) \in Prices
  BY <1>1, SheetsAssumption DEF Prices
<1>4. Cell(row, map, "variant") \in Variants
  BY <1>1, <1>2, SheetsAssumption DEF Usable
<1> DEFINE five == First(Cell(row, map, "total_5yr"), Cell(row, map, "on_road_price_5yr"))
           fifteen == First(Cell(row, map, "total_15yr"), Cell(row, map, "on_road_price_15yr"))
           bh == First(Cell(row, map, "total_bh"), Cell(row, map, "on_road_price_bh"))
           ex == Cell(row, map, "ex_showroom_price")
           price == IF ex # Blank THEN ex ELSE IF five \notin {Blank, 0} THEN five ELSE fifteen
<1>5. five \in Prices /\ fifteen \in Prices /\ bh \in Prices /\ ex \in Prices
  BY <1>3, FirstOf DEF Totals
<1>6. r = [organization_id |-> org, upload_batch |-> uploads, is_active |-> TRUE,
           variant |-> Cell(row, map, "variant"), ex_showroom_price |-> price,
           total_5yr |-> five, total_15yr |-> fifteen, total_bh |-> bh]
  BY <1>2 DEF transform_output
<1> HIDE DEF five, fifteen, bh, ex
<1>7. price \in Int
  <2>1. r.ex_showroom_price # Blank
    BY DEF ingest_excel, NullPrice
  <2>2. price # Blank
    BY <1>6, <2>1
  <2> QED BY <1>5, <2>2 DEF Prices
<1> HIDE DEF price
<1> QED BY <1>4, <1>5, <1>6, <1>7 DEF RowType, BatchInv

LEMMA BasePrice ==
    ASSUME NEW row \in RowType, NEW reg
    PROVE  _resolve_base_price(row, reg) \in Int
<1> DEFINE column == CASE reg = "15YR" -> row.total_15yr
                       [] reg = "BH" -> row.total_bh
                       [] OTHER -> row.total_5yr
<1>1. column \in Prices /\ row.total_5yr \in Prices /\ row.ex_showroom_price \in Int
  BY DEF RowType
<1>2. _resolve_base_price(row, reg) = First(First(column, row.total_5yr), row.ex_showroom_price)
  BY DEF _resolve_base_price
<1> HIDE DEF column
<1> QED BY <1>1, <1>2, FirstOf, FirstNumber

LEMMA Decided == \A base, discount, cost, cfg : evaluate(base, discount, cost, cfg) \in Decisions
BY DEF evaluate, Decisions

AnswerTyped ==
    answer # Blank => /\ answer.base_price \in Int /\ answer.decision \in Decisions
                      /\ answer.registration_type \in RegTypes

ListInv == car_models \subseteq RowType /\ AnswerTyped

LEMMA ListSteps == BatchInv /\ ListInv /\ [Next]_vars => ListInv'
<1> SUFFICES ASSUME BatchInv, ListInv, [Next]_vars PROVE ListInv'
  OBVIOUS
<1>1. ASSUME NEW org \in Orgs, NEW sheet \in Sheets, ingest_excel(org, sheet) PROVE ListInv'
  <2>1. Retire(org, uploads) \subseteq RowType
    <3>1. \A r \in RowType : [r EXCEPT !.is_active = FALSE] \in RowType
      BY DEF RowType
    <3> QED BY <3>1 DEF Retire, ListInv
  <2>2. NewRows(sheet, org) \subseteq RowType
    BY <1>1, StoredRows
  <2> QED BY <1>1, <2>1, <2>2 DEF ingest_excel, ListInv, AnswerTyped
<1>2. ASSUME NEW org \in Orgs, NEW variant, NEW reg \in RegTypes, NEW in,
             analyze_deal(org, variant, reg, in)
      PROVE  ListInv'
  <2>1. PICK row \in Candidates(org, variant) : answer' = Preview(row, reg, in)
    BY <1>2 DEF analyze_deal
  <2>2. row \in RowType
    BY <2>1 DEF Candidates, Active, ListInv
  <2>3. _resolve_base_price(row, reg) \in Int
    BY <2>2, BasePrice
  <2>4. AnswerTyped'
    BY <2>1, <2>3, Decided DEF Preview, AnswerTyped
  <2> QED BY <1>2, <2>4 DEF analyze_deal, ListInv
<1>3. ASSUME NEW org \in Orgs, NEW variant, NEW reg \in RegTypes, NEW in,
             create_deal(org, variant, reg, in)
      PROVE  ListInv'
  <2>1. PICK row \in Candidates(org, variant) : answer' = Priced(row, reg, in)
    BY <1>3 DEF create_deal
  <2>2. row.ex_showroom_price \in Int
    BY <2>1 DEF Candidates, Active, ListInv, RowType
  <2>3. AnswerTyped'
    BY <2>1, <2>2, Decided DEF Priced, CreateDecision, AnswerTyped
  <2> QED BY <1>3, <2>3 DEF create_deal, ListInv
<1>4. ASSUME NEW org \in Orgs, NEW variant, no_pricing(org, variant) PROVE ListInv'
  BY <1>4 DEF no_pricing, ListInv, AnswerTyped
<1>5. CASE UNCHANGED <<car_models, answer>>
  BY <1>5 DEF ListInv, AnswerTyped
<1> QED BY <1>1, <1>2, <1>3, <1>4, <1>5 DEF Next, ingest_refused, vars

LEMMA ListHolds == Spec => []ListInv
<1>1. Init => BatchInv /\ ListInv
  BY DEF Init, BatchInv, ListInv, AnswerTyped
<1> QED BY <1>1, BatchSteps, ListSteps, PTL DEF Spec

(* excel_ingestion.py:458: whatever was in the sheets, every stored row has a *)
(* variant of the list and a number for its ex-showroom price, and every      *)
(* answer is a price and one of the three decisions.                          *)
THEOREM PriceListTypes == Spec => []TypeOK
<1>1. BatchInv /\ ListInv => TypeOK
  BY DEF BatchInv, ListInv, RowType, AnswerTyped, TypeOK
<1>2. Init => BatchInv
  BY DEF Init, BatchInv
<1> QED BY <1>1, <1>2, BatchSteps, ListHolds, PTL DEF Spec

LEMMA Severities ==
    /\ Severity(AUTO_APPROVE) = 0 /\ Severity(GM_APPROVAL) = 1 /\ Severity(DIRECTOR_APPROVAL) = 2
    /\ \A d \in Decisions : Severity(d) \in 0..2
BY DecisionsDiffer DEF Severity, Decisions

(* For every row an organization can come to sell from, whatever was uploaded, *)
(* and every deal create_deal accepts: the preview asks for no harder approval *)
(* than the deal then needs (analyze_deal, create_deal).                       *)
THEOREM PreviewIsMilder == Spec => []PreviewNeverStricter
<1>1. ListInv => PreviewNeverStricter
  <2> SUFFICES ASSUME ListInv, NEW org \in Orgs, NEW row \in Active(org), NEW reg \in RegTypes,
                      NEW in \in Quotes, PriceAccepted(PricedAt(in, row)),
                      _resolve_base_price(row, reg) >= row.ex_showroom_price
               PROVE  Severity(Preview(row, reg, in).decision)
                          <= Severity(Priced(row, reg, in).decision)
    BY DEF PreviewNeverStricter
  <2>1. PICK cfg : cfg = OrgConfig[row.organization_id]
    OBVIOUS
  <2>2. PICK q : q = PricedAt(in, row)
    OBVIOUS
  <2>3. PICK base : base = _resolve_base_price(row, reg)
    OBVIOUS
  <2>4. row \in RowType
    BY DEF Active, ListInv
  <2>5. cfg \in Configs
    BY <2>1, <2>4, ConfigsAssumption DEF Configs, RowType
  <2>6. /\ q \in PricingInputs /\ q.ex_showroom = row.ex_showroom_price
        /\ q.manual_discount = in.manual_discount
    BY <2>2, <2>4, QuotesAssumption DEF PricedAt, PricingInputs, RowType
  <2>7. base \in Int
    BY <2>3, <2>4, BasePrice
  <2>8. PICK p : p = evaluate(base, q.manual_discount, q.ex_showroom, cfg)
    OBVIOUS
  <2>9. PICK c : c = CreateDecision(q, cfg)
    OBVIOUS
  <2>10. Preview(row, reg, in).decision = p /\ Priced(row, reg, in).decision = c
    BY <2>1, <2>2, <2>3, <2>6, <2>8, <2>9 DEF Preview, Priced
  <2>11. p \in Decisions /\ c \in Decisions
    BY <2>8, <2>9, Decided DEF CreateDecision
  <2>12. /\ c = AUTO_APPROVE => p = AUTO_APPROVE
         /\ c # DIRECTOR_APPROVAL => p # DIRECTOR_APPROVAL
    BY <2>2, <2>3, <2>5, <2>6, <2>7, <2>8, <2>9, PreviewIsLowerBound
  <2>13. Severity(p) <= Severity(c)
    BY <2>11, <2>12, Severities DEF Decisions
  <2> QED BY <2>10, <2>13
<1> QED BY <1>1, ListHolds, PTL
=============================================================================
