------------------------------ MODULE PriceBook ------------------------------
(***************************************************************************)
(* The price list of an organization and the two ways a price is taken     *)
(* from it: excel_ingestion.py turns an uploaded sheet into car_models     *)
(* rows and swaps the active batch; analyze_deal previews a deal from a    *)
(* row, create_deal prices one.                                            *)
(*                                                                         *)
(* A sheet is a row of headers and a set of data rows.  A header is a      *)
(* member of a small set; what matters of its text are the keywords the    *)
(* mapping rules look for in it (Words).  An upload parses and commits     *)
(* without an await, so it is one action.                                  *)
(***************************************************************************)
EXTENDS Pricing, SequencesExt

CONSTANTS
    Orgs, Variants,
    Blank,          \* a cell that holds no number, a column that is NULL
    Words,          \* header -> the keywords of the rules its text contains
    Sheets,         \* the sheets a GM may upload
    Quotes,         \* pricing inputs of a deal, the price itself apart
    RegTypes,
    Similar,        \* the pairs <<asked, listed>> thefuzz scores 80 or more
    OrgConfig,
    MAX_UPLOADS     \* bound of the model

ASSUME QuotesAssumption == Quotes \subseteq PricingInputs

(* Limits are amounts of money (OrganizationConfig; seed.py:27).            *)
ASSUME ConfigsAssumption ==
    \A org \in Orgs :
        /\ OrgConfig[org] \in OrgConfigs
        /\ OrgConfig[org].gm_discount_limit >= 0
        /\ OrgConfig[org].director_discount_limit >= 0

VARIABLES
    car_models,     \* the rows of the table
    uploads,        \* number of uploads so far: the next upload_batch
    answer          \* the last answer of analyze_deal or of create_deal's pricing

vars == <<car_models, uploads, answer>>

-----------------------------------------------------------------------------
(* Column mapping *)

Rule(field, needs) == [field |-> field, needs |-> needs]

(* KEYWORD_RULES, in order.  A rule matches a header that contains all the  *)
(* keywords of one of its alternatives.                                     *)
KEYWORD_RULES ==
    <<Rule("variant", {{"variant"}, {"model name"}, {"car model"}, {"vehicle name"}}),
      Rule("ex_showroom_price", {{"ex showroom"}, {"exshowroom"}, {"esp"}}),
      Rule("tcs", {{"tcs"}, {"tax collected at source"}}),
      Rule("insurance_premium", {{"insurance", "premium"}}),
      Rule("total_5yr", {{"total", "5 year"}}),
      Rule("total_15yr", {{"total", "15 year"}}),
      Rule("total_bh", {{"total", "bh"}}),
      Rule("on_road_price_5yr", {{"on road price", "5 year"}}),
      Rule("on_road_price_15yr", {{"on road price", "15 year"}, {"on road price", "lifetime"}}),
      Rule("on_road_price_bh", {{"on road price", "bh"}}),
      Rule("road_tax_5yr", {{"road tax", "5 year"}}),
      Rule("road_tax_15yr", {{"road tax", "15 year"}}),
      Rule("road_tax_bh", {{"road tax", "bh"}}),
      Rule("extended_warranty", {{"extended warranty"}, {"warranty", "2 year"}}),
      Rule("amc", {{"amc"}, {"annual maintenance"}}),
      Rule("accessories", {{"accessories"}, {"accessory"}})>>

Matches(rule, header) == \E need \in rule.needs : need \subseteq Words[header]

(* Each field takes the first column that matches and is not taken yet; the *)
(* headers of a sheet are distinct (pandas numbers the repeated ones).      *)
map_columns(headers) ==
    LET Take(map, rule) ==
            LET free == {i \in DOMAIN headers :
                            Matches(rule, headers[i]) /\ headers[i] \notin Range(map)}
            IN  IF free = {} THEN map ELSE map @@ (rule.field :> headers[Min(free)])
    IN  FoldLeft(Take, <<>>, KEYWORD_RULES)

validate_data(map) ==
    /\ {"variant", "ex_showroom_price"} \subseteq DOMAIN map
    /\ {"total_5yr", "on_road_price_5yr"} \cap DOMAIN map # {}
    /\ {"total_15yr", "on_road_price_15yr"} \cap DOMAIN map # {}

(* Rows *)

Cell(row, map, field) == IF field \in DOMAIN map THEN row[map[field]] ELSE Blank

Totals == {"total_5yr", "on_road_price_5yr", "total_15yr", "on_road_price_15yr",
           "total_bh", "on_road_price_bh"}

(* _to_float: a cell of a column that was mapped to a price is a number or  *)
(* blank, whatever was written in it.                                       *)
ASSUME SheetsAssumption ==
    \A sheet \in Sheets :
        LET map == map_columns(sheet.headers)
        IN  \A row \in sheet.rows :
                /\ Cell(row, map, "variant") \in Variants \cup {Blank}
                /\ \A f \in Totals \cup {"ex_showroom_price"} :
                      Cell(row, map, f) \in Int \cup {Blank}

First(a, b) == IF a # Blank THEN a ELSE b

(* A variant and a 5-year or 15-year price are required; the other rows are *)
(* skipped.                                                                 *)
Usable(row, map) ==
    /\ Cell(row, map, "variant") # Blank
    /\ \E f \in {"total_5yr", "on_road_price_5yr", "total_15yr", "on_road_price_15yr"} :
          Cell(row, map, f) # Blank

(* The `or` of the ex-showroom fallback passes over a price of zero.        *)
transform_output(row, map, org, batch) ==
    LET price(total, onroad) == First(Cell(row, map, total), Cell(row, map, onroad))
        five == price("total_5yr", "on_road_price_5yr")
        fifteen == price("total_15yr", "on_road_price_15yr")
        ex == Cell(row, map, "ex_showroom_price")
    IN  [organization_id |-> org, upload_batch |-> batch, is_active |-> TRUE,
         variant |-> Cell(row, map, "variant"),
         ex_showroom_price |->
            IF ex # Blank THEN ex ELSE IF five \notin {Blank, 0} THEN five ELSE fifteen,
         total_5yr |-> five, total_15yr |-> fifteen,
         total_bh |-> price("total_bh", "on_road_price_bh")]

NewRows(sheet, org) ==
    LET map == map_columns(sheet.headers)
    IN  IF ~validate_data(map) THEN {}
        ELSE {transform_output(row, map, org, uploads) :
                 row \in {r \in sheet.rows : Usable(r, map)}}

-----------------------------------------------------------------------------
(* Price lookup *)

Active(org) == {r \in car_models : r.organization_id = org /\ r.is_active}

(* _resolve_pricing: rows of the variant itself, else the most similar; any *)
(* of several equal candidates may come first.                              *)
Candidates(org, variant) ==
    LET exact == {r \in Active(org) : r.variant = variant}
    IN  IF exact # {} THEN exact
        ELSE {r \in Active(org) : <<variant, r.variant>> \in Similar}

_resolve_base_price(row, reg) ==
    LET column == CASE reg = "15YR" -> row.total_15yr
                    [] reg = "BH" -> row.total_bh
                    [] OTHER -> row.total_5yr
    IN  First(First(column, row.total_5yr), row.ex_showroom_price)

PricedAt(in, row) == [in EXCEPT !.ex_showroom = row.ex_showroom_price]

-----------------------------------------------------------------------------
(* Handlers *)

Init ==
    /\ car_models = {}
    /\ uploads = 0
    /\ answer = Blank

(* Slips of the swap: the batch compared the wrong way round, the           *)
(* organization forgotten.                                                  *)
RetireSame(org, batch) ==
    {IF r.organization_id = org /\ r.upload_batch = batch
     THEN [r EXCEPT !.is_active = FALSE] ELSE r : r \in car_models}

RetireEverywhere(org, batch) ==
    {IF r.upload_batch # batch THEN [r EXCEPT !.is_active = FALSE] ELSE r : r \in car_models}

Retire(org, batch) ==
    {IF r.organization_id = org /\ r.upload_batch # batch /\ r.is_active
     THEN [r EXCEPT !.is_active = FALSE] ELSE r : r \in car_models}

(* Slip: the column accepts rows without a price.                           *)
Nullable(sheet, org) == FALSE

(* The database refuses the insert where a row is left without an           *)
(* ex-showroom price.                                                       *)
NullPrice(sheet, org) == \E r \in NewRows(sheet, org) : r.ex_showroom_price = Blank

(* ingest_excel: the batch swap.                                            *)
ingest_excel(org, sheet) ==
    /\ uploads < MAX_UPLOADS
    /\ NewRows(sheet, org) # {}
    /\ ~NullPrice(sheet, org)
    /\ car_models' = Retire(org, uploads) \cup NewRows(sheet, org)
    /\ uploads' = uploads + 1
    /\ UNCHANGED answer

(* No usable row, or a row the database refuses: everything is rolled back. *)
ingest_refused(org, sheet) ==
    /\ uploads < MAX_UPLOADS
    /\ NewRows(sheet, org) = {} \/ NullPrice(sheet, org)
    /\ uploads' = uploads + 1
    /\ UNCHANGED <<car_models, answer>>

(* The answer of analyze_deal: the price of the registration type and the    *)
(* one discount the preview knows of.                                       *)
Preview(row, reg, in) ==
    LET base == _resolve_base_price(row, reg)
    IN  [by |-> "analyze_deal", row |-> row, registration_type |-> reg, base_price |-> base,
         decision |-> evaluate(base, in.manual_discount, row.ex_showroom_price,
                               OrgConfig[row.organization_id])]

(* Steps 2 to 5 of create_deal; the rest of it is in DealWorkflow.          *)
Priced(row, reg, in) ==
    [by |-> "create_deal", row |-> row, registration_type |-> reg,
     base_price |-> row.ex_showroom_price,
     decision |-> CreateDecision(PricedAt(in, row), OrgConfig[row.organization_id])]

(* Reads the price list and the configuration, writes nothing.              *)
analyze_deal(org, variant, reg, in) ==
    /\ \E row \in Candidates(org, variant) : answer' = Preview(row, reg, in)
    /\ UNCHANGED <<car_models, uploads>>

create_deal(org, variant, reg, in) ==
    /\ \E row \in Candidates(org, variant) :
          PriceAccepted(PricedAt(in, row)) /\ answer' = Priced(row, reg, in)
    /\ UNCHANGED <<car_models, uploads>>

(* DealNotFoundError: the request is answered with an error, from either.    *)
no_pricing(org, variant) ==
    /\ Candidates(org, variant) = {}
    /\ answer' = Blank
    /\ UNCHANGED <<car_models, uploads>>

Next ==
    \E org \in Orgs :
        \/ \E variant \in Variants : no_pricing(org, variant)
        \/ \E sheet \in Sheets : ingest_excel(org, sheet) \/ ingest_refused(org, sheet)
        \/ \E variant \in Variants, reg \in RegTypes, in \in Quotes :
              \/ analyze_deal(org, variant, reg, in)
              \/ create_deal(org, variant, reg, in)

Spec == Init /\ [][Next]_vars

-----------------------------------------------------------------------------
(* Properties *)

Prices == Int \cup {Blank}

TypeOK ==
    /\ \A r \in car_models :
          /\ r.organization_id \in Orgs /\ r.upload_batch \in 0..uploads - 1
          /\ r.variant \in Variants /\ r.is_active \in BOOLEAN
          /\ r.ex_showroom_price \in Int
          /\ {r.total_5yr, r.total_15yr, r.total_bh} \subseteq Prices
    /\ answer # Blank => /\ answer.base_price \in Int /\ answer.decision \in Decisions
                         /\ answer.registration_type \in RegTypes

(* An organization sells from one sheet at a time, and from the moment its   *)
(* first sheet was accepted it always has one: no upload, accepted or        *)
(* refused, mixes two price lists or leaves none (ingest_excel, step 7).     *)
OneActiveBatch ==
    \A org \in Orgs :
        LET stored == {r.upload_batch : r \in {q \in car_models : q.organization_id = org}}
        IN  {r.upload_batch : r \in Active(org)} =
                IF stored = {} THEN {} ELSE {Max(stored)}

(* An upload replaces the whole active list of its own organization or       *)
(* nothing: no row of the old list survives in the new one and no other      *)
(* organization's list moves, whichever rows the sheet has to skip.          *)
UploadAllOrNothing ==
    [][LET moved == {org \in Orgs : Active(org)' # Active(org)}
       IN  /\ Cardinality(moved) <= 1
           /\ \A org \in moved : \A r \in Active(org)' : r.upload_batch = uploads]_vars

Severity(decision) ==
    CASE decision = AUTO_APPROVE -> 0 [] decision = GM_APPROVAL -> 1 [] OTHER -> 2

(* The preview never asks for a harder approval than the deal then needs:    *)
(* analyze_deal prices at the registration total and counts one discount,    *)
(* create_deal prices at cost and counts three.  Rows whose total is below   *)
(* the ex-showroom price are set aside, and prices create_deal refuses.      *)
PreviewNeverStricter ==
    \A org \in Orgs : \A row \in Active(org), reg \in RegTypes, in \in Quotes :
        PriceAccepted(PricedAt(in, row)) /\ _resolve_base_price(row, reg) >= row.ex_showroom_price =>
            Severity(Preview(row, reg, in).decision) <= Severity(Priced(row, reg, in).decision)
=============================================================================
