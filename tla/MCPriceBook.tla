----------------------------- MODULE MCPriceBook -----------------------------
(* An instance of PriceBook for TLC.                                         *)
EXTENDS PriceBook

CONSTANTS v1, v2, v3, o1, o2

(* Headers, named for what they announce.  The text of a 15-year column      *)
(* contains "5 year" too.                                                    *)
HeaderWords ==
    [variant |-> {"variant"}, ex |-> {"ex showroom"},
     total5 |-> {"total", "5 year"}, total15 |-> {"total", "15 year", "5 year"},
     totalbh |-> {"total", "bh"}, road5 |-> {"on road price", "5 year"},
     lifetime |-> {"on road price", "lifetime"}]

(* One sheet each: complete, with one row of a variant and two of another;   *)
(* on-road prices only; totals in the other order; no 15-year price at all;  *)
(* a row without variant beside one the database refuses.                    *)
SomeSheets ==
    {[headers |-> <<"variant", "ex", "total5", "total15", "totalbh">>,
      rows |-> {[variant |-> v1, ex |-> 100, total5 |-> 110, total15 |-> 120, totalbh |-> Blank],
                [variant |-> v2, ex |-> 100, total5 |-> 90, total15 |-> Blank, totalbh |-> 130],
                [variant |-> v2, ex |-> 100, total5 |-> Blank, total15 |-> 125, totalbh |-> 130]}],
     [headers |-> <<"variant", "ex", "road5", "lifetime">>,
      rows |-> {[variant |-> v1, ex |-> Blank, road5 |-> 105, lifetime |-> 118]}],
     [headers |-> <<"variant", "ex", "total15", "total5", "lifetime">>,
      rows |-> {[variant |-> v1, ex |-> 100, total15 |-> 120, total5 |-> 110, lifetime |-> 119]}],
     [headers |-> <<"variant", "ex", "total5">>,
      rows |-> {[variant |-> v1, ex |-> 100, total5 |-> 110]}],
     [headers |-> <<"variant", "ex", "total5", "total15">>,
      rows |-> {[variant |-> Blank, ex |-> 100, total5 |-> 110, total15 |-> 120],
                [variant |-> v1, ex |-> Blank, total5 |-> 0, total15 |-> Blank]}]}

Deal(manual, festival) ==
    [ex_showroom |-> 0, road_tax |-> 0, insurance |-> 0, corporate_discount |-> 0,
     festival_discount |-> festival, manual_discount |-> manual, adjustments |-> 0]

SomeQuotes == {Deal(0, 0), Deal(0, 10), Deal(10, 0), Deal(16, 0)}

(* v3 is not on any sheet; it is spelled like v1.                            *)
Spelled == {<<v3, v1>>}

DefaultConfig == [gm_discount_limit |-> 5, director_discount_limit |-> 15,
                  min_margin_threshold |-> 3]
AtCostConfig == [gm_discount_limit |-> 5, director_discount_limit |-> 15,
                 min_margin_threshold |-> 0]

Configs == (o1 :> DefaultConfig @@ o2 :> AtCostConfig)
=============================================================================
