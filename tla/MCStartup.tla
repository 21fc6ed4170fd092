------------------------------ MODULE MCStartup ------------------------------
(* Instance of Startup for TLC.                                            *)
EXTENDS Startup

CONSTANTS t1, t2

TwoTexts == {t1, t2}

(* The first migrations of the code in short: a table with two indexes, a  *)
(* table alone, two tables and an index.                                   *)
ShortPlan == <<<<"table", "index", "index">>, <<"table">>, <<"table", "table", "index">>>>
=============================================================================
