---------------------------- MODULE MCMigrations ----------------------------
(* Instance of Migrations for TLC: the first migrations of the code in      *)
(* short: a table with two indexes, a table alone, two tables and an index. *)
EXTENDS Migrations

ShortPlan == <<<<"table", "index", "index">>, <<"table">>, <<"table", "table", "index">>>>
=============================================================================
