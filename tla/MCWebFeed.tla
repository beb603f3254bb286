----------------------------- MODULE MCWebFeed ------------------------------
(* Three posts, the second of two rows; a filter for all and one for some.      *)
EXTENDS WebFeed, TLC
CONSTANTS all, some

MCAt == <<1, 2, 2, 3>>
MCMatches == (all :> Row) @@ (some :> {1, 4})
=============================================================================
