----------------------------- MODULE MCGateway -----------------------------
(***************************************************************************)
(* Instances of Gateway.  Configs "old" is in the database from the start; *)
(* the others arrive by POST.  "deep" extends the prefix of "old", "twin"  *)
(* repeats it, and request q2 matches "side" only, or nothing.             *)
(***************************************************************************)
EXTENDS Gateway

CONSTANTS old, deep, twin, side, q1, q2

MCChar == {"/", "a", "b"}

MCPrefix ==
  [c \in Configs |->
     CASE c = old  -> <<"/", "a">>
       [] c = deep -> <<"/", "a", "b">>
       [] c = twin -> <<"/", "a">>
       [] c = side -> <<"/", "b">>]

MCPathOf ==
  [r \in Requests |-> IF r = q1 THEN <<"/", "a", "b">> ELSE <<"/", "b">>]

MCInitial == {old} \cap Configs
=============================================================================
