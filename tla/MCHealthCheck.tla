--------------------------- MODULE MCHealthCheck ---------------------------
(***************************************************************************)
(* Instance of HealthCheck: "old" lists one URL twice and another that     *)
(* does not parse, "new" is created while the server runs.                 *)
(***************************************************************************)
EXTENDS HealthCheck

CONSTANTS old, new, a, b, bad

MCEndpointUrl ==
  [c \in Configs |->
     CASE c = old -> <<a, bad, a>>
       [] c = new -> <<b>>]

MCInitial == {old}
=============================================================================
