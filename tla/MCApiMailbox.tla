--------------------------- MODULE MCApiMailbox ----------------------------
(* Setups of ApiMailbox for TLC. *)
EXTENDS ApiMailbox

MCSetups ==
  {[api |-> "gmail", provider |-> "google", call |-> "reply"],
   [api |-> "graph", provider |-> "microsoft", call |-> "change"],
   [api |-> "gmail", provider |-> "serviceAccount", call |-> "change"]}
=============================================================================
