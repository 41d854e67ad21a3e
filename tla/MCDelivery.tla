------------------------------ MODULE MCDelivery -----------------------------
(***************************************************************************)
(* Model-checking instance of Delivery: two cards, codes as numbers.       *)
(***************************************************************************)
EXTENDS Delivery, TLC

MCStock  == (1 :> <<11, 12>>) @@ (2 :> <<21>>)
MCRefill == (1 :> {13}) @@ (2 :> {})

Alike == Permutations(Orders) \cup Permutations(Workers)
=============================================================================
