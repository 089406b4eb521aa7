--------------------------- MODULE MCAppleInventory ---------------------------
(* Model-checking instances of AppleInventory: a shelf with two credentials of
   one product and one of another.                                          *)
EXTENDS AppleInventory, TLC

MCProductOf(i) == IF i = "z1" THEN "tool" ELSE "game"

(* Requests are interchangeable.                                            *)
MCSymmetry == Permutations(Sessions)
=============================================================================
