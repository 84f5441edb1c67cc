---------------------------- MODULE MCRegister ----------------------------
(* Instances of Register for TLC. *)
EXTENDS Register, TLC

\* Tabs are alike, and so are the carts and the lines of a cart.
Alike == Permutations(Worker) \cup Permutations(Cart) \cup Permutations(Line)
=============================================================================
