------------------------------ MODULE MCMoney ------------------------------
(***************************************************************************)
(* Instances of Money for TLC: three accounts, four fine units in a unit   *)
(* of the scale, so that there are ties and amounts on both sides of them. *)
(* The API refuses the opening balances of the last three openings: below  *)
(* zero, finer than the scale, and wider than the column.                  *)
(***************************************************************************)
EXTENDS Money

MCAccount == 1 .. 3
MCAsked == -3 .. 15 \cup {26, 30}
MCOpenings == {<<16, 4, 0>>, <<8, 8, 12>>, <<16, -4, 8>>, <<10, 9, 3>>, <<24, 4, 0>>}

=============================================================================
