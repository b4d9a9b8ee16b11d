-------------------------- MODULE MCMoneyMovement --------------------------
(***************************************************************************)
(* Instances of MoneyMovement for TLC: beside a transfer from account 1 to *)
(* 2, a retry of it, one that shares an account with it, or one that       *)
(* shares none and takes its money from account 4, which is opened during  *)
(* the run.                                                                *)
(***************************************************************************)
EXTENDS MoneyMovement, TLC

CONSTANTS r1, r2, o1, k1, k2, w1

Row(c, b) == [currency |-> c, balance |-> b]
Post(s, d, a) == [source |-> s, destination |-> d, amount |-> a, currency |-> "SEK", wording |-> "a"]
Ask(k, c) == [key |-> k, command |-> c]

MCAccount == 1 .. 4
MCCurrency == {"SEK"}
MCWording == {"a"}
MCSlot == {1, 2}
MCHash == k1 :> 1 @@ k2 :> 2
MCAccounts == 1 :> Row("SEK", 1) @@ 2 :> Row("SEK", 1) @@ 3 :> Row("SEK", 0)
MCWorkload ==
    { r1 :> Ask(k1, Post(1, 2, 1)) @@ r2 :> a :
        a \in {Ask(k1, Post(1, 2, 1)), Ask(k2, Post(2, 3, 1)), Ask(k2, Post(4, 3, 1))} }
MCOpenings == { o1 :> [account |-> 4, row |-> Row("SEK", 1)] }

=============================================================================
