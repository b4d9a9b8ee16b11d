----------------------------- MODULE MCOutbox -----------------------------
(***************************************************************************)
(* Instances of Outbox for TLC: events 1 and 2 share an account, so do 2   *)
(* and 3; events 1 and 3 do not and commit in either order.                *)
(***************************************************************************)
EXTENDS Outbox, TLC

CONSTANTS w1, w2

MCEvent == 1 .. 3
MCAccount == 1 .. 4
MCPayload == 1 :> {{1, 2}} @@ 2 :> {{2, 3}} @@ 3 :> {{3, 4}}

=============================================================================
