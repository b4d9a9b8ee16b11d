----------------------------- MODULE MCStartup -----------------------------
(***************************************************************************)
(* Instances of Startup for TLC, with the five tables of the service.      *)
(***************************************************************************)
EXTENDS Startup

CONSTANTS a1, a2, w1

MCTables == <<"accounts", "outbox_events", "transfers", "idempotency_records", "ledger_entries">>

=============================================================================
