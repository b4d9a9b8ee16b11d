------------------------------- MODULE Books -------------------------------
(***************************************************************************)
(* The constants and the row types that the abstract ledger and the        *)
(* transfer service share.                                                 *)
(***************************************************************************)
EXTENDS Integers, FiniteSets, Sequences

CONSTANTS
    Account,        \* account identifiers, numbered in the order of their collation
    Currency,       \* currency codes
    Key,            \* idempotency keys
    MaxBalance,     \* the largest amount a Numeric(20, 4) column holds
    InitialAccounts \* the account rows the service starts with

\* f is a table whose keys are elements of S and whose rows are elements of T.
IsTable(f, S, T) == DOMAIN f \subseteq S /\ f \in [DOMAIN f -> T]

\* The table f with the row v stored at x.
Bind(f, x, v) == [y \in DOMAIN f \cup {x} |-> IF y = x THEN v ELSE f[y]]

EmptyTable == [x \in {} |-> 0]

\* A row of the table "accounts".
AccountRow == [currency : Currency, balance : 0 .. MaxBalance]

ASSUME AccountAssumption == Account \subseteq Nat
ASSUME BalanceAssumption == MaxBalance \in Nat
ASSUME InitialAssumption == IsTable(InitialAccounts, Account, AccountRow)

\* What a posted transfer says of the books.
Posting == [source : Account, destination : Account,
            amount : 1 .. MaxBalance, currency : Currency]

=============================================================================
