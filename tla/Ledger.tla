------------------------------ MODULE Ledger ------------------------------
(***************************************************************************)
(* What the money movement service promises its clients, without sessions, *)
(* locks or retries: an account is opened once, and a transfer is posted   *)
(* in one indivisible step under an idempotency key used only once.        *)
(* TransferService is shown to implement this module.                      *)
(***************************************************************************)
EXTENDS Books

VARIABLES
    accounts,   \* the account rows
    posted      \* the posting bound to each idempotency key in use

ledgerVars == <<accounts, posted>>

LedgerTypeOK ==
    /\ IsTable(accounts, Account, AccountRow)
    /\ IsTable(posted, Key, Posting)

-----------------------------------------------------------------------------

\* The conditions under which t may be posted on the account rows.
MayPost(t) ==
    /\ {t.source, t.destination} \subseteq DOMAIN accounts
    /\ t.source # t.destination
    /\ accounts[t.source].currency = t.currency
    /\ accounts[t.destination].currency = t.currency
    /\ t.amount <= accounts[t.source].balance
    /\ accounts[t.destination].balance + t.amount <= MaxBalance

LedgerInit ==
    /\ accounts = InitialAccounts
    /\ posted = EmptyTable

OpenAccount(a, row) ==
    /\ a \notin DOMAIN accounts
    /\ accounts' = Bind(accounts, a, row)
    /\ UNCHANGED posted

Post(k, t) ==
    /\ k \notin DOMAIN posted
    /\ MayPost(t)
    /\ accounts' = [accounts EXCEPT ![t.source].balance = @ - t.amount,
                                    ![t.destination].balance = @ + t.amount]
    /\ posted' = Bind(posted, k, t)

LedgerNext ==
    \/ \E a \in Account, row \in AccountRow : OpenAccount(a, row)
    \/ \E k \in Key, t \in Posting : Post(k, t)

LedgerSpec == LedgerInit /\ [][LedgerNext]_ledgerVars

=============================================================================
