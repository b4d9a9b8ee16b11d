------------------------------- MODULE Money -------------------------------
(***************************************************************************)
(* The arithmetic of a transfer: Money.from_value rounds what was asked to *)
(* the scale of the ledger, half to even, and the columns of the database  *)
(* round what they are given, half away from zero.  Opening balances go to *)
(* them without Money: only the schema of the API keeps them to the scale. *)
(* Amounts are integers, in units finer than the scale; balances and       *)
(* entries are stored in units of the scale, 0.0001.                       *)
(***************************************************************************)
EXTENDS Integers, Sequences, FiniteSets, SequencesExt

CONSTANTS
    Account,
    Grain,          \* fine units in one unit of the scale
    Asked,          \* the amounts that commands ask for, in fine units
    MaxPrecise,     \* the largest amount of the 28 digits of a decimal, in units of the scale
    MaxStored,      \* the largest amount of a Numeric(20, 4) column, likewise
    Openings,       \* the opening balances asked for, in fine units
    MaxTransfers    \* bound on transfers

ASSUME ScaleAssumption == Grain \in Nat \ {0} /\ Asked \subseteq Int
ASSUME WidthAssumption ==
    /\ MaxStored \in Nat /\ MaxPrecise >= MaxStored /\ MaxTransfers \in Nat
    /\ IsFiniteSet(Account) /\ Openings \subseteq [Account -> Int]

VARIABLES
    opening,    \* the balances the accounts were opened with, in fine units
    balance,    \* column "balance"
    entries,    \* the postings of each account: column "signed_amount", in their order
    transfers,  \* of each transfer, what was asked for and column "amount"
    refusal     \* what the last command was refused for, or "none"

vars == <<opening, balance, entries, transfers, refusal>>

-----------------------------------------------------------------------------

\* Mutant: a tie is rounded up.
HalfUp(n) == (2 * n + Grain) \div (2 * Grain)

\* quantize(MONEY_SCALE, rounding=ROUND_HALF_EVEN), in units of the scale.
HalfEven(n) ==
    LET low == n \div Grain
        rest == 2 * (n % Grain)
    IN  IF rest > Grain \/ (rest = Grain /\ low % 2 = 1) THEN low + 1 ELSE low

\* Mutant: the amount is checked and not rounded.
UnroundedAmount(n) == n

\* The amount of Money.from_value, in fine units.
MoneyAmount(n) == HalfEven(n) * Grain

\* from_value raises: not positive once it is rounded, or too many digits for a decimal.
Invalid(n) == HalfEven(n) <= 0 \/ HalfEven(n) > MaxPrecise

\* What a Numeric(20, 4) column stores of n fine units.
Stored(n) ==
    IF n >= 0 THEN (2 * n + Grain) \div (2 * Grain) ELSE -((Grain - 2 * n) \div (2 * Grain))

\* opening_balance of AccountCreateRequest: not negative, without a fifth decimal, and no
\* longer than the column.
Admitted(n) == n >= 0 /\ n % Grain = 0 /\ n <= MaxStored * Grain

\* The accounts were opened with the balances that the API let through.
Init ==
    /\ opening \in {o \in Openings : \A a \in Account : Admitted(o[a])}
    /\ balance = [a \in Account |-> Stored(opening[a])]
    /\ entries = [a \in Account |-> <<>>]
    /\ transfers = <<>>
    /\ refusal = "none"

\* The balances after a transfer of n, as the service computes them.
Debited(s, n) == balance[s] * Grain - MoneyAmount(n)
Credited(d, n) == balance[d] * Grain + MoneyAmount(n)

Refuse(s, d, n) ==
    /\ refusal' = IF Invalid(n) THEN "invalid"
                  ELSE IF Debited(s, n) < 0 THEN "insufficient"
                  ELSE "error"
    /\ Invalid(n) \/ Debited(s, n) < 0 \/ Stored(Credited(d, n)) > MaxStored
    /\ UNCHANGED <<opening, balance, entries, transfers>>

\* Both balances, both entries and the amount go to the columns.
Post(s, d, n) ==
    /\ Len(transfers) < MaxTransfers
    /\ ~Invalid(n)
    /\ Debited(s, n) >= 0
    /\ Stored(Credited(d, n)) <= MaxStored
    /\ balance' = [balance EXCEPT ![s] = Stored(Debited(s, n)), ![d] = Stored(Credited(d, n))]
    /\ entries' = [entries EXCEPT ![s] = Append(@, Stored(-MoneyAmount(n))),
                                  ![d] = Append(@, Stored(MoneyAmount(n)))]
    /\ transfers' = Append(transfers, [asked |-> n, amount |-> Stored(MoneyAmount(n))])
    /\ refusal' = "none"
    /\ UNCHANGED opening

Next ==
    \E s, d \in Account, n \in Asked :
        /\ s # d
        /\ Refuse(s, d, n) \/ Post(s, d, n)

Spec == Init /\ [][Next]_vars

-----------------------------------------------------------------------------
\* Properties

Sum(s) == FoldLeft(LAMBDA x, y : x + y, 0, s)
Total(f) == FoldFunction(LAMBDA x, y : x + y, 0, f)

\* A transfer moves the storable amount that is nearest to what was asked, of two that are
\* equally near the even one, so that rounding favours neither side in the long run; it
\* moves exactly what was asked whenever the ledger can hold that.
RoundsHalfEven ==
    \A i \in 1 .. Len(transfers) :
        LET n == transfers[i].asked
            m == transfers[i].amount
            Far(k) == IF k * Grain > n THEN k * Grain - n ELSE n - k * Grain
        IN  /\ \A k \in 0 .. MaxStored : Far(m) <= Far(k) /\ (Far(k) = Far(m) /\ k # m => m % 2 = 0)
            /\ n % Grain = 0 => m * Grain = n

\* What the columns hold, in fine units.
Fine(f) == [a \in Account |-> f[a] * Grain]

\* However finely the amounts are spelled, a balance is exactly the opening balance that was
\* asked for and its entries, the two entries of a transfer cancel out, and no money is made
\* or lost: an opening balance has no fifth decimal and an amount is rounded once, before
\* anything is computed from it, so that the columns never round differently.
ExactBooks ==
    /\ \A a \in Account : balance[a] * Grain = opening[a] + Sum(entries[a]) * Grain
    /\ Total(Fine(balance)) = Total(opening)

=============================================================================
