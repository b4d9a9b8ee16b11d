------------------------- MODULE MCTransferService -------------------------
(***************************************************************************)
(* Instances of TransferService for TLC.  Accounts 1 and 2 hold currency   *)
(* "SEK"; account 3 is "EUR" or is opened during the run.                  *)
(***************************************************************************)
EXTENDS TransferService, TLC

CONSTANTS r1, r2, r3, o1, o2, k1, k2, k3, blank

Row(c, b) == [currency |-> c, balance |-> b]
Post(s, d, a, c, w) == [source |-> s, destination |-> d, amount |-> a, currency |-> c, wording |-> w]
Ask(k, c) == [key |-> k, command |-> c]

MCAccount == 1 .. 3
MCCurrency == {"SEK", "EUR"}
MCWording == {"a", "b", "overlong"}
MCSlot == 1 .. 2
\* k1 and k2 are hashed to one slot.
MCHash == [k \in Key |-> IF k \in {k1, k2} THEN 1 ELSE 2]
MCUsableKey == Key \ {blank}
MCUsableWording == {"a", "b"}

-----------------------------------------------------------------------------
\* Three transfers under three keys over three accounts, in every combination of
\* directions: they contend for rows, for the money of one account and for
\* the room that the column leaves in another.

ThreeAccounts == 1 :> Row("SEK", 3) @@ 2 :> Row("SEK", 1) @@ 3 :> Row("SEK", 0)
Directions == {<<1, 2>>, <<2, 1>>, <<1, 3>>, <<3, 1>>, <<2, 3>>}
ContentionWorkload ==
    { r1 :> Ask(k1, Post(1, 2, 2, "SEK", "a"))
   @@ r2 :> Ask(k2, Post(d[1], d[2], 2, "SEK", "a"))
   @@ r3 :> Ask(k3, Post(e[1], e[2], 1, "SEK", "a")) : d \in Directions, e \in Directions }
NoOpenings == {[o \in {} |-> 0]}

-----------------------------------------------------------------------------
\* Two requests of one key, the same command or one that differs, beside a request of
\* another key that spends the same money; answers get lost and transactions die.

TwoAccounts == 1 :> Row("SEK", 2) @@ 2 :> Row("SEK", 1) @@ 3 :> Row("EUR", 2)
RetryWorkload ==
    { r1 :> Ask(k1, Post(1, 2, 1, "SEK", "a"))
   @@ r2 :> Ask(k1, c)
   @@ r3 :> Ask(k, Post(1, 2, 2, "SEK", "a")) :
        c \in {Post(1, 2, 1, "SEK", "a"), Post(1, 2, 1, "SEK", "b"), Post(2, 1, 1, "SEK", "a")},
        k \in {k2, k3} }

-----------------------------------------------------------------------------
\* Two clients race to open account 3 while transfers name it, and commands that the
\* service refuses: currencies, amounts, same account, an overlong reference, blank key,
\* too wide a balance.

OpenAccounts == 1 :> Row("SEK", 2) @@ 2 :> Row("SEK", 3)
RefusalCommands ==
    { Post(1, 3, 1, "SEK", "a"), Post(3, 1, 1, "SEK", "a"), Post(1, 2, 1, "EUR", "a"),
      Post(1, 1, 1, "SEK", "a"), Post(1, 2, 0, "SEK", "a"), Post(1, 2, 2, "SEK", "a"),
      Post(1, 2, 1, "SEK", "overlong") }
RefusalWorkload ==
    { r1 :> Ask(k, c) @@ r2 :> Ask(k3, Post(1, 3, 2, "SEK", "a")) :
        k \in {k1, blank}, c \in RefusalCommands }
RefusalOpenings ==
    { o1 :> [account |-> 3, row |-> first] @@ o2 :> [account |-> 3, row |-> Row("EUR", 0)] :
        first \in {Row("SEK", 1), Row("SEK", -1), Row("SEK", 5)} }

=============================================================================
