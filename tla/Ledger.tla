------------------------------- MODULE Ledger -------------------------------
(***************************************************************************)
(* What a PPOB sub-ledger promises, whoever runs it: for every account an  *)
(* append-only journal of signed entries, each carrying the balance after  *)
(* it, and a stored balance that is the balance after the last entry.  The *)
(* mitra wallet (PpobWallet) and the provider bucket (PpobBucket) are      *)
(* shown to implement it.                                                  *)
(***************************************************************************)
EXTENDS Integers, Sequences

CONSTANT Account

VARIABLES balance,   \* the stored balance of each account
          entries    \* the journal of each account

ledgerVars == <<balance, entries>>

Entry == [amount: Int, after: Int]

\* The balance entry i of journal j starts from, b being the opening balance.
Before(b, j, i) == IF i = 1 THEN b ELSE j[i - 1].after

\* The balance journal j leaves behind when it starts from b.
Closing(b, j) == IF Len(j) = 0 THEN b ELSE j[Len(j)].after

\* Every entry of j moves the running balance by its own amount.
Chained(b, j) == \A i \in 1..Len(j) : j[i].after = Before(b, j, i) + j[i].amount

\* t is s with entries added at its end.
Extends(t, s) == Len(s) <= Len(t) /\ \A i \in 1..Len(s) : t[i] = s[i]

LedgerInit ==
  /\ balance = [a \in Account |-> 0]
  /\ entries = [a \in Account |-> << >>]

\* One step posts any number of entries to any number of accounts, all at once.
Post ==
  \A a \in Account :
    /\ Extends(entries'[a], entries[a])
    /\ Chained(0, entries'[a])
    /\ balance'[a] = Closing(0, entries'[a])

LedgerSpec == LedgerInit /\ [][Post]_ledgerVars
=============================================================================
