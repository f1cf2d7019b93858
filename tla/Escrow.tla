------------------------------- MODULE Escrow -------------------------------
(***************************************************************************)
(* What the sale engine promises about money.  A deal charges the accounts *)
(* of its parties when it is held, once; it is then kept, or returned, and *)
(* what is returned comes back to the accounts it was charged to.  Kept    *)
(* and returned deals stay as they are, no account is overdrawn, and a     *)
(* balance never moves but with the deals that account for it.             *)
(***************************************************************************)
EXTENDS Integers, FiniteSets

CONSTANTS Account,
          Deal,
          Party,     \* the deals that charge each account
          Charge,    \* what each of them charges it
          Initial    \* the opening balance of each account

VARIABLES funds,     \* the balance of each account
          deal       \* the status of each deal

escrowVars == <<funds, deal>>

Status  == {"open", "held", "kept", "returned"}
Charged == {"held", "kept"}

\* A deal may be held and decided in one step.
Life == [from \in Status |->
           CASE from = "open" -> {"held", "kept", "returned"}
             [] from = "held" -> {"kept", "returned"}
             [] OTHER         -> {}]

EscrowInit ==
  /\ funds = Initial
  /\ deal = [d \in Deal |-> "open"]

Lives(d) == deal'[d] # deal[d] => deal'[d] \in Life[deal[d]]

\* Account a moves with the deals that start and stop charging it, and covers them.
Pays(a) ==
  LET taken == {d \in Party[a] : deal[d] \notin Charged /\ deal'[d] \in Charged}
      back  == {d \in Party[a] : deal[d] \in Charged /\ deal'[d] \notin Charged}
  IN  /\ funds'[a] = funds[a] - Charge[a] * Cardinality(taken) + Charge[a] * Cardinality(back)
      /\ funds'[a] >= 0

\* One step moves any number of deals, and with them the accounts they charge.
Move ==
  /\ deal' # deal /\ deal' \in [Deal -> Status]
  /\ \A d \in Deal : Lives(d)
  /\ \A a \in Account : Pays(a)

EscrowSpec == EscrowInit /\ [][Move]_escrowVars
=============================================================================
