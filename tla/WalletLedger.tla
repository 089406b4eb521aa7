----------------------------- MODULE WalletLedger -----------------------------
(***************************************************************************)
(* What the order component promises about a user's wallet, without        *)
(* channels, attempts, callbacks or statuses.  An order holds part of the  *)
(* wallet when it is created.  A hold is given back at most once, or it is *)
(* consumed by opening the order, which pays the order's credit (the       *)
(* amount of a deposit, or what the surplus exceeds the price by).  An     *)
(* order whose hold is gone can only be opened by taking the hold again.   *)
(* An opened order never holds or gives back anything again.               *)
(***************************************************************************)
EXTENDS Integers

CONSTANTS Orders, Users, Holds, Credits, Purse

VARIABLES stage, terms, wallet

ledgerVars == <<stage, terms, wallet>>

Terms == [user : Users, hold : Holds, credit : Credits]

LedgerTypeOK ==
    /\ stage \in [Orders -> {"absent", "held", "released", "opened"}]
    /\ \A o \in Orders : stage[o] # "absent" => terms[o] \in Terms
    /\ wallet \in [Users -> Nat]

LedgerInit ==
    /\ stage \in [Orders -> {"absent", "held"}]
    /\ \A o \in Orders : stage[o] = "held" => terms[o] \in Terms
    /\ \A u \in Users : wallet[u] \in 0..Purse

Move(u, delta) ==
    /\ wallet[u] + delta >= 0
    /\ wallet' = [wallet EXCEPT ![u] = @ + delta]

(* The terms of an order are fixed when it is created.                      *)
Hold(o) ==
    /\ stage[o] = "absent"
    /\ stage' = [stage EXCEPT ![o] = "held"]
    /\ terms'[o] \in Terms
    /\ terms' = [terms EXCEPT ![o] = terms'[o]]
    /\ Move(terms'[o].user, -terms'[o].hold)

Release(o) ==
    /\ stage[o] = "held"
    /\ stage' = [stage EXCEPT ![o] = "released"]
    /\ Move(terms[o].user, terms[o].hold)
    /\ UNCHANGED terms

Open(o) ==
    /\ stage[o] = "held"
    /\ stage' = [stage EXCEPT ![o] = "opened"]
    /\ Move(terms[o].user, terms[o].credit)
    /\ UNCHANGED terms

(* The hold is taken first: the wallet must cover it before the credit.     *)
Reopen(o) ==
    /\ stage[o] \in {"released", "opened"}
    /\ wallet[terms[o].user] >= terms[o].hold
    /\ stage' = [stage EXCEPT ![o] = "opened"]
    /\ Move(terms[o].user, terms[o].credit - terms[o].hold)
    /\ UNCHANGED terms

LedgerNext ==
    \E o \in Orders : Hold(o) \/ Release(o) \/ Open(o) \/ Reopen(o)

LedgerSpec == LedgerInit /\ [][LedgerNext]_ledgerVars

=============================================================================
