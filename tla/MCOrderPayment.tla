---------------------------- MODULE MCOrderPayment ----------------------------
(* Model-checking instances of OrderPayment, the wallet equation and the     *)
(* refinement of WalletLedger.                                               *)
EXTENDS OrderPayment, Functions, TLC

(* Requests are interchangeable.                                            *)
MCSymmetry == Permutations(Sessions)

(* Channel fees differ by channel and by configuration version.             *)
MCFee(m, v) == IF m = "alipay" THEN 1 + v ELSE v

LegacyRows == {
    [user |-> CHOOSE u \in Users : TRUE, kind |-> "period", total |-> 2, bal |-> 1,
     refund |-> 0, surplus |-> {}],
    [user |-> CHOOSE u \in Users : TRUE, kind |-> "onetime", total |-> -1, bal |-> 1,
     refund |-> 0, surplus |-> {}]}

(* The wallet equation: every user's balance is the starting funds, minus what
   orders awaiting payment hold, plus for every opening of an order its credit
   minus its balance_amount.  Cancelling, auto-cancelling, recovering,
   quarantining, refunding and opening again neither create nor lose money.  *)
Held(o)   == IF status[o] \in {"pending", "paid"} THEN draft[o].bal ELSE 0
Earned(o) == opens[o] * (Credit(o) - draft[o].bal)
Moved(o)  == Earned(o) - Held(o)

OwnMoves(u) == [o \in Orders |-> IF draft[o].user = u THEN Moved(o) ELSE 0]

WalletConserved ==
    \A u \in Users : balance[u] = Funds + SumFunction(OwnMoves(u))

(* OrderPayment implements WalletLedger.                                    *)
Stage(o) ==
    CASE status[o] = "absent" -> "absent"
      [] status[o] \in {"pending", "paid"} -> "held"
      [] status[o] \notin {"absent", "pending", "paid"} /\ opens[o] = 0 -> "released"
      [] OTHER -> "opened"

Ledger == INSTANCE WalletLedger WITH
    Holds <- Nat, Credits <- Nat, Purse <- Funds, wallet <- balance,
    stage <- [o \in Orders |-> Stage(o)],
    terms <- [o \in Orders |-> [user |-> draft[o].user, hold |-> draft[o].bal,
                                credit |-> Credit(o)]]

(* The wallet moves only as WalletLedger allows: an order's hold is given back
   or consumed once, and opening pays its credit once.                      *)
ImplementsLedger == Ledger!LedgerInit /\ [][Ledger!LedgerNext]_(Ledger!ledgerVars)
=============================================================================
