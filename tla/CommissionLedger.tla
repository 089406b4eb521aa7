-------------------------- MODULE CommissionLedger --------------------------
(***************************************************************************)
(* What the commission bookkeeping promises an inviter: every order earns  *)
(* its commission at most once until it is taken back, taking it back      *)
(* costs exactly what was earned, and nothing else - transfers, payments,  *)
(* hiding or restoring records - changes what the inviter has received.    *)
(***************************************************************************)
EXTENDS Integers

CONSTANTS Orders, Users, InviterOf, Amount

VARIABLES
    inviters,   \* users that exist
    earned,     \* orders whose commission has been credited
    received    \* what each inviter has received, net of what was taken back

ledger == <<inviters, earned, received>>

Init == inviters = Users /\ earned = {} /\ received = [u \in Users |-> 0]

Earn(o) ==
    /\ o \notin earned /\ InviterOf[o] \in inviters
    /\ earned' = earned \cup {o}
    /\ received' = [received EXCEPT ![InviterOf[o]] = @ + Amount[o]]
    /\ UNCHANGED inviters

TakeBack(o) ==
    /\ o \in earned /\ InviterOf[o] \in inviters
    /\ earned' = earned \ {o}
    /\ received' = [received EXCEPT ![InviterOf[o]] = @ - Amount[o]]
    /\ UNCHANGED inviters

Leave(u) ==
    /\ inviters' = inviters \ {u}
    /\ UNCHANGED <<earned, received>>

Next ==
    \/ \E o \in Orders : Earn(o) \/ TakeBack(o)
    \/ \E u \in Users : Leave(u)

Spec == Init /\ [][Next]_ledger
=============================================================================
