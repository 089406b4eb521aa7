------------------------------- MODULE MCWallet -------------------------------
(* OrderPayment for TLC, within two bounds: orders that are paid through the  *)
(* gateways (Gateway), and orders that are folded, refunded and opened again  *)
(* by the administrator (Tables).                                             *)
EXTENDS MCOrderPayment

\* Two period orders of one price that keep their surplus to themselves, each
\* opened once; one request at a time.
Gateway ==
    /\ status[3] = "absent"
    /\ \E s \in Sessions : sess[s].pc \in {"idle", "end"}
    /\ \A o \in Orders :
           status[o] # "absent" =>
               /\ draft[o].kind \in {"period", "onetime"} /\ draft[o].total \in {-1, 1, 2}
               /\ draft[o].surplus = {} /\ draft[o].refund = 0
               /\ status[o] = "cancelled" => opens[o] = 0

\* No checkout request.
Tables == \A s \in Sessions : sess[s] = Idle

Within == Gateway \/ Tables
=============================================================================
