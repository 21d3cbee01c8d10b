---------------------------- MODULE MCSubmitOrder ----------------------------
(* Small instances of SubmitOrder: the prices and spends of db/init/003,   *)
(* in cents.                                                               *)
EXTENDS SubmitOrder, TLC

CONSTANTS c1, c2, c3, cust, stranger, k1, k2, k3, k4, plan50, planMax, planGone

Row(eligible, balance, flag, amount) ==
    [upgrade_eligible |-> eligible, outstanding_balance |-> balance,
     credit_flag |-> flag, spend_current_month |-> amount]

Good == Row(TRUE, 0, "green", 3499)
Debtor == Row(TRUE, 1250, "amber", 4499)
Frugal == Row(TRUE, 0, "green", 2999)

MCRows == {Good, Debtor, Frugal}
OneRow == {Good}

(* 44.99 is 10.00 above Good and 15.00, the threshold itself, above        *)
(* Frugal; 54.99 is over the threshold for Good and within it for Debtor.  *)
MCCatalog == plan50 :> 4499 @@ planMax :> 5499

Ask(key, customer, offer) ==
    [key |-> key, customer |-> customer, offer |-> offer]

GateRequests == {Ask(k1, cust, plan50), Ask(k1, cust, planMax)}
KeyRequests == {Ask(k1, cust, plan50), Ask(k2, cust, plan50)}
MixedRequests == {Ask(k1, cust, plan50), Ask(EmptyKey, cust, plan50),
                  Ask(k1, cust, planMax)}
AllRequests == {Ask(k1, cust, plan50), Ask(k2, cust, planMax),
                Ask(EmptyKey, cust, plan50), Ask(k3, stranger, plan50),
                Ask(k4, cust, planGone)}

CallSymmetry == Permutations(Calls)
==============================================================================
