------------------------- MODULE MCHostTransactions -------------------------
(* Two intents of one customer, in different groups and on one business row. *)
EXTENDS HostTransactions, TLC

CONSTANTS i1, i2, payment, invoice, contract, cus

Pair(kind1, row1, kind2, row2) ==
  [kind |-> (i1 :> kind1) @@ (i2 :> kind2), row |-> (i1 :> row1) @@ (i2 :> row2)]
MixedPlans == { Pair("refund", payment, "credit_note", invoice),
                Pair("subscription", contract, "refund", payment),
                Pair("credit_note", invoice, "credit_note", invoice) }
OneCustomer == [r \in Rows |-> cus]
=============================================================================
