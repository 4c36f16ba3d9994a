-------------------------- MODULE MCStripeWorkflow --------------------------
(* Instances of StripeWorkflow: two intents of one customer. *)
EXTENDS StripeWorkflow, TLC

CONSTANTS i1, i2, cus, charge, invoice, contract, bill

OneCustomer == [i \in Intents |-> cus]
Pair(kind1, object1, kind2, object2) ==
  [kind |-> (i1 :> kind1) @@ (i2 :> kind2), object |-> (i1 :> object1) @@ (i2 :> object2)]

\* Different groups, two changes of one subscription, two credits of one invoice.
MixedPlans == { Pair("refund", charge, "credit_note", invoice),
                Pair("subscription", contract, "subscription", contract),
                Pair("credit_note", bill, "credit_note", bill) }
RefundPlan == { Pair("refund", charge, "refund", charge) }

CoversTwo == [o \in Objects |-> 2]

\* Others change the subscription only.
ContractOnly == [o \in Objects |-> IF o = contract THEN 1 ELSE 0]
Nothing == [o \in Objects |-> 0]
=============================================================================
