--------------------------- MODULE MCSaleOrderStock ---------------------------
(***************************************************************************)
(* Instances of SaleOrderStock for TLC: the seeded workflow "ABONADO       *)
(* ENVIO" (abonado-workflows.seed-data.ts), two orders, one stock item in  *)
(* two warehouses.                                                         *)
(***************************************************************************)
EXTENDS SaleOrderStock

CONSTANTS o1, o2, w1, w2, i1

Branch(flow, from, to, plan, assign) ==
  [flow |-> flow, from |-> from, to |-> to, plan |-> plan, assign |-> assign]

\* The branches of the seeded transitions, ELSE branches included.
Envio ==
  {Branch("envio", {"draft"}, "created", <<>>, w1),
   Branch("envio", {"created", "waitingStock"}, "scheduled", <<"RESERVE">>, None),
   Branch("envio", {"created"}, "waitingStock", <<>>, None),
   Branch("envio", {"scheduled"}, "waitingPayment", <<>>, None),
   Branch("envio", {"waitingPayment"}, "toSend", <<"CONSUME">>, None),
   Branch("envio", {"toSend"}, "delivered", <<>>, None),
   Branch("envio", {"draft", "created", "waitingStock", "scheduled", "waitingPayment", "toSend"},
          "cancelled", <<"REVERT">>, None)}

\* A second workflow, with the plans that the seeded one has no transition for:
\* RESERVE and CONSUME in one transition, and RESTORE.
Other ==
  {Branch("other", {"draft"}, "scheduled", <<"RESERVE">>, w2),
   Branch("other", {"draft"}, "toSend", <<"RESERVE", "CONSUME">>, w2),
   Branch("other", {"scheduled"}, "toSend", <<"CONSUME">>, None),
   Branch("other", {"toSend"}, "draft", <<"RESTORE">>, None),
   Branch("other", {"draft", "scheduled", "toSend"}, "cancelled", <<"REVERT">>, None)}

MCTransitions == Envio \cup Other
MCFlows == [f \in {"envio", "other"} |-> "draft"]

Back(from, to, via, keep) ==
  {[flow |-> "envio", from |-> s, to |-> to, via |-> via, keep |-> keep, graph |-> s # "cancelled"] : s \in from}

\* An unpaid order returns to where it waits for the payment; one that is no longer
\* due today, to before that; one whose date left the window, to before its reservation.
MCRollbacks ==
  Back({"toSend", "delivered", "cancelled"}, "waitingPayment", "toSend", TRUE) \cup
  Back({"waitingPayment", "toSend", "delivered", "cancelled"}, "scheduled", "waitingPayment", TRUE) \cup
  Back({"scheduled", "waitingPayment", "toSend", "delivered", "cancelled"}, "waitingStock", "scheduled", FALSE)

Units(n) == [i \in StockItems |-> n]
\* One order goes through the seeded workflow, in either warehouse or into the
\* second workflow, where the other order, of the import batch, asks for more or less.
MCEdits == [o \in Orders |->
  IF o = o1 THEN [flow : DOMAIN Flows, warehouse : Warehouses, comp : {Units(1)}]
  ELSE [flow : {"other"}, warehouse : {w1}, comp : {Units(1), Units(2)}]]
MCOrder == [o \in Orders |->
  IF o = o1 THEN [flow |-> "envio", warehouse |-> None, comp |-> Units(1)]
  ELSE [flow |-> "other", warehouse |-> w1, comp |-> Units(1)]]
MCOnHand == [r \in Rows |-> IF r[1] = w1 THEN 2 ELSE 1]

=============================================================================
