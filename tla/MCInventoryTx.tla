---------------------------- MODULE MCInventoryTx ----------------------------
(***************************************************************************)
(* Instances of InventoryTx for TLC: two warehouses, two stock items.      *)
(***************************************************************************)
EXTENDS InventoryTxInvariant, TLC

CONSTANTS w1, w2, i1, i2, noloc, s1, s2, d1, d2, d3

Ln(i, q) == [item |-> i, loc |-> noloc, qty |-> q]

Bal(h, r) == [loc |-> noloc, onHand |-> h, reserved |-> r, available |-> h - r]

\* A transfer and a sale of the same two items, whose lines can lock crosswise:
\* 4 units of i1, one of them reserved, cover either document but not both.
CrossRequest ==
  d1 :> [type |-> "TRANSFER", serie |-> s1, from |-> w1, to |-> w2,
         lines |-> <<Ln(i1, 2), Ln(i2, 1)>>] @@
  d2 :> [type |-> "OUT", serie |-> s2, from |-> w1, to |-> w1,
         lines |-> <<Ln(i2, -1), Ln(i1, -2)>>]

CrossOpening ==
  [r \in Rows |-> IF r[1] = w1 THEN IF r[2] = i1 THEN Bal(4, 1) ELSE Bal(2, 0)
                  ELSE None]

\* ... and an adjustment that lists i1 twice, out and in, with the transfer's
\* series: numbering, repeated rows and a third document at the same stock.
MixedRequest ==
  CrossRequest @@
  d3 :> [type |-> "ADJUSTMENT", serie |-> s1, from |-> w1, to |-> w1,
         lines |-> <<Ln(i1, -3), Ln(i1, 2)>>]

=============================================================================
