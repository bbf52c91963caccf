--------------------------- MODULE MCPurchaseOrder ---------------------------
(* Two requests and a timer, two receptions of a purchase of two units.    *)
EXTENDS PurchaseOrder

CONSTANTS r1, r2, x1, x2

\* A unit refused, a unit accepted, two units of which one is accepted.
MCCounts == {<<1, 0>>, <<1, 1>>, <<2, 1>>}
===============================================================================
