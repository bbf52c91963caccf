--------------------------- MODULE MCUnlockedStock ---------------------------
(***************************************************************************)
(* Instances of UnlockedStock for TLC.                                     *)
(***************************************************************************)
EXTENDS UnlockedStock, TLC

CONSTANTS w1, i1, i2, i3, noloc, s1, s2, d1, d2, m1, m2, m3, m4

Bal(h, r) == [loc |-> noloc, onHand |-> h, reserved |-> r, available |-> h - r]
Ln(i, q) == [item |-> i, loc |-> noloc, qty |-> q]

MCRequest ==
  d1 :> [type |-> "OUT", serie |-> s1, from |-> w1, to |-> w1, lines |-> <<Ln(i1, -2)>>] @@
  d2 :> [type |-> "IN", serie |-> s2, from |-> w1, to |-> w1, lines |-> <<Ln(i3, 1)>>]

MCOpening == [r \in Rows |-> CASE r[2] = i1 -> Bal(2, 0) [] r[2] = i2 -> Bal(1, 1) [] OTHER -> None]

\* One production order reserves i1 while two release their units of i2, of
\* which only one is reserved, and a balance of i3 is set by hand while the
\* first units of i3 come in.
MCCall ==
  m1 :> [mode |-> "reserve", warehouse |-> w1, lines |-> <<Ln(i1, 2)>>] @@
  m2 :> [mode |-> "release", warehouse |-> w1, lines |-> <<Ln(i2, 1)>>] @@
  m3 :> [mode |-> "release", warehouse |-> w1, lines |-> <<Ln(i2, 1)>>] @@
  m4 :> [mode |-> "set", warehouse |-> w1, lines |-> <<[item |-> i3, balance |-> Bal(2, 0)]>>]

=============================================================================
