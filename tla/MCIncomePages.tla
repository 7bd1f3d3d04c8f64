--------------------------- MODULE MCIncomePages ---------------------------
(* Six rows, two instants of which have two rows; windows of 4 ticks, so that *)
(* both a shared instant (4) and a lone one (8) fall on a boundary.           *)
EXTENDS IncomePages

MCIds == 1 .. 6
MCStamp == [i \in MCIds |-> CASE i = 1 -> 0 [] i = 2 -> 2 [] i \in {3, 4} -> 4
                              [] i = 5 -> 8 [] i = 6 -> 9]
Slot(from, to) == [from |-> from, to |-> to]
MCSpans == {Slot(0, 4), Slot(2, 9), Slot(0, 10)}
=============================================================================
