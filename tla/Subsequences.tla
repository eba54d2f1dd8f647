---------------------------- MODULE Subsequences ----------------------------
(***************************************************************************)
(* What std::erase_if and std::remove_if leave of a list, by the positions    *)
(* that stay.  SelectSeq says the same by recursion over the sequence; this   *)
(* can be reasoned about position by position.                               *)
(***************************************************************************)
EXTENDS Naturals, Sequences, FiniteSets

\* The n-th smallest of some positions
Nth(positions, n) == CHOOSE i \in positions : Cardinality({h \in positions : h < i}) = n - 1

At(s, positions) == [n \in 1..Cardinality(positions) |-> s[Nth(positions, n)]]
=============================================================================
