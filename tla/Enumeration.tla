----------------------------- MODULE Enumeration ----------------------------
(* Sets of numbers, gone through in order, as a std::map does with its keys  *)
(* and a search with the places where it finds something.                    *)
EXTENDS Integers, FiniteSets

Ascending(S) ==
  CHOOSE s \in [1 .. Cardinality(S) -> S] : \A j, k \in 1 .. Cardinality(S) : j < k => s[j] < s[k]

=============================================================================
