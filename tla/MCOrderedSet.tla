---------------------------- MODULE MCOrderedSet ----------------------------
(* Four values: enough for a value in the middle with one on each side and *)
(* one outside, which every branch of insert, remove and replace needs.    *)
(* No method tells one value from another, so the values are symmetric.    *)
EXTENDS OrderedSet
CONSTANTS a, b, c, d
MCElement == {a, b, c, d}
MCSymmetry == Permutations(MCElement)
=============================================================================
