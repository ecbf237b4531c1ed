---------------------------- MODULE MCSafeArrays ----------------------------
EXTENDS SafeArrays

B(l, n) == [lLbound |-> l, cElements |-> n]

\* A vector, a matrix that does not begin at 0, and more dimensions than the
\* arrays of the component itself, some of them of one element.
MCBounds == {<<B(0, 2)>>, <<B(1, 2), B(-1, 3)>>, <<B(0, 1), B(1, 2), B(0, 2), B(-1, 1)>>}

=============================================================================
