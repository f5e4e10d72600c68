------------------------- MODULE MCQueryRunStore -------------------------
EXTENDS QueryRunStore

\* `wide' matches four rows of which three are wanted, `narrow' one; `draft' neither passes
\* the page's validation nor compiles.
MCMatches == [wide |-> 4, narrow |-> 1, draft |-> 0]
MCRowLimit == [wide |-> 3, narrow |-> Nothing, draft |-> Nothing]
=============================================================================
