----------------------------- MODULE MCPftdCopy -----------------------------
EXTENDS PftdCopyRefinement

\* A write cut short: nothing, or all but one byte.
MCPartial(n) == {k \in {0, n - 1} : k >= 0}

=============================================================================
