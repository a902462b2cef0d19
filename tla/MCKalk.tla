------------------------------- MODULE MCKalk -------------------------------
EXTENDS Kalk

\* A recalculation moves nothing, one row, or all.
MCSpreads == {{}, Rows} \cup {{r} : r \in Rows}

=============================================================================
