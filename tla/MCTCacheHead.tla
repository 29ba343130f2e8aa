---------------------------- MODULE MCTCacheHead ----------------------------
(* Instances of TCacheHead for TLC: a relation of two attributes, two      *)
(* head addresses (an old and a new cache), two backends.                  *)
EXTENDS TCacheHead

MCHeadIds     == {1, 2}
\* scans naming one column each: a second scan may need a new head
MCRequests    == {{1}, {2}}
\* the same, and a scan naming the whole row
MCRequestsRow == {{1}, {2}, {WholeRow}}
MCEvents      == {"insert", "truncate"}
MCInsertOnly  == {"insert"}
\* backends are interchangeable in every safety property
MCSymmetry    == Permutations(Backends)
=============================================================================
