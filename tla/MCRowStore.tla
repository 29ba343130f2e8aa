----------------------------- MODULE MCRowStore -----------------------------
EXTENDS RowStore, TLC

(* Two heap blocks of three tuples each.                                   *)
MCCtids == {<<1, 1>>, <<1, 2>>, <<1, 3>>, <<2, 1>>, <<2, 2>>, <<2, 3>>}

(* The build loaded the first tuple of block 2 into the root's column      *)
(* store; the rows inserted later on block 1 lie below it.                 *)
MCLoaded == {<<2, 1>>}

(* listed and visited only record what a scan was handed; no action reads  *)
(* them, so states that differ in them alone behave alike.                 *)
MCView == <<trsCurr, trsList, refcnt, rows, used, live, pruned, cachedRows,
            pc, upd, scanPos, cols, nodeLocked, hinted, err>>
=============================================================================
