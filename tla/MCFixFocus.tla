----------------------------- MODULE MCFixFocus ------------------------------
(* FixFocus for TLC: one page with a finding that a re-scan can evaluate    *)
(* and one that needs a full crawl.                                         *)
EXTENDS FixFocus, TLC

CONSTANTS homePage, title, orphan, broken

NoLinks == [x \in Pages |-> {}]

OnOnePage == {<<homePage, title>>, <<homePage, orphan>>}
Orphans == {<<homePage, orphan>>}

RequestSymmetry == Permutations(Requests)
=============================================================================
