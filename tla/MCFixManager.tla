----------------------------- MODULE MCFixManager -----------------------------
(* FixManager with two slots loaded one at a time.                          *)
EXTENDS FixManager, TLC

CONSTANTS a, b, blank, old, new, r1, r2

MCSlots == {a, b}
MCFindingRank == (a :> 1) @@ (b :> 2)
MCRowRank == (a :> 2) @@ (b :> 1)
MCProposed == (a :> blank) @@ (b :> old)
MCFindings == (TRUE :> {a, b}) @@ (FALSE :> {a})
MCUnresolvable == (TRUE :> {{}, {b}}) @@ (FALSE :> {{}})
MCSymmetry == Permutations(Requests)
=============================================================================
