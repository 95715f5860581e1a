----------------------------- MODULE MCSiteEdits -----------------------------
(* SiteEdits with two posts and two dead links on each.                     *)
EXTENDS SiteEdits, TLC

CONSTANTS p, q, r1, r2, t, u

MCOwnCodes == (t :> 404) @@ (u :> 410)
MCSymmetry == Permutations(Requests)
=============================================================================
