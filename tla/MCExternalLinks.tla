--------------------------- MODULE MCExternalLinks ---------------------------
(* ExternalLinks with one target on a host g and three on a host h.       *)
EXTENDS ExternalLinks

CONSTANTS g, h, s, t, u, v

McTargets == {s, t, u, v}
McHostOf == [x \in McTargets |-> IF x = s THEN g ELSE h]
=============================================================================
