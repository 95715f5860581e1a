----------------------------- MODULE MCAiUsage -----------------------------
(* AiUsage with two calls of requests, one for a model the provider at     *)
(* hand has no price for, and one call of a detached task.                 *)
EXTENDS AiUsage, Sequences, TLC

CONSTANTS c1, c2, d

MCModels == (c1 :> "small") @@ (c2 :> "large") @@ (d :> "small")
MCPreference == <<"openai", "gemini">>
MCPrices == ("small" :> {"openai", "gemini"}) @@ ("large" :> {"openai"})
=============================================================================
