----------------------------- MODULE MCGateway -----------------------------
EXTENDS Gateway, TLC

CONSTANTS openrouter, opencode, e1, b1, b2, v1

\* One economy and one balanced model are within reach; v1 is above the plan's
\* classes and b2 takes short prompts only.
MCProviderOf == e1 :> openrouter @@ b1 :> opencode @@ b2 :> openrouter @@ v1 :> opencode
MCRegistry == <<v1, e1, b2, b1>>
MCRankOf == e1 :> 0 @@ b1 :> 1 @@ b2 :> 1 @@ v1 :> 2
MCContextOf == e1 :> 2 @@ b1 :> 2 @@ b2 :> 1 @@ v1 :> 2
MCScoreOf == [study |-> e1 :> 1 @@ b1 :> 2 @@ b2 :> 3 @@ v1 :> 4]

\* A question on the plan yanta, and the same question regenerated.
Yanta == [classes |-> {0, 1}, floor |-> 0, task |-> "study", escalate |-> FALSE, size |-> 2]
MCAsks == {Yanta, [Yanta EXCEPT !.escalate = TRUE]}
=============================================================================
