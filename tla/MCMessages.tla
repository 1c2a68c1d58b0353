----------------------------- MODULE MCMessages -----------------------------
EXTENDS Messages, TLC

CONSTANTS a1, a2, k1, k2, k3, b1, b2

MCAccountOf == k1 :> a1 @@ k2 :> a1 @@ k3 :> a2
MCTokensOf == b1 :> 1 @@ b2 :> 2
MCSpendLimit == [window |-> 4, period |-> 6, platform |-> 6]
Sym == Permutations(Requests) \cup Permutations({k1, k2})
=============================================================================
