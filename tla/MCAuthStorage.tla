--------------------------- MODULE MCAuthStorage ---------------------------
EXTENDS AuthStorage, TLC

CONSTANTS w1, w2, s1, s2

\* Two processes; two goroutines of one process.
Processes == w1 :> s1 @@ w2 :> s2
Goroutines == w1 :> s1 @@ w2 :> s1

Swap == w1 :> w2 @@ w2 :> w1 @@ s1 :> s2 @@ s2 :> s1
SwapWorkers == w1 :> w2 @@ w2 :> w1
Compose(S, T) == S \cup T \cup {f @@ g : f \in S, g \in T}
ProcessSymmetry == Compose({Swap}, Permutations(Account))
GoroutineSymmetry == Compose({SwapWorkers}, Permutations(Account))
=============================================================================
