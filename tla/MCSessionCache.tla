--------------------------- MODULE MCSessionCache ---------------------------
(* A small instance of SessionCache: an agent's session and another of its  *)
(* actor's tokens, a web session or an API key.                            *)
EXTENDS SessionCache, TLC

MCOwner  == [k \in Token |-> CHOOSE a \in Actor : TRUE]
MCMixes  == {m \in [Token -> Kinds] : \E j, k \in Token : m[j] = "api" /\ m[k] # "api"}
Symmetry == Permutations(Task) \union Permutations(Token)
=============================================================================
