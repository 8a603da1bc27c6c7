--------------------------- MODULE MCProxyRequests ---------------------------
(* Small instances of ProxyRequests for TLC. *)
EXTENDS ProxyRequests, TLC

MCLadder == <<1>>
MCTwoRungs == <<1, 2>>

\* The accounts in the order of their numbers, and no quota known of any.
MCAdded == [a \in Account |-> a]
MCQuota == [a \in Account |-> Neutral]

\* Requests are alike.
Alike == Permutations(Request)
=============================================================================
