---------------------------- MODULE MCCredentials ----------------------------
(***************************************************************************)
(* Two processes and two accounts.  One of them gets two refresh tokens in *)
(* its life, the other one.                                                *)
(***************************************************************************)
EXTENDS Credentials

CONSTANTS a1, a2, p1, p2
MCSlug == [e \in Accounts |-> e]
MCTokens == [e \in Accounts |-> IF e = a1 THEN 2 ELSE 1]
\* What runs by itself beside what the user starts.
MCRoles == [p \in Procs |-> IF p = p1 THEN {"request", "poll"}
                            ELSE {"quota", "doctor", "switch", "add", "import"}]
=============================================================================
