---------------------------- MODULE RotationTurns ----------------------------
(***************************************************************************)
(* Rotation with a history variable that counts, for every account, how    *)
(* often a turn was taken while the account was healthy and passed over.    *)
(* It adds nothing to what the program does.                               *)
(***************************************************************************)
EXTENDS Rotation

VARIABLE turns

tvars == <<added, state, mode, quota, live, turns>>

\* The list the cursor runs over is the same after the step.
SameList == added' = added /\ state'.revoked = state.revoked

TurnsInit == Init /\ turns = [a \in Account |-> 0]

Waits(a) ==
    /\ SameList
    /\ a \in Healthy(added, state)
    /\ state'.active # a

\* A turn is taken by a rotation that scans, and by whatever moves the cursor.
Turn ==
    \/ Rotate /\ Scans(added, state, mode)
    \/ state'.rr # state.rr

TurnsNext ==
    /\ Next
    /\ turns' = [a \in Account |->
                    IF ~Waits(a) THEN 0
                    ELSE IF Turn THEN turns[a] + 1
                    ELSE turns[a]]

TurnsSpec == TurnsInit /\ [][TurnsNext]_tvars

-----------------------------------------------------------------------------
\* No account starves: while the list of eligible accounts stands, a healthy
\* account is chosen before the cursor has chosen as many others as there are
\* eligible accounts.
NoStarvation ==
    \A a \in Healthy(added, state) :
        turns[a] < Cardinality(Eligible(added, state))

\* Why: the turns an account has waited and the distance the cursor still has
\* to go to it stay within one round.
WithinOneRound ==
    \A a \in Healthy(added, state) :
        turns[a] + Gap(added, state, a) < Cardinality(Eligible(added, state))
=============================================================================
