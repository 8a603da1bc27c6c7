------------------------------ MODULE Selection ------------------------------
(***************************************************************************)
(* The decisions of internal/rotate and internal/detect, as operators on   *)
(* the files they read.  The modules of processes and commands share them. *)
(*                                                                         *)
(*   added  accounts/*.json: when each account was added, 0 if no file     *)
(*   st     state.json: active account, cursor, health of every account    *)
(*   mode   config.json: the selection mode                                *)
(*   quota  quota-cache.json: the mean remaining fraction of an account,   *)
(*          Neutral when the cache holds no group for it                   *)
(*                                                                         *)
(* An account is a number, so that e-mail addresses have an order.  A      *)
(* deadline (CoolUntil) is the time left until it: 0 once it is past.      *)
(***************************************************************************)
EXTENDS Naturals, FiniteSets

CONSTANTS
    Account,     \* the e-mail addresses of the accounts
    Rungs,       \* number of rungs of the quota cooldown ladder
    Ladder,      \* quotaBackoffs: the cooldown of each rung
    ShortCools,  \* the cooldowns of the reasons that have no ladder
    Full,        \* the score of an untouched quota (fraction 1)
    Neutral      \* the score of an account that was never queried

ASSUME AccountAssumption == IsFiniteSet(Account) /\ Account \subseteq Nat \ {0}

ASSUME LadderAssumption ==
    /\ Rungs \in Nat \ {0}
    /\ Ladder \in [1..Rungs -> Nat \ {0}]
    /\ \A i, j \in 1..Rungs : i < j => Ladder[i] < Ladder[j]

ASSUME CoolAssumption == ShortCools \subseteq Nat \ {0} /\ ShortCools # {}

Score == 0..Full                     \* mean cached fractions, in parts of Full

ASSUME ScoreAssumption == Full \in Nat /\ Neutral \in Score

NoAccount == 0                       \* active_email == ""

Modes == {"round-robin", "sticky", "smart"}

StateFile ==
    [active : Account \cup {NoAccount}, rr : Nat,
     failures : [Account -> 0..Rungs], cool : [Account -> Nat],
     revoked : [Account -> BOOLEAN]]

EmptyState ==
    [active |-> NoAccount, rr |-> 0,
     failures |-> [a \in Account |-> 0], cool |-> [a \in Account |-> 0],
     revoked |-> [a \in Account |-> FALSE]]

-----------------------------------------------------------------------------
(* ListAccounts: the accounts that have a file, by AddedAt then e-mail.    *)

Listed(added) == {a \in Account : added[a] > 0}

Before(added, a, b) ==
    \/ added[a] < added[b]
    \/ added[a] = added[b] /\ a < b

\* The position of a in the list of E, and the account at a position.
Index(added, E, a) == Cardinality({b \in E : Before(added, b, a)})

At(added, E, k) == CHOOSE a \in E : Index(added, E, a) = k

-----------------------------------------------------------------------------
(* PickNext.                                                               *)

Eligible(added, st) == {a \in Listed(added) : ~st.revoked[a]}

Healthy(added, st) == {a \in Eligible(added, st) : st.cool[a] = 0}

\* How far the cursor is from a, counting forward around the eligible list.
Gap(added, st, a) ==
    LET E == Eligible(added, st)
        n == Cardinality(E)
    IN  (Index(added, E, a) + n - (st.rr % n)) % n

FirstFromCursor(added, st) ==
    CHOOSE a \in Healthy(added, st) :
        \A b \in Healthy(added, st) : Gap(added, st, a) <= Gap(added, st, b)

\* A slip: the highest score, cooling accounts included.
RichestEligible(added, st, quota) ==
    CHOOSE a \in Eligible(added, st) :
        \A b \in Eligible(added, st) \ {a} :
            \/ quota[a] > quota[b]
            \/ quota[a] = quota[b] /\ Before(added, a, b)

Richest(added, st, quota) ==
    CHOOSE a \in Healthy(added, st) :
        \A b \in Healthy(added, st) \ {a} :
            \/ quota[a] > quota[b]
            \/ quota[a] = quota[b] /\ Before(added, a, b)

SoonestCool(added, st) ==
    CHOOSE a \in Eligible(added, st) :
        \A b \in Eligible(added, st) \ {a} :
            \/ st.cool[a] < st.cool[b]
            \/ st.cool[a] = st.cool[b] /\ Before(added, a, b)

\* A slip: the head of the list instead of the active account.
StickyHead(added, st) == At(added, Listed(added), 0)

\* The sticky branch indexes the full list with the active account's position
\* in the eligible one.
StickyChoice(added, st) ==
    At(added, Listed(added), Index(added, Eligible(added, st), st.active))

StaysSticky(added, st, mode) ==
    mode = "sticky" /\ st.active \in Healthy(added, st)

\* Whether PickNext reaches the round-robin scan and finds an account in it.
Scans(added, st, mode) ==
    /\ Healthy(added, st) # {}
    /\ mode # "smart"
    /\ ~StaysSticky(added, st, mode)

Pick(added, st, mode, quota) ==
    CASE Healthy(added, st) = {}      -> SoonestCool(added, st)
      [] StaysSticky(added, st, mode) -> StickyChoice(added, st)
      [] Scans(added, st, mode)       -> FirstFromCursor(added, st)
      [] OTHER                        -> Richest(added, st, quota)

\* A slip: the cursor left where it is.
BumpedNowhere(added, st, mode) == st

\* A slip: the cursor set to the account chosen, not behind it.
BumpedShort(added, st, mode) ==
    IF ~Scans(added, st, mode) THEN st
    ELSE [st EXCEPT !.rr = Index(added, Eligible(added, st), FirstFromCursor(added, st))]

\* The state PickNext leaves on disk: only the scan moves the cursor.
Bumped(added, st, mode) ==
    IF ~Scans(added, st, mode) THEN st
    ELSE LET E == Eligible(added, st)
         IN  [st EXCEPT !.rr =
                (Index(added, E, FirstFromCursor(added, st)) + 1) % Cardinality(E)]

-----------------------------------------------------------------------------
(* What Activate, ReportFailure and ReportSuccess do to state.json.        *)

\* A slip: the activated account starts from a fresh entry.
ActivatedFresh(st, a) ==
    [st EXCEPT !.active = a, !.cool[a] = 0, !.failures[a] = 0, !.revoked[a] = FALSE]

Activated(st, a) ==
    [st EXCEPT !.active = a,
               !.cool[a] = 0,
               !.failures = [b \in Account |->
                                IF b \in {a, st.active} THEN 0 ELSE st.failures[b]]]

Reasons == {"quota", "short", "revoked"}

\* The failure count is read only through the clamp of BackoffFor, so it
\* saturates at the last rung.
Struck(st, a) == IF st.failures[a] < Rungs THEN st.failures[a] + 1 ELSE Rungs

Backoffs(reason, strikes) ==
    IF reason = "quota" THEN {Ladder[strikes]} ELSE ShortCools

\* A slip: the failure counted and no cooldown set.
FailedUncooled(st, a, reason) ==
    {[st EXCEPT !.failures[a] = Struck(st, a),
                !.revoked[a] = st.revoked[a] \/ reason = "revoked"]}

\* The states ReportFailure may write: the capacity backoff is jittered.
Failed(st, a, reason) ==
    LET counted == [st EXCEPT !.failures[a] = Struck(st, a)]
    IN  IF reason = "revoked" THEN {[counted EXCEPT !.revoked[a] = TRUE]}
        ELSE {[counted EXCEPT !.cool[a] = d] : d \in Backoffs(reason, Struck(st, a))}

\* ReportSuccess for every account of S; also what is left of an account
\* whose entry is deleted.
Cleared(st, S) ==
    [st EXCEPT !.failures = [a \in Account |-> IF a \in S THEN 0 ELSE st.failures[a]],
               !.cool = [a \in Account |-> IF a \in S THEN 0 ELSE st.cool[a]],
               !.revoked = [a \in Account |-> a \notin S /\ st.revoked[a]]]

\* Entries deleted, and active_email emptied when it names one of them.
Forgotten(st, S) ==
    [Cleared(st, S) EXCEPT !.active = IF st.active \in S THEN NoAccount ELSE st.active]

\* One unit of time passes.
Aged(st) ==
    [st EXCEPT !.cool = [a \in Account |-> IF st.cool[a] > 0 THEN st.cool[a] - 1 ELSE 0]]
=============================================================================
