------------------------------ MODULE Rotation ------------------------------
(***************************************************************************)
(* The vault, the rotation state and the live credential file as one       *)
(* process after another changes them: every CLI command, every failure    *)
(* line the watcher reads and every quota poll is one action that runs     *)
(* from its first read to its last write, and no write fails.  Variables   *)
(* are the files.                                                          *)
(*                                                                         *)
(* An account's file is named by the slug of its address, so that two      *)
(* addresses may share a file; state.json, the cache and active_email name *)
(* an account by the address as it is spelt.                               *)
(***************************************************************************)
EXTENDS Selection

CONSTANTS
    slug,          \* the file name an address is stored under
    MaxStamp,      \* bound on the instants at which an account is added
    Threshold,     \* config.json: preempt_threshold
    Backups,       \* the envelopes a user may import: functions from accounts to AddedAt
    Words          \* the words the user gives to set-mode

Stamp == 1..MaxStamp

ASSUME BoundAssumption == MaxStamp \in Nat \ {0} /\ Threshold \in Nat

ASSUME SlugAssumption == slug \in [Account -> Account]

\* An envelope holds what export found in files, each under its own name.
ASSUME BackupAssumption ==
    \A p \in Backups :
        /\ DOMAIN p \in (SUBSET Account) \ {{}}
        /\ p \in [DOMAIN p -> Stamp]
        /\ \A a, b \in DOMAIN p : slug[a] = slug[b] => a = b

\* The addresses that name the file of one of S.
SameFile(S) == {b \in Account : \E a \in S : slug[a] = slug[b]}

VARIABLES
    added,   \* accounts/<slug>.json
    state,   \* state.json
    mode,    \* config.json: mode
    quota,   \* quota-cache.json
    live     \* agy's token file: the account it belongs to

vars == <<added, state, mode, quota, live>>

TypeOK ==
    /\ added \in [Account -> {0} \cup Stamp]
    /\ state \in StateFile
    /\ mode \in Modes
    /\ quota \in [Account -> Score]
    /\ live \in Account \cup {NoAccount}

Init ==
    /\ added = [a \in Account |-> 0]
    /\ state = EmptyState
    /\ mode \in Words \cap Modes
    /\ quota = [a \in Account |-> Neutral]
    /\ live = NoAccount

-----------------------------------------------------------------------------
(* Engine.Activate: the token file first, then state.json.                 *)

\* A slip: the state written, the token file not.
ActivateState(st, a) ==
    /\ state' = Activated(st, a)
    /\ UNCHANGED live

Activate(st, a) ==
    /\ live' = a
    /\ state' = Activated(st, a)

\* PickNext on the state st just saved, then Activate unless the choice is
\* the account that is already active.
PickOther(st, q) ==
    IF Eligible(added, st) = {} THEN state' = st /\ UNCHANGED live
    ELSE LET p == Pick(added, st, mode, q)
         IN  IF p = st.active THEN state' = Bumped(added, st, mode) /\ UNCHANGED live
             ELSE Activate(Bumped(added, st, mode), p)

-----------------------------------------------------------------------------
(* The user's commands.                                                    *)

\* agy-rotator add: captureOne saves the account, over whatever its file held,
\* then it is activated.
Add(a) ==
    /\ \E t \in Stamp :
          /\ \A b \in Listed(added) : added[b] < t
          /\ added' = [b \in Account |-> IF b = a THEN t
                                         ELSE IF b \in SameFile({a}) THEN 0 ELSE added[b]]
    /\ Activate(state, a)
    /\ UNCHANGED <<mode, quota>>

\* agy-rotator use: the account in the file that the address names.
Use(e) ==
    /\ \E a \in Listed(added) \cap SameFile({e}) : Activate(state, a)
    /\ UNCHANGED <<added, mode, quota>>

\* agy-rotator rotate, and prelaunch in the shim
Rotate ==
    /\ Eligible(added, state) # {}
    /\ Activate(Bumped(added, state, mode), Pick(added, state, mode, quota))
    /\ UNCHANGED <<added, mode, quota>>

\* A slip: the entry deleted, active_email left.
RemoveEntry(e) ==
    /\ added' = [a \in Account |-> IF a \in SameFile({e}) THEN 0 ELSE added[a]]
    /\ state' = Cleared(state, {e})
    /\ UNCHANGED <<mode, quota, live>>

\* agy-rotator remove: the file goes by its name, the entry and active_email
\* by the address as it was given; the live file is left alone.
Remove(e) ==
    /\ added' = [a \in Account |-> IF a \in SameFile({e}) THEN 0 ELSE added[a]]
    /\ state' = Forgotten(state, {e})
    /\ UNCHANGED <<mode, quota, live>>

\* agy-rotator import: replace deletes the files but keeps their state, and an
\* account of the envelope takes the file of its name.
Import(p, replace) ==
    /\ added' = [a \in Account |-> IF a \in DOMAIN p THEN p[a]
                                   ELSE IF replace \/ a \in SameFile(DOMAIN p) THEN 0
                                   ELSE added[a]]
    /\ IF state.active = NoAccount THEN Activate(state, At(p, DOMAIN p, 0))
       ELSE UNCHANGED <<state, live>>
    /\ UNCHANGED <<mode, quota>>

\* agy-rotator doctor over the accounts checked: ok ones refresh, dead ones
\* are refused, the others cannot be reached.  The state read at the start is
\* saved again at each prune, so the successes before the last prune are lost.
Doctor(checked, ok, dead, fix) ==
    LET pruned  == IF fix THEN dead ELSE {}
        lasting == {a \in ok : \A b \in pruned : Before(added, b, a)}
    IN  /\ added' = [a \in Account |-> IF a \in pruned THEN 0 ELSE added[a]]
        /\ state' = Cleared(Forgotten(state, pruned), lasting)
        /\ UNCHANGED <<mode, quota, live>>

\* agy-rotator quota over the accounts asked
Quota(asked, q) ==
    /\ quota' = [a \in Account |-> IF a \in asked THEN q[a] ELSE quota[a]]
    /\ UNCHANGED <<added, state, mode, live>>

\* A slip: the word not looked at.
SetAnyMode(m) ==
    /\ mode' = m
    /\ UNCHANGED <<added, state, quota, live>>

\* agy-rotator set-mode, and config set mode
SetMode(m) ==
    /\ m \in Modes
    /\ mode' = m
    /\ UNCHANGED <<added, state, quota, live>>

-----------------------------------------------------------------------------
(* The watcher, and time.                                                  *)

\* A line of agy's log that Classify maps to reason; quiet only reports.
LogLine(reason, quiet) ==
    /\ state.active # NoAccount
    /\ \E st \in Failed(state, state.active, reason) :
          IF quiet THEN state' = st /\ UNCHANGED live ELSE PickOther(st, quota)
    /\ UNCHANGED <<added, mode, quota>>

\* GetAccount(active_email) finds a file.
ActiveStored == state.active # NoAccount /\ Listed(added) \cap SameFile({state.active}) # {}

\* A slip: the account chosen by the scores read before the poll.
PollStale(score, low) ==
    /\ ActiveStored
    /\ score <= Threshold => low
    /\ quota' = [quota EXCEPT ![state.active] = score]
    /\ IF low THEN PickOther(state, quota) ELSE UNCHANGED <<state, live>>
    /\ UNCHANGED <<added, mode>>

\* One round of the quota poller; low when some group is at the threshold,
\* which a mean at the threshold implies.
Poll(score, low) ==
    /\ ActiveStored
    /\ score <= Threshold => low
    /\ quota' = [quota EXCEPT ![state.active] = score]
    /\ IF low THEN PickOther(state, quota') ELSE UNCHANGED <<state, live>>
    /\ UNCHANGED <<added, mode>>

Tick ==
    /\ \E a \in Account : state.cool[a] > 0
    /\ state' = Aged(state)
    /\ UNCHANGED <<added, mode, quota, live>>

-----------------------------------------------------------------------------
\* doctor and quota take every listed account, or the one named by -email.
Targets == {Listed(added)} \cup {{a} : a \in Listed(added)}

Command ==
    \/ \E a \in Account : Add(a) \/ Use(a) \/ Remove(a)
    \/ Rotate
    \/ \E p \in Backups, replace \in BOOLEAN : Import(p, replace)
    \/ \E checked \in Targets : \E ok, dead \in SUBSET checked, fix \in BOOLEAN :
          ok \cap dead = {} /\ Doctor(checked, ok, dead, fix)
    \/ \E asked \in Targets : \E q \in [asked -> Score] : Quota(asked, q)
    \/ \E m \in Words : SetMode(m)

Watch ==
    \/ \E reason \in Reasons, quiet \in BOOLEAN : LogLine(reason, quiet)
    \/ \E score \in Score, low \in BOOLEAN : Poll(score, low)

Next == Command \/ Watch \/ Tick

Spec == Init /\ [][Next]_vars

-----------------------------------------------------------------------------
(* Properties.                                                             *)

\* The live credentials are those of the account the state calls active:
\* Activate writes two files, and every command that changes one of them has
\* to keep the other in step.
LiveIsActive == state.active # NoAccount => live = state.active

\* What the comment of PickNext promises of an account it returns.
Promised(a) ==
    /\ a \in Eligible(added, state)
    /\ Healthy(added, state) # {} => a \in Healthy(added, state)
    /\ \A b \in Eligible(added, state) : state.cool[a] <= state.cool[b]

\* Rotating outside sticky mode activates an account that is not revoked,
\* healthy if one is, and otherwise the one whose cooldown ends first.
RotateKeepsPromise ==
    [][mode # "sticky" /\ Rotate => Promised(state'.active)]_vars

\* Handling a failure of the active account leaves it for a healthy account
\* when there is another one, whatever was reported.
FailoverLeavesFailed ==
    [][\A reason \in Reasons :
          /\ mode # "sticky"
          /\ Healthy(added, state) \ {state.active} # {}
          /\ LogLine(reason, FALSE)
          => state'.active \in Healthy(added, state) \ {state.active}]_vars

\* A revoked account that keeps its file becomes eligible again only when
\* doctor refreshes its token: switching, importing or re-adding is no proof.
RevokedUntilRefreshed ==
    [][\A a \in Listed(added) :
          /\ state.revoked[a]
          /\ ~state'.revoked[a]
          /\ a \in Listed(added')
          => \E checked \in Targets : \E ok, dead \in SUBSET checked, fix \in BOOLEAN :
                a \in ok /\ Doctor(checked, ok, dead, fix)]_vars

\* Only two commands take the file of the active account away and leave
\* active_email naming it: an import that replaces the file, and a remove that
\* spells the address otherwise than active_email does.
ActiveKeepsFile ==
    [][/\ state.active \in Listed(added)
       /\ state'.active \notin Listed(added') \cup {NoAccount}
       => \/ \E p \in Backups, replace \in BOOLEAN :
                /\ Import(p, replace)
                /\ state.active \notin DOMAIN p
                /\ replace \/ state.active \in SameFile(DOMAIN p)
          \/ \E e \in SameFile({state.active}) \ {state.active} : Remove(e)]_vars

\* A removed account is not the active one any more.
RemoveForgets ==
    [][\A e \in Account : Remove(e) => state'.active \notin SameFile({e})]_vars

\* In smart mode a rotation activates no healthy account while another healthy
\* one has more quota left in the cache, also when the poll that rotates has
\* just changed the cache.
RichestWins ==
    [][/\ mode = "smart"
       /\ state.active # state'.active
       /\ Rotate \/ \E score \in Score : Poll(score, TRUE)
       => \A a \in Healthy(added, state) :
             quota'[a] <= quota'[state'.active]]_vars

\* In sticky mode a rotation keeps a healthy active account.
StickyKeepsActive ==
    [][/\ StaysSticky(added, state, mode)
       /\ Rotate
       => state'.active = state.active]_vars

\* The same, for a vault without a revoked account.
StickyKeepsActiveIfNoneRevoked ==
    [][/\ StaysSticky(added, state, mode)
       /\ Eligible(added, state) = Listed(added)
       /\ Rotate
       => state'.active = state.active]_vars

\* A failure of the active account takes it one rung up the cooldown ladder,
\* also when handling the failure switches to another account.
FailureClimbsLadder ==
    [][\A reason \in Reasons, quiet \in BOOLEAN :
          LogLine(reason, quiet)
          => state'.failures[state.active] = Struck(state, state.active)]_vars

\* An account whose token doctor just refreshed is not revoked any more.
DoctorClearsRevoked ==
    [][\A checked \in Targets : \A ok, dead \in SUBSET checked, fix \in BOOLEAN :
          /\ ok \cap dead = {}
          /\ Doctor(checked, ok, dead, fix)
          => \A a \in ok : ~state'.revoked[a]]_vars
=============================================================================
