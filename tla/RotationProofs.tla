--------------------------- MODULE RotationProofs ---------------------------
(***************************************************************************)
(* Rotation, for every set of accounts, ladder, backup and bound: its type *)
(* invariant, the agreement of the two files a switch writes, and the      *)
(* promises of rotation, of failover and about revoked accounts.  At the   *)
(* end, that round robin starves no account.                               *)
(***************************************************************************)
EXTENDS RotationTurns, SelectionProofs

\* The first account of a backup is one of its accounts.
LEMMA FirstOfBackup ==
    ASSUME NEW p, DOMAIN p \subseteq Account, DOMAIN p # {}, p \in [DOMAIN p -> Stamp]
    PROVE  At(p, DOMAIN p, 0) \in Account
<1> DEFINE D == DOMAIN p
           whole == [a \in Account |-> IF a \in D THEN p[a] ELSE 0]
<1>1. whole \in [Account -> Nat]
  BY DEF Stamp
<1>2. 0 < Cardinality(D)
  BY ListFinite, FS_EmptySet
<1>3. PICK a \in D : Index(whole, D, a) = 0
  BY <1>1, <1>2, IndexOnto
<1>4. {b \in D : Before(whole, b, a)} = {b \in D : Before(p, b, a)}
  BY DEF Before
<1>5. Index(p, D, a) = 0
  BY <1>3, <1>4 DEF Index
<1> QED
  BY <1>3, <1>5 DEF At

\* Whichever address the user gives, use activates an account of the vault.
LEMMA UseActivates ==
    ASSUME NEW e, Use(e)
    PROVE  /\ \E a \in Listed(added) : a \in Account /\ state' = Activated(state, a) /\ live' = a
           /\ UNCHANGED <<added, mode, quota>>
BY DEF Use, Activate, Listed

-----------------------------------------------------------------------------
(* Type correctness.                                                       *)

\* Where PickOther leaves the two files.
LEMMA PickOtherType ==
    ASSUME TypeOK, NEW st \in StateFile, NEW q \in [Account -> Score], PickOther(st, q)
    PROVE  /\ state' \in StateFile
           /\ state'.revoked = st.revoked
           /\ \/ state'.active = st.active /\ live' = live
              \/ state'.active = live' /\ live' \in Account
<1>1. added \in [Account -> Nat] /\ mode \in Modes
  BY BoundAssumption DEF TypeOK, Stamp
<1>2. CASE Eligible(added, st) = {}
  BY <1>2 DEF PickOther
<1>3. CASE Eligible(added, st) # {}
  <2> DEFINE p == Pick(added, st, mode, q)
             b == Bumped(added, st, mode)
  <2>1. p \in Account
    BY <1>1, <1>3, PickInVault, EligibleFinite
  <2>2. b \in StateFile /\ b.active = st.active /\ b.revoked = st.revoked
    BY <1>1, BumpedType
  <2>3. CASE p = st.active
    <3>1. state' = b /\ live' = live
      BY <1>3, <2>3 DEF PickOther
    <3> QED
      BY <2>2, <3>1
  <2>4. CASE p # st.active
    <3>1. state' = Activated(b, p) /\ live' = p
      BY <1>3, <2>4 DEF PickOther, Activate
    <3> QED
      BY <2>1, <2>2, <3>1, ActivatedType
  <2> QED
    BY <2>3, <2>4
<1> QED
  BY <1>2, <1>3

\* Every file holds a value of its type, after any sequence of commands, log
\* lines and polls.
THEOREM TypeCorrect == Spec => []TypeOK
<1>1. Init => TypeOK
  BY EmptyStateType, ScoreAssumption DEF Init, TypeOK
<1>2. TypeOK /\ [Next]_vars => TypeOK'
  <2> SUFFICES ASSUME TypeOK, [Next]_vars
               PROVE  TypeOK'
    OBVIOUS
  <2> USE DEF TypeOK
  <2>0. added \in [Account -> Nat]
    BY BoundAssumption DEF Stamp
  <2>1. ASSUME NEW a \in Account, Add(a)
        PROVE  TypeOK'
    BY <2>1, ActivatedType DEF Add, Activate
  <2>2. ASSUME NEW a \in Account, Use(a)
        PROVE  TypeOK'
    BY <2>2, UseActivates, ActivatedType
  <2>3. ASSUME NEW a \in Account, Remove(a)
        PROVE  TypeOK'
    BY <2>3, ForgottenType DEF Remove
  <2>4. CASE Rotate
    <3> DEFINE p == Pick(added, state, mode, quota)
    <3>1. p \in Account
      BY <2>0, <2>4, PickInVault, EligibleFinite DEF Rotate
    <3>2. state' = Activated(Bumped(added, state, mode), p) /\ live' = p
      BY <2>4 DEF Rotate, Activate
    <3>3. state' \in StateFile
      BY <2>0, <3>1, <3>2, BumpedType, ActivatedType
    <3> QED
      BY <2>4, <3>1, <3>2, <3>3 DEF Rotate
  <2>5. ASSUME NEW p \in Backups, NEW replace \in BOOLEAN, Import(p, replace)
        PROVE  TypeOK'
    <3>1. DOMAIN p \subseteq Account /\ DOMAIN p # {} /\ p \in [DOMAIN p -> Stamp]
      BY BackupAssumption
    <3>2. added' \in [Account -> {0} \cup Stamp]
      BY <2>5, <3>1 DEF Import
    <3>3. At(p, DOMAIN p, 0) \in Account
      BY <3>1, FirstOfBackup
    <3>4. state' \in StateFile /\ live' \in Account \cup {NoAccount}
      BY <2>5, <3>3, ActivatedType DEF Import, Activate
    <3> QED
      BY <2>5, <3>2, <3>4 DEF Import
  <2>6. ASSUME NEW checked, NEW ok, NEW dead, NEW fix, Doctor(checked, ok, dead, fix)
        PROVE  TypeOK'
    BY <2>6, ForgottenType, ClearedType DEF Doctor
  <2>7. ASSUME NEW asked, NEW q \in [asked -> Score], Quota(asked, q)
        PROVE  TypeOK'
    BY <2>7 DEF Quota
  <2>8. ASSUME NEW m, SetMode(m)
        PROVE  TypeOK'
    BY <2>8 DEF SetMode
  <2>9. ASSUME NEW reason \in Reasons, NEW quiet \in BOOLEAN, LogLine(reason, quiet)
        PROVE  TypeOK'
    <3>1. PICK st \in Failed(state, state.active, reason) :
             IF quiet THEN state' = st /\ UNCHANGED live ELSE PickOther(st, quota)
      BY <2>9 DEF LogLine
    <3>2. state.active \in Account
      BY <2>9, StateFields DEF LogLine
    <3>3. st \in StateFile
      BY <3>2, FailedType
    <3>4. state' \in StateFile /\ live' \in Account \cup {NoAccount}
      BY <3>1, <3>3, PickOtherType
    <3> QED
      BY <2>9, <3>4 DEF LogLine
  <2>10. ASSUME NEW score \in Score, NEW low \in BOOLEAN, Poll(score, low)
         PROVE  TypeOK'
    <3>1. quota' \in [Account -> Score]
      BY <2>10 DEF Poll
    <3>2. state' \in StateFile /\ live' \in Account \cup {NoAccount}
      BY <2>10, <3>1, PickOtherType DEF Poll
    <3> QED
      BY <2>10, <3>1, <3>2 DEF Poll
  <2>11. CASE Tick
    BY <2>11, AgedType DEF Tick
  <2>12. CASE UNCHANGED vars
    BY <2>12 DEF vars
  <2> QED
    BY <2>1, <2>2, <2>3, <2>4, <2>5, <2>6, <2>7, <2>8, <2>9, <2>10, <2>11, <2>12
    DEF Next, Command, Watch
<1> QED
  BY <1>1, <1>2, PTL DEF Spec
-----------------------------------------------------------------------------
(* The two files a switch writes agree.                                    *)

\* The token file holds the credentials of the account state.json names, after
\* any sequence of commands, log lines and polls.
THEOREM LiveAgrees == Spec => []LiveIsActive
<1>1. Init => LiveIsActive
  BY DEF Init, EmptyState, LiveIsActive
<1>2. TypeOK /\ LiveIsActive /\ [Next]_vars => LiveIsActive'
  <2> SUFFICES ASSUME TypeOK, LiveIsActive, [Next]_vars
               PROVE  LiveIsActive'
    OBVIOUS
  <2> USE DEF LiveIsActive
  <2>0. state \in StateFile /\ quota \in [Account -> Score]
        /\ added \in [Account -> Nat] /\ mode \in Modes
    BY BoundAssumption DEF TypeOK, Stamp
  <2>1. ASSUME NEW a \in Account, Add(a) \/ Use(a)
        PROVE  LiveIsActive'
    <3>1. \E b \in Account : state' = Activated(state, b) /\ live' = b
      BY <2>1, UseActivates DEF Add, Activate
    <3> QED
      BY <2>0, <3>1, ActivatedType
  <2>2. ASSUME NEW a \in Account, Remove(a)
        PROVE  LiveIsActive'
    BY <2>0, <2>2, ForgottenType DEF Remove
  <2>3. CASE Rotate
    <3> DEFINE p == Pick(added, state, mode, quota)
    <3>1. p \in Account
      BY <2>0, <2>3, PickInVault, EligibleFinite DEF Rotate
    <3> QED
      BY <2>0, <2>3, <3>1, BumpedType, ActivatedType DEF Rotate, Activate
  <2>4. ASSUME NEW p \in Backups, NEW replace \in BOOLEAN, Import(p, replace)
        PROVE  LiveIsActive'
    <3>1. At(p, DOMAIN p, 0) \in Account
      BY BackupAssumption, FirstOfBackup
    <3> QED
      BY <2>0, <2>4, <3>1, ActivatedType DEF Import, Activate
  <2>5. ASSUME NEW checked, NEW ok, NEW dead, NEW fix, Doctor(checked, ok, dead, fix)
        PROVE  LiveIsActive'
    <3>1. PICK S, T : state' = Cleared(Forgotten(state, S), T) /\ live' = live
      BY <2>5 DEF Doctor
    <3>2. Forgotten(state, S) \in StateFile
          /\ Forgotten(state, S).active \in {state.active, NoAccount}
      BY <2>0, ForgottenType
    <3>3. state'.active = Forgotten(state, S).active
      BY <3>1, <3>2, ClearedType
    <3> QED
      BY <3>1, <3>2, <3>3
  <2>6. ASSUME NEW asked, NEW q, Quota(asked, q)
        PROVE  LiveIsActive'
    BY <2>6 DEF Quota
  <2>7. ASSUME NEW m, SetMode(m)
        PROVE  LiveIsActive'
    BY <2>7 DEF SetMode
  <2>8. ASSUME NEW reason \in Reasons, NEW quiet \in BOOLEAN, LogLine(reason, quiet)
        PROVE  LiveIsActive'
    <3>1. PICK st \in Failed(state, state.active, reason) :
             IF quiet THEN state' = st /\ UNCHANGED live ELSE PickOther(st, quota)
      BY <2>8 DEF LogLine
    <3>2. state.active \in Account
      BY <2>0, <2>8, StateFields DEF LogLine
    <3>3. st \in StateFile /\ st.active = state.active
      BY <2>0, <3>2, FailedType
    <3> QED
      BY <2>0, <3>1, <3>3, PickOtherType
  <2>9. ASSUME NEW score \in Score, NEW low \in BOOLEAN, Poll(score, low)
        PROVE  LiveIsActive'
    <3>1. quota' \in [Account -> Score]
      BY <2>0, <2>9 DEF Poll
    <3> QED
      BY <2>0, <2>9, <3>1, PickOtherType DEF Poll
  <2>10. CASE Tick
    BY <2>0, <2>10, AgedType DEF Tick
  <2>11. CASE UNCHANGED vars
    BY <2>11 DEF vars
  <2> QED
    BY <2>1, <2>2, <2>3, <2>4, <2>5, <2>6, <2>7, <2>8, <2>9, <2>10, <2>11
    DEF Next, Command, Watch
<1> QED
  BY <1>1, <1>2, TypeCorrect, PTL DEF Spec

-----------------------------------------------------------------------------
(* What a switch may choose.                                               *)

\* A rotation outside sticky mode keeps the promise of PickNext's comment.
THEOREM RotationPromise == Spec => RotateKeepsPromise
<1>1. TypeOK /\ [Next]_vars => [mode # "sticky" /\ Rotate => Promised(state'.active)]_vars
  <2> SUFFICES ASSUME TypeOK, mode # "sticky", Rotate
               PROVE  Promised(state'.active)
    OBVIOUS
  <2>0. state \in StateFile /\ quota \in [Account -> Score]
        /\ added \in [Account -> Nat] /\ mode \in Modes /\ Eligible(added, state) # {}
    BY BoundAssumption DEF TypeOK, Stamp, Rotate
  <2> DEFINE p == Pick(added, state, mode, quota)
  <2>1. /\ p \in Eligible(added, state)
        /\ Healthy(added, state) # {} => p \in Healthy(added, state)
        /\ \A b \in Eligible(added, state) : state.cool[p] <= state.cool[b]
    BY <2>0, PickPromised
  <2>2. state'.active = p
    <3>1. p \in Account /\ Bumped(added, state, mode) \in StateFile
      BY <2>0, <2>1, EligibleFinite, BumpedType
    <3> QED
      BY <3>1, ActivatedType DEF Rotate, Activate
  <2> QED
    BY <2>1, <2>2 DEF Promised
<1> QED
  BY <1>1, TypeCorrect, PTL DEF Spec, RotateKeepsPromise

\* Handling a failure moves to a healthy account whenever another one exists.
THEOREM Failover == Spec => FailoverLeavesFailed
<1> DEFINE Leaves == \A reason \in Reasons :
               /\ mode # "sticky"
               /\ Healthy(added, state) \ {state.active} # {}
               /\ LogLine(reason, FALSE)
               => state'.active \in Healthy(added, state) \ {state.active}
<1>1. TypeOK /\ [Next]_vars => [Leaves]_vars
  <2> SUFFICES ASSUME TypeOK, NEW reason \in Reasons, mode # "sticky",
                      Healthy(added, state) \ {state.active} # {},
                      LogLine(reason, FALSE)
               PROVE  state'.active \in Healthy(added, state) \ {state.active}
    OBVIOUS
  <2> DEFINE a == state.active
  <2>0. state \in StateFile /\ quota \in [Account -> Score]
        /\ added \in [Account -> Nat] /\ mode \in Modes
    BY BoundAssumption DEF TypeOK, Stamp
  <2>1. PICK st \in Failed(state, a, reason) : PickOther(st, quota)
    BY DEF LogLine
  <2>2. a \in Account
    BY <2>0, StateFields DEF LogLine
  <2>3. /\ st \in StateFile /\ st.active = a
        /\ \A b \in Account \ {a} : st.revoked[b] = state.revoked[b] /\ st.cool[b] = state.cool[b]
        /\ st.revoked[a] \/ st.cool[a] > 0
    BY <2>0, <2>1, <2>2, FailedType
  <2>4. Healthy(added, st) = Healthy(added, state) \ {a}
    BY <2>2, <2>3 DEF Healthy, Eligible, Listed
  <2> DEFINE p == Pick(added, st, mode, quota)
  <2>5. Eligible(added, st) # {} /\ Healthy(added, st) # {}
    BY <2>4, EligibleFinite
  <2>6. p \in Healthy(added, st)
    BY <2>0, <2>3, <2>5, PickPromised
  <2>7. state' = Activated(Bumped(added, st, mode), p)
    BY <2>1, <2>3, <2>4, <2>5, <2>6 DEF PickOther, Activate
  <2>8. state'.active = p
    <3>1. p \in Account /\ Bumped(added, st, mode) \in StateFile
      BY <2>0, <2>3, <2>6, EligibleFinite, BumpedType
    <3> QED
      BY <2>7, <3>1, ActivatedType
  <2> QED
    BY <2>4, <2>6, <2>8
<1> QED
  BY <1>1, TypeCorrect, PTL DEF Spec, FailoverLeavesFailed
\* A revoked account that stays in the vault stays out of the rotation until
\* doctor refreshes its token.
THEOREM RevokedStays == Spec => RevokedUntilRefreshed
<1> DEFINE Refreshed(a) ==
        \E checked \in Targets : \E ok, dead \in SUBSET checked, fix \in BOOLEAN :
            a \in ok /\ Doctor(checked, ok, dead, fix)
           Keeps == \A a \in Listed(added) :
               /\ state.revoked[a]
               /\ ~state'.revoked[a]
               /\ a \in Listed(added')
               => Refreshed(a)
<1>1. TypeOK /\ [Next]_vars => [Keeps]_vars
  <2> SUFFICES ASSUME TypeOK, Next, NEW a \in Listed(added),
                      state.revoked[a], ~state'.revoked[a], a \in Listed(added')
               PROVE  Refreshed(a)
    OBVIOUS
  <2> HIDE DEF Refreshed
  <2>0. state \in StateFile /\ quota \in [Account -> Score]
        /\ added \in [Account -> Nat] /\ mode \in Modes /\ a \in Account
    BY BoundAssumption DEF TypeOK, Stamp, Listed
  <2>1. ASSUME NEW b \in Account, Add(b) \/ Use(b)
        PROVE  FALSE
    <3>1. \E c \in Account : state' = Activated(state, c)
      BY <2>1, UseActivates DEF Add, Activate
    <3> QED
      BY <2>0, <3>1, ActivatedType
  <2>2. ASSUME NEW b \in Account, Remove(b)
        PROVE  FALSE
    <3>1. added'[b] = 0 /\ state' = Forgotten(state, {b})
      BY <2>2 DEF Remove, SameFile
    <3>2. a = b
      <4>1. state'.revoked = [c \in Account |-> c \notin {b} /\ state.revoked[c]]
        BY <2>0, <3>1, ForgottenType
      <4> QED
        BY <2>0, <4>1
    <3> QED
      BY <2>0, <3>1, <3>2 DEF Listed
  <2>3. CASE Rotate
    <3> DEFINE p == Pick(added, state, mode, quota)
    <3>1. p \in Account /\ Bumped(added, state, mode) \in StateFile
          /\ Bumped(added, state, mode).revoked = state.revoked
      BY <2>0, <2>3, PickInVault, EligibleFinite, BumpedType DEF Rotate
    <3>2. state'.revoked = state.revoked
      BY <2>3, <3>1, ActivatedType DEF Rotate, Activate
    <3> QED
      BY <3>2
  <2>4. ASSUME NEW p \in Backups, NEW replace \in BOOLEAN, Import(p, replace)
        PROVE  FALSE
    <3>1. At(p, DOMAIN p, 0) \in Account
      BY BackupAssumption, FirstOfBackup
    <3> QED
      BY <2>0, <2>4, <3>1, ActivatedType DEF Import, Activate
  <2>5. ASSUME NEW checked \in Targets, NEW ok \in SUBSET checked,
               NEW dead \in SUBSET checked, NEW fix \in BOOLEAN,
               Doctor(checked, ok, dead, fix)
        PROVE  Refreshed(a)
    <3> DEFINE pruned  == IF fix THEN dead ELSE {}
               lasting == {b \in ok : \A c \in pruned : Before(added, c, b)}
               base    == Forgotten(state, pruned)
    <3>1. state' = Cleared(base, lasting)
          /\ added' = [b \in Account |-> IF b \in pruned THEN 0 ELSE added[b]]
      BY <2>5 DEF Doctor
    <3>2. base \in StateFile /\ base.revoked = [b \in Account |-> b \notin pruned /\ state.revoked[b]]
      BY <2>0, ForgottenType
    <3>3. state'.revoked = [b \in Account |-> b \notin lasting /\ base.revoked[b]]
      BY <3>1, <3>2, ClearedType
    <3>4. a \notin pruned
      BY <2>0, <3>1 DEF Listed
    <3>5. a \in lasting
      BY <2>0, <3>2, <3>3, <3>4
    <3> QED
      BY <2>5, <3>5 DEF Refreshed
  <2>6. ASSUME NEW asked, NEW q, Quota(asked, q)
        PROVE  FALSE
    BY <2>6 DEF Quota
  <2>7. ASSUME NEW m, SetMode(m)
        PROVE  FALSE
    BY <2>7 DEF SetMode
  <2>8. ASSUME NEW reason \in Reasons, NEW quiet \in BOOLEAN, LogLine(reason, quiet)
        PROVE  FALSE
    <3>1. PICK st \in Failed(state, state.active, reason) :
             IF quiet THEN state' = st /\ UNCHANGED live ELSE PickOther(st, quota)
      BY <2>8 DEF LogLine
    <3>2. state.active \in Account
      BY <2>0, <2>8, StateFields DEF LogLine
    <3>3. st \in StateFile /\ st.revoked[a]
      BY <2>0, <3>2, FailedType
    <3> QED
      BY <2>0, <3>1, <3>3, PickOtherType
  <2>9. ASSUME NEW score \in Score, NEW low \in BOOLEAN, Poll(score, low)
        PROVE  FALSE
    <3>1. quota' \in [Account -> Score]
      BY <2>0, <2>9 DEF Poll
    <3> QED
      BY <2>0, <2>9, <3>1, PickOtherType DEF Poll
  <2>10. CASE Tick
    BY <2>0, <2>10, AgedType DEF Tick
  <2> QED
    BY <2>1, <2>2, <2>3, <2>4, <2>5, <2>6, <2>7, <2>8, <2>9, <2>10
    DEF Next, Command, Watch
<1> QED
  BY <1>1, TypeCorrect, PTL DEF Spec, RevokedUntilRefreshed
\* In smart mode the choice is the richest healthy account.
LEMMA SmartChoice ==
    ASSUME NEW a \in [Account -> Nat], NEW st \in StateFile,
           NEW q \in [Account -> Score], Healthy(a, st) # {}
    PROVE  LET p == Pick(a, st, "smart", q)
           IN  /\ p \in Healthy(a, st)
               /\ \A b \in Healthy(a, st) : q[b] <= q[p]
<1>1. ~StaysSticky(a, st, "smart") /\ ~Scans(a, st, "smart")
  BY DEF StaysSticky, Scans
<1>2. Pick(a, st, "smart", q) = Richest(a, st, q)
  BY <1>1 DEF Pick
<1> QED
  BY <1>2, RichestChoice

\* In smart mode no healthy account has more quota left, by the newest cache,
\* than the one a rotation or a poll moves to.
THEOREM SmartWins == Spec => RichestWins
<1> DEFINE Wins == /\ mode = "smart"
                   /\ state.active # state'.active
                   /\ Rotate \/ \E score \in Score : Poll(score, TRUE)
                   => \A a \in Healthy(added, state) :
                         quota'[a] <= quota'[state'.active]
<1>1. TypeOK /\ [Next]_vars => [Wins]_vars
  <2> SUFFICES ASSUME TypeOK, mode = "smart", state.active # state'.active,
                      Rotate \/ \E score \in Score : Poll(score, TRUE),
                      NEW a \in Healthy(added, state)
               PROVE  quota'[a] <= quota'[state'.active]
    OBVIOUS
  <2>0. state \in StateFile /\ quota \in [Account -> Score]
        /\ added \in [Account -> Nat] /\ mode \in Modes
    BY BoundAssumption DEF TypeOK, Stamp
  <2>1. quota' \in [Account -> Score]
    BY <2>0 DEF Rotate, Poll
  <2> DEFINE p == Pick(added, state, "smart", quota')
  <2>2. p \in Healthy(added, state) /\ quota'[a] <= quota'[p]
    BY <2>0, <2>1, SmartChoice
  <2>3. state' = Activated(Bumped(added, state, mode), p)
    <3>1. CASE Rotate
      BY <3>1 DEF Rotate, Activate
    <3>2. ASSUME NEW score \in Score, Poll(score, TRUE)
          PROVE  state' = Activated(Bumped(added, state, mode), p)
      <4>1. PickOther(state, quota')
        BY <3>2 DEF Poll
      <4>2. Eligible(added, state) # {}
        BY EligibleFinite
      <4>3. p # state.active
        BY <2>0, <4>1, <4>2, BumpedType DEF PickOther
      <4> QED
        BY <4>1, <4>2, <4>3 DEF PickOther, Activate
    <3> QED
      BY <3>1, <3>2
  <2>4. state'.active = p
    <3>1. p \in Account /\ Bumped(added, state, mode) \in StateFile
      BY <2>0, <2>2, EligibleFinite, BumpedType
    <3> QED
      BY <2>3, <3>1, ActivatedType
  <2> QED
    BY <2>2, <2>4
<1> QED
  BY <1>1, TypeCorrect, PTL DEF Spec, RichestWins

\* In a vault without a revoked account a rotation in sticky mode keeps a
\* healthy active account: both lists are then the same, so that the index
\* into the wrong one does no harm.
THEOREM StickyStays == Spec => StickyKeepsActiveIfNoneRevoked
<1>1. TypeOK /\ [Next]_vars =>
        [/\ StaysSticky(added, state, mode)
         /\ Eligible(added, state) = Listed(added)
         /\ Rotate
         => state'.active = state.active]_vars
  <2> SUFFICES ASSUME TypeOK, StaysSticky(added, state, mode),
                      Eligible(added, state) = Listed(added), Rotate
               PROVE  state'.active = state.active
    OBVIOUS
  <2>0. state \in StateFile /\ added \in [Account -> Nat]
    BY BoundAssumption DEF TypeOK, Stamp
  <2> DEFINE a == state.active
             L == Listed(added)
  <2>1. a \in L /\ a \in Account /\ L \subseteq Account /\ Healthy(added, state) # {}
    BY EligibleFinite DEF StaysSticky
  <2>2. Pick(added, state, mode, quota) = At(added, L, Index(added, L, a))
    <3>1. ~Scans(added, state, mode)
      BY DEF Scans
    <3> QED
      BY <2>1, <3>1 DEF Pick, StickyChoice
  <2>3. \A b \in L : Index(added, L, b) = Index(added, L, a) => b = a
    BY <2>0, <2>1, IndexInjective
  <2>4. At(added, L, Index(added, L, a)) = a
    <3> DEFINE Here(b) == Index(added, L, b) = Index(added, L, a)
    <3>1. a \in L /\ Here(a)
      BY <2>1
    <3>2. (CHOOSE b \in L : Here(b)) \in L /\ Here(CHOOSE b \in L : Here(b))
      BY <3>1
    <3> QED
      BY <2>3, <3>2 DEF At
  <2>5. state' = Activated(Bumped(added, state, mode), a)
    BY <2>2, <2>4 DEF Rotate, Activate
  <2> QED
    BY <2>0, <2>1, <2>5, BumpedType, ActivatedType
<1> QED
  BY <1>1, TypeCorrect, PTL DEF Spec, StickyKeepsActiveIfNoneRevoked

\* Only an import that replaces the file of the active account, and a remove
\* that spells its address otherwise, leave active_email without a file.
THEOREM ActiveStays == Spec => ActiveKeepsFile
<1> DEFINE Replaces == \E p \in Backups, replace \in BOOLEAN :
               /\ Import(p, replace)
               /\ state.active \notin DOMAIN p
               /\ replace \/ state.active \in SameFile(DOMAIN p)
           Respelt == \E e \in SameFile({state.active}) \ {state.active} : Remove(e)
           Kept == state'.active \in Listed(added') \cup {NoAccount}
           Only == /\ state.active \in Listed(added)
                   /\ state'.active \notin Listed(added') \cup {NoAccount}
                   => Replaces \/ Respelt
<1>1. TypeOK /\ [Next]_vars => [Only]_vars
  <2> SUFFICES ASSUME TypeOK, Next, state.active \in Listed(added)
               PROVE  Kept \/ Replaces \/ Respelt
    OBVIOUS
  <2>0. state \in StateFile /\ quota \in [Account -> Score]
        /\ added \in [Account -> Nat] /\ mode \in Modes /\ state.active \in Account
        /\ added[state.active] > 0
    BY BoundAssumption DEF TypeOK, Stamp, Listed
  <2>K. ASSUME NEW st \in StateFile, NEW q \in [Account -> Score], PickOther(st, q),
               st.active = state.active, added' = added
        PROVE  Kept
    <3>1. CASE Eligible(added, st) = {}
      BY <3>1, <2>K DEF PickOther
    <3>2. CASE Eligible(added, st) # {}
      <4> DEFINE p == Pick(added, st, mode, q)
      <4>1. p \in Listed(added) /\ p \in Account
        BY <2>0, <2>K, <3>2, PickInVault, EligibleFinite
      <4>2. Bumped(added, st, mode) \in StateFile
            /\ Bumped(added, st, mode).active = state.active
        BY <2>0, <2>K, BumpedType
      <4>3. Activated(Bumped(added, st, mode), p).active = p
        BY <4>1, <4>2, ActivatedType
      <4> QED
        BY <2>K, <3>2, <4>1, <4>2, <4>3 DEF PickOther, Activate
    <3> QED
      BY <3>1, <3>2
  <2>1. ASSUME NEW a \in Account, Add(a)
        PROVE  Kept
    <3>1. state'.active = a
      BY <2>0, <2>1, ActivatedType DEF Add, Activate
    <3>2. a \in Listed(added')
      BY <2>0, <2>1, BoundAssumption DEF Add, Listed, Stamp
    <3> QED
      BY <3>1, <3>2
  <2>2. ASSUME NEW a \in Account, Use(a)
        PROVE  Kept
    BY <2>0, <2>2, UseActivates, ActivatedType
  <2>3. ASSUME NEW e \in Account, Remove(e)
        PROVE  Kept \/ Respelt
    <3>1. state'.active = IF state.active = e THEN NoAccount ELSE state.active
      BY <2>0, <2>3, ForgottenType DEF Remove
    <3>2. CASE state.active = e
      BY <3>1, <3>2
    <3>3. CASE state.active # e /\ e \in SameFile({state.active})
      BY <2>3, <3>3
    <3>4. CASE e \notin SameFile({state.active})
      <4>1. state.active \notin SameFile({e})
        BY <2>0, <3>4 DEF SameFile
      <4> QED
        BY <2>0, <2>3, <3>1, <4>1 DEF Remove, Listed
    <3> QED
      BY <3>2, <3>3, <3>4
  <2>4. CASE Rotate
    <3> DEFINE p == Pick(added, state, mode, quota)
    <3>1. p \in Listed(added) /\ p \in Account /\ Bumped(added, state, mode) \in StateFile
      BY <2>0, <2>4, PickInVault, EligibleFinite, BumpedType DEF Rotate
    <3>2. state'.active = p /\ added' = added
      BY <2>4, <3>1, ActivatedType DEF Rotate, Activate
    <3> QED
      BY <3>1, <3>2
  <2>5. ASSUME NEW p \in Backups, NEW replace \in BOOLEAN, Import(p, replace)
        PROVE  Kept \/ Replaces
    <3> DEFINE a == state.active
    <3>0. state' = state
      BY <2>0, <2>5, AccountAssumption DEF Import, NoAccount
    <3>1. CASE a \notin DOMAIN p /\ (replace \/ a \in SameFile(DOMAIN p))
      BY <2>5, <3>1
    <3>2. CASE a \in DOMAIN p \/ ~(replace \/ a \in SameFile(DOMAIN p))
      <4>2. added'[a] > 0
        BY <2>0, <2>5, <3>2, BackupAssumption DEF Import, Stamp
      <4> QED
        BY <2>0, <3>0, <4>2 DEF Listed
    <3> QED
      BY <3>1, <3>2
  <2>6. ASSUME NEW checked, NEW ok, NEW dead, NEW fix, Doctor(checked, ok, dead, fix)
        PROVE  Kept
    <3>1. PICK S, T : /\ state' = Cleared(Forgotten(state, S), T)
                      /\ added' = [a \in Account |-> IF a \in S THEN 0 ELSE added[a]]
      BY <2>6 DEF Doctor
    <3>2. /\ Forgotten(state, S) \in StateFile
          /\ Forgotten(state, S).active = IF state.active \in S THEN NoAccount ELSE state.active
      BY <2>0, ForgottenType
    <3>3. state'.active = IF state.active \in S THEN NoAccount ELSE state.active
      BY <3>1, <3>2, ClearedType
    <3> QED
      BY <2>0, <3>1, <3>3 DEF Listed
  <2>7. ASSUME NEW asked, NEW q, Quota(asked, q)
        PROVE  Kept
    BY <2>0, <2>7 DEF Quota
  <2>8. ASSUME NEW m, SetMode(m)
        PROVE  Kept
    BY <2>0, <2>8 DEF SetMode
  <2>9. ASSUME NEW reason \in Reasons, NEW quiet \in BOOLEAN, LogLine(reason, quiet)
        PROVE  Kept
    <3>1. PICK st \in Failed(state, state.active, reason) :
             IF quiet THEN state' = st /\ UNCHANGED live ELSE PickOther(st, quota)
      BY <2>9 DEF LogLine
    <3>2. st \in StateFile /\ st.active = state.active
      BY <2>0, FailedType
    <3>3. added' = added
      BY <2>9 DEF LogLine
    <3>4. CASE quiet
      BY <3>1, <3>2, <3>3, <3>4
    <3>5. CASE ~quiet
      BY <2>0, <2>K, <3>1, <3>2, <3>3, <3>5
    <3> QED
      BY <3>4, <3>5
  <2>10. ASSUME NEW score \in Score, NEW low \in BOOLEAN, Poll(score, low)
         PROVE  Kept
    <3>1. quota' \in [Account -> Score] /\ added' = added
      BY <2>0, <2>10 DEF Poll
    <3>2. CASE low
      BY <2>0, <2>10, <2>K, <3>1, <3>2 DEF Poll
    <3>3. CASE ~low
      BY <2>10, <3>1, <3>3 DEF Poll
    <3> QED
      BY <3>2, <3>3
  <2>11. CASE Tick
    BY <2>0, <2>11, AgedType DEF Tick
  <2> HIDE DEF Kept, Replaces, Respelt
  <2> QED
    BY <2>1, <2>2, <2>3, <2>4, <2>5, <2>6, <2>7, <2>8, <2>9, <2>10, <2>11
    DEF Next, Command, Watch
<1> QED
  BY <1>1, TypeCorrect, PTL DEF Spec, ActiveKeepsFile

-----------------------------------------------------------------------------
(* Round robin starves no account, for every vault and every sequence of   *)
(* commands, failures and polls.                                           *)

\* The distance to an account depends on the list and the cursor alone.
LEMMA GapSame ==
    ASSUME NEW st, NEW t, t.revoked = st.revoked, t.rr = st.rr, NEW a
    PROVE  Gap(added, t, a) = Gap(added, st, a)
BY DEF Gap, Eligible

\* When PickNext moves the cursor and activates what it chose, the cursor comes
\* closer to every other account that is healthy.
LEMMA SwitchShrinks ==
    ASSUME NEW st \in StateFile, NEW p \in Account, NEW t, NEW a \in Healthy(added, t),
           added \in [Account -> Nat], Scans(added, st, mode),
           p = FirstFromCursor(added, st), a # p,
           t = Bumped(added, st, mode) \/ t = Activated(Bumped(added, st, mode), p)
    PROVE  Gap(added, t, a) < Gap(added, st, a)
<1> DEFINE b == Bumped(added, st, mode)
<1>1. b \in StateFile /\ b.revoked = st.revoked /\ b.cool = st.cool
  BY BumpedType
<1>2. t \in StateFile /\ t.rr = b.rr /\ t.revoked = st.revoked
  BY <1>1, ActivatedType
<1>3. a \in Account /\ t.cool[a] = 0
  BY EligibleFinite DEF Healthy
<1>4. st.cool[a] = 0
  <2>1. CASE t = b
    BY <1>1, <1>3, <2>1
  <2>2. CASE t = Activated(b, p)
    <3>1. t.cool[a] = b.cool[a]
      BY <1>1, <1>3, <2>2, ActivatedCool
    <3> QED
      BY <1>1, <1>3, <3>1
  <2> QED
    BY <2>1, <2>2
<1>5. a \in Healthy(added, st)
  BY <1>2, <1>4 DEF Healthy, Eligible
<1> QED
  BY <1>2, <1>5, GapShrinks

\* The choice of a scan.
LEMMA ScanChoice ==
    ASSUME NEW st, NEW m, NEW q, Scans(added, st, m)
    PROVE  Pick(added, st, m, q) = FirstFromCursor(added, st)
BY DEF Pick, Scans

\* A failover or preemption that moves the cursor brings it closer to the others.
LEMMA PickOtherShrinks ==
    ASSUME TypeOK, NEW st \in StateFile, NEW q \in [Account -> Score], PickOther(st, q),
           state'.rr # st.rr, NEW a \in Healthy(added, state'), state'.active # a
    PROVE  Gap(added, state', a) < Gap(added, st, a)
<1> DEFINE p == Pick(added, st, mode, q)
           b == Bumped(added, st, mode)
<1>1. added \in [Account -> Nat] /\ mode \in Modes
  BY BoundAssumption DEF TypeOK, Stamp
<1>2. Eligible(added, st) # {}
  BY DEF PickOther
<1>3. p \in Account
  BY <1>1, <1>2, PickInVault, EligibleFinite
<1>4. b \in StateFile /\ b.active = st.active /\ (~Scans(added, st, mode) => b = st)
  BY <1>1, BumpedType
<1>5. \/ state' = b /\ p = st.active
      \/ state' = Activated(b, p)
  BY <1>2 DEF PickOther, Activate
<1>6. state'.active = p /\ state'.rr = b.rr
  BY <1>3, <1>4, <1>5, ActivatedType
<1>7. Scans(added, st, mode)
  BY <1>4, <1>6
<1> QED
  BY <1>1, <1>3, <1>5, <1>6, <1>7, ScanChoice, SwitchShrinks

\* A turn over a standing list brings the cursor closer to every healthy
\* account that is not activated.
LEMMA CursorApproaches ==
    ASSUME TypeOK, Next, Turn, NEW a \in Account, Waits(a),
           a \in Healthy(added', state')
    PROVE  Gap(added', state', a) < Gap(added, state, a)
<1>0. /\ state \in StateFile /\ quota \in [Account -> Score]
      /\ added \in [Account -> Nat] /\ mode \in Modes
      /\ added' = added /\ state'.revoked = state.revoked /\ state'.active # a
  BY BoundAssumption DEF TypeOK, Stamp, Waits, SameList
<1>1. ASSUME NEW b \in Account, Add(b) \/ Use(b), state'.rr # state.rr
      PROVE  FALSE
  <2>1. \E c \in Account : state' = Activated(state, c)
    BY <1>1, UseActivates DEF Add, Activate
  <2> QED
    BY <1>0, <1>1, <2>1, ActivatedType
<1>2. ASSUME NEW b \in Account, Remove(b), state'.rr # state.rr
      PROVE  FALSE
  BY <1>0, <1>2, ForgottenType DEF Remove
<1>3. CASE Rotate
  <2> DEFINE p == Pick(added, state, mode, quota)
             b == Bumped(added, state, mode)
  <2>1. p \in Account
    BY <1>0, <1>3, PickInVault, EligibleFinite DEF Rotate
  <2>2. b \in StateFile /\ (~Scans(added, state, mode) => b = state)
    BY <1>0, BumpedType
  <2>3. state' = Activated(b, p)
    BY <1>3 DEF Rotate, Activate
  <2>4. state'.rr = b.rr /\ state'.active = p
    BY <2>1, <2>2, <2>3, ActivatedType
  <2>5. Scans(added, state, mode)
    BY <2>2, <2>4 DEF Turn
  <2> QED
    BY <1>0, <2>1, <2>3, <2>4, <2>5, ScanChoice, SwitchShrinks
<1>4. ASSUME NEW p \in Backups, NEW replace \in BOOLEAN, Import(p, replace), state'.rr # state.rr
      PROVE  FALSE
  <2>1. At(p, DOMAIN p, 0) \in Account
    BY BackupAssumption, FirstOfBackup
  <2> QED
    BY <1>0, <1>4, <2>1, ActivatedType DEF Import, Activate
<1>5. ASSUME NEW checked, NEW ok, NEW dead, NEW fix, Doctor(checked, ok, dead, fix), state'.rr # state.rr
      PROVE  FALSE
  <2>1. PICK S, T : state' = Cleared(Forgotten(state, S), T)
    BY <1>5 DEF Doctor
  <2>2. Forgotten(state, S) \in StateFile /\ Forgotten(state, S).rr = state.rr
    BY <1>0, ForgottenType
  <2>3. state'.rr = Forgotten(state, S).rr
    BY <2>1, <2>2, ClearedType
  <2> QED
    BY <1>5, <2>2, <2>3
<1>6. ASSUME NEW asked, NEW q, Quota(asked, q), state'.rr # state.rr
      PROVE  FALSE
  BY <1>6 DEF Quota
<1>7. ASSUME NEW m, SetMode(m), state'.rr # state.rr
      PROVE  FALSE
  BY <1>7 DEF SetMode
<1>8. ASSUME NEW reason \in Reasons, NEW quiet \in BOOLEAN, LogLine(reason, quiet), state'.rr # state.rr
      PROVE  Gap(added', state', a) < Gap(added, state, a)
  <2>1. PICK st \in Failed(state, state.active, reason) :
           IF quiet THEN state' = st /\ UNCHANGED live ELSE PickOther(st, quota)
    BY <1>8 DEF LogLine
  <2>2. state.active \in Account
    BY <1>0, <1>8, StateFields DEF LogLine
  <2>3. st \in StateFile /\ st.rr = state.rr
    BY <1>0, <2>2, FailedType
  <2>4. PickOther(st, quota)
    BY <1>8, <2>1, <2>3
  <2>5. state'.revoked = st.revoked
    BY <1>0, <2>3, <2>4, PickOtherType
  <2>6. Gap(added, state', a) < Gap(added, st, a)
    BY <1>0, <1>8, <2>3, <2>4, PickOtherShrinks
  <2>7. Gap(added, st, a) = Gap(added, state, a)
    BY <1>0, <2>3, <2>5, GapSame
  <2> QED
    BY <1>0, <2>6, <2>7
<1>9. ASSUME NEW score \in Score, NEW low \in BOOLEAN, Poll(score, low), state'.rr # state.rr
      PROVE  Gap(added', state', a) < Gap(added, state, a)
  <2>1. quota' \in [Account -> Score] /\ PickOther(state, quota')
    BY <1>0, <1>9 DEF Poll
  <2> QED
    BY <1>0, <1>9, <2>1, PickOtherShrinks
<1>10. ASSUME Tick, state'.rr # state.rr
       PROVE  FALSE
  BY <1>0, <1>10, AgedType DEF Tick
<1>11. state'.rr # state.rr \/ Rotate
  BY DEF Turn
<1> QED
  BY <1>1, <1>2, <1>3, <1>4, <1>5, <1>6, <1>7, <1>8, <1>9, <1>10, <1>11
  DEF Next, Command, Watch, Turn

\* The types of the history variable, and the bound that is inductive.
TurnsInv == turns \in [Account -> Nat] /\ WithinOneRound

\* Both bounds on waiting hold after any sequence of commands, failures, polls
\* and passing of time.
THEOREM FairRotation == TurnsSpec => [](WithinOneRound /\ NoStarvation)
<1>1. TurnsInit => TurnsInv
  <2> SUFFICES ASSUME TurnsInit, NEW a \in Healthy(added, state)
               PROVE  FALSE
    BY DEF TurnsInit, WithinOneRound, TurnsInv
  <2> QED
    BY DEF TurnsInit, Init, Healthy, Eligible, Listed
<1>2. TypeOK /\ TypeOK' /\ TurnsInv /\ [TurnsNext]_tvars
      => TurnsInv'
  <2>1. CASE UNCHANGED tvars
    BY <2>1 DEF tvars, TurnsInv, WithinOneRound
  <2>2. ASSUME TypeOK, TypeOK', TurnsInv, TurnsNext
        PROVE  TurnsInv'
    <3>1. turns' \in [Account -> Nat]
      BY <2>2 DEF TurnsNext, TurnsInv
    <3>2. ASSUME NEW a \in Healthy(added', state')
          PROVE  turns'[a] + Gap(added', state', a) < Cardinality(Eligible(added', state'))
      <4>0. /\ a \in Account /\ a \in Eligible(added', state')
            /\ added' \in [Account -> Nat] /\ state' \in StateFile
            /\ added \in [Account -> Nat] /\ state \in StateFile
        BY <2>2, BoundAssumption, EligibleFinite DEF TypeOK, Stamp
      <4> DEFINE n == Cardinality(Eligible(added', state'))
      <4>1. n \in Nat \ {0} /\ Gap(added', state', a) \in 0..(n - 1)
        BY <4>0, GapValue
      <4>2. CASE ~Waits(a)
        <5>1. turns'[a] = 0
          BY <2>2, <4>0, <4>2 DEF TurnsNext
        <5> QED
          BY <4>1, <5>1
      <4>3. CASE Waits(a)
        <5> DEFINE m == Cardinality(Eligible(added, state))
        <5>1. /\ Eligible(added, state) = Eligible(added', state') /\ n = m
              /\ a \in Healthy(added, state) /\ a \in Eligible(added, state)
              /\ added' = added /\ state'.revoked = state.revoked
          BY <4>3, EligibleFinite DEF Waits, SameList, Eligible
        <5>2. turns[a] + Gap(added, state, a) < m
          BY <2>2, <5>1 DEF TurnsInv, WithinOneRound
        <5>3. turns[a] \in Nat /\ Gap(added, state, a) \in Nat
          <6>1. m \in Nat \ {0} /\ Gap(added, state, a) \in 0..(m - 1)
            BY <4>0, <5>1, GapValue
          <6> QED
            BY <2>2, <4>0, <6>1 DEF TurnsInv
        <5>4. CASE ~Turn
          <6>1. turns'[a] = turns[a]
            BY <2>2, <4>0, <4>3, <5>4 DEF TurnsNext
          <6>2. Gap(added', state', a) = Gap(added, state, a)
            BY <5>1, <5>4, GapSame DEF Turn
          <6> QED
            BY <5>1, <5>2, <6>1, <6>2
        <5>5. CASE Turn
          <6>1. turns'[a] = turns[a] + 1
            BY <2>2, <4>0, <4>3, <5>5 DEF TurnsNext
          <6>2. Gap(added', state', a) < Gap(added, state, a)
            BY <2>2, <3>2, <4>0, <4>3, <5>5, CursorApproaches DEF TurnsNext
          <6>3. n \in Nat /\ n = m /\ Gap(added', state', a) \in Nat
            BY <4>1, <5>1
          <6>4. turns'[a] + Gap(added', state', a) < n
            <7> HIDE DEF n, m
            <7> QED
              BY <5>2, <5>3, <6>1, <6>2, <6>3
          <6> QED
            BY <6>4
        <5> QED
          BY <5>4, <5>5
      <4> QED
        BY <4>2, <4>3
    <3> QED
      BY <3>1, <3>2 DEF TurnsInv, WithinOneRound
  <2> QED
    BY <2>1, <2>2
<1>3. TypeOK /\ TurnsInv => NoStarvation
  <2> SUFFICES ASSUME TypeOK, TurnsInv,
                      NEW a \in Healthy(added, state)
               PROVE  turns[a] < Cardinality(Eligible(added, state))
    BY DEF NoStarvation
  <2> DEFINE n == Cardinality(Eligible(added, state))
  <2>1. a \in Eligible(added, state) /\ a \in Account
    BY EligibleFinite
  <2>2. added \in [Account -> Nat] /\ state \in StateFile
    BY BoundAssumption DEF TypeOK, Stamp
  <2>3. n \in Nat \ {0} /\ Gap(added, state, a) \in 0..(n - 1)
    BY <2>1, <2>2, GapValue
  <2>4. turns[a] + Gap(added, state, a) < n /\ turns[a] \in Nat
    BY <2>1 DEF TurnsInv, WithinOneRound
  <2> HIDE DEF n
  <2>5. turns[a] < n
    BY <2>3, <2>4
  <2> QED
    BY <2>5 DEF n
<1>4. TurnsSpec => Spec
  <2>1. TurnsInit => Init
    BY DEF TurnsInit
  <2>2. [TurnsNext]_tvars => [Next]_vars
    BY DEF TurnsNext, tvars, vars
  <2> QED
    BY <2>1, <2>2, PTL DEF TurnsSpec, Spec
<1>5. TurnsSpec => []TypeOK
  BY <1>4, TypeCorrect, PTL
<1>6. TurnsInv => WithinOneRound
  BY DEF TurnsInv
<1> QED
  BY <1>1, <1>2, <1>3, <1>5, <1>6, PTL DEF TurnsSpec

\* The bound that makes it so, as an invariant of its own.
THEOREM OneRound == TurnsSpec => []WithinOneRound
BY FairRotation, PTL
=============================================================================
