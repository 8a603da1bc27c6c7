---------------------------- MODULE RequestProofs ----------------------------
(***************************************************************************)
(* ProxyRequests, for every number of requests and launches, every vault   *)
(* and every mode, with kills and failing writes: types, no account        *)
(* punished without a 429, and no 429 counted twice.                       *)
(***************************************************************************)
EXTENDS ProxyRequests, SelectionProofs

\* A process has what its next step needs: the account to switch to, or the
\* account to report, which is one whose token got a 429.
Located ==
    \A p \in Proc :
        /\ pc[p] \in {"pickSave", "install", "note", "noteSave"} => next[p] \in Account
        /\ pc[p] \in {"strike", "strikeSave"} => email[p] \in Limited

\* The copies in memory will be saved: they punish nobody without a failure.
Innocent ==
    /\ Punished(state) \subseteq Limited
    /\ \A p \in Proc : Punished(mem[p]) \subseteq Limited

\* The processes that will still report account a.
Pending(a, step, mail) ==
    {p \in Proc : step[p] \in {"strike", "strikeSave"} /\ mail[p] = a}

\* What st counts, with the reports still to come, was answered by 429s.
Fits(st, step, mail, lim) ==
    \A a \in Account :
        lim[a] < MaxLimits
        => st.failures[a] + Cardinality(Pending(a, step, mail)) <= lim[a]

\* So it is for the file and for every copy that may be saved over it.
Balanced ==
    /\ Fits(state, pc, email, limits)
    /\ \A p \in Proc : Fits(mem[p], pc, email, limits)

Inv == TypeOK /\ Located /\ Innocent

-----------------------------------------------------------------------------
\* A program that never ran punishes nobody, whoever is active.
LEMMA EmptyPunished ==
    ASSUME NEW a
    PROVE  Punished([EmptyState EXCEPT !.active = a]) = {} /\ Punished(EmptyState) = {}
BY DEF Punished, EmptyState

\* Moving the cursor punishes nobody.
LEMMA BumpedPunished ==
    ASSUME NEW st \in StateFile
    PROVE  /\ Bumped(Added, st, Mode) \in StateFile
           /\ Punished(Bumped(Added, st, Mode)) = Punished(st)
<1>1. Bumped(Added, st, Mode).failures = st.failures
  BY StateFields DEF Bumped
<1> QED
  BY <1>1, BumpedType, FileAssumption DEF Punished

\* Activation punishes nobody.
LEMMA ActivatedPunished ==
    ASSUME NEW st \in StateFile, NEW a \in Account
    PROVE  Punished(Activated(st, a)) \subseteq Punished(st)
<1> SUFFICES ASSUME NEW b \in Punished(Activated(st, a))
             PROVE  b \in Punished(st)
  OBVIOUS
<1>1. b \in Account
  BY DEF Punished
<1>2. /\ Activated(st, a).failures[b] \in {0, st.failures[b]}
      /\ Activated(st, a).cool[b] \in {0, st.cool[b]}
      /\ Activated(st, a).revoked = st.revoked
  BY <1>1, StateFields DEF Activated
<1> QED
  BY <1>1, <1>2 DEF Punished

\* A report punishes the account it is about and no other.
LEMMA FailedPunished ==
    ASSUME NEW st \in StateFile, NEW a \in Account, NEW reason \in Reasons,
           NEW t \in Failed(st, a, reason)
    PROVE  Punished(t) \subseteq Punished(st) \cup {a}
<1> SUFFICES ASSUME NEW b \in Punished(t), b # a
             PROVE  b \in Punished(st)
  OBVIOUS
<1>1. b \in Account
  BY DEF Punished
<1>2. t.failures[b] = st.failures[b]
  <2> DEFINE f == [st.failures EXCEPT ![a] = Struck(st, a)]
  <2>1. t.failures = f
    <3>1. CASE reason = "revoked"
      <4>1. t = [st EXCEPT !.failures = f, !.revoked = [st.revoked EXCEPT ![a] = TRUE]]
        BY <3>1 DEF Failed
      <4> HIDE DEF f
      <4> QED
        BY <4>1, StateFields
    <3>2. CASE reason # "revoked"
      <4>1. PICK d \in Backoffs(reason, Struck(st, a)) :
               t = [st EXCEPT !.failures = f, !.cool = [st.cool EXCEPT ![a] = d]]
        BY <3>2 DEF Failed
      <4> HIDE DEF f
      <4> QED
        BY <4>1, StateFields
    <3> QED
      BY <3>1, <3>2
  <2> QED
    BY <1>1, <2>1, StateFields
<1>3. t.cool[b] = st.cool[b] /\ t.revoked[b] = st.revoked[b]
  BY <1>1, FailedType
<1> QED
  BY <1>1, <1>2, <1>3 DEF Punished

\* Time punishes nobody.
LEMMA AgedPunished ==
    ASSUME NEW st \in StateFile
    PROVE  Punished(Aged(st)) \subseteq Punished(st)
<1> SUFFICES ASSUME NEW b \in Punished(Aged(st))
             PROVE  b \in Punished(st)
  OBVIOUS
<1>1. b \in Account
  BY DEF Punished
<1>2. /\ Aged(st).failures = st.failures /\ Aged(st).revoked = st.revoked
      /\ Aged(st).cool[b] > 0 => st.cool[b] > 0
  BY <1>1, StateFields DEF Aged
<1> QED
  BY <1>1, <1>2 DEF Punished

-----------------------------------------------------------------------------
\* The invariant holds at the start ...
LEMMA InitInv == Init => Inv
<1> SUFFICES ASSUME Init
             PROVE  Inv
  OBVIOUS
<1>1. PICK a \in Listed(Added) \cup {NoAccount} :
         state = [EmptyState EXCEPT !.active = a] /\ live = a
  BY DEF Init
<1>2. a \in Account \cup {NoAccount}
  BY DEF Listed
<1>3. state \in StateFile
  BY <1>1, <1>2, EmptyStateType DEF StateFile
<1>4. TypeOK
  BY <1>1, <1>2, <1>3, EmptyStateType, RetryAssumption, LimitAssumption DEF Init, TypeOK, Steps
<1>5. Located
  BY DEF Init, Located, Limited
<1>6. Innocent
  BY <1>1, EmptyPunished DEF Init, Innocent
<1> QED
  BY <1>4, <1>5, <1>6 DEF Inv

\* ... and every step of a process, a kill and time keep it.
LEMMA NextInv == Inv /\ [Next]_vars => Inv'
<1> SUFFICES ASSUME Inv, [Next]_vars
             PROVE  Inv'
  OBVIOUS
<1> USE DEF Inv
<1>1. ASSUME NEW p \in Proc, Arrive(p) \/ Launch(p)
      PROVE  Inv'
  BY <1>1 DEF Arrive, Launch, Go, files, TypeOK, Steps, Located, Innocent, Limited
<1>2. ASSUME NEW p \in Proc, PickLoad(p)
      PROVE  Inv'
  <2>1. CASE Eligible(Added, state) = {}
    BY <1>2, <2>1 DEF PickLoad, Go, files, TypeOK, Steps, Located, Innocent, Limited
  <2>2. CASE Eligible(Added, state) # {}
    <3> DEFINE a == Pick(Added, state, Mode, Quota)
    <3>1. a \in Account
      BY <2>2, PickInVault, EligibleFinite, FileAssumption DEF TypeOK
    <3>2. /\ next' = [next EXCEPT ![p] = a]
          /\ \/ Loads(p, "pickSave")
             \/ Go(p, AfterPick(p, a)) /\ UNCHANGED mem
          /\ pc[p] = "pick"
          /\ UNCHANGED <<files, email, then, attempt, limits>>
      BY <1>2, <2>2 DEF PickLoad
    <3>3. AfterPick(p, a) \in {"load", "install"}
      BY DEF AfterPick
    <3> HIDE DEF a
    <3>4. CASE Loads(p, "pickSave")
      BY <3>1, <3>2, <3>4 DEF Loads, Go, files, TypeOK, Steps, Located, Innocent, Limited
    <3>5. CASE Go(p, AfterPick(p, a)) /\ UNCHANGED mem
      BY <3>1, <3>2, <3>3, <3>5 DEF Go, files, TypeOK, Steps, Located, Innocent, Limited
    <3> QED
      BY <3>2, <3>4, <3>5
  <2> QED
    BY <2>1, <2>2
<1>3. ASSUME NEW p \in Proc, PickSave(p)
      PROVE  Inv'
  <2>1. /\ Bumped(Added, mem[p], Mode) \in StateFile
        /\ Punished(Bumped(Added, mem[p], Mode)) \subseteq Limited
    BY BumpedPunished DEF TypeOK, Innocent
  <2>2. AfterPick(p, next[p]) \in {"load", "install"}
    BY DEF AfterPick
  <2> QED
    BY <1>3, <2>1, <2>2, EmptyStateType, EmptyPunished
    DEF PickSave, Saves, Go, TypeOK, Steps, Located, Innocent, Limited
<1>4. ASSUME NEW p \in Proc, Install(p)
      PROVE  Inv'
  BY <1>4 DEF Install, Go, TypeOK, Steps, Located, Innocent, Limited
<1>5. ASSUME NEW p \in Proc, NoteLoad(p)
      PROVE  Inv'
  BY <1>5 DEF NoteLoad, Loads, Go, files, TypeOK, Steps, Located, Innocent, Limited
<1>6. ASSUME NEW p \in Proc, NoteSave(p)
      PROVE  Inv'
  <2>1. next[p] \in Account /\ mem[p] \in StateFile
    BY <1>6 DEF NoteSave, TypeOK, Located
  <2>2. /\ Activated(mem[p], next[p]) \in StateFile
        /\ Punished(Activated(mem[p], next[p])) \subseteq Limited
    BY <2>1, ActivatedType, ActivatedPunished DEF Innocent
  <2> QED
    BY <1>6, <2>1, <2>2, EmptyStateType, EmptyPunished
    DEF NoteSave, Resumes, Saves, Go, TypeOK, Steps, Located, Innocent, Limited
<1>7. ASSUME NEW p \in Proc, LoadActive(p)
      PROVE  Inv'
  <2>1. state.active \in Account \cup {NoAccount}
    BY StateFields DEF TypeOK
  <2> QED
    BY <1>7, <2>1 DEF LoadActive, Go, files, TypeOK, Steps, Located, Innocent, Limited
<1>8. ASSUME NEW p \in Proc, Fetch(p)
      PROVE  Inv'
  BY <1>8 DEF Fetch, Go, files, TypeOK, Steps, Located, Innocent, Limited
<1>9. ASSUME NEW p \in Proc, Refresh(p)
      PROVE  Inv'
  BY <1>9 DEF Refresh, Go, TypeOK, Steps, Located, Innocent, Limited
<1>10. ASSUME NEW p \in Proc, Pass(p)
       PROVE  Inv'
  BY <1>10, RetryAssumption
  DEF Pass, Ends, Go, files, TypeOK, Steps, Located, Innocent, Limited
<1>11. ASSUME NEW p \in Proc, Limit(p)
       PROVE  Inv'
  <2>0. Counts(p)
    BY <1>11 DEF Limit
  <2>1. limits' \in [Account -> 0..MaxLimits]
    BY <2>0, LimitAssumption DEF Counts, TypeOK
  <2>l. /\ \A a \in Account : limits[a] > 0 => limits'[a] > 0
        /\ email[p] \in Account => limits'[email[p]] > 0
    BY <2>0, LimitAssumption DEF Counts, TypeOK
  <2>2. /\ state' = state /\ live' = live /\ mem' = mem /\ next' = next
        /\ \A q \in Proc \ {p} : pc'[q] = pc[q] /\ email'[q] = email[q]
        /\ \/ pc'[p] \in {"pick", "idle"}
           \/ pc'[p] = "strike" /\ email'[p] = email[p] /\ email[p] # NoAccount
    BY <1>11 DEF Limit, Ends, Go, files, TypeOK
  <2>3. Located'
    BY <2>1, <2>l, <2>2 DEF Located, Limited, TypeOK
  <2>4. Innocent'
    BY <2>1, <2>l, <2>2 DEF Innocent, Limited
  <2>5. CASE attempt[p] < MaxRetries - 1
    <3>1. attempt[p] + 1 \in 0..(MaxRetries - 1)
      BY <2>5, RetryAssumption DEF TypeOK
    <3>2. TypeOK'
      BY <1>11, <2>1, <2>5, <3>1 DEF Limit, Go, files, TypeOK, Steps
    <3> QED
      BY <2>3, <2>4, <3>2
  <2>6. CASE ~(attempt[p] < MaxRetries - 1)
    <3>1. TypeOK'
      BY <1>11, <2>1, <2>6, RetryAssumption DEF Limit, Ends, Go, files, TypeOK, Steps
    <3> QED
      BY <2>3, <2>4, <3>1
  <2> QED
    BY <2>5, <2>6
<1>12. ASSUME NEW p \in Proc, StrikeLoad(p)
       PROVE  Inv'
  BY <1>12 DEF StrikeLoad, Loads, Go, files, TypeOK, Steps, Located, Innocent, Limited
<1>13. ASSUME NEW p \in Proc, StrikeSave(p)
       PROVE  Inv'
  <2>a. PICK reason \in Bodies : \E st \in Failed(mem[p], email[p], reason) : Saves(p, st)
    BY <1>13 DEF StrikeSave, Blamed
  <2>1. PICK st \in Failed(mem[p], email[p], reason) : Saves(p, st)
    BY <2>a
  <2>2. email[p] \in Limited /\ email[p] \in Account /\ mem[p] \in StateFile /\ reason \in Reasons
    BY <1>13, RetryAssumption DEF StrikeSave, TypeOK, Located, Limited
  <2>3. st \in StateFile
    BY <2>2, FailedType
  <2>4. Punished(st) \subseteq Limited
    BY <2>2, FailedPunished DEF Innocent
  <2> QED
    BY <1>13, <2>1, <2>2, <2>3, <2>4, EmptyStateType, EmptyPunished
    DEF StrikeSave, Saves, Go, TypeOK, Steps, Located, Innocent, Limited
<1>14. ASSUME NEW S \in Victims, Kill(S)
       PROVE  Inv'
  <2>1. /\ pc' \in [Proc -> Steps] /\ mem' \in [Proc -> StateFile]
        /\ email' \in [Proc -> Account \cup {NoAccount}]
        /\ next' \in [Proc -> Account \cup {NoAccount}]
        /\ then' \in [Proc -> {"idle", "load", "fetch"}]
        /\ attempt' \in [Proc -> 0..(MaxRetries - 1)]
    BY <1>14, EmptyStateType, RetryAssumption DEF Kill, TypeOK, Steps
  <2>2. TypeOK'
    BY <1>14, <2>1 DEF Kill, files, TypeOK
  <2>3. \A p \in Proc \ S : /\ pc'[p] = pc[p] /\ mem'[p] = mem[p]
                            /\ email'[p] = email[p] /\ next'[p] = next[p]
    BY <1>14 DEF Kill
  <2>4. \A p \in Proc \cap S : pc'[p] = "idle" /\ mem'[p] = EmptyState
    BY <1>14 DEF Kill
  <2>5. state' = state /\ live' = live /\ limits' = limits
    BY <1>14 DEF Kill, files, TypeOK
  <2>6. Located'
    BY <2>3, <2>4, <2>5 DEF Located, Limited
  <2>7. Innocent'
    BY <2>3, <2>4, <2>5, EmptyPunished DEF Innocent, Limited
  <2> QED
    BY <2>2, <2>6, <2>7
<1>15. CASE Tick
  <2>1. state' \in StateFile /\ \A p \in Proc : mem'[p] \in StateFile
    BY <1>15, AgedType DEF Tick, TypeOK
  <2>2. /\ Punished(state') \subseteq Punished(state)
        /\ \A p \in Proc : Punished(mem'[p]) \subseteq Punished(mem[p])
    BY <1>15, AgedPunished DEF Tick, TypeOK
  <2> QED
    BY <1>15, <2>1, <2>2 DEF Tick, TypeOK, Steps, Located, Innocent, Limited
<1>16. CASE UNCHANGED vars
  BY <1>16 DEF vars, files, local, TypeOK, Steps, Located, Innocent, Limited
<1>17. ASSUME NEW p \in Proc, InstallFails(p)
       PROVE  Inv'
  <2>1. next[p] \in Account
    BY <1>17 DEF InstallFails, Located
  <2> QED
    BY <1>17, <2>1
    DEF InstallFails, Resumes, Go, files, TypeOK, Steps, Located, Innocent, Limited
<1> QED
  BY <1>1, <1>2, <1>3, <1>4, <1>5, <1>6, <1>7, <1>8, <1>9, <1>10, <1>11, <1>12,
     <1>13, <1>14, <1>15, <1>16, <1>17
  DEF Next, Engine, Forward

-----------------------------------------------------------------------------
(* No 429 counted twice.                                                   *)

\* st is no harder on anybody than t.
Milder(st, t) == \A a \in Account : st.failures[a] <= t.failures[a]

\* The states that are, or may become, the file.
Held == {state} \cup {mem[p] : p \in Proc}

\* The processes that will report are finitely many.
LEMMA PendingFinite ==
    ASSUME NEW a, NEW step, NEW mail
    PROVE  /\ IsFiniteSet(Pending(a, step, mail))
           /\ Cardinality(Pending(a, step, mail)) \in Nat
<1>1. Pending(a, step, mail) \subseteq Proc
  BY DEF Pending
<1> QED
  BY <1>1, ProcAssumption, FS_Subset, FS_CardinalityType

\* A milder state fits as well, when no report is added.
LEMMA FitsMilder ==
    ASSUME NEW st \in StateFile, NEW t \in StateFile, Milder(st, t),
           NEW s1, NEW m1, NEW s2, NEW m2, NEW lim \in [Account -> Nat],
           \A a \in Account : Pending(a, s2, m2) \subseteq Pending(a, s1, m1),
           Fits(t, s1, m1, lim)
    PROVE  Fits(st, s2, m2, lim)
<1> SUFFICES ASSUME NEW a \in Account, lim[a] < MaxLimits
             PROVE  st.failures[a] + Cardinality(Pending(a, s2, m2)) <= lim[a]
  BY DEF Fits
<1> DEFINE new == Cardinality(Pending(a, s2, m2))
           old == Cardinality(Pending(a, s1, m1))
           now == st.failures[a]
           was == t.failures[a]
<1>1. new \in Nat /\ old \in Nat /\ new <= old
  BY PendingFinite, FS_Subset
<1>2. now \in Nat /\ was \in Nat /\ now <= was
  BY StateFields, LadderAssumption DEF Milder
<1>3. was + old <= lim[a] /\ lim[a] \in Nat
  BY DEF Fits
<1> HIDE DEF new, old, now, was
<1>4. now + new <= lim[a]
  BY <1>1, <1>2, <1>3
<1> QED
  BY <1>4 DEF new, now

\* A step that adds no report and saves or loads what was held, or something
\* milder, keeps the balance.
LEMMA Calm ==
    ASSUME TypeOK, TypeOK', Balanced, limits' = limits,
           \A q \in Proc : pc'[q] \in {"strike", "strikeSave"}
                          => pc[q] \in {"strike", "strikeSave"} /\ email'[q] = email[q],
           \E t \in Held : Milder(state', t),
           \A q \in Proc : \E t \in Held : Milder(mem'[q], t)
    PROVE  Balanced'
<1>1. \A a \in Account : Pending(a, pc', email') \subseteq Pending(a, pc, email)
  BY DEF Pending
<1>2. \A t \in Held : t \in StateFile /\ Fits(t, pc, email, limits)
  BY DEF Held, Balanced, TypeOK
<1>3. limits \in [Account -> Nat] /\ state' \in StateFile
      /\ \A q \in Proc : mem'[q] \in StateFile
  BY LimitAssumption DEF TypeOK
<1>4. Fits(state', pc', email', limits)
  BY <1>1, <1>2, <1>3, FitsMilder
<1>5. ASSUME NEW q \in Proc
      PROVE  Fits(mem'[q], pc', email', limits)
  BY <1>1, <1>2, <1>3, <1>5, FitsMilder
<1> QED
  BY <1>4, <1>5 DEF Balanced

\* Moving the cursor, activation, time and forgetting strike nobody.
LEMMA StrikesNobody ==
    ASSUME NEW st \in StateFile
    PROVE  /\ Milder(st, st) /\ Milder(EmptyState, st)
           /\ Milder(Bumped(Added, st, Mode), st)
           /\ Milder(Aged(st), st)
           /\ \A a \in Account : Milder(Activated(st, a), st)
<1>1. \A b \in Account : st.failures[b] \in Nat
  BY StateFields, LadderAssumption
<1>2. Milder(st, st) /\ Milder(EmptyState, st)
  BY <1>1 DEF Milder, EmptyState
<1>3. Bumped(Added, st, Mode).failures = st.failures
  BY StateFields DEF Bumped
<1>4. Aged(st).failures = st.failures
  BY StateFields DEF Aged
<1>5. ASSUME NEW a \in Account, NEW b \in Account
      PROVE  Activated(st, a).failures[b] \in {0, st.failures[b]}
  BY StateFields DEF Activated
<1> QED
  BY <1>1, <1>2, <1>3, <1>4, <1>5 DEF Milder

\* A report adds at most one failure, to the account it is about.
LEMMA StrikesOnce ==
    ASSUME NEW st \in StateFile, NEW a \in Account, NEW reason \in Reasons,
           NEW t \in Failed(st, a, reason)
    PROVE  /\ t.failures[a] <= st.failures[a] + 1
           /\ \A b \in Account \ {a} : t.failures[b] = st.failures[b]
<1> DEFINE f == [st.failures EXCEPT ![a] = Struck(st, a)]
<1>1. t.failures = f
  <2>1. CASE reason = "revoked"
    <3>1. t = [st EXCEPT !.failures = f, !.revoked = [st.revoked EXCEPT ![a] = TRUE]]
      BY <2>1 DEF Failed
    <3> HIDE DEF f
    <3> QED
      BY <3>1, StateFields
  <2>2. CASE reason # "revoked"
    <3>1. PICK d \in Backoffs(reason, Struck(st, a)) :
             t = [st EXCEPT !.failures = f, !.cool = [st.cool EXCEPT ![a] = d]]
      BY <2>2 DEF Failed
    <3> HIDE DEF f
    <3> QED
      BY <3>1, StateFields
  <2> QED
    BY <2>1, <2>2
<1>2. st.failures \in [Account -> 0..Rungs]
  BY StateFields
<1>3. Struck(st, a) <= st.failures[a] + 1
  BY <1>2, LadderAssumption DEF Struck
<1> QED
  BY <1>1, <1>2, <1>3

\* Every step keeps the balance: a 429 and the report it calls for come
\* together, and a report that is made is no longer to come.
LEMMA BalanceNext == Inv /\ Inv' /\ Balanced /\ [Next]_vars => Balanced'
<1> SUFFICES ASSUME TypeOK, TypeOK', Located, Balanced, [Next]_vars
             PROVE  Balanced'
  BY DEF Inv
<1> DEFINE Reporting == {"strike", "strikeSave"}
           NoMore == \A q \in Proc : pc'[q] \in Reporting
                                    => pc[q] \in Reporting /\ email'[q] = email[q]
<1>H. /\ state \in Held /\ \A q \in Proc : mem[q] \in Held
      /\ state \in StateFile /\ \A q \in Proc : mem[q] \in StateFile
      /\ \A t \in Held : t \in StateFile
  BY DEF Held, TypeOK
<1>S. ASSUME limits' = limits, NoMore,
             \E t \in Held : Milder(state', t),
             \A q \in Proc : \E t \in Held : Milder(mem'[q], t)
      PROVE  Balanced'
  BY <1>S, Calm
<1>U. ASSUME UNCHANGED <<state, mem, limits>>, NoMore
      PROVE  Balanced'
  BY <1>H, <1>S, <1>U, StrikesNobody
<1>V. ASSUME NEW p \in Proc, NEW st, Saves(p, st), NoMore, limits' = limits,
             \E t \in Held : Milder(st, t)
      PROVE  Balanced'
  <2>1. state' = st \/ state' = state
    BY <1>V DEF Saves
  <2>2. \E t \in Held : Milder(state', t)
    BY <1>H, <1>V, <2>1, StrikesNobody
  <2>3. \A q \in Proc : mem'[q] \in {mem[q], EmptyState}
    BY <1>V DEF Saves, TypeOK
  <2>4. \A q \in Proc : \E t \in Held : Milder(mem'[q], t)
    BY <1>H, <2>3, StrikesNobody
  <2> HIDE DEF NoMore
  <2> QED
    BY <1>S, <1>V, <2>2, <2>4
<1>L. ASSUME NEW p \in Proc, NEW step, Loads(p, step), NoMore, UNCHANGED <<state, limits>>
      PROVE  Balanced'
  <2>1. \A q \in Proc : mem'[q] \in Held
    BY <1>H, <1>L DEF Loads, TypeOK
  <2>2. \A q \in Proc : \E t \in Held : Milder(mem'[q], t)
    BY <1>H, <2>1, StrikesNobody
  <2>3. \E t \in Held : Milder(state', t)
    BY <1>H, <1>L, StrikesNobody
  <2> HIDE DEF NoMore
  <2> QED
    BY <1>L, <1>S, <2>2, <2>3
<1>1. ASSUME NEW p \in Proc,
             \/ Arrive(p) \/ Launch(p) \/ Install(p) \/ InstallFails(p)
             \/ LoadActive(p) \/ Fetch(p) \/ Refresh(p) \/ Pass(p)
      PROVE  Balanced'
  <2>1. UNCHANGED <<state, mem, limits>>
    BY <1>1 DEF Arrive, Launch, Install, InstallFails, LoadActive, Fetch, Refresh, Pass, files
  <2>2. NoMore
    BY <1>1 DEF Arrive, Launch, Install, InstallFails, LoadActive, Fetch, Refresh, Pass,
                Resumes, Ends, Go, TypeOK
  <2> HIDE DEF NoMore
  <2> QED
    BY <1>U, <2>1, <2>2
<1>2. ASSUME NEW p \in Proc, PickLoad(p)
      PROVE  Balanced'
  <2>1. NoMore /\ UNCHANGED <<state, limits>>
    BY <1>2 DEF PickLoad, Loads, AfterPick, Go, files, TypeOK
  <2>2. Loads(p, "pickSave") \/ UNCHANGED mem
    BY <1>2 DEF PickLoad
  <2> HIDE DEF NoMore
  <2> QED
    BY <1>L, <1>U, <2>1, <2>2
<1>3. ASSUME NEW p \in Proc, PickSave(p)
      PROVE  Balanced'
  <2>1. NoMore /\ limits' = limits
    BY <1>3 DEF PickSave, AfterPick, Go, TypeOK
  <2>2. Saves(p, Bumped(Added, mem[p], Mode))
    BY <1>3 DEF PickSave
  <2> HIDE DEF NoMore
  <2> QED
    BY <1>H, <1>V, <2>1, <2>2, StrikesNobody
<1>4. ASSUME NEW p \in Proc, NoteLoad(p) \/ StrikeLoad(p)
      PROVE  Balanced'
  <2>1. NoMore /\ UNCHANGED <<state, limits>>
    BY <1>4 DEF NoteLoad, StrikeLoad, Loads, Go, files, TypeOK
  <2>2. \E step : Loads(p, step)
    BY <1>4 DEF NoteLoad, StrikeLoad
  <2> HIDE DEF NoMore
  <2> QED
    BY <1>L, <2>1, <2>2
<1>5. ASSUME NEW p \in Proc, NoteSave(p)
      PROVE  Balanced'
  <2>1. NoMore /\ limits' = limits
    BY <1>5 DEF NoteSave, Resumes, Go, TypeOK
  <2>2. Saves(p, Activated(mem[p], next[p])) /\ next[p] \in Account
    BY <1>5 DEF NoteSave, Located
  <2> HIDE DEF NoMore
  <2> QED
    BY <1>H, <1>V, <2>1, <2>2, StrikesNobody
<1>6. ASSUME NEW p \in Proc, Limit(p)
      PROVE  Balanced'
  <2>1. /\ state' = state /\ mem' = mem /\ pc[p] = "send"
        /\ \A q \in Proc \ {p} : pc'[q] = pc[q] /\ email'[q] = email[q]
        /\ pc'[p] \in {"pick", "idle"} \/ email'[p] = email[p]
    BY <1>6 DEF Limit, Ends, Go, files, TypeOK
  <2>2. Counts(p) /\ limits \in [Account -> 0..MaxLimits]
    BY <1>6 DEF Limit, TypeOK
  <2>3. ASSUME NEW st \in StateFile, Fits(st, pc, email, limits)
        PROVE  Fits(st, pc', email', limits')
    <3> SUFFICES ASSUME NEW a \in Account, limits'[a] < MaxLimits
                 PROVE  st.failures[a] + Cardinality(Pending(a, pc', email')) <= limits'[a]
      BY DEF Fits
    <3> DEFINE old == Pending(a, pc, email)
               new == Pending(a, pc', email')
    <3>1. st.failures[a] \in Nat /\ limits[a] \in Nat
      BY <2>2, StateFields, LadderAssumption
    <3>2. IsFiniteSet(old) /\ Cardinality(old) \in Nat /\ Cardinality(new) \in Nat
      BY PendingFinite
    <3>3. CASE a = email[p]
      <4>1. limits[a] < MaxLimits /\ limits'[a] = limits[a] + 1
        BY <2>2, <3>3, LimitAssumption DEF Counts
      <4>2. new \subseteq old \cup {p}
        BY <2>1 DEF Pending
      <4>3. Cardinality(new) <= Cardinality(old) + 1
        <5>1. IsFiniteSet(old \cup {p}) /\ Cardinality(old \cup {p}) <= Cardinality(old) + 1
          <6> HIDE DEF old
          <6> DEFINE more == Cardinality(old \cup {p})
          <6>1. /\ IsFiniteSet(old \cup {p})
                /\ more = Cardinality(old) \/ more = Cardinality(old) + 1
            BY <3>2, FS_AddElement
          <6> HIDE DEF more
          <6>2. more <= Cardinality(old) + 1
            BY <3>2, <6>1
          <6> QED
            BY <6>1, <6>2 DEF more
        <5>2. Cardinality(new) <= Cardinality(old \cup {p}) /\ Cardinality(old \cup {p}) \in Nat
          BY <4>2, <5>1, FS_Subset, FS_CardinalityType
        <5> HIDE DEF old, new
        <5> QED
          BY <3>2, <5>1, <5>2
      <4>4. st.failures[a] + Cardinality(old) <= limits[a]
        BY <2>3, <4>1 DEF Fits
      <4> HIDE DEF old, new
      <4>5. st.failures[a] + Cardinality(new) <= limits'[a]
        BY <3>1, <3>2, <4>1, <4>3, <4>4
      <4> QED
        BY <4>5 DEF new
    <3>4. CASE a # email[p]
      <4>1. limits'[a] = limits[a]
        BY <2>2, <3>4 DEF Counts
      <4>2. new \subseteq old
        BY <2>1, <3>4 DEF Pending
      <4>3. Cardinality(new) <= Cardinality(old)
        BY <3>2, <4>2, FS_Subset
      <4>4. st.failures[a] + Cardinality(old) <= limits[a]
        BY <2>3, <4>1 DEF Fits
      <4> HIDE DEF old, new
      <4>5. st.failures[a] + Cardinality(new) <= limits'[a]
        BY <3>1, <3>2, <4>1, <4>3, <4>4
      <4> QED
        BY <4>5 DEF new
    <3> QED
      BY <3>3, <3>4
  <2> QED
    BY <1>H, <2>1, <2>3 DEF Balanced
<1>7. ASSUME NEW p \in Proc, StrikeSave(p)
      PROVE  Balanced'
  <2> DEFINE e == email[p]
  <2>a. PICK reason \in Bodies : \E st \in Failed(mem[p], e, reason) : Saves(p, st)
    BY <1>7 DEF StrikeSave, Blamed
  <2>1. PICK st \in Failed(mem[p], e, reason) : Saves(p, st)
    BY <2>a
  <2>2. e \in Account /\ mem[p] \in StateFile /\ reason \in Reasons
    BY <1>7, <1>H, RetryAssumption DEF StrikeSave, Located, Limited
  <2>3. /\ pc[p] = "strikeSave" /\ email' = email /\ limits' = limits
        /\ pc'[p] = "pick" /\ \A q \in Proc \ {p} : pc'[q] = pc[q]
    BY <1>7 DEF StrikeSave, Go, TypeOK
  <2>4. NoMore
    BY <2>3
  <2>5. state' = st \/ state' = state
    BY <2>1 DEF Saves
  <2>6. CASE state' = state
    <3>1. \A q \in Proc : mem'[q] \in {mem[q], EmptyState}
      BY <2>1 DEF Saves, TypeOK
    <3>2. \A q \in Proc : \E t \in Held : Milder(mem'[q], t)
      BY <1>H, <3>1, StrikesNobody
    <3>3. \E t \in Held : Milder(state', t)
      BY <1>H, <2>6, StrikesNobody
    <3> HIDE DEF NoMore
    <3> QED
      BY <1>S, <2>3, <2>4, <3>2, <3>3
  <2>7. CASE state' = st
    <3>1. \A a \in Account : Pending(a, pc', email') \subseteq Pending(a, pc, email)
      BY <2>3 DEF Pending
    <3>2. limits \in [Account -> Nat] /\ st \in StateFile
          /\ \A q \in Proc : mem'[q] \in StateFile
      BY <2>7, LimitAssumption DEF TypeOK
    <3>3. ASSUME NEW q \in Proc
          PROVE  Fits(mem'[q], pc', email', limits)
      <4>1. mem'[q] \in {mem[q], EmptyState}
        BY <2>1 DEF Saves, TypeOK
      <4>2. Milder(mem'[q], mem[q])
        BY <1>H, <4>1, StrikesNobody
      <4>3. Fits(mem[q], pc, email, limits)
        BY DEF Balanced
      <4> QED
        BY <1>H, <3>1, <3>2, <4>2, <4>3, FitsMilder
    <3>4. ASSUME NEW a \in Account, limits[a] < MaxLimits
          PROVE  st.failures[a] + Cardinality(Pending(a, pc', email')) <= limits[a]
      <4> DEFINE old == Pending(a, pc, email)
                 new == Pending(a, pc', email')
                 now == st.failures[a]
                 was == mem[p].failures[a]
      <4>1. was + Cardinality(old) <= limits[a]
        BY <3>4 DEF Balanced, Fits
      <4>2. /\ IsFiniteSet(old) /\ Cardinality(old) \in Nat /\ Cardinality(new) \in Nat
            /\ limits[a] \in Nat /\ now \in Nat /\ was \in Nat
        BY <2>2, <3>2, PendingFinite, StateFields, LadderAssumption
      <4>3. CASE a = e
        <5>1. now <= was + 1
          BY <2>2, <4>3, StrikesOnce
        <5>2. p \in old /\ new \subseteq old \ {p}
          BY <2>3, <4>3 DEF Pending
        <5>3. IsFiniteSet(old \ {p}) /\ Cardinality(old \ {p}) = Cardinality(old) - 1
          BY <4>2, <5>2, FS_RemoveElement
        <5>4. Cardinality(new) <= Cardinality(old \ {p})
          BY <5>2, <5>3, FS_Subset
        <5> HIDE DEF old, new, now, was
        <5>5. now + Cardinality(new) <= limits[a]
          BY <4>1, <4>2, <5>1, <5>3, <5>4
        <5> QED
          BY <5>5 DEF now, new
      <4>4. CASE a # e
        <5>1. now = was
          BY <2>2, <4>4, StrikesOnce
        <5>2. Cardinality(new) <= Cardinality(old)
          BY <3>1, <4>2, FS_Subset
        <5> HIDE DEF old, new, now, was
        <5>3. now + Cardinality(new) <= limits[a]
          BY <4>1, <4>2, <5>1, <5>2
        <5> QED
          BY <5>3 DEF now, new
      <4> QED
        BY <4>3, <4>4
    <3>5. Fits(state', pc', email', limits)
      BY <2>7, <3>4 DEF Fits
    <3> QED
      BY <2>3, <3>3, <3>5 DEF Balanced
  <2> QED
    BY <2>5, <2>6, <2>7
<1>8. ASSUME NEW S \in Victims, Kill(S)
      PROVE  Balanced'
  <2>1. /\ state' = state /\ limits' = limits
        /\ \A q \in Proc : mem'[q] \in {mem[q], EmptyState}
    BY <1>8 DEF Kill, files, TypeOK
  <2>2. NoMore
    BY <1>8 DEF Kill
  <2>3. \A q \in Proc : \E t \in Held : Milder(mem'[q], t)
    BY <1>H, <2>1, StrikesNobody
  <2>4. \E t \in Held : Milder(state', t)
    BY <1>H, <2>1, StrikesNobody
  <2> HIDE DEF NoMore
  <2> QED
    BY <1>S, <2>1, <2>2, <2>3, <2>4
<1>9. CASE Tick
  <2>1. state' = Aged(state) /\ limits' = limits /\ pc' = pc /\ email' = email
        /\ \A q \in Proc : mem'[q] = Aged(mem[q])
    BY <1>9 DEF Tick
  <2>2. \E t \in Held : Milder(state', t)
    BY <1>H, <2>1, StrikesNobody
  <2>3. \A q \in Proc : \E t \in Held : Milder(mem'[q], t)
    BY <1>H, <2>1, StrikesNobody
  <2> QED
    BY <1>S, <2>1, <2>2, <2>3
<1>10. CASE UNCHANGED vars
  BY <1>10, <1>U DEF vars, files, local
<1> HIDE DEF NoMore
<1> QED
  BY <1>1, <1>2, <1>3, <1>4, <1>5, <1>6, <1>7, <1>8, <1>9, <1>10
  DEF Next, Engine, Forward

-----------------------------------------------------------------------------
\* Every file and every local value keeps its type.
THEOREM RequestTypes == Spec => []TypeOK
BY InitInv, NextInv, PTL DEF Spec, Inv

\* However requests, launches and kills interleave, only an account whose own
\* token got a 429 counts failures, cools or is revoked.
THEOREM NobodyPunished == Spec => []NoFalseStrike
<1>1. Inv => NoFalseStrike
  BY DEF Inv, Innocent, NoFalseStrike
<1> QED
  BY <1>1, InitInv, NextInv, PTL DEF Spec

\* However requests, launches, kills and failing writes interleave, an account
\* counts no more failures than its token got 429s, up to the bound counted.
THEOREM NoneStruckTwice == Spec => []NoDoubleStrike
<1>1. Init => Balanced
  <2> SUFFICES ASSUME Init
               PROVE  Balanced
    OBVIOUS
  <2>1. \A a \in Account : state.failures[a] = 0 /\ limits[a] = 0
    BY DEF Init, EmptyState
  <2>2. \A p \in Proc : \A a \in Account : mem[p].failures[a] = 0
    BY DEF Init, EmptyState
  <2>3. \A a : Pending(a, pc, email) = {}
    BY DEF Init, Pending
  <2> QED
    BY <2>1, <2>2, <2>3, FS_EmptySet DEF Balanced, Fits
<1>2. Inv /\ Balanced => NoDoubleStrike
  <2> SUFFICES ASSUME Inv, Balanced, NEW a \in Account, limits[a] < MaxLimits
               PROVE  state.failures[a] <= limits[a]
    BY DEF NoDoubleStrike
  <2> DEFINE n == Cardinality(Pending(a, pc, email))
             k == state.failures[a]
  <2>1. k + n <= limits[a]
    BY DEF Balanced, Fits
  <2>2. n \in Nat /\ k \in Nat /\ limits[a] \in Nat
    BY PendingFinite, StateFields, LadderAssumption, LimitAssumption DEF Inv, TypeOK
  <2> HIDE DEF n, k
  <2>3. k <= limits[a]
    BY <2>1, <2>2
  <2> QED
    BY <2>3 DEF k
<1> QED
  BY <1>1, <1>2, InitInv, NextInv, BalanceNext, PTL DEF Spec
=============================================================================
