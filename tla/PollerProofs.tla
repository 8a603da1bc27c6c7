---------------------------- MODULE PollerProofs ----------------------------
(***************************************************************************)
(* Proofs about the poller and the settings, for any number of models, any *)
(* answers and any values in config.json.                                  *)
(***************************************************************************)
EXTENDS Poller, FiniteSetTheorems, TLAPS

-----------------------------------------------------------------------------
(* The values of one entry.                                                *)

LEMMA EntryValues ==
    ASSUME NEW e \in Samples
    PROVE  FractionOf(e) \in 0 .. Full /\ ResetOf(e) \in Resets
<1>1. e \in Entry
  BY QuotaAssumption
<1>2. e.quota \in BOOLEAN /\ e.fraction \in Int /\ e.reset \in Resets
  BY <1>1 DEF Entry
<1>3. NormalizeFraction(e.fraction) \in 0 .. Full
  BY <1>2, QuotaAssumption DEF NormalizeFraction, NoNumber
<1>4. NoReset \in Resets
  BY DEF Resets, NoReset
<1> QED
  BY <1>2, <1>3, <1>4, QuotaAssumption DEF FractionOf, ResetOf

\* What "highest fraction, earliest reset that can be read" means of a set of
\* models with fractions f and resets r.
Top(S, f) == {x \in S : \A y \in S : f[y] <= f[x]}
Sums(S, f, r, fraction, reset) ==
    /\ \A x \in Top(S, f) : f[x] = fraction
    /\ \E x \in Top(S, f) : r[x] = reset
    /\ \A x \in Top(S, f) : Parses(r[x]) => Parses(reset) /\ reset <= r[x]

LEMMA SameValues ==
    ASSUME NEW S, NEW f, NEW g, NEW r, NEW t, NEW fraction, NEW reset,
           \A x \in S : f[x] = g[x] /\ r[x] = t[x]
    PROVE  Sums(S, f, r, fraction, reset) <=> Sums(S, g, t, fraction, reset)
<1>1. Top(S, f) = Top(S, g) /\ \A x \in Top(S, f) : x \in S
  BY DEF Top
<1> QED
  BY <1>1 DEF Sums

\* One more model keeps a sum right: the heart of the argument.
LEMMA OneMore ==
    ASSUME NEW S, NEW m, m \notin S,
           NEW f \in [S \union {m} -> Int], NEW r \in [S \union {m} -> Int],
           NEW fraction \in Int, NEW reset \in Int, Sums(S, f, r, fraction, reset),
           NEW better \in BOOLEAN,
           better <=> \/ f[m] > fraction
                      \/ f[m] = fraction /\ Parses(r[m]) /\ (~Parses(reset) \/ r[m] < reset)
    PROVE  Sums(S \union {m}, f, r, IF better THEN f[m] ELSE fraction,
                IF better THEN r[m] ELSE reset)
<1> DEFINE T == S \union {m}
<1>1. PICK x \in Top(S, f) : r[x] = reset /\ f[x] = fraction
  BY DEF Sums
<1>2. \A y \in T : f[y] \in Int /\ r[y] \in Int
  OBVIOUS
<1>3. x \in S /\ \A y \in S : f[y] <= fraction
  BY <1>1 DEF Top
<1>4. CASE f[m] > fraction
  <2>1. \A y \in S : f[y] < f[m]
    BY <1>2, <1>3, <1>4
  <2>2. Top(T, f) = {m}
    BY <2>1, <1>2 DEF Top
  <2> QED
    BY <2>2, <1>4, <1>2 DEF Sums
<1>5. CASE f[m] = fraction
  <2>1. Top(T, f) = Top(S, f) \union {m}
    BY <1>1, <1>2, <1>3, <1>5 DEF Top
  <2>2. \A y \in Top(T, f) : f[y] = fraction
    BY <2>1, <1>5 DEF Sums
  <2>3. x \in Top(T, f) /\ m \in Top(T, f)
    BY <2>1
  <2>4. \A y \in Top(S, f) : r[y] \in Int
    BY <1>2 DEF Top
  <2>5. CASE better
    <3>1. Parses(r[m]) /\ (~Parses(reset) \/ r[m] < reset)
      BY <1>5, <2>5, <1>2
    <3>2. \A y \in Top(T, f) : Parses(r[y]) => Parses(r[m]) /\ r[m] <= r[y]
      BY <2>1, <2>4, <3>1, <1>2 DEF Sums, Parses
    <3> QED
      BY <2>2, <2>3, <2>5, <3>2, <1>5 DEF Sums
  <2>6. CASE ~better
    <3>1. Parses(r[m]) => Parses(reset) /\ reset <= r[m]
      BY <1>5, <2>6, <1>2
    <3>2. \A y \in Top(T, f) : Parses(r[y]) => Parses(reset) /\ reset <= r[y]
      BY <2>1, <3>1 DEF Sums
    <3> QED
      BY <2>2, <2>3, <2>6, <3>2, <1>1 DEF Sums
  <2> QED
    BY <2>5, <2>6
<1>6. CASE f[m] < fraction
  <2>1. Top(T, f) = Top(S, f)
    BY <1>1, <1>2, <1>3, <1>6 DEF Top
  <2> QED
    BY <2>1, <1>6, <1>2 DEF Sums
<1> QED
  BY <1>2, <1>4, <1>5, <1>6

-----------------------------------------------------------------------------
(* The loop over the models.                                               *)

\* Represents, of one group.
RepresentsOf(g) ==
    /\ grouped[g].seen <=> Of(g) # {}
    /\ grouped[g].count = Cardinality(Of(g))
    /\ grouped[g].seen =>
          Sums(Of(g), [x \in done |-> FractionOf(models[x])], [x \in done |-> ResetOf(models[x])],
               grouped[g].fraction, grouped[g].reset)

LEMMA RepresentsByGroup == Represents <=> \A g \in Groups : RepresentsOf(g)
<1> DEFINE f == [x \in done |-> FractionOf(models[x])]
           r == [x \in done |-> ResetOf(models[x])]
<1>1. SUFFICES ASSUME NEW g \in Groups
               PROVE  (LET c == grouped[g]
                           times == {ResetOf(models[m]) : m \in Highest(g)}
                       IN /\ c.seen <=> Of(g) # {}
                          /\ c.count = Cardinality(Of(g))
                          /\ c.seen => /\ \A m \in Highest(g) : FractionOf(models[m]) = c.fraction
                                       /\ c.reset \in times
                                       /\ \A t \in times : Parses(t) => Parses(c.reset) /\ c.reset <= t)
                      <=> RepresentsOf(g)
  BY DEF Represents
<1>2. /\ Top(Of(g), f) = Highest(g)
      /\ \A x \in Highest(g) : f[x] = FractionOf(models[x]) /\ r[x] = ResetOf(models[x])
  BY DEF Top, Highest, Of
<1> HIDE DEF f, r
<1>3. Sums(Of(g), f, r, grouped[g].fraction, grouped[g].reset)
      <=> /\ \A m \in Highest(g) : FractionOf(models[m]) = grouped[g].fraction
          /\ \E m \in Highest(g) : ResetOf(models[m]) = grouped[g].reset
          /\ \A m \in Highest(g) : Parses(ResetOf(models[m])) =>
                Parses(grouped[g].reset) /\ grouped[g].reset <= ResetOf(models[m])
  BY <1>2 DEF Sums
<1> QED
  BY <1>3 DEF RepresentsOf, f, r

LEMMA VisitKeeps ==
    ASSUME QuotaTypeOK, Represents, NEW m \in DOMAIN models, Visit(m)
    PROVE  QuotaTypeOK' /\ Represents'
<1> DEFINE e == models[m]
           h == Group(e)
           F == [x \in done' |-> FractionOf(models[x])]
           R == [x \in done' |-> ResetOf(models[x])]
<1>1. /\ m \notin done /\ done' = done \union {m} /\ models' = models
      /\ grouped' = IF h = NoGroup THEN grouped
                    ELSE [grouped EXCEPT ![h] = Candidate(e, grouped[h])]
  BY DEF Visit
<1>2. \A x \in DOMAIN models : /\ models[x] \in Samples
                               /\ FractionOf(models[x]) \in 0 .. Full
                               /\ ResetOf(models[x]) \in Resets
  BY EntryValues DEF QuotaTypeOK
<1>3. /\ \A x \in done' : F[x] \in 0 .. Full /\ R[x] \in Resets
      /\ F \in [done' -> Int] /\ R \in [done' -> Int]
  BY <1>1, <1>2, QuotaAssumption DEF QuotaTypeOK, Resets, NoReset, BadReset
<1>4. \A g \in Groups : /\ grouped[g].fraction \in 0 .. Full /\ grouped[g].reset \in Resets
                        /\ grouped[g].count \in Nat /\ grouped[g].seen \in BOOLEAN
  BY DEF QuotaTypeOK
<1>5. \A g \in Groups : Of(g)' = IF g = h THEN Of(g) \union {m} ELSE Of(g)
  BY <1>1 DEF Of
<1>6. h \in Groups \union {NoGroup} /\ NoGroup \notin Groups
  BY DEF Group, ClassifyGroup, Groups, NoGroup
<1>7. \A g \in Groups : grouped'[g] = IF g = h THEN Candidate(e, grouped[h]) ELSE grouped[g]
  BY <1>1, <1>6 DEF QuotaTypeOK
<1>8. QuotaTypeOK'
  <2>1. CASE h = NoGroup
    BY <1>1, <2>1 DEF QuotaTypeOK
  <2>2. CASE h \in Groups
    <3>1. Candidate(e, grouped[h]) \in
            [seen : BOOLEAN, count : Nat, fraction : 0 .. Full, reset : Resets]
      BY <1>2, <1>4, <2>2 DEF Candidate
    <3> QED
      BY <1>1, <1>6, <2>2, <3>1 DEF QuotaTypeOK
  <2> QED
    BY <1>6, <2>1, <2>2
<1>9. ASSUME NEW g \in Groups PROVE RepresentsOf(g)'
  <2> DEFINE c == grouped[g]
             S == Of(g)
  <2>1. /\ c.seen <=> S # {}
        /\ c.count = Cardinality(S)
        /\ c.seen => Sums(S, [x \in done |-> FractionOf(models[x])],
                          [x \in done |-> ResetOf(models[x])], c.fraction, c.reset)
    BY RepresentsByGroup DEF RepresentsOf
  <2>2. S \subseteq done /\ IsFiniteSet(S)
    BY QuotaAssumption, FS_Subset DEF QuotaTypeOK, Of
  <2>3. c.seen => Sums(S, F, R, c.fraction, c.reset)
    BY <1>1, <2>1, <2>2, SameValues
  <2>4. CASE g # h
    BY <1>1, <1>5, <1>7, <2>1, <2>3, <2>4 DEF RepresentsOf
  <2>5. CASE g = h
    <3> DEFINE better == Better(e, c)
    <3>1. Of(g)' = S \union {m} /\ m \notin S
      BY <1>1, <1>5, <2>2, <2>5
    <3>2. Cardinality(S \union {m}) = Cardinality(S) + 1
      BY <2>2, <3>1, FS_AddElement
    <3>3. F[m] = FractionOf(e) /\ R[m] = ResetOf(e)
      BY <1>1
    <3>4. /\ grouped'[g].seen /\ grouped'[g].count = c.count + 1
          /\ grouped'[g].fraction = IF better THEN F[m] ELSE c.fraction
          /\ grouped'[g].reset = IF better THEN R[m] ELSE c.reset
      BY <1>7, <2>5, <3>3 DEF Candidate
    <3>5. Sums(S \union {m}, F, R, grouped'[g].fraction, grouped'[g].reset)
      <4>1. CASE ~c.seen
        <5>1. S \union {m} = {m} /\ better
          BY <2>1, <4>1 DEF Better
        <5>2. Top({m}, F) = {m}
          BY <1>3, <1>1 DEF Top
        <5>3. R[m] \in Int /\ m \in done'
          BY <1>1, <1>3
        <5>4. Sums({m}, F, R, F[m], R[m])
          BY <5>2, <5>3 DEF Sums
        <5> QED
          BY <3>4, <5>1, <5>4
      <4>2. CASE c.seen
        <5> DEFINE FS == [x \in S \union {m} |-> F[x]]
                   RS == [x \in S \union {m} |-> R[x]]
        <5>1. Sums(S, FS, RS, c.fraction, c.reset)
          BY <2>3, <4>2, SameValues
        <5>2. /\ FS \in [S \union {m} -> Int] /\ RS \in [S \union {m} -> Int]
              /\ FS[m] = F[m] /\ RS[m] = R[m]
          BY <1>1, <1>3, <2>2
        <5>3. /\ better \in BOOLEAN
              /\ better <=> \/ FS[m] > c.fraction
                            \/ FS[m] = c.fraction /\ Parses(RS[m]) /\ (~Parses(c.reset) \/ RS[m] < c.reset)
          BY <3>3, <4>2, <5>2 DEF Better
        <5>4. c.fraction \in Int /\ c.reset \in Int
          BY <1>4 DEF Resets, NoReset, BadReset
        <5>5. Sums(S \union {m}, FS, RS, IF better THEN FS[m] ELSE c.fraction,
                   IF better THEN RS[m] ELSE c.reset)
          <6> HIDE DEF FS, RS, better, c, S
          <6> QED BY <3>1, <5>1, <5>2, <5>3, <5>4, OneMore
        <5> QED
          BY <3>4, <5>2, <5>5, SameValues
      <4> QED
        BY <4>1, <4>2
    <3> QED
      BY <1>1, <2>1, <3>1, <3>2, <3>4, <3>5 DEF RepresentsOf
  <2> QED
    BY <2>4, <2>5
<1>10. (Represents <=> \A g \in Groups : RepresentsOf(g))'
  BY RepresentsByGroup, PTL
<1> QED
  BY <1>8, <1>9, <1>10

LEMMA FetchKeeps ==
    ASSUME Fetch
    PROVE  QuotaTypeOK' /\ Represents'
<1>1. PICK S \in SUBSET Models : models' \in [S -> Samples]
  BY DEF Fetch
<1>2. QuotaTypeOK'
  BY <1>1, QuotaAssumption DEF Fetch, QuotaTypeOK, Unseen, NoReset, Resets
<1>3. \A g \in Groups : Of(g)' = {} /\ grouped'[g] = Unseen
  BY DEF Fetch, Of
<1>4. \A g \in Groups : RepresentsOf(g)'
  BY <1>3, FS_EmptySet DEF RepresentsOf, Unseen
<1>5. (Represents <=> \A g \in Groups : RepresentsOf(g))'
  BY RepresentsByGroup, PTL
<1> QED
  BY <1>2, <1>4, <1>5

\* Before the first answer, and while the poller is off.
Cleared == models = <<>> /\ done = {} /\ grouped = [g \in Groups |-> Unseen]

LEMMA ClearedKeeps == Cleared => QuotaTypeOK /\ Represents
<1> SUFFICES ASSUME Cleared PROVE QuotaTypeOK /\ Represents
  OBVIOUS
<1>1. DOMAIN models = {} /\ models \in [{} -> Samples]
  BY DEF Cleared
<1>2. QuotaTypeOK
  BY <1>1, QuotaAssumption DEF Cleared, QuotaTypeOK, Unseen, NoReset, Resets
<1>3. \A g \in Groups : RepresentsOf(g)
  BY FS_EmptySet DEF Cleared, RepresentsOf, Unseen, Of
<1> QED
  BY <1>2, <1>3, RepresentsByGroup

-----------------------------------------------------------------------------
(* The settings.                                                           *)

LEMMA Defaults ==
    /\ Default \in [Keys -> Int]
    /\ \A k \in Keys : Keeps(k, Default[k])
    /\ Default["quota_poll_interval"] = 300 /\ Default["proxy_idle_timeout"] = 3600
<1>1. Default \in [Keys -> Int]
  BY SettingsAssumption, SMT DEF Default
<1>2. ASSUME NEW k \in Keys PROVE Keeps(k, Default[k])
  <2>1. Empty < 0 /\ NoValue < 0 /\ Empty \in Int /\ NoValue \in Int
    BY SettingsAssumption, SMT
  <2>2. /\ k = "preempt_threshold" => Default[k] = Tenth
        /\ k = "quota_poll_interval" => Default[k] = 300
        /\ k = "proxy_port" => Default[k] = 8999
        /\ k = "proxy_idle_timeout" => Default[k] = 3600
        /\ k = "mode" \/ k \in Switches => Default[k] = 1
    BY SMT DEF Default, Switches
  <2>3. Fits(k, Default[k])
    <3>1. 8999 \in Ports /\ 1 \in Modes
      BY SMT DEF Ports, Modes
    <3>2. k = "mode" => Default[k] \in Modes
      BY <2>2, <3>1, SMT
    <3>3. k = "proxy_port" => Default[k] \in Ports
      BY <2>2, <3>1, SMT
    <3>4. k \in Durations => Default[k] \in {300, 3600}
      BY <2>2, SMT DEF Durations
    <3>5. k \in Durations => Default[k] # Empty /\ Default[k] # NoValue
      BY <2>1, <3>4, SMT
    <3>6. k \in Switches => Default[k] \in {0, 1}
      BY <2>2, SMT
    <3> QED
      BY <3>2, <3>3, <3>5, <3>6 DEF Fits
  <2>4. k = "preempt_threshold" => Default[k] \in 1 .. Whole
    BY <2>2, SettingsAssumption, SMT
  <2> QED
    BY <2>3, <2>4 DEF Keeps
<1>3. Default["quota_poll_interval"] = 300 /\ Default["proxy_idle_timeout"] = 3600
  BY DEF Default, Keys, Durations
<1> QED
  BY <1>1, <1>2, <1>3

\* What LoadConfig returns is kept by the next LoadConfig.
LEMMA LoadedOnce ==
    ASSUME raw \in [Keys -> Int]
    PROVE  /\ LoadConfig \in [Keys -> Int]
           /\ \A k \in Keys : Keeps(k, LoadConfig[k])
BY Defaults, SMT DEF LoadConfig

LEMMA InRange ==
    ASSUME raw \in [Keys -> Int]
    PROVE  EffectiveInRange
<1>1. /\ LoadConfig \in [Keys -> Int]
      /\ \A k \in Keys : Keeps(k, LoadConfig[k])
  BY LoadedOnce
<1>2. /\ LoadConfig["mode"] \in Modes
      /\ LoadConfig["preempt_threshold"] \in 1 .. Whole
      /\ LoadConfig["proxy_port"] \in Ports
      /\ LoadConfig["quota_poll_interval"] \in Int
      /\ LoadConfig["proxy_idle_timeout"] \in Int
  <2>1. /\ Keeps("mode", LoadConfig["mode"])
        /\ Keeps("preempt_threshold", LoadConfig["preempt_threshold"])
        /\ Keeps("proxy_port", LoadConfig["proxy_port"])
        /\ LoadConfig["quota_poll_interval"] \in Int
        /\ LoadConfig["proxy_idle_timeout"] \in Int
    BY <1>1 DEF Keys, Durations
  <2> QED
    BY <2>1, SMT DEF Keeps, Fits
<1>3. /\ Effective("mode") = LoadConfig["mode"]
      /\ Effective("preempt_threshold") = LoadConfig["preempt_threshold"]
      /\ Effective("proxy_port") = LoadConfig["proxy_port"]
      /\ Effective("quota_poll_interval") = Interval(LoadConfig["quota_poll_interval"])
      /\ Effective("proxy_idle_timeout") = IdleTimeout(LoadConfig["proxy_idle_timeout"])
  BY DEF Effective
<1>4. \A v \in Int : Interval(v) >= 60 /\ IdleTimeout(v) > 0
  BY SMT DEF Interval, IdleTimeout
<1> QED
  BY <1>2, <1>3, <1>4, SMT DEF EffectiveInRange

LEMMA SetEffect ==
    ASSUME raw \in [Keys -> Int],
           NEW k \in Keys, NEW v \in Int, Set(k, v), NEW j \in Keys
    PROVE  Effective(j)' =
              IF j # k THEN Effective(j) ELSE IF Usable(k, v) THEN v ELSE Default[k]
<1>1. /\ LoadConfig \in [Keys -> Int]
      /\ \A i \in Keys : Keeps(i, LoadConfig[i])
  BY LoadedOnce
<1>2. Keeps(k, v)
  BY SettingsAssumption, SMT DEF Set, Accepts, Keeps
<1>3. raw' = [LoadConfig EXCEPT ![k] = v]
  BY DEF Set
<1>4. LoadConfig'[j] = IF j = k THEN v ELSE LoadConfig[j]
  <2>1. raw'[j] = IF j = k THEN v ELSE LoadConfig[j]
    BY <1>1, <1>3
  <2>2. Keeps(j, raw'[j])
    BY <1>1, <1>2, <2>1
  <2>3. LoadConfig' = [i \in Keys |-> IF Keeps(i, raw'[i]) THEN raw'[i] ELSE Default[i]]
    BY DEF LoadConfig
  <2> QED
    BY <2>1, <2>2, <2>3
<1>5. k \in Durations => v # Garbage
  BY DEF Set, Accepts
<1>6. CASE j # k
  BY <1>4, <1>6, SMT DEF Effective
<1>7. CASE j = k
  BY <1>4, <1>5, <1>7, Defaults, SMT DEF Effective, Usable, Interval, IdleTimeout, Durations
<1> QED
  BY <1>6, <1>7

LEMMA ConfigureType ==
    ASSUME raw \in [Keys -> Int], Configure
    PROVE  raw' \in [Keys -> Int]
<1>1. CASE Spoil
  BY <1>1, SettingsAssumption, SMT DEF Spoil
<1>2. ASSUME NEW k \in Keys, NEW v \in Typed[k], Set(k, v) \/ Edit(k, v)
      PROVE  raw' \in [Keys -> Int]
  <2>1. v \in Int
    BY SettingsAssumption
  <2> QED
    BY <1>2, <2>1, LoadedOnce, SMT DEF Set, Edit
<1> QED
  BY <1>1, <1>2, SMT DEF Configure

-----------------------------------------------------------------------------
(* The poller.  PreemptsWhenLow is inductive together with what the groups *)
(* report; the outcome is that of the last poll until the next begins.     *)

LowRight ==
    step = "wait" => (outcome = "switched" <=> offer = "other" /\ LowGroups # {})
OffCleared == step = "off" => Cleared /\ offer = "none" /\ outcome = "kept"
Inv == TypeOK /\ Represents /\ LowRight /\ OffCleared

LEMMA NothingLow == Cleared => LowGroups = {}
BY DEF Cleared, LowGroups, Unseen

LEMMA InitInv == Init => Inv
<1> SUFFICES ASSUME Init PROVE Inv
  OBVIOUS
<1>1. Cleared
  BY DEF Init, QuotaInit, Cleared
<1> QED
  BY <1>1, ClearedKeeps, SettingsAssumption, PartAssumption, QuotaAssumption
  DEF Init, SettingsInit, Offers, Inv, TypeOK, LowRight, OffCleared

LEMMA SameInv ==
    ASSUME Inv, UNCHANGED <<quotaVars, step, threshold, polled>>, raw' \in [Keys -> Int]
    PROVE  Inv'
<1>1. UNCHANGED <<models, done, grouped>> /\ UNCHANGED <<step, threshold, low, offer, outcome>>
  BY DEF quotaVars, polled
<1>2. TypeOK'
  BY <1>1 DEF Inv, TypeOK, QuotaTypeOK
<1>3. \A g \in Groups : Of(g)' = Of(g) /\ Highest(g)' = Highest(g)
  BY <1>1 DEF Of, Highest
<1>4. Represents'
  BY <1>1, <1>3 DEF Inv, Represents
<1>5. LowRight' /\ OffCleared'
  BY <1>1 DEF Inv, LowRight, LowGroups, OffCleared, Cleared
<1> QED
  BY <1>2, <1>4, <1>5 DEF Inv

LEMMA StepInv == Inv /\ [Next]_pollVars => Inv'
<1> SUFFICES ASSUME Inv, [Next]_pollVars PROVE Inv'
  OBVIOUS
<1>0. TypeOK /\ raw \in [Keys -> Int]
  BY DEF Inv, TypeOK
<1>1. CASE Configures
  BY <1>0, <1>1, ConfigureType, SameInv DEF Configures
<1>2. CASE Start
  <2>1. threshold' \in 1 .. Full
    <3>1. Effective("preempt_threshold") \in 1 .. Whole
      BY <1>0, InRange DEF EffectiveInRange
    <3> QED
      BY <1>2, <3>1, PartAssumption DEF Start
  <2>2. UNCHANGED <<models, done, grouped, low, offer, outcome>> /\ step' = "wait" /\ raw' = raw
    BY <1>2 DEF Start, quotaVars, polled
  <2>3. TypeOK'
    BY <1>0, <2>1, <2>2 DEF TypeOK, QuotaTypeOK
  <2>4. \A g \in Groups : Of(g)' = Of(g) /\ Highest(g)' = Highest(g)
    BY <2>2 DEF Of, Highest
  <2>5. Represents'
    BY <2>2, <2>4 DEF Inv, Represents
  <2>6. LowGroups' = {} /\ offer' = "none" /\ outcome' = "kept"
    BY <1>2, <2>2 DEF Inv, Start, OffCleared, Cleared, LowGroups, Unseen
  <2> QED
    BY <2>2, <2>3, <2>5, <2>6 DEF Inv, LowRight, OffCleared
<1>3. CASE Ends
  <2>1. Cleared'
    BY <1>3 DEF Ends, Cleared
  <2>2. QuotaTypeOK' /\ Represents'
    BY <2>1, ClearedKeeps, PTL
  <2> QED
    BY <1>0, <1>3, <2>1, <2>2 DEF Inv, Ends, Forgets, Offers, TypeOK, LowRight, OffCleared
<1>4. CASE Tick
  BY <1>0, <1>4, FetchKeeps DEF Inv, Tick, Forgets, Offers, TypeOK, LowRight, OffCleared
<1>5. CASE Decide
  <2>0. UNCHANGED <<models, done, grouped>>
    BY <1>5 DEF Decide, quotaVars
  <2>1. TypeOK' /\ Represents'
    <3>1. TypeOK'
      BY <1>0, <1>5, <2>0 DEF Decide, Offers, TypeOK, QuotaTypeOK, Groups
    <3>2. \A g \in Groups : Of(g)' = Of(g) /\ Highest(g)' = Highest(g)
      BY <2>0 DEF Of, Highest
    <3> QED
      BY <2>0, <3>1, <3>2 DEF Inv, Represents
  <2>2. LowGroups' = LowGroups /\ LowGroups \subseteq Groups
    BY <1>5 DEF Decide, quotaVars, LowGroups
  <2>3. low' # NoGroup <=> LowGroups # {}
    BY <1>5, <2>2 DEF Decide, Groups, NoGroup
  <2>4. step' = "wait" /\ (outcome' = "switched" <=> offer' = "other" /\ LowGroups' # {})
    BY <1>5, <2>2, <2>3 DEF Decide
  <2> QED
    BY <2>1, <2>4 DEF Inv, Decide, LowRight, OffCleared
<1>6. ASSUME NEW m \in DOMAIN models, Turn(m) PROVE Inv'
  BY <1>0, <1>6, VisitKeeps DEF Inv, Turn, polled, TypeOK, LowRight, OffCleared
<1>7. CASE UNCHANGED pollVars
  BY <1>0, <1>7, SameInv DEF pollVars
<1> QED
  BY <1>1, <1>2, <1>3, <1>4, <1>5, <1>6, <1>7 DEF Next

LEMMA InvLow == Inv => PreemptsWhenLow
<1> SUFFICES ASSUME Inv, step = "wait"
             PROVE  LowGroups # {} <=> \E g \in Groups :
                       Of(g) # {} /\ \A m \in Of(g) : FractionOf(models[m]) <= threshold
  BY DEF PreemptsWhenLow, Inv, LowRight
<1>1. SUFFICES ASSUME NEW g \in Groups
               PROVE  g \in LowGroups <=>
                        Of(g) # {} /\ \A m \in Of(g) : FractionOf(models[m]) <= threshold
  BY DEF Inv, LowRight, LowGroups
<1> DEFINE f == [x \in done |-> FractionOf(models[x])]
           r == [x \in done |-> ResetOf(models[x])]
<1>2. RepresentsOf(g)
  BY RepresentsByGroup DEF Inv
<1>3. /\ \A x \in Of(g) : f[x] = FractionOf(models[x]) /\ f[x] \in Int
      /\ threshold \in Int
  BY EntryValues, QuotaAssumption DEF Of, Inv, TypeOK, QuotaTypeOK
<1>4. CASE Of(g) = {}
  BY <1>2, <1>4 DEF RepresentsOf, LowGroups
<1>5. CASE Of(g) # {}
  <2>1. grouped[g].seen /\ Sums(Of(g), f, r, grouped[g].fraction, grouped[g].reset)
    BY <1>2, <1>5 DEF RepresentsOf
  <2>2. PICK x \in Of(g) : f[x] = grouped[g].fraction /\ \A y \in Of(g) : f[y] <= f[x]
    BY <2>1 DEF Sums, Top
  <2> HIDE DEF f
  <2>3. grouped[g].fraction <= threshold <=> \A y \in Of(g) : f[y] <= threshold
    BY <1>3, <2>2
  <2> QED
    BY <1>3, <1>5, <2>1, <2>3 DEF LowGroups
<1> QED
  BY <1>4, <1>5

\* Types, for any models, entries and values typed into config.json.
THEOREM PollerTypes == Spec => []TypeOK
<1>1. Inv => TypeOK
  BY DEF Inv
<1> QED
  BY <1>1, InitInv, StepInv, PTL DEF Spec

\* Groups do not depend on the order in which Go ranges over the models.
THEOREM GroupsRepresent == Spec => []Represents
<1>1. Inv => Represents
  BY DEF Inv
<1> QED
  BY <1>1, InitInv, StepInv, PTL DEF Spec

\* For any answers and settings, a poll switches exactly when a whole group is
\* low and the engine picks another account (watch.go:188-217).
THEOREM PollerPreempts == Spec => []PreemptsWhenLow
BY InvLow, InitInv, StepInv, PTL DEF Spec

\* No content of config.json makes a port, a mode or a duration of no use.
THEOREM SettingsInRange == Spec => []EffectiveInRange
<1>1. Inv => EffectiveInRange
  BY InRange DEF Inv, TypeOK
<1> QED
  BY <1>1, InitInv, StepInv, PTL DEF Spec

\* A `config set` has the effect of one key.
THEOREM SettingsSetOne == Spec => SetSetsOne
<1>1. ASSUME Inv, [Next]_pollVars, NEW k \in Keys, NEW v \in Typed[k], Set(k, v), NEW j \in Keys
      PROVE  Effective(j)' =
                IF j # k THEN Effective(j) ELSE IF Usable(k, v) THEN v ELSE Default[k]
  <2>1. v \in Int
    BY SettingsAssumption
  <2> QED
    BY <1>1, <2>1, SetEffect DEF Inv, TypeOK
<1>2. Inv /\ [Next]_pollVars =>
        [\A k \in Keys : \A v \in Typed[k] : Set(k, v) =>
            \A j \in Keys : Effective(j)' =
                IF j # k THEN Effective(j) ELSE IF Usable(k, v) THEN v ELSE Default[k]]_raw
  BY <1>1
<1> QED
  BY <1>2, InitInv, StepInv, PTL DEF Spec, SetSetsOne
=============================================================================
