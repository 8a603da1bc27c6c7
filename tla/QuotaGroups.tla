----------------------------- MODULE QuotaGroups -----------------------------
(***************************************************************************)
(* cloudcode/quota.go: GroupModels sums up the models of an answer in at   *)
(* most three groups.  It ranges over a Go map, so that the models come in *)
(* any order; the summary must not depend on it.                           *)
(***************************************************************************)
EXTENDS Integers, FiniteSets

CONSTANTS
    Models,     \* the models that an answer may have
    Full,       \* the fraction 1, in the parts that fractions are counted in
    Samples     \* the entries of models in answers

Groups == {"claude", "gemini-pro", "gemini-flash"}
NoGroup == "none"

\* Reset times: absent, not a time, or an instant 1, 2, ...
NoReset == 0
BadReset == -1
Resets == {NoReset, BadReset} \union (Nat \ {0})

\* What of an entry counts: the words in its name, and its quotaInfo, if any,
\* where a fraction that is no number stands out of all range.
Words == {"claude", "gemini-3", "gemini 3", "gemini-2.5", "flash"}
NoNumber == Full + 2
Entry == [words : SUBSET Words, quota : BOOLEAN, fraction : Int, reset : Resets]

ASSUME QuotaAssumption == IsFiniteSet(Models) /\ Full \in Nat \ {0} /\ Samples \subseteq Entry

\* ClassifyGroup.
Gemini == {"gemini-3", "gemini 3", "gemini-2.5"}
ClassifyGroup(words) ==
    IF "claude" \in words THEN "claude"
    ELSE IF words \cap Gemini = {} THEN NoGroup
    ELSE IF "flash" \in words THEN "gemini-flash" ELSE "gemini-pro"

\* A slip: fractions above 1 are kept.
CutBelow(v) == IF v = NoNumber \/ v < 0 THEN 0 ELSE v

\* NormalizeFraction: no number counts as 0, others are cut to [0, 1].
NormalizeFraction(v) ==
    IF v = NoNumber \/ v < 0 THEN 0 ELSE IF v > Full THEN Full ELSE v

\* ParseReset: does it name an instant?
Parses(r) == r > 0

\* An entry without quotaInfo counts as fraction 0 without a reset.
FractionOf(e) == IF e.quota THEN NormalizeFraction(e.fraction) ELSE 0
ResetOf(e) == IF e.quota THEN e.reset ELSE NoReset
Group(e) == ClassifyGroup(e.words)

VARIABLES
    models,     \* model -> its entry, for the models of the answer
    done,       \* the models that the loop has visited
    grouped     \* group -> the candidate for it

quotaVars == <<models, done, grouped>>

Unseen == [seen |-> FALSE, count |-> 0, fraction |-> 0, reset |-> NoReset]

QuotaInit ==
    /\ models = <<>>
    /\ done = {}
    /\ grouped = [g \in Groups |-> Unseen]

Looped == done = DOMAIN models

\* An answer arrives.
Fetch ==
    /\ \E S \in SUBSET Models : models' \in [S -> Samples]
    /\ done' = {}
    /\ grouped' = [g \in Groups |-> Unseen]

-----------------------------------------------------------------------------
\* A slip: among equal fractions the first model stands.
BetterOnly(e, c) == ~c.seen \/ FractionOf(e) > c.fraction

\* A higher fraction wins, and of equal ones the earlier reset that can be read.
Better(e, c) ==
    \/ ~c.seen
    \/ FractionOf(e) > c.fraction
    \/ /\ FractionOf(e) = c.fraction
       /\ Parses(ResetOf(e))
       /\ ~Parses(c.reset) \/ ResetOf(e) < c.reset

\* A slip: the lowest fraction stands for the group.
LowestCandidate(e, c) ==
    [seen |-> TRUE,
     count |-> c.count + 1,
     fraction |-> IF c.seen /\ c.fraction < FractionOf(e) THEN c.fraction ELSE FractionOf(e),
     reset |-> ResetOf(e)]

Candidate(e, c) ==
    [seen |-> TRUE,
     count |-> c.count + 1,
     fraction |-> IF Better(e, c) THEN FractionOf(e) ELSE c.fraction,
     reset |-> IF Better(e, c) THEN ResetOf(e) ELSE c.reset]

\* One turn of the loop.
Visit(m) ==
    LET e == models[m]
        g == Group(e)
    IN /\ m \notin done
       /\ done' = done \union {m}
       /\ grouped' = IF g = NoGroup THEN grouped
                     ELSE [grouped EXCEPT ![g] = Candidate(e, @)]
       /\ UNCHANGED models

QuotaNext == (Looped /\ Fetch) \/ \E m \in DOMAIN models : Visit(m)
QuotaSpec == QuotaInit /\ [][QuotaNext]_quotaVars

-----------------------------------------------------------------------------
QuotaTypeOK ==
    /\ DOMAIN models \subseteq Models
    /\ models \in [DOMAIN models -> Samples]
    /\ done \subseteq DOMAIN models
    /\ grouped \in [Groups -> [seen : BOOLEAN, count : Nat, fraction : 0 .. Full, reset : Resets]]

Of(g) == {m \in done : Group(models[m]) = g}
Highest(g) == {m \in Of(g) : \A n \in Of(g) : FractionOf(models[n]) <= FractionOf(models[m])}

\* "representative model has highest remaining fraction, ties broken by earliest
\* parseable reset time" (quota.go:157-159), in whatever order Go ranges over
\* the map: each group reports how many models it has, their highest fraction,
\* and the earliest reset among those with that fraction which can be read, if
\* any of them can.
Represents ==
    \A g \in Groups :
        LET c == grouped[g]
            times == {ResetOf(models[m]) : m \in Highest(g)}
        IN /\ c.seen <=> Of(g) # {}
           /\ c.count = Cardinality(Of(g))
           /\ c.seen => /\ \A m \in Highest(g) : FractionOf(models[m]) = c.fraction
                        /\ c.reset \in times
                        /\ \A t \in times : Parses(t) => Parses(c.reset) /\ c.reset <= t
=============================================================================
