------------------------------- MODULE Poller -------------------------------
(***************************************************************************)
(* watch.go: the quota poller, which loads the settings when it starts and *)
(* at every tick asks for the models of the active account, sums them up   *)
(* and decides whether to switch before the account runs dry.  What the    *)
(* engine picks then is an input here; Poll of Rotation has the choice and *)
(* the switch, and Credentials the refresh of the token.                   *)
(***************************************************************************)
EXTENDS QuotaGroups, Settings

CONSTANT Quiet      \* was the watcher started with -quiet?

\* Thresholds and fractions are counted in the same parts.
ASSUME PartAssumption == Whole = Full
ASSUME QuietAssumption == Quiet \in BOOLEAN

VARIABLES
    step,       \* "off", "wait" for the ticker, "group" the models
    threshold,  \* the preempt_threshold that it loaded
    low,        \* the group it found at the end of its last poll, or NoGroup
    offer,      \* what PickNext gave it in that poll
    outcome     \* did that poll keep the active account or switch?

polled == <<low, offer, outcome>>
pollVars == <<quotaVars, raw, step, threshold, polled>>

\* An error, the active account, another one that cannot be activated, or
\* another one.
Offers == {"none", "active", "broken", "other"}

Init ==
    /\ QuotaInit /\ SettingsInit
    /\ step = "off"
    /\ threshold = Tenth
    /\ low = NoGroup /\ offer = "none" /\ outcome = "kept"

Configures == Configure /\ UNCHANGED <<quotaVars, step, threshold, polled>>

\* The settings are loaded once, when the watcher starts.
Start ==
    /\ step = "off"
    /\ step' = "wait"
    /\ threshold' = Effective("preempt_threshold")
    /\ UNCHANGED <<quotaVars, raw, polled>>

Forgets == low' = NoGroup /\ offer' = "none" /\ outcome' = "kept"

Ends ==
    /\ step # "off"
    /\ models' = <<>> /\ done' = {}
    /\ grouped' = [g \in Groups |-> Unseen]
    /\ step' = "off" /\ Forgets
    /\ UNCHANGED <<raw, threshold>>

\* A tick, and an answer; without one the poller waits for the next tick.
Tick ==
    /\ step = "wait"
    /\ Fetch
    /\ step' = "group" /\ Forgets
    /\ UNCHANGED <<raw, threshold>>

Turn(m) ==
    /\ step = "group"
    /\ Visit(m)
    /\ UNCHANGED <<raw, step, threshold, polled>>

LowGroups == {g \in Groups : grouped[g].seen /\ grouped[g].fraction <= threshold}

\* The loop is over: the last group that is low gives the reason for a switch
\* to what the engine picks, unless that is the active account.  The flag -quiet
\* is not asked for.
Decide ==
    /\ step = "group" /\ Looped
    /\ step' = "wait"
    /\ low' = IF "gemini-flash" \in LowGroups THEN "gemini-flash"
              ELSE IF "gemini-pro" \in LowGroups THEN "gemini-pro"
              ELSE IF "claude" \in LowGroups THEN "claude" ELSE NoGroup
    /\ offer' \in IF low' = NoGroup THEN {"none"} ELSE Offers
    /\ outcome' = IF low' # NoGroup /\ offer' = "other" THEN "switched" ELSE "kept"
    /\ UNCHANGED <<quotaVars, raw, threshold>>

Next == Configures \/ Start \/ Ends \/ Tick \/ Decide \/ \E m \in DOMAIN models : Turn(m)
Spec == Init /\ [][Next]_pollVars

-----------------------------------------------------------------------------
TypeOK ==
    /\ QuotaTypeOK
    /\ raw \in [Keys -> Int]
    /\ step \in {"off", "wait", "group"}
    /\ threshold \in 1 .. Full
    /\ low \in Groups \union {NoGroup}
    /\ offer \in Offers
    /\ outcome \in {"kept", "switched"}

\* A poll switches exactly if the models of some group all have at most the
\* fraction that was the threshold when the watcher started, and the engine
\* picks another account that can be activated: one model with quota left keeps
\* its group from being low, in whatever order they came (watch.go:188-217).
\* Whether the watcher is quiet makes no difference, see QuietKeeps.
PreemptsWhenLow ==
    step = "wait" =>
        (outcome = "switched" <=>
            /\ offer = "other"
            /\ \E g \in Groups :
                  Of(g) # {} /\ \A m \in Of(g) : FractionOf(models[m]) <= threshold)

\* "only report failures, do not auto-switch" (main.go:1050): a watcher that was
\* started with -quiet never switches.  Its poller does (watch.go:215-217).
QuietKeeps == Quiet => outcome = "kept"
=============================================================================
