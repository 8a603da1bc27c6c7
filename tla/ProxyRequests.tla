---------------------------- MODULE ProxyRequests ----------------------------
(***************************************************************************)
(* The proxy's requests and the launches of agy, running at the same time  *)
(* over state.json and the live token file.  Neither file is locked: every *)
(* command of the engine is a load, a computation and a save, and here     *)
(* each load and each save is a step of its own.                           *)
(*                                                                         *)
(* A process is a request in handleForwardRequest or a rotation (prelaunch *)
(* or agy-rotator rotate).  The vault, the mode and the quota cache stand  *)
(* still while they run.  Where DiskFails, any save may fail and leave the *)
(* file as it was: every caller drops the error and goes on.               *)
(***************************************************************************)
EXTENDS Selection

CONSTANTS
    Request,       \* the requests the proxy serves at the same time
    Launched,      \* the rotations that run beside it
    MaxRetries,    \* maxRetries of handleForwardRequest
    Victims,       \* the sets of processes that may be killed together
    Bodies,        \* the reasons Classify may find in the body of a 429
    Added, Mode, Quota,  \* the vault, the mode and the quota cache
    DiskFails,     \* whether a write of state.json or of the token file may fail
    MaxLimits      \* bound on the 429s of an account that are counted

Proc == Request \cup Launched

ASSUME ProcAssumption ==
    /\ Request \cap Launched = {}
    /\ IsFiniteSet(Proc)
    /\ Victims \subseteq SUBSET Proc

ASSUME RetryAssumption == MaxRetries \in Nat \ {0} /\ Bodies \subseteq Reasons

ASSUME LimitAssumption == MaxLimits \in Nat \ {0} /\ DiskFails \in BOOLEAN

ASSUME FileAssumption ==
    /\ Added \in [Account -> Nat]
    /\ Mode \in Modes
    /\ Quota \in [Account -> Score]

VARIABLES
    state,    \* state.json
    live,     \* agy's token file: the account it belongs to
    pc,       \* the next step of every process
    mem,      \* the state a process loaded and has not saved yet
    email,    \* activeEmail: the account a request sends the token of
    next,     \* the account PickNext chose
    then,     \* where the process goes on after the switch
    attempt,  \* attempts of a request that were answered by a 429
    limits    \* history: how often the token of an account got a 429

files == <<state, live>>
local == <<pc, mem, email, next, then, attempt>>
vars == <<files, local, limits>>

Steps == {"idle", "load", "fetch", "refresh", "send", "strike", "strikeSave",
          "pick", "pickSave", "install", "note", "noteSave"}

TypeOK ==
    /\ state \in StateFile
    /\ live \in Account \cup {NoAccount}
    /\ pc \in [Proc -> Steps]
    /\ mem \in [Proc -> StateFile]
    /\ email \in [Proc -> Account \cup {NoAccount}]
    /\ next \in [Proc -> Account \cup {NoAccount}]
    /\ then \in [Proc -> {"idle", "load", "fetch"}]
    /\ attempt \in [Proc -> 0..(MaxRetries - 1)]
    /\ limits \in [Account -> 0..MaxLimits]

Init ==
    /\ \E a \in Listed(Added) \cup {NoAccount} :
          /\ state = [EmptyState EXCEPT !.active = a]
          /\ live = a
    /\ pc = [p \in Proc |-> "idle"]
    /\ mem = [p \in Proc |-> EmptyState]
    /\ email = [p \in Proc |-> NoAccount]
    /\ next = [p \in Proc |-> NoAccount]
    /\ then = [p \in Proc |-> "idle"]
    /\ attempt = [p \in Proc |-> 0]
    /\ limits = [a \in Account |-> 0]

-----------------------------------------------------------------------------
Go(p, step) == pc' = [pc EXCEPT ![p] = step]

\* p forgets what it was doing.
Ends(p) ==
    /\ Go(p, "idle")
    /\ email' = [email EXCEPT ![p] = NoAccount]
    /\ attempt' = [attempt EXCEPT ![p] = 0]
    /\ then' = [then EXCEPT ![p] = "idle"]

\* p loads state.json and goes on with what it read.
Loads(p, step) ==
    /\ mem' = [mem EXCEPT ![p] = state]
    /\ Go(p, step)

\* p saves the state st, overwriting whatever is there.
Saves(p, st) ==
    /\ \/ state' = st
       \/ DiskFails /\ UNCHANGED state
    /\ mem' = [mem EXCEPT ![p] = EmptyState]

-----------------------------------------------------------------------------
(* PickNext and Activate, shared by requests and rotations.                *)

\* Where p goes once PickNext returned a: a request that switches after a
\* failure does not activate the account it just used.
AfterPick(p, a) ==
    IF then[p] = "load" /\ a = email[p] THEN then[p] ELSE "install"

\* PickNext lists the vault and loads the state.
PickLoad(p) ==
    /\ pc[p] = "pick"
    /\ IF Eligible(Added, state) = {}
       THEN Go(p, then[p]) /\ UNCHANGED <<mem, next>>
       ELSE LET a == Pick(Added, state, Mode, Quota)
            IN  /\ next' = [next EXCEPT ![p] = a]
                /\ IF Scans(Added, state, Mode) THEN Loads(p, "pickSave")
                   ELSE Go(p, AfterPick(p, a)) /\ UNCHANGED mem
    /\ UNCHANGED <<files, email, then, attempt, limits>>

\* bumpRR, when the scan chose.
PickSave(p) ==
    /\ pc[p] = "pickSave"
    /\ Saves(p, Bumped(Added, mem[p], Mode))
    /\ Go(p, AfterPick(p, next[p]))
    /\ UNCHANGED <<live, email, next, then, attempt, limits>>

\* Activate: the token file ...
Install(p) ==
    /\ pc[p] = "install"
    /\ live' = next[p]
    /\ Go(p, "note")
    /\ UNCHANGED <<state, mem, email, next, then, attempt, limits>>

\* ... then the state, loaded ...
NoteLoad(p) ==
    /\ pc[p] = "note"
    /\ Loads(p, "noteSave")
    /\ UNCHANGED <<files, email, next, then, attempt, limits>>

\* The end of a switch, whatever became of its writes: a request without an
\* active account goes on with the one it chose.
Resumes(p) ==
    /\ Go(p, then[p])
    /\ email' = [email EXCEPT ![p] = IF then[p] = "fetch" THEN next[p] ELSE @]
    /\ next' = [next EXCEPT ![p] = NoAccount]

\* ... and saved.
NoteSave(p) ==
    /\ pc[p] = "noteSave"
    /\ Saves(p, Activated(mem[p], next[p]))
    /\ Resumes(p)
    /\ UNCHANGED <<live, then, attempt, limits>>

\* Activate gives up when the token file cannot be written.
InstallFails(p) ==
    /\ DiskFails
    /\ pc[p] = "install"
    /\ Resumes(p)
    /\ UNCHANGED <<files, mem, then, attempt, limits>>

-----------------------------------------------------------------------------
(* handleForwardRequest.                                                   *)

Arrive(p) ==
    /\ p \in Request
    /\ pc[p] = "idle"
    /\ Go(p, "load")
    /\ UNCHANGED <<files, mem, email, next, then, attempt, limits>>

\* The head of the retry loop.
LoadActive(p) ==
    /\ pc[p] = "load"
    /\ email' = [email EXCEPT ![p] = state.active]
    /\ next' = [next EXCEPT ![p] = NoAccount]
    /\ then' = [then EXCEPT ![p] = "fetch"]
    /\ Go(p, IF state.active = NoAccount THEN "pick" ELSE "fetch")
    /\ UNCHANGED <<files, mem, attempt, limits>>

\* GetAccount; a token about to expire is refreshed, unless Google refuses.
Fetch(p) ==
    /\ pc[p] = "fetch"
    /\ \/ Go(p, "send")
       \/ email[p] \in Listed(Added) /\ Go(p, "refresh")
    /\ UNCHANGED <<files, mem, email, next, then, attempt, limits>>

\* The refreshed token is written to the live file, whoever is active now; a
\* write that fails is a step of Fetch to "send".
Refresh(p) ==
    /\ pc[p] = "refresh"
    /\ live' = email[p]
    /\ Go(p, "send")
    /\ UNCHANGED <<state, mem, email, next, then, attempt, limits>>

\* The upstream answers with something else than a 429, or not at all.
Pass(p) ==
    /\ pc[p] = "send"
    /\ Ends(p)
    /\ UNCHANGED <<files, mem, next, limits>>

\* One more 429 for the token that p sent.
Counts(p) ==
    limits' = [a \in Account |-> IF a = email[p] /\ limits[a] < MaxLimits
                                 THEN limits[a] + 1 ELSE limits[a]]

\* A slip: one retry too many.
LimitOnceMore(p) ==
    /\ pc[p] = "send"
    /\ Counts(p)
    /\ IF attempt[p] < MaxRetries
       THEN /\ Go(p, IF email[p] = NoAccount THEN "pick" ELSE "strike")
            /\ attempt' = [attempt EXCEPT ![p] = @ + 1]
            /\ then' = [then EXCEPT ![p] = "load"]
            /\ UNCHANGED email
       ELSE Ends(p)
    /\ UNCHANGED <<files, mem, next>>

\* A slip: every 429 retried.
LimitAlways(p) ==
    /\ pc[p] = "send"
    /\ Counts(p)
    /\ Go(p, IF email[p] = NoAccount THEN "pick" ELSE "strike")
    /\ then' = [then EXCEPT ![p] = "load"]
    /\ UNCHANGED <<files, mem, email, next, attempt>>

\* The upstream answers with a 429: the last attempt passes it on.
Limit(p) ==
    /\ pc[p] = "send"
    /\ Counts(p)
    /\ IF attempt[p] < MaxRetries - 1
       THEN /\ Go(p, IF email[p] = NoAccount THEN "pick" ELSE "strike")
            /\ attempt' = [attempt EXCEPT ![p] = @ + 1]
            /\ then' = [then EXCEPT ![p] = "load"]
            /\ UNCHANGED email
       ELSE Ends(p)
    /\ UNCHANGED <<files, mem, next>>

\* ReportFailure: load ...
StrikeLoad(p) ==
    /\ pc[p] = "strike"
    /\ Loads(p, "strikeSave")
    /\ UNCHANGED <<files, email, next, then, attempt, limits>>

\* A slip: the account that is active by now.
BlamedActive(p) == IF mem[p].active = NoAccount THEN email[p] ELSE mem[p].active

\* The account a request reports is the one whose token it sent.
Blamed(p) == email[p]

\* A slip: a report made once more, its save taken to have failed.
StrikeAgain(p) ==
    /\ pc[p] = "strikeSave"
    /\ \E reason \in Bodies : \E st \in Failed(mem[p], Blamed(p), reason) : Saves(p, st)
    /\ Go(p, "strike") \/ Go(p, "pick")
    /\ UNCHANGED <<live, email, next, then, attempt, limits>>

\* ... and save.
StrikeSave(p) ==
    /\ pc[p] = "strikeSave"
    /\ \E reason \in Bodies : \E st \in Failed(mem[p], Blamed(p), reason) : Saves(p, st)
    /\ Go(p, "pick")
    /\ UNCHANGED <<live, email, next, then, attempt, limits>>

-----------------------------------------------------------------------------
\* agy-rotator prelaunch or rotate.
Launch(p) ==
    /\ p \in Launched
    /\ pc[p] = "idle"
    /\ Go(p, "pick")
    /\ UNCHANGED <<files, mem, email, next, then, attempt, limits>>

\* The daemon is killed with all its requests, or a rotation is interrupted.
Kill(S) ==
    /\ \E p \in S : pc[p] # "idle"
    /\ pc' = [p \in Proc |-> IF p \in S THEN "idle" ELSE pc[p]]
    /\ mem' = [p \in Proc |-> IF p \in S THEN EmptyState ELSE mem[p]]
    /\ email' = [p \in Proc |-> IF p \in S THEN NoAccount ELSE email[p]]
    /\ next' = [p \in Proc |-> IF p \in S THEN NoAccount ELSE next[p]]
    /\ then' = [p \in Proc |-> IF p \in S THEN "idle" ELSE then[p]]
    /\ attempt' = [p \in Proc |-> IF p \in S THEN 0 ELSE attempt[p]]
    /\ UNCHANGED <<files, limits>>

\* Deadlines come closer, also those in the copies in memory.
Tick ==
    /\ \E a \in Account : state.cool[a] > 0
    /\ state' = Aged(state)
    /\ mem' = [p \in Proc |-> Aged(mem[p])]
    /\ UNCHANGED <<live, pc, email, next, then, attempt, limits>>

-----------------------------------------------------------------------------
Engine(p) ==
    \/ PickLoad(p) \/ PickSave(p)
    \/ Install(p) \/ InstallFails(p) \/ NoteLoad(p) \/ NoteSave(p)

Forward(p) ==
    \/ LoadActive(p) \/ Fetch(p) \/ Refresh(p) \/ Pass(p) \/ Limit(p)
    \/ StrikeLoad(p) \/ StrikeSave(p)

Next ==
    \/ \E p \in Proc : Arrive(p) \/ Launch(p) \/ Engine(p) \/ Forward(p)
    \/ \E S \in Victims : Kill(S)
    \/ Tick

Spec == Init /\ [][Next]_vars

\* Every process is scheduled and the upstream ends every exchange.
FairSpec == Spec /\ \A p \in Proc : WF_vars(Engine(p) \/ Forward(p))

-----------------------------------------------------------------------------
(* Properties.                                                             *)

\* The accounts that st counts a failure of, cools or revokes.
Punished(st) == {a \in Account : st.failures[a] > 0 \/ st.cool[a] > 0 \/ st.revoked[a]}

\* The accounts whose token got a 429.
Limited == {a \in Account : limits[a] > 0}

\* Nobody is punished without a failure: an account counts a failure, cools or
\* is revoked only when a request that carried its token was answered by a
\* 429, whoever switched accounts while the request was under way.
NoFalseStrike == Punished(state) \subseteq Limited

\* No 429 is held against an account twice: however the loads and saves of
\* requests and launches interleave, whoever is killed between them and
\* whichever save fails, an account counts no more failures than its token got
\* 429s.
NoDoubleStrike ==
    \A a \in Account :
        limits[a] < MaxLimits => state.failures[a] <= limits[a]

\* Every request is answered and every rotation ends, within its retries.
Answered == \A p \in Proc : pc[p] # "idle" ~> pc[p] = "idle"

AllIdle == \A p \in Proc : pc[p] = "idle"

\* Once nothing runs, the account whose token agy will read is the one the
\* status calls active.
SettledAgree == AllIdle /\ state.active # NoAccount => live = state.active

\* A reported account stays out of the rotation until its cooldown is over or
\* somebody switches to it, and for good when it was revoked.
StrikesLast ==
    [][\A a \in Account :
          /\ state.cool[a] > 0 => \/ state'.cool[a] > 0
                                  \/ state'.active = a
                                  \/ Tick
          /\ state.revoked[a] => state'.revoked[a]]_vars
=============================================================================
