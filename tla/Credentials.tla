----------------------------- MODULE Credentials -----------------------------
(***************************************************************************)
(* The tokens in the vault files and in the live file of agy.  Requests of *)
(* the proxy, the quota poller, `quota` and `doctor` read account files,   *)
(* ask Google for a new token and write back what they get; in between     *)
(* other processes do the same, switch, add, import or remove accounts.    *)
(* Of a token only its owner and the number of its refresh token matter.   *)
(***************************************************************************)
EXTENDS Naturals

CONSTANTS
    Accounts,   \* e-mail addresses
    Slugs,      \* names of account files
    slug,       \* address -> the name of its file
    Procs,      \* processes
    Roles,      \* process -> what it may be
    NoAccount,  \* no account, no file, no token
    MaxTokens   \* address -> bound on the refresh tokens that Google issues to it

Token == [owner : Accounts, number : Nat \ {0}]
Account == [email : Accounts, token : Token]

ASSUME SlugAssumption == slug \in [Accounts -> Slugs]
ASSUME NobodyAssumption ==
    NoAccount \notin Accounts /\ NoAccount \notin Token /\ NoAccount \notin Account
ASSUME TokenAssumption == MaxTokens \in [Accounts -> Nat]

Kinds == {"request", "poll", "quota", "doctor", "switch", "add", "import"}
ASSUME RoleAssumption == Roles \in [Procs -> SUBSET Kinds]

VARIABLES
    file,       \* slug -> the account in the file, or NoAccount
    live,       \* the token in agy's own file, or NoAccount
    active,     \* active_email, or NoAccount
    backup,     \* the accounts in the exported envelope
    issued,     \* address -> number of its newest refresh token
    pc,         \* process -> its next step
    kind,       \* process -> what it is
    mem,        \* process -> the account in its memory
    old,        \* process -> the token that this account had in the vault
    todo,       \* process -> accounts it has read and not come to yet
    was,        \* process -> the active_email that it loaded
    left,       \* process -> refreshes that it may still ask for
    raced       \* history: accounts of which two processes had copies at once,
                \* and those whose newest token got lost or was never known

shared == <<file, live, active, backup, issued>>
local == <<pc, kind, mem, old, todo, was, left>>
vars == <<shared, local, raced>>

Stored == {file[s] : s \in Slugs} \ {NoAccount}
\* The accounts in p's memory: an import has the envelope there all along.
Copies(p) ==
    ({mem[p]} \ {NoAccount}) \union todo[p] \union (IF kind[p] = "import" THEN backup ELSE {})
Absent(e) == file[slug[e]] = NoAccount \/ file[slug[e]].email # e
Holders(e) == {p \in Procs : \E a \in Copies(p) : a.email = e}

\* What a process is that does not run.
None == "none"

Init ==
    /\ file = [s \in Slugs |-> NoAccount]
    /\ live = NoAccount /\ active = NoAccount /\ backup = {}
    /\ issued = [e \in Accounts |-> 0]
    /\ pc = [p \in Procs |-> "idle"]
    /\ kind = [p \in Procs |-> None]
    /\ mem = [p \in Procs |-> NoAccount]
    /\ old = [p \in Procs |-> NoAccount]
    /\ todo = [p \in Procs |-> {}]
    /\ was = [p \in Procs |-> NoAccount]
    /\ left = [p \in Procs |-> 0]
    /\ raced = {}

-----------------------------------------------------------------------------
\* A slip: an account is saved under the address that is active.
SavedAsActive(a) ==
    file' = [file EXCEPT ![slug[a.email]] =
                [a EXCEPT !.email = IF active = NoAccount THEN @ ELSE active]]

\* SaveAccount and RemoveAccount: one file per slug.
SaveAccount(a) == file' = [file EXCEPT ![slug[a.email]] = a]
RemoveAccount(e) == file' = [file EXCEPT ![slug[e]] = NoAccount]

Goes(p, to) == pc' = [pc EXCEPT ![p] = to]

\* The history: two copies at a time, and what else breaks the record of an
\* account, until nobody has a copy and its file has its newest token again.
Shared(e) == \E p, q \in Holders(e) : p # q
Clean(e) == Holders(e) = {} /\ (Absent(e) \/ file[slug[e]].token.number = issued[e])
Races(lost) ==
    raced' = {e \in Accounts : Shared(e)' \/ (e \in raced \union lost /\ ~Clean(e)')}

\* p, of kind k, comes to account a of its list, and to step `to` with it.
Takes(p, k, a, rest, to) ==
    /\ kind' = [kind EXCEPT ![p] = k]
    /\ mem' = [mem EXCEPT ![p] = a]
    /\ old' = [old EXCEPT ![p] = IF k = "doctor" THEN a.token ELSE NoAccount]
    /\ todo' = [todo EXCEPT ![p] = rest]
    /\ left' = [left EXCEPT ![p] = IF k = "quota" THEN 2 ELSE 1]
    /\ Goes(p, to)

Ends(p) ==
    /\ kind' = [kind EXCEPT ![p] = None]
    /\ mem' = [mem EXCEPT ![p] = NoAccount]
    /\ old' = [old EXCEPT ![p] = NoAccount]
    /\ todo' = [todo EXCEPT ![p] = {}]
    /\ was' = [was EXCEPT ![p] = NoAccount]
    /\ left' = [left EXCEPT ![p] = 0]
    /\ Goes(p, "idle")

GoesOn(p, to) == Goes(p, to) /\ UNCHANGED <<kind, mem, old, todo, was, left>>

\* p is done with its account: it takes the next one, or ends.
NextAccount(p, to) ==
    \E a \in todo[p] : Takes(p, kind[p], a, todo[p] \ {a}, to)
Advance(p) == (NextAccount(p, "ask") /\ UNCHANGED was) \/ (todo[p] = {} /\ Ends(p))

\* A request or a poll loads the state, then the file of the active account.
Load(p, k) ==
    /\ k \in {"request", "poll"} /\ active # NoAccount
    /\ kind' = [kind EXCEPT ![p] = k]
    /\ was' = [was EXCEPT ![p] = active]
    /\ Goes(p, "read")
    /\ UNCHANGED <<shared, mem, old, todo, left>>

\* A slip: an account without a file is made up.
MakesUp(p) ==
    /\ pc[p] = "read"
    /\ Takes(p, kind[p], [email |-> was[p], token |-> [owner |-> was[p], number |-> 1]], {}, "ask")
    /\ was' = [was EXCEPT ![p] = NoAccount]
    /\ UNCHANGED shared
    /\ Races({})

Read(p) ==
    LET a == file[slug[was[p]]]
    IN /\ pc[p] = "read"
       /\ IF a = NoAccount THEN Ends(p)
          ELSE /\ Takes(p, kind[p], a, {}, "ask")
               /\ was' = [was EXCEPT ![p] = NoAccount]
       /\ UNCHANGED shared
       /\ Races({})

\* `quota` and `doctor` list all the accounts, or take the one they are asked for.
List(p, k) ==
    /\ k \in {"quota", "doctor"}
    /\ was' = [was EXCEPT ![p] = IF k = "doctor" THEN active ELSE NoAccount]
    /\ \E a \in Stored, rest \in {{}, Stored} : Takes(p, k, a, rest \ {a}, "ask")
    /\ UNCHANGED shared

\* A switch to an account that was read from the vault.
Switch(p, k) ==
    /\ k = "switch"
    /\ \E a \in Stored : Takes(p, k, a, {}, "live")
    /\ UNCHANGED <<shared, was>>

\* The user signs in to an account, which gets a new refresh token.
Add(p, k) ==
    /\ k = "add"
    /\ \E e \in Accounts :
          /\ issued[e] < MaxTokens[e]
          /\ issued' = [issued EXCEPT ![e] = @ + 1]
          /\ Takes(p, k, [email |-> e, token |-> [owner |-> e, number |-> issued'[e]]], {}, "save")
    /\ UNCHANGED <<file, live, active, backup, was>>

\* An export; the envelope is not written while another process imports it.
Export ==
    /\ Stored # {}
    /\ \A p \in Procs : kind[p] # "import"
    /\ backup' = Stored
    /\ UNCHANGED <<file, live, active, issued, local, raced>>

\* An import, which with -replace first removes the accounts that it lists.
Import(p, k) ==
    /\ k = "import" /\ backup # {}
    /\ \/ \E a \in backup : Takes(p, k, a, backup \ {a}, "save")
       \/ \E a \in Stored : Takes(p, k, a, Stored, "wipe")
    /\ UNCHANGED <<shared, was>>

\* The tokens of an envelope, and those that a wipe takes away, may be old ones.
Begin(p, k) ==
    /\ pc[p] = "idle"
    /\ Load(p, k) \/ List(p, k) \/ Switch(p, k) \/ Add(p, k) \/ Import(p, k)
    /\ Races(IF k = "import" THEN {a.email : a \in backup \union Stored} ELSE {})

Wipe(p) ==
    /\ pc[p] = "wipe"
    /\ \/ \E a \in todo[p] :
             /\ RemoveAccount(a.email)
             /\ todo' = [todo EXCEPT ![p] = @ \ {a}]
             /\ UNCHANGED <<pc, kind, mem, old, left>>
       \/ /\ todo[p] = {}
          /\ \E a \in backup : Takes(p, "import", a, backup \ {a}, "save")
          /\ UNCHANGED file
    /\ UNCHANGED <<live, active, backup, issued, was>>
    /\ Races({})

-----------------------------------------------------------------------------
\* The token is still good: only `doctor` asks for a new one all the same.
\* What `quota` fetches then may be refused, and it refreshes after all.
Skip(p) ==
    /\ pc[p] = "ask" /\ kind[p] # "doctor"
    /\ \/ Advance(p)
       \/ /\ left[p] > 1
          /\ left' = [left EXCEPT ![p] = 1]
          /\ UNCHANGED <<pc, kind, mem, old, todo, was>>
    /\ UNCHANGED shared
    /\ Races({})

\* A slip: the new refresh token is not taken over.
KeepsOldToken(p) ==
    LET e == mem[p].token.owner
    IN /\ pc[p] = "ask" /\ issued[e] < MaxTokens[e]
       /\ issued' = [issued EXCEPT ![e] = @ + 1]
       /\ left' = [left EXCEPT ![p] = @ - 1]
       /\ Goes(p, "save")
       /\ UNCHANGED <<file, live, active, backup, kind, mem, old, todo, was>>
       /\ Races({})

\* Google answers with an access token, and a new refresh token or none.
Refresh(p) ==
    LET e == mem[p].token.owner
    IN /\ pc[p] = "ask"
       /\ \/ /\ issued[e] < MaxTokens[e]
             /\ issued' = [issued EXCEPT ![e] = @ + 1]
             /\ mem' = [mem EXCEPT ![p].token.number = issued'[e]]
          \/ UNCHANGED <<issued, mem>>
       /\ left' = [left EXCEPT ![p] = @ - 1]
       /\ Goes(p, "save")
       /\ UNCHANGED <<file, live, active, backup, kind, old, todo, was>>
       /\ Races({})

\* Google refuses, or cannot be reached.
Refused(p) ==
    /\ pc[p] = "ask"
    /\ Advance(p)
    /\ UNCHANGED shared
    /\ Races({})

\* doctor -fix removes an account whose token is revoked, and saves the state
\* as it had loaded it.
Prune(p) ==
    LET e == mem[p].email
    IN /\ pc[p] = "ask" /\ kind[p] = "doctor"
       /\ RemoveAccount(e)
       /\ active' = IF was[p] = e THEN NoAccount ELSE was[p]
       /\ \/ NextAccount(p, "ask") /\ was' = [was EXCEPT ![p] = active']
          \/ todo[p] = {} /\ Ends(p)
       /\ UNCHANGED <<live, backup, issued>>
       /\ Races({})

\* A slip: `quota` asks again as often as it is refused.
AsksForever(p, saved) ==
    IF kind[p] = "quota" THEN GoesOn(p, "ask") ELSE GoesOn(p, "live")

\* A save fails: a sign-in and doctor give up, the others go on.  After it a
\* request and a sign-in write the live file, and so does doctor for the account
\* that was active; `quota` may fetch with the new token, or ask once more.
AfterSave(p, saved) ==
    \/ kind[p] = "request" /\ GoesOn(p, "live")
    \/ kind[p] = "poll" /\ Ends(p)
    \/ kind[p] = "add" /\ IF saved THEN GoesOn(p, "live") ELSE Ends(p)
    \/ /\ kind[p] = "doctor"
       /\ IF ~saved THEN Ends(p)
          ELSE IF was[p] = mem[p].email THEN GoesOn(p, "check") ELSE Advance(p)
    \/ kind[p] = "quota" /\ (Advance(p) \/ (left[p] > 0 /\ GoesOn(p, "ask")))
    \/ /\ kind[p] = "import"
       /\ \/ NextAccount(p, "save") /\ UNCHANGED was
          \/ todo[p] = {} /\ active # NoAccount /\ Ends(p)
          \/ /\ todo[p] = {} /\ active = NoAccount
             /\ \E a \in backup : Takes(p, "import", a, {}, "live")
             /\ UNCHANGED was

\* A slip: a refreshed account goes to the live file alone.
SavesLiveOnly(p) ==
    /\ pc[p] = "save"
    /\ UNCHANGED <<live, active, backup, issued>>
    /\ IF kind[p] = "request" THEN UNCHANGED file ELSE SaveAccount(mem[p])
    /\ AfterSave(p, TRUE)
    /\ Races({})

Save(p) ==
    /\ pc[p] = "save"
    /\ UNCHANGED <<live, active, backup, issued>>
    /\ \/ SaveAccount(mem[p]) /\ AfterSave(p, TRUE) /\ Races({})
       \/ UNCHANGED file /\ AfterSave(p, FALSE) /\ Races({mem[p].email})

\* doctor writes the live file only when that has the token it refreshed.
Check(p) ==
    /\ pc[p] = "check"
    /\ IF live \in {NoAccount, old[p]} THEN GoesOn(p, "live") ELSE Advance(p)
    /\ UNCHANGED shared
    /\ Races({})

\* WriteTokenFile; if it fails Activate ends there, and the others go on.
WriteLive(p) ==
    /\ pc[p] = "live"
    /\ IF kind[p] \in {"add", "switch", "import"}
       THEN \/ live' = mem[p].token /\ GoesOn(p, "note")
            \/ UNCHANGED live /\ Ends(p)
       ELSE Advance(p) /\ live' \in {mem[p].token, live}
    /\ UNCHANGED <<file, active, backup, issued>>
    /\ Races({})

\* Activate's second half: the account is the active one.
Note(p) ==
    /\ pc[p] = "note"
    /\ active' = mem[p].email
    /\ Ends(p)
    /\ UNCHANGED <<file, live, backup, issued>>
    /\ Races({})

\* A process is killed: a token that it had not saved is lost.
Kill(p) ==
    /\ pc[p] # "idle"
    /\ Ends(p)
    /\ UNCHANGED shared
    /\ Races(IF pc[p] = "save" THEN {mem[p].email} ELSE {})

\* The remove command; its state file is that of Rotation.
Remove(e) ==
    /\ RemoveAccount(e)
    /\ active' = IF active = e THEN NoAccount ELSE active
    /\ UNCHANGED <<live, backup, issued, local>>
    /\ Races({})

\* agy refreshes the token of its own file: the vault does not hear of it.
AgyRefreshes ==
    /\ live # NoAccount
    /\ LET e == live.owner
       IN /\ issued[e] < MaxTokens[e]
          /\ issued' = [issued EXCEPT ![e] = @ + 1]
          /\ live' = [owner |-> e, number |-> issued'[e]]
    /\ UNCHANGED <<file, active, backup, local>>
    /\ Races({live.owner})

Go(p) ==
    \/ Read(p) \/ Wipe(p) \/ Skip(p) \/ Refresh(p) \/ Refused(p) \/ Prune(p)
    \/ Save(p) \/ Check(p) \/ WriteLive(p) \/ Note(p) \/ Kill(p)

Next ==
    \/ \E p \in Procs : Go(p) \/ \E k \in Roles[p] : Begin(p, k)
    \/ \E e \in Accounts : Remove(e)
    \/ Export
    \/ AgyRefreshes

Spec == Init /\ [][Next]_vars

-----------------------------------------------------------------------------
Steps == {"idle", "read", "ask", "wipe", "save", "check", "live", "note"}

TypeOK ==
    /\ file \in [Slugs -> Account \union {NoAccount}]
    /\ live \in Token \union {NoAccount}
    /\ active \in Accounts \union {NoAccount}
    /\ backup \subseteq Account
    /\ issued \in [Accounts -> Nat]
    /\ pc \in [Procs -> Steps]
    /\ kind \in [Procs -> Kinds \union {None}]
    /\ mem \in [Procs -> Account \union {NoAccount}]
    /\ old \in [Procs -> Token \union {NoAccount}]
    /\ todo \in [Procs -> SUBSET Account]
    /\ was \in [Procs -> Accounts \union {NoAccount}]
    /\ left \in [Procs -> 0 .. 2]
    /\ raced \subseteq Accounts

\* No interleaving stores one account's token as another's: every account file
\* has the name of its account, and a token of that account (store.go:189-214,
\* proxy.go:379-396), even where two addresses share a file name.
OwnFile ==
    \A s \in Slugs : file[s] # NoAccount =>
        slug[file[s].email] = s /\ file[s].token.owner = file[s].email

\* An account that is in no file and of which no process has a copy does not
\* come back but by a sign-in or an import: a late write brings back only what
\* was removed under its writer's hands (proxy.go:381-395, main.go:243-268).
NoGhost ==
    [][\A e \in Accounts : Absent(e) /\ Holders(e) = {} =>
          /\ Absent(e)'
          /\ \A p \in Holders(e)' : kind'[p] \in {"add", "import"}]_vars

\* The newest refresh token of an account that has a file is in that file, or
\* its process is about to save it, whoever refreshed it and whichever other
\* accounts were refreshed, switched or removed meanwhile; excused are accounts
\* that two processes had in hand at once, that were imported, refreshed by agy,
\* or whose save failed (proxy.go:390-395, watch.go:162-169, main.go:394-417).
NewestKept ==
    \A e \in Accounts \ raced :
        \/ Absent(e)
        \/ file[slug[e]].token.number = issued[e]
        \/ \E p \in Procs : /\ pc[p] = "save" /\ mem[p].email = e
                            /\ mem[p].token.number = issued[e]

\* The live file does not go back to an older token of the account it has:
\* whoever writes it last took its token from the vault (engine.go:124-128,
\* proxy.go:396, main.go:331-338).
LiveForward ==
    [][live # NoAccount /\ live' # NoAccount /\ live'.owner = live.owner
         /\ live.owner \notin raced \union raced' => live'.number >= live.number]_vars

\* The documented behaviour: doctor refreshes "the live file too, but only if
\* we won't clobber newer state" (main.go:330).
NeverClobbers ==
    [][\A p \in Procs : pc[p] = "live" /\ kind[p] = "doctor" /\ live' # live /\ pc'[p] # "live"
          => live \in {NoAccount, old[p]}]_vars
=============================================================================
