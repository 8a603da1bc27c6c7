------------------------------ MODULE CredProofs ------------------------------
(***************************************************************************)
(* Proofs about the credentials, for any accounts, file names, processes   *)
(* and numbers of tokens: no account's token gets into another's file, and *)
(* an account that is gone does not come back by itself.                   *)
(***************************************************************************)
EXTENDS Credentials, TLAPS

\* Accounts that have a token of their own.  All accounts in files, in the
\* envelope and in the memory of processes are: that makes OwnFile inductive.
Owned == {a \in Account : a.token.owner = a.email}

FilesOK ==
    /\ file \in [Slugs -> Owned \union {NoAccount}]
    /\ \A s \in Slugs : file[s] # NoAccount => slug[file[s].email] = s

SharedOK ==
    /\ FilesOK
    /\ live \in Token \union {NoAccount}
    /\ active \in Accounts \union {NoAccount}
    /\ backup \subseteq Owned
    /\ issued \in [Accounts -> Nat]

\* The steps for which a process needs an account in memory.
Busy == {"ask", "save", "check", "live", "note"}

LocalOK ==
    /\ pc \in [Procs -> Steps]
    /\ kind \in [Procs -> Kinds \union {None}]
    /\ mem \in [Procs -> Owned \union {NoAccount}]
    /\ old \in [Procs -> Token \union {NoAccount}]
    /\ todo \in [Procs -> SUBSET Owned]
    /\ was \in [Procs -> Accounts \union {NoAccount}]
    /\ left \in [Procs -> 0 .. 2]
    /\ \A p \in Procs : /\ pc[p] \in Busy => mem[p] \in Owned
                        /\ pc[p] = "read" => was[p] \in Accounts
                        /\ pc[p] = "ask" => left[p] > 0

Inv == SharedOK /\ LocalOK /\ raced \subseteq Accounts

-----------------------------------------------------------------------------
(* The ways in which a process goes on.                                    *)

LEMMA OwnedParts ==
    /\ \A a \in Owned : /\ a \in Account /\ a.email \in Accounts /\ a.token \in Token
                        /\ a.token.owner = a.email
    /\ NoAccount \notin Owned
BY NobodyAssumption DEF Owned, Account

LEMMA StoredOwned == SharedOK => Stored \subseteq Owned
BY DEF SharedOK, FilesOK, Stored

LEMMA TakesOK ==
    ASSUME LocalOK, NEW p \in Procs, NEW k \in Kinds \union {None}, NEW a \in Owned, NEW rest \in SUBSET Owned,
           NEW to \in Steps \ {"read"}, Takes(p, k, a, rest, to),
           was' \in [Procs -> Accounts \union {NoAccount}],
           \A q \in Procs \ {p} : was'[q] = was[q]
    PROVE  LocalOK'
<1>1. a.token \in Token
  BY OwnedParts
<1>2. /\ pc' \in [Procs -> Steps] /\ kind' \in [Procs -> Kinds \union {None}]
      /\ mem' \in [Procs -> Owned \union {NoAccount}]
      /\ old' \in [Procs -> Token \union {NoAccount}]
      /\ todo' \in [Procs -> SUBSET Owned]
      /\ left' \in [Procs -> 0 .. 2]
  BY <1>1 DEF Takes, Goes, LocalOK
<1>3. /\ pc'[p] = to /\ mem'[p] = a /\ left'[p] > 0
      /\ \A q \in Procs \ {p} : pc'[q] = pc[q] /\ mem'[q] = mem[q] /\ left'[q] = left[q]
  BY DEF Takes, Goes, LocalOK
<1> QED
  BY <1>2, <1>3 DEF LocalOK

LEMMA EndsOK ==
    ASSUME LocalOK, NEW p \in Procs, Ends(p)
    PROVE  LocalOK'
<1>1. /\ pc' \in [Procs -> Steps] /\ kind' \in [Procs -> Kinds \union {None}]
      /\ mem' \in [Procs -> Owned \union {NoAccount}]
      /\ old' \in [Procs -> Token \union {NoAccount}]
      /\ todo' \in [Procs -> SUBSET Owned]
      /\ was' \in [Procs -> Accounts \union {NoAccount}]
      /\ left' \in [Procs -> 0 .. 2]
  BY DEF Ends, Goes, LocalOK, Steps
<1>2. /\ pc'[p] = "idle"
      /\ \A q \in Procs \ {p} : /\ pc'[q] = pc[q] /\ mem'[q] = mem[q]
                                /\ left'[q] = left[q] /\ was'[q] = was[q]
  BY DEF Ends, Goes, LocalOK
<1> QED
  BY <1>1, <1>2 DEF LocalOK, Busy

LEMMA GoesOnOK ==
    ASSUME LocalOK, NEW p \in Procs, NEW to \in Busy, GoesOn(p, to), mem[p] \in Owned,
           to = "ask" => left[p] > 0
    PROVE  LocalOK'
<1>1. pc' = [pc EXCEPT ![p] = to] /\ UNCHANGED <<kind, mem, old, todo, was, left>>
  BY DEF GoesOn, Goes
<1>2. pc' \in [Procs -> Steps] /\ pc'[p] = to /\ \A q \in Procs \ {p} : pc'[q] = pc[q]
  BY <1>1 DEF LocalOK, Busy, Steps
<1> QED
  BY <1>1, <1>2 DEF LocalOK, Busy

LEMMA NextOK ==
    ASSUME LocalOK, NEW p \in Procs, NEW to \in Steps \ {"read"}, NextAccount(p, to),
           was' \in [Procs -> Accounts \union {NoAccount}],
           \A q \in Procs \ {p} : was'[q] = was[q]
    PROVE  LocalOK'
<1>1. PICK a \in todo[p] : Takes(p, kind[p], a, todo[p] \ {a}, to)
  BY DEF NextAccount
<1>2. a \in Owned /\ todo[p] \ {a} \in SUBSET Owned
  BY DEF LocalOK
<1>3. kind[p] \in Kinds \union {None}
  BY DEF LocalOK
<1> QED
  BY <1>1, <1>2, <1>3, TakesOK

LEMMA AdvanceOK ==
    ASSUME LocalOK, NEW p \in Procs, Advance(p)
    PROVE  LocalOK'
<1>1. CASE NextAccount(p, "ask") /\ UNCHANGED was
  <2>1. was' = was /\ was \in [Procs -> Accounts \union {NoAccount}] /\ "ask" \in Steps \ {"read"}
    BY <1>1 DEF LocalOK, Steps
  <2> QED
    BY <1>1, <2>1, NextOK
<1>2. CASE Ends(p)
  BY <1>2, EndsOK
<1> QED
  BY <1>1, <1>2 DEF Advance

LEMMA SaveAccountOK ==
    ASSUME FilesOK, NEW a \in Owned, SaveAccount(a)
    PROVE  FilesOK'
<1>1. slug[a.email] \in Slugs /\ a # NoAccount
  BY OwnedParts, SlugAssumption
<1>2. file' = [file EXCEPT ![slug[a.email]] = a]
  BY DEF SaveAccount
<1> QED
  BY <1>1, <1>2 DEF FilesOK

LEMMA RemoveAccountOK ==
    ASSUME FilesOK, NEW e, RemoveAccount(e)
    PROVE  FilesOK'
BY DEF FilesOK, RemoveAccount

-----------------------------------------------------------------------------
(* Every action keeps the invariant.                                       *)

LEMMA BeginOK ==
    ASSUME Inv, NEW p \in Procs, NEW k \in Kinds, Begin(p, k)
    PROVE  SharedOK' /\ LocalOK'
<1> USE DEF Inv
<1>1. CASE Load(p, k)
  <2>1. UNCHANGED shared
    BY <1>1 DEF Load
  <2>2. SharedOK'
    BY <2>1 DEF SharedOK, FilesOK, shared
  <2>3. active \in Accounts
    BY <1>1 DEF Load, SharedOK
  <2>4. /\ kind' = [kind EXCEPT ![p] = k] /\ was' = [was EXCEPT ![p] = active]
        /\ pc' = [pc EXCEPT ![p] = "read"]
        /\ UNCHANGED <<mem, old, todo, left>>
    BY <1>1 DEF Load, Goes
  <2>5. LocalOK'
    BY <2>3, <2>4 DEF LocalOK, Busy, Steps
  <2> QED
    BY <2>2, <2>5
<1>2. CASE List(p, k)
  <2>1. PICK a \in Stored, rest \in {{}, Stored} : Takes(p, k, a, rest \ {a}, "ask")
    BY <1>2 DEF List
  <2>2. a \in Owned /\ rest \ {a} \in SUBSET Owned
    BY StoredOwned
  <2>3. /\ was' \in [Procs -> Accounts \union {NoAccount}]
        /\ \A q \in Procs \ {p} : was'[q] = was[q]
    BY <1>2 DEF List, LocalOK, SharedOK
  <2>4. LocalOK'
    BY <2>1, <2>2, <2>3, TakesOK DEF Steps
  <2> QED
    BY <1>2, <2>4 DEF List, SharedOK, FilesOK, shared
<1>3. CASE Switch(p, k)
  <2>1. PICK a \in Stored : Takes(p, k, a, {}, "live")
    BY <1>3 DEF Switch
  <2>2. a \in Owned /\ was' = was
    BY <1>3, StoredOwned DEF Switch
  <2>3. LocalOK'
    BY <2>1, <2>2, TakesOK DEF LocalOK, Steps
  <2> QED
    BY <1>3, <2>3 DEF Switch, SharedOK, FilesOK, shared
<1>4. CASE Add(p, k)
  <2>1. PICK e \in Accounts :
          /\ issued' = [issued EXCEPT ![e] = @ + 1]
          /\ Takes(p, k, [email |-> e, token |-> [owner |-> e, number |-> issued'[e]]], {}, "save")
    BY <1>4 DEF Add
  <2>2. issued' \in [Accounts -> Nat] /\ issued'[e] \in Nat \ {0}
    BY <2>1 DEF SharedOK
  <2>3. [email |-> e, token |-> [owner |-> e, number |-> issued'[e]]] \in Owned
    BY <2>2 DEF Owned, Account, Token
  <2>4. was' = was
    BY <1>4 DEF Add
  <2>5. LocalOK'
    BY <2>1, <2>3, <2>4, TakesOK DEF LocalOK, Steps
  <2> QED
    BY <1>4, <2>2, <2>5 DEF Add, SharedOK, FilesOK
<1>5. CASE Import(p, k)
  <2>1. SharedOK' /\ was' = was
    BY <1>5 DEF Import, SharedOK, FilesOK, shared
  <2>2. CASE \E a \in backup : Takes(p, k, a, backup \ {a}, "save")
    <3>1. backup \subseteq Owned
      BY DEF SharedOK
    <3> QED
      BY <2>1, <2>2, <3>1, TakesOK DEF LocalOK, Steps
  <2>3. CASE \E a \in Stored : Takes(p, k, a, Stored, "wipe")
    BY <2>1, <2>3, StoredOwned, TakesOK DEF LocalOK, Steps
  <2> QED
    BY <1>5, <2>1, <2>2, <2>3 DEF Import
<1> QED
  BY <1>1, <1>2, <1>3, <1>4, <1>5 DEF Begin

LEMMA ReadOK ==
    ASSUME Inv, NEW p \in Procs, Read(p)
    PROVE  SharedOK' /\ LocalOK'
<1>1. SharedOK'
  BY DEF Inv, Read, SharedOK, FilesOK, shared
<1>2. LocalOK /\ SharedOK /\ was[p] \in Accounts
  BY DEF Inv, Read, LocalOK
<1>3. slug[was[p]] \in Slugs
  BY <1>2, SlugAssumption
<1>4. CASE file[slug[was[p]]] = NoAccount
  BY <1>1, <1>2, <1>4, EndsOK DEF Read
<1>5. CASE file[slug[was[p]]] # NoAccount
  <2>1. file[slug[was[p]]] \in Owned
    BY <1>2, <1>3, <1>5 DEF SharedOK, FilesOK
  <2>2. /\ Takes(p, kind[p], file[slug[was[p]]], {}, "ask")
        /\ was' = [was EXCEPT ![p] = NoAccount] /\ kind[p] \in Kinds \union {None}
    BY <1>2, <1>5 DEF Read, LocalOK
  <2>3. /\ was' \in [Procs -> Accounts \union {NoAccount}]
        /\ \A q \in Procs \ {p} : was'[q] = was[q]
    BY <1>2, <2>2 DEF LocalOK
  <2> QED
    BY <1>1, <1>2, <2>1, <2>2, <2>3, TakesOK DEF Steps
<1> QED
  BY <1>4, <1>5

LEMMA WipeOK ==
    ASSUME Inv, NEW p \in Procs, Wipe(p)
    PROVE  SharedOK' /\ LocalOK'
<1>1. SharedOK /\ LocalOK /\ UNCHANGED <<live, active, backup, issued, was>>
  BY DEF Inv, Wipe
<1>2. CASE \E a \in todo[p] : /\ RemoveAccount(a.email)
                              /\ todo' = [todo EXCEPT ![p] = @ \ {a}]
                              /\ UNCHANGED <<pc, kind, mem, old, left>>
  <2>1. FilesOK'
    BY <1>1, <1>2, RemoveAccountOK DEF SharedOK
  <2> QED
    BY <1>1, <1>2, <2>1 DEF SharedOK, LocalOK
<1>3. CASE (\E a \in backup : Takes(p, "import", a, backup \ {a}, "save")) /\ UNCHANGED file
  <2>1. LocalOK'
    BY <1>1, <1>3, TakesOK DEF LocalOK, SharedOK, Steps, Kinds
  <2> QED
    BY <1>1, <1>3, <2>1 DEF SharedOK, FilesOK
<1> QED
  BY <1>2, <1>3 DEF Wipe

LEMMA AskOK ==
    ASSUME Inv, NEW p \in Procs, Skip(p) \/ Refused(p)
    PROVE  SharedOK' /\ LocalOK'
<1>1. SharedOK /\ LocalOK /\ UNCHANGED shared
  BY DEF Inv, Skip, Refused
<1>2. SharedOK'
  BY <1>1 DEF SharedOK, FilesOK, shared
<1>3. CASE Advance(p)
  BY <1>1, <1>2, <1>3, AdvanceOK
<1>4. CASE left' = [left EXCEPT ![p] = 1] /\ UNCHANGED <<pc, kind, mem, old, todo, was>>
  BY <1>1, <1>2, <1>4 DEF LocalOK
<1> QED
  BY <1>3, <1>4 DEF Skip, Refused

LEMMA RefreshOK ==
    ASSUME Inv, NEW p \in Procs, Refresh(p)
    PROVE  SharedOK' /\ LocalOK'
<1> DEFINE e == mem[p].token.owner
<1>1. SharedOK /\ LocalOK /\ UNCHANGED <<file, live, active, backup, kind, old, todo, was>>
  BY DEF Inv, Refresh
<1>2. mem[p] \in Owned /\ left[p] \in 1 .. 2
  BY <1>1 DEF Refresh, LocalOK, Busy
<1>3. e \in Accounts
  BY <1>2, OwnedParts DEF Account
<1>4. issued' \in [Accounts -> Nat] /\ mem' \in [Procs -> Owned \union {NoAccount}] /\ mem'[p] \in Owned
      /\ \A q \in Procs \ {p} : mem'[q] = mem[q]
  <2>1. CASE UNCHANGED <<issued, mem>>
    BY <1>1, <1>2, <2>1 DEF SharedOK, LocalOK
  <2>2. CASE /\ issued' = [issued EXCEPT ![e] = @ + 1]
             /\ mem' = [mem EXCEPT ![p].token.number = issued'[e]]
    <3>1. issued' \in [Accounts -> Nat] /\ issued'[e] \in Nat \ {0}
      BY <1>1, <1>3, <2>2 DEF SharedOK
    <3>2. [mem[p] EXCEPT !.token.number = issued'[e]] \in Owned
      BY <1>2, <3>1 DEF Owned, Account, Token
    <3>3. mem' = [mem EXCEPT ![p] = [mem[p] EXCEPT !.token.number = issued'[e]]]
      BY <1>1, <2>2 DEF LocalOK
    <3> QED
      BY <1>1, <3>1, <3>2, <3>3 DEF LocalOK
  <2> QED
    BY <2>1, <2>2 DEF Refresh
<1>5. /\ left' = [left EXCEPT ![p] = @ - 1] /\ pc' = [pc EXCEPT ![p] = "save"]
  BY DEF Refresh, Goes
<1>6. left' \in [Procs -> 0 .. 2] /\ \A q \in Procs \ {p} : left'[q] = left[q] /\ pc'[q] = pc[q]
  BY <1>1, <1>2, <1>5 DEF LocalOK
<1>7. pc' \in [Procs -> Steps] /\ pc'[p] = "save"
  BY <1>1, <1>5 DEF LocalOK, Steps
<1>8. LocalOK'
  BY <1>1, <1>4, <1>6, <1>7 DEF LocalOK
<1> QED
  BY <1>1, <1>4, <1>8 DEF SharedOK, FilesOK

LEMMA PruneOK ==
    ASSUME Inv, NEW p \in Procs, Prune(p)
    PROVE  SharedOK' /\ LocalOK'
<1>1. /\ SharedOK /\ LocalOK /\ UNCHANGED <<live, backup, issued>>
      /\ RemoveAccount(mem[p].email)
      /\ active' = IF was[p] = mem[p].email THEN NoAccount ELSE was[p]
  BY DEF Inv, Prune
<1>2. FilesOK'
  BY <1>1, RemoveAccountOK DEF SharedOK
<1>3. active' \in Accounts \union {NoAccount}
  BY <1>1 DEF LocalOK
<1>4. SharedOK'
  BY <1>1, <1>2, <1>3 DEF SharedOK
<1>5. CASE NextAccount(p, "ask") /\ was' = [was EXCEPT ![p] = active']
  <2>1. /\ was' \in [Procs -> Accounts \union {NoAccount}]
        /\ \A q \in Procs \ {p} : was'[q] = was[q]
    BY <1>1, <1>3, <1>5 DEF LocalOK
  <2> QED
    BY <1>1, <1>4, <1>5, <2>1, NextOK DEF Steps
<1>6. CASE Ends(p)
  BY <1>1, <1>4, <1>6, EndsOK
<1> QED
  BY <1>5, <1>6 DEF Prune

LEMMA AfterSaveOK ==
    ASSUME SharedOK, LocalOK, NEW p \in Procs, pc[p] \in Busy, NEW saved \in BOOLEAN,
           AfterSave(p, saved), UNCHANGED <<active, backup>>
    PROVE  LocalOK'
<1>1. mem[p] \in Owned /\ was \in [Procs -> Accounts \union {NoAccount}]
  BY DEF LocalOK
<1>2. ASSUME NEW to \in {"live", "check"}, GoesOn(p, to) PROVE LocalOK'
  BY <1>1, <1>2, GoesOnOK DEF Busy
<1>3. CASE Ends(p)
  BY <1>3, EndsOK
<1>4. CASE Advance(p)
  BY <1>4, AdvanceOK
<1>5. CASE left[p] > 0 /\ GoesOn(p, "ask")
  BY <1>1, <1>5, GoesOnOK DEF Busy
<1>6. CASE NextAccount(p, "save") /\ UNCHANGED was
  BY <1>1, <1>6, NextOK DEF Steps
<1>7. CASE (\E a \in backup : Takes(p, "import", a, {}, "live")) /\ UNCHANGED was
  BY <1>1, <1>7, TakesOK DEF SharedOK, Steps, Kinds
<1> QED
  BY <1>2, <1>3, <1>4, <1>5, <1>6, <1>7 DEF AfterSave

LEMMA SaveOK ==
    ASSUME Inv, NEW p \in Procs, Save(p)
    PROVE  SharedOK' /\ LocalOK'
<1>1. SharedOK /\ LocalOK /\ UNCHANGED <<live, active, backup, issued>> /\ pc[p] \in Busy
  BY DEF Inv, Save, Busy
<1>2. mem[p] \in Owned
  BY <1>1 DEF LocalOK
<1>3. LocalOK'
  BY <1>1, AfterSaveOK DEF Save
<1>4. FilesOK'
  <2>1. CASE SaveAccount(mem[p])
    BY <1>1, <1>2, <2>1, SaveAccountOK DEF SharedOK
  <2>2. CASE UNCHANGED file
    BY <1>1, <2>2 DEF SharedOK, FilesOK
  <2> QED
    BY <2>1, <2>2 DEF Save
<1> QED
  BY <1>1, <1>3, <1>4 DEF SharedOK

LEMMA ActivationOK ==
    ASSUME Inv, NEW p \in Procs, Check(p) \/ WriteLive(p) \/ Note(p)
    PROVE  SharedOK' /\ LocalOK'
<1>1. SharedOK /\ LocalOK /\ UNCHANGED <<file, backup, issued>> /\ pc[p] \in Busy
  BY DEF Inv, Check, WriteLive, Note, Busy, shared
<1>2. mem[p] \in Owned
  BY <1>1 DEF LocalOK
<1>3. mem[p].token \in Token /\ mem[p].email \in Accounts
  BY <1>2, OwnedParts
<1>4. live' \in {live, mem[p].token} /\ active' \in {active, mem[p].email}
  BY DEF Check, WriteLive, Note, shared
<1>5. SharedOK'
  BY <1>1, <1>3, <1>4 DEF SharedOK, FilesOK
<1>6. ASSUME NEW to \in {"live", "note"}, GoesOn(p, to) PROVE LocalOK'
  BY <1>1, <1>2, <1>6, GoesOnOK DEF Busy
<1>7. CASE Ends(p) \/ Advance(p)
  BY <1>1, <1>5, <1>7, EndsOK, AdvanceOK
<1>8. GoesOn(p, "live") \/ GoesOn(p, "note") \/ Ends(p) \/ Advance(p)
  BY DEF Check, WriteLive, Note
<1> QED
  BY <1>5, <1>6, <1>7, <1>8

LEMMA OthersOK ==
    ASSUME Inv, Export \/ AgyRefreshes \/ (\E e \in Accounts : Remove(e)) \/ UNCHANGED vars
    PROVE  SharedOK' /\ LocalOK'
<1>1. SharedOK /\ LocalOK /\ UNCHANGED local
  BY DEF Inv, Export, AgyRefreshes, Remove, vars
<1>2. LocalOK'
  BY <1>1 DEF LocalOK, local
<1>3. CASE Export
  BY <1>1, <1>2, <1>3, StoredOwned DEF Export, SharedOK, FilesOK
<1>4. CASE AgyRefreshes
  <2> DEFINE e == live.owner
  <2>1. live \in Token /\ e \in Accounts
    BY <1>1, <1>4 DEF AgyRefreshes, SharedOK, Token
  <2>2. /\ issued' = [issued EXCEPT ![e] = @ + 1]
        /\ live' = [owner |-> e, number |-> issued'[e]]
        /\ UNCHANGED <<file, active, backup>>
    BY <1>4 DEF AgyRefreshes
  <2>3. issued' \in [Accounts -> Nat] /\ issued'[e] \in Nat \ {0}
    BY <1>1, <2>1, <2>2 DEF SharedOK
  <2>4. live' \in Token
    BY <2>1, <2>2, <2>3 DEF Token
  <2> QED
    BY <1>1, <1>2, <2>2, <2>3, <2>4 DEF SharedOK, FilesOK
<1>5. ASSUME NEW e \in Accounts, Remove(e) PROVE SharedOK'
  <2>1. FilesOK'
    BY <1>1, <1>5, RemoveAccountOK DEF Remove, SharedOK
  <2> QED
    BY <1>1, <1>5, <2>1 DEF Remove, SharedOK
<1>6. CASE UNCHANGED vars
  BY <1>1, <1>2, <1>6 DEF vars, shared, SharedOK, FilesOK
<1> QED
  BY <1>2, <1>3, <1>4, <1>5, <1>6

LEMMA InitInv == Init => Inv
BY NobodyAssumption DEF Init, Inv, SharedOK, FilesOK, LocalOK, Steps, Busy

LEMMA RacedOK == Inv /\ [Next]_vars => (raced \subseteq Accounts)'
<1> SUFFICES ASSUME Inv, [Next]_vars PROVE raced' \subseteq Accounts
  OBVIOUS
<1>1. CASE UNCHANGED vars
  BY <1>1 DEF vars, Inv
<1>2. CASE \E lost : Races(lost)
  BY <1>2 DEF Races
<1>3. CASE Export \/ \E p \in Procs, k \in Kinds : Begin(p, k)
  BY <1>2, <1>3 DEF Export, Begin, Inv
<1>4. ASSUME NEW p \in Procs, Go(p) PROVE raced' \subseteq Accounts
  BY <1>2, <1>4 DEF Go, Read, Wipe, Skip, Refresh, Refused, Prune, Save, Check, WriteLive, Note, Kill
<1>5. CASE AgyRefreshes \/ \E e \in Accounts : Remove(e)
  BY <1>2, <1>5 DEF AgyRefreshes, Remove
<1> QED
  BY <1>1, <1>3, <1>4, <1>5, RoleAssumption DEF Next

LEMMA StepInv == Inv /\ [Next]_vars => Inv'
<1> SUFFICES ASSUME Inv, [Next]_vars PROVE Inv'
  OBVIOUS
<1>1. ASSUME NEW p \in Procs, NEW k \in Roles[p], Begin(p, k) PROVE SharedOK' /\ LocalOK'
  <2>1. k \in Kinds
    BY RoleAssumption
  <2> QED
    BY <1>1, <2>1, BeginOK
<1>2. ASSUME NEW p \in Procs, Go(p) PROVE SharedOK' /\ LocalOK'
  <2>1. CASE Kill(p)
    BY <2>1, EndsOK DEF Inv, Kill, SharedOK, FilesOK, shared
  <2> QED
    BY <1>2, <2>1, ReadOK, WipeOK, AskOK, RefreshOK, PruneOK, SaveOK, ActivationOK DEF Go
<1>3. SharedOK' /\ LocalOK'
  BY <1>1, <1>2, OthersOK DEF Next
<1> QED
  BY <1>3, RacedOK DEF Inv

\* Types, for any accounts, file names and processes.
THEOREM CredentialTypes == Spec => []TypeOK
<1>1. Inv => TypeOK
  BY OwnedParts DEF Inv, SharedOK, FilesOK, LocalOK, TypeOK
<1> QED
  BY <1>1, InitInv, StepInv, PTL DEF Spec

\* No account's token gets into the file of another, in whatever order the
\* processes read, refresh, switch and write, and also where addresses share a
\* file name.
THEOREM TokensStayOwn == Spec => []OwnFile
<1>1. Inv => OwnFile
  BY DEF Inv, SharedOK, FilesOK, OwnFile, Owned
<1> QED
  BY <1>1, InitInv, StepInv, PTL DEF Spec

-----------------------------------------------------------------------------
(* NoGhost: e is in no file and in no memory.                              *)

Gone(e) == Absent(e) /\ Holders(e) = {}
Brought(e) == \A p \in Holders(e) : kind[p] \in {"add", "import"}

LEMMA GoneMeans ==
    ASSUME Inv, NEW e \in Accounts, Gone(e)
    PROVE  /\ \A a \in Stored : a.email # e
           /\ \A p \in Procs : /\ mem[p] # NoAccount => mem[p].email # e
                               /\ \A a \in todo[p] : a.email # e
                               /\ kind[p] = "import" => \A a \in backup : a.email # e
<1>1. \A a \in Stored : a.email # e
  BY DEF Inv, SharedOK, FilesOK, Stored, Gone, Absent
<1>2. ASSUME NEW p \in Procs PROVE \A a \in Copies(p) : a.email # e
  BY DEF Gone, Holders
<1> QED
  BY <1>1, <1>2 DEF Copies

\* What a step that takes no account out of a file or an envelope leaves.
LEMMA ShrinkHeld ==
    ASSUME Inv, NEW e \in Accounts, Gone(e),
           \A q \in Procs :
              /\ mem'[q] # NoAccount => mem[q] # NoAccount /\ mem'[q].email = mem[q].email
              /\ todo'[q] \subseteq todo[q]
              /\ kind'[q] = "import" => kind[q] = "import" /\ backup' = backup
    PROVE  Brought(e)'
<1>1. ASSUME NEW q \in Procs, NEW a \in Copies(q)' PROVE a.email # e
  <2>1. CASE a = mem'[q] /\ a # NoAccount
    BY <2>1, GoneMeans
  <2>2. CASE a \in todo'[q]
    BY <2>2, GoneMeans
  <2>3. CASE kind'[q] = "import" /\ a \in backup'
    BY <2>3, GoneMeans
  <2> QED
    BY <1>1, <2>1, <2>2, <2>3 DEF Copies
<1> QED
  BY <1>1 DEF Brought, Holders

LEMMA TakesHeld ==
    ASSUME Inv, NEW e \in Accounts, Gone(e), UNCHANGED backup,
           NEW p \in Procs, NEW k \in Kinds \union {None}, NEW a \in Owned, NEW rest \in SUBSET Owned,
           NEW to, Takes(p, k, a, rest, to),
           k \in {"add", "import"} \/ \A b \in {a} \union rest : b.email # e
    PROVE  Brought(e)'
<1>1. LocalOK /\ NoAccount \notin Owned
  BY OwnedParts DEF Inv
<1>2. /\ kind'[p] = k /\ mem'[p] = a /\ todo'[p] = rest
      /\ \A q \in Procs \ {p} : kind'[q] = kind[q] /\ mem'[q] = mem[q] /\ todo'[q] = todo[q]
  BY <1>1 DEF Takes, LocalOK
<1>3. ASSUME NEW q \in Procs \ {p} PROVE Copies(q)' = Copies(q)
  BY <1>2 DEF Copies
<1>4. CASE k \in {"add", "import"}
  BY <1>2, <1>3, <1>4 DEF Brought, Holders, Gone
<1>5. CASE k \notin {"add", "import"} /\ \A b \in {a} \union rest : b.email # e
  <2>1. Copies(p)' = {a} \union rest
    BY <1>1, <1>2, <1>5 DEF Copies
  <2> QED
    BY <1>3, <1>5, <2>1 DEF Brought, Holders, Gone
<1> QED
  BY <1>4, <1>5

LEMMA EndsHeld ==
    ASSUME Inv, NEW e \in Accounts, Gone(e), NEW p \in Procs, Ends(p) \/ (\E to : GoesOn(p, to)),
           UNCHANGED backup
    PROVE  Brought(e)'
<1>1. CASE Ends(p)
  BY <1>1, ShrinkHeld DEF Inv, LocalOK, Ends, None
<1>2. CASE \E to : GoesOn(p, to)
  BY <1>2, ShrinkHeld DEF GoesOn
<1> QED
  BY <1>1, <1>2

LEMMA NextHeld ==
    ASSUME Inv, NEW e \in Accounts, Gone(e), NEW p \in Procs, UNCHANGED backup,
           (\E to : NextAccount(p, to)) \/ Advance(p)
    PROVE  Brought(e)'
<1>1. ASSUME NEW to, NextAccount(p, to) PROVE Brought(e)'
  <2>1. PICK a \in todo[p] : Takes(p, kind[p], a, todo[p] \ {a}, to)
    BY <1>1 DEF NextAccount
  <2>2. a \in Owned /\ todo[p] \ {a} \in SUBSET Owned /\ kind[p] \in Kinds \union {None}
    BY DEF Inv, LocalOK
  <2>3. \A b \in {a} \union (todo[p] \ {a}) : b.email # e
    BY GoneMeans
  <2> QED
    BY <2>1, <2>2, <2>3, TakesHeld
<1> QED
  BY <1>1, EndsHeld DEF Advance

LEMMA AbsentKept ==
    ASSUME Inv, NEW e \in Accounts, Absent(e),
           \/ UNCHANGED file
           \/ \E x \in Accounts : RemoveAccount(x)
           \/ \E a \in Owned : SaveAccount(a) /\ a.email # e
    PROVE  Absent(e)'
<1>1. slug[e] \in Slugs /\ file \in [Slugs -> Owned \union {NoAccount}]
  BY SlugAssumption DEF Inv, SharedOK, FilesOK
<1> QED
  BY <1>1 DEF Absent, RemoveAccount, SaveAccount

LEMMA BeginGone ==
    ASSUME Inv, NEW e \in Accounts, Gone(e), NEW p \in Procs, NEW k \in Kinds, Begin(p, k)
    PROVE  Absent(e)' /\ Brought(e)'
<1>1. UNCHANGED <<file, backup>>
  BY DEF Begin, Load, List, Switch, Add, Import, shared
<1>2. Absent(e)'
  BY <1>1, AbsentKept DEF Gone
<1>3. Stored \subseteq Owned /\ \A a \in Stored : a.email # e
  BY StoredOwned, GoneMeans DEF Inv
<1>4. CASE Load(p, k)
  <2>1. /\ kind' = [kind EXCEPT ![p] = k] /\ k \in {"request", "poll"} /\ UNCHANGED <<mem, todo>>
    BY <1>4 DEF Load
  <2>2. \A q \in Procs : kind'[q] = "import" => kind[q] = "import"
    BY <2>1 DEF Inv, LocalOK
  <2> QED
    BY <1>1, <1>2, <2>1, <2>2, ShrinkHeld
<1>5. CASE List(p, k)
  <2>1. PICK a \in Stored, rest \in {{}, Stored} : Takes(p, k, a, rest \ {a}, "ask")
    BY <1>5 DEF List
  <2>2. a \in Owned /\ rest \ {a} \in SUBSET Owned /\ \A b \in {a} \union (rest \ {a}) : b.email # e
    BY <1>3
  <2> QED
    BY <1>1, <1>2, <2>1, <2>2, TakesHeld
<1>6. CASE Switch(p, k)
  BY <1>1, <1>2, <1>3, <1>6, TakesHeld DEF Switch
<1>7. CASE Add(p, k)
  <2>1. PICK x \in Accounts :
          /\ issued' = [issued EXCEPT ![x] = @ + 1]
          /\ Takes(p, k, [email |-> x, token |-> [owner |-> x, number |-> issued'[x]]], {}, "save")
    BY <1>7 DEF Add
  <2>2. issued'[x] \in Nat \ {0}
    BY <2>1 DEF Inv, SharedOK
  <2>3. [email |-> x, token |-> [owner |-> x, number |-> issued'[x]]] \in Owned
    BY <2>2 DEF Owned, Account, Token
  <2> QED
    BY <1>1, <1>2, <1>7, <2>1, <2>3, TakesHeld DEF Add
<1>8. CASE Import(p, k)
  <2>1. backup \subseteq Owned
    BY DEF Inv, SharedOK
  <2> QED
    BY <1>1, <1>2, <1>3, <1>8, <2>1, TakesHeld DEF Import
<1> QED
  BY <1>4, <1>5, <1>6, <1>7, <1>8 DEF Begin

LEMMA GoGone ==
    ASSUME Inv, NEW e \in Accounts, Gone(e), NEW p \in Procs, Go(p)
    PROVE  Absent(e)' /\ Brought(e)'
<1>1. UNCHANGED backup
  BY DEF Go, Read, Wipe, Skip, Refresh, Refused, Prune, Save, Check, WriteLive, Note, Kill, shared
<1>2. LocalOK /\ SharedOK /\ FilesOK
  BY DEF Inv, SharedOK
<1>3. UNCHANGED file => Absent(e)'
  BY AbsentKept DEF Gone
<1>4. CASE Read(p)
  <2> DEFINE a == file[slug[was[p]]]
  <2>1. UNCHANGED file /\ was[p] \in Accounts
    BY <1>2, <1>4 DEF Read, LocalOK, shared
  <2>2. CASE a = NoAccount
    BY <1>1, <1>3, <1>4, <2>1, <2>2, EndsHeld DEF Read
  <2>3. CASE a # NoAccount
    <3>1. a \in Owned /\ a \in Stored /\ kind[p] \in Kinds \union {None}
      BY <1>2, <2>1, <2>3, SlugAssumption DEF FilesOK, LocalOK, Stored
    <3>2. a.email # e
      BY <3>1, GoneMeans
    <3>3. Takes(p, kind[p], a, {}, "ask")
      BY <1>4, <2>3 DEF Read
    <3> QED
      BY <1>1, <1>3, <2>1, <3>1, <3>2, <3>3, TakesHeld
  <2> QED
    BY <2>2, <2>3
<1>5. CASE Wipe(p)
  <2>1. CASE \E a \in todo[p] : /\ RemoveAccount(a.email)
                                /\ todo' = [todo EXCEPT ![p] = @ \ {a}]
                                /\ UNCHANGED <<pc, kind, mem, old, left>>
    <3>1. PICK a \in todo[p] : RemoveAccount(a.email) /\ todo' = [todo EXCEPT ![p] = @ \ {a}]
      BY <2>1
    <3>2. a.email \in Accounts
      BY <1>2, OwnedParts DEF LocalOK
    <3>3. \A q \in Procs : todo'[q] \subseteq todo[q]
      BY <1>2, <3>1 DEF LocalOK
    <3> QED
      BY <1>1, <2>1, <3>1, <3>2, <3>3, AbsentKept, ShrinkHeld DEF Gone
  <2>2. CASE (\E a \in backup : Takes(p, "import", a, backup \ {a}, "save")) /\ UNCHANGED file
    BY <1>1, <1>2, <1>3, <2>2, TakesHeld DEF SharedOK, Kinds
  <2> QED
    BY <1>5, <2>1, <2>2 DEF Wipe
<1>6. CASE Skip(p) \/ Refused(p) \/ Check(p) \/ WriteLive(p) \/ Note(p) \/ Kill(p)
  <2>1. UNCHANGED file
    BY <1>6 DEF Skip, Refused, Check, WriteLive, Note, Kill, shared
  <2>2. \/ Advance(p) \/ Ends(p) \/ \E to : GoesOn(p, to)
        \/ UNCHANGED <<kind, mem, todo>>
    BY <1>6 DEF Skip, Refused, Check, WriteLive, Note, Kill
  <2> QED
    BY <1>1, <1>3, <2>1, <2>2, NextHeld, EndsHeld, ShrinkHeld
<1>7. CASE Refresh(p)
  <2>1. UNCHANGED <<file, kind, todo>> /\ mem[p] \in Owned
    BY <1>2, <1>7 DEF Refresh, LocalOK, Busy
  <2>2. mem[p] # NoAccount
    BY <2>1, OwnedParts
  <2>3. ASSUME NEW q \in Procs
        PROVE  mem'[q] # NoAccount => mem[q] # NoAccount /\ mem'[q].email = mem[q].email
    <3>1. CASE UNCHANGED mem
      BY <3>1
    <3>2. CASE \E n : mem' = [mem EXCEPT ![p].token.number = n]
      BY <1>2, <2>1, <2>2, <3>2 DEF LocalOK, Owned, Account
    <3> QED
      BY <1>7, <3>1, <3>2 DEF Refresh
  <2> QED
    BY <1>1, <1>3, <2>1, <2>3, ShrinkHeld
<1>8. CASE Prune(p)
  <2>1. mem[p] \in Owned /\ RemoveAccount(mem[p].email)
    BY <1>2, <1>8 DEF Prune, LocalOK, Busy
  <2>2. Absent(e)'
    BY <2>1, OwnedParts, AbsentKept DEF Gone
  <2>3. NextAccount(p, "ask") \/ Ends(p)
    BY <1>8 DEF Prune
  <2> QED
    BY <1>1, <2>2, <2>3, NextHeld, EndsHeld
<1>9. CASE Save(p)
  <2>1. mem[p] \in Owned /\ mem[p] # NoAccount
    BY <1>2, <1>9, OwnedParts DEF Save, LocalOK, Busy
  <2>2. mem[p].email # e
    BY <2>1, GoneMeans
  <2>3. Absent(e)'
    BY <1>9, <2>1, <2>2, AbsentKept DEF Save, Gone
  <2>4. \/ Advance(p) \/ Ends(p) \/ (\E to : GoesOn(p, to) \/ NextAccount(p, to))
        \/ \E a \in backup : Takes(p, "import", a, {}, "live")
    BY <1>9 DEF Save, AfterSave
  <2>5. CASE \E a \in backup : Takes(p, "import", a, {}, "live")
    BY <1>1, <1>2, <2>3, <2>5, TakesHeld DEF SharedOK, Kinds
  <2> QED
    BY <1>1, <2>3, <2>4, <2>5, NextHeld, EndsHeld
<1> QED
  BY <1>4, <1>5, <1>6, <1>7, <1>8, <1>9 DEF Go

LEMMA StepGone ==
    ASSUME Inv, [Next]_vars, NEW e \in Accounts, Gone(e)
    PROVE  Absent(e)' /\ Brought(e)'
<1>1. ASSUME NEW p \in Procs, NEW k \in Roles[p], Begin(p, k) PROVE Absent(e)' /\ Brought(e)'
  <2>1. k \in Kinds
    BY RoleAssumption
  <2> QED
    BY <1>1, <2>1, BeginGone
<1>2. CASE AgyRefreshes \/ (\E x \in Accounts : Remove(x)) \/ UNCHANGED vars
  <2>1. UNCHANGED <<kind, mem, todo, backup>>
    BY <1>2 DEF AgyRefreshes, Remove, vars, shared, local
  <2>2. UNCHANGED file \/ \E x \in Accounts : RemoveAccount(x)
    BY <1>2 DEF AgyRefreshes, Remove, vars, shared
  <2> QED
    BY <2>1, <2>2, AbsentKept, ShrinkHeld DEF Gone
<1>3. CASE Export
  <2>1. UNCHANGED <<file, kind, mem, todo>> /\ \A q \in Procs : kind[q] # "import"
    BY <1>3 DEF Export, local
  <2> QED
    BY <2>1, AbsentKept, ShrinkHeld DEF Gone
<1> QED
  BY <1>1, <1>2, <1>3, GoGone DEF Next

\* An account that was removed, and that nobody has in hand, comes back only by
\* a sign-in or an import, whatever the others are doing.
THEOREM NobodyReturns == Spec => NoGhost
<1>1. Inv /\ [Next]_vars =>
        [\A e \in Accounts : Absent(e) /\ Holders(e) = {} =>
            /\ Absent(e)'
            /\ \A p \in Holders(e)' : kind'[p] \in {"add", "import"}]_vars
  BY StepGone DEF Gone, Brought
<1> QED
  BY <1>1, InitInv, StepInv, PTL DEF Spec, NoGhost

-----------------------------------------------------------------------------
(* NewestKept and LiveForward.  An account that is not in `raced` has one  *)
(* holder at most, whose copies all have its newest token; the process     *)
(* that has a newer one than the file is about to save it.                 *)

\* What p has read; an import also has the envelope.
Held(p) == ({mem[p]} \ {NoAccount}) \union todo[p]

Fresh(e) ==
    /\ ~Shared(e)
    /\ \A p \in Holders(e) : kind[p] # "import"
    /\ \A p \in Procs : \A a \in Held(p) : a.email = e => a.token.number = issued[e]
    /\ \/ Absent(e)
       \/ file[slug[e]].token.number = issued[e]
       \/ \E p \in Procs : /\ pc[p] = "save" /\ mem[p].email = e
                           /\ mem[p].token.number = issued[e]

\* The accounts of a list differ in their e-mail addresses, those of an envelope
\* aside; so a refresh leaves no older copy of the token behind in the list.
Orderly(p) ==
    /\ pc[p] = "wipe" => kind[p] = "import"
    /\ pc[p] \in {"idle", "read"} => kind[p] # "import"
    /\ kind[p] # "import" =>
          \A a \in todo[p] : /\ mem[p] # NoAccount => a.email # mem[p].email
                             /\ \A b \in todo[p] : a.email = b.email => a = b

\* Nobody has a token that Google has not issued.
Known == Stored \union backup \union UNION {Held(p) : p \in Procs}
Numbers ==
    /\ \A a \in Known : a.token.number <= issued[a.email]
    /\ live # NoAccount => live.number <= issued[live.owner]

FreshInv ==
    /\ Inv
    /\ \A e \in Accounts \ raced : Fresh(e)
    /\ \A p \in Procs : Orderly(p)
    /\ Numbers

-----------------------------------------------------------------------------
(* What a step of p does to the copies.                                    *)

\* The others are left alone.
Apart(p) ==
    \A q \in Procs \ {p} :
        pc'[q] = pc[q] /\ kind'[q] = kind[q] /\ mem'[q] = mem[q] /\ todo'[q] = todo[q]

\* p gets no copy that it did not have.
Shrinks(p) ==
    /\ Apart(p)
    /\ Held(p)' \subseteq Copies(p)
    /\ kind'[p] = "import" => kind[p] = "import"
    /\ Orderly(p)'

LEMMA TakesHolds ==
    ASSUME Inv, NEW p \in Procs, NEW k, NEW a \in Owned, NEW rest, NEW to, Takes(p, k, a, rest, to)
    PROVE  /\ Apart(p)
           /\ pc'[p] = to /\ kind'[p] = k /\ mem'[p] = a /\ todo'[p] = rest
           /\ Held(p)' = {a} \union rest
<1>1. a # NoAccount
  BY OwnedParts
<1>2. /\ pc'[p] = to /\ kind'[p] = k /\ mem'[p] = a /\ todo'[p] = rest
      /\ \A q \in Procs \ {p} : pc'[q] = pc[q] /\ kind'[q] = kind[q] /\ mem'[q] = mem[q]
                                /\ todo'[q] = todo[q]
  BY DEF Inv, LocalOK, Takes, Goes
<1> QED
  BY <1>1, <1>2 DEF Apart, Held

LEMMA EndsShrinks ==
    ASSUME Inv, NEW p \in Procs, Ends(p)
    PROVE  Shrinks(p) /\ pc'[p] = "idle"
<1>1. /\ pc'[p] = "idle" /\ kind'[p] = None /\ mem'[p] = NoAccount /\ todo'[p] = {}
      /\ \A q \in Procs \ {p} : pc'[q] = pc[q] /\ kind'[q] = kind[q] /\ mem'[q] = mem[q]
                                /\ todo'[q] = todo[q]
  BY DEF Inv, LocalOK, Ends, Goes
<1> QED
  BY <1>1 DEF Shrinks, Apart, Held, Orderly, None

LEMMA GoesOnShrinks ==
    ASSUME Inv, NEW p \in Procs, Orderly(p), NEW to \in Busy, GoesOn(p, to)
    PROVE  Shrinks(p)
<1>1. /\ pc'[p] = to /\ \A q \in Procs \ {p} : pc'[q] = pc[q]
      /\ UNCHANGED <<kind, mem, todo>>
  BY DEF Inv, LocalOK, GoesOn, Goes
<1> QED
  BY <1>1 DEF Shrinks, Apart, Held, Copies, Orderly, Busy

LEMMA NextShrinks ==
    ASSUME Inv, NEW p \in Procs, Orderly(p), NEW to \in Busy, NextAccount(p, to)
    PROVE  Shrinks(p)
<1>1. PICK a \in todo[p] : Takes(p, kind[p], a, todo[p] \ {a}, to)
  BY DEF NextAccount
<1>2. a \in Owned
  BY DEF Inv, LocalOK
<1>3. /\ Apart(p) /\ pc'[p] = to /\ kind'[p] = kind[p] /\ mem'[p] = a
      /\ todo'[p] = todo[p] \ {a} /\ Held(p)' = {a} \union (todo[p] \ {a})
  BY <1>1, <1>2, TakesHolds
<1>4. Orderly(p)'
  BY <1>3 DEF Orderly, Busy
<1> QED
  BY <1>3, <1>4 DEF Shrinks, Copies

LEMMA AdvanceShrinks ==
    ASSUME Inv, NEW p \in Procs, Orderly(p), Advance(p)
    PROVE  Shrinks(p)
BY NextShrinks, EndsShrinks DEF Advance, Busy

LEMMA EnvelopeShrinks ==
    ASSUME Inv, NEW p \in Procs, kind[p] = "import", NEW a \in backup,
           NEW rest \in SUBSET backup, NEW to \in Busy, Takes(p, "import", a, rest, to)
    PROVE  Shrinks(p)
<1>1. a \in Owned
  BY DEF Inv, SharedOK
<1>2. Apart(p) /\ pc'[p] = to /\ kind'[p] = "import" /\ Held(p)' = {a} \union rest
  BY <1>1, TakesHolds
<1> QED
  BY <1>2 DEF Shrinks, Copies, Orderly, Busy

LEMMA GoShrinks ==
    ASSUME Inv, NEW p \in Procs, Orderly(p), Go(p), ~Read(p), ~Refresh(p)
    PROVE  Shrinks(p)
<1>1. CASE Wipe(p)
  <2>1. kind[p] = "import"
    BY <1>1 DEF Wipe, Orderly
  <2>2. CASE \E a \in todo[p] : /\ todo' = [todo EXCEPT ![p] = @ \ {a}]
                                /\ UNCHANGED <<pc, kind, mem, old, left>>
    <3>1. /\ UNCHANGED <<pc, kind, mem>> /\ todo'[p] \subseteq todo[p]
          /\ \A q \in Procs \ {p} : todo'[q] = todo[q]
      BY <2>2 DEF Inv, LocalOK
    <3> QED
      BY <2>1, <3>1 DEF Shrinks, Apart, Held, Copies, Orderly
  <2>3. CASE \E a \in backup : Takes(p, "import", a, backup \ {a}, "save")
    BY <2>1, <2>3, EnvelopeShrinks DEF Busy
  <2> QED
    BY <1>1, <2>2, <2>3 DEF Wipe
<1>2. CASE Skip(p)
  <2>1. CASE UNCHANGED <<pc, kind, mem, old, todo, was>>
    BY <2>1 DEF Shrinks, Apart, Held, Copies, Orderly
  <2> QED
    BY <1>2, <2>1, AdvanceShrinks DEF Skip
<1>3. CASE Refused(p) \/ Prune(p)
  BY <1>3, AdvanceShrinks, NextShrinks, EndsShrinks DEF Refused, Prune, Busy
<1>4. CASE Save(p)
  <2>1. PICK saved \in BOOLEAN : AfterSave(p, saved)
    BY <1>4 DEF Save
  <2>2. CASE kind[p] = "import" /\ \E a \in backup : Takes(p, "import", a, {}, "live")
    BY <2>2, EnvelopeShrinks DEF Busy
  <2>3. \/ GoesOn(p, "live") \/ GoesOn(p, "check") \/ GoesOn(p, "ask") \/ Ends(p)
        \/ Advance(p) \/ NextAccount(p, "save")
        \/ kind[p] = "import" /\ \E a \in backup : Takes(p, "import", a, {}, "live")
    BY <2>1 DEF AfterSave
  <2> QED
    BY <2>2, <2>3, GoesOnShrinks, EndsShrinks, AdvanceShrinks, NextShrinks DEF Busy
<1>5. CASE Check(p) \/ WriteLive(p) \/ Note(p) \/ Kill(p)
  <2>1. GoesOn(p, "live") \/ GoesOn(p, "note") \/ Ends(p) \/ Advance(p)
    BY <1>5 DEF Check, WriteLive, Note, Kill
  <2> QED
    BY <2>1, GoesOnShrinks, EndsShrinks, AdvanceShrinks DEF Busy
<1> QED
  BY <1>1, <1>2, <1>3, <1>4, <1>5 DEF Go

-----------------------------------------------------------------------------
(* Fresh accounts stay fresh.                                              *)

\* What the history says of an account that is not in it after the step.
LEMMA CleanFresh ==
    ASSUME NEW lost, Races(lost), NEW e \in Accounts, e \notin raced'
    PROVE  ~Shared(e)' /\ (e \in raced \union lost => Fresh(e)')
<1>1. ~(Shared(e)' \/ (e \in raced \union lost /\ ~Clean(e)'))
  BY DEF Races
<1>2. ASSUME Clean(e)' PROVE Fresh(e)'
  <2>1. Holders(e)' = {} /\ (Absent(e)' \/ file'[slug[e]].token.number = issued'[e])
    BY <1>2 DEF Clean
  <2>2. \A p \in Procs : \A a \in Held(p)' : a.email # e
    BY <2>1 DEF Holders, Copies, Held
  <2> QED
    BY <1>1, <2>1, <2>2 DEF Fresh
<1> QED
  BY <1>1, <1>2

\* What happens to the files when p, or nobody, does something.
FileStep(e, p) ==
    \/ UNCHANGED file /\ (pc[p] = "save" => mem[p].email # e)
    \/ (\E x \in Accounts : RemoveAccount(x)) /\ pc[p] # "save"
    \/ SaveAccount(mem[p]) /\ mem[p] \in Owned

\* p gets no copy of e that it did not have.
Kept(e, p) ==
    /\ Apart(p)
    /\ \A a \in Copies(p)' : a.email = e => a \in Copies(p)
    /\ p \in Holders(e)' /\ kind'[p] = "import" => kind[p] = "import"

LEMMA ShrinksKept ==
    ASSUME NEW e, NEW p, Shrinks(p), UNCHANGED backup
    PROVE  Kept(e, p)
BY DEF Shrinks, Kept, Copies, Held

LEMMA FreshKept ==
    ASSUME Inv, NEW e \in Accounts, Fresh(e), NEW p \in Procs, Kept(e, p),
           UNCHANGED backup, issued'[e] = issued[e], FileStep(e, p)
    PROVE  Fresh(e)'
<1>1. \A q \in Procs : \A a \in Copies(q)' : a.email = e => a \in Copies(q)
  BY DEF Kept, Apart, Copies, Held
<1>2. Holders(e)' \subseteq Holders(e)
  BY <1>1 DEF Holders
<1>3. ~Shared(e)'
  BY <1>2 DEF Fresh, Shared
<1>4. \A q \in Holders(e)' : kind'[q] # "import"
  BY <1>2 DEF Fresh, Kept, Apart, Holders
<1>5. \A q \in Procs : \A a \in Held(q)' : a.email = e => a.token.number = issued'[e]
  <2> SUFFICES ASSUME NEW q \in Procs, NEW a \in Held(q)', a.email = e
               PROVE  a \in Held(q)
    BY DEF Fresh
  <2>1. CASE q # p
    BY <2>1 DEF Kept, Apart, Held
  <2>2. CASE q = p
    <3>1. a \in Copies(p)
      BY <2>2 DEF Kept, Copies, Held
    <3>2. kind[p] # "import"
      BY <3>1 DEF Fresh, Holders
    <3> QED
      BY <2>2, <3>1, <3>2 DEF Copies, Held
  <2> QED
    BY <2>1, <2>2
<1>6. \/ Absent(e)' \/ file'[slug[e]].token.number = issued'[e]
      \/ \E q \in Procs : /\ pc'[q] = "save" /\ mem'[q].email = e
                          /\ mem'[q].token.number = issued'[e]
  <2>1. slug[e] \in Slugs /\ file \in [Slugs -> Owned \union {NoAccount}]
    BY SlugAssumption DEF Inv, SharedOK, FilesOK
  <2>2. CASE SaveAccount(mem[p]) /\ mem[p] \in Owned
    <3>1. mem[p] \in Held(p)
      BY <2>2, OwnedParts DEF Held
    <3>2. mem[p].email = e => mem[p].token.number = issued[e]
      BY <3>1 DEF Fresh
    <3>3. CASE slug[mem[p].email] = slug[e]
      <4>1. file'[slug[e]] = mem[p]
        BY <2>1, <2>2, <3>3 DEF SaveAccount
      <4> QED
        BY <3>2, <4>1 DEF Absent
    <3>4. CASE slug[mem[p].email] # slug[e]
      <4>1. file'[slug[e]] = file[slug[e]]
        BY <2>1, <2>2, <3>4 DEF SaveAccount
      <4>2. ASSUME NEW q \in Procs, pc[q] = "save", mem[q].email = e
            PROVE  pc'[q] = "save" /\ mem'[q] = mem[q]
        BY <3>4, <4>2 DEF Kept, Apart
      <4> QED
        BY <4>1, <4>2 DEF Fresh, Absent
    <3> QED
      BY <3>3, <3>4
  <2>3. CASE \/ UNCHANGED file /\ (pc[p] = "save" => mem[p].email # e)
             \/ (\E x \in Accounts : RemoveAccount(x)) /\ pc[p] # "save"
    <3>1. file'[slug[e]] \in {file[slug[e]], NoAccount}
      BY <2>1, <2>3 DEF RemoveAccount
    <3>2. ASSUME NEW q \in Procs, pc[q] = "save", mem[q].email = e
          PROVE  pc'[q] = "save" /\ mem'[q] = mem[q]
      BY <2>3, <3>2 DEF Kept, Apart
    <3> QED
      BY <3>1, <3>2 DEF Fresh, Absent
  <2> QED
    BY <2>2, <2>3 DEF FileStep
<1> QED
  BY <1>3, <1>4, <1>5, <1>6 DEF Fresh

\* An account that p reads from its file, and that no other process has, has its
\* newest token there: no one is about to save a newer one.
LEMMA FreshRead ==
    ASSUME Inv, NEW e \in Accounts, Fresh(e), ~Shared(e)', NEW p \in Procs, Apart(p), UNCHANGED shared,
           pc[p] # "save", kind'[p] # "import", Held(p)' \subseteq Held(p) \union Stored
    PROVE  Fresh(e)'
<1>1. ASSUME NEW q \in Procs \ {p} PROVE Copies(q)' = Copies(q) /\ Held(q)' = Held(q)
  BY DEF Apart, Copies, Held, shared
<1>2. \A q \in Holders(e)' : kind'[q] # "import"
  BY <1>1 DEF Fresh, Apart, Holders
<1>3. ASSUME NEW a \in Held(p)', a.email = e PROVE a.token.number = issued'[e]
  <2>1. CASE a \in Held(p)
    BY <1>3, <2>1 DEF Fresh, shared
  <2>2. CASE a \in Stored
    <3>1. file[slug[e]] = a /\ a # NoAccount
      BY <1>3, <2>2 DEF Inv, SharedOK, FilesOK, Stored
    <3>2. p \in Holders(e)'
      BY <1>3 DEF Holders, Copies, Held
    <3>3. \A q \in Procs \ {p} : q \notin Holders(e)
      BY <1>1, <3>2 DEF Shared, Holders
    <3>4. ASSUME NEW q \in Procs, pc[q] = "save", mem[q].email = e PROVE FALSE
      <4>1. q # p /\ mem[q] \in Owned
        BY <3>4 DEF Inv, LocalOK, Busy
      <4>2. mem[q] \in Copies(q)
        BY <4>1, OwnedParts DEF Copies
      <4> QED
        BY <3>3, <3>4, <4>1, <4>2 DEF Holders
    <3> QED
      BY <1>3, <3>1, <3>4 DEF Fresh, Absent, shared
  <2> QED
    BY <2>1, <2>2
<1>4. \A q \in Procs : \A a \in Held(q)' : a.email = e => a.token.number = issued'[e]
  BY <1>1, <1>3 DEF Fresh, shared
<1>5. \A q \in Procs : pc[q] = "save" => pc'[q] = "save" /\ mem'[q] = mem[q]
  BY DEF Apart
<1>6. UNCHANGED <<file, issued>>
  BY DEF shared
<1> QED
  BY <1>2, <1>4, <1>5, <1>6 DEF Fresh, Absent

\* e is fresh after a step of no process.
LEMMA FreshStill ==
    ASSUME Inv, NEW e \in Accounts, Fresh(e), UNCHANGED <<pc, kind, mem, todo>>, issued'[e] = issued[e],
           UNCHANGED backup \/ \A q \in Procs : kind[q] # "import",
           UNCHANGED file \/ \E x \in Accounts : RemoveAccount(x)
    PROVE  Fresh(e)'
<1>1. \A q \in Procs : Copies(q)' = Copies(q) /\ Held(q)' = Held(q)
  BY DEF Copies, Held
<1>2. slug[e] \in Slugs /\ file \in [Slugs -> Owned \union {NoAccount}]
  BY SlugAssumption DEF Inv, SharedOK, FilesOK
<1>3. file'[slug[e]] \in {file[slug[e]], NoAccount}
  BY <1>2 DEF RemoveAccount
<1>4. Holders(e)' = Holders(e)
  BY <1>1 DEF Holders
<1> QED
  BY <1>1, <1>3, <1>4 DEF Fresh, Shared, Absent

LEMMA BeginFresh ==
    ASSUME FreshInv, NEW p \in Procs, NEW k \in Kinds, Begin(p, k), NEW e \in Accounts, e \notin raced'
    PROVE  Fresh(e)'
<1> DEFINE lost == IF k = "import" THEN {a.email : a \in backup \union Stored} ELSE {}
<1>1. Races(lost) /\ pc[p] = "idle"
  BY DEF Begin
<1>2. ~Shared(e)' /\ (e \in raced \union lost => Fresh(e)')
  BY <1>1, CleanFresh
<1> SUFFICES ASSUME Fresh(e), e \notin lost PROVE Fresh(e)'
  BY <1>2 DEF FreshInv
<1>3. Inv /\ Orderly(p) /\ Stored \subseteq Owned /\ backup \subseteq Owned
  BY StoredOwned DEF FreshInv, Inv, SharedOK
<1>4. ASSUME NEW a \in Stored, NEW rest \in SUBSET Stored, NEW to, Takes(p, k, a, rest, to),
             UNCHANGED shared, k # "import"
      PROVE  Fresh(e)'
  <2>1. Apart(p) /\ kind'[p] = k /\ Held(p)' = {a} \union rest
    BY <1>3, <1>4, TakesHolds
  <2> QED
    BY <1>1, <1>2, <1>3, <1>4, <2>1, FreshRead
<1>5. CASE Load(p, k)
  <2>1. UNCHANGED <<file, backup, issued, mem, todo>> /\ kind'[p] # "import" /\ Apart(p)
    BY <1>3, <1>5 DEF Load, Apart, Goes, Inv, LocalOK, shared
  <2>2. Kept(e, p)
    BY <2>1 DEF Kept, Copies
  <2> QED
    BY <1>1, <1>3, <2>1, <2>2, FreshKept DEF FileStep
<1>6. CASE List(p, k)
  BY <1>4, <1>6 DEF List
<1>7. CASE Switch(p, k)
  BY <1>4, <1>7 DEF Switch
<1>8. CASE Add(p, k)
  <2>1. PICK x \in Accounts :
          /\ issued' = [issued EXCEPT ![x] = @ + 1]
          /\ Takes(p, k, [email |-> x, token |-> [owner |-> x, number |-> issued'[x]]], {}, "save")
    BY <1>8 DEF Add
  <2> DEFINE a == [email |-> x, token |-> [owner |-> x, number |-> issued'[x]]]
  <2>2. issued'[x] \in Nat \ {0} /\ \A y \in Accounts \ {x} : issued'[y] = issued[y]
    BY <1>3, <2>1 DEF Inv, SharedOK
  <2>3. a \in Owned
    BY <2>2 DEF Owned, Account, Token
  <2>4. /\ Apart(p) /\ pc'[p] = "save" /\ kind'[p] = "add" /\ mem'[p] = a /\ Held(p)' = {a}
        /\ UNCHANGED <<file, backup>>
    <3>1. Takes(p, k, a, {}, "save") /\ k = "add" /\ UNCHANGED <<file, backup>>
      BY <1>8, <2>1 DEF Add
    <3>2. Held(p)' = {a} \union {}
      BY <1>3, <2>3, <3>1, TakesHolds
    <3> QED
      BY <1>3, <2>3, <3>1, <3>2, TakesHolds
  <2>5. Copies(p)' = {a}
    BY <2>4 DEF Copies, Held
  <2>6. CASE e # x
    <3>1. Kept(e, p)
      BY <2>4, <2>5, <2>6 DEF Kept
    <3> QED
      BY <1>1, <1>3, <2>2, <2>4, <2>6, <3>1, FreshKept DEF FileStep
  <2>7. CASE e = x
    <3> HIDE DEF a
    <3>a. a.email = e
      BY <2>7 DEF a
    <3>0. a.email = e /\ p \in Holders(e)'
      BY <2>5, <3>a DEF Holders
    <3>1. \A q \in Holders(e)' : q = p
      BY <1>2, <3>0 DEF Shared
    <3>2. ASSUME NEW q \in Procs, NEW b \in Held(q)', b.email = e PROVE b = a
      <4>1. q \in Holders(e)'
        BY <3>2 DEF Holders, Copies, Held
      <4> QED
        BY <2>4, <3>1, <3>2, <4>1
    <3>3. a.token.number = issued'[e]
      BY <2>7 DEF a
    <3>4. \A q \in Holders(e)' : kind'[q] # "import"
      BY <2>4, <3>1
    <3> QED
      BY <1>2, <2>4, <3>0, <3>2, <3>3, <3>4 DEF Fresh
  <2> QED
    BY <2>6, <2>7
<1>9. CASE Import(p, k)
  <2>1. UNCHANGED <<file, backup, issued>> /\ k = "import"
    BY <1>9 DEF Import, shared
  <2>2. \A a \in backup \union Stored : a.email # e
    BY <2>1
  <2>3. Apart(p) /\ Held(p)' \subseteq backup \union Stored
    <3>1. CASE \E a \in backup : Takes(p, k, a, backup \ {a}, "save")
      BY <1>3, <3>1, TakesHolds
    <3>2. CASE \E a \in Stored : Takes(p, k, a, Stored, "wipe")
      BY <1>3, <3>2, TakesHolds
    <3> QED
      BY <1>9, <3>1, <3>2 DEF Import
  <2>4. \A a \in Copies(p)' : a.email # e
    BY <2>1, <2>2, <2>3 DEF Copies, Held
  <2>5. Kept(e, p)
    BY <2>3, <2>4 DEF Kept, Holders
  <2> QED
    BY <1>1, <1>3, <2>1, <2>5, FreshKept DEF FileStep
<1> QED
  BY <1>5, <1>6, <1>7, <1>8, <1>9 DEF Begin

LEMMA RefreshFresh ==
    ASSUME FreshInv, NEW p \in Procs, Refresh(p), NEW e \in Accounts, e \notin raced'
    PROVE  Fresh(e)'
<1>1. Races({}) /\ pc[p] = "ask" /\ UNCHANGED <<file, live, backup, kind, todo>>
  BY DEF Refresh
<1>2. ~Shared(e)' /\ (e \in raced => Fresh(e)')
  BY <1>1, CleanFresh
<1> SUFFICES ASSUME Fresh(e) PROVE Fresh(e)'
  BY <1>2 DEF FreshInv
<1>3. Inv /\ Orderly(p) /\ mem[p] \in Owned /\ mem[p] # NoAccount
  BY <1>1, OwnedParts DEF FreshInv, Inv, LocalOK, Busy
<1>4. mem[p].email \in Accounts /\ mem[p].token.owner = mem[p].email
  BY <1>3, OwnedParts
<1>5. pc'[p] = "save" /\ \A q \in Procs \ {p} : pc'[q] = pc[q]
  BY <1>3 DEF Refresh, Goes, Inv, LocalOK
<1>6. CASE UNCHANGED <<issued, mem>>
  <2>1. Apart(p) /\ Copies(p)' = Copies(p)
    BY <1>1, <1>5, <1>6 DEF Apart, Copies
  <2> QED
    BY <1>1, <1>3, <1>6, <2>1, FreshKept DEF FileStep, Kept
<1>7. CASE /\ issued' = [issued EXCEPT ![mem[p].email] = @ + 1]
           /\ mem' = [mem EXCEPT ![p].token.number = issued'[mem[p].email]]
  <2>1. /\ mem'[p] = [mem[p] EXCEPT !.token.number = issued'[mem[p].email]]
        /\ \A q \in Procs \ {p} : mem'[q] = mem[q]
    BY <1>3, <1>7 DEF Inv, LocalOK
  <2>2. /\ mem'[p].email = mem[p].email
        /\ mem'[p].token.number = issued'[mem[p].email]
    BY <1>3, <2>1 DEF Owned, Account, Token
  <2>3. \A y \in Accounts \ {mem[p].email} : issued'[y] = issued[y]
    BY <1>3, <1>7 DEF Inv, SharedOK
  <2>4. Apart(p)
    BY <1>1, <1>5, <2>1 DEF Apart
  <2>5. Inv'
    <3>1. [Next]_vars
      BY DEF Next, Go
    <3> QED
      BY <1>3, <3>1, StepInv
  <2>6. mem'[p] # NoAccount
    BY <1>5, <2>5, OwnedParts DEF Inv, LocalOK, Busy
  <2>7. CASE e # mem[p].email
    <3>1. \A a \in Copies(p)' : a.email = e => a \in Copies(p)
      BY <1>1, <2>2, <2>7 DEF Copies
    <3> QED
      BY <1>1, <1>3, <2>3, <2>4, <2>7, <3>1, FreshKept DEF FileStep, Kept
  <2>8. CASE e = mem[p].email
    <3>1. p \in Holders(e)' /\ p \in Holders(e)
      BY <1>3, <2>2, <2>6, <2>8 DEF Holders, Copies
    <3>2. \A q \in Holders(e)' : q = p
      BY <1>2, <3>1 DEF Shared
    <3>3. kind[p] # "import"
      BY <3>1 DEF Fresh
    <3>4. ASSUME NEW q \in Procs, NEW a \in Held(q)', a.email = e PROVE a = mem'[p]
      <4>1. q = p
        BY <3>2, <3>4 DEF Holders, Copies, Held
      <4>2. a \in todo[p] => a.email # e
        BY <1>3, <2>8, <3>3 DEF Orderly
      <4> QED
        BY <1>1, <3>4, <4>1, <4>2 DEF Held
    <3> QED
      BY <1>1, <1>2, <1>5, <2>2, <2>8, <3>2, <3>3, <3>4 DEF Fresh
  <2> QED
    BY <2>7, <2>8
<1> QED
  BY <1>4, <1>6, <1>7 DEF Refresh

\* What a process does to the files and the live one, besides its refresh.
LEMMA GoShared ==
    ASSUME Inv, NEW p \in Procs, Go(p)
    PROVE  /\ UNCHANGED backup
           /\ ~Refresh(p) => UNCHANGED issued
           /\ \/ UNCHANGED file
              \/ (\E x \in Accounts : RemoveAccount(x)) /\ pc[p] # "save"
              \/ SaveAccount(mem[p]) /\ mem[p] \in Owned
           /\ UNCHANGED live \/ (live' = mem[p].token /\ mem[p] \in Owned)
<1>1. LocalOK /\ \A a \in Owned : a.email \in Accounts
  BY OwnedParts DEF Inv
<1>2. CASE Wipe(p)
  <2>1. \A a \in todo[p] : a.email \in Accounts
    BY <1>1 DEF LocalOK
  <2> QED
    BY <1>2, <2>1 DEF Wipe
<1>3. CASE Prune(p)
  BY <1>1, <1>3 DEF Prune, LocalOK, Busy
<1>4. CASE Save(p)
  BY <1>1, <1>4 DEF Save, LocalOK, Busy
<1>5. CASE WriteLive(p)
  BY <1>1, <1>5 DEF WriteLive, LocalOK, Busy
<1>6. CASE Read(p) \/ Skip(p) \/ Refresh(p) \/ Refused(p) \/ Check(p) \/ Note(p) \/ Kill(p)
  BY <1>6 DEF Read, Skip, Refresh, Refused, Check, Note, Kill, shared
<1> QED
  BY <1>2, <1>3, <1>4, <1>5, <1>6 DEF Go

LEMMA ReadHolds ==
    ASSUME Inv, NEW p \in Procs, Read(p)
    PROVE  Apart(p) /\ Held(p)' \subseteq Stored /\ kind'[p] \in {kind[p], None} /\ Orderly(p)'
<1> DEFINE a == file[slug[was[p]]]
<1>1. was[p] \in Accounts
  BY DEF Read, Inv, LocalOK
<1>2. CASE a = NoAccount
  <2>1. Ends(p)
    BY <1>2 DEF Read
  <2>2. kind'[p] = None /\ mem'[p] = NoAccount /\ todo'[p] = {}
    BY <2>1 DEF Ends, Inv, LocalOK
  <2> QED
    BY <2>1, <2>2, EndsShrinks DEF Shrinks, Held
<1>3. CASE a # NoAccount
  <2>1. a \in Owned /\ a \in Stored
    BY <1>1, <1>3, SlugAssumption DEF Inv, SharedOK, FilesOK, Stored
  <2>2. Takes(p, kind[p], a, {}, "ask")
    BY <1>3 DEF Read
  <2>3. /\ Apart(p) /\ pc'[p] = "ask" /\ kind'[p] = kind[p] /\ todo'[p] = {}
        /\ Held(p)' = {a} \union {}
    <3> HIDE DEF a
    <3> QED
      BY <2>1, <2>2, TakesHolds
  <2> QED
    BY <2>1, <2>3 DEF Orderly
<1> QED
  BY <1>2, <1>3

LEMMA GoFresh ==
    ASSUME FreshInv, NEW p \in Procs, Go(p), NEW e \in Accounts, e \notin raced'
    PROVE  Fresh(e)'
<1>1. Inv /\ Orderly(p)
  BY DEF FreshInv
<1>2. CASE Refresh(p)
  BY <1>2, RefreshFresh
<1>3. CASE Read(p)
  <2>1. Races({}) /\ UNCHANGED shared /\ pc[p] = "read"
    BY <1>3 DEF Read
  <2>2. ~Shared(e)' /\ (e \in raced => Fresh(e)')
    BY <2>1, CleanFresh
  <2> SUFFICES ASSUME Fresh(e) PROVE Fresh(e)'
    BY <2>2 DEF FreshInv
  <2>3. Apart(p) /\ Held(p)' \subseteq Stored /\ kind'[p] \in {kind[p], None}
    BY <1>1, <1>3, ReadHolds
  <2>4. CASE kind'[p] # "import"
    BY <1>1, <2>1, <2>2, <2>3, <2>4, FreshRead
  <2>5. CASE kind'[p] = "import"
    <3>1. kind[p] = "import"
      BY <2>3, <2>5 DEF None
    <3>2. FALSE
      BY <1>1, <2>1, <3>1 DEF Orderly
    <3> QED
      BY <3>2
  <2> QED
    BY <2>4, <2>5
<1>4. CASE ~Read(p) /\ ~Refresh(p)
  <2>1. /\ Shrinks(p) /\ UNCHANGED <<backup, issued>>
        /\ \/ UNCHANGED file
           \/ (\E x \in Accounts : RemoveAccount(x)) /\ pc[p] # "save"
           \/ SaveAccount(mem[p]) /\ mem[p] \in Owned
    BY <1>1, <1>4, GoShrinks, GoShared
  <2>2. PICK lost : /\ Races(lost)
                    /\ \/ pc[p] = "save" => mem[p].email \in lost
                       \/ SaveAccount(mem[p]) /\ mem[p] \in Owned
    <3>1. CASE Save(p)
      <4>1. mem[p] \in Owned
        BY <1>1, <3>1 DEF Save, Inv, LocalOK, Busy
      <4> QED
        BY <3>1, <4>1 DEF Save
    <3>2. CASE Kill(p)
      BY <3>2 DEF Kill
    <3>3. CASE Wipe(p) \/ Skip(p) \/ Refused(p) \/ Prune(p) \/ Check(p) \/ WriteLive(p) \/ Note(p)
      BY <3>3 DEF Wipe, Skip, Refused, Prune, Check, WriteLive, Note
    <3> QED
      BY <1>4, <3>1, <3>2, <3>3 DEF Go
  <2>3. e \in raced \union lost => Fresh(e)'
    BY <2>2, CleanFresh
  <2> SUFFICES ASSUME Fresh(e), e \notin lost PROVE Fresh(e)'
    BY <2>3 DEF FreshInv
  <2>4. FileStep(e, p)
    BY <2>1, <2>2 DEF FileStep
  <2> QED
    BY <1>1, <2>1, <2>4, ShrinksKept, FreshKept
<1> QED
  BY <1>2, <1>3, <1>4

LEMMA StepFresh ==
    ASSUME FreshInv, [Next]_vars, NEW e \in Accounts, e \notin raced'
    PROVE  Fresh(e)'
<1>1. ASSUME NEW p \in Procs, NEW k \in Roles[p], Begin(p, k) PROVE Fresh(e)'
  <2>1. k \in Kinds
    BY RoleAssumption
  <2> QED
    BY <1>1, <2>1, BeginFresh
<1>2. CASE Export \/ UNCHANGED vars
  <2>1. /\ Inv /\ Fresh(e) /\ UNCHANGED <<file, issued, pc, kind, mem, todo>>
        /\ UNCHANGED backup \/ \A q \in Procs : kind[q] # "import"
    BY <1>2 DEF FreshInv, Export, vars, shared, local
  <2> QED
    BY <2>1, FreshStill
<1>3. ASSUME NEW x \in Accounts, Remove(x) PROVE Fresh(e)'
  <2>1. Races({}) /\ RemoveAccount(x) /\ UNCHANGED <<issued, backup, pc, kind, mem, todo>>
    BY <1>3 DEF Remove, local
  <2>2. e \in raced => Fresh(e)'
    BY <2>1, CleanFresh
  <2> QED
    BY <2>1, <2>2, FreshStill DEF FreshInv
<1>4. CASE AgyRefreshes
  <2>1. /\ Races({live.owner}) /\ UNCHANGED <<file, backup, pc, kind, mem, todo>>
        /\ issued' = [issued EXCEPT ![live.owner] = @ + 1]
    BY <1>4 DEF AgyRefreshes, local
  <2>2. e \in raced \union {live.owner} => Fresh(e)'
    BY <2>1, CleanFresh
  <2>3. e # live.owner => issued'[e] = issued[e]
    BY <2>1 DEF FreshInv, Inv, SharedOK
  <2> QED
    BY <2>1, <2>2, <2>3, FreshStill DEF FreshInv
<1> QED
  BY <1>1, <1>2, <1>3, <1>4, GoFresh DEF Next

-----------------------------------------------------------------------------
(* The lists stay orderly, and nobody has a token that was never issued.   *)

LEMMA BeginOrderly ==
    ASSUME Inv, NEW p \in Procs, Orderly(p), NEW k \in Kinds, Begin(p, k)
    PROVE  Apart(p) /\ Orderly(p)'
<1>1. pc[p] = "idle" /\ Stored \subseteq Owned /\ backup \subseteq Owned
  BY StoredOwned DEF Begin, Inv, SharedOK
<1>2. \A a, b \in Stored : a.email = b.email => a = b
  BY DEF Stored, Inv, SharedOK, FilesOK
<1>3. ASSUME NEW a \in Owned, NEW rest, NEW to \in Busy \union {"wipe"}, Takes(p, k, a, rest, to),
             to = "wipe" => k = "import",
             k = "import" \/ (a \in Stored /\ rest \subseteq Stored \ {a}) \/ rest = {}
      PROVE  Apart(p) /\ Orderly(p)'
  <2>1. Apart(p) /\ pc'[p] = to /\ kind'[p] = k /\ mem'[p] = a /\ todo'[p] = rest
    BY <1>3, TakesHolds
  <2> QED
    BY <1>2, <1>3, <2>1 DEF Orderly, Busy
<1>4. CASE Load(p, k)
  BY <1>1, <1>4 DEF Load, Goes, Apart, Orderly, Inv, LocalOK
<1>5. CASE List(p, k)
  <2>1. PICK a \in Stored, rest \in {{}, Stored} : Takes(p, k, a, rest \ {a}, "ask")
    BY <1>5 DEF List
  <2> QED
    BY <1>1, <1>3, <2>1 DEF Busy
<1>6. CASE Switch(p, k)
  BY <1>1, <1>3, <1>6 DEF Switch, Busy
<1>7. CASE Add(p, k)
  <2>1. PICK x \in Accounts :
          /\ issued' = [issued EXCEPT ![x] = @ + 1]
          /\ Takes(p, k, [email |-> x, token |-> [owner |-> x, number |-> issued'[x]]], {}, "save")
    BY <1>7 DEF Add
  <2>2. issued'[x] \in Nat \ {0}
    BY <2>1 DEF Inv, SharedOK
  <2>3. [email |-> x, token |-> [owner |-> x, number |-> issued'[x]]] \in Owned
    BY <2>2 DEF Owned, Account, Token
  <2> QED
    BY <1>3, <2>1, <2>3 DEF Busy
<1>8. CASE Import(p, k)
  BY <1>1, <1>3, <1>8 DEF Import, Busy
<1> QED
  BY <1>4, <1>5, <1>6, <1>7, <1>8 DEF Begin

LEMMA RefreshEffect ==
    ASSUME Inv, NEW p \in Procs, Refresh(p)
    PROVE  /\ Apart(p) /\ UNCHANGED <<kind, todo>> /\ pc'[p] = "save"
           /\ mem[p] # NoAccount /\ mem'[p].email = mem[p].email
           /\ \A x \in Accounts : issued[x] <= issued'[x]
           /\ mem'[p] = mem[p] \/ mem'[p].token.number = issued'[mem[p].email]
<1>1. pc[p] = "ask" /\ UNCHANGED <<kind, todo>> /\ issued \in [Accounts -> Nat]
  BY DEF Refresh, Inv, SharedOK
<1>2. mem[p] \in Owned /\ mem[p] # NoAccount
  BY <1>1, OwnedParts DEF Inv, LocalOK, Busy
<1>3. mem[p].email \in Accounts /\ mem[p].token.owner = mem[p].email
  BY <1>2, OwnedParts
<1>4. pc'[p] = "save" /\ \A q \in Procs \ {p} : pc'[q] = pc[q]
  BY DEF Refresh, Goes, Inv, LocalOK
<1>5. CASE UNCHANGED <<issued, mem>>
  BY <1>1, <1>2, <1>4, <1>5 DEF Apart
<1>6. CASE /\ issued' = [issued EXCEPT ![mem[p].email] = @ + 1]
           /\ mem' = [mem EXCEPT ![p].token.number = issued'[mem[p].email]]
  <2>1. /\ mem'[p] = [mem[p] EXCEPT !.token.number = issued'[mem[p].email]]
        /\ \A q \in Procs \ {p} : mem'[q] = mem[q]
    BY <1>6 DEF Inv, LocalOK
  <2>2. /\ mem'[p].email = mem[p].email
        /\ mem'[p].token.number = issued'[mem[p].email]
    BY <1>2, <2>1 DEF Owned, Account, Token
  <2>3. \A x \in Accounts : issued[x] <= issued'[x]
    BY <1>1, <1>6
  <2> QED
    BY <1>1, <1>2, <1>4, <2>1, <2>2, <2>3 DEF Apart
<1> QED
  BY <1>3, <1>5, <1>6 DEF Refresh

LEMMA StepOrderly ==
    ASSUME Inv, \A p \in Procs : Orderly(p), [Next]_vars
    PROVE  \A p \in Procs : Orderly(p)'
<1>1. ASSUME NEW p \in Procs, Apart(p), Orderly(p)' PROVE \A q \in Procs : Orderly(q)'
  BY <1>1 DEF Apart, Orderly
<1>2. ASSUME NEW p \in Procs, NEW k \in Roles[p], Begin(p, k) PROVE Apart(p) /\ Orderly(p)'
  <2>1. k \in Kinds
    BY RoleAssumption
  <2> QED
    BY <1>2, <2>1, BeginOrderly
<1>3. ASSUME NEW p \in Procs, Go(p) PROVE Apart(p) /\ Orderly(p)'
  <2>1. CASE Read(p)
    BY <2>1, ReadHolds
  <2>2. CASE Refresh(p)
    <3>1. pc[p] = "ask"
      BY <2>2 DEF Refresh
    <3> QED
      BY <2>2, <3>1, RefreshEffect DEF Orderly
  <2>3. CASE ~Read(p) /\ ~Refresh(p)
    BY <1>3, <2>3, GoShrinks DEF Shrinks
  <2> QED
    BY <2>1, <2>2, <2>3
<1>4. CASE UNCHANGED local
  BY <1>4 DEF local, Orderly
<1>5. CASE \E p \in Procs : Go(p) \/ \E k \in Roles[p] : Begin(p, k)
  BY <1>1, <1>2, <1>3, <1>5
<1> QED
  BY <1>4, <1>5 DEF Next, Remove, Export, AgyRefreshes, vars

\* What is known after a step was known before it, or has just been issued.
LEMMA NumbersKept ==
    ASSUME Inv, Numbers, \A x \in Accounts : issued[x] \in Nat /\ issued'[x] \in Nat /\ issued[x] <= issued'[x],
           \A a \in Known' : a \in Known \/ a.token.number <= issued'[a.email],
           live' # NoAccount =>
              \/ live' = live
              \/ live'.number <= issued'[live'.owner]
    PROVE  Numbers'
<1>1. \A a \in Known : a.email \in Accounts /\ a.token.number \in Nat
  <2>1. Known \subseteq Owned
    BY StoredOwned DEF Known, Held, Inv, SharedOK, LocalOK
  <2> QED
    BY <2>1, OwnedParts DEF Token
<1>2. live # NoAccount => live.owner \in Accounts /\ live.number \in Nat
  BY DEF Inv, SharedOK, Token
<1>3. ASSUME NEW a \in Known' PROVE a.token.number <= issued'[a.email]
  BY <1>1, <1>3 DEF Numbers
<1>4. live' # NoAccount => live'.number <= issued'[live'.owner]
  BY <1>2 DEF Numbers
<1> QED
  BY <1>3, <1>4 DEF Numbers

LEMMA BeginNumbers ==
    ASSUME Inv, Numbers, NEW p \in Procs, NEW k \in Kinds, Begin(p, k), Apart(p)
    PROVE  Numbers'
<1>1. Stored \subseteq Owned /\ backup \subseteq Owned /\ issued \in [Accounts -> Nat]
  BY StoredOwned DEF Inv, SharedOK
<1>2. UNCHANGED <<file, live, backup>>
  BY DEF Begin, Load, List, Switch, Add, Import, shared
<1>3. \A a \in Known' : a \in Known \/ a \in Held(p)'
  BY <1>2 DEF Known, Held, Stored, Apart
<1>4. ASSUME UNCHANGED issued, Held(p)' \subseteq Known PROVE Numbers'
  BY <1>1, <1>2, <1>3, <1>4, NumbersKept
<1>5. CASE Load(p, k)
  BY <1>4, <1>5 DEF Load, shared, Held, Known
<1>6. ASSUME NEW a \in Stored \union backup, NEW rest \in SUBSET (Stored \union backup), NEW to,
             Takes(p, k, a, rest, to), UNCHANGED issued
      PROVE  Numbers'
  <2>1. Held(p)' = {a} \union rest
    BY <1>1, <1>6, TakesHolds
  <2> QED
    BY <1>4, <1>6, <2>1 DEF Known
<1>7. CASE List(p, k)
  <2>1. PICK a \in Stored, rest \in {{}, Stored} : Takes(p, k, a, rest \ {a}, "ask")
    BY <1>7 DEF List
  <2>2. a \in Stored \union backup /\ rest \ {a} \in SUBSET (Stored \union backup)
    OBVIOUS
  <2> QED
    BY <1>6, <1>7, <2>1, <2>2 DEF List, shared
<1>8. CASE Switch(p, k)
  BY <1>6, <1>8 DEF Switch, shared
<1>9. CASE Add(p, k)
  <2>1. PICK x \in Accounts :
          /\ issued' = [issued EXCEPT ![x] = @ + 1]
          /\ Takes(p, k, [email |-> x, token |-> [owner |-> x, number |-> issued'[x]]], {}, "save")
    BY <1>9 DEF Add
  <2> DEFINE a == [email |-> x, token |-> [owner |-> x, number |-> issued'[x]]]
  <2>2. issued'[x] \in Nat \ {0}
    BY <1>1, <2>1
  <2>3. a \in Owned /\ a.token.number = issued'[a.email] /\ issued'[a.email] \in Nat
    BY <2>2 DEF Owned, Account, Token
  <2>4. \A y \in Accounts : issued[y] \in Nat /\ issued'[y] \in Nat /\ issued[y] <= issued'[y]
    BY <1>1, <2>1
  <2> HIDE DEF a
  <2>5. Takes(p, k, a, {}, "save")
    BY <2>1 DEF a
  <2>6. Held(p)' = {a} \union {}
    BY <2>3, <2>5, TakesHolds
  <2> QED
    <3>1. \A b \in Known' : b \in Known \/ b.token.number <= issued'[b.email]
      <4>1. \A b \in Held(p)' : b = a
        BY <2>6
      <4> QED
        BY <1>3, <2>3, <4>1
    <3> QED
      BY <1>2, <2>4, <3>1, NumbersKept
<1>10. CASE Import(p, k)
  <2>1. UNCHANGED issued
    BY <1>10 DEF Import, shared
  <2>2. CASE \E a \in backup : Takes(p, k, a, backup \ {a}, "save")
    <3>1. \A a \in backup : backup \ {a} \in SUBSET (Stored \union backup)
      OBVIOUS
    <3> QED
      BY <1>6, <2>1, <2>2, <3>1
  <2>3. CASE \E a \in Stored : Takes(p, k, a, Stored, "wipe")
    BY <1>6, <2>1, <2>3
  <2> QED
    BY <1>10, <2>2, <2>3 DEF Import
<1> QED
  BY <1>5, <1>7, <1>8, <1>9, <1>10 DEF Begin

LEMMA GoNumbers ==
    ASSUME Inv, Numbers, NEW p \in Procs, Orderly(p), Go(p)
    PROVE  Numbers'
<1>1. /\ issued \in [Accounts -> Nat] /\ issued' \in [Accounts -> Nat]
      /\ mem[p] \in Owned => /\ mem[p].email \in Accounts /\ mem[p] \in Known
                             /\ mem[p].token.owner = mem[p].email
  <2>1. Inv'
    BY StepInv DEF Next
  <2> QED
    BY <2>1, OwnedParts DEF Inv, SharedOK, Known, Held
<1>2. /\ UNCHANGED backup
      /\ Stored' \subseteq Known
  <2>1. /\ UNCHANGED backup
        /\ \/ UNCHANGED file
           \/ (\E x \in Accounts : RemoveAccount(x))
           \/ SaveAccount(mem[p]) /\ mem[p] \in Owned
    BY GoShared
  <2>2. file \in [Slugs -> Owned \union {NoAccount}]
    BY DEF Inv, SharedOK, FilesOK
  <2>3. \A s \in Slugs : file'[s] \in {file[s], NoAccount, mem[p]}
    BY <2>1, <2>2 DEF RemoveAccount, SaveAccount
  <2>4. CASE mem[p] \in Owned
    BY <1>1, <2>1, <2>3, <2>4 DEF Stored, Known
  <2>5. CASE mem[p] \notin Owned
    <3>1. \A s \in Slugs : file'[s] \in {file[s], NoAccount}
      BY <2>1, <2>2, <2>5 DEF RemoveAccount
    <3> QED
      BY <2>1, <3>1 DEF Stored, Known
  <2> QED
    BY <2>4, <2>5
<1>3. CASE Refresh(p)
  <2>1. /\ Apart(p) /\ UNCHANGED todo /\ mem'[p].email = mem[p].email
        /\ mem[p] # NoAccount
        /\ \A x \in Accounts : issued[x] <= issued'[x]
        /\ mem'[p] = mem[p] \/ mem'[p].token.number = issued'[mem[p].email]
    BY <1>3, RefreshEffect
  <2>2. ASSUME NEW a \in Known', a \notin Known PROVE a.token.number <= issued'[a.email]
    <3>1. a \in Held(p)'
      BY <1>2, <2>1, <2>2 DEF Known, Held, Apart
    <3>2. a = mem'[p]
      BY <2>1, <2>2, <3>1 DEF Known, Held
    <3>3. mem'[p] # mem[p]
      BY <2>1, <2>2, <3>2 DEF Known, Held
    <3>4. mem[p] \in Owned
      BY <2>1 DEF Inv, LocalOK
    <3> QED
      BY <1>1, <2>1, <3>2, <3>3, <3>4
  <2>3. UNCHANGED live
    BY <1>3 DEF Refresh
  <2> QED
    BY <1>1, <2>1, <2>2, <2>3, NumbersKept
<1>4. CASE ~Refresh(p)
  <2>1. UNCHANGED issued /\ (UNCHANGED live \/ (live' = mem[p].token /\ mem[p] \in Owned))
    BY <1>4, GoShared
  <2>2. Apart(p) /\ Held(p)' \subseteq Known
    <3>1. CASE Read(p)
      BY <3>1, ReadHolds DEF Known
    <3>2. CASE ~Read(p)
      <4>1. Apart(p) /\ Held(p)' \subseteq Copies(p)
        BY <1>4, <3>2, GoShrinks DEF Shrinks
      <4> QED
        BY <4>1 DEF Copies, Known, Held
    <3> QED
      BY <3>1, <3>2
  <2>3. Known' \subseteq Known
    BY <1>2, <2>2 DEF Known, Held, Apart
  <2>4. live' # NoAccount => live' = live \/ live'.number <= issued'[live'.owner]
    BY <1>1, <2>1 DEF Numbers
  <2> QED
    BY <1>1, <2>1, <2>3, <2>4, NumbersKept
<1> QED
  BY <1>3, <1>4

LEMMA StepNumbers ==
    ASSUME FreshInv, [Next]_vars
    PROVE  Numbers'
<1>1. Inv /\ Numbers /\ (\A p \in Procs : Orderly(p)) /\ issued \in [Accounts -> Nat]
  BY DEF FreshInv, Inv, SharedOK
<1>2. ASSUME NEW p \in Procs, NEW k \in Roles[p], Begin(p, k) PROVE Numbers'
  <2>1. k \in Kinds
    BY RoleAssumption
  <2> QED
    BY <1>1, <1>2, <2>1, BeginNumbers, BeginOrderly
<1>3. CASE Export \/ (\E e \in Accounts : Remove(e)) \/ UNCHANGED vars
  <2>1. UNCHANGED <<mem, todo, live, issued>> /\ backup' \subseteq Known /\ Stored' \subseteq Known
    <3>1. CASE \E e \in Accounts : Remove(e)
      <4>1. \A s \in Slugs : file'[s] \in {file[s], NoAccount}
        BY <1>1, <3>1 DEF Remove, RemoveAccount, Inv, SharedOK, FilesOK
      <4> QED
        BY <3>1, <4>1 DEF Remove, local, Known, Stored
    <3>2. CASE Export \/ UNCHANGED vars
      BY <3>2 DEF Export, vars, shared, local, Known, Stored
    <3> QED
      BY <1>3, <3>1, <3>2
  <2>2. Known' \subseteq Known
    BY <2>1 DEF Known, Held
  <2> QED
    BY <1>1, <2>1, <2>2, NumbersKept
<1>4. CASE AgyRefreshes
  <2>1. /\ live \in Token /\ live.owner \in Accounts /\ UNCHANGED <<file, backup, mem, todo>>
        /\ issued' = [issued EXCEPT ![live.owner] = @ + 1]
        /\ live' = [owner |-> live.owner, number |-> issued'[live.owner]]
    BY <1>1, <1>4 DEF AgyRefreshes, local, Inv, SharedOK, Token
  <2>2. Known' = Known
    BY <2>1 DEF Known, Stored, Held
  <2>3. \A x \in Accounts : issued[x] \in Nat /\ issued'[x] \in Nat /\ issued[x] <= issued'[x]
    BY <1>1, <2>1
  <2>4. live'.number <= issued'[live'.owner]
    BY <2>1, <2>3
  <2> QED
    BY <1>1, <2>2, <2>3, <2>4, NumbersKept
<1> QED
  BY <1>1, <1>2, <1>3, <1>4, GoNumbers DEF Next

LEMMA InitFresh == Init => FreshInv
<1> SUFFICES ASSUME Init PROVE FreshInv
  OBVIOUS
<1>1. \A p \in Procs : Copies(p) = {} /\ Held(p) = {}
  BY DEF Init, Copies, Held, None
<1>2. \A e \in Accounts : Absent(e) /\ Holders(e) = {}
  BY <1>1, SlugAssumption DEF Init, Absent, Holders
<1>3. \A e \in Accounts : Fresh(e)
  BY <1>1, <1>2 DEF Fresh, Shared
<1>4. \A p \in Procs : Orderly(p)
  BY DEF Init, Orderly, None
<1>5. Numbers
  BY <1>1 DEF Init, Numbers, Known, Stored
<1> QED
  BY <1>3, <1>4, <1>5, InitInv DEF FreshInv

LEMMA StepFreshInv == FreshInv /\ [Next]_vars => FreshInv'
BY StepInv, StepFresh, StepOrderly, StepNumbers DEF FreshInv

\* The newest refresh token of an account is in its file, or about to be saved,
\* for any accounts and processes, but where two had copies of it at once.
THEOREM NewestTokenKept == Spec => []NewestKept
<1>1. FreshInv => NewestKept
  BY DEF FreshInv, Fresh, NewestKept
<1> QED
  BY <1>1, InitFresh, StepFreshInv, PTL DEF Spec

\* The live file does not go back to an older token of the account it has.
THEOREM LiveNeverOlder == Spec => LiveForward
<1>1. ASSUME FreshInv, [Next]_vars, live # NoAccount, live' # NoAccount, live'.owner = live.owner,
             live.owner \notin raced \union raced'
      PROVE  live'.number >= live.number
  <2>1. live \in Token /\ live.owner \in Accounts /\ live.number \in Nat /\ live.number <= issued[live.owner]
    BY <1>1 DEF FreshInv, Inv, SharedOK, Numbers, Token
  <2>2. Fresh(live.owner) /\ Inv /\ issued \in [Accounts -> Nat]
    BY <1>1, <2>1 DEF FreshInv, Inv, SharedOK
  <2>3. ASSUME NEW p \in Procs, Go(p) PROVE live'.number >= live.number
    <3>1. UNCHANGED live \/ (live' = mem[p].token /\ mem[p] \in Owned)
      BY <2>2, <2>3, GoShared
    <3>2. CASE live' = mem[p].token /\ mem[p] \in Owned
      <4>1. mem[p] \in Held(p) /\ mem[p].email = live.owner
        BY <1>1, <3>2, OwnedParts DEF Held
      <4>2. live'.number = issued[live.owner]
        BY <2>2, <3>2, <4>1 DEF Fresh
      <4> QED
        BY <2>1, <2>2, <4>2
    <3> QED
      BY <2>1, <3>1, <3>2
  <2>4. CASE AgyRefreshes
    <3>1. issued' = [issued EXCEPT ![live.owner] = @ + 1] /\ live'.number = issued'[live.owner]
      BY <2>4 DEF AgyRefreshes
    <3> QED
      BY <2>1, <2>2, <3>1
  <2>5. CASE \/ Export \/ (\E e \in Accounts : Remove(e)) \/ UNCHANGED vars
             \/ \E p \in Procs, k \in Kinds : Begin(p, k)
    <3>1. UNCHANGED live
      BY <2>5 DEF Export, Remove, vars, shared, Begin, Load, List, Switch, Add, Import
    <3> QED
      BY <2>1, <3>1
  <2> QED
    BY <1>1, <2>3, <2>4, <2>5, RoleAssumption DEF Next
<1>2. FreshInv /\ [Next]_vars =>
        [live # NoAccount /\ live' # NoAccount /\ live'.owner = live.owner
           /\ live.owner \notin raced \union raced' => live'.number >= live.number]_vars
  BY <1>1
<1> QED
  BY <1>2, InitFresh, StepFreshInv, PTL DEF Spec, LiveForward
=============================================================================
