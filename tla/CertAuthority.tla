---------------------------- MODULE CertAuthority ----------------------------
(***************************************************************************)
(* cert.go: the certificate and the key of the local CA, two files that a  *)
(* launch, a daemon and `proxy cert` load or create, several of them at    *)
(* once; and the leaf certificates a daemon mints for its handshakes.      *)
(* Files are written with the steps of AtomicWrite.                        *)
(***************************************************************************)
EXTENDS Naturals, AtomicWrite

CONSTANTS
    Daemons,    \* the processes that go on to serve handshakes
    Threads,    \* handshakes
    Home,       \* handshake -> its daemon
    Names,      \* server names of client hellos
    NoName,     \* a client hello without one
    Default,    \* the name assumed then
    MaxPairs    \* bound on the pairs ever generated

\* The pair number n is a certificate and the key that belongs to it.
ASSUME CAAssumption ==
    /\ Paths = {"pem", "key"}
    /\ MaxPairs \in Nat
    /\ Data = 1 .. MaxPairs
    /\ Daemons \subseteq Writers
    /\ Home \in [Threads -> Daemons]

NoPair == 0
NoLeaf == <<>>

VARIABLES
    phase,      \* process -> where it is in LoadOrCreateCA
    held,       \* process -> the certificate and the key it has in memory
    made,       \* number of pairs generated
    crossed,    \* history: has a process decided to generate while another was at it?
    at,         \* handshake -> "idle", "missed" or "served"
    name,       \* handshake -> the host it asks for
    leaf,       \* handshake -> the leaf it was given
    cache       \* daemon -> host -> leaf

caVars == <<writeVars, phase, held, made, crossed>>
leafVars == <<at, name, leaf, cache>>
vars == <<caVars, leafVars>>

Hosts == (Names \ {NoName}) \union {Default}
Phases == {"off", "look", "readKey", "generate", "savePem", "saveKey", "ready"}
Creators == {p \in Writers : phase[p] \in {"generate", "savePem", "saveKey"}}

Init ==
    /\ WriteInit
    /\ phase = [p \in Writers |-> "off"]
    /\ held = [p \in Writers |-> [pem |-> NoPair, key |-> NoPair]]
    /\ made = 0
    /\ crossed = FALSE
    /\ at = [t \in Threads |-> "idle"]
    /\ name \in [Threads -> Hosts]
    /\ leaf = [t \in Threads |-> NoLeaf]
    /\ cache = [d \in Daemons |-> [h \in Hosts |-> NoLeaf]]

To(p, from, to) ==
    /\ phase[p] = from
    /\ phase' = [phase EXCEPT ![p] = to]
    /\ UNCHANGED leafVars

\* A slip: a pair is created without a look at the one there is.
CreatesAlways(p) ==
    /\ To(p, "off", "generate")
    /\ crossed' = (crossed \/ Creators # {})
    /\ UNCHANGED <<writeVars, held, made>>

LoadOrCreateCA(p) ==
    /\ To(p, "off", "look")
    /\ UNCHANGED <<writeVars, held, made, crossed>>

\* p has found no pair it can use.
Creates(p) ==
    /\ To(p, phase[p], "generate")
    /\ crossed' = (crossed \/ Creators # {})

\* Both files are looked for before the certificate is read, then the key.  A
\* file that can be read is kept: whether the two belong together is not asked.
ReadPem(p) ==
    /\ phase[p] = "look"
    /\ IF \A f \in Paths : entry[f] # NoFile
       THEN IF entry["pem"].whole
            THEN /\ To(p, "look", "readKey")
                 /\ held' = [held EXCEPT ![p].pem = entry["pem"].data]
                 /\ UNCHANGED crossed
            ELSE Creates(p) /\ UNCHANGED held
       ELSE Creates(p) /\ UNCHANGED held
    /\ UNCHANGED <<writeVars, made>>

ReadKey(p) ==
    /\ phase[p] = "readKey"
    /\ IF entry["key"] # NoFile /\ entry["key"].whole
       THEN /\ To(p, "readKey", "ready")
            /\ held' = [held EXCEPT ![p].key = entry["key"].data]
            /\ UNCHANGED crossed
       ELSE Creates(p) /\ UNCHANGED held
    /\ UNCHANGED <<writeVars, made>>

Generate(p) ==
    /\ To(p, "generate", "savePem")
    /\ made < MaxPairs
    /\ made' = made + 1
    /\ held' = [held EXCEPT ![p] = [pem |-> made', key |-> made']]
    /\ WriteFileAtomic(p, [path |-> "pem", data |-> made'])
    /\ UNCHANGED crossed

Saving(p) ==
    /\ phase[p] \in {"savePem", "saveKey"}
    /\ Progress(p)
    /\ UNCHANGED <<phase, held, made, crossed, leafVars>>

\* A slip: the error of the certificate is overlooked, and the key saved.
SavedAnyway(p) ==
    /\ step[p] = "idle"
    /\ \/ /\ To(p, "savePem", "saveKey")
          /\ WriteFileAtomic(p, [path |-> "key", data |-> held[p].key])
       \/ To(p, "saveKey", "ready") /\ UNCHANGED writeVars
    /\ UNCHANGED <<held, made, crossed>>

\* WriteFileAtomic has returned: an error ends LoadOrCreateCA and its process.
Saved(p) ==
    /\ step[p] = "idle"
    /\ \/ /\ reply[p] = "nil"
          /\ To(p, "savePem", "saveKey")
          /\ WriteFileAtomic(p, [path |-> "key", data |-> held[p].key])
       \/ /\ reply[p] = "nil"
          /\ To(p, "saveKey", "ready")
          /\ UNCHANGED writeVars
       \/ /\ reply[p] = "error"
          /\ To(p, "savePem", "off") \/ To(p, "saveKey", "off")
          /\ UNCHANGED writeVars
    /\ UNCHANGED <<held, made, crossed>>

\* A process ends, at any step: a daemon takes its cache along.
Ends(p) ==
    /\ phase[p] # "off"
    /\ Killed(p)
    /\ phase' = [phase EXCEPT ![p] = "off"]
    /\ held' = [held EXCEPT ![p] = [pem |-> NoPair, key |-> NoPair]]
    /\ at' = [t \in Threads |-> IF Home[t] = p THEN "idle" ELSE at[t]]
    /\ cache' = IF p \in Daemons THEN [cache EXCEPT ![p] = [h \in Hosts |-> NoLeaf]] ELSE cache
    /\ UNCHANGED <<made, crossed, name, leaf>>

Flushes == Flush /\ UNCHANGED <<phase, held, made, crossed, leafVars>>

LosesPower ==
    /\ PowerLoss
    /\ phase' = [p \in Writers |-> "off"]
    /\ held' = [p \in Writers |-> [pem |-> NoPair, key |-> NoPair]]
    /\ at' = [t \in Threads |-> "idle"]
    /\ cache' = [d \in Daemons |-> [h \in Hosts |-> NoLeaf]]
    /\ UNCHANGED <<made, crossed, name, leaf>>

-----------------------------------------------------------------------------
\* A slip: the name of the client hello is taken as it is.
LookUpRaw(t, n) ==
    /\ phase[Home[t]] = "ready" /\ at[t] = "idle"
    /\ name' = [name EXCEPT ![t] = n]
    /\ at' = [at EXCEPT ![t] = "missed"]
    /\ UNCHANGED <<caVars, leaf, cache>>

\* GetCertificate: a look at the cache under the read lock ...
LookUp(t, n) ==
    LET h == IF n = NoName THEN Default ELSE n
        known == cache[Home[t]][h]
    IN /\ phase[Home[t]] = "ready" /\ at[t] = "idle"
       /\ name' = [name EXCEPT ![t] = h]
       /\ at' = [at EXCEPT ![t] = IF known = NoLeaf THEN "missed" ELSE "served"]
       /\ leaf' = [leaf EXCEPT ![t] = known]
       /\ UNCHANGED <<caVars, cache>>

\* A slip: no second look under the write lock.
MintAnew(t) ==
    LET d == Home[t]
    IN /\ at[t] = "missed"
       /\ at' = [at EXCEPT ![t] = "served"]
       /\ leaf' = [leaf EXCEPT ![t] = <<t, held[d].pem, held[d].key>>]
       /\ cache' = [cache EXCEPT ![d][name[t]] = leaf'[t]]
       /\ UNCHANGED <<caVars, name>>

\* ... and, after a miss, a second one and the minting under the write lock.
\* The minter tells the leaves of one host apart.
Mint(t) ==
    LET d == Home[t]
        known == cache[d][name[t]]
        new == <<t, held[d].pem, held[d].key>>
    IN /\ at[t] = "missed"
       /\ at' = [at EXCEPT ![t] = "served"]
       /\ leaf' = [leaf EXCEPT ![t] = IF known = NoLeaf THEN new ELSE known]
       /\ cache' = [cache EXCEPT ![d][name[t]] = leaf'[t]]
       /\ UNCHANGED <<caVars, name>>

Handshake(t) == (\E n \in Names : LookUp(t, n)) \/ Mint(t)

Process(p) ==
    \/ LoadOrCreateCA(p) \/ ReadPem(p) \/ ReadKey(p) \/ Generate(p)
    \/ Saving(p) \/ Saved(p) \/ Ends(p)

Next ==
    \/ \E p \in Writers : Process(p)
    \/ \E t \in Threads : Handshake(t)
    \/ Flushes
    \/ LosesPower

Spec == Init /\ [][Next]_vars

-----------------------------------------------------------------------------
TypeOK ==
    /\ entry \in [Paths -> File \union {NoFile}]
    /\ stored \in [Paths -> File \union {NoFile}]
    /\ temp \in [Writers -> File \union {NoFile}]
    /\ step \in [Writers -> Steps]
    /\ arg \in [Writers -> Args]
    /\ reply \in [Writers -> {"none", "nil", "error"}]
    /\ phase \in [Writers -> Phases]
    /\ held \in [Writers -> [pem : 0 .. MaxPairs, key : 0 .. MaxPairs]]
    /\ made \in 0 .. MaxPairs
    /\ crossed \in BOOLEAN
    /\ at \in [Threads -> {"idle", "missed", "served"}]
    /\ name \in [Threads -> Hosts]

\* A process that has its CA holds a certificate and the key that belongs to
\* it, and so do the files: no failed write, kill or power loss can part them,
\* as long as no two processes create the CA at the same time (cert.go:30-100).
PairsMatch ==
    ~crossed =>
        /\ \A p \in Writers : phase[p] = "ready" => held[p].pem = held[p].key
        /\ entry["key"] # NoFile =>
              entry["pem"] # NoFile /\ entry["pem"].data = entry["key"].data

\* The certificate file that clients were told to trust is not replaced while
\* its key is there: a later start finds it, whatever failed before
\* (cert.go:34-47; launches export the path of ca.pem, main.go:45-52).
TrustKept ==
    [][~crossed /\ (\A f \in Paths : entry[f] # NoFile) /\ entry'["key"] # NoFile
         => entry'["pem"] = entry["pem"]]_vars

\* All handshakes of one daemon for one host are given the same leaf: two that
\* miss the cache together do not mint two (cert.go:149-152).
OneLeaf ==
    \A t, u \in Threads :
        at[t] = "served" /\ at[u] = "served" /\ Home[t] = Home[u] /\ name[t] = name[u]
            => leaf[t] = leaf[u]

\* A leaf that is served verifies against the file the client trusts.
LeafTrusted ==
    ~crossed => \A t \in Threads :
        at[t] = "served" => entry["pem"] # NoFile
                            /\ leaf[t][2] = entry["pem"].data
                            /\ leaf[t][3] = entry["pem"].data

\* The documented behaviour: LoadOrCreateCA "loads the CA certificate and private key
\* from store, or generates fresh ones" (cert.go:29), so whoever has its CA
\* holds a matching pair.
ReadyMatches == \A p \in Writers : phase[p] = "ready" => held[p].pem = held[p].key

=============================================================================
