------------------------------ MODULE CertProofs ------------------------------
(***************************************************************************)
(* Proofs about WriteFileAtomic and the certificate authority, for any     *)
(* processes, handshakes, names and number of pairs.                       *)
(***************************************************************************)
EXTENDS CertAuthority, TLAPS

-----------------------------------------------------------------------------
(* WriteFileAtomic implements a register.  Only complete and synced files  *)
(* are renamed, so that a directory never names any other: neither what is *)
(* read nor what a power loss leaves can be torn.                          *)

Sound == {f \in File : f.whole /\ f.synced}

FilesSound ==
    /\ entry \in [Paths -> Sound \union {NoFile}]
    /\ stored \in [Paths -> Sound \union {NoFile}]
    /\ temp \in [Writers -> File \union {NoFile}]
    /\ step \in [Writers -> Steps]
    /\ arg \in [Writers -> Args]
    /\ reply \in [Writers -> {"none", "nil", "error"}]

TempOf(w) ==
    /\ step[w] \in {"write", "sync", "close", "chmod", "rename"} =>
          temp[w] \in File /\ temp[w].data = arg[w].data
    /\ step[w] \in {"sync", "close", "chmod", "rename"} => temp[w].whole
    /\ step[w] \in {"close", "chmod", "rename"} => temp[w].synced

WriteInv == FilesSound /\ \A w \in Writers : TempOf(w)

LEMMA SoundParts ==
    /\ NoFile \notin File /\ NoFile \notin Sound
    /\ \A f \in Sound : f.whole /\ f.synced /\ f.data \in Data /\ f \in File
    /\ \A f \in Sound \union {NoFile} : Recovered(f) = f
BY FileAssumption DEF Sound, File, Recovered

LEMMA WriteInitInv == WriteInit => WriteInv
BY DEF WriteInit, WriteInv, FilesSound, TempOf, Steps

\* What one writer's step leaves of the others.
LEMMA ProgressInv ==
    ASSUME WriteInv, NEW w \in Writers, Progress(w) \/ Killed(w)
    PROVE  WriteInv'
<1>1. FilesSound /\ TempOf(w) /\ \A v \in Writers \ {w} : TempOf(v)
  BY DEF WriteInv
<1>2. ASSUME FilesSound', TempOf(w)',
             \A v \in Writers \ {w} : UNCHANGED <<step[v], temp[v], arg[v]>>
      PROVE  WriteInv'
  BY <1>1, <1>2 DEF WriteInv, TempOf
<1>3. CASE CreateTemp(w)
  <2>1. arg[w].data \in Data
    BY <1>1 DEF FilesSound, Args
  <2>2. [data |-> arg[w].data, whole |-> FALSE, synced |-> FALSE] \in File
    BY <2>1 DEF File
  <2>3. /\ FilesSound' /\ temp'[w] = [data |-> arg[w].data, whole |-> FALSE, synced |-> FALSE]
        /\ step'[w] = "write" /\ arg' = arg
        /\ \A v \in Writers \ {w} : UNCHANGED <<step[v], temp[v], arg[v]>>
    BY <1>1, <1>3, <2>2 DEF CreateTemp, Goes, FilesSound, Steps, Calls
  <2> QED
    BY <1>2, <2>2, <2>3 DEF TempOf
<1>4. CASE Write(w)
  <2>1. temp[w] \in File /\ temp[w].data = arg[w].data
    BY <1>1, <1>4 DEF Write, Goes, TempOf
  <2>2. [temp[w] EXCEPT !.whole = TRUE] \in File
    BY <2>1 DEF File
  <2>3. /\ FilesSound' /\ temp'[w] = [temp[w] EXCEPT !.whole = TRUE]
        /\ step'[w] = "sync" /\ arg' = arg
        /\ \A v \in Writers \ {w} : UNCHANGED <<step[v], temp[v], arg[v]>>
    BY <1>1, <1>4, <2>2 DEF Write, Goes, FilesSound, Steps, Calls
  <2> QED
    BY <1>2, <2>1, <2>2, <2>3 DEF TempOf, File
<1>5. CASE Sync(w)
  <2>1. temp[w] \in File /\ temp[w].data = arg[w].data /\ temp[w].whole
    BY <1>1, <1>5 DEF Sync, Goes, TempOf
  <2>2. [temp[w] EXCEPT !.synced = TRUE] \in File
    BY <2>1 DEF File
  <2>3. /\ FilesSound' /\ temp'[w] = [temp[w] EXCEPT !.synced = TRUE]
        /\ step'[w] = "close" /\ arg' = arg
        /\ \A v \in Writers \ {w} : UNCHANGED <<step[v], temp[v], arg[v]>>
    BY <1>1, <1>5, <2>2 DEF Sync, Goes, FilesSound, Steps, Calls
  <2> QED
    BY <1>2, <2>1, <2>2, <2>3 DEF TempOf, File
<1>6. CASE CloseAndChmod(w)
  <2>1. /\ FilesSound' /\ UNCHANGED <<temp, arg>> /\ step'[w] \in {"chmod", "rename"}
        /\ step[w] \in {"close", "chmod"}
        /\ \A v \in Writers \ {w} : UNCHANGED <<step[v], temp[v], arg[v]>>
    BY <1>1, <1>6 DEF CloseAndChmod, Goes, FilesSound, Steps, Calls
  <2> QED
    BY <1>1, <1>2, <2>1 DEF TempOf
<1>7. CASE Rename(w)
  <2>1. temp[w] \in Sound /\ arg[w].path \in Paths
    BY <1>1, <1>7 DEF Rename, Goes, TempOf, Sound, FilesSound, Args
  <2>2. /\ FilesSound' /\ step'[w] = "cleanup"
        /\ \A v \in Writers \ {w} : UNCHANGED <<step[v], temp[v], arg[v]>>
    BY <1>1, <1>7, <2>1 DEF Rename, Goes, FilesSound, Steps
  <2> QED
    BY <1>2, <2>2 DEF TempOf
<1>8. CASE Fails(w)
  <2>1. /\ FilesSound' /\ step'[w] = "unlink"
        /\ \A v \in Writers \ {w} : UNCHANGED <<step[v], temp[v], arg[v]>>
    BY <1>1, <1>8 DEF Fails, Goes, FilesSound, Steps
  <2> QED
    BY <1>2, <2>1 DEF TempOf
<1>9. CASE Remove(w) \/ Killed(w)
  <2>1. /\ FilesSound' /\ step'[w] = "idle"
        /\ \A v \in Writers \ {w} : UNCHANGED <<step[v], temp[v], arg[v]>>
    BY <1>1, <1>9 DEF Remove, Killed, FilesSound, Steps
  <2> QED
    BY <1>2, <2>1 DEF TempOf
<1> QED
  BY <1>3, <1>4, <1>5, <1>6, <1>7, <1>8, <1>9 DEF Progress

LEMMA WriteStepInv == WriteInv /\ [WriteNext]_writeVars => WriteInv'
<1> SUFFICES ASSUME WriteInv, [WriteNext]_writeVars PROVE WriteInv'
  OBVIOUS
<1>1. ASSUME NEW w \in Writers, NEW a \in Args, WriteFileAtomic(w, a) PROVE WriteInv'
  BY <1>1 DEF WriteFileAtomic, WriteInv, FilesSound, TempOf, Steps, Calls
<1>2. CASE Flush
  BY <1>2 DEF Flush, WriteInv, FilesSound, TempOf
<1>3. CASE PowerLoss
  BY <1>3, SoundParts DEF PowerLoss, WriteInv, FilesSound, TempOf, Steps
<1>4. CASE UNCHANGED writeVars
  BY <1>4 DEF writeVars, WriteInv, FilesSound, TempOf
<1> QED
  BY <1>1, <1>2, <1>3, <1>4, ProgressInv DEF WriteNext

-----------------------------------------------------------------------------
LEMMA RegisterInit == WriteInit => Register!Init
BY DEF WriteInit, Register!Init, Content, Args, Register!Args

LEMMA RegisterStep == WriteInv /\ [WriteNext]_writeVars => [Register!Next]_(Register!vars)
<1> SUFFICES ASSUME WriteInv, [WriteNext]_writeVars
             PROVE  Register!Next \/ UNCHANGED Register!vars
  OBVIOUS
<1> USE DEF WriteInv, FilesSound
<1>1. ASSUME NEW w \in Writers, NEW a \in Args, WriteFileAtomic(w, a) PROVE Register!Call(w, a)
  BY <1>1 DEF WriteFileAtomic, Register!Call
<1>2. ASSUME NEW w \in Writers, CreateTemp(w) \/ Write(w) \/ Sync(w) \/ CloseAndChmod(w)
      PROVE  UNCHANGED Register!vars
  BY <1>2 DEF CreateTemp, Write, Sync, CloseAndChmod, Goes, Register!vars
<1>3. ASSUME NEW w \in Writers, Rename(w) PROVE Register!Replace(w)
  <2>1. /\ temp[w].whole /\ temp[w] \in File /\ temp[w].data = arg[w].data
        /\ arg[w].path \in Paths
    BY <1>3 DEF Rename, Goes, TempOf, Args
  <2>2. Content(temp[w]) = arg[w].data
    BY <2>1, SoundParts DEF Content
  <2>3. entry' = [entry EXCEPT ![arg[w].path] = temp[w]]
    BY <1>3 DEF Rename
  <2>4. [p \in Paths |-> Content(entry'[p])]
        = [[p \in Paths |-> Content(entry[p])] EXCEPT ![arg[w].path] = arg[w].data]
    BY <2>1, <2>2, <2>3
  <2> QED
    BY <1>3, <2>4 DEF Rename, Goes, Register!Replace
<1>4. ASSUME NEW w \in Writers, Fails(w) PROVE Register!Refuse(w)
  BY <1>4 DEF Fails, Goes, Calls, Register!Refuse
<1>5. ASSUME NEW w \in Writers, Remove(w) PROVE Register!Return(w)
  BY <1>5 DEF Remove, Register!Return
<1>6. ASSUME NEW w \in Writers, Killed(w) PROVE Register!Die(w)
  BY <1>6 DEF Killed, Register!Die
<1>7. CASE Flush
  BY <1>7 DEF Flush, Register!Flush, Register!Next
<1>8. CASE PowerLoss
  <2>1. entry' = stored /\ stored' = stored
    BY <1>8, SoundParts DEF PowerLoss
  <2> QED
    BY <1>8, <2>1 DEF PowerLoss, Register!PowerLoss, Register!Next
<1>9. CASE UNCHANGED writeVars
  BY <1>9 DEF writeVars, Register!vars
<1> QED
  BY <1>1, <1>2, <1>3, <1>4, <1>5, <1>6, <1>7, <1>8, <1>9
  DEF WriteNext, Progress, Register!Next, Args, Register!Args

\* WriteFileAtomic, called at any time by anyone, replaces files at once.
THEOREM WritesAtOnce == WriteSpec => ReplacedAtOnce
BY WriteInitInv, WriteStepInv, RegisterInit, RegisterStep, PTL
   DEF WriteSpec, ReplacedAtOnce, Register!Spec

-----------------------------------------------------------------------------
(* The certificate authority.  First what holds whatever happens: types,   *)
(* and what a process is writing in which phase.                           *)

Numbers == 0 .. MaxPairs

CATypes ==
    /\ phase \in [Writers -> Phases]
    /\ held \in [Writers -> [pem : Numbers, key : Numbers]]
    /\ made \in Numbers
    /\ crossed \in BOOLEAN

Saves(p) ==
    /\ phase[p] \notin {"savePem", "saveKey"} => step[p] = "idle"
    /\ phase[p] \in {"savePem", "saveKey"} => held[p].pem = held[p].key /\ held[p].pem \in Data
    /\ phase[p] = "savePem" => arg[p] = [path |-> "pem", data |-> held[p].pem]
    /\ phase[p] = "saveKey" => arg[p] = [path |-> "key", data |-> held[p].pem]

CAInv == WriteInv /\ CATypes /\ \A p \in Writers : Saves(p)

LEMMA CAInit == Init => CAInv
<1> SUFFICES ASSUME Init PROVE CAInv
  OBVIOUS
<1>1. WriteInv
  BY WriteInitInv DEF Init
<1>2. CATypes
  <2>1. 0 \in Numbers
    BY CAAssumption DEF Numbers
  <2>2. held \in [Writers -> [pem : Numbers, key : Numbers]]
    BY <2>1 DEF Init, NoPair
  <2> QED
    BY <2>1, <2>2 DEF Init, CATypes, Phases
<1>3. \A p \in Writers : phase[p] = "off" /\ step[p] = "idle"
  BY DEF Init, WriteInit
<1> QED
  BY <1>1, <1>2, <1>3 DEF CAInv, Saves

LEMMA CAParts ==
    /\ Paths = {"pem", "key"} /\ MaxPairs \in Nat /\ Data = 1 .. MaxPairs /\ Data \subseteq Numbers
    /\ Daemons \subseteq Writers /\ Home \in [Threads -> Daemons]
BY CAAssumption DEF Numbers

\* Every step is one of WriteFileAtomic, or leaves the files alone.
LEMMA GenerateWrites ==
    ASSUME CAInv, NEW p \in Writers, Generate(p)
    PROVE  /\ [path |-> "pem", data |-> made'] \in Args
           /\ WriteFileAtomic(p, [path |-> "pem", data |-> made'])
           /\ made' \in Data /\ held' = [held EXCEPT ![p] = [pem |-> made', key |-> made']]
           /\ phase' = [phase EXCEPT ![p] = "savePem"] /\ UNCHANGED <<crossed, leafVars>>
           /\ phase[p] = "generate"
<1>1. made' \in Data
  BY CAParts DEF CAInv, CATypes, Numbers, Generate
<1> QED
  BY <1>1, CAParts DEF Generate, To, Args

LEMMA SavedWrites ==
    ASSUME CAInv, NEW p \in Writers, phase[p] = "savePem",
           WriteFileAtomic(p, [path |-> "key", data |-> held[p].key])
    PROVE  [path |-> "key", data |-> held[p].key] \in Args
BY CAParts DEF CAInv, Saves, Args

LEMMA CAWrites == CAInv /\ [Next]_vars => [WriteNext]_writeVars
<1> SUFFICES ASSUME CAInv, [Next]_vars PROVE WriteNext \/ UNCHANGED writeVars
  OBVIOUS
<1>1. ASSUME NEW p \in Writers, Process(p) PROVE WriteNext \/ UNCHANGED writeVars
  <2>1. CASE LoadOrCreateCA(p) \/ ReadPem(p) \/ ReadKey(p)
    BY <2>1 DEF LoadOrCreateCA, ReadPem, ReadKey
  <2>2. CASE Generate(p)
    BY <2>2, GenerateWrites DEF WriteNext
  <2>3. CASE Saving(p) \/ Ends(p)
    BY <2>3 DEF Saving, Ends, WriteNext
  <2>4. CASE Saved(p)
    BY <2>4, SavedWrites DEF Saved, To, WriteNext
  <2> QED
    BY <1>1, <2>1, <2>2, <2>3, <2>4 DEF Process
<1>2. ASSUME NEW t \in Threads, Handshake(t) PROVE UNCHANGED writeVars
  BY <1>2 DEF Handshake, LookUp, Mint, caVars
<1>3. CASE Flushes \/ LosesPower \/ UNCHANGED vars
  BY <1>3 DEF Flushes, LosesPower, WriteNext, vars, caVars
<1> QED
  BY <1>1, <1>2, <1>3 DEF Next

LEMMA ArgKept ==
    ASSUME WriteInv, NEW p \in Writers, Progress(p)
    PROVE  arg' = arg /\ \A q \in Writers \ {p} : step'[q] = step[q] /\ reply'[q] = reply[q]
BY DEF Progress, CreateTemp, Write, Sync, CloseAndChmod, Rename, Fails, Remove, Goes, WriteInv, FilesSound

LEMMA CAStep == CAInv /\ [Next]_vars => CAInv'
<1> SUFFICES ASSUME CAInv, [Next]_vars PROVE CAInv'
  OBVIOUS
<1>1. WriteInv'
  BY CAWrites, WriteStepInv DEF CAInv
<1>2. WriteInv /\ CATypes /\ \A p \in Writers : Saves(p)
  BY DEF CAInv
<1>3. \A p \in Writers : phase[p] \in Phases /\ held[p] \in [pem : Numbers, key : Numbers]
  BY <1>2 DEF CATypes
\* A step of p that leaves the memory and the phase of the others.
<1>4. ASSUME NEW p \in Writers, CATypes', Saves(p)',
             \A q \in Writers \ {p} : UNCHANGED <<step[q], arg[q], phase[q], held[q]>>
      PROVE  CAInv'
  BY <1>1, <1>2, <1>4 DEF CAInv, Saves
<1>5. ASSUME NEW p \in Writers, NEW to \in Phases \ {"savePem", "saveKey"},
             phase[p] \notin {"savePem", "saveKey"},
             phase' = [phase EXCEPT ![p] = to], UNCHANGED <<writeVars, made>>,
             crossed' \in BOOLEAN,
             \/ UNCHANGED held
             \/ \E n \in Numbers : held' = [held EXCEPT ![p].pem = n] \/ held' = [held EXCEPT ![p].key = n]
      PROVE  CAInv'
  <2>1. held' \in [Writers -> [pem : Numbers, key : Numbers]]
        /\ \A q \in Writers \ {p} : held'[q] = held[q]
    BY <1>2, <1>3, <1>5 DEF CATypes
  <2>2. phase' \in [Writers -> Phases] /\ phase'[p] = to /\ \A q \in Writers \ {p} : phase'[q] = phase[q]
    BY <1>2, <1>5 DEF CATypes
  <2>3. CATypes' /\ Saves(p)'
    BY <1>2, <1>5, <2>1, <2>2 DEF CATypes, Saves, writeVars
  <2> QED
    BY <1>4, <1>5, <2>1, <2>2, <2>3 DEF writeVars
<1>6. ASSUME NEW p \in Writers, LoadOrCreateCA(p) \/ ReadPem(p) \/ ReadKey(p) PROVE CAInv'
  <2>1. CASE LoadOrCreateCA(p)
    BY <1>2, <1>5, <2>1 DEF LoadOrCreateCA, To, Phases, CATypes
  <2>2. ASSUME NEW f \in Paths, entry[f] # NoFile PROVE entry[f].data \in Numbers
    BY <1>2, <2>2, SoundParts, CAParts DEF WriteInv, FilesSound
  <2>3. crossed' \in BOOLEAN /\ UNCHANGED <<writeVars, made>>
    BY <1>2, <1>6 DEF LoadOrCreateCA, ReadPem, ReadKey, Creates, CATypes
  <2>4. CASE ReadPem(p)
    <3>1. CASE phase' = [phase EXCEPT ![p] = "generate"] /\ UNCHANGED held
      BY <1>5, <2>3, <2>4, <3>1 DEF ReadPem, Phases
    <3>2. CASE phase' = [phase EXCEPT ![p] = "readKey"] /\ held' = [held EXCEPT ![p].pem = entry["pem"].data]
               /\ entry["pem"] # NoFile
      BY <1>5, <2>2, <2>3, <2>4, <3>2, CAParts DEF ReadPem, Phases
    <3> QED
      BY <2>4, <3>1, <3>2, CAParts DEF ReadPem, Creates, To
  <2>5. CASE ReadKey(p)
    <3>1. CASE phase' = [phase EXCEPT ![p] = "generate"] /\ UNCHANGED held
      BY <1>5, <2>3, <2>5, <3>1 DEF ReadKey, Phases, To
    <3>2. CASE phase' = [phase EXCEPT ![p] = "ready"] /\ held' = [held EXCEPT ![p].key = entry["key"].data]
               /\ entry["key"] # NoFile
      BY <1>5, <2>2, <2>3, <2>5, <3>2, CAParts DEF ReadKey, Phases
    <3> QED
      BY <2>5, <3>1, <3>2 DEF ReadKey, Creates, To
  <2> QED
    BY <1>6, <2>1, <2>4, <2>5
<1>7. ASSUME NEW p \in Writers, Generate(p) PROVE CAInv'
  <2>1. /\ made' \in Data /\ made' \in Numbers
        /\ phase' = [phase EXCEPT ![p] = "savePem"]
        /\ held' = [held EXCEPT ![p] = [pem |-> made', key |-> made']]
        /\ arg' = [arg EXCEPT ![p] = [path |-> "pem", data |-> made']]
        /\ step' = [step EXCEPT ![p] = "create"] /\ UNCHANGED crossed
    BY <1>7, GenerateWrites, CAParts DEF WriteFileAtomic
  <2>2. CATypes' /\ Saves(p)'
    BY <1>2, <2>1 DEF CATypes, Saves, WriteInv, FilesSound, Phases
  <2> QED
    BY <1>2, <1>4, <2>1, <2>2 DEF CATypes, WriteInv, FilesSound
<1>8. ASSUME NEW p \in Writers, Saving(p) PROVE CAInv'
  <2>1. /\ arg' = arg /\ \A q \in Writers \ {p} : step'[q] = step[q]
        /\ UNCHANGED <<phase, held, made, crossed>> /\ phase[p] \in {"savePem", "saveKey"}
    BY <1>2, <1>8, ArgKept DEF Saving
  <2>2. CATypes' /\ Saves(p)'
    BY <1>2, <2>1 DEF CATypes, Saves
  <2> QED
    BY <1>4, <2>1, <2>2
<1>9. ASSUME NEW p \in Writers, Saved(p) PROVE CAInv'
  <2>1. UNCHANGED <<held, made, crossed>> /\ step[p] = "idle"
    BY <1>9 DEF Saved
  <2>2. CASE phase[p] = "savePem" /\ phase' = [phase EXCEPT ![p] = "saveKey"]
             /\ WriteFileAtomic(p, [path |-> "key", data |-> held[p].key])
    <3>1. /\ arg' = [arg EXCEPT ![p] = [path |-> "key", data |-> held[p].pem]]
          /\ step' = [step EXCEPT ![p] = "create"] /\ Saves(p)
      BY <1>2, <2>2 DEF WriteFileAtomic, Saves
    <3>2. CATypes' /\ Saves(p)'
      BY <1>2, <2>1, <2>2, <3>1 DEF CATypes, Saves, WriteInv, FilesSound, Phases
    <3> QED
      BY <1>2, <1>4, <2>1, <2>2, <3>1, <3>2 DEF CATypes, WriteInv, FilesSound
  <2>3. CASE (\E to \in {"ready", "off"} : phase' = [phase EXCEPT ![p] = to]) /\ UNCHANGED writeVars
    <3>1. CATypes' /\ Saves(p)'
      BY <1>2, <2>1, <2>3 DEF CATypes, Saves, Phases, writeVars
    <3> QED
      BY <1>2, <1>4, <2>1, <2>3, <3>1 DEF CATypes, writeVars
  <2> QED
    BY <1>9, <2>2, <2>3 DEF Saved, To
<1>10. ASSUME NEW p \in Writers, Ends(p) PROVE CAInv'
  <2>1. /\ phase' = [phase EXCEPT ![p] = "off"] /\ step' = [step EXCEPT ![p] = "idle"]
        /\ held' = [held EXCEPT ![p] = [pem |-> NoPair, key |-> NoPair]]
        /\ UNCHANGED <<made, crossed, arg>>
    BY <1>10 DEF Ends, Killed
  <2>2. NoPair \in Numbers
    BY CAParts DEF NoPair, Numbers
  <2>3. CATypes' /\ Saves(p)'
    BY <1>2, <2>1, <2>2 DEF CATypes, Saves, Phases, WriteInv, FilesSound
  <2> QED
    BY <1>2, <1>4, <2>1, <2>3 DEF CATypes, WriteInv, FilesSound
<1>11. CASE UNCHANGED <<phase, held, made, crossed, step, arg>>
  BY <1>1, <1>2, <1>11 DEF CAInv, CATypes, Saves
<1>12. CASE LosesPower
  <2>1. NoPair \in Numbers
    BY CAParts DEF NoPair, Numbers
  <2> QED
    BY <1>1, <1>2, <1>12, <2>1 DEF LosesPower, PowerLoss, CAInv, CATypes, Saves, Phases
<1>13. CASE Flushes \/ UNCHANGED vars \/ \E t \in Threads : Handshake(t)
  BY <1>11, <1>13 DEF Flushes, Flush, vars, caVars, writeVars, Handshake, LookUp, Mint
<1> QED
  BY <1>6, <1>7, <1>8, <1>9, <1>10, <1>12, <1>13 DEF Next, Process

\* The CA's files are replaced at once: whatever fails, whoever is killed, and
\* after a power loss, no start finds half a certificate or half a key.
THEOREM CAFilesWhole == Spec => ReplacedAtOnce
<1>1. CAInv /\ [Next]_vars => [Register!Next]_(Register!vars)
  BY CAWrites, RegisterStep DEF CAInv
<1>2. Init => Register!Init
  BY RegisterInit DEF Init
<1> QED
  BY <1>1, <1>2, CAInit, CAStep, PTL DEF Spec, ReplacedAtOnce, Register!Spec

-----------------------------------------------------------------------------
(* As long as no two processes have created the CA at the same time, the   *)
(* key appears only after its certificate, and then neither changes.       *)

Done(p) == step[p] = "cleanup" \/ (step[p] = "idle" /\ reply[p] = "nil")

FilesAgree ==
    /\ entry["key"] # NoFile => entry["pem"] # NoFile /\ entry["pem"].data = entry["key"].data
    /\ stored["key"] # NoFile => stored["pem"] = entry["pem"] /\ stored["key"] = entry["key"]

OneCreator == \A p, q \in Creators : p = q

\* What the files are while p is where it is.
Fits(p) ==
    /\ phase[p] = "readKey" => entry["key"] # NoFile /\ held[p].pem = entry["pem"].data
    /\ phase[p] = "ready" => /\ entry["key"] # NoFile
                             /\ held[p].pem = entry["pem"].data /\ held[p].key = entry["pem"].data
    /\ phase[p] \in {"generate", "savePem"} \/ (phase[p] = "saveKey" /\ ~Done(p)) =>
          entry["key"] = NoFile
    /\ phase[p] = "saveKey" \/ (phase[p] = "savePem" /\ Done(p)) =>
          entry["pem"] # NoFile /\ entry["pem"].data = held[p].pem
    /\ phase[p] = "saveKey" /\ Done(p) => entry["key"] # NoFile

Agreed == FilesAgree /\ OneCreator /\ \A p \in Writers : Fits(p)

LEMMA AgreedInit == Init => Agreed
<1> SUFFICES ASSUME Init PROVE Agreed
  OBVIOUS
<1>1. entry["key"] = NoFile /\ stored["key"] = NoFile
  BY CAParts DEF Init, WriteInit
<1>2. \A p \in Writers : phase[p] = "off"
  BY DEF Init
<1> QED
  BY <1>1, <1>2 DEF Agreed, FilesAgree, OneCreator, Creators, Fits

LEMMA CrossedStays == [Next]_vars /\ crossed => crossed'
BY DEF Next, Process, LoadOrCreateCA, ReadPem, ReadKey, Creates, Generate, Saving, Saved, Ends,
       Handshake, LookUp, Mint, Flushes, LosesPower, vars, caVars

LEMMA AgreedStep ==
    ASSUME CAInv, Agreed, [Next]_vars, ~crossed'
    PROVE  Agreed'
<1>1. WriteInv /\ CATypes /\ FilesAgree /\ OneCreator /\ \A p \in Writers : Saves(p) /\ Fits(p)
  BY DEF CAInv, Agreed
<1>2. "pem" \in Paths /\ "key" \in Paths /\ \A f \in Paths : f \in {"pem", "key"}
  BY CAParts
<1>3. \A f \in Paths : entry[f] # NoFile => entry[f] \in Sound /\ entry[f].whole
  BY <1>1, SoundParts DEF WriteInv, FilesSound
\* A step of p alone that leaves the files, and makes p no creator it was not.
<1>4. ASSUME NEW p \in Writers, UNCHANGED <<entry, stored>>, Fits(p)',
             phase'[p] \in {"generate", "savePem", "saveKey"} => p \in Creators \/ Creators = {},
             \A q \in Writers \ {p} : UNCHANGED <<step[q], reply[q], phase[q], held[q]>>
      PROVE  Agreed'
  <2>1. FilesAgree' /\ \A q \in Writers : Fits(q)'
    BY <1>1, <1>4 DEF FilesAgree, Fits, Done
  <2>2. OneCreator'
    BY <1>1, <1>4 DEF OneCreator, Creators
  <2> QED
    BY <2>1, <2>2 DEF Agreed
<1>5. ASSUME NEW p \in Writers, LoadOrCreateCA(p) \/ ReadPem(p) \/ ReadKey(p) PROVE Agreed'
  <2>1. UNCHANGED writeVars /\ phase[p] \in {"off", "look", "readKey"}
    BY <1>5 DEF LoadOrCreateCA, ReadPem, ReadKey, To
  <2>2. \A q \in Writers \ {p} : phase'[q] = phase[q] /\ held'[q] = held[q]
    BY <1>1, <1>5 DEF LoadOrCreateCA, ReadPem, ReadKey, Creates, To, CATypes
  <2>3. CASE LoadOrCreateCA(p)
    <3>1. phase'[p] = "look"
      BY <1>1, <2>3 DEF LoadOrCreateCA, To, CATypes
    <3> QED
      BY <1>4, <2>1, <2>2, <3>1 DEF Fits, writeVars
  <2>4. CASE Creates(p) /\ UNCHANGED held /\ entry["key"] = NoFile
    <3>1. phase'[p] = "generate" /\ Creators = {}
      BY <1>1, <2>4 DEF Creates, To, CATypes
    <3> QED
      BY <1>4, <2>1, <2>2, <2>4, <3>1 DEF Fits, writeVars
  <2>5. CASE ReadPem(p)
    <3>1. CASE \A f \in Paths : entry[f] # NoFile
      <4>1. phase'[p] = "readKey" /\ held'[p].pem = entry["pem"].data /\ entry["key"] # NoFile
        BY <1>1, <1>2, <1>3, <2>5, <3>1 DEF ReadPem, To, CATypes
      <4> QED
        BY <1>4, <2>1, <2>2, <4>1 DEF Fits, writeVars
    <3>2. CASE ~\A f \in Paths : entry[f] # NoFile
      <4>1. entry["key"] = NoFile
        BY <1>1, <1>2, <3>2 DEF FilesAgree
      <4> QED
        BY <2>4, <2>5, <3>2, <4>1 DEF ReadPem
    <3> QED
      BY <3>1, <3>2
  <2>6. CASE ReadKey(p)
    <3>1. phase[p] = "readKey" /\ Fits(p)
      BY <1>1, <2>6 DEF ReadKey
    <3>2. /\ entry["key"] # NoFile /\ entry["key"].whole
          /\ held[p].pem = entry["pem"].data /\ entry["pem"].data = entry["key"].data
      BY <1>1, <1>2, <1>3, <3>1 DEF Fits, FilesAgree
    <3>3. phase' = [phase EXCEPT ![p] = "ready"] /\ held' = [held EXCEPT ![p].key = entry["key"].data]
      BY <2>6, <3>2 DEF ReadKey, To
    <3>4. phase'[p] = "ready" /\ held'[p].pem = held[p].pem /\ held'[p].key = entry["key"].data
      BY <1>1, <3>3 DEF CATypes
    <3> QED
      BY <1>4, <2>1, <2>2, <3>2, <3>4 DEF Fits, writeVars
  <2> QED
    BY <1>5, <2>3, <2>5, <2>6
<1>6. ASSUME NEW p \in Writers, Generate(p) PROVE Agreed'
  <2>1. /\ phase' = [phase EXCEPT ![p] = "savePem"] /\ step' = [step EXCEPT ![p] = "create"]
        /\ held' = [held EXCEPT ![p] = [pem |-> made', key |-> made']]
        /\ UNCHANGED <<entry, stored, reply>> /\ phase[p] = "generate"
    BY <1>6, GenerateWrites DEF WriteFileAtomic
  <2>2. /\ phase'[p] = "savePem" /\ step'[p] = "create" /\ entry["key"] = NoFile
        /\ \A q \in Writers \ {p} : UNCHANGED <<step[q], reply[q], phase[q], held[q]>>
    BY <1>1, <2>1 DEF CATypes, WriteInv, FilesSound, Fits
  <2>3. p \in Creators
    BY <2>1 DEF Creators
  <2> QED
    BY <1>4, <2>1, <2>2, <2>3 DEF Fits, Done
<1>7. ASSUME NEW p \in Writers, Saved(p) PROVE Agreed'
  <2>1. UNCHANGED held /\ step[p] = "idle" /\ Saves(p) /\ Fits(p)
    BY <1>1, <1>7 DEF Saved
  <2>2. CASE /\ phase[p] = "savePem" /\ phase' = [phase EXCEPT ![p] = "saveKey"] /\ reply[p] = "nil"
             /\ WriteFileAtomic(p, [path |-> "key", data |-> held[p].key])
    <3>1. /\ phase'[p] = "saveKey" /\ step'[p] = "create" /\ UNCHANGED <<entry, stored, reply>>
          /\ \A q \in Writers \ {p} : UNCHANGED <<step[q], reply[q], phase[q], held[q]>>
      BY <1>1, <2>1, <2>2 DEF CATypes, WriteInv, FilesSound, WriteFileAtomic
    <3>2. p \in Creators /\ Fits(p)'
      BY <2>1, <2>2, <3>1 DEF Creators, Fits, Done
    <3> QED
      BY <1>4, <3>1, <3>2
  <2>3. CASE /\ phase[p] = "saveKey" /\ phase' = [phase EXCEPT ![p] = "ready"] /\ reply[p] = "nil"
             /\ UNCHANGED writeVars
    <3>1. phase'[p] = "ready" /\ \A q \in Writers \ {p} : phase'[q] = phase[q]
      BY <1>1, <2>3 DEF CATypes
    <3>2. Fits(p)'
      BY <2>1, <2>3, <3>1 DEF Saves, Fits, Done, writeVars
    <3> QED
      BY <1>4, <2>1, <2>3, <3>1, <3>2 DEF writeVars
  <2>4. CASE phase' = [phase EXCEPT ![p] = "off"] /\ UNCHANGED writeVars
    <3>1. phase'[p] = "off" /\ \A q \in Writers \ {p} : phase'[q] = phase[q]
      BY <1>1, <2>4 DEF CATypes
    <3> QED
      BY <1>4, <2>1, <2>4, <3>1 DEF writeVars, Fits
  <2> QED
    BY <1>7, <2>2, <2>3, <2>4 DEF Saved, To
<1>8. ASSUME NEW p \in Writers, Ends(p) PROVE Agreed'
  <2>1. /\ phase'[p] = "off" /\ UNCHANGED <<entry, stored>>
        /\ \A q \in Writers \ {p} : UNCHANGED <<step[q], reply[q], phase[q], held[q]>>
    BY <1>1, <1>8 DEF Ends, Killed, CATypes, WriteInv, FilesSound
  <2> QED
    BY <1>4, <2>1 DEF Fits
<1>9. ASSUME NEW p \in Writers, Saving(p) PROVE Agreed'
  <2>1. /\ UNCHANGED <<phase, held>> /\ phase[p] \in {"savePem", "saveKey"} /\ Progress(p)
        /\ \A q \in Writers \ {p} : UNCHANGED <<step[q], reply[q], phase[q], held[q]>>
        /\ Saves(p) /\ Fits(p) /\ TempOf(p) /\ p \in Creators
    BY <1>1, <1>9, ArgKept DEF Saving, Creators, WriteInv
  <2>2. CASE ~Rename(p)
    <3>1. UNCHANGED <<entry, stored>>
      BY <2>1, <2>2 DEF Progress, CreateTemp, Write, Sync, CloseAndChmod, Fails, Remove, Goes
    <3>2. Done(p)' <=> Done(p)
      BY <1>1, <2>1, <2>2
      DEF Progress, CreateTemp, Write, Sync, CloseAndChmod, Fails, Remove, Goes, Calls, Done,
          WriteInv, FilesSound
    <3> QED
      BY <1>4, <2>1, <3>1, <3>2 DEF Fits
  <2>3. CASE Rename(p)
    <3>1. /\ temp[p] \in Sound /\ temp[p].data = held[p].pem /\ temp[p] # NoFile
      BY <1>1, <2>1, <2>3, SoundParts DEF Rename, Goes, TempOf, Sound, Saves
    <3>2. /\ step[p] = "rename" /\ step'[p] = "cleanup" /\ stored' = stored
          /\ entry' = [entry EXCEPT ![arg[p].path] = temp[p]]
      BY <1>1, <2>3 DEF Rename, Goes, WriteInv, FilesSound
    <3>3. ~Done(p) /\ Done(p)' /\ entry["key"] = NoFile /\ stored["key"] = NoFile
      BY <1>1, <2>1, <3>2 DEF Done, Fits, FilesAgree
    <3>4. \A q \in Writers : phase[q] \notin {"readKey", "ready"} /\ (q \in Creators => q = p)
      BY <1>1, <2>1, <3>3 DEF Fits, OneCreator
    <3>5. \A q \in Writers \ {p} : Fits(q)'
      BY <2>1, <3>4 DEF Fits, Creators
    <3>6. FilesAgree' /\ Fits(p)'
      <4>1. CASE phase[p] = "savePem"
        <5>1. entry'["pem"] = temp[p] /\ entry'["key"] = NoFile
          BY <1>1, <1>2, <2>1, <3>2, <3>3, <4>1 DEF Saves, WriteInv, FilesSound
        <5> QED
          BY <2>1, <3>1, <3>2, <3>3, <4>1, <5>1 DEF FilesAgree, Fits
      <4>2. CASE phase[p] = "saveKey"
        <5>1. entry'["key"] = temp[p] /\ entry'["pem"] = entry["pem"]
          BY <1>1, <1>2, <2>1, <3>2, <4>2 DEF Saves, WriteInv, FilesSound
        <5> QED
          BY <2>1, <3>1, <3>2, <3>3, <4>2, <5>1 DEF FilesAgree, Fits
      <4> QED
        BY <2>1, <4>1, <4>2
    <3>7. OneCreator'
      BY <1>1, <2>1 DEF OneCreator, Creators
    <3> QED
      BY <3>5, <3>6, <3>7 DEF Agreed
  <2> QED
    BY <2>2, <2>3
<1>10. CASE UNCHANGED <<phase, held, step, reply, entry, stored>>
  BY <1>1, <1>10 DEF Agreed, FilesAgree, OneCreator, Creators, Fits, Done
<1>11. CASE Flushes
  BY <1>1, <1>11 DEF Flushes, Flush, Agreed, FilesAgree, OneCreator, Creators, Fits, Done
<1>12. CASE LosesPower
  <2>1. \A f \in Paths : entry'[f] = stored[f] /\ stored'[f] = stored[f]
    BY <1>1, <1>12, SoundParts DEF LosesPower, PowerLoss, WriteInv, FilesSound
  <2>2. FilesAgree'
    BY <1>1, <1>2, <2>1 DEF FilesAgree
  <2>3. \A p \in Writers : phase'[p] = "off"
    BY <1>12 DEF LosesPower
  <2> QED
    BY <2>2, <2>3 DEF Agreed, OneCreator, Creators, Fits
<1>13. CASE UNCHANGED vars \/ \E t \in Threads : Handshake(t)
  BY <1>10, <1>13 DEF vars, caVars, writeVars, Handshake, LookUp, Mint
<1> QED
  BY <1>5, <1>6, <1>7, <1>8, <1>9, <1>11, <1>12, <1>13 DEF Next, Process

AgreeInv == CAInv /\ (~crossed => Agreed)

LEMMA AgreeInit == Init => AgreeInv
BY CAInit, AgreedInit DEF AgreeInv

LEMMA AgreeStep == AgreeInv /\ [Next]_vars => AgreeInv'
BY CAStep, AgreedStep, CrossedStays DEF AgreeInv

\* Whoever has its CA has a certificate with its own key, and so do the files.
THEOREM PairBelongs == Spec => []PairsMatch
<1>1. AgreeInv => PairsMatch
  BY DEF AgreeInv, Agreed, FilesAgree, Fits, PairsMatch
<1> QED
  BY <1>1, AgreeInit, AgreeStep, PTL DEF Spec

\* Once the key is there, the certificate that clients trust stays.
THEOREM TrustStays == Spec => TrustKept
<1>1. ASSUME AgreeInv, [Next]_vars, ~crossed, \A f \in Paths : entry[f] # NoFile, entry'["key"] # NoFile
      PROVE  entry'["pem"] = entry["pem"]
  <2>1. /\ WriteInv /\ FilesAgree /\ \A p \in Writers : Saves(p) /\ Fits(p)
        /\ "key" \in Paths /\ "pem" \in Paths
    BY <1>1, CAParts DEF AgreeInv, CAInv, Agreed
  <2>2. ASSUME NEW p \in Writers, Saving(p) PROVE entry'["pem"] = entry["pem"]
    <3>1. CASE Rename(p)
      <4>1. step[p] = "rename" /\ phase[p] \in {"savePem", "saveKey"} /\ ~Done(p)
        BY <2>2, <3>1 DEF Saving, Rename, Goes, Done
      <4>2. entry["key"] = NoFile
        BY <2>1, <4>1 DEF Fits
      <4> QED
        BY <1>1, <2>1, <4>2
    <3>2. CASE ~Rename(p)
      BY <2>2, <3>2 DEF Saving, Progress, CreateTemp, Write, Sync, CloseAndChmod, Fails, Remove, Goes
    <3> QED
      BY <3>1, <3>2
  <2>3. CASE LosesPower
    <3>1. \A f \in Paths : entry'[f] = stored[f]
      BY <2>1, <2>3, SoundParts DEF LosesPower, PowerLoss, WriteInv, FilesSound
    <3> QED
      BY <1>1, <2>1, <3>1 DEF FilesAgree
  <2>4. CASE UNCHANGED entry
    BY <2>4
  <2>5. ASSUME NEW p \in Writers, Process(p), ~Saving(p) PROVE UNCHANGED entry
    BY <2>5 DEF Process, LoadOrCreateCA, ReadPem, ReadKey, Generate, Saved, Ends, Killed,
                WriteFileAtomic, writeVars
  <2>6. CASE Flushes \/ UNCHANGED vars \/ \E t \in Threads : Handshake(t)
    BY <2>6 DEF Flushes, Flush, vars, caVars, writeVars, Handshake, LookUp, Mint
  <2> QED
    BY <1>1, <2>2, <2>3, <2>4, <2>5, <2>6 DEF Next
<1>2. AgreeInv /\ [Next]_vars =>
        [~crossed /\ (\A f \in Paths : entry[f] # NoFile) /\ entry'["key"] # NoFile
            => entry'["pem"] = entry["pem"]]_vars
  BY <1>1
<1> QED
  BY <1>2, AgreeInit, AgreeStep, PTL DEF Spec, TrustKept

-----------------------------------------------------------------------------
(* The leaves.                                                             *)

Leaves == Threads \X Numbers \X Numbers

LeafTypes ==
    /\ at \in [Threads -> {"idle", "missed", "served"}]
    /\ name \in [Threads -> Hosts]
    /\ cache \in [Daemons -> [Hosts -> Leaves \union {NoLeaf}]]
    /\ leaf \in [Threads -> Leaves \union {NoLeaf}]

\* A cache has leaves of the pair that its daemon holds, and a handshake has
\* been given the one in the cache.
Cached(d) ==
    \A h \in Hosts : cache[d][h] # NoLeaf =>
        phase[d] = "ready" /\ cache[d][h][2] = held[d].pem /\ cache[d][h][3] = held[d].key
Given(t) ==
    /\ at[t] # "idle" => phase[Home[t]] = "ready"
    /\ at[t] = "served" => leaf[t] = cache[Home[t]][name[t]] /\ leaf[t] # NoLeaf

LeafInv ==
    CAInv /\ LeafTypes /\ (\A d \in Daemons : Cached(d)) /\ (\A t \in Threads : Given(t))

LEMMA LeafParts == \A x \in Leaves : x # NoLeaf
<1> SUFFICES ASSUME NEW t, NEW a, NEW b PROVE <<t, a, b>> # NoLeaf
  BY DEF Leaves
<1>1. 1 \in DOMAIN <<t, a, b>> /\ DOMAIN NoLeaf = {}
  BY SMT DEF NoLeaf
<1> QED
  BY <1>1

LEMMA LeafInit == Init => LeafInv
<1> SUFFICES ASSUME Init PROVE LeafInv
  OBVIOUS
<1>1. CAInv /\ LeafTypes
  BY CAInit DEF Init, LeafTypes
<1>2. \A d \in Daemons : Cached(d)
  BY DEF Init, Cached
<1> QED
  BY <1>1, <1>2 DEF Init, LeafInv, Given

LEMMA LeafStep == LeafInv /\ [Next]_vars => LeafInv'
<1> SUFFICES ASSUME LeafInv, [Next]_vars PROVE LeafInv'
  OBVIOUS
<1>1. /\ CAInv /\ CATypes /\ LeafTypes /\ CAInv'
      /\ (\A d \in Daemons : Cached(d)) /\ \A t \in Threads : Given(t) /\ Home[t] \in Daemons
  BY CAStep, CAParts DEF LeafInv, CAInv
\* A process that is not ready has neither leaves nor handshakes.
<1>2. ASSUME NEW p \in Writers, phase[p] # "ready",
             \A q \in Writers \ {p} : phase'[q] = phase[q] /\ held'[q] = held[q],
             UNCHANGED leafVars
      PROVE  LeafInv'
  <2>1. \A d \in Daemons : Cached(d)'
    BY <1>1, <1>2, CAParts DEF Cached, leafVars
  <2>2. \A t \in Threads : Given(t)'
    BY <1>1, <1>2, CAParts DEF Given, leafVars
  <2> QED
    BY <1>1, <1>2, <2>1, <2>2 DEF LeafInv, LeafTypes, leafVars
<1>3. ASSUME NEW p \in Writers, Process(p), ~Ends(p) PROVE LeafInv'
  <2>1. phase[p] # "ready" /\ UNCHANGED leafVars
    BY <1>3 DEF Process, LoadOrCreateCA, ReadPem, ReadKey, Generate, Saving, Saved, Creates, To
  <2>2. \A q \in Writers \ {p} : phase'[q] = phase[q] /\ held'[q] = held[q]
    BY <1>1, <1>3 DEF Process, LoadOrCreateCA, ReadPem, ReadKey, Generate, Saving, Saved, Creates,
                      To, CATypes
  <2> QED
    BY <1>2, <2>1, <2>2
<1>4. ASSUME NEW p \in Writers, Ends(p) PROVE LeafInv'
  <2>1. /\ at' = [t \in Threads |-> IF Home[t] = p THEN "idle" ELSE at[t]]
        /\ cache' = IF p \in Daemons THEN [cache EXCEPT ![p] = [h \in Hosts |-> NoLeaf]] ELSE cache
        /\ UNCHANGED <<name, leaf>>
        /\ \A q \in Writers \ {p} : phase'[q] = phase[q] /\ held'[q] = held[q]
    BY <1>1, <1>4 DEF Ends, CATypes
  <2>2. LeafTypes'
    BY <1>1, <2>1 DEF LeafTypes
  <2>3. \A d \in Daemons : IF d = p THEN cache'[d] = [h \in Hosts |-> NoLeaf] ELSE cache'[d] = cache[d]
    BY <1>1, <2>1 DEF LeafTypes
  <2>4. \A d \in Daemons : Cached(d)'
    BY <1>1, <2>1, <2>3, CAParts DEF Cached
  <2>5. \A t \in Threads : Given(t)'
    BY <1>1, <2>1, <2>3, CAParts DEF Given
  <2> QED
    BY <1>1, <2>2, <2>4, <2>5 DEF LeafInv
<1>5. ASSUME NEW t \in Threads, NEW n \in Names, LookUp(t, n) PROVE LeafInv'
  <2> DEFINE h == IF n = NoName THEN Default ELSE n
             known == cache[Home[t]][h]
  <2>1. h \in Hosts
    BY DEF Hosts
  <2>2. /\ name' = [name EXCEPT ![t] = h] /\ leaf' = [leaf EXCEPT ![t] = known]
        /\ at' = [at EXCEPT ![t] = IF known = NoLeaf THEN "missed" ELSE "served"]
        /\ UNCHANGED <<cache, phase, held>> /\ phase[Home[t]] = "ready"
    BY <1>5 DEF LookUp, caVars
  <2>3. known \in Leaves \union {NoLeaf}
    BY <1>1, <2>1 DEF LeafTypes
  <2> HIDE DEF h, known
  <2>4. LeafTypes'
    BY <1>1, <2>1, <2>2, <2>3 DEF LeafTypes
  <2>5. \A d \in Daemons : Cached(d)'
    BY <1>1, <2>2 DEF Cached
  <2>6. Given(t)'
    BY <1>1, <2>1, <2>2 DEF Given, LeafTypes, known
  <2>7. \A u \in Threads \ {t} : Given(u)'
    BY <1>1, <2>2 DEF Given, LeafTypes
  <2> QED
    BY <1>1, <2>4, <2>5, <2>6, <2>7 DEF LeafInv
<1>6. ASSUME NEW t \in Threads, Mint(t) PROVE LeafInv'
  <2> DEFINE d == Home[t]
             known == cache[d][name[t]]
             new == <<t, held[d].pem, held[d].key>>
             one == IF known = NoLeaf THEN new ELSE known
  <2>1. d \in Daemons /\ d \in Writers /\ name[t] \in Hosts /\ phase[d] = "ready"
    BY <1>1, <1>6, CAParts DEF LeafTypes, Mint, Given
  <2>2. new \in Leaves /\ new[2] = held[d].pem /\ new[3] = held[d].key
    BY <1>1, <2>1 DEF Leaves, CATypes
  <2>3. known \in Leaves \union {NoLeaf}
    BY <1>1, <2>1 DEF LeafTypes
  <2>4. one \in Leaves /\ one # NoLeaf /\ one[2] = held[d].pem /\ one[3] = held[d].key
        /\ (known # NoLeaf => one = known)
    BY <1>1, <2>1, <2>2, <2>3, LeafParts DEF Cached
  <2>5. /\ at' = [at EXCEPT ![t] = "served"] /\ leaf' = [leaf EXCEPT ![t] = one]
        /\ cache' = [cache EXCEPT ![d][name[t]] = leaf'[t]]
        /\ UNCHANGED <<name, phase, held>>
    BY <1>6 DEF Mint, caVars
  <2> HIDE DEF new, one
  <2>6. leaf'[t] = one
    BY <1>1, <2>5 DEF LeafTypes
  <2>7. /\ cache'[d][name[t]] = one
        /\ \A e \in Daemons, h \in Hosts : <<e, h>> # <<d, name[t]>> => cache'[e][h] = cache[e][h]
        /\ cache' \in [Daemons -> [Hosts -> Leaves \union {NoLeaf}]]
    BY <1>1, <2>1, <2>4, <2>5, <2>6 DEF LeafTypes
  <2>8. LeafTypes'
    BY <1>1, <2>4, <2>5, <2>7 DEF LeafTypes
  <2>9. \A e \in Daemons : Cached(e)'
    BY <1>1, <2>1, <2>4, <2>5, <2>7 DEF Cached
  <2>10. \A u \in Threads : Given(u)'
    <3> SUFFICES ASSUME NEW u \in Threads PROVE Given(u)'
      OBVIOUS
    <3>1. CASE u = t
      BY <1>1, <2>1, <2>4, <2>5, <2>6, <2>7, <3>1 DEF Given, LeafTypes
    <3>2. CASE u # t
      <4>1. at'[u] = at[u] /\ leaf'[u] = leaf[u] /\ name'[u] = name[u]
        BY <1>1, <2>5, <3>2 DEF LeafTypes
      <4>2. at[u] = "served" => cache'[Home[u]][name[u]] = cache[Home[u]][name[u]]
        BY <1>1, <2>4, <2>7 DEF Given, LeafTypes
      <4> QED
        BY <1>1, <2>5, <4>1, <4>2 DEF Given
    <3> QED
      BY <3>1, <3>2
  <2> QED
    BY <1>1, <2>8, <2>9, <2>10 DEF LeafInv
<1>7. CASE LosesPower
  BY <1>1, <1>7 DEF LosesPower, LeafInv, LeafTypes, Cached, Given
<1>8. CASE UNCHANGED <<phase, held>> /\ UNCHANGED leafVars
  BY <1>1, <1>8 DEF leafVars, LeafInv, LeafTypes, Cached, Given
<1>9. CASE Flushes \/ UNCHANGED vars
  BY <1>8, <1>9 DEF Flushes, vars, caVars
<1> QED
  BY <1>3, <1>4, <1>5, <1>6, <1>7, <1>9 DEF Next, Handshake

\* Types, for any processes, handshakes, names and number of pairs.
THEOREM CertTypes == Spec => []TypeOK
<1>1. LeafInv => TypeOK
  <2> SUFFICES ASSUME LeafInv PROVE TypeOK
    OBVIOUS
  <2>1. FilesSound /\ CATypes /\ LeafTypes /\ Sound \subseteq File
    BY DEF LeafInv, CAInv, WriteInv, Sound
  <2> QED
    BY <2>1 DEF FilesSound, CATypes, LeafTypes, TypeOK, Numbers
<1> QED
  BY <1>1, LeafInit, LeafStep, PTL DEF Spec

\* Handshakes that miss the cache at the same time are given one leaf.
THEOREM LeafOnce == Spec => []OneLeaf
<1>1. LeafInv => OneLeaf
  BY DEF LeafInv, Given, OneLeaf
<1> QED
  BY <1>1, LeafInit, LeafStep, PTL DEF Spec

\* Leaves verify against the certificate that is on disk.
THEOREM LeafVerifies == Spec => []LeafTrusted
<1>1. ASSUME LeafInv, AgreeInv PROVE LeafTrusted
  <2> SUFFICES ASSUME ~crossed, NEW t \in Threads, at[t] = "served"
               PROVE  /\ entry["pem"] # NoFile
                      /\ leaf[t][2] = entry["pem"].data /\ leaf[t][3] = entry["pem"].data
    BY DEF LeafTrusted
  <2> DEFINE d == Home[t]
  <2>1. d \in Daemons /\ d \in Writers /\ name[t] \in Hosts
    BY <1>1, CAParts DEF LeafInv, LeafTypes
  <2>2. phase[d] = "ready" /\ leaf[t][2] = held[d].pem /\ leaf[t][3] = held[d].key
    BY <1>1, <2>1 DEF LeafInv, Given, Cached
  <2> QED
    BY <1>1, <2>1, <2>2 DEF AgreeInv, Agreed, FilesAgree, Fits
<1> QED
  BY <1>1, LeafInit, LeafStep, AgreeInit, AgreeStep, PTL DEF Spec
=============================================================================
