----------------------------- MODULE AtomicWrite -----------------------------
(***************************************************************************)
(* store.WriteFileAtomic, one step per system call: the data goes into a   *)
(* temporary file of the same directory, which is synced, closed, given    *)
(* its mode and renamed over the path.  Any of them may fail, the process  *)
(* may be killed between any two, and the power may be lost: then the      *)
(* directory is what was flushed of it, and a file that was not synced may *)
(* have lost its content.  Directory changes reach the disk in order, as   *)
(* in a journal.                                                           *)
(***************************************************************************)
EXTENDS Naturals

CONSTANTS
    Writers,    \* processes that write files
    Paths,      \* the files that are replaced
    Data,       \* what they may hold
    NoFile,     \* the directory has no such entry
    Torn        \* what a reader gets of a file that is not complete

ASSUME ContentAssumption == {NoFile, Torn} \cap Data = {} /\ Torn # NoFile
ASSUME FileAssumption == NoFile \notin [data : Data, whole : BOOLEAN, synced : BOOLEAN]

VARIABLES
    entry,      \* path -> the file the directory names, or NoFile
    stored,     \* the part of entry that is on disk
    temp,       \* writer -> its temporary file, or NoFile
    step,       \* writer -> the next system call, or "idle"
    arg,        \* writer -> path and data of its last call
    reply       \* writer -> "nil" or "error" of its last call

writeVars == <<entry, stored, temp, step, arg, reply>>

\* A file: is its content complete, and is it on disk?
File == [data : Data, whole : BOOLEAN, synced : BOOLEAN]
Args == [path : Paths, data : Data]
Calls == {"create", "write", "sync", "close", "chmod", "rename"}
Steps == Calls \union {"idle", "unlink", "cleanup"}

WriteInit ==
    /\ entry = [p \in Paths |-> NoFile]
    /\ stored = entry
    /\ temp = [w \in Writers |-> NoFile]
    /\ step = [w \in Writers |-> "idle"]
    /\ arg \in [Writers -> Args]
    /\ reply = [w \in Writers |-> "none"]

WriteFileAtomic(w, a) ==
    /\ step[w] = "idle"
    /\ step' = [step EXCEPT ![w] = "create"]
    /\ arg' = [arg EXCEPT ![w] = a]
    /\ UNCHANGED <<entry, stored, temp, reply>>

Goes(w, from, to) ==
    /\ step[w] = from
    /\ step' = [step EXCEPT ![w] = to]
    /\ UNCHANGED <<stored, arg, reply>>

CreateTemp(w) ==
    /\ Goes(w, "create", "write")
    /\ temp' = [temp EXCEPT ![w] = [data |-> arg[w].data, whole |-> FALSE, synced |-> FALSE]]
    /\ UNCHANGED entry

Write(w) ==
    /\ Goes(w, "write", "sync")
    /\ temp' = [temp EXCEPT ![w].whole = TRUE]
    /\ UNCHANGED entry

\* A slip: the file is not synced.
SyncNothing(w) ==
    /\ Goes(w, "sync", "close")
    /\ UNCHANGED <<entry, temp>>

Sync(w) ==
    /\ Goes(w, "sync", "close")
    /\ temp' = [temp EXCEPT ![w].synced = TRUE]
    /\ UNCHANGED entry

CloseAndChmod(w) ==
    /\ Goes(w, "close", "chmod") \/ Goes(w, "chmod", "rename")
    /\ UNCHANGED <<entry, temp>>

Rename(w) ==
    /\ Goes(w, "rename", "cleanup")
    /\ entry' = [entry EXCEPT ![arg[w].path] = temp[w]]
    /\ temp' = [temp EXCEPT ![w] = NoFile]

\* A call fails: without CreateTemp there is nothing to remove.
Fails(w) ==
    /\ \E c \in Calls : Goes(w, c, "unlink")
    /\ UNCHANGED <<entry, temp>>

\* The deferred os.Remove, which finds nothing after a rename; then the return.
Remove(w) ==
    /\ step[w] \in {"unlink", "cleanup"}
    /\ temp' = [temp EXCEPT ![w] = NoFile]
    /\ step' = [step EXCEPT ![w] = "idle"]
    /\ reply' = [reply EXCEPT ![w] = IF step[w] = "cleanup" THEN "nil" ELSE "error"]
    /\ UNCHANGED <<entry, stored, arg>>

\* The process ends, and leaves its temporary file to nobody.
Killed(w) ==
    /\ temp' = [temp EXCEPT ![w] = NoFile]
    /\ step' = [step EXCEPT ![w] = "idle"]
    /\ reply' = [reply EXCEPT ![w] = "none"]
    /\ UNCHANGED <<entry, stored, arg>>

Flush ==
    /\ stored' = entry
    /\ UNCHANGED <<entry, temp, step, arg, reply>>

\* What is left of a file whose entry was on disk.
Recovered(f) == IF f = NoFile \/ f.synced THEN f ELSE [f EXCEPT !.whole = FALSE]

PowerLoss ==
    /\ entry' = [p \in Paths |-> Recovered(stored[p])]
    /\ stored' = entry'
    /\ temp' = [w \in Writers |-> NoFile]
    /\ step' = [w \in Writers |-> "idle"]
    /\ reply' = [w \in Writers |-> "none"]
    /\ UNCHANGED arg

Progress(w) ==
    \/ CreateTemp(w) \/ Write(w) \/ Sync(w) \/ CloseAndChmod(w) \/ Rename(w)
    \/ Fails(w) \/ Remove(w)

WriteNext ==
    \/ \E w \in Writers : (\E a \in Args : WriteFileAtomic(w, a)) \/ Progress(w) \/ Killed(w)
    \/ Flush
    \/ PowerLoss

WriteSpec == WriteInit /\ [][WriteNext]_writeVars

-----------------------------------------------------------------------------
\* What a reader gets.
Content(f) == IF f = NoFile THEN NoFile ELSE IF f.whole THEN f.data ELSE Torn

Register == INSTANCE FileRegister WITH
    Absent <- NoFile,
    content <- [p \in Paths |-> Content(entry[p])],
    durable <- [p \in Paths |-> Content(stored[p])],
    call <- [w \in Writers |->
               IF step[w] = "idle" THEN "none"
               ELSE IF step[w] = "cleanup" THEN "done"
               ELSE IF step[w] = "unlink" THEN "failed" ELSE "pending"]

\* Every file is replaced at once: no reader, and nobody after a crash or a
\* power loss, sees a file half written, and a call that returns nil has
\* replaced it (store.go:154-177).
ReplacedAtOnce == Register!Spec
=============================================================================
