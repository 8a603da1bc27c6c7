---------------------------- MODULE FileRegister ----------------------------
(***************************************************************************)
(* What callers of store.WriteFileAtomic rely on: a directory of files     *)
(* that are replaced at once.  A call takes effect in one step or not at   *)
(* all, returns nil exactly if it took effect, and a power loss leaves     *)
(* every file as some earlier moment had it, never half written.           *)
(***************************************************************************)
CONSTANTS
    Writers,    \* callers
    Paths,      \* the files
    Data,       \* what is written
    Absent      \* the content of a file that does not exist

VARIABLES
    content,    \* path -> what a reader gets
    durable,    \* path -> what a reader would get after a power loss
    call,       \* writer -> "none", "pending", "done" or "failed"
    arg,        \* writer -> the path and the data of its last call
    reply       \* writer -> what that call returned

vars == <<content, durable, call, arg, reply>>

Args == [path : Paths, data : Data]

Init ==
    /\ content = [p \in Paths |-> Absent]
    /\ durable = content
    /\ call = [w \in Writers |-> "none"]
    /\ arg \in [Writers -> Args]
    /\ reply = [w \in Writers |-> "none"]

Call(w, a) ==
    /\ call[w] = "none"
    /\ call' = [call EXCEPT ![w] = "pending"]
    /\ arg' = [arg EXCEPT ![w] = a]
    /\ UNCHANGED <<content, durable, reply>>

\* The call takes effect ...
Replace(w) ==
    /\ call[w] = "pending"
    /\ content' = [content EXCEPT ![arg[w].path] = arg[w].data]
    /\ call' = [call EXCEPT ![w] = "done"]
    /\ UNCHANGED <<durable, arg, reply>>

\* ... or never will.
Refuse(w) ==
    /\ call[w] = "pending"
    /\ call' = [call EXCEPT ![w] = "failed"]
    /\ UNCHANGED <<content, durable, arg, reply>>

Return(w) ==
    /\ call[w] \in {"done", "failed"}
    /\ reply' = [reply EXCEPT ![w] = IF call[w] = "done" THEN "nil" ELSE "error"]
    /\ call' = [call EXCEPT ![w] = "none"]
    /\ UNCHANGED <<content, durable, arg>>

Die(w) ==
    /\ call' = [call EXCEPT ![w] = "none"]
    /\ reply' = [reply EXCEPT ![w] = "none"]
    /\ UNCHANGED <<content, durable, arg>>

Flush ==
    /\ durable' = content
    /\ UNCHANGED <<content, call, arg, reply>>

PowerLoss ==
    /\ content' = durable
    /\ call' = [w \in Writers |-> "none"]
    /\ reply' = [w \in Writers |-> "none"]
    /\ UNCHANGED <<durable, arg>>

Next ==
    \/ \E w \in Writers :
          \/ \E a \in Args : Call(w, a)
          \/ Replace(w) \/ Refuse(w) \/ Return(w) \/ Die(w)
    \/ Flush
    \/ PowerLoss

Spec == Init /\ [][Next]_vars
=============================================================================
