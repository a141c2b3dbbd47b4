------------------------------ MODULE ScopeExit ------------------------------
(***************************************************************************)
(* What `defer` promises a running function: a defer statement that is     *)
(* reached puts its body on a stack together with the scope it was reached *)
(* in; bodies run newest first, each once per time it was reached; and a   *)
(* scope is never left, on any path, while one of its bodies has yet to    *)
(* run.                                                                    *)
(***************************************************************************)
EXTENDS Naturals, Sequences

CONSTANT Defers     \* the defer statements of the function

VARIABLES
    depth,      \* the number of open scopes
    pending,    \* the stack of <<defer, the depth of its scope>>
    running     \* the bodies being run, each with the depth of its scope: <<defer, depth>>

vars == <<depth, pending, running>>

Init == depth = 0 /\ pending = <<>> /\ running = {}

\* The most recent defer that is still to run belongs to depth n or above.
Clear(n) == pending = <<>> \/ pending[Len(pending)][2] <= n

Enter ==
    /\ depth' = depth + 1
    /\ UNCHANGED <<pending, running>>

Reach(d) ==
    /\ depth > 0
    /\ pending' = Append(pending, <<d, depth>>)
    /\ UNCHANGED <<depth, running>>

\* The body of the newest defer starts, as a scope of its own.
RunBody(d) ==
    /\ pending # <<>>
    /\ pending[Len(pending)][1] = d
    /\ pending' = SubSeq(pending, 1, Len(pending) - 1)
    /\ depth' = depth + 1
    /\ running' = running \cup {<<d, depth'>>}

\* Leave one scope at its end, or several at once by a jump.
Leave(n) ==
    /\ n < depth
    /\ Clear(n)
    /\ depth' = n
    /\ running' = {b \in running : b[2] <= n}
    /\ UNCHANGED pending

Next ==
    \/ Enter
    \/ \E d \in Defers : Reach(d) \/ RunBody(d)
    \/ \E n \in 0..depth : Leave(n)

Spec == Init /\ [][Next]_vars
=============================================================================
