------------------------------ MODULE OneRoot ------------------------------
(***************************************************************************)
(* What the operator of a storage root may rely on, however many servers   *)
(* and runs of the bootstrap subcommand come up on it (safety.md section   *)
(* 6, bootstrap.go:51-53).  The root gets one admin and one server secret, *)
(* each in one step that nobody else can repeat; a token is printed for a  *)
(* root that has an admin, in the step that stores it; a process signs     *)
(* sessions with the secret of the root.  A fault takes the root back to   *)
(* what was durable: what it takes away is gone for good, and only a       *)
(* process that read it before still has it.                               *)
(***************************************************************************)
CONSTANTS Instance, Key, Admin, Token

VARIABLES root,     \* the rows of the root
          durable,  \* what a fault leaves of them
          gone,     \* what faults took away
          key,      \* key[i]: the secret process i signs with, at most one
          shown     \* the tokens printed to the operator

vars == <<root, durable, gone, key, shown>>

Init ==
    /\ root = {} /\ durable = {} /\ gone = {}
    /\ key = [i \in Instance |-> {}]
    /\ shown = {}

Add(v) ==
    /\ v \notin root \union gone
    /\ root' = root \union {v}
    /\ UNCHANGED <<durable, gone, key>>

Bootstrap(a) == root \intersect Admin = {} /\ Add(a) /\ UNCHANGED shown
Choose(k) == root \intersect Key = {} /\ Add(k) /\ UNCHANGED shown
Mint(t) == root \intersect Admin # {} /\ Add(t) /\ shown' = shown \union {t}

Take(i, k) ==
    /\ k \in root \union gone
    /\ key' = [key EXCEPT ![i] = {k}]
    /\ UNCHANGED <<root, durable, gone, shown>>

\* A process may end, and its memory with it.
MayEnd == UNCHANGED key \/ \E i \in Instance : key' = [key EXCEPT ![i] = {}]

End == MayEnd /\ UNCHANGED <<root, durable, gone, shown>>
Sync == MayEnd /\ durable' = root /\ UNCHANGED <<root, gone, shown>>
Lose ==
    /\ MayEnd
    /\ root' = durable
    /\ gone' = gone \union (root \ durable)
    /\ UNCHANGED <<durable, shown>>

Next == \/ \E a \in Admin : Bootstrap(a)
        \/ \E t \in Token : Mint(t)
        \/ \E k \in Key : Choose(k) \/ \E i \in Instance : Take(i, k)
        \/ End \/ Sync \/ Lose

Spec == Init /\ [][Next]_vars
=============================================================================
