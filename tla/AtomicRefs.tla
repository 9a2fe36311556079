----------------------------- MODULE AtomicRefs -----------------------------
(***************************************************************************)
(* What a push promises, whatever the threads, processes and object store  *)
(* behind it do (safety.md sections 3 and 4): a push asks for a set of ref *)
(* changes and either takes effect once, all of its changes in one step,   *)
(* at a moment when every ref held the value it named and all the history  *)
(* it needs is available, except what it or a push that took effect before *)
(* it did not send; or it has no effect on any ref.  A crash may take the  *)
(* refs back to the last replicated state, and to no other.                *)
(***************************************************************************)
EXTENDS FiniteSets

CONSTANTS Push, Ref, Commit, Anc, Absent, InitRefs, MayOmit

VARIABLES refs,     \* the refs
          durable,  \* the refs a crash goes back to
          content,  \* the commits available to readers
          wants,    \* wants[p]: the changes push p asks for
          omits,    \* omits[p]: the history push p does not send
          state     \* state[p]: whether p is idle, open, effective or over

vars == <<refs, durable, content, wants, omits, state>>

Value    == Commit \union {Absent}
Commands == UNION {[S -> [old : Value, new : Value]] : S \in SUBSET Ref}
History(S) == UNION {Anc[c] : c \in S \ {Absent}}
NewValues(w) == {w[r].new : r \in DOMAIN w}
Withheld == UNION {omits[p] : p \in {q \in Push : state[q] = "effective"}}

Init ==
    /\ refs = InitRefs
    /\ durable = InitRefs
    /\ content = History({InitRefs[r] : r \in Ref})
    /\ wants = [p \in Push |-> [r \in {} |-> [old |-> Absent, new |-> Absent]]]
    /\ omits = [p \in Push |-> {}]
    /\ state = [p \in Push |-> "idle"]

\* A client submits a push, with all that it should send or less.
Open(p) ==
    /\ state[p] = "idle"
    /\ state' = [state EXCEPT ![p] = "open"]
    /\ \E w \in Commands : wants' = [wants EXCEPT ![p] = w]
    /\ \E out \in IF MayOmit THEN SUBSET Commit ELSE {{}} :
         omits' = [omits EXCEPT ![p] = out]
    /\ UNCHANGED <<refs, durable, content>>

\* Content arrives; it never goes away.
Upload ==
    /\ content \subseteq content'
    /\ content' \subseteq Commit
    /\ UNCHANGED <<refs, durable, wants, omits, state>>

\* The push takes effect.
TakeEffect(p) ==
    /\ state[p] = "open"
    /\ \A r \in DOMAIN wants[p] : refs[r] = wants[p][r].old
    /\ History(NewValues(wants[p])) \subseteq content \union omits[p] \union Withheld
    /\ refs' = [r \in Ref |-> IF r \in DOMAIN wants[p] THEN wants[p][r].new ELSE refs[r]]
    /\ state' = [state EXCEPT ![p] = "effective"]
    /\ UNCHANGED <<durable, content, wants, omits>>

\* The push is refused or abandoned.
Refuse(p) ==
    /\ state[p] = "open"
    /\ state' = [state EXCEPT ![p] = "over"]
    /\ UNCHANGED <<refs, durable, content, wants, omits>>

Sync == durable' = refs /\ UNCHANGED <<refs, content, wants, omits, state>>

\* A crash loses what was not replicated and ends some open pushes.
Lose ==
    /\ refs' = durable
    /\ \E S \in SUBSET Push :
         state' = [p \in Push |-> IF p \in S /\ state[p] = "open" THEN "over" ELSE state[p]]
    /\ UNCHANGED <<durable, content, wants, omits>>

Next == \/ \E p \in Push : Open(p) \/ TakeEffect(p) \/ Refuse(p)
        \/ Upload \/ Sync \/ Lose

Spec == Init /\ [][Next]_vars
=============================================================================
