----------------------------- MODULE OneDatabase -----------------------------
(***************************************************************************)
(* What clients may rely on, whichever instances serve them and however    *)
(* the lease passes between these (safety.md section 1): there is one      *)
(* database.  A write takes effect in one step between its request and its *)
(* answer, or never; a read is answered from the database as it was at one *)
(* moment while the request was open, with nothing missing and nothing     *)
(* that had been undone.  A fault takes the database back to what was      *)
(* durable, and to nothing else.                                           *)
(*                                                                         *)
(* A database is the set of writes it contains, a request the write it may *)
(* make.                                                                   *)
(***************************************************************************)
EXTENDS Naturals

CONSTANT Write

VARIABLES data,     \* the database
          durable,  \* what a fault leaves of it
          at,       \* at[r]: where request r is, for its client
          view      \* view[r]: what r is answered from, if it is answered now

vars == <<data, durable, at, view>>

Init ==
    /\ data = {}
    /\ durable = {}
    /\ at = [r \in Write |-> "idle"]
    /\ view = [r \in Write |-> {}]

\* An open request keeps what it has looked at, or looks again.
Looks ==
    /\ view' \in [Write -> SUBSET Write]
    /\ \A r \in Write :
         /\ at'[r] # "open" => view'[r] = {}
         /\ at'[r] = "open" => \/ view'[r] = data'
                               \/ at[r] = "open" /\ view'[r] = view[r]

Move(r, from, to) == at[r] = from /\ at' = [at EXCEPT ![r] = to] /\ Looks
Keep == UNCHANGED <<data, durable>>

Send(r) == Move(r, "idle", "open") /\ Keep

\* The answer to a read is view[r].
Answer(r) == Move(r, "open", "answered") /\ Keep

\* A write takes effect; then it is acknowledged.
Make(r) ==
    /\ data' = data \union {r}
    /\ UNCHANGED durable
    /\ Move(r, "open", "made")
Acknowledge(r) == Move(r, "made", "answered") /\ Keep

\* It had no effect and may be sent again.
GiveUp(r) == Move(r, "open", "idle") /\ Keep

\* Some requests are cut off from their answers.
CutOff == \E S \in SUBSET Write :
    at' = [r \in Write |-> IF r \in S /\ at[r] = "open" THEN "idle"
                           ELSE IF r \in S /\ at[r] = "made" THEN "failed"
                           ELSE at[r]]

Stop == CutOff /\ Looks /\ Keep
Sync == CutOff /\ Looks /\ durable' = data /\ UNCHANGED data
Lose == CutOff /\ Looks /\ data' = durable /\ UNCHANGED durable

Next == \/ \E r \in Write : Send(r) \/ Answer(r) \/ Make(r) \/ Acknowledge(r) \/ GiveUp(r)
        \/ Stop \/ Sync \/ Lose

Spec == Init /\ [][Next]_vars
=============================================================================
