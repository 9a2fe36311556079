----------------------------- MODULE MCReaders -----------------------------
(* Small instances of Readers for TLC: a repo whose main branch holds c1,   *)
(* with c2 and c3 two diverging children of c1.                             *)
EXTENDS Readers, TLC

CONSTANTS p1, p2, main, side, c1, c2, c3, q1

MCAnc == c1 :> {c1} @@ c2 :> {c1, c2} @@ c3 :> {c1, c3}
MCNameOf == [p \in Push |-> CHOOSE n \in Name : TRUE]
MCInitRefs == main :> c1 @@ side :> Absent
MCChanges == {main :> c2 @@ side :> c2, main :> c3, side :> Absent @@ main :> c1}
=============================================================================
