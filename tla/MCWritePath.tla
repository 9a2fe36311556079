---------------------------- MODULE MCWritePath ----------------------------
(* Small instances of WritePath for TLC: a repo whose main branch holds c1, *)
(* with c2 and c3 two diverging children of c1.                             *)
EXTENDS WritePath, TLC

CONSTANTS p1, p2, main, side, c1, c2, c3

MCAnc == c1 :> {c1} @@ c2 :> {c1, c2} @@ c3 :> {c1, c3}
MCNameOf == [p \in Push |-> CHOOSE n \in Name : TRUE]
MCTwoSpellings == [p \in Push |-> IF p = p1 THEN "app" ELSE "app.git"]
MCInitRefs == main :> c1 @@ side :> Absent
MCEmptyRefs == main :> Absent @@ side :> Absent
MCChanges == {main :> c2 @@ side :> c3, main :> Absent @@ side :> c2,
              main :> Absent}
=============================================================================
