----------------------------- MODULE MCDispatch -----------------------------
(* Two repos, one with a secret in the env, two names, two key versions, and *)
(* workflows with every shape of the `on:` key.                              *)
EXTENDS Dispatch

CONSTANTS r1, r2, n1, n2, x, y, f1, f2, p1

Scalar(s) == [kind |-> "scalar", value |-> s, content |-> <<>>]
Sequence(s) == [kind |-> "sequence", value |-> <<>>, content |-> s]
Mapping(s) == [kind |-> "mapping", value |-> <<>>, content |-> s]
Null == [kind |-> "null", value |-> <<>>, content |-> <<>>]
OnPush(s) == Mapping(<<Scalar(<<"manual">>), Null, Scalar(<<"push">>), Mapping(s)>>)
Branches(node) == <<Scalar(<<"branches">>), node>>
Ignoring(node) == <<Scalar(<<"branches-ignore">>), node>>

Patterns == {<<"a">>, <<"a", "/", "*">>, <<"a", "*", "*">>, <<"*">>, <<"*", "/", "b">>,
             <<"*", "*", "*">>, <<"*", "b">>}
MCBranch == {<<"a">>, <<"a", "/", "b">>, <<"a", "/", "b", "/", "b">>}

Ons == {Null, Scalar(<<"push">>), Scalar(<<"manual">>),
        Sequence(<<Scalar(<<"manual">>), Null, Scalar(<<"push">>)>>),
        Sequence(<<Scalar(<<"manual">>)>>),
        Mapping(<<Scalar(<<"manual">>), Null>>), Mapping(<<Scalar(<<"push">>), Null>>)}
  \union {OnPush(Branches(Scalar(p))) : p \in Patterns}
  \union {OnPush(Ignoring(Sequence(<<Scalar(p), Null>>))) : p \in Patterns}
  \union {OnPush(Branches(Sequence(<<Scalar(<<"a">>), Scalar(<<"a", "/", "*">>)>>))
                 \o Ignoring(Scalar(<<"*", "/", "b">>))),
          OnPush(Branches(Sequence(<<>>))),
          OnPush(Branches(Scalar(<<"a">>)) \o Branches(Scalar(<<"*">>)))}
Good(on) == [parses |-> TRUE, valid |-> TRUE, on |-> on]
Bad == [parses |-> FALSE, valid |-> FALSE, on |-> Null]
Twice(on) == [parses |-> TRUE, valid |-> FALSE, on |-> on]

OnA == OnPush(Branches(Scalar(<<"a">>)))
MCCommit == {[f \in {f1} |-> Good(on)] : on \in Ons}
  \union {[f \in {f1, f2} |-> IF f = f1 THEN v ELSE w] :
             v \in {Good(Scalar(<<"push">>)), Good(OnA), Bad},
             w \in {Good(OnA), Bad, Twice(OnA)}}

(* globMatch and its description against a matcher of another kind, for every *)
(* short pattern and name: p from i on matches name from k on.                *)
Follows(p, name) ==
    LET follows[i \in 1..Len(p) + 1, k \in 1..Len(name) + 1] ==
          LET two == i < Len(p) /\ p[i + 1] = "*"
          IN  IF i > Len(p) THEN k > Len(name)
              ELSE IF p[i] # "*" THEN /\ k <= Len(name) /\ name[k] = p[i]
                                      /\ follows[i + 1, k + 1]
              ELSE \/ follows[IF two THEN i + 2 ELSE i + 1, k]
                   \/ k <= Len(name) /\ (two \/ name[k] # "/") /\ follows[i, k + 1]
    IN  follows[1, 1]
Upto(n, S) == UNION {[1..k -> S] : k \in 0..n}
ASSUME GlobAgrees ==
    \A p \in Upto(4, {"a", "/", "*"}), b \in Upto(3, {"a", "b", "/"}) :
        /\ GlobMatch(p, b) = Follows(p, b)
        /\ Fits(p, b) = Follows(p, b)

MCRepoKey == [r \in {r1, r2} |-> IF r = r1 THEN "R1" ELSE "R2"]
MCEnvSecrets == [k \in {"R1", "R2"} |->
                    [n \in {n1, n2} |-> IF k = "R1" /\ n = n2 THEN y ELSE NoValue]]
MCKeySets == {{}, {1}, {2}, {1, 2}}
=============================================================================
