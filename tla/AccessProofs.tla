---------------------------- MODULE AccessProofs ----------------------------
(***************************************************************************)
(* Proofs about Access, for any users, tokens, repos and requests and any  *)
(* number of changes between the statements of a decision.                 *)
(***************************************************************************)
EXTENDS Access, TLAPS

LEMMA TypeInit == Init => TypeOK
<1> SUFFICES ASSUME Init PROVE TypeOK
  OBVIOUS
<1>1. [owner |-> Root, scope |-> AllRepos, readOnly |-> FALSE] \in Row
  BY AccessAssumption DEF Row
<1>2. tokens \in [Token -> Row \union {NoRow}]
  BY <1>1 DEF Init
<1>3. ASSUME NEW q \in Request
      PROVE  (CHOOSE r \in Repo : TRUE) \in Repo
  BY AccessAssumption
<1>4. req \in [Request -> [at : Inside \union Refusal \union {"none", "admitted", "failed"},
                           by : Caller, repo : Repo, perm : {Read, Write},
                           public : BOOLEAN, who : User \union {Anonymous}]]
  BY <1>3 DEF Init, Caller
<1>5. acls \in [Repo -> [User -> Rank]] /\ edits \in 0..MaxEdits
  BY AccessAssumption DEF Init, Rank
<1> QED BY <1>2, <1>4, <1>5, AccessAssumption DEF Init, TypeOK

\* What is true of a request, fact by fact.
LEMMA FactsAre ==
    ASSUME NEW q \in Request
    PROVE  /\ Facts(q) \subseteq Fact
           /\ "repo" \in Facts(q) <=> repos[req[q].repo] # "absent"
           /\ "public" \in Facts(q) <=> repos[req[q].repo] = "public"
           /\ "valid" \in Facts(q) <=>
                IF req[q].by \in Token THEN Valid(req[q].by) ELSE req[q].by \in sessions
           /\ "read" \in Facts(q) <=>
                Owner(req[q].by) \in User /\ acls[req[q].repo][Owner(req[q].by)] >= Read
           /\ "write" \in Facts(q) <=>
                Owner(req[q].by) \in User /\ acls[req[q].repo][Owner(req[q].by)] >= Write
  BY DEF Facts, Fact

LEMMA FactsTyped ==
    ASSUME NEW q \in Request PROVE Facts(q)' \subseteq Fact
  BY DEF Facts

\* Histories keep their type.
LEMMA ObserveType ==
    ASSUME TypeOK, Observe
    PROVE  /\ held' \in [Request -> SUBSET Fact]
           /\ kept' \in [Request -> SUBSET Fact]
  BY FactsTyped DEF TypeOK, Observe

\* A minted token keeps its row, and one that is never minted gets none.
RowsKept == \A t \in Token : tokens[t] # NoRow \/ t \in Forged => tokens'[t] = tokens[t]

\* A change of the database moves no request.
LEMMA ManageStep ==
    ASSUME TypeOK, Manage
    PROVE  req' = req /\ RowsKept /\ Observe /\ TypeOK'
<1> USE ObserveType, AccessAssumption DEF TypeOK, Edit, Managed, Writes, RowsKept
<1>1. ASSUME NEW u \in User, RequireAdmin(u) \/ PostUser(u) \/ SessionEnds(u)
      PROVE  req' = req /\ RowsKept /\ Observe /\ TypeOK'
  BY <1>1 DEF RequireAdmin, PostUser, SessionEnds
<1>2. ASSUME NEW r \in Repo, NEW u \in User, CreateRepo(r, u)
      PROVE  req' = req /\ RowsKept /\ Observe /\ TypeOK'
  BY <1>2 DEF CreateRepo
<1>3. ASSUME NEW r \in Repo, NEW u \in User, NEW p \in Rank
      PROVE  [acls EXCEPT ![r][u] = p] \in [Repo -> [User -> Rank]]
  BY DEF Rank
<1>4. ASSUME NEW r \in Repo, NEW u \in User, GrantCreator(r, u)
      PROVE  req' = req /\ RowsKept /\ Observe /\ TypeOK'
  <2>1. AdminRank \in Rank
    BY DEF AdminRank, Rank
  <2>6. [acls EXCEPT ![r][u] = AdminRank] \in [Repo -> [User -> Rank]]
    BY <1>3, <2>1
  <2>2. acls' \in [Repo -> [User -> Rank]]
    BY <1>4, <2>6 DEF GrantCreator
  <2>3. ungranted' \subseteq Repo \X User
    BY <1>4 DEF GrantCreator
  <2>4. RowsKept
    BY <1>4 DEF GrantCreator
  <2>5. UNCHANGED <<users, repos, tokens, gone, sessions, pages, edits, req>> /\ Observe
    BY <1>4 DEF GrantCreator
  <2> QED BY <2>2, <2>3, <2>4, <2>5
<1>5. ASSUME NEW r \in Repo, NEW v \in {"private", "public"}, SetVisibility(r, v)
      PROVE  req' = req /\ RowsKept /\ Observe /\ TypeOK'
  BY <1>5 DEF SetVisibility
<1>6. ASSUME NEW r \in Repo, NEW u \in User, NEW p \in Rank, SetACL(r, u, p)
      PROVE  req' = req /\ RowsKept /\ Observe /\ TypeOK'
  BY <1>3, <1>6 DEF SetACL
<1>7. ASSUME NEW t \in Token, DeleteToken(t) \/ Expires(t)
      PROVE  req' = req /\ RowsKept /\ Observe /\ TypeOK'
  BY <1>7 DEF DeleteToken, Expires
<1>8. ASSUME NEW t \in Token, PostLogin(t)
      PROVE  req' = req /\ RowsKept /\ Observe /\ TypeOK'
  BY <1>8 DEF PostLogin, Valid, Row
<1>9. ASSUME NEW t \in Token, NEW row \in Row, PostToken(t, row) \/ MintScoped(t, row)
      PROVE  req' = req /\ RowsKept /\ Observe /\ TypeOK'
  <2>1. CreateToken(t, row) /\ Edit /\ pages' \subseteq User
    BY <1>9 DEF PostToken, MintScoped
  <2>2. tokens' \in [Token -> Row \union {NoRow}] /\ RowsKept
    BY <2>1 DEF CreateToken
  <2> QED BY <2>1, <2>2 DEF CreateToken
<1> HIDE DEF TypeOK, Edit, Managed, Writes, RowsKept
<1> QED BY <1>1, <1>2, <1>4, <1>5, <1>6, <1>7, <1>8, <1>9 DEF Manage

Ask == [at : Inside \union Refusal \union {"none", "admitted", "failed"},
        by : Caller, repo : Repo, perm : {Read, Write},
        public : BOOLEAN, who : User \union {Anonymous}]

\* Request q becomes x, and nothing else happens.
Turns(q, x) ==
    /\ UNCHANGED <<tables, edits>>
    /\ Observe
    /\ x \in Ask
    /\ req' = [req EXCEPT ![q] = x]

\* The states of a request that follow each other.
Goes(x, to) == [x EXCEPT !.at = to]

LEMMA GoesType ==
    ASSUME NEW x \in Ask, NEW to \in Inside \union Refusal \union {"admitted", "failed"}
    PROVE  Goes(x, to) \in Ask
  BY DEF Goes, Ask

LEMMA TurnsType ==
    ASSUME TypeOK, NEW q \in Request, NEW x, Turns(q, x)
    PROVE  /\ req'[q] = x
           /\ TypeOK'
           /\ \A p \in Request : p # q => req'[p] = req[p]
<1>1. req \in [Request -> Ask]
  BY DEF TypeOK, Ask
<1>2. req' \in [Request -> Ask] /\ req'[q] = x
  BY <1>1 DEF Turns
<1>3. \A p \in Request : p # q => req'[p] = req[p]
  BY <1>1 DEF Turns
<1>4. req' \in [Request -> [at : Inside \union Refusal \union {"none", "admitted", "failed"},
                            by : Caller, repo : Repo, perm : {Read, Write},
                            public : BOOLEAN, who : User \union {Anonymous}]]
  BY <1>2 DEF Ask
<1>5. held' \in [Request -> SUBSET Fact] /\ kept' \in [Request -> SUBSET Fact]
  BY ObserveType DEF Turns
<1> QED BY <1>2, <1>3, <1>4, <1>5 DEF Turns, TypeOK, tables

\* What is true of a request stays true when nothing of the database changes.
LEMMA FactsStay ==
    ASSUME UNCHANGED tables, NEW q \in Request,
           req'[q].by = req[q].by, req'[q].repo = req[q].repo
    PROVE  Facts(q)' = Facts(q)
  BY DEF tables, Facts, Valid, Owner

\* A request that goes on learns nothing that was not true already.
LEMMA TurnsWatched ==
    ASSUME TypeOK, NEW q \in Request, NEW x, Turns(q, x), Stands(q), req[q].at \in Inside,
           x.by = req[q].by, x.repo = req[q].repo, x.perm = req[q].perm
    PROVE  /\ held'[q] = held[q] /\ kept'[q] = kept[q]
           /\ Watched(q)' /\ KnownCaller(q)'
<1>1. req'[q] = x
  BY TurnsType
<1>2. Facts(q)' = Facts(q)
  BY <1>1, FactsStay DEF Turns, tables
<1>3. kept[q] \subseteq Facts(q) /\ Facts(q) \subseteq held[q]
  BY DEF Stands, Watched
<1>4. req[q].at # "none"
  BY DEF Inside
<1>5. held'[q] = held[q] /\ kept'[q] = kept[q]
  BY <1>2, <1>3, <1>4 DEF Turns, Observe
<1>6. KnownCaller(q)'
  BY <1>1, <1>4 DEF Stands, KnownCaller, Turns, tables
<1> QED BY <1>2, <1>3, <1>5, <1>6 DEF Watched

\* A request that is not served stands as it stood, whatever is edited.
LEMMA Same ==
    ASSUME TypeOK, NEW q \in Request, req'[q] = req[q], Observe, RowsKept, Stands(q)
    PROVE  Stands(q)'
<1>1. CASE req[q].at \in Inside
  <2>1. req[q].at # "none" /\ req[q].at # "admitted" /\ req[q].at \notin Refusal
    BY <1>1 DEF Inside, Refusal
  <2>2. held'[q] = held[q] \union Facts(q)' /\ kept'[q] = kept[q] \intersect Facts(q)'
    BY <1>1, <2>1 DEF Observe
  <2>3. Watched(q)' /\ KnownCaller(q)'
    BY <2>1, <2>2 DEF Watched, KnownCaller, Stands, RowsKept
  <2>4. RepoRead(q) => RepoRead(q)'
    BY <2>2 DEF RepoRead
  <2>5. TokenRead(q) => TokenRead(q)'
    BY <2>1, <2>2 DEF TokenRead, InScope, MayWrite, RowsKept
  <2>6. ViewerRead(q) => ViewerRead(q)'
    BY <2>2 DEF ViewerRead
  <2>7. ReadsStand(q)'
    BY <2>4, <2>5, <2>6 DEF ReadsStand, Stands
  <2> QED BY <2>1, <2>3, <2>7 DEF Stands, Admitted, Refused
<1>2. CASE req[q].at \notin Inside
  <2>1. held'[q] = held[q] /\ kept'[q] = kept[q]
    BY <1>2 DEF Observe, Inside
  <2>2. Watched(q)' /\ KnownCaller(q)' /\ ReadsStand(q)'
    BY <1>2 DEF Watched, KnownCaller, ReadsStand, Stands, RowsKept, Inside
  <2>3. Admitted(q)'
    BY <2>1 DEF Admitted, Allows, Stands, KnownCaller, RowsKept
  <2>4. Refused(q)'
    BY <2>1 DEF Refused, Refusal, Allows, Counted, Stands, KnownCaller, RowsKept
  <2> QED BY <2>2, <2>3, <2>4 DEF Stands
<1> QED BY <1>1, <1>2

\* What every step of a request comes to.
Served(q) ==
    /\ UNCHANGED tables /\ Observe /\ TypeOK' /\ Stands(q)'
    /\ \A p \in Request : p # q => req'[p] = req[p]

LEMMA AskType ==
    ASSUME TypeOK, NEW q \in Request PROVE req[q] \in Ask
  BY DEF TypeOK, Ask

\* A step that ends outside of the decision only has to end rightly.
LEMMA Ends ==
    ASSUME TypeOK, NEW q \in Request, Stands(q), req[q].at \in Inside,
           NEW to \in Refusal \union {"admitted", "failed"}, Reaches(q, req[q].at, to),
           UNCHANGED <<tables, edits>>, Observe,
           to = "admitted" => Allows(q, held[q]),
           to \in Refusal => ~Allows(q, Counted(q))
    PROVE  Served(q)
<1> DEFINE x == Goes(req[q], to)
<1>1. x \in Ask /\ req[q] \in Ask
  BY AskType, GoesType
<1>2. /\ x.at = to /\ x.by = req[q].by /\ x.repo = req[q].repo /\ x.perm = req[q].perm
      /\ x.who = req[q].who
  BY <1>1 DEF Goes, Ask
<1>3. Turns(q, x)
  BY <1>1 DEF Turns, Reaches, Goes
<1> HIDE DEF x
<1>4. /\ req'[q] = x /\ TypeOK'
      /\ \A p \in Request : p # q => req'[p] = req[p]
  BY <1>3, TurnsType
<1>5. /\ held'[q] = held[q] /\ kept'[q] = kept[q]
      /\ Watched(q)' /\ KnownCaller(q)'
  BY <1>2, <1>3, TurnsWatched
<1>6. to \notin Inside
  BY DEF Inside, Refusal
<1>7. ReadsStand(q)'
  BY <1>2, <1>4, <1>6 DEF ReadsStand, Inside
<1>8. \A F : Allows(q, F) <=> /\ "repo" \in F
                              /\ x.by \in Token =>
                                  /\ "valid" \in F
                                  /\ tokens'[x.by].scope \in {AllRepos, x.repo}
                                  /\ x.perm = Write => ~tokens'[x.by].readOnly
                              /\ \/ x.perm = Read /\ "public" \in F
                                 \/ x.perm = Read /\ {"valid", "read"} \subseteq F
                                 \/ x.perm = Write /\ {"valid", "write"} \subseteq F
  BY <1>2 DEF Allows, tables
<1>9. Admitted(q)'
  BY <1>2, <1>4, <1>5, <1>8 DEF Admitted, Allows, Refusal
<1>10. Refused(q)'
  BY <1>2, <1>4, <1>5, <1>8 DEF Refused, Allows, Counted, Refusal
<1> QED BY <1>4, <1>5, <1>7, <1>9, <1>10 DEF Served, Stands

\* A step within the decision only has to have read rightly.
LEMMA GoesOn ==
    ASSUME TypeOK, NEW q \in Request, Stands(q), req[q].at \in Inside,
           NEW x, Turns(q, x), x.at \in {"found", "viewer", "decide"},
           x.by = req[q].by, x.repo = req[q].repo, x.perm = req[q].perm, ReadsStand(q)'
    PROVE  Served(q)
<1>1. /\ req'[q] = x /\ TypeOK'
      /\ \A p \in Request : p # q => req'[p] = req[p]
  BY TurnsType
<1>2. Watched(q)' /\ KnownCaller(q)'
  BY TurnsWatched
<1>3. Admitted(q)' /\ Refused(q)'
  BY <1>1 DEF Admitted, Refused, Refusal
<1> QED BY <1>1, <1>2, <1>3 DEF Served, Stands, Turns, tables

LEMMA ArriveStep ==
    ASSUME TypeOK, NEW q \in Request, NEW c \in Caller, NEW r \in Repo, NEW p \in {Read, Write},
           Arrive(q, c, r, p)
    PROVE  Served(q)
<1> DEFINE x == [at |-> "arrived", by |-> c, repo |-> r, perm |-> p,
                 public |-> FALSE, who |-> Anonymous]
<1>1. x \in Ask
  BY DEF Ask, Inside
<1>2. Turns(q, x)
  BY <1>1 DEF Turns, Arrive
<1>3. x.at = "arrived" /\ x.by = c /\ x.perm = p
  OBVIOUS
<1> HIDE DEF x
<1>4. /\ req'[q] = x /\ TypeOK'
      /\ \A s \in Request : s # q => req'[s] = req[s]
  BY <1>2, TurnsType
<1>5. Watched(q)'
  BY <1>3, <1>4 DEF Watched, Arrive, Observe, Inside
<1>6. KnownCaller(q)'
  BY <1>3, <1>4 DEF KnownCaller, Arrive, tables
<1>7. ReadsStand(q)' /\ Admitted(q)' /\ Refused(q)'
  BY <1>3, <1>4 DEF ReadsStand, Admitted, Refused, Refusal
<1> QED BY <1>2, <1>4, <1>5, <1>6, <1>7 DEF Served, Stands, Turns, tables

LEMMA GetRepoStep ==
    ASSUME TypeOK, NEW q \in Request, Stands(q), GetRepo(q)
    PROVE  Served(q)
<1> DEFINE r == req[q].repo
<1>1. req[q].at = "arrived" /\ req[q].at \in Inside /\ req[q].by \notin User
  BY DEF GetRepo, Reaches, Inside
<1>2. kept[q] \subseteq Facts(q) /\ Facts(q) \subseteq held[q]
  BY <1>1 DEF Stands, Watched
<1>3. req[q] \in Ask
  BY AskType
<1>4. UNCHANGED <<tables, edits>> /\ Observe
  BY DEF GetRepo
<1>5. Counted(q) = kept[q]
  BY <1>1 DEF Counted
<1>6. CASE repos[r] = "absent"
  <2>1. "repo" \notin kept[q]
    BY <1>2, <1>6, FactsAre
  <2>2. ~Allows(q, Counted(q))
    BY <1>5, <2>1 DEF Allows
  <2>3. PICK to \in Refusal : Reaches(q, req[q].at, to)
    BY <1>1, <1>6 DEF GetRepo, Reaches, Refusal
  <2> QED BY <1>1, <1>4, <2>2, <2>3, Ends DEF Refusal
<1>7. CASE repos[r] # "absent" /\ req[q].by = Anonymous
  <2>1. CASE req[q].perm = Read /\ repos[r] = "public"
    <3>1. Allows(q, held[q])
      BY <1>2, <1>7, <2>1, FactsAre, AccessAssumption DEF Allows
    <3>2. Reaches(q, req[q].at, "admitted")
      BY <1>1, <1>7, <2>1 DEF GetRepo
    <3> QED BY <1>1, <1>4, <3>1, <3>2, Ends DEF Refusal
  <2>2. CASE ~(req[q].perm = Read /\ repos[r] = "public")
    <3>1. "valid" \notin kept[q]
      BY <1>2, <1>7, FactsAre, AccessAssumption DEF TypeOK
    <3>2. ~Allows(q, Counted(q))
      BY <1>2, <1>5, <2>2, <3>1, FactsAre DEF Allows
    <3>3. Reaches(q, req[q].at, "unauthorized")
      BY <1>1, <1>7, <2>2 DEF GetRepo
    <3> QED BY <1>1, <1>4, <3>2, <3>3, Ends DEF Refusal
  <2> QED BY <2>1, <2>2
<1>8. CASE repos[r] # "absent" /\ req[q].by # Anonymous
  <2> DEFINE x == [req[q] EXCEPT !.at = "found", !.public = (repos[r] = "public")]
  <2>1. x \in Ask
    BY <1>3 DEF Ask, Inside
  <2>2. req' = [req EXCEPT ![q] = x]
    BY <1>1, <1>8 DEF GetRepo
  <2>3. Turns(q, x)
    BY <1>4, <2>1, <2>2 DEF Turns
  <2>4. /\ x.at = "found" /\ x.by = req[q].by /\ x.repo = req[q].repo /\ x.perm = req[q].perm
        /\ x.public = (repos[r] = "public")
    BY <1>3 DEF Ask
  <2> HIDE DEF x
  <2>5. req'[q] = x /\ held'[q] = held[q] /\ kept'[q] = kept[q]
    BY <1>1, <2>3, <2>4, TurnsType, TurnsWatched
  <2>6. req[q].by \in Token
    BY <1>1, <1>3, <1>8 DEF Ask, Caller
  <2>7. RepoRead(q)'
    BY <1>2, <1>8, <2>4, <2>5, FactsAre DEF RepoRead
  <2>8. ReadsStand(q)'
    BY <2>4, <2>5, <2>6, <2>7 DEF ReadsStand
  <2> QED BY <1>1, <2>3, <2>4, <2>8, GoesOn
<1> QED BY <1>6, <1>7, <1>8

LEMMA VerifyStep ==
    ASSUME TypeOK, NEW q \in Request, Stands(q), Verify(q)
    PROVE  Served(q)
<1> DEFINE t == req[q].by
           within == InScope(tokens[t], q) /\ MayWrite(tokens[t], q)
<1>1. req[q].at = "found" /\ req[q].at \in Inside
  BY DEF Verify, Inside
<1>2. kept[q] \subseteq Facts(q) /\ Facts(q) \subseteq held[q]
  BY <1>1 DEF Stands, Watched
<1>3. req[q] \in Ask /\ t \in Token /\ RepoRead(q)
  BY <1>1, AskType DEF Stands, ReadsStand
<1>4. UNCHANGED <<tables, edits>> /\ Observe
  BY DEF Verify
<1>5. Valid(t) => tokens[t] \in Row
  BY <1>3 DEF Valid, TypeOK
<1>6. t \notin User /\ Counted(q) = kept[q]
  BY <1>3, AccessAssumption DEF Counted
<1>7. CASE ~Valid(t)
  <2>1. ~Allows(q, Counted(q))
    BY <1>2, <1>3, <1>6, <1>7, FactsAre DEF Allows
  <2>2. Reaches(q, req[q].at, "unauthorized")
    BY <1>1, <1>7 DEF Verify
  <2> QED BY <1>1, <1>4, <2>1, <2>2, Ends DEF Refusal
<1>8. CASE Valid(t) /\ ~within
  <2>1. ~Allows(q, Counted(q))
    BY <1>3, <1>8 DEF Allows, InScope, MayWrite, Ask, Read, Write
  <2>2. Reaches(q, req[q].at, "forbidden")
    BY <1>1, <1>8 DEF Verify
  <2> QED BY <1>1, <1>4, <2>1, <2>2, Ends DEF Refusal
<1>9. CASE Valid(t) /\ within
  <2> DEFINE x == [req[q] EXCEPT !.at = "decide", !.who = tokens[t].owner]
  <2>1. x \in Ask
    BY <1>3, <1>5, <1>9 DEF Ask, Inside, Row
  <2>2. req' = [req EXCEPT ![q] = x]
    BY <1>1, <1>9 DEF Verify
  <2>3. Turns(q, x)
    BY <1>4, <2>1, <2>2 DEF Turns
  <2>4. /\ x.at = "decide" /\ x.by = req[q].by /\ x.repo = req[q].repo /\ x.perm = req[q].perm
        /\ x.public = req[q].public /\ x.who = tokens[t].owner
    BY <1>3 DEF Ask
  <2> HIDE DEF x
  <2>5. req'[q] = x /\ held'[q] = held[q] /\ kept'[q] = kept[q]
    BY <1>1, <2>3, <2>4, TurnsType, TurnsWatched
  <2>6. RepoRead(q)'
    BY <1>3, <2>4, <2>5 DEF RepoRead
  <2>7. "valid" \in held[q]
    BY <1>2, <1>3, <1>9, FactsAre
  <2>8. TokenRead(q)'
    BY <1>3, <1>4, <1>9, <2>4, <2>5, <2>7 DEF TokenRead, Valid, InScope, MayWrite, tables
  <2>9. ReadsStand(q)'
    BY <2>4, <2>5, <2>6, <2>8 DEF ReadsStand
  <2> QED BY <1>1, <2>3, <2>4, <2>9, GoesOn
<1> QED BY <1>7, <1>8, <1>9

LEMMA ViewerStep ==
    ASSUME TypeOK, NEW q \in Request, Stands(q), Viewer(q)
    PROVE  Served(q)
<1>1. req[q].at = "arrived" /\ req[q].at \in Inside /\ req[q].by \in User
  BY DEF Viewer, Inside
<1>2. kept[q] \subseteq Facts(q) /\ Facts(q) \subseteq held[q]
  BY <1>1 DEF Stands, Watched
<1>3. req[q] \in Ask
  BY AskType
<1>4. PICK who \in {Anonymous} \union ({req[q].by} \intersect sessions \intersect users) :
          req' = [req EXCEPT ![q].at = "viewer", ![q].who = who]
  BY DEF Viewer
<1> DEFINE x == [req[q] EXCEPT !.at = "viewer", !.who = who]
<1>5. x \in Ask
  BY <1>1, <1>3, <1>4 DEF Ask, Inside
<1>6. req' = [req EXCEPT ![q] = x]
  BY <1>4
<1>7. Turns(q, x)
  BY <1>5, <1>6 DEF Turns, Viewer
<1>8. /\ x.at = "viewer" /\ x.by = req[q].by /\ x.repo = req[q].repo /\ x.perm = req[q].perm
      /\ x.who = who
  BY <1>3 DEF Ask
<1> HIDE DEF x
<1>9. req'[q] = x /\ held'[q] = held[q]
  BY <1>1, <1>7, <1>8, TurnsType, TurnsWatched
<1>10. who # Anonymous => who = req[q].by /\ "valid" \in held[q]
  BY <1>1, <1>2, <1>4, FactsAre, AccessAssumption
<1>11. ViewerRead(q)'
  BY <1>1, <1>8, <1>9, <1>10 DEF ViewerRead
<1>12. ReadsStand(q)'
  BY <1>8, <1>9, <1>11 DEF ReadsStand
<1> QED BY <1>1, <1>7, <1>8, <1>12, GoesOn

LEMMA BrowseRepoStep ==
    ASSUME TypeOK, NEW q \in Request, Stands(q), BrowseRepo(q)
    PROVE  Served(q)
<1> DEFINE r == req[q].repo
<1>1. req[q].at = "viewer" /\ req[q].at \in Inside
  BY DEF BrowseRepo, Reaches, Inside
<1>2. kept[q] \subseteq Facts(q) /\ Facts(q) \subseteq held[q]
  BY <1>1 DEF Stands, Watched
<1>3. req[q] \in Ask /\ ViewerRead(q)
  BY <1>1, AskType DEF Stands, ReadsStand
<1>4. UNCHANGED <<tables, edits>> /\ Observe
  BY DEF BrowseRepo
<1>5. CASE repos[r] = "absent"
  <2>1. "repo" \notin kept[q]
    BY <1>2, <1>5, FactsAre
  <2>2. ~Allows(q, Counted(q))
    BY <2>1 DEF Allows, Counted
  <2>3. PICK to \in Refusal : Reaches(q, req[q].at, to)
    BY <1>1, <1>5 DEF BrowseRepo, Reaches, Refusal
  <2> QED BY <1>1, <1>4, <2>2, <2>3, Ends DEF Refusal
<1>6. CASE repos[r] # "absent"
  <2> DEFINE x == [req[q] EXCEPT !.at = "decide", !.public = (repos[r] = "public")]
  <2>1. x \in Ask
    BY <1>3 DEF Ask, Inside
  <2>2. req' = [req EXCEPT ![q] = x]
    BY <1>1, <1>6 DEF BrowseRepo
  <2>3. Turns(q, x)
    BY <1>4, <2>1, <2>2 DEF Turns
  <2>4. /\ x.at = "decide" /\ x.by = req[q].by /\ x.repo = req[q].repo /\ x.perm = req[q].perm
        /\ x.public = (repos[r] = "public") /\ x.who = req[q].who
    BY <1>3 DEF Ask
  <2> HIDE DEF x
  <2>5. req'[q] = x /\ held'[q] = held[q] /\ kept'[q] = kept[q]
    BY <1>1, <2>3, <2>4, TurnsType, TurnsWatched
  <2>6. RepoRead(q)'
    BY <1>2, <1>6, <2>4, <2>5, FactsAre DEF RepoRead
  <2>7. ViewerRead(q)'
    BY <1>3, <2>4, <2>5 DEF ViewerRead
  <2>8. ReadsStand(q)'
    BY <2>4, <2>5, <2>6, <2>7 DEF ReadsStand
  <2> QED BY <1>1, <2>3, <2>4, <2>8, GoesOn
<1> QED BY <1>5, <1>6

LEMMA DecideStep ==
    ASSUME TypeOK, NEW q \in Request, Stands(q), Decide(q)
    PROVE  Served(q)
<1>1. req[q].at = "decide" /\ req[q].at \in Inside
  BY DEF Decide, Reaches, Inside
<1>2. kept[q] \subseteq Facts(q) /\ Facts(q) \subseteq held[q]
  BY <1>1 DEF Stands, Watched
<1>3. req[q] \in Ask /\ RepoRead(q) /\ (TokenRead(q) \/ ViewerRead(q))
  BY <1>1, AskType DEF Stands, ReadsStand
<1>4. UNCHANGED <<tables, edits>> /\ Observe
  BY DEF Decide
<1>5. Granted(q) => "valid" \in held[q] /\ Owner(req[q].by) = req[q].who
  <2>1. CASE TokenRead(q)
    BY <2>1 DEF TokenRead, Owner
  <2>2. CASE ViewerRead(q)
    BY <2>2, AccessAssumption DEF ViewerRead, Owner, Granted
  <2> QED BY <1>3, <2>1, <2>2
<1>6. req[q].by \in Token =>
        /\ "valid" \in held[q]
        /\ tokens[req[q].by].scope \in {AllRepos, req[q].repo}
        /\ req[q].perm = Write => ~tokens[req[q].by].readOnly
  BY <1>3, AccessAssumption DEF TokenRead, ViewerRead, InScope, MayWrite, Read, Write
<1>7. CASE CanRead(q) \/ Granted(q)
  <2>1. CanRead(q) => req[q].perm = Read /\ "public" \in held[q]
    BY <1>3 DEF CanRead, RepoRead
  <2>2. Granted(q) => \/ req[q].perm = Read /\ {"valid", "read"} \subseteq held[q]
                      \/ req[q].perm = Write /\ {"valid", "write"} \subseteq held[q]
    BY <1>2, <1>3, <1>5, FactsAre DEF Granted, Ask
  <2>3. Allows(q, held[q])
    BY <1>3, <1>6, <1>7, <2>1, <2>2 DEF Allows, RepoRead
  <2>4. Reaches(q, req[q].at, "admitted")
    BY <1>1, <1>7 DEF Decide
  <2> QED BY <1>1, <1>4, <2>3, <2>4, Ends DEF Refusal
<1>8. CASE ~(CanRead(q) \/ Granted(q))
  <2>1. req[q].perm = Read => "public" \notin kept[q]
    BY <1>3, <1>8 DEF CanRead, RepoRead
  <2>2. ASSUME TokenRead(q) PROVE ~Allows(q, Counted(q))
    <3>1. Owner(req[q].by) = req[q].who
      BY <2>2 DEF TokenRead, Owner
    <3>2. req[q].perm = Read => "read" \notin kept[q]
      BY <1>2, <1>8, <3>1, FactsAre DEF Granted
    <3>3. req[q].perm = Write => "write" \notin kept[q]
      BY <1>2, <1>8, <3>1, FactsAre DEF Granted
    <3> QED BY <2>1, <3>2, <3>3 DEF Allows, Counted, Read, Write
  <2>3. ASSUME ViewerRead(q) PROVE ~Allows(q, Counted(q))
    <3>1. req[q].perm = Read
      BY <1>1, <2>3 DEF ViewerRead, Stands, KnownCaller
    <3>2. CASE req[q].who = Anonymous
      <4>1. Counted(q) = kept[q] \ {"valid"}
        BY <2>3, <3>2 DEF Counted, ViewerRead
      <4> QED BY <2>1, <3>1, <4>1 DEF Allows, Read, Write
    <3>3. CASE req[q].who # Anonymous
      <4>1. Owner(req[q].by) = req[q].who
        BY <2>3, <3>3, AccessAssumption DEF ViewerRead, Owner
      <4>2. "read" \notin kept[q]
        BY <1>2, <1>8, <3>1, <4>1, FactsAre DEF Granted
      <4> QED BY <2>1, <3>1, <4>2 DEF Allows, Counted, Read, Write
    <3> QED BY <3>2, <3>3
  <2>4. ~Allows(q, Counted(q))
    BY <1>3, <2>2, <2>3
  <2>5. PICK to \in Refusal : Reaches(q, req[q].at, to)
    BY <1>1, <1>8 DEF Decide, Reaches, Refusal
  <2> QED BY <1>1, <1>4, <2>4, <2>5, Ends DEF Refusal
<1> QED BY <1>7, <1>8

LEMMA FailsStep ==
    ASSUME TypeOK, NEW q \in Request, Stands(q), Fails(q)
    PROVE  Served(q)
<1>1. req[q].at \in Inside /\ Reaches(q, req[q].at, "failed")
  BY DEF Fails, Reaches
<1> QED BY <1>1, Ends DEF Fails, Refusal

LEMMA IInvInit == Init => IInv
<1> SUFFICES ASSUME Init PROVE IInv
  OBVIOUS
<1>1. ASSUME NEW q \in Request PROVE req[q].at = "none"
  BY DEF Init
<1>2. ASSUME NEW q \in Request PROVE Stands(q)
  BY <1>1 DEF Stands, Watched, KnownCaller, ReadsStand, Admitted, Refused, Inside, Refusal
<1> QED BY <1>2, TypeInit DEF IInv

LEMMA IInvStep == IInv /\ [Next]_vars => IInv'
<1> SUFFICES ASSUME TypeOK, \A q \in Request : Stands(q), [Next]_vars PROVE IInv'
  BY DEF IInv
<1>1. CASE Manage
  <2>1. req' = req /\ RowsKept /\ Observe /\ TypeOK'
    BY <1>1, ManageStep
  <2>2. ASSUME NEW q \in Request PROVE Stands(q)'
    BY <2>1, Same
  <2> QED BY <2>1, <2>2 DEF IInv
<1>2. ASSUME NEW q \in Request, Serve(q) PROVE IInv'
  <2>1. Served(q)
    BY <1>2, ArriveStep, GetRepoStep, VerifyStep, ViewerStep, BrowseRepoStep, DecideStep,
       FailsStep DEF Serve
  <2>2. RowsKept
    BY <2>1 DEF Served, tables, RowsKept
  <2>3. ASSUME NEW p \in Request, p # q PROVE Stands(p)'
    <3>1. req'[p] = req[p] /\ Observe
      BY <2>1, <2>3 DEF Served
    <3> QED BY <2>2, <3>1, Same
  <2> QED BY <2>1, <2>3 DEF Served, IInv
<1>3. CASE UNCHANGED vars
  <2>1. TypeOK'
    BY <1>3 DEF vars, tables, TypeOK
  <2>2. ASSUME NEW q \in Request PROVE Stands(q)'
    <3>1. UNCHANGED tables /\ UNCHANGED <<req, held, kept>>
      BY <1>3 DEF vars
    <3>2. Watched(q)'
      BY <3>1, FactsStay DEF Stands, Watched
    <3>3. KnownCaller(q)' /\ ReadsStand(q)'
      BY <3>1 DEF Stands, tables, KnownCaller, ReadsStand, RepoRead, TokenRead, ViewerRead,
         InScope, MayWrite
    <3>4. Admitted(q)' /\ Refused(q)'
      BY <3>1 DEF Stands, tables, Admitted, Refused, Allows, Counted
    <3> QED BY <3>2, <3>3, <3>4 DEF Stands
  <2> QED BY <2>1, <2>2 DEF IInv
<1> QED BY <1>1, <1>2, <1>3 DEF Next

LEMMA IInvHolds == Spec => []IInv
  BY IInvInit, IInvStep, PTL DEF Spec

\* The tables, the requests and their histories keep their types.
THEOREM AccessTypeCorrect == Spec => []TypeOK
<1>1. IInv => TypeOK
  BY DEF IInv
<1> QED BY <1>1, IInvHolds, PTL

(***************************************************************************)
(* Authorize and authorizeRead admit nobody for whom one of the conditions *)
(* of docs/architecture/auth.md was false throughout the request.          *)
(***************************************************************************)
THEOREM AdmittedRight == Spec => []AdmittedForCause
<1>1. IInv => AdmittedForCause
  BY DEF IInv, Stands, AdmittedForCause
<1> QED BY <1>1, IInvHolds, PTL

\* Nobody is refused for whom all of them were true throughout.
THEOREM RefusedRight == Spec => []RefusedForCause
<1>1. IInv => RefusedForCause
  BY DEF IInv, Stands, RefusedForCause
<1> QED BY <1>1, IInvHolds, PTL

=============================================================================
