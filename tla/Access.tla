------------------------------- MODULE Access -------------------------------
(***************************************************************************)
(* Who may read and write a repo: Guard.Authorize (internal/auth/guard.go) *)
(* for git requests, authorizeRead (internal/webui/browse.go) for the      *)
(* browse pages, and the management pages (internal/webui/webui.go) and    *)
(* the CI dispatcher, which change what these read.                        *)
(*                                                                         *)
(* A decision takes several statements of the database, each its own       *)
(* transaction, and repos, grants and tokens change between them.          *)
(***************************************************************************)
EXTENDS Naturals

CONSTANTS User, Token, Repo, Request,
          Anonymous,   \* who sends neither a token nor a cookie
          AllRepos,    \* the scope of a token without one
          NoRow,       \* what the database has of a token that was not minted
          Forged,      \* the tokens that nobody ever mints
          Root,        \* the admin of the bootstrap
          RootToken,   \* and the token it printed
          Admin,       \* the users that are created as global admins
          MaxEdits     \* bound: changes to the database

ASSUME AccessAssumption ==
    /\ User \intersect Token = {} /\ Anonymous \notin User \union Token
    /\ Repo # {} /\ AllRepos \notin Repo
    /\ Forged \subseteq Token
    /\ Root \in User /\ RootToken \in Token \ Forged /\ Admin \subseteq User
    /\ NoRow \notin [owner : User, scope : Repo \union {AllRepos}, readOnly : BOOLEAN]
    /\ MaxEdits \in Nat

VARIABLES
    users,     \* the accounts
    repos,     \* repos[r]: its visibility, or "absent"
    ungranted, \* <<r, u>>: u created r and has no grant yet
    acls,      \* acls[r][u]: the rank of the grant, 0 for none
    tokens,    \* tokens[t]: the row it was minted with
    gone,      \* the tokens that were revoked or are over
    sessions,  \* the users with a cookie that is not over
    pages,     \* the admins whose management page is about to write
    edits,     \* the changes so far
    req,       \* req[q]: a request and how far it is
    held,      \* held[q]: what was true at some moment of the request
    kept       \* kept[q]: what was true all the time

tables == <<users, repos, ungranted, acls, tokens, gone, sessions, pages>>
vars == <<tables, edits, req, held, kept>>

\* permRank: read < write < admin, and 0 for no grant.
Rank == 0..3
Read == 1
Write == 2
AdminRank == 3

Row == [owner : User, scope : Repo \union {AllRepos}, readOnly : BOOLEAN]
Caller == User \union Token \union {Anonymous}
Inside == {"arrived", "found", "viewer", "decide"}
Refusal == {"unauthorized", "forbidden", "notFound"}

Init ==
    /\ users = {Root}
    /\ repos = [r \in Repo |-> "absent"]
    /\ ungranted = {}
    /\ acls = [r \in Repo |-> [u \in User |-> 0]]
    /\ tokens = [t \in Token |->
                    IF t = RootToken
                    THEN [owner |-> Root, scope |-> AllRepos, readOnly |-> FALSE]
                    ELSE NoRow]
    /\ gone = {}
    /\ sessions = {}
    /\ pages = {}
    /\ edits = 0
    /\ req = [q \in Request |-> [at |-> "none", by |-> Anonymous, repo |-> CHOOSE r \in Repo : TRUE,
                                 perm |-> Read, public |-> FALSE, who |-> Anonymous]]
    /\ held = [q \in Request |-> {}]
    /\ kept = [q \in Request |-> {}]

Valid(t) == tokens[t] # NoRow /\ t \notin gone
-----------------------------------------------------------------------------
(* What the guard has to decide, and when it is true *)

\* Whose grants count for a caller.
Owner(c) == IF c \in Token /\ tokens[c] # NoRow THEN tokens[c].owner ELSE c

Fact == {"repo", "public", "valid", "read", "write"}
Facts(q) ==
    LET c == req[q].by
        r == req[q].repo
    IN  {f \in Fact :
            CASE f = "repo" -> repos[r] # "absent"
              [] f = "public" -> repos[r] = "public"
              [] f = "valid" -> IF c \in Token THEN Valid(c) ELSE c \in sessions
              [] f = "read" -> Owner(c) \in User /\ acls[r][Owner(c)] >= Read
              [] f = "write" -> Owner(c) \in User /\ acls[r][Owner(c)] >= Write}

\* The rules of docs/architecture/auth.md: F is enough for request q.
Allows(q, F) ==
    /\ "repo" \in F
    /\ req[q].by \in Token =>
        /\ "valid" \in F
        /\ tokens[req[q].by].scope \in {AllRepos, req[q].repo}
        /\ req[q].perm = Write => ~tokens[req[q].by].readOnly
    /\ \/ req[q].perm = Read /\ "public" \in F
       \/ req[q].perm = Read /\ {"valid", "read"} \subseteq F
       \/ req[q].perm = Write /\ {"valid", "write"} \subseteq F

Observe ==
    /\ held' = [q \in Request |->
                  IF req'[q].at \in Inside THEN held[q] \union Facts(q)' ELSE held[q]]
    /\ kept' = [q \in Request |->
                  IF req[q].at = "none" /\ req'[q].at = "arrived" THEN Facts(q)'
                  ELSE IF req'[q].at \in Inside THEN kept[q] \intersect Facts(q)'
                  ELSE kept[q]]
-----------------------------------------------------------------------------
(* The management pages and the dispatcher *)

\* A change of the database.
Edit == edits < MaxEdits /\ edits' = edits + 1 /\ UNCHANGED req

\* The management pages are for the global admins who are signed in.
RequireAdmin(u) ==
    /\ u \in sessions \intersect users \intersect Admin
    /\ pages' = pages \union {u}
    /\ UNCHANGED <<users, repos, ungranted, acls, tokens, gone, sessions, edits, req>>
    /\ Observe

\* The write of a page, however long after the check.
Writes(u) == Edit /\ u \in pages /\ pages' = pages \ {u}
Managed == \E u \in User : Writes(u)

PostUser(u) ==
    /\ Managed
    /\ u \notin users
    /\ users' = users \union {u}
    /\ UNCHANGED <<repos, ungranted, acls, tokens, gone, sessions>>
    /\ Observe

CreateRepoUnset(r, u) ==                                        \* a mutant
    /\ Writes(u)
    /\ repos[r] = "absent"
    /\ repos' = [repos EXCEPT ![r] = "unset"]
    /\ ungranted' = ungranted \union {<<r, u>>}
    /\ UNCHANGED <<users, acls, tokens, gone, sessions>>
    /\ Observe

\* postRepo is two statements, and the second may fail.
CreateRepo(r, u) ==
    /\ Writes(u)
    /\ repos[r] = "absent"
    /\ repos' = [repos EXCEPT ![r] = "private"]
    /\ ungranted' = ungranted \union {<<r, u>>}
    /\ UNCHANGED <<users, acls, tokens, gone, sessions>>
    /\ Observe

GrantCreator(r, u) ==
    /\ <<r, u>> \in ungranted
    /\ ungranted' = ungranted \ {<<r, u>>}
    /\ acls' = [acls EXCEPT ![r][u] = AdminRank] \/ UNCHANGED acls
    /\ UNCHANGED <<users, repos, tokens, gone, sessions, pages, edits, req>>
    /\ Observe

SetVisibility(r, v) ==
    /\ Managed
    /\ repos[r] # "absent"
    /\ repos' = [repos EXCEPT ![r] = v]
    /\ UNCHANGED <<users, ungranted, acls, tokens, gone, sessions>>
    /\ Observe

\* postAccess with a rank of 1 to 3, postRevokeAccess with 0.
SetACL(r, u, p) ==
    /\ Managed
    /\ repos[r] # "absent" /\ u \in users
    /\ acls' = [acls EXCEPT ![r][u] = p]
    /\ UNCHANGED <<users, repos, ungranted, tokens, gone, sessions>>
    /\ Observe

CreateToken(t, row) ==
    /\ tokens[t] = NoRow /\ t \notin Forged
    /\ row.owner \in users
    /\ tokens' = [tokens EXCEPT ![t] = row]
    /\ UNCHANGED <<users, repos, ungranted, acls, gone, sessions>>
    /\ Observe

PostToken(t, row) ==
    /\ Managed
    /\ row.scope = AllRepos /\ ~row.readOnly
    /\ CreateToken(t, row)

\* mintCloneToken, for a run of a pusher.
MintScoped(t, row) ==
    /\ Edit
    /\ row.scope \in Repo /\ row.readOnly
    /\ UNCHANGED pages
    /\ repos[row.scope] # "absent"
    /\ CreateToken(t, row)

\* postRevokeToken with an id, whosever row that is by now.
DeleteToken(t) ==
    /\ Managed
    /\ Valid(t)
    /\ gone' = gone \union {t}
    /\ UNCHANGED <<users, repos, ungranted, acls, tokens, sessions>>
    /\ Observe

\* A clone token is over after cloneTokenTTL.
Expires(t) ==
    /\ Valid(t)
    /\ tokens[t].scope \in Repo
    /\ gone' = gone \union {t}
    /\ UNCHANGED <<users, repos, ungranted, acls, tokens, sessions, pages, edits, req>>
    /\ Observe

\* postLogin verifies a token; the cookie outlives it.
PostLogin(t) ==
    /\ Valid(t)
    /\ sessions' = sessions \union {tokens[t].owner}
    /\ UNCHANGED <<users, repos, ungranted, acls, tokens, gone, pages, edits, req>>
    /\ Observe

\* sessionTTL is over.  postLogout makes the browser forget a cookie that stays good.
SessionEnds(u) ==
    /\ u \in sessions
    /\ sessions' = sessions \ {u}
    /\ UNCHANGED <<users, repos, ungranted, acls, tokens, gone, pages, edits, req>>
    /\ Observe
-----------------------------------------------------------------------------
(* Requests *)

\* A browse page reads, with a cookie or without.  A git request may show a token
\* of the caller's own invention.
Arrive(q, c, r, p) ==
    /\ req[q].at = "none"
    /\ c \in User => p = Read /\ c \in sessions
    /\ c \in Token => tokens[c] # NoRow \/ c \in Forged
    /\ req' = [req EXCEPT ![q] = [at |-> "arrived", by |-> c, repo |-> r, perm |-> p,
                                  public |-> FALSE, who |-> Anonymous]]
    /\ UNCHANGED <<tables, edits>>
    /\ Observe

Reaches(q, from, to) == req[q].at = from /\ req' = [req EXCEPT ![q].at = to]

\* GetRepo, and what needs no more than the repo.  An anonymous viewer of a browse
\* page gets what an anonymous git request gets.
GetRepo(q) ==
    LET r == req[q].repo
        anonymous == req[q].by = Anonymous
    IN  /\ req[q].by \notin User
        /\ \/ /\ repos[r] = "absent"
              /\ Reaches(q, "arrived", IF anonymous THEN "unauthorized" ELSE "notFound")
           \/ /\ repos[r] # "absent" /\ anonymous
              /\ Reaches(q, "arrived", IF req[q].perm = Read /\ repos[r] = "public"
                                       THEN "admitted" ELSE "unauthorized")
           \/ /\ repos[r] # "absent" /\ ~anonymous
              /\ req[q].at = "arrived"
              /\ req' = [req EXCEPT ![q].at = "found", ![q].public = repos[r] = "public"]
        /\ UNCHANGED <<tables, edits>>
        /\ Observe

\* The constraints of a token.
InScope(row, q) == row.scope \in {AllRepos, req[q].repo}
MayWrite(row, q) == req[q].perm > Read => ~row.readOnly

\* verify, then the constraints of the token.
Verify(q) ==
    LET t == req[q].by
        within == InScope(tokens[t], q) /\ MayWrite(tokens[t], q)
    IN  /\ req[q].at = "found"
        /\ \/ /\ ~Valid(t)
              /\ Reaches(q, "found", "unauthorized")
           \/ /\ Valid(t) /\ ~within
              /\ Reaches(q, "found", "forbidden")
           \/ /\ Valid(t) /\ within
              /\ req' = [req EXCEPT ![q].at = "decide", ![q].who = tokens[t].owner]
        /\ UNCHANGED <<tables, edits>>
        /\ Observe

\* authorizeRead: the user of the cookie, or an anonymous viewer if the cookie is
\* not valid or its user cannot be read.
Viewer(q) ==
    /\ req[q].at = "arrived" /\ req[q].by \in User
    /\ \E who \in {Anonymous} \union ({req[q].by} \intersect sessions \intersect users) :
          req' = [req EXCEPT ![q].at = "viewer", ![q].who = who]
    /\ UNCHANGED <<tables, edits>>
    /\ Observe

BrowseRepo(q) ==
    LET r == req[q].repo
    IN  /\ \/ /\ repos[r] = "absent"
              /\ Reaches(q, "viewer", IF req[q].who = Anonymous THEN "unauthorized"
                                      ELSE "notFound")
           \/ /\ repos[r] # "absent"
              /\ req[q].at = "viewer"
              /\ req' = [req EXCEPT ![q].at = "decide", ![q].public = repos[r] = "public"]
        /\ UNCHANGED <<tables, edits>>
        /\ Observe

\* CanRead, GetACL and allows, with the repo as it was read before.
GrantedAny(q) == req[q].who \in User /\ acls[req[q].repo][req[q].who] >= Read \* a mutant
Granted(q) == req[q].who \in User /\ acls[req[q].repo][req[q].who] >= req[q].perm
CanReadByGrant(q) == FALSE                                      \* a mutant
CanRead(q) == req[q].perm = Read /\ req[q].public

Decide(q) ==
    /\ Reaches(q, "decide",
         IF CanRead(q) \/ Granted(q) THEN "admitted"
         ELSE IF req[q].who = Anonymous THEN "unauthorized" ELSE "forbidden")
    /\ UNCHANGED <<tables, edits>>
    /\ Observe

\* A statement fails.
Fails(q) ==
    /\ req[q].at \in Inside
    /\ req' = [req EXCEPT ![q].at = "failed"]
    /\ UNCHANGED <<tables, edits>>
    /\ Observe
-----------------------------------------------------------------------------
Manage ==
    \/ \E u \in User : RequireAdmin(u) \/ PostUser(u) \/ SessionEnds(u)
    \/ \E r \in Repo, u \in User : CreateRepo(r, u) \/ GrantCreator(r, u)
    \/ \E r \in Repo, v \in {"private", "public"} : SetVisibility(r, v)
    \/ \E r \in Repo, u \in User, p \in Rank : SetACL(r, u, p)
    \/ \E t \in Token : DeleteToken(t) \/ Expires(t) \/ PostLogin(t)
    \/ \E t \in Token, row \in Row : PostToken(t, row) \/ MintScoped(t, row)

Serve(q) ==
    \/ \E c \in Caller, r \in Repo, p \in {Read, Write} : Arrive(q, c, r, p)
    \/ GetRepo(q) \/ Verify(q) \/ Viewer(q) \/ BrowseRepo(q) \/ Decide(q)
    \/ Fails(q)

Next == Manage \/ \E q \in Request : Serve(q)

Spec == Init /\ [][Next]_vars
-----------------------------------------------------------------------------
(* Properties *)

TypeOK ==
    /\ users \subseteq User
    /\ repos \in [Repo -> {"absent", "private", "public"}]
    /\ ungranted \subseteq Repo \X User
    /\ acls \in [Repo -> [User -> Rank]]
    /\ tokens \in [Token -> Row \union {NoRow}]
    /\ gone \subseteq Token
    /\ sessions \subseteq User
    /\ pages \subseteq User
    /\ edits \in 0..MaxEdits
    /\ req \in [Request -> [at : Inside \union Refusal \union {"none", "admitted", "failed"},
                            by : Caller, repo : Repo, perm : {Read, Write},
                            public : BOOLEAN, who : User \union {Anonymous}]]
    /\ held \in [Request -> SUBSET Fact]
    /\ kept \in [Request -> SUBSET Fact]

(***************************************************************************)
(* A request is admitted for a reason: whatever auth.md asks for was true  *)
(* at some moment of the request, so what was revoked before it was sent   *)
(* admits nobody, although Authorize decides from rows it read earlier.    *)
(***************************************************************************)
Admitted(q) == req[q].at = "admitted" => Allows(q, held[q])
AdmittedForCause == \A q \in Request : Admitted(q)

\* A cookie whose user is not found counts for nothing.
Counted(q) == IF req[q].by \in User /\ req[q].who = Anonymous
              THEN kept[q] \ {"valid"} ELSE kept[q]

(***************************************************************************)
(* A request is refused for a reason: something auth.md asks for was       *)
(* missing at some moment of the request.                                  *)
(***************************************************************************)
Refused(q) == req[q].at \in Refusal => ~Allows(q, Counted(q))
RefusedForCause == \A q \in Request : Refused(q)

\* The histories are what their names say.
Watched(q) ==
    req[q].at \in Inside => kept[q] \subseteq Facts(q) /\ Facts(q) \subseteq held[q]

\* A request shows a token that was minted or never is, or only reads.
KnownCaller(q) == req[q].at # "none" =>
    /\ req[q].by \in Token => tokens[req[q].by] # NoRow \/ req[q].by \in Forged
    /\ req[q].by \in User => req[q].perm = Read

\* What a request has read was true when it was read, and nothing else counts.
RepoRead(q) ==
    /\ "repo" \in held[q]
    /\ IF req[q].public THEN "public" \in held[q] ELSE "public" \notin kept[q]
TokenRead(q) ==
    LET t == req[q].by
    IN  /\ t \in Token /\ tokens[t] # NoRow
        /\ "valid" \in held[q]
        /\ InScope(tokens[t], q) /\ MayWrite(tokens[t], q)
        /\ req[q].who = tokens[t].owner
ViewerRead(q) ==
    /\ req[q].by \in User
    /\ \/ req[q].who = Anonymous
       \/ req[q].who = req[q].by /\ "valid" \in held[q]
ReadsStand(q) ==
    /\ req[q].at = "found" => req[q].by \in Token /\ RepoRead(q)
    /\ req[q].at = "viewer" => ViewerRead(q)
    /\ req[q].at = "decide" => RepoRead(q) /\ (TokenRead(q) \/ ViewerRead(q))

\* The inductive invariant behind the two properties.
Stands(q) == Watched(q) /\ KnownCaller(q) /\ ReadsStand(q) /\ Admitted(q) /\ Refused(q)
IInv == TypeOK /\ \A q \in Request : Stands(q)
=============================================================================
