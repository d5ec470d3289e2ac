------------------------------- MODULE Access -------------------------------
(***************************************************************************)
(* Who may do what (internal/auth, and the handlers of internal/api that   *)
(* manage users, sessions and credentials).  A request is a goroutine: its *)
(* credential is resolved to a principal once, on entry, and its handler   *)
(* then reads and writes the database in steps that other requests         *)
(* interleave with.  A login reads the user table before it takes          *)
(* firstUserMu and writes it after.                                        *)
(*                                                                         *)
(* The state, PKCE verifier and nonce of a login are drawn together: one   *)
(* flow number stands for the three.  One provider is enough, the runtimes *)
(* being cached by slug.  Expiry is an event that may happen to any        *)
(* session or token.  Profile, prefs and the last_seen/last_used stamps,   *)
(* which decide nothing, are left out.                                     *)
(***************************************************************************)
EXTENDS Integers, Sequences, FiniteSets

CONSTANTS Threads,      \* requests in flight at a time
          Browsers,     \* each with its cookie jar
          Subjects,     \* people the identity provider knows
          Dev,          \* the subject of STYR_DEV_USER, not one of Subjects
          Starts,       \* the databases to start from: "empty", "atProvider", "signedIn"
          Tables,       \* of credentials: "claude", "codex"
          MaxRequests,  \* bound: requests served
          MaxFaults     \* bound: failed writes, restarts and expiries

Service   == "service"      \* the id the service-wide credentials go under
Nobody    == "nobody"

\* The people are finitely many, and none of them is the dev user.
ASSUME AccessAssumption ==
    /\ Dev \notin Subjects /\ Tables \subseteq {"claude", "codex"}
    /\ IsFiniteSet(Subjects)
    /\ Nobody \notin Subjects \cup {Dev} \cup Threads \cup Browsers
    /\ Starts \subseteq {"empty", "atProvider", "signedIn"}
    /\ {MaxRequests, MaxFaults} \subseteq Nat

Users     == Subjects \cup {Dev}
Roles     == {"admin", "member", "viewer"}
Flows     == 1 .. MaxRequests + 2   \* enough for every request and start
LoginIds  == 1 .. MaxRequests + 2
TokenIds  == 1 .. MaxRequests
NoRow     == [row |-> "none"]
Gone      == [row |-> "gone"]  \* a deleted row, whose id is never used again
Idle      == [pc |-> "idle"]

MeOps     == {"putOwn", "deleteOwn", "createToken", "deleteToken"}
AdminOps  == {"patchUser", "putService"}
AuthOps   == {"logout", "logoutAll"}

VARIABLES
    devUser,   \* whether the dev bypass is configured
    created,   \* the users in order of created_at
    role,      \* user -> role, Nobody for no row
    logins,    \* login_sessions
    tokens,    \* api_tokens
    creds,     \* <<table, user or Service>> -> stored credential
    begun,     \* flow -> browser whose login it is
    answers,   \* flow -> subject the provider authenticated (external)
    spent,     \* flows whose code was exchanged (external)
    jar,       \* browser -> its styr_pkce and styr_session cookies
    runtime,   \* runtimes[slug]: who discovered it
    firstUserMu, \* the thread that holds it
    req,       \* thread -> its request
    served, faults, \* number of requests and faults so far
    conflicted \* history: users whose insert met a row of their own

accessVars == <<devUser, created, role, logins, tokens, creds, begun, answers,
                spent, jar, runtime, firstUserMu, req, served, faults, conflicted>>
tables  == <<created, role, logins, tokens, creds>>
outside == <<begun, answers, spent, jar>>

Row  == [user : Users, live : BOOLEAN]
Cred == [good : BOOLEAN, verified : BOOLEAN]
Holders == Tables \X (Users \cup {Service})
\* What the body or the path of a request for op says.
ArgsOf(op) == CASE op \in {"putOwn", "putService"} -> Tables \X BOOLEAN
                [] op = "deleteOwn"   -> Tables
                [] op = "deleteToken" -> TokenIds
                [] op = "patchUser"   -> Users \X (Roles \cup {"owner"})
                [] op = "callback"    -> Flows
                [] op = "logout"      -> {0} \cup LoginIds
                [] OTHER              -> {<<>>}

\* The type of the state: rows, cookies and what a request carries.
AccessTypeOK ==
    /\ devUser \in BOOLEAN
    /\ created \in Seq(Users) /\ Len(created) <= Cardinality(Users)
    /\ role \in [Users -> Roles \cup {Nobody}]
    /\ \A l \in LoginIds : logins[l] \in {NoRow, Gone} \/ logins[l] \in Row
    /\ \A k \in TokenIds : tokens[k] \in {NoRow, Gone} \/ tokens[k] \in Row
    /\ \A h \in Holders : creds[h] = NoRow \/ creds[h] \in Cred
    /\ begun \in [Flows -> Browsers \cup {Nobody}]
    /\ answers \in [Flows -> Subjects \cup {Nobody}] /\ spent \subseteq Flows
    /\ jar \in [Browsers -> [flow : {0} \cup Flows, session : {0} \cup LoginIds]]
    /\ runtime \in Threads \cup {Nobody}
    /\ firstUserMu \in Threads \cup {Nobody}
    /\ \A t \in Threads : req[t] # Idle =>
          /\ req[t].op \in MeOps \cup AdminOps \cup AuthOps \cup {"begin", "callback"}
          /\ req[t].from \in Browsers \cup TokenIds
          /\ req[t].who \in Users \cup {Nobody}
          /\ req[t].role \in Roles \cup {Nobody}
          /\ req[t].arg \in ArgsOf(req[t].op) /\ req[t].rt \in Threads \cup {Nobody}
    /\ served \in 0 .. MaxRequests /\ faults \in 0 .. MaxFaults
    /\ conflicted \subseteq Users

\* A new server; one where two people wait to be sent back by the provider;
\* or one where they had signed in before it was restarted: the first of them
\* is an admin, the other has been given some role.
AccessInit ==
    /\ devUser \in BOOLEAN
    /\ tokens = [k \in TokenIds |-> NoRow] /\ creds = [h \in Holders |-> NoRow]
    /\ \E start \in Starts, a, b \in Subjects, x, y \in Browsers, r \in Roles :
       LET by(f) == CASE f = 1 -> x [] f = 2 -> y [] OTHER -> Nobody
           is(f) == CASE f = 1 -> a [] f = 2 -> b [] OTHER -> Nobody
           of(w) == CASE w = x -> 1 [] w = y -> 2 [] OTHER -> 0
       IN  /\ a # b /\ x # y
           /\ IF start = "signedIn"
              THEN /\ created = <<a, b>> /\ spent = {1, 2}
                   /\ role = [u \in Users |-> CASE u = a -> "admin" [] u = b -> r
                                                 [] OTHER -> Nobody]
                   /\ logins = [l \in LoginIds |->
                         IF l \in {1, 2} THEN [user |-> is(l), live |-> TRUE] ELSE NoRow]
              ELSE /\ created = <<>> /\ spent = {} /\ role = [u \in Users |-> Nobody]
                   /\ logins = [l \in LoginIds |-> NoRow]
           /\ begun = [f \in Flows |-> IF start = "empty" THEN Nobody ELSE by(f)]
           /\ answers = [f \in Flows |-> IF start = "empty" THEN Nobody ELSE is(f)]
           /\ jar = [w \in Browsers |->
                [flow    |-> IF start = "atProvider" THEN of(w) ELSE 0,
                 session |-> IF start = "signedIn" THEN of(w) ELSE 0]]
    /\ runtime = Nobody /\ firstUserMu = Nobody
    /\ req = [t \in Threads |-> Idle] /\ served = 0 /\ faults = 0 /\ conflicted = {}

-----------------------------------------------------------------------------
(* Steps of a request. *)

At(t, pc)    == req[t].pc = pc
Goes(t, pc)  == req' = [req EXCEPT ![t].pc = pc]
Ends(t)      == req' = [req EXCEPT ![t] = Idle]
Fails        == faults < MaxFaults /\ faults' = faults + 1
Exists(u)    == role[u] # Nobody
Serve(t, r)  == /\ req[t] = Idle /\ served < MaxRequests /\ served' = served + 1
                /\ req' = [req EXCEPT ![t] = r]
\* The least unused number below a bound, as a set with it or none.
Fresh(f, none) == {i \in DOMAIN f : f[i] = none /\ \A j \in DOMAIN f : f[j] = none => i <= j}

\* The answer to a callback takes styr_pkce away, and may bring a session.
Redirects(t, session) ==
    /\ Ends(t)
    /\ jar' = [jar EXCEPT ![req[t].from] =
                 [flow |-> 0, session |-> IF session = 0 THEN @.session ELSE session]]

-----------------------------------------------------------------------------
(* Signing in with the identity provider. *)

Begin(t) ==
    \E b \in Browsers :
        /\ Serve(t, [op |-> "begin", from |-> b, pc |-> "runtime", who |-> Nobody,
                     role |-> Nobody, arg |-> <<>>, rt |-> Nobody])
        /\ UNCHANGED <<devUser, tables, outside, runtime, firstUserMu, faults, conflicted>>

\* A request that got no principal is refused; a callback also drops the
\* styr_pkce cookie, and a logout needs no principal.
GivesUp(t) ==
    IF req[t].op = "callback" THEN Redirects(t, 0)
    ELSE (IF req[t].op = "logout" THEN Goes(t, "handle") ELSE Ends(t)) /\ jar' = jar

AfterRuntime(t) == IF req[t].op = "begin" THEN "redirect" ELSE "exchange"

\* runtimeFor, the cache; discovery goes on without the lock.
runtimeFor(t) ==
    /\ At(t, "runtime")
    /\ req' = [req EXCEPT ![t].pc = IF runtime = Nobody THEN "discover" ELSE AfterRuntime(t),
                          ![t].rt = runtime]
    /\ UNCHANGED <<devUser, tables, outside, runtime, firstUserMu, served, faults, conflicted>>

\* Mutant: the last discovery wins, and replaces what others use.
KeepLast(t) == t

\* The runtime to keep when t has discovered one: the first that landed.
Keep(t) == IF runtime = Nobody THEN t ELSE runtime

\* The discovery answers, or fails and nothing is cached.
Discover(t) ==
    /\ At(t, "discover")
    /\ \/ /\ runtime' = Keep(t)
          /\ req' = [req EXCEPT ![t].pc = AfterRuntime(t), ![t].rt = Keep(t)]
          /\ UNCHANGED <<jar, faults>>
       \/ Fails /\ GivesUp(t) /\ UNCHANGED runtime
    /\ UNCHANGED <<devUser, tables, begun, answers, spent, firstUserMu, served, conflicted>>

\* BeginLogin draws a flow and leaves it in the browser's styr_pkce cookie,
\* in place of the one of an earlier login.
BeginLogin(t) ==
    \E f \in Fresh(begun, Nobody) :
        /\ At(t, "redirect")
        /\ begun' = [begun EXCEPT ![f] = req[t].from]
        /\ jar' = [jar EXCEPT ![req[t].from].flow = f]
        /\ Ends(t)
        /\ UNCHANGED <<devUser, tables, answers, spent, runtime, firstUserMu, served,
                       faults, conflicted>>

\* External: someone signs in at the provider.
Answer ==
    \E f \in Flows, s \in Subjects :
        /\ begun[f] # Nobody /\ answers[f] = Nobody
        /\ answers' = [answers EXCEPT ![f] = s]
        /\ UNCHANGED <<devUser, tables, begun, spent, jar, runtime, firstUserMu, req,
                       served, faults, conflicted>>

\* Mutant: neither state nor verifier nor nonce is compared.
StateMatchesNever(cookie, f) == cookie # 0

\* The callback's state, code and ID token belong to the cookie's flow.
StateMatches(cookie, f) == cookie # 0 /\ cookie = f

\* A browser opens a callback URL.  Without a cookie, or with one of another
\* flow, the login ends here.
CompleteLogin(t) ==
    \E b \in Browsers, f \in Flows :
        /\ answers[f] # Nobody /\ jar[b].flow # 0
        /\ Serve(t, [op |-> "callback", from |-> b, who |-> answers[f], role |-> Nobody,
                     pc |-> IF StateMatches(jar[b].flow, f) THEN "runtime" ELSE "mismatch",
                     arg |-> f, rt |-> Nobody])
        /\ UNCHANGED <<devUser, tables, outside, runtime, firstUserMu, faults, conflicted>>

Mismatch(t) ==
    /\ At(t, "mismatch") /\ Redirects(t, 0)
    /\ UNCHANGED <<devUser, tables, begun, answers, spent, runtime, firstUserMu, served,
                   faults, conflicted>>

\* External: the provider exchanges a code once.
Exchange(t) ==
    /\ At(t, "exchange")
    /\ IF req[t].arg \in spent THEN Redirects(t, 0) /\ UNCHANGED spent
       ELSE spent' = spent \cup {req[t].arg} /\ Goes(t, "lookup") /\ UNCHANGED jar
    /\ UNCHANGED <<devUser, tables, begun, answers, runtime, firstUserMu, served, faults,
                   conflicted>>

-----------------------------------------------------------------------------
(* The user row of whoever signed in. *)

\* upsertUser and devPrincipal look before they take the lock.
Lookup(t) ==
    /\ At(t, "lookup")
    /\ req' = [req EXCEPT ![t].pc = IF Exists(req[t].who) THEN "session" ELSE "lock",
                          ![t].role = role[req[t].who]]
    /\ UNCHANGED <<devUser, tables, outside, runtime, firstUserMu, served, faults, conflicted>>

\* Mutant: the count is taken without the lock.
LockNever(t) == At(t, "lock") /\ firstUserMu' = firstUserMu

Lock(t) == At(t, "lock") /\ firstUserMu = Nobody /\ firstUserMu' = t

\* getOrCreateDevUser looks again under the lock, upsertUser does not.
Enter(t) ==
    /\ Lock(t)
    /\ Goes(t, IF req[t].who = Dev THEN "relook" ELSE "count")
    /\ UNCHANGED <<devUser, tables, outside, runtime, served, faults, conflicted>>

Unlocks(t) == firstUserMu' = IF firstUserMu = t THEN Nobody ELSE firstUserMu

\* Mutant: the dev user is created without a second look.
RelookNever(t) == "create"

Relook(t) == IF Exists(Dev) THEN "session" ELSE "create"

getOrCreateDevUser(t) ==
    /\ At(t, "relook")
    /\ req' = [req EXCEPT ![t].pc = Relook(t),
                          ![t].role = IF Exists(Dev) THEN role[Dev] ELSE "admin"]
    /\ IF Relook(t) = "session" THEN Unlocks(t) ELSE UNCHANGED firstUserMu
    /\ UNCHANGED <<devUser, tables, outside, runtime, served, faults, conflicted>>

\* upsertUser counts: the first user is an admin, the others are members.
Count(t) ==
    /\ At(t, "count")
    /\ req' = [req EXCEPT ![t].pc = "create",
                          ![t].role = IF created = <<>> THEN "admin" ELSE "member"]
    /\ UNCHANGED <<devUser, tables, outside, runtime, firstUserMu, served, faults, conflicted>>

\* Mutant: an insert that fails returns with the lock held.
RefusedHoldsLock(t) == GivesUp(t) /\ UNCHANGED firstUserMu

Refused(t) == GivesUp(t) /\ Unlocks(t)

\* users.Create: (issuer, subject) is unique.
Create(t) ==
    LET u == req[t].who
    IN  /\ At(t, "create")
        /\ \/ /\ ~Exists(u)
              /\ created' = Append(created, u) /\ role' = [role EXCEPT ![u] = req[t].role]
              /\ Goes(t, "session") /\ Unlocks(t) /\ UNCHANGED <<jar, faults, conflicted>>
           \/ /\ Exists(u) /\ Refused(t) /\ conflicted' = conflicted \cup {u}
              /\ UNCHANGED <<created, role, faults>>
           \/ Fails /\ Refused(t) /\ UNCHANGED <<created, role, conflicted>>
        /\ UNCHANGED <<devUser, logins, tokens, creds, begun, answers, spent, runtime, served>>

Handler(op) == IF op \in {"putOwn", "putService"} THEN "verify" ELSE "handle"

\* csrfGuard, RequireUser, writerGuard and RequireAdmin, which see the role
\* that was read when the request was authenticated.
Admitted(op, r, tokenAuth, header) ==
    /\ header \/ tokenAuth
    /\ op \in MeOps \cup AuthOps \/ r # "viewer"
    /\ op \in AdminOps => r = "admin"

\* createSession.  A callback is answered with the cookie; a request that the
\* dev bypass let in goes on to its handler.
createSession(t) ==
    LET u == req[t].who
    IN  /\ At(t, "session")
        /\ \/ \E l \in Fresh(logins, NoRow) :
              /\ logins' = [logins EXCEPT ![l] = [user |-> u, live |-> TRUE]]
              /\ IF req[t].op = "callback" THEN Redirects(t, l)
                 ELSE /\ jar' = [jar EXCEPT ![req[t].from].session = l]
                      /\ IF Admitted(req[t].op, req[t].role, FALSE, TRUE)
                         THEN Goes(t, Handler(req[t].op)) ELSE Ends(t)
              /\ UNCHANGED faults
           \/ Fails /\ GivesUp(t) /\ UNCHANGED logins
        /\ UNCHANGED <<devUser, created, role, tokens, creds, begun, answers, spent, runtime,
                       firstUserMu, served, conflicted>>

-----------------------------------------------------------------------------
(* Requests of those who are signed in. *)

\* principalFromCookie, else principalFromBearer: the user of a live row.
PrincipalOf(from) ==
    LET row == IF from \in TokenIds THEN tokens[from]
               ELSE IF jar[from].session = 0 THEN NoRow ELSE logins[jar[from].session]
    IN  IF row \in {NoRow, Gone} THEN Nobody ELSE IF row.live THEN row.user ELSE Nobody

\* Authenticate and the guards.  Who has neither cookie nor token passes for
\* the dev user where that is configured, and may only log out elsewhere.
Authenticate(t) ==
    \E op \in MeOps \cup AdminOps \cup AuthOps, from \in Browsers \cup TokenIds,
       header \in BOOLEAN :
    \E arg \in CASE op = "logout" -> {IF from \in Browsers THEN jar[from].session ELSE 0}
                 [] op = "deleteToken" -> {k \in TokenIds : tokens[k] # NoRow}
                 [] op = "patchUser" -> {u \in Users : Exists(u)} \X (Roles \cup {"owner"})
                 [] OTHER -> ArgsOf(op) :
        LET u == PrincipalOf(from)
            asks(pc, who, r) == [op |-> op, from |-> from, pc |-> pc, who |-> who,
                                 role |-> r, arg |-> arg, rt |-> Nobody]
        IN  /\ \/ /\ u # Nobody /\ Admitted(op, role[u], from \in TokenIds, header)
                  /\ Serve(t, asks(Handler(op), u, role[u]))
               \/ /\ u = Nobody /\ devUser /\ from \in Browsers /\ header
                  /\ Serve(t, asks("lookup", Dev, Nobody))
               \/ /\ u = Nobody /\ ~devUser /\ op = "logout" /\ header /\ arg # 0
                  /\ Serve(t, asks("handle", Nobody, Nobody))
            /\ UNCHANGED <<devUser, tables, outside, runtime, firstUserMu, faults, conflicted>>

Forget(from)   == jar' = [b \in Browsers |-> IF from = b THEN [jar[b] EXCEPT !.session = 0] ELSE jar[b]]
Handling(t, op) == At(t, "handle") /\ req[t].op = op
Beside == <<devUser, begun, answers, spent, runtime, firstUserMu, served, conflicted>>

\* Logout goes by the cookie, LogoutAll by the principal.
Logout(t) ==
    /\ Handling(t, "logout")
    /\ logins' = [l \in LoginIds |-> IF l = req[t].arg THEN Gone ELSE logins[l]]
    /\ Forget(req[t].from) /\ Ends(t)
    /\ UNCHANGED <<Beside, created, role, tokens, creds, faults>>

LogoutAll(t) ==
    /\ Handling(t, "logoutAll")
    /\ logins' = [l \in LoginIds |-> IF logins[l] \in {NoRow, Gone} THEN logins[l]
                     ELSE IF logins[l].user = req[t].who THEN Gone ELSE logins[l]]
    /\ Forget(req[t].from) /\ Ends(t)
    /\ UNCHANGED <<Beside, created, role, tokens, creds, faults>>

handleAPITokensCreate(t) ==
    \E k \in Fresh(tokens, NoRow) :
        /\ Handling(t, "createToken")
        /\ tokens' = [tokens EXCEPT ![k] = [user |-> req[t].who, live |-> TRUE]]
        /\ Ends(t)
        /\ UNCHANGED <<Beside, created, role, logins, creds, jar, faults>>

\* Only a token of the caller's own is deleted.
handleAPITokensDelete(t) ==
    LET k == req[t].arg
    IN  /\ Handling(t, "deleteToken")
        /\ tokens' = IF tokens[k] \in {NoRow, Gone} THEN tokens
                     ELSE IF tokens[k].user = req[t].who THEN [tokens EXCEPT ![k] = Gone] ELSE tokens
        /\ Ends(t)
        /\ UNCHANGED <<Beside, created, role, logins, creds, jar, faults>>

\* Mutant: the first user may be demoted like any other.
MayChangeAnyone(actor, target, r) == r \in Roles /\ (actor = target => r = "admin")

\* Mutant: the role is not checked against the three there are.
MayChangeUnchecked(actor, target, r) ==
    r # "admin" => actor # target /\ (created = <<>> \/ target # created[1])

\* handleUsersPatch: nobody steps down, and the first user stays an admin.
MayChange(actor, target, r) ==
    /\ r \in Roles
    /\ r # "admin" => actor # target /\ (created = <<>> \/ target # created[1])

handleUsersPatch(t) ==
    /\ Handling(t, "patchUser")
    /\ IF MayChange(req[t].who, req[t].arg[1], req[t].arg[2]) THEN Goes(t, "update") ELSE Ends(t)
    /\ UNCHANGED <<Beside, tables, jar, faults>>

UpdateRole(t) ==
    LET u == req[t].arg[1]
    IN  /\ At(t, "update") /\ Ends(t)
        /\ role' = IF Exists(u) THEN [role EXCEPT ![u] = req[t].arg[2]] ELSE role
        /\ UNCHANGED <<Beside, created, logins, tokens, creds, jar, faults>>

-----------------------------------------------------------------------------
(* Credentials of the agents. *)

Holder(t) == <<req[t].arg[1], IF req[t].op = "putService" THEN Service ELSE req[t].who>>

\* Mutant: what the verifier refuses is stored as well.
AcceptsAll(good) == TRUE

\* External: the CLI is run with the credential.
Accepts(good) == good

Verify(t) ==
    /\ At(t, "verify")
    /\ IF Accepts(req[t].arg[2]) THEN Goes(t, "set") ELSE Ends(t)
    /\ UNCHANGED <<Beside, tables, jar, faults>>

\* Tokens.Set and CodexCreds.Set replace the row; a user's Claude token is
\* marked as verified by a write of its own.
Set(t) ==
    /\ At(t, "set")
    /\ \/ /\ creds' = [creds EXCEPT ![Holder(t)] = [good |-> req[t].arg[2], verified |-> FALSE]]
          /\ IF req[t].op = "putOwn" /\ req[t].arg[1] = "claude" THEN Goes(t, "mark") ELSE Ends(t)
          /\ UNCHANGED faults
       \/ Fails /\ Ends(t) /\ UNCHANGED creds
    /\ UNCHANGED <<Beside, created, role, logins, tokens, jar>>

\* Tokens.MarkVerified: whatever row the user has by now, if there is one.
Mark(h) == IF creds[h] = NoRow THEN NoRow ELSE [creds[h] EXCEPT !.verified = TRUE]

MarkVerified(t) ==
    /\ At(t, "mark") /\ Ends(t)
    /\ \/ creds' = [creds EXCEPT ![Holder(t)] = Mark(Holder(t))] /\ UNCHANGED faults
       \/ Fails /\ UNCHANGED creds
    /\ UNCHANGED <<Beside, created, role, logins, tokens, jar>>

handleMeTokenDelete(t) ==
    /\ Handling(t, "deleteOwn") /\ Ends(t)
    /\ creds' = [creds EXCEPT ![<<req[t].arg, req[t].who>>] = NoRow]
    /\ UNCHANGED <<Beside, created, role, logins, tokens, jar, faults>>

-----------------------------------------------------------------------------

\* Time passes expires_at of a session or of a token.
Expire ==
    /\ Fails
    /\ \/ \E l \in LoginIds : /\ logins[l] \notin {NoRow, Gone} /\ logins[l].live
                               /\ logins' = [logins EXCEPT ![l].live = FALSE]
                               /\ UNCHANGED tokens
       \/ \E k \in TokenIds : /\ tokens[k] \notin {NoRow, Gone} /\ tokens[k].live
                               /\ tokens' = [tokens EXCEPT ![k].live = FALSE]
                               /\ UNCHANGED logins
    /\ UNCHANGED <<Beside, created, role, creds, jar, req>>

\* The server stops and starts: cookies and tables stay.
Restart ==
    /\ Fails
    /\ req' = [t \in Threads |-> Idle] /\ runtime' = Nobody /\ firstUserMu' = Nobody
    /\ UNCHANGED <<devUser, tables, outside, served, conflicted>>

Step(t) ==
    \/ runtimeFor(t) \/ Discover(t) \/ BeginLogin(t) \/ Mismatch(t) \/ Exchange(t)
    \/ Lookup(t) \/ Enter(t) \/ getOrCreateDevUser(t) \/ Count(t) \/ Create(t)
    \/ createSession(t) \/ Logout(t) \/ LogoutAll(t) \/ handleAPITokensCreate(t)
    \/ handleAPITokensDelete(t) \/ handleUsersPatch(t) \/ UpdateRole(t)
    \/ Verify(t) \/ Set(t) \/ MarkVerified(t) \/ handleMeTokenDelete(t)

AccessNext ==
    \/ \E t \in Threads : Begin(t) \/ CompleteLogin(t) \/ Authenticate(t) \/ Step(t)
    \/ Answer \/ Expire \/ Restart

AccessSpec == AccessInit /\ [][AccessNext]_accessVars

-----------------------------------------------------------------------------
(* What must hold. *)

\* There is an admin as soon as there is a user, whatever roles two admins
\* give each other at the same time (handleUsersPatch decides and writes in
\* two steps).
AdminRemains == created # <<>> => \E u \in Users : role[u] = "admin"

\* A login makes an admin of nobody but the first user, however many first
\* logins overlap (upsertUser); only the dev user is one by birth.
OneBootstrapAdmin ==
    [][\A u \in Subjects : ~Exists(u) /\ role'[u] = "admin" => created = <<>>]_accessVars

\* Requests that bootstrap the dev user at the same time never run into the
\* unique constraint (getOrCreateDevUser).
DevNeverConflicts == Dev \notin conflicted

\* Every login uses the cached runtime of its provider (runtimeFor).
OneRuntime ==
    \A t \in Threads : req[t] # Idle => req[t].rt \in {Nobody, runtime}

\* A browser is signed in only as someone who answered a login that this
\* browser began (BeginLogin, CompleteLogin), or as the dev user.
SessionBelongs ==
    \A b \in Browsers : jar[b].session # 0 =>
        LET row == logins[jar[b].session]
        IN  row \notin {NoRow, Gone} =>
              \/ \E f \in Flows : begun[f] = b /\ answers[f] = row.user
              \/ devUser /\ row.user = Dev

\* No credential is stored that the verifier did not accept, and a user's
\* Claude token lacks its mark only while a request is about to set it, or
\* after a fault (handleMeTokenPut).
StoredIsVerified ==
    \A h \in Holders : creds[h] # NoRow =>
        /\ creds[h].good
        /\ h[1] = "claude" /\ h[2] # Service /\ ~creds[h].verified =>
             faults > 0 \/ \E t \in Threads : At(t, "mark") /\ Holder(t) = h

\* firstUserMu is held by a request that is inside the section it guards, so
\* that no login waits for one that has already been answered.
LockInside ==
    firstUserMu # Nobody => req[firstUserMu].pc \in {"relook", "count", "create"}

\* What requests that overlap may not break: there is an admin, everybody uses
\* one runtime, a credential is a verified one, the dev user is created once,
\* and the lock is free when nobody is inside (upsertUser, runtimeFor,
\* handleUsersPatch, handleMeTokenPut, getOrCreateDevUser).
AccessOK ==
    AccessTypeOK /\ AdminRemains /\ OneRuntime /\ StoredIsVerified /\ DevNeverConflicts /\ LockInside
=============================================================================
