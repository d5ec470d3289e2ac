---------------------------- MODULE AccessProofs ----------------------------
(***************************************************************************)
(* Proofs about Access, for any number of requests, browsers and people:   *)
(* there is an admin, only the first login makes one, a browser is signed  *)
(* in as someone who answered a login it began, everybody uses one runtime *)
(* and a stored credential is a verified one.                              *)
(*                                                                         *)
(* Why it holds.  What a request may be is a matter of the request alone   *)
(* (Legal).  The rest relates requests to the tables: a request is in the  *)
(* section that counts users if and only if it holds firstUserMu (Locked), *)
(* so that what it has counted stays true until it creates the row         *)
(* (Creating); the first user is an admin, and a change of roles that has  *)
(* been decided on is not about that user (FirstIsAdmin, Patching); and a  *)
(* login goes by a flow that its browser began and somebody answered       *)
(* (Began), neither of which is ever taken back.                           *)
(***************************************************************************)
EXTENDS Access, TLAPS, FiniteSetTheorems

Ops       == MeOps \cup AdminOps \cup AuthOps \cup {"begin", "callback"}
Section   == {"relook", "count", "create"}
SigningIn == Section \cup {"lookup", "lock", "session"}
PCs       == SigningIn \cup {"runtime", "discover", "redirect", "exchange", "mismatch",
                             "verify", "handle", "update", "set", "mark"}
Args      == (Tables \X BOOLEAN) \cup Tables \cup TokenIds \cup Flows \cup {0} \cup LoginIds
             \cup (Users \X (Roles \cup {"owner"})) \cup {<<>>}
Request   == [op : Ops, from : Browsers \cup TokenIds, pc : PCs, who : Users \cup {Nobody},
              role : Roles \cup {Nobody}, arg : Args, rt : Threads \cup {Nobody}]

\* What a request can be, whatever the tables say.
Legal ==
    {r \in Request :
        /\ r.arg \in ArgsOf(r.op)
        /\ r.op \in {"begin", "callback"} => r.from \in Browsers
        /\ r.op = "begin" => r.pc \in {"runtime", "discover", "redirect"}
        /\ r.op = "callback" => r.who \in Subjects /\
              r.pc \in (SigningIn \ {"relook"}) \cup {"runtime", "discover", "exchange", "mismatch"}
        /\ r.op \notin {"begin", "callback"} =>
              /\ r.pc \in (SigningIn \ {"count"}) \cup {"verify", "handle", "update", "set", "mark"}
              /\ r.pc \in SigningIn => r.who = Dev /\ r.from \in Browsers
        /\ r.who = Nobody => r.op = "begin" \/ (r.op = "logout" /\ r.pc = "handle")
        /\ r.pc \in {"verify", "set"} => r.op \in {"putOwn", "putService"}
        /\ r.pc = "set" => r.arg[2] = TRUE
        /\ r.pc = "mark" => r.op = "putOwn" /\ r.arg[1] = "claude"
        /\ r.pc = "update" => r.op = "patchUser" /\ r.arg[2] \in Roles
        /\ r.pc = "create" => r.role \in {"admin", "member"}}

Requests == req \in [Threads -> {Idle} \cup Legal]

\* The types of the tables, of what lies outside the server, and of what it
\* keeps in memory.
TablesTyped ==
    /\ created \in Seq(Users) /\ role \in [Users -> Roles \cup {Nobody}]
    /\ logins \in [LoginIds -> {NoRow, Gone} \cup Row]
    /\ tokens \in [TokenIds -> {NoRow, Gone} \cup Row]
    /\ creds \in [Holders -> {NoRow} \cup Cred]
Jars == [Browsers -> [flow : {0} \cup Flows, session : {0} \cup LoginIds]]
OutsideTyped ==
    /\ devUser \in BOOLEAN
    /\ begun \in [Flows -> Browsers \cup {Nobody}]
    /\ answers \in [Flows -> Subjects \cup {Nobody}] /\ spent \subseteq Flows
    /\ jar \in Jars
ServerTyped ==
    /\ runtime \in Threads \cup {Nobody} /\ firstUserMu \in Threads \cup {Nobody}
    /\ served \in 0 .. MaxRequests /\ faults \in 0 .. MaxFaults /\ conflicted \subseteq Users

\* A request is inside the section if and only if it holds the lock.
Locked == \A t \in Threads : req[t].pc \in Section <=> firstUserMu = t

\* The first user is an admin, and everyone who has a row was counted once.
Present == {u \in Users : role[u] # Nobody}
FirstIsAdmin ==
    /\ created # <<>> => created[1] \in Users /\ role[created[1]] = "admin"
    /\ Present # {} => created # <<>>
    /\ Len(created) = Cardinality(Present)

\* What a request that is about to create a user has found out still holds.
Creating ==
    \A t \in Threads : req[t].pc = "create" =>
        /\ req[t].who = Dev => Dev \notin Present
        /\ created = <<>> => req[t].role = "admin"
        /\ req[t].role = "admin" /\ req[t].who # Dev => created = <<>>

\* A change of roles that was decided on does not make the first user less.
Patching ==
    \A t \in Threads :
        /\ req[t] # Idle /\ req[t].op = "patchUser" => created # <<>>
        /\ req[t].pc = "update" /\ req[t].arg[2] # "admin" => req[t].arg[1] # created[1]

\* A cookie is of a flow that the browser began, and of a session there was.
Cookies ==
    \A b \in Browsers :
        /\ jar[b].flow # 0 => begun[jar[b].flow] = b
        /\ jar[b].session # 0 => logins[jar[b].session] # NoRow

\* A callback that matched is for a login that its browser began and someone
\* answered; whoever else signs in does so as the dev user.
Began ==
    \A t \in Threads : req[t].pc \in PCs \ {"mismatch"} =>
        /\ req[t].op = "callback" =>
              begun[req[t].arg] = req[t].from /\ answers[req[t].arg] = req[t].who
        /\ req[t].op # "callback" /\ req[t].pc \in SigningIn => devUser

Inv ==
    /\ Requests /\ TablesTyped /\ OutsideTyped /\ ServerTyped /\ Locked /\ FirstIsAdmin
    /\ Creating /\ Patching /\ Cookies /\ Began
    /\ OneRuntime /\ StoredIsVerified /\ DevNeverConflicts /\ SessionBelongs

\* What a step never takes back: who began and who answered a login, and that
\* there was a session, and whose.
Grows ==
    /\ devUser' = devUser
    /\ \A f \in Flows : begun[f] # Nobody => begun'[f] = begun[f]
    /\ \A f \in Flows : answers[f] # Nobody => answers'[f] = answers[f]
    /\ \A l \in LoginIds : logins[l] # NoRow =>
          \/ logins'[l] = Gone
          \/ logins[l] \in Row /\ logins'[l] \in Row /\ logins'[l].user = logins[l].user

\* A browser gets no other cookie than it had.
Keeps ==
    \A b \in Browsers :
        jar'[b].flow \in {0, jar[b].flow} /\ jar'[b].session \in {0, jar[b].session}

-----------------------------------------------------------------------------
(* Requests. *)

\* A request is either idle or has a place in the code.
LEMMA LegalIs ==
    /\ \A r \in Legal : r \in Request /\ r # Idle /\ r.pc \in PCs
    /\ Idle.pc = "idle" /\ Idle.pc \notin PCs
    /\ Dev \in Users /\ Subjects \subseteq Users /\ Dev \notin Subjects
    /\ Nobody \notin Users /\ Nobody \notin Threads /\ Nobody \notin Browsers
<1>1. \A r \in Legal : r \in Request /\ r.pc \in PCs
  BY DEF Legal, Request
<1>2. Idle.pc = "idle" /\ "idle" \notin PCs
  BY DEF Idle, PCs, SigningIn, Section
<1>3. QED
  BY <1>1, <1>2, AccessAssumption DEF Users

\* The request of a thread that is somewhere in the code.
LEMMA Busy ==
    ASSUME Requests, NEW t \in Threads, req[t].pc \in PCs
    PROVE  req[t] \in Legal
BY LegalIs DEF Requests

\* One request becomes another that is legal.
LEMMA Becomes ==
    ASSUME Requests, NEW t \in Threads, NEW r \in {Idle} \cup Legal, req' = [req EXCEPT ![t] = r]
    PROVE  Requests'
BY DEF Requests

\* A cookie or a bearer token stands for the user of its row.
LEMMA PrincipalIsUser ==
    ASSUME TablesTyped, OutsideTyped, NEW from \in Browsers \cup TokenIds,
           PrincipalOf(from) # Nobody
    PROVE  PrincipalOf(from) \in Users /\ role[PrincipalOf(from)] \in Roles \cup {Nobody}
<1>1. \A l \in LoginIds : logins[l] \notin {NoRow, Gone} => logins[l].user \in Users
  BY DEF TablesTyped, Row
<1>2. \A k \in TokenIds : tokens[k] \notin {NoRow, Gone} => tokens[k].user \in Users
  BY DEF TablesTyped, Row
<1>3. \A b \in Browsers : jar[b].session \in {0} \cup LoginIds
  BY DEF OutsideTyped, Jars
<1>4. PrincipalOf(from) \in Users
  BY <1>1, <1>2, <1>3 DEF PrincipalOf
<1>5. QED
  BY <1>4 DEF TablesTyped


\* A request that comes in, and what it asks for.
LEMMA ArgsAre == \A op \in Ops : ArgsOf(op) \subseteq Args
BY DEF Ops, MeOps, AdminOps, AuthOps, ArgsOf, Args

\* What is asked for is what op may ask for.
LEMMA Served ==
    ASSUME OutsideTyped, NEW op \in MeOps \cup AdminOps \cup AuthOps,
           NEW from \in Browsers \cup TokenIds,
           NEW arg \in CASE op = "logout" -> {IF from \in Browsers THEN jar[from].session ELSE 0}
                         [] op = "deleteToken" -> {k \in TokenIds : tokens[k] # NoRow}
                         [] op = "patchUser" -> {u \in Users : Exists(u)} \X (Roles \cup {"owner"})
                         [] OTHER -> ArgsOf(op)
    PROVE  op \in Ops /\ arg \in ArgsOf(op) /\ arg \in Args
<1>1. \A b \in Browsers : jar[b].session \in {0} \cup LoginIds
  BY DEF OutsideTyped, Jars
<1>2. arg \in ArgsOf(op)
  <2>1. CASE op = "logout"
    BY <2>1, <1>1 DEF ArgsOf
  <2>2. CASE op = "deleteToken"
    BY <2>2 DEF ArgsOf
  <2>3. CASE op = "patchUser"
    BY <2>3 DEF ArgsOf
  <2>4. QED
    BY <2>1, <2>2, <2>3
<1>3. QED
  BY <1>2, ArgsAre DEF Ops

\* What the ways to change a request do to it, and to no other.
LEMMA Moves ==
    ASSUME Requests, NEW t \in Threads
    PROVE  /\ Ends(t) => req'[t] = Idle /\ \A s \in Threads \ {t} : req'[s] = req[s]
           /\ \A r : Serve(t, r) =>
                 req[t] = Idle /\ req'[t] = r /\ \A s \in Threads \ {t} : req'[s] = req[s]
           /\ \A p : Goes(t, p) /\ req[t].pc \in PCs =>
                 /\ req'[t].pc = p /\ req'[t].op = req[t].op /\ req'[t].from = req[t].from
                 /\ req'[t].who = req[t].who /\ req'[t].arg = req[t].arg
                 /\ req'[t].role = req[t].role /\ req'[t].rt = req[t].rt
                 /\ \A s \in Threads \ {t} : req'[s] = req[s]
<1>1. Ends(t) => req'[t] = Idle /\ \A s \in Threads \ {t} : req'[s] = req[s]
  BY DEF Requests, Ends
<1>2. ASSUME NEW r, Serve(t, r)
      PROVE  req[t] = Idle /\ req'[t] = r /\ \A s \in Threads \ {t} : req'[s] = req[s]
  BY <1>2 DEF Requests, Serve
<1>3. ASSUME NEW p, Goes(t, p), req[t].pc \in PCs
      PROVE  /\ req'[t].pc = p /\ req'[t].op = req[t].op /\ req'[t].from = req[t].from
             /\ req'[t].who = req[t].who /\ req'[t].arg = req[t].arg
             /\ req'[t].role = req[t].role /\ req'[t].rt = req[t].rt
             /\ \A s \in Threads \ {t} : req'[s] = req[s]
  <2>1. req[t] \in Request
    BY <1>3, Busy, LegalIs
  <2>2. req'[t] = [req[t] EXCEPT !.pc = p] /\ \A s \in Threads \ {t} : req'[s] = req[s]
    BY <1>3 DEF Requests, Goes
  <2>3. QED
    BY <2>1, <2>2 DEF Request
<1>4. QED
  BY <1>1, <1>2, <1>3

\* A step that also notes a role or a runtime.
Noted(t, p, q, x) == req' = [req EXCEPT ![t] = [req[t] EXCEPT !.pc = p, !.role = q, !.rt = x]]

\* The same of such a step.
LEMMA Notes ==
    ASSUME Requests, NEW t \in Threads, req[t].pc \in PCs, NEW p, NEW q, NEW x,
           Noted(t, p, q, x)
    PROVE  /\ req'[t].pc = p /\ req'[t].op = req[t].op /\ req'[t].from = req[t].from
           /\ req'[t].who = req[t].who /\ req'[t].arg = req[t].arg
           /\ req'[t].role = q /\ req'[t].rt = x
           /\ \A s \in Threads \ {t} : req'[s] = req[s]
<1> DEFINE m == [req[t] EXCEPT !.pc = p, !.role = q, !.rt = x]
<1>1. req'[t] = m /\ \A s \in Threads \ {t} : req'[s] = req[s]
  BY DEF Requests, Noted
<1>2. /\ m.pc = p /\ m.op = req[t].op /\ m.from = req[t].from /\ m.who = req[t].who
      /\ m.arg = req[t].arg /\ m.role = q /\ m.rt = x
  BY Busy, LegalIs DEF Request
<1> HIDE DEF m
<1>3. QED
  BY <1>1, <1>2

\* What the five such steps come to.
LEMMA Learns ==
    ASSUME Requests, NEW t \in Threads
    PROVE  /\ runtimeFor(t) =>
                 /\ req[t].pc = "runtime" /\ req'[t].rt = runtime /\ req'[t].role = req[t].role
                 /\ req'[t].pc = IF runtime = Nobody THEN "discover" ELSE AfterRuntime(t)
                 /\ req'[t].op = req[t].op /\ req'[t].from = req[t].from
                 /\ req'[t].who = req[t].who /\ req'[t].arg = req[t].arg
                 /\ \A s \in Threads \ {t} : req'[s] = req[s]
           /\ Discover(t) =>
                 \/ req[t].pc = "discover" /\ GivesUp(t) /\ runtime' = runtime
                 \/ /\ req[t].pc = "discover" /\ runtime' = Keep(t) /\ req'[t].rt = Keep(t)
                    /\ req'[t].role = req[t].role /\ req'[t].pc = AfterRuntime(t) /\ jar' = jar
                    /\ req'[t].op = req[t].op /\ req'[t].from = req[t].from
                    /\ req'[t].who = req[t].who /\ req'[t].arg = req[t].arg
                    /\ \A s \in Threads \ {t} : req'[s] = req[s]
           /\ Lookup(t) =>
                 /\ req[t].pc = "lookup" /\ req'[t].role = role[req[t].who]
                 /\ req'[t].rt = req[t].rt
                 /\ req'[t].pc = IF Exists(req[t].who) THEN "session" ELSE "lock"
                 /\ req'[t].op = req[t].op /\ req'[t].from = req[t].from
                 /\ req'[t].who = req[t].who /\ req'[t].arg = req[t].arg
                 /\ \A s \in Threads \ {t} : req'[s] = req[s]
           /\ getOrCreateDevUser(t) =>
                 /\ req[t].pc = "relook" /\ req'[t].rt = req[t].rt /\ req'[t].pc = Relook(t)
                 /\ req'[t].role = IF Exists(Dev) THEN role[Dev] ELSE "admin"
                 /\ req'[t].op = req[t].op /\ req'[t].from = req[t].from
                 /\ req'[t].who = req[t].who /\ req'[t].arg = req[t].arg
                 /\ \A s \in Threads \ {t} : req'[s] = req[s]
           /\ Count(t) =>
                 /\ req[t].pc = "count" /\ req'[t].pc = "create" /\ req'[t].rt = req[t].rt
                 /\ req'[t].role = IF created = <<>> THEN "admin" ELSE "member"
                 /\ req'[t].op = req[t].op /\ req'[t].from = req[t].from
                 /\ req'[t].who = req[t].who /\ req'[t].arg = req[t].arg
                 /\ \A s \in Threads \ {t} : req'[s] = req[s]
<1>1. ASSUME runtimeFor(t)
      PROVE  /\ req[t].pc = "runtime" /\ req'[t].rt = runtime /\ req'[t].role = req[t].role
             /\ req'[t].pc = IF runtime = Nobody THEN "discover" ELSE AfterRuntime(t)
             /\ req'[t].op = req[t].op /\ req'[t].from = req[t].from
             /\ req'[t].who = req[t].who /\ req'[t].arg = req[t].arg
             /\ \A s \in Threads \ {t} : req'[s] = req[s]
  <2> DEFINE p == IF runtime = Nobody THEN "discover" ELSE AfterRuntime(t)
             x == runtime
  <2>1. req[t].pc = "runtime" /\ req' = [req EXCEPT ![t].pc = p, ![t].rt = x]
    BY <1>1 DEF runtimeFor, At
  <2>2. req[t].pc \in PCs
    BY <2>1 DEF PCs, SigningIn, Section
  <2> HIDE DEF p, x
  <2>3. Noted(t, p, req[t].role, x)
    BY <2>1, <2>2, Busy, LegalIs DEF Noted, Requests, Request
  <2>4. /\ req'[t].pc = p /\ req'[t].rt = x /\ req'[t].role = req[t].role
        /\ req'[t].op = req[t].op /\ req'[t].from = req[t].from
        /\ req'[t].who = req[t].who /\ req'[t].arg = req[t].arg
        /\ \A s \in Threads \ {t} : req'[s] = req[s]
    BY <2>2, <2>3, Notes
  <2>5. QED
    BY <2>1, <2>4 DEF p, x
<1>2. ASSUME Discover(t)
      PROVE  \/ req[t].pc = "discover" /\ GivesUp(t) /\ runtime' = runtime
             \/ /\ req[t].pc = "discover" /\ runtime' = Keep(t) /\ req'[t].rt = Keep(t)
                /\ req'[t].role = req[t].role /\ req'[t].pc = AfterRuntime(t) /\ jar' = jar
                /\ req'[t].op = req[t].op /\ req'[t].from = req[t].from
                /\ req'[t].who = req[t].who /\ req'[t].arg = req[t].arg
                /\ \A s \in Threads \ {t} : req'[s] = req[s]
  <2> DEFINE p == AfterRuntime(t)
             x == Keep(t)
  <2>1. /\ req[t].pc = "discover"
        /\ \/ GivesUp(t) /\ runtime' = runtime
           \/ runtime' = Keep(t) /\ jar' = jar /\ req' = [req EXCEPT ![t].pc = p, ![t].rt = x]
    BY <1>2 DEF Discover, At
  <2>2. req[t].pc \in PCs
    BY <2>1 DEF PCs
  <2> HIDE DEF p, x
  <2>3. req' = [req EXCEPT ![t].pc = p, ![t].rt = x] => Noted(t, p, req[t].role, x)
    BY <2>2, Busy, LegalIs DEF Noted, Requests, Request
  <2>4. QED
    BY <1>2, <2>1, <2>2, <2>3, Notes DEF p, x
<1>3. ASSUME Lookup(t)
      PROVE  /\ req[t].pc = "lookup" /\ req'[t].role = role[req[t].who]
             /\ req'[t].rt = req[t].rt
             /\ req'[t].pc = IF Exists(req[t].who) THEN "session" ELSE "lock"
             /\ req'[t].op = req[t].op /\ req'[t].from = req[t].from
             /\ req'[t].who = req[t].who /\ req'[t].arg = req[t].arg
             /\ \A s \in Threads \ {t} : req'[s] = req[s]
  <2> DEFINE p == IF Exists(req[t].who) THEN "session" ELSE "lock"
             q == role[req[t].who]
  <2>1. req[t].pc = "lookup" /\ req' = [req EXCEPT ![t].pc = p, ![t].role = q]
    BY <1>3 DEF Lookup, At
  <2>2. req[t].pc \in PCs
    BY <2>1 DEF PCs, SigningIn, Section
  <2> HIDE DEF p, q
  <2>3. Noted(t, p, q, req[t].rt)
    BY <2>1, <2>2, Busy, LegalIs DEF Noted, Requests, Request
  <2>4. /\ req'[t].pc = p /\ req'[t].role = q /\ req'[t].rt = req[t].rt
        /\ req'[t].op = req[t].op /\ req'[t].from = req[t].from
        /\ req'[t].who = req[t].who /\ req'[t].arg = req[t].arg
        /\ \A s \in Threads \ {t} : req'[s] = req[s]
    BY <2>2, <2>3, Notes
  <2>5. QED
    BY <2>1, <2>4 DEF p, q
<1>4. ASSUME getOrCreateDevUser(t)
      PROVE  /\ req[t].pc = "relook" /\ req'[t].rt = req[t].rt /\ req'[t].pc = Relook(t)
             /\ req'[t].role = IF Exists(Dev) THEN role[Dev] ELSE "admin"
             /\ req'[t].op = req[t].op /\ req'[t].from = req[t].from
             /\ req'[t].who = req[t].who /\ req'[t].arg = req[t].arg
             /\ \A s \in Threads \ {t} : req'[s] = req[s]
  <2> DEFINE p == Relook(t)
             q == IF Exists(Dev) THEN role[Dev] ELSE "admin"
  <2>1. req[t].pc = "relook" /\ req' = [req EXCEPT ![t].pc = p, ![t].role = q]
    BY <1>4 DEF getOrCreateDevUser, At
  <2>2. req[t].pc \in PCs
    BY <2>1 DEF PCs, SigningIn, Section
  <2> HIDE DEF p, q
  <2>3. Noted(t, p, q, req[t].rt)
    BY <2>1, <2>2, Busy, LegalIs DEF Noted, Requests, Request
  <2>4. /\ req'[t].pc = p /\ req'[t].role = q /\ req'[t].rt = req[t].rt
        /\ req'[t].op = req[t].op /\ req'[t].from = req[t].from
        /\ req'[t].who = req[t].who /\ req'[t].arg = req[t].arg
        /\ \A s \in Threads \ {t} : req'[s] = req[s]
    BY <2>2, <2>3, Notes
  <2>5. QED
    BY <2>1, <2>4 DEF p, q
<1>5. ASSUME Count(t)
      PROVE  /\ req[t].pc = "count" /\ req'[t].pc = "create" /\ req'[t].rt = req[t].rt
             /\ req'[t].role = IF created = <<>> THEN "admin" ELSE "member"
             /\ req'[t].op = req[t].op /\ req'[t].from = req[t].from
             /\ req'[t].who = req[t].who /\ req'[t].arg = req[t].arg
             /\ \A s \in Threads \ {t} : req'[s] = req[s]
  <2> DEFINE p == "create"
             q == IF created = <<>> THEN "admin" ELSE "member"
  <2>1. req[t].pc = "count" /\ req' = [req EXCEPT ![t].pc = p, ![t].role = q]
    BY <1>5 DEF Count, At
  <2>2. req[t].pc \in PCs
    BY <2>1 DEF PCs, SigningIn, Section
  <2> HIDE DEF p, q
  <2>3. Noted(t, p, q, req[t].rt)
    BY <2>1, <2>2, Busy, LegalIs DEF Noted, Requests, Request
  <2>4. /\ req'[t].pc = p /\ req'[t].role = q /\ req'[t].rt = req[t].rt
        /\ req'[t].op = req[t].op /\ req'[t].from = req[t].from
        /\ req'[t].who = req[t].who /\ req'[t].arg = req[t].arg
        /\ \A s \in Threads \ {t} : req'[s] = req[s]
    BY <2>2, <2>3, Notes
  <2>5. QED
    BY <2>1, <2>4 DEF p, q
<1>6. QED
  BY <1>1, <1>2, <1>3, <1>4, <1>5

\* What these steps leave alone.
LEMMA Learning ==
    ASSUME NEW t \in Threads
    PROVE  /\ runtimeFor(t) \/ Lookup(t) \/ Count(t) =>
                 UNCHANGED <<devUser, created, role, logins, tokens, creds, begun, answers, spent,
                             jar, runtime, firstUserMu, served, faults, conflicted>>
           /\ getOrCreateDevUser(t) =>
                 /\ IF Relook(t) = "session" THEN Unlocks(t) ELSE UNCHANGED firstUserMu
                 /\ UNCHANGED <<devUser, created, role, logins, tokens, creds, begun, answers,
                                spent, jar, runtime, served, faults, conflicted>>
           /\ Discover(t) =>
                 UNCHANGED <<devUser, created, role, logins, tokens, creds, begun, answers, spent,
                             firstUserMu, served, conflicted>>
BY DEF runtimeFor, Lookup, Count, getOrCreateDevUser, Discover, tables, outside

\* How createSession goes on.
LEMMA SignsIn ==
    ASSUME Requests, NEW t \in Threads, createSession(t)
    PROVE  /\ req[t] \in Legal /\ req[t].pc = "session"
           /\ \A s \in Threads \ {t} : req'[s] = req[s]
           /\ \/ req'[t] = Idle
              \/ /\ req'[t].pc \in {"verify", "handle"} /\ req[t].op # "callback"
                 /\ req'[t].op = req[t].op /\ req'[t].from = req[t].from
                 /\ req'[t].who = req[t].who /\ req'[t].arg = req[t].arg
                 /\ req'[t].role = req[t].role /\ req'[t].rt = req[t].rt
           /\ UNCHANGED <<devUser, created, role, tokens, creds, begun, answers, spent, runtime,
                          firstUserMu, served, conflicted>>
<1>1. req[t] \in Legal /\ req[t].pc = "session"
  BY Busy DEF createSession, At, PCs, SigningIn
<1>2. ASSUME NEW p, Goes(t, p)
      PROVE  /\ \A s \in Threads \ {t} : req'[s] = req[s]
             /\ req'[t].pc = p /\ req'[t].op = req[t].op /\ req'[t].from = req[t].from
             /\ req'[t].who = req[t].who /\ req'[t].arg = req[t].arg
             /\ req'[t].role = req[t].role /\ req'[t].rt = req[t].rt
  BY <1>1, <1>2, Moves DEF PCs, SigningIn
<1>3. Handler(req[t].op) \in {"verify", "handle"}
  BY DEF Handler
<1>4. UNCHANGED <<devUser, created, role, tokens, creds, begun, answers, spent, runtime,
                  firstUserMu, served, conflicted>>
  BY DEF createSession
<1>5. CASE \E l \in Fresh(logins, NoRow) :
              /\ logins' = [logins EXCEPT ![l] = [user |-> req[t].who, live |-> TRUE]]
              /\ IF req[t].op = "callback" THEN Redirects(t, l)
                 ELSE /\ jar' = [jar EXCEPT ![req[t].from].session = l]
                      /\ IF Admitted(req[t].op, req[t].role, FALSE, TRUE)
                         THEN Goes(t, Handler(req[t].op)) ELSE Ends(t)
              /\ UNCHANGED faults
  <2>1. PICK l \in Fresh(logins, NoRow) :
              /\ logins' = [logins EXCEPT ![l] = [user |-> req[t].who, live |-> TRUE]]
              /\ IF req[t].op = "callback" THEN Redirects(t, l)
                 ELSE /\ jar' = [jar EXCEPT ![req[t].from].session = l]
                      /\ IF Admitted(req[t].op, req[t].role, FALSE, TRUE)
                         THEN Goes(t, Handler(req[t].op)) ELSE Ends(t)
              /\ UNCHANGED faults
    BY <1>5
  <2>2. CASE Ends(t)
    BY <1>1, <1>4, <2>1, <2>2, Moves DEF Redirects
  <2>3. CASE req[t].op # "callback" /\ Goes(t, Handler(req[t].op))
    BY <1>1, <1>2, <1>3, <1>4, <2>1, <2>3
  <2>4. QED
    BY <2>1, <2>2, <2>3 DEF Redirects
<1>6. CASE Fails /\ GivesUp(t) /\ UNCHANGED logins
  <2>1. CASE req[t].op = "callback"
    BY <1>1, <1>4, <1>6, <2>1, Moves DEF Fails, GivesUp, Redirects
  <2>2. CASE req[t].op = "logout"
    BY <1>1, <1>2, <1>4, <1>6, <2>2 DEF Fails, GivesUp
  <2>3. CASE req[t].op \notin {"callback", "logout"}
    BY <1>1, <1>4, <1>6, <2>3, Moves DEF Fails, GivesUp
  <2>4. QED
    BY <2>1, <2>2, <2>3
<1>7. QED
  BY <1>5, <1>6 DEF createSession

\* Whose session it is, and which cookie the browser gets.
LEMMA SignsInAs ==
    ASSUME NEW t \in Threads, createSession(t)
    PROVE  \/ \E l \in Fresh(logins, NoRow), b \in {req[t].from} :
                 /\ logins' = [logins EXCEPT ![l] = [user |-> req[t].who, live |-> TRUE]]
                 /\ \/ /\ req[t].op = "callback"
                       /\ jar' = [jar EXCEPT ![b] =
                                    [flow |-> 0, session |-> IF l = 0 THEN @.session ELSE l]]
                    \/ jar' = [jar EXCEPT ![b].session = l]
                 /\ faults' = faults
           \/ /\ logins' = logins /\ faults' = faults + 1 /\ faults < MaxFaults
              /\ \/ jar' = jar
                 \/ jar' = [jar EXCEPT ![req[t].from] = [flow |-> 0, session |-> @.session]]
<1>1. CASE \E l \in Fresh(logins, NoRow) :
              /\ logins' = [logins EXCEPT ![l] = [user |-> req[t].who, live |-> TRUE]]
              /\ IF req[t].op = "callback" THEN Redirects(t, l)
                 ELSE jar' = [jar EXCEPT ![req[t].from].session = l]
              /\ UNCHANGED faults
  BY <1>1 DEF Redirects
<1>2. CASE Fails /\ GivesUp(t) /\ UNCHANGED logins
  BY <1>2 DEF Fails, GivesUp, Redirects
<1>3. QED
  BY <1>1, <1>2 DEF createSession

(* One lemma for each such step. *)

\* runtimeFor.
LEMMA FindsRuntime ==
    ASSUME Requests, NEW t \in Threads, runtimeFor(t)
    PROVE  /\ req[t].pc = "runtime" /\ req'[t].pc \in {"discover", "redirect", "exchange"}
           /\ (req'[t].pc = "redirect" => req[t].op = "begin")
           /\ (req'[t].pc = "exchange" => req[t].op # "begin")
           /\ req'[t].rt = runtime /\ req'[t].role = req[t].role
           /\ req'[t].op = req[t].op /\ req'[t].from = req[t].from
           /\ req'[t].who = req[t].who /\ req'[t].arg = req[t].arg
           /\ \A s \in Threads \ {t} : req'[s] = req[s]
           /\ UNCHANGED <<devUser, created, role, logins, tokens, creds, begun, answers,
                        spent, jar, runtime, firstUserMu, served, faults, conflicted>>
BY Learns, Learning DEF AfterRuntime

\* Discover.
LEMMA Discovers ==
    ASSUME Requests, NEW t \in Threads, Discover(t)
    PROVE  /\ req[t].pc = "discover"
           /\ \/ req'[t] = Idle /\ runtime' = runtime
              \/ /\ req'[t].pc = IF req[t].op = "begin" THEN "redirect" ELSE "exchange"
                 /\ req'[t].rt = Keep(t) /\ runtime' = Keep(t)
                 /\ req'[t].op = req[t].op /\ req'[t].from = req[t].from
                 /\ req'[t].who = req[t].who /\ req'[t].arg = req[t].arg
                 /\ req'[t].role = req[t].role
           /\ \A s \in Threads \ {t} : req'[s] = req[s]
           /\ UNCHANGED <<devUser, created, role, logins, tokens, creds, begun, answers,
                        spent, firstUserMu, served, conflicted>>
<1>1. req[t].pc = "discover"
  BY Learns
<1>2. req[t] \in Legal
  BY <1>1, Busy DEF PCs
<1>3. req[t].op \in {"begin", "callback"}
  BY <1>1, <1>2 DEF Legal, SigningIn, Section
<1>4. GivesUp(t) => req'[t] = Idle /\ \A s \in Threads \ {t} : req'[s] = req[s]
  BY <1>3, Moves DEF GivesUp, Redirects
<1>5. QED
  BY <1>1, <1>4, Learns, Learning DEF AfterRuntime

\* What Discover does to the cookies.
LEMMA DiscoversFor ==
    ASSUME Requests, NEW t \in Threads, Discover(t)
    PROVE  \/ jar' = jar
           \/ jar' = [jar EXCEPT ![req[t].from] = [flow |-> 0, session |-> @.session]]
BY Learns DEF GivesUp, Redirects

\* Lookup.
LEMMA LooksUp ==
    ASSUME Requests, NEW t \in Threads, Lookup(t)
    PROVE  /\ req[t].pc = "lookup" /\ req'[t].pc \in {"session", "lock"}
           /\ req'[t].role = role[req[t].who] /\ req'[t].rt = req[t].rt
           /\ req'[t].op = req[t].op /\ req'[t].from = req[t].from
           /\ req'[t].who = req[t].who /\ req'[t].arg = req[t].arg
           /\ \A s \in Threads \ {t} : req'[s] = req[s]
           /\ UNCHANGED <<devUser, created, role, logins, tokens, creds, begun, answers,
                        spent, jar, runtime, firstUserMu, served, faults, conflicted>>
BY Learns, Learning

\* getOrCreateDevUser.
LEMMA LooksAgain ==
    ASSUME Requests, NEW t \in Threads, getOrCreateDevUser(t)
    PROVE  /\ req[t].pc = "relook" /\ req'[t].rt = req[t].rt
           /\ \/ req'[t].pc = "session" /\ Exists(Dev) /\ Unlocks(t)
              \/ /\ req'[t].pc = "create" /\ ~Exists(Dev) /\ firstUserMu' = firstUserMu
                 /\ req'[t].role = "admin"
           /\ req'[t].op = req[t].op /\ req'[t].from = req[t].from
           /\ req'[t].who = req[t].who /\ req'[t].arg = req[t].arg
           /\ \A s \in Threads \ {t} : req'[s] = req[s]
           /\ UNCHANGED <<devUser, created, role, logins, tokens, creds, begun, answers,
                        spent, jar, runtime, served, faults, conflicted>>
BY Learns, Learning DEF Relook

\* Count.
LEMMA Counts ==
    ASSUME Requests, NEW t \in Threads, Count(t)
    PROVE  /\ req[t].pc = "count" /\ req'[t].pc = "create" /\ req'[t].rt = req[t].rt
           /\ req'[t].role = IF created = <<>> THEN "admin" ELSE "member"
           /\ req'[t].op = req[t].op /\ req'[t].from = req[t].from
           /\ req'[t].who = req[t].who /\ req'[t].arg = req[t].arg
           /\ \A s \in Threads \ {t} : req'[s] = req[s]
           /\ UNCHANGED <<devUser, created, role, logins, tokens, creds, begun, answers,
                        spent, jar, runtime, firstUserMu, served, faults, conflicted>>
BY Learns, Learning

\* What a request is that has been authenticated.
LEMMA Authenticates ==
    ASSUME Requests, NEW t \in Threads, Authenticate(t)
    PROVE  /\ req[t] = Idle /\ req'[t].rt = Nobody /\ req'[t].op \notin {"begin", "callback"}
           /\ req'[t].pc \in {"verify", "handle", "lookup"} /\ (req'[t].pc = "lookup" => devUser)
           /\ (req'[t].op = "patchUser" => \E u \in Users : Exists(u))
           /\ served < MaxRequests /\ served' = served + 1
           /\ \A s \in Threads \ {t} : req'[s] = req[s]
           /\ UNCHANGED <<devUser, created, role, logins, tokens, creds, begun, answers,
                        spent, jar, runtime, firstUserMu, faults, conflicted>>
<1>1. PICK op \in MeOps \cup AdminOps \cup AuthOps, from \in Browsers \cup TokenIds,
           header \in BOOLEAN :
    \E arg \in CASE op = "logout" -> {IF from \in Browsers THEN jar[from].session ELSE 0}
                 [] op = "deleteToken" -> {k \in TokenIds : tokens[k] # NoRow}
                 [] op = "patchUser" -> {u \in Users : Exists(u)} \X (Roles \cup {"owner"})
                 [] OTHER -> ArgsOf(op) :
        LET u == PrincipalOf(from)
            asks(pc, who, r) == [op |-> op, from |-> from, pc |-> pc, who |-> who,
                                 role |-> r, arg |-> arg, rt |-> Nobody]
        IN  /\ \/ /\ u # Nobody /\ Admitted(op, role[u], from \in TokenIds, header)
                  /\ Serve(t, asks(Handler(op), u, role[u]))
               \/ /\ u = Nobody /\ devUser /\ from \in Browsers /\ header
                  /\ Serve(t, asks("lookup", Dev, Nobody))
               \/ /\ u = Nobody /\ ~devUser /\ op = "logout" /\ header /\ arg # 0
                  /\ Serve(t, asks("handle", Nobody, Nobody))
            /\ UNCHANGED <<devUser, tables, outside, runtime, firstUserMu, faults, conflicted>>
  BY DEF Authenticate
<1>2. PICK arg \in CASE op = "logout" -> {IF from \in Browsers THEN jar[from].session ELSE 0}
                 [] op = "deleteToken" -> {k \in TokenIds : tokens[k] # NoRow}
                 [] op = "patchUser" -> {u \in Users : Exists(u)} \X (Roles \cup {"owner"})
                 [] OTHER -> ArgsOf(op) :
        LET u == PrincipalOf(from)
            asks(pc, who, r) == [op |-> op, from |-> from, pc |-> pc, who |-> who,
                                 role |-> r, arg |-> arg, rt |-> Nobody]
        IN  /\ \/ Serve(t, asks(Handler(op), u, role[u]))
               \/ devUser /\ Serve(t, asks("lookup", Dev, Nobody))
               \/ Serve(t, asks("handle", Nobody, Nobody))
            /\ UNCHANGED <<devUser, tables, outside, runtime, firstUserMu, faults, conflicted>>
  BY <1>1
<1>3. op = "patchUser" => \E u \in Users : Exists(u)
  BY <1>2
<1>4. op \notin {"begin", "callback"} /\ Handler(op) \in {"verify", "handle"}
  BY DEF MeOps, AdminOps, AuthOps, Handler
<1>5. UNCHANGED <<devUser, created, role, logins, tokens, creds, begun, answers,
                  spent, jar, runtime, firstUserMu, faults, conflicted>>
  BY <1>2 DEF tables, outside
<1> DEFINE asks(pc, who, r) == [op |-> op, from |-> from, pc |-> pc, who |-> who,
                                role |-> r, arg |-> arg, rt |-> Nobody]
           Is(pc) == /\ req[t] = Idle /\ req'[t].rt = Nobody /\ req'[t].op = op /\ req'[t].pc = pc
                     /\ \A s \in Threads \ {t} : req'[s] = req[s]
                     /\ served < MaxRequests /\ served' = served + 1
<1>6. ASSUME NEW pc, NEW who, NEW r, Serve(t, asks(pc, who, r))
      PROVE  Is(pc)
  <2>1. served < MaxRequests /\ served' = served + 1
    BY <1>6 DEF Serve
  <2>2. /\ req[t] = Idle /\ req'[t] = asks(pc, who, r)
        /\ \A s \in Threads \ {t} : req'[s] = req[s]
    BY <1>6, Moves
  <2>3. QED
    BY <2>1, <2>2
<1>7. Is(Handler(op)) \/ (devUser /\ Is("lookup")) \/ Is("handle")
  <2> HIDE DEF asks, Is
  <2>1. \/ Serve(t, asks(Handler(op), PrincipalOf(from), role[PrincipalOf(from)]))
        \/ devUser /\ Serve(t, asks("lookup", Dev, Nobody))
        \/ Serve(t, asks("handle", Nobody, Nobody))
    BY <1>2 DEF asks
  <2>2. QED
    BY <2>1, <1>6
<1>8. QED
  BY <1>3, <1>4, <1>5, <1>7

\* Cookies that are set or taken away leave a jar a jar.
LEMMA JarsAre ==
    ASSUME jar \in Jars, NEW b, NEW f \in {0} \cup Flows, NEW l \in {0} \cup LoginIds
    PROVE  /\ [jar EXCEPT ![b] = [flow |-> 0, session |-> @.session]] \in Jars
           /\ [jar EXCEPT ![b] = [flow |-> 0, session |-> IF l = 0 THEN @.session ELSE l]] \in Jars
           /\ [jar EXCEPT ![b].session = l] \in Jars /\ [jar EXCEPT ![b].flow = f] \in Jars
           /\ [c \in Browsers |-> IF b = c THEN [jar[c] EXCEPT !.session = 0] ELSE jar[c]] \in Jars
BY DEF Jars

\* What the place of a request says about it.
LEMMA Places ==
    ASSUME NEW r \in Legal
    PROVE  /\ r.pc \in SigningIn =>
                 /\ r.who \in Users /\ r.from \in Browsers /\ r.op # "begin"
                 /\ (r.op = "callback" => r.who \in Subjects) /\ (r.op # "callback" => r.who = Dev)
           /\ r.pc = "create" => r.role \in {"admin", "member"}
           /\ r.pc \in {"verify", "set", "mark"} =>
                 r.who \in Users /\ r.op \in {"putOwn", "putService"} /\ r.arg \in Tables \X BOOLEAN
           /\ r.pc = "set" => r.arg[2] = TRUE
           /\ r.pc = "mark" => r.op = "putOwn" /\ r.arg[1] = "claude"
           /\ r.pc = "update" => r.op = "patchUser" /\ r.arg[1] \in Users /\ r.arg[2] \in Roles
           /\ r.pc = "handle" /\ r.op # "logout" => r.who \in Users
           /\ r.pc = "handle" /\ r.op = "deleteOwn" => r.arg \in Tables
           /\ r.pc = "handle" /\ r.op = "deleteToken" => r.arg \in TokenIds
           /\ r.pc = "handle" /\ r.op = "patchUser" => r.arg \in Users \X (Roles \cup {"owner"})
<1> USE DEF Legal, Request
<1>1. r.pc \in SigningIn =>
         /\ r.who \in Users /\ r.from \in Browsers /\ r.op # "begin"
         /\ (r.op = "callback" => r.who \in Subjects) /\ (r.op # "callback" => r.who = Dev)
  BY LegalIs DEF SigningIn, Section
<1>2. r.pc \in {"verify", "set", "mark"} =>
         r.who \in Users /\ r.op \in {"putOwn", "putService"} /\ r.arg \in Tables \X BOOLEAN
  BY DEF ArgsOf, SigningIn, Section
<1>3. r.pc = "update" => r.op = "patchUser" /\ r.arg[1] \in Users /\ r.arg[2] \in Roles
  BY DEF ArgsOf
<1>4. /\ r.pc = "handle" /\ r.op # "logout" => r.who \in Users
      /\ r.pc = "handle" /\ r.op = "deleteOwn" => r.arg \in Tables
      /\ r.pc = "handle" /\ r.op = "deleteToken" => r.arg \in TokenIds
      /\ r.pc = "handle" /\ r.op = "patchUser" => r.arg \in Users \X (Roles \cup {"owner"})
  BY DEF ArgsOf, SigningIn, Section
<1>5. QED
  BY <1>1, <1>2, <1>3, <1>4

\* The row of a credential is one of the table.
LEMMA HolderIs ==
    ASSUME Requests, NEW t \in Threads, req[t].pc \in {"set", "mark"}
    PROVE  Holder(t) \in Holders
<1>1. req[t] \in Legal
  BY Busy DEF PCs
<1>2. req[t].who \in Users /\ req[t].arg \in Tables \X BOOLEAN
  BY <1>1, Places
<1>3. QED
  BY <1>2 DEF Holder, Holders

\* The people are finitely many.
LEMMA PresentFinite == IsFiniteSet(Present)
<1>1. IsFiniteSet(Users)
  BY AccessAssumption, FS_AddElement DEF Users
<1>2. QED
  BY <1>1, FS_Subset DEF Present

(* Steps that may go on. *)

\* Exchange.
LEMMA Exchanges ==
    ASSUME Requests, NEW t \in Threads, Exchange(t)
    PROVE  /\ req[t] \in Legal /\ req[t].pc = "exchange"
           /\ \/ req'[t] = Idle
              \/ /\ req'[t].pc = "lookup"
                 /\ req'[t].op = req[t].op /\ req'[t].from = req[t].from
                 /\ req'[t].who = req[t].who /\ req'[t].arg = req[t].arg
                 /\ req'[t].role = req[t].role /\ req'[t].rt = req[t].rt
           /\ \A s \in Threads \ {t} : req'[s] = req[s]
           /\ UNCHANGED <<devUser, created, role, logins, tokens, creds, begun, answers,
                        runtime, firstUserMu, served, faults, conflicted>>
<1>1. req[t] \in Legal /\ req[t].pc = "exchange"
  BY Busy DEF Exchange, At, PCs
<1>2. QED
  BY <1>1, Moves DEF Exchange, Redirects, tables, PCs

\* Enter.
LEMMA Enters ==
    ASSUME Requests, NEW t \in Threads, Enter(t)
    PROVE  /\ req[t] \in Legal /\ req[t].pc = "lock"
           /\ firstUserMu = Nobody /\ firstUserMu' = t
           /\ /\ req'[t].pc \in {"relook", "count"} /\ (req'[t].pc = "relook" <=> req[t].who = Dev)
              /\ req'[t].op = req[t].op /\ req'[t].from = req[t].from
              /\ req'[t].who = req[t].who /\ req'[t].arg = req[t].arg
              /\ req'[t].role = req[t].role /\ req'[t].rt = req[t].rt
           /\ \A s \in Threads \ {t} : req'[s] = req[s]
           /\ UNCHANGED <<devUser, created, role, logins, tokens, creds, begun, answers, spent,
                        jar, runtime, served, faults, conflicted>>
<1>1. req[t] \in Legal /\ req[t].pc = "lock"
  BY Busy DEF Enter, At, Lock, PCs, SigningIn
<1>2. QED
  BY <1>1, Moves DEF Enter, Lock, outside, tables, PCs, SigningIn

\* handleUsersPatch.
LEMMA Patches ==
    ASSUME Requests, NEW t \in Threads, handleUsersPatch(t)
    PROVE  /\ req[t] \in Legal /\ req[t].pc = "handle" /\ req[t].op = "patchUser"
           /\ \/ req'[t] = Idle
              \/ /\ req'[t].pc = "update" /\ MayChange(req[t].who, req[t].arg[1], req[t].arg[2])
                 /\ req'[t].op = req[t].op /\ req'[t].from = req[t].from
                 /\ req'[t].who = req[t].who /\ req'[t].arg = req[t].arg
                 /\ req'[t].role = req[t].role /\ req'[t].rt = req[t].rt
           /\ \A s \in Threads \ {t} : req'[s] = req[s]
           /\ UNCHANGED <<devUser, created, role, logins, tokens, creds, begun, answers, spent,
                        jar, runtime, firstUserMu, served, faults, conflicted>>
<1>1. req[t] \in Legal /\ req[t].pc = "handle"
  BY Busy DEF handleUsersPatch, At, Handling, PCs
<1>2. QED
  BY <1>1, Moves DEF handleUsersPatch, Handling, At, tables, Beside, PCs

\* Verify.
LEMMA Verifies ==
    ASSUME Requests, NEW t \in Threads, Verify(t)
    PROVE  /\ req[t] \in Legal /\ req[t].pc = "verify"
           /\ \/ req'[t] = Idle
              \/ /\ req'[t].pc = "set" /\ req[t].arg[2]
                 /\ req'[t].op = req[t].op /\ req'[t].from = req[t].from
                 /\ req'[t].who = req[t].who /\ req'[t].arg = req[t].arg
                 /\ req'[t].role = req[t].role /\ req'[t].rt = req[t].rt
           /\ \A s \in Threads \ {t} : req'[s] = req[s]
           /\ UNCHANGED <<devUser, created, role, logins, tokens, creds, begun, answers, spent,
                        jar, runtime, firstUserMu, served, faults, conflicted>>
<1>1. req[t] \in Legal /\ req[t].pc = "verify"
  BY Busy DEF Verify, At, PCs
<1>2. QED
  BY <1>1, Moves DEF Verify, Accepts, tables, Beside, PCs

\* Set.
LEMMA Sets ==
    ASSUME Requests, NEW t \in Threads, Set(t)
    PROVE  /\ req[t] \in Legal /\ req[t].pc = "set"
           /\ \/ req'[t] = Idle
              \/ /\ req'[t].pc = "mark" /\ req[t].op = "putOwn" /\ req[t].arg[1] = "claude"
                 /\ req'[t].op = req[t].op /\ req'[t].from = req[t].from
                 /\ req'[t].who = req[t].who /\ req'[t].arg = req[t].arg
                 /\ req'[t].role = req[t].role /\ req'[t].rt = req[t].rt
           /\ \A s \in Threads \ {t} : req'[s] = req[s]
           /\ UNCHANGED <<devUser, created, role, logins, tokens, begun, answers, spent, jar,
                        runtime, firstUserMu, served, conflicted>>
<1>1. req[t] \in Legal /\ req[t].pc = "set"
  BY Busy DEF Set, At, PCs
<1>2. QED
  BY <1>1, Moves DEF Set, Beside, PCs

\* A row of a user is a row.
LEMMA RowIs == \A r \in Row : r \notin {NoRow, Gone} /\ [r EXCEPT !.live = FALSE] \in Row
<1>1. NoRow \notin Row /\ Gone \notin Row /\ NoRow # Gone
  BY DEF Row, NoRow, Gone
<1>2. QED
  BY <1>1 DEF Row

-----------------------------------------------------------------------------
(* One step. *)

\* What a request may be, it stays.
LEMMA RequestsStep == Inv /\ AccessNext => Requests'
<1> SUFFICES ASSUME Inv, AccessNext PROVE Requests'
  OBVIOUS
<1>1. Requests /\ OutsideTyped /\ ServerTyped /\ TablesTyped
  BY DEF Inv
<1> USE <1>1 DEF Requests, Legal, Request, PCs, SigningIn, Section
<1>2. ASSUME NEW t \in Threads, Begin(t) PROVE Requests'
  BY <1>2, Busy, LegalIs DEF Begin, Serve, ArgsOf, Args, Ops
<1>3. ASSUME NEW t \in Threads, CompleteLogin(t) PROVE Requests'
  BY <1>3, Busy, LegalIs DEF CompleteLogin, Serve, ArgsOf, Args, Ops, OutsideTyped, Jars
<1>4. ASSUME NEW t \in Threads, Authenticate(t) PROVE Requests'
  <2>1. PICK op \in MeOps \cup AdminOps \cup AuthOps, from \in Browsers \cup TokenIds,
             header \in BOOLEAN :
    \E arg \in CASE op = "logout" -> {IF from \in Browsers THEN jar[from].session ELSE 0}
                 [] op = "deleteToken" -> {k \in TokenIds : tokens[k] # NoRow}
                 [] op = "patchUser" -> {u \in Users : Exists(u)} \X (Roles \cup {"owner"})
                 [] OTHER -> ArgsOf(op) :
        LET u == PrincipalOf(from)
            asks(pc, who, r) == [op |-> op, from |-> from, pc |-> pc, who |-> who,
                                 role |-> r, arg |-> arg, rt |-> Nobody]
        IN  /\ \/ /\ u # Nobody /\ Admitted(op, role[u], from \in TokenIds, header)
                  /\ Serve(t, asks(Handler(op), u, role[u]))
               \/ /\ u = Nobody /\ devUser /\ from \in Browsers /\ header
                  /\ Serve(t, asks("lookup", Dev, Nobody))
               \/ /\ u = Nobody /\ ~devUser /\ op = "logout" /\ header /\ arg # 0
                  /\ Serve(t, asks("handle", Nobody, Nobody))
            /\ UNCHANGED <<devUser, tables, outside, runtime, firstUserMu, faults, conflicted>>
    BY <1>4 DEF Authenticate
  <2>2. PICK arg \in CASE op = "logout" -> {IF from \in Browsers THEN jar[from].session ELSE 0}
                     [] op = "deleteToken" -> {k \in TokenIds : tokens[k] # NoRow}
                     [] op = "patchUser" -> {u \in Users : Exists(u)} \X (Roles \cup {"owner"})
                     [] OTHER -> ArgsOf(op) :
          LET u == PrincipalOf(from)
              asks(pc, who, r) == [op |-> op, from |-> from, pc |-> pc, who |-> who,
                                   role |-> r, arg |-> arg, rt |-> Nobody]
          IN  \/ u # Nobody /\ Serve(t, asks(Handler(op), u, role[u]))
              \/ from \in Browsers /\ Serve(t, asks("lookup", Dev, Nobody))
              \/ op = "logout" /\ Serve(t, asks("handle", Nobody, Nobody))
    BY <2>1
  <2> DEFINE asks(pc, who, r) == [op |-> op, from |-> from, pc |-> pc, who |-> who,
                                  role |-> r, arg |-> arg, rt |-> Nobody]
  <2>3. op \in Ops \ {"begin", "callback"} /\ arg \in ArgsOf(op) /\ arg \in Args
    BY <2>2, Served DEF MeOps, AdminOps, AuthOps
  <2>4. ASSUME NEW who \in Users \cup {Nobody}, NEW r \in Roles \cup {Nobody},
               NEW pc \in {"verify", "handle", "lookup"},
               pc = "verify" => op \in {"putOwn", "putService"},
               pc = "lookup" => who = Dev /\ from \in Browsers,
               who = Nobody => op = "logout" /\ pc = "handle",
               Serve(t, asks(pc, who, r))
        PROVE  Requests'
    <3>1. asks(pc, who, r) \in Legal
      BY <2>3, <2>4 DEF Legal, Request, PCs, SigningIn, Section
    <3>2. QED
      BY <3>1, <2>4, Becomes DEF Serve
  <2>5. ASSUME NEW who \in Users, NEW r \in Roles \cup {Nobody}, NEW h \in {Handler(op)},
               Serve(t, asks(h, who, r))
        PROVE  Requests'
    <3>1. h \in {"verify", "handle"} /\ (h = "verify" => op \in {"putOwn", "putService"})
      BY DEF Handler
    <3>2. who # Nobody
      BY LegalIs
    <3> HIDE DEF asks
    <3>3. QED
      BY <3>1, <3>2, <2>4, <2>5
  <2> HIDE DEF asks
  <2>6. ASSUME PrincipalOf(from) # Nobody,
               Serve(t, asks(Handler(op), PrincipalOf(from), role[PrincipalOf(from)]))
        PROVE  Requests'
    BY <2>5, <2>6, PrincipalIsUser
  <2>7. CASE from \in Browsers /\ Serve(t, asks("lookup", Dev, Nobody))
    BY <2>4, <2>7, LegalIs
  <2>8. CASE op = "logout" /\ Serve(t, asks("handle", Nobody, Nobody))
    BY <2>4, <2>8
  <2>9. QED
    BY <2>2, <2>6, <2>7, <2>8 DEF asks
<1>5. ASSUME NEW t \in Threads, runtimeFor(t) PROVE Requests'
  <2>1. req[t] \in Legal /\ req[t].pc = "runtime"
    BY <1>5, Busy DEF runtimeFor, At
  <2>2. CASE TRUE /\ req' = [req EXCEPT ![t].pc = "discover", ![t].rt = runtime]
    <3>1. [req[t] EXCEPT !.pc = "discover", !.role = @, !.rt = runtime] \in Legal
      BY <2>1, <2>2, LegalIs DEF ServerTyped
    <3>2. req' = [req EXCEPT ![t] = [req[t] EXCEPT !.pc = "discover", !.role = @, !.rt = runtime]]
      BY <2>1, <2>2, LegalIs, ZenonT(60)
    <3>3. QED
      BY <3>1, <3>2, Becomes
  <2>3. CASE req[t].op = "begin" /\ req' = [req EXCEPT ![t].pc = "redirect", ![t].rt = runtime]
    <3>1. [req[t] EXCEPT !.pc = "redirect", !.role = @, !.rt = runtime] \in Legal
      BY <2>1, <2>3, LegalIs DEF ServerTyped
    <3>2. req' = [req EXCEPT ![t] = [req[t] EXCEPT !.pc = "redirect", !.role = @, !.rt = runtime]]
      BY <2>1, <2>3, LegalIs, ZenonT(60)
    <3>3. QED
      BY <3>1, <3>2, Becomes
  <2>4. CASE req[t].op # "begin" /\ req' = [req EXCEPT ![t].pc = "exchange", ![t].rt = runtime]
    <3>1. [req[t] EXCEPT !.pc = "exchange", !.role = @, !.rt = runtime] \in Legal
      BY <2>1, <2>4, LegalIs DEF ServerTyped
    <3>2. req' = [req EXCEPT ![t] = [req[t] EXCEPT !.pc = "exchange", !.role = @, !.rt = runtime]]
      BY <2>1, <2>4, LegalIs, ZenonT(60)
    <3>3. QED
      BY <3>1, <3>2, Becomes
  <2>5. QED
    BY <1>5, <2>1, <2>2, <2>3, <2>4 DEF runtimeFor, AfterRuntime
<1>6. ASSUME NEW t \in Threads, Discover(t) PROVE Requests'
  BY <1>6, Busy, LegalIs DEF Discover, At, Goes, Ends, Redirects, GivesUp, AfterRuntime,
     Keep, ServerTyped
<1>7. ASSUME NEW t \in Threads, BeginLogin(t) PROVE Requests'
  BY <1>7, Busy, LegalIs DEF BeginLogin, At, Ends
<1>8. ASSUME NEW t \in Threads, Mismatch(t) PROVE Requests'
  BY <1>8, Busy, LegalIs DEF Mismatch, At, Ends, Redirects
<1>9. ASSUME NEW t \in Threads, Exchange(t) PROVE Requests'
  BY <1>9, Busy, LegalIs DEF Exchange, At, Goes, Ends, Redirects
<1>10. ASSUME NEW t \in Threads, Lookup(t) PROVE Requests'
  <2>1. req[t] \in Legal /\ req[t].pc = "lookup"
    BY <1>10, Busy DEF Lookup, At
  <2>2. CASE TRUE /\ req' = [req EXCEPT ![t].pc = "session", ![t].role = role[req[t].who]]
    <3>1. [req[t] EXCEPT !.pc = "session", !.role = role[req[t].who], !.rt = @] \in Legal
      BY <2>1, <2>2, LegalIs DEF TablesTyped
    <3>2. req' = [req EXCEPT ![t] = [req[t] EXCEPT !.pc = "session", !.role = role[req[t].who], !.rt = @]]
      BY <2>1, <2>2, LegalIs, ZenonT(60)
    <3>3. QED
      BY <3>1, <3>2, Becomes
  <2>3. CASE TRUE /\ req' = [req EXCEPT ![t].pc = "lock", ![t].role = role[req[t].who]]
    <3>1. [req[t] EXCEPT !.pc = "lock", !.role = role[req[t].who], !.rt = @] \in Legal
      BY <2>1, <2>3, LegalIs DEF TablesTyped
    <3>2. req' = [req EXCEPT ![t] = [req[t] EXCEPT !.pc = "lock", !.role = role[req[t].who], !.rt = @]]
      BY <2>1, <2>3, LegalIs, ZenonT(60)
    <3>3. QED
      BY <3>1, <3>2, Becomes
  <2>4. QED
    BY <1>10, <2>1, <2>2, <2>3 DEF Lookup
<1>11. ASSUME NEW t \in Threads, Enter(t) PROVE Requests'
  <2>1. req[t] \in Legal /\ req[t].pc = "lock"
    BY <1>11, Busy DEF Enter, Lock, At
  <2>2. CASE req[t].who = Dev /\ req' = [req EXCEPT ![t].pc = "relook"]
    <3>1. [req[t] EXCEPT !.pc = "relook", !.role = @, !.rt = @] \in Legal
      BY <2>1, <2>2, LegalIs
    <3>2. req' = [req EXCEPT ![t] = [req[t] EXCEPT !.pc = "relook", !.role = @, !.rt = @]]
      BY <2>1, <2>2, LegalIs
    <3>3. QED
      BY <3>1, <3>2, Becomes
  <2>3. CASE req[t].who # Dev /\ req' = [req EXCEPT ![t].pc = "count"]
    <3>1. [req[t] EXCEPT !.pc = "count", !.role = @, !.rt = @] \in Legal
      BY <2>1, <2>3, LegalIs
    <3>2. req' = [req EXCEPT ![t] = [req[t] EXCEPT !.pc = "count", !.role = @, !.rt = @]]
      BY <2>1, <2>3, LegalIs
    <3>3. QED
      BY <3>1, <3>2, Becomes
  <2>4. QED
    BY <1>11, <2>1, <2>2, <2>3 DEF Enter, Goes
<1>12. ASSUME NEW t \in Threads, getOrCreateDevUser(t) PROVE Requests'
  <2>1. req[t] \in Legal /\ req[t].pc = "relook"
    BY <1>12, Busy DEF getOrCreateDevUser, At
  <2>2. CASE Exists(Dev) /\ req' = [req EXCEPT ![t].pc = "session", ![t].role = role[Dev]]
    <3>1. [req[t] EXCEPT !.pc = "session", !.role = role[Dev], !.rt = @] \in Legal
      BY <2>1, <2>2, LegalIs DEF TablesTyped, Roles
    <3>2. req' = [req EXCEPT ![t] = [req[t] EXCEPT !.pc = "session", !.role = role[Dev], !.rt = @]]
      BY <2>1, <2>2, LegalIs, ZenonT(60)
    <3>3. QED
      BY <3>1, <3>2, Becomes
  <2>3. CASE ~Exists(Dev) /\ req' = [req EXCEPT ![t].pc = "create", ![t].role = "admin"]
    <3>1. [req[t] EXCEPT !.pc = "create", !.role = "admin", !.rt = @] \in Legal
      BY <2>1, <2>3, LegalIs DEF TablesTyped, Roles
    <3>2. req' = [req EXCEPT ![t] = [req[t] EXCEPT !.pc = "create", !.role = "admin", !.rt = @]]
      BY <2>1, <2>3, LegalIs, ZenonT(60)
    <3>3. QED
      BY <3>1, <3>2, Becomes
  <2>4. QED
    BY <1>12, <2>1, <2>2, <2>3 DEF getOrCreateDevUser, Relook
<1>13. ASSUME NEW t \in Threads, Count(t) PROVE Requests'
  <2>1. req[t] \in Legal /\ req[t].pc = "count"
    BY <1>13, Busy DEF Count, At
  <2>2. CASE TRUE /\ req' = [req EXCEPT ![t].pc = "create", ![t].role = "admin"]
    <3>1. [req[t] EXCEPT !.pc = "create", !.role = "admin", !.rt = @] \in Legal
      BY <2>1, <2>2, LegalIs DEF Roles
    <3>2. req' = [req EXCEPT ![t] = [req[t] EXCEPT !.pc = "create", !.role = "admin", !.rt = @]]
      BY <2>1, <2>2, LegalIs, ZenonT(60)
    <3>3. QED
      BY <3>1, <3>2, Becomes
  <2>3. CASE TRUE /\ req' = [req EXCEPT ![t].pc = "create", ![t].role = "member"]
    <3>1. [req[t] EXCEPT !.pc = "create", !.role = "member", !.rt = @] \in Legal
      BY <2>1, <2>3, LegalIs DEF Roles
    <3>2. req' = [req EXCEPT ![t] = [req[t] EXCEPT !.pc = "create", !.role = "member", !.rt = @]]
      BY <2>1, <2>3, LegalIs, ZenonT(60)
    <3>3. QED
      BY <3>1, <3>2, Becomes
  <2>4. QED
    BY <1>13, <2>1, <2>2, <2>3 DEF Count
<1>14. ASSUME NEW t \in Threads, Create(t) PROVE Requests'
  BY <1>14, Busy, LegalIs DEF Create, At, Goes, Ends, Redirects, GivesUp, Refused
<1>15. ASSUME NEW t \in Threads, createSession(t) PROVE Requests'
  <2>1. req[t] \in Legal /\ req[t].pc = "session"
    BY <1>15, Busy DEF createSession, At
  <2>2. CASE req' = [req EXCEPT ![t] = Idle]
    BY <2>2, Becomes
  <2>3. ASSUME NEW p \in {Handler(req[t].op)}, req[t].op # "callback",
               req' = [req EXCEPT ![t].pc = p]
        PROVE  Requests'
    <3>1. [req[t] EXCEPT !.pc = p] \in Legal
      BY <2>1, <2>3, LegalIs DEF Handler
    <3>2. req' = [req EXCEPT ![t] = [req[t] EXCEPT !.pc = p]]
      BY <2>1, <2>3, LegalIs
    <3>3. QED
      BY <3>1, <3>2, Becomes
  <2>4. ASSUME req[t].op = "logout", req' = [req EXCEPT ![t].pc = "handle"]
        PROVE  Requests'
    BY <2>1, <2>3, <2>4 DEF Handler
  <2>5. QED
    BY <1>15, <2>2, <2>3, <2>4 DEF createSession, Goes, Ends, Redirects, GivesUp
<1>16. ASSUME NEW t \in Threads, Logout(t) PROVE Requests'
  BY <1>16, Busy, LegalIs DEF Logout, At, Ends, Handling
<1>17. ASSUME NEW t \in Threads, LogoutAll(t) PROVE Requests'
  BY <1>17, Busy, LegalIs DEF LogoutAll, At, Ends, Handling
<1>18. ASSUME NEW t \in Threads, handleAPITokensCreate(t) PROVE Requests'
  BY <1>18, Busy, LegalIs DEF handleAPITokensCreate, At, Ends, Handling
<1>19. ASSUME NEW t \in Threads, handleAPITokensDelete(t) PROVE Requests'
  BY <1>19, Busy, LegalIs DEF handleAPITokensDelete, At, Ends, Handling
<1>20. ASSUME NEW t \in Threads, handleUsersPatch(t) PROVE Requests'
  BY <1>20, Busy, LegalIs DEF handleUsersPatch, At, Goes, Ends, MayChange, Handling
<1>21. ASSUME NEW t \in Threads, UpdateRole(t) PROVE Requests'
  BY <1>21, Busy, LegalIs DEF UpdateRole, At, Ends
<1>22. ASSUME NEW t \in Threads, Verify(t) PROVE Requests'
  BY <1>22, Busy, LegalIs DEF Verify, At, Goes, Ends, Accepts, ArgsOf
<1>23. ASSUME NEW t \in Threads, Set(t) PROVE Requests'
  BY <1>23, Busy, LegalIs DEF Set, At, Goes, Ends
<1>24. ASSUME NEW t \in Threads, MarkVerified(t) PROVE Requests'
  BY <1>24, Busy, LegalIs DEF MarkVerified, At, Ends
<1>25. ASSUME NEW t \in Threads, handleMeTokenDelete(t) PROVE Requests'
  BY <1>25, Busy, LegalIs DEF handleMeTokenDelete, At, Ends, Handling
<1>26. CASE Answer
  BY <1>26, Busy, LegalIs DEF Answer
<1>27. CASE Expire
  BY <1>27, Busy, LegalIs DEF Expire
<1>28. CASE Restart
  BY <1>28, Busy, LegalIs DEF Restart
<1>29. QED
  BY <1>2, <1>3, <1>4, <1>5, <1>6, <1>7, <1>8, <1>9, <1>10, <1>11, <1>12, <1>13, <1>14,
     <1>15, <1>16, <1>17, <1>18, <1>19, <1>20, <1>21, <1>22, <1>23, <1>24, <1>25, <1>26,
     <1>27, <1>28 DEF AccessNext, Step

-----------------------------------------------------------------------------
(* The tables and the memory of the server. *)

\* Rows stay rows.
LEMMA TablesStep == Inv /\ AccessNext => TablesTyped'
<1> SUFFICES ASSUME Inv, AccessNext PROVE TablesTyped'
  OBVIOUS
<1>1. Requests /\ TablesTyped /\ OutsideTyped
  BY DEF Inv
<1>2. UNCHANGED <<created, role, logins, tokens, creds>> => TablesTyped'
  BY <1>1 DEF TablesTyped
<1>3. ASSUME NEW t \in Threads,
             \/ runtimeFor(t) \/ Discover(t) \/ BeginLogin(t) \/ Mismatch(t) \/ Exchange(t)
             \/ Lookup(t) \/ Enter(t) \/ getOrCreateDevUser(t) \/ Count(t)
             \/ handleUsersPatch(t) \/ Verify(t)
      PROVE  TablesTyped'
  BY <1>2, <1>3 DEF runtimeFor, Discover, BeginLogin, Mismatch, Exchange, Lookup, Enter,
                    getOrCreateDevUser, Count, handleUsersPatch, Verify, tables, outside,
                    Beside
<1>4. CASE Answer \/ Restart
  BY <1>2, <1>4 DEF Answer, Restart, tables
<1> USE <1>1 DEF TablesTyped
<1>5. ASSUME NEW t \in Threads, Create(t) PROVE TablesTyped'
  <2>1. req[t] \in Legal /\ req[t].pc = "create"
    BY <1>5, Busy DEF Create, At, PCs, SigningIn, Section
  <2>2. req[t].who \in Users /\ req[t].role \in Roles
    BY <2>1, Places DEF SigningIn, Section, Roles
  <2>3. \/ created' = created /\ role' = role
        \/ created' = Append(created, req[t].who) /\ role' = [role EXCEPT ![req[t].who] = req[t].role]
    BY <1>5 DEF Create
  <2>4. created' \in Seq(Users)
    BY <2>2, <2>3
  <2>5. role' \in [Users -> Roles \cup {Nobody}]
    BY <2>2, <2>3
  <2>6. QED
    BY <1>5, <2>4, <2>5 DEF Create
<1>6. ASSUME NEW t \in Threads, createSession(t) PROVE TablesTyped'
  <2>1. req[t].who \in Users
    BY <1>6, SignsIn, Places DEF SigningIn
  <2>2. logins' \in [LoginIds -> {NoRow, Gone} \cup Row]
    <3>1. \A l \in LoginIds : [logins EXCEPT ![l] = [user |-> req[t].who, live |-> TRUE]]
                              \in [LoginIds -> {NoRow, Gone} \cup Row]
      BY <2>1 DEF Row
    <3>2. logins' = logins \/ \E l \in LoginIds :
             logins' = [logins EXCEPT ![l] = [user |-> req[t].who, live |-> TRUE]]
      BY <1>6, SignsInAs DEF Fresh
    <3>3. QED
      BY <3>1, <3>2
  <2>3. QED
    BY <1>6, <2>2, SignsIn
<1>7. ASSUME NEW t \in Threads, Logout(t) PROVE TablesTyped'
  <2>1. logins' \in [LoginIds -> {NoRow, Gone} \cup Row]
    BY <1>7 DEF Logout
  <2>2. QED
    BY <1>7, <2>1 DEF Logout, Beside
<1>8. ASSUME NEW t \in Threads, LogoutAll(t) PROVE TablesTyped'
  <2>1. logins' \in [LoginIds -> {NoRow, Gone} \cup Row]
    BY <1>8 DEF LogoutAll
  <2>2. QED
    BY <1>8, <2>1 DEF LogoutAll, Beside
<1>9. ASSUME NEW t \in Threads, handleAPITokensCreate(t) PROVE TablesTyped'
  <2>1. req[t] \in Legal /\ req[t].pc = "handle" /\ req[t].op = "createToken"
    BY <1>9, Busy DEF handleAPITokensCreate, At, Handling, PCs, SigningIn, Section
  <2>2. req[t].who \in Users
    BY <2>1, Places
  <2>3. PICK k \in TokenIds : tokens' = [tokens EXCEPT ![k] = [user |-> req[t].who, live |-> TRUE]]
    BY <1>9 DEF handleAPITokensCreate, Fresh
  <2>4. tokens' \in [TokenIds -> {NoRow, Gone} \cup Row]
    BY <2>2, <2>3 DEF Row
  <2>5. QED
    BY <1>9, <2>4 DEF handleAPITokensCreate, Beside
<1>10. ASSUME NEW t \in Threads, handleAPITokensDelete(t) PROVE TablesTyped'
  <2>1. tokens' \in [TokenIds -> {NoRow, Gone} \cup Row]
    BY <1>10 DEF handleAPITokensDelete
  <2>2. QED
    BY <1>10, <2>1 DEF handleAPITokensDelete, Beside
<1>11. ASSUME NEW t \in Threads, UpdateRole(t) PROVE TablesTyped'
  <2>1. req[t] \in Legal /\ req[t].pc = "update"
    BY <1>11, Busy DEF UpdateRole, At, PCs, SigningIn, Section
  <2>2. req[t].arg[2] \in Roles
    BY <2>1, Places
  <2>3. role' \in [Users -> Roles \cup {Nobody}]
    BY <1>11, <2>2 DEF UpdateRole
  <2>4. QED
    BY <1>11, <2>3 DEF UpdateRole, Beside
<1>12. ASSUME NEW t \in Threads, Set(t) PROVE TablesTyped'
  <2>1. req[t] \in Legal /\ req[t].pc = "set"
    BY <1>12, Busy DEF Set, At, PCs, SigningIn, Section
  <2>2. req[t].arg[2] \in BOOLEAN
    BY <2>1, Places
  <2>3. [good |-> req[t].arg[2], verified |-> FALSE] \in Cred
    BY <2>2 DEF Cred
  <2>4. creds' \in [Holders -> {NoRow} \cup Cred]
    BY <1>12, <2>3 DEF Set
  <2>5. QED
    BY <1>12, <2>4 DEF Set, Beside
<1>13. ASSUME NEW t \in Threads, MarkVerified(t) PROVE TablesTyped'
  <2>1. req[t] \in Legal /\ req[t].pc = "mark"
    BY <1>13, Busy DEF MarkVerified, At, PCs, SigningIn, Section
  <2>2. Mark(Holder(t)) \in {NoRow} \cup Cred
    BY <2>1, HolderIs DEF Mark, Cred
  <2>3. creds' \in [Holders -> {NoRow} \cup Cred]
    BY <1>13, <2>2 DEF MarkVerified
  <2>4. QED
    BY <1>13, <2>3 DEF MarkVerified, Beside
<1>14. ASSUME NEW t \in Threads, handleMeTokenDelete(t) PROVE TablesTyped'
  <2>1. creds' \in [Holders -> {NoRow} \cup Cred]
    BY <1>14 DEF handleMeTokenDelete
  <2>2. QED
    BY <1>14, <2>1 DEF handleMeTokenDelete, Beside
<1>15. CASE Expire
  <2>1. /\ logins' \in [LoginIds -> {NoRow, Gone} \cup Row]
        /\ tokens' \in [TokenIds -> {NoRow, Gone} \cup Row]
    BY <1>15, ZenonT(60) DEF Expire, Row
  <2>2. QED
    BY <1>15, <2>1 DEF Expire, Beside
<1>16. ASSUME NEW t \in Threads, Authenticate(t) PROVE TablesTyped'
  BY <1>16, Authenticates
<1>17. ASSUME NEW t \in Threads, Begin(t) PROVE TablesTyped'
  BY <1>17, Moves DEF Begin, tables
<1>18. ASSUME NEW t \in Threads, CompleteLogin(t) PROVE TablesTyped'
  BY <1>18, Moves DEF CompleteLogin, tables
<1>19. QED
  BY <1>3, <1>4, <1>5, <1>6, <1>7, <1>8, <1>9, <1>10, <1>11, <1>12, <1>13, <1>14, <1>15,
     <1>16, <1>17, <1>18 DEF AccessNext, Step

\* Cookies and flows are what they were.
LEMMA OutsideStep == Inv /\ AccessNext => OutsideTyped'
<1> SUFFICES ASSUME Inv, AccessNext PROVE OutsideTyped'
  OBVIOUS
<1>1. Requests /\ TablesTyped /\ OutsideTyped
  BY DEF Inv
<1>2. UNCHANGED <<devUser, begun, answers, spent, jar>> => OutsideTyped'
  BY <1>1 DEF OutsideTyped
<1>3. ASSUME NEW t \in Threads,
             \/ runtimeFor(t) \/ Lookup(t) \/ Enter(t) \/ getOrCreateDevUser(t) \/ Count(t)
             \/ handleAPITokensCreate(t) \/ handleAPITokensDelete(t) \/ handleUsersPatch(t)
             \/ UpdateRole(t) \/ Verify(t) \/ Set(t) \/ MarkVerified(t)
             \/ handleMeTokenDelete(t)
      PROVE  OutsideTyped'
  BY <1>2, <1>3 DEF runtimeFor, Lookup, Enter, getOrCreateDevUser, Count,
                    handleAPITokensCreate, handleAPITokensDelete, handleUsersPatch,
                    UpdateRole, Verify, Set, MarkVerified, handleMeTokenDelete, tables,
                    outside, Beside
<1>4. CASE Expire \/ Restart
  BY <1>2, <1>4 DEF Expire, Restart, Beside, tables, outside
<1> USE <1>1 DEF OutsideTyped
<1>5. ASSUME NEW t \in Threads, Discover(t) PROVE OutsideTyped'
  <2>1. jar' \in Jars
    BY <1>5, DiscoversFor, JarsAre
  <2>2. QED
    BY <1>5, <2>1, Discovers
<1>6. ASSUME NEW t \in Threads, BeginLogin(t) PROVE OutsideTyped'
  <2>1. req[t] \in Legal /\ req[t].from \in Browsers
    BY <1>6, Busy DEF BeginLogin, At, Legal, PCs, SigningIn, Section
  <2>2. PICK f \in Flows : begun' = [begun EXCEPT ![f] = req[t].from]
                            /\ jar' = [jar EXCEPT ![req[t].from].flow = f]
    BY <1>6 DEF BeginLogin, Fresh
  <2>3. begun' \in [Flows -> Browsers \cup {Nobody}] /\ jar' \in Jars
    BY <2>1, <2>2, JarsAre
  <2>4. QED
    BY <1>6, <2>3 DEF BeginLogin
<1>7. ASSUME NEW t \in Threads, Mismatch(t) PROVE OutsideTyped'
  <2>1. jar' \in Jars
    BY <1>7, JarsAre DEF Mismatch, Redirects
  <2>2. QED
    BY <1>7, <2>1 DEF Mismatch
<1>8. ASSUME NEW t \in Threads, Exchange(t) PROVE OutsideTyped'
  <2>1. jar' \in Jars
    BY <1>8, JarsAre DEF Exchange, Redirects
  <2>2. spent' \subseteq Flows
    <3>1. req[t] \in Legal /\ req[t].arg \in ArgsOf(req[t].op) /\ req[t].op = "callback"
      BY <1>8, Busy DEF Exchange, At, Legal, PCs, SigningIn, Section
    <3>2. req[t].arg \in Flows
      BY <3>1 DEF ArgsOf
    <3>3. QED
      BY <1>8, <3>2 DEF Exchange
  <2>3. QED
    BY <1>8, <2>1, <2>2 DEF Exchange
<1>9. ASSUME NEW t \in Threads, Create(t) PROVE OutsideTyped'
  <2>1. jar' \in Jars
    BY <1>9, JarsAre DEF Create, Refused, GivesUp, Redirects
  <2>2. QED
    BY <1>9, <2>1 DEF Create
<1>10. ASSUME NEW t \in Threads, createSession(t) PROVE OutsideTyped'
  <2>1. \A l \in Fresh(logins, NoRow) : l \in LoginIds /\ l # 0
    BY DEF Fresh, LoginIds, TablesTyped
  <2>2. jar' \in Jars
    <3>1. CASE \E l \in Fresh(logins, NoRow), b \in {req[t].from} :
                  \/ jar' = [jar EXCEPT ![b] = [flow |-> 0, session |-> IF l = 0 THEN @.session ELSE l]]
                  \/ jar' = [jar EXCEPT ![b].session = l]
      <4>1. PICK l \in Fresh(logins, NoRow) :
                  \/ jar' = [jar EXCEPT ![req[t].from] =
                               [flow |-> 0, session |-> IF l = 0 THEN @.session ELSE l]]
                  \/ jar' = [jar EXCEPT ![req[t].from].session = l]
        BY <3>1
      <4>2. l \in {0} \cup LoginIds
        BY <2>1
      <4>3. QED
        BY <4>1, <4>2 DEF Jars
    <3>2. CASE jar' = jar \/ jar' = [jar EXCEPT ![req[t].from] = [flow |-> 0, session |-> @.session]]
      BY <3>2, JarsAre, ZenonT(60)
    <3>3. QED
      BY <1>10, <3>1, <3>2, SignsInAs
  <2>3. QED
    BY <1>10, <2>2, SignsIn
<1>11. ASSUME NEW t \in Threads, Logout(t) PROVE OutsideTyped'
  <2>1. jar' \in Jars
    BY <1>11, JarsAre DEF Logout, Forget
  <2>2. QED
    BY <1>11, <2>1 DEF Logout, Beside
<1>12. ASSUME NEW t \in Threads, LogoutAll(t) PROVE OutsideTyped'
  <2>1. jar' \in Jars
    BY <1>12, JarsAre DEF LogoutAll, Forget
  <2>2. QED
    BY <1>12, <2>1 DEF LogoutAll, Beside
<1>13. CASE Answer
  BY <1>13, LegalIs DEF Answer, tables
<1>14. ASSUME NEW t \in Threads, Authenticate(t) PROVE OutsideTyped'
  BY <1>14, Authenticates
<1>15. ASSUME NEW t \in Threads, Begin(t) PROVE OutsideTyped'
  BY <1>15, Moves DEF Begin, outside
<1>16. ASSUME NEW t \in Threads, CompleteLogin(t) PROVE OutsideTyped'
  BY <1>16, Moves DEF CompleteLogin, outside
<1>17. QED
  BY <1>3, <1>4, <1>5, <1>6, <1>7, <1>8, <1>9, <1>10, <1>11, <1>12, <1>13, <1>14, <1>15,
     <1>16 DEF AccessNext, Step

\* So are the counters, the lock and the runtime.
LEMMA ServerStep == Inv /\ AccessNext => ServerTyped'
<1> SUFFICES ASSUME Inv, AccessNext PROVE ServerTyped'
  OBVIOUS
<1>1. Requests /\ ServerTyped
  BY DEF Inv
<1>2. MaxRequests \in Nat /\ MaxFaults \in Nat
  BY AccessAssumption
<1>3. UNCHANGED <<runtime, firstUserMu, served, faults, conflicted>> => ServerTyped'
  BY <1>1, <1>2 DEF ServerTyped
<1>4. ASSUME NEW t \in Threads,
             \/ runtimeFor(t) \/ BeginLogin(t) \/ Mismatch(t) \/ Exchange(t) \/ Lookup(t)
             \/ Count(t) \/ Logout(t) \/ LogoutAll(t) \/ handleAPITokensCreate(t)
             \/ handleAPITokensDelete(t) \/ handleUsersPatch(t) \/ UpdateRole(t)
             \/ Verify(t) \/ handleMeTokenDelete(t)
      PROVE  ServerTyped'
  BY <1>3, <1>4 DEF runtimeFor, BeginLogin, Mismatch, Exchange, Lookup, Count, Logout,
                    LogoutAll, handleAPITokensCreate, handleAPITokensDelete,
                    handleUsersPatch, UpdateRole, Verify, handleMeTokenDelete, tables,
                    outside, Beside
<1>5. CASE Answer
  BY <1>3, <1>5 DEF Answer, tables
<1> USE <1>1, <1>2 DEF ServerTyped
<1>6. ASSUME NEW t \in Threads, Begin(t) PROVE ServerTyped'
  BY <1>6, Moves, LegalIs DEF Begin, tables, outside, Serve
<1>7. ASSUME NEW t \in Threads, CompleteLogin(t) PROVE ServerTyped'
  BY <1>7, Moves, LegalIs DEF CompleteLogin, tables, outside, Serve
<1>8. ASSUME NEW t \in Threads, Authenticate(t) PROVE ServerTyped'
  BY <1>8, Authenticates, LegalIs DEF Handler
<1>9. ASSUME NEW t \in Threads, Discover(t) PROVE ServerTyped'
  BY <1>9, Busy DEF Discover, Keep, Fails
<1>10. ASSUME NEW t \in Threads, Enter(t) PROVE ServerTyped'
  BY <1>10, Enters, LegalIs DEF Lock
<1>11. ASSUME NEW t \in Threads, getOrCreateDevUser(t) PROVE ServerTyped'
  BY <1>11, LooksAgain, LegalIs DEF Unlocks
<1>12. ASSUME NEW t \in Threads, Create(t) PROVE ServerTyped'
  <2>1. faults' = faults \/ (faults < MaxFaults /\ faults' = faults + 1)
    BY <1>12 DEF Create, Fails
  <2>2. firstUserMu' \in Threads \cup {Nobody}
    BY <1>12 DEF Create, Refused, Unlocks
  <2>3. req[t].who \in Users \/ conflicted' = conflicted
    <3>1. req[t] \in Legal
      BY <1>12, Busy DEF Create, At, PCs, SigningIn, Section
    <3>2. req[t].pc = "create" /\ role[req[t].who] # Nobody => req[t].who \in Users
      BY <3>1, AccessAssumption DEF Legal, Request, SigningIn, Section, Users
    <3>3. QED
      BY <1>12, <3>2 DEF Create, At, Exists
  <2>4. conflicted' \subseteq Users
    BY <1>12, <2>3 DEF Create
  <2>5. runtime' = runtime /\ served' = served
    BY <1>12 DEF Create
  <2>6. QED
    BY <2>1, <2>2, <2>4, <2>5
<1>13. ASSUME NEW t \in Threads, createSession(t) PROVE ServerTyped'
  <2>1. faults' = faults \/ (faults < MaxFaults /\ faults' = faults + 1)
    BY <1>13, SignsInAs
  <2>2. QED
    BY <1>13, <2>1, SignsIn
<1>14. ASSUME NEW t \in Threads, Set(t) PROVE ServerTyped'
  <2>1. faults' = faults \/ (faults < MaxFaults /\ faults' = faults + 1)
    BY <1>14 DEF Set, Fails
  <2>2. QED
    BY <1>14, <2>1, Sets
<1>15. ASSUME NEW t \in Threads, MarkVerified(t) PROVE ServerTyped'
  BY <1>15, Moves, LegalIs DEF MarkVerified, At, Beside, Fails
<1>16. CASE Expire
  BY <1>16, LegalIs DEF Expire, Beside, Fails
<1>17. CASE Restart
  BY <1>17, LegalIs DEF Restart, tables, outside, Fails
<1>18. QED
  BY <1>4, <1>5, <1>6, <1>7, <1>8, <1>9, <1>10, <1>11, <1>12, <1>13, <1>14, <1>15, <1>16,
     <1>17 DEF AccessNext, Step

-----------------------------------------------------------------------------
(* The section that counts users. *)

\* Who enters it takes the lock, and who leaves it gives it back.
LEMMA LockedStep == Inv /\ AccessNext => Locked'
<1> SUFFICES ASSUME Inv, AccessNext PROVE Locked'
  OBVIOUS
<1>1. Requests /\ Locked /\ ServerTyped
  BY DEF Inv
<1> USE <1>1 DEF Locked, Section, SigningIn, PCs, ServerTyped
<1>2. ASSUME NEW t \in Threads, Begin(t) PROVE Locked'
  BY <1>2, Moves, LegalIs DEF Begin, tables, outside
<1>3. ASSUME NEW t \in Threads, CompleteLogin(t) PROVE Locked'
  BY <1>3, Moves, LegalIs DEF CompleteLogin, tables, outside
<1>4. ASSUME NEW t \in Threads, Authenticate(t) PROVE Locked'
  BY <1>4, Authenticates, LegalIs DEF Handler
<1>5. ASSUME NEW t \in Threads, runtimeFor(t) PROVE Locked'
  BY <1>5, FindsRuntime, LegalIs
<1>6. ASSUME NEW t \in Threads, Discover(t) PROVE Locked'
  BY <1>6, Discovers, LegalIs
<1>7. ASSUME NEW t \in Threads, BeginLogin(t) PROVE Locked'
  BY <1>7, Moves, LegalIs DEF BeginLogin, At, tables
<1>8. ASSUME NEW t \in Threads, Mismatch(t) PROVE Locked'
  BY <1>8, Moves, LegalIs DEF Mismatch, At, Redirects, tables
<1>9. ASSUME NEW t \in Threads, Exchange(t) PROVE Locked'
  BY <1>9, Exchanges, LegalIs
<1>10. ASSUME NEW t \in Threads, Lookup(t) PROVE Locked'
  BY <1>10, LooksUp, LegalIs
<1>11. ASSUME NEW t \in Threads, Enter(t) PROVE Locked'
  BY <1>11, Enters, LegalIs DEF Lock
<1>12. ASSUME NEW t \in Threads, getOrCreateDevUser(t) PROVE Locked'
  BY <1>12, LooksAgain, LegalIs DEF Unlocks
<1>13. ASSUME NEW t \in Threads, Count(t) PROVE Locked'
  BY <1>13, Counts, LegalIs
<1>14. ASSUME NEW t \in Threads, Create(t) PROVE Locked'
  BY <1>14, Moves, LegalIs DEF Create, At, Redirects, GivesUp, Refused, Unlocks
<1>15. ASSUME NEW t \in Threads, createSession(t) PROVE Locked'
  BY <1>15, SignsIn, LegalIs
<1>16. ASSUME NEW t \in Threads, Logout(t) PROVE Locked'
  BY <1>16, Moves, LegalIs DEF Logout, At, Handling, Beside
<1>17. ASSUME NEW t \in Threads, LogoutAll(t) PROVE Locked'
  BY <1>17, Moves, LegalIs DEF LogoutAll, At, Handling, Beside
<1>18. ASSUME NEW t \in Threads, handleAPITokensCreate(t) PROVE Locked'
  BY <1>18, Moves, LegalIs DEF handleAPITokensCreate, At, Handling, Beside
<1>19. ASSUME NEW t \in Threads, handleAPITokensDelete(t) PROVE Locked'
  BY <1>19, Moves, LegalIs DEF handleAPITokensDelete, At, Handling, Beside
<1>20. ASSUME NEW t \in Threads, handleUsersPatch(t) PROVE Locked'
  BY <1>20, Patches, LegalIs DEF Handling, Beside
<1>21. ASSUME NEW t \in Threads, UpdateRole(t) PROVE Locked'
  BY <1>21, Moves, LegalIs DEF UpdateRole, At, Beside
<1>22. ASSUME NEW t \in Threads, Verify(t) PROVE Locked'
  BY <1>22, Verifies, LegalIs DEF Beside
<1>23. ASSUME NEW t \in Threads, Set(t) PROVE Locked'
  BY <1>23, Sets, LegalIs DEF Beside
<1>24. ASSUME NEW t \in Threads, MarkVerified(t) PROVE Locked'
  BY <1>24, Moves, LegalIs DEF MarkVerified, At, Beside
<1>25. ASSUME NEW t \in Threads, handleMeTokenDelete(t) PROVE Locked'
  BY <1>25, Moves, LegalIs DEF handleMeTokenDelete, At, Handling, Beside
<1>26. CASE Answer
  BY <1>26, LegalIs DEF Answer, tables
<1>27. CASE Expire
  BY <1>27, LegalIs DEF Expire, Beside
<1>28. CASE Restart
  BY <1>28, LegalIs DEF Restart, tables, outside
<1>29. QED
  BY <1>2, <1>3, <1>4, <1>5, <1>6, <1>7, <1>8, <1>9, <1>10, <1>11, <1>12, <1>13, <1>14,
     <1>15, <1>16, <1>17, <1>18, <1>19, <1>20, <1>21, <1>22, <1>23, <1>24, <1>25, <1>26,
     <1>27, <1>28 DEF AccessNext, Step

\* Nobody else creates a user meanwhile.
LEMMA CreatingStep == Inv /\ AccessNext => Creating'
<1> SUFFICES ASSUME Inv, AccessNext PROVE Creating'
  OBVIOUS
<1>1. Requests /\ TablesTyped /\ Locked /\ Creating
  BY DEF Inv
<1> USE <1>1 DEF Creating, Present
<1>2. ASSUME NEW t \in Threads, Begin(t) PROVE Creating'
  BY <1>2, Moves, LegalIs DEF Begin, tables, outside, Serve
<1>3. ASSUME NEW t \in Threads, CompleteLogin(t) PROVE Creating'
  BY <1>3, Moves, LegalIs DEF CompleteLogin, tables, outside, Serve
<1>4. ASSUME NEW t \in Threads, Authenticate(t) PROVE Creating'
  BY <1>4, Authenticates, LegalIs DEF Handler
<1>5. ASSUME NEW t \in Threads, runtimeFor(t) PROVE Creating'
  BY <1>5, FindsRuntime, LegalIs
<1>6. ASSUME NEW t \in Threads, Discover(t) PROVE Creating'
  BY <1>6, Discovers, LegalIs DEF Fails
<1>7. ASSUME NEW t \in Threads, BeginLogin(t) PROVE Creating'
  BY <1>7, Moves, LegalIs DEF BeginLogin, At, tables
<1>8. ASSUME NEW t \in Threads, Mismatch(t) PROVE Creating'
  BY <1>8, Moves, LegalIs DEF Mismatch, At, Redirects, tables
<1>9. ASSUME NEW t \in Threads, Exchange(t) PROVE Creating'
  BY <1>9, Exchanges, LegalIs
<1>10. ASSUME NEW t \in Threads, Lookup(t) PROVE Creating'
  BY <1>10, LooksUp, LegalIs
<1>11. ASSUME NEW t \in Threads, Enter(t) PROVE Creating'
  BY <1>11, Enters, LegalIs DEF Lock
<1>12. ASSUME NEW t \in Threads, getOrCreateDevUser(t) PROVE Creating'
  <2>1. req[t] \in Legal /\ req[t].pc = "relook" /\ req[t].who = Dev
    BY <1>12, LooksAgain, Busy DEF PCs, SigningIn, Section, Legal
  <2>2. \A s \in Threads \ {t} : req[s].pc # "create"
    BY <2>1 DEF Locked, Section
  <2>3. QED
    BY <1>12, <2>1, <2>2, LooksAgain DEF Exists
<1>13. ASSUME NEW t \in Threads, Count(t) PROVE Creating'
  <2>1. req[t] \in Legal /\ req[t].pc = "count" /\ req[t].who # Dev
    BY <1>13, Counts, Busy, LegalIs, ZenonT(60) DEF PCs, SigningIn, Section, Legal
  <2>2. QED
    BY <1>13, <2>1, Counts
<1>14. ASSUME NEW t \in Threads, Create(t) PROVE Creating'
  <2>1. req[t] \in Legal /\ req[t].pc = "create"
    BY <1>14, Busy DEF Create, At, PCs, SigningIn, Section
  <2>2. \A s \in Threads \ {t} : req[s].pc # "create"
    BY <2>1 DEF Locked, Section
  <2>3. req'[t].pc \in {"session", "handle", "idle"} /\ \A s \in Threads \ {t} : req'[s] = req[s]
    BY <1>14, <2>1, Moves, LegalIs DEF Create, Refused, GivesUp, Redirects
  <2>4. QED
    BY <2>2, <2>3
<1>15. ASSUME NEW t \in Threads, createSession(t) PROVE Creating'
  BY <1>15, SignsIn, LegalIs
<1>16. ASSUME NEW t \in Threads, Logout(t) PROVE Creating'
  BY <1>16, Moves, LegalIs DEF Logout, At, Handling, Beside
<1>17. ASSUME NEW t \in Threads, LogoutAll(t) PROVE Creating'
  BY <1>17, Moves, LegalIs DEF LogoutAll, At, Handling, Beside
<1>18. ASSUME NEW t \in Threads, handleAPITokensCreate(t) PROVE Creating'
  BY <1>18, Moves, LegalIs DEF handleAPITokensCreate, At, Handling, Beside
<1>19. ASSUME NEW t \in Threads, handleAPITokensDelete(t) PROVE Creating'
  BY <1>19, Moves, LegalIs DEF handleAPITokensDelete, At, Handling, Beside
<1>20. ASSUME NEW t \in Threads, handleUsersPatch(t) PROVE Creating'
  BY <1>20, Patches, LegalIs DEF Handling, Beside
<1>21. ASSUME NEW t \in Threads, UpdateRole(t) PROVE Creating'
  <2>1. req'[t] = Idle /\ \A s \in Threads \ {t} : req'[s] = req[s]
    BY <1>21, Moves DEF UpdateRole
  <2>2. Present' \subseteq Present /\ created' = created
    <3>1. CASE role' = role
      BY <1>21, <3>1 DEF UpdateRole
    <3>2. CASE Exists(req[t].arg[1]) /\ role' = [role EXCEPT ![req[t].arg[1]] = req[t].arg[2]]
      BY <1>21, <3>2 DEF UpdateRole, TablesTyped, Exists
    <3>3. QED
      BY <1>21, <3>1, <3>2 DEF UpdateRole
  <2>3. QED
    BY <2>1, <2>2, LegalIs
<1>22. ASSUME NEW t \in Threads, Verify(t) PROVE Creating'
  BY <1>22, Verifies, LegalIs DEF Beside
<1>23. ASSUME NEW t \in Threads, Set(t) PROVE Creating'
  BY <1>23, Sets, LegalIs DEF Beside, Fails
<1>24. ASSUME NEW t \in Threads, MarkVerified(t) PROVE Creating'
  BY <1>24, Moves, LegalIs DEF MarkVerified, At, Beside, Fails
<1>25. ASSUME NEW t \in Threads, handleMeTokenDelete(t) PROVE Creating'
  BY <1>25, Moves, LegalIs DEF handleMeTokenDelete, At, Handling, Beside
<1>26. CASE Answer
  BY <1>26, LegalIs DEF Answer, tables
<1>27. CASE Expire
  BY <1>27 DEF Expire, Beside
<1>28. CASE Restart
  BY <1>28, LegalIs DEF Restart
<1>29. QED
  BY <1>2, <1>3, <1>4, <1>5, <1>6, <1>7, <1>8, <1>9, <1>10, <1>11, <1>12, <1>13, <1>14,
     <1>15, <1>16, <1>17, <1>18, <1>19, <1>20, <1>21, <1>22, <1>23, <1>24, <1>25, <1>26,
     <1>27, <1>28 DEF AccessNext, Step

\* A user that is created is an admin if it is the first, and the first stays one.
LEMMA FirstIsAdminStep == Inv /\ AccessNext => FirstIsAdmin'
<1> SUFFICES ASSUME Inv, AccessNext PROVE FirstIsAdmin'
  OBVIOUS
<1>1. Requests /\ TablesTyped /\ FirstIsAdmin /\ Creating /\ Patching
  BY DEF Inv
<1>2. UNCHANGED <<created, role>> => FirstIsAdmin'
  BY <1>1 DEF FirstIsAdmin, Present
<1>3. ASSUME NEW t \in Threads,
             \/ runtimeFor(t) \/ Discover(t) \/ BeginLogin(t) \/ Mismatch(t) \/ Exchange(t)
             \/ Lookup(t) \/ Enter(t) \/ getOrCreateDevUser(t) \/ Count(t)
             \/ createSession(t) \/ Logout(t) \/ LogoutAll(t) \/ handleAPITokensCreate(t)
             \/ handleAPITokensDelete(t) \/ handleUsersPatch(t) \/ Verify(t) \/ Set(t)
             \/ MarkVerified(t) \/ handleMeTokenDelete(t)
      PROVE  FirstIsAdmin'
  BY <1>2, <1>3 DEF runtimeFor, Discover, BeginLogin, Mismatch, Exchange, Lookup, Enter,
                    getOrCreateDevUser, Count, createSession, Logout, LogoutAll,
                    handleAPITokensCreate, handleAPITokensDelete, handleUsersPatch, Verify,
                    Set, MarkVerified, handleMeTokenDelete, tables, outside, Beside
<1>4. CASE Answer \/ Expire \/ Restart
  BY <1>2, <1>4 DEF Answer, Expire, Restart, tables
<1> USE <1>1 DEF FirstIsAdmin, Present
<1>5. ASSUME NEW t \in Threads, Authenticate(t) PROVE FirstIsAdmin'
  BY <1>5, Authenticates
<1>6. ASSUME NEW t \in Threads, Begin(t) PROVE FirstIsAdmin'
  BY <1>6, Moves DEF Begin, tables
<1>7. ASSUME NEW t \in Threads, CompleteLogin(t) PROVE FirstIsAdmin'
  BY <1>7, Moves DEF CompleteLogin, tables
<1>8. ASSUME NEW t \in Threads, Create(t) PROVE FirstIsAdmin'
  <2>1. CASE created' = created /\ role' = role
    BY <2>1
  <2>2. CASE /\ ~Exists(req[t].who) /\ created' = Append(created, req[t].who)
             /\ role' = [role EXCEPT ![req[t].who] = req[t].role]
    <3> DEFINE u == req[t].who
    <3>1. req[t] \in Legal /\ req[t].pc = "create"
      BY <1>8, Busy DEF Create, At, PCs, SigningIn, Section
    <3>2. u \in Users /\ req[t].role \in {"admin", "member"} /\ u \notin Present
      BY <2>2, <3>1, Places DEF SigningIn, Section, Exists
    <3>3. Present' = Present \cup {u}
      BY <2>2, <3>2 DEF TablesTyped, Nobody
    <3>4. Cardinality(Present') = Cardinality(Present) + 1
      BY <3>2, <3>3, PresentFinite, FS_AddElement
    <3>5. Len(created') = Len(created) + 1 /\ created' # <<>> /\ created \in Seq(Users)
      BY <2>2, <3>2 DEF TablesTyped
    <3>6. CASE created = <<>>
      <4>1. req[t].role = "admin" /\ created'[1] = u
        BY <2>2, <3>1, <3>2, <3>6 DEF Creating
      <4>2. role'[u] = "admin"
        BY <2>2, <3>2, <4>1 DEF TablesTyped
      <4>3. QED
        BY <3>2, <3>4, <3>5, <4>1, <4>2
    <3>7. CASE created # <<>>
      <4>1. created'[1] = created[1] /\ created[1] \in Users /\ created[1] # u
        BY <2>2, <3>2, <3>5, <3>7 DEF Nobody
      <4>2. role'[created[1]] = "admin"
        BY <2>2, <3>7, <4>1 DEF TablesTyped
      <4>3. QED
        BY <3>4, <3>5, <4>1, <4>2
    <3>8. QED
      BY <3>6, <3>7
  <2>3. QED
    BY <1>8, <2>1, <2>2 DEF Create
<1>9. ASSUME NEW t \in Threads, UpdateRole(t) PROVE FirstIsAdmin'
  <2>1. CASE role' = role
    BY <1>9, <2>1 DEF UpdateRole
  <2>2. CASE Exists(req[t].arg[1]) /\ role' = [role EXCEPT ![req[t].arg[1]] = req[t].arg[2]]
    <3> DEFINE u == req[t].arg[1]
    <3>1. req[t] \in Legal /\ req[t].pc = "update"
      BY <1>9, Busy DEF UpdateRole, At, PCs
    <3>2. u \in Users /\ req[t].arg[2] \in Roles /\ u \in Present
      BY <2>2, <3>1, Places DEF Exists
    <3>3. Present' = Present /\ created' = created
      BY <1>9, <2>2, <3>2 DEF UpdateRole, TablesTyped, Roles, Nobody
    <3>4. created # <<>> => role'[created[1]] = "admin"
      <4>1. CASE u = created[1]
        BY <2>2, <3>1, <3>2, <4>1 DEF Patching, TablesTyped
      <4>2. CASE u # created[1]
        BY <2>2, <3>2, <4>2 DEF TablesTyped
      <4>3. QED
        BY <4>1, <4>2
    <3>5. QED
      BY <3>3, <3>4
  <2>3. QED
    BY <1>9, <2>1, <2>2 DEF UpdateRole
<1>10. QED
  BY <1>3, <1>4, <1>5, <1>6, <1>7, <1>8, <1>9 DEF AccessNext, Step

\* A change of roles was decided on when there was a first user, who stays that.
LEMMA PatchingStep == Inv /\ AccessNext => Patching'
<1> SUFFICES ASSUME Inv, AccessNext PROVE Patching'
  OBVIOUS
<1>1. Requests /\ TablesTyped /\ FirstIsAdmin /\ Patching
  BY DEF Inv
<1> USE <1>1 DEF Patching
<1>2. ASSUME NEW t \in Threads, Begin(t) PROVE Patching'
  BY <1>2, Moves, LegalIs DEF Begin, tables, outside, Serve
<1>3. ASSUME NEW t \in Threads, CompleteLogin(t) PROVE Patching'
  BY <1>3, Moves, LegalIs DEF CompleteLogin, tables, outside, Serve
<1>4. ASSUME NEW t \in Threads, Authenticate(t) PROVE Patching'
  BY <1>4, Authenticates DEF FirstIsAdmin, Present, Exists
<1>5. ASSUME NEW t \in Threads, runtimeFor(t) PROVE Patching'
  BY <1>5, FindsRuntime, LegalIs
<1>6. ASSUME NEW t \in Threads, Discover(t) PROVE Patching'
  BY <1>6, Discovers, LegalIs DEF Fails
<1>7. ASSUME NEW t \in Threads, BeginLogin(t) PROVE Patching'
  BY <1>7, Moves, LegalIs DEF BeginLogin, At, tables
<1>8. ASSUME NEW t \in Threads, Mismatch(t) PROVE Patching'
  BY <1>8, Moves, LegalIs DEF Mismatch, At, Redirects, tables
<1>9. ASSUME NEW t \in Threads, Exchange(t) PROVE Patching'
  BY <1>9, Exchanges, LegalIs
<1>10. ASSUME NEW t \in Threads, Lookup(t) PROVE Patching'
  BY <1>10, LooksUp, LegalIs
<1>11. ASSUME NEW t \in Threads, Enter(t) PROVE Patching'
  BY <1>11, Enters, LegalIs DEF Lock
<1>12. ASSUME NEW t \in Threads, getOrCreateDevUser(t) PROVE Patching'
  BY <1>12, LooksAgain, LegalIs DEF Unlocks
<1>13. ASSUME NEW t \in Threads, Count(t) PROVE Patching'
  BY <1>13, Counts, LegalIs
<1>14. ASSUME NEW t \in Threads, Create(t) PROVE Patching'
  <2>1. (req'[t].pc \in {"session", "handle", "idle"} /\ req'[t].op = req[t].op) \/ req'[t] = Idle
    BY <1>14, Moves, LegalIs DEF Create, Refused, GivesUp, Redirects, At, PCs,
       SigningIn, Section
  <2>2. \A s \in Threads \ {t} : req'[s] = req[s]
    BY <1>14, Moves, LegalIs DEF Create, Refused, GivesUp, Redirects, At, PCs,
       SigningIn, Section
  <2>3. created # <<>> => created' # <<>> /\ created'[1] = created[1]
    BY <1>14 DEF Create, TablesTyped
  <2>4. req[t] # Idle
    BY <1>14, LegalIs DEF Create, At
  <2>5. \A s \in Threads : req[s].pc = "update" => req[s] # Idle /\ req[s].op = "patchUser"
    BY LegalIs, Busy, Places DEF PCs
  <2>6. QED
    BY <2>1, <2>2, <2>3, <2>4, <2>5, LegalIs
<1>15. ASSUME NEW t \in Threads, createSession(t) PROVE Patching'
  BY <1>15, SignsIn, LegalIs
<1>16. ASSUME NEW t \in Threads, Logout(t) PROVE Patching'
  BY <1>16, Moves, LegalIs DEF Logout, At, Handling, Beside
<1>17. ASSUME NEW t \in Threads, LogoutAll(t) PROVE Patching'
  BY <1>17, Moves, LegalIs DEF LogoutAll, At, Handling, Beside
<1>18. ASSUME NEW t \in Threads, handleAPITokensCreate(t) PROVE Patching'
  BY <1>18, Moves, LegalIs DEF handleAPITokensCreate, At, Handling, Beside
<1>19. ASSUME NEW t \in Threads, handleAPITokensDelete(t) PROVE Patching'
  BY <1>19, Moves, LegalIs DEF handleAPITokensDelete, At, Handling, Beside
<1>20. ASSUME NEW t \in Threads, handleUsersPatch(t) PROVE Patching'
  <2>1. req[t] # Idle /\ req[t].op = "patchUser"
    BY <1>20, Patches, LegalIs
  <2>2. QED
    BY <1>20, <2>1, Patches, LegalIs DEF MayChange
<1>21. ASSUME NEW t \in Threads, UpdateRole(t) PROVE Patching'
  BY <1>21, Moves, LegalIs DEF UpdateRole, At, Beside
<1>22. ASSUME NEW t \in Threads, Verify(t) PROVE Patching'
  BY <1>22, Verifies, LegalIs DEF Beside
<1>23. ASSUME NEW t \in Threads, Set(t) PROVE Patching'
  BY <1>23, Sets, LegalIs DEF Beside, Fails
<1>24. ASSUME NEW t \in Threads, MarkVerified(t) PROVE Patching'
  BY <1>24, Moves, LegalIs DEF MarkVerified, At, Beside, Fails
<1>25. ASSUME NEW t \in Threads, handleMeTokenDelete(t) PROVE Patching'
  BY <1>25, Moves, LegalIs DEF handleMeTokenDelete, At, Handling, Beside
<1>26. CASE Answer
  BY <1>26, LegalIs DEF Answer, tables
<1>27. CASE Expire
  BY <1>27, LegalIs DEF Expire, Beside, Fails
<1>28. CASE Restart
  BY <1>28, LegalIs DEF Restart, tables, outside, Fails
<1>29. QED
  BY <1>2, <1>3, <1>4, <1>5, <1>6, <1>7, <1>8, <1>9, <1>10, <1>11, <1>12, <1>13, <1>14,
     <1>15, <1>16, <1>17, <1>18, <1>19, <1>20, <1>21, <1>22, <1>23, <1>24, <1>25, <1>26,
     <1>27, <1>28 DEF AccessNext, Step

\* The dev user is created by who has looked under the lock.
LEMMA DevStep == Inv /\ AccessNext => DevNeverConflicts'
<1> SUFFICES ASSUME Inv, AccessNext PROVE DevNeverConflicts'
  OBVIOUS
<1>1. Requests /\ DevNeverConflicts /\ Creating
  BY DEF Inv
<1>2. UNCHANGED <<conflicted>> => DevNeverConflicts'
  BY <1>1 DEF DevNeverConflicts
<1>3. ASSUME NEW t \in Threads,
             \/ Begin(t) \/ CompleteLogin(t) \/ Authenticate(t) \/ runtimeFor(t)
             \/ Discover(t) \/ BeginLogin(t) \/ Mismatch(t) \/ Exchange(t) \/ Lookup(t)
             \/ Enter(t) \/ getOrCreateDevUser(t) \/ Count(t) \/ createSession(t)
             \/ Logout(t) \/ LogoutAll(t) \/ handleAPITokensCreate(t)
             \/ handleAPITokensDelete(t) \/ handleUsersPatch(t) \/ UpdateRole(t)
             \/ Verify(t) \/ Set(t) \/ MarkVerified(t) \/ handleMeTokenDelete(t)
      PROVE  DevNeverConflicts'
  BY <1>2, <1>3, ZenonT(60) DEF Begin, CompleteLogin, Authenticate, runtimeFor, Discover, BeginLogin,
                    Mismatch, Exchange, Lookup, Enter, getOrCreateDevUser, Count,
                    createSession, Logout, LogoutAll, handleAPITokensCreate,
                    handleAPITokensDelete, handleUsersPatch, UpdateRole, Verify, Set,
                    MarkVerified, handleMeTokenDelete, tables, outside, Beside
<1>4. CASE Answer \/ Expire \/ Restart
  BY <1>2, <1>4 DEF Answer, Expire, Restart, tables, outside, Beside
<1> USE <1>1 DEF DevNeverConflicts
<1>5. ASSUME NEW t \in Threads, Create(t) PROVE DevNeverConflicts'
  BY <1>5, LegalIs DEF Create, At, Exists, Creating, Present
<1>6. QED
  BY <1>3, <1>4, <1>5 DEF AccessNext, Step

-----------------------------------------------------------------------------
(* The runtime, and what is stored. *)

\* The runtime that is kept is the one that the others got.
LEMMA OneRuntimeStep == Inv /\ AccessNext => OneRuntime'
<1> SUFFICES ASSUME Inv, AccessNext PROVE OneRuntime'
  OBVIOUS
<1>1. Requests /\ OneRuntime /\ ServerTyped
  BY DEF Inv
<1> USE <1>1 DEF OneRuntime, Section, SigningIn, PCs, ServerTyped, Serve
<1>2. ASSUME NEW t \in Threads, Begin(t) PROVE OneRuntime'
  BY <1>2, Moves, LegalIs DEF Begin, tables, outside
<1>3. ASSUME NEW t \in Threads, CompleteLogin(t) PROVE OneRuntime'
  BY <1>3, Moves, LegalIs DEF CompleteLogin, tables, outside
<1>4. ASSUME NEW t \in Threads, Authenticate(t) PROVE OneRuntime'
  BY <1>4, Authenticates, LegalIs DEF Handler
<1>5. ASSUME NEW t \in Threads, runtimeFor(t) PROVE OneRuntime'
  BY <1>5, FindsRuntime, LegalIs
<1>6. ASSUME NEW t \in Threads, Discover(t) PROVE OneRuntime'
  BY <1>6, Discovers, LegalIs DEF Keep
<1>7. ASSUME NEW t \in Threads, BeginLogin(t) PROVE OneRuntime'
  BY <1>7, Moves, LegalIs DEF BeginLogin, At, tables
<1>8. ASSUME NEW t \in Threads, Mismatch(t) PROVE OneRuntime'
  BY <1>8, Moves, LegalIs DEF Mismatch, At, Redirects, tables
<1>9. ASSUME NEW t \in Threads, Exchange(t) PROVE OneRuntime'
  BY <1>9, Exchanges, LegalIs
<1>10. ASSUME NEW t \in Threads, Lookup(t) PROVE OneRuntime'
  BY <1>10, LooksUp, LegalIs
<1>11. ASSUME NEW t \in Threads, Enter(t) PROVE OneRuntime'
  BY <1>11, Enters, LegalIs DEF Lock
<1>12. ASSUME NEW t \in Threads, getOrCreateDevUser(t) PROVE OneRuntime'
  BY <1>12, LooksAgain, LegalIs DEF Unlocks
<1>13. ASSUME NEW t \in Threads, Count(t) PROVE OneRuntime'
  BY <1>13, Counts, LegalIs
<1>14. ASSUME NEW t \in Threads, Create(t) PROVE OneRuntime'
  BY <1>14, Moves, LegalIs DEF Create, At, Redirects, GivesUp, Refused, Unlocks
<1>15. ASSUME NEW t \in Threads, createSession(t) PROVE OneRuntime'
  BY <1>15, SignsIn, LegalIs
<1>16. ASSUME NEW t \in Threads, Logout(t) PROVE OneRuntime'
  BY <1>16, Moves, LegalIs DEF Logout, At, Handling, Beside
<1>17. ASSUME NEW t \in Threads, LogoutAll(t) PROVE OneRuntime'
  BY <1>17, Moves, LegalIs DEF LogoutAll, At, Handling, Beside
<1>18. ASSUME NEW t \in Threads, handleAPITokensCreate(t) PROVE OneRuntime'
  BY <1>18, Moves, LegalIs DEF handleAPITokensCreate, At, Handling, Beside
<1>19. ASSUME NEW t \in Threads, handleAPITokensDelete(t) PROVE OneRuntime'
  BY <1>19, Moves, LegalIs DEF handleAPITokensDelete, At, Handling, Beside
<1>20. ASSUME NEW t \in Threads, handleUsersPatch(t) PROVE OneRuntime'
  BY <1>20, Patches, LegalIs DEF Handling, Beside
<1>21. ASSUME NEW t \in Threads, UpdateRole(t) PROVE OneRuntime'
  BY <1>21, Moves, LegalIs DEF UpdateRole, At, Beside
<1>22. ASSUME NEW t \in Threads, Verify(t) PROVE OneRuntime'
  BY <1>22, Verifies, LegalIs DEF Beside
<1>23. ASSUME NEW t \in Threads, Set(t) PROVE OneRuntime'
  BY <1>23, Sets, LegalIs DEF Beside
<1>24. ASSUME NEW t \in Threads, MarkVerified(t) PROVE OneRuntime'
  BY <1>24, Moves, LegalIs DEF MarkVerified, At, Beside
<1>25. ASSUME NEW t \in Threads, handleMeTokenDelete(t) PROVE OneRuntime'
  BY <1>25, Moves, LegalIs DEF handleMeTokenDelete, At, Handling, Beside
<1>26. CASE Answer
  BY <1>26, LegalIs DEF Answer, tables
<1>27. CASE Expire
  BY <1>27, LegalIs DEF Expire, Beside
<1>28. CASE Restart
  BY <1>28, LegalIs DEF Restart, tables, outside
<1>29. QED
  BY <1>2, <1>3, <1>4, <1>5, <1>6, <1>7, <1>8, <1>9, <1>10, <1>11, <1>12, <1>13, <1>14,
     <1>15, <1>16, <1>17, <1>18, <1>19, <1>20, <1>21, <1>22, <1>23, <1>24, <1>25, <1>26,
     <1>27, <1>28 DEF AccessNext, Step

\* Only what was verified is stored, and the mark follows.
LEMMA StoredStep == Inv /\ AccessNext => StoredIsVerified'
<1> SUFFICES ASSUME Inv, AccessNext PROVE StoredIsVerified'
  OBVIOUS
<1>1. Requests /\ TablesTyped /\ ServerTyped /\ StoredIsVerified
  BY DEF Inv
<1>2. faults \in Nat /\ \A n \in Nat : n + 1 > 0
  BY DEF Inv, ServerTyped
<1> USE <1>1, <1>2 DEF StoredIsVerified, Holder, At, ServerTyped
<1>3. ASSUME NEW t \in Threads, Begin(t) PROVE StoredIsVerified'
  BY <1>3, Moves, LegalIs DEF Begin, tables, outside, Serve
<1>4. ASSUME NEW t \in Threads, CompleteLogin(t) PROVE StoredIsVerified'
  BY <1>4, Moves, LegalIs DEF CompleteLogin, tables, outside, Serve
<1>5. ASSUME NEW t \in Threads, Authenticate(t) PROVE StoredIsVerified'
  BY <1>5, Authenticates, LegalIs DEF Handler
<1>6. ASSUME NEW t \in Threads, runtimeFor(t) PROVE StoredIsVerified'
  BY <1>6, FindsRuntime, LegalIs
<1>7. ASSUME NEW t \in Threads, Discover(t) PROVE StoredIsVerified'
  <2>1. faults' \in {faults, faults + 1}
    BY <1>7 DEF Discover, Fails
  <2>2. req[t].pc = "discover" /\ \A s \in Threads \ {t} : req'[s] = req[s]
    BY <1>7, Discovers
  <2>3. creds' = creds
    BY <1>7, Discovers
  <2>4. QED
    BY <2>1, <2>2, <2>3
<1>8. ASSUME NEW t \in Threads, BeginLogin(t) PROVE StoredIsVerified'
  BY <1>8, Moves, LegalIs DEF BeginLogin, At, tables
<1>9. ASSUME NEW t \in Threads, Mismatch(t) PROVE StoredIsVerified'
  BY <1>9, Moves, LegalIs DEF Mismatch, At, Redirects, tables
<1>10. ASSUME NEW t \in Threads, Exchange(t) PROVE StoredIsVerified'
  BY <1>10, Exchanges, LegalIs
<1>11. ASSUME NEW t \in Threads, Lookup(t) PROVE StoredIsVerified'
  BY <1>11, LooksUp, LegalIs
<1>12. ASSUME NEW t \in Threads, Enter(t) PROVE StoredIsVerified'
  BY <1>12, Enters, LegalIs DEF Lock
<1>13. ASSUME NEW t \in Threads, getOrCreateDevUser(t) PROVE StoredIsVerified'
  BY <1>13, LooksAgain, LegalIs DEF Unlocks
<1>14. ASSUME NEW t \in Threads, Count(t) PROVE StoredIsVerified'
  BY <1>14, Counts, LegalIs
<1>15. ASSUME NEW t \in Threads, Create(t) PROVE StoredIsVerified'
  <2>1. faults' \in {faults, faults + 1}
    BY <1>15 DEF Create, Fails
  <2>2. req[t].pc = "create" /\ \A s \in Threads \ {t} : req'[s] = req[s]
    BY <1>15, Moves DEF Create, Refused, GivesUp, Redirects, PCs, SigningIn, Section
  <2>3. creds' = creds
    BY <1>15 DEF Create
  <2>4. QED
    BY <2>1, <2>2, <2>3
<1>16. ASSUME NEW t \in Threads, createSession(t) PROVE StoredIsVerified'
  <2>1. faults' \in {faults, faults + 1}
    BY <1>16, SignsInAs
  <2>2. req[t].pc = "session" /\ \A s \in Threads \ {t} : req'[s] = req[s]
    BY <1>16, SignsIn
  <2>3. creds' = creds
    BY <1>16, SignsIn
  <2>4. QED
    BY <2>1, <2>2, <2>3
<1>17. ASSUME NEW t \in Threads, Logout(t) PROVE StoredIsVerified'
  BY <1>17, Moves, LegalIs DEF Logout, At, Handling, Beside
<1>18. ASSUME NEW t \in Threads, LogoutAll(t) PROVE StoredIsVerified'
  BY <1>18, Moves, LegalIs DEF LogoutAll, At, Handling, Beside
<1>19. ASSUME NEW t \in Threads, handleAPITokensCreate(t) PROVE StoredIsVerified'
  BY <1>19, Moves, LegalIs DEF handleAPITokensCreate, At, Handling, Beside
<1>20. ASSUME NEW t \in Threads, handleAPITokensDelete(t) PROVE StoredIsVerified'
  BY <1>20, Moves, LegalIs DEF handleAPITokensDelete, At, Handling, Beside
<1>21. ASSUME NEW t \in Threads, handleUsersPatch(t) PROVE StoredIsVerified'
  BY <1>21, Patches, LegalIs DEF Handling, Beside
<1>22. ASSUME NEW t \in Threads, UpdateRole(t) PROVE StoredIsVerified'
  BY <1>22, Moves, LegalIs DEF UpdateRole, At, Beside
<1>23. ASSUME NEW t \in Threads, Verify(t) PROVE StoredIsVerified'
  BY <1>23, Verifies, LegalIs DEF Beside
<1>24. ASSUME NEW t \in Threads, Set(t) PROVE StoredIsVerified'
  <2>1. /\ req[t] \in Legal /\ req[t].pc = "set" /\ req[t].arg[2] = TRUE /\ Holder(t) \in Holders
        /\ \A s \in Threads \ {t} : req'[s] = req[s]
    BY <1>24, Sets, Places, HolderIs
  <2>2. CASE creds' = creds /\ Fails
    BY <2>1, <2>2 DEF Fails
  <2>3. CASE /\ creds' = [creds EXCEPT ![Holder(t)] = [good |-> req[t].arg[2], verified |-> FALSE]]
             /\ IF req[t].op = "putOwn" /\ req[t].arg[1] = "claude" THEN Goes(t, "mark") ELSE Ends(t)
             /\ UNCHANGED faults
    <3>1. \A h \in Holders : h # Holder(t) => creds'[h] = creds[h]
      BY <2>1, <2>3 DEF TablesTyped
    <3>2. creds'[Holder(t)] = [good |-> TRUE, verified |-> FALSE]
      BY <2>1, <2>3 DEF TablesTyped
    <3>3. /\ Holder(t)[1] = req[t].arg[1]
          /\ Holder(t)[2] # Service => req[t].op = "putOwn"
      BY <2>1, Places DEF Holder
    <3>4. CASE req[t].op = "putOwn" /\ req[t].arg[1] = "claude"
      <4>1. /\ req'[t].pc = "mark" /\ req'[t].arg = req[t].arg
            /\ req'[t].op = req[t].op /\ req'[t].who = req[t].who
        BY <2>1, <2>3, <3>4, Moves DEF PCs
      <4>2. QED
        BY <2>1, <2>3, <3>1, <3>2, <4>1
    <3>5. CASE ~(req[t].op = "putOwn" /\ req[t].arg[1] = "claude")
      BY <2>1, <2>3, <3>1, <3>2, <3>3, <3>5
    <3>6. QED
      BY <3>4, <3>5
  <2>4. QED
    BY <1>24, <2>2, <2>3 DEF Set
<1>25. ASSUME NEW t \in Threads, MarkVerified(t) PROVE StoredIsVerified'
  <2>1. /\ req[t].pc = "mark" /\ Holder(t) \in Holders /\ req'[t] = Idle
        /\ \A s \in Threads \ {t} : req'[s] = req[s]
    BY <1>25, Moves, HolderIs DEF MarkVerified
  <2>2. CASE creds' = creds /\ Fails
    BY <2>1, <2>2 DEF Fails
  <2>3. CASE creds' = [creds EXCEPT ![Holder(t)] = Mark(Holder(t))] /\ UNCHANGED faults
    <3>1. \A h \in Holders : h # Holder(t) => creds'[h] = creds[h]
      BY <2>1, <2>3 DEF TablesTyped
    <3>2. \/ creds'[Holder(t)] = NoRow
          \/ /\ creds[Holder(t)] # NoRow /\ creds'[Holder(t)].verified
             /\ creds'[Holder(t)].good = creds[Holder(t)].good
      BY <2>1, <2>3 DEF TablesTyped, Mark, Cred
    <3>3. QED
      BY <2>1, <2>3, <3>1, <3>2
  <2>4. QED
    BY <1>25, <2>2, <2>3 DEF MarkVerified
<1>26. ASSUME NEW t \in Threads, handleMeTokenDelete(t) PROVE StoredIsVerified'
  BY <1>26, Moves, LegalIs DEF handleMeTokenDelete, At, Handling, Beside
<1>27. CASE Answer
  BY <1>27, LegalIs DEF Answer, tables
<1>28. CASE Expire
  BY <1>28, LegalIs DEF Expire, Beside, Fails
<1>29. CASE Restart
  BY <1>29, LegalIs DEF Restart, tables, outside, Fails
<1>30. QED
  BY <1>3, <1>4, <1>5, <1>6, <1>7, <1>8, <1>9, <1>10, <1>11, <1>12, <1>13, <1>14, <1>15,
     <1>16, <1>17, <1>18, <1>19, <1>20, <1>21, <1>22, <1>23, <1>24, <1>25, <1>26, <1>27,
     <1>28, <1>29 DEF AccessNext, Step

-----------------------------------------------------------------------------
(* Signing in. *)

\* Nothing that a login rests on is taken back.
LEMMA NeverTakenBack == Inv /\ AccessNext => Grows
<1> SUFFICES ASSUME Inv, AccessNext PROVE Grows
  OBVIOUS
<1>1. Requests /\ OutsideTyped
  BY DEF Inv
<1>2. logins \in [LoginIds -> {NoRow, Gone} \cup Row]
  BY DEF Inv, TablesTyped
<1>3. UNCHANGED <<devUser, begun, answers, logins>> => Grows
  BY <1>1, <1>2 DEF Grows
<1>4. ASSUME NEW t \in Threads,
             \/ runtimeFor(t) \/ Discover(t) \/ Mismatch(t) \/ Exchange(t) \/ Lookup(t)
             \/ Enter(t) \/ getOrCreateDevUser(t) \/ Count(t) \/ Create(t)
             \/ handleAPITokensCreate(t) \/ handleAPITokensDelete(t) \/ handleUsersPatch(t)
             \/ UpdateRole(t) \/ Verify(t) \/ Set(t) \/ MarkVerified(t)
             \/ handleMeTokenDelete(t)
      PROVE  Grows
  BY <1>3, <1>4 DEF runtimeFor, Discover, Mismatch, Exchange, Lookup, Enter,
                    getOrCreateDevUser, Count, Create, handleAPITokensCreate,
                    handleAPITokensDelete, handleUsersPatch, UpdateRole, Verify, Set,
                    MarkVerified, handleMeTokenDelete, tables, outside, Beside
<1>5. CASE Restart
  BY <1>3, <1>5 DEF Restart, tables, outside
<1> USE <1>1, <1>2 DEF Grows
<1>6. ASSUME NEW t \in Threads, Authenticate(t) PROVE Grows
  BY <1>6, Authenticates
<1>7. ASSUME NEW t \in Threads, Begin(t) PROVE Grows
  BY <1>7 DEF Begin, outside, tables
<1>8. ASSUME NEW t \in Threads, CompleteLogin(t) PROVE Grows
  BY <1>8 DEF CompleteLogin, outside, tables
<1>9. ASSUME NEW t \in Threads, BeginLogin(t) PROVE Grows
  BY <1>9 DEF BeginLogin, Fresh, tables
<1>10. CASE Answer
  BY <1>10 DEF Answer, tables
<1>11. ASSUME NEW t \in Threads, createSession(t) PROVE Grows
  <2>1. logins' = logins \/ \E l \in Fresh(logins, NoRow) :
           logins' = [logins EXCEPT ![l] = [user |-> req[t].who, live |-> TRUE]]
    BY <1>11, SignsInAs
  <2>2. \A l \in LoginIds : logins[l] # NoRow => logins'[l] = logins[l]
    BY <2>1 DEF Fresh
  <2>3. QED
    BY <1>11, <2>2, SignsIn
<1>12. ASSUME NEW t \in Threads, Logout(t) PROVE Grows
  BY <1>12 DEF Logout, Beside
<1>13. ASSUME NEW t \in Threads, LogoutAll(t) PROVE Grows
  BY <1>13 DEF LogoutAll, Beside
<1>14. CASE Expire
  <2>1. \A l \in LoginIds : logins[l] \in Row => logins'[l] \in Row /\ logins'[l].user = logins[l].user
    BY <1>14, RowIs DEF Expire, Row
  <2>2. \A l \in LoginIds : logins[l] = Gone => logins'[l] = Gone
    BY <1>14 DEF Expire
  <2>3. QED
    BY <1>14, <2>1, <2>2 DEF Expire, Beside
<1>15. QED
  BY <1>4, <1>5, <1>6, <1>7, <1>8, <1>9, <1>10, <1>11, <1>12, <1>13, <1>14 DEF AccessNext,
     Step

\* Only the start and the end of a login give a browser a cookie.
LEMMA OnlyLoginsGiveCookies ==
    Inv /\ AccessNext /\ (\A t \in Threads : ~BeginLogin(t) /\ ~createSession(t)) => Keeps
<1> SUFFICES ASSUME Inv, AccessNext, \A t \in Threads : ~BeginLogin(t) /\ ~createSession(t) PROVE Keeps
  OBVIOUS
<1>1. \A t \in Threads : ~BeginLogin(t) /\ ~createSession(t)
  OBVIOUS
<1>2. Requests /\ OutsideTyped
  BY DEF Inv
<1>3. UNCHANGED <<jar>> => Keeps
  BY <1>1, <1>2 DEF Keeps
<1>4. ASSUME NEW t \in Threads,
             \/ runtimeFor(t) \/ Lookup(t) \/ Enter(t) \/ getOrCreateDevUser(t) \/ Count(t)
             \/ handleAPITokensCreate(t) \/ handleAPITokensDelete(t) \/ handleUsersPatch(t)
             \/ UpdateRole(t) \/ Verify(t) \/ Set(t) \/ MarkVerified(t)
             \/ handleMeTokenDelete(t)
      PROVE  Keeps
  BY <1>3, <1>4 DEF runtimeFor, Lookup, Enter, getOrCreateDevUser, Count,
                    handleAPITokensCreate, handleAPITokensDelete, handleUsersPatch,
                    UpdateRole, Verify, Set, MarkVerified, handleMeTokenDelete, tables,
                    outside, Beside
<1>5. CASE Answer \/ Expire \/ Restart
  BY <1>3, <1>5 DEF Answer, Expire, Restart, tables, outside, Beside
<1> USE <1>1, <1>2 DEF Keeps, OutsideTyped, Jars
<1>6. ASSUME NEW t \in Threads, Authenticate(t) PROVE Keeps
  BY <1>6, Authenticates
<1>7. ASSUME NEW t \in Threads, Begin(t) PROVE Keeps
  BY <1>7 DEF Begin, outside
<1>8. ASSUME NEW t \in Threads, CompleteLogin(t) PROVE Keeps
  BY <1>8 DEF CompleteLogin, outside
<1>9. ASSUME NEW t \in Threads, Discover(t) PROVE Keeps
  <2>1. CASE jar' = jar
    BY <2>1
  <2>2. CASE jar' = [jar EXCEPT ![req[t].from] = [flow |-> 0, session |-> @.session]]
    BY <2>2
  <2>3. QED
    BY <1>9, <2>1, <2>2, DiscoversFor
<1>10. ASSUME NEW t \in Threads, BeginLogin(t) PROVE Keeps
  BY <1>10, <1>1
<1>11. ASSUME NEW t \in Threads, createSession(t) PROVE Keeps
  BY <1>11, <1>1
<1>12. ASSUME NEW t \in Threads, Mismatch(t) PROVE Keeps
  BY <1>12 DEF Mismatch, Redirects
<1>13. ASSUME NEW t \in Threads, Exchange(t) PROVE Keeps
  BY <1>13 DEF Exchange, Redirects
<1>14. ASSUME NEW t \in Threads, Create(t) PROVE Keeps
  BY <1>14 DEF Create, Refused, GivesUp, Redirects
<1>15. ASSUME NEW t \in Threads, Logout(t) PROVE Keeps
  BY <1>15 DEF Logout, Forget
<1>16. ASSUME NEW t \in Threads, LogoutAll(t) PROVE Keeps
  BY <1>16 DEF LogoutAll, Forget
<1>17. QED
  BY <1>4, <1>5, <1>6, <1>7, <1>8, <1>9, <1>10, <1>11, <1>12, <1>13, <1>14, <1>15, <1>16
     DEF AccessNext, Step

\* Cookies stay those of a flow the browser began and a session there was.
LEMMA CookiesStep == Inv /\ AccessNext => Cookies'
<1> SUFFICES ASSUME Inv, AccessNext PROVE Cookies'
  OBVIOUS
<1>1. Requests /\ OutsideTyped /\ TablesTyped /\ Cookies
  BY DEF Inv
<1>2. Grows
  BY NeverTakenBack
<1>3. \A b \in Browsers : /\ jar[b].flow # 0 => begun[jar[b].flow] = b /\ jar[b].flow \in Flows
                          /\ jar[b].session # 0 => logins[jar[b].session] # NoRow
                                                   /\ jar[b].session \in LoginIds
  BY <1>1 DEF Cookies, OutsideTyped, Jars
<1>4. \A l \in LoginIds : logins[l] # NoRow => logins'[l] # NoRow
  BY <1>2, RowIs DEF Grows, NoRow, Gone
<1>5. \A b \in Browsers : b # Nobody
  BY LegalIs
<1>6. CASE \A t \in Threads : ~BeginLogin(t) /\ ~createSession(t)
  <2>1. Keeps
    BY <1>6, OnlyLoginsGiveCookies
  <2>2. QED
    BY <1>2, <1>3, <1>4, <1>5, <2>1 DEF Keeps, Cookies, Grows
<1>7. ASSUME NEW t \in Threads, BeginLogin(t)
      PROVE  Cookies'
  <2>1. PICK f \in Flows : /\ begun[f] = Nobody /\ begun' = [begun EXCEPT ![f] = req[t].from]
                           /\ jar' = [jar EXCEPT ![req[t].from].flow = f]
    BY <1>1, <1>7 DEF BeginLogin, Fresh, OutsideTyped
  <2>2. \A b \in Browsers : /\ jar'[b].session = jar[b].session
                            /\ jar'[b].flow = IF b = req[t].from THEN f ELSE jar[b].flow
    BY <1>1, <2>1 DEF OutsideTyped, Jars
  <2>3. begun'[f] = req[t].from
    BY <1>1, <2>1 DEF OutsideTyped
  <2>4. QED
    BY <1>2, <1>3, <1>4, <1>5, <2>2, <2>3 DEF Cookies, Grows
<1>8. ASSUME NEW t \in Threads, createSession(t)
      PROVE  Cookies'
  <2>1. /\ logins' = logins
        /\ \/ jar' = jar
           \/ jar' = [jar EXCEPT ![req[t].from] = [flow |-> 0, session |-> @.session]]
        => Cookies'
    BY <1>1, <1>2, <1>3, <1>4, <1>5 DEF Cookies, Grows, OutsideTyped, Jars
  <2>2. ASSUME NEW l \in Fresh(logins, NoRow),
               logins' = [logins EXCEPT ![l] = [user |-> req[t].who, live |-> TRUE]],
               \/ jar' = [jar EXCEPT ![req[t].from] =
                            [flow |-> 0, session |-> IF l = 0 THEN @.session ELSE l]]
               \/ jar' = [jar EXCEPT ![req[t].from].session = l]
        PROVE  Cookies'
    <3>1. l \in LoginIds /\ l # 0 /\ logins'[l] = [user |-> req[t].who, live |-> TRUE]
      BY <1>1, <2>2 DEF Fresh, TablesTyped, LoginIds
    <3>2. logins'[l] # NoRow
      BY <3>1 DEF NoRow
    <3>3. \A b \in Browsers : /\ jar'[b].flow \in {0, jar[b].flow}
                              /\ jar'[b].session \in {l, jar[b].session}
      BY <1>1, <2>2, <3>1 DEF OutsideTyped, Jars
    <3>4. QED
      BY <1>2, <1>3, <1>4, <1>5, <3>1, <3>2, <3>3 DEF Cookies, Grows
  <2>3. QED
    BY <1>8, <2>1, <2>2, SignsInAs
<1>9. QED
  BY <1>6, <1>7, <1>8

\* A callback goes on with what it was let in for.
LEMMA BeganStep == Inv /\ AccessNext => Began'
<1> SUFFICES ASSUME Inv, AccessNext PROVE Began'
  OBVIOUS
<1>1. Requests /\ OutsideTyped /\ Cookies
  BY DEF Inv
<1>2. Grows
  BY NeverTakenBack
<1>3. \A s \in Threads : req[s].pc \in PCs \ {"mismatch"} =>
         /\ req[s].op = "callback" =>
               begun'[req[s].arg] = req[s].from /\ answers'[req[s].arg] = req[s].who
         /\ req[s].op # "callback" /\ req[s].pc \in SigningIn => devUser'
  <2>1. \A s \in Threads : req[s].pc \in PCs /\ req[s].op = "callback" =>
           req[s].arg \in Flows /\ req[s].from \in Browsers /\ req[s].who \in Subjects
    BY <1>1, Busy DEF Legal, ArgsOf
  <2>2. \A b \in Browsers, u \in Subjects : b # Nobody /\ u # Nobody
    BY LegalIs
  <2>3. Began
    BY DEF Inv
  <2>4. QED
    BY <1>2, <2>1, <2>2, <2>3 DEF Began, Grows
<1> USE <1>1, <1>2, <1>3 DEF Began, PCs, SigningIn, Section
<1>4. ASSUME NEW t \in Threads, Begin(t) PROVE Began'
  BY <1>4, Moves, LegalIs DEF Begin, tables, outside, Serve
<1>5. ASSUME NEW t \in Threads, CompleteLogin(t) PROVE Began'
  <2>1. PICK b \in Browsers, f \in Flows :
           /\ answers[f] # Nobody
           /\ Serve(t, [op |-> "callback", from |-> b, who |-> answers[f], role |-> Nobody,
                        pc |-> IF StateMatches(jar[b].flow, f) THEN "runtime" ELSE "mismatch",
                        arg |-> f, rt |-> Nobody])
    BY <1>5 DEF CompleteLogin
  <2>2. /\ \A s \in Threads \ {t} : req'[s] = req[s]
        /\ req'[t] = [op |-> "callback", from |-> b, who |-> answers[f], role |-> Nobody,
                      pc |-> IF StateMatches(jar[b].flow, f) THEN "runtime" ELSE "mismatch",
                      arg |-> f, rt |-> Nobody]
    BY <2>1, Moves
  <2>3. /\ req'[t].op = "callback" /\ req'[t].arg = f /\ req'[t].who = answers'[f]
        /\ req'[t].from = b
        /\ req'[t].pc = IF StateMatches(jar[b].flow, f) THEN "runtime" ELSE "mismatch"
    BY <2>1, <2>2 DEF Grows
  <2>4. StateMatches(jar[b].flow, f) => begun'[f] = b
    BY LegalIs DEF StateMatches, Cookies, Grows
  <2>5. QED
    BY <2>2, <2>3, <2>4
<1>6. ASSUME NEW t \in Threads, Authenticate(t) PROVE Began'
  BY <1>6, Authenticates, LegalIs DEF Handler
<1>7. ASSUME NEW t \in Threads, runtimeFor(t) PROVE Began'
  BY <1>7, FindsRuntime, LegalIs
<1>8. ASSUME NEW t \in Threads, Discover(t) PROVE Began'
  BY <1>8, Discovers, LegalIs DEF Fails
<1>9. ASSUME NEW t \in Threads, BeginLogin(t) PROVE Began'
  BY <1>9, Moves, LegalIs DEF BeginLogin, At, tables
<1>10. ASSUME NEW t \in Threads, Mismatch(t) PROVE Began'
  BY <1>10, Moves, LegalIs DEF Mismatch, At, Redirects, tables
<1>11. ASSUME NEW t \in Threads, Exchange(t) PROVE Began'
  <2>1. req[t].pc = "exchange" /\ req[t].op = "callback"
    BY <1>11, Exchanges DEF Legal
  <2>2. QED
    BY <1>11, <2>1, Exchanges, LegalIs
<1>12. ASSUME NEW t \in Threads, Lookup(t) PROVE Began'
  BY <1>12, LooksUp, LegalIs
<1>13. ASSUME NEW t \in Threads, Enter(t) PROVE Began'
  BY <1>13, Enters, LegalIs DEF Lock
<1>14. ASSUME NEW t \in Threads, getOrCreateDevUser(t) PROVE Began'
  BY <1>14, LooksAgain, LegalIs DEF Unlocks
<1>15. ASSUME NEW t \in Threads, Count(t) PROVE Began'
  BY <1>15, Counts, LegalIs
<1>16. ASSUME NEW t \in Threads, Create(t) PROVE Began'
  BY <1>16, Moves, LegalIs DEF Create, At, Redirects, GivesUp, Refused, Unlocks, Fails
<1>17. ASSUME NEW t \in Threads, createSession(t) PROVE Began'
  BY <1>17, SignsIn, LegalIs
<1>18. ASSUME NEW t \in Threads, Logout(t) PROVE Began'
  BY <1>18, Moves, LegalIs DEF Logout, At, Handling, Beside
<1>19. ASSUME NEW t \in Threads, LogoutAll(t) PROVE Began'
  BY <1>19, Moves, LegalIs DEF LogoutAll, At, Handling, Beside
<1>20. ASSUME NEW t \in Threads, handleAPITokensCreate(t) PROVE Began'
  BY <1>20, Moves, LegalIs DEF handleAPITokensCreate, At, Handling, Beside
<1>21. ASSUME NEW t \in Threads, handleAPITokensDelete(t) PROVE Began'
  BY <1>21, Moves, LegalIs DEF handleAPITokensDelete, At, Handling, Beside
<1>22. ASSUME NEW t \in Threads, handleUsersPatch(t) PROVE Began'
  BY <1>22, Patches, LegalIs DEF Handling, Beside
<1>23. ASSUME NEW t \in Threads, UpdateRole(t) PROVE Began'
  BY <1>23, Moves, LegalIs DEF UpdateRole, At, Beside
<1>24. ASSUME NEW t \in Threads, Verify(t) PROVE Began'
  BY <1>24, Verifies, LegalIs DEF Beside
<1>25. ASSUME NEW t \in Threads, Set(t) PROVE Began'
  BY <1>25, Sets, LegalIs DEF Beside, Fails
<1>26. ASSUME NEW t \in Threads, MarkVerified(t) PROVE Began'
  BY <1>26, Moves, LegalIs DEF MarkVerified, At, Beside, Fails
<1>27. ASSUME NEW t \in Threads, handleMeTokenDelete(t) PROVE Began'
  BY <1>27, Moves, LegalIs DEF handleMeTokenDelete, At, Handling, Beside
<1>28. CASE Answer
  BY <1>28, LegalIs DEF Answer, tables
<1>29. CASE Expire
  BY <1>29, LegalIs DEF Expire, Beside, Fails
<1>30. CASE Restart
  BY <1>30, LegalIs DEF Restart, tables, outside, Fails
<1>31. QED
  BY <1>4, <1>5, <1>6, <1>7, <1>8, <1>9, <1>10, <1>11, <1>12, <1>13, <1>14, <1>15, <1>16,
     <1>17, <1>18, <1>19, <1>20, <1>21, <1>22, <1>23, <1>24, <1>25, <1>26, <1>27, <1>28,
     <1>29, <1>30 DEF AccessNext, Step

\* A browser that is signed in is so as who answered a login it began.
LEMMA SessionBelongsStep == Inv /\ AccessNext => SessionBelongs'
<1> SUFFICES ASSUME Inv, AccessNext PROVE SessionBelongs'
  OBVIOUS
<1>1. Requests /\ OutsideTyped /\ TablesTyped /\ Cookies /\ Began /\ SessionBelongs
  BY DEF Inv
<1>2. Grows
  BY NeverTakenBack
<1>3. \A b \in Browsers : jar[b].session # 0 =>
         jar[b].session \in LoginIds /\ logins[jar[b].session] # NoRow
  BY <1>1 DEF Cookies, OutsideTyped, Jars
<1>4. \A b \in Browsers, u \in Subjects : b # Nobody /\ u # Nobody
  BY LegalIs
<1> DEFINE Own(b, u) == \/ \E f \in Flows : begun[f] = b /\ answers[f] = u
                        \/ devUser /\ u = Dev
           OwnNext(b, u) == \/ \E f \in Flows : begun'[f] = b /\ answers'[f] = u
                            \/ devUser' /\ u = Dev
<1>5. ASSUME NEW b \in Browsers, NEW u \in Users, Own(b, u)
      PROVE  OwnNext(b, u)
  <2>1. ASSUME NEW f \in Flows, begun[f] = b, answers[f] = u
        PROVE  begun'[f] = b /\ answers'[f] = u
    BY <1>2, <1>4, <2>1, LegalIs DEF Grows
  <2>2. QED
    BY <1>2, <1>5, <2>1 DEF Grows
\* A browser that keeps its session keeps it as the same user.
<1>6. ASSUME NEW b \in Browsers, jar[b].session # 0, logins'[jar[b].session] \notin {NoRow, Gone}
      PROVE  OwnNext(b, logins'[jar[b].session].user)
  <2> DEFINE l == jar[b].session
  <2>1. l \in LoginIds /\ logins[l] \in Row /\ logins'[l].user = logins[l].user
    BY <1>2, <1>3, <1>6 DEF Grows
  <2>2. Own(b, logins[l].user) /\ logins[l].user \in Users
    BY <1>1, <1>6, <2>1, RowIs DEF SessionBelongs, Row
  <2> HIDE DEF l, Own, OwnNext
  <2>3. OwnNext(b, logins[l].user)
    BY <1>5, <2>2
  <2>4. QED
    BY <2>1, <2>3 DEF l
<1>7. ASSUME Keeps
      PROVE  SessionBelongs'
  BY <1>6, <1>7 DEF Keeps, SessionBelongs
<1>8. ASSUME NEW t \in Threads, BeginLogin(t)
      PROVE  SessionBelongs'
  <2>1. \A b \in Browsers : jar'[b].session = jar[b].session
    BY <1>1, <1>8 DEF BeginLogin, OutsideTyped, Jars
  <2>2. QED
    BY <1>6, <2>1 DEF SessionBelongs
<1>9. ASSUME NEW t \in Threads, createSession(t)
      PROVE  SessionBelongs'
  <2>1. /\ req[t] \in Legal /\ req[t].pc = "session" /\ req[t].who \in Users
        /\ req[t].from \in Browsers /\ (req[t].op # "callback" => req[t].who = Dev)
    BY <1>1, <1>9, SignsIn, Places DEF SigningIn
  <2>2. Own(req[t].from, req[t].who)
    <3>1. CASE req[t].op = "callback"
      <4>1. req[t].arg \in Flows
        BY <2>1, <3>1 DEF Legal, ArgsOf
      <4>2. begun[req[t].arg] = req[t].from /\ answers[req[t].arg] = req[t].who
        BY <1>1, <2>1, <3>1 DEF Began, PCs, SigningIn
      <4>3. QED
        BY <4>1, <4>2
    <3>2. CASE req[t].op # "callback"
      BY <1>1, <2>1, <3>2 DEF Began, PCs, SigningIn
    <3>3. QED
      BY <3>1, <3>2
  <2>3. OwnNext(req[t].from, req[t].who)
    BY <1>5, <2>1, <2>2
  <2>4. ASSUME logins' = logins,
               \/ jar' = jar
               \/ jar' = [jar EXCEPT ![req[t].from] = [flow |-> 0, session |-> @.session]]
        PROVE  SessionBelongs'
    <3>1. \A b \in Browsers : jar'[b].session = jar[b].session
      BY <1>1, <2>4 DEF OutsideTyped, Jars
    <3>2. QED
      BY <1>6, <3>1 DEF SessionBelongs
  <2>5. ASSUME NEW l \in Fresh(logins, NoRow),
               logins' = [logins EXCEPT ![l] = [user |-> req[t].who, live |-> TRUE]],
               \/ jar' = [jar EXCEPT ![req[t].from] =
                            [flow |-> 0, session |-> IF l = 0 THEN @.session ELSE l]]
               \/ jar' = [jar EXCEPT ![req[t].from].session = l]
        PROVE  SessionBelongs'
    <3>1. l \in LoginIds /\ l # 0 /\ logins'[l] = [user |-> req[t].who, live |-> TRUE]
      BY <1>1, <2>5 DEF Fresh, TablesTyped, LoginIds
    <3>2. \A b \in Browsers : /\ b # req[t].from => jar'[b].session = jar[b].session
                              /\ b = req[t].from => jar'[b].session = l
      BY <1>1, <2>5, <3>1 DEF OutsideTyped, Jars
    <3>3. logins'[l].user = req[t].who
      BY <3>1
    <3>4. QED
      BY <1>6, <2>3, <3>1, <3>2, <3>3 DEF SessionBelongs
  <2>6. QED
    BY <1>9, <2>4, <2>5, SignsInAs
<1>10. QED
  BY <1>7, <1>8, <1>9, OnlyLoginsGiveCookies

-----------------------------------------------------------------------------
(* The invariant. *)

\* It holds of a new server, and of one that was there before.
LEMMA InitHolds == AccessInit => Inv
<1> SUFFICES ASSUME AccessInit PROVE Inv
  OBVIOUS
<1>1. \A t \in Threads : req[t] = Idle
  BY DEF AccessInit
<1>2. Requests
  BY DEF AccessInit, Requests
<1>3. PICK start \in Starts, a \in Subjects, b \in Subjects, x \in Browsers, y \in Browsers,
           r \in Roles :
       LET by(f) == CASE f = 1 -> x [] f = 2 -> y [] OTHER -> Nobody
           is(f) == CASE f = 1 -> a [] f = 2 -> b [] OTHER -> Nobody
           of(w) == CASE w = x -> 1 [] w = y -> 2 [] OTHER -> 0
       IN  /\ a # b /\ x # y
           /\ IF start = "signedIn"
              THEN /\ created = <<a, b>> /\ spent = {1, 2}
                   /\ role = [u \in Users |-> CASE u = a -> "admin" [] u = b -> r
                                                 [] OTHER -> Nobody]
                   /\ logins = [l \in LoginIds |->
                         IF l \in {1, 2} THEN [user |-> is(l), live |-> TRUE] ELSE NoRow]
              ELSE /\ created = <<>> /\ spent = {} /\ role = [u \in Users |-> Nobody]
                   /\ logins = [l \in LoginIds |-> NoRow]
           /\ begun = [f \in Flows |-> IF start = "empty" THEN Nobody ELSE by(f)]
           /\ answers = [f \in Flows |-> IF start = "empty" THEN Nobody ELSE is(f)]
           /\ jar = [w \in Browsers |->
                [flow    |-> IF start = "atProvider" THEN of(w) ELSE 0,
                 session |-> IF start = "signedIn" THEN of(w) ELSE 0]]
  BY DEF AccessInit
<1>4. {1, 2} \subseteq Flows /\ {1, 2} \subseteq LoginIds /\ 0 \notin Flows
  <2>1. MaxRequests \in Nat
    BY AccessAssumption
  <2>2. QED
    BY <2>1 DEF Flows, LoginIds
<1>5. a \in Users /\ b \in Users /\ Nobody \notin Users /\ Nobody \notin Browsers /\ a # b /\ x # y
  BY <1>3, LegalIs
<1>6. /\ devUser \in BOOLEAN /\ tokens = [k \in TokenIds |-> NoRow]
      /\ creds = [h \in Holders |-> NoRow] /\ runtime = Nobody /\ firstUserMu = Nobody
      /\ served = 0 /\ faults = 0 /\ conflicted = {}
  BY DEF AccessInit
<1>7. ServerTyped
  BY <1>6, AccessAssumption DEF ServerTyped
\* Who begins which login, and who answers it.
<1>8. /\ begun \in [Flows -> Browsers \cup {Nobody}] /\ answers \in [Flows -> Subjects \cup {Nobody}]
      /\ start # "empty" => begun[1] = x /\ begun[2] = y /\ answers[1] = a /\ answers[2] = b
  BY <1>3, <1>4
<1>9. /\ \A w \in Browsers \ {x, y} : jar[w] = [flow |-> 0, session |-> 0]
      /\ jar[x] = [flow |-> IF start = "atProvider" THEN 1 ELSE 0,
                   session |-> IF start = "signedIn" THEN 1 ELSE 0]
      /\ jar[y] = [flow |-> IF start = "atProvider" THEN 2 ELSE 0,
                   session |-> IF start = "signedIn" THEN 2 ELSE 0]
      /\ jar \in Jars
  <2>1. \A w \in Browsers \ {x, y} : jar[w] = [flow |-> 0, session |-> 0]
    BY <1>3
  <2>2. jar[x] = [flow |-> IF start = "atProvider" THEN 1 ELSE 0,
                  session |-> IF start = "signedIn" THEN 1 ELSE 0]
    BY <1>3
  <2>3. jar[y] = [flow |-> IF start = "atProvider" THEN 2 ELSE 0,
                  session |-> IF start = "signedIn" THEN 2 ELSE 0]
    BY <1>3, <1>5
  <2>4. \A w \in Browsers : jar[w] \in [flow : {0} \cup Flows, session : {0} \cup LoginIds]
    BY <2>1, <2>2, <2>3, <1>4
  <2>5. jar = [w \in Browsers |-> jar[w]]
    BY <1>3
  <2>6. QED
    BY <2>1, <2>2, <2>3, <2>4, <2>5 DEF Jars
<1>10. spent \subseteq Flows
  BY <1>3, <1>4
<1>11. OutsideTyped
  BY <1>6, <1>8, <1>9, <1>10 DEF OutsideTyped
\* The users of a database that has some.
<1>12. CASE start = "signedIn"
  <2>1. /\ created = <<a, b>>
        /\ role = [u \in Users |-> CASE u = a -> "admin" [] u = b -> r [] OTHER -> Nobody]
        /\ logins = [l \in LoginIds |->
              IF l \in {1, 2} THEN [user |-> IF l = 1 THEN a ELSE b, live |-> TRUE] ELSE NoRow]
    BY <1>3, <1>12
  <2>2. role[a] = "admin" /\ role[b] = r /\ r \in Roles
    BY <1>5, <2>1
  <2>3. logins \in [LoginIds -> {NoRow, Gone} \cup Row] /\ logins[1].user = a /\ logins[2].user = b
        /\ logins[1] # NoRow /\ logins[2] # NoRow
    <3>1. [user |-> a, live |-> TRUE] \in Row /\ [user |-> b, live |-> TRUE] \in Row
      BY <1>5 DEF Row
    <3>2. logins[1] = [user |-> a, live |-> TRUE] /\ logins[2] = [user |-> b, live |-> TRUE]
      BY <2>1, <1>4
    <3>3. QED
      <4>1. \A l \in LoginIds : logins[l] \in {NoRow, Gone} \cup Row
        BY <2>1, <3>1
      <4>2. logins = [l \in LoginIds |-> logins[l]]
        BY <2>1
      <4>3. logins \in [LoginIds -> {NoRow, Gone} \cup Row]
        BY <4>1, <4>2
      <4>4. logins[1] # NoRow /\ logins[2] # NoRow
        BY <3>1, <3>2, RowIs
      <4>5. logins[1].user = a /\ logins[2].user = b
        BY <3>2
      <4>6. QED
        BY <4>3, <4>4, <4>5
  <2>4. role \in [Users -> Roles \cup {Nobody}]
    BY <2>1 DEF Roles
  <2>5. TablesTyped
    BY <1>5, <1>6, <2>1, <2>3, <2>4 DEF TablesTyped
  <2>6. Present = {a, b}
    BY <1>5, <2>1, <2>2 DEF Present, Roles, Nobody
  <2>7. Cardinality({a, b}) = 2
    <3>1. IsFiniteSet({a}) /\ Cardinality({a}) = 1
      BY FS_Singleton
    <3>2. Cardinality({a} \cup {b}) = IF b \in {a} THEN Cardinality({a}) ELSE Cardinality({a}) + 1
      BY <3>1, FS_AddElement, Zenon
    <3>3. {a, b} = {a} \cup {b} /\ b \notin {a}
      BY <1>5
    <3>4. QED
      BY <3>1, <3>2, <3>3
  <2>8. FirstIsAdmin
    BY <1>5, <2>1, <2>2, <2>6, <2>7 DEF FirstIsAdmin
  <2>9. Cookies
    BY <1>9, <1>12, <2>3 DEF Cookies
  <2>10. SessionBelongs
    BY <1>4, <1>8, <1>9, <1>12, <2>3 DEF SessionBelongs
  <2>11. QED
    BY <1>1, <1>2, <1>5, <1>6, <1>7, <1>11, <2>5, <2>8, <2>9, <2>10, LegalIs
       DEF Inv, Locked, Creating, Patching, Began, OneRuntime, StoredIsVerified, DevNeverConflicts,
           Section, Idle
<1>13. CASE start # "signedIn"
  <2>1. created = <<>> /\ role = [u \in Users |-> Nobody] /\ logins = [l \in LoginIds |-> NoRow]
    BY <1>3, <1>13
  <2>2. TablesTyped
    BY <1>6, <2>1 DEF TablesTyped
  <2>3. FirstIsAdmin
    <3>1. Present = {}
      BY <2>1 DEF Present
    <3>2. Cardinality({}) = 0
      BY FS_EmptySet
    <3>3. QED
      BY <2>1, <3>1, <3>2 DEF FirstIsAdmin
  <2>4. Cookies /\ SessionBelongs
    <3>1. \A w \in Browsers : jar[w].session = 0
      BY <1>9, <1>13
    <3>2. \A w \in Browsers : jar[w].flow # 0 => begun[jar[w].flow] = w
      BY <1>4, <1>8, <1>9, <1>13
    <3>3. QED
      BY <3>1, <3>2 DEF Cookies, SessionBelongs
  <2>5. QED
    BY <1>1, <1>2, <1>5, <1>6, <1>7, <1>11, <2>2, <2>3, <2>4, LegalIs
       DEF Inv, Locked, Creating, Patching, Began, OneRuntime, StoredIsVerified, DevNeverConflicts,
           Section, Idle
<1>14. QED
  BY <1>12, <1>13

\* It is about nothing but the state.
LEMMA StutterKeeps == Inv /\ UNCHANGED accessVars => Inv'
BY DEF Inv, accessVars, Requests, TablesTyped, OutsideTyped, ServerTyped, Locked,
   FirstIsAdmin,
       Present, Creating, Patching, Cookies, Began, OneRuntime, StoredIsVerified, At, Holder,
       DevNeverConflicts, SessionBelongs

\* Every reachable state satisfies the invariant.
THEOREM InvHolds == AccessSpec => []Inv
<1>1. Inv /\ AccessNext => Inv'
  BY RequestsStep, TablesStep, OutsideStep, ServerStep, LockedStep, FirstIsAdminStep,
     CreatingStep,
     PatchingStep, CookiesStep, BeganStep, OneRuntimeStep, StoredStep, DevStep, SessionBelongsStep
     DEF Inv
<1>2. Inv /\ [AccessNext]_accessVars => Inv'
  BY <1>1, StutterKeeps
<1>3. QED
  BY InitHolds, <1>2, PTL DEF AccessSpec

-----------------------------------------------------------------------------
(* The properties. *)

\* Whatever requests overlap: there is an admin as soon as there is a user,
\* everybody uses one runtime, a stored credential is a verified one, the dev
\* user is created once, and firstUserMu is held by a request that is inside
\* (upsertUser, handleUsersPatch, runtimeFor, handleMeTokenPut).
THEOREM OverlapIsSafe == AccessSpec => []AccessOK
<1>1. Inv => AccessTypeOK
  <2> SUFFICES ASSUME Inv PROVE AccessTypeOK
    OBVIOUS
  <2>1. Requests /\ TablesTyped /\ OutsideTyped /\ ServerTyped /\ FirstIsAdmin
    BY DEF Inv
  <2>2. Len(created) <= Cardinality(Users)
    <3>1. IsFiniteSet(Users)
      BY AccessAssumption, FS_AddElement DEF Users
    <3>2. Cardinality(Present) <= Cardinality(Users)
      BY <3>1, FS_Subset DEF Present
    <3>3. QED
      BY <2>1, <3>2 DEF FirstIsAdmin
  <2>3. \A t \in Threads : req[t] # Idle =>
          /\ req[t].op \in MeOps \cup AdminOps \cup AuthOps \cup {"begin", "callback"}
          /\ req[t].from \in Browsers \cup TokenIds
          /\ req[t].who \in Users \cup {Nobody}
          /\ req[t].role \in Roles \cup {Nobody}
          /\ req[t].arg \in ArgsOf(req[t].op) /\ req[t].rt \in Threads \cup {Nobody}
    BY <2>1 DEF Requests, Legal, Request, Ops
  <2>4. /\ created \in Seq(Users) /\ role \in [Users -> Roles \cup {Nobody}]
        /\ \A l \in LoginIds : logins[l] \in {NoRow, Gone} \/ logins[l] \in Row
        /\ \A k \in TokenIds : tokens[k] \in {NoRow, Gone} \/ tokens[k] \in Row
        /\ \A h \in Holders : creds[h] = NoRow \/ creds[h] \in Cred
    BY <2>1 DEF TablesTyped
  <2>5. QED
    BY <2>1, <2>2, <2>3, <2>4 DEF AccessTypeOK, OutsideTyped, ServerTyped, Jars
<1>2. Inv => AdminRemains
  BY DEF Inv, FirstIsAdmin, AdminRemains
<1>3. Inv => LockInside
  BY DEF Inv, Locked, LockInside, ServerTyped, Section
<1>4. Inv => AccessOK
  BY <1>1, <1>2, <1>3 DEF Inv, AccessOK
<1>5. QED
  BY InvHolds, <1>4, PTL

\* A browser is signed in only as someone who answered a login that this
\* browser began, or as the dev user (BeginLogin, CompleteLogin).
THEOREM NoSessionOfAnother == AccessSpec => []SessionBelongs
<1>1. Inv => SessionBelongs
  BY DEF Inv
<1>2. QED
  BY InvHolds, <1>1, PTL

\* A login makes an admin of nobody but the first user, however many first
\* logins overlap (upsertUser counts under the lock and creates what it counted).
THEOREM OnlyTheFirstIsAdmin == AccessSpec => OneBootstrapAdmin
<1>1. ASSUME Inv, AccessNext, NEW u \in Subjects, ~Exists(u), role'[u] = "admin"
      PROVE  created = <<>>
  <2>1. Requests /\ TablesTyped /\ Creating
    BY <1>1 DEF Inv
  <2>2. role[u] # "admin" /\ u \in Users /\ u # Dev
    BY <1>1, LegalIs DEF Exists, Nobody
  <2>3. role' # role
    BY <1>1, <2>2
  <2>4. ASSUME NEW t \in Threads, Create(t)
        PROVE  created = <<>>
    <3>1. req[t].pc = "create" /\ role' = [role EXCEPT ![req[t].who] = req[t].role]
      BY <2>3, <2>4 DEF Create, At
    <3>2. req[t].who = u /\ req[t].role = "admin"
      BY <1>1, <2>1, <2>2, <3>1 DEF TablesTyped
    <3>3. QED
      BY <2>1, <2>2, <3>1, <3>2 DEF Creating
  <2>5. ASSUME NEW t \in Threads, UpdateRole(t)
        PROVE  FALSE
    <3>1. Exists(req[t].arg[1]) /\ role' = [role EXCEPT ![req[t].arg[1]] = req[t].arg[2]]
      BY <2>3, <2>5 DEF UpdateRole
    <3>2. req[t].arg[1] = u
      BY <1>1, <2>1, <2>2, <3>1 DEF TablesTyped
    <3>3. QED
      BY <1>1, <3>1, <3>2
  <2>6. ASSUME NEW t \in Threads,
               \/ runtimeFor(t) \/ Discover(t) \/ Lookup(t) \/ getOrCreateDevUser(t)
               \/ Count(t) \/ Authenticate(t) \/ createSession(t) \/ Exchange(t) \/ Enter(t)
               \/ handleUsersPatch(t) \/ Verify(t) \/ Set(t)
        PROVE  FALSE
    BY <2>1, <2>3, <2>6, FindsRuntime, Discovers, LooksUp, LooksAgain, Counts,
                         Authenticates, SignsIn, Exchanges, Enters, Patches, Verifies, Sets
  <2>7. ASSUME NEW t \in Threads,
               \/ Begin(t) \/ CompleteLogin(t) \/ BeginLogin(t) \/ Mismatch(t) \/ Logout(t)
               \/ LogoutAll(t) \/ handleAPITokensCreate(t) \/ handleAPITokensDelete(t)
               \/ MarkVerified(t) \/ handleMeTokenDelete(t)
        PROVE  FALSE
    BY <2>3, <2>7 DEF Begin, CompleteLogin, BeginLogin, Mismatch, Logout, LogoutAll,
                      handleAPITokensCreate, handleAPITokensDelete, MarkVerified,
                      handleMeTokenDelete, tables, Beside
  <2>8. CASE Answer \/ Expire \/ Restart
    BY <2>3, <2>8 DEF Answer, Expire, Restart, tables
  <2>9. QED
    BY <1>1, <2>4, <2>5, <2>6, <2>7, <2>8 DEF AccessNext, Step
<1>2. Inv /\ [AccessNext]_accessVars =>
        [\A u \in Subjects : ~Exists(u) /\ role'[u] = "admin" => created = <<>>]_accessVars
  BY <1>1
<1>3. QED
  BY InvHolds, <1>2, PTL DEF AccessSpec, OneBootstrapAdmin
=============================================================================
