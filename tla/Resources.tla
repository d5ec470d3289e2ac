----------------------------- MODULE Resources -----------------------------
(***************************************************************************)
(* What users own: templates, pipelines, triggers and schedules, behind    *)
(* the HTTP handlers that create, change and delete them (internal/api,    *)
(* internal/triggers, internal/schedules, internal/pipelines).             *)
(*                                                                         *)
(* A request is a thread: a handler decodes it, the service reads the row  *)
(* and checks who asks, and writes the row afterwards.  No transaction     *)
(* spans the two, so that a write may be based on a row that has changed.  *)
(* The database checks foreign keys and unique slugs at each write.        *)
(*                                                                         *)
(* Of a row the model keeps the owner, what a trigger or a schedule        *)
(* starts, and the slug of a trigger; names, texts and clocks are left out *)
(* (a request with an empty name is an invalid one).                       *)
(***************************************************************************)
EXTENDS Integers, FiniteSets

CONSTANTS Members, Admins, \* the users
          Templates, Pipelines, Triggers, Schedules, \* ids of rows
          Callers,         \* requests in flight at a time
          Bases,           \* what slugify makes of the names in use
          MaxSuffix,       \* how many slugs uniqueSlug tries
          MaxRequests      \* bound: requests altogether

Users   == Members \union Admins
Targets == Templates \union Pipelines
Ids     == Targets \union Triggers \union Schedules
Shared  == "shared"
None    == "none"
NoRow   == <<>>
Gone    == [gone |-> TRUE]
Slugs   == Bases \X (1 .. MaxSuffix)

ASSUME ResourcesAssumption ==
    /\ Members \intersect Admins = {}
    /\ Templates \intersect Pipelines = {} /\ Triggers \intersect Targets = {}
    /\ Schedules \intersect (Targets \union Triggers) = {}
    /\ Shared \notin Users /\ None \notin Targets
    /\ MaxSuffix \in Nat /\ MaxRequests \in Nat

VARIABLES
    rows,      \* id -> row, NoRow before it is made, Gone after it was deleted
    used,      \* ids that rows of runs refer to
    pc,        \* caller -> where its request is
    req,       \* caller -> the request
    old,       \* caller -> the row the service has read, or is to insert
    resp,      \* the answer this step gives: <<caller, answer>>, or none
    requests   \* number of requests so far

vars == <<rows, used, pc, req, old, resp, requests>>

Row == [owner : Users \union {Shared}, target : Targets \union {None},
        slug : Slugs \union {<<>>}]
Request == [op : {"create", "update", "delete"}, id : Ids, user : Users,
            shared : BOOLEAN, valid : BOOLEAN, target : Targets \union {None},
            base : Bases]
Answers == {"created", "ok", "gone", "not_found", "forbidden", "invalid",
            "conflict", "internal"}

\* The types of the rows, the calls in flight and their answers.
ResourcesTypeOK ==
    /\ \A i \in Ids : rows[i] \in {NoRow, Gone} \/ rows[i] \in Row
    /\ used \subseteq Ids
    /\ pc \in [Callers -> {"idle", "insert", "update", "delete"}]
    /\ \A c \in Callers : pc[c] # "idle" => req[c] \in Request
    /\ \A c \in Callers : old[c] = NoRow \/ old[c] \in Row
    /\ resp = <<>> \/ resp \in Callers \X Answers
    /\ requests \in 0 .. MaxRequests

Init ==
    /\ rows = [i \in Ids |-> NoRow] /\ used = {}
    /\ pc = [c \in Callers |-> "idle"]
    /\ req = [c \in Callers |-> NoRow] /\ old = [c \in Callers |-> NoRow]
    /\ resp = <<>> /\ requests = 0

-----------------------------------------------------------------------------
(* Who may see and change what; the same rules in every service. *)

Exists(i) == rows[i] \notin {NoRow, Gone}

visibleOwner(user, owner) == user \in Admins \/ owner \in {Shared, user}
mutableBy(user, owner)    == user \in Admins \/ owner = user

\* Mutant: a shared row has no owner at all.
ownerForNobody(user, shared) == IF user \in Admins /\ shared THEN None ELSE user
ownerFor(user, shared)    == IF user \in Admins /\ shared THEN Shared ELSE user

\* What reading a row for a user answers: the row is there and visible, and
\* the user may change it.
Get(user, i) ==
    IF Exists(i) /\ visibleOwner(user, rows[i].owner) THEN "ok" ELSE "not_found"
\* Mutant: whoever knows the id may change the row.
MutableByAnyone(user, i) == IF Exists(i) THEN "ok" ELSE "not_found"
Mutable(user, i) ==
    IF Get(user, i) # "ok" THEN "not_found"
    ELSE IF mutableBy(user, rows[i].owner) THEN "ok" ELSE "forbidden"

\* validateTarget: triggers and schedules start exactly one thing.
validateTarget(r) ==
    r.target \in IF r.id \in Triggers \union Schedules THEN Targets ELSE {None}

\* uniqueSlug: the first of base, base-2, ... that no trigger has, or none when
\* all that it tries are taken.
uniqueSlug(base) ==
    LET taken == {rows[i].slug : i \in {j \in Triggers : Exists(j)}}
        free  == {n \in 1 .. MaxSuffix : <<base, n>> \notin taken}
    IN  IF free = {} THEN <<>> ELSE <<base, CHOOSE n \in free : \A m \in free : n <= m>>

-----------------------------------------------------------------------------
(* The tables. *)

\* Foreign keys: what a row names exists; nobody names a row that is deleted.
KeysHold(row)  == row.target = None \/ Exists(row.target)
Referenced(i)  == i \in used \/ \E j \in Ids : Exists(j) /\ rows[j].target = i

\* Mutant: the slug column is not unique.
InsertBlind(c, row) ==
    IF ~KeysHold(row) THEN resp' = <<c, "invalid">> /\ rows' = rows
    ELSE /\ rows' = [rows EXCEPT ![req[c].id] = row]
         /\ resp' = <<c, "created">>

\* wrapConstraint: a broken key in a create or an update is an invalid request.
Insert(c, row) ==
    LET clash == \E i \in Triggers : Exists(i) /\ row.slug # <<>> /\ rows[i].slug = row.slug
    IN  IF clash THEN resp' = <<c, "conflict">> /\ rows' = rows
        ELSE IF ~KeysHold(row) THEN resp' = <<c, "invalid">> /\ rows' = rows
        ELSE /\ rows' = [rows EXCEPT ![req[c].id] = row]
             /\ resp' = <<c, "created">>

\* Mutant: renaming a trigger moves its address.
UpdateRowRenames(c, keys) ==
    LET r == req[c] IN
    IF keys /\ Exists(r.id)
    THEN /\ rows' = [rows EXCEPT ![r.id].slug = IF @ = <<>> THEN @ ELSE uniqueSlug(r.base)]
         /\ resp' = <<c, "ok">>
    ELSE resp' = <<c, "invalid">> /\ rows' = rows

\* The owner that an update writes comes from the row as it was read; the slug
\* is not written at all.
UpdateRow(c, keys) ==
    LET r   == req[c]
        row == [owner  |-> IF r.user \in Admins /\ r.shared THEN Shared ELSE old[c].owner,
                target |-> r.target,
                slug   |-> IF Exists(r.id) THEN rows[r.id].slug ELSE <<>>]
    IN  IF ~keys /\ Exists(r.id) THEN resp' = <<c, "invalid">> /\ rows' = rows
        ELSE IF ~Exists(r.id) THEN resp' = <<c, "not_found">> /\ rows' = rows
        ELSE /\ rows' = [rows EXCEPT ![r.id] = row]
             /\ resp' = <<c, "ok">>

\* Mutant: rows are deleted under those who refer to them.
DeleteAnyway(c) ==
    IF Exists(req[c].id)
    THEN /\ rows' = [rows EXCEPT ![req[c].id] = Gone]
         /\ resp' = <<c, "gone">>
    ELSE resp' = <<c, "not_found">> /\ rows' = rows

\* Mutant: a delete that the database refuses is reported as done.
DeleteSilently(c) ==
    /\ resp' = <<c, "gone">>
    /\ rows' = IF Referenced(req[c].id) THEN rows ELSE [rows EXCEPT ![req[c].id] = Gone]

\* A broken key in a delete is an internal error.
DeleteRow(c) ==
    IF ~Exists(req[c].id) THEN resp' = <<c, "not_found">> /\ rows' = rows
    ELSE IF Referenced(req[c].id)
         THEN resp' = <<c, "internal">> /\ rows' = rows
    ELSE /\ rows' = [rows EXCEPT ![req[c].id] = Gone]
         /\ resp' = <<c, "gone">>

-----------------------------------------------------------------------------
(* Requests.  Refuse answers at once; Proceed goes on to the write. *)

Begin(c) ==
    /\ pc[c] = "idle" /\ requests < MaxRequests /\ requests' = requests + 1
    /\ UNCHANGED <<rows, used>>
Refuse(c, answer) ==
    /\ resp' = <<c, answer>> /\ UNCHANGED <<pc, req, old>>
Proceed(c, r, step, row) ==
    /\ req' = [req EXCEPT ![c] = r]
    /\ pc' = [pc EXCEPT ![c] = step] /\ resp' = <<>>
    /\ old' = [old EXCEPT ![c] = row]
Done(c) ==
    /\ pc' = [pc EXCEPT ![c] = "idle"] /\ old' = [old EXCEPT ![c] = NoRow]
    /\ req' = [req EXCEPT ![c] = NoRow] /\ UNCHANGED <<used, requests>>

\* A handler checks what the request is to start; the service then asks who
\* calls (access), checks the fields, and at last what they refer to (target).
Try(c, r, access, target, step, row) ==
    LET answer == IF ~validateTarget(r) THEN "invalid"
                  ELSE IF access # "ok" THEN access
                  ELSE IF r.valid THEN target ELSE "invalid"
    IN  /\ Begin(c)
        /\ IF answer # "ok" THEN Refuse(c, answer) ELSE Proceed(c, r, step, row)

Creates(ids) == {r \in Request : /\ r.op = "create" /\ r.id \in ids /\ rows[r.id] = NoRow
                                 /\ \A d \in Callers : pc[d] = "insert" => req[d].id # r.id}
Updates(ids) == {r \in Request : r.op = "update" /\ r.id \in ids}
Deletes(ids) ==
    {r \in Request :
        /\ r.op = "delete" /\ r.id \in ids /\ r.valid /\ ~r.shared
        /\ r.target = IF r.id \in Targets THEN None ELSE CHOOSE t \in Targets : TRUE
        /\ r.base = CHOOSE b \in Bases : TRUE}

\* The row that a create is to insert.
NewRow(r, slug) ==
    [owner |-> ownerFor(r.user, r.shared), target |-> r.target, slug |-> slug]

handleTemplatesCreate(c) ==
    \E r \in Creates(Templates) : Try(c, r, "ok", "ok", "insert", NewRow(r, <<>>))
handlePipelinesCreate(c) ==
    \E r \in Creates(Pipelines) : Try(c, r, "ok", "ok", "insert", NewRow(r, <<>>))
handleSchedulesCreate(c) ==
    \E r \in Creates(Schedules) : Try(c, r, "ok", "ok", "insert", NewRow(r, <<>>))

\* A trigger may point only at a template that its author can see.
TemplateVisible(r) ==
    IF r.target \in Templates THEN Get(r.user, r.target) ELSE "ok"

\* The slug of a trigger is looked up before the insert.
handleTriggersCreate(c) ==
    \E r \in Creates(Triggers) :
        LET slug    == uniqueSlug(r.base)
            allowed == IF TemplateVisible(r) = "ok" /\ slug = <<>> THEN "conflict"
                       ELSE TemplateVisible(r)
        IN  Try(c, r, "ok", allowed, "insert", NewRow(r, slug))

CreateTemplate(c) ==
    pc[c] = "insert" /\ req[c].id \in Templates /\ Done(c) /\ Insert(c, old[c])
CreatePipeline(c) ==
    pc[c] = "insert" /\ req[c].id \in Pipelines /\ Done(c) /\ Insert(c, old[c])
CreateSchedule(c) ==
    pc[c] = "insert" /\ req[c].id \in Schedules /\ Done(c) /\ Insert(c, old[c])
CreateTrigger(c) ==
    pc[c] = "insert" /\ req[c].id \in Triggers /\ Done(c) /\ Insert(c, old[c])

\* Updates: the row is read and its reader checked, then what is asked.
handleTemplatesPatch(c) ==
    \E r \in Updates(Templates) : Try(c, r, Mutable(r.user, r.id), "ok", "update", rows[r.id])
handlePipelinesPatch(c) ==
    \E r \in Updates(Pipelines) : Try(c, r, Mutable(r.user, r.id), "ok", "update", rows[r.id])
handleSchedulesPatch(c) ==
    \E r \in Updates(Schedules) : Try(c, r, Mutable(r.user, r.id), "ok", "update", rows[r.id])
handleTriggersPatch(c) ==
    \E r \in Updates(Triggers) :
        Try(c, r, Mutable(r.user, r.id),
            IF Exists(r.id) /\ rows[r.id].target # r.target THEN TemplateVisible(r)
            ELSE "ok",
            "update", rows[r.id])

UpdateTemplate(c) ==
    /\ pc[c] = "update" /\ req[c].id \in Templates /\ Done(c) /\ UpdateRow(c, TRUE)
UpdatePipeline(c) ==
    /\ pc[c] = "update" /\ req[c].id \in Pipelines /\ Done(c) /\ UpdateRow(c, TRUE)
UpdateSchedule(c) ==
    /\ pc[c] = "update" /\ req[c].id \in Schedules /\ Done(c)
    /\ UpdateRow(c, Exists(req[c].target))

\* The update of a trigger writes an empty template id, not NULL, for one that
\* starts a pipeline: no template has it, and the key does not hold.
UpdateTrigger(c) ==
    /\ pc[c] = "update" /\ req[c].id \in Triggers /\ Done(c)
    /\ UpdateRow(c, req[c].target \in Templates /\ Exists(req[c].target))

\* Deletes carry no body.
TryDelete(c, ids) ==
    \E r \in Deletes(ids) : Try(c, r, Mutable(r.user, r.id), "ok", "delete", rows[r.id])

handleTemplatesDelete(c) == TryDelete(c, Templates)
handlePipelinesDelete(c) == TryDelete(c, Pipelines)
handleSchedulesDelete(c) == TryDelete(c, Schedules)
handleTriggersDelete(c)  == TryDelete(c, Triggers)

DeleteTemplate(c) ==
    pc[c] = "delete" /\ req[c].id \in Templates /\ Done(c) /\ DeleteRow(c)
DeletePipeline(c) ==
    pc[c] = "delete" /\ req[c].id \in Pipelines /\ Done(c) /\ DeleteRow(c)
DeleteSchedule(c) ==
    pc[c] = "delete" /\ req[c].id \in Schedules /\ Done(c) /\ DeleteRow(c)
DeleteTrigger(c) ==
    pc[c] = "delete" /\ req[c].id \in Triggers /\ Done(c) /\ DeleteRow(c)

\* A run is started: its row refers to its template and, when a delivery
\* started it, to the trigger.  The row of a pipeline run keeps where it came
\* from as a text and goes when its pipeline does; only the run of a step
\* refers to the template that the step names and, through the step, to the
\* pipeline.
RunStarts(i) ==
    LET start == IF i \in Triggers \union Schedules THEN rows[i].target ELSE i
    IN  /\ Exists(i)
        /\ \/ /\ start \in Templates
              /\ used' = used \union {start} \union ({i} \ Schedules)
           \/ /\ start \in Pipelines
              /\ \E t \in Templates : Exists(t) /\ used' = used \union {start, t}
        /\ used' # used /\ resp' = <<>> /\ UNCHANGED <<rows, pc, req, old, requests>>

Next ==
    \/ \E c \in Callers :
         \/ handleTemplatesCreate(c) \/ handlePipelinesCreate(c)
         \/ handleSchedulesCreate(c) \/ handleTriggersCreate(c)
         \/ handleTemplatesPatch(c) \/ handlePipelinesPatch(c)
         \/ handleSchedulesPatch(c) \/ handleTriggersPatch(c)
         \/ handleTemplatesDelete(c) \/ handlePipelinesDelete(c)
         \/ handleSchedulesDelete(c) \/ handleTriggersDelete(c)
         \/ CreateTemplate(c) \/ CreatePipeline(c) \/ CreateSchedule(c) \/ CreateTrigger(c)
         \/ UpdateTemplate(c) \/ UpdatePipeline(c) \/ UpdateSchedule(c) \/ UpdateTrigger(c)
         \/ DeleteTemplate(c) \/ DeletePipeline(c) \/ DeleteSchedule(c) \/ DeleteTrigger(c)
    \/ \E i \in Ids : RunStarts(i)

Spec == Init /\ [][Next]_vars

-----------------------------------------------------------------------------
(* Properties. *)

\* Nothing refers to a row that is gone, however deletes, updates and creates
\* that were checked earlier interleave (foreign keys).
RefsExist ==
    /\ \A i \in Ids : Exists(i) => KeysHold(rows[i])
    /\ used \subseteq {i \in Ids : Exists(i)}

\* No two triggers answer to the same slug although uniqueSlug and the insert
\* are two steps (uniqueSlug, CreateTrigger).
SlugsUnique ==
    \A i, j \in Triggers :
        Exists(i) /\ Exists(j) /\ rows[i].slug = rows[j].slug => i = j

\* The tables stay consistent although every request checks in one statement
\* and writes in another (CreateTrigger, UpdateTemplate, DeletePipeline, ...).
ResourcesOK == ResourcesTypeOK /\ RefsExist /\ SlugsUnique

\* The webhook address of a trigger never changes while it exists
\* (UpdateTrigger).
SlugFixed ==
    [][rows' # rows =>
         \A i \in Triggers : Exists(i) /\ Exists(i)' => rows'[i].slug = rows[i].slug]_vars

\* A member never changes or deletes a row that belongs to somebody else, not
\* even when the row changes hands between the check and the write
\* (mutableBy).
OthersUntouched ==
    [][rows' # rows =>
         \A i \in Ids, c \in Callers :
            /\ Exists(i) /\ rows'[i] # rows[i]
            /\ pc[c] # "idle" /\ pc'[c] = "idle" /\ req[c].user \in Members
            => rows[i].owner \in {req[c].user, Shared}]_vars

\* The answer tells what happened: a row whose deletion was confirmed is gone
\* at that moment, and a refused request changes nothing (WriteError).
AnswerHonest ==
    [][resp' # resp /\ resp' # <<>> =>
         LET id == req[resp'[1]].id
             a  == resp'[2]
         IN  /\ a = "gone" => rows'[id] = Gone
             /\ a = "ok" => rows'[id] \notin {NoRow, Gone}
             /\ a \notin {"gone", "ok", "created"} => rows' = rows]_vars

\* What a request may do to rows: none of another owner's, no new address for a
\* trigger, and nothing but what its answer says.
RequestsOK == OthersUntouched /\ SlugFixed /\ AnswerHonest

\* "Ownership only ever widens: ... an update never takes a shared template
\* into private ownership" (triggers/templates.go:58).
OwnershipWidens ==
    [][\A i \in Templates :
          Exists(i) /\ Exists(i)' /\ rows[i].owner = Shared
             => rows'[i].owner = Shared]_vars
=============================================================================
