--------------------------- MODULE OutsideProofs ----------------------------
(***************************************************************************)
(* Proofs about what comes in from outside and what goes out: the requests *)
(* that change what users own (Resources), the deliveries to a trigger     *)
(* (Triggers) and the notifications (Notify), for any number of them and   *)
(* any users, rows, payloads, channels and limits.                         *)
(*                                                                         *)
(* Requests.  The database keeps keys and slugs at each write; what has to *)
(* be shown is that a write based on a row read earlier is still right.    *)
(* Two inserts in flight never make one row, and the owner of a row can    *)
(* only have become "shared" since it was read (Entitled), so that who was *)
(* allowed to change it then is no stranger to it now.                     *)
(*                                                                         *)
(* Deliveries.  The gate reads the log and writes to it later, so neither  *)
(* the cap nor the window bounds the rows alone.  What is bounded is a     *)
(* tally of the accepted rows and of the calls that have passed the gate   *)
(* and have no row yet.  A step can only make it smaller, except for that  *)
(* of a call passing the gate: at that moment the rows alone are below the *)
(* limit, and there are no more calls in hand than senders.                *)
(*                                                                         *)
(* Notifications.  A channel that is due has a post or is still to go, and *)
(* where its sender is says how many posts it has and how the first ended. *)
(* The row of a channel is what the calls asked for, or what the one       *)
(* change in flight is about to write.                                     *)
(***************************************************************************)
EXTENDS Resources, Triggers, Notify, TLAPS, FiniteSetTheorems, NaturalsInduction

-----------------------------------------------------------------------------
(* Requests: the inductive invariant. *)

ResourcesTyped ==
    /\ rows \in [Ids -> {NoRow, Gone} \union Row] /\ used \subseteq Ids
    /\ pc \in [Callers -> {"idle", "insert", "update", "delete"}]
    /\ req \in [Callers -> {NoRow} \union Request] /\ old \in [Callers -> {NoRow} \union Row]
    /\ \A c \in Callers : pc[c] # "idle" => req[c] \in Request /\ old[c] \in Row
    /\ resp = <<>> \/ resp \in Callers \X Answers
    /\ requests \in 0 .. MaxRequests

\* A create makes a row of its own, a trigger's with a slug.
Fresh ==
    \A c \in Callers : pc[c] = "insert" =>
        /\ rows[req[c].id] = NoRow
        /\ req[c].id \in Triggers => old[c].slug # <<>>
        /\ \A d \in Callers : pc[d] = "insert" /\ req[d].id = req[c].id => d = c

\* What a request names to start was looked at.
Targeted == \A c \in Callers : pc[c] # "idle" => validateTarget(req[c])

\* Two who own a row, or read that they did, are one, or it is shared.
Agree(x, y) == x = y \/ x = Shared \/ y = Shared

\* The asker of a change was the owner when the row was read; since then the row
\* can only have become shared.
Entitled ==
    \A c \in Callers : pc[c] \in {"update", "delete"} =>
        /\ rows[req[c].id] # NoRow
        /\ mutableBy(req[c].user, old[c].owner)
        /\ Exists(req[c].id) => Agree(old[c].owner, rows[req[c].id].owner)
        /\ \A d \in Callers : pc[d] \in {"update", "delete"} /\ req[d].id = req[c].id
               => Agree(old[c].owner, old[d].owner)

ResourcesInv == ResourcesTyped /\ Fresh /\ Targeted /\ Entitled /\ RefsExist /\ SlugsUnique

-----------------------------------------------------------------------------
(* The kinds of steps. *)

LEMMA RowsDiffer ==
    /\ NoRow # Gone
    /\ \A row \in Row : row # NoRow /\ row # Gone
<1>1. NoRow # Gone
  BY DEF NoRow, Gone
<1>2. \A row \in Row : row # NoRow
  BY DEF NoRow, Row
<1>3. \A row \in Row : row # Gone
  BY DEF Gone, Row
<1>4. QED
  BY <1>1, <1>2, <1>3

LEMMA RowsExist == ResourcesTyped => \A i \in Ids : Exists(i) <=> rows[i] \in Row
BY RowsDiffer DEF ResourcesTyped, Exists

\* A request that is refused at once changes nothing.
Refused(c) ==
    /\ pc[c] = "idle" /\ requests' \in 0 .. MaxRequests
    /\ UNCHANGED <<rows, used, pc, req, old>>
    /\ \E answer \in {"not_found", "forbidden", "invalid", "conflict"} : resp' = <<c, answer>>

\* A request that passed what is checked before the write.
Enters(c) ==
    /\ pc[c] = "idle" /\ requests' \in 0 .. MaxRequests
    /\ UNCHANGED <<rows, used>> /\ resp' = <<>>
    /\ \E r \in Request, row \in Row, step \in {"insert", "update", "delete"} :
          /\ req' = [req EXCEPT ![c] = r] /\ pc' = [pc EXCEPT ![c] = step]
          /\ old' = [old EXCEPT ![c] = row] /\ validateTarget(r)
          /\ step = "insert" =>
                /\ rows[r.id] = NoRow
                /\ \A d \in Callers : pc[d] = "insert" => req[d].id # r.id
                /\ r.id \in Triggers => row.slug # <<>>
          /\ step # "insert" =>
                /\ Exists(r.id) /\ mutableBy(r.user, rows[r.id].owner) /\ row = rows[r.id]

\* The write: nothing, and the answer says so, or the row of the request.
Keyed(target) == target = None \/ Exists(target)
Unwritten(c) ==
    rows' = rows /\ \E answer \in {"conflict", "invalid", "not_found", "internal"} : resp' = <<c, answer>>
Inserted(c) ==
    /\ pc[c] = "insert" /\ resp' = <<c, "created">>
    /\ rows' = [rows EXCEPT ![req[c].id] = old[c]] /\ Keyed(old[c].target)
    /\ old[c].slug # <<>> => \A i \in Triggers : Exists(i) => rows[i].slug # old[c].slug
Updated(c) ==
    /\ pc[c] = "update" /\ resp' = <<c, "ok">> /\ Exists(req[c].id) /\ Keyed(req[c].target)
    /\ \E owner \in {Shared, old[c].owner} :
          rows' = [rows EXCEPT ![req[c].id] =
                      [owner |-> owner, target |-> req[c].target, slug |-> rows[req[c].id].slug]]
Deleted(c) ==
    /\ pc[c] = "delete" /\ resp' = <<c, "gone">> /\ Exists(req[c].id) /\ ~Referenced(req[c].id)
    /\ rows' = [rows EXCEPT ![req[c].id] = Gone]
Does(c) ==
    /\ pc[c] # "idle" /\ Done(c) /\ req[c] \in Request /\ old[c] \in Row
    /\ Unwritten(c) \/ Inserted(c) \/ Updated(c) \/ Deleted(c)

LEMMA Tried ==
    ASSUME ResourcesTyped, NEW c \in Callers, NEW r \in Request, NEW access, NEW target, NEW step, NEW row,
           Try(c, r, access, target, step, row),
           access \in {"ok", "not_found", "forbidden"}, target \in {"ok", "not_found", "conflict"},
           step \in {"insert", "update", "delete"},
           access = "ok" /\ target = "ok" =>
               /\ row \in Row
               /\ step = "insert" =>
                    /\ rows[r.id] = NoRow
                    /\ \A d \in Callers : pc[d] = "insert" => req[d].id # r.id
                    /\ r.id \in Triggers => row.slug # <<>>
               /\ step # "insert" =>
                    /\ Exists(r.id) /\ mutableBy(r.user, rows[r.id].owner) /\ row = rows[r.id]
    PROVE  Refused(c) \/ Enters(c)
<1>1. pc[c] = "idle" /\ requests' \in 0 .. MaxRequests /\ UNCHANGED <<rows, used>>
  BY ResourcesAssumption DEF Try, Begin, ResourcesTyped
<1>2. CASE validateTarget(r) /\ access = "ok" /\ r.valid /\ target = "ok"
  <2>1. Proceed(c, r, step, row)
    BY <1>2 DEF Try
  <2>2. QED
    BY <1>1, <1>2, <2>1 DEF Proceed, Enters
<1>3. CASE ~(validateTarget(r) /\ access = "ok" /\ r.valid /\ target = "ok")
  <2>1. \E answer \in {"not_found", "forbidden", "invalid", "conflict"} : Refuse(c, answer)
    BY <1>3 DEF Try
  <2>2. QED
    BY <1>1, <2>1 DEF Refuse, Refused
<1>4. QED
  BY <1>2, <1>3

\* uniqueSlug finds a slug, or says that there is none.
LEMMA SlugFound ==
    ASSUME NEW base \in Bases
    PROVE  uniqueSlug(base) \in Slugs \union {<<>>}
<1> DEFINE free == {n \in 1 .. MaxSuffix : <<base, n>> \notin {rows[i].slug : i \in {j \in Triggers : Exists(j)}}}
<1>1. CASE free = {}
  BY <1>1 DEF uniqueSlug
<1>2. CASE free # {}
  <2>1. free \subseteq Nat
    BY ResourcesAssumption
  <2>2. PICK x \in free : \A y \in free : ~(<<y, x>> \in OpToRel(<, Nat))
    <3> HIDE DEF free
    <3>1. QED
      BY <1>2, <2>1, NatLessThanWellFounded, WFMin
  <2>3. \A y \in free : x <= y
    <3> HIDE DEF free
    <3>1. \A y \in free : ~(y < x)
      BY <2>1, <2>2 DEF OpToRel
    <3>2. QED
      BY <2>1, <3>1
  <2> DEFINE n == CHOOSE k \in free : \A m \in free : k <= m
  <2>4. n \in free
    <3> HIDE DEF free
    <3>1. QED
      BY <2>2, <2>3
  <2>5. uniqueSlug(base) = <<base, n>>
    BY <1>2 DEF uniqueSlug
  <2>6. n \in 1 .. MaxSuffix
    BY <2>4
  <2> HIDE DEF n
  <2>7. QED
    BY <2>5, <2>6 DEF Slugs
<1>3. QED
  BY <1>1, <1>2

LEMMA Began ==
    ASSUME ResourcesTyped, NEW c \in Callers,
           \/ handleTemplatesCreate(c) \/ handlePipelinesCreate(c)
           \/ handleSchedulesCreate(c) \/ handleTriggersCreate(c)
           \/ handleTemplatesPatch(c) \/ handlePipelinesPatch(c)
           \/ handleSchedulesPatch(c) \/ handleTriggersPatch(c)
           \/ handleTemplatesDelete(c) \/ handlePipelinesDelete(c)
           \/ handleSchedulesDelete(c) \/ handleTriggersDelete(c)
    PROVE  Refused(c) \/ Enters(c)
<1>1. \A user, i : Get(user, i) \in {"ok", "not_found"}
  BY DEF Get
<1>2. \A user, i : /\ Mutable(user, i) \in {"ok", "not_found", "forbidden"}
                   /\ Mutable(user, i) = "ok" => Exists(i) /\ mutableBy(user, rows[i].owner)
  BY DEF Mutable, Get
<1>3. ASSUME NEW r \in Request, NEW slug \in Slugs \union {<<>>}
      PROVE  NewRow(r, slug) \in Row /\ NewRow(r, slug).slug = slug
  BY <1>3 DEF NewRow, ownerFor, Row, Request
<1>4. CASE handleTemplatesCreate(c) \/ handlePipelinesCreate(c) \/ handleSchedulesCreate(c)
  <2>1. PICK r \in Creates(Templates \union Pipelines \union Schedules) :
            Try(c, r, "ok", "ok", "insert", NewRow(r, <<>>))
    BY <1>4 DEF handleTemplatesCreate, handlePipelinesCreate, handleSchedulesCreate, Creates
  <2>2. /\ r \in Request /\ rows[r.id] = NoRow /\ r.id \notin Triggers
        /\ \A d \in Callers : pc[d] = "insert" => req[d].id # r.id
    BY ResourcesAssumption DEF Creates, Targets
  <2>3. NewRow(r, <<>>) \in Row
    BY <1>3, <2>2
  <2>4. QED
    BY <2>1, <2>2, <2>3, Tried
<1>5. CASE handleTriggersCreate(c)
  <2>1. PICK r \in Creates(Triggers) :
            Try(c, r, "ok",
                IF TemplateVisible(r) = "ok" /\ uniqueSlug(r.base) = <<>> THEN "conflict"
                ELSE TemplateVisible(r), "insert", NewRow(r, uniqueSlug(r.base)))
    BY <1>5 DEF handleTriggersCreate
  <2>2. /\ r \in Request /\ rows[r.id] = NoRow /\ r.base \in Bases
        /\ \A d \in Callers : pc[d] = "insert" => req[d].id # r.id
    BY DEF Creates, Request
  <2>3. /\ NewRow(r, uniqueSlug(r.base)) \in Row
        /\ NewRow(r, uniqueSlug(r.base)).slug = uniqueSlug(r.base)
    BY <1>3, <2>2, SlugFound
  <2>4. TemplateVisible(r) \in {"ok", "not_found"}
    BY <1>1 DEF TemplateVisible
  <2>5. QED
    BY <2>1, <2>2, <2>3, <2>4, Tried
<1>6. CASE \/ handleTemplatesPatch(c) \/ handlePipelinesPatch(c)
           \/ handleSchedulesPatch(c) \/ handleTriggersPatch(c)
  <2>1. PICK r \in Updates(Ids), target \in {"ok", "not_found"} :
            Try(c, r, Mutable(r.user, r.id), target, "update", rows[r.id])
    <3>1. \A r : TemplateVisible(r) \in {"ok", "not_found"}
      BY <1>1 DEF TemplateVisible
    <3>2. QED
      BY <1>6, <3>1 DEF handleTemplatesPatch, handlePipelinesPatch, handleSchedulesPatch,
         handleTriggersPatch, Updates, Ids, Targets
  <2>2. r \in Request /\ r.id \in Ids
    BY DEF Updates
  <2>3. Mutable(r.user, r.id) = "ok" => rows[r.id] \in Row
    BY <1>2, <2>2, RowsExist
  <2>4. QED
    BY <1>2, <2>1, <2>2, <2>3, Tried
<1>7. CASE \/ handleTemplatesDelete(c) \/ handlePipelinesDelete(c)
           \/ handleSchedulesDelete(c) \/ handleTriggersDelete(c)
  <2>1. PICK r \in Request :
            r.id \in Ids /\ Try(c, r, Mutable(r.user, r.id), "ok", "delete", rows[r.id])
    BY <1>7 DEF handleTemplatesDelete, handlePipelinesDelete, handleSchedulesDelete,
       handleTriggersDelete, TryDelete, Deletes, Ids, Targets
  <2>2. Mutable(r.user, r.id) = "ok" => rows[r.id] \in Row
    BY <1>2, <2>1, RowsExist
  <2>3. QED
    BY <1>2, <2>1, <2>2, Tried
<1>8. QED
  BY <1>4, <1>5, <1>6, <1>7

LEMMA Wrote ==
    ASSUME ResourcesTyped, Targeted, NEW c \in Callers,
           \/ CreateTemplate(c) \/ CreatePipeline(c) \/ CreateSchedule(c) \/ CreateTrigger(c)
           \/ UpdateTemplate(c) \/ UpdatePipeline(c) \/ UpdateSchedule(c) \/ UpdateTrigger(c)
           \/ DeleteTemplate(c) \/ DeletePipeline(c) \/ DeleteSchedule(c) \/ DeleteTrigger(c)
    PROVE  Does(c)
<1>1. pc[c] # "idle" /\ Done(c)
  BY DEF CreateTemplate, CreatePipeline, CreateSchedule, CreateTrigger, UpdateTemplate,
     UpdatePipeline, UpdateSchedule, UpdateTrigger, DeleteTemplate, DeletePipeline,
     DeleteSchedule, DeleteTrigger
<1>2. req[c] \in Request /\ old[c] \in Row /\ validateTarget(req[c])
  BY <1>1 DEF ResourcesTyped, Targeted
<1>3. CASE CreateTemplate(c) \/ CreatePipeline(c) \/ CreateSchedule(c) \/ CreateTrigger(c)
  <2>1. pc[c] = "insert" /\ Insert(c, old[c])
    BY <1>3 DEF CreateTemplate, CreatePipeline, CreateSchedule, CreateTrigger
  <2>2. Unwritten(c) \/ Inserted(c)
    BY <2>1 DEF Insert, Unwritten, Inserted, Keyed, KeysHold
  <2>3. QED
    BY <1>1, <1>2, <2>2 DEF Does
<1>4. ASSUME pc[c] = "update", NEW keys, UpdateRow(c, keys), keys => Keyed(req[c].target)
      PROVE  Does(c)
  <2>1. Unwritten(c) \/ Updated(c)
    BY <1>4 DEF UpdateRow, Unwritten, Updated
  <2>2. QED
    BY <1>1, <1>2, <2>1 DEF Does
<1>5. CASE UpdateTemplate(c) \/ UpdatePipeline(c)
  <2>1. pc[c] = "update" /\ UpdateRow(c, TRUE) /\ req[c].id \in Targets
    BY <1>5 DEF UpdateTemplate, UpdatePipeline, Targets
  <2>2. req[c].target = None
    BY <1>2, <2>1, ResourcesAssumption DEF validateTarget
  <2>3. QED
    BY <1>4, <2>1, <2>2 DEF Keyed
<1>6. CASE UpdateSchedule(c)
  BY <1>4, <1>6 DEF UpdateSchedule, Keyed
<1>7. CASE UpdateTrigger(c)
  BY <1>4, <1>7 DEF UpdateTrigger, Keyed
<1>8. CASE DeleteTemplate(c) \/ DeletePipeline(c) \/ DeleteSchedule(c) \/ DeleteTrigger(c)
  <2>1. pc[c] = "delete" /\ DeleteRow(c)
    BY <1>8 DEF DeleteTemplate, DeletePipeline, DeleteSchedule, DeleteTrigger
  <2>2. Unwritten(c) \/ Deleted(c)
    BY <2>1 DEF DeleteRow, Unwritten, Deleted
  <2>3. QED
    BY <1>1, <1>2, <2>2 DEF Does
<1>9. QED
  BY <1>3, <1>5, <1>6, <1>7, <1>8

\* A step is of one of these kinds.
Kinds ==
    \/ \E c \in Callers : Refused(c) \/ Enters(c) \/ Does(c)
    \/ \E i \in Ids : RunStarts(i)
    \/ UNCHANGED vars

LEMMA StepsAre == ResourcesTyped /\ Targeted /\ [Next]_vars => Kinds
BY Began, Wrote DEF Next, Kinds

LEMMA OthersWait ==
    ASSUME ResourcesTyped, NEW c \in Callers, Enters(c) \/ Does(c)
    PROVE  /\ \A d \in Callers : d # c => pc'[d] = pc[d] /\ req'[d] = req[d] /\ old'[d] = old[d]
           /\ Does(c) => pc'[c] = "idle"
BY DEF ResourcesTyped, Enters, Does, Done

LEMMA TypedStays == ResourcesTyped /\ Kinds => ResourcesTyped'
<1> SUFFICES ASSUME ResourcesTyped, Kinds PROVE ResourcesTyped'
  OBVIOUS
<1>1. ASSUME NEW c \in Callers, Refused(c) PROVE ResourcesTyped'
  BY <1>1 DEF Refused, ResourcesTyped, Answers
<1>2. ASSUME NEW c \in Callers, Enters(c) PROVE ResourcesTyped'
  BY <1>2 DEF Enters, ResourcesTyped
<1>3. ASSUME NEW c \in Callers, Does(c) PROVE ResourcesTyped'
  <2>1. /\ pc' \in [Callers -> {"idle", "insert", "update", "delete"}]
        /\ req' \in [Callers -> {NoRow} \union Request] /\ old' \in [Callers -> {NoRow} \union Row]
        /\ \A d \in Callers : pc'[d] # "idle" => req'[d] \in Request /\ old'[d] \in Row
        /\ used' = used /\ requests' = requests
    BY <1>3 DEF Does, Done, ResourcesTyped
  <2>2. resp' \in Callers \X Answers
    BY <1>3 DEF Does, Unwritten, Inserted, Updated, Deleted, Answers
  <2>3. rows' \in [Ids -> {NoRow, Gone} \union Row]
    <3>1. req[c].id \in Ids /\ req[c].target \in Targets \union {None} /\ old[c].owner \in Users \union {Shared}
      BY <1>3 DEF Does, Request, Row
    <3>2. CASE Unwritten(c) \/ Inserted(c) \/ Deleted(c)
      BY <1>3, <3>2 DEF Does, Unwritten, Inserted, Deleted, ResourcesTyped
    <3>3. CASE Updated(c)
      <4>1. rows[req[c].id] \in Row
        BY <3>1, <3>3, RowsExist DEF Updated
      <4>2. \A owner \in {Shared, old[c].owner} :
               [owner |-> owner, target |-> req[c].target, slug |-> rows[req[c].id].slug] \in Row
        BY <3>1, <4>1 DEF Row
      <4>3. QED
        BY <3>1, <3>3, <4>2 DEF Updated, ResourcesTyped
    <3>4. QED
      BY <1>3, <3>2, <3>3 DEF Does
  <2>4. QED
    BY <2>1, <2>2, <2>3 DEF ResourcesTyped
<1>4. ASSUME NEW i \in Ids, RunStarts(i) PROVE ResourcesTyped'
  <2>2. used' \subseteq Ids
    <3> DEFINE start == IF i \in Triggers \union Schedules THEN rows[i].target ELSE i
    <3>1. start \in Templates \union Pipelines
      BY <1>4 DEF RunStarts
    <3>2. used' \subseteq used \union {start, i} \union Templates
      BY <1>4 DEF RunStarts
    <3>3. start \in Ids /\ Templates \subseteq Ids
      BY <3>1 DEF Ids, Targets
    <3>4. QED
      BY <3>2, <3>3 DEF ResourcesTyped
  <2>3. QED
    BY <1>4, <2>2 DEF RunStarts, ResourcesTyped
<1>5. CASE UNCHANGED vars
  BY <1>5 DEF vars, ResourcesTyped
<1>6. QED
  BY <1>1, <1>2, <1>3, <1>4, <1>5 DEF Kinds

\* A row that is there appears and goes only by its request's write.
LEMMA RowsChange ==
    ASSUME ResourcesTyped, Fresh, Kinds, NEW i \in Ids
    PROVE  /\ rows'[i] = NoRow => rows[i] = NoRow
           /\ rows'[i] # rows[i] => \E c \in Callers :
                 /\ Does(c) /\ req[c].id = i
                 /\ \/ pc[c] = "insert" /\ rows[i] = NoRow /\ rows'[i] = old[c] /\ Inserted(c)
                    \/ /\ pc[c] = "update" /\ Exists(i) /\ Updated(c) /\ rows'[i] \in Row
                       /\ rows'[i].owner \in {Shared, old[c].owner}
                       /\ rows'[i].target = req[c].target /\ rows'[i].slug = rows[i].slug
                    \/ pc[c] = "delete" /\ Exists(i) /\ Deleted(c) /\ rows'[i] = Gone
<1>1. CASE rows' = rows
  BY <1>1
<1>2. ASSUME NEW c \in Callers, Does(c), rows'[i] # rows[i]
      PROVE  /\ rows'[i] # NoRow /\ req[c].id = i
             /\ \/ pc[c] = "insert" /\ rows[i] = NoRow /\ rows'[i] = old[c] /\ Inserted(c)
                \/ /\ pc[c] = "update" /\ Exists(i) /\ Updated(c) /\ rows'[i] \in Row
                   /\ rows'[i].owner \in {Shared, old[c].owner}
                   /\ rows'[i].target = req[c].target /\ rows'[i].slug = rows[i].slug
                \/ pc[c] = "delete" /\ Exists(i) /\ Deleted(c) /\ rows'[i] = Gone
  <2>0. old[c] \in Row /\ req[c] \in Request
    BY <1>2 DEF Does
  <2>1. CASE Inserted(c)
    BY <1>2, <2>0, <2>1, RowsDiffer DEF Inserted, Fresh, ResourcesTyped
  <2>2. CASE Deleted(c)
    BY <1>2, <2>0, <2>2, RowsDiffer DEF Deleted, ResourcesTyped
  <2>3. CASE Updated(c)
    <3>1. PICK owner \in {Shared, old[c].owner} :
             rows' = [rows EXCEPT ![req[c].id] =
                        [owner |-> owner, target |-> req[c].target, slug |-> rows[req[c].id].slug]]
      BY <2>3 DEF Updated
    <3>2. i = req[c].id
      BY <1>2, <3>1 DEF ResourcesTyped
    <3>3. rows'[i] = [owner |-> owner, target |-> req[c].target, slug |-> rows[i].slug]
      BY <3>1, <3>2 DEF ResourcesTyped
    <3>4. rows[i] \in Row /\ Exists(i) /\ pc[c] = "update"
      BY <2>3, <3>2, RowsExist DEF Updated
    <3>5. rows'[i] \in Row
      BY <2>0, <3>1, <3>3, <3>4 DEF Row, Request
    <3>6. QED
      BY <2>3, <3>1, <3>2, <3>3, <3>4, <3>5, RowsDiffer
  <2>4. QED
    BY <1>2, <2>1, <2>2, <2>3 DEF Does, Unwritten
<1>3. CASE rows' # rows
  <2>1. \E c \in Callers : Does(c)
    BY <1>3 DEF Kinds, Refused, Enters, RunStarts, vars
  <2>2. QED
    BY <1>2, <2>1
<1>4. QED
  BY <1>1, <1>3

LEMMA TargetedStays == ResourcesTyped /\ Targeted /\ Kinds => Targeted'
<1> SUFFICES ASSUME ResourcesTyped, Targeted, Kinds, NEW d \in Callers, pc'[d] # "idle"
             PROVE  validateTarget(req'[d])
  BY DEF Targeted, validateTarget
<1>1. ASSUME NEW c \in Callers, Enters(c) PROVE validateTarget(req'[d])
  <2>1. validateTarget(req'[c])
    BY <1>1 DEF Enters, ResourcesTyped
  <2>2. QED
    BY <1>1, <2>1, OthersWait DEF Targeted
<1>2. ASSUME NEW c \in Callers, Does(c) PROVE validateTarget(req'[d])
  BY <1>2, OthersWait DEF Targeted
<1>3. CASE pc' = pc /\ req' = req
  BY <1>3 DEF Targeted
<1>4. QED
  BY <1>1, <1>2, <1>3 DEF Kinds, Refused, RunStarts, vars

LEMMA FreshStays == ResourcesTyped /\ Fresh /\ Kinds => Fresh'
<1> SUFFICES ASSUME ResourcesTyped, Fresh, Kinds, NEW d \in Callers, pc'[d] = "insert"
             PROVE  /\ rows'[req'[d].id] = NoRow
                    /\ req'[d].id \in Triggers => old'[d].slug # <<>>
                    /\ \A e \in Callers : pc'[e] = "insert" /\ req'[e].id = req'[d].id => e = d
  BY DEF Fresh
<1>1. ASSUME NEW c \in Callers, Enters(c)
      PROVE  /\ rows'[req'[d].id] = NoRow
             /\ req'[d].id \in Triggers => old'[d].slug # <<>>
             /\ \A e \in Callers : pc'[e] = "insert" /\ req'[e].id = req'[d].id => e = d
  <2>1. /\ rows' = rows
        /\ \A e \in Callers : e # c => pc'[e] = pc[e] /\ req'[e] = req[e] /\ old'[e] = old[e]
    BY <1>1, OthersWait DEF Enters
  <2>2. pc'[c] = "insert" => /\ rows[req'[c].id] = NoRow
                             /\ \A e \in Callers : pc[e] = "insert" => req[e].id # req'[c].id
                             /\ req'[c].id \in Triggers => old'[c].slug # <<>>
    BY <1>1 DEF Enters, ResourcesTyped
  <2>3. QED
    BY <2>1, <2>2 DEF Fresh
<1>2. ASSUME NEW c \in Callers, Does(c)
      PROVE  /\ rows'[req'[d].id] = NoRow
             /\ req'[d].id \in Triggers => old'[d].slug # <<>>
             /\ \A e \in Callers : pc'[e] = "insert" /\ req'[e].id = req'[d].id => e = d
  <2>1. \A e \in Callers : pc'[e] = "insert" =>
                              pc[e] = "insert" /\ req'[e] = req[e] /\ old'[e] = old[e]
    BY <1>2, OthersWait
  <2>2. rows[req[d].id] = NoRow /\ req[d].id \in Ids
    BY <2>1 DEF Fresh, ResourcesTyped, Request
  <2>3. rows'[req[d].id] = NoRow
    <3>1. SUFFICES ASSUME rows'[req[d].id] # rows[req[d].id] PROVE FALSE
      BY <2>2
    <3>2. PICK w \in Callers : /\ Does(w) /\ req[w].id = req[d].id
                               /\ pc[w] = "insert" \/ Exists(req[d].id)
      BY <2>2, <3>1, RowsChange
    <3>3. pc[w] = "insert" /\ w # d
      BY <2>2, <3>2, OthersWait DEF Exists
    <3>4. QED
      BY <2>1, <3>2, <3>3 DEF Fresh
  <2>4. QED
    BY <2>1, <2>3 DEF Fresh
<1>3. CASE UNCHANGED <<rows, pc, req, old>>
  BY <1>3 DEF Fresh
<1>4. QED
  BY <1>1, <1>2, <1>3 DEF Kinds, Refused, RunStarts, vars

LEMMA EntitledStays == ResourcesTyped /\ Fresh /\ Entitled /\ Kinds => Entitled'
<1> DEFINE Right(c) ==
        /\ rows'[req'[c].id] # NoRow
        /\ mutableBy(req'[c].user, old'[c].owner)
        /\ Exists(req[c].id)' => Agree(old'[c].owner, rows'[req'[c].id].owner)
        /\ \A d \in Callers : pc'[d] \in {"update", "delete"} /\ req'[d].id = req'[c].id
               => Agree(old'[c].owner, old'[d].owner)
<1> SUFFICES ASSUME ResourcesTyped, Fresh, Entitled, Kinds,
                    NEW c \in Callers, pc'[c] \in {"update", "delete"}
             PROVE  Right(c)
  BY DEF Entitled, mutableBy
<1>1. ASSUME NEW w \in Callers, Enters(w) PROVE Right(c)
  <2>1. /\ rows' = rows
        /\ \A e \in Callers : e # w => pc'[e] = pc[e] /\ req'[e] = req[e] /\ old'[e] = old[e]
    BY <1>1, OthersWait DEF Enters
  <2>2. pc'[w] # "insert" => /\ Exists(req'[w].id) /\ mutableBy(req'[w].user, rows[req'[w].id].owner)
                             /\ old'[w] = rows[req'[w].id]
    BY <1>1 DEF Enters, ResourcesTyped
  <2>3. \A i : Exists(i)' <=> Exists(i)
    BY <2>1 DEF Exists
  <2>4. CASE c = w
    <3>1. \A d \in Callers : pc'[d] \in {"update", "delete"} /\ req'[d].id = req'[c].id
               => Agree(old'[c].owner, old'[d].owner)
      BY <2>1, <2>2, <2>4 DEF Entitled, Agree
    <3>2. QED
      BY <2>1, <2>2, <2>4, <3>1 DEF Exists, Agree
  <2>5. CASE c # w
    <3>1. \A d \in Callers : pc'[d] \in {"update", "delete"} /\ req'[d].id = req'[c].id
               => Agree(old'[c].owner, old'[d].owner)
      BY <2>1, <2>2, <2>5 DEF Entitled, Agree
    <3>2. QED
      BY <2>1, <2>3, <2>5, <3>1 DEF Entitled
  <2>6. QED
    BY <2>4, <2>5
<1>2. ASSUME NEW w \in Callers, Does(w) PROVE Right(c)
  <2>1. \A e \in Callers : pc'[e] # "idle" => pc'[e] = pc[e] /\ req'[e] = req[e] /\ old'[e] = old[e]
    BY <1>2, OthersWait
  <2>2. pc[c] \in {"update", "delete"} /\ req'[c] = req[c] /\ old'[c] = old[c] /\ req[c].id \in Ids
    BY <2>1 DEF ResourcesTyped, Request
  <2>3. rows[req[c].id] # NoRow /\ rows'[req[c].id] # NoRow
    BY <2>2, RowsChange DEF Entitled
  <2>4. ASSUME Exists(req[c].id)' PROVE Agree(old[c].owner, rows'[req[c].id].owner)
    <3>1. CASE rows'[req[c].id] = rows[req[c].id]
      BY <2>2, <2>4, <3>1 DEF Entitled, Exists
    <3>2. CASE rows'[req[c].id] # rows[req[c].id]
      <4>1. PICK v \in Callers : /\ req[v].id = req[c].id /\ pc[v] = "update"
                                 /\ rows'[req[c].id].owner \in {Shared, old[v].owner}
        BY <2>2, <2>3, <2>4, <3>2, RowsChange DEF Exists
      <4>2. QED
        BY <2>2, <4>1 DEF Entitled, Agree
    <3>3. QED
      BY <3>1, <3>2
  <2>5. QED
    BY <2>1, <2>2, <2>3, <2>4 DEF Entitled
<1>3. CASE UNCHANGED <<rows, pc, req, old>>
  BY <1>3 DEF Entitled, Exists
<1>4. QED
  BY <1>1, <1>2, <1>3 DEF Kinds, Refused, RunStarts, vars

LEMMA RefsStay == ResourcesTyped /\ Fresh /\ RefsExist /\ Kinds => RefsExist'
<1> SUFFICES ASSUME ResourcesTyped, Fresh, RefsExist, Kinds PROVE RefsExist'
  OBVIOUS
<1>1. ASSUME NEW t \in Ids, Exists(t),
             t \in used \/ \E j \in Ids : Exists(j) /\ rows[j].target = t
      PROVE  Exists(t)'
  <2>1. Referenced(t)
    BY <1>1 DEF Referenced
  <2>2. CASE rows'[t] = rows[t]
    BY <1>1, <2>2 DEF Exists
  <2>3. CASE rows'[t] # rows[t]
    BY <1>1, <2>1, <2>3, RowsChange, RowsDiffer DEF Exists, Deleted
  <2>4. QED
    BY <2>2, <2>3
<1>2. ASSUME NEW i \in Ids, rows'[i] \notin {NoRow, Gone}, rows'[i].target # None
      PROVE  rows'[rows'[i].target] \notin {NoRow, Gone}
  <2>1. CASE rows'[i] = rows[i]
    <3>1. Exists(i) /\ rows[i] \in Row
      BY <1>2, <2>1, RowsExist DEF Exists
    <3>2. rows[i].target \in Targets /\ Exists(rows[i].target)
      BY <1>2, <2>1, <3>1 DEF RefsExist, KeysHold, Row
    <3>3. PICK t \in Ids : t = rows[i].target
      BY <3>2 DEF Ids
    <3>4. Exists(t)'
      BY <1>1, <3>1, <3>2, <3>3
    <3>5. QED
      BY <2>1, <3>3, <3>4 DEF Exists
  <2>2. CASE rows'[i] # rows[i]
    <3>1. PICK c \in Callers : /\ Does(c) /\ req[c].id = i
                               /\ \/ rows'[i] = old[c] /\ Inserted(c)
                                  \/ Updated(c) /\ rows'[i].target = req[c].target
      BY <1>2, <2>2, RowsChange
    <3>2. Exists(rows'[i].target)
      BY <1>2, <3>1 DEF Inserted, Updated, Keyed
    <3>3. \A t \in Ids : t # i => rows'[t] = rows[t]
      BY <3>1 DEF Inserted, Updated, ResourcesTyped
    <3>4. rows'[i].target \in Ids
      BY <1>2, <3>1 DEF Does, Request, Row, Ids
    <3>5. QED
      BY <1>2, <3>2, <3>3, <3>4 DEF Exists
  <2>3. QED
    BY <2>1, <2>2
<1>3. \A t \in used' : t \in Ids /\ rows'[t] \notin {NoRow, Gone}
  <2>1. CASE used' = used
    BY <1>1, <2>1 DEF RefsExist, Exists
  <2>2. ASSUME NEW i \in Ids, RunStarts(i)
        PROVE  \A t \in used' : t \in Ids /\ rows'[t] \notin {NoRow, Gone}
    <3>1. Exists(i) /\ rows[i] \in Row /\ rows' = rows
      BY <2>2, RowsExist DEF RunStarts
    <3>2. rows[i].target # None => rows[i].target \in Ids /\ Exists(rows[i].target)
      BY <3>1 DEF RefsExist, KeysHold, Row, Ids
    <3> DEFINE start == IF i \in Triggers \union Schedules THEN rows[i].target ELSE i
    <3>3. start \in Templates \union Pipelines
      BY <2>2 DEF RunStarts
    <3>4. start \in Ids /\ Exists(start)
      BY <3>1, <3>2, <3>3, ResourcesAssumption DEF Ids, Targets
    <3>5. \A t \in used' : t \in used \union {start, i} \/ (t \in Templates /\ Exists(t))
      BY <2>2 DEF RunStarts
    <3>6. \A t \in used' : t \in Ids /\ Exists(t)
      BY <3>1, <3>4, <3>5 DEF RefsExist, Ids, Targets
    <3>7. QED
      BY <3>1, <3>6 DEF Exists
  <2>3. QED
    BY <2>1, <2>2 DEF Kinds, Refused, Enters, Does, Done, vars
<1>4. QED
  BY <1>2, <1>3 DEF RefsExist, Exists, KeysHold

LEMMA SlugsStay == ResourcesTyped /\ Fresh /\ SlugsUnique /\ Kinds => SlugsUnique'
<1> SUFFICES ASSUME ResourcesTyped, Fresh, SlugsUnique, Kinds,
                    NEW i \in Triggers, NEW j \in Triggers,
                    rows'[i] \notin {NoRow, Gone}, rows'[j] \notin {NoRow, Gone},
                    rows'[i].slug = rows'[j].slug, i # j
             PROVE  FALSE
  BY DEF SlugsUnique, Exists
<1>0. Triggers \subseteq Ids
  BY DEF Ids
<1> DEFINE Kept(k) == Exists(k) /\ rows'[k].slug = rows[k].slug
           Made(k) == \E c \in Callers : /\ Does(c) /\ req[c].id = k /\ pc[c] = "insert"
                                         /\ rows'[k] = old[c] /\ Inserted(c)
<1>1. ASSUME NEW k \in Triggers, rows'[k] \notin {NoRow, Gone} PROVE Kept(k) \/ Made(k)
  <2>1. CASE rows'[k] = rows[k]
    BY <1>1, <2>1 DEF Exists
  <2>2. CASE rows'[k] # rows[k]
    BY <1>0, <1>1, <2>2, RowsChange
  <2>3. QED
    BY <2>1, <2>2
<1>2. ASSUME NEW k \in Triggers, NEW l \in Triggers, k # l, Made(k),
             rows'[l] \notin {NoRow, Gone}, rows'[l].slug = rows'[k].slug
      PROVE  FALSE
  <2>1. PICK c \in Callers : /\ Does(c) /\ req[c].id = k /\ pc[c] = "insert"
                             /\ rows'[k] = old[c] /\ Inserted(c)
    BY <1>2
  <2>2. rows'[l] = rows[l]
    BY <1>0, <1>2, <2>1 DEF Inserted, ResourcesTyped
  <2>3. old[c].slug # <<>>
    BY <2>1, <1>2 DEF Fresh
  <2>4. QED
    BY <1>2, <2>1, <2>2, <2>3 DEF Inserted, Exists
<1>3. CASE Kept(i) /\ Kept(j)
  BY <1>3 DEF SlugsUnique
<1>4. QED
  BY <1>1, <1>2, <1>3

LEMMA ResourcesStart == Init => ResourcesInv
<1> SUFFICES ASSUME Init PROVE ResourcesInv
  OBVIOUS
<1>1. ResourcesTyped
  BY ResourcesAssumption DEF Init, ResourcesTyped
<1>2. Fresh /\ Targeted /\ Entitled
  BY DEF Init, Fresh, Targeted, Entitled
<1>3. RefsExist /\ SlugsUnique
  BY DEF Init, RefsExist, SlugsUnique, Exists, Ids
<1>4. QED
  BY <1>1, <1>2, <1>3 DEF ResourcesInv

\* The inductive invariant of what users own holds in every state.
THEOREM ResourcesInvHolds == Spec => []ResourcesInv
<1>1. ResourcesInv /\ [Next]_vars => ResourcesInv'
  BY StepsAre, TypedStays, FreshStays, TargetedStays, EntitledStays, RefsStay, SlugsStay
     DEF ResourcesInv
<1>2. QED
  BY ResourcesStart, <1>1, PTL DEF Spec

\* Nothing refers to a row that is gone and no two triggers have one slug,
\* although every request checks in one statement and writes in another, for any
\* number of requests, rows and users (uniqueSlug, CreateTrigger, UpdateTemplate,
\* DeletePipeline).
THEOREM TablesAgree == Spec => []ResourcesOK
<1>1. ResourcesTyped => ResourcesTypeOK
  BY DEF ResourcesTyped, ResourcesTypeOK
<1>2. ResourcesInv => ResourcesOK
  BY <1>1 DEF ResourcesInv, ResourcesOK
<1>3. QED
  BY ResourcesInvHolds, <1>2, PTL

\* No request changes a row of another owner or moves the address of a trigger,
\* and every answer says what happened (mutableBy, UpdateTrigger, WriteError).
THEOREM RequestsAreRight == Spec => RequestsOK
<1> DEFINE Others == \A i \in Ids, c \in Callers :
                        /\ Exists(i) /\ rows'[i] # rows[i]
                        /\ pc[c] # "idle" /\ pc'[c] = "idle" /\ req[c].user \in Members
                        => rows[i].owner \in {req[c].user, Shared}
           Slug == \A i \in Triggers : Exists(i) /\ Exists(i)' => rows'[i].slug = rows[i].slug
           Honest == LET id == req[resp'[1]].id
                         a  == resp'[2]
                     IN  /\ a = "gone" => rows'[id] = Gone
                         /\ a = "ok" => rows'[id] \notin {NoRow, Gone}
                         /\ a \notin {"gone", "ok", "created"} => rows' = rows
<1>1. ASSUME ResourcesInv, [Next]_vars PROVE Others
  <2>1. SUFFICES ASSUME NEW i \in Ids, NEW c \in Callers, Exists(i), rows'[i] # rows[i],
                        pc[c] # "idle", pc'[c] = "idle", req[c].user \in Members
                 PROVE  rows[i].owner \in {req[c].user, Shared}
    OBVIOUS
  <2>2. ResourcesTyped /\ Fresh /\ Entitled /\ Kinds
    BY <1>1, StepsAre DEF ResourcesInv
  <2>3. PICK w \in Callers : /\ Does(w) /\ req[w].id = i /\ pc[w] \in {"update", "delete"}
    BY <2>1, <2>2, RowsChange DEF Exists
  <2>4. w = c
    BY <2>1, <2>2, <2>3, OthersWait
  <2>5. mutableBy(req[c].user, old[c].owner) /\ Agree(old[c].owner, rows[i].owner)
    BY <2>1, <2>2, <2>3, <2>4 DEF Entitled
  <2>6. old[c].owner = req[c].user /\ req[c].user \in Users
    BY <2>1, <2>5, ResourcesAssumption DEF mutableBy, Users
  <2>7. req[c].user # Shared
    BY <2>6, ResourcesAssumption
  <2>8. QED
    BY <2>5, <2>6, <2>7 DEF Agree
<1>2. ASSUME ResourcesInv, [Next]_vars PROVE Slug
  <2>1. ResourcesTyped /\ Fresh /\ Kinds
    BY <1>2, StepsAre DEF ResourcesInv
  <2>2. ASSUME NEW i \in Triggers, Exists(i), rows'[i] \notin {NoRow, Gone}
        PROVE  rows'[i].slug = rows[i].slug
    <3>1. i \in Ids
      BY DEF Ids
    <3>2. QED
      BY <2>1, <2>2, <3>1, RowsChange DEF Exists
  <2>3. QED
    BY <2>2 DEF Exists
<1>3. ASSUME ResourcesInv, [Next]_vars, resp' # resp, resp' # <<>> PROVE Honest
  <2>1. ResourcesTyped /\ Fresh /\ Kinds
    BY <1>3, StepsAre DEF ResourcesInv
  <2>2. PICK c \in Callers : Refused(c) \/ Does(c)
    BY <1>3, <2>1 DEF Kinds, Enters, RunStarts, vars
  <2>3. CASE Refused(c)
    BY <2>3 DEF Refused
  <2>4. CASE Does(c) /\ Unwritten(c)
    BY <2>4 DEF Unwritten
  <2>5. CASE Does(c) /\ Inserted(c)
    BY <2>5 DEF Inserted
  <2>6. CASE Does(c) /\ Deleted(c)
    <3>1. req[c].id \in Ids
      BY <2>6 DEF Does, Request
    <3>2. QED
      BY <2>1, <2>6, <3>1 DEF Deleted, ResourcesTyped
  <2>7. CASE Does(c) /\ Updated(c)
    <3>1. req[c].id \in Ids /\ resp' = <<c, "ok">> /\ Exists(req[c].id)
      BY <2>7 DEF Does, Request, Updated
    <3>2. rows'[req[c].id] \in {NoRow, Gone} => rows'[req[c].id] # rows[req[c].id]
      BY <3>1 DEF Exists
    <3>3. rows'[req[c].id] # NoRow
      BY <2>1, <3>1, RowsChange DEF Exists
    <3>4. rows'[req[c].id] # Gone
      <4>1. SUFFICES ASSUME rows'[req[c].id] = Gone PROVE FALSE
        OBVIOUS
      <4>2. PICK w \in Callers : Does(w) /\ pc[w] # "update"
        BY <2>1, <3>1, <3>2, <4>1, RowsChange, RowsDiffer
      <4>3. QED
        BY <2>1, <2>7, <4>2, OthersWait DEF Updated, Does
    <3>5. QED
      BY <3>1, <3>3, <3>4
  <2>8. QED
    BY <2>2, <2>3, <2>4, <2>5, <2>6, <2>7 DEF Does
<1>4. ResourcesInv /\ [Next]_vars =>
        /\ (rows' # rows => Others)
        /\ (rows' # rows => Slug)
        /\ (resp' # resp /\ resp' # <<>> => Honest)
  BY <1>1, <1>2, <1>3
<1>5. QED
  BY ResourcesInvHolds, <1>4, PTL DEF Spec, RequestsOK, OthersUntouched, SlugFixed, AnswerHonest

-----------------------------------------------------------------------------
(* Deliveries: the inductive invariant. *)

TriggersTyped ==
    /\ trig \in [present : BOOLEAN, enabled : BOOLEAN, secret : Secrets, shape : Shapes]
    /\ dels \in [DeliveryIds -> {NoDelivery} \union Delivery]
    /\ runs \subseteq DeliveryIds /\ broken \subseteq runs /\ torn \subseteq DeliveryIds
    /\ calls \in [Senders -> {Idle} \union Call]
    /\ clock \in 0 .. MaxClock /\ received \in 0 .. MaxDeliveries
    /\ changes \in 0 .. MaxChanges /\ faults \in 0 .. MaxFaults

Busy == {c \in Senders : calls[c] # Idle}
Before == {c \in Busy : calls[c].pc \in {"lookup", "count", "record", "accept"}}
Gated == {c \in Busy : calls[c].pc \in {"lookup", "count", "accept"}}
After == {c \in Busy : calls[c].pc \in {"start", "link", "fail"}}

\* Rows, runs and calls are of the ids given out, and a call has its own.
IdsKnown ==
    /\ \A c \in Busy : calls[c].id \in 1 .. received
    /\ \A b, c \in Busy : calls[b].id = calls[c].id => b = c
    /\ Logged \subseteq 1 .. received /\ runs \subseteq 1 .. received

\* Before its row is written a call has neither row nor run; it is accepted if
\* it is still at the gate, and has been turned away if it goes to record.
NotYetLogged ==
    /\ \A c \in Before : calls[c].id \notin Logged \union runs
    /\ \A c \in Gated : calls[c].status = "accepted"
    /\ \A c \in Busy : calls[c].pc = "record" => calls[c].status # "accepted"
    /\ \A c \in Busy : calls[c].pc \in {"lookup", "count"} => ~calls[c].force

\* A call that starts a run owns an accepted row without one, if the row is
\* still there.
OwnsRow ==
    \A c \in After :
        /\ calls[c].id \in Logged => dels[calls[c].id].status = "accepted" /\ ~dels[calls[c].id].run
        /\ calls[c].id \in runs <=>
               calls[c].pc = "link" \/ (calls[c].pc = "fail" /\ calls[c].id \in broken)

\* The unforced deliveries with one of these keys and one of these times that
\* are accepted, or that a call has in hand which is at one of these places.
Tally(keys, times, pcs) ==
    {d \in DeliveryIds :
        \/ /\ d \in Accepted /\ ~dels[d].force
           /\ dels[d].payload \in keys /\ dels[d].at \in times
        \/ \E c \in Busy : /\ calls[c].pc \in pcs /\ ~calls[c].force /\ calls[c].id = d
                           /\ calls[c].payload \in keys /\ calls[c].now \in times}

\* What counts for the hour from t on: the calls in hand have passed the cap.
CapKept ==
    StormCap > 0 => \A t \in Nat :
        Cardinality(Tally(Payloads, t .. t + Hour, {"accept"})) < StormCap + Cardinality(Senders)

\* What is of key k in the window from t on: the calls in hand found no duplicate.
Window == IF DedupeWindow > Cooldown THEN DedupeWindow ELSE Cooldown
WindowFrom(t) == IF trig.shape.kind = "grafana" THEN 0 .. MaxClock ELSE t .. t + Window - 1
KeysKept ==
    \A k \in Payloads, t \in Nat :
        Cardinality(Tally({k}, WindowFrom(t), {"count", "accept"})) <= Cardinality(Senders)

TriggersInv == TriggersTyped /\ IdsKnown /\ NotYetLogged /\ OwnsRow
               /\ AcceptedHasRun /\ RunHasDelivery /\ CapKept /\ KeysKept

-----------------------------------------------------------------------------
(* Deliveries: the ranges of what they are made of. *)

LEMMA RowsAre ==
    /\ \A row \in Delivery : row # NoDelivery
    /\ \A call \in Call : call # Idle /\ call.pc # "idle"
    /\ Idle.pc = "idle"
<1>1. \A row \in Delivery : row # NoDelivery
  BY DEF Delivery, NoDelivery
<1>2. QED
  BY <1>1 DEF Call, Idle

LEMMA Bounds ==
    /\ DeliveryIds \subseteq Nat \ {0} /\ MaxDeliveries \in Nat /\ MaxClock \in Nat
    /\ StormCap \in Nat /\ Cooldown \in Nat /\ DedupeWindow \in Nat /\ Hour \in Nat
    /\ MaxChanges \in Nat /\ MaxFaults \in Nat /\ Window \in Nat
BY TriggersAssumption DEF DeliveryIds, Window

\* What a call is when it comes.
Begins(c) ==
    /\ calls[c] = Idle /\ received' = received + 1 /\ received + 1 \in DeliveryIds
    /\ UNCHANGED <<trig, dels, runs, broken, clock, changes, faults, torn>>
    /\ \E call \in Call :
          /\ calls' = [calls EXCEPT ![c] = call] /\ calls'[c] = call
          /\ call.id = received + 1 /\ call.now = clock
          /\ \/ call.pc = "record" /\ call.status # "accepted"
             \/ call.pc = "lookup" /\ call.status = "accepted" /\ ~call.force
             \/ call.pc = "accept" /\ call.status = "accepted" /\ call.force

LEMMA Arrives ==
    ASSUME TriggersTyped, NEW c \in Senders, NEW payload \in Payloads, NEW force \in BOOLEAN,
           calls[c] = Idle, process(c, payload, force)
    PROVE  Begins(c)
<1> DEFINE made(place, status) == [pc |-> place, id |-> received + 1, payload |-> payload,
                                force |-> force, now |-> clock, status |-> status]
<1>1. /\ received + 1 \in DeliveryIds /\ received' = received + 1
      /\ UNCHANGED <<trig, dels, runs, broken, clock, changes, faults, torn>>
  BY Bounds DEF process, TriggersTyped, DeliveryIds
<1>2. \E call \in {made("record", "rejected"), made("record", "failed"),
                   made("record", "skipped"),
                   made(IF force THEN "accept" ELSE "lookup", "accepted")} :
         calls' = [calls EXCEPT ![c] = call]
  BY DEF process
<1>3. PICK call : /\ calls' = [calls EXCEPT ![c] = call]
                  /\ call \in {made("record", "rejected"), made("record", "failed"),
                               made("record", "skipped"),
                               made(IF force THEN "accept" ELSE "lookup", "accepted")}
  BY <1>2
<1>4. /\ call \in Call /\ call.id = received + 1 /\ call.now = clock
      /\ \/ call.pc = "record" /\ call.status # "accepted"
         \/ call.pc = "lookup" /\ call.status = "accepted" /\ ~call.force
         \/ call.pc = "accept" /\ call.status = "accepted" /\ call.force
  BY <1>1, <1>3 DEF Call, Statuses, TriggersTyped
<1>5. calls'[c] = call
  BY <1>3 DEF TriggersTyped
<1>6. QED
  BY <1>1, <1>3, <1>4, <1>5 DEF Begins

LEMMA Begun ==
    ASSUME TriggersTyped, NEW c \in Senders, Deliver(c) \/ Replay(c) \/ Test(c)
    PROVE  Begins(c)
<1>1. CASE Deliver(c)
  BY <1>1, Arrives DEF Deliver
<1>2. CASE Replay(c)
  BY <1>2, Arrives, RowsAre DEF Replay, TriggersTyped, Logged, Delivery
<1>3. CASE Test(c)
  BY <1>3, Arrives DEF Test
<1>4. QED
  BY <1>1, <1>2, <1>3

\* What the later steps of a call do to the calls: its next place and its
\* verdict change, or it is over.
Proceeds(c) ==
    \/ calls' = [calls EXCEPT ![c] = Idle]
    \/ \E call \in Call :
          /\ calls' = [calls EXCEPT ![c] = call]
          /\ call.id = calls[c].id /\ call.payload = calls[c].payload
          /\ call.force = calls[c].force /\ call.now = calls[c].now

\* What they do to the log: nothing, or a write of the call's own row.
Writes(c) ==
    dels' = dels \/ \E row \in Delivery : dels' = [dels EXCEPT ![calls[c].id] = row]

LEMMA Steps ==
    ASSUME TriggersTyped, NEW c \in Senders,
           \/ Lookup(c) \/ Count(c) \/ record(c) \/ Accept(c)
           \/ StartRun(c) \/ SetRun(c) \/ failDelivery(c)
    PROVE  /\ calls[c] \in Call /\ Proceeds(c) /\ Writes(c)
           /\ runs' = runs \/ runs' = runs \union {calls[c].id}
           /\ \/ broken' = broken
              \/ broken' = broken \union {calls[c].id} /\ runs' = runs \union {calls[c].id}
           /\ UNCHANGED <<trig, clock, received, changes>>
<1>1. calls[c] \in Call
  BY RowsAre DEF TriggersTyped, Lookup, Count, record, Accept, StartRun, SetRun, failDelivery
<1>2. ASSUME NEW place \in {"lookup", "count", "record", "accept", "start", "link", "fail"}, Goes(c, place)
      PROVE  Proceeds(c)
  <2> DEFINE call == [calls[c] EXCEPT !.pc = place]
  <2>1. call \in Call
    BY <1>1, <1>2 DEF Call
  <2>2. /\ call.id = calls[c].id /\ call.payload = calls[c].payload
        /\ call.force = calls[c].force /\ call.now = calls[c].now
    BY <1>1 DEF Call
  <2>3. calls' = [calls EXCEPT ![c] = call]
    BY <1>2 DEF Goes
  <2> HIDE DEF call
  <2>4. QED
    BY <2>1, <2>2, <2>3 DEF Proceeds
<1>3. ASSUME NEW status \in Statuses, Decided(c, status) PROVE Proceeds(c)
  <2> DEFINE call == [calls[c] EXCEPT !.pc = "record", !.status = status]
  <2>1. call \in Call
    BY <1>1, <1>3 DEF Call
  <2>2. /\ call.id = calls[c].id /\ call.payload = calls[c].payload
        /\ call.force = calls[c].force /\ call.now = calls[c].now
    BY <1>1 DEF Call
  <2>3. calls' = [calls EXCEPT ![c] = call]
    BY <1>3 DEF Decided, TriggersTyped
  <2> HIDE DEF call
  <2>4. QED
    BY <2>1, <2>2, <2>3 DEF Proceeds
<1>4. Returns(c) => Proceeds(c)
  BY DEF Returns, Proceeds
<1>5. Log(c) => Writes(c)
  BY <1>1 DEF Log, Writes, Call, Delivery
<1>6. ASSUME NEW row \in Delivery, Write(calls[c].id, row) PROVE Writes(c)
  BY <1>6 DEF Write, Writes
<1>7. CASE Lookup(c)
  <2>1. Verdict(calls[c]) \in Statuses
    BY DEF Verdict, Statuses
  <2>2. QED
    BY <1>1, <1>2, <1>3, <1>7, <2>1 DEF Lookup, Writes, Statuses
<1>8. CASE Count(c)
  BY <1>1, <1>2, <1>3, <1>8 DEF Count, Writes, Statuses
<1>9. CASE record(c)
  BY <1>1, <1>4, <1>5, <1>9 DEF record, CannotLog, Writes
<1>10. CASE Accept(c)
  BY <1>1, <1>2, <1>4, <1>5, <1>10 DEF Accept, CannotLog, Writes
<1>11. CASE StartRun(c)
  BY <1>1, <1>2, <1>11 DEF StartRun, Writes
<1>12. CASE SetRun(c)
  <2>1. Proceeds(c) /\ UNCHANGED <<trig, clock, received, changes>>
    BY <1>4, <1>12 DEF SetRun
  <2>2. CASE calls[c].id \in Logged
    <3>1. [dels[calls[c].id] EXCEPT !.run = TRUE] \in Delivery
      <4>1. PICK row \in Delivery : row = dels[calls[c].id]
        BY <2>2 DEF Logged, TriggersTyped
      <4>2. [row EXCEPT !.run = TRUE] \in Delivery
        BY DEF Delivery
      <4>3. QED
        BY <4>1, <4>2
    <3>2. QED
      BY <1>1, <1>6, <1>12, <2>1, <3>1 DEF SetRun
  <2>3. CASE calls[c].id \notin Logged
    BY <1>1, <1>12, <2>1, <2>3 DEF SetRun, Write, Writes
  <2>4. QED
    BY <2>2, <2>3
<1>13. CASE failDelivery(c)
  <2>1. Proceeds(c) /\ UNCHANGED <<trig, clock, received, changes>>
    BY <1>4, <1>13 DEF failDelivery
  <2>2. CASE calls[c].id \in Logged
    <3>1. [dels[calls[c].id] EXCEPT !.status = "failed"] \in Delivery
      BY <2>2 DEF Logged, TriggersTyped, Delivery, Statuses
    <3>2. QED
      BY <1>1, <1>6, <1>13, <2>1, <3>1 DEF failDelivery
  <2>3. CASE calls[c].id \notin Logged
    BY <1>1, <1>13, <2>1, <2>3 DEF failDelivery, Write, Writes
  <2>4. QED
    BY <2>2, <2>3
<1>14. /\ runs' = runs \/ runs' = runs \union {calls[c].id}
       /\ \/ broken' = broken
          \/ broken' = broken \union {calls[c].id} /\ runs' = runs \union {calls[c].id}
  BY DEF Lookup, Count, record, Accept, StartRun, SetRun, failDelivery
<1>15. QED
  BY <1>7, <1>8, <1>9, <1>10, <1>11, <1>12, <1>13, <1>14

LEMMA TypesStay == TriggersTyped /\ [TriggersNext]_triggersVars => TriggersTyped'
<1> SUFFICES ASSUME TriggersTyped, [TriggersNext]_triggersVars PROVE TriggersTyped'
  OBVIOUS
<1>1. ASSUME NEW c \in Senders, Begins(c) PROVE TriggersTyped'
  BY <1>1, Bounds DEF Begins, TriggersTyped, DeliveryIds
<1>2. ASSUME NEW c \in Senders,
             \/ Lookup(c) \/ Count(c) \/ record(c) \/ Accept(c)
             \/ StartRun(c) \/ SetRun(c) \/ failDelivery(c)
      PROVE  TriggersTyped'
  <2>1. /\ calls[c] \in Call /\ Proceeds(c) /\ Writes(c)
        /\ UNCHANGED <<trig, clock, received, changes>>
    BY <1>2, Steps
  <2>2. calls[c].id \in DeliveryIds
    BY <2>1 DEF Call
  <2>7. broken' \subseteq runs'
    BY <1>2, Steps DEF TriggersTyped
  <2>3. runs' \subseteq DeliveryIds /\ torn' \subseteq DeliveryIds /\ faults' \in 0 .. MaxFaults
    BY <1>2, <2>2, Bounds DEF TriggersTyped, Lookup, Count, record, Accept, StartRun, SetRun,
       failDelivery, Write, Log, CannotLog, Fails, Sound
  <2>4. calls' \in [Senders -> {Idle} \union Call]
    BY <2>1 DEF Proceeds, TriggersTyped
  <2>5. dels' \in [DeliveryIds -> {NoDelivery} \union Delivery]
    BY <2>1 DEF Writes, TriggersTyped
  <2>6. QED
    BY <2>1, <2>3, <2>4, <2>5, <2>7 DEF TriggersTyped
<1>3. CASE RotateSecret \/ SetEnabled \/ TriggerIsDeleted
  <2>1. changes' \in 0 .. MaxChanges
    BY <1>3, Bounds DEF RotateSecret, SetEnabled, TriggerIsDeleted, Changes, TriggersTyped
  <2>2. trig' \in [present : BOOLEAN, enabled : BOOLEAN, secret : Secrets, shape : Shapes]
    <3>1. CASE RotateSecret
      BY <3>1 DEF RotateSecret, TriggersTyped, Secrets
    <3>2. CASE SetEnabled
      <4>1. trig.enabled = TRUE \/ trig.enabled = FALSE
        BY DEF TriggersTyped
      <4>2. \/ trig' = [trig EXCEPT !.enabled = FALSE]
            \/ trig' = [trig EXCEPT !.enabled = TRUE]
        BY <3>2, <4>1 DEF SetEnabled
      <4>3. QED
        BY <4>2 DEF TriggersTyped
    <3>3. CASE TriggerIsDeleted
      BY <3>3 DEF TriggerIsDeleted, TriggersTyped
    <3>4. QED
      BY <1>3, <3>1, <3>2, <3>3
  <2>3. dels' \in [DeliveryIds -> {NoDelivery} \union Delivery]
    BY <1>3 DEF RotateSecret, SetEnabled, TriggerIsDeleted, TriggersTyped
  <2>4. UNCHANGED <<runs, broken, calls, clock, received, faults, torn>>
    BY <1>3 DEF RotateSecret, SetEnabled, TriggerIsDeleted
  <2>5. QED
    BY <2>1, <2>2, <2>3, <2>4 DEF TriggersTyped
<1>4. CASE TimePasses
  BY <1>4, Bounds DEF TimePasses, TriggersTyped
<1>5. CASE ServerRestarts
  <2>1. \A c \in Senders : calls[c].pc \in {"start", "link", "fail"} => calls[c].id \in DeliveryIds
    BY RowsAre DEF TriggersTyped, Call
  <2>2. torn' \subseteq DeliveryIds
    BY <1>5, <2>1 DEF ServerRestarts, TriggersTyped
  <2>3. calls' \in [Senders -> {Idle} \union Call] /\ faults' \in 0 .. MaxFaults
    BY <1>5, Bounds DEF ServerRestarts, Fails, TriggersTyped
  <2>4. QED
    BY <1>5, <2>2, <2>3 DEF ServerRestarts, TriggersTyped
<1>6. CASE UNCHANGED triggersVars
  BY <1>6 DEF triggersVars, TriggersTyped
<1>7. QED
  BY <1>1, <1>2, <1>3, <1>4, <1>5, <1>6, Begun DEF TriggersNext

\* The other calls stay, and a call that goes on is still the same.
LEMMA OthersStay ==
    ASSUME TriggersTyped, NEW c \in Senders, calls[c] \in Call, Proceeds(c)
    PROVE  /\ \A b \in Senders : b # c => calls'[b] = calls[b]
           /\ \/ calls'[c] = Idle
              \/ /\ calls'[c] \in Call
                 /\ calls'[c].id = calls[c].id /\ calls'[c].payload = calls[c].payload
                 /\ calls'[c].force = calls[c].force /\ calls'[c].now = calls[c].now
           /\ Busy' \subseteq Busy /\ \A b \in Busy' : calls'[b].id = calls[b].id
<1>1. /\ \A b \in Senders : b # c => calls'[b] = calls[b]
      /\ \/ calls'[c] = Idle
         \/ /\ calls'[c] \in Call
            /\ calls'[c].id = calls[c].id /\ calls'[c].payload = calls[c].payload
            /\ calls'[c].force = calls[c].force /\ calls'[c].now = calls[c].now
  BY DEF Proceeds, TriggersTyped
<1>2. QED
  BY <1>1, RowsAre DEF Busy

LEMMA IdsStay ==
    TriggersTyped /\ IdsKnown /\ [TriggersNext]_triggersVars => IdsKnown'
<1> SUFFICES ASSUME TriggersTyped, IdsKnown, [TriggersNext]_triggersVars PROVE IdsKnown'
  OBVIOUS
<1>0. received \in Nat
  BY Bounds DEF TriggersTyped
<1>1. ASSUME NEW c \in Senders, Begins(c) PROVE IdsKnown'
  <2>1. PICK call \in Call : calls' = [calls EXCEPT ![c] = call] /\ calls'[c] = call /\ call.id = received + 1
    BY <1>1 DEF Begins
  <2>2. Busy' = Busy \union {c} /\ \A b \in Busy : b # c /\ calls'[b] = calls[b]
    BY <1>1, <2>1, RowsAre DEF Begins, Busy, TriggersTyped
  <2>3. Logged' = Logged /\ runs' = runs /\ received' = received + 1
    BY <1>1 DEF Begins, Logged
  <2>4. QED
    BY <1>0, <2>1, <2>2, <2>3 DEF IdsKnown
<1>2. ASSUME NEW c \in Senders,
             \/ Lookup(c) \/ Count(c) \/ record(c) \/ Accept(c)
             \/ StartRun(c) \/ SetRun(c) \/ failDelivery(c)
      PROVE  IdsKnown'
  <2>1. /\ calls[c] \in Call /\ Proceeds(c) /\ Writes(c) /\ received' = received
        /\ runs' = runs \/ runs' = runs \union {calls[c].id}
    BY <1>2, Steps
  <2>2. c \in Busy
    BY <2>1, RowsAre DEF Busy
  <2>3. Logged' \subseteq Logged \union {calls[c].id}
    BY <2>1 DEF Writes, Logged, TriggersTyped
  <2>4. Busy' \subseteq Busy /\ \A b \in Busy' : calls'[b].id = calls[b].id
    BY <2>1, OthersStay
  <2>5. QED
    BY <2>1, <2>2, <2>3, <2>4 DEF IdsKnown
<1>3. CASE RotateSecret \/ SetEnabled \/ TimePasses
  BY <1>3 DEF RotateSecret, SetEnabled, TimePasses, IdsKnown, Busy, Logged
<1>4. CASE TriggerIsDeleted
  <2>1. Logged' = {}
    BY <1>4 DEF TriggerIsDeleted, Logged
  <2>2. QED
    BY <1>4, <2>1 DEF TriggerIsDeleted, IdsKnown, Busy
<1>5. CASE ServerRestarts
  <2>1. Busy' = {} /\ Logged' = Logged /\ runs' = runs /\ received' = received
    BY <1>5 DEF ServerRestarts, Busy, Logged
  <2>2. QED
    BY <2>1 DEF IdsKnown
<1>6. CASE UNCHANGED triggersVars
  BY <1>6 DEF triggersVars, IdsKnown, Busy, Logged
<1>7. QED
  BY <1>1, <1>2, <1>3, <1>4, <1>5, <1>6, Begun DEF TriggersNext

LEMMA NotYetStays ==
    TriggersTyped /\ IdsKnown /\ NotYetLogged /\ [TriggersNext]_triggersVars => NotYetLogged'
<1> SUFFICES ASSUME TriggersTyped, IdsKnown, NotYetLogged, [TriggersNext]_triggersVars
             PROVE  NotYetLogged'
  OBVIOUS
<1>1. ASSUME NEW c \in Senders, Begins(c) PROVE NotYetLogged'
  <2>1. PICK call \in Call :
           /\ calls' = [calls EXCEPT ![c] = call] /\ calls'[c] = call /\ call.id = received + 1
           /\ \/ call.pc = "record" /\ call.status # "accepted"
              \/ call.pc = "lookup" /\ call.status = "accepted" /\ ~call.force
              \/ call.pc = "accept" /\ call.status = "accepted" /\ call.force
    BY <1>1 DEF Begins
  <2>2. Busy' = Busy \union {c} /\ \A b \in Busy : b # c /\ calls'[b] = calls[b]
    BY <1>1, <2>1, RowsAre DEF Begins, Busy, TriggersTyped
  <2>3. Logged' = Logged /\ runs' = runs
    BY <1>1 DEF Begins, Logged
  <2>4. received + 1 \notin Logged \union runs
    BY Bounds DEF IdsKnown, TriggersTyped
  <2>5. QED
    BY <2>1, <2>2, <2>3, <2>4 DEF NotYetLogged, Before, Gated
<1>2. ASSUME NEW c \in Senders,
             \/ Lookup(c) \/ Count(c) \/ record(c) \/ Accept(c)
             \/ StartRun(c) \/ SetRun(c) \/ failDelivery(c)
      PROVE  NotYetLogged'
  <2>1. /\ calls[c] \in Call /\ Proceeds(c) /\ Writes(c) /\ received' = received
        /\ runs' = runs \/ runs' = runs \union {calls[c].id}
    BY <1>2, Steps
  <2>2. c \in Busy
    BY <2>1, RowsAre DEF Busy
  <2>3. Logged' \subseteq Logged \union {calls[c].id}
    BY <2>1 DEF Writes, Logged, TriggersTyped
  <2>4. Busy' \subseteq Busy /\ \A b \in Busy : b # c => calls'[b] = calls[b]
    BY <2>1, OthersStay DEF Busy
  <2>5. \A b \in Before' : b # c => calls'[b].id \notin Logged' \union runs'
    BY <2>1, <2>2, <2>3, <2>4 DEF IdsKnown, NotYetLogged, Before
  <2>6. \/ c \notin Before'
        \/ /\ c \in Before /\ Logged' = Logged /\ runs' = runs
           /\ calls'[c].pc \in {"lookup", "count", "accept"} => calls'[c].status = "accepted"
           /\ calls'[c].pc = "record" => calls'[c].status # "accepted"
           /\ calls'[c].pc \in {"lookup", "count"} => ~calls'[c].force
    <3>1. CASE Lookup(c)
      BY <2>1, <2>2, <3>1, RowsAre DEF Lookup, Goes, Decided, NotYetLogged, Before, Gated, Logged, Call, TriggersTyped
    <3>2. CASE Count(c)
      BY <2>1, <2>2, <3>2, RowsAre DEF Count, Goes, Decided, NotYetLogged, Before, Gated, Logged, Call, TriggersTyped
    <3>3. CASE record(c) \/ SetRun(c) \/ failDelivery(c)
      <4>1. calls'[c] = Idle
        BY <3>3 DEF record, SetRun, failDelivery, Returns, TriggersTyped
      <4>2. QED
        BY <4>1 DEF Before, Busy
    <3>4. CASE Accept(c) \/ StartRun(c)
      <4>1. calls'[c].pc \notin {"lookup", "count", "record", "accept"}
        BY <2>1, <3>4, RowsAre DEF Accept, StartRun, Goes, Returns, TriggersTyped, Call
      <4>2. QED
        BY <4>1 DEF Before
    <3>5. QED
      BY <1>2, <3>1, <3>2, <3>3, <3>4
  <2>7. calls'[c].id = calls[c].id \/ c \notin Busy'
    BY <2>1, OthersStay
  <2>8. QED
    BY <2>2, <2>4, <2>5, <2>6, <2>7 DEF NotYetLogged, Before, Gated
<1>3. CASE RotateSecret \/ SetEnabled \/ TimePasses
  BY <1>3 DEF RotateSecret, SetEnabled, TimePasses, NotYetLogged, Before, Gated, Busy, Logged
<1>4. CASE TriggerIsDeleted
  <2>1. Logged' = {}
    BY <1>4 DEF TriggerIsDeleted, Logged
  <2>2. QED
    BY <1>4, <2>1 DEF TriggerIsDeleted, NotYetLogged, Before, Gated, Busy
<1>5. CASE ServerRestarts
  <2>1. Busy' = {}
    BY <1>5 DEF ServerRestarts, Busy
  <2>2. QED
    BY <2>1 DEF NotYetLogged, Before, Gated
<1>6. CASE UNCHANGED triggersVars
  BY <1>6 DEF triggersVars, NotYetLogged, Before, Gated, Busy, Logged
<1>7. QED
  BY <1>1, <1>2, <1>3, <1>4, <1>5, <1>6, Begun DEF TriggersNext

\* The rows and runs of the other deliveries stay.
LEMMA RowsStay ==
    ASSUME TriggersTyped, NEW c \in Senders,
           \/ Lookup(c) \/ Count(c) \/ record(c) \/ Accept(c)
           \/ StartRun(c) \/ SetRun(c) \/ failDelivery(c),
           NEW d \in DeliveryIds, d # calls[c].id
    PROVE  /\ dels'[d] = dels[d]
           /\ d \in Logged' <=> d \in Logged
           /\ d \in runs' <=> d \in runs
           /\ d \in broken' <=> d \in broken
<1>1. /\ Writes(c) /\ (runs' = runs \/ runs' = runs \union {calls[c].id})
      /\ broken' = broken \/ broken' = broken \union {calls[c].id}
  BY Steps
<1>2. dels'[d] = dels[d]
  BY <1>1 DEF Writes, TriggersTyped
<1>3. QED
  BY <1>1, <1>2 DEF Logged

LEMMA OwnsStays ==
    TriggersTyped /\ IdsKnown /\ NotYetLogged /\ OwnsRow /\ [TriggersNext]_triggersVars => OwnsRow'
<1> SUFFICES ASSUME TriggersTyped, IdsKnown, NotYetLogged, OwnsRow, [TriggersNext]_triggersVars
             PROVE  OwnsRow'
  OBVIOUS
<1>1. ASSUME NEW c \in Senders, Begins(c) PROVE OwnsRow'
  <2>1. PICK call \in Call :
           /\ calls' = [calls EXCEPT ![c] = call] /\ calls'[c] = call
           /\ call.pc \in {"lookup", "accept", "record"}
    BY <1>1 DEF Begins
  <2>2. Busy' = Busy \union {c} /\ \A b \in Busy : b # c /\ calls'[b] = calls[b]
    BY <1>1, <2>1, RowsAre DEF Begins, Busy, TriggersTyped
  <2>3. Logged' = Logged /\ runs' = runs /\ broken' = broken /\ dels' = dels
    BY <1>1 DEF Begins, Logged
  <2>4. QED
    BY <2>1, <2>2, <2>3 DEF OwnsRow, After
<1>2. ASSUME NEW c \in Senders,
             \/ Lookup(c) \/ Count(c) \/ record(c) \/ Accept(c)
             \/ StartRun(c) \/ SetRun(c) \/ failDelivery(c)
      PROVE  OwnsRow'
  <2>1. /\ calls[c] \in Call /\ Proceeds(c)
    BY <1>2, Steps
  <2>2. /\ Busy' \subseteq Busy /\ \A b \in Busy' : calls'[b].id = calls[b].id
        /\ \A b \in Senders : b # c => calls'[b] = calls[b]
    BY <2>1, OthersStay
  <2>3. c \in Busy /\ \A b \in Busy : calls[b].id \in DeliveryIds
    BY <2>1, RowsAre DEF Busy, Call, TriggersTyped
  <2>4. ASSUME NEW b \in After', b # c
        PROVE  /\ b \in After /\ calls'[b] = calls[b] /\ calls[b].id # calls[c].id
    BY <2>2, <2>3, <2>4 DEF After, Busy, IdsKnown
  <2>5. ASSUME NEW b \in After', b # c
        PROVE  /\ calls'[b].id \in Logged' =>
                       dels'[calls'[b].id].status = "accepted" /\ ~dels'[calls'[b].id].run
               /\ calls'[b].id \in runs' <=>
                       \/ calls'[b].pc = "link"
                       \/ calls'[b].pc = "fail" /\ calls'[b].id \in broken'
    <3>1. calls[b].id \in DeliveryIds /\ b \in After
      BY <2>2, <2>3, <2>4, <2>5 DEF After
    <3>2. /\ dels'[calls[b].id] = dels[calls[b].id]
          /\ calls[b].id \in Logged' <=> calls[b].id \in Logged
          /\ calls[b].id \in runs' <=> calls[b].id \in runs
          /\ calls[b].id \in broken' <=> calls[b].id \in broken
      BY <1>2, <2>4, <2>5, <3>1, RowsStay
    <3>3. QED
      BY <2>4, <2>5, <3>1, <3>2 DEF OwnsRow
  <2>6. ASSUME c \in After'
        PROVE  /\ calls'[c].id \in Logged' =>
                       dels'[calls'[c].id].status = "accepted" /\ ~dels'[calls'[c].id].run
               /\ calls'[c].id \in runs' <=>
                       \/ calls'[c].pc = "link"
                       \/ calls'[c].pc = "fail" /\ calls'[c].id \in broken'
    <3>1. CASE Accept(c)
      <4>1. Log(c) /\ Goes(c, "start") /\ runs' = runs
        BY <2>6, <3>1 DEF Accept, Returns, TriggersTyped, After, Busy
      <4>2. calls[c].id \notin runs /\ calls[c].status = "accepted"
        BY <2>3, <3>1 DEF NotYetLogged, Before, Gated, Accept
      <4>3. calls'[c].id = calls[c].id /\ calls'[c].pc = "start"
        BY <2>1, <4>1 DEF Goes, TriggersTyped, Call
      <4>4. dels'[calls[c].id].status = "accepted" /\ ~dels'[calls[c].id].run
        BY <2>3, <4>1, <4>2 DEF Log, TriggersTyped
      <4>5. QED
        BY <4>1, <4>2, <4>3, <4>4
    <3>2. CASE StartRun(c)
      <4>1. /\ c \in After /\ calls[c].pc = "start" /\ dels' = dels
            /\ \/ runs' = runs \union {calls[c].id} /\ Goes(c, "link")
               \/ runs' = runs /\ broken' = broken /\ Goes(c, "fail")
               \/ /\ runs' = runs \union {calls[c].id} /\ Goes(c, "fail")
                  /\ broken' = broken \union {calls[c].id}
        BY <2>3, <3>2 DEF StartRun, After
      <4>2. Logged' = Logged /\ calls'[c].id = calls[c].id
        BY <2>1, <2>2, <2>6, <4>1 DEF Logged, After
      <4>3. calls[c].id \notin runs /\ calls[c].id \notin broken
        BY <4>1 DEF OwnsRow, TriggersTyped
      <4>4. calls'[c].id \in runs' <=>
                \/ calls'[c].pc = "link"
                \/ calls'[c].pc = "fail" /\ calls'[c].id \in broken'
        BY <2>1, <4>1, <4>2, <4>3 DEF Goes, TriggersTyped, Call
      <4>5. QED
        BY <4>1, <4>2, <4>4 DEF OwnsRow
    <3>3. CASE Lookup(c) \/ Count(c)
      <4>1. calls'[c].pc \in {"record", "count", "accept"}
        BY <2>1, <3>3 DEF Lookup, Count, Goes, Decided, TriggersTyped, Call
      <4>2. QED
        BY <2>6, <4>1 DEF After
    <3>4. CASE record(c) \/ SetRun(c) \/ failDelivery(c)
      <4>1. calls'[c] = Idle
        BY <3>4 DEF record, SetRun, failDelivery, Returns, TriggersTyped
      <4>2. QED
        BY <2>6, <4>1 DEF After, Busy
    <3>5. QED
      BY <1>2, <3>1, <3>2, <3>3, <3>4
  <2>7. QED
    BY <2>5, <2>6 DEF OwnsRow
<1>3. CASE RotateSecret \/ SetEnabled \/ TimePasses
  BY <1>3 DEF RotateSecret, SetEnabled, TimePasses, OwnsRow, After, Busy, Logged
<1>4. CASE TriggerIsDeleted
  <2>1. Logged' = {}
    BY <1>4 DEF TriggerIsDeleted, Logged
  <2>2. QED
    BY <1>4, <2>1 DEF TriggerIsDeleted, OwnsRow, After, Busy
<1>5. CASE ServerRestarts
  <2>1. Busy' = {}
    BY <1>5 DEF ServerRestarts, Busy
  <2>2. QED
    BY <2>1 DEF OwnsRow, After
<1>6. CASE UNCHANGED triggersVars
  BY <1>6 DEF triggersVars, OwnsRow, After, Busy, Logged
<1>7. QED
  BY <1>1, <1>2, <1>3, <1>4, <1>5, <1>6, Begun DEF TriggersNext

\* What every accepted delivery without a run has, stated of the calls that
\* work on it.
LEMMA HasRunStays ==
    TriggersTyped /\ IdsKnown /\ NotYetLogged /\ OwnsRow /\ AcceptedHasRun /\ [TriggersNext]_triggersVars
        => AcceptedHasRun'
<1> SUFFICES ASSUME TriggersTyped, IdsKnown, NotYetLogged, OwnsRow, AcceptedHasRun,
                    [TriggersNext]_triggersVars,
                    NEW d \in Accepted', d \notin torn', ~dels'[d].run
             PROVE  \E c \in Senders : calls'[c].pc \in {"start", "link", "fail"} /\ calls'[c].id = d
  BY DEF AcceptedHasRun
<1>0. d \in DeliveryIds
  BY DEF Accepted, Logged
<1>1. ASSUME NEW c \in Senders, Begins(c)
      PROVE  \E b \in Senders : calls'[b].pc \in {"start", "link", "fail"} /\ calls'[b].id = d
  <2>1. d \in Accepted \ torn /\ ~dels[d].run
    BY <1>1 DEF Begins, Accepted, Logged
  <2>2. PICK b \in Senders : calls[b].pc \in {"start", "link", "fail"} /\ calls[b].id = d
    BY <2>1 DEF AcceptedHasRun
  <2>3. b # c
    BY <1>1, <2>2, RowsAre DEF Begins
  <2>4. calls'[b] = calls[b]
    BY <1>1, <2>3 DEF Begins, TriggersTyped
  <2>5. QED
    BY <2>2, <2>4
<1>2. ASSUME NEW c \in Senders,
             \/ Lookup(c) \/ Count(c) \/ record(c) \/ Accept(c)
             \/ StartRun(c) \/ SetRun(c) \/ failDelivery(c)
      PROVE  \E b \in Senders : calls'[b].pc \in {"start", "link", "fail"} /\ calls'[b].id = d
  <2>1. /\ calls[c] \in Call /\ Proceeds(c)
    BY <1>2, Steps
  <2>2. \A b \in Senders : b # c => calls'[b] = calls[b]
    BY <2>1, OthersStay
  <2>3. torn \subseteq torn'
    BY <1>2 DEF Lookup, Count, record, Accept, StartRun, SetRun, failDelivery, Write
  <2>4. CASE d # calls[c].id
    <3>1. dels'[d] = dels[d] /\ (d \in Logged' <=> d \in Logged)
      BY <1>0, <1>2, <2>4, RowsStay
    <3>2. d \in Accepted \ torn /\ ~dels[d].run
      BY <2>3, <3>1 DEF Accepted
    <3>3. PICK b \in Senders : calls[b].pc \in {"start", "link", "fail"} /\ calls[b].id = d
      BY <3>2 DEF AcceptedHasRun
    <3>4. QED
      BY <2>2, <2>4, <3>3
  <2>5. CASE d = calls[c].id
    <3>1. CASE Lookup(c) \/ Count(c)
      <4>1. dels' = dels /\ c \in Before
        BY <2>1, <3>1, RowsAre DEF Lookup, Count, Before, Busy
      <4>2. QED
        BY <2>5, <4>1 DEF NotYetLogged, Accepted, Logged
    <3>2. CASE record(c)
      <4>1. c \in Before /\ calls[c].pc = "record" /\ calls[c].status # "accepted"
        BY <2>1, <3>2, RowsAre DEF record, Before, Busy, NotYetLogged
      <4>2. CASE Log(c)
        BY <1>0, <2>5, <4>1, <4>2 DEF Log, TriggersTyped, Accepted
      <4>3. CASE CannotLog
        BY <2>5, <4>1, <4>3 DEF CannotLog, NotYetLogged, Accepted, Logged
      <4>4. QED
        BY <3>2, <4>2, <4>3 DEF record
    <3>3. CASE Accept(c)
      <4>1. CASE Log(c) /\ Goes(c, "start")
        BY <2>1, <2>5, <4>1 DEF Goes, TriggersTyped, Call
      <4>2. CASE CannotLog
        <5>1. c \in Before
          BY <2>1, <3>3, RowsAre DEF Accept, Before, Busy
        <5>2. QED
          BY <2>5, <4>2, <5>1 DEF CannotLog, NotYetLogged, Accepted, Logged
      <4>3. QED
        BY <3>3, <4>1, <4>2 DEF Accept
    <3>4. CASE StartRun(c)
      BY <2>1, <2>5, <3>4 DEF StartRun, Goes, TriggersTyped, Call
    <3>5. CASE SetRun(c)
      <4>1. Write(d, [dels[d] EXCEPT !.run = TRUE])
        BY <2>5, <3>5 DEF SetRun
      <4>2. CASE dels' = IF d \in Logged THEN [dels EXCEPT ![d] = [dels[d] EXCEPT !.run = TRUE]] ELSE dels
        <5>1. d \in Logged
          BY <4>2 DEF Accepted, Logged
        <5>2. dels[d] \in Delivery
          BY <5>1 DEF Logged, TriggersTyped
        <5>3. dels'[d] = [dels[d] EXCEPT !.run = TRUE]
          BY <1>0, <4>2, <5>1 DEF TriggersTyped
        <5>4. QED
          BY <5>2, <5>3 DEF Delivery
      <4>3. CASE torn' = torn \union {d}
        BY <4>3
      <4>4. QED
        BY <4>1, <4>2, <4>3 DEF Write
    <3>6. CASE failDelivery(c)
      <4>1. Write(d, [dels[d] EXCEPT !.status = "failed"])
        BY <2>5, <3>6 DEF failDelivery
      <4>2. CASE dels' = IF d \in Logged THEN [dels EXCEPT ![d] = [dels[d] EXCEPT !.status = "failed"]] ELSE dels
        <5>1. d \in Logged
          BY <4>2 DEF Accepted, Logged
        <5>2. dels[d] \in Delivery
          BY <5>1 DEF Logged, TriggersTyped
        <5>3. dels'[d] = [dels[d] EXCEPT !.status = "failed"]
          BY <1>0, <4>2, <5>1 DEF TriggersTyped
        <5>4. QED
          BY <5>2, <5>3 DEF Delivery, Accepted
      <4>3. CASE torn' = torn \union {d}
        BY <4>3
      <4>4. QED
        BY <4>1, <4>2, <4>3 DEF Write
    <3>7. QED
      BY <1>2, <3>1, <3>2, <3>3, <3>4, <3>5, <3>6
  <2>6. QED
    BY <2>4, <2>5
<1>3. CASE RotateSecret \/ SetEnabled \/ TimePasses \/ UNCHANGED triggersVars
  BY <1>3 DEF RotateSecret, SetEnabled, TimePasses, AcceptedHasRun, Accepted, Logged, triggersVars
<1>4. CASE TriggerIsDeleted
  BY <1>0, <1>4 DEF TriggerIsDeleted, Accepted, Logged
<1>5. CASE ServerRestarts
  <2>1. d \in Accepted \ torn /\ ~dels[d].run
    BY <1>5 DEF ServerRestarts, Accepted, Logged
  <2>2. PICK b \in Senders : calls[b].pc \in {"start", "link", "fail"} /\ calls[b].id = d
    BY <2>1 DEF AcceptedHasRun
  <2>3. d \in torn'
    BY <1>5, <2>2 DEF ServerRestarts
  <2>4. QED
    BY <2>3
<1>6. QED
  BY <1>1, <1>2, <1>3, <1>4, <1>5, Begun DEF TriggersNext

LEMMA RunLoggedStays ==
    TriggersTyped /\ IdsKnown /\ NotYetLogged /\ OwnsRow /\ RunHasDelivery /\ [TriggersNext]_triggersVars
        => RunHasDelivery'
<1> SUFFICES ASSUME TriggersTyped, IdsKnown, NotYetLogged, OwnsRow, RunHasDelivery,
                    [TriggersNext]_triggersVars, NEW d \in runs'
             PROVE  /\ trig'.shape.target = "template" => d \in Logged'
                    /\ d \in Logged' => dels'[d].status = "accepted" \/ d \in broken'
  BY DEF RunHasDelivery
<1> DEFINE Fine == /\ trig'.shape.target = "template" => d \in Logged'
                   /\ d \in Logged' => dels'[d].status = "accepted" \/ d \in broken'
<1>0. broken \subseteq broken'
  <2>1. ASSUME NEW c \in Senders,
               \/ Lookup(c) \/ Count(c) \/ record(c) \/ Accept(c)
               \/ StartRun(c) \/ SetRun(c) \/ failDelivery(c)
        PROVE  broken \subseteq broken'
    BY <2>1, Steps
  <2>2. (\E c \in Senders : Begins(c)) => broken' = broken
    BY DEF Begins
  <2>3. QED
    BY <2>1, <2>2, Begun DEF TriggersNext, RotateSecret, SetEnabled, TriggerIsDeleted, TimePasses,
       ServerRestarts, triggersVars
<1>1. ASSUME runs' = runs, dels' = dels, trig'.shape = trig.shape PROVE Fine
  BY <1>0, <1>1 DEF RunHasDelivery, Logged
<1>2. ASSUME NEW c \in Senders,
             \/ Lookup(c) \/ Count(c) \/ record(c) \/ Accept(c)
             \/ StartRun(c) \/ SetRun(c) \/ failDelivery(c)
      PROVE  Fine
  <2>1. /\ calls[c] \in Call /\ trig' = trig
        /\ runs' = runs \/ runs' = runs \union {calls[c].id}
    BY <1>2, Steps
  <2>2. calls[c].id \in DeliveryIds /\ runs \subseteq DeliveryIds
    BY <2>1 DEF Call, TriggersTyped
  <2>3. CASE d # calls[c].id
    <3>1. d \in runs /\ d \in DeliveryIds
      BY <2>1, <2>2, <2>3
    <3>2. dels'[d] = dels[d] /\ (d \in Logged' <=> d \in Logged)
      BY <1>2, <2>3, <3>1, RowsStay
    <3>3. QED
      BY <1>0, <2>1, <3>1, <3>2 DEF RunHasDelivery
  <2>4. CASE d = calls[c].id
    <3>1. CASE Lookup(c) \/ Count(c)
      BY <1>1, <2>1, <3>1 DEF Lookup, Count
    <3>2. CASE record(c) \/ Accept(c)
      <4>1. c \in Before /\ runs' = runs
        BY <2>1, <3>2, RowsAre DEF record, Accept, Before, Busy
      <4>2. QED
        BY <2>4, <4>1 DEF NotYetLogged
    <3>3. CASE StartRun(c)
      <4>1. c \in After /\ dels' = dels /\ Logged' = Logged
        BY <2>1, <3>3, RowsAre DEF StartRun, After, Busy, Logged
      <4>2. calls[c].pc = "start" /\ d \notin runs
        BY <2>4, <3>3, <4>1 DEF StartRun, OwnsRow
      <4>3. trig.shape.target = "template" => d \in Logged
        BY <2>4, <3>3, <4>2 DEF StartRun
      <4>4. QED
        BY <2>1, <2>4, <4>1, <4>3 DEF OwnsRow
    <3>4. CASE SetRun(c)
      <4>1. runs' = runs /\ Write(d, [dels[d] EXCEPT !.run = TRUE])
        BY <2>4, <3>4 DEF SetRun
      <4>2. CASE d \in Logged /\ dels' = [dels EXCEPT ![d] = [dels[d] EXCEPT !.run = TRUE]]
        <5>1. dels[d] \in Delivery /\ (dels[d].status = "accepted" \/ d \in broken)
          BY <4>1, <4>2 DEF RunHasDelivery, Logged, TriggersTyped
        <5>2. dels'[d] = [dels[d] EXCEPT !.run = TRUE]
          BY <2>2, <2>4, <4>2 DEF TriggersTyped
        <5>3. dels'[d] \in Delivery /\ (dels'[d].status = "accepted" \/ d \in broken')
          BY <1>0, <5>1, <5>2 DEF Delivery
        <5>4. d \in Logged'
          BY <2>2, <2>4, <5>3, RowsAre DEF Logged
        <5>5. QED
          BY <5>3, <5>4
      <4>3. CASE dels' = dels
        BY <1>1, <2>1, <4>1, <4>3
      <4>4. QED
        BY <4>1, <4>2, <4>3 DEF Write
    <3>5. CASE failDelivery(c)
      <4>1. c \in After /\ calls[c].pc = "fail" /\ runs' = runs
        BY <2>1, <3>5, RowsAre DEF failDelivery, After, Busy
      <4>2. d \in broken'
        BY <1>0, <2>4, <4>1 DEF OwnsRow
      <4>3. trig.shape.target = "template" => d \in Logged
        BY <4>1 DEF RunHasDelivery
      <4>4. Logged \subseteq Logged'
        <5>1. /\ \/ dels' = dels
                 \/ dels' = IF d \in Logged THEN [dels EXCEPT ![d] = [dels[d] EXCEPT !.status = "failed"]]
                            ELSE dels
          BY <2>4, <3>5 DEF failDelivery, Write
        <5>2. d \in Logged => [dels[d] EXCEPT !.status = "failed"] \in Delivery
          BY <2>2, <2>4 DEF Logged, TriggersTyped, Delivery, Statuses
        <5>3. \A e \in Logged : dels'[e] # NoDelivery
          BY <2>2, <2>4, <5>1, <5>2, RowsAre DEF Logged, TriggersTyped
        <5>4. QED
          BY <5>3 DEF Logged
      <4>5. QED
        BY <2>1, <4>2, <4>3, <4>4
    <3>6. QED
      BY <1>2, <3>1, <3>2, <3>3, <3>4, <3>5
  <2>5. QED
    BY <2>3, <2>4
<1>3. ASSUME NEW c \in Senders, Begins(c) PROVE Fine
  BY <1>1, <1>3 DEF Begins
<1>4. CASE TriggerIsDeleted
  <2>1. Logged' = {} /\ runs' = runs /\ trig'.shape = trig.shape
    BY <1>4 DEF TriggerIsDeleted, Logged, TriggersTyped
  <2>2. trig'.shape.target # "template"
    BY <1>4, <2>1 DEF TriggerIsDeleted
  <2>3. QED
    BY <2>1, <2>2
<1>5. CASE RotateSecret \/ SetEnabled \/ TimePasses \/ ServerRestarts \/ UNCHANGED triggersVars
  <2>1. runs' = runs /\ dels' = dels /\ trig'.shape = trig.shape
    BY <1>5 DEF RotateSecret, SetEnabled, TimePasses, ServerRestarts, triggersVars, TriggersTyped
  <2>2. QED
    BY <1>1, <2>1
<1>6. QED
  BY <1>2, <1>3, <1>4, <1>5, Begun DEF TriggersNext

-----------------------------------------------------------------------------
(* Counting. *)

\* The deliveries that calls have in hand are no more than the senders.
LEMMA InHand ==
    ASSUME NEW hands \in SUBSET Senders, NEW carried
    PROVE  LET D == {carried[c].id : c \in hands}
           IN  /\ IsFiniteSet(D) /\ Cardinality(D) \in Nat
               /\ Cardinality(D) <= Cardinality(Senders)
<1> DEFINE D == {carried[c].id : c \in hands}
           f == [c \in hands |-> carried[c].id]
<1>1. IsFiniteSet(Senders)
  BY TriggersAssumption
<1>2. /\ IsFiniteSet(hands) /\ Cardinality(hands) <= Cardinality(Senders)
      /\ Cardinality(hands) \in Nat /\ Cardinality(Senders) \in Nat
  BY <1>1, FS_Subset, FS_CardinalityType
<1>3. f \in Surjection(hands, D)
  BY DEF Surjection
<1> HIDE DEF f, D
<1>4. IsFiniteSet(D) /\ Cardinality(D) <= Cardinality(hands)
  BY <1>2, <1>3, FS_Surjection
<1>5. Cardinality(D) \in Nat
  BY <1>4, FS_CardinalityType
<1>6. QED
  BY <1>2, <1>4, <1>5 DEF D

\* Deliveries are finitely many.
LEMMA Finite ==
    ASSUME NEW D, D \subseteq DeliveryIds
    PROVE  IsFiniteSet(D) /\ Cardinality(D) \in Nat
<1>1. IsFiniteSet(DeliveryIds)
  BY FS_Interval, Bounds DEF DeliveryIds
<1>2. D \in SUBSET DeliveryIds
  OBVIOUS
<1>3. IsFiniteSet(D)
  BY <1>1, <1>2, FS_Subset
<1>4. QED
  BY <1>3, FS_CardinalityType

LEMMA Smaller ==
    ASSUME NEW D, D \subseteq DeliveryIds, NEW E, E \subseteq D
    PROVE  Cardinality(E) <= Cardinality(D)
BY Finite, FS_Subset

\* A delivery becomes accepted when its call writes it.
LEMMA AcceptedGrows ==
    ASSUME TriggersTyped, NotYetLogged, [TriggersNext]_triggersVars, NEW d \in Accepted'
    PROVE  \/ /\ d \in Accepted /\ dels'[d].force = dels[d].force
              /\ dels'[d].payload = dels[d].payload /\ dels'[d].at = dels[d].at
           \/ \E c \in Busy : /\ calls[c].pc = "accept" /\ calls[c].id = d
                              /\ dels'[d].force = calls[c].force
                              /\ dels'[d].payload = calls[c].payload /\ dels'[d].at = calls[c].now
<1> DEFINE Known == \/ /\ d \in Accepted /\ dels'[d].force = dels[d].force
                       /\ dels'[d].payload = dels[d].payload /\ dels'[d].at = dels[d].at
                    \/ \E c \in Busy : /\ calls[c].pc = "accept" /\ calls[c].id = d
                                       /\ dels'[d].force = calls[c].force
                                       /\ dels'[d].payload = calls[c].payload
                                       /\ dels'[d].at = calls[c].now
<1>0. d \in DeliveryIds
  BY DEF Accepted, Logged
<1>1. ASSUME dels' = dels PROVE Known
  BY <1>1 DEF Accepted, Logged
<1>2. ASSUME NEW c \in Senders,
             \/ Lookup(c) \/ Count(c) \/ record(c) \/ Accept(c)
             \/ StartRun(c) \/ SetRun(c) \/ failDelivery(c)
      PROVE  Known
  <2>1. calls[c] \in Call /\ c \in Busy
    BY <1>2, Steps, RowsAre DEF Busy
  <2>2. CASE d # calls[c].id
    <3>1. dels'[d] = dels[d] /\ (d \in Logged' <=> d \in Logged)
      BY <1>0, <1>2, <2>2, RowsStay
    <3>2. QED
      BY <3>1 DEF Accepted
  <2>3. CASE d = calls[c].id
    <3>1. ASSUME Log(c)
          PROVE  /\ calls[c].status = "accepted"
                 /\ dels'[d].payload = calls[c].payload /\ dels'[d].at = calls[c].now
                 /\ dels'[d].force = calls[c].force
      <4>1. dels'[d] = [status |-> calls[c].status, payload |-> calls[c].payload,
                        at |-> calls[c].now, run |-> FALSE,
                        force |-> calls[c].force /\ calls[c].status = "accepted"]
        BY <1>0, <2>3, <3>1 DEF Log, TriggersTyped
      <4>2. calls[c].status = "accepted"
        BY <4>1 DEF Accepted
      <4>3. calls[c].force \in BOOLEAN
        BY <2>1 DEF Call
      <4>4. dels'[d].force = (calls[c].force /\ calls[c].status = "accepted")
        BY <4>1
      <4>5. QED
        BY <4>1, <4>2, <4>3, <4>4
    <3>2. CASE record(c)
      BY <1>1, <2>1, <3>1, <3>2 DEF record, CannotLog, NotYetLogged
    <3>3. CASE Accept(c)
      BY <1>1, <2>1, <2>3, <3>1, <3>3 DEF Accept, CannotLog
    <3>4. CASE Lookup(c) \/ Count(c) \/ StartRun(c)
      BY <1>1, <3>4 DEF Lookup, Count, StartRun
    <3>5. CASE SetRun(c) \/ failDelivery(c)
      <4>1. \/ Write(d, [dels[d] EXCEPT !.run = TRUE])
            \/ Write(d, [dels[d] EXCEPT !.status = "failed"])
        BY <2>3, <3>5 DEF SetRun, failDelivery
      <4>2. CASE d \in Logged /\ dels' = [dels EXCEPT ![d] = [dels[d] EXCEPT !.run = TRUE]]
        <5>1. dels[d] \in Delivery /\ dels'[d] = [dels[d] EXCEPT !.run = TRUE]
          BY <1>0, <4>2 DEF Logged, TriggersTyped
        <5>2. /\ dels'[d].status = dels[d].status /\ dels'[d].force = dels[d].force
              /\ dels'[d].payload = dels[d].payload /\ dels'[d].at = dels[d].at
          BY <5>1 DEF Delivery
        <5>3. QED
          BY <4>2, <5>2 DEF Accepted
      <4>3. CASE d \in Logged /\ dels' = [dels EXCEPT ![d] = [dels[d] EXCEPT !.status = "failed"]]
        <5>1. dels[d] \in Delivery /\ dels'[d] = [dels[d] EXCEPT !.status = "failed"]
          BY <1>0, <4>3 DEF Logged, TriggersTyped
        <5>2. QED
          BY <5>1 DEF Delivery, Accepted
      <4>4. CASE dels' = dels
        BY <1>1, <4>4
      <4>5. QED
        BY <4>1, <4>2, <4>3, <4>4 DEF Write
    <3>6. QED
      BY <1>2, <3>2, <3>3, <3>4, <3>5
  <2>4. QED
    BY <2>2, <2>3
<1>3. ASSUME NEW c \in Senders, Begins(c) PROVE Known
  BY <1>1, <1>3 DEF Begins
<1>4. CASE TriggerIsDeleted
  BY <1>0, <1>4 DEF TriggerIsDeleted, Accepted, Logged
<1>5. CASE RotateSecret \/ SetEnabled \/ TimePasses \/ ServerRestarts \/ UNCHANGED triggersVars
  BY <1>1, <1>5 DEF RotateSecret, SetEnabled, TimePasses, ServerRestarts, triggersVars
<1>6. QED
  BY <1>2, <1>3, <1>4, <1>5, Begun DEF TriggersNext

\* A call that is in hand after a step and before it is the same call.
LEMMA CallStays ==
    ASSUME TriggersTyped, [TriggersNext]_triggersVars, NEW c \in Busy, c \in Busy'
    PROVE  /\ calls'[c].id = calls[c].id /\ calls'[c].payload = calls[c].payload
           /\ calls'[c].force = calls[c].force /\ calls'[c].now = calls[c].now
<1> DEFINE Same == /\ calls'[c].id = calls[c].id /\ calls'[c].payload = calls[c].payload
                   /\ calls'[c].force = calls[c].force /\ calls'[c].now = calls[c].now
<1>1. ASSUME NEW b \in Senders,
             \/ Lookup(b) \/ Count(b) \/ record(b) \/ Accept(b)
             \/ StartRun(b) \/ SetRun(b) \/ failDelivery(b)
      PROVE  Same
  <2>1. calls[b] \in Call /\ Proceeds(b)
    BY <1>1, Steps
  <2>2. QED
    BY <2>1, OthersStay DEF Busy
<1>2. ASSUME NEW b \in Senders, Begins(b) PROVE Same
  <2>1. calls'[c] = calls[c]
    BY <1>2 DEF Begins, Busy, TriggersTyped
  <2>2. QED
    BY <2>1
<1>3. CASE calls' = calls
  BY <1>3
<1>4. CASE ServerRestarts
  BY <1>4 DEF ServerRestarts, Busy
<1>5. RotateSecret \/ SetEnabled \/ TriggerIsDeleted \/ TimePasses \/ UNCHANGED triggersVars
          => calls' = calls
  BY DEF RotateSecret, SetEnabled, TriggerIsDeleted, TimePasses, triggersVars
<1>6. QED
  BY <1>1, <1>2, <1>3, <1>4, <1>5, Begun DEF TriggersNext

\* The tally only grows by a call that comes to one of its places.
LEMMA TallyShrinks ==
    ASSUME TriggersTyped, NotYetLogged, [TriggersNext]_triggersVars,
           NEW keys, NEW times, NEW pcs, "accept" \in pcs,
           \A c \in Busy' : /\ calls'[c].pc \in pcs /\ ~calls'[c].force
                            /\ calls'[c].payload \in keys /\ calls'[c].now \in times
                            => c \in Busy /\ calls[c].pc \in pcs
    PROVE  Tally(keys, times, pcs)' \subseteq Tally(keys, times, pcs)
<1> SUFFICES ASSUME NEW d \in Tally(keys, times, pcs)' PROVE d \in Tally(keys, times, pcs)
  OBVIOUS
<1>0. d \in DeliveryIds
  BY DEF Tally
<1>1. CASE /\ d \in Accepted' /\ ~dels'[d].force
           /\ dels'[d].payload \in keys /\ dels'[d].at \in times
  BY <1>0, <1>1, AcceptedGrows DEF Tally
<1>2. ASSUME NEW c \in Busy', calls'[c].pc \in pcs, ~calls'[c].force, calls'[c].id = d,
             calls'[c].payload \in keys, calls'[c].now \in times
      PROVE  d \in Tally(keys, times, pcs)
  <2>1. c \in Busy /\ calls[c].pc \in pcs
    BY <1>2
  <2>2. /\ calls'[c].id = calls[c].id /\ calls'[c].payload = calls[c].payload
        /\ calls'[c].force = calls[c].force /\ calls'[c].now = calls[c].now
    BY <1>2, <2>1, CallStays
  <2>3. QED
    BY <1>0, <1>2, <2>1, <2>2 DEF Tally
<1>3. QED
  BY <1>1, <1>2 DEF Tally

\* A call passes the cap at a moment when there is room.
LEMMA PassesCap ==
    ASSUME TriggersTyped, [TriggersNext]_triggersVars, StormCap > 0, NEW c \in Busy',
           calls'[c].pc = "accept", ~calls'[c].force, ~(c \in Busy /\ calls[c].pc = "accept")
    PROVE  dels' = dels /\ CountSince(calls'[c].now - Hour) < StormCap
<1> DEFINE Room == dels' = dels /\ CountSince(calls'[c].now - Hour) < StormCap
<1>1. calls'[c] # calls[c] /\ calls'[c] # Idle /\ c \in Senders
  BY DEF Busy
<1>2. ASSUME NEW b \in Senders,
             \/ Lookup(b) \/ Count(b) \/ record(b) \/ Accept(b)
             \/ StartRun(b) \/ SetRun(b) \/ failDelivery(b)
      PROVE  Room
  <2>1. calls[b] \in Call /\ Proceeds(b)
    BY <1>2, Steps
  <2>2. b = c
    BY <1>1, <2>1, OthersStay
  <2>3. CASE Count(c)
    <3>1. /\ CountSince(calls[c].now - Hour) < StormCap /\ dels' = dels
      <4>1. ~Decided(c, "failed") /\ ~Decided(c, "storm")
        BY <2>1, <2>2 DEF Decided, TriggersTyped, Call
      <4>2. ~(CountSince(calls[c].now - Hour) >= StormCap)
        BY <2>3, <4>1 DEF Count
      <4>3. dels' = dels
        BY <2>3 DEF Count
      <4>4. CountSince(calls[c].now - Hour) \in Nat
        <5>1. {d \in Accepted : dels[d].at >= calls[c].now - Hour} \subseteq DeliveryIds
          BY DEF Accepted, Logged
        <5>2. QED
          BY <5>1, Finite DEF CountSince
      <4>5. QED
        BY <4>2, <4>3, <4>4, Bounds
    <3>2. calls'[c].now = calls[c].now
      BY <1>1, <2>1, <2>2, OthersStay
    <3>3. QED
      BY <3>1, <3>2
  <2>4. CASE ~Count(c)
    <3>1. calls'[c] = Idle \/ calls'[c].pc # "accept"
      BY <1>2, <2>1, <2>2, <2>4, Bounds
         DEF Lookup, record, Accept, StartRun, SetRun, failDelivery, Goes, Decided, Returns,
             TriggersTyped, Call
    <3>2. QED
      BY <1>1, <3>1
  <2>5. QED
    BY <2>2, <2>3, <2>4
<1>3. ASSUME NEW b \in Senders, Begins(b) PROVE Room
  <2>1. PICK call \in Call :
           /\ calls' = [calls EXCEPT ![b] = call] /\ calls'[b] = call
           /\ call.pc = "record" \/ call.pc = "lookup" \/ (call.pc = "accept" /\ call.force)
    BY <1>3 DEF Begins
  <2>2. b = c
    BY <1>1, <2>1 DEF TriggersTyped
  <2>3. QED
    BY <2>1, <2>2
<1>4. ServerRestarts => calls'[c] = Idle
  BY <1>1 DEF ServerRestarts
<1>5. RotateSecret \/ SetEnabled \/ TriggerIsDeleted \/ TimePasses \/ UNCHANGED triggersVars
          => calls' = calls
  BY DEF RotateSecret, SetEnabled, TriggerIsDeleted, TimePasses, triggersVars
<1>6. QED
  BY <1>1, <1>2, <1>3, <1>4, <1>5, Begun DEF TriggersNext

LEMMA CapStays ==
    TriggersTyped /\ NotYetLogged /\ CapKept /\ [TriggersNext]_triggersVars => CapKept'
<1> SUFFICES ASSUME TriggersTyped, NotYetLogged, CapKept, [TriggersNext]_triggersVars,
                    StormCap > 0, NEW t \in Nat
             PROVE  Cardinality(Tally(Payloads, t .. t + Hour, {"accept"})')
                        < StormCap + Cardinality(Senders)
  BY DEF CapKept
<1> DEFINE Old == Tally(Payloads, t .. t + Hour, {"accept"})
           New == Tally(Payloads, t .. t + Hour, {"accept"})'
<1>0. /\ Old \subseteq DeliveryIds /\ New \subseteq DeliveryIds
      /\ Cardinality(Old) \in Nat /\ Cardinality(New) \in Nat
  <2>1. Old \subseteq DeliveryIds /\ New \subseteq DeliveryIds
    BY DEF Tally
  <2> HIDE DEF Old, New
  <2>2. QED
    BY <2>1, Finite
<1>1. CASE \A c \in Busy' : /\ calls'[c].pc \in {"accept"} /\ ~calls'[c].force
                            /\ calls'[c].payload \in Payloads /\ calls'[c].now \in t .. t + Hour
                            => c \in Busy /\ calls[c].pc \in {"accept"}
  <2>1. New \subseteq Old
    BY <1>1, TallyShrinks
  <2>2. Cardinality(Old) < StormCap + Cardinality(Senders)
    BY DEF CapKept
  <2> HIDE DEF Old, New
  <2>3. Cardinality(New) <= Cardinality(Old)
    BY <1>0, <2>1, Smaller
  <2>4. Cardinality(Senders) \in Nat
    BY TriggersAssumption, FS_CardinalityType
  <2>5. QED
    BY <1>0, <2>2, <2>3, <2>4, Bounds DEF New
<1>2. ASSUME NEW c \in Busy', calls'[c].pc = "accept", ~calls'[c].force,
             calls'[c].now \in t .. t + Hour, ~(c \in Busy /\ calls[c].pc = "accept")
      PROVE  Cardinality(New) < StormCap + Cardinality(Senders)
  <2> DEFINE Rows == {d \in Accepted : dels[d].at >= calls'[c].now - Hour}
             Hand == {calls'[b].id : b \in Busy'}
  <2>1. dels' = dels /\ Cardinality(Rows) < StormCap
    BY <1>2, PassesCap DEF CountSince
  <2>2. New \subseteq Rows \union Hand
    <3>1. SUFFICES ASSUME NEW d \in New, d \notin Hand PROVE d \in Rows
      OBVIOUS
    <3>2. d \in Accepted' /\ dels'[d].at \in t .. t + Hour
      BY <3>1 DEF Tally
    <3>3. d \in Accepted /\ dels[d].at \in t .. t + Hour
      BY <2>1, <3>2 DEF Accepted, Logged
    <3>4. QED
      BY <1>2, <3>3, Bounds
  <2>3. Rows \subseteq DeliveryIds
    BY DEF Accepted, Logged
  <2>4. IsFiniteSet(Hand) /\ Cardinality(Hand) <= Cardinality(Senders) /\ Cardinality(Hand) \in Nat
    <3>1. Busy' \in SUBSET Senders
      BY DEF Busy
    <3>2. QED
      BY <3>1, InHand
  <2> HIDE DEF New, Rows, Hand
  <2>5. IsFiniteSet(Rows) /\ Cardinality(Rows) \in Nat
    BY <2>3, Finite
  <2>6. /\ IsFiniteSet(Rows \union Hand) /\ Cardinality(Rows \cap Hand) \in Nat
        /\ Cardinality(Rows \union Hand)
               = Cardinality(Rows) + Cardinality(Hand) - Cardinality(Rows \cap Hand)
    <3>1. Rows \cap Hand \in SUBSET Rows
      OBVIOUS
    <3>2. IsFiniteSet(Rows \cap Hand)
      BY <2>5, <3>1, FS_Subset
    <3>3. QED
      BY <2>4, <2>5, <3>2, FS_Union, FS_CardinalityType
  <2>7. /\ Cardinality(New) <= Cardinality(Rows \union Hand)
        /\ Cardinality(Rows \union Hand) \in Nat
    BY <2>2, <2>6, FS_Subset, FS_CardinalityType
  <2>8. Cardinality(Senders) \in Nat
    BY TriggersAssumption, FS_CardinalityType
  <2>9. QED
    BY <1>0, <2>1, <2>4, <2>5, <2>6, <2>7, <2>8, Bounds DEF New
<1>3. QED
  BY <1>1, <1>2

\* A set of times has a latest one, which is what LastAcceptedByKey finds.
LEMMA Latest ==
    ASSUME NEW T, T \subseteq 0 .. MaxClock, T # {}
    PROVE  \E x \in T : \A y \in T : y <= x
<1> DEFINE U == {MaxClock - x : x \in T}
<1>1. U \subseteq Nat /\ U # {}
  <2>1. \A x \in 0 .. MaxClock : MaxClock - x \in Nat
    BY Bounds
  <2>2. QED
    BY <2>1
<1>2. PICK u \in U : \A v \in U : ~(<<v, u>> \in OpToRel(<, Nat))
  <2> HIDE DEF U
  <2>1. QED
    BY <1>1, NatLessThanWellFounded, WFMin
<1>3. \A v \in U : ~(v < u)
  BY <1>1, <1>2 DEF OpToRel
<1>4. PICK x \in T : u = MaxClock - x
  BY <1>2
<1>5. ASSUME NEW y \in T PROVE y <= x
  <2>1. MaxClock - y \in U /\ x \in Nat /\ y \in Nat
    BY Bounds
  <2>2. ~(MaxClock - y < u)
    BY <1>3, <2>1
  <2>3. QED
    BY <1>4, <2>1, <2>2, Bounds
<1>6. QED
  BY <1>5

LEMMA LastIs ==
    ASSUME TriggersTyped, NEW key, AcceptedByKey(key) # {}
    PROVE  /\ LastAcceptedByKey(key) \in Nat
           /\ \A d \in AcceptedByKey(key) : dels[d].at <= LastAcceptedByKey(key)
<1> DEFINE T == {dels[d].at : d \in AcceptedByKey(key)}
<1>1. T \subseteq 0 .. MaxClock /\ T # {}
  BY DEF AcceptedByKey, Accepted, Logged, TriggersTyped, Delivery
<1>2. \E x \in T : \A y \in T : y <= x
  <2> HIDE DEF T
  <2>1. QED
    BY <1>1, Latest
<1>3. LastAcceptedByKey(key) \in T /\ \A y \in T : y <= LastAcceptedByKey(key)
  BY <1>2 DEF LastAcceptedByKey
<1>4. QED
  BY <1>1, <1>3, Bounds

\* A call passes the gate's first query when it finds no duplicate.
LEMMA FindsNone ==
    ASSUME TriggersTyped, [TriggersNext]_triggersVars, NEW c \in Busy',
           calls'[c].pc \in {"count", "accept"}, ~calls'[c].force,
           ~(c \in Busy /\ calls[c].pc \in {"count", "accept"})
    PROVE  /\ dels' = dels /\ calls[c] \in Call /\ Verdict(calls[c]) = "accepted"
           /\ calls'[c].payload = calls[c].payload /\ calls'[c].now = calls[c].now
<1> DEFINE Passed == /\ dels' = dels /\ calls[c] \in Call /\ Verdict(calls[c]) = "accepted"
                   /\ calls'[c].payload = calls[c].payload /\ calls'[c].now = calls[c].now
<1>1. calls'[c] # calls[c] /\ calls'[c] # Idle /\ c \in Senders
  BY DEF Busy
<1>2. ASSUME NEW b \in Senders,
             \/ Lookup(b) \/ Count(b) \/ record(b) \/ Accept(b)
             \/ StartRun(b) \/ SetRun(b) \/ failDelivery(b)
      PROVE  Passed
  <2>1. calls[b] \in Call /\ Proceeds(b)
    BY <1>2, Steps
  <2>2. b = c
    BY <1>1, <2>1, OthersStay
  <2>3. c \in Busy /\ calls[c].pc \notin {"count", "accept"}
    BY <2>1, <2>2, RowsAre DEF Busy
  <2>4. CASE Lookup(c)
    <3>1. \A status : ~Decided(c, status)
      BY <2>1, <2>2 DEF Decided, TriggersTyped, Call
    <3>2. Verdict(calls[c]) = "accepted" /\ dels' = dels
      BY <2>4, <3>1 DEF Lookup
    <3>3. calls'[c].payload = calls[c].payload /\ calls'[c].now = calls[c].now
      BY <1>1, <2>1, <2>2, OthersStay
    <3>4. QED
      BY <2>1, <2>2, <3>2, <3>3
  <2>5. CASE ~Lookup(c)
    <3>1. calls'[c] = Idle \/ calls'[c].pc \notin {"count", "accept"}
      BY <1>2, <2>1, <2>2, <2>3, <2>5
         DEF Count, record, Accept, StartRun, SetRun, failDelivery, Goes, Returns,
             TriggersTyped, Call
    <3>2. QED
      BY <1>1, <3>1
  <2>6. QED
    BY <2>4, <2>5
<1>3. ASSUME NEW b \in Senders, Begins(b) PROVE Passed
  <2>1. PICK call \in Call :
           /\ calls' = [calls EXCEPT ![b] = call] /\ calls'[b] = call
           /\ call.pc = "record" \/ call.pc = "lookup" \/ (call.pc = "accept" /\ call.force)
    BY <1>3 DEF Begins
  <2>2. b = c
    BY <1>1, <2>1 DEF TriggersTyped
  <2>3. QED
    BY <2>1, <2>2
<1>4. ServerRestarts => calls'[c] = Idle
  BY <1>1 DEF ServerRestarts
<1>5. RotateSecret \/ SetEnabled \/ TriggerIsDeleted \/ TimePasses \/ UNCHANGED triggersVars
          => calls' = calls
  BY DEF RotateSecret, SetEnabled, TriggerIsDeleted, TimePasses, triggersVars
<1>6. QED
  BY <1>1, <1>2, <1>3, <1>4, <1>5, Begun DEF TriggersNext

LEMMA KeysStay ==
    TriggersTyped /\ NotYetLogged /\ KeysKept /\ [TriggersNext]_triggersVars => KeysKept'
<1>0. TriggersTyped /\ [TriggersNext]_triggersVars => trig'.shape = trig.shape
  <2>1. ASSUME NEW c \in Senders, TriggersTyped,
               \/ Deliver(c) \/ Replay(c) \/ Test(c)
               \/ Lookup(c) \/ Count(c) \/ record(c) \/ Accept(c)
               \/ StartRun(c) \/ SetRun(c) \/ failDelivery(c)
        PROVE  trig'.shape = trig.shape
    BY <2>1, Begun, Steps DEF Begins
  <2>2. QED
    BY <2>1 DEF TriggersNext, triggersVars, RotateSecret, SetEnabled, TriggerIsDeleted, TimePasses,
       ServerRestarts, TriggersTyped
<1> SUFFICES ASSUME TriggersTyped, NotYetLogged, KeysKept, [TriggersNext]_triggersVars,
                    NEW k \in Payloads, NEW t \in Nat
             PROVE  Cardinality(Tally({k}, WindowFrom(t), {"count", "accept"})')
                        <= Cardinality(Senders)
  BY DEF KeysKept
<1>1. WindowFrom(t)' = WindowFrom(t)
  BY <1>0 DEF WindowFrom
<1>2. PICK W : W = WindowFrom(t)
  OBVIOUS
<1> DEFINE Old == Tally({k}, W, {"count", "accept"})
           New == Tally({k}, W, {"count", "accept"})'
<1>3. /\ Tally({k}, WindowFrom(t), {"count", "accept"})' = New
      /\ Tally({k}, WindowFrom(t), {"count", "accept"}) = Old
  BY <1>1, <1>2 DEF Tally
<1>4. Old \subseteq DeliveryIds /\ New \subseteq DeliveryIds
  BY DEF Tally
<1>5. Cardinality(Old) \in Nat /\ Cardinality(New) \in Nat
  <2> HIDE DEF Old, New
  <2>1. QED
    BY <1>4, Finite
<1>6. Cardinality(Senders) \in Nat
  BY TriggersAssumption, FS_CardinalityType
<1>7. CASE \A c \in Busy' : /\ calls'[c].pc \in {"count", "accept"} /\ ~calls'[c].force
                            /\ calls'[c].payload \in {k} /\ calls'[c].now \in W
                            => c \in Busy /\ calls[c].pc \in {"count", "accept"}
  <2>1. New \subseteq Old
    BY <1>7, TallyShrinks
  <2>2. Cardinality(Old) <= Cardinality(Senders)
    <3>1. Cardinality(Tally({k}, WindowFrom(t), {"count", "accept"})) <= Cardinality(Senders)
      BY DEF KeysKept
    <3>2. QED
      BY <1>3, <3>1
  <2> HIDE DEF Old, New
  <2>3. Cardinality(New) <= Cardinality(Old)
    BY <1>4, <2>1, Smaller
  <2>4. QED
    BY <1>3, <1>5, <1>6, <2>2, <2>3
<1>8. ASSUME NEW c \in Busy', calls'[c].pc \in {"count", "accept"}, ~calls'[c].force,
             calls'[c].payload = k, calls'[c].now \in W,
             ~(c \in Busy /\ calls[c].pc \in {"count", "accept"})
      PROVE  Cardinality(New) <= Cardinality(Senders)
  <2> DEFINE Hand == {calls'[b].id : b \in Busy'}
  <2>1. /\ dels' = dels /\ calls[c] \in Call /\ Verdict(calls[c]) = "accepted"
        /\ calls[c].payload = k /\ calls[c].now \in W
    BY <1>8, FindsNone
  <2>2. ASSUME NEW d \in AcceptedByKey(k) PROVE dels[d].at \notin W
    <3>1. /\ LastAcceptedByKey(k) \in Nat /\ dels[d].at <= LastAcceptedByKey(k)
          /\ AcceptedByKey(k) # {}
      BY <2>2, LastIs
    <3>2. dels[d].at \in Nat /\ calls[c].now \in Nat
      BY <2>1, Bounds DEF AcceptedByKey, Accepted, Logged, TriggersTyped, Delivery, Call
    <3>3. /\ trig.shape.kind # "grafana"
          /\ ~(calls[c].now - LastAcceptedByKey(k) < Cooldown)
          /\ ~(calls[c].now - LastAcceptedByKey(k) < DedupeWindow)
      BY <2>1, <3>1 DEF Verdict
    <3>4. calls[c].now - LastAcceptedByKey(k) >= Window
      BY <3>1, <3>2, <3>3, Bounds DEF Window
    <3>5. W = t .. t + Window - 1
      BY <1>2, <3>3 DEF WindowFrom
    <3>6. QED
      BY <2>1, <3>1, <3>2, <3>4, <3>5, Bounds
  <2>3. New \subseteq Hand
    <3>1. SUFFICES ASSUME NEW d \in New, d \notin Hand PROVE FALSE
      OBVIOUS
    <3>2. d \in Accepted' /\ dels'[d].payload = k /\ dels'[d].at \in W
      BY <3>1 DEF Tally
    <3>3. d \in AcceptedByKey(k) /\ dels[d].at \in W
      BY <2>1, <3>2 DEF AcceptedByKey, Accepted, Logged
    <3>4. QED
      BY <2>2, <3>3
  <2>4. IsFiniteSet(Hand) /\ Cardinality(Hand) <= Cardinality(Senders) /\ Cardinality(Hand) \in Nat
    <3>1. Busy' \in SUBSET Senders
      BY DEF Busy
    <3>2. QED
      BY <3>1, InHand
  <2> HIDE DEF New, Hand
  <2>5. Cardinality(New) <= Cardinality(Hand)
    BY <2>3, <2>4, FS_Subset
  <2>6. QED
    BY <1>5, <1>6, <2>4, <2>5
<1>9. QED
  BY <1>3, <1>7, <1>8

-----------------------------------------------------------------------------
(* Theorems. *)

LEMMA TriggersStart == TriggersInit => TriggersInv
<1> SUFFICES ASSUME TriggersInit PROVE TriggersInv
  OBVIOUS
<1>1. Busy = {} /\ Logged = {} /\ runs = {}
  BY DEF TriggersInit, Busy, Logged
<1>2. TriggersTyped
  <2>1. trig \in [present : BOOLEAN, enabled : BOOLEAN, secret : Secrets, shape : Shapes]
    BY DEF TriggersInit, Secrets
  <2>2. /\ dels \in [DeliveryIds -> {NoDelivery} \union Delivery]
        /\ calls \in [Senders -> {Idle} \union Call]
    BY DEF TriggersInit
  <2>3. /\ runs \subseteq DeliveryIds /\ broken \subseteq runs /\ torn \subseteq DeliveryIds
        /\ clock \in 0 .. MaxClock /\ received \in 0 .. MaxDeliveries
        /\ changes \in 0 .. MaxChanges /\ faults \in 0 .. MaxFaults
    BY Bounds DEF TriggersInit
  <2>4. QED
    BY <2>1, <2>2, <2>3 DEF TriggersTyped
<1>3. IdsKnown /\ NotYetLogged /\ OwnsRow
  BY <1>1 DEF IdsKnown, NotYetLogged, OwnsRow, Before, Gated, After
<1>4. AcceptedHasRun /\ RunHasDelivery
  BY <1>1 DEF AcceptedHasRun, RunHasDelivery, Accepted
<1>5. \A keys, times, pcs : Cardinality(Tally(keys, times, pcs)) = 0
  <2>1. \A keys, times, pcs : Tally(keys, times, pcs) = {}
    BY <1>1 DEF Tally, Accepted
  <2>2. QED
    BY <2>1, FS_EmptySet
<1>6. Cardinality(Senders) \in Nat
  BY TriggersAssumption, FS_CardinalityType
<1>7. CapKept
  BY <1>5, <1>6, Bounds DEF CapKept
<1>8. KeysKept
  BY <1>5, <1>6 DEF KeysKept
<1>9. QED
  BY <1>2, <1>3, <1>4, <1>7, <1>8 DEF TriggersInv

\* The inductive invariant of deliveries holds in every state.
THEOREM TriggersInvHolds == TriggersSpec => []TriggersInv
<1>1. TriggersInv /\ [TriggersNext]_triggersVars => TriggersInv'
  BY TypesStay, IdsStay, NotYetStays, OwnsStays, HasRunStays, RunLoggedStays, CapStays, KeysStay
     DEF TriggersInv
<1>2. QED
  BY TriggersStart, <1>1, PTL DEF TriggersSpec

\* The log of deliveries and the runs agree, wherever a start fails and whatever
\* happens to the trigger meanwhile, for any number of calls (process,
\* failDelivery).
THEOREM LogMatchesRuns == TriggersSpec => []DeliveriesOK
<1>1. TriggersTyped => TriggersTypeOK
  BY DEF TriggersTyped, TriggersTypeOK
<1>2. TriggersInv => DeliveriesOK
  BY <1>1 DEF TriggersInv, DeliveriesOK
<1>3. QED
  BY TriggersInvHolds, <1>2, PTL

\* Calls that overlap exceed the storm cap and the dedupe window by no more
\* than their number, for any number of them (gate, CountSince,
\* LastAcceptedByKey).
THEOREM GateHolds == TriggersSpec => []GateBound
<1>1. TriggersInv => StormBound
  <2> SUFFICES ASSUME TriggersInv, StormCap > 0, NEW t \in 0 .. MaxClock
               PROVE  Cardinality({d \in Accepted : ~dels[d].force /\ dels[d].at \in t .. t + Hour})
                          < StormCap + Cardinality(Senders)
    BY DEF StormBound
  <2> DEFINE D == Tally(Payloads, t .. t + Hour, {"accept"})
             E == {d \in Accepted : ~dels[d].force /\ dels[d].at \in t .. t + Hour}
  <2>1. D \subseteq DeliveryIds /\ E \subseteq D
    BY DEF Tally, Accepted, Logged, TriggersInv, TriggersTyped, Delivery
  <2>2. Cardinality(D) < StormCap + Cardinality(Senders)
    BY Bounds DEF TriggersInv, CapKept
  <2> HIDE DEF D, E
  <2>3. Cardinality(E) <= Cardinality(D) /\ Cardinality(D) \in Nat /\ Cardinality(E) \in Nat
    BY <2>1, Smaller, Finite
  <2>4. Cardinality(Senders) \in Nat
    BY TriggersAssumption, FS_CardinalityType
  <2>5. QED
    BY <2>2, <2>3, <2>4, Bounds DEF E
<1>2. TriggersInv => DedupeBound
  <2> DEFINE same(d, e) == /\ dels[d].payload = dels[e].payload /\ ~dels[e].force
                           /\ \/ trig.shape.kind = "grafana"
                              \/ dels[e].at - dels[d].at \in 0 .. Window - 1
  <2> SUFFICES ASSUME TriggersInv, NEW d \in Accepted
               PROVE  Cardinality({e \in Accepted : same(d, e)}) <= Cardinality(Senders)
    BY DEF DedupeBound, Window
  <2> DEFINE k == dels[d].payload
             D == Tally({k}, WindowFrom(dels[d].at), {"count", "accept"})
             E == {e \in Accepted : same(d, e)}
  <2>1. \A e \in Accepted : e \in DeliveryIds /\ dels[e] \in Delivery
    BY DEF Accepted, Logged, TriggersInv, TriggersTyped
  <2>2. k \in Payloads /\ dels[d].at \in Nat
    BY <2>1, Bounds DEF Delivery
  <2>3. ASSUME NEW e \in E PROVE e \in D
    <3>1. dels[e].at \in 0 .. MaxClock /\ dels[e].at \in Nat
      BY <2>1, Bounds DEF Delivery
    <3>2. dels[e].at \in WindowFrom(dels[d].at)
      BY <2>2, <3>1, Bounds DEF WindowFrom
    <3>3. QED
      BY <2>1, <3>2 DEF Tally
  <2>4. D \subseteq DeliveryIds
    BY DEF Tally
  <2>5. Cardinality(D) <= Cardinality(Senders)
    BY <2>2 DEF TriggersInv, KeysKept
  <2> HIDE DEF D, E
  <2>6. Cardinality(E) <= Cardinality(D) /\ Cardinality(D) \in Nat /\ Cardinality(E) \in Nat
    BY <2>3, <2>4, Smaller, Finite
  <2>7. Cardinality(Senders) \in Nat
    BY TriggersAssumption, FS_CardinalityType
  <2>8. QED
    BY <2>5, <2>6, <2>7 DEF E
<1>3. QED
  BY TriggersInvHolds, <1>1, <1>2, PTL DEF GateBound

\* What the log says of a delivery stays, but that an accepted one may turn out
\* to have failed to start, or get its run: only the call that wrote a row ever
\* writes it again (Replay "never touches the original delivery").
THEOREM RowsAreFinal == TriggersSpec => DeliveryFinal
<1> DEFINE Stays(d) ==
        \/ dels'[d] \in {dels[d], NoDelivery}
        \/ /\ dels[d].status = "accepted" /\ ~dels[d].run
           /\ \E c \in Senders : calls[c] # Idle /\ calls[c].id = d
<1>1. ASSUME TriggersInv, [TriggersNext]_triggersVars, NEW d \in Logged PROVE Stays(d)
  <2>1. ASSUME NEW c \in Senders,
               \/ Lookup(c) \/ Count(c) \/ record(c) \/ Accept(c)
               \/ StartRun(c) \/ SetRun(c) \/ failDelivery(c)
        PROVE  Stays(d)
    <3>1. calls[c] \in Call /\ c \in Busy /\ calls[c] # Idle
      BY <1>1, <2>1, Steps, RowsAre DEF TriggersInv, Busy
    <3>2. CASE d # calls[c].id
      <4>1. d \in DeliveryIds
        BY DEF Logged
      <4>2. dels'[d] = dels[d]
        BY <1>1, <2>1, <3>2, <4>1, RowsStay DEF TriggersInv
      <4>3. QED
        BY <4>2
    <3>3. CASE d = calls[c].id
      <4>1. c \notin Before
        BY <1>1, <3>3 DEF TriggersInv, NotYetLogged
      <4>2. c \in After
        BY <3>1, <4>1 DEF Before, After, Call
      <4>3. QED
        BY <1>1, <3>1, <3>3, <4>2 DEF TriggersInv, OwnsRow
    <3>4. QED
      BY <3>2, <3>3
  <2>2. CASE TriggerIsDeleted
    BY <2>2 DEF TriggerIsDeleted, Logged
  <2>3. CASE dels' = dels
    BY <2>3
  <2>4. \A c \in Senders : Deliver(c) \/ Replay(c) \/ Test(c) => dels' = dels
    BY <1>1, Begun DEF Begins, TriggersInv
  <2>5. RotateSecret \/ SetEnabled \/ TimePasses \/ ServerRestarts \/ UNCHANGED triggersVars
            => dels' = dels
    BY DEF RotateSecret, SetEnabled, TimePasses, ServerRestarts, triggersVars
  <2>6. QED
    BY <1>1, <2>1, <2>2, <2>3, <2>4, <2>5 DEF TriggersNext
<1>2. TriggersInv /\ [TriggersNext]_triggersVars => [\A d \in Logged : Stays(d)]_triggersVars
  BY <1>1
<1>3. QED
  BY TriggersInvHolds, <1>2, PTL DEF TriggersSpec, DeliveryFinal

-----------------------------------------------------------------------------
(* Notifications: the inductive invariant. *)

Places == {"next", "first", "delay", "second"}
NotifyTyped ==
    /\ channels \in [Channels -> {NoChannel} \union Channel]
    /\ meant \in [Channels -> {NoChannel} \union Channel]
    /\ \A c \in Channels : channels[c] = NoChannel <=> meant[c] = NoChannel
    /\ patches \in [Editors -> {NoChange} \union [ch : Channels, row : Channel]]
    /\ sending \in [Posters -> {Quiet} \union [pc : Places, left : SUBSET Channels]]
    /\ posts \in [Posters -> [Channels -> Seq(Outcomes)]]
    /\ due \in [Posters -> SUBSET Channels]
    /\ stopping \in BOOLEAN /\ overlapped \subseteq Channels
    /\ asked \in 0 .. MaxAsked /\ events \in 0 .. MaxEvents /\ stops \in 0 .. MaxStops

\* While the server is up, a channel that is due has a post or is still to go.
ToGo(s) == IF sending[s] = Quiet THEN {} ELSE sending[s].left
DueOrPosted ==
    ~stopping => \A s \in Posters : \A c \in due[s] : c \in ToGo(s) \/ posts[s][c] # <<>>

\* How often a channel was posted to follows from where its sender is.
Twice(list) == Len(list) <= 2 /\ (Len(list) = 2 => list[1] \in {"failed", "lost"})
Once(list)  == Len(list) = 1 /\ list[1] \in {"failed", "lost"}
PostsByPlace ==
    \A s \in Posters :
        /\ \A c \in Channels : Twice(posts[s][c])
        /\ sending[s] # Quiet =>
            /\ sending[s].pc # "next" => sending[s].left # {}
            /\ \A c \in sending[s].left :
                 \/ posts[s][c] = <<>>
                 \/ sending[s].pc \in {"delay", "second"} /\ c = Current(s) /\ Once(posts[s][c])

\* A channel that no two changes touch at once is as asked, or as the one
\* change in flight will make it, unless it was deleted meanwhile.
AsAskedOrSoon ==
    \A c \in Channels \ overlapped :
        /\ Changing(c) = {} => channels[c] = meant[c]
        /\ \A a \in Changing(c) :
             /\ \A b \in Changing(c) : b = a
             /\ channels[c] # NoChannel => meant[c] = patches[a].row

NotifyInv == NotifyTyped /\ DueOrPosted /\ PostsByPlace /\ AsAskedOrSoon

-----------------------------------------------------------------------------
(* The senders. *)

LEMMA Distinct ==
    /\ NoChannel \notin Channel /\ NoChange \notin [ch : Channels, row : Channel]
    /\ Quiet \notin [pc : Places, left : SUBSET Channels] /\ Quiet.pc = "quiet"
    /\ NoChange.ch = 0 /\ 0 \notin Channels /\ Channels \subseteq Nat
<1>1. NoChannel \notin Channel
  BY DEF NoChannel, Channel
<1>2. NoChange \notin [ch : Channels, row : Channel]
  BY DEF NoChange
<1>3. Quiet \notin [pc : Places, left : SUBSET Channels] /\ Quiet.pc = "quiet"
  BY DEF Quiet, Places
<1>4. QED
  BY <1>1, <1>2, <1>3, NotifyAssumption DEF NoChange

LEMMA CurrentIsIn ==
    ASSUME NotifyTyped, NEW s \in Posters, sending[s] # Quiet, sending[s].left # {}
    PROVE  Current(s) \in sending[s].left
<1> DEFINE S == sending[s].left
<1>1. S \subseteq Nat /\ S # {}
  BY Distinct DEF NotifyTyped
<1>2. PICK c \in S : \A d \in S : ~(<<d, c>> \in OpToRel(<, Nat))
  <2> HIDE DEF S
  <2>1. QED
    BY <1>1, NatLessThanWellFounded, WFMin
<1>3. \A d \in S : c <= d
  <2> HIDE DEF S
  <2>1. \A d \in S : ~(d < c)
    BY <1>1, <1>2 DEF OpToRel
  <2>2. QED
    BY <1>1, <2>1
<1>4. QED
  BY <1>3 DEF Current

\* What a post does to the posts of its sender.
Posts(s, outcome) ==
    IF stopping THEN posts' = posts
    ELSE posts' = [posts EXCEPT ![s] = [posts[s] EXCEPT ![Current(s)] = Append(@, outcome)]]
Leaves(s) ==
    sending' = [sending EXCEPT ![s] = IF Rest(s) = {} THEN Quiet
                                      ELSE [pc |-> "next", left |-> Rest(s)]]
StaysAt(s, place) ==
    sending' = [sending EXCEPT ![s] = [pc |-> place, left |-> sending[s].left]]

\* A step of a sender is of one of these kinds.
Sends(s) ==
    /\ sending[s] # Quiet
    /\ UNCHANGED <<channels, patches, stopping, asked, events, stops, meant, overlapped, due>>
    /\ \/ /\ sending[s].pc = "next" /\ sending[s].left = {} /\ posts' = posts
          /\ sending' = [sending EXCEPT ![s] = Quiet]
       \/ /\ sending[s].pc = "next" /\ sending[s].left # {} /\ posts' = posts
          /\ StaysAt(s, "first")
       \/ /\ sending[s].pc = "first"
          /\ \E outcome \in Outcomes :
                /\ Posts(s, outcome)
                /\ Leaves(s) \/ (outcome \in {"failed", "lost"} /\ StaysAt(s, "delay"))
       \/ sending[s].pc = "delay" /\ posts' = posts /\ StaysAt(s, "second")
       \/ sending[s].pc = "delay" /\ posts' = posts /\ stopping /\ Leaves(s)
       \/ sending[s].pc = "second" /\ \E outcome \in Outcomes : Posts(s, outcome) /\ Leaves(s)

LEMMA SendersSend ==
    ASSUME NotifyTyped, NEW s \in Posters, PublishNext(s) \/ sendWithRetry(s) \/ RetryDelay(s)
    PROVE  Sends(s)
<1>1. sending[s] # Quiet
  BY Distinct DEF PublishNext, sendWithRetry, RetryDelay
<1>2. sending[s] \in [pc : Places, left : SUBSET Channels]
  BY <1>1 DEF NotifyTyped
<1>3. ASSUME NEW place, Moves(s, place) PROVE StaysAt(s, place)
  <2>1. [sending[s] EXCEPT !.pc = place] = [pc |-> place, left |-> sending[s].left]
    BY <1>2
  <2>2. sending' = [sending EXCEPT ![s] = [sending[s] EXCEPT !.pc = place]]
    BY <1>3 DEF Moves
  <2>3. QED
    BY <2>1, <2>2 DEF StaysAt
<1>4. ASSUME NEW outcome, SendEnds(s, outcome) PROVE Leaves(s)
  BY <1>4 DEF SendEnds, Leaves
<1>5. ASSUME NEW outcome \in Outcomes, doOnce(s, outcome) PROVE Posts(s, outcome)
  BY <1>5 DEF doOnce, Posts
<1>6. CASE PublishNext(s)
  BY <1>1, <1>3, <1>6 DEF PublishNext, Sends
<1>7. CASE sendWithRetry(s)
  BY <1>1, <1>3, <1>4, <1>5, <1>7 DEF sendWithRetry, Sends, retryable
<1>8. CASE RetryDelay(s)
  BY <1>1, <1>3, <1>4, <1>8 DEF RetryDelay, Sends
<1>9. QED
  BY <1>6, <1>7, <1>8

-----------------------------------------------------------------------------
(* The types. *)

LEMMA PatchedIsChannel ==
    ASSUME NEW row \in Channel, NEW patch \in Patches
    PROVE  Patched(row, patch) \in Channel
<1>1. DOMAIN row = {"takes", "token"}
  BY DEF Channel
<1>2. row.takes \in BOOLEAN /\ row.token \in Tokens
  BY DEF Channel
<1>3. patch.takes = <<>> \/ \E v \in BOOLEAN : patch.takes = <<v>>
  BY DEF Patches, Given
<1>4. patch.token = <<>> \/ \E v \in Tokens : patch.token = <<v>>
  BY DEF Patches, Given, Tokens
<1>5. (IF patch.takes = <<>> THEN row.takes ELSE patch.takes[1]) \in BOOLEAN
  BY <1>2, <1>3
<1>6. (IF patch.token = <<>> THEN row.token ELSE patch.token[1]) \in Tokens
  BY <1>2, <1>4
<1>7. QED
  BY <1>1, <1>5, <1>6 DEF Patched, Channel

\* What does not concern the senders.
Editing ==
    \/ \E c \in Channels : handleNotificationsCreate(c) \/ handleNotificationsDelete(c)
    \/ \E c \in Channels, a \in Editors : handleNotificationsPatch(a, c)
    \/ \E a \in Editors : UpdateChannel(a)

LEMMA EditsAre ==
    ASSUME NotifyTyped, Editing
    PROVE  /\ channels' \in [Channels -> {NoChannel} \union Channel]
           /\ meant' \in [Channels -> {NoChannel} \union Channel]
           /\ \A k \in Channels : channels'[k] = NoChannel <=> meant'[k] = NoChannel
           /\ patches' \in [Editors -> {NoChange} \union [ch : Channels, row : Channel]]
           /\ overlapped' \subseteq Channels /\ asked' \in 0 .. MaxAsked
           /\ UNCHANGED <<sending, stopping, events, stops, posts, due>>
<1>1. ASSUME asked < MaxAsked, asked' = asked + 1 PROVE asked' \in 0 .. MaxAsked
  BY <1>1, NotifyAssumption DEF NotifyTyped
<1> DEFINE Rows == /\ channels' \in [Channels -> {NoChannel} \union Channel]
                   /\ meant' \in [Channels -> {NoChannel} \union Channel]
                   /\ \A k \in Channels : channels'[k] = NoChannel <=> meant'[k] = NoChannel
<1>2. ASSUME NEW c \in Channels, handleNotificationsCreate(c) PROVE Rows
  <2>1. PICK row \in Channel : /\ channels' = [channels EXCEPT ![c] = row]
                               /\ meant' = [meant EXCEPT ![c] = channels'[c]]
    BY <1>2 DEF handleNotificationsCreate, Channel, Tokens
  <2>2. QED
    BY <2>1 DEF NotifyTyped
<1>3. ASSUME NEW c \in Channels, handleNotificationsCreate(c) \/ handleNotificationsDelete(c)
      PROVE  /\ patches' = patches /\ overlapped' \subseteq overlapped /\ asked' \in 0 .. MaxAsked
             /\ UNCHANGED <<sending, stopping, events, stops, posts, due>>
  BY <1>1, <1>3 DEF handleNotificationsCreate, handleNotificationsDelete, Asks
<1>4. ASSUME NEW c \in Channels, handleNotificationsDelete(c) PROVE Rows
  BY <1>4 DEF handleNotificationsDelete, NotifyTyped
<1>5. ASSUME NEW c \in Channels, NEW a \in Editors, handleNotificationsPatch(a, c)
      PROVE  /\ Rows
             /\ patches' \in [Editors -> {NoChange} \union [ch : Channels, row : Channel]]
             /\ asked' \in 0 .. MaxAsked /\ overlapped' \subseteq Channels
             /\ UNCHANGED <<sending, stopping, events, stops, posts, due>>
  <2>1. PICK patch \in Patches :
            /\ patches' = [patches EXCEPT ![a] = [ch |-> c, row |-> Patched(channels[c], patch)]]
            /\ meant' = [meant EXCEPT ![c] = Patched(meant[c], patch)]
            /\ channels[c] # NoChannel /\ channels' = channels
    BY <1>5 DEF handleNotificationsPatch
  <2>2. channels[c] \in Channel /\ meant[c] \in Channel
    BY <2>1 DEF NotifyTyped
  <2>3. Patched(channels[c], patch) \in Channel /\ Patched(meant[c], patch) \in Channel
    BY <2>2, PatchedIsChannel
  <2>4. Rows /\ patches' \in [Editors -> {NoChange} \union [ch : Channels, row : Channel]]
    BY <2>1, <2>3, Distinct DEF NotifyTyped
  <2>5. /\ asked' \in 0 .. MaxAsked /\ overlapped' \subseteq Channels
        /\ UNCHANGED <<sending, stopping, events, stops, posts, due>>
    BY <1>1, <1>5 DEF handleNotificationsPatch, Asks, NotifyTyped
  <2>6. QED
    BY <2>4, <2>5
<1>6. ASSUME NEW a \in Editors, UpdateChannel(a)
      PROVE  /\ Rows
             /\ patches' \in [Editors -> {NoChange} \union [ch : Channels, row : Channel]]
             /\ UNCHANGED <<sending, stopping, asked, events, stops, overlapped, posts, due>>
  <2>1. patches[a] \in [ch : Channels, row : Channel]
    BY <1>6 DEF UpdateChannel, NotifyTyped
  <2>2. /\ channels' = [channels EXCEPT ![patches[a].ch] =
                            IF channels[patches[a].ch] = NoChannel THEN NoChannel
                            ELSE patches[a].row]
        /\ meant' = meant
    BY <1>6 DEF UpdateChannel, Replaced
  <2>3. patches[a].row \in Channel /\ patches[a].row # NoChannel
    BY <2>1, Distinct
  <2>4. Rows
    BY <2>2, <2>3 DEF NotifyTyped
  <2>5. QED
    BY <1>6, <2>4 DEF UpdateChannel, NotifyTyped
<1>7. QED
  BY <1>2, <1>3, <1>4, <1>5, <1>6 DEF Editing, NotifyTyped

\* A step is of one of these kinds.
NotifyKinds ==
    \/ Editing
    \/ \E c \in Channels : handleNotificationsTest(c)
    \/ notify
    \/ \E s \in Posters : Sends(s)
    \/ Stop
    \/ ComeBack
    \/ UNCHANGED notifyVars

LEMMA NotifyStepsAre == NotifyTyped /\ [NotifyNext]_notifyVars => NotifyKinds
BY SendersSend DEF NotifyNext, NotifyKinds, Editing

\* A sender's posts grow by one at most, and only those to the current channel.
LEMMA PostsGrow ==
    ASSUME NotifyTyped, NEW s \in Posters, NEW outcome \in Outcomes, Posts(s, outcome),
           Current(s) \in Channels
    PROVE  /\ posts' \in [Posters -> [Channels -> Seq(Outcomes)]]
           /\ \A t \in Posters : t # s => posts'[t] = posts[t]
           /\ \A c \in Channels : c # Current(s) => posts'[s][c] = posts[s][c]
           /\ ~stopping => posts'[s][Current(s)] = Append(posts[s][Current(s)], outcome)
           /\ stopping => posts' = posts
<1>1. CASE stopping
  BY <1>1 DEF Posts, NotifyTyped
<1>2. CASE ~stopping
  <2> DEFINE p == [posts[s] EXCEPT ![Current(s)] = Append(posts[s][Current(s)], outcome)]
  <2>1. posts' = [posts EXCEPT ![s] = p]
    BY <1>2 DEF Posts
  <2>2. posts[s] \in [Channels -> Seq(Outcomes)]
    BY DEF NotifyTyped
  <2>3. Append(posts[s][Current(s)], outcome) \in Seq(Outcomes)
    BY <2>2
  <2>4. /\ p \in [Channels -> Seq(Outcomes)]
        /\ p[Current(s)] = Append(posts[s][Current(s)], outcome)
        /\ \A c \in Channels : c # Current(s) => p[c] = posts[s][c]
    BY <2>2, <2>3
  <2> HIDE DEF p
  <2>5. QED
    BY <1>2, <2>1, <2>4 DEF NotifyTyped
<1>3. QED
  BY <1>1, <1>2

\* Where a sender is after its step.
LEMMA SenderGoes ==
    ASSUME NotifyTyped, PostsByPlace, NEW s \in Posters, Sends(s)
    PROVE  /\ sending' \in [Posters -> {Quiet} \union [pc : Places, left : SUBSET Channels]]
           /\ \A t \in Posters : t # s => sending'[t] = sending[t]
           /\ sending[s].left # {} => Current(s) \in sending[s].left /\ Current(s) \in Channels
           /\ Leaves(s) => ToGo(s)' = ToGo(s) \ {Current(s)}
                           /\ (sending'[s] = Quiet \/ sending'[s].pc = "next")
           /\ \A place \in Places :
                 StaysAt(s, place) => /\ ToGo(s)' = ToGo(s)
                                      /\ sending'[s] = [pc |-> place, left |-> sending[s].left]
                                      /\ sending'[s] # Quiet
           /\ sending[s] \in [pc : Places, left : SUBSET Channels]
<1>1. sending[s] # Quiet /\ sending[s] \in [pc : Places, left : SUBSET Channels]
  BY DEF Sends, NotifyTyped
<1>2. Rest(s) \subseteq Channels
  BY <1>1 DEF Rest
<1>3. \A place \in Places : /\ [pc |-> place, left |-> sending[s].left] \in [pc : Places, left : SUBSET Channels]
                            /\ [pc |-> place, left |-> Rest(s)] \in [pc : Places, left : SUBSET Channels]
  BY <1>1, <1>2
<1>4. {"next", "first", "delay", "second"} = Places
  BY DEF Places
<1>5. sending[s].left # {} => Current(s) \in sending[s].left /\ Current(s) \in Channels
  BY <1>1, CurrentIsIn
<1>6. ASSUME Leaves(s)
      PROVE  /\ sending' \in [Posters -> {Quiet} \union [pc : Places, left : SUBSET Channels]]
             /\ \A t \in Posters : t # s => sending'[t] = sending[t]
             /\ ToGo(s)' = ToGo(s) \ {Current(s)} /\ (sending'[s] = Quiet \/ sending'[s].pc = "next")
  <2>1. CASE Rest(s) = {}
    BY <1>1, <1>6, <2>1 DEF Leaves, NotifyTyped, ToGo, Rest
  <2>2. CASE Rest(s) # {}
    <3>1. sending' = [sending EXCEPT ![s] = [pc |-> "next", left |-> Rest(s)]]
      BY <1>6, <2>2 DEF Leaves
    <3>2. sending'[s] = [pc |-> "next", left |-> Rest(s)] /\ sending'[s] # Quiet
      BY <1>3, <1>4, <3>1, Distinct DEF NotifyTyped
    <3>3. QED
      BY <1>1, <1>3, <1>4, <3>1, <3>2 DEF NotifyTyped, ToGo, Rest
  <2>3. QED
    BY <2>1, <2>2
<1>7. ASSUME NEW place \in Places, StaysAt(s, place)
      PROVE  /\ sending' \in [Posters -> {Quiet} \union [pc : Places, left : SUBSET Channels]]
             /\ \A t \in Posters : t # s => sending'[t] = sending[t]
             /\ ToGo(s)' = ToGo(s) /\ sending'[s] = [pc |-> place, left |-> sending[s].left]
             /\ sending'[s] # Quiet
  <2>1. sending'[s] = [pc |-> place, left |-> sending[s].left] /\ sending'[s] # Quiet
    BY <1>3, <1>7, Distinct DEF StaysAt, NotifyTyped
  <2>2. QED
    BY <1>1, <1>3, <1>7, <2>1 DEF StaysAt, NotifyTyped, ToGo
<1>8. CASE Leaves(s)
  BY <1>1, <1>5, <1>6, <1>7, <1>8
<1>9. CASE \E place \in Places : StaysAt(s, place)
  BY <1>1, <1>5, <1>6, <1>7, <1>9
<1>10. CASE sending' = [sending EXCEPT ![s] = Quiet]
  BY <1>1, <1>5, <1>6, <1>7, <1>10 DEF NotifyTyped
<1>11. QED
  BY <1>4, <1>8, <1>9, <1>10 DEF Sends

LEMMA NotifyTypesStay == NotifyTyped /\ PostsByPlace /\ NotifyKinds => NotifyTyped'
<1> SUFFICES ASSUME NotifyTyped, PostsByPlace, NotifyKinds PROVE NotifyTyped'
  OBVIOUS
<1>1. CASE Editing
  BY <1>1, EditsAre DEF NotifyTyped
<1>2. ASSUME NEW T, T \subseteq Channels
      PROVE  /\ [pc |-> "next", left |-> T] \in [pc : Places, left : SUBSET Channels]
             /\ [pc |-> "first", left |-> T] \in [pc : Places, left : SUBSET Channels]
  BY <1>2 DEF Places
<1>3. NoPosts \in [Channels -> Seq(Outcomes)]
  BY DEF NoPosts
<1>4. ASSUME NEW c \in Channels, handleNotificationsTest(c) PROVE NotifyTyped'
  <2>1. asked' \in 0 .. MaxAsked
    BY <1>4, NotifyAssumption DEF handleNotificationsTest, Asks, NotifyTyped
  <2>2. [pc |-> "first", left |-> {c}] \in [pc : Places, left : SUBSET Channels]
    BY <1>2
  <2>3. QED
    BY <1>3, <1>4, <2>1, <2>2 DEF handleNotificationsTest, NotifyTyped
<1>5. CASE notify
  <2>1. events' \in 0 .. MaxEvents
    BY <1>5, NotifyAssumption DEF notify, NotifyTyped
  <2>2. PICK T \in SUBSET Channels :
            /\ sending' = [sending EXCEPT !["engine"] = [pc |-> "next", left |-> T]]
            /\ due' = [due EXCEPT !["engine"] = T]
    BY <1>5 DEF notify, ListEnabledFor
  <2>3. [pc |-> "next", left |-> T] \in [pc : Places, left : SUBSET Channels]
    BY <1>2
  <2>4. /\ sending' \in [Posters -> {Quiet} \union [pc : Places, left : SUBSET Channels]]
        /\ due' \in [Posters -> SUBSET Channels]
    BY <2>2, <2>3 DEF NotifyTyped
  <2>5. posts' \in [Posters -> [Channels -> Seq(Outcomes)]]
    BY <1>3, <1>5 DEF notify, NotifyTyped
  <2>6. QED
    BY <1>5, <2>1, <2>4, <2>5 DEF notify, NotifyTyped
<1>6. ASSUME NEW s \in Posters, Sends(s) PROVE NotifyTyped'
  <2>1. sending' \in [Posters -> {Quiet} \union [pc : Places, left : SUBSET Channels]]
    BY <1>6, SenderGoes
  <2>2. posts' \in [Posters -> [Channels -> Seq(Outcomes)]]
    <3>1. CASE posts' = posts
      BY <3>1 DEF NotifyTyped
    <3>2. CASE posts' # posts
      <4>1. PICK outcome \in Outcomes : Posts(s, outcome) /\ sending[s].pc \in {"first", "second"}
        BY <1>6, <3>2 DEF Sends
      <4>2. Current(s) \in Channels
        BY <1>6, <4>1, SenderGoes DEF PostsByPlace, Sends
      <4>3. QED
        BY <4>1, <4>2, PostsGrow
    <3>3. QED
      BY <3>1, <3>2
  <2>3. QED
    BY <1>6, <2>1, <2>2 DEF Sends, NotifyTyped
<1>7. CASE Stop
  <2>1. stops' \in 0 .. MaxStops
    BY <1>7, NotifyAssumption DEF Stop, NotifyTyped
  <2>2. QED
    BY <1>7, <2>1 DEF Stop, NotifyTyped
<1>8. CASE ComeBack
  <2>1. channels' \in [Channels -> {NoChannel} \union Channel]
    <3>1. \A row \in Channel : [row EXCEPT !.token = "unreadable"] \in Channel
      BY DEF Channel, Tokens
    <3>2. \A c \in Channels : channels[c] # NoChannel => channels[c] \in Channel
      BY DEF NotifyTyped
    <3>3. CASE channels' = channels
      BY <3>3 DEF NotifyTyped
    <3>4. CASE channels' = [c \in Channels |->
                              IF channels[c] # NoChannel /\ channels[c].token = "sealed"
                              THEN [channels[c] EXCEPT !.token = "unreadable"] ELSE channels[c]]
      <4>1. \A c \in Channels : (IF channels[c] # NoChannel /\ channels[c].token = "sealed"
                 THEN [channels[c] EXCEPT !.token = "unreadable"] ELSE channels[c])
                    \in {NoChannel} \union Channel
        BY <3>1, <3>2
      <4>2. QED
        BY <3>4, <4>1
    <3>5. QED
      BY <1>8, <3>3, <3>4 DEF ComeBack
  <2>2. QED
    BY <1>3, <1>8, <2>1 DEF ComeBack, NotifyTyped
<1>9. CASE UNCHANGED notifyVars
  BY <1>9 DEF notifyVars, NotifyTyped
<1>10. QED
  BY <1>1, <1>4, <1>5, <1>6, <1>7, <1>8, <1>9 DEF NotifyKinds

LEMMA DueStays == NotifyTyped /\ PostsByPlace /\ DueOrPosted /\ NotifyKinds => DueOrPosted'
<1> SUFFICES ASSUME NotifyTyped, PostsByPlace, DueOrPosted, NotifyKinds, ~stopping',
                    NEW t \in Posters, NEW c \in due'[t]
             PROVE  c \in ToGo(t)' \/ posts'[t][c] # <<>>
  BY DEF DueOrPosted, ToGo
<1>1. CASE UNCHANGED <<sending, stopping, posts, due>>
  BY <1>1 DEF DueOrPosted, ToGo
<1>2. \A T \in SUBSET Channels :
         [pc |-> "next", left |-> T] # Quiet /\ [pc |-> "first", left |-> T] # Quiet
  BY DEF Quiet
<1>3. ASSUME NEW d \in Channels, handleNotificationsTest(d)
      PROVE  c \in ToGo(t)' \/ posts'[t][c] # <<>>
  <2>1. CASE t = "test"
    BY <1>2, <1>3, <2>1 DEF handleNotificationsTest, NotifyTyped, ToGo
  <2>2. CASE t # "test"
    BY <1>3, <2>2 DEF handleNotificationsTest, NotifyTyped, ToGo, DueOrPosted
  <2>3. QED
    BY <2>1, <2>2
<1>4. CASE notify
  <2>1. PICK T \in SUBSET Channels :
            /\ sending' = [sending EXCEPT !["engine"] = [pc |-> "next", left |-> T]]
            /\ due' = [due EXCEPT !["engine"] = T]
    BY <1>4 DEF notify, ListEnabledFor
  <2>2. CASE t = "engine"
    BY <1>2, <2>1, <2>2 DEF NotifyTyped, ToGo
  <2>3. CASE t # "engine"
    BY <1>4, <2>1, <2>3 DEF notify, NotifyTyped, ToGo, DueOrPosted
  <2>4. QED
    BY <2>2, <2>3
<1>5. ASSUME NEW s \in Posters, Sends(s) PROVE c \in ToGo(t)' \/ posts'[t][c] # <<>>
  <2>1. /\ ~stopping /\ due' = due /\ c \in Channels
        /\ c \in ToGo(t) \/ posts[t][c] # <<>>
        /\ \A u \in Posters : u # s => sending'[u] = sending[u]
    BY <1>5, SenderGoes DEF Sends, NotifyTyped, DueOrPosted
  <2>2. CASE posts' = posts /\ ToGo(s)' = ToGo(s)
    BY <2>1, <2>2 DEF ToGo
  <2>3. ASSUME NEW outcome \in Outcomes, Posts(s, outcome), sending[s].pc \in {"first", "second"},
               ToGo(s) \ {Current(s)} \subseteq ToGo(s)'
        PROVE  c \in ToGo(t)' \/ posts'[t][c] # <<>>
    <3>1. Current(s) \in Channels
      BY <1>5, <2>3, SenderGoes DEF PostsByPlace, Sends
    <3>2. /\ \A u \in Posters : u # s => posts'[u] = posts[u]
          /\ \A d \in Channels : d # Current(s) => posts'[s][d] = posts[s][d]
          /\ posts'[s][Current(s)] = Append(posts[s][Current(s)], outcome)
      BY <2>1, <2>3, <3>1, PostsGrow
    <3>3. posts'[s][Current(s)] # <<>>
      <4>1. posts[s][Current(s)] \in Seq(Outcomes)
        BY <3>1 DEF NotifyTyped
      <4>2. Len(Append(posts[s][Current(s)], outcome)) = Len(posts[s][Current(s)]) + 1
        BY <4>1
      <4>3. Len(posts[s][Current(s)]) \in Nat
        BY <4>1
      <4>4. Len(posts'[s][Current(s)]) # 0
        BY <3>2, <4>2, <4>3
      <4>5. QED
        BY <4>4
    <3>4. CASE t = s
      BY <2>1, <2>3, <3>2, <3>3, <3>4
    <3>5. CASE t # s
      BY <2>1, <3>2, <3>5 DEF ToGo
    <3>6. QED
      BY <3>4, <3>5
  <2>4. /\ \A place \in Places : StaysAt(s, place) => ToGo(s)' = ToGo(s)
        /\ Leaves(s) => ToGo(s)' = ToGo(s) \ {Current(s)}
    BY <1>5, SenderGoes
  <2>5. CASE sending[s].pc = "next" /\ sending[s].left = {}
    BY <1>5, <2>2, <2>5 DEF Sends, NotifyTyped, ToGo
  <2>6. CASE sending[s].pc = "next" /\ sending[s].left # {}
    BY <1>5, <2>2, <2>4, <2>6 DEF Sends, Places
  <2>7. CASE sending[s].pc = "delay"
    BY <1>5, <2>1, <2>2, <2>4, <2>7 DEF Sends, Places
  <2>8. CASE sending[s].pc \in {"first", "second"}
    BY <1>5, <2>3, <2>4, <2>8 DEF Sends, Places
  <2>9. QED
    BY <1>5, <2>5, <2>6, <2>7, <2>8 DEF Sends
<1>6. CASE Stop \/ ComeBack
  BY <1>6 DEF Stop, ComeBack, NotifyTyped
<1>7. QED
  BY <1>1, <1>3, <1>4, <1>5, <1>6, EditsAre DEF NotifyKinds, notifyVars

LEMMA OneMore ==
    ASSUME NEW q \in Seq(Outcomes), NEW o \in Outcomes, q = <<>> \/ Once(q)
    PROVE  /\ Twice(Append(q, o))
           /\ q = <<>> /\ o \in {"failed", "lost"} => Once(Append(q, o))
<1>1. CASE q = <<>>
  <2>1. Len(Append(q, o)) = 1 /\ Append(q, o)[1] = o
    BY <1>1
  <2>2. QED
    BY <1>1, <2>1 DEF Once, Twice
<1>2. CASE Once(q)
  <2>1. Len(q) = 1
    BY <1>2 DEF Once
  <2>2. Len(Append(q, o)) = 2 /\ Append(q, o)[1] = q[1] /\ q # <<>>
    BY <2>1
  <2>3. QED
    BY <1>2, <2>2 DEF Once, Twice
<1>3. QED
  BY <1>1, <1>2

LEMMA PlacesStay == NotifyTyped /\ PostsByPlace /\ NotifyKinds => PostsByPlace'
<1> DEFINE Right(s) ==
        /\ \A c \in Channels : Twice(posts'[s][c])
        /\ sending'[s] # Quiet =>
            /\ sending'[s].pc # "next" => sending'[s].left # {}
            /\ \A c \in sending'[s].left :
                 \/ posts'[s][c] = <<>>
                 \/ sending'[s].pc \in {"delay", "second"} /\ c = Current(s)' /\ Once(posts'[s][c])
<1> SUFFICES ASSUME NotifyTyped, PostsByPlace, NotifyKinds, NEW t \in Posters PROVE Right(t)
  BY DEF PostsByPlace, Twice, Once
<1>1. ASSUME sending'[t] = sending[t], posts'[t] = posts[t] PROVE Right(t)
  <2>1. Current(t)' = Current(t)
    BY <1>1 DEF Current
  <2>2. QED
    BY <1>1, <2>1 DEF PostsByPlace
<1>2. ASSUME NEW T \in SUBSET Channels, posts'[t] = NoPosts,
             \/ sending'[t] = Quiet
             \/ sending'[t] = [pc |-> "next", left |-> T]
             \/ T # {} /\ sending'[t] = [pc |-> "first", left |-> T]
      PROVE  Right(t)
  BY <1>2 DEF NoPosts, Twice
<1>3. ASSUME NEW d \in Channels, handleNotificationsTest(d) PROVE Right(t)
  <2>1. CASE t = "test"
    <3>1. sending'[t] = [pc |-> "first", left |-> {d}] /\ posts'[t] = NoPosts
      BY <1>3, <2>1 DEF handleNotificationsTest, NotifyTyped
    <3>2. QED
      BY <1>2, <3>1
  <2>2. CASE t # "test"
    BY <1>1, <1>3, <2>2 DEF handleNotificationsTest, NotifyTyped
  <2>3. QED
    BY <2>1, <2>2
<1>4. CASE notify
  <2>1. PICK T \in SUBSET Channels :
            sending' = [sending EXCEPT !["engine"] = [pc |-> "next", left |-> T]]
    BY <1>4 DEF notify, ListEnabledFor
  <2>2. CASE t = "engine"
    <3>1. sending'[t] = [pc |-> "next", left |-> T] /\ posts'[t] = NoPosts
      BY <1>4, <2>1, <2>2 DEF notify, NotifyTyped
    <3>2. QED
      BY <1>2, <3>1
  <2>3. CASE t # "engine"
    BY <1>1, <1>4, <2>1, <2>3 DEF notify, NotifyTyped
  <2>4. QED
    BY <2>2, <2>3
<1>5. ASSUME Sends(t) PROVE Right(t)
  <2> DEFINE left == sending[t].left
  <2>1. /\ sending[t] # Quiet /\ left \subseteq Channels
        /\ \A c \in Channels : Twice(posts[t][c])
        /\ sending[t].pc # "next" => left # {} /\ Current(t) \in left
        /\ \A c \in left : \/ posts[t][c] = <<>>
                          \/ /\ sending[t].pc \in {"delay", "second"}
                             /\ c = Current(t) /\ Once(posts[t][c])
    BY <1>5, SenderGoes DEF PostsByPlace, Sends
  <2>2. ASSUME NEW place \in Places, StaysAt(t, place)
        PROVE  /\ sending'[t].pc = place /\ sending'[t].left = left /\ sending'[t] # Quiet
               /\ Current(t)' = Current(t)
    <3>1. sending'[t] = [pc |-> place, left |-> left] /\ sending'[t] # Quiet
      BY <1>5, <2>2, SenderGoes
    <3>2. QED
      BY <3>1 DEF Current
  <2>3. ASSUME Leaves(t)
        PROVE  \/ sending'[t] = Quiet
               \/ sending'[t].pc = "next" /\ sending'[t].left = left \ {Current(t)}
    BY <1>5, <2>1, <2>3, SenderGoes DEF ToGo
  <2>4. ASSUME Leaves(t),
               \A c \in Channels : c # Current(t) => posts'[t][c] = posts[t][c],
               left # {} => Twice(posts'[t][Current(t)])
        PROVE  Right(t)
    <3>1. \A c \in Channels : Twice(posts'[t][c])
      BY <2>1, <2>4, <1>5, SenderGoes DEF Sends
    <3>2. \A c \in left \ {Current(t)} : posts'[t][c] = <<>>
      BY <2>1, <2>4
    <3>3. QED
      BY <2>3, <2>4, <3>1, <3>2
  <2>5. CASE sending[t].pc = "next"
    <3>1. posts' = posts
      BY <1>5, <2>5 DEF Sends
    <3>2. CASE left = {}
      BY <1>5, <2>1, <2>5, <3>1, <3>2 DEF Sends, NotifyTyped
    <3>3. CASE left # {}
      <4>1. StaysAt(t, "first")
        BY <1>5, <2>5, <3>3 DEF Sends
      <4>2. sending'[t].pc = "first" /\ sending'[t].left = left
        BY <2>2, <4>1 DEF Places
      <4>3. QED
        BY <2>1, <2>5, <3>1, <3>3, <4>2
    <3>4. QED
      BY <3>2, <3>3
  <2>6. CASE sending[t].pc = "delay"
    <3>1. posts' = posts /\ (StaysAt(t, "second") \/ Leaves(t))
      BY <1>5, <2>6 DEF Sends
    <3>2. CASE StaysAt(t, "second")
      <4>1. /\ sending'[t].pc = "second" /\ sending'[t].left = left
            /\ Current(t)' = Current(t)
        BY <2>2, <3>2 DEF Places
      <4>2. QED
        BY <2>1, <2>6, <3>1, <4>1
    <3>3. CASE Leaves(t)
      BY <2>1, <2>4, <2>6, <3>1, <3>3
    <3>4. QED
      BY <3>1, <3>2, <3>3
  <2>7. CASE sending[t].pc \in {"first", "second"}
    <3>1. PICK outcome \in Outcomes :
              /\ Posts(t, outcome)
              /\ \/ Leaves(t)
                 \/ /\ sending[t].pc = "first" /\ outcome \in {"failed", "lost"}
                    /\ StaysAt(t, "delay")
      BY <1>5, <2>7 DEF Sends
    <3>2. Current(t) \in left /\ Current(t) \in Channels
      BY <2>1, <2>7
    <3>3. /\ \A c \in Channels : c # Current(t) => posts'[t][c] = posts[t][c]
          /\ posts'[t][Current(t)] \in {posts[t][Current(t)], Append(posts[t][Current(t)], outcome)}
      BY <3>1, <3>2, PostsGrow
    <3>4. posts[t][Current(t)] \in Seq(Outcomes)
      BY <3>2 DEF NotifyTyped
    <3>5. Twice(posts'[t][Current(t)])
      BY <2>1, <3>2, <3>3, <3>4, OneMore
    <3>6. CASE Leaves(t)
      BY <2>4, <3>3, <3>5, <3>6
    <3>7. CASE /\ sending[t].pc = "first" /\ outcome \in {"failed", "lost"}
               /\ StaysAt(t, "delay")
      <4>1. posts[t][Current(t)] = <<>>
        BY <2>1, <3>2, <3>7
      <4>2. posts'[t][Current(t)] = <<>> \/ Once(posts'[t][Current(t)])
        BY <3>3, <3>4, <3>7, <4>1, OneMore
      <4>3. /\ sending'[t].pc = "delay" /\ sending'[t].left = left
            /\ Current(t)' = Current(t)
        BY <2>2, <3>7 DEF Places
      <4>4. \A c \in Channels : Twice(posts'[t][c])
        BY <2>1, <3>3, <3>5
      <4>5. \A c \in left : c # Current(t) => posts'[t][c] = <<>>
        BY <2>1, <3>3
      <4>6. QED
        BY <3>2, <4>2, <4>3, <4>4, <4>5
    <3>8. QED
      BY <3>1, <3>6, <3>7
  <2>8. QED
    BY <1>5, <2>5, <2>6, <2>7 DEF Sends
<1>6. ASSUME NEW s \in Posters, s # t, Sends(s) PROVE Right(t)
  <2>1. sending'[t] = sending[t]
    BY <1>6, SenderGoes
  <2>2. CASE posts' = posts
    BY <1>1, <2>1, <2>2
  <2>3. CASE posts' # posts
    <3>1. PICK outcome \in Outcomes : Posts(s, outcome) /\ sending[s].pc \in {"first", "second"}
      BY <1>6, <2>3 DEF Sends
    <3>2. Current(s) \in Channels
      BY <1>6, <3>1, SenderGoes DEF PostsByPlace, Sends
    <3>3. posts'[t] = posts[t]
      BY <1>6, <3>1, <3>2, PostsGrow
    <3>4. QED
      BY <1>1, <2>1, <3>3
  <2>4. QED
    BY <2>2, <2>3
<1>7. CASE ComeBack
  BY <1>2, <1>7 DEF ComeBack
<1>8. CASE Stop \/ UNCHANGED notifyVars \/ Editing
  BY <1>1, <1>8, EditsAre DEF Stop, notifyVars
<1>9. QED
  BY <1>3, <1>4, <1>5, <1>6, <1>7, <1>8 DEF NotifyKinds

-----------------------------------------------------------------------------
(* The changes of channels. *)

LEMMA AskedStays == NotifyTyped /\ AsAskedOrSoon /\ NotifyKinds => AsAskedOrSoon'
<1> DEFINE Right(c) ==
        /\ Changing(c)' = {} => channels'[c] = meant'[c]
        /\ \A a \in Changing(c)' :
             /\ \A b \in Changing(c)' : b = a
             /\ channels'[c] # NoChannel => meant'[c] = patches'[a].row
<1> SUFFICES ASSUME NotifyTyped, AsAskedOrSoon, NotifyKinds,
                    NEW c \in Channels, c \notin overlapped'
             PROVE  Right(c)
  BY DEF AsAskedOrSoon
<1>0. \A d \in Channels : /\ \A a \in Changing(d) : a \in Editors /\ patches[a] # NoChange
                          /\ \A a \in Editors : a \in Changing(d) <=> patches[a].ch = d
  BY Distinct DEF Changing
<1>1. ASSUME patches' = patches, c \notin overlapped,
             \/ channels'[c] = channels[c] /\ meant'[c] = meant[c]
             \/ channels'[c] = NoChannel /\ meant'[c] = NoChannel
      PROVE  Right(c)
  <2>1. Changing(c)' = Changing(c)
    BY <1>1 DEF Changing
  <2>2. QED
    BY <1>1, <2>1 DEF AsAskedOrSoon
<1>2. ASSUME NEW d \in Channels, handleNotificationsCreate(d) PROVE Right(c)
  <2>1. CASE c # d
    <3>1. /\ patches' = patches /\ c \notin overlapped
          /\ channels'[c] = channels[c] /\ meant'[c] = meant[c]
      BY <1>2, <2>1 DEF handleNotificationsCreate, NotifyTyped
    <3>2. QED
      BY <1>1, <3>1
  <2>2. CASE c = d
    <3>1. Changing(c)' = {} /\ channels'[c] = meant'[c]
      BY <1>2, <2>2 DEF handleNotificationsCreate, NotifyTyped, Changing
    <3>2. QED
      BY <3>1
  <2>3. QED
    BY <2>1, <2>2
<1>3. ASSUME NEW d \in Channels, handleNotificationsDelete(d) PROVE Right(c)
  <2>1. patches' = patches /\ c \notin overlapped
    BY <1>3 DEF handleNotificationsDelete
  <2>2. \/ channels'[c] = channels[c] /\ meant'[c] = meant[c]
        \/ channels'[c] = NoChannel /\ meant'[c] = NoChannel
    BY <1>3 DEF handleNotificationsDelete, NotifyTyped
  <2>3. QED
    BY <1>1, <2>1, <2>2
<1>4. ASSUME NEW d \in Channels, NEW a \in Editors, handleNotificationsPatch(a, d) PROVE Right(c)
  <2>1. PICK patch \in Patches :
            /\ patches' = [patches EXCEPT ![a] = [ch |-> d, row |-> Patched(channels[d], patch)]]
            /\ meant' = [meant EXCEPT ![d] = Patched(meant[d], patch)]
            /\ channels[d] # NoChannel /\ channels' = channels /\ patches[a] = NoChange
            /\ overlapped' = IF Changing(d) = {} THEN overlapped ELSE overlapped \union {d}
    BY <1>4 DEF handleNotificationsPatch
  <2>2. c \notin overlapped
    BY <2>1
  <2>3. CASE c # d
    <3>1. Changing(c)' = Changing(c) /\ \A e \in Changing(c) : patches'[e] = patches[e]
      BY <1>0, <2>1, <2>3, Distinct DEF Changing, NotifyTyped
    <3>2. channels'[c] = channels[c] /\ meant'[c] = meant[c]
      BY <2>1, <2>3 DEF NotifyTyped
    <3>3. QED
      BY <2>2, <3>1, <3>2 DEF AsAskedOrSoon
  <2>4. CASE c = d
    <3>1. Changing(c) = {}
      BY <2>1, <2>4
    <3>2. channels[c] = meant[c]
      BY <2>2, <3>1 DEF AsAskedOrSoon
    <3>3. Changing(c)' = {a}
      BY <1>0, <2>1, <2>4, <3>1 DEF Changing, NotifyTyped
    <3>4. patches'[a].row = Patched(channels[c], patch) /\ meant'[c] = Patched(meant[c], patch)
      BY <2>1, <2>4 DEF NotifyTyped
    <3>5. QED
      BY <3>2, <3>3, <3>4
  <2>5. QED
    BY <2>3, <2>4
<1>5. ASSUME NEW a \in Editors, UpdateChannel(a) PROVE Right(c)
  <2>1. patches[a] \in [ch : Channels, row : Channel] /\ patches[a].ch \in Channels
    BY <1>5 DEF UpdateChannel, NotifyTyped
  <2>2. /\ patches' = [patches EXCEPT ![a] = NoChange] /\ meant' = meant
        /\ channels' = [channels EXCEPT ![patches[a].ch] =
                            IF channels[patches[a].ch] = NoChannel THEN NoChannel
                            ELSE patches[a].row]
        /\ c \notin overlapped
    BY <1>5 DEF UpdateChannel, Replaced
  <2>3. \A e \in Editors : /\ e # a => patches'[e] = patches[e]
                           /\ patches'[a].ch \notin Channels
    BY <2>2, Distinct DEF NotifyTyped
  <2>4. CASE patches[a].ch # c
    <3>1. Changing(c)' = Changing(c) /\ \A e \in Changing(c) : patches'[e] = patches[e]
      BY <2>3, <2>4 DEF Changing
    <3>2. channels'[c] = channels[c]
      BY <2>2, <2>4 DEF NotifyTyped
    <3>3. QED
      BY <2>2, <3>1, <3>2 DEF AsAskedOrSoon
  <2>5. CASE patches[a].ch = c
    <3>1. a \in Changing(c) /\ \A b \in Changing(c) : b = a
      BY <2>2, <2>5 DEF Changing, AsAskedOrSoon
    <3>2. Changing(c)' = {}
      BY <2>3, <3>1 DEF Changing
    <3>3. channels[c] # NoChannel => meant[c] = patches[a].row
      BY <2>2, <3>1 DEF AsAskedOrSoon
    <3>4. channels'[c] = meant'[c]
      BY <2>2, <2>5, <3>3 DEF NotifyTyped
    <3>5. QED
      BY <3>2, <3>4
  <2>6. QED
    BY <2>4, <2>5
<1>6. CASE ComeBack
  <2>1. Changing(c)' = {} /\ channels' = meant'
    BY <1>6, Distinct DEF ComeBack, Changing
  <2>2. QED
    BY <2>1
<1>7. CASE \/ UNCHANGED <<channels, patches, meant, overlapped>>
           \/ \E d \in Channels : handleNotificationsTest(d)
           \/ notify \/ Stop
  <2>1. UNCHANGED <<channels, patches, meant, overlapped>>
    BY <1>7 DEF handleNotificationsTest, notify, Stop
  <2>2. QED
    BY <1>1, <2>1
<1>8. QED
  BY <1>2, <1>3, <1>4, <1>5, <1>6, <1>7 DEF NotifyKinds, Editing, Sends, notifyVars

LEMMA NotifyStart == NotifyInit => NotifyInv
<1> SUFFICES ASSUME NotifyInit PROVE NotifyInv
  OBVIOUS
<1>1. NotifyTyped
  <2>1. posts \in [Posters -> [Channels -> Seq(Outcomes)]]
    BY DEF NotifyInit, NoPosts
  <2>2. due \in [Posters -> SUBSET Channels] /\ stopping \in BOOLEAN /\ overlapped \subseteq Channels
    BY DEF NotifyInit
  <2>3. asked \in 0 .. MaxAsked /\ events \in 0 .. MaxEvents /\ stops \in 0 .. MaxStops
    BY NotifyAssumption DEF NotifyInit
  <2>4. QED
    BY <2>1, <2>2, <2>3 DEF NotifyInit, NotifyTyped
<1>2. DueOrPosted
  BY DEF NotifyInit, DueOrPosted
<1>3. PostsByPlace
  BY DEF NotifyInit, PostsByPlace, NoPosts, Twice
<1>4. AsAskedOrSoon
  BY Distinct DEF NotifyInit, AsAskedOrSoon, Changing
<1>5. QED
  BY <1>1, <1>2, <1>3, <1>4 DEF NotifyInv

\* The inductive invariant of the channels and their senders holds in every state.
THEOREM NotifyInvHolds == NotifySpec => []NotifyInv
<1>1. NotifyInv /\ [NotifyNext]_notifyVars => NotifyInv'
  BY NotifyStepsAre, NotifyTypesStay, DueStays, PlacesStay, AskedStays DEF NotifyInv
<1>2. QED
  BY NotifyStart, <1>1, PTL DEF NotifySpec

\* An event is posted to every channel that is due, whatever the others answer,
\* and a second time only after a failure that may pass, for any number of
\* channels, events and restarts (Publish, sendWithRetry).
THEOREM EveryoneHears == NotifySpec => []PublishOK
<1>1. NotifyTyped => NotifyTypeOK
  BY Distinct DEF NotifyTyped, NotifyTypeOK, Places
<1>2. NotifyInv => EveryChannelTried
  BY DEF NotifyInv, DueOrPosted, ToGo, EveryChannelTried
<1>3. NotifyInv => RetriedOnce
  BY DEF NotifyInv, PostsByPlace, Twice, RetriedOnce
<1>4. QED
  BY NotifyInvHolds, <1>1, <1>2, <1>3, PTL DEF PublishOK, NotifyInv

\* A channel ends up as the calls asked for, one after the other, unless two
\* changes of it overlapped (handleNotificationsPatch, Notifications.Update).
THEOREM ChannelsAreAsAsked == NotifySpec => []ChannelAsAsked
<1>1. NotifyInv => ChannelAsAsked
  BY DEF NotifyInv, AsAskedOrSoon, ChannelAsAsked
<1>2. QED
  BY NotifyInvHolds, <1>1, PTL
=============================================================================
