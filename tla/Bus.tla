-------------------------------- MODULE Bus --------------------------------
(***************************************************************************)
(* The event bus (internal/events) and the streams that read from it       *)
(* (handleEvents; the loops of the runs engine and of the pipelines        *)
(* executor subscribe in the same way).  A publisher holds the read lock   *)
(* while it visits the subscribers; a subscription is ended by its reader, *)
(* by the goroutine that watches the reader's context, or by both.  A send *)
(* on a channel that is closed, and closing it again, would panic.         *)
(*                                                                         *)
(* Messages are counted: whether a reader may see one, and writes it to    *)
(* its client or skips it, is its choice here.  A write may take for ever. *)
(***************************************************************************)
EXTENDS Integers, FiniteSets

CONSTANTS Publishers,   \* goroutines that publish
          Readers,      \* subscriptions, each used once
          Buffer,       \* size of a subscriber's channel
          MaxPublished  \* bound: messages published

ASSUME BusAssumption ==
    /\ IsFiniteSet(Readers) /\ Buffer \in Nat /\ MaxPublished \in Nat

VARIABLES
    subs,      \* Bus.subs
    queue,     \* reader -> messages in its channel
    closed,    \* reader -> how often its channel was closed
    dropped,   \* Bus.dropped
    fanout,    \* publisher -> the subscribers it has still to visit
    reader,    \* reader -> where its goroutine is
    watcher,   \* reader -> where the goroutine is that watches the context
    once,      \* reader -> who runs the body of unsubscribe, and how far it is
    cancelled, \* readers whose context is done
    stopped,   \* readers whose stop channel is closed
    published, \* number of messages so far
    unseen,    \* history: messages that publishers had for a reader, less those taken
    panicked   \* history: a send on a closed channel

busVars == <<subs, queue, closed, dropped, fanout, reader, watcher, once,
             cancelled, stopped, published, unseen, panicked>>

NotPublishing == [pc |-> "idle"]
Nobody == [who |-> "nobody", pc |-> "fresh"]

\* A channel holds no more than its buffer and is closed at most once, by one of
\* the two goroutines that may call unsubscribe: closing it again would panic.
BusTypeOK ==
    /\ subs \subseteq Readers /\ cancelled \subseteq Readers /\ stopped \subseteq Readers
    /\ queue \in [Readers -> 0 .. Buffer] /\ closed \in [Readers -> {0, 1}]
    /\ \A p \in Publishers :
          \/ fanout[p] = NotPublishing
          \/ fanout[p] \in [pc : {"sending"}, left : SUBSET Readers]
    /\ reader \in [Readers -> {"none", "lock", "select", "write", "unsubscribe", "gone"}]
    /\ watcher \in [Readers -> {"none", "select", "unsubscribe", "gone"}]
    /\ \A r \in Readers : once[r] = Nobody \/ once[r] \in
          [who : {"reader", "watcher"}, pc : {"delete", "close", "done"}]
    /\ dropped \in Nat /\ published \in 0 .. MaxPublished /\ panicked \in BOOLEAN

BusInit ==
    /\ subs = {} /\ cancelled = {} /\ stopped = {}
    /\ queue = [r \in Readers |-> 0] /\ closed = [r \in Readers |-> 0]
    /\ fanout = [p \in Publishers |-> NotPublishing]
    /\ reader = [r \in Readers |-> "none"] /\ watcher = [r \in Readers |-> "none"]
    /\ once = [r \in Readers |-> Nobody]
    /\ dropped = 0 /\ published = 0 /\ unseen = 0 /\ panicked = FALSE

-----------------------------------------------------------------------------
(* The lock: a goroutine that waits to write keeps new readers out. *)

Publishing   == {p \in Publishers : fanout[p] # NotPublishing}
AwaitingLock == {r \in Readers : reader[r] = "lock" \/ once[r].pc = "delete"}

-----------------------------------------------------------------------------
(* Publish. *)

PublishBegins(p) ==
    /\ fanout[p] = NotPublishing /\ AwaitingLock = {}
    /\ published < MaxPublished /\ published' = published + 1
    /\ fanout' = [fanout EXCEPT ![p] = [pc |-> "sending", left |-> subs]]
    /\ UNCHANGED <<subs, queue, closed, dropped, reader, watcher, once, cancelled,
                   stopped, unseen, panicked>>

\* Mutant: a slow subscriber is waited for.
PublishBlocks(p, r) ==
    /\ r \in fanout[p].left /\ queue[r] < Buffer
    /\ queue' = [queue EXCEPT ![r] = @ + 1]
    /\ dropped' = dropped /\ panicked' = panicked

\* Mutant: a drop is counted by whoever notices that it is the last one left.
PublishCountsLast(p, r) ==
    /\ r \in fanout[p].left
    /\ IF queue[r] < Buffer
       THEN queue' = [queue EXCEPT ![r] = @ + 1] /\ dropped' = dropped
       ELSE queue' = queue /\ dropped' = dropped + (IF fanout[p].left = {r} THEN 1 ELSE 0)
    /\ panicked' = panicked

\* The select of Publish: the message goes into the buffer or is dropped; a
\* send on a closed channel panics.
Offer(p, r) ==
    /\ r \in fanout[p].left
    /\ panicked' = (panicked \/ closed[r] > 0)
    /\ IF queue[r] < Buffer
       THEN queue' = [queue EXCEPT ![r] = @ + 1] /\ dropped' = dropped
       ELSE queue' = queue /\ dropped' = dropped + 1
Publish(p) ==
    /\ fanout[p] # NotPublishing
    /\ \E r \in Readers :
          /\ Offer(p, r)
          /\ fanout' = [fanout EXCEPT ![p].left = @ \ {r}]
          /\ unseen' = unseen + 1
    /\ UNCHANGED <<subs, closed, reader, watcher, once, cancelled, stopped, published>>
PublishReturns(p) ==
    /\ fanout[p] # NotPublishing /\ fanout[p].left = {}
    /\ fanout' = [fanout EXCEPT ![p] = NotPublishing]
    /\ UNCHANGED <<subs, queue, closed, dropped, reader, watcher, once, cancelled,
                   stopped, published, unseen, panicked>>

-----------------------------------------------------------------------------
(* Subscribe and unsubscribe. *)

SubscribeLock(r) ==
    /\ reader[r] = "none" /\ reader' = [reader EXCEPT ![r] = "lock"]
    /\ UNCHANGED <<subs, queue, closed, dropped, fanout, watcher, once, cancelled,
                   stopped, published, unseen, panicked>>
Subscribe(r) ==
    /\ reader[r] = "lock" /\ Publishing = {}
    /\ subs' = subs \union {r}
    /\ reader' = [reader EXCEPT ![r] = "select"]
    /\ watcher' = [watcher EXCEPT ![r] = "select"]
    /\ UNCHANGED <<queue, closed, dropped, fanout, once, cancelled, stopped,
                   published, unseen, panicked>>

\* The context is done: the client went away, or the server stops.
Cancel(r) ==
    /\ reader[r] \notin {"none", "gone"} /\ r \notin cancelled
    /\ cancelled' = cancelled \union {r}
    /\ UNCHANGED <<subs, queue, closed, dropped, fanout, reader, watcher, once,
                   stopped, published, unseen, panicked>>

\* Mutant: only the reader unsubscribes.
WatchNothing(r) == r \in stopped /\ watcher' = [watcher EXCEPT ![r] = "gone"]

\* The goroutine of Subscribe: whichever of the two comes first.
Watch(r) ==
    \/ r \in cancelled /\ watcher' = [watcher EXCEPT ![r] = "unsubscribe"]
    \/ r \in stopped /\ watcher' = [watcher EXCEPT ![r] = "gone"]
WatchContext(r) ==
    /\ watcher[r] = "select" /\ Watch(r)
    /\ UNCHANGED <<subs, queue, closed, dropped, fanout, reader, once, cancelled,
                   stopped, published, unseen, panicked>>

\* Mutant: nothing keeps the second caller from doing it again.
EnterAlways(r, who) == once' = [once EXCEPT ![r] = [who |-> who, pc |-> "delete"]]

\* once.Do: the first caller runs the body, the second waits until it is done.
Enter(r, who) ==
    once[r] = Nobody /\ once' = [once EXCEPT ![r] = [who |-> who, pc |-> "delete"]]
Calling(r, who) == IF who = "reader" THEN reader[r] = "unsubscribe"
                                     ELSE watcher[r] = "unsubscribe"
Unsubscribe(r, who) ==
    /\ Calling(r, who) /\ once[r].who # who /\ Enter(r, who)
    /\ stopped' = stopped \union {r}
    /\ UNCHANGED <<subs, queue, closed, dropped, fanout, reader, watcher, cancelled,
                   published, unseen, panicked>>
UnsubscribeDelete(r) ==
    /\ once[r].pc = "delete" /\ Publishing = {}
    /\ subs' = subs \ {r} /\ once' = [once EXCEPT ![r].pc = "close"]
    /\ UNCHANGED <<queue, closed, dropped, fanout, reader, watcher, cancelled,
                   stopped, published, unseen, panicked>>
UnsubscribeClose(r) ==
    /\ once[r].pc = "close" /\ closed' = [closed EXCEPT ![r] = @ + 1]
    /\ once' = [once EXCEPT ![r].pc = "done"]
    /\ UNCHANGED <<subs, queue, dropped, fanout, reader, watcher, cancelled,
                   stopped, published, unseen, panicked>>

\* Mutant: the channel is closed first, so that its reader wakes up at once.
UnsubscribeDeleteLate(r) ==
    /\ once[r].pc = "delete"
    /\ IF closed[r] = 0
       THEN closed' = [closed EXCEPT ![r] = 1] /\ UNCHANGED <<subs, once>>
       ELSE /\ Publishing = {} /\ subs' = subs \ {r}
            /\ once' = [once EXCEPT ![r].pc = "done"] /\ closed' = closed
    /\ UNCHANGED <<queue, dropped, fanout, reader, watcher, cancelled, stopped,
                   published, unseen, panicked>>

\* unsubscribe as a whole, after once has let its caller in.
UnsubscribeBody(r) == UnsubscribeDelete(r) \/ UnsubscribeClose(r)
UnsubscribeReturns(r, who) ==
    /\ Calling(r, who) /\ once[r].pc = "done"
    /\ IF who = "reader" THEN reader' = [reader EXCEPT ![r] = "gone"] /\ watcher' = watcher
                         ELSE watcher' = [watcher EXCEPT ![r] = "gone"] /\ reader' = reader
    /\ UNCHANGED <<subs, queue, closed, dropped, fanout, once, cancelled, stopped,
                   published, unseen, panicked>>

-----------------------------------------------------------------------------
(* handleEvents. *)

\* The select of the loop: the context, a message, or the channel closed and
\* empty.  A message the user may not see is skipped.
StreamSelect(r) ==
    /\ reader[r] = "select"
    /\ \/ /\ r \in cancelled \/ (closed[r] > 0 /\ queue[r] = 0)
          /\ reader' = [reader EXCEPT ![r] = "unsubscribe"] /\ UNCHANGED <<queue, unseen>>
       \/ /\ queue[r] > 0 /\ queue' = [queue EXCEPT ![r] = @ - 1] /\ unseen' = unseen - 1
          /\ \E next \in {"write", "select"} : reader' = [reader EXCEPT ![r] = next]
    /\ UNCHANGED <<subs, closed, dropped, fanout, watcher, once, cancelled, stopped,
                   published, panicked>>

\* The frame (or the heartbeat) is written, or the connection is broken.
StreamWrite(r) ==
    /\ reader[r] = "write"
    /\ \E next \in {"select", "unsubscribe"} : reader' = [reader EXCEPT ![r] = next]
    /\ UNCHANGED <<subs, queue, closed, dropped, fanout, watcher, once, cancelled,
                   stopped, published, unseen, panicked>>
StreamHeartbeat(r) ==
    /\ reader[r] = "select" /\ reader' = [reader EXCEPT ![r] = "write"]
    /\ UNCHANGED <<subs, queue, closed, dropped, fanout, watcher, once, cancelled,
                   stopped, published, unseen, panicked>>

PublisherSteps(p) == Publish(p) \/ PublishReturns(p)
EndingSteps(r) ==
    \/ Subscribe(r) \/ WatchContext(r) \/ UnsubscribeBody(r)
    \/ \E who \in {"reader", "watcher"} : Unsubscribe(r, who) \/ UnsubscribeReturns(r, who)
BusNext ==
    \/ \E p \in Publishers : PublishBegins(p) \/ PublisherSteps(p)
    \/ \E r \in Readers : \/ SubscribeLock(r) \/ Cancel(r) \/ EndingSteps(r)
                          \/ StreamSelect(r) \/ StreamWrite(r) \/ StreamHeartbeat(r)

\* Publishers and the goroutines of a subscription are scheduled; a reader may
\* hang in a write, and no one has to publish.
BusSpec ==
    /\ BusInit /\ [][BusNext]_busVars
    /\ \A p \in Publishers : WF_busVars(PublisherSteps(p))
    /\ \A r \in Readers : WF_busVars(EndingSteps(r))

-----------------------------------------------------------------------------
(* Properties. *)

\* Publish never sends on a channel that unsubscribe has closed, whichever
\* goroutine unsubscribes and wherever the publishers are: that would panic the
\* server (Publish holds the read lock, unsubscribe deletes before it closes).
NoSendOnClosed == ~panicked

\* The places of the channels that are taken.
Waiting == {x \in Readers \X (1 .. Buffer) : x[2] <= queue[x[1]]}

\* What publishers had for a reader it took, or it is in its channel, or it was
\* counted as dropped: the counter is the only trace of a message that an
\* engine or a client never sees (Publish, Dropped).
DropsAccounted == unseen = dropped + Cardinality(Waiting)

\* The bus neither panics nor loses count, however publishers and ending
\* subscriptions interleave (Publish, Subscribe).
BusOK == BusTypeOK /\ NoSendOnClosed /\ DropsAccounted

\* Publishing never blocks: not on a reader that hangs in a write, nor on
\* goroutines that come and go (Publish).
PublishEnds == \A p \in Publishers : p \in Publishing ~> p \notin Publishing

\* When the context of a reader is done, or the reader is through, its
\* subscription goes, its channel is closed and the watching goroutine ends,
\* even if the reader hangs in a write (Subscribe).
SubscriptionEnds ==
    \A r \in Readers :
        r \in cancelled \/ reader[r] = "gone"
            ~> r \notin subs /\ closed[r] > 0 /\ watcher[r] = "gone"

\* Nobody is kept waiting by a reader that hangs: publishers go on, and a
\* subscription that is over is cleaned up (Publish, Subscribe).
BusEnds == PublishEnds /\ SubscriptionEnds
=============================================================================
