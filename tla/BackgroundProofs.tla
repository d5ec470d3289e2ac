-------------------------- MODULE BackgroundProofs --------------------------
(***************************************************************************)
(* Proofs about what runs behind the requests: the event bus, for any      *)
(* number of publishers and streams and buffers of any size, the ticker of *)
(* a schedule, for any set of cron expressions, and the process of a Codex *)
(* session with its pump, for any number of callers and turns, lines of a  *)
(* child and sizes of the pipe and of the channel.                         *)
(*                                                                         *)
(* The bus.  A publisher holds the read lock, so that the set of           *)
(* subscribers does not change while it has some left to visit             *)
(* (VisitsSubs); a subscription enters that set once, before anybody can   *)
(* have ended it (Fresh), and its channel is closed only after it has left *)
(* the set (ClosedAfter).                                                  *)
(*                                                                         *)
(* The schedule.  Unless an operator ran it by hand or a firing got lost,  *)
(* every tick is later than the one before, so that one firing is the      *)
(* newest, and a run that is running is the one it tells of or the one the *)
(* tick is about to record (OneNewest).  Unless two writers overlapped, at *)
(* most one thread is about to write the row, and until it does the row    *)
(* has a fire time of its cron after the last tick (OneWriter).            *)
(***************************************************************************)
EXTENDS Schedules, Bus, Codex, TLAPS, FiniteSetTheorems, FunctionTheorems

-----------------------------------------------------------------------------
(* The bus. *)

\* What BusTypeOK leaves open: the functions and their fields.
Fanouts == {NotPublishing} \cup [pc : {"sending"}, left : SUBSET Readers]
Onces   == {Nobody} \cup [who : {"reader", "watcher"}, pc : {"delete", "close", "done"}]
BusTyped ==
    /\ BusTypeOK /\ unseen \in Int
    /\ fanout \in [Publishers -> Fanouts] /\ once \in [Readers -> Onces]

\* Who is left to be visited still subscribes.
VisitsSubs == \A p \in Publishers : fanout[p] # NotPublishing => fanout[p].left \subseteq subs

\* A subscription that has not begun was not ended.
Fresh ==
    \A r \in Readers : reader[r] \in {"none", "lock"} =>
        watcher[r] = "none" /\ once[r] = Nobody

\* The channel of a subscription is closed at the very end, by once.
ClosedAfter ==
    \A r \in Readers :
        /\ closed[r] = (IF once[r].pc = "done" THEN 1 ELSE 0)
        /\ once[r].pc \in {"close", "done"} => r \notin subs

BusInv == BusTyped /\ VisitsSubs /\ Fresh /\ ClosedAfter /\ NoSendOnClosed /\ DropsAccounted

LEMMA OncesAre == \A o \in Onces : o.pc # "fresh" <=> o # Nobody
BY DEF Onces, Nobody

LEMMA BusStarts == BusInit => BusInv
<1> SUFFICES ASSUME BusInit PROVE BusInv
  OBVIOUS
<1>1. BusTypeOK
  <2>1. fanout \in [Publishers -> {NotPublishing}] /\ once \in [Readers -> {Nobody}]
    BY DEF BusInit
  <2>2. queue \in [Readers -> 0 .. Buffer] /\ published \in 0 .. MaxPublished
    BY BusAssumption DEF BusInit
  <2>3. QED
    BY <2>1, <2>2 DEF BusInit, BusTypeOK
<1>5. BusTyped
  BY <1>1 DEF BusInit, BusTyped, Fanouts, Onces
<1>2. VisitsSubs /\ Fresh /\ NoSendOnClosed
  BY DEF BusInit, VisitsSubs, Fresh, NoSendOnClosed
<1>3. ClosedAfter
  BY DEF BusInit, ClosedAfter, Nobody
<1>4. Waiting = {}
  BY BusAssumption DEF BusInit, Waiting
<1>6. QED
  BY <1>5, <1>2, <1>3, <1>4, FS_EmptySet DEF BusInit, BusInv, DropsAccounted

\* One place of one channel is taken, or given back.
LEMMA WaitingIsFinite == IsFiniteSet(Waiting)
<1>1. IsFiniteSet(Readers) /\ IsFiniteSet(1 .. Buffer)
  BY BusAssumption, FS_Interval
<1>2. IsFiniteSet(Readers \X (1 .. Buffer))
  BY <1>1, FS_Product
<1>3. QED
  BY <1>2, FS_Subset DEF Waiting

LEMMA OneMore ==
    ASSUME BusTyped, NEW r \in Readers, queue[r] < Buffer, queue' = [queue EXCEPT ![r] = @ + 1]
    PROVE  Cardinality(Waiting') = Cardinality(Waiting) + 1
<1>0. queue \in [Readers -> 0 .. Buffer] /\ Buffer \in Nat
  BY BusAssumption DEF BusTyped, BusTypeOK
<1>1. <<r, queue[r] + 1>> \notin Waiting
  BY <1>0 DEF Waiting
<1>2. Waiting' = Waiting \cup {<<r, queue[r] + 1>>}
  <2>1. ASSUME NEW s \in Readers, NEW k \in 1 .. Buffer
        PROVE  k <= queue'[s] <=> k <= queue[s] \/ (s = r /\ k = queue[r] + 1)
    BY <1>0, <2>1
  <2>2. <<r, queue[r] + 1>> \in Readers \X (1 .. Buffer)
    BY <1>0
  <2>3. QED
    BY <2>1, <2>2 DEF Waiting
<1>3. QED
  BY <1>1, <1>2, WaitingIsFinite, FS_AddElement

LEMMA OneLess ==
    ASSUME BusTyped, NEW r \in Readers, queue[r] > 0, queue' = [queue EXCEPT ![r] = @ - 1]
    PROVE  Cardinality(Waiting') = Cardinality(Waiting) - 1
<1>0. queue \in [Readers -> 0 .. Buffer] /\ Buffer \in Nat
  BY BusAssumption DEF BusTyped, BusTypeOK
<1>1. <<r, queue[r]>> \in Waiting
  BY <1>0 DEF Waiting
<1>2. Waiting' = Waiting \ {<<r, queue[r]>>}
  <2>1. ASSUME NEW s \in Readers, NEW k \in 1 .. Buffer
        PROVE  k <= queue'[s] <=> k <= queue[s] /\ ~(s = r /\ k = queue[r])
    BY <1>0, <2>1
  <2>2. QED
    BY <2>1 DEF Waiting
<1>3. QED
  BY <1>1, <1>2, WaitingIsFinite, FS_RemoveElement

LEMMA SameWaiting == queue' = queue => Waiting' = Waiting
BY DEF Waiting

-----------------------------------------------------------------------------
LEMMA BusTypesStay == BusInv /\ [BusNext]_busVars => BusTyped'
<1> SUFFICES ASSUME BusInv, [BusNext]_busVars PROVE BusTyped'
  OBVIOUS
<1> USE BusAssumption DEF BusInv, ClosedAfter, BusTyped, BusTypeOK, Fanouts, Onces, NotPublishing, Nobody
<1>1. ASSUME NEW p \in Publishers, PublishBegins(p) PROVE BusTyped'
  BY <1>1 DEF PublishBegins
<1>2. ASSUME NEW p \in Publishers, Publish(p) PROVE BusTyped'
  BY <1>2 DEF Publish, Offer
<1>3. ASSUME NEW p \in Publishers, PublishReturns(p) PROVE BusTyped'
  BY <1>3 DEF PublishReturns
<1>4. ASSUME NEW r \in Readers, SubscribeLock(r) PROVE BusTyped'
  BY <1>4 DEF SubscribeLock
<1>5. ASSUME NEW r \in Readers, Subscribe(r) PROVE BusTyped'
  BY <1>5 DEF Subscribe
<1>6. ASSUME NEW r \in Readers, Cancel(r) PROVE BusTyped'
  BY <1>6 DEF Cancel
<1>7. ASSUME NEW r \in Readers, WatchContext(r) PROVE BusTyped'
  BY <1>7 DEF WatchContext, Watch
<1>8. ASSUME NEW r \in Readers, UnsubscribeDelete(r) PROVE BusTyped'
  BY <1>8 DEF UnsubscribeDelete
<1>9. ASSUME NEW r \in Readers, UnsubscribeClose(r) PROVE BusTyped'
  BY <1>9 DEF UnsubscribeClose
<1>10. ASSUME NEW r \in Readers, StreamSelect(r) PROVE BusTyped'
  <2>1. queue' \in [Readers -> 0 .. Buffer] /\ unseen' \in Int
    BY <1>10 DEF StreamSelect
  <2>2. reader' \in [Readers -> {"none", "lock", "select", "write", "unsubscribe", "gone"}]
    BY <1>10 DEF StreamSelect
  <2>3. QED
    BY <1>10, <2>1, <2>2 DEF StreamSelect
<1>11. ASSUME NEW r \in Readers, StreamWrite(r) PROVE BusTyped'
  BY <1>11 DEF StreamWrite
<1>12. ASSUME NEW r \in Readers, StreamHeartbeat(r) PROVE BusTyped'
  BY <1>12 DEF StreamHeartbeat
<1>13. ASSUME NEW r \in Readers, NEW who \in {"reader", "watcher"}, Unsubscribe(r, who) PROVE BusTyped'
  BY <1>13 DEF Unsubscribe, Enter, Calling
<1>14. ASSUME NEW r \in Readers, NEW who \in {"reader", "watcher"}, UnsubscribeReturns(r, who) PROVE BusTyped'
  BY <1>14 DEF UnsubscribeReturns, Calling
<1>15. CASE UNCHANGED busVars
  BY <1>15 DEF busVars
<1>16. QED
  BY <1>1, <1>2, <1>3, <1>4, <1>5, <1>6, <1>7, <1>8, <1>9, <1>10, <1>11, <1>12, <1>13, <1>14, <1>15
     DEF BusNext, PublisherSteps, EndingSteps, UnsubscribeBody

LEMMA SubsStay == BusInv /\ [BusNext]_busVars => VisitsSubs'
<1> SUFFICES ASSUME BusInv, [BusNext]_busVars PROVE VisitsSubs'
  OBVIOUS
<1> USE DEF BusInv, VisitsSubs, BusTyped, Fanouts, NotPublishing, Publishing
<1>1. ASSUME NEW p \in Publishers, PublishBegins(p) PROVE VisitsSubs'
  BY <1>1 DEF PublishBegins
<1>2. ASSUME NEW p \in Publishers, Publish(p) PROVE VisitsSubs'
  BY <1>2 DEF Publish, Offer
<1>3. ASSUME NEW p \in Publishers, PublishReturns(p) PROVE VisitsSubs'
  BY <1>3 DEF PublishReturns
<1>4. ASSUME NEW r \in Readers, SubscribeLock(r) PROVE VisitsSubs'
  BY <1>4 DEF SubscribeLock
<1>5. ASSUME NEW r \in Readers, Subscribe(r) PROVE VisitsSubs'
  BY <1>5 DEF Subscribe
<1>6. ASSUME NEW r \in Readers, Cancel(r) PROVE VisitsSubs'
  BY <1>6 DEF Cancel
<1>7. ASSUME NEW r \in Readers, WatchContext(r) PROVE VisitsSubs'
  BY <1>7 DEF WatchContext, Watch
<1>8. ASSUME NEW r \in Readers, UnsubscribeDelete(r) PROVE VisitsSubs'
  BY <1>8 DEF UnsubscribeDelete
<1>9. ASSUME NEW r \in Readers, UnsubscribeClose(r) PROVE VisitsSubs'
  BY <1>9 DEF UnsubscribeClose
<1>10. ASSUME NEW r \in Readers, StreamSelect(r) PROVE VisitsSubs'
  BY <1>10 DEF StreamSelect
<1>11. ASSUME NEW r \in Readers, StreamWrite(r) PROVE VisitsSubs'
  BY <1>11 DEF StreamWrite
<1>12. ASSUME NEW r \in Readers, StreamHeartbeat(r) PROVE VisitsSubs'
  BY <1>12 DEF StreamHeartbeat
<1>13. ASSUME NEW r \in Readers, NEW who \in {"reader", "watcher"}, Unsubscribe(r, who) PROVE VisitsSubs'
  BY <1>13 DEF Unsubscribe, Enter, Calling
<1>14. ASSUME NEW r \in Readers, NEW who \in {"reader", "watcher"}, UnsubscribeReturns(r, who) PROVE VisitsSubs'
  BY <1>14 DEF UnsubscribeReturns, Calling
<1>15. CASE UNCHANGED busVars
  BY <1>15 DEF busVars
<1>16. QED
  BY <1>1, <1>2, <1>3, <1>4, <1>5, <1>6, <1>7, <1>8, <1>9, <1>10, <1>11, <1>12, <1>13, <1>14, <1>15
     DEF BusNext, PublisherSteps, EndingSteps, UnsubscribeBody

LEMMA FreshStays == BusInv /\ [BusNext]_busVars => Fresh'
<1> SUFFICES ASSUME BusInv, [BusNext]_busVars PROVE Fresh'
  OBVIOUS
<1> USE DEF BusInv, Fresh, BusTyped, BusTypeOK, Onces, Nobody
<1>1. ASSUME NEW p \in Publishers, PublishBegins(p) PROVE Fresh'
  BY <1>1 DEF PublishBegins
<1>2. ASSUME NEW p \in Publishers, Publish(p) PROVE Fresh'
  BY <1>2 DEF Publish, Offer
<1>3. ASSUME NEW p \in Publishers, PublishReturns(p) PROVE Fresh'
  BY <1>3 DEF PublishReturns
<1>4. ASSUME NEW r \in Readers, SubscribeLock(r) PROVE Fresh'
  BY <1>4 DEF SubscribeLock
<1>5. ASSUME NEW r \in Readers, Subscribe(r) PROVE Fresh'
  BY <1>5 DEF Subscribe
<1>6. ASSUME NEW r \in Readers, Cancel(r) PROVE Fresh'
  BY <1>6 DEF Cancel
<1>7. ASSUME NEW r \in Readers, WatchContext(r) PROVE Fresh'
  BY <1>7 DEF WatchContext, Watch
<1>8. ASSUME NEW r \in Readers, UnsubscribeDelete(r) PROVE Fresh'
  BY <1>8 DEF UnsubscribeDelete
<1>9. ASSUME NEW r \in Readers, UnsubscribeClose(r) PROVE Fresh'
  BY <1>9 DEF UnsubscribeClose
<1>10. ASSUME NEW r \in Readers, StreamSelect(r) PROVE Fresh'
  BY <1>10 DEF StreamSelect
<1>11. ASSUME NEW r \in Readers, StreamWrite(r) PROVE Fresh'
  BY <1>11 DEF StreamWrite
<1>12. ASSUME NEW r \in Readers, StreamHeartbeat(r) PROVE Fresh'
  BY <1>12 DEF StreamHeartbeat
<1>13. ASSUME NEW r \in Readers, NEW who \in {"reader", "watcher"}, Unsubscribe(r, who) PROVE Fresh'
  BY <1>13 DEF Unsubscribe, Enter, Calling
<1>14. ASSUME NEW r \in Readers, NEW who \in {"reader", "watcher"}, UnsubscribeReturns(r, who) PROVE Fresh'
  BY <1>14 DEF UnsubscribeReturns, Calling
<1>15. CASE UNCHANGED busVars
  BY <1>15 DEF busVars
<1>16. QED
  BY <1>1, <1>2, <1>3, <1>4, <1>5, <1>6, <1>7, <1>8, <1>9, <1>10, <1>11, <1>12, <1>13, <1>14, <1>15
     DEF BusNext, PublisherSteps, EndingSteps, UnsubscribeBody

LEMMA ClosedStays == BusInv /\ [BusNext]_busVars => ClosedAfter'
<1> SUFFICES ASSUME BusInv, [BusNext]_busVars PROVE ClosedAfter'
  OBVIOUS
<1> USE DEF BusInv, Fresh, ClosedAfter, BusTyped, BusTypeOK, Onces, Nobody
<1>1. ASSUME NEW p \in Publishers, PublishBegins(p) PROVE ClosedAfter'
  BY <1>1 DEF PublishBegins
<1>2. ASSUME NEW p \in Publishers, Publish(p) PROVE ClosedAfter'
  BY <1>2 DEF Publish, Offer
<1>3. ASSUME NEW p \in Publishers, PublishReturns(p) PROVE ClosedAfter'
  BY <1>3 DEF PublishReturns
<1>4. ASSUME NEW r \in Readers, SubscribeLock(r) PROVE ClosedAfter'
  BY <1>4 DEF SubscribeLock
<1>5. ASSUME NEW r \in Readers, Subscribe(r) PROVE ClosedAfter'
  BY <1>5 DEF Subscribe
<1>6. ASSUME NEW r \in Readers, Cancel(r) PROVE ClosedAfter'
  BY <1>6 DEF Cancel
<1>7. ASSUME NEW r \in Readers, WatchContext(r) PROVE ClosedAfter'
  BY <1>7 DEF WatchContext, Watch
<1>8. ASSUME NEW r \in Readers, UnsubscribeDelete(r) PROVE ClosedAfter'
  BY <1>8 DEF UnsubscribeDelete
<1>9. ASSUME NEW r \in Readers, UnsubscribeClose(r) PROVE ClosedAfter'
  BY <1>9 DEF UnsubscribeClose
<1>10. ASSUME NEW r \in Readers, StreamSelect(r) PROVE ClosedAfter'
  BY <1>10 DEF StreamSelect
<1>11. ASSUME NEW r \in Readers, StreamWrite(r) PROVE ClosedAfter'
  BY <1>11 DEF StreamWrite
<1>12. ASSUME NEW r \in Readers, StreamHeartbeat(r) PROVE ClosedAfter'
  BY <1>12 DEF StreamHeartbeat
<1>13. ASSUME NEW r \in Readers, NEW who \in {"reader", "watcher"}, Unsubscribe(r, who) PROVE ClosedAfter'
  BY <1>13 DEF Unsubscribe, Enter, Calling
<1>14. ASSUME NEW r \in Readers, NEW who \in {"reader", "watcher"}, UnsubscribeReturns(r, who) PROVE ClosedAfter'
  BY <1>14 DEF UnsubscribeReturns, Calling
<1>15. CASE UNCHANGED busVars
  BY <1>15 DEF busVars
<1>16. QED
  BY <1>1, <1>2, <1>3, <1>4, <1>5, <1>6, <1>7, <1>8, <1>9, <1>10, <1>11, <1>12, <1>13, <1>14, <1>15
     DEF BusNext, PublisherSteps, EndingSteps, UnsubscribeBody

LEMMA NoPanic == BusInv /\ [BusNext]_busVars => NoSendOnClosed'
<1> SUFFICES ASSUME BusInv, [BusNext]_busVars PROVE NoSendOnClosed'
  OBVIOUS
<1>1. ASSUME NEW p \in Publishers, Publish(p) PROVE NoSendOnClosed'
  <2>1. PICK r \in Readers : r \in fanout[p].left /\ (panicked' = (panicked \/ closed[r] > 0))
    BY <1>1 DEF Publish, Offer
  <2>2. r \in subs
    BY <1>1, <2>1 DEF Publish, BusInv, VisitsSubs
  <2>3. closed[r] = 0
    BY <2>2 DEF BusInv, ClosedAfter
  <2>4. ~(closed[r] > 0)
    BY <2>3
  <2>5. QED
    BY <2>1, <2>4, Zenon DEF BusInv, NoSendOnClosed
<1>2. CASE UNCHANGED panicked
  BY <1>2 DEF BusInv, NoSendOnClosed
<1>3. QED
  BY <1>1, <1>2 DEF BusNext, PublisherSteps, EndingSteps, UnsubscribeBody, busVars, PublishBegins,
     PublishReturns, SubscribeLock, Subscribe, Cancel, WatchContext, UnsubscribeDelete,
     UnsubscribeClose, StreamSelect, StreamWrite, StreamHeartbeat, Unsubscribe, UnsubscribeReturns

LEMMA CountStays == BusInv /\ [BusNext]_busVars => DropsAccounted'
<1> SUFFICES ASSUME BusInv, [BusNext]_busVars PROVE DropsAccounted'
  OBVIOUS
<1>0. Cardinality(Waiting) \in Nat /\ dropped \in Nat /\ unseen \in Int
  BY WaitingIsFinite, FS_CardinalityType DEF BusInv, BusTyped, BusTypeOK
<1>1. ASSUME NEW p \in Publishers, Publish(p) PROVE DropsAccounted'
  <2>1. PICK r \in Readers : Offer(p, r) /\ unseen' = unseen + 1
    BY <1>1 DEF Publish
  <2>2. CASE queue[r] < Buffer
    <3>1. Cardinality(Waiting') = Cardinality(Waiting) + 1 /\ dropped' = dropped
      BY <2>1, <2>2, OneMore DEF BusInv, Offer
    <3>2. QED
      BY <1>0, <2>1, <3>1 DEF BusInv, DropsAccounted
  <2>3. CASE ~(queue[r] < Buffer)
    <3>1. Waiting' = Waiting /\ dropped' = dropped + 1
      BY <2>1, <2>3, SameWaiting DEF Offer
    <3>2. QED
      BY <1>0, <2>1, <3>1 DEF BusInv, DropsAccounted
  <2>4. QED
    BY <2>2, <2>3
<1>2. ASSUME NEW r \in Readers, StreamSelect(r), queue' # queue PROVE DropsAccounted'
  <2>1. Cardinality(Waiting') = Cardinality(Waiting) - 1 /\ unseen' = unseen - 1 /\ dropped' = dropped
    BY <1>2, OneLess DEF StreamSelect, BusInv
  <2>2. QED
    BY <1>0, <2>1 DEF BusInv, DropsAccounted
<1>3. CASE UNCHANGED <<queue, dropped, unseen>>
  BY <1>3, SameWaiting DEF BusInv, DropsAccounted
<1>4. ASSUME NEW r \in Readers, StreamSelect(r), queue' = queue PROVE UNCHANGED <<queue, dropped, unseen>>
  <2>1. queue[r] \in Int /\ queue \in [Readers -> 0 .. Buffer]
    BY DEF BusInv, BusTyped, BusTypeOK
  <2>2. queue' # [queue EXCEPT ![r] = @ - 1]
    <3>1. queue[r] # queue[r] - 1
      BY <2>1
    <3>2. QED
      BY <1>4, <2>1, <3>1
  <2>3. QED
    BY <1>4, <2>2 DEF StreamSelect
<1>5. QED
  BY <1>1, <1>2, <1>3, <1>4 DEF BusNext, PublisherSteps, EndingSteps, UnsubscribeBody, busVars,
     PublishBegins, PublishReturns, SubscribeLock, Subscribe, Cancel, WatchContext,
     UnsubscribeDelete, UnsubscribeClose, StreamWrite, StreamHeartbeat, Unsubscribe,
     UnsubscribeReturns

\* The invariant of the bus holds in every state.
THEOREM BusInvHolds == BusSpec => []BusInv
<1>1. BusInv /\ [BusNext]_busVars => BusInv'
  BY BusTypesStay, SubsStay, FreshStays, ClosedStays, NoPanic, CountStays DEF BusInv
<1>2. QED
  BY BusStarts, <1>1, PTL DEF BusSpec

\* Nothing is sent on a closed channel, and every message that a subscriber was
\* to have was taken, is in its channel or was counted as dropped, for any
\* number of publishers and streams (Publish, Subscribe).
THEOREM BusKeepsCount == BusSpec => []BusOK
<1>1. BusInv => BusOK
  BY DEF BusInv, BusTyped, BusOK
<1>2. QED
  BY BusInvHolds, <1>1, PTL

-----------------------------------------------------------------------------
(* The schedule. *)

\* A period has a multiple in every stretch of its length.
LEMMA NextDate ==
    ASSUME NEW n \in Nat \ {0}, NEW t \in Nat
    PROVE  \E u \in t + 1 .. t + n : u % n = 0
<1> DEFINE q == t \div n
           r == t % n
<1>1. q \in Int /\ r \in 0 .. n - 1 /\ t = n * q + r
  OBVIOUS
<1>2. t + n - r \in t + 1 .. t + n /\ t + n - r = n * (q + 1)
  BY <1>1
<1>3. \A k \in Int : (n * k) % n = 0
  OBVIOUS
<1>4. QED
  BY <1>1, <1>2, <1>3

LEMMA CronsAre == \A cron \in Crons : /\ cron.kind \in {"calendar", "every", "never", "lapsed"}
                                      /\ cron.n \in Nat \ {0}
BY SchedulesAssumption

\* What the next run is: one to plan, later than t as its cron wants it.
Later(cron, next, t) ==
    CASE cron.kind = "calendar" -> next > t
      [] cron.kind = "every"    -> next >= t + cron.n
      [] cron.kind = "never"    -> TRUE
      [] cron.kind = "lapsed"   -> next = None \/ t = 0

LEMMA NextFires ==
    ASSUME NEW cron \in Crons, NEW t \in Nat
    PROVE  /\ NextFire(cron, t) \in Nat \union {None}
           /\ NextFire(cron, t) = None <=> cron.kind = "lapsed"
           /\ Planned(cron, NextFire(cron, t), t) /\ Later(cron, NextFire(cron, t), t)
<1>1. CASE cron.kind = "calendar"
  <2>1. \E u \in t + 1 .. t + cron.n : u % cron.n = 0
    BY CronsAre, NextDate
  <2>2. NextFire(cron, t) \in t + 1 .. t + cron.n /\ NextFire(cron, t) % cron.n = 0
    BY <1>1, <2>1 DEF NextFire
  <2>3. QED
    BY <1>1, <2>2, CronsAre DEF None, Planned, Later
<1>2. CASE cron.kind = "every"
  BY <1>2, CronsAre DEF NextFire, None, Planned, Later
<1>3. CASE cron.kind = "never"
  BY <1>3 DEF NextFire, None, Zero, Planned, Later
<1>4. CASE cron.kind = "lapsed"
  BY <1>4 DEF NextFire, None, Planned, Later
<1>5. QED
  BY <1>1, <1>2, <1>3, <1>4, CronsAre

\* What is planned stays so while the clock moves.
LEMMA PlannedStays ==
    \A cron \in Crons, next \in Nat \union {None}, now, later \in Nat :
        Planned(cron, next, now) /\ later >= now => Planned(cron, next, later)
<1> SUFFICES ASSUME NEW cron \in Crons, NEW next \in Nat \union {None}, NEW now \in Nat,
                    NEW later \in Nat, Planned(cron, next, now), later >= now
             PROVE  Planned(cron, next, later)
  OBVIOUS
<1>1. CASE cron.kind = "every"
  <2>1. next \in cron.n .. now + cron.n /\ cron.n \in Nat
    BY <1>1, CronsAre DEF Planned
  <2>2. next \in cron.n .. later + cron.n
    BY <2>1
  <2>3. QED
    BY <1>1, <2>2 DEF Planned
<1>2. CASE cron.kind # "every"
  BY <1>2, CronsAre DEF Planned
<1>3. QED
  BY <1>1, <1>2

\* What was planned by one clock and for one tick is so for an earlier tick.
LEMMA LaterStays ==
    \A cron \in Crons, next \in Nat \union {None}, t, u \in Nat :
        Later(cron, next, t) /\ u <= t /\ cron.kind # "lapsed" => Later(cron, next, u)
<1> SUFFICES ASSUME NEW cron \in Crons, NEW next \in Nat \union {None}, NEW t \in Nat,
                    NEW u \in Nat, Later(cron, next, t), u <= t, cron.kind # "lapsed"
             PROVE  Later(cron, next, u)
  OBVIOUS
<1>0. next \in Int /\ cron.n \in Nat
  BY CronsAre DEF None
<1>1. CASE cron.kind = "calendar"
  BY <1>0, <1>1 DEF Later
<1>2. CASE cron.kind = "every"
  <2>1. next >= t + cron.n
    BY <1>2 DEF Later
  <2>2. next >= u + cron.n
    BY <1>0, <2>1
  <2>3. QED
    BY <1>2, <2>2 DEF Later
<1>3. CASE cron.kind = "never"
  BY <1>3 DEF Later
<1>4. QED
  BY <1>1, <1>2, <1>3, CronsAre

\* What SchedulesTypeOK leaves open: a tick and a call are at steps of their own.
TickCopies == {x \in Copies : /\ x.pc \in {"overlap", "start", "record", "advance"}
                              /\ x.pc = "record" => x.run \in RunIds}
CallCopies == {x \in Copies : /\ x.pc \in {"record", "write", "setNext"}
                              /\ x.pc = "record" => x.run \in RunIds}
RowTyped ==
    /\ sched \in [present : BOOLEAN, enabled : BOOLEAN, cron : Crons, next : Nat \union {None}]
    /\ firings \subseteq [at : Times, run : RunIds]
    /\ state \in [RunIds -> {"none", "running", "ended"}]
    /\ {seconds, ticked} \subseteq Times
    /\ asked \in 0 .. MaxAsked /\ mishaps \in 0 .. MaxMishaps
    /\ raced \in BOOLEAN /\ excused \in BOOLEAN
ThreadsTyped ==
    /\ ticker \in {Resting} \cup TickCopies /\ ops \in [Operators -> {Resting} \cup CallCopies]

\* A tick works at the time of its beginning, which is later than all firings.
TickIsLatest == ticked <= seconds /\ (ticker # Resting => ticker.now = ticked)

\* Unless a run was started behind the back of the ticker.
OneNewest ==
    sched.present /\ ~excused =>
        /\ \A o \in Operators : ops[o].pc # "record"
        /\ \A f \in firings : f.at <= ticked
        /\ ticker # Resting /\ ticker.pc # "advance" => \A f \in firings : f.at < ticked
        /\ \A f, g \in firings : f.at = g.at => f = g
        /\ ticker.pc = "start" => Running = {}
        /\ ticker.pc = "record" => Running \subseteq {ticker.run}
        /\ ticker.pc # "record" => \A r \in Running : r \in LastStarted

\* Unless the row was written under the eyes of another writer.
GoodRow(cron, next) ==
    Planned(cron, next, seconds) /\ (mishaps = 0 /\ ticker = Resting => Later(cron, next, ticked))
OneWriter ==
    sched.present /\ ~raced =>
        /\ ticker # Resting => Writers = {} /\ ticker.cron = sched.cron
        /\ \A o, w \in Writers : o = w
        /\ (\A o \in Operators : ops[o].pc # "setNext") => GoodRow(sched.cron, sched.next)
        /\ \A o \in Writers : ops[o].next # None => GoodRow(ops[o].cron, ops[o].next)
        /\ \A o \in Writers : ops[o].pc = "setNext" => ops[o].cron = sched.cron /\ ops[o].next # None
        /\ \A o \in Writers : ops[o].next = None => ops[o].cron = sched.cron

SchedulesInv == RowTyped /\ ThreadsTyped /\ TickIsLatest /\ OneNewest /\ OneWriter

LEMMA Numbers ==
    /\ RunIds \subseteq Nat \ {0} /\ Times \subseteq Nat /\ MaxSeconds \in Nat
    /\ MaxRuns \in Nat /\ MaxAsked \in Nat /\ MaxMishaps \in Nat /\ 0 \in Times
BY SchedulesAssumption DEF RunIds, Times

LEMMA Minimum ==
    ASSUME NEW T, T \subseteq Nat, T # {}
    PROVE  \E x \in T : \A y \in T : x <= y
<1>1. PICK x \in T : \A y \in T : ~(<<y, x>> \in OpToRel(<, Nat))
  BY NatLessThanWellFounded, WFMin
<1>2. \A y \in T : ~(y < x)
  BY <1>1 DEF OpToRel
<1>3. QED
  BY <1>2

\* The run that is started next was never started.
LEMMA NextRunIs == CanStart => NextRun \in RunIds /\ state[NextRun] = "none"
<1> SUFFICES ASSUME CanStart PROVE NextRun \in RunIds /\ state[NextRun] = "none"
  OBVIOUS
<1> DEFINE T == {r \in RunIds : state[r] = "none"}
<1>1. PICK x \in T : \A y \in T : x <= y
  <2>1. T # {} /\ T \subseteq Nat
    BY Numbers DEF CanStart
  <2> HIDE DEF T
  <2>2. QED
    BY <2>1, Minimum
<1>2. \A q \in 1 .. x - 1 : state[q] # "none"
  <2>1. SUFFICES ASSUME NEW q \in 1 .. x - 1, state[q] = "none" PROVE FALSE
    OBVIOUS
  <2>2. q \in RunIds /\ q < x
    BY <1>1, Numbers DEF RunIds
  <2>3. q \in T
    BY <2>1, <2>2
  <2>4. x <= q
    BY <1>1, <2>3
  <2>5. QED
    BY <1>1, <2>2, <2>4, Numbers
<1>3. QED
  BY <1>1, <1>2 DEF NextRun

\* The copies that ticks and calls make of the row, and what becomes of them.
LEMMA CopiesAre ==
    /\ Resting.pc = "rest"
    /\ \A x \in Copies : x # Resting /\ x.cron \in Crons /\ x.now \in Times /\ x.next \in Nat \union {None}
    /\ \A x \in CallCopies \cup TickCopies : x \in Copies /\ x.pc # "rest"
    /\ \A x \in TickCopies : x.pc \in {"overlap", "start", "record", "advance"}
    /\ \A x \in CallCopies : x.pc \in {"record", "write", "setNext"}
    /\ \A x \in CallCopies \cup TickCopies : x.pc = "record" => x.run \in RunIds
BY DEF Resting, Copies, CallCopies, TickCopies

LEMMA Moved ==
    ASSUME NEW x \in TickCopies
    PROVE  /\ \A pc \in {"overlap", "start", "advance"} : [x EXCEPT !.pc = pc] \in TickCopies
           /\ \A r \in RunIds : [x EXCEPT !.pc = "record", !.run = r] \in TickCopies
BY DEF TickCopies, Copies

LEMMA Copied ==
    ASSUME seconds \in Times, NEW cron \in Crons, NEW on \in BOOLEAN, NEW next \in Nat \union {None}
    PROVE  /\ Copy("overlap", cron, on, next) \in TickCopies
           /\ Copy("write", cron, on, next) \in CallCopies
           /\ \A r \in RunIds : [Copy("record", cron, on, next) EXCEPT !.run = r] \in CallCopies
           /\ [Copy("write", cron, on, next) EXCEPT !.pc = "setNext"] \in CallCopies
BY DEF CallCopies, TickCopies, Copies, Copy

LEMMA Counted == ASSUME RowTyped, Mishap \/ NoMishap PROVE mishaps' \in 0 .. MaxMishaps
BY Numbers DEF RowTyped, Mishap, NoMishap

LEMMA Recorded ==
    ASSUME RowTyped, NEW x \in CallCopies \cup TickCopies, x.pc = "record", recordFiring(x)
    PROVE  /\ firings' \subseteq [at : Times, run : RunIds]
           /\ mishaps' \in 0 .. MaxMishaps /\ excused' \in BOOLEAN
<1>1. [at |-> x.now, run |-> x.run] \in [at : Times, run : RunIds]
  BY CopiesAre
<1>2. firings' = firings \/ firings' = firings \cup {[at |-> x.now, run |-> x.run]}
  BY DEF recordFiring
<1>3. firings' \subseteq [at : Times, run : RunIds]
  BY <1>1, <1>2 DEF RowTyped
<1>4. mishaps' \in 0 .. MaxMishaps
  BY Counted DEF recordFiring
<1>5. excused' = excused \/ excused' = TRUE
  BY DEF recordFiring
<1>6. QED
  BY <1>3, <1>4, <1>5 DEF RowTyped

LEMMA RowsStay == SchedulesInv /\ [SchedulesNext]_schedulesVars => RowTyped'
<1> SUFFICES ASSUME SchedulesInv, [SchedulesNext]_schedulesVars PROVE RowTyped'
  OBVIOUS
<1> USE Numbers, CopiesAre DEF SchedulesInv, RowTyped, ThreadsTyped
<1>1. ASSUME Tick PROVE RowTyped'
  BY <1>1 DEF Tick, Due
<1>2. ASSUME tickOne PROVE RowTyped'
  <2>1. mishaps' \in 0 .. MaxMishaps
    BY <1>2, Counted DEF tickOne, overlapping
  <2>2. excused' = excused \/ excused' = TRUE
    BY <1>2 DEF tickOne, overlapping
  <2>3. QED
    BY <1>2, <2>1, <2>2 DEF tickOne
<1>3. ASSUME startAndRecord PROVE RowTyped'
  <2>1. mishaps' \in 0 .. MaxMishaps
    BY <1>3, Counted DEF startAndRecord
  <2>2. excused' = excused \/ excused' = TRUE
    BY <1>3 DEF startAndRecord
  <2>3. state' \in [RunIds -> {"none", "running", "ended"}]
    <3>1. state' = state \/ (CanStart /\ Launch)
      BY <1>3 DEF startAndRecord
    <3>2. QED
      BY <3>1, NextRunIs DEF Launch
  <2>4. QED
    BY <1>3, <2>1, <2>2, <2>3 DEF startAndRecord
<1>4. ASSUME finishFiring PROVE RowTyped'
  <2>1. ticker \in TickCopies
    BY <1>4 DEF finishFiring
  <2>2. QED
    BY <1>4, <2>1, Recorded DEF finishFiring
<1>5. ASSUME Advance PROVE RowTyped'
  BY <1>5, NextFires DEF Advance, SetNextRun, Mishap, NoMishap
<1>6. ASSUME NEW o \in Operators, RunNow(o) PROVE RowTyped'
  <2>1. mishaps' \in 0 .. MaxMishaps
    BY <1>6, Counted DEF RunNow
  <2>2. asked' \in 0 .. MaxAsked
    BY <1>6 DEF RunNow, Call
  <2>3. state' \in [RunIds -> {"none", "running", "ended"}]
    BY <1>6, NextRunIs DEF RunNow, Launch
  <2>4. QED
    BY <1>6, <2>1, <2>2, <2>3 DEF RunNow
<1>7. ASSUME NEW o \in Operators, RunNowRecord(o) PROVE RowTyped'
  <2>1. ops[o] \in CallCopies
    BY <1>7 DEF RunNowRecord
  <2>2. QED
    BY <1>7, <2>1, Recorded DEF RunNowRecord
<1>8. ASSUME NEW o \in Operators, Update(o) PROVE RowTyped'
  BY <1>8 DEF Update, Call
<1>9. ASSUME NEW o \in Operators, UpdateRow(o) PROVE RowTyped'
  <2>1. ops[o] \in CallCopies
    BY <1>9 DEF UpdateRow
  <2>2. ops[o].cron \in Crons /\ ops[o].on \in BOOLEAN
    BY <2>1 DEF CallCopies, Copies
  <2>3. sched' \in [present : BOOLEAN, enabled : BOOLEAN, cron : Crons, next : Nat \union {None}]
    BY <1>9, <2>2 DEF UpdateRow
  <2>4. mishaps' \in 0 .. MaxMishaps
    BY <1>9, Counted DEF UpdateRow
  <2>5. QED
    BY <1>9, <2>3, <2>4 DEF UpdateRow
<1>10. ASSUME NEW o \in Operators, UpdateNext(o) PROVE RowTyped'
  <2>1. ops[o].next \in Nat \union {None}
    BY <1>10 DEF UpdateNext
  <2>2. sched' \in [present : BOOLEAN, enabled : BOOLEAN, cron : Crons, next : Nat \union {None}]
    BY <1>10, <2>1 DEF UpdateNext, SetNextRun
  <2>3. mishaps' \in 0 .. MaxMishaps
    BY <1>10, Counted DEF UpdateNext
  <2>4. raced' = raced \/ raced' = TRUE
    BY <1>10 DEF UpdateNext
  <2>5. QED
    BY <1>10, <2>2, <2>3, <2>4 DEF UpdateNext
<1>11. ASSUME NEW o \in Operators, Delete(o) PROVE RowTyped'
  <2>1. sched' \in [present : BOOLEAN, enabled : BOOLEAN, cron : Crons, next : Nat \union {None}]
    BY <1>11 DEF Delete
  <2>2. asked' \in 0 .. MaxAsked
    BY <1>11 DEF Delete, Call
  <2>3. QED
    BY <1>11, <2>1, <2>2 DEF Delete
<1>12. ASSUME NEW r \in RunIds, RunEnds(r) PROVE RowTyped'
  BY <1>12 DEF RunEnds
<1>13. ASSUME ClockMoves PROVE RowTyped'
  <2>1. seconds' \in Times
    BY <1>13 DEF ClockMoves, Times
  <2>2. QED
    BY <1>13, <2>1 DEF ClockMoves
<1>14. ASSUME Restarts PROVE RowTyped'
  BY <1>14 DEF Restarts, Mishap
<1>15. CASE UNCHANGED schedulesVars
  BY <1>15 DEF schedulesVars
<1>16. QED
  BY <1>1, <1>2, <1>3, <1>4, <1>5, <1>6, <1>7, <1>8, <1>9, <1>10, <1>11, <1>12, <1>13, <1>14, <1>15 DEF SchedulesNext
LEMMA ThreadsStay == SchedulesInv /\ [SchedulesNext]_schedulesVars => ThreadsTyped'
<1> SUFFICES ASSUME SchedulesInv, [SchedulesNext]_schedulesVars PROVE ThreadsTyped'
  OBVIOUS
<1> USE CopiesAre DEF SchedulesInv, RowTyped, ThreadsTyped
<1>1. ASSUME Tick PROVE ThreadsTyped'
  BY <1>1, Copied DEF Tick, Due
<1>2. ASSUME tickOne PROVE ThreadsTyped'
  <2>1. ticker \in TickCopies
    BY <1>2 DEF tickOne
  <2>2. ticker' = [ticker EXCEPT !.pc = "advance"] \/ ticker' = [ticker EXCEPT !.pc = "start"]
    BY <1>2 DEF tickOne
  <2>3. [ticker EXCEPT !.pc = "advance"] \in TickCopies /\ [ticker EXCEPT !.pc = "start"] \in TickCopies
    BY <2>1, Moved
  <2>4. QED
    BY <1>2, <2>2, <2>3 DEF tickOne
<1>3. ASSUME startAndRecord PROVE ThreadsTyped'
  <2>1. ticker \in TickCopies
    BY <1>3 DEF startAndRecord
  <2>2. \/ ticker' = [ticker EXCEPT !.pc = "advance"]
        \/ CanStart /\ ticker' = [ticker EXCEPT !.pc = "record", !.run = NextRun]
    BY <1>3 DEF startAndRecord
  <2>3. [ticker EXCEPT !.pc = "advance"] \in TickCopies
    BY <2>1, Moved
  <2>4. CanStart => [ticker EXCEPT !.pc = "record", !.run = NextRun] \in TickCopies
    BY <2>1, Moved, NextRunIs
  <2>5. QED
    BY <1>3, <2>2, <2>3, <2>4 DEF startAndRecord
<1>4. ASSUME finishFiring PROVE ThreadsTyped'
  BY <1>4, Moved DEF finishFiring, recordFiring, Mishap, NoMishap
<1>5. ASSUME Advance PROVE ThreadsTyped'
  BY <1>5 DEF Advance, SetNextRun, Mishap, NoMishap
<1>6. ASSUME NEW o \in Operators, RunNow(o) PROVE ThreadsTyped'
  <2>1. NextRun \in RunIds
    BY <1>6, NextRunIs DEF RunNow
  <2>2. [Copy("record", sched.cron, TRUE, None) EXCEPT !.run = NextRun] \in CallCopies
    BY <2>1, Copied
  <2>3. \/ ops' = ops
        \/ ops' = [ops EXCEPT ![o] = [Copy("record", sched.cron, TRUE, None) EXCEPT !.run = NextRun]]
    BY <1>6 DEF RunNow
  <2>4. ticker' = ticker
    BY <1>6 DEF RunNow
  <2>5. QED
    BY <2>2, <2>3, <2>4
<1>7. ASSUME NEW o \in Operators, RunNowRecord(o) PROVE ThreadsTyped'
  BY <1>7 DEF RunNowRecord, recordFiring, Mishap, NoMishap
<1>8. ASSUME NEW o \in Operators, Update(o) PROVE ThreadsTyped'
  <2>1. PICK cron \in Crons, on \in BOOLEAN : ops' = [ops EXCEPT ![o] = Copy("write", cron, on,
                     IF cron = sched.cron THEN None ELSE NextFire(cron, seconds))]
    BY <1>8 DEF Update
  <2>2. (IF cron = sched.cron THEN None ELSE NextFire(cron, seconds)) \in Nat \union {None} /\ seconds \in Times
    BY Numbers, NextFires
  <2>3. Copy("write", cron, on, IF cron = sched.cron THEN None ELSE NextFire(cron, seconds)) \in CallCopies
    BY <2>2, Copied
  <2>4. QED
    BY <1>8, <2>1, <2>3 DEF Update
<1>9. ASSUME NEW o \in Operators, UpdateRow(o) PROVE ThreadsTyped'
  <2>1. ops[o] \in CallCopies
    BY <1>9 DEF UpdateRow
  <2>2. [ops[o] EXCEPT !.pc = "setNext"] \in CallCopies
    BY <2>1 DEF CallCopies, Copies
  <2>3. ops' = [ops EXCEPT ![o] = Resting] \/ ops' = [ops EXCEPT ![o] = [ops[o] EXCEPT !.pc = "setNext"]]
    BY <1>9 DEF UpdateRow
  <2>4. QED
    BY <1>9, <2>2, <2>3 DEF UpdateRow
<1>10. ASSUME NEW o \in Operators, UpdateNext(o) PROVE ThreadsTyped'
  BY <1>10 DEF UpdateNext, SetNextRun, Mishap, NoMishap
<1>11. ASSUME NEW o \in Operators, Delete(o) PROVE ThreadsTyped'
  BY <1>11 DEF Delete, Call
<1>12. ASSUME NEW r \in RunIds, RunEnds(r) PROVE ThreadsTyped'
  BY <1>12 DEF RunEnds
<1>13. ASSUME ClockMoves PROVE ThreadsTyped'
  BY <1>13 DEF ClockMoves
<1>14. ASSUME Restarts PROVE ThreadsTyped'
  BY <1>14 DEF Restarts, Mishap
<1>15. CASE UNCHANGED schedulesVars
  BY <1>15 DEF schedulesVars
<1>16. QED
  BY <1>1, <1>2, <1>3, <1>4, <1>5, <1>6, <1>7, <1>8, <1>9, <1>10, <1>11, <1>12, <1>13, <1>14, <1>15 DEF SchedulesNext
LEMMA TickStays == SchedulesInv /\ [SchedulesNext]_schedulesVars => TickIsLatest'
<1> SUFFICES ASSUME SchedulesInv, [SchedulesNext]_schedulesVars PROVE TickIsLatest'
  OBVIOUS
<1> USE Numbers, CopiesAre DEF SchedulesInv, RowTyped, ThreadsTyped, TickIsLatest
<1>1. ASSUME Tick PROVE TickIsLatest'
  BY <1>1 DEF Tick, Due, Copy
<1>2. ASSUME tickOne PROVE TickIsLatest'
  BY <1>2 DEF tickOne, overlapping, NoMishap, Mishap
<1>3. ASSUME startAndRecord PROVE TickIsLatest'
  <2>1. ticker \in TickCopies
    BY <1>3 DEF startAndRecord
  <2>2. ticker'.now = ticker.now
    BY <1>3, <2>1 DEF startAndRecord, TickCopies, Copies
  <2>3. QED
    BY <1>3, <2>1, <2>2 DEF startAndRecord
<1>4. ASSUME finishFiring PROVE TickIsLatest'
  BY <1>4 DEF finishFiring, recordFiring, Mishap, NoMishap
<1>5. ASSUME Advance PROVE TickIsLatest'
  BY <1>5 DEF Advance, SetNextRun, Mishap, NoMishap
<1>6. ASSUME NEW o \in Operators, RunNow(o) PROVE TickIsLatest'
  BY <1>6 DEF RunNow, Call, CanStart, Launch, Copy
<1>7. ASSUME NEW o \in Operators, RunNowRecord(o) PROVE TickIsLatest'
  BY <1>7 DEF RunNowRecord, recordFiring, Mishap, NoMishap
<1>8. ASSUME NEW o \in Operators, Update(o) PROVE TickIsLatest'
  BY <1>8 DEF Update, Call, Copy
<1>9. ASSUME NEW o \in Operators, UpdateRow(o) PROVE TickIsLatest'
  BY <1>9 DEF UpdateRow, Mishap, NoMishap
<1>10. ASSUME NEW o \in Operators, UpdateNext(o) PROVE TickIsLatest'
  BY <1>10 DEF UpdateNext, SetNextRun, Mishap, NoMishap
<1>11. ASSUME NEW o \in Operators, Delete(o) PROVE TickIsLatest'
  BY <1>11 DEF Delete, Call
<1>12. ASSUME NEW r \in RunIds, RunEnds(r) PROVE TickIsLatest'
  BY <1>12 DEF RunEnds
<1>13. ASSUME ClockMoves PROVE TickIsLatest'
  <2>1. ticked <= seconds + 1
    BY DEF Times
  <2>2. QED
    BY <1>13, <2>1 DEF ClockMoves
<1>14. ASSUME Restarts PROVE TickIsLatest'
  BY <1>14 DEF Restarts, Mishap
<1>15. CASE UNCHANGED schedulesVars
  BY <1>15 DEF schedulesVars
<1>16. QED
  BY <1>1, <1>2, <1>3, <1>4, <1>5, <1>6, <1>7, <1>8, <1>9, <1>10, <1>11, <1>12, <1>13, <1>14, <1>15 DEF SchedulesNext

\* The steps of a tick but its last.
LEMMA Ticking ==
    ASSUME SchedulesInv, tickOne \/ startAndRecord \/ finishFiring
    PROVE  ticker \in TickCopies /\ ticker' \in TickCopies
<1>1. ticker \in TickCopies
  BY CopiesAre DEF SchedulesInv, ThreadsTyped, tickOne, startAndRecord, finishFiring
<1>2. ticker'.pc # "rest"
  BY <1>1 DEF tickOne, startAndRecord, finishFiring, TickCopies, Copies
<1>3. ThreadsTyped'
  BY ThreadsStay DEF SchedulesNext
<1>4. QED
  BY <1>1, <1>2, <1>3, CopiesAre DEF ThreadsTyped

\* A firing that is later than all others.
LEMMA Newer ==
    ASSUME NEW S, NEW f, f.at \in Nat, \A g \in S : g.at \in Nat /\ g.at < f.at,
           \A g, h \in S : g.at = h.at => g = h
    PROVE  /\ \A g \in S \cup {f} : g.at <= f.at
           /\ \A g, h \in S \cup {f} : g.at = h.at => g = h
OBVIOUS

LEMMA NewestStays == SchedulesInv /\ [SchedulesNext]_schedulesVars => OneNewest'
<1> SUFFICES ASSUME SchedulesInv, [SchedulesNext]_schedulesVars PROVE OneNewest'
  OBVIOUS
<1> USE Numbers, CopiesAre DEF SchedulesInv, RowTyped, ThreadsTyped, TickIsLatest, OneNewest, Running, LastStarted
<1>1. ASSUME Tick PROVE OneNewest'
  BY <1>1 DEF Tick, Due, Copy
<1>2. ASSUME tickOne PROVE OneNewest'
  BY <1>2, SMTT(60) DEF tickOne, overlapping, NoMishap, Mishap
<1>3. ASSUME startAndRecord PROVE OneNewest'
  <2>1. ticker \in TickCopies /\ ticker' # Resting /\ ticker'.pc \in {"record", "advance"}
    <3>1. ticker \in TickCopies /\ ticker' \in TickCopies
      BY <1>3, Ticking
    <3>2. QED
      BY <1>3, <3>1, ZenonT(60) DEF startAndRecord, TickCopies, Copies
  <2>2. sched.present /\ ~excused => Running = {}
    BY <1>3 DEF startAndRecord
  <2>3. CASE CanStart /\ Launch /\ ticker' = [ticker EXCEPT !.pc = "record", !.run = NextRun]
    <3>1. ticker'.run = NextRun /\ ticker'.pc = "record"
      BY <2>1, <2>3 DEF TickCopies, Copies
    <3>2. \A r \in RunIds : state'[r] = "running" => r = NextRun \/ state[r] = "running"
      BY <2>3, NextRunIs DEF Launch
    <3>3. QED
      BY <1>3, <2>1, <2>2, <3>1, <3>2 DEF startAndRecord
  <2>4. CASE state' = state /\ ticker' = [ticker EXCEPT !.pc = "advance"]
    <3>1. ticker'.pc = "advance"
      BY <2>1, <2>4 DEF TickCopies, Copies
    <3>2. excused' = excused \/ excused' = TRUE
      BY <1>3 DEF startAndRecord
    <3>3. QED
      BY <1>3, <2>1, <2>2, <2>4, <3>1, <3>2 DEF startAndRecord
  <2>5. QED
    BY <1>3, <2>3, <2>4 DEF startAndRecord
<1>4. ASSUME finishFiring PROVE OneNewest'
  <2> DEFINE f == [at |-> ticker.now, run |-> ticker.run]
  <2>1. SUFFICES ASSUME sched'.present, ~excused' PROVE OneNewest'
    OBVIOUS
  <2>2. sched.present /\ ~excused /\ firings' = firings \cup {f} /\ ticker.now = ticked
    BY <1>4, <2>1 DEF finishFiring, recordFiring
  <2>3. ticker \in TickCopies /\ ticker'.pc = "advance"
    BY <1>4 DEF finishFiring, TickCopies, Copies
  <2>4. \A g \in firings : g.at < ticked
    BY <1>4, <2>2, <2>3 DEF finishFiring
  <2>5. f.at = ticked /\ f.run = ticker.run /\ f \in firings'
    BY <2>2
  <2>6. /\ \A g \in firings' : g.at <= f.at
        /\ \A g, h \in firings' : g.at = h.at => g = h
    <3> HIDE DEF f
    <3>2. f.at \in Times
      BY <2>5
    <3>3. \A g, h \in firings : g.at = h.at => g = h
      BY <2>2
    <3>4. \A g \in firings : g.at \in Nat /\ g.at < f.at
      BY <2>4, <2>5
    <3>5. QED
      BY <2>2, <3>2, <3>3, <3>4, Newer
  <2>7. ticker.run \in LastStarted'
    <3> HIDE DEF f
    <3>1. QED
      BY <2>5, <2>6
  <2>8. Running' \subseteq {ticker.run}
    BY <1>4, <2>2 DEF finishFiring
  <2>9. ticked' = ticked /\ ops' = ops
    BY <1>4 DEF finishFiring
  <2>10. QED
    <3> HIDE DEF f
    <3>1. \A g \in firings' : g.at <= ticked'
      BY <2>5, <2>6, <2>9
    <3>2. \A r \in Running' : r \in LastStarted'
      BY <2>7, <2>8
    <3>3. \A o \in Operators : ops'[o].pc # "record"
      BY <2>2, <2>9
    <3>4. QED
      BY <2>3, <2>6, <3>1, <3>2, <3>3 DEF OneNewest
<1>5. ASSUME Advance PROVE OneNewest'
  BY <1>5 DEF Advance, SetNextRun, Mishap, NoMishap
<1>6. ASSUME NEW o \in Operators, RunNow(o) PROVE OneNewest'
  BY <1>6 DEF RunNow, Call, CanStart, Launch, Copy
<1>7. ASSUME NEW o \in Operators, RunNowRecord(o) PROVE OneNewest'
  BY <1>7 DEF RunNowRecord, recordFiring, Mishap, NoMishap
<1>8. ASSUME NEW o \in Operators, Update(o) PROVE OneNewest'
  BY <1>8 DEF Update, Call, Copy
<1>9. ASSUME NEW o \in Operators, UpdateRow(o) PROVE OneNewest'
  <2>1. \A w \in Operators : ops'[w].pc = "record" => ops[w].pc = "record"
    <3>1. ops[o] \in CallCopies
      BY <1>9 DEF UpdateRow
    <3>2. [ops[o] EXCEPT !.pc = "setNext"].pc = "setNext"
      BY <3>1 DEF CallCopies, Copies
    <3>3. QED
      BY <1>9, <3>1, <3>2 DEF UpdateRow
  <2>2. sched'.present = sched.present
    BY <1>9 DEF UpdateRow
  <2>3. QED
    BY <1>9, <2>1, <2>2 DEF UpdateRow
<1>10. ASSUME NEW o \in Operators, UpdateNext(o) PROVE OneNewest'
  BY <1>10 DEF UpdateNext, SetNextRun, Mishap, NoMishap
<1>11. ASSUME NEW o \in Operators, Delete(o) PROVE OneNewest'
  BY <1>11 DEF Delete, Call
<1>12. ASSUME NEW r \in RunIds, RunEnds(r) PROVE OneNewest'
  BY <1>12 DEF RunEnds
<1>13. ASSUME ClockMoves PROVE OneNewest'
  BY <1>13 DEF ClockMoves
<1>14. ASSUME Restarts PROVE OneNewest'
  BY <1>14 DEF Restarts, Mishap
<1>15. CASE UNCHANGED schedulesVars
  BY <1>15 DEF schedulesVars
<1>16. QED
  BY <1>1, <1>2, <1>3, <1>4, <1>5, <1>6, <1>7, <1>8, <1>9, <1>10, <1>11, <1>12, <1>13, <1>14, <1>15 DEF SchedulesNext

LEMMA WriterStays == SchedulesInv /\ [SchedulesNext]_schedulesVars => OneWriter'
<1> SUFFICES ASSUME SchedulesInv, [SchedulesNext]_schedulesVars PROVE OneWriter'
  OBVIOUS
<1> USE Numbers, CopiesAre DEF SchedulesInv, RowTyped, ThreadsTyped, TickIsLatest, OneWriter, GoodRow, Writers
<1>1. ASSUME Tick PROVE OneWriter'
  BY <1>1 DEF Tick, Due, Copy
<1>2. ASSUME tickOne PROVE OneWriter'
  <2>1. ticker \in TickCopies /\ ticker' \in TickCopies
    BY <1>2, Ticking
  <2>2. ticker'.cron = ticker.cron
    BY <1>2, <2>1 DEF tickOne, TickCopies, Copies
  <2>3. mishaps' = 0 => mishaps = 0
    BY <1>2 DEF tickOne, overlapping, NoMishap, Mishap
  <2>4. sched' = sched /\ ops' = ops /\ raced' = raced /\ ticked' = ticked /\ seconds' = seconds
    BY <1>2 DEF tickOne
  <2>5. QED
    BY <2>1, <2>2, <2>3, <2>4
<1>3. ASSUME startAndRecord PROVE OneWriter'
  <2>1. ticker \in TickCopies /\ ticker' \in TickCopies
    BY <1>3, Ticking
  <2>2. ticker'.cron = ticker.cron
    BY <1>3, <2>1 DEF startAndRecord, TickCopies, Copies
  <2>3. mishaps' = 0 => mishaps = 0
    BY <1>3 DEF startAndRecord, Launch, CanStart, Mishap, NoMishap
  <2>4. sched' = sched /\ ops' = ops /\ raced' = raced /\ ticked' = ticked /\ seconds' = seconds
    BY <1>3 DEF startAndRecord
  <2>5. QED
    BY <2>1, <2>2, <2>3, <2>4
<1>4. ASSUME finishFiring PROVE OneWriter'
  <2>1. ticker \in TickCopies /\ ticker' \in TickCopies
    BY <1>4, Ticking
  <2>2. ticker'.cron = ticker.cron
    BY <1>4, <2>1 DEF finishFiring, TickCopies, Copies
  <2>3. mishaps' = 0 => mishaps = 0
    BY <1>4 DEF finishFiring, recordFiring, Mishap, NoMishap
  <2>4. sched' = sched /\ ops' = ops /\ raced' = raced /\ ticked' = ticked /\ seconds' = seconds
    BY <1>4 DEF finishFiring
  <2>5. QED
    BY <2>1, <2>2, <2>3, <2>4
<1>5. ASSUME Advance PROVE OneWriter'
  <2>1. SUFFICES ASSUME sched'.present, ~raced' PROVE OneWriter'
    OBVIOUS
  <2>2. /\ sched.present /\ ~raced /\ ops' = ops /\ ticked' = ticked /\ seconds' = seconds
        /\ ticker' = Resting /\ ticker # Resting /\ mishaps \in Nat
        /\ mishaps' = 0 => mishaps = 0
    BY <1>5, <2>1 DEF Advance, SetNextRun, Mishap, NoMishap
  <2>3. Writers = {} /\ ticker.cron = sched.cron /\ ticker.now = ticked /\ ticked \in Nat
    BY <2>2
  <2>4. GoodRow(sched.cron, sched.next)
    BY <2>2, <2>3
  <2> DEFINE next == NextFire(ticker.cron, ticker.now)
  <2>5. /\ next \in Nat \union {None} /\ Planned(sched.cron, next, ticked)
        /\ Later(sched.cron, next, ticked)
    BY <2>3, NextFires
  <2>6. Planned(sched.cron, next, seconds)
    BY <2>3, <2>5, PlannedStays
  <2> HIDE DEF next
  <2>7. CASE NoMishap /\ sched' = [sched EXCEPT !.next = next]
    BY <2>2, <2>3, <2>5, <2>6, <2>7
  <2>8. CASE Mishap /\ sched' = sched
    <3>1. mishaps' # 0
      BY <2>2, <2>8 DEF Mishap
    <3>2. QED
      BY <2>2, <2>3, <2>4, <2>8, <3>1
  <2>9. QED
    BY <1>5, <2>2, <2>7, <2>8 DEF Advance, SetNextRun, next
<1>6. ASSUME NEW o \in Operators, RunNow(o) PROVE OneWriter'
  <2>1. \A w \in Operators : ops'[w].pc \in {"write", "setNext"} =>
            ops'[w] = ops[w] /\ ops[w].pc \in {"write", "setNext"}
    BY <1>6 DEF RunNow, Copy
  <2>2. \A w \in Operators : ops[w].pc \in {"write", "setNext"} => ops'[w] = ops[w]
    BY <1>6 DEF RunNow, Call
  <2>3. UNCHANGED <<sched, ticker, ticked, raced, seconds>> /\ (mishaps' = 0 => mishaps = 0)
    <3>1. mishaps \in Nat
      OBVIOUS
    <3>2. Mishap \/ NoMishap
      BY <1>6 DEF RunNow
    <3>3. mishaps' = mishaps \/ mishaps' = mishaps + 1
      BY <3>2 DEF Mishap, NoMishap
    <3>4. mishaps' = 0 => mishaps = 0
      BY <3>1, <3>3
    <3>5. UNCHANGED <<sched, ticker, ticked, raced, seconds>>
      BY <1>6 DEF RunNow
    <3>6. QED
      BY <3>4, <3>5
  <2>4. Writers' = Writers
    BY <2>1, <2>2
  <2>5. QED
    BY <2>1, <2>2, <2>3, <2>4
<1>7. ASSUME NEW o \in Operators, RunNowRecord(o) PROVE OneWriter'
  BY <1>7 DEF RunNowRecord, recordFiring, Mishap, NoMishap
<1>8. ASSUME NEW o \in Operators, Update(o) PROVE OneWriter'
  <2>1. SUFFICES ASSUME sched'.present, ~raced' PROVE OneWriter'
    OBVIOUS
  <2>2. /\ sched' = sched /\ sched.present /\ ~raced /\ Writers = {} /\ ticker = Resting
        /\ ticker' = ticker /\ mishaps' = mishaps /\ ticked' = ticked /\ seconds \in Nat
        /\ seconds' = seconds
    BY <1>8, <2>1 DEF Update, Call
  <2>3. PICK cron \in Crons, on \in BOOLEAN :
           /\ cron.kind # "lapsed"
           /\ ops' = [ops EXCEPT ![o] = Copy("write", cron, on,
                     IF cron = sched.cron THEN None ELSE NextFire(cron, seconds))]
    BY <1>8 DEF Update
  <2> DEFINE next == IF cron = sched.cron THEN None ELSE NextFire(cron, seconds)
  <2>4. /\ next = None => cron = sched.cron
        /\ next # None => Planned(cron, next, seconds) /\ Later(cron, next, ticked)
    <3>1. Planned(cron, NextFire(cron, seconds), seconds) /\ Later(cron, NextFire(cron, seconds), seconds)
      BY <2>2, NextFires
    <3>2. NextFire(cron, seconds) # None /\ Later(cron, NextFire(cron, seconds), ticked)
      <4>1. ticked \in Nat /\ ticked <= seconds /\ cron.kind # "lapsed"
        BY <2>3
      <4>2. NextFire(cron, seconds) \in Nat
        BY <2>2, <4>1, NextFires
      <4>3. NextFire(cron, seconds) # None
        BY <4>2 DEF None
      <4>4. QED
        BY <2>2, <3>1, <4>1, <4>2, <4>3, LaterStays
    <3>3. CASE cron = sched.cron
      BY <3>3
    <3>4. CASE cron # sched.cron
      BY <3>1, <3>2, <3>4
    <3>5. QED
      BY <3>3, <3>4
  <2>5. ops'[o].pc = "write" /\ ops'[o].cron = cron /\ ops'[o].next = next
    BY <2>3 DEF Copy
  <2>6. \A w \in Operators : w # o => ops'[w].pc \notin {"write", "setNext"}
    BY <2>2, <2>3
  <2>7. GoodRow(sched.cron, sched.next)
    BY <2>2
  <2> HIDE DEF next
  <2>8. QED
    BY <2>1, <2>2, <2>4, <2>5, <2>6, <2>7
<1>9. ASSUME NEW o \in Operators, UpdateRow(o) PROVE OneWriter'
  <2>1. SUFFICES ASSUME sched'.present, ~raced' PROVE OneWriter'
    OBVIOUS
  <2>2. /\ sched.present /\ ~raced /\ ticker' = ticker /\ ticked' = ticked /\ seconds' = seconds
        /\ mishaps' = 0 => mishaps = 0
    BY <1>9, <2>1 DEF UpdateRow, Mishap, NoMishap
  <2>3. ops[o] \in CallCopies /\ ops[o].pc = "write" /\ Writers = {o} /\ ticker = Resting
    BY <1>9, <2>2 DEF UpdateRow
  <2>4. /\ GoodRow(sched.cron, sched.next)
        /\ ops[o].next = None => ops[o].cron = sched.cron
        /\ ops[o].next # None => GoodRow(ops[o].cron, ops[o].next)
    BY <2>2, <2>3
  <2>5. CASE sched' = sched /\ ops' = [ops EXCEPT ![o] = Resting]
    BY <2>2, <2>3, <2>4, <2>5
  <2>6. CASE /\ sched' = [sched EXCEPT !.cron = ops[o].cron, !.enabled = ops[o].on]
             /\ ops' = [ops EXCEPT ![o] = IF @.next = None THEN Resting ELSE [@ EXCEPT !.pc = "setNext"]]
    <3>1. sched'.cron = ops[o].cron /\ sched'.next = sched.next
      BY <2>6
    <3>2. CASE ops[o].next = None
      BY <2>2, <2>3, <2>4, <2>6, <3>1, <3>2
    <3>3. CASE ops[o].next # None
      <4>1. /\ ops'[o].pc = "setNext" /\ ops'[o].cron = ops[o].cron /\ ops'[o].next = ops[o].next
        BY <2>3, <2>6, <3>3 DEF CallCopies, Copies
      <4>2. \A w \in Operators : w # o => ops'[w].pc \notin {"write", "setNext"}
        BY <2>3, <2>6
      <4>3. QED
        BY <2>1, <2>2, <2>3, <2>4, <3>1, <3>3, <4>1, <4>2
    <3>4. QED
      BY <3>2, <3>3
  <2>7. QED
    BY <1>9, <2>5, <2>6 DEF UpdateRow
<1>10. ASSUME NEW o \in Operators, UpdateNext(o) PROVE OneWriter'
  BY <1>10 DEF UpdateNext, SetNextRun, Mishap, NoMishap
<1>11. ASSUME NEW o \in Operators, Delete(o) PROVE OneWriter'
  BY <1>11 DEF Delete, Call
<1>12. ASSUME NEW r \in RunIds, RunEnds(r) PROVE OneWriter'
  BY <1>12 DEF RunEnds
<1>13. ASSUME ClockMoves PROVE OneWriter'
  <2>1. /\ UNCHANGED <<sched, ticker, ops, mishaps, ticked, raced>>
        /\ seconds \in Nat /\ seconds' \in Nat /\ seconds' >= seconds
    <3>1. seconds \in Nat
      OBVIOUS
    <3> HIDE DEF RowTyped, ThreadsTyped, SchedulesInv
    <3>2. QED
      BY <1>13, <3>1 DEF ClockMoves
  <2>2. \A cron \in Crons, next \in Nat \union {None} :
            Planned(cron, next, seconds) => Planned(cron, next, seconds')
    BY <2>1, PlannedStays
  <2>3. \A o \in Writers : ops[o].cron \in Crons /\ ops[o].next \in Nat \union {None}
    OBVIOUS
  <2>4. QED
    BY <2>1, <2>2, <2>3
<1>14. ASSUME Restarts PROVE OneWriter'
  BY <1>14 DEF Restarts, Mishap
<1>15. CASE UNCHANGED schedulesVars
  BY <1>15 DEF schedulesVars
<1>16. QED
  BY <1>1, <1>2, <1>3, <1>4, <1>5, <1>6, <1>7, <1>8, <1>9, <1>10, <1>11, <1>12, <1>13, <1>14, <1>15 DEF SchedulesNext

LEMMA SchedulesStart == SchedulesInit => SchedulesInv
<1> SUFFICES ASSUME SchedulesInit PROVE SchedulesInv
  OBVIOUS
<1> DEFINE first(cron) == IF cron.kind = "lapsed" THEN 1 ELSE NextFire(cron, 0)
<1>1. PICK cron \in Crons : sched = [present |-> TRUE, enabled |-> TRUE, cron |-> cron,
                                    next |-> first(cron)]
  BY DEF SchedulesInit
<1>2. first(cron) \in Nat \union {None} /\ Planned(cron, first(cron), 0) /\ Later(cron, first(cron), 0)
  <2>2. CASE cron.kind = "lapsed"
    BY <2>2 DEF Planned, Later
  <2>3. CASE cron.kind # "lapsed"
    BY <2>3, NextFires
  <2>4. QED
    BY <2>2, <2>3
<1> HIDE DEF first
<1>3. RowTyped
  <2>1. sched \in [present : BOOLEAN, enabled : BOOLEAN, cron : Crons, next : Nat \union {None}]
    BY <1>1, <1>2
  <2>2. state \in [RunIds -> {"none", "running", "ended"}]
    BY DEF SchedulesInit
  <2>3. firings \subseteq [at : Times, run : RunIds]
    BY DEF SchedulesInit
  <2>4. /\ {seconds, ticked} \subseteq Times
        /\ asked \in 0 .. MaxAsked /\ mishaps \in 0 .. MaxMishaps
    BY Numbers DEF SchedulesInit
  <2>5. raced \in BOOLEAN /\ excused \in BOOLEAN
    BY Zenon DEF SchedulesInit
  <2>6. QED
    BY <2>1, <2>2, <2>3, <2>4, <2>5 DEF RowTyped
<1>4. ThreadsTyped /\ TickIsLatest
  BY DEF SchedulesInit, ThreadsTyped, TickIsLatest
<1>5. OneNewest
  BY CopiesAre DEF SchedulesInit, OneNewest, Running
<1>6. OneWriter
  BY <1>1, <1>2, CopiesAre DEF SchedulesInit, OneWriter, GoodRow, Writers
<1>7. QED
  BY <1>3, <1>4, <1>5, <1>6 DEF SchedulesInv

\* The invariant of the schedule holds in every state.
THEOREM SchedulesInvHolds == SchedulesSpec => []SchedulesInv
<1>1. SchedulesInv /\ [SchedulesNext]_schedulesVars => SchedulesInv'
  BY RowsStay, ThreadsStay, TickStays, NewestStays, WriterStays DEF SchedulesInv
<1>2. QED
  BY SchedulesStart, <1>1, PTL DEF SchedulesSpec

\* A schedule does not overlap itself, and when nobody writes its row, the run
\* that is planned is a fire time of the cron in the row, for any set of cron
\* expressions and any number of operators (overlapping, tickOne, Update).
THEOREM NoOverlap == SchedulesSpec => []SchedulesOK
<1>1. SchedulesInv => SchedulesTypeOK
  BY CopiesAre DEF SchedulesInv, RowTyped, ThreadsTyped, SchedulesTypeOK
<1>2. ASSUME SchedulesInv, sched.present, ~excused PROVE Cardinality(Running) <= 1
  <2>1. \E x : Running \subseteq {x}
    <3>1. CASE ticker.pc = "record"
      BY <1>2, <3>1 DEF SchedulesInv, OneNewest
    <3>2. CASE ticker.pc # "record" /\ Running # {}
      <4>1. PICK r \in Running : TRUE
        BY <3>2
      <4>2. \A x \in Running : x \in LastStarted
        BY <1>2, <3>2 DEF SchedulesInv, OneNewest
      <4>3. \A x \in LastStarted : x = r
        <5>1. PICK f \in firings : f.run = r /\ \A h \in firings : h.at <= f.at
          BY <4>1, <4>2 DEF LastStarted
        <5>2. SUFFICES ASSUME NEW g \in firings, \A h \in firings : h.at <= g.at PROVE g = f
          BY <5>1 DEF LastStarted
        <5>3. f.at \in Nat /\ g.at \in Nat
          <6>1. RowTyped
            BY <1>2 DEF SchedulesInv
          <6>2. \A h \in firings : h.at \in Nat
            BY <6>1, Numbers DEF RowTyped
          <6>3. QED
            BY <5>1, <5>2, <6>2
        <5>4. f.at = g.at
          BY <5>1, <5>2, <5>3
        <5>5. QED
          BY <1>2, <5>4 DEF SchedulesInv, OneNewest
      <4>4. QED
        BY <4>2, <4>3
    <3>3. QED
      BY <3>1, <3>2
  <2>2. PICK x : Running \subseteq {x}
    BY <2>1
  <2>3. IsFiniteSet({x}) /\ Cardinality({x}) = 1
    BY FS_Singleton
  <2>4. Running \in SUBSET {x}
    BY <2>2
  <2>5. /\ Cardinality(Running) <= Cardinality({x})
        /\ Cardinality(Running) \in Nat
    BY <2>3, <2>4, FS_Subset, FS_CardinalityType
  <2>6. QED
    BY <2>3, <2>5
<1>3. SchedulesInv => OneAtATime
  BY <1>2 DEF OneAtATime
<1>4. SchedulesInv => NextFollowsCron
  BY CopiesAre DEF SchedulesInv, OneWriter, GoodRow, Writers, NextFollowsCron
<1>5. QED
  BY SchedulesInvHolds, <1>1, <1>3, <1>4, PTL DEF SchedulesOK

\* However late a tick is, what its cron waits for has come since the tick
\* before: a date, or the interval of @every (Tick, Advance).  A cron that never
\* fires is not held back by this.
THEOREM FireTimesAreUsedOnce == SchedulesSpec => OncePerFireTime
<1> DEFINE Used == ticked' # ticked /\ ~raced' /\ mishaps = 0 => TimeToFire(sched.cron, seconds)
<1>1. ASSUME SchedulesInv, [SchedulesNext]_schedulesVars, ticked' # ticked, ~raced', mishaps = 0
      PROVE  TimeToFire(sched.cron, seconds)
  <2>1. Tick
    BY <1>1 DEF SchedulesNext, schedulesVars, tickOne, startAndRecord, finishFiring, Advance, RunNow,
       RunNowRecord, Update, UpdateRow, UpdateNext, Delete, RunEnds, ClockMoves, Restarts
  <2>2. /\ sched.present /\ sched.next # None /\ sched.next <= seconds /\ ticker = Resting
        /\ ~raced /\ Writers = {}
    BY <1>1, <2>1 DEF Tick, Due
  <2>3. Planned(sched.cron, sched.next, seconds) /\ Later(sched.cron, sched.next, ticked)
    BY <1>1, <2>2 DEF SchedulesInv, OneWriter, GoodRow, Writers
  <2>4. sched.next \in Nat /\ ticked \in Nat /\ seconds \in Nat /\ sched.cron \in Crons
    BY <1>1, <2>2, Numbers DEF SchedulesInv, RowTyped
  <2>5. CASE sched.cron.kind = "calendar"
    <3>1. sched.next \in ticked + 1 .. seconds /\ sched.next % sched.cron.n = 0
      BY <2>2, <2>3, <2>4, <2>5 DEF Planned, Later
    <3>2. QED
      BY <2>5, <3>1 DEF TimeToFire
  <2>6. CASE sched.cron.kind = "every"
    <3>1. sched.next >= ticked + sched.cron.n
      BY <2>3, <2>6 DEF Later
    <3>2. QED
      BY <2>2, <2>4, <2>6, <3>1, CronsAre DEF TimeToFire
  <2>7. CASE sched.cron.kind \in {"never", "lapsed"}
    BY <2>2, <2>3, <2>7 DEF TimeToFire, Later
  <2>8. QED
    BY <2>4, <2>5, <2>6, <2>7, CronsAre
<1>2. SchedulesInv /\ [SchedulesNext]_schedulesVars => [Used]_schedulesVars
  BY <1>1
<1>3. QED
  BY SchedulesInvHolds, <1>2, PTL DEF SchedulesSpec, OncePerFireTime

-----------------------------------------------------------------------------
(* The Codex process. *)

Events   == [type : Types, turn : Nat, ref : Int, sub : Subtypes]
Reports  == {"turn.completed", "turn.failed"}
Lines    == Items \cup Reports \cup {"thread.started"}
Active   == {"scan", "emit", "wait", "result", "last", "clear"}
Emitting == {"emit", "result", "last"}
Over     == {"clear", "close", "done"}
Printing == {"starting", "working"}
Closing  == {"grace", "kill", "await", "code", "exit", "channel"}
Turn     == [pc : Active \cup {"none", "close", "done"},
             child : {"none", "starting", "working", "reported", "failed", "exited"},
             code : Codes, held : BOOLEAN, items : 0 .. MaxItems, pipe : Seq(Lines),
             rest : Seq(Events), saw : BOOLEAN, resume : 0 .. Resumed]
Calls    == [op : {"idle", "send", "interrupt", "close"},
             pc : {"idle", "look", "wait", "stop"} \cup Closing, on : 0 .. MaxTurns, code : Codes]

\* Every variable has its type, the pipes and the channel their bounds.
Types0 ==
    /\ proc \in [closed : BOOLEAN, thread : 0 .. Resumed, cur : 0 .. MaxTurns, interrupted : BOOLEAN,
                 resultSent : BOOLEAN, lastExit : Codes]
    /\ events \in Seq(Events) /\ Len(events) <= Capacity /\ seen \in Seq(Events)
    /\ chan \in {"open", "closed"} /\ started \in 0 .. MaxTurns
    /\ turns \in [Turns -> Turn] /\ call \in [Callers -> Calls]
    /\ calls \in 0 .. MaxCalls /\ stops \subseteq Turns
    /\ \A n \in Turns : Len(turns[n].pipe) <= Pipe

\* The events that are out.
Heard == {seen[k] : k \in 1 .. Len(seen)} \cup {events[k] : k \in 1 .. Len(events)}

\* An event of turn n, out or about to go out.
EventFits(e, n) ==
    /\ e.turn = n /\ (e.sub = "interrupted" => n \in stops)
    /\ e.type = "init" => e.ref = proc.thread /\ e.ref # 0

\* The turn at work is the newest.
Serial ==
    /\ proc.cur # 0 => proc.cur = started
    /\ proc.interrupted /\ proc.cur # 0 => proc.cur \in stops
    /\ started = 0 => proc.lastExit = 0
    /\ \A c \in Callers : /\ call[c].on <= started
                          /\ call[c].pc \in {"wait", "stop", "grace", "kill", "await"} => call[c].on # 0

\* Where a turn is says how much of it is out: whether it has its result and
\* whether the process knows, and that its thread is the one of the process.
TurnOK(n) ==
    LET t == turns[n]
    IN  /\ t.pc = "none" <=> n > started
        /\ t.pc \in Active <=> proc.cur = n
        /\ t.pc \notin {"none", "scan", "emit"} => t.child = "exited"
        /\ \A k \in 1 .. Len(t.pipe) : t.pipe[k] \in Reports => k = Len(t.pipe) /\ t.child \notin Printing
        /\ t.saw => t.pipe = <<>> /\ t.child \notin Printing
        /\ t.pc \in {"none", "emit", "result", "last"} => Results(n) = 0
        /\ t.pc \in {"scan", "wait"} => Results(n) = IF t.saw THEN 1 ELSE 0
        /\ t.pc \in Over => Results(n) = 1
        /\ t.pc \in Emitting => /\ t.rest # <<>>
                                /\ \A k \in 1 .. Len(t.rest) : EventFits(t.rest[k], n) /\ t.rest[k].type # "exit"
        /\ t.pc = "emit" => \A k \in 1 .. Len(t.rest) : t.rest[k].type = "result" <=> t.saw
        /\ (t.pc = "emit" /\ t.saw) \/ t.pc \in {"result", "last"} =>
              Len(t.rest) = 1 /\ t.rest[1].type = "result"
        /\ proc.cur = n => /\ t.saw \/ t.pc \in {"last", "clear"} => proc.resultSent
                           /\ IF t.resume # 0 THEN proc.thread = t.resume ELSE proc.thread \in {0, n}
        /\ n = started /\ t.pc \in {"result", "last"} \cup Over => proc.lastExit = t.code
        /\ t.pc = "result" => ~t.saw

\* One caller closes, and when it is past the turn there is none any more.
CloseOK ==
    /\ \A c \in Callers : call[c].pc \in Closing =>
          /\ proc.closed /\ chan = "open" /\ \A d \in Callers : call[d].pc \in Closing => d = c
    /\ \A c \in Callers : call[c].pc \in {"grace", "kill", "await"} => proc.cur \in {0, call[c].on}
    /\ \A c \in Callers : call[c].pc \in {"code", "exit", "channel"} => proc.cur = 0
    /\ \A c \in Callers : call[c].pc = "exit" => call[c].code = proc.lastExit
    /\ chan = "closed" => proc.closed /\ proc.cur = 0

\* What is out fits, and nothing is behind an exit.
HeardOK ==
    /\ \A e \in Heard :
          /\ e.turn <= started /\ (e.sub = "interrupted" => e.turn \in stops)
          /\ e.type = "init" => e.ref = proc.thread /\ e.ref # 0
          /\ e.type = "exit" => /\ e.ref = proc.lastExit
                                /\ chan = "closed" \/ \E c \in Callers : call[c].pc = "channel"
    /\ \A k \in 1 .. Len(seen) : seen[k].type = "exit" => k = Len(seen) /\ events = <<>>
    /\ \A k \in 1 .. Len(events) : events[k].type = "exit" => k = Len(events)

Inv == Types0 /\ Serial /\ (\A n \in Turns : TurnOK(n)) /\ CloseOK /\ HeardOK

-----------------------------------------------------------------------------
(* Counting in queues. *)

LEMMA SentFinite ==
    ASSUME NEW q \in Seq(Events), NEW type, NEW n
    PROVE  /\ IsFiniteSet(Sent(q, type, n)) /\ Cardinality(Sent(q, type, n)) \in Nat
           /\ Cardinality(Sent(q, type, n)) = 0 <=> \A k \in 1 .. Len(q) : ~(q[k].type = type /\ q[k].turn = n)
<1>1. Len(q) \in Nat
  OBVIOUS
<1>2. IsFiniteSet(1 .. Len(q))
  BY <1>1, FS_Interval
<1>3. Sent(q, type, n) \in SUBSET (1 .. Len(q))
  BY DEF Sent
<1>4. IsFiniteSet(Sent(q, type, n))
  BY <1>2, <1>3, FS_Subset
<1>5. Cardinality(Sent(q, type, n)) = 0 <=> Sent(q, type, n) = {}
  BY <1>4, FS_EmptySet
<1>6. Sent(q, type, n) = {} <=> \A k \in 1 .. Len(q) : ~(q[k].type = type /\ q[k].turn = n)
  BY DEF Sent
<1>7. QED
  BY <1>4, <1>5, <1>6, FS_CardinalityType

\* An event more at the end.
LEMMA SentAppend ==
    ASSUME NEW q \in Seq(Events), NEW e \in Events, NEW type, NEW n
    PROVE  Cardinality(Sent(Append(q, e), type, n))
           = Cardinality(Sent(q, type, n)) + IF e.type = type /\ e.turn = n THEN 1 ELSE 0
<1> DEFINE r == Append(q, e)
           S == Sent(q, type, n)
           T == Sent(r, type, n)
<1>1. /\ Len(q) \in Nat /\ Len(r) = Len(q) + 1 /\ r[Len(q) + 1] = e
      /\ \A k \in 1 .. Len(q) : r[k] = q[k]
  OBVIOUS
<1>2. IsFiniteSet(S) /\ Cardinality(S) \in Nat
  BY SentFinite
<1>3. Len(q) + 1 \notin S
  BY <1>1 DEF Sent
<1>4. CASE e.type = type /\ e.turn = n
  <2>1. T = S \cup {Len(q) + 1}
    BY <1>1, <1>4 DEF Sent
  <2> HIDE DEF S, T
  <2>2. Cardinality(T) = Cardinality(S) + 1
    BY <1>2, <1>3, <2>1, FS_AddElement
  <2>3. QED
    BY <1>4, <2>2 DEF S, T
<1>5. CASE ~(e.type = type /\ e.turn = n)
  <2>1. T = S
    BY <1>1, <1>5 DEF Sent
  <2> HIDE DEF S, T
  <2>2. QED
    BY <1>2, <1>5, <2>1 DEF S, T
<1>6. QED
  BY <1>4, <1>5

\* An event less at the front.
LEMMA SentTail ==
    ASSUME NEW q \in Seq(Events), q # <<>>, NEW type, NEW n
    PROVE  Cardinality(Sent(q, type, n))
           = Cardinality(Sent(Tail(q), type, n)) + IF Head(q).type = type /\ Head(q).turn = n THEN 1 ELSE 0
<1> DEFINE S == Sent(Tail(q), type, n)
           U == {k \in 2 .. Len(q) : q[k].type = type /\ q[k].turn = n}
           T == Sent(q, type, n)
           f == [k \in S |-> k + 1]
<1>1. /\ Len(q) \in Nat \ {0} /\ Tail(q) \in Seq(Events) /\ Len(Tail(q)) = Len(q) - 1 /\ Head(q) = q[1]
      /\ \A k \in 1 .. Len(q) - 1 : Tail(q)[k] = q[k + 1]
  OBVIOUS
<1>2. IsFiniteSet(S) /\ Cardinality(S) \in Nat
  BY <1>1, SentFinite
<1>3. S \subseteq Nat /\ \A k \in S : k + 1 \in U
  BY <1>1 DEF Sent
<1>4. \A j \in U : j - 1 \in S /\ j \in Nat
  <2>1. ASSUME NEW j \in U PROVE j - 1 \in S /\ j \in Nat
    <3>1. j - 1 \in 1 .. Len(q) - 1 /\ j = (j - 1) + 1 /\ j \in Nat
      BY <1>1
    <3>2. Tail(q)[j - 1] = q[j]
      BY <1>1, <3>1
    <3>3. QED
      BY <1>1, <3>1, <3>2 DEF Sent
  <2>2. QED
    BY <2>1
<1>5. Cardinality(U) = Cardinality(S) /\ IsFiniteSet(U)
  <2> HIDE DEF S, U
  <2>1. f \in Injection(S, U)
    BY <1>3 DEF Injection, IsInjective
  <2>2. f \in Surjection(S, U)
    <3>1. \A j \in U : j - 1 \in S /\ f[j - 1] = j
      BY <1>3, <1>4
    <3>2. QED
      BY <1>3, <3>1 DEF Surjection
  <2>3. ExistsBijection(S, U)
    BY <2>1, <2>2 DEF ExistsBijection, Bijection
  <2>4. QED
    BY <1>2, <2>3, FS_Bijection
<1>6. CASE Head(q).type = type /\ Head(q).turn = n
  <2>1. T = U \cup {1} /\ 1 \notin U
    BY <1>1, <1>6 DEF Sent
  <2> HIDE DEF S, U, T
  <2>2. Cardinality(T) = Cardinality(U) + 1
    BY <1>5, <2>1, FS_AddElement
  <2>3. QED
    BY <1>2, <1>5, <1>6, <2>2 DEF S, T
<1>7. CASE ~(Head(q).type = type /\ Head(q).turn = n)
  <2>1. T = U
    BY <1>1, <1>7 DEF Sent
  <2> HIDE DEF S, U, T
  <2>2. QED
    BY <1>2, <1>5, <1>7, <2>1 DEF S, T
<1>8. QED
  BY <1>6, <1>7

-----------------------------------------------------------------------------
(* Lines and events. *)

Plain == {"text", "tool_use", "tool_result", "raw"}

LEMMA CodexNumbers ==
    /\ MaxTurns \in Nat /\ MaxItems \in Nat /\ MaxCalls \in Nat /\ Pipe \in Nat \ {0} /\ Capacity \in Nat \ {0}
    /\ Resumed = MaxTurns + 1 /\ Turns \subseteq Nat \ {0} /\ \A n \in Turns : n <= MaxTurns
    /\ \A n \in Nat \ {0} : n <= MaxTurns => n \in Turns
BY CodexAssumption DEF Turns, Resumed

LEMMA Appended ==
    ASSUME NEW S, NEW q \in Seq(S), NEW x \in S
    PROVE  /\ Append(q, x) \in Seq(S) /\ Len(Append(q, x)) = Len(q) + 1 /\ Len(q) \in Nat
           /\ Append(q, x)[Len(q) + 1] = x /\ \A k \in 1 .. Len(q) : Append(q, x)[k] = q[k]
OBVIOUS

LEMMA Tailed ==
    ASSUME NEW S, NEW q \in Seq(S), q # <<>>
    PROVE  /\ Tail(q) \in Seq(S) /\ Len(Tail(q)) = Len(q) - 1 /\ Len(q) \in Nat \ {0}
           /\ Head(q) = q[1] /\ q[1] \in S /\ \A k \in 1 .. Len(q) - 1 : Tail(q)[k] = q[k + 1]
OBVIOUS

LEMMA ItemsDecode ==
    ASSUME NEW line
    PROVE  decodeItem(line) \in Seq(Plain)
<1>0. "tool_use" \in Plain /\ "tool_result" \in Plain /\ "text" \in Plain /\ "raw" \in Plain
  BY DEF Plain
<1>1. CASE line = "command started"
  <2>1. decodeItem(line) = <<"tool_use">>
    BY <1>1 DEF decodeItem
  <2>2. QED
    BY <1>0, <2>1
<1>2. CASE line = "changes started"
  <2>1. decodeItem(line) = <<"tool_use", "tool_use">>
    BY <1>2 DEF decodeItem
  <2>2. QED
    BY <1>0, <2>1
<1>3. CASE line \in {"command completed", "changes completed"}
  <2>1. decodeItem(line) = <<"tool_result">>
    BY <1>3 DEF decodeItem
  <2>2. QED
    BY <1>0, <2>1
<1>4. CASE line = "message completed"
  <2>1. decodeItem(line) = <<"text">>
    BY <1>4 DEF decodeItem
  <2>2. QED
    BY <1>0, <2>1
<1>5. CASE line \in {"message started", "reasoning", "updated"}
  <2>1. decodeItem(line) = <<>>
    BY <1>5 DEF decodeItem
  <2>2. QED
    BY <1>0, <2>1
<1>6. CASE line \notin {"command started", "changes started", "command completed", "changes completed",
                       "message completed", "message started", "reasoning", "updated"}
  <2>1. decodeItem(line) = <<"raw">>
    BY <1>6 DEF decodeItem
  <2>2. QED
    BY <1>0, <2>1
<1>7. QED
  BY <1>1, <1>2, <1>3, <1>4, <1>5, <1>6

\* A line has events of its turn; one that reports has one event, the result.
LEMMA LinesDecode ==
    ASSUME NEW n \in Turns, turns[n] \in Turn, NEW line \in Lines
    PROVE  /\ DecodeLine(n, line) \in Seq(Events)
           /\ \A k \in 1 .. Len(DecodeLine(n, line)) :
                 LET e == DecodeLine(n, line)[k]
                 IN  /\ e.turn = n /\ e.sub # "interrupted" /\ e.type # "exit"
                     /\ e.type = "result" <=> line \in Reports
                     /\ e.type = "init" => /\ line = "thread.started"
                                           /\ e.ref = IF turns[n].resume # 0 THEN turns[n].resume ELSE n
           /\ line \in Reports \cup {"thread.started"} => Len(DecodeLine(n, line)) = 1
           /\ line = "thread.started" => DecodeLine(n, line)[1].type = "init"
<1> DEFINE d == DecodeLine(n, line)
           id == IF turns[n].resume # 0 THEN turns[n].resume ELSE n
           made == decodeItem(line)
<1>1. n \in Nat /\ id \in Nat
  BY CodexNumbers DEF Turn
<1>2. CASE line = "thread.started"
  <2> DEFINE e == [type |-> "init", turn |-> n, ref |-> id, sub |-> ""]
  <2>1. d = <<e>>
    BY <1>2 DEF DecodeLine, Event
  <2>2. e \in Events
    BY <1>1 DEF Events, Types, Subtypes
  <2>3. line \notin Reports
    BY <1>2 DEF Reports
  <2>4. e.type = "init" /\ e.turn = n /\ e.ref = id /\ e.sub = ""
    OBVIOUS
  <2> HIDE DEF d, e, id
  <2>5. d \in Seq(Events) /\ Len(d) = 1 /\ \A k \in 1 .. Len(d) : d[k] = e
    BY <2>1, <2>2
  <2>6. /\ \A k \in 1 .. Len(d) : /\ d[k].turn = n /\ d[k].sub = "" /\ d[k].type = "init"
                                  /\ d[k].ref = IF turns[n].resume # 0 THEN turns[n].resume ELSE n
        /\ d[1].type = "init"
    <3>1. e.ref = IF turns[n].resume # 0 THEN turns[n].resume ELSE n
      BY <2>4 DEF id
    <3>2. 1 \in 1 .. Len(d)
      BY <2>5
    <3>3. QED
      BY <2>4, <2>5, <3>1, <3>2
  <2>7. QED
    BY <1>2, <2>3, <2>5, <2>6 DEF d
<1>3. CASE line = "turn.completed"
  <2> DEFINE e == [type |-> "result", turn |-> n, ref |-> 0, sub |-> "success"]
  <2>1. d = <<e>>
    BY <1>3 DEF DecodeLine, Event
  <2>2. e \in Events
    BY <1>1 DEF Events, Types, Subtypes
  <2>3. line \in Reports /\ line # "thread.started"
    BY <1>3 DEF Reports
  <2>4. e.type = "result" /\ e.turn = n /\ e.ref = 0 /\ e.sub = "success"
    OBVIOUS
  <2> HIDE DEF d, e, id
  <2>5. d \in Seq(Events) /\ Len(d) = 1 /\ \A k \in 1 .. Len(d) : d[k] = e
    BY <2>1, <2>2
  <2>6. QED
    BY <1>3, <2>3, <2>4, <2>5 DEF d, id
<1>4. CASE line = "turn.failed"
  <2> DEFINE e == [type |-> "result", turn |-> n, ref |-> 0, sub |-> "error"]
  <2>1. d = <<e>>
    BY <1>4 DEF DecodeLine, Event
  <2>2. e \in Events
    BY <1>1 DEF Events, Types, Subtypes
  <2>3. line \in Reports /\ line # "thread.started"
    BY <1>4 DEF Reports
  <2>4. e.type = "result" /\ e.turn = n /\ e.ref = 0 /\ e.sub = "error"
    OBVIOUS
  <2> HIDE DEF d, e, id
  <2>5. d \in Seq(Events) /\ Len(d) = 1 /\ \A k \in 1 .. Len(d) : d[k] = e
    BY <2>1, <2>2
  <2>6. QED
    BY <1>4, <2>3, <2>4, <2>5 DEF d, id
<1>5. CASE line = "turn.started"
  <2>1. d = <<>> /\ line \notin Reports /\ line # "thread.started"
    BY <1>5 DEF DecodeLine, Reports
  <2>2. QED
    BY <2>1
<1>6. CASE line \notin {"thread.started", "turn.completed", "turn.failed", "turn.started"}
  <2>1. d = [k \in 1 .. Len(made) |-> Event(made[k], n, 0, "")]
    BY <1>6 DEF DecodeLine
  <2>2. made \in Seq(Plain) /\ line \notin Reports /\ line # "thread.started"
    BY <1>6, ItemsDecode DEF Reports
  <2> HIDE DEF made, d
  <2>3. Len(made) \in Nat /\ \A k \in 1 .. Len(made) : made[k] \in Plain
    BY <2>2
  <2>4. \A k \in 1 .. Len(made) :
           /\ Event(made[k], n, 0, "") \in Events
           /\ Event(made[k], n, 0, "").type \in Plain
           /\ Event(made[k], n, 0, "").turn = n /\ Event(made[k], n, 0, "").sub = ""
    BY <1>1, <2>3 DEF Event, Events, Types, Subtypes, Plain
  <2>5. d \in [1 .. Len(made) -> Events]
    BY <2>1, <2>4
  <2>6. d \in Seq(Events) /\ Len(d) = Len(made)
    BY <2>3, <2>5
  <2>7. \A k \in 1 .. Len(d) : d[k].type \in Plain /\ d[k].turn = n /\ d[k].sub = ""
    BY <2>1, <2>4, <2>6
  <2>8. \A k \in 1 .. Len(d) : d[k].type \notin {"init", "result", "exit"}
    BY <2>7 DEF Plain
  <2>9. QED
    BY <2>2, <2>6, <2>7, <2>8 DEF d
<1>7. QED
  BY <1>2, <1>3, <1>4, <1>5, <1>6

-----------------------------------------------------------------------------
(* The steps that change what is out. *)

LEMMA ResultsType ==
    ASSUME Types0, NEW n
    PROVE  Results(n) \in Nat
BY SentFinite DEF Types0, Results

\* An event goes out.
LEMMA GoesOut ==
    ASSUME Types0, NEW e \in Events, events' = Append(events, e), seen' = seen
    PROVE  /\ Heard' = Heard \cup {e}
           /\ \A n : Results(n)' = Results(n) + IF e.type = "result" /\ e.turn = n THEN 1 ELSE 0
           /\ events' \in Seq(Events) /\ Len(events') = Len(events) + 1 /\ Len(events) \in Nat
           /\ events'[Len(events) + 1] = e
           /\ \A k \in 1 .. Len(events) : events'[k] = events[k]
<1>1. /\ events' \in Seq(Events) /\ Len(events') = Len(events) + 1 /\ Len(events) \in Nat
      /\ events'[Len(events) + 1] = e /\ \A k \in 1 .. Len(events) : events'[k] = events[k]
  BY DEF Types0
<1>2. Heard' = Heard \cup {e}
  BY <1>1 DEF Heard
<1>3. ASSUME NEW n PROVE Results(n)' = Results(n) + IF e.type = "result" /\ e.turn = n THEN 1 ELSE 0
  <2>1. Cardinality(Sent(events', "result", n))
        = Cardinality(Sent(events, "result", n)) + IF e.type = "result" /\ e.turn = n THEN 1 ELSE 0
    BY SentAppend DEF Types0
  <2>2. Cardinality(Sent(events, "result", n)) \in Nat /\ Cardinality(Sent(seen, "result", n)) \in Nat
    BY SentFinite DEF Types0
  <2>3. QED
    BY <2>1, <2>2 DEF Results
<1>4. QED
  BY <1>1, <1>2, <1>3

\* The pump receives: what is out stays out, less text and tools.
LEMMA Received ==
    ASSUME Types0, Receive
    PROVE  /\ Heard' \subseteq Heard /\ \A n : Results(n)' = Results(n)
           /\ events' \in Seq(Events) /\ seen' \in Seq(Events) /\ Len(events') = Len(events) - 1
           /\ Len(events) \in Nat \ {0} /\ Len(seen) \in Nat
           /\ \A k \in 1 .. Len(events) - 1 : events'[k] = events[k + 1]
           /\ \/ seen' = seen /\ events[1].type # "exit"
              \/ /\ Len(seen') = Len(seen) + 1 /\ seen'[Len(seen) + 1] = events[1]
                 /\ \A k \in 1 .. Len(seen) : seen'[k] = seen[k]
<1> DEFINE e == Head(events)
<1>1. events \in Seq(Events) /\ seen \in Seq(Events) /\ events # <<>> /\ events' = Tail(events)
  BY DEF Types0, Receive
<1>2. /\ events' \in Seq(Events) /\ Len(events') = Len(events) - 1 /\ Len(events) \in Nat \ {0}
      /\ \A k \in 1 .. Len(events) - 1 : events'[k] = events[k + 1]
      /\ e = events[1] /\ e \in Events /\ Len(seen) \in Nat
  BY <1>1
<1>3. CASE e.type \in {"init", "result", "exit"}
  <2>1. seen' = Append(seen, e)
    BY <1>3 DEF Receive
  <2>2. /\ Len(seen') = Len(seen) + 1 /\ seen'[Len(seen) + 1] = e /\ seen' \in Seq(Events)
        /\ \A k \in 1 .. Len(seen) : seen'[k] = seen[k]
    BY <1>1, <1>2, <2>1
  <2>3. Heard' \subseteq Heard
    <3>1. \A k \in 1 .. Len(events') : k + 1 \in 1 .. Len(events) /\ events'[k] = events[k + 1]
      BY <1>2
    <3>2. \A k \in 1 .. Len(seen') : seen'[k] \in Heard
      BY <1>2, <2>2 DEF Heard
    <3>3. QED
      BY <3>1, <3>2 DEF Heard
  <2>4. ASSUME NEW n PROVE Results(n)' = Results(n)
    <3>1. Cardinality(Sent(seen', "result", n))
          = Cardinality(Sent(seen, "result", n)) + IF e.type = "result" /\ e.turn = n THEN 1 ELSE 0
      BY <1>1, <1>2, <2>1, SentAppend
    <3>2. Cardinality(Sent(events, "result", n))
          = Cardinality(Sent(events', "result", n)) + IF e.type = "result" /\ e.turn = n THEN 1 ELSE 0
      BY <1>1, SentTail
    <3>3. /\ Cardinality(Sent(seen, "result", n)) \in Nat /\ Cardinality(Sent(events, "result", n)) \in Nat
          /\ Cardinality(Sent(events', "result", n)) \in Nat
      BY <1>1, <1>2, SentFinite
    <3>4. QED
      BY <3>1, <3>2, <3>3 DEF Results
  <2>5. QED
    BY <1>2, <2>2, <2>3, <2>4
<1>4. CASE e.type \notin {"init", "result", "exit"}
  <2>1. seen' = seen
    BY <1>4 DEF Receive
  <2>2. Heard' \subseteq Heard
    <3>1. \A k \in 1 .. Len(events') : k + 1 \in 1 .. Len(events) /\ events'[k] = events[k + 1]
      BY <1>2
    <3>2. QED
      BY <2>1, <3>1 DEF Heard
  <2>3. ASSUME NEW n PROVE Results(n)' = Results(n)
    <3>1. Cardinality(Sent(events, "result", n)) = Cardinality(Sent(events', "result", n)) + 0
      BY <1>1, <1>4, SentTail
    <3>2. Cardinality(Sent(events', "result", n)) \in Nat
      BY <1>2, SentFinite
    <3>3. QED
      BY <2>1, <3>1, <3>2 DEF Results
  <2>4. QED
    BY <1>1, <1>2, <1>4, <2>1, <2>2, <2>3
<1>5. QED
  BY <1>3, <1>4

-----------------------------------------------------------------------------
(* What a step has to leave alone. *)

\* While a turn is at work, or the exit code is not out, no exit is heard.
LEMMA NoExitYet ==
    ASSUME Inv, proc.cur # 0 \/ \E c \in Callers : call[c].pc = "exit"
    PROVE  \A e \in Heard : e.type # "exit"
<1>1. SUFFICES ASSUME NEW e \in Heard, e.type = "exit" PROVE FALSE
  OBVIOUS
<1>2. chan = "closed" \/ \E c \in Callers : call[c].pc = "channel"
  BY <1>1 DEF Inv, HeardOK
<1>3. proc.cur = 0
  BY <1>2 DEF Inv, CloseOK
<1>4. PICK c \in Callers : call[c].pc = "exit"
  BY <1>3
<1>5. chan = "open" /\ \A d \in Callers : call[d].pc \in Closing => d = c
  BY <1>4 DEF Inv, CloseOK, Closing
<1>6. QED
  BY <1>2, <1>4, <1>5 DEF Closing

LEMMA NothingOut ==
    ASSUME events' = events, seen' = seen
    PROVE  Heard' = Heard /\ \A n : Results(n)' = Results(n)
BY DEF Heard, Results

LEMMA HeardStays ==
    ASSUME Inv, events' = events, seen' = seen, started' = started \/ started' = started + 1, stops \subseteq stops',
           proc'.thread = proc.thread \/ \A e \in Heard : e.type # "init",
           proc'.lastExit = proc.lastExit \/ \A e \in Heard : e.type # "exit",
           chan = "closed" => chan' = "closed",
           \A c \in Callers : call[c].pc = "channel" =>
                 chan' = "closed" \/ \E d \in Callers : call'[d].pc = "channel"
    PROVE  HeardOK'
<1>1. Heard' = Heard
  BY NothingOut
<1>2. \A e \in Heard : e.turn \in Nat
  <2>1. events \in Seq(Events) /\ seen \in Seq(Events)
    BY DEF Inv, Types0
  <2>2. Heard \subseteq Events
    BY <2>1 DEF Heard
  <2>3. QED
    BY <2>2 DEF Events
<1>3. started \in Nat
  BY CodexNumbers DEF Inv, Types0
<1>4. ASSUME NEW e \in Heard
      PROVE  /\ e.turn <= started' /\ (e.sub = "interrupted" => e.turn \in stops')
             /\ e.type = "init" => e.ref = proc'.thread /\ e.ref # 0
             /\ e.type = "exit" => /\ e.ref = proc'.lastExit
                                   /\ chan' = "closed" \/ \E c \in Callers : call'[c].pc = "channel"
  <2>1. /\ e.turn <= started /\ (e.sub = "interrupted" => e.turn \in stops)
        /\ e.type = "init" => e.ref = proc.thread /\ e.ref # 0
        /\ e.type = "exit" => /\ e.ref = proc.lastExit
                              /\ chan = "closed" \/ \E c \in Callers : call[c].pc = "channel"
    BY DEF Inv, HeardOK
  <2>2. e.turn <= started'
    BY <1>2, <1>3, <2>1
  <2>3. QED
    BY <2>1, <2>2
<1>5. QED
  BY <1>1, <1>4 DEF Inv, HeardOK

\* A turn that does nothing while others do.
LEMMA TurnStays ==
    ASSUME Inv, NEW n \in Turns, turns'[n] = turns[n], Results(n)' = Results(n), stops \subseteq stops',
           n > started <=> n > started',
           proc'.cur = n <=> proc.cur = n,
           proc.cur = n => /\ proc'.thread = proc.thread /\ (proc.resultSent => proc'.resultSent)
                           /\ proc'.lastExit = proc.lastExit /\ started' = started,
           n = started' => n = started /\ proc'.lastExit = proc.lastExit
    PROVE  TurnOK(n)'
<1>1. TurnOK(n)
  BY DEF Inv
<1>2. turns[n].pc \in Emitting => proc.cur = n
  BY <1>1 DEF TurnOK, Emitting, Active
<1>3. turns[n].pc \in Emitting => \A k \in 1 .. Len(turns[n].rest) : EventFits(turns[n].rest[k], n)'
  BY <1>1, <1>2 DEF TurnOK, EventFits
<1>4. QED
  BY <1>1, <1>3 DEF TurnOK

\* The steps that no caller in Close takes.
LEMMA CloseStays ==
    ASSUME Inv, proc'.closed = proc.closed, chan' = chan,
           \A c \in Callers : call'[c].pc \in Closing => call'[c] = call[c],
           proc'.cur \in {0, proc.cur} \/ ~proc.closed,
           proc'.lastExit = proc.lastExit \/ proc.cur # 0
    PROVE  CloseOK'
<1>1. CloseOK
  BY DEF Inv
<1>2. \A c \in Callers : call'[c].pc \in Closing => call[c].pc \in Closing /\ proc.closed
  BY <1>1 DEF CloseOK
<1>3. /\ \A c \in Callers : call'[c].pc \in Closing =>
            /\ proc'.closed /\ chan' = "open" /\ \A d \in Callers : call'[d].pc \in Closing => d = c
  BY <1>1, <1>2 DEF CloseOK
<1>4. \A c \in Callers : call'[c].pc \in {"grace", "kill", "await"} => proc'.cur \in {0, call'[c].on}
  BY <1>1, <1>2 DEF CloseOK, Closing
<1>5. \A c \in Callers : call'[c].pc \in {"code", "exit", "channel"} => proc'.cur = 0
  BY <1>1, <1>2 DEF CloseOK, Closing
<1>6. \A c \in Callers : call'[c].pc = "exit" => call'[c].code = proc'.lastExit
  BY <1>1, <1>2 DEF CloseOK, Closing
<1>7. chan' = "closed" => proc'.closed /\ proc'.cur = 0
  BY <1>1 DEF CloseOK
<1>8. QED
  BY <1>3, <1>4, <1>5, <1>6, <1>7 DEF CloseOK

-----------------------------------------------------------------------------
(* Callers. *)

LEMMA CallTypes ==
    ASSUME Types0, NEW c \in Callers, NEW r \in Calls, call' = [call EXCEPT ![c] = r]
    PROVE  call' \in [Callers -> Calls] /\ call'[c] = r /\ \A d \in Callers : d # c => call'[d] = call[d]
BY DEF Types0

\* A step of a caller outside of Close that only concerns the caller.
LEMMA CallerMoves ==
    ASSUME Inv, NEW c \in Callers, NEW r \in Calls, call' = [call EXCEPT ![c] = r],
           r.pc \notin Closing, call[c].pc \notin Closing,
           r.on <= started, r.pc \in {"wait", "stop"} => r.on # 0,
           calls' \in 0 .. MaxCalls,
           UNCHANGED <<proc, events, chan, turns, started, seen, stops>>
    PROVE  Inv'
<1>1. call' \in [Callers -> Calls] /\ call'[c] = r /\ \A d \in Callers : d # c => call'[d] = call[d]
  BY CallTypes DEF Inv
<1>2. Types0'
  BY <1>1 DEF Inv, Types0
<1>3. Serial'
  BY <1>1 DEF Inv, Serial, Closing
<1>4. Heard' = Heard /\ \A n : Results(n)' = Results(n)
  BY NothingOut
<1>5. \A n \in Turns : TurnOK(n)'
  BY <1>4, TurnStays
<1>6. \A d \in Callers : call'[d].pc \in Closing => call'[d] = call[d]
  BY <1>1
<1>7. CloseOK'
  BY <1>6, CloseStays
<1>8. \A d \in Callers : call[d].pc = "channel" => call'[d].pc = "channel"
  BY <1>1 DEF Closing
<1>9. HeardOK'
  BY <1>8, HeardStays
<1>10. QED
  BY <1>2, <1>3, <1>5, <1>7, <1>9 DEF Inv

LEMMA IdleCall == Idle \in Calls /\ Idle.pc = "idle" /\ Idle.on = 0
BY CodexNumbers DEF Idle, Calls, Codes

LEMMA SendKeeps ==
    ASSUME Inv, NEW c \in Callers, Send(c)
    PROVE  Inv'
<1> DEFINE r == [Idle EXCEPT !.op = "send", !.pc = "look"]
<1>1. call' = [call EXCEPT ![c] = r] /\ call[c] = Idle /\ calls < MaxCalls /\ calls' = calls + 1
  BY DEF Send, Begins
<1>2. r \in Calls /\ r.pc = "look" /\ r.on = 0
  <2>1. \A i \in Calls : /\ [i EXCEPT !.op = "send", !.pc = "look"] \in Calls
                          /\ [i EXCEPT !.op = "send", !.pc = "look"].pc = "look"
                          /\ [i EXCEPT !.op = "send", !.pc = "look"].on = i.on
    BY DEF Calls
  <2>2. QED
    BY <2>1, IdleCall
<1>3. calls' \in 0 .. MaxCalls /\ started \in Nat
  BY <1>1, CodexNumbers DEF Inv, Types0
<1> HIDE DEF r
<1>4. r.pc \notin Closing /\ call[c].pc \notin Closing /\ r.on <= started
  BY <1>1, <1>2, <1>3, IdleCall DEF Closing
<1>5. QED
  BY <1>1, <1>2, <1>3, <1>4, CallerMoves DEF Send

LEMMA SendWaitKeeps ==
    ASSUME Inv, NEW c \in Callers, SendWait(c)
    PROVE  Inv'
<1>1. /\ call[c].pc = "wait" /\ call[c] \in Calls /\ call[c].on <= started /\ call[c].on # 0
      /\ started \in Nat /\ calls \in 0 .. MaxCalls
  BY CodexNumbers DEF SendWait, At, Inv, Types0, Serial
<1>2. UNCHANGED <<proc, events, chan, turns, started, seen, stops>> /\ calls' = calls
  BY DEF SendWait, memory
<1>3. CASE Goes(c, "look")
  <2> DEFINE r == [call[c] EXCEPT !.pc = "look"]
  <2>1. call' = [call EXCEPT ![c] = r]
    BY <1>3 DEF Goes
  <2>2. r \in Calls /\ r.pc = "look" /\ r.on = call[c].on
    BY <1>1 DEF Calls
  <2> HIDE DEF r
  <2>3. QED
    BY <1>1, <1>2, <2>1, <2>2, CallerMoves DEF Closing
<1>4. CASE Returns(c)
  <2>1. call' = [call EXCEPT ![c] = Idle]
    BY <1>4 DEF Returns
  <2>2. /\ Idle \in Calls /\ Idle.pc \notin Closing /\ Idle.on <= started
        /\ Idle.pc \notin {"wait", "stop"} /\ call[c].pc \notin Closing /\ calls' \in 0 .. MaxCalls
    BY <1>1, <1>2, IdleCall DEF Closing
  <2>3. QED
    BY <1>2, <2>1, <2>2, CallerMoves
<1>5. QED
  BY <1>3, <1>4 DEF SendWait

-----------------------------------------------------------------------------
(* Turns. *)

Process == [closed : BOOLEAN, thread : 0 .. Resumed, cur : 0 .. MaxTurns, interrupted : BOOLEAN,
            resultSent : BOOLEAN, lastExit : Codes]

LEMMA TurnTypes ==
    ASSUME Types0, NEW n \in Turns, NEW t \in Turn, Len(t.pipe) <= Pipe, turns' = [turns EXCEPT ![n] = t]
    PROVE  /\ turns' \in [Turns -> Turn] /\ turns'[n] = t
           /\ \A m \in Turns : m # n => turns'[m] = turns[m]
           /\ \A m \in Turns : Len(turns'[m].pipe) <= Pipe
BY DEF Types0

\* The turns beside the one at work.
LEMMA OthersStay ==
    ASSUME Inv, NEW n \in Turns, \A m \in Turns : m # n => turns'[m] = turns[m],
           \A m \in Turns : m # n => Results(m)' = Results(m),
           stops \subseteq stops', started' = started,
           proc' = proc \/ (proc.cur = n /\ proc'.cur \in {0, n})
    PROVE  \A m \in Turns : m # n => TurnOK(m)'
<1>1. SUFFICES ASSUME NEW m \in Turns, m # n PROVE TurnOK(m)'
  OBVIOUS
<1>2. m # 0 /\ (proc.cur = n => n = started)
  BY CodexNumbers DEF Inv, Serial
<1>3. CASE proc' = proc
  BY <1>1, <1>3, TurnStays
<1>4. CASE proc.cur = n /\ proc'.cur \in {0, n}
  BY <1>1, <1>2, <1>4, TurnStays
<1>5. QED
  BY <1>3, <1>4

\* A step of a turn that lets nothing out.
LEMMA TurnMoves ==
    ASSUME Inv, NEW n \in Turns, NEW t \in Turn, Len(t.pipe) <= Pipe, turns' = [turns EXCEPT ![n] = t],
           UNCHANGED <<call, chan, started, calls, stops, events, seen>>,
           proc' \in Process, proc'.closed = proc.closed, proc'.interrupted = proc.interrupted,
           proc' = proc \/ proc.cur = n, proc'.cur \in {0, proc.cur},
           proc'.thread = proc.thread \/ \A e \in Heard : e.type # "init",
           TurnOK(n)'
    PROVE  Inv'
<1>1. /\ turns' \in [Turns -> Turn] /\ turns'[n] = t /\ \A m \in Turns : m # n => turns'[m] = turns[m]
      /\ \A m \in Turns : Len(turns'[m].pipe) <= Pipe
  BY TurnTypes DEF Inv
<1>2. Types0'
  BY <1>1 DEF Inv, Types0, Process
<1>3. n \in Nat /\ n # 0
  BY CodexNumbers
<1>4. proc.cur = n => started = n /\ started # 0
  BY <1>3 DEF Inv, Serial
<1>5. Serial'
  BY <1>3, <1>4 DEF Inv, Serial
<1>6. Heard' = Heard /\ \A m : Results(m)' = Results(m)
  BY NothingOut
<1>7. \A m \in Turns : m # n => TurnOK(m)'
  BY <1>1, <1>6, OthersStay
<1>8. \A m \in Turns : TurnOK(m)'
  BY <1>7
<1>9. CloseOK'
  BY <1>3, CloseStays
<1>10. HeardOK'
  <2>1. proc'.lastExit = proc.lastExit \/ \A e \in Heard : e.type # "exit"
    BY <1>3, NoExitYet
  <2>2. QED
    BY <2>1, HeardStays
<1>11. QED
  BY <1>2, <1>5, <1>8, <1>9, <1>10 DEF Inv

\* A turn is started.
LEMMA NewTurn ==
    ASSUME NEW thread \in 0 .. Resumed
    PROVE  LET t == [NoTurn EXCEPT !.pc = "scan", !.child = "starting", !.resume = thread]
           IN  /\ t \in Turn /\ t.pc = "scan" /\ t.child = "starting" /\ t.resume = thread
               /\ t.pipe = <<>> /\ t.saw = FALSE
<1>1. NoTurn \in Turn /\ NoTurn.pipe = <<>> /\ NoTurn.saw = FALSE
  BY CodexNumbers DEF NoTurn, Turn, Codes, Active
<1>2. \A t \in Turn : LET u == [t EXCEPT !.pc = "scan", !.child = "starting", !.resume = thread]
                      IN  /\ u \in Turn /\ u.pc = "scan" /\ u.child = "starting" /\ u.resume = thread
                          /\ u.pipe = t.pipe /\ u.saw = t.saw
  BY DEF Turn, Active
<1>3. QED
  BY <1>1, <1>2

LEMMA StartKeeps ==
    ASSUME Inv, NEW c \in Callers, SendLook(c), ~proc.closed, proc.cur = 0, started < MaxTurns,
           StartTurn(started + 1), Returns(c)
    PROVE  Inv'
<1>0. PICK n \in Turns : n = started + 1
  BY CodexNumbers DEF Inv, Types0
<1>01. PICK th \in 0 .. Resumed : th = proc.thread
  BY DEF Inv, Types0
<1> DEFINE t == [NoTurn EXCEPT !.pc = "scan", !.child = "starting", !.resume = th]
<1>1. /\ turns' = [turns EXCEPT ![n] = t] /\ started' = n /\ call' = [call EXCEPT ![c] = Idle]
      /\ proc' = [proc EXCEPT !.cur = n, !.interrupted = FALSE, !.resultSent = FALSE]
      /\ UNCHANGED <<events, chan, calls, seen, stops>> /\ call[c].pc = "look"
  BY <1>0, <1>01 DEF StartTurn, Returns, SendLook, At
<1>2. /\ proc \in Process /\ started \in Nat /\ n \in Turns /\ n \in 0 .. MaxTurns /\ n # 0
  BY <1>0, CodexNumbers DEF Inv, Types0, Process
<1>3. /\ t \in Turn /\ t.pc = "scan" /\ t.child = "starting" /\ t.resume = th
      /\ t.pipe = <<>> /\ t.saw = FALSE
  BY NewTurn
<1> HIDE DEF t
<1>4. /\ proc' \in Process /\ proc'.closed = proc.closed /\ proc'.thread = proc.thread
      /\ proc'.cur = n /\ proc'.interrupted = FALSE /\ proc'.lastExit = proc.lastExit
  <2>1. \A q \in Process, m \in 0 .. MaxTurns :
           LET u == [q EXCEPT !.cur = m, !.interrupted = FALSE, !.resultSent = FALSE]
           IN  /\ u \in Process /\ u.closed = q.closed /\ u.thread = q.thread
               /\ u.cur = m /\ u.interrupted = FALSE /\ u.lastExit = q.lastExit
    BY DEF Process
  <2>2. QED
    BY <1>1, <1>2, <2>1
<1>5. call' \in [Callers -> Calls] /\ call'[c] = Idle /\ \A d \in Callers : d # c => call'[d] = call[d]
  BY <1>1, IdleCall, CallTypes DEF Inv
<1>6. Len(t.pipe) <= Pipe
  BY <1>3, CodexNumbers
<1>7. /\ turns' \in [Turns -> Turn] /\ turns'[n] = t /\ \A m \in Turns : m # n => turns'[m] = turns[m]
      /\ \A m \in Turns : Len(turns'[m].pipe) <= Pipe
  BY <1>1, <1>2, <1>3, <1>6, TurnTypes DEF Inv
<1>8. Types0'
  BY <1>1, <1>2, <1>4, <1>5, <1>7 DEF Inv, Types0, Process
<1>9. started < n
  BY <1>0, <1>2
<1>10. \A d \in Callers : call[d] \in Calls
  BY DEF Inv, Types0
<1>11. Serial'
  <2>1. \A d \in Callers : call'[d].on <= started
    BY <1>2, <1>5, IdleCall DEF Inv, Serial
  <2>2. \A d \in Callers : call'[d].on \in Int
    BY <1>5, CodexNumbers DEF Calls
  <2>3. \A d \in Callers : call'[d].on <= n
    BY <1>2, <1>9, <2>1, <2>2, CodexNumbers
  <2>4. \A d \in Callers : call'[d].pc \in {"wait", "stop", "grace", "kill", "await"} => call'[d].on # 0
    BY <1>5, IdleCall DEF Inv, Serial
  <2>5. QED
    BY <1>1, <1>2, <1>4, <2>3, <2>4 DEF Serial
<1>12. Heard' = Heard /\ \A m : Results(m)' = Results(m)
  BY <1>1, NothingOut
<1>13. TurnOK(n)'
  <2>1. Results(n)' = 0
    BY <1>2, <1>9, <1>12 DEF Inv, TurnOK
  <2>2. ~(n > n)
    BY <1>2
  <2>3. QED
    BY <1>01, <1>1, <1>2, <1>3, <1>4, <1>7, <2>1, <2>2 DEF TurnOK, Active, Emitting, Over
<1>14. ASSUME NEW m \in Turns, m # n PROVE TurnOK(m)'
  <2>1. m > started <=> m > n
    BY <1>0, <1>2, <1>14, CodexNumbers
  <2>2. m # 0
    BY CodexNumbers
  <2>3. QED
    BY <1>1, <1>4, <1>7, <1>12, <1>14, <2>1, <2>2, TurnStays
<1>15. \A d \in Callers : call'[d].pc \in Closing => call'[d] = call[d]
  BY <1>5, IdleCall DEF Closing
<1>16. CloseOK'
  BY <1>1, <1>4, <1>15, CloseStays
<1>17. \A d \in Callers : call[d].pc = "channel" => call'[d].pc = "channel"
  BY <1>1, <1>5
<1>18. started' = started + 1
  BY <1>0, <1>1
<1>19. HeardOK'
  BY <1>1, <1>4, <1>17, <1>18, HeardStays
<1>20. QED
  BY <1>8, <1>11, <1>13, <1>14, <1>16, <1>19 DEF Inv

LEMMA SendLookKeeps ==
    ASSUME Inv, NEW c \in Callers, SendLook(c)
    PROVE  Inv'
<1>1. /\ call[c].pc = "look" /\ call[c] \in Calls /\ started \in Nat /\ calls \in 0 .. MaxCalls
      /\ UNCHANGED <<events, chan, calls, seen, stops>>
      /\ proc.cur \in 0 .. MaxTurns /\ proc.cur <= started
  BY CodexNumbers DEF SendLook, At, Inv, Types0, Serial
<1>2. CASE Returns(c) /\ UNCHANGED <<proc, turns, started>>
  <2>1. call' = [call EXCEPT ![c] = Idle]
    BY <1>2 DEF Returns
  <2>2. /\ Idle \in Calls /\ Idle.pc \notin Closing /\ Idle.on <= started
        /\ Idle.pc \notin {"wait", "stop"} /\ call[c].pc \notin Closing /\ calls' \in 0 .. MaxCalls
    BY <1>1, IdleCall DEF Closing
  <2>3. QED
    BY <1>1, <1>2, <2>1, <2>2, CallerMoves
<1>3. CASE ~proc.closed /\ proc.cur = 0 /\ started < MaxTurns /\ StartTurn(started + 1) /\ Returns(c)
  BY <1>3, StartKeeps
<1>4. CASE /\ proc.cur # 0 /\ call' = [call EXCEPT ![c].pc = "wait", ![c].on = proc.cur]
           /\ UNCHANGED <<proc, turns, started>>
  <2> DEFINE r == [call[c] EXCEPT !.pc = "wait", !.on = proc.cur]
  <2>1. call' = [call EXCEPT ![c] = r]
    BY <1>4
  <2>2. r \in Calls /\ r.pc = "wait" /\ r.on = proc.cur
    <3>1. \A i \in Calls, m \in 0 .. MaxTurns : LET u == [i EXCEPT !.pc = "wait", !.on = m]
                                                 IN  u \in Calls /\ u.pc = "wait" /\ u.on = m
      BY DEF Calls
    <3>2. QED
      BY <1>1, <3>1
  <2> HIDE DEF r
  <2>3. /\ r.pc \notin Closing /\ call[c].pc \notin Closing /\ r.on <= started /\ r.on # 0
        /\ calls' \in 0 .. MaxCalls
    BY <1>1, <1>4, <2>2 DEF Closing
  <2>4. QED
    BY <1>1, <1>4, <2>1, <2>2, <2>3, CallerMoves
<1>5. QED
  BY <1>2, <1>3, <1>4 DEF SendLook

\* A kill, whoever asks for it.
LEMMA KillTurns ==
    ASSUME Inv, NEW n \in Turns, n <= started, Kill(n),
           UNCHANGED <<proc, events, chan, started, seen, stops>>
    PROVE  /\ turns' \in [Turns -> Turn] /\ \A m \in Turns : Len(turns'[m].pipe) <= Pipe
           /\ \A m \in Turns : TurnOK(m)'
<1>1. Heard' = Heard /\ \A m : Results(m)' = Results(m)
  BY NothingOut
<1>2. turns[n] \in Turn /\ Len(turns[n].pipe) <= Pipe /\ started \in Nat
  BY CodexNumbers DEF Inv, Types0
<1>3. CASE turns[n].child = "exited"
  <2>1. turns' = turns
    BY <1>2, <1>3 DEF Kill, Inv, Types0
  <2>2. \A m \in Turns : TurnOK(m)'
    BY <1>1, <2>1, TurnStays
  <2>3. QED
    BY <2>1, <2>2 DEF Inv, Types0
<1>4. CASE turns[n].child # "exited"
  <2>1. PICK h \in BOOLEAN : turns' = [turns EXCEPT ![n] = [turns[n] EXCEPT !.child = "exited", !.code = -1, !.held = h]]
    BY <1>4 DEF Kill
  <2>2. \A t \in Turn : LET u == [t EXCEPT !.child = "exited", !.code = -1, !.held = h]
                        IN  /\ u \in Turn /\ u.child = "exited" /\ u.pc = t.pc /\ u.pipe = t.pipe
                            /\ u.rest = t.rest /\ u.saw = t.saw /\ u.resume = t.resume
    BY DEF Turn, Codes
  <2>3. PICK u \in Turn : /\ turns' = [turns EXCEPT ![n] = u]
                          /\ u.child = "exited" /\ u.pc = turns[n].pc /\ u.pipe = turns[n].pipe
                          /\ u.rest = turns[n].rest /\ u.saw = turns[n].saw /\ u.resume = turns[n].resume
    BY <1>2, <2>1, <2>2
  <2>4. /\ turns' \in [Turns -> Turn] /\ turns'[n] = u /\ \A m \in Turns : m # n => turns'[m] = turns[m]
        /\ \A m \in Turns : Len(turns'[m].pipe) <= Pipe
    BY <1>2, <2>3, TurnTypes DEF Inv
  <2>5. turns[n].pc \in {"scan", "emit"}
    BY <1>2, <1>4, CodexNumbers DEF Inv, TurnOK
  <2>6. TurnOK(n)
    BY DEF Inv
  <2>7. \A e : EventFits(e, n)' <=> EventFits(e, n)
    BY DEF EventFits
  <2>8. TurnOK(n)'
    BY <1>1, <2>3, <2>4, <2>5, <2>6, <2>7 DEF TurnOK, Printing, Over
  <2>9. QED
    BY <1>1, <2>4, <2>8, OthersStay
<1>5. QED
  BY <1>3, <1>4

LEMMA InterruptKillKeeps ==
    ASSUME Inv, NEW c \in Callers, InterruptKill(c)
    PROVE  Inv'
<1>1. PICK n \in Nat : n = call[c].on
  BY CodexNumbers DEF Inv, Types0, Calls
<1>2. /\ call[c].pc = "stop" /\ n \in Turns /\ n <= started /\ Kill(n) /\ call' = [call EXCEPT ![c] = Idle]
      /\ UNCHANGED <<proc, events, chan, started, calls, seen, stops>> /\ started \in Nat
  BY <1>1, CodexNumbers DEF InterruptKill, At, Returns, memory, Inv, Serial, Types0
<1>3. /\ turns' \in [Turns -> Turn] /\ \A m \in Turns : Len(turns'[m].pipe) <= Pipe
      /\ \A m \in Turns : TurnOK(m)'
  BY <1>2, KillTurns
<1>4. call' \in [Callers -> Calls] /\ call'[c] = Idle /\ \A d \in Callers : d # c => call'[d] = call[d]
  BY <1>2, IdleCall, CallTypes DEF Inv
<1>5. Types0'
  BY <1>2, <1>3, <1>4 DEF Inv, Types0
<1>6. Serial'
  BY <1>2, <1>4, IdleCall DEF Inv, Serial
<1>7. \A d \in Callers : call'[d].pc \in Closing => call'[d] = call[d]
  BY <1>4, IdleCall DEF Closing
<1>8. CloseOK'
  BY <1>2, <1>7, CloseStays
<1>9. \A d \in Callers : call[d].pc = "channel" => call'[d].pc = "channel"
  BY <1>2, <1>4
<1>10. HeardOK'
  BY <1>2, <1>9, HeardStays
<1>11. QED
  BY <1>3, <1>5, <1>6, <1>8, <1>10 DEF Inv

LEMMA InterruptKeeps ==
    ASSUME Inv, NEW c \in Callers, Interrupt(c)
    PROVE  Inv'
<1>1. /\ call[c] = Idle /\ calls' \in 0 .. MaxCalls /\ UNCHANGED <<events, chan, turns, started, seen>>
      /\ started \in Nat /\ proc \in Process /\ proc.cur <= started /\ stops \subseteq Turns
  BY CodexNumbers DEF Interrupt, Begins, Inv, Types0, Serial, Process
<1>2. Heard' = Heard /\ \A m : Results(m)' = Results(m)
  BY <1>1, NothingOut
<1>3. CASE proc.cur = 0 \/ proc.resultSent
  <2>1. UNCHANGED <<proc, call, stops>>
    BY <1>3 DEF Interrupt
  <2>2. Types0' /\ Serial'
    BY <1>1, <2>1 DEF Inv, Types0, Serial
  <2>3. \A m \in Turns : TurnOK(m)'
    BY <1>1, <1>2, <2>1, TurnStays
  <2>4. CloseOK'
    BY <1>1, <2>1, CloseStays
  <2>5. HeardOK'
    BY <1>1, <2>1, HeardStays
  <2>6. QED
    BY <2>2, <2>3, <2>4, <2>5 DEF Inv
<1>4. CASE proc.cur # 0 /\ ~proc.resultSent
  <2>1. /\ proc' = [proc EXCEPT !.interrupted = TRUE] /\ stops' = stops \cup {proc.cur}
        /\ call' = [call EXCEPT ![c] = [Idle EXCEPT !.op = "interrupt", !.pc = "stop", !.on = proc.cur]]
    BY <1>4 DEF Interrupt
  <2>2. \A q \in Process : LET u == [q EXCEPT !.interrupted = TRUE]
                           IN  /\ u \in Process /\ u.closed = q.closed /\ u.thread = q.thread /\ u.cur = q.cur
                               /\ u.resultSent = q.resultSent /\ u.lastExit = q.lastExit
    BY DEF Process
  <2>3. /\ proc' \in Process /\ proc'.closed = proc.closed /\ proc'.thread = proc.thread /\ proc'.cur = proc.cur
        /\ proc'.resultSent = proc.resultSent /\ proc'.lastExit = proc.lastExit
    BY <1>1, <2>1, <2>2
  <2>4. \A i \in Calls, m \in 0 .. MaxTurns :
           LET u == [i EXCEPT !.op = "interrupt", !.pc = "stop", !.on = m]
           IN  u \in Calls /\ u.pc = "stop" /\ u.on = m
    BY DEF Calls
  <2>5. PICK r \in Calls : call' = [call EXCEPT ![c] = r] /\ r.pc = "stop" /\ r.on = proc.cur
    <3> DEFINE u == [Idle EXCEPT !.op = "interrupt", !.pc = "stop", !.on = proc.cur]
    <3>1. Idle \in Calls /\ proc.cur \in 0 .. MaxTurns
      BY <1>1, IdleCall DEF Process
    <3>2. u \in Calls /\ u.pc = "stop" /\ u.on = proc.cur
      BY <2>4, <3>1
    <3> HIDE DEF u
    <3>3. call' = [call EXCEPT ![c] = u]
      BY <2>1 DEF u
    <3>4. QED
      BY <3>2, <3>3
  <2>6. call' \in [Callers -> Calls] /\ call'[c] = r /\ \A d \in Callers : d # c => call'[d] = call[d]
    BY <2>5, CallTypes DEF Inv
  <2>7. proc.cur \in Turns
    BY <1>1, <1>4, CodexNumbers DEF Process
  <2>8. Types0'
    BY <1>1, <2>1, <2>3, <2>6, <2>7 DEF Inv, Types0, Process
  <2>9. Serial'
    BY <1>1, <1>4, <2>1, <2>3, <2>5, <2>6 DEF Inv, Serial
  <2>10. \A m \in Turns : TurnOK(m)'
    BY <1>1, <1>2, <2>1, <2>3, TurnStays
  <2>11. \A d \in Callers : call'[d].pc \in Closing => call'[d] = call[d]
    BY <2>5, <2>6 DEF Closing
  <2>12. CloseOK'
    BY <1>1, <2>3, <2>11, CloseStays
  <2>13. \A d \in Callers : call[d].pc = "channel" => call'[d].pc = "channel"
    BY <1>1, <2>6, IdleCall
  <2>14. HeardOK'
    BY <1>1, <2>1, <2>3, <2>13, HeardStays
  <2>15. QED
    BY <2>8, <2>9, <2>10, <2>12, <2>14 DEF Inv
<1>5. QED
  BY <1>1, <1>3, <1>4 DEF Process

\* A child prints a line.
LEMMA PrintsKeeps ==
    ASSUME Inv, NEW n \in Turns, NEW line \in Lines, NEW child \in {"working", "reported", "failed"},
           turns[n].child \in Printing, line \in Reports => child \notin Printing,
           line \in Items => turns[n].items < MaxItems, Prints(n, line, child),
           UNCHANGED <<proc, events, call, seen, memory>>
    PROVE  Inv'
<1> DEFINE old == turns[n]
<1>1. /\ old \in Turn /\ TurnOK(n) /\ Len(old.pipe) \in Nat /\ old.pipe \in Seq(Lines)
      /\ Len(old.pipe) < Pipe /\ old.items \in 0 .. MaxItems
  BY DEF Inv, Types0, Turn, Prints
<1>2. UNCHANGED <<call, chan, started, calls, stops, events, seen>>
  BY DEF memory
<1>3. PICK more \in 0 .. MaxItems :
         turns' = [turns EXCEPT ![n] = [turns[n] EXCEPT !.pipe = Append(turns[n].pipe, line), !.child = child, !.items = more]]
  <2>1. (IF line \in Items THEN old.items + 1 ELSE old.items) \in 0 .. MaxItems
    BY <1>1, CodexNumbers
  <2>2. turns' = [turns EXCEPT ![n] = [turns[n] EXCEPT !.pipe = Append(turns[n].pipe, line), !.child = child,
                                         !.items = IF line \in Items THEN turns[n].items + 1 ELSE turns[n].items]]
    BY DEF Prints
  <2>3. QED
    BY <2>1, <2>2
<1>4. PICK pipe \in Seq(Lines) : /\ pipe = Append(turns[n].pipe, line) /\ Len(pipe) = Len(old.pipe) + 1
                                 /\ pipe[Len(pipe)] = line /\ \A k \in 1 .. Len(old.pipe) : pipe[k] = old.pipe[k]
  <2>1. /\ Append(old.pipe, line) \in Seq(Lines) /\ Len(Append(old.pipe, line)) = Len(old.pipe) + 1
        /\ Append(old.pipe, line)[Len(old.pipe) + 1] = line
        /\ \A k \in 1 .. Len(old.pipe) : Append(old.pipe, line)[k] = old.pipe[k]
    BY <1>1, Appended
  <2>2. QED
    BY <2>1
<1>5. \A t \in Turn : LET u == [t EXCEPT !.pipe = pipe, !.child = child, !.items = more]
                      IN  /\ u \in Turn /\ u.child = child /\ u.pc = t.pc /\ u.pipe = pipe /\ u.code = t.code
                          /\ u.rest = t.rest /\ u.saw = t.saw /\ u.resume = t.resume
  BY DEF Turn
<1>6. PICK u \in Turn : /\ turns' = [turns EXCEPT ![n] = u]
                        /\ u.child = child /\ u.pc = old.pc /\ u.pipe = pipe /\ u.code = old.code
                        /\ u.rest = old.rest /\ u.saw = old.saw /\ u.resume = old.resume
  BY <1>1, <1>3, <1>4, <1>5
<1>7. Len(u.pipe) <= Pipe
  BY <1>1, <1>4, <1>6, CodexNumbers
<1>8. turns'[n] = u /\ Heard' = Heard /\ \A m : Results(m)' = Results(m)
  BY <1>2, <1>6, <1>7, TurnTypes, NothingOut DEF Inv
<1>9. \A e : EventFits(e, n)' <=> EventFits(e, n)
  BY <1>2 DEF EventFits
<1>10. ~old.saw /\ old.pc \in {"none", "scan", "emit"}
  BY <1>1 DEF TurnOK, Printing, Turn
<1>11. \A k \in 1 .. Len(pipe) : pipe[k] \in Reports => k = Len(pipe) /\ child \notin Printing
  <2>1. \A k \in 1 .. Len(old.pipe) : old.pipe[k] \notin Reports
    BY <1>1 DEF TurnOK
  <2>2. \A k \in 1 .. Len(pipe) : k \in 1 .. Len(old.pipe) \/ k = Len(pipe)
    BY <1>1, <1>4
  <2>3. QED
    BY <1>4, <2>1, <2>2
<1>12. TurnOK(n)'
  BY <1>1, <1>2, <1>6, <1>8, <1>9, <1>10, <1>11 DEF TurnOK, Over
<1>13. QED
  BY <1>2, <1>6, <1>7, <1>12, TurnMoves DEF Inv, Types0, Process

LEMMA ChildKeeps ==
    ASSUME Inv, NEW n \in Turns, Child(n)
    PROVE  Inv'
<1>1. /\ turns[n] \in Turn /\ TurnOK(n) /\ Len(turns[n].pipe) <= Pipe
      /\ UNCHANGED <<proc, events, call, seen, memory>>
      /\ UNCHANGED <<call, chan, started, calls, stops, events, seen>>
  BY DEF Inv, Types0, Child, memory
<1>2. CASE turns[n].child = "starting" /\ Prints(n, "thread.started", "working")
  <2>1. "thread.started" \in Lines /\ "thread.started" \notin Items /\ "thread.started" \notin Reports
    BY CodexAssumption DEF Lines, Reports
  <2>2. QED
    BY <1>1, <1>2, <2>1, PrintsKeeps DEF Printing
<1>3. CASE /\ turns[n].child = "working"
           /\ turns[n].items < MaxItems /\ \E line \in Items : Prints(n, line, "working")
  <2>1. PICK line \in Items : Prints(n, line, "working")
    BY <1>3
  <2>2. line \in Lines /\ line \notin Reports
    BY CodexAssumption DEF Lines, Reports
  <2>3. QED
    BY <1>1, <1>3, <2>1, <2>2, PrintsKeeps DEF Printing
<1>4. CASE turns[n].child = "working" /\ Prints(n, "turn.completed", "reported")
  <2>1. "turn.completed" \in Lines /\ "turn.completed" \notin Items
    BY CodexAssumption DEF Lines, Reports
  <2>2. QED
    BY <1>1, <1>4, <2>1, PrintsKeeps DEF Printing
<1>5. CASE turns[n].child = "working" /\ Prints(n, "turn.failed", "failed")
  <2>1. "turn.failed" \in Lines /\ "turn.failed" \notin Items
    BY CodexAssumption DEF Lines, Reports
  <2>2. QED
    BY <1>1, <1>5, <2>1, PrintsKeeps DEF Printing
<1>6. ASSUME NEW u \in Turn, turns' = [turns EXCEPT ![n] = u],
             u.pc = turns[n].pc, u.pipe = turns[n].pipe, u.rest = turns[n].rest, u.saw = turns[n].saw,
             u.resume = turns[n].resume,
             \/ u.child = "exited" /\ turns[n].child # "exited"
             \/ u.child = turns[n].child /\ u.code = turns[n].code
      PROVE  Inv'
  <2>1. turns'[n] = u /\ Heard' = Heard /\ \A m : Results(m)' = Results(m)
    BY <1>1, <1>6, TurnTypes, NothingOut DEF Inv
  <2>2. \A e : EventFits(e, n)' <=> EventFits(e, n)
    BY <1>1 DEF EventFits
  <2>3. TurnOK(n)'
    BY <1>1, <1>6, <2>1, <2>2 DEF TurnOK, Printing, Over
  <2>4. QED
    BY <1>1, <1>6, <2>3, TurnMoves DEF Inv, Types0, Process
<1>7. CASE /\ turns[n].child \in {"starting", "working", "reported", "failed"}
           /\ \E h \in BOOLEAN :
                 turns' = [turns EXCEPT ![n].child = "exited", ![n].held = h,
                                        ![n].code = IF turns[n].child = "reported" THEN 0 ELSE 1]
  <2>1. PICK h \in BOOLEAN, code \in Codes :
           turns' = [turns EXCEPT ![n] = [turns[n] EXCEPT !.child = "exited", !.held = h, !.code = code]]
    BY <1>7 DEF Codes
  <2>2. \A t \in Turn : LET u == [t EXCEPT !.child = "exited", !.held = h, !.code = code]
                        IN  /\ u \in Turn /\ u.child = "exited" /\ u.pc = t.pc /\ u.pipe = t.pipe
                            /\ u.rest = t.rest /\ u.saw = t.saw /\ u.resume = t.resume
    BY DEF Turn
  <2>3. PICK u \in Turn : /\ turns' = [turns EXCEPT ![n] = u] /\ u.child = "exited" /\ u.pc = turns[n].pc
                          /\ u.pipe = turns[n].pipe /\ u.rest = turns[n].rest /\ u.saw = turns[n].saw
                          /\ u.resume = turns[n].resume
    BY <1>1, <2>1, <2>2
  <2>4. u.child = "exited" /\ turns[n].child # "exited"
    BY <1>7, <2>3
  <2>5. QED
    BY <1>6, <2>3, <2>4
<1>8. CASE turns[n].held /\ turns' = [turns EXCEPT ![n].held = FALSE]
  <2>1. \A t \in Turn : LET u == [t EXCEPT !.held = FALSE]
                        IN  /\ u \in Turn /\ u.child = t.child /\ u.pc = t.pc /\ u.pipe = t.pipe /\ u.code = t.code
                            /\ u.rest = t.rest /\ u.saw = t.saw /\ u.resume = t.resume
    BY DEF Turn
  <2>2. PICK u \in Turn : /\ turns' = [turns EXCEPT ![n] = u] /\ u.child = turns[n].child /\ u.pc = turns[n].pc
                          /\ u.pipe = turns[n].pipe /\ u.rest = turns[n].rest /\ u.saw = turns[n].saw
                          /\ u.resume = turns[n].resume /\ u.code = turns[n].code
    BY <1>1, <1>8, <2>1
  <2>3. QED
    BY <1>6, <2>2
<1>9. QED
  BY <1>2, <1>3, <1>4, <1>5, <1>7, <1>8 DEF Child

\* A turn at work.
LEMMA AtWork ==
    ASSUME Inv, NEW n \in Turns, turns[n].pc \in Active
    PROVE  /\ TurnOK(n) /\ turns[n] \in Turn /\ Len(turns[n].pipe) <= Pipe /\ proc \in Process
           /\ proc.cur = n /\ n = started /\ n \in Nat /\ n # 0
           /\ proc.interrupted => n \in stops
           /\ turns[n].pipe \in Seq(Lines) /\ turns[n].rest \in Seq(Events)
<1>1. /\ TurnOK(n) /\ turns[n] \in Turn /\ Len(turns[n].pipe) <= Pipe /\ proc \in Process
      /\ n \in Nat /\ n # 0
  BY CodexNumbers DEF Inv, Types0, Process
<1>2. proc.cur = n
  BY <1>1 DEF TurnOK
<1>3. QED
  BY <1>1, <1>2 DEF Inv, Serial, Turn

\* A line is read.
LEMMA ScanKeeps ==
    ASSUME Inv, NEW n \in Turns, Scan(n)
    PROVE  Inv'
<1> DEFINE old == turns[n]
<1>1. /\ old.pc = "scan" /\ old.pipe # <<>>
      /\ UNCHANGED <<call, chan, started, calls, stops, events, seen>>
  BY DEF Scan, memory
<1>2. /\ TurnOK(n) /\ old \in Turn /\ Len(old.pipe) <= Pipe /\ proc \in Process /\ proc.cur = n
      /\ n = started /\ n \in Nat /\ n # 0 /\ old.pipe \in Seq(Lines)
  BY <1>1, AtWork DEF Active
<1>3. PICK line \in Lines : line = Head(old.pipe) /\ line = old.pipe[1]
  BY <1>1, <1>2
<1>4. PICK tail \in Seq(Lines) : /\ tail = Tail(old.pipe) /\ Len(tail) = Len(old.pipe) - 1 /\ Len(old.pipe) \in Nat \ {0}
                                 /\ \A k \in 1 .. Len(tail) : tail[k] = old.pipe[k + 1]
  <2>1. /\ Tail(old.pipe) \in Seq(Lines) /\ Len(Tail(old.pipe)) = Len(old.pipe) - 1
        /\ Len(old.pipe) \in Nat \ {0}
        /\ \A k \in 1 .. Len(old.pipe) - 1 : Tail(old.pipe)[k] = old.pipe[k + 1]
    BY <1>1, <1>2, Tailed
  <2>2. QED
    BY <2>1
<1>5. PICK evs \in Seq(Events) :
         /\ evs = DecodeLine(n, line)
         /\ \A k \in 1 .. Len(evs) : /\ evs[k].turn = n /\ evs[k].sub # "interrupted" /\ evs[k].type # "exit"
                                     /\ evs[k].type = "result" <=> line \in Reports
                                     /\ evs[k].type = "init" =>
                                           /\ line = "thread.started"
                                           /\ evs[k].ref = IF old.resume # 0 THEN old.resume ELSE n
         /\ line \in Reports \cup {"thread.started"} => Len(evs) = 1
         /\ line = "thread.started" => evs[1].type = "init"
  BY <1>2, LinesDecode
<1>6. /\ proc' = Noted(proc, evs)
      /\ turns' = [turns EXCEPT ![n] = [old EXCEPT !.pipe = Tail(old.pipe), !.rest = evs,
                                     !.pc = IF evs = <<>> THEN "scan" ELSE "emit",
                                     !.saw = old.saw \/ (evs # <<>> /\ Head(evs).type = "result")]]
  BY <1>3, <1>5 DEF Scan
<1>7. PICK reports \in BOOLEAN : reports <=> line \in Reports
  OBVIOUS
<1>8. ~old.saw /\ old.saw \in BOOLEAN /\ Len(evs) \in Nat
  BY <1>1, <1>2, <1>5 DEF TurnOK, Turn
<1>9. (evs # <<>> /\ Head(evs).type = "result") <=> reports
  <2>1. evs # <<>> => Head(evs) = evs[1] /\ 1 \in 1 .. Len(evs)
    BY <1>8
  <2>2. line \in Reports => evs # <<>>
    BY <1>5
  <2>3. QED
    BY <1>5, <1>7, <2>1, <2>2
<1>10. PICK pc \in {"scan", "emit"} : pc = "scan" <=> evs = <<>>
  OBVIOUS
<1>11. turns' = [turns EXCEPT ![n] = [old EXCEPT !.pipe = tail, !.rest = evs, !.pc = pc, !.saw = reports]]
  <2>1. (old.saw \/ (evs # <<>> /\ Head(evs).type = "result")) = reports
    BY <1>7, <1>8, <1>9
  <2>2. (IF evs = <<>> THEN "scan" ELSE "emit") = pc
    BY <1>10
  <2>3. QED
    BY <1>4, <1>6, <2>1, <2>2
<1>12. \A t \in Turn : LET u == [t EXCEPT !.pipe = tail, !.rest = evs, !.pc = pc, !.saw = reports]
                       IN  /\ u \in Turn /\ u.child = t.child /\ u.pc = pc /\ u.pipe = tail /\ u.code = t.code
                           /\ u.rest = evs /\ u.saw = reports /\ u.resume = t.resume
  BY DEF Turn, Active
<1>13. PICK u \in Turn : /\ turns' = [turns EXCEPT ![n] = u] /\ u.child = old.child /\ u.pc = pc
                         /\ u.pipe = tail /\ u.code = old.code
                         /\ u.rest = evs /\ u.saw = reports /\ u.resume = old.resume
  BY <1>2, <1>11, <1>12
<1>14. Len(u.pipe) <= Pipe
  BY <1>2, <1>4, <1>13, CodexNumbers
<1>15. turns'[n] = u /\ Heard' = Heard /\ \A m : Results(m)' = Results(m)
  BY <1>1, <1>13, <1>14, TurnTypes, NothingOut DEF Inv
<1>16. PICK id \in 0 .. Resumed : /\ id = (IF old.resume # 0 THEN old.resume ELSE n) /\ id # 0
                                  /\ proc.thread # 0 => id = proc.thread
  BY <1>2, CodexNumbers DEF TurnOK, Turn, Process
<1>17. proc'.thread = (IF line = "thread.started" THEN id ELSE proc.thread)
       /\ proc'.closed = proc.closed /\ proc'.interrupted = proc.interrupted /\ proc'.cur = proc.cur
       /\ proc'.lastExit = proc.lastExit /\ proc' \in Process
       /\ (proc'.resultSent <=> proc.resultSent \/ reports)
  <2>1. (evs # <<>> /\ Head(evs).type = "init") <=> line = "thread.started"
    <3>1. evs # <<>> => Head(evs) = evs[1] /\ 1 \in 1 .. Len(evs)
      BY <1>8
    <3>2. line = "thread.started" => evs # <<>>
      BY <1>5
    <3>3. QED
      BY <1>5, <3>1, <3>2
  <2>2. line = "thread.started" => Head(evs).ref = id
    BY <1>5, <1>16
  <2>3. PICK thread \in 0 .. Resumed : thread = IF line = "thread.started" THEN id ELSE proc.thread
    BY <1>2 DEF Process
  <2>4. PICK sent \in BOOLEAN : sent <=> proc.resultSent \/ reports
    OBVIOUS
  <2>5. proc' = [proc EXCEPT !.thread = thread, !.resultSent = sent]
    <3>1. (IF evs # <<>> /\ Head(evs).type = "init" THEN Head(evs).ref ELSE proc.thread) = thread
      BY <2>1, <2>2, <2>3
    <3>2. (proc.resultSent \/ (evs # <<>> /\ Head(evs).type = "result")) = sent
      BY <1>2, <1>9, <2>4 DEF Process
    <3>3. QED
      BY <1>6, <3>1, <3>2 DEF Noted
  <2>6. \A q \in Process : LET u1 == [q EXCEPT !.thread = thread, !.resultSent = sent]
                           IN  /\ u1 \in Process /\ u1.thread = thread /\ u1.closed = q.closed
                               /\ u1.interrupted = q.interrupted /\ u1.cur = q.cur
                               /\ u1.lastExit = q.lastExit /\ u1.resultSent = sent
    BY DEF Process
  <2>7. QED
    BY <1>2, <2>3, <2>4, <2>5, <2>6
<1>18. proc'.thread = proc.thread \/ \A e \in Heard : e.type # "init"
  <2>1. SUFFICES ASSUME proc.thread = 0, NEW e \in Heard, e.type = "init" PROVE FALSE
    BY <1>16, <1>17
  <2>2. QED
    BY <2>1 DEF Inv, HeardOK
<1>19. TurnOK(n)'
  <2>1. \A k \in 1 .. Len(tail) : tail[k] \in Reports => k = Len(tail) /\ old.child \notin Printing
    <3>1. \A k \in 1 .. Len(tail) : k + 1 \in 1 .. Len(old.pipe) /\ tail[k] = old.pipe[k + 1]
      BY <1>4
    <3>2. \A k \in 1 .. Len(old.pipe) : old.pipe[k] \in Reports => k = Len(old.pipe) /\ old.child \notin Printing
      BY <1>2 DEF TurnOK
    <3>3. QED
      BY <1>4, <3>1, <3>2
  <2>2. reports => tail = <<>> /\ old.child \notin Printing
    <3>1. reports => 1 = Len(old.pipe) /\ old.child \notin Printing
      <4>1. 1 \in 1 .. Len(old.pipe)
        BY <1>4
      <4>2. \A k \in 1 .. Len(old.pipe) : old.pipe[k] \in Reports => k = Len(old.pipe) /\ old.child \notin Printing
        BY <1>2 DEF TurnOK
      <4>3. QED
        BY <1>3, <1>7, <4>1, <4>2
    <3>2. QED
      BY <1>4, <3>1
  <2>3. Results(n)' = 0
    BY <1>1, <1>2, <1>8, <1>15 DEF TurnOK
  <2>4. \A k \in 1 .. Len(evs) : EventFits(evs[k], n)' /\ evs[k].type # "exit"
                                /\ (evs[k].type = "result" <=> reports)
    BY <1>5, <1>7, <1>16, <1>17 DEF EventFits
  <2>5. pc = "emit" => evs # <<>>
    BY <1>10
  <2>6. reports => Len(evs) = 1 /\ evs[1].type = "result" /\ pc = "emit"
    <3>1. reports => Len(evs) = 1
      BY <1>5, <1>7
    <3>2. Len(evs) = 1 => 1 \in 1 .. Len(evs) /\ evs # <<>>
      <4>1. Len(evs) = 1 => 1 \in 1 .. Len(evs)
        BY <1>8
      <4>2. ASSUME Len(evs) = 1, evs = <<>> PROVE FALSE
        BY <4>2
      <4>3. QED
        BY <4>1, <4>2
    <3>3. QED
      BY <1>5, <1>7, <1>10, <3>1, <3>2
  <2>7. IF old.resume # 0 THEN proc'.thread = old.resume ELSE proc'.thread \in {0, n}
    BY <1>2, <1>16, <1>17 DEF TurnOK
  <2>8. ~(n > started) /\ old.pc # "none"
    BY <1>1, <1>2
  <2>9. QED
    BY <1>1, <1>2, <1>13, <1>15, <1>17, <2>1, <2>2, <2>3, <2>4, <2>5, <2>6, <2>7, <2>8
       DEF TurnOK, Active, Emitting, Over
<1>20. QED
  BY <1>1, <1>2, <1>13, <1>14, <1>17, <1>18, <1>19, TurnMoves DEF Process

\* An event goes out.
LEMMA EmitKeeps ==
    ASSUME Inv, NEW n \in Turns, Emit(n)
    PROVE  Inv'
<1> DEFINE old == turns[n]
           e == Head(old.rest)
<1>1. /\ old.pc \in {"emit", "last"} /\ Len(events) < Capacity /\ events' = Append(events, e)
      /\ UNCHANGED <<proc, call, seen, chan, started, calls, stops>>
  BY DEF Emit, memory, Room
<1>2. /\ TurnOK(n) /\ old \in Turn /\ Len(old.pipe) <= Pipe /\ proc \in Process /\ proc.cur = n
      /\ n = started /\ n \in Nat /\ n # 0 /\ old.rest \in Seq(Events)
  BY <1>1, AtWork DEF Active
<1>3. /\ old.rest # <<>>
      /\ \A k \in 1 .. Len(old.rest) : EventFits(old.rest[k], n) /\ old.rest[k].type # "exit"
  BY <1>1, <1>2 DEF TurnOK, Emitting
<1>4. /\ Tail(old.rest) \in Seq(Events) /\ Len(Tail(old.rest)) = Len(old.rest) - 1 /\ Len(old.rest) \in Nat \ {0}
      /\ e = old.rest[1] /\ e \in Events
      /\ \A k \in 1 .. Len(old.rest) - 1 : Tail(old.rest)[k] = old.rest[k + 1]
  BY <1>2, <1>3, Tailed
<1>5. EventFits(e, n) /\ e.type # "exit"
  <2>1. 1 \in 1 .. Len(old.rest)
    BY <1>4
  <2>2. QED
    BY <1>3, <1>4, <2>1
<1>6. PICK pc \in {"emit", "last", "clear", "scan"} :
         pc = IF Len(old.rest) > 1 THEN old.pc ELSE IF old.pc = "last" THEN "clear" ELSE "scan"
  BY <1>1
<1>7. PICK rest \in Seq(Events) : rest = Tail(old.rest)
  BY <1>4
<1>8. turns' = [turns EXCEPT ![n] = [old EXCEPT !.rest = rest, !.pc = pc]]
  BY <1>6, <1>7 DEF Emit
<1>9. \A t \in Turn : LET u == [t EXCEPT !.rest = rest, !.pc = pc]
                      IN  /\ u \in Turn /\ u.child = t.child /\ u.pc = pc /\ u.pipe = t.pipe /\ u.code = t.code
                          /\ u.rest = rest /\ u.saw = t.saw /\ u.resume = t.resume
  BY DEF Turn, Active
<1>10. PICK u \in Turn : /\ turns' = [turns EXCEPT ![n] = u] /\ u.child = old.child /\ u.pc = pc
                         /\ u.pipe = old.pipe /\ u.code = old.code
                         /\ u.rest = rest /\ u.saw = old.saw /\ u.resume = old.resume
  BY <1>2, <1>8, <1>9
<1>11. /\ turns' \in [Turns -> Turn] /\ turns'[n] = u /\ \A m \in Turns : m # n => turns'[m] = turns[m]
       /\ \A m \in Turns : Len(turns'[m].pipe) <= Pipe
  BY <1>2, <1>10, TurnTypes DEF Inv
<1> HIDE DEF e
<1>12. /\ Heard' = Heard \cup {e}
       /\ \A m : Results(m)' = Results(m) + IF e.type = "result" /\ e.turn = m THEN 1 ELSE 0
       /\ events' \in Seq(Events) /\ Len(events') = Len(events) + 1 /\ Len(events) \in Nat
       /\ events'[Len(events) + 1] = e
       /\ \A k \in 1 .. Len(events) : events'[k] = events[k]
  BY <1>1, <1>4, GoesOut DEF Inv
<1>13. /\ Results(n) = 0 /\ (e.type = "result" => Results(n)' = 1) /\ (e.type # "result" => Results(n)' = 0)
       /\ \A m \in Turns : m # n => Results(m)' = Results(m)
  <2>1. Results(n) = 0
    BY <1>1, <1>2 DEF TurnOK
  <2>2. e.turn = n
    BY <1>5 DEF EventFits
  <2>3. \A m \in Turns : Results(m) \in Nat
    BY ResultsType DEF Inv
  <2>4. QED
    BY <1>12, <2>1, <2>2, <2>3
<1>14. Types0'
  <2>1. Len(events') <= Capacity
    BY <1>1, <1>12, CodexNumbers
  <2>2. QED
    BY <1>1, <1>11, <1>12, <2>1 DEF Inv, Types0
<1>15. Serial'
  BY <1>1 DEF Inv, Serial
<1>16. \A m \in Turns : m # n => TurnOK(m)'
  BY <1>1, <1>11, <1>13, OthersStay
<1>17. TurnOK(n)'
  <2>1. \A x : EventFits(x, n)' <=> EventFits(x, n)
    BY <1>1 DEF EventFits
  <2>2. /\ \A k \in 1 .. Len(rest) : k + 1 \in 1 .. Len(old.rest) /\ rest[k] = old.rest[k + 1]
        /\ Len(rest) = Len(old.rest) - 1
    BY <1>4, <1>7
  <2>3. 1 \in 1 .. Len(old.rest)
    BY <1>4
  <2>4. CASE old.pc = "last" \/ old.saw
    <3>1. Len(old.rest) = 1 /\ e.type = "result"
      BY <1>1, <1>2, <1>4, <2>4 DEF TurnOK
    <3>2. pc = IF old.pc = "last" THEN "clear" ELSE "scan"
      BY <1>6, <3>1
    <3>3. Results(n)' = 1
      BY <1>13, <3>1
    <3>4. old.pc # "last" => old.saw
      BY <2>4
    <3>5. QED
      BY <1>1, <1>2, <1>10, <1>11, <3>2, <3>3, <3>4 DEF TurnOK, Active, Emitting, Over
  <2>5. CASE old.pc # "last" /\ ~old.saw
    <3>1. old.pc = "emit" /\ \A k \in 1 .. Len(old.rest) : old.rest[k].type # "result"
      BY <1>1, <1>2, <2>5 DEF TurnOK
    <3>2. e.type # "result" /\ Results(n)' = 0
      BY <1>4, <1>13, <2>3, <3>1
    <3>3. pc = (IF Len(old.rest) > 1 THEN "emit" ELSE "scan")
      BY <1>6, <3>1
    <3>4. pc = "emit" => rest # <<>>
      <4>1. Len(<<>>) = 0
        OBVIOUS
      <4>2. QED
        BY <1>4, <2>2, <3>3, <4>1
    <3>5. \A k \in 1 .. Len(rest) : EventFits(rest[k], n) /\ rest[k].type # "exit" /\ rest[k].type # "result"
      BY <1>3, <2>2, <3>1
    <3>6. QED
      BY <1>1, <1>2, <1>10, <1>11, <2>1, <2>5, <3>1, <3>2, <3>3, <3>4, <3>5 DEF TurnOK, Active, Emitting, Over
  <2>6. QED
    BY <2>4, <2>5
<1>18. \A m \in Turns : TurnOK(m)'
  BY <1>16, <1>17
<1>19. CloseOK'
  BY <1>1, CloseStays
<1>20. \A x \in Heard : x.type # "exit"
  BY <1>2, NoExitYet
<1>21. HeardOK'
  <2>1. ASSUME NEW x \in Heard'
        PROVE  /\ x.turn <= started /\ (x.sub = "interrupted" => x.turn \in stops)
               /\ x.type = "init" => x.ref = proc.thread /\ x.ref # 0
               /\ x.type # "exit"
    <3>1. CASE x \in Heard
      BY <1>20, <3>1 DEF Inv, HeardOK
    <3>2. CASE x = e
      BY <1>2, <1>5, <3>2 DEF EventFits
    <3>3. QED
      BY <1>12, <3>1, <3>2
  <2>2. \A k \in 1 .. Len(seen) : seen[k] \in Heard
    BY DEF Heard
  <2>3. \A k \in 1 .. Len(events') : events'[k] \in Heard'
    BY DEF Heard
  <2>4. QED
    BY <1>1, <1>20, <2>1, <2>2, <2>3 DEF HeardOK
<1>22. QED
  BY <1>14, <1>15, <1>18, <1>19, <1>21 DEF Inv

\* What the rest of a turn's steps do to its record.
LEMMA OneTurnStep ==
    ASSUME Inv, NEW n \in Turns, NEW pc \in Active \cup {"close", "done"},
           NEW rest \in Seq(Events), turns' = [turns EXCEPT ![n] = [turns[n] EXCEPT !.pc = pc, !.rest = rest]],
           events' = events, seen' = seen
    PROVE  \E u \in Turn :
              /\ turns' = [turns EXCEPT ![n] = u] /\ turns'[n] = u /\ Len(u.pipe) <= Pipe
              /\ u.pc = pc /\ u.rest = rest /\ u.child = turns[n].child /\ u.pipe = turns[n].pipe
              /\ u.code = turns[n].code /\ u.saw = turns[n].saw /\ u.resume = turns[n].resume
              /\ Results(n)' = Results(n)
<1>1. turns[n] \in Turn /\ Len(turns[n].pipe) <= Pipe
  BY DEF Inv, Types0
<1>2. \A t \in Turn : LET u == [t EXCEPT !.pc = pc, !.rest = rest]
                      IN  /\ u \in Turn /\ u.pc = pc /\ u.rest = rest /\ u.child = t.child /\ u.pipe = t.pipe
                          /\ u.code = t.code /\ u.saw = t.saw /\ u.resume = t.resume
  BY DEF Turn
<1>3. PICK u \in Turn : /\ turns' = [turns EXCEPT ![n] = u] /\ Len(u.pipe) <= Pipe
                       /\ u.pc = pc /\ u.rest = rest /\ u.child = turns[n].child /\ u.pipe = turns[n].pipe
                       /\ u.code = turns[n].code /\ u.saw = turns[n].saw /\ u.resume = turns[n].resume
  BY <1>1, <1>2
<1>4. turns'[n] = u
  BY <1>3, TurnTypes DEF Inv
<1>5. QED
  BY <1>3, <1>4, NothingOut

LEMMA SameRest ==
    ASSUME NEW n \in Turns, turns[n] \in Turn, NEW pc
    PROVE  [turns[n] EXCEPT !.pc = pc] = [turns[n] EXCEPT !.pc = pc, !.rest = turns[n].rest]
<1>1. \A t \in Turn : [t EXCEPT !.pc = pc] = [t EXCEPT !.pc = pc, !.rest = t.rest]
  BY DEF Turn
<1>2. QED
  BY <1>1

\* The output of the child is at its end.
LEMMA ScanEndsKeeps ==
    ASSUME Inv, NEW n \in Turns, ScanEnds(n)
    PROVE  Inv'
<1>1. /\ turns[n].pc = "scan" /\ turns[n].child = "exited" /\ turns[n].pc \in Active
      /\ UNCHANGED <<call, chan, started, calls, stops, events, seen>> /\ proc' = proc
  BY DEF ScanEnds, memory, Active
<1>2. TurnOK(n) /\ turns[n] \in Turn /\ proc \in Process /\ proc.cur = n /\ n = started /\ n \in Nat /\ n # 0
      /\ turns[n].rest \in Seq(Events)
  BY <1>1, AtWork
<1>3. "wait" \in Active /\ turns' = [turns EXCEPT ![n] = [turns[n] EXCEPT !.pc = "wait", !.rest = turns[n].rest]]
  BY <1>2, SameRest DEF ScanEnds, Active
<1>4. PICK u \in Turn :
         /\ turns' = [turns EXCEPT ![n] = u] /\ turns'[n] = u /\ Len(u.pipe) <= Pipe
         /\ u.pc = "wait" /\ u.rest = turns[n].rest /\ u.child = turns[n].child /\ u.pipe = turns[n].pipe
         /\ u.code = turns[n].code /\ u.saw = turns[n].saw /\ u.resume = turns[n].resume
         /\ Results(n)' = Results(n)
  BY <1>1, <1>2, <1>3, OneTurnStep
<1>5. TurnOK(n)'
  BY <1>1, <1>2, <1>4 DEF TurnOK, Active, Emitting, Over, Printing
<1>6. QED
  BY <1>1, <1>2, <1>4, <1>5, TurnMoves

\* The child is waited for, and its turn gets the result it did not report.
LEMMA WaitKeeps ==
    ASSUME Inv, NEW n \in Turns, Wait(n)
    PROVE  Inv'
<1>1. /\ turns[n].pc = "wait" /\ turns[n].pc \in Active /\ proc' = [proc EXCEPT !.lastExit = turns[n].code]
      /\ UNCHANGED <<call, chan, started, calls, stops, events, seen>>
  BY DEF Wait, memory, Active
<1>2. /\ TurnOK(n) /\ turns[n] \in Turn /\ proc \in Process /\ proc.cur = n /\ n = started /\ n \in Nat /\ n # 0
      /\ turns[n].rest \in Seq(Events) /\ (proc.interrupted => n \in stops) /\ turns[n].code \in Codes
      /\ turns[n].saw \in BOOLEAN
  BY <1>1, AtWork DEF Turn
<1>3. PICK e \in Events : /\ e = Synthesised(n) /\ e.type = "result" /\ EventFits(e, n)
  <2>1. PICK sub \in {"interrupted", "error"} : sub = IF proc.interrupted THEN "interrupted" ELSE "error"
    OBVIOUS
  <2> DEFINE x == [type |-> "result", turn |-> n, ref |-> 0, sub |-> sub]
  <2>2. x = Synthesised(n)
    BY <2>1 DEF Synthesised, Event
  <2>3. x \in Events /\ x.type = "result" /\ x.turn = n /\ x.sub = sub
    <3>1. n \in Nat /\ sub \in Subtypes /\ "result" \in Types
      BY <1>2, <2>1 DEF Types, Subtypes
    <3>2. QED
      BY <3>1 DEF Events
  <2> HIDE DEF x
  <2>4. sub = "interrupted" => n \in stops
    BY <1>2, <2>1
  <2>5. EventFits(x, n)
    BY <2>3, <2>4 DEF EventFits
  <2>6. QED
    BY <2>2, <2>3, <2>5
<1>4. PICK pc \in {"clear", "result"} : pc = IF turns[n].saw THEN "clear" ELSE "result"
  OBVIOUS
<1>5. PICK rest \in Seq(Events) : rest = IF turns[n].saw THEN <<>> ELSE <<e>>
  <2>1. <<>> \in Seq(Events) /\ <<e>> \in Seq(Events)
    OBVIOUS
  <2>2. QED
    BY <2>1
<1>6. turns' = [turns EXCEPT ![n] = [turns[n] EXCEPT !.pc = pc, !.rest = rest]] /\ pc \in Active
  BY <1>3, <1>4, <1>5 DEF Wait, Active
<1>7. PICK u \in Turn :
         /\ turns' = [turns EXCEPT ![n] = u] /\ turns'[n] = u /\ Len(u.pipe) <= Pipe
         /\ u.pc = pc /\ u.rest = rest /\ u.child = turns[n].child /\ u.pipe = turns[n].pipe
         /\ u.code = turns[n].code /\ u.saw = turns[n].saw /\ u.resume = turns[n].resume
         /\ Results(n)' = Results(n)
  BY <1>1, <1>6, OneTurnStep
<1>8. \A q \in Process, code \in Codes :
         LET v == [q EXCEPT !.lastExit = code]
         IN  /\ v \in Process /\ v.closed = q.closed /\ v.thread = q.thread /\ v.cur = q.cur
             /\ v.interrupted = q.interrupted /\ v.resultSent = q.resultSent /\ v.lastExit = code
  BY DEF Process
<1>9. /\ proc' \in Process /\ proc'.closed = proc.closed /\ proc'.thread = proc.thread /\ proc'.cur = proc.cur
      /\ proc'.interrupted = proc.interrupted /\ proc'.resultSent = proc.resultSent
      /\ proc'.lastExit = turns[n].code
  BY <1>1, <1>2, <1>8
<1>10. EventFits(e, n)'
  BY <1>1, <1>3, <1>9 DEF EventFits
<1>11. TurnOK(n)'
  <2>1. CASE turns[n].saw
    BY <1>1, <1>2, <1>4, <1>7, <1>9, <2>1 DEF TurnOK, Active, Emitting, Over, Printing
  <2>2. CASE ~turns[n].saw
    <3>1. pc = "result" /\ rest = <<e>>
      BY <1>4, <1>5, <2>2
    <3>2. Len(rest) = 1 /\ rest[1] = e /\ rest # <<>> /\ \A k \in 1 .. Len(rest) : rest[k] = e
      BY <3>1
    <3>3. \A k \in 1 .. Len(rest) : EventFits(rest[k], n)' /\ rest[k].type # "exit"
      BY <1>3, <1>10, <3>2
    <3>4. Len(rest) = 1 /\ rest[1].type = "result" /\ rest # <<>>
      BY <1>3, <3>2
    <3>5. Results(n)' = 0 /\ u.pc = "result" /\ u.saw = FALSE
      BY <1>1, <1>2, <1>7, <2>2, <3>1 DEF TurnOK
    <3>6. /\ u.child = "exited" /\ ~(n > started)
          /\ \A k \in 1 .. Len(u.pipe) : u.pipe[k] \in Reports => k = Len(u.pipe) /\ u.child \notin Printing
          /\ IF u.resume # 0 THEN proc'.thread = u.resume ELSE proc'.thread \in {0, n}
      BY <1>1, <1>2, <1>7, <1>9 DEF TurnOK
    <3>7. QED
      BY <1>1, <1>2, <1>7, <1>9, <3>3, <3>4, <3>5, <3>6 DEF TurnOK, Active, Emitting, Over
  <2>3. QED
    BY <2>1, <2>2
<1>12. QED
  BY <1>1, <1>2, <1>7, <1>9, <1>11, TurnMoves

\* The result that was made is about to go out.
LEMMA ResultKeeps ==
    ASSUME Inv, NEW n \in Turns, Result(n)
    PROVE  Inv'
<1>1. /\ turns[n].pc = "result" /\ turns[n].pc \in Active /\ proc' = [proc EXCEPT !.resultSent = TRUE]
      /\ UNCHANGED <<call, chan, started, calls, stops, events, seen>>
  BY DEF Result, memory, Active
<1>2. /\ TurnOK(n) /\ turns[n] \in Turn /\ proc \in Process /\ proc.cur = n /\ n = started /\ n \in Nat /\ n # 0
      /\ turns[n].rest \in Seq(Events)
  BY <1>1, AtWork
<1>3. "last" \in Active /\ turns' = [turns EXCEPT ![n] = [turns[n] EXCEPT !.pc = "last", !.rest = turns[n].rest]]
  BY <1>2, SameRest DEF Result, Active
<1>4. PICK u \in Turn :
         /\ turns' = [turns EXCEPT ![n] = u] /\ turns'[n] = u /\ Len(u.pipe) <= Pipe
         /\ u.pc = "last" /\ u.rest = turns[n].rest /\ u.child = turns[n].child /\ u.pipe = turns[n].pipe
         /\ u.code = turns[n].code /\ u.saw = turns[n].saw /\ u.resume = turns[n].resume
         /\ Results(n)' = Results(n)
  BY <1>1, <1>2, <1>3, OneTurnStep
<1>5. \A q \in Process : LET v == [q EXCEPT !.resultSent = TRUE]
                         IN  /\ v \in Process /\ v.closed = q.closed /\ v.thread = q.thread /\ v.cur = q.cur
                             /\ v.interrupted = q.interrupted /\ v.resultSent = TRUE /\ v.lastExit = q.lastExit
  BY DEF Process
<1>6. /\ proc' \in Process /\ proc'.closed = proc.closed /\ proc'.thread = proc.thread /\ proc'.cur = proc.cur
      /\ proc'.interrupted = proc.interrupted /\ proc'.resultSent = TRUE
      /\ proc'.lastExit = proc.lastExit
  BY <1>1, <1>2, <1>5
<1>7. \A e : EventFits(e, n)' <=> EventFits(e, n)
  BY <1>1, <1>6 DEF EventFits
<1>8. TurnOK(n)'
  BY <1>1, <1>2, <1>4, <1>6, <1>7 DEF TurnOK, Active, Emitting, Over, Printing
<1>9. QED
  BY <1>1, <1>2, <1>4, <1>6, <1>8, TurnMoves

\* The turn is cleared.
LEMMA ClearKeeps ==
    ASSUME Inv, NEW n \in Turns, Clear(n)
    PROVE  Inv'
<1>1. /\ turns[n].pc = "clear" /\ turns[n].pc \in Active /\ proc' = [proc EXCEPT !.cur = 0]
      /\ UNCHANGED <<call, chan, started, calls, stops, events, seen>>
  BY DEF Clear, memory, Active
<1>2. /\ TurnOK(n) /\ turns[n] \in Turn /\ proc \in Process /\ proc.cur = n /\ n = started /\ n \in Nat /\ n # 0
      /\ turns[n].rest \in Seq(Events)
  BY <1>1, AtWork
<1>3. turns' = [turns EXCEPT ![n] = [turns[n] EXCEPT !.pc = "close", !.rest = turns[n].rest]]
  BY <1>2, SameRest DEF Clear
<1>4. PICK u \in Turn :
         /\ turns' = [turns EXCEPT ![n] = u] /\ turns'[n] = u /\ Len(u.pipe) <= Pipe
         /\ u.pc = "close" /\ u.rest = turns[n].rest /\ u.child = turns[n].child /\ u.pipe = turns[n].pipe
         /\ u.code = turns[n].code /\ u.saw = turns[n].saw /\ u.resume = turns[n].resume
         /\ Results(n)' = Results(n)
  BY <1>1, <1>2, <1>3, OneTurnStep
<1>5. \A q \in Process : LET v == [q EXCEPT !.cur = 0]
                         IN  /\ v \in Process /\ v.closed = q.closed /\ v.thread = q.thread /\ v.cur = 0
                             /\ v.interrupted = q.interrupted /\ v.lastExit = q.lastExit
  BY CodexNumbers DEF Process
<1>6. /\ proc' \in Process /\ proc'.closed = proc.closed /\ proc'.thread = proc.thread /\ proc'.cur = 0
      /\ proc'.interrupted = proc.interrupted /\ proc'.lastExit = proc.lastExit
  BY <1>1, <1>2, <1>5
<1>7. TurnOK(n)'
  BY <1>1, <1>2, <1>4, <1>6 DEF TurnOK, Active, Emitting, Over, Printing
<1>8. QED
  BY <1>1, <1>2, <1>4, <1>6, <1>7, TurnMoves

\* The end of the turn is announced.
LEMMA AnnounceKeeps ==
    ASSUME Inv, NEW n \in Turns, Announce(n)
    PROVE  Inv'
<1>1. /\ turns[n].pc = "close" /\ proc' = proc
      /\ UNCHANGED <<call, chan, started, calls, stops, events, seen>>
  BY DEF Announce, memory
<1>2. /\ TurnOK(n) /\ turns[n] \in Turn /\ proc \in Process /\ n \in Nat /\ n # 0
      /\ turns[n].rest \in Seq(Events)
  BY CodexNumbers DEF Inv, Types0, Process, Turn
<1>3. turns' = [turns EXCEPT ![n] = [turns[n] EXCEPT !.pc = "done", !.rest = turns[n].rest]]
  BY <1>2, SameRest DEF Announce
<1>4. PICK u \in Turn :
         /\ turns' = [turns EXCEPT ![n] = u] /\ turns'[n] = u /\ Len(u.pipe) <= Pipe
         /\ u.pc = "done" /\ u.rest = turns[n].rest /\ u.child = turns[n].child /\ u.pipe = turns[n].pipe
         /\ u.code = turns[n].code /\ u.saw = turns[n].saw /\ u.resume = turns[n].resume
         /\ Results(n)' = Results(n)
  BY <1>1, <1>2, <1>3, OneTurnStep
<1>5. TurnOK(n)'
  BY <1>1, <1>2, <1>4 DEF TurnOK, Active, Emitting, Over, Printing
<1>6. QED
  BY <1>1, <1>2, <1>4, <1>5, TurnMoves

-----------------------------------------------------------------------------
(* Close. *)

\* The caller at work in Close moves on, with nothing out and no turn changed.
LEMMA CloserMoves ==
    ASSUME Inv, NEW c \in Callers, call[c].pc \in Closing, NEW r \in Calls, call' = [call EXCEPT ![c] = r],
           r.pc \in Closing, r.on = call[c].on, r.pc # "channel", call[c].pc # "channel",
           r.pc \in {"grace", "kill", "await"} => call[c].pc \in {"grace", "kill"},
           r.pc \in {"code", "exit"} => proc.cur = 0, r.pc = "exit" => r.code = proc.lastExit,
           UNCHANGED <<proc, events, chan, started, calls, seen, stops>>,
           turns' \in [Turns -> Turn], \A m \in Turns : Len(turns'[m].pipe) <= Pipe /\ TurnOK(m)'
    PROVE  Inv'
<1>1. call' \in [Callers -> Calls] /\ call'[c] = r /\ \A d \in Callers : d # c => call'[d] = call[d]
  BY CallTypes DEF Inv
<1>2. /\ proc.closed /\ chan = "open" /\ \A d \in Callers : call[d].pc \in Closing => d = c
      /\ call[c].pc \in {"grace", "kill", "await"} => proc.cur \in {0, call[c].on}
  BY DEF Inv, CloseOK
<1>3. Types0'
  BY <1>1 DEF Inv, Types0
<1>4. Serial'
  BY <1>1 DEF Inv, Serial, Closing
<1>5. \A d \in Callers : call'[d].pc \in Closing => d = c
  BY <1>1, <1>2
<1>6. CloseOK'
  BY <1>1, <1>2, <1>5 DEF CloseOK, Closing
<1>7. \A d \in Callers : call[d].pc # "channel"
  BY <1>2 DEF Closing
<1>8. HeardOK'
  BY <1>7, HeardStays
<1>9. QED
  BY <1>3, <1>4, <1>6, <1>8 DEF Inv

LEMMA CloseKeeps ==
    ASSUME Inv, NEW c \in Callers, Close(c)
    PROVE  Inv'
<1>1. /\ call[c] = Idle /\ calls' \in 0 .. MaxCalls /\ UNCHANGED <<events, chan, turns, started, seen, stops>>
      /\ started \in Nat /\ proc \in Process /\ proc.cur <= started
  BY CodexNumbers DEF Close, Begins, Inv, Types0, Serial, Process
<1>2. Heard' = Heard /\ \A m : Results(m)' = Results(m)
  BY <1>1, NothingOut
<1>3. CASE proc.closed
  <2>1. UNCHANGED <<proc, call>>
    BY <1>3 DEF Close
  <2>2. Types0' /\ Serial'
    BY <1>1, <2>1 DEF Inv, Types0, Serial
  <2>3. \A m \in Turns : TurnOK(m)'
    BY <1>1, <1>2, <2>1, TurnStays
  <2>4. CloseOK'
    BY <1>1, <2>1, CloseStays
  <2>5. HeardOK'
    BY <1>1, <2>1, HeardStays
  <2>6. QED
    BY <2>2, <2>3, <2>4, <2>5 DEF Inv
<1>4. CASE ~proc.closed
  <2>1. proc' = [proc EXCEPT !.closed = TRUE]
    BY <1>4 DEF Close
  <2>2. \A q \in Process : LET u == [q EXCEPT !.closed = TRUE]
                           IN  /\ u \in Process /\ u.closed = TRUE /\ u.thread = q.thread /\ u.cur = q.cur
                               /\ u.interrupted = q.interrupted /\ u.resultSent = q.resultSent
                               /\ u.lastExit = q.lastExit
    BY DEF Process
  <2>3. /\ proc' \in Process /\ proc'.closed = TRUE /\ proc'.thread = proc.thread /\ proc'.cur = proc.cur
        /\ proc'.interrupted = proc.interrupted /\ proc'.resultSent = proc.resultSent
        /\ proc'.lastExit = proc.lastExit
    BY <1>1, <2>1, <2>2
  <2>4. PICK pc \in {"code", "grace", "kill"} :
           pc = IF proc.cur = 0 THEN "code" ELSE IF proc.resultSent THEN "grace" ELSE "kill"
    OBVIOUS
  <2>5. PICK on \in 0 .. MaxTurns : on = proc.cur
    BY <1>1 DEF Process
  <2> DEFINE r == [op |-> "close", on |-> on, code |-> 0, pc |-> pc]
  <2>6. call' = [call EXCEPT ![c] = r]
    BY <1>4, <2>4, <2>5 DEF Close
  <2>7. r \in Calls /\ r.pc = pc /\ r.on = on
    BY <2>4 DEF Calls, Closing, Codes
  <2> HIDE DEF r
  <2>8. call' \in [Callers -> Calls] /\ call'[c] = r /\ \A d \in Callers : d # c => call'[d] = call[d]
    BY <2>6, <2>7, CallTypes DEF Inv
  <2>9. \A d \in Callers : call[d].pc \notin Closing
    BY <1>4 DEF Inv, CloseOK
  <2>10. chan = "open"
    BY <1>4 DEF Inv, CloseOK, Types0
  <2>11. Types0'
    BY <1>1, <2>3, <2>8 DEF Inv, Types0, Process
  <2>12. Serial'
    BY <1>1, <2>3, <2>4, <2>5, <2>7, <2>8 DEF Inv, Serial
  <2>13. \A m \in Turns : TurnOK(m)'
    BY <1>1, <1>2, <2>3, TurnStays
  <2>14. \A d \in Callers : call'[d].pc \in Closing => d = c
    BY <2>8, <2>9
  <2>15. CloseOK'
    BY <1>1, <2>3, <2>4, <2>5, <2>7, <2>8, <2>10, <2>14 DEF CloseOK, Closing
  <2>16. \A d \in Callers : call[d].pc # "channel"
    BY <2>9 DEF Closing
  <2>17. HeardOK'
    BY <1>1, <2>3, <2>16, HeardStays
  <2>18. QED
    BY <2>11, <2>12, <2>13, <2>15, <2>17 DEF Inv
<1>5. QED
  BY <1>3, <1>4

\* A caller in Close.
LEMMA AtClose ==
    ASSUME Inv, NEW c \in Callers, call[c].pc \in Closing
    PROVE  /\ call[c] \in Calls /\ proc.closed /\ chan = "open"
           /\ \A d \in Callers : call[d].pc \in Closing => d = c
           /\ turns \in [Turns -> Turn] /\ proc \in Process
           /\ \A m \in Turns : Len(turns[m].pipe) <= Pipe /\ TurnOK(m)
           /\ call[c].pc \in {"grace", "kill", "await"} =>
                 call[c].on \in Turns /\ call[c].on <= started /\ proc.cur \in {0, call[c].on}
<1>1. call[c] \in Calls /\ turns \in [Turns -> Turn] /\ proc \in Process
  BY DEF Inv, Types0, Process
<1>2. call[c].pc \in {"grace", "kill", "await"} => call[c].on # 0 /\ call[c].on <= started
  BY DEF Inv, Serial
<1>3. call[c].on # 0 => call[c].on \in Turns
  BY <1>1, CodexNumbers DEF Calls
<1>4. \A m \in Turns : Len(turns[m].pipe) <= Pipe /\ TurnOK(m)
  BY DEF Inv, Types0
<1>5. QED
  BY <1>1, <1>2, <1>3, <1>4 DEF Inv, CloseOK

\* A turn that has ended is not at work.
LEMMA EndedIsOver ==
    ASSUME Inv, NEW n \in Turns, Ended(n)
    PROVE  proc.cur # n
<1>1. TurnOK(n)
  BY DEF Inv
<1>2. QED
  BY <1>1 DEF TurnOK, Ended, Active

LEMMA PcMoves ==
    ASSUME NEW c \in Callers, call[c] \in Calls, NEW pc \in Closing
    PROVE  LET r == [call[c] EXCEPT !.pc = pc]
           IN  r \in Calls /\ r.pc = pc /\ r.on = call[c].on /\ r.code = call[c].code
<1>1. \A i \in Calls : LET r == [i EXCEPT !.pc = pc]
                       IN  r \in Calls /\ r.pc = pc /\ r.on = i.on /\ r.code = i.code
  BY DEF Calls
<1>2. QED
  BY <1>1

\* The steps of Close up to the end of the turn.
LEMMA CloseGoesOn ==
    ASSUME Inv, NEW c \in Callers, CloseGrace(c) \/ CloseKill(c) \/ CloseAwait(c)
    PROVE  Inv'
<1>1. /\ call[c].pc \in {"grace", "kill", "await"} /\ call[c].pc \in Closing
      /\ UNCHANGED <<proc, events, chan, started, calls, seen, stops>>
  BY DEF CloseGrace, CloseKill, CloseAwait, At, memory, Closing
<1>2. PICK n \in Turns : n = call[c].on
  BY <1>1, AtClose
<1>3. /\ call[c] \in Calls /\ turns \in [Turns -> Turn] /\ \A m \in Turns : Len(turns[m].pipe) <= Pipe
      /\ n <= started /\ proc.cur \in {0, n}
  BY <1>1, <1>2, AtClose
<1>4. PICK pc \in {"code", "kill", "await"} :
         /\ call' = [call EXCEPT ![c] = [call[c] EXCEPT !.pc = pc]]
         /\ pc = "code" => Ended(n)
         /\ pc # "code" => call[c].pc \in {"grace", "kill"}
         /\ turns' = turns \/ Kill(n)
  <2>1. CASE CloseGrace(c)
    <3>1. PICK pc \in {"code", "kill"} : pc = IF Ended(n) THEN "code" ELSE "kill"
      OBVIOUS
    <3>2. QED
      BY <1>2, <2>1, <3>1 DEF CloseGrace, Goes, At
  <2>2. CASE CloseKill(c)
    BY <1>2, <2>2 DEF CloseKill, Goes, At
  <2>3. CASE CloseAwait(c)
    BY <1>2, <2>3 DEF CloseAwait, Goes, At
  <2>4. QED
    BY <2>1, <2>2, <2>3
<1>5. PICK r \in Calls : call' = [call EXCEPT ![c] = r] /\ r.pc = pc /\ r.on = call[c].on
  <2>1. pc \in Closing
    BY <1>4 DEF Closing
  <2>2. QED
    BY <1>3, <1>4, <2>1, PcMoves
<1>6. pc = "code" => proc.cur = 0
  BY <1>3, <1>4, EndedIsOver
<1>7. turns' \in [Turns -> Turn] /\ \A m \in Turns : Len(turns'[m].pipe) <= Pipe /\ TurnOK(m)'
  <2>1. CASE turns' = turns
    <3>1. \A m \in Turns : TurnOK(m)'
      BY <1>1, <2>1, NothingOut, TurnStays
    <3>2. QED
      BY <1>3, <2>1, <3>1
  <2>2. CASE Kill(n)
    BY <1>1, <1>3, <2>2, KillTurns
  <2>3. QED
    BY <1>4, <2>1, <2>2
<1>8. /\ r.pc \in Closing /\ r.pc # "channel" /\ call[c].pc # "channel" /\ r.pc # "exit"
      /\ r.pc \in {"grace", "kill", "await"} => call[c].pc \in {"grace", "kill"}
      /\ r.pc \in {"code", "exit"} => proc.cur = 0
  BY <1>1, <1>4, <1>5, <1>6 DEF Closing
<1>9. QED
  BY <1>1, <1>5, <1>7, <1>8, CloserMoves

\* The exit code is read when no turn is at work.
LEMMA CloseCodeKeeps ==
    ASSUME Inv, NEW c \in Callers, CloseCode(c)
    PROVE  Inv'
<1>1. /\ call[c].pc = "code" /\ call[c].pc \in Closing
      /\ UNCHANGED <<proc, events, chan, turns, started, calls, seen, stops>>
  BY DEF CloseCode, At, Closing
<1>2. /\ call[c] \in Calls /\ turns \in [Turns -> Turn] /\ \A m \in Turns : Len(turns[m].pipe) <= Pipe
      /\ proc.cur = 0 /\ proc.lastExit \in Codes
  BY <1>1, AtClose DEF Inv, CloseOK, Process
<1>3. PICK code \in Codes : code = proc.lastExit
  BY <1>2
<1>4. \A i \in Calls : LET r == [i EXCEPT !.pc = "exit", !.code = code]
                       IN  r \in Calls /\ r.pc = "exit" /\ r.on = i.on /\ r.code = code
  BY DEF Calls, Closing
<1>5. PICK r \in Calls : call' = [call EXCEPT ![c] = r] /\ r.pc = "exit" /\ r.on = call[c].on /\ r.code = code
  <2>1. call' = [call EXCEPT ![c] = [call[c] EXCEPT !.pc = "exit", !.code = code]]
    BY <1>3 DEF CloseCode
  <2>2. QED
    BY <1>2, <1>4, <2>1
<1>6. \A m \in Turns : TurnOK(m)'
  BY <1>1, NothingOut, TurnStays
<1>7. QED
  BY <1>1, <1>2, <1>3, <1>5, <1>6, CloserMoves DEF Closing

\* The exit goes out.
LEMMA CloseExitKeeps ==
    ASSUME Inv, NEW c \in Callers, CloseExit(c)
    PROVE  Inv'
<1>1. /\ call[c].pc = "exit" /\ call[c].pc \in Closing /\ Len(events) < Capacity
      /\ UNCHANGED <<proc, turns, seen, chan, started, calls, stops>>
  BY DEF CloseExit, At, Closing, Room, memory
<1>2. /\ call[c] \in Calls /\ proc.closed /\ chan = "open" /\ proc.cur = 0
      /\ \A d \in Callers : call[d].pc \in Closing => d = c
      /\ call[c].code = proc.lastExit /\ proc.lastExit \in Codes /\ started \in Nat
  BY <1>1, AtClose, CodexNumbers DEF Inv, CloseOK, Process, Types0
<1>3. PICK r \in Calls : call' = [call EXCEPT ![c] = r] /\ r.pc = "channel" /\ r.on = call[c].on
  <2>1. "channel" \in Closing
    BY DEF Closing
  <2>2. call' = [call EXCEPT ![c] = [call[c] EXCEPT !.pc = "channel"]]
    BY DEF CloseExit, Goes
  <2>3. QED
    BY <1>2, <2>1, <2>2, PcMoves
<1>4. call' \in [Callers -> Calls] /\ call'[c] = r /\ \A d \in Callers : d # c => call'[d] = call[d]
  BY <1>3, CallTypes DEF Inv
<1>5. PICK e \in Events : /\ events' = Append(events, e) /\ e.type = "exit" /\ e.turn = 0
                         /\ e.ref = proc.lastExit /\ e.sub = ""
  <2>1. PICK code \in Int : code = call[c].code
    BY <1>2 DEF Calls, Codes
  <2> DEFINE x == [type |-> "exit", turn |-> 0, ref |-> code, sub |-> ""]
  <2>2. events' = Append(events, x)
    BY <2>1 DEF CloseExit, Event
  <2>3. "exit" \in Types /\ "" \in Subtypes
    BY DEF Types, Subtypes
  <2>4. x \in Events /\ x.type = "exit" /\ x.turn = 0 /\ x.ref = code /\ x.sub = ""
    BY <2>3 DEF Events
  <2> HIDE DEF x
  <2>5. QED
    BY <1>2, <2>1, <2>2, <2>4
<1>6. /\ Heard' = Heard \cup {e}
      /\ \A m : Results(m)' = Results(m) + IF e.type = "result" /\ e.turn = m THEN 1 ELSE 0
      /\ events' \in Seq(Events) /\ Len(events') = Len(events) + 1 /\ Len(events) \in Nat
      /\ events'[Len(events) + 1] = e /\ \A k \in 1 .. Len(events) : events'[k] = events[k]
  BY <1>1, <1>5, GoesOut DEF Inv
<1>7. Types0'
  <2>1. Len(events') <= Capacity
    BY <1>1, <1>6, CodexNumbers
  <2>2. QED
    BY <1>1, <1>4, <1>6, <2>1 DEF Inv, Types0
<1>8. Serial'
  BY <1>1, <1>3, <1>4 DEF Inv, Serial
<1>9. \A m \in Turns : TurnOK(m)'
  <2>1. \A m \in Turns : Results(m)' = Results(m)
    <3>1. \A m \in Turns : Results(m) \in Nat
      BY ResultsType DEF Inv
    <3>2. e.type # "result"
      BY <1>5
    <3>3. \A m : Results(m)' = Results(m) + 0
      BY <1>6, <3>2
    <3>4. QED
      BY <3>1, <3>3
  <2>2. QED
    BY <1>1, <2>1, TurnStays
<1>10. \A d \in Callers : call'[d].pc \in Closing => d = c
  BY <1>2, <1>4
<1>11. CloseOK'
  BY <1>1, <1>2, <1>3, <1>4, <1>10 DEF CloseOK, Closing
<1>12. \A x \in Heard : x.type # "exit"
  BY <1>1, NoExitYet
<1>13. HeardOK'
  <2>1. \A k \in 1 .. Len(seen) : seen[k] \in Heard
    BY DEF Heard
  <2>2. \A k \in 1 .. Len(events) : events[k] \in Heard
    BY DEF Heard
  <2>3. \A k \in 1 .. Len(events') : events'[k].type = "exit" => k = Len(events')
    <3>1. \A k \in 1 .. Len(events') : k \in 1 .. Len(events) \/ k = Len(events')
      BY <1>6
    <3>2. QED
      BY <1>6, <1>12, <2>2, <3>1
  <2>4. \A k \in 1 .. Len(seen) : seen[k].type # "exit"
    BY <1>12, <2>1
  <2>5. ASSUME NEW x \in Heard'
        PROVE  /\ x.turn <= started /\ (x.sub = "interrupted" => x.turn \in stops)
               /\ x.type = "init" => x.ref = proc.thread /\ x.ref # 0
               /\ x.type = "exit" => x.ref = proc.lastExit
    <3>1. CASE x \in Heard
      BY <1>12, <3>1 DEF Inv, HeardOK
    <3>2. CASE x = e
      <4>1. x.turn = 0 /\ x.sub # "interrupted" /\ x.type # "init" /\ x.ref = proc.lastExit
        BY <1>5, <3>2
      <4>2. 0 <= started
        BY <1>2
      <4>3. QED
        BY <4>1, <4>2
    <3>3. QED
      BY <1>6, <3>1, <3>2
  <2>6. \E d \in Callers : call'[d].pc = "channel"
    BY <1>3, <1>4
  <2>7. QED
    BY <1>1, <2>3, <2>4, <2>5, <2>6 DEF HeardOK
<1>14. QED
  BY <1>7, <1>8, <1>9, <1>11, <1>13 DEF Inv

\* The channel is closed.
LEMMA CloseChannelKeeps ==
    ASSUME Inv, NEW c \in Callers, CloseChannel(c)
    PROVE  Inv'
<1>1. /\ call[c].pc = "channel" /\ call[c].pc \in Closing /\ chan' = "closed"
      /\ call' = [call EXCEPT ![c] = Idle]
      /\ UNCHANGED <<proc, events, turns, started, calls, seen, stops>>
  BY DEF CloseChannel, At, Closing, Returns
<1>2. /\ proc.closed /\ proc.cur = 0 /\ \A d \in Callers : call[d].pc \in Closing => d = c
  BY <1>1 DEF Inv, CloseOK
<1>3. call' \in [Callers -> Calls] /\ call'[c] = Idle /\ \A d \in Callers : d # c => call'[d] = call[d]
  BY <1>1, IdleCall, CallTypes DEF Inv
<1>4. Types0'
  BY <1>1, <1>3 DEF Inv, Types0
<1>5. Serial'
  <2>1. started \in Nat
    BY CodexNumbers DEF Inv, Types0
  <2>2. QED
    BY <1>1, <1>3, <2>1, IdleCall DEF Inv, Serial
<1>6. \A m \in Turns : TurnOK(m)'
  BY <1>1, NothingOut, TurnStays
<1>7. \A d \in Callers : call'[d].pc \notin Closing
  BY <1>2, <1>3, IdleCall DEF Closing
<1>8. CloseOK'
  BY <1>1, <1>2, <1>7 DEF CloseOK, Closing
<1>9. HeardOK'
  BY <1>1, HeardStays
<1>10. QED
  BY <1>4, <1>5, <1>6, <1>8, <1>9 DEF Inv

\* The pump receives.
LEMMA ReceiveKeeps ==
    ASSUME Inv, Receive
    PROVE  Inv'
<1>1. UNCHANGED <<proc, turns, call, chan, started, calls, stops>> /\ events # <<>>
  BY DEF Receive, memory
<1>2. /\ Heard' \subseteq Heard /\ \A n : Results(n)' = Results(n)
      /\ events' \in Seq(Events) /\ seen' \in Seq(Events) /\ Len(events') = Len(events) - 1
      /\ Len(events) \in Nat \ {0} /\ Len(seen) \in Nat
      /\ \A k \in 1 .. Len(events) - 1 : events'[k] = events[k + 1]
      /\ \/ seen' = seen /\ events[1].type # "exit"
         \/ /\ Len(seen') = Len(seen) + 1 /\ seen'[Len(seen) + 1] = events[1]
            /\ \A k \in 1 .. Len(seen) : seen'[k] = seen[k]
  BY Received DEF Inv
<1>3. Types0'
  <2>1. Len(events') <= Capacity
    BY <1>2, CodexNumbers DEF Inv, Types0
  <2>2. QED
    BY <1>1, <1>2, <2>1 DEF Inv, Types0
<1>4. Serial'
  BY <1>1 DEF Inv, Serial
<1>5. \A m \in Turns : TurnOK(m)'
  BY <1>1, <1>2, TurnStays
<1>6. CloseOK'
  BY <1>1, CloseStays
<1>7. HeardOK'
  <2>1. HeardOK
    BY DEF Inv
  <2>2. \A k \in 1 .. Len(seen) : seen[k].type # "exit"
    BY <1>1, <2>1 DEF HeardOK
  <2>3. \A k \in 1 .. Len(events) : events[k].type = "exit" => k = Len(events)
    BY <2>1 DEF HeardOK
  <2>4. \A k \in 1 .. Len(events') : events'[k].type = "exit" => k = Len(events')
    <3>1. \A k \in 1 .. Len(events') : k + 1 \in 1 .. Len(events) /\ events'[k] = events[k + 1]
      BY <1>2
    <3>2. QED
      BY <1>2, <2>3, <3>1
  <2>5. \A k \in 1 .. Len(seen') : seen'[k].type = "exit" => k = Len(seen') /\ events' = <<>>
    <3>1. CASE seen' = seen
      BY <2>2, <3>1
    <3>2. CASE /\ Len(seen') = Len(seen) + 1 /\ seen'[Len(seen) + 1] = events[1]
               /\ \A k \in 1 .. Len(seen) : seen'[k] = seen[k]
      <4>1. \A k \in 1 .. Len(seen') : k \in 1 .. Len(seen) \/ k = Len(seen')
        BY <1>2, <3>2
      <4>2. 1 \in 1 .. Len(events)
        BY <1>2
      <4>3. events[1].type = "exit" => Len(events') = 0
        BY <1>2, <2>3, <4>2
      <4>4. Len(events') = 0 => events' = <<>>
        BY <1>2
      <4>5. QED
        BY <2>2, <3>2, <4>1, <4>3, <4>4
    <3>3. QED
      BY <1>2, <3>1, <3>2
  <2>6. QED
    BY <1>1, <1>2, <2>1, <2>4, <2>5 DEF HeardOK
<1>8. QED
  BY <1>3, <1>4, <1>5, <1>6, <1>7 DEF Inv

-----------------------------------------------------------------------------
(* The invariant. *)

LEMMA InvAtStart ==
    ASSUME newProcess
    PROVE  Inv
<1>1. /\ events = <<>> /\ seen = <<>> /\ chan = "open" /\ started = 0 /\ calls = 0 /\ stops = {}
      /\ turns = [n \in Turns |-> NoTurn] /\ call = [c \in Callers |-> Idle]
  BY DEF newProcess
<1>2. NoTurn \in Turn /\ NoTurn.pc = "none" /\ NoTurn.pipe = <<>> /\ NoTurn.saw = FALSE
  BY CodexNumbers DEF NoTurn, Turn, Codes, Active
<1>3. /\ proc \in Process /\ proc.cur = 0 /\ proc.closed = FALSE /\ proc.interrupted = FALSE
      /\ proc.lastExit = 0
  <2>1. PICK th \in 0 .. Resumed :
           proc = [closed |-> FALSE, thread |-> th, cur |-> 0, interrupted |-> FALSE,
                   resultSent |-> FALSE, lastExit |-> 0]
    BY CodexNumbers DEF newProcess
  <2>2. QED
    BY <2>1, CodexNumbers DEF Process, Codes
<1>4. Len(events) = 0 /\ Len(seen) = 0 /\ events \in Seq(Events) /\ seen \in Seq(Events)
  BY <1>1
<1>5. \A n \in Turns : turns[n] = NoTurn
  BY <1>1
<1>6. Types0
  <2>1. \A n \in Turns : Len(turns[n].pipe) <= Pipe
    <3>1. Len(NoTurn.pipe) <= Pipe
      BY <1>2, CodexNumbers
    <3>2. QED
      BY <1>5, <3>1
  <2>2. QED
    BY <1>1, <1>2, <1>3, <1>4, <2>1, IdleCall, CodexNumbers DEF Types0, Process
<1>7. Serial
  BY <1>1, <1>3, IdleCall DEF Serial
<1>8. Heard = {}
  BY <1>4 DEF Heard
<1>9. \A n \in Turns : TurnOK(n)
  <2>1. SUFFICES ASSUME NEW n \in Turns PROVE TurnOK(n)
    OBVIOUS
  <2>2. Cardinality(Sent(seen, "result", n)) = 0 /\ Cardinality(Sent(events, "result", n)) = 0
    <3>1. ASSUME NEW q \in Seq(Events), Len(q) = 0 PROVE Cardinality(Sent(q, "result", n)) = 0
      <4>1. \A k \in 1 .. Len(q) : ~(q[k].type = "result" /\ q[k].turn = n)
        BY <3>1
      <4>2. QED
        BY <4>1, SentFinite
    <3>2. QED
      BY <1>4, <3>1
  <2>3. Results(n) = 0
    BY <2>2 DEF Results
  <2>4. n \in Nat /\ n # 0 /\ Len(NoTurn.pipe) = 0
    BY <1>2, CodexNumbers
  <2>5. QED
    BY <1>1, <1>2, <1>3, <1>5, <2>3, <2>4 DEF TurnOK, Active, Emitting, Over
<1>10. CloseOK
  BY <1>1, <1>3, IdleCall DEF CloseOK, Closing
<1>11. HeardOK
  BY <1>4, <1>8 DEF HeardOK
<1>12. QED
  BY <1>6, <1>7, <1>9, <1>10, <1>11 DEF Inv

LEMMA NextKeeps ==
    ASSUME Inv, CodexNext
    PROVE  Inv'
<1>1. ASSUME NEW c \in Callers, Send(c) \/ SendLook(c) \/ SendWait(c) \/ Interrupt(c) \/ InterruptKill(c)
      PROVE  Inv'
  BY <1>1, SendKeeps, SendLookKeeps, SendWaitKeeps, InterruptKeeps, InterruptKillKeeps
<1>2. ASSUME NEW c \in Callers, Close(c) \/ CloseStep(c)
      PROVE  Inv'
  BY <1>2, CloseKeeps, CloseGoesOn, CloseCodeKeeps, CloseExitKeeps, CloseChannelKeeps DEF CloseStep
<1>3. ASSUME NEW n \in Turns, Child(n) \/ TurnStep(n)
      PROVE  Inv'
  BY <1>3, ChildKeeps, ScanKeeps, EmitKeeps, ScanEndsKeeps, WaitKeeps, ResultKeeps, ClearKeeps, AnnounceKeeps
     DEF TurnStep
<1>4. QED
  BY <1>1, <1>2, <1>3, ReceiveKeeps DEF CodexNext

LEMMA StutterKeeps ==
    ASSUME Inv, UNCHANGED codexVars
    PROVE  Inv'
<1>1. UNCHANGED <<proc, events, chan, turns, started, call, calls, seen, stops>>
  BY DEF codexVars
<1>2. Types0' /\ Serial'
  BY <1>1 DEF Inv, Types0, Serial
<1>3. \A m \in Turns : TurnOK(m)'
  BY <1>1, NothingOut, TurnStays
<1>4. CloseOK'
  BY <1>1, CloseStays
<1>5. HeardOK'
  BY <1>1, HeardStays
<1>6. QED
  BY <1>2, <1>3, <1>4, <1>5 DEF Inv

\* What is out, what each turn has out, and who may still put something out
\* are in step in every state (Send, runTurn, Interrupt, Close).
THEOREM CodexInvHolds == CodexSpec => []Inv
<1>1. newProcess => Inv
  BY InvAtStart
<1>2. Inv /\ [CodexNext]_codexVars => Inv'
  BY NextKeeps, StutterKeeps
<1>3. QED
  BY <1>1, <1>2, PTL DEF CodexSpec

-----------------------------------------------------------------------------
(* The contract of the channel. *)

LEMMA AllHeard ==
    ASSUME Inv
    PROVE  /\ Len(seen \o events) = Len(seen) + Len(events) /\ Len(seen) \in Nat /\ Len(events) \in Nat
           /\ \A k \in 1 .. Len(seen \o events) :
                 /\ (seen \o events)[k] \in Heard
                 /\ (seen \o events)[k].type = "exit" => k = Len(seen \o events)
<1>1. events \in Seq(Events) /\ seen \in Seq(Events)
  BY DEF Inv, Types0
<1>2. Len(seen \o events) = Len(seen) + Len(events) /\ Len(seen) \in Nat /\ Len(events) \in Nat
  BY <1>1
<1>3. ASSUME NEW k \in 1 .. Len(seen \o events)
      PROVE  /\ (seen \o events)[k] \in Heard
             /\ (seen \o events)[k].type = "exit" => k = Len(seen \o events)
  <2>1. CASE k <= Len(seen)
    <3>1. k \in 1 .. Len(seen) /\ (seen \o events)[k] = seen[k]
      BY <1>1, <1>2, <2>1
    <3>2. seen[k].type = "exit" => k = Len(seen) /\ events = <<>>
      BY <3>1 DEF Inv, HeardOK
    <3>3. events = <<>> => Len(events) = 0
      OBVIOUS
    <3>4. QED
      BY <1>2, <3>1, <3>2, <3>3 DEF Heard
  <2>2. CASE k > Len(seen)
    <3>1. k - Len(seen) \in 1 .. Len(events) /\ (seen \o events)[k] = events[k - Len(seen)]
      BY <1>1, <1>2, <2>2
    <3>2. events[k - Len(seen)].type = "exit" => k - Len(seen) = Len(events)
      BY <3>1 DEF Inv, HeardOK
    <3>3. QED
      BY <1>2, <3>1, <3>2 DEF Heard
  <2>3. QED
    BY <1>2, <2>1, <2>2
<1>4. QED
  BY <1>2, <1>3

LEMMA HeardTypes ==
    ASSUME Inv
    PROVE  Heard \subseteq Events
<1>1. events \in Seq(Events) /\ seen \in Seq(Events)
  BY DEF Inv, Types0
<1>2. QED
  BY <1>1 DEF Heard

LEMMA TypesFollow ==
    ASSUME Inv
    PROVE  CodexTypeOK
<1>1. Types0 /\ Serial /\ started \in Nat /\ started <= MaxTurns
  BY CodexNumbers DEF Inv, Types0
<1>2. /\ proc.closed \in BOOLEAN /\ proc.interrupted \in BOOLEAN /\ proc.resultSent \in BOOLEAN
      /\ proc.thread \in 0 .. Resumed /\ proc.cur \in 0 .. started /\ proc.lastExit \in Codes
  BY <1>1, CodexNumbers DEF Types0, Serial
<1>3. \A k \in 1 .. Len(events) : /\ events[k].type \in Types /\ events[k].sub \in Subtypes
                                  /\ events[k].turn \in 0 .. started
  <2>1. SUFFICES ASSUME NEW k \in 1 .. Len(events)
                 PROVE  /\ events[k].type \in Types /\ events[k].sub \in Subtypes
                        /\ events[k].turn \in 0 .. started
    OBVIOUS
  <2>2. events[k] \in Events /\ events[k] \in Heard
    BY HeardTypes DEF Heard
  <2>3. events[k].turn <= started
    BY <2>2 DEF Inv, HeardOK
  <2>4. QED
    BY <1>1, <2>2, <2>3 DEF Events
<1>4. ASSUME NEW n \in Turns
      PROVE  /\ turns[n].pc \in {"none", "scan", "emit", "wait", "result", "last", "clear", "close", "done"}
             /\ turns[n].child \in {"none", "starting", "working", "reported", "failed", "exited"}
             /\ turns[n].code \in Codes /\ turns[n].resume \in 0 .. Resumed
             /\ Len(turns[n].pipe) <= Pipe /\ turns[n].items \in 0 .. MaxItems
             /\ (turns[n].pc = "none") = (n > started)
  <2>1. turns[n] \in Turn /\ Len(turns[n].pipe) <= Pipe /\ TurnOK(n)
    BY <1>1 DEF Inv, Types0
  <2>2. turns[n].pc = "none" <=> n > started
    BY <2>1 DEF TurnOK
  <2>3. (turns[n].pc = "none") = (n > started)
    BY <2>2
  <2>4. QED
    BY <2>1, <2>3 DEF Turn, Active
<1>5. \A c \in Callers : /\ call[c].op \in {"idle", "send", "interrupt", "close"}
                         /\ call[c].on \in 0 .. started /\ call[c].code \in Codes
  BY <1>1, CodexNumbers DEF Types0, Serial, Calls
<1>6. QED
  BY <1>1, <1>2, <1>3, <1>4, <1>5 DEF Types0, CodexTypeOK

LEMMA ResultsFollow ==
    ASSUME Inv
    PROVE  OneResultPerTurn /\ ResultIsKnown
<1>1. OneResultPerTurn
  <2>1. SUFFICES ASSUME NEW n \in Turns
                 PROVE  Results(n) <= 1 /\ (turns[n].pc \in {"clear", "close", "done"} => Results(n) = 1)
    BY DEF OneResultPerTurn
  <2>2. turns[n] \in Turn /\ TurnOK(n)
    BY DEF Inv, Types0
  <2>3. turns[n].pc \in {"none", "emit", "result", "last"} \cup {"scan", "wait"} \cup Over
    BY <2>2 DEF Turn, Active, Over
  <2>4. Results(n) \in {0, 1}
    BY <2>2, <2>3 DEF TurnOK
  <2>5. QED
    BY <2>2, <2>4 DEF TurnOK, Over
<1>2. ResultIsKnown
  <2>1. SUFFICES ASSUME proc.cur # 0, Results(proc.cur) > 0 PROVE proc.resultSent
    BY DEF ResultIsKnown
  <2>2. PICK n \in Turns : n = proc.cur
    BY <2>1, CodexNumbers DEF Inv, Types0
  <2>3. TurnOK(n) /\ Results(n) > 0
    BY <2>1, <2>2 DEF Inv
  <2>4. turns[n].pc \in Active
    BY <2>2, <2>3 DEF TurnOK
  <2>5. turns[n].pc \in {"scan", "wait"} => turns[n].saw
    BY <2>3 DEF TurnOK
  <2>6. turns[n].pc \notin {"emit", "result", "last"}
    BY <2>3 DEF TurnOK
  <2>7. QED
    BY <2>2, <2>3, <2>4, <2>5, <2>6 DEF TurnOK, Active
<1>3. QED
  BY <1>1, <1>2

LEMMA ExitFollows ==
    ASSUME Inv
    PROVE  ExitIsLast /\ ExitCodeOfLastTurn
<1>1. ExitIsLast
  <2>1. ASSUME chan = "closed", NEW n \in Turns
        PROVE  turns[n].pc \notin {"scan", "emit", "wait", "result", "last"}
    <3>1. proc.cur = 0 /\ TurnOK(n) /\ n # 0
      BY <2>1, CodexNumbers DEF Inv, CloseOK
    <3>2. QED
      BY <3>1 DEF TurnOK, Active
  <2>2. QED
    BY <2>1, AllHeard DEF ExitIsLast
<1>2. ExitCodeOfLastTurn
  <2>1. SUFFICES ASSUME NEW k \in 1 .. Len(seen \o events), (seen \o events)[k].type = "exit"
                 PROVE  (seen \o events)[k].ref = IF started = 0 THEN 0 ELSE turns[started].code
    BY DEF ExitCodeOfLastTurn
  <2>2. PICK e \in Heard : e = (seen \o events)[k]
    BY AllHeard
  <2>3. e.ref = proc.lastExit /\ (chan = "closed" \/ \E c \in Callers : call[c].pc = "channel")
    BY <2>1, <2>2 DEF Inv, HeardOK
  <2>4. proc.cur = 0
    BY <2>3 DEF Inv, CloseOK
  <2>5. CASE started = 0
    BY <2>2, <2>3, <2>5 DEF Inv, Serial
  <2>6. CASE started # 0
    <3>1. PICK n \in Turns : n = started
      BY <2>6, CodexNumbers DEF Inv, Types0
    <3>2. TurnOK(n) /\ turns[n] \in Turn /\ n # 0 /\ ~(n > started) /\ n \in Nat
      BY <3>1, CodexNumbers DEF Inv, Types0
    <3>3. turns[n].pc \in {"close", "done"}
      BY <2>4, <3>2 DEF TurnOK, Turn
    <3>4. proc.lastExit = turns[n].code
      BY <3>1, <3>2, <3>3 DEF TurnOK, Over
    <3>5. QED
      BY <2>2, <2>3, <2>6, <3>1, <3>4
  <2>7. QED
    BY <2>5, <2>6
<1>3. QED
  BY <1>1, <1>2

LEMMA ConversationFollows ==
    ASSUME Inv
    PROVE  OneConversation /\ InterruptedWasAsked
<1> DEFINE all == seen \o events
           inits == {k \in 1 .. Len(all) : all[k].type = "init"}
           refs == {all[k].ref : k \in inits}
<1>1. \A k \in 1 .. Len(all) : all[k] \in Heard
  BY AllHeard
<1>2. \A e \in Heard : /\ e.sub = "interrupted" => e.turn \in stops
                       /\ e.type = "init" => e.ref = proc.thread
  BY DEF Inv, HeardOK
<1>3. refs \subseteq {proc.thread}
  BY <1>1, <1>2
<1>4. Cardinality(refs) <= 1
  <2> HIDE DEF refs
  <2>1. IsFiniteSet({proc.thread}) /\ Cardinality({proc.thread}) = 1
    BY FS_Singleton
  <2>2. Cardinality(refs) <= Cardinality({proc.thread})
    BY <1>3, <2>1, FS_Subset
  <2>3. QED
    BY <2>1, <2>2
<1>5. OneConversation
  BY <1>4 DEF OneConversation
<1>6. InterruptedWasAsked
  BY <1>1, <1>2 DEF InterruptedWasAsked
<1>7. QED
  BY <1>5, <1>6

\* The channel of events keeps the contract of a harness process, whatever the
\* number of callers, turns and lines: one result a turn, which says interrupted
\* only when that was asked, one conversation, the exit last and with the code
\* of the last turn, and nothing sent once Close has closed the channel.
THEOREM ChannelKeepsContract == CodexSpec => []EventsOK
<1>1. Inv => EventsOK
  BY TypesFollow, ResultsFollow, ExitFollows, ConversationFollows DEF EventsOK
<1>2. QED
  BY <1>1, CodexInvHolds, PTL
=============================================================================
