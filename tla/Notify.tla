------------------------------- MODULE Notify -------------------------------
(***************************************************************************)
(* Notification channels (handlers and table) and the sending of events to *)
(* them (Engine.notify, internal/notify).  Admins create, change, test and *)
(* delete channels; a change reads the row and writes it back whole.  The  *)
(* engine lists the enabled channels, then posts to one after the other,   *)
(* each with at most one retry, while rows change and the server stops.    *)
(*                                                                         *)
(* Of a row, only what decides is kept: whether it takes the event (it is  *)
(* enabled, and lists it) and has a token; a token cannot be opened when   *)
(* the server comes back with another secret key.  A new channel has a new *)
(* id.                                                                     *)
(***************************************************************************)
EXTENDS Integers, Sequences

CONSTANTS Channels,      \* ids; ordered as the names are
          Editors,       \* changes in flight at a time
          MaxAsked,      \* bound: calls of admins
          MaxEvents,     \* bound: events of runs
          MaxStops       \* bound: restarts

ASSUME NotifyAssumption ==
    Channels \subseteq Nat \ {0} /\ {MaxAsked, MaxEvents, MaxStops} \subseteq Nat

Posters == {"engine", "test"}         \* Engine.notify and handleNotificationsTest
Tokens  == {"none", "sealed", "unreadable"}
Channel == [takes : BOOLEAN, token : Tokens]
Given(S) == {<<>>} \union {<<v>> : v \in S}   \* a field of a patch, if it is named
Patches == [takes : Given(BOOLEAN), token : Given({"none", "sealed"})]
NoChannel == [takes |-> FALSE]
NoChange == [ch |-> 0]
Quiet   == [pc |-> "quiet"]

VARIABLES
    channels,  \* channel -> its row
    patches,   \* editor -> the change in flight: the row it will write
    sending,   \* sender -> channels to go, and where it is with the next one
    stopping,  \* the context is done
    asked, events, stops, \* how many so far
    meant,     \* history: channel -> its row as the calls, one by one, ask for it
    overlapped,\* history: channels of which two changes were in flight at once
    posts,     \* history: sender -> channel -> outcomes of its posts of this event
    due        \* history: sender -> channels that this event was to reach

notifyVars == <<channels, patches, sending, stopping, asked, events, stops, meant,
                overlapped, posts, due>>

\* 2xx, another answer, 5xx, and an error of the transport.
Outcomes == {"ok", "refused", "failed", "lost"}

\* The types of the channels, the changes in flight and what is being sent.
NotifyTypeOK ==
    /\ \A c \in Channels : channels[c] = NoChannel \/ channels[c] \in Channel
    /\ \A a \in Editors : \/ patches[a] = NoChange
                         \/ patches[a] \in [ch : Channels, row : Channel]
    /\ \A s \in Posters :
          /\ sending[s] = Quiet \/
               /\ sending[s].pc \in {"next", "first", "delay", "second"}
               /\ sending[s].left \subseteq Channels
          /\ \A c \in Channels : posts[s][c] \in Seq(Outcomes)
          /\ due[s] \subseteq Channels
    /\ stopping \in BOOLEAN /\ overlapped \subseteq Channels
    /\ asked \in 0 .. MaxAsked /\ events \in 0 .. MaxEvents /\ stops \in 0 .. MaxStops

NoPosts == [c \in Channels |-> <<>>]
NotifyInit ==
    /\ channels = [c \in Channels |-> NoChannel] /\ meant = channels
    /\ patches = [a \in Editors |-> NoChange]
    /\ sending = [s \in Posters |-> Quiet] /\ stopping = FALSE
    /\ asked = 0 /\ events = 0 /\ stops = 0 /\ overlapped = {}
    /\ posts = [s \in Posters |-> NoPosts] /\ due = [s \in Posters |-> {}]

-----------------------------------------------------------------------------
(* The handlers. *)

Asks == asked < MaxAsked /\ asked' = asked + 1
Changing(c) == {a \in Editors : patches[a].ch = c}

handleNotificationsCreate(c) ==
    \E takes \in BOOLEAN, token \in {"none", "sealed"} :
        /\ Asks /\ channels[c] = NoChannel /\ Changing(c) = {}
        /\ channels' = [channels EXCEPT ![c] = [takes |-> takes, token |-> token]]
        /\ meant' = [meant EXCEPT ![c] = channels'[c]]
        /\ overlapped' = overlapped \ {c}
        /\ UNCHANGED <<patches, sending, stopping, events, stops, posts, due>>

\* Mutant: an empty token is sealed like any other.
PatchedSealsEmpty(row, patch) ==
    [f \in DOMAIN row |-> CASE patch[f] = <<>> -> row[f]
                            [] patch[f] = <<"none">> -> "sealed empty"
                            [] OTHER -> patch[f][1]]

\* What a patch makes of a row: an empty token is none, and a field that is not named stays.
Patched(row, patch) ==
    [f \in DOMAIN row |-> IF patch[f] = <<>> THEN row[f] ELSE patch[f][1]]
handleNotificationsPatch(a, c) ==
    \E patch \in Patches :
        /\ Asks /\ patches[a] = NoChange /\ channels[c] # NoChannel
        /\ patches' = [patches EXCEPT ![a] = [ch |-> c, row |-> Patched(channels[c], patch)]]
        /\ meant' = [meant EXCEPT ![c] = Patched(@, patch)]
        /\ overlapped' = IF Changing(c) = {} THEN overlapped ELSE overlapped \union {c}
        /\ UNCHANGED <<channels, sending, stopping, events, stops, posts, due>>

\* Mutant: a row without a token keeps the one that is stored.
UpdateKeepsToken(old, new) == IF new.token = "none" THEN [new EXCEPT !.token = old.token] ELSE new

\* Notifications.Update replaces every column, if the row is still there.
Replaced(old, new) == new
UpdateChannel(a) ==
    /\ patches[a] # NoChange /\ patches' = [patches EXCEPT ![a] = NoChange]
    /\ channels' = [channels EXCEPT ![patches[a].ch] = IF @ = NoChannel THEN @
                                                ELSE Replaced(@, patches[a].row)]
    /\ UNCHANGED <<sending, stopping, asked, events, stops, meant, overlapped, posts, due>>

handleNotificationsDelete(c) ==
    /\ Asks /\ channels[c] # NoChannel
    /\ channels' = [channels EXCEPT ![c] = NoChannel] /\ meant' = [meant EXCEPT ![c] = NoChannel]
    /\ UNCHANGED <<patches, sending, stopping, events, stops, overlapped, posts, due>>

\* A test goes to the channel whatever it takes, if its token can be opened.
handleNotificationsTest(c) ==
    /\ Asks /\ sending["test"] = Quiet /\ ~stopping
    /\ channels[c] # NoChannel /\ channels[c].token # "unreadable"
    /\ sending' = [sending EXCEPT !["test"] = [pc |-> "first", left |-> {c}]]
    /\ posts' = [posts EXCEPT !["test"] = NoPosts]
    /\ due' = [due EXCEPT !["test"] = {c}]
    /\ UNCHANGED <<channels, patches, stopping, events, stops, meant, overlapped>>

-----------------------------------------------------------------------------
(* Sending. *)

\* Engine.notify: the channels that take the event; one whose token
\* cannot be opened is left out.
ListEnabledFor == {c \in Channels : channels[c] # NoChannel /\ channels[c].takes}
notify ==
    LET readable == {c \in ListEnabledFor : channels[c].token # "unreadable"} IN
    /\ events < MaxEvents /\ events' = events + 1
    /\ sending["engine"] = Quiet /\ ~stopping
    /\ sending' = [sending EXCEPT !["engine"] =
                     [pc |-> "next", left |-> readable]]
    /\ posts' = [posts EXCEPT !["engine"] = NoPosts]
    /\ due' = [due EXCEPT !["engine"] = readable]
    /\ UNCHANGED <<channels, patches, stopping, asked, stops, meant, overlapped>>

Moves(s, pc) == sending' = [sending EXCEPT ![s].pc = pc]

\* Channels get their posts in the order of their names.
Current(s) == CHOOSE c \in sending[s].left : \A d \in sending[s].left : c <= d
Rest(s)    == sending[s].left \ {Current(s)}

\* Mutant: the channels after one that failed are not tried.
SendEndsAll(s, outcome) ==
    sending' = [sending EXCEPT ![s] = IF outcome # "ok" \/ Rest(s) = {} THEN Quiet
                                      ELSE [pc |-> "next", left |-> Rest(s)]]

\* Publish goes on with the next channel however Send ended.
SendEnds(s, outcome) ==
    sending' = [sending EXCEPT ![s] = IF Rest(s) = {} THEN Quiet
                                      ELSE [pc |-> "next", left |-> Rest(s)]]
PublishNext(s) ==
    /\ sending[s].pc = "next"
    /\ IF sending[s].left = {} THEN sending' = [sending EXCEPT ![s] = Quiet]
                                 ELSE Moves(s, "first")
    /\ UNCHANGED <<channels, patches, stopping, asked, events, stops, meant,
                   overlapped, posts, due>>

\* Mutant: whatever is not a success is tried again.
retryableAlways(outcome) == outcome # "ok"

\* attemptResult.retryable.
retryable(outcome) == outcome \in {"failed", "lost"}

\* doOnce: a post, unless the context is done before it is made.
doOnce(s, outcome) ==
    IF stopping THEN outcome = "lost" /\ posts' = posts
    ELSE posts' = [posts EXCEPT ![s][Current(s)] = Append(@, outcome)]
sendWithRetry(s) ==
    /\ \E outcome \in Outcomes :
          \/ /\ sending[s].pc = "first" /\ doOnce(s, outcome)
             /\ IF retryable(outcome) THEN Moves(s, "delay") ELSE SendEnds(s, outcome)
          \/ sending[s].pc = "second" /\ doOnce(s, outcome) /\ SendEnds(s, outcome)
    /\ UNCHANGED <<channels, patches, stopping, asked, events, stops, meant, overlapped, due>>
RetryDelay(s) ==
    /\ sending[s].pc = "delay"
    /\ Moves(s, "second") \/ (stopping /\ SendEnds(s, "lost"))
    /\ UNCHANGED <<channels, patches, stopping, asked, events, stops, meant,
                   overlapped, posts, due>>

-----------------------------------------------------------------------------
(* The server. *)

\* A signal: the contexts of the engine and of the asked are done.
Stop ==
    /\ ~stopping /\ stops < MaxStops /\ stopping' = TRUE /\ stops' = stops + 1
    /\ UNCHANGED <<channels, patches, sending, asked, events, meant, overlapped, posts, due>>

\* The server comes back, maybe with another secret key.
ComeBack ==
    /\ stopping /\ stopping' = FALSE
    /\ patches' = [a \in Editors |-> NoChange] /\ sending' = [s \in Posters |-> Quiet]
    /\ posts' = [s \in Posters |-> NoPosts] /\ due' = [s \in Posters |-> {}]
    /\ \/ channels' = channels
       \/ channels' = [c \in Channels |-> IF channels[c] # NoChannel /\ channels[c].token = "sealed"
                                      THEN [channels[c] EXCEPT !.token = "unreadable"] ELSE channels[c]]
    /\ meant' = channels' /\ overlapped' = {}
    /\ UNCHANGED <<asked, events, stops>>

NotifyNext ==
    \/ \E c \in Channels : \/ handleNotificationsCreate(c) \/ handleNotificationsDelete(c)
                           \/ handleNotificationsTest(c)
                           \/ \E a \in Editors : handleNotificationsPatch(a, c)
    \/ \E a \in Editors : UpdateChannel(a)
    \/ notify
    \/ \E s \in Posters : PublishNext(s) \/ sendWithRetry(s) \/ RetryDelay(s)
    \/ Stop \/ ComeBack

NotifySpec == NotifyInit /\ [][NotifyNext]_notifyVars

-----------------------------------------------------------------------------
(* Properties. *)

\* One channel's failure never affects another's delivery: when a call returns
\* and the server is not stopping, every channel it was to reach got at least
\* one post, whatever the channels before it answered and however the rows
\* changed meanwhile (Publish).
EveryChannelTried ==
    \A s \in Posters : sending[s] = Quiet /\ ~stopping =>
        \A c \in due[s] : posts[s][c] # <<>>

\* A channel gets a second post of an event only when the first failed in the
\* transport or with 5xx, and never a third; one that was reached or has
\* refused the event is not bothered again (sendWithRetry).
RetriedOnce ==
    \A s \in Posters, c \in Channels :
        /\ Len(posts[s][c]) <= 2
        /\ Len(posts[s][c]) = 2 => posts[s][c][1] \in {"failed", "lost"}

\* An event reaches for every channel that wants it, whatever the others do,
\* and bothers none of them more than it has to (Publish, sendWithRetry).
PublishOK == NotifyTypeOK /\ EveryChannelTried /\ RetriedOnce

\* When no change is in flight, a channel is as the calls have asked for, one
\* after the other: a token that was cleared is gone and one that was not named
\* is kept.  Two changes that overlapped are excepted: the later writes back
\* what it read before the earlier wrote, a cleared token included (Patch).
ChannelAsAsked ==
    \A c \in Channels \ overlapped : Changing(c) = {} => channels[c] = meant[c]
=============================================================================
