-------------------------------- MODULE Codex --------------------------------
(***************************************************************************)
(* The Codex harness (internal/harness/codex/process.go, codec.go).  The    *)
(* CLI takes one prompt and exits, so a process here is a row of children,  *)
(* one for each turn, behind one channel of events that only Close closes.  *)
(* Send, Interrupt and Close are called by any goroutine of the sessions    *)
(* service; every turn has a goroutine (runTurn) that reads its child; the  *)
(* pump of the session receives.  What the lock of the process guards is    *)
(* one step; what comes between two holds of it is interleaved.             *)
(***************************************************************************)
EXTENDS Integers, Sequences, FiniteSets

CONSTANTS Callers,    \* goroutines that call the process
          MaxCalls,   \* bound: calls in a behaviour
          MaxTurns,   \* bound: children started
          Items,      \* the lines a child may print between first and last
          MaxItems,   \* bound: such lines of one child
          Pipe,       \* bound: lines in the pipe of a child
          Capacity    \* of the events channel (256 in the code)

ASSUME CodexAssumption ==
    /\ {MaxCalls, MaxTurns, MaxItems} \subseteq Nat
    /\ {Pipe, Capacity} \subseteq Nat \ {0}
    /\ {"thread.started", "turn.completed", "turn.failed"} \cap Items = {}

VARIABLES proc,     \* the fields of the process under its lock; cur stands for
                    \* cur and turnDone, which are set and cleared together
          events, chan, \* the channel: what it holds, and whether it is open
          turns,    \* a turn: its goroutine, its child and the pipe between
          started,  \* turns so far
          call, calls, \* what each caller is doing, and how many calls so far
          seen,     \* history: what the pump has received, less text and tools
          stops     \* history: the turns an Interrupt was called for

codexVars == <<proc, events, chan, turns, started, call, calls, seen, stops>>
memory == <<chan, started, calls, stops>>

Turns    == 1 .. MaxTurns
Resumed  == MaxTurns + 1      \* the thread a StartSpec names
Codes    == {-1, 0, 1}        \* -1: the child was killed
Idle     == [op |-> "idle", pc |-> "idle", on |-> 0, code |-> 0]
NoTurn   == [pc |-> "none", child |-> "none", code |-> 0, held |-> FALSE, items |-> 0,
             pipe |-> <<>>, rest |-> <<>>, saw |-> FALSE, resume |-> 0]
Event(type, n, ref, sub) == [type |-> type, turn |-> n, ref |-> ref, sub |-> sub]
Types    == {"init", "text", "tool_use", "tool_result", "raw", "result", "exit"}
Subtypes == {"", "success", "error", "interrupted"}

\* The process struct, its channel, its turns and its callers have their types.
CodexTypeOK ==
    /\ proc.closed \in BOOLEAN /\ proc.interrupted \in BOOLEAN /\ proc.resultSent \in BOOLEAN
    /\ proc.thread \in 0 .. Resumed /\ proc.cur \in 0 .. started /\ proc.lastExit \in Codes
    /\ chan \in {"open", "closed"}
    /\ Len(events) <= Capacity
    /\ \A k \in 1 .. Len(events) : /\ events[k].type \in Types /\ events[k].sub \in Subtypes
                                   /\ events[k].turn \in 0 .. started
    /\ \A n \in Turns :
          /\ turns[n].pc \in {"none", "scan", "emit", "wait", "result", "last", "clear", "close", "done"}
          /\ turns[n].child \in {"none", "starting", "working", "reported", "failed", "exited"}
          /\ turns[n].code \in Codes /\ turns[n].resume \in 0 .. Resumed
          /\ Len(turns[n].pipe) <= Pipe /\ turns[n].items \in 0 .. MaxItems
          /\ (turns[n].pc = "none") = (n > started)
    /\ \A c \in Callers : /\ call[c].op \in {"idle", "send", "interrupt", "close"}
                          /\ call[c].on \in 0 .. started /\ call[c].code \in Codes
    /\ calls \in 0 .. MaxCalls /\ stops \subseteq Turns

\* newProcess: nothing is started, and the conversation to go on with is known.
newProcess ==
    /\ proc \in {[closed |-> FALSE, thread |-> t, cur |-> 0, interrupted |-> FALSE,
                  resultSent |-> FALSE, lastExit |-> 0] : t \in {0, Resumed}}
    /\ events = <<>> /\ chan = "open"
    /\ turns = [n \in Turns |-> NoTurn] /\ started = 0
    /\ call = [c \in Callers |-> Idle] /\ calls = 0 /\ seen = <<>> /\ stops = {}

-----------------------------------------------------------------------------
At(c, pc)    == call[c].pc = pc
Goes(c, pc)  == call' = [call EXCEPT ![c].pc = pc]
Returns(c)   == call' = [call EXCEPT ![c] = Idle]
Begins(c)    == call[c] = Idle /\ calls < MaxCalls /\ calls' = calls + 1
Ended(n)     == turns[n].pc = "done"
Room         == Len(events) < Capacity
\* Kill of a child that is gone changes nothing.  A process it started may
\* still hold its output (external).
Kill(n) ==
    \E h \in BOOLEAN :
       turns' = [turns EXCEPT ![n] = IF @.child = "exited" THEN @
                                     ELSE [@ EXCEPT !.child = "exited", !.code = -1, !.held = h]]

-----------------------------------------------------------------------------
(* Send. *)

\* Mutant: the flag of an earlier turn stays.
StartTurnKeepsFlag(n) ==
    /\ turns' = [turns EXCEPT ![n] = [NoTurn EXCEPT !.pc = "scan", !.child = "starting",
                                                   !.resume = proc.thread]]
    /\ proc' = [proc EXCEPT !.cur = n, !.resultSent = FALSE]
    /\ started' = n
\* The child of a turn: fresh, or a resume of the thread the process knows.
StartTurn(n) ==
    /\ turns' = [turns EXCEPT ![n] = [NoTurn EXCEPT !.pc = "scan", !.child = "starting",
                                                   !.resume = proc.thread]]
    /\ proc' = [proc EXCEPT !.cur = n, !.interrupted = FALSE, !.resultSent = FALSE]
    /\ started' = n

Send(c) ==
    /\ Begins(c) /\ call' = [call EXCEPT ![c] = [Idle EXCEPT !.op = "send", !.pc = "look"]]
    /\ UNCHANGED <<proc, events, chan, turns, started, seen, stops>>
\* Closed and a turn at work refuse; a turn that is winding down is waited
\* for; otherwise a child is started, unless that fails.
SendLook(c) ==
    /\ At(c, "look")
    /\ \/ /\ proc.closed \/ proc.cur = 0 \/ ~proc.resultSent
          /\ Returns(c) /\ UNCHANGED <<proc, turns, started>>
       \/ /\ ~proc.closed /\ proc.cur = 0 /\ started < MaxTurns
          /\ StartTurn(started + 1) /\ Returns(c)
       \/ /\ ~proc.closed /\ proc.cur # 0 /\ proc.resultSent
          /\ call' = [call EXCEPT ![c].pc = "wait", ![c].on = proc.cur]
          /\ UNCHANGED <<proc, turns, started>>
    /\ UNCHANGED <<events, chan, calls, seen, stops>>
\* The turn is over, or the request is.
SendWait(c) ==
    /\ At(c, "wait")
    /\ (Ended(call[c].on) /\ Goes(c, "look")) \/ Returns(c)
    /\ UNCHANGED <<proc, turns, events, seen, memory>>

-----------------------------------------------------------------------------
(* The child (external), and runTurn, which reads it. *)

Prints(n, line, child) ==
    /\ Len(turns[n].pipe) < Pipe
    /\ turns' = [turns EXCEPT ![n].pipe = Append(@, line), ![n].child = child,
                              ![n].items = IF line \in Items THEN @ + 1 ELSE @]
Child(n) ==
    /\ \/ turns[n].child = "starting" /\ Prints(n, "thread.started", "working")
       \/ /\ turns[n].child = "working"
          /\ \/ turns[n].items < MaxItems /\ \E line \in Items : Prints(n, line, "working")
             \/ Prints(n, "turn.completed", "reported")
             \/ Prints(n, "turn.failed", "failed")
       \/ /\ turns[n].child \in {"starting", "working", "reported", "failed"}
          /\ \E h \in BOOLEAN :
                turns' = [turns EXCEPT ![n].child = "exited", ![n].held = h,
                                       ![n].code = IF turns[n].child = "reported" THEN 0 ELSE 1]
       \/ turns[n].held /\ turns' = [turns EXCEPT ![n].held = FALSE]
    /\ UNCHANGED <<proc, events, call, seen, memory>>

\* The events of an item: announced with its inputs, completed with its result.
decodeItem(line) ==
    CASE line = "command started"    -> <<"tool_use">>
      [] line = "changes started"    -> <<"tool_use", "tool_use">>
      [] line \in {"command completed", "changes completed"} -> <<"tool_result">>
      [] line = "message completed"  -> <<"text">>
      [] line \in {"message started", "reasoning", "updated"} -> <<>>
      [] OTHER -> <<"raw">>
\* The events of a line.  A resumed child reports the thread it was given.
DecodeLine(n, line) ==
    LET id   == IF turns[n].resume # 0 THEN turns[n].resume ELSE n
        made == decodeItem(line)
    IN  CASE line = "thread.started" -> <<Event("init", n, id, "")>>
          [] line = "turn.completed" -> <<Event("result", n, 0, "success")>>
          [] line = "turn.failed"    -> <<Event("result", n, 0, "error")>>
          [] line = "turn.started"   -> <<>>
          [] OTHER -> [k \in 1 .. Len(made) |-> Event(made[k], n, 0, "")]

\* Mutant: the thread a child reports is not kept.
NotedNoThread(p, evs) ==
    [p EXCEPT !.resultSent = @ \/ (evs # <<>> /\ Head(evs).type = "result")]
\* Mutant: that a result is on its way is not noted.
NotedNoResult(p, evs) ==
    [p EXCEPT !.thread = IF evs # <<>> /\ Head(evs).type = "init" THEN Head(evs).ref ELSE @]
\* What a line changes in the process before its events go out.
Noted(p, evs) ==
    [p EXCEPT !.thread = IF evs # <<>> /\ Head(evs).type = "init" THEN Head(evs).ref ELSE @,
              !.resultSent = @ \/ (evs # <<>> /\ Head(evs).type = "result")]
\* A line is decoded, and the decoder remembers a result.
Scan(n) ==
    /\ turns[n].pc = "scan" /\ turns[n].pipe # <<>>
    /\ LET evs == DecodeLine(n, Head(turns[n].pipe))
       IN  /\ proc' = Noted(proc, evs)
           /\ turns' = [turns EXCEPT ![n].pipe = Tail(@), ![n].rest = evs,
                                     ![n].pc = IF evs = <<>> THEN "scan" ELSE "emit",
                                     ![n].saw = @ \/ (evs # <<>> /\ Head(evs).type = "result")]
    /\ UNCHANGED <<events, call, seen, memory>>
\* An event goes out when the channel has room.
Emit(n) ==
    /\ turns[n].pc \in {"emit", "last"} /\ Room /\ chan = "open"
    /\ events' = Append(events, Head(turns[n].rest))
    /\ turns' = [turns EXCEPT ![n].rest = Tail(@),
                              ![n].pc = IF Len(turns[n].rest) > 1 THEN @
                                        ELSE IF @ = "last" THEN "clear" ELSE "scan"]
    /\ UNCHANGED <<proc, call, seen, memory>>
\* Both outputs of the child are at their end, and nobody else holds them.
ScanEnds(n) ==
    /\ turns[n].pc = "scan" /\ turns[n].pipe = <<>>
    /\ turns[n].child = "exited" /\ ~turns[n].held
    /\ turns' = [turns EXCEPT ![n].pc = "wait"]
    /\ UNCHANGED <<proc, events, call, seen, memory>>

\* Mutant: a subtype no reader of results knows.
SynthesisedUnknown(n) == Event("result", n, 0, "killed")
\* The result of a turn whose child reported none.
Synthesised(n) == Event("result", n, 0, IF proc.interrupted THEN "interrupted" ELSE "error")
\* Mutant: a result is made whether or not the child reported one.
WaitAlways(n) ==
    /\ turns[n].pc = "wait" /\ proc' = [proc EXCEPT !.lastExit = turns[n].code]
    /\ turns' = [turns EXCEPT ![n].pc = "result", ![n].rest = <<Synthesised(n)>>]
    /\ UNCHANGED <<events, call, seen, memory>>
\* cmd.Wait: the exit code is kept, and the turn gets a result if it had none.
Wait(n) ==
    /\ turns[n].pc = "wait" /\ proc' = [proc EXCEPT !.lastExit = turns[n].code]
    /\ turns' = [turns EXCEPT ![n].pc = IF turns[n].saw THEN "clear" ELSE "result",
                              ![n].rest = IF turns[n].saw THEN <<>> ELSE <<Synthesised(n)>>]
    /\ UNCHANGED <<events, call, seen, memory>>
\* Mutant: the turn is forgotten before its last event is out.
ResultClears(n) ==
    /\ turns[n].pc = "result" /\ turns' = [turns EXCEPT ![n].pc = "last"]
    /\ proc' = [proc EXCEPT !.resultSent = TRUE, !.cur = 0]
    /\ UNCHANGED <<events, call, seen, memory>>
Result(n) ==
    /\ turns[n].pc = "result" /\ turns' = [turns EXCEPT ![n].pc = "last"]
    /\ proc' = [proc EXCEPT !.resultSent = TRUE]
    /\ UNCHANGED <<events, call, seen, memory>>
\* The deferred calls: the turn is cleared, then its end announced.
Clear(n) ==
    /\ turns[n].pc = "clear" /\ turns' = [turns EXCEPT ![n].pc = "close"]
    /\ proc' = [proc EXCEPT !.cur = 0]
    /\ UNCHANGED <<events, call, seen, memory>>
Announce(n) ==
    /\ turns[n].pc = "close" /\ turns' = [turns EXCEPT ![n].pc = "done"]
    /\ UNCHANGED <<proc, events, call, seen, memory>>

-----------------------------------------------------------------------------
(* Interrupt and Close. *)

\* Nothing to do for an idle process or a turn that has reported.
Interrupt(c) ==
    /\ Begins(c)
    /\ IF proc.cur = 0 \/ proc.resultSent
       THEN UNCHANGED <<proc, call, stops>>
       ELSE /\ proc' = [proc EXCEPT !.interrupted = TRUE] /\ stops' = stops \cup {proc.cur}
            /\ call' = [call EXCEPT ![c] = [Idle EXCEPT !.op = "interrupt", !.pc = "stop",
                                                        !.on = proc.cur]]
    /\ UNCHANGED <<events, chan, turns, started, seen>>
InterruptKill(c) ==
    /\ At(c, "stop") /\ Kill(call[c].on) /\ Returns(c)
    /\ UNCHANGED <<proc, events, seen, memory>>

\* Only the first call does anything.
Close(c) ==
    /\ Begins(c)
    /\ IF proc.closed THEN UNCHANGED <<proc, call>>
       ELSE /\ proc' = [proc EXCEPT !.closed = TRUE]
            /\ call' = [call EXCEPT ![c] = [op |-> "close", on |-> proc.cur, code |-> 0,
                                            pc |-> IF proc.cur = 0 THEN "code"
                                                   ELSE IF proc.resultSent THEN "grace" ELSE "kill"]]
    /\ UNCHANGED <<events, chan, turns, started, seen, stops>>
\* A turn that has reported is given closeGrace to end by itself.
CloseGrace(c) ==
    /\ At(c, "grace")
    /\ Goes(c, IF Ended(call[c].on) THEN "code" ELSE "kill")
    /\ UNCHANGED <<proc, turns, events, seen, memory>>
\* Mutant: the child is left to itself.
CloseKillNothing(c) ==
    /\ At(c, "kill") /\ Goes(c, "await")
    /\ UNCHANGED <<proc, turns, events, seen, memory>>
CloseKill(c) ==
    /\ At(c, "kill") /\ Kill(call[c].on) /\ Goes(c, "await")
    /\ UNCHANGED <<proc, events, seen, memory>>
\* Mutant: the deadline of the caller is the end of the wait.
CloseAwaitDeadline(c) ==
    /\ At(c, "await") /\ Goes(c, "code")
    /\ UNCHANGED <<proc, turns, events, seen, memory>>
\* The end of the turn is waited for whatever the deadline of the caller is.
CloseAwait(c) ==
    /\ At(c, "await") /\ Ended(call[c].on) /\ Goes(c, "code")
    /\ UNCHANGED <<proc, turns, events, seen, memory>>
CloseCode(c) ==
    /\ At(c, "code")
    /\ call' = [call EXCEPT ![c].pc = "exit", ![c].code = proc.lastExit]
    /\ UNCHANGED <<proc, events, chan, turns, started, calls, seen, stops>>
CloseExit(c) ==
    /\ At(c, "exit") /\ Room /\ Goes(c, "channel")
    /\ events' = Append(events, Event("exit", 0, call[c].code, ""))
    /\ UNCHANGED <<proc, turns, seen, memory>>
CloseChannel(c) ==
    /\ At(c, "channel") /\ chan' = "closed" /\ Returns(c)
    /\ UNCHANGED <<proc, events, turns, started, calls, seen, stops>>

\* The pump of the session receives.
Receive ==
    /\ events # <<>> /\ events' = Tail(events)
    /\ seen' = IF Head(events).type \in {"init", "result", "exit"}
               THEN Append(seen, Head(events)) ELSE seen
    /\ UNCHANGED <<proc, turns, call, memory>>

-----------------------------------------------------------------------------
TurnStep(n)  == Scan(n) \/ Emit(n) \/ ScanEnds(n) \/ Wait(n) \/ Result(n) \/ Clear(n) \/ Announce(n)
CloseStep(c) == \/ CloseGrace(c) \/ CloseKill(c) \/ CloseAwait(c)
                \/ CloseCode(c) \/ CloseExit(c) \/ CloseChannel(c)
CodexNext ==
    \/ \E c \in Callers : Send(c) \/ SendLook(c) \/ SendWait(c) \/ Interrupt(c) \/ InterruptKill(c)
    \/ \E c \in Callers : Close(c) \/ CloseStep(c)
    \/ \E n \in Turns : Child(n) \/ TurnStep(n)
    \/ Receive
\* Goroutines run on, the pump receives and timers fire; a child need not do
\* anything, nor need a process that holds its output ever end.
CodexFairness ==
    /\ \A n \in Turns : WF_codexVars(TurnStep(n))
    /\ \A c \in Callers : WF_codexVars(CloseStep(c)) /\ WF_codexVars(InterruptKill(c))
    /\ WF_codexVars(Receive)
CodexSpec == newProcess /\ [][CodexNext]_codexVars /\ CodexFairness

-----------------------------------------------------------------------------
(* Properties. *)

Sent(q, type, n) == {k \in 1 .. Len(q) : q[k].type = type /\ q[k].turn = n}
Results(n) == Cardinality(Sent(seen, "result", n)) + Cardinality(Sent(events, "result", n))

\* Nothing is sent on the channel after Close has closed it (it would panic),
\* and the exit event is the last the pump receives, although Close decides
\* whether there is a turn to wait for while that turn is ending.
ExitIsLast ==
    /\ chan = "closed" => \A n \in Turns : turns[n].pc \notin {"scan", "emit", "wait", "result", "last"}
    /\ LET all == seen \o events
       IN  \A k \in 1 .. Len(all) : all[k].type = "exit" => k = Len(all)

\* A turn has one result, no more and, once it is over, no less, whether its
\* child completed, failed, was killed or never said anything.
OneResultPerTurn ==
    \A n \in Turns : /\ Results(n) <= 1
                     /\ turns[n].pc \in {"clear", "close", "done"} => Results(n) = 1

\* A result says interrupted only in a turn an Interrupt was called for: the
\* flag does not survive into the next turn.
InterruptedWasAsked ==
    LET all == seen \o events
    IN  \A k \in 1 .. Len(all) : all[k].sub = "interrupted" => all[k].turn \in stops

\* Who has seen the result of the current turn can send the next one: Send
\* waits for such a turn and does not refuse.
ResultIsKnown ==
    proc.cur # 0 /\ Results(proc.cur) > 0 => proc.resultSent

\* All turns of a process belong to one conversation: the threads its children
\* report are the same, however many of them failed or were killed.
OneConversation ==
    LET all == seen \o events
    IN  Cardinality({all[k].ref : k \in {k \in 1 .. Len(all) : all[k].type = "init"}}) <= 1

\* The exit event carries the exit code of the last turn that was started.
ExitCodeOfLastTurn ==
    LET all == seen \o events
    IN  \A k \in 1 .. Len(all) :
           all[k].type = "exit" => all[k].ref = IF started = 0 THEN 0 ELSE turns[started].code

\* The channel of events keeps the contract of a harness process although each
\* turn is a child of its own: a result per turn that tells the truth, one
\* conversation, and one exit, at the end (Send, runTurn, Close).
EventsOK ==
    /\ CodexTypeOK /\ ExitIsLast /\ OneResultPerTurn /\ InterruptedWasAsked
    /\ ResultIsKnown /\ OneConversation /\ ExitCodeOfLastTurn

\* Close ends, and closes the channel, whatever the child does; only a process
\* of the child's that holds its output open can keep it waiting.
CloseEnds ==
    (\E c \in Callers : call[c].op = "close") ~> (chan = "closed" \/ \E n \in Turns : turns[n].held)
=============================================================================
