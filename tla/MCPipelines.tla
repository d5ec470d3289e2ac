---------------------------- MODULE MCPipelines ----------------------------
(***************************************************************************)
(* Instances of Pipelines and Definitions for TLC.  A behaviour is that of  *)
(* the executor with one definition, or of Validate with any of many.       *)
(*   Fan: a fan-out over the run's input, a step that waits for all of its  *)
(*   items, and a fan-out without an id that needs a step there is not.     *)
(*   Inputs: every graph of three steps, of which ids may be missing or     *)
(*   shared and needs may be unknown or named twice, and one or two steps   *)
(*   with everything else that may be wrong.                                *)
(***************************************************************************)
EXTENDS Pipelines, Definitions

FanNeeds   == <<{}, {1}, {NoStep}>>
FanRetries == <<0, 1, 0>>

Ids(i)    == CASE i = 1 -> {NoId, "a"} [] i = 2 -> {NoId, "a", "b"} [] OTHER -> {"a", "b", "c"}
NeedLists == {<<>>, <<"a">>, <<"b">>, <<"c">>, <<"a", "b">>, <<"b", "c">>, <<"a", "a">>, <<"b", "x">>,
              <<NoId>>}
GoodStep(id, needs) == [id |-> id, needs |-> needs, worktree |-> "own", retries |-> 0,
                        template |-> TRUE, syntax |-> TRUE]
Text(steps) == [yaml |-> TRUE, timeout |-> "allowed", workspace |-> "named", steps |-> steps]
GraphInputs ==
    {Text([i \in 1 .. 3 |-> GoodStep(g[i][1], g[i][2])]) :
        g \in (Ids(1) \X NeedLists) \X (Ids(2) \X NeedLists) \X (Ids(3) \X NeedLists)}
FaultSteps ==
    {[GoodStep("b", needs) EXCEPT !.worktree = w, !.retries = r, !.template = t, !.syntax = s] :
        needs \in {<<>>, <<"a">>, <<"x">>}, w \in Worktrees, r \in {-1, 1, 2}, t \in BOOLEAN, s \in BOOLEAN}
FaultInputs ==
    {[yaml |-> y, timeout |-> t, workspace |-> w, steps |-> <<GoodStep("a", <<>>), s>>] :
        y \in BOOLEAN, t \in Timeouts, w \in {"unnamed", "named", "misnamed", "hidden"}, s \in FaultSteps}
MCInputs ==
    GraphInputs \cup FaultInputs
    \cup {Text(<<>>), Text([i \in 1 .. 4 |-> GoodStep(<<"a", "b", "c", "d">>[i], <<>>)])}

VARIABLE part
PipelinesInit ==
    \/ part = "executor" /\ Init /\ input = Text(<<>>) /\ DefinitionsInit
    \/ part = "validate" /\ Init /\ DefinitionsInit
PipelinesNext ==
    \/ part = "executor" /\ Next /\ UNCHANGED <<definitionVars, part>>
    \/ part = "validate" /\ DefinitionsNext /\ UNCHANGED <<vars, part>>
PipelinesSpec ==
    /\ PipelinesInit /\ [][PipelinesNext]_<<vars, definitionVars, part>>
    /\ Fairness
=============================================================================
