---------------------------- MODULE Definitions ----------------------------
(***************************************************************************)
(* Pipeline definitions (internal/pipelines/def.go): Parse, the levels that *)
(* topo finds, and the problems Validate reports.  CreatePipeline,          *)
(* UpdatePipeline and Start go on only with a definition without problems;  *)
(* what the executor (module Pipelines) assumes of the steps it runs rests  *)
(* on that.                                                                 *)
(*                                                                         *)
(* A step is known by its position.  An id names the first step that has    *)
(* it.  Expressions are well formed or not, a template exists or does not,  *)
(* a duration is one of a few; lines and wording are left out.              *)
(***************************************************************************)
EXTENDS Integers, Sequences, FiniteSets

CONSTANTS Inputs,      \* the definitions that are handed in
          MaxSteps,    \* 20 in the code
          MaxRetries   \* 3 in the code

NoId      == "none"
Timeouts  == {"unset", "unparsable", "negative", "allowed", "too long"}
Worktrees == {"", "own", "shared", "other"}
ASSUME InputsOK ==
    /\ {MaxSteps, MaxRetries} \subseteq Nat
    /\ \A in \in Inputs :
          /\ in.yaml \in BOOLEAN /\ in.timeout \in Timeouts
          /\ in.workspace \in {"unnamed", "named", "misnamed", "hidden"}
          /\ Len(in.steps) \in Nat
          /\ \A i \in 1 .. Len(in.steps) :
                LET s == in.steps[i]
                IN  /\ Len(s.needs) \in Nat /\ s.template \in BOOLEAN /\ s.syntax \in BOOLEAN
                    /\ s.worktree \in Worktrees /\ s.retries \in Int

VARIABLES input,     \* the text, as the decoder of yaml sees it
          def,       \* the Definition
          problems,  \* what is wrong with it
          indegree,  \* of every step that its id names: needs not yet met
          queue,     \* those of the next level
          levels,    \* the levels so far
          stage

definitionVars == <<input, def, problems, indegree, queue, levels, stage>>

Count(s, x) == Cardinality({k \in 1 .. Len(s) : s[k] = x})
Positions   == 1 .. Len(def.steps)
Id(i)       == def.steps[i].id
NeedList(i) == def.steps[i].needs
\* idIndex: the step an id names, 0 for an id no step has.
idIndex(id) ==
    LET has == {i \in Positions : Id(i) = id}
    IN  IF id = NoId \/ has = {} THEN 0 ELSE CHOOSE i \in has : \A j \in has : i <= j
First       == {i \in Positions : Id(i) # NoId /\ idIndex(Id(i)) = i}
Problem(kind, i) == [kind |-> kind, step |-> i]

\* Problems, degrees and levels have their types.
DefinitionsTypeOK ==
    /\ stage \in {"parse", "graph", "level", "check", "done"}
    /\ problems \subseteq [kind : {"yaml", "duration", "workspace", "steps", "timeout", "duplicate",
                                   "worktree", "shared", "retries", "template", "syntax",
                                   "unknown", "order", "cycle"}, step : 0 .. Len(input.steps)]
    /\ queue \subseteq First /\ \A k \in 1 .. Len(levels) : levels[k] \subseteq First
    /\ stage \in {"level", "check", "done"} => indegree \in [First -> Nat]

Unparsed == [timeout |-> "unset", steps |-> <<>>]
DefinitionsInit ==
    /\ input \in Inputs /\ def = Unparsed /\ problems = {}
    /\ indegree = <<>> /\ queue = {} /\ levels = <<>> /\ stage = "parse"

-----------------------------------------------------------------------------
\* Yaml that does not decode leaves an empty definition, a duration that does
\* not parse leaves the default.
Parse ==
    /\ stage = "parse" /\ stage' = "graph"
    /\ IF input.yaml
       THEN /\ def' = [timeout |-> IF input.timeout = "unparsable" THEN "unset" ELSE input.timeout,
                       steps |-> input.steps]
            /\ problems' = IF input.timeout = "unparsable" THEN {Problem("duration", 0)} ELSE {}
       ELSE def' = Unparsed /\ problems' = {Problem("yaml", 0)}
    /\ UNCHANGED <<input, indegree, queue, levels>>

\* Mutant: a step that is needed twice counts once.
IndegreeOfSet(i) == Cardinality({j \in First : Count(NeedList(i), Id(j)) > 0})
\* Mutant: a step does not wait for itself.
IndegreeNoSelf(i) ==
    Cardinality({k \in 1 .. Len(NeedList(i)) : idIndex(NeedList(i)[k]) \notin {0, i}})
\* The needs of a step that name one, each as often as it is written.
Indegree(i) == Cardinality({k \in 1 .. Len(NeedList(i)) : idIndex(NeedList(i)[k]) # 0})
TopoStart ==
    /\ stage = "graph" /\ stage' = "level"
    /\ indegree' = [i \in First |-> Indegree(i)]
    /\ queue' = {i \in First : Indegree(i) = 0}
    /\ UNCHANGED <<input, def, problems, levels>>

\* Mutant: a step is next when one of its needs is met.
ReleasedByAny(i, left) == left < indegree[i]
\* A step is next when the last of its needs is met.
Released(i, left) == left < indegree[i] /\ left = 0
TopoLevel ==
    /\ stage = "level" /\ queue # {}
    /\ LET Met(i)  == Cardinality({k \in 1 .. Len(NeedList(i)) : idIndex(NeedList(i)[k]) \in queue})
           left    == [i \in First |-> indegree[i] - Met(i)]
       IN  /\ indegree' = left /\ queue' = {i \in First : Released(i, left[i])}
    /\ levels' = Append(levels, queue)
    /\ UNCHANGED <<input, def, problems, stage>>
Ordered == UNION {levels[k] : k \in 1 .. Len(levels)}
Cyclic  == First \ Ordered
TopoEnds ==
    /\ stage = "level" /\ queue = {} /\ stage' = "check"
    /\ UNCHANGED <<input, def, problems, indegree, queue, levels>>

\* What Executor.Validate finds wrong with the workspace.
WorkspaceProblems ==
    IF input.workspace = "hidden" \/ (input.workspace = "misnamed" /\ input.yaml)
    THEN {Problem("workspace", 0)} ELSE {}
LimitProblems ==
    {p \in {Problem("steps", 0), Problem("timeout", 0)} :
        IF p.kind = "steps" THEN Len(def.steps) > MaxSteps ELSE def.timeout = "too long"}
StepProblems(i) ==
    LET s == def.steps[i]
        wrong == [duplicate |-> s.id # NoId /\ idIndex(s.id) # i,
                  worktree  |-> s.worktree \notin {"", "own", "shared"},
                  shared    |-> s.worktree = "shared" /\ s.needs = <<>>,
                  retries   |-> s.retries \notin 0 .. MaxRetries,
                  template  |-> ~s.template,
                  syntax    |-> ~s.syntax]
    IN  {Problem(kind, i) : kind \in {k \in DOMAIN wrong : wrong[k]}}
\* Mutant: a need may be of a later step.
NeedProblemsAnyOrder(i) ==
    {Problem("unknown", i) : k \in {k \in 1 .. Len(NeedList(i)) : idIndex(NeedList(i)[k]) = 0}}
\* The needs of a step its id names.  Beside a cycle their order is not looked at.
NeedProblems(i) ==
    {Problem("unknown", i) : k \in {k \in 1 .. Len(NeedList(i)) : idIndex(NeedList(i)[k]) = 0}}
    \cup {Problem("order", i) : k \in {k \in 1 .. Len(NeedList(i)) :
             LET j == idIndex(NeedList(i)[k]) IN j # 0 /\ {i, j} \cap Cyclic = {} /\ j >= i}}
\* Mutant: cycles are left to the order of the needs.
ValidateNoCycles ==
    /\ stage = "check" /\ stage' = "done"
    /\ problems' = problems \cup WorkspaceProblems \cup LimitProblems
                   \cup (UNION {StepProblems(i) : i \in Positions})
                   \cup (UNION {NeedProblems(i) : i \in First})
    /\ UNCHANGED <<input, def, indegree, queue, levels>>
Validate ==
    /\ stage = "check" /\ stage' = "done"
    /\ problems' = problems \cup WorkspaceProblems \cup LimitProblems
                   \cup (UNION {StepProblems(i) : i \in Positions})
                   \cup (UNION {NeedProblems(i) : i \in First})
                   \cup {Problem("cycle", i) : i \in Cyclic}
    /\ UNCHANGED <<input, def, indegree, queue, levels>>
\* The graph the editor draws: who needs whom, as it is written.
Graph == UNION {{<<NeedList(i)[k], Id(i)>> : k \in 1 .. Len(NeedList(i))} : i \in Positions}

DefinitionsNext == Parse \/ TopoStart \/ TopoLevel \/ TopoEnds \/ Validate
DefinitionsSpec == DefinitionsInit /\ [][DefinitionsNext]_definitionVars

-----------------------------------------------------------------------------
(* Properties. *)

\* Order: a step is in one level, after the levels of all steps it needs, also
\* when it names a step twice or one that does not exist.
LevelsOrder ==
    \A k \in 1 .. Len(levels) : \A i \in levels[k] :
        /\ \A m \in 1 .. k - 1 : i \notin levels[m]
        /\ \A n \in 1 .. Len(NeedList(i)) : LET j == idIndex(NeedList(i)[n])
                                           IN  j # 0 => \E m \in 1 .. k - 1 : j \in levels[m]

\* The steps topo leaves out are those on a cycle of needs and those that come
\* to one by their needs: the largest set in which every step needs another or
\* itself.
CyclicIsCyclic ==
    LET Closed(C) == \A i \in C : \E j \in C : Count(NeedList(i), Id(j)) > 0
    IN  stage \in {"check", "done"} => Cyclic = UNION {C \in SUBSET First : Closed(C)}

\* topo sorts: what it puts in levels is in order, and what it leaves out is
\* what no order can hold.
TopoOK == DefinitionsTypeOK /\ LevelsOrder /\ CyclicIsCyclic

\* What Validate asks of a text.  Of a step without an id it does not look at
\* the needs, nor that it has none: docs/PIPELINES.md:67 calls the id required,
\* and line 82 says that a need of an unknown id fails.
Passes(d) ==
    /\ Len(d.steps) <= MaxSteps /\ d.timeout # "too long"
    /\ \A i \in 1 .. Len(d.steps) :
          LET s == d.steps[i]
          IN  /\ s.retries \in 0 .. MaxRetries /\ s.template /\ s.syntax
              /\ s.worktree \in {"", "own"} \/ (s.worktree = "shared" /\ s.needs # <<>>)
              /\ s.id # NoId =>
                    /\ \A j \in 1 .. i - 1 : d.steps[j].id # s.id
                    /\ \A k \in 1 .. Len(s.needs) :
                          s.needs[k] # NoId /\ \E j \in 1 .. i - 1 : d.steps[j].id = s.needs[k]
\* A definition is accepted if and only if no id is used twice, every need of a
\* step with an id is of such a step before it, and the limits are kept: what
\* Validate passes over beside a cycle or in a duplicate is never the only thing
\* that is wrong.  A step without an id is let through with whatever needs.
AcceptsExactly ==
    stage = "done" =>
        (problems = {} <=> /\ input.yaml /\ input.timeout # "unparsable"
                           /\ input.workspace \in {"unnamed", "named"} /\ Passes(input))

\* Of an accepted definition topo leaves out the steps without an id and no
\* other, and an edge of its graph that ends at a step with an id leads from an
\* earlier level to a later one: what module Pipelines assumes of Named.
AcceptedIsOrdered ==
    stage = "done" /\ problems = {} =>
        /\ Ordered = {i \in Positions : Id(i) # NoId}
        /\ \A e \in Graph : e[2] # NoId => \E k, m \in 1 .. Len(levels) :
              k < m /\ idIndex(e[1]) \in levels[k] /\ idIndex(e[2]) \in levels[m]

\* What Validate accepts, and what an accepted definition may be relied on for.
ValidateOK == AcceptsExactly /\ AcceptedIsOrdered
=============================================================================
