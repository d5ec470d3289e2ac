-------------------------- MODULE PipelinesProofs --------------------------
(***************************************************************************)
(* Proofs about pipelines.  First the executor: the inductive invariant    *)
(* and the safety properties of Pipelines, for every definition and all    *)
(* bounds.  Then Definitions: what the executor assumes of a definition,   *)
(* for everything that may be handed to Parse.                             *)
(***************************************************************************)
EXTENDS Pipelines, Definitions, TLAPS, FiniteSetTheorems, NaturalsInduction

-----------------------------------------------------------------------------
(* Step runs as triples. *)

LEMMA Triples ==
    /\ \A k \in StepRuns : /\ k[1] \in Steps /\ k[2] \in Indexes
                           /\ k[3] \in Attempts /\ k = <<k[1], k[2], k[3]>>
    /\ \A s \in Steps, i \in Indexes, a \in Attempts : <<s, i, a>> \in StepRuns
BY DEF StepRuns

LEMMA Numbers ==
    /\ N \in Nat /\ N >= 1 /\ MaxItems \in Nat /\ MaxItems >= 1
    /\ MaxRuns \in Nat /\ MaxReopens \in Nat /\ MaxAttempts \in Nat
    /\ \A s \in Steps : /\ Retries[s] \in Nat
                        /\ Retries[s] + 1 + MaxReopens <= MaxAttempts
    /\ \A k \in StepRuns : k[1] \in Nat /\ k[2] \in Nat /\ k[3] \in Nat /\ k[3] >= 1
BY Triples, DefinitionOK, BoundsOK DEF Steps, Indexes, Attempts

\* A set of positions has a first one.
LEMMA Least ==
    ASSUME NEW S, S \subseteq Nat, S # {}
    PROVE  \E i \in S : \A j \in S : i <= j
<1>1. PICK i \in S : \A j \in S : ~(<<j, i>> \in OpToRel(<, Nat))
  BY NatLessThanWellFounded, WFMin
<1>2. \A j \in S : ~(j < i)
  BY <1>1 DEF OpToRel
<1>3. QED
  BY <1>2

\* A step has its node at its place or before it.
LEMMA Nodes ==
    ASSUME NEW s \in Steps
    PROVE  Node(s) \in Steps /\ Node(s) <= s /\ (s \in Named => Node(s) = s)
<1>1. CASE s \in Named
  BY <1>1, Numbers DEF Node, Steps
<1>2. CASE s \notin Named
  <2>1. s \in Nameless /\ Nameless \subseteq Nat
    BY <1>2, Numbers DEF Nameless, Steps
  <2>2. \E n \in Nameless : \A m \in Nameless : n <= m
    BY <2>1, Least
  <2>3. Node(s) = CHOOSE n \in Nameless : \A m \in Nameless : n <= m
    BY <1>2 DEF Node
  <2>4. Node(s) \in Nameless /\ \A m \in Nameless : Node(s) <= m
    BY <2>2, <2>3
  <2>5. QED
    BY <1>2, <2>1, <2>4 DEF Nameless
<1>3. QED
  BY <1>1, <1>2

\* The first step run of an item.
LEMMA FirstAttempts ==
    \A s \in Steps, i \in Indexes : <<s, i, 1>> \in StepRuns
<1>1. PICK s \in Steps : TRUE
  BY Numbers DEF Steps
<1>2. 1 \in Attempts /\ 0 \in Indexes
  BY <1>1, Numbers DEF Attempts, Indexes
<1> QED
  BY <1>2, Triples

-----------------------------------------------------------------------------
(* What one write to a row can do to a node. *)

\* The value a step run gets leaves the row in place.
Write(k, v) == k \in StepRuns /\ v \in StepStates \ {"absent"} /\ SetStep(k, v)

\* Writing to a row that exists changes nobody's being current.
LEMMA UpdateCurrent ==
    ASSUME TypeOK, NEW k, NEW v, Write(k, v), st[k] # "absent"
    PROVE  \A j \in StepRuns : Current(j)' <=> Current(j)
<1>1. \A j \in StepRuns : st'[j] = "absent" <=> st[j] = "absent"
  BY DEF Write, SetStep, TypeOK
<1> QED
  BY <1>1, Triples DEF Current

\* A node all of whose slots have succeeded stays so: a write goes to the
\* newest attempt of a slot that has not, or to a node that has a slot that
\* has not, or to a node without rows.
LEMMA SuccessStays ==
    ASSUME TypeOK, NEW k, NEW v, Write(k, v),
           \/ \E j \in StepRuns : j[1] = k[1] /\ Current(j) /\ st[j] # "success"
           \/ Absent(k[1])
    PROVE  \A d : Succeeded(d) => Succeeded(d)'
<1> SUFFICES ASSUME NEW d, Succeeded(d) PROVE Succeeded(d)'
  OBVIOUS
<1>1. k[1] # d
  BY DEF Succeeded
<1>2. \A j \in StepRuns : j[1] = d => st'[j] = st[j]
  BY <1>1 DEF Write, SetStep, TypeOK
<1>3. \A j \in StepRuns : j[1] = d => (Current(j)' <=> Current(j))
  <2> SUFFICES ASSUME NEW j \in StepRuns, j[1] = d
               PROVE  Current(j)' <=> Current(j)
    OBVIOUS
  <2>1. \A a \in Attempts : /\ <<j[1], j[2], a>> \in StepRuns
                            /\ <<j[1], j[2], a>>[1] = d
    BY Triples
  <2> QED
    BY <1>2, <2>1 DEF Current
<1> QED
  BY <1>2, <1>3 DEF Succeeded, Absent
-----------------------------------------------------------------------------
(* The five things a step of the executor can do to its rows. *)

Ends(k, v) ==
    /\ Current(k) /\ st[k] \in Busy
    /\ v \in StepTerminal /\ SetStep(k, v)
    /\ v = "cancelled" => runOf[k] \notin live'
    /\ runOf' = runOf

Starts(k, r) ==
    /\ pc = "mark" /\ prun' = prun
    /\ Current(k) /\ st[k] = "pending" /\ MayStart(k[1])
    /\ r \in 1 .. nruns /\ SetStep(k, "running")
    /\ runOf' = [runOf EXCEPT ![k] = r]

Resets(k) ==
    /\ Current(k) /\ st[k] \in {"skipped", "cancelled"}
    /\ SetStep(k, "pending")
    /\ runOf' = [runOf EXCEPT ![k] = NoRun]

Retried(k) ==
    /\ Current(k) /\ st[k] = "failed"
    /\ k[3] <= Retries[k[1]] + reopens
    /\ SetStep(NextAttempt(k), "pending")
    /\ runOf' = runOf

Appears(k, v) ==
    /\ st[k] = "absent" /\ k[3] = 1 /\ prun = "running"
    /\ \/ Absent(k[1])
       \/ \E j \in StepRuns : j[1] = k[1] /\ Current(j) /\ st[j] = "pending"
    /\ v \in {"pending", "failed", "success"} /\ SetStep(k, v)
    /\ runOf' = runOf

RowStep ==
    \/ UNCHANGED rows
    \/ \E k \in StepRuns :
          \/ \E v \in StepStates : Ends(k, v) \/ Appears(k, v)
          \/ \E r \in Runs : Starts(k, r)
          \/ Resets(k) \/ Retried(k)

\* A row that has not failed is the newest of its slot.
LEMMA NewestUnlessFailed ==
    ASSUME AttemptHistory, NEW k \in StepRuns, st[k] \notin {"absent", "failed"}
    PROVE  Current(k)
<1> SUFFICES ASSUME NEW a \in Attempts, a > k[3],
                    st[<<k[1], k[2], a>>] # "absent"
             PROVE  FALSE
  BY DEF Current
<1>1. <<k[1], k[2], a>> \in StepRuns
  BY Triples
<1>2. a \in Nat /\ k[3] \in 1 .. a - 1
  BY Numbers, Triples DEF Attempts
<1>3. st[<<k[1], k[2], k[3]>>] = "failed"
  BY <1>1, <1>2 DEF AttemptHistory
<1> QED
  BY <1>3, Triples

\* The next attempt of a newest one is another step run of the same slot, and
\* has no row.
LEMMA NextIsNew ==
    ASSUME TypeOK, NEW k \in StepRuns, Current(k), k[3] <= Retries[k[1]] + reopens
    PROVE  /\ NextAttempt(k) \in StepRuns /\ st[NextAttempt(k)] = "absent"
           /\ NextAttempt(k)[1] = k[1] /\ NextAttempt(k)[2] = k[2]
           /\ NextAttempt(k)[3] = k[3] + 1
<1>1. k[1] \in Steps /\ k[2] \in Indexes /\ k[3] \in Nat /\ k[3] >= 1
  BY Triples, Numbers
<1>2. /\ Retries[k[1]] \in Nat /\ reopens \in Nat /\ reopens <= MaxReopens
      /\ Retries[k[1]] + 1 + MaxReopens <= MaxAttempts
      /\ MaxReopens \in Nat /\ MaxAttempts \in Nat
  BY <1>1, Numbers DEF TypeOK
<1>3. k[3] + 1 \in Attempts
  BY <1>1, <1>2 DEF Attempts
<1> QED
  BY <1>1, <1>3, Triples DEF NextAttempt, Current

\* Every row step is one write that no succeeded node notices, or none.
LEMMA RowStepKeepsSuccess ==
    ASSUME TypeOK, RowStep
    PROVE  \A d : Succeeded(d) => Succeeded(d)'
<1>1. CASE UNCHANGED rows
  BY <1>1 DEF rows, Succeeded, Absent, Current
<1>2. ASSUME NEW k \in StepRuns, NEW v \in StepStates, Ends(k, v)
      PROVE  \A d : Succeeded(d) => Succeeded(d)'
  BY <1>2, SuccessStays DEF Ends, Write, StepStates, Busy, StepTerminal
<1>3. ASSUME NEW k \in StepRuns, NEW v \in StepStates, Appears(k, v)
      PROVE  \A d : Succeeded(d) => Succeeded(d)'
  BY <1>3, SuccessStays DEF Appears, Write, StepStates, Busy, StepTerminal
<1>4. ASSUME NEW k \in StepRuns, NEW r \in Runs, Starts(k, r)
      PROVE  \A d : Succeeded(d) => Succeeded(d)'
  BY <1>4, SuccessStays DEF Starts, Write, StepStates, Busy
<1>5. ASSUME NEW k \in StepRuns, Resets(k)
      PROVE  \A d : Succeeded(d) => Succeeded(d)'
  BY <1>5, SuccessStays DEF Resets, Write, StepStates, Busy
<1>6. ASSUME NEW k \in StepRuns, Retried(k)
      PROVE  \A d : Succeeded(d) => Succeeded(d)'
  BY <1>6, SuccessStays, NextIsNew DEF Retried, Write, StepStates, Busy
<1> QED
  BY <1>1, <1>2, <1>3, <1>4, <1>5, <1>6 DEF RowStep
-----------------------------------------------------------------------------
(* Attempts and dependencies. *)

LEMMA HistoryStep ==
    ASSUME TypeOK, AttemptHistory, RowStep
    PROVE  AttemptHistory'
<1> SUFFICES ASSUME NEW k \in StepRuns, st'[k] # "absent", NEW a \in 1 .. k[3] - 1
             PROVE  st'[<<k[1], k[2], a>>] = "failed"
  BY DEF AttemptHistory
<1>1. /\ k[1] \in Steps /\ k[2] \in Indexes /\ k[3] \in Attempts /\ k[3] \in Nat
      /\ k = <<k[1], k[2], k[3]>> /\ a \in Nat /\ a >= 1 /\ a < k[3]
      /\ a \in Attempts
  BY Triples, Numbers DEF Attempts
<1>2. <<k[1], k[2], a>> \in StepRuns
  BY <1>1, Triples
<1> DEFINE e == <<k[1], k[2], a>>
<1>e. e \in StepRuns /\ e[1] = k[1] /\ e[2] = k[2] /\ e[3] = a
  BY <1>2
<1> HIDE DEF e
<1>3. CASE UNCHANGED rows
  BY <1>3 DEF rows, AttemptHistory
\* A write to an existing row: an earlier attempt is not current.
<1>4. ASSUME NEW j \in StepRuns, NEW v, Current(j), SetStep(j, v)
      PROVE  st'[e] = "failed"
  <2>1. st[j] # "absent"
    BY <1>4 DEF Current
  <2>2. st[k] # "absent"
    BY <1>4, <2>1 DEF SetStep, TypeOK
  <2>3. st[e] = "failed"
    BY <2>2 DEF AttemptHistory, e
  <2>4. j # e
    <3> SUFFICES ASSUME j = e PROVE FALSE
      OBVIOUS
    <3>1. st[<<e[1], e[2], k[3]>>] = "absent"
      BY <1>1, <1>e, <1>4 DEF Current
    <3> QED
      BY <3>1, <1>1, <1>e, <2>2
  <2> QED
    BY <1>4, <1>e, <2>3, <2>4 DEF SetStep, TypeOK
\* A new attempt follows a failed one.
<1>5. ASSUME NEW j \in StepRuns, Retried(j)
      PROVE  st'[e] = "failed"
  <2>1. /\ NextAttempt(j) \in StepRuns /\ st[NextAttempt(j)] = "absent"
        /\ NextAttempt(j)[1] = j[1] /\ NextAttempt(j)[2] = j[2]
        /\ NextAttempt(j)[3] = j[3] + 1 /\ j[3] \in Nat
    BY <1>5, NextIsNew, Numbers DEF Retried
  <2>2. CASE k = NextAttempt(j)
    <3>1. a \in 1 .. j[3] - 1 \/ a = j[3]
      BY <1>1, <2>1, <2>2
    <3>2. st[<<j[1], j[2], a>>] = "failed"
      BY <1>5, <3>1, Triples DEF Retried, AttemptHistory
    <3>3. e = <<j[1], j[2], a>>
      BY <2>1, <2>2 DEF e
    <3> QED
      BY <1>5, <1>e, <2>1, <3>2, <3>3 DEF Retried, SetStep, TypeOK
  <2>3. CASE k # NextAttempt(j)
    <3>1. st[k] # "absent"
      BY <1>5, <2>1, <2>3 DEF Retried, SetStep, TypeOK
    <3>2. st[e] = "failed"
      BY <3>1 DEF AttemptHistory, e
    <3> QED
      BY <1>5, <1>e, <2>1, <3>2 DEF Retried, SetStep, TypeOK
  <2> QED
    BY <2>2, <2>3
\* A new slot has one attempt.
<1>6. ASSUME NEW j \in StepRuns, NEW v, Appears(j, v)
      PROVE  st'[e] = "failed"
  <2>1. k # j
    BY <1>1, <1>6 DEF Appears
  <2>2. st[k] # "absent"
    BY <1>6, <2>1 DEF Appears, SetStep, TypeOK
  <2>3. st[e] = "failed"
    BY <2>2 DEF AttemptHistory, e
  <2> QED
    BY <1>6, <1>e, <2>3 DEF Appears, SetStep, TypeOK
<1>7. st'[e] = "failed"
  BY <1>4, <1>5, <1>6, <1>3, <1>e DEF RowStep, Ends, Starts, Resets, e
<1> QED
  BY <1>7 DEF e

LEMMA BudgetStep ==
    ASSUME TypeOK, RetryBudget, RowStep, reopens' \in Nat, reopens' >= reopens
    PROVE  RetryBudget'
<1> SUFFICES ASSUME NEW k \in StepRuns, st'[k] # "absent"
             PROVE  k[3] <= Retries[k[1]] + 1 + reopens'
  BY DEF RetryBudget
<1>1. /\ k[1] \in Steps /\ k[3] \in Nat /\ Retries[k[1]] \in Nat /\ reopens \in Nat
  BY Triples, Numbers DEF TypeOK
<1>2. CASE st[k] # "absent"
  BY <1>1, <1>2 DEF RetryBudget
<1>3. CASE st[k] = "absent"
  <2>1. ASSUME NEW j \in StepRuns, Retried(j)
        PROVE  k[3] <= Retries[k[1]] + 1 + reopens'
    <3>1. k = NextAttempt(j) /\ k[1] = j[1] /\ k[3] = j[3] + 1 /\ j[3] \in Nat
      BY <1>3, <2>1, NextIsNew, Numbers DEF Retried, SetStep, TypeOK
    <3> QED
      BY <1>1, <2>1, <3>1 DEF Retried
  <2>2. ASSUME NEW j \in StepRuns, NEW v, Appears(j, v)
        PROVE  k[3] <= Retries[k[1]] + 1 + reopens'
    <3>1. k[3] = 1
      BY <1>3, <2>2 DEF Appears, SetStep, TypeOK
    <3> QED
      BY <1>1, <3>1
  <2>3. ASSUME NEW j \in StepRuns, NEW v, Current(j), SetStep(j, v)
        PROVE  FALSE
    BY <1>3, <2>3 DEF Current, SetStep, TypeOK
  <2>4. CASE UNCHANGED rows
    BY <1>3, <2>4 DEF rows
  <2> QED
    BY <2>1, <2>2, <2>3, <2>4 DEF RowStep, Ends, Starts, Resets
<1> QED
  BY <1>2, <1>3

LEMMA DepsStep ==
    ASSUME TypeOK, DepsFirst, RowStep
    PROVE  DepsFirst'
<1> SUFFICES ASSUME NEW k \in StepRuns, runOf'[k] # NoRun
             PROVE  \E s \in Steps : Node(s) = k[1] /\ \A d \in Needs[s] : Succeeded(d)'
  BY DEF DepsFirst, Succeeded, AllSucceeded
<1>1. \E s \in Steps : Node(s) = k[1] /\ \A d \in Needs[s] : Succeeded(d)
  <2>1. CASE runOf[k] # NoRun
    BY <2>1 DEF DepsFirst, Succeeded, AllSucceeded
  <2>2. CASE runOf[k] = NoRun
    <3>1. PICK j \in StepRuns, r \in Runs : Starts(j, r)
      BY <2>2 DEF RowStep, Ends, Appears, Retried, Resets, rows, TypeOK
    <3>2. k = j
      BY <2>2, <3>1 DEF Starts, TypeOK
    <3> QED
      BY <3>1, <3>2 DEF Starts, MayStart, DepsSucceeded
  <2> QED
    BY <2>1, <2>2
<1> QED
  BY <1>1, RowStepKeepsSuccess
-----------------------------------------------------------------------------
(* Every step of the specification is a row step. *)

LEMMA CompleteRow ==
    ASSUME TypeOK, RowsOK, AttemptHistory, NEW r \in 1 .. nruns, NEW T,
           CompleteStep(r, T)
    PROVE  RowStep
<1> DEFINE k == stepOf[r]
<1>1. k \in StepRuns /\ st[k] # "absent" /\ st[k] \in StepStates
  BY DEF RowsOK, TypeOK
<1>2. CASE st[k] \in StepTerminal
  BY <1>2 DEF CompleteStep, RowStep, rows
<1>3. CASE st[k] \notin StepTerminal
  <2>1. st[k] \in Busy /\ Current(k)
    BY <1>1, <1>3, NewestUnlessFailed DEF StepStates, StepTerminal
  <2>2. \E v \in {"success", "failed"} : SetStep(k, v) /\ runOf' = runOf
    BY <1>3 DEF CompleteStep
  <2> QED
    BY <1>1, <2>1, <2>2 DEF RowStep, Ends, StepTerminal, StepStates
<1> QED
  BY <1>2, <1>3

\* expand adds rows to a node without any, or next to pending ones.
LEMMA AppearsSomewhere ==
    ASSUME TypeOK, CursorOK, AttemptHistory,
           Expand \/ \E i \in Indexes : ExpandItem(i)
    PROVE  \/ UNCHANGED rows
           \/ \E k \in StepRuns, v \in StepStates : Appears(k, v)
<1>0. Node(at) \in Steps /\ 0 \in Indexes
  BY Numbers, Nodes DEF TypeOK, Indexes
<1>r. prun = "running"
  BY DEF Expand, ExpandItem, CursorOK, Visiting
<1>1. \A i \in Indexes : <<Node(at), i, 1>> \in StepRuns
  BY <1>0, FirstAttempts
<1>2. CASE Expand
  <2>1. Absent(Node(at)) /\ st[<<Node(at), 0, 1>>] = "absent"
    BY <1>0, <1>1, <1>2 DEF Expand, Absent
  <2> QED
    BY <1>0, <1>1, <1>2, <1>r, <2>1
       DEF Expand, Appears, rows, StepStates, Busy, StepTerminal
<1>3. ASSUME NEW i \in Indexes, ExpandItem(i)
      PROVE  \E k \in StepRuns, v \in StepStates : Appears(k, v)
  <2>1. \/ Absent(Node(at))
        \/ \E j \in StepRuns : j[1] = Node(at) /\ Current(j) /\ st[j] = "pending"
    <3> SUFFICES ASSUME NEW j \in StepRuns, j[1] = Node(at), st[j] # "absent"
                 PROVE  Current(j) /\ st[j] = "pending"
      BY DEF Absent
    <3>1. st[j] = "pending"
      BY <1>3 DEF ExpandItem, CursorOK
    <3> QED
      BY <3>1, NewestUnlessFailed
  <2>2. Appears(<<Node(at), i, 1>>, "pending")
    BY <1>3, <1>r, <2>1 DEF ExpandItem, Appears
  <2> QED
    BY <1>1, <2>2 DEF StepStates, Busy
<1> QED
  BY <1>2, <1>3

\* The walk over the steps.
LEMMA WalkRow ==
    ASSUME TypeOK, RowsOK, CursorOK, AttemptHistory
    PROVE  /\ CreateStepRun => RowStep
           /\ Expand => RowStep
           /\ \A i \in Indexes : ExpandItem(i) => RowStep
           /\ \A k \in StepRuns : StartStepFails(k) => RowStep
           /\ MarkRunning => RowStep
<1>0. 0 \in Indexes /\ at \in Steps /\ at \in Nat
  BY Numbers DEF Indexes, TypeOK, Steps
<1>1. ASSUME CreateStepRun PROVE RowStep
  <2> DEFINE k == <<Node(at), 0, 1>>
  <2>1. /\ k \in StepRuns /\ k[1] = Node(at) /\ k[3] = 1
        /\ prun = "running" /\ UNCHANGED runOf
    BY <1>0, <1>1, Nodes, FirstAttempts DEF CreateStepRun, CursorOK
  <2>2. st' = st \/ SetStep(k, "pending")
    BY <1>1 DEF CreateStepRun, SetStep
  <2>3. \A j \in StepRuns : st[j] # "absent" => Current(j) /\ st[j] = "pending"
    BY <1>1, NewestUnlessFailed DEF CreateStepRun, CursorOK
  <2> HIDE DEF k
  <2>4. CASE st' = st
    BY <2>1, <2>4 DEF RowStep, rows
  <2>5. CASE SetStep(k, "pending") /\ st[k] # "absent"
    <3>1. st' = st
      BY <2>1, <2>3, <2>5 DEF SetStep, TypeOK
    <3> QED
      BY <2>1, <3>1 DEF RowStep, rows
  <2>6. CASE SetStep(k, "pending") /\ st[k] = "absent"
    <3>1. Absent(k[1]) \/ \E j \in StepRuns : j[1] = k[1] /\ Current(j) /\ st[j] = "pending"
      BY <2>3 DEF Absent
    <3>2. Appears(k, "pending")
      BY <2>1, <2>6, <3>1 DEF Appears
    <3> QED
      BY <2>1, <3>2 DEF RowStep, StepStates, Busy
  <2> QED
    BY <2>2, <2>4, <2>5, <2>6
<1>2. ASSUME Expand \/ \E i \in Indexes : ExpandItem(i) PROVE RowStep
  BY <1>2, AppearsSomewhere DEF RowStep
<1>4. ASSUME NEW k \in StepRuns, StartStepFails(k) PROVE RowStep
  BY <1>4 DEF StartStepFails, RowStep, Ends, Busy, StepTerminal, StepStates
<1>5. ASSUME MarkRunning PROVE RowStep
  <2>1. /\ cur \in 1 .. nruns /\ stepOf[cur] \in StepRuns /\ cur \in Runs
    BY <1>5, Numbers DEF MarkRunning, CursorOK, RowsOK, TypeOK, Runs
  <2> QED
    BY <1>5, <2>1 DEF MarkRunning, CursorOK, RowStep, Starts
<1> QED
  BY <1>1, <1>2, <1>4, <1>5

LEMMA RowChanges ==
    ASSUME TypeOK, RowsOK, CursorOK, AttemptHistory, Next
    PROVE  RowStep
<1>1. ASSUME NEW k \in StepRuns, StopStep(k) PROVE RowStep
  <2>1. runOf[k] \notin live'
    <3>1. CASE st[k] = "pending"
      <4>1. runOf[k] = 0 /\ live' \subseteq 1 .. nruns
        BY <1>1, <3>1 DEF StopStep, RowsOK, NoRun, TypeOK
      <4> QED
        BY <4>1 DEF TypeOK
    <3>2. CASE st[k] = "running"
      BY <1>1, <3>2 DEF StopStep
    <3> QED
      BY <1>1, <3>1, <3>2 DEF StopStep
  <2>2. \E v \in StepTerminal : SetStep(k, v)
    BY <1>1 DEF StopStep, StepTerminal
  <2>3. Current(k) /\ st[k] \in Busy /\ runOf' = runOf
    BY <1>1 DEF StopStep, Busy
  <2> QED
    BY <2>1, <2>2, <2>3 DEF RowStep, Ends, StepStates
<1>2. ASSUME NEW k \in StepRuns, ReopenStep(k) PROVE RowStep
  BY <1>2 DEF ReopenStep, RowStep, Retried, Resets, CursorOK
<1>3. ASSUME CreateRetry PROVE RowStep
  <2>1. /\ stepOf[cur] \in StepRuns /\ Current(stepOf[cur])
        /\ st[stepOf[cur]] = "failed"
        /\ stepOf[cur][3] <= Retries[stepOf[cur][1]]
    BY <1>3 DEF CreateRetry, CursorOK, RowsOK
  <2>2. stepOf[cur][3] <= Retries[stepOf[cur][1]] + reopens
    BY <2>1, Numbers, Triples, SMTT(60) DEF TypeOK
  <2> QED
    BY <1>3, <2>1, <2>2 DEF CreateRetry, RowStep, Retried
<1>4. ASSUME NEW r \in Runs, Handle(r) PROVE RowStep
  BY <1>4, CompleteRow DEF Handle, TypeOK
<1>5. ASSUME NEW r \in Runs, Reconcile(r) PROVE RowStep
  <2>1. r \in 1 .. nruns
    BY <1>5 DEF Reconcile, TypeOK
  <2> QED
    BY <1>5, <2>1, CompleteRow DEF Reconcile, RowStep, rows
<1>6. ASSUME \/ Start \/ NextStep \/ Settle \/ FinishRun \/ Tick \/ TickTimeout
             \/ Cancel \/ RetryFailed \/ Reopen \/ Late \/ Restart
             \/ \E k \in StepRuns : StartStep(k)
             \/ \E r \in Runs : FinishOfRun(r)
      PROVE  RowStep
  BY <1>6 DEF RowStep, Start, NextStep, Settle, FinishRun, Tick, TickTimeout,
              Cancel, RetryFailed, Reopen, Late, Restart, StartStep, FinishOfRun
<1> QED
  BY <1>1, <1>2, <1>3, <1>4, <1>5, <1>6, WalkRow DEF Next, Locked, Operator
-----------------------------------------------------------------------------
(* Types. *)

LEMMA RowTypes ==
    ASSUME TypeOK, RowStep
    PROVE  /\ st' \in [StepRuns -> StepStates]
           /\ runOf' \in [StepRuns -> Runs \union {NoRun}]
<1>1. ASSUME NEW k, NEW v \in StepStates, SetStep(k, v)
      PROVE  st' \in [StepRuns -> StepStates]
  BY <1>1 DEF SetStep, TypeOK
<1>2. "pending" \in StepStates /\ "running" \in StepStates
  BY DEF StepStates, Busy
<1> QED
  BY <1>1, <1>2 DEF RowStep, rows, Ends, Starts, Resets, Retried, Appears, TypeOK

ControlTypeOK ==
    /\ prun \in {"none", "running"} \union RunTerminal
    /\ late \in BOOLEAN /\ torn \in BOOLEAN /\ reopens \in 0 .. MaxReopens
    /\ pc \in PCs /\ at \in Steps
    /\ want \in 0 .. MaxItems
    /\ goal \in {"none", "failed", "cancelled", "timeout"}

RunTypeOK ==
    /\ nruns \in 0 .. MaxRuns
    /\ stepOf \in [Runs -> StepRuns \union {<<>>}]
    /\ outcome \in [Runs -> {"none", "running", "success", "failed"}]
    /\ live \subseteq 1 .. nruns /\ bus \subseteq 1 .. nruns
    /\ todo \subseteq 1 .. nruns /\ cur \in 0 .. nruns

LEMMA ControlTypes ==
    ASSUME TypeOK, CursorOK, Next
    PROVE  ControlTypeOK'
<1> USE DEF ControlTypeOK
<1>0. /\ ControlTypeOK /\ N \in Nat /\ 1 \in Steps /\ 0 \in 0 .. MaxItems
      /\ (at < N => at + 1 \in Steps)
  BY Numbers DEF TypeOK, Steps
<1>1. \A x \in {"free", "create", "settle", "stop", "retry", "reopen", "sweep",
               "visit", "expand", "mark"} : x \in PCs
  BY DEF PCs, Visiting
<1>2. \A T : Return(T) \/ Advance(T) => pc' \in PCs
  BY <1>1 DEF Return, Advance
<1>3. ASSUME NEW r, NEW T, CompleteStep(r, T) PROVE ControlTypeOK'
  BY <1>0, <1>1, <1>2, <1>3 DEF CompleteStep
<1>4. ASSUME NEW r \in Runs, Handle(r) \/ Reconcile(r) PROVE ControlTypeOK'
  BY <1>0, <1>1, <1>2, <1>3, <1>4 DEF Handle, Reconcile
<1>5. ASSUME Settle PROVE ControlTypeOK'
  BY <1>0, <1>1, <1>2, <1>5 DEF Settle, RunTerminal
<1>6. ASSUME FinishRun PROVE ControlTypeOK'
  <2>1. prun' \in RunTerminal
    BY <1>0, <1>6 DEF FinishRun, CursorOK, RunTerminal
  <2> QED
    BY <1>0, <1>2, <1>6, <2>1 DEF FinishRun
<1>7. ASSUME CreateStepRun \/ NextStep PROVE ControlTypeOK'
  BY <1>0, <1>1, <1>7 DEF CreateStepRun, NextStep
<1>8. ASSUME Expand \/ \E i \in Indexes : ExpandItem(i) PROVE ControlTypeOK'
  <2>1. /\ UNCHANGED <<prun, late, torn, reopens, at, goal>>
        /\ pc' = pc \/ pc' = "expand" \/ pc' = "visit"
    BY <1>8 DEF Expand, ExpandItem
  <2>2. want' = want \/ want' = 0 \/ want' \in 1 .. MaxItems
    BY <1>8 DEF Expand, ExpandItem
  <2>3. want' \in 0 .. MaxItems
    BY <1>0, <2>2, Numbers
  <2>4. pc' \in PCs
    BY <1>0, <1>1, <2>1
  <2> QED
    BY <1>0, <2>1, <2>3, <2>4
<1>9. ASSUME NEW k \in StepRuns,
             StartStep(k) \/ StartStepFails(k) \/ StopStep(k) \/ ReopenStep(k)
      PROVE  ControlTypeOK'
  BY <1>0, <1>1, <1>9 DEF StartStep, StartStepFails, StopStep, ReopenStep
<1>10. ASSUME MarkRunning \/ CreateRetry \/ Reopen PROVE ControlTypeOK'
  BY <1>0, <1>1, <1>10 DEF MarkRunning, CreateRetry, Reopen
<1>11. ASSUME Start \/ Cancel \/ RetryFailed PROVE ControlTypeOK'
  BY <1>0, <1>1, <1>11, Numbers DEF Start, Cancel, RetryFailed
<1>12. ASSUME Tick \/ TickTimeout \/ Late PROVE ControlTypeOK'
  BY <1>0, <1>1, <1>12 DEF Tick, TickTimeout, Late
<1>13. ASSUME Restart PROVE ControlTypeOK'
  BY <1>0, <1>1, <1>13 DEF Restart
<1>14. ASSUME NEW r \in Runs, FinishOfRun(r) PROVE ControlTypeOK'
  BY <1>0, <1>14 DEF FinishOfRun
<1> QED
  BY <1>4, <1>5, <1>6, <1>7, <1>8, <1>9, <1>10, <1>11, <1>12, <1>13, <1>14
     DEF Next, Locked, Operator

LEMMA RunTypes ==
    ASSUME TypeOK, RowsOK, Next
    PROVE  RunTypeOK'
<1> USE DEF RunTypeOK
<1>0. RunTypeOK /\ nruns \in Nat /\ 1 .. nruns \subseteq Runs /\ MaxRuns \in Nat
  BY Numbers DEF TypeOK, Runs
<1>1. \A T : Return(T) \/ Advance(T) => todo' = T
  BY DEF Return, Advance
<1>2. ASSUME NEW r \in 1 .. nruns, NEW T \in SUBSET (1 .. nruns),
             CompleteStep(r, T), bus' \subseteq bus
      PROVE  RunTypeOK'
  <2>1. UNCHANGED <<nruns, stepOf, outcome, live>>
    BY <1>2 DEF CompleteStep
  <2>2. cur' = cur \/ cur' = r
    BY <1>2 DEF CompleteStep
  <2>3. todo' = T
    BY <1>1, <1>2 DEF CompleteStep
  <2>4. cur' \in 0 .. nruns
    BY <1>0, <1>2, <2>2
  <2> QED
    BY <1>0, <1>2, <2>1, <2>3, <2>4
<1>3. ASSUME NEW r \in Runs, Handle(r) PROVE RunTypeOK'
  BY <1>0, <1>2, <1>3 DEF Handle
<1>4. ASSUME NEW r \in Runs, Reconcile(r) PROVE RunTypeOK'
  <2>1. r \in 1 .. nruns /\ todo \ {r} \in SUBSET (1 .. nruns)
    BY <1>0, <1>4 DEF Reconcile
  <2>2. CASE outcome[r] = "running"
    BY <1>0, <1>1, <1>4, <2>1, <2>2 DEF Reconcile
  <2>3. CASE outcome[r] # "running"
    BY <1>2, <1>4, <2>1, <2>3 DEF Reconcile
  <2> QED
    BY <2>2, <2>3
<1>5. ASSUME NEW k \in StepRuns, StartStep(k) PROVE RunTypeOK'
  <2>1. /\ nruns' = nruns + 1 /\ nruns + 1 \in 0 .. MaxRuns
        /\ 1 .. nruns \subseteq 1 .. nruns'
        /\ nruns + 1 \in 1 .. nruns'
    BY <1>0, <1>5 DEF StartStep
  <2>2. /\ stepOf' \in [Runs -> StepRuns \union {<<>>}]
        /\ outcome' \in [Runs -> {"none", "running", "success", "failed"}]
    BY <1>0, <1>5 DEF StartStep
  <2> QED
    BY <1>0, <1>5, <2>1, <2>2 DEF StartStep
<1>6. ASSUME Tick PROVE RunTypeOK'
  <2>1. todo' \subseteq 1 .. nruns
    BY <1>0, <1>6 DEF Tick, RowsOK, TypeOK, Runs, NoRun
  <2> QED
    BY <1>0, <1>6, <2>1 DEF Tick, runs
<1>7. ASSUME NEW r \in Runs, FinishOfRun(r) PROVE RunTypeOK'
  <2>1. r \in 1 .. nruns
    BY <1>0, <1>7, Numbers DEF FinishOfRun, Runs
  <2> QED
    BY <1>0, <1>7, <2>1 DEF FinishOfRun
<1>8. ASSUME Settle \/ FinishRun PROVE RunTypeOK'
  BY <1>0, <1>1, <1>8 DEF Settle, FinishRun, runs
<1>9. ASSUME NEW k \in StepRuns, StopStep(k) PROVE RunTypeOK'
  BY <1>0, <1>9 DEF StopStep
<1>10. ASSUME Restart PROVE RunTypeOK'
  BY <1>0, <1>10 DEF Restart, NoRun
<1>11. ASSUME MarkRunning \/ CreateRetry PROVE RunTypeOK'
  <2>1. cur' = 0 /\ UNCHANGED <<nruns, stepOf, outcome, live, bus, todo>>
    BY <1>11 DEF MarkRunning, CreateRetry, runs, NoRun
  <2>2. 0 \in 0 .. nruns
    BY <1>0
  <2> QED
    BY <1>0, <2>1, <2>2
<1>12. ASSUME \/ Start \/ NextStep \/ TickTimeout \/ Cancel \/ RetryFailed
              \/ Reopen \/ Late \/ CreateStepRun \/ Expand
              \/ \E i \in Indexes : ExpandItem(i)
              \/ \E k \in StepRuns : StartStepFails(k) \/ ReopenStep(k)
       PROVE  RunTypeOK'
  BY <1>0, <1>12 DEF Start, NextStep, TickTimeout, Cancel, RetryFailed, Reopen,
      Late, CreateStepRun, Expand, ExpandItem, StartStepFails, ReopenStep, runs
<1> QED
  BY <1>3, <1>4, <1>5, <1>6, <1>7, <1>8, <1>9, <1>10, <1>11, <1>12
     DEF Next, Locked, Operator

LEMMA TypeStep ==
    ASSUME TypeOK, RowsOK, CursorOK, AttemptHistory, Next
    PROVE  TypeOK'
<1>1. ControlTypeOK' /\ RunTypeOK'
  BY ControlTypes, RunTypes
<1>2. /\ st' \in [StepRuns -> StepStates]
      /\ runOf' \in [StepRuns -> Runs \union {NoRun}]
  BY RowChanges, RowTypes
<1> QED
  BY <1>1, <1>2 DEF TypeOK, ControlTypeOK, RunTypeOK
-----------------------------------------------------------------------------
(* What a step does to the runs. *)

RunStep ==
    \/ /\ UNCHANGED <<nruns, stepOf, outcome>>
       /\ live' \subseteq live /\ bus' \subseteq bus
    \/ \E k \in StepRuns : StartStep(k)
    \/ \E r \in Runs : FinishOfRun(r)

LEMMA RunChanges ==
    ASSUME Next
    PROVE  RunStep
<1>1. ASSUME NEW r, NEW T, CompleteStep(r, T), bus' \subseteq bus PROVE RunStep
  BY <1>1 DEF CompleteStep, RunStep
<1>2. ASSUME NEW r \in Runs, Handle(r) \/ Reconcile(r) PROVE RunStep
  <2>1. CASE Handle(r)
    BY <1>1, <2>1 DEF Handle
  <2>2. CASE Reconcile(r)
    BY <1>1, <2>2 DEF Reconcile, RunStep
  <2> QED
    BY <1>2, <2>1, <2>2
<1>3. ASSUME NEW k \in StepRuns, StopStep(k) PROVE RunStep
  BY <1>3 DEF StopStep, RunStep
<1>4. ASSUME Restart PROVE RunStep
  BY <1>4 DEF Restart, RunStep
<1>5. ASSUME \/ Start \/ NextStep \/ TickTimeout \/ Tick \/ Cancel \/ RetryFailed
             \/ Reopen \/ Late \/ CreateStepRun \/ Expand \/ MarkRunning
             \/ CreateRetry \/ Settle \/ FinishRun
             \/ \E i \in Indexes : ExpandItem(i)
             \/ \E k \in StepRuns : StartStepFails(k) \/ ReopenStep(k)
      PROVE  RunStep
  <2>1. UNCHANGED runs
    BY <1>5 DEF Start, NextStep, TickTimeout, Tick, Cancel, RetryFailed, Reopen,
         Late, CreateStepRun, Expand, MarkRunning, CreateRetry, Settle, FinishRun,
         ExpandItem, StartStepFails, ReopenStep
  <2> QED
    BY <2>1 DEF runs, RunStep
<1> QED
  BY <1>2, <1>3, <1>4, <1>5 DEF Next, Locked, Operator, RunStep

\* A row stays a row.
LEMMA RowsRemain ==
    ASSUME TypeOK, RowStep, NEW k \in StepRuns, st[k] # "absent"
    PROVE  st'[k] # "absent"
<1>1. ASSUME NEW j, NEW v, v # "absent", SetStep(j, v) PROVE st'[k] # "absent"
  BY <1>1 DEF SetStep, TypeOK
<1> QED
  BY <1>1 DEF RowStep, rows, Ends, Starts, Resets, Retried, Appears, StepTerminal

LEMMA RowsStep ==
    ASSUME TypeOK, RowsOK, RowStep, RunStep
    PROVE  RowsOK'
<1>0. nruns \in Nat /\ nruns' \in Nat /\ nruns <= nruns'
  BY DEF RunStep, StartStep, FinishOfRun, TypeOK
<1>1. ASSUME NEW k \in StepRuns
      PROVE  /\ runOf'[k] # NoRun =>
                   st'[k] \notin {"absent", "pending"} /\ runOf'[k] <= nruns
             /\ st'[k] = "running" => runOf'[k] # NoRun
             /\ st'[k] = "cancelled" =>
                   \/ runOf'[k] \notin live'
                   \/ st[k] = "cancelled" /\ runOf'[k] = runOf[k]
  <2>0. /\ runOf[k] # NoRun =>
              st[k] \notin {"absent", "pending"} /\ runOf[k] <= nruns
        /\ st[k] = "running" => runOf[k] # NoRun
    BY DEF RowsOK
  <2>1. CASE UNCHANGED rows
    BY <2>0, <2>1 DEF rows
  <2>2. ASSUME NEW j \in StepRuns, NEW v, Ends(j, v)
        PROVE  <1>1!2
    BY <2>0, <2>2 DEF Ends, SetStep, TypeOK, StepTerminal
  <2>3. ASSUME NEW j \in StepRuns, NEW v, Appears(j, v)
        PROVE  <1>1!2
    BY <2>0, <2>3 DEF Appears, SetStep, TypeOK
  <2>4. ASSUME NEW j \in StepRuns, NEW r, Starts(j, r)
        PROVE  <1>1!2
    BY <2>0, <2>4, <1>0 DEF Starts, SetStep, TypeOK, NoRun
  <2>5. ASSUME NEW j \in StepRuns, Resets(j)
        PROVE  <1>1!2
    BY <2>0, <2>5 DEF Resets, SetStep, TypeOK
  <2>6. ASSUME NEW j \in StepRuns, Retried(j)
        PROVE  <1>1!2
    <3>1. NextAttempt(j) \in StepRuns /\ st[NextAttempt(j)] = "absent"
      BY <2>6, NextIsNew DEF Retried
    <3> QED
      BY <2>0, <2>6, <3>1 DEF Retried, SetStep, TypeOK
  <2> QED
    BY <2>1, <2>2, <2>3, <2>4, <2>5, <2>6 DEF RowStep
<1>2. ASSUME NEW k \in StepRuns
      PROVE  /\ runOf'[k] # NoRun =>
                   st'[k] \notin {"absent", "pending"} /\ runOf'[k] <= nruns'
             /\ st'[k] = "running" => runOf'[k] # NoRun
             /\ st'[k] = "cancelled" => runOf'[k] \notin live'
  <2>0. runOf'[k] \in Nat
    BY RowTypes, Numbers DEF Runs, NoRun
  <2>1. runOf'[k] # NoRun => runOf'[k] <= nruns'
    BY <1>0, <1>1, <2>0
  <2>2. st[k] = "cancelled" => runOf[k] \notin live /\ runOf[k] # nruns + 1
    BY <1>0 DEF RowsOK, TypeOK, NoRun
  <2>3. live' \subseteq live \union {nruns + 1}
    BY DEF RunStep, StartStep, FinishOfRun
  <2> QED
    BY <1>1, <2>1, <2>2, <2>3
<1>3. ASSUME NEW r \in 1 .. nruns'
      PROVE  /\ stepOf'[r] \in StepRuns /\ st'[stepOf'[r]] # "absent"
             /\ outcome'[r] # "none"
  <2>1. CASE UNCHANGED <<nruns, stepOf, outcome>>
    BY <2>1, RowsRemain DEF RowsOK
  <2>2. ASSUME NEW k \in StepRuns, StartStep(k) PROVE <1>3!2
    <3>1. stepOf' = [stepOf EXCEPT ![nruns + 1] = k]
      BY <2>2 DEF StartStep
    <3>2. outcome' = [outcome EXCEPT ![nruns + 1] = "running"]
      BY <2>2 DEF StartStep
    <3>3. /\ r \in 1 .. nruns \/ r = nruns + 1
          /\ nruns + 1 \in Runs /\ r \in Runs
      BY <1>0, <2>2, Numbers DEF StartStep, Runs
    <3>4. st[k] # "absent" /\ st' = st
      BY <2>2 DEF StartStep, rows
    <3> QED
      BY <3>1, <3>2, <3>3, <3>4 DEF RowsOK, TypeOK
  <2>3. ASSUME NEW q \in Runs, FinishOfRun(q) PROVE <1>3!2
    BY <2>3, RowsRemain DEF FinishOfRun, RowsOK, TypeOK
  <2> QED
    BY <2>1, <2>2, <2>3 DEF RunStep
<1>4. \A r \in bus' : outcome'[r] # "running"
  <2>1. CASE outcome' = outcome /\ bus' \subseteq bus
    BY <2>1 DEF RowsOK
  <2>2. ASSUME NEW k \in StepRuns, StartStep(k) PROVE <1>4
    <3>1. bus' = bus /\ outcome' = [outcome EXCEPT ![nruns + 1] = "running"]
      BY <2>2 DEF StartStep
    <3>2. \A r \in bus : r # nruns + 1
      BY <1>0 DEF TypeOK
    <3>3. \A r \in bus : r \in Runs
      BY <1>0, Numbers DEF TypeOK, Runs
    <3> QED
      BY <3>1, <3>2, <3>3 DEF RowsOK, TypeOK
  <2>3. ASSUME NEW q \in Runs, FinishOfRun(q) PROVE <1>4
    <3>0. bus' \subseteq bus \union {q}
      BY <2>3 DEF FinishOfRun
    <3>b. \A r \in bus : r \in Runs
      BY <1>0, Numbers DEF TypeOK, Runs
    <3>1. \A r \in bus' : (r \in bus \/ r = q) /\ r \in Runs
      BY <2>3, <3>0, <3>b
    <3>2. PICK o \in {"success", "failed"} : outcome' = [outcome EXCEPT ![q] = o]
      BY <2>3 DEF FinishOfRun
    <3> QED
      BY <3>1, <3>2 DEF RowsOK, TypeOK
  <2> QED
    BY <2>1, <2>2, <2>3 DEF RunStep
<1> QED
  BY <1>2, <1>3, <1>4 DEF RowsOK
-----------------------------------------------------------------------------
(* The holder of the lock. *)

\* A step of the world around the executor.
Still == UNCHANGED <<prun, reopens, rows, nruns, stepOf, pc, at, cur, want, goal>>

LEMMA WorldIsStill ==
    /\ Late => Still
    /\ \A r \in Runs : FinishOfRun(r) => Still
BY DEF Late, FinishOfRun, Still, runs

\* How the state of the pipeline run changes.
LEMMA PipelineChanges ==
    ASSUME Next, prun' # prun
    PROVE  Start \/ Settle \/ FinishRun \/ Reopen
<1>1. ASSUME NEW r \in Runs, Handle(r) \/ Reconcile(r) PROVE FALSE
  BY <1>1 DEF Handle, Reconcile, CompleteStep
<1> QED
  BY <1>1 DEF Next, Operator, Locked, Cancel, RetryFailed, Tick,
       TickTimeout, Late, Restart, FinishOfRun, CreateStepRun, Expand,
       MarkRunning, NextStep, ExpandItem, StartStep, StartStepFails, StopStep,
       ReopenStep, CreateRetry

\* A pipeline run that exists is never gone.
LEMMA NeverNone ==
    ASSUME TypeOK, CursorOK, Next
    PROVE  prun' # "none"
<1>1. ASSUME prun = "none" PROVE prun' # "none"
  <2>1. nruns = 0 /\ pc = "free" /\ bus = {}
    BY <1>1 DEF CursorOK, TypeOK
  <2>2. \A r \in Runs : ~FinishOfRun(r) /\ ~Handle(r) /\ ~Reconcile(r)
    BY <2>1 DEF FinishOfRun, Handle, Reconcile, Runs
  <2>3. ~Locked
    BY <2>1, <2>2 DEF Locked, CreateStepRun, Expand, MarkRunning, NextStep, Settle,
         ExpandItem, StartStep, StartStepFails, StopStep, ReopenStep, FinishRun,
         CreateRetry, Reopen
  <2>4. Start
    BY <1>1, <2>2, <2>3 DEF Next, Operator, Cancel, RetryFailed, Tick, TickTimeout,
         Late, Restart, RunTerminal
  <2> QED
    BY <2>4 DEF Start
<1>2. ASSUME prun # "none", prun' # prun PROVE prun' # "none"
  BY <1>2, PipelineChanges DEF Start, Settle, FinishRun, Reopen, CursorOK
<1> QED
  BY <1>1, <1>2

\* The parts of CursorOK about control alone.
Control ==
    /\ pc \in Visiting \union {"create", "settle", "stop", "retry"}
          => prun = "running"
    /\ pc = "reopen" => prun \in RunTerminal
    /\ pc \notin Visiting \union {"create"} => at = 1
    /\ pc = "stop" => goal # "none"

LEMMA ControlStep ==
    ASSUME TypeOK, CursorOK, Next
    PROVE  Control'
<1> USE DEF Control, Visiting
<1>0. Control /\ prun \in {"none", "running"} \union RunTerminal
  BY DEF CursorOK, TypeOK
<1>1. \A T : Return(T) => pc' \in {"free", "sweep"}
  BY DEF Return
<1>2. ASSUME NEW r, NEW T, r \in 1 .. nruns, CompleteStep(r, T),
             pc \in {"free", "sweep"}
      PROVE  Control'
  <2>0. UNCHANGED <<prun, at, goal>> /\ at = 1 /\ prun # "none"
    BY <1>0, <1>2 DEF CompleteStep, CursorOK
  <2>1. CASE prun \in RunTerminal
    <3>1. pc' \in {"free", "sweep"}
      BY <1>1, <1>2, <2>1 DEF CompleteStep, Advance
    <3> QED
      BY <2>0, <3>1
  <2>2. CASE prun \notin RunTerminal
    <3>1. pc' \in {"free", "sweep", "visit", "retry"}
      BY <1>1, <1>2, <2>2 DEF CompleteStep, Advance
    <3> QED
      BY <1>0, <2>0, <2>2, <3>1
  <2> QED
    BY <2>1, <2>2
<1>3. ASSUME NEW r \in Runs, Handle(r) \/ Reconcile(r) PROVE Control'
  <2>1. r \in 1 .. nruns /\ pc \in {"free", "sweep"}
    BY <1>3 DEF Handle, Reconcile, TypeOK
  <2>2. CASE \E T : CompleteStep(r, T)
    BY <1>2, <2>1, <2>2
  <2>3. CASE Return(todo \ {r}) /\ UNCHANGED <<prun, at, goal>>
    BY <1>0, <1>1, <2>1, <2>3
  <2> QED
    BY <1>3, <2>2, <2>3 DEF Handle, Reconcile
<1>4. ASSUME Settle \/ FinishRun PROVE Control'
  <2>1. CASE pc' = "stop"
    BY <1>0, <1>1, <1>4, <2>1 DEF Settle, FinishRun
  <2>2. CASE pc' # "stop"
    <3>1. pc' \in {"free", "sweep"} /\ at' = 1
      BY <1>0, <1>1, <1>4, <2>2 DEF Settle, FinishRun
    <3> QED
      BY <3>1
  <2> QED
    BY <2>1, <2>2
<1>5. ASSUME CreateStepRun \/ NextStep PROVE Control'
  BY <1>0, <1>5 DEF CreateStepRun, NextStep
<1>6. ASSUME Expand \/ \E i \in Indexes : ExpandItem(i) PROVE Control'
  BY <1>0, <1>6 DEF Expand, ExpandItem
<1>7. ASSUME NEW k \in StepRuns,
             StartStep(k) \/ StartStepFails(k) \/ StopStep(k) \/ ReopenStep(k)
      PROVE  Control'
  BY <1>0, <1>7 DEF StartStep, StartStepFails, StopStep, ReopenStep
<1>8. ASSUME MarkRunning \/ CreateRetry \/ Reopen PROVE Control'
  BY <1>0, <1>8 DEF MarkRunning, CreateRetry, Reopen
<1>9. ASSUME Start \/ Cancel \/ RetryFailed PROVE Control'
  BY <1>0, <1>9 DEF Start, Cancel, RetryFailed
<1>10. ASSUME Tick \/ TickTimeout \/ Restart PROVE Control'
  BY <1>0, <1>10 DEF Tick, TickTimeout, Restart
<1>11. ASSUME Still PROVE Control'
  BY <1>0, <1>11 DEF Still
<1> QED
  BY <1>3, <1>4, <1>5, <1>6, <1>7, <1>8, <1>9, <1>10, <1>11, WorldIsStill
     DEF Next, Locked, Operator
-----------------------------------------------------------------------------
(* How the holder of the lock gets to a place. *)

LEMMA Arrivals ==
    ASSUME TypeOK, Next
    PROVE  /\ pc' = "create" => Start \/ CreateStepRun \/ Still
           /\ pc' = "expand" =>
                 Expand \/ (\E i \in Indexes : ExpandItem(i)) \/ Still
           /\ pc' = "mark" => (\E k \in StepRuns : StartStep(k)) \/ Still
           /\ pc' = "retry" =>
                 (\E T : \E r \in 1 .. nruns : CompleteStep(r, T)) \/ Still
           /\ pc' = "reopen" =>
                 RetryFailed \/ (\E k \in StepRuns : ReopenStep(k)) \/ Still
<1> DEFINE Goal == /\ pc' = "create" => Start \/ CreateStepRun \/ Still
                   /\ pc' = "expand" =>
                        Expand \/ (\E i \in Indexes : ExpandItem(i)) \/ Still
                   /\ pc' = "mark" => (\E k \in StepRuns : StartStep(k)) \/ Still
                   /\ pc' = "retry" =>
                        (\E T : \E r \in 1 .. nruns : CompleteStep(r, T)) \/ Still
                   /\ pc' = "reopen" =>
                        RetryFailed \/ (\E k \in StepRuns : ReopenStep(k)) \/ Still
<1>1. \A T : /\ Return(T) => pc' \in {"free", "sweep"}
             /\ Advance(T) => pc' \in {"free", "sweep", "visit"}
  BY DEF Return, Advance
<1>2. ASSUME NEW r \in Runs, Handle(r) \/ Reconcile(r) PROVE Goal
  <2>1. r \in 1 .. nruns
    BY <1>2 DEF Handle, Reconcile, TypeOK
  <2>2. ASSUME NEW T, CompleteStep(r, T) PROVE Goal
    <3>1. pc' \in {"free", "sweep", "visit", "retry"}
      BY <1>1, <2>2 DEF CompleteStep
    <3> QED
      BY <2>1, <2>2, <3>1
  <2>3. ASSUME Return(todo \ {r}) PROVE Goal
    BY <1>1, <2>3
  <2> QED
    BY <1>2, <2>2, <2>3 DEF Handle, Reconcile
<1>3. ASSUME Settle \/ FinishRun \/ Tick \/ TickTimeout \/ Cancel \/ Restart
      PROVE  Goal
  <2>1. pc' \in {"free", "sweep", "stop"}
    BY <1>1, <1>3 DEF Settle, FinishRun, Tick, TickTimeout, Cancel, Restart
  <2> QED
    BY <2>1
<1>4. ASSUME MarkRunning \/ CreateRetry \/ Reopen \/ NextStep PROVE Goal
  <2>1. pc' \in {"visit", "settle"}
    BY <1>4 DEF MarkRunning, CreateRetry, Reopen, NextStep
  <2> QED
    BY <2>1
<1>5. ASSUME CreateStepRun \/ Start PROVE Goal
  <2>1. pc' \in {"create", "visit"}
    BY <1>5 DEF CreateStepRun, Start
  <2> QED
    BY <1>5, <2>1
<1>6. ASSUME Expand \/ \E i \in Indexes : ExpandItem(i) PROVE Goal
  <2>1. pc' \in {"expand", "visit"}
    BY <1>6 DEF Expand, ExpandItem
  <2> QED
    BY <1>6, <2>1
<1>7. ASSUME NEW k \in StepRuns,
             StartStep(k) \/ StartStepFails(k) \/ StopStep(k) \/ ReopenStep(k)
      PROVE  Goal
  <2>1. CASE StartStep(k)
    BY <2>1 DEF StartStep
  <2>2. CASE ReopenStep(k)
    BY <2>2 DEF ReopenStep
  <2>3. CASE StartStepFails(k) \/ StopStep(k)
    BY <2>3 DEF StartStepFails, StopStep
  <2> QED
    BY <1>7, <2>1, <2>2, <2>3
<1>8. ASSUME RetryFailed PROVE Goal
  BY <1>8 DEF RetryFailed
<1>9. ASSUME Still PROVE Goal
  BY <1>9
<1> QED
  BY <1>2, <1>3, <1>4, <1>5, <1>6, <1>7, <1>8, <1>9, WorldIsStill
     DEF Next, Locked, Operator

LEMMA CursorStep ==
    ASSUME TypeOK, RowsOK, CursorOK, AttemptHistory, RetryBudget, Next
    PROVE  CursorOK'
<1>0. TypeOK' /\ RowStep
  BY TypeStep, RowChanges
<1>s. ASSUME Still
      PROVE  /\ \A k \in StepRuns : Current(k)' <=> Current(k)
             /\ \A s \in Steps : DepsSucceeded(s)' <=> DepsSucceeded(s)
             /\ \A n : MayStart(n)' <=> MayStart(n)
             /\ st' = st
  BY <1>s DEF Still, rows, Current, MayStart, DepsSucceeded, Succeeded, Absent
<1>1. pc' = "create" => \A k \in StepRuns :
          st'[k] # "absent" => k[1] < at' /\ st'[k] = "pending"
  <2> SUFFICES ASSUME pc' = "create", NEW k \in StepRuns, st'[k] # "absent"
               PROVE  k[1] < at' /\ st'[k] = "pending"
    OBVIOUS
  <2>0. k[1] \in Nat /\ at \in Nat
    BY Numbers DEF TypeOK, Steps
  <2>1. CASE Start
    BY <2>1 DEF Start, CursorOK, rows
  <2>2. CASE CreateStepRun
    <3>1. pc = "create" /\ at' = at + 1
      BY <2>2 DEF CreateStepRun
    <3>2. CASE st[k] # "absent"
      BY <2>0, <2>2, <3>1, <3>2 DEF CursorOK, CreateStepRun, TypeOK
    <3>3. CASE st[k] = "absent"
      <4>1. k = <<Node(at), 0, 1>> /\ st'[k] = "pending"
        BY <2>2, <3>3 DEF CreateStepRun, TypeOK
      <4>2. Node(at) <= at
        BY Nodes DEF TypeOK
      <4> QED
        BY <2>0, <3>1, <4>1, <4>2
    <3> QED
      BY <3>2, <3>3
  <2>3. CASE Still
    BY <2>3, <1>s DEF Still, CursorOK
  <2> QED
    BY <2>1, <2>2, <2>3, Arrivals
<1>2. pc' = "expand" => \A k \in StepRuns :
          k[1] = Node(at)' /\ st'[k] # "absent" => st'[k] = "pending"
  <2> SUFFICES ASSUME pc' = "expand", NEW k \in StepRuns, k[1] = Node(at)',
                      st'[k] # "absent"
               PROVE  st'[k] = "pending"
    OBVIOUS
  <2>1. CASE Expand
    <3>1. k[1] = Node(at) /\ st[k] = "absent" /\ st' = st
      BY <2>1 DEF Expand, Absent, Node
    <3> QED
      BY <3>1
  <2>2. ASSUME NEW i \in Indexes, ExpandItem(i) PROVE st'[k] = "pending"
    BY <2>2 DEF ExpandItem, CursorOK, SetStep, TypeOK, Node
  <2>3. CASE Still
    BY <2>3, <1>s DEF Still, CursorOK, Node
  <2> QED
    BY <2>1, <2>2, <2>3, Arrivals
<1>3. pc' = "mark" =>
          /\ cur' \in 1 .. nruns' /\ Current(stepOf[cur])'
          /\ st'[stepOf'[cur']] = "pending" /\ MayStart(stepOf[cur][1])'
  <2> SUFFICES ASSUME pc' = "mark" PROVE <1>3!2
    OBVIOUS
  <2>1. ASSUME NEW k \in StepRuns, StartStep(k) PROVE <1>3!2
    <3>1. /\ cur' = nruns + 1 /\ nruns' = nruns + 1 /\ nruns + 1 \in Runs
          /\ nruns \in Nat
      BY <2>1, Numbers DEF StartStep, Runs, TypeOK
    <3>2. stepOf'[cur'] = k
      BY <2>1, <3>1 DEF StartStep, TypeOK
    <3>3. st' = st /\ st[k] = "pending" /\ Current(k) /\ MayStart(k[1])
      BY <2>1 DEF StartStep, rows, MayStart, TypeOK
    <3>4. Current(k)' /\ MayStart(k[1])'
      BY <3>3 DEF Current, MayStart, DepsSucceeded, Succeeded, Absent
    <3>5. Current(stepOf[cur])' /\ MayStart(stepOf[cur][1])'
      BY <3>2, <3>4 DEF Current, MayStart, DepsSucceeded, Succeeded, Absent
    <3> QED
      BY <3>1, <3>2, <3>3, <3>5
  <2>2. CASE Still
    <3>1. cur \in 1 .. nruns /\ pc = "mark" /\ stepOf[cur] \in StepRuns
      BY <2>2 DEF Still, CursorOK, RowsOK
    <3> QED
      BY <2>2, <3>1 DEF Still, rows, CursorOK, Current, MayStart, DepsSucceeded, Succeeded,
                        Absent
  <2> QED
    BY <2>1, <2>2, Arrivals
<1>4. pc' = "retry" =>
          /\ cur' \in 1 .. nruns' /\ Current(stepOf[cur])'
          /\ st'[stepOf'[cur']] = "failed"
          /\ stepOf'[cur'][3] <= Retries[stepOf'[cur'][1]]
  <2> SUFFICES ASSUME pc' = "retry" PROVE <1>4!2
    OBVIOUS
  <2>1. ASSUME NEW r \in 1 .. nruns, NEW T, CompleteStep(r, T) PROVE <1>4!2
    <3>1. /\ stepOf[r] \in StepRuns
          /\ st[stepOf[r]] \notin {"absent"} \union StepTerminal
      BY <2>1 DEF CompleteStep, RowsOK, Return, Advance
    <3>2. Current(stepOf[r])
      BY <3>1, NewestUnlessFailed DEF StepTerminal
    <3>3. /\ SetStep(stepOf[r], "failed") /\ cur' = r
          /\ stepOf[r][3] <= Retries[stepOf[r][1]]
          /\ stepOf' = stepOf /\ nruns' = nruns
      BY <2>1, <3>1 DEF CompleteStep, Return, Advance
    <3>4. Write(stepOf[r], "failed")
      BY <3>1, <3>3 DEF Write, StepStates, StepTerminal
    <3>5. Current(stepOf[r])'
      <4>1. \A j \in StepRuns : Current(j)' <=> Current(j)
        BY <3>1, <3>4, UpdateCurrent
      <4>2. PICK j \in StepRuns : j = stepOf[r]
        BY <3>1
      <4>3. Current(j)'
        BY <3>2, <4>1, <4>2
      <4> QED
        BY <3>3, <4>2, <4>3
    <3>6. Current(stepOf[cur])'
      BY <3>3, <3>5
    <3>7. st'[stepOf[r]] = "failed"
      BY <3>1, <3>3 DEF SetStep, TypeOK
    <3> QED
      BY <3>3, <3>6, <3>7
  <2>2. CASE Still
    <3>1. cur \in 1 .. nruns /\ pc = "retry" /\ stepOf[cur] \in StepRuns
      BY <2>2 DEF Still, CursorOK, RowsOK
    <3> QED
      BY <2>2, <3>1 DEF Still, rows, CursorOK, Current
  <2> QED
    BY <2>1, <2>2, Arrivals
<1>5. pc' = "reopen" => \A k \in StepRuns :
          st'[k] = "failed" /\ Current(k)' => k[3] <= Retries[k[1]] + reopens'
  <2> SUFFICES ASSUME pc' = "reopen", NEW k \in StepRuns, st'[k] = "failed",
                      Current(k)'
               PROVE  k[3] <= Retries[k[1]] + reopens'
    OBVIOUS
  <2>1. CASE RetryFailed
    <3>1. st[k] # "absent" /\ reopens' = reopens + 1
      BY <2>1 DEF RetryFailed, rows
    <3>2. k[3] <= Retries[k[1]] + 1 + reopens
      BY <3>1 DEF RetryBudget
    <3>3. k[3] \in Nat /\ Retries[k[1]] \in Nat /\ reopens \in Nat
      BY Numbers, Triples DEF TypeOK
    <3> QED
      BY <3>1, <3>2, <3>3
  <2>2. ASSUME NEW j \in StepRuns, ReopenStep(j)
        PROVE  k[3] <= Retries[k[1]] + reopens'
    <3>1. st[k] = "failed"
      BY <2>2 DEF ReopenStep, SetStep, TypeOK
    <3>2. Current(k)
      <4>1. \A a \in Attempts : <<k[1], k[2], a>> \in StepRuns
        BY Triples
      <4> QED
        BY <1>0, <3>1, <4>1, RowsRemain DEF Current
    <3> QED
      BY <2>2, <3>1, <3>2 DEF ReopenStep, CursorOK
  <2>3. CASE Still
    BY <2>3, <1>s DEF Still, CursorOK
  <2> QED
    BY <2>1, <2>2, <2>3, Arrivals
<1>6. prun' # "none" /\ Control'
  BY NeverNone, ControlStep
<1> QED
  BY <1>1, <1>2, <1>3, <1>4, <1>5, <1>6 DEF CursorOK, Control
-----------------------------------------------------------------------------
(* Why no node is left out of a success. *)

\* Some step run keeps the pipeline run from succeeding.
Unfinished == \E k \in StepRuns : Current(k) /\ st[k] # "success"

\* A new slot does not make anybody's attempt an old one.
LEMMA AppearsKeepsUnfinished ==
    ASSUME TypeOK, NEW k \in StepRuns, NEW v, Appears(k, v), Unfinished
    PROVE  Unfinished'
<1>1. PICK j \in StepRuns : Current(j) /\ st[j] # "success"
  BY DEF Unfinished
<1>2. j # k /\ st'[j] = st[j] /\ st[j] # "absent"
  BY <1>1 DEF Appears, Current, SetStep, TypeOK
<1>3. \A a \in Attempts : a > j[3] => st'[<<j[1], j[2], a>>] = st[<<j[1], j[2], a>>]
  <2> SUFFICES ASSUME NEW a \in Attempts, a > j[3]
               PROVE  st'[<<j[1], j[2], a>>] = st[<<j[1], j[2], a>>]
    OBVIOUS
  <2>1. <<j[1], j[2], a>> \in StepRuns /\ j[3] \in Nat /\ j[3] >= 1 /\ a \in Nat
    BY Triples, Numbers DEF Attempts
  <2>2. <<j[1], j[2], a>> # k
    BY <2>1 DEF Appears
  <2> QED
    BY <2>1, <2>2 DEF Appears, SetStep, TypeOK
<1>4. Current(j)'
  BY <1>1, <1>2, <1>3 DEF Current
<1> QED
  BY <1>1, <1>2, <1>4 DEF Unfinished

\* Where the walk over the steps goes on, and where it begins.
LEMMA Walk ==
    ASSUME TypeOK, CursorOK, Next, pc' \in Visiting \union {"settle"}
    PROVE  \/ Still \/ NextStep \/ MarkRunning \/ Expand
           \/ \E i \in Indexes : ExpandItem(i)
           \/ \E k \in StepRuns : StartStep(k) \/ StartStepFails(k)
           \/ pc' = "visit" /\ at' = 1
<1> USE DEF Visiting
<1>0. pc \in {"free", "sweep", "retry", "reopen"} => at = 1
  BY DEF CursorOK
<1>1. \A T : /\ Return(T) => pc' \in {"free", "sweep"}
             /\ Advance(T) => pc' \in {"free", "sweep", "visit"}
  BY DEF Return, Advance
<1>2. ASSUME NEW r \in Runs, Handle(r) \/ Reconcile(r)
      PROVE  pc' = "visit" /\ at' = 1
  <2>1. pc \in {"free", "sweep"} /\ at' = at
    BY <1>2 DEF Handle, Reconcile, CompleteStep
  <2>2. pc' \in {"free", "sweep", "visit", "retry"}
    BY <1>1, <1>2 DEF Handle, Reconcile, CompleteStep
  <2> QED
    BY <1>0, <2>1, <2>2
<1>3. ASSUME Settle \/ FinishRun \/ Tick \/ TickTimeout \/ Cancel \/ Restart
             \/ RetryFailed \/ Start
      PROVE  FALSE
  <2>1. pc' \in {"free", "sweep", "stop", "reopen", "create"}
    BY <1>1, <1>3 DEF Settle, FinishRun, Tick, TickTimeout, Cancel, Restart,
                      RetryFailed, Start
  <2> QED
    BY <2>1
<1>4. ASSUME NEW k \in StepRuns, StopStep(k) \/ ReopenStep(k) PROVE FALSE
  BY <1>4 DEF StopStep, ReopenStep
<1>5. ASSUME CreateStepRun \/ CreateRetry \/ Reopen
      PROVE  pc' = "visit" /\ at' = 1
  BY <1>0, <1>5 DEF CreateStepRun, CreateRetry, Reopen
<1> QED
  BY <1>2, <1>3, <1>4, <1>5, WorldIsStill DEF Next, Locked, Operator

LEMMA PassStep ==
    ASSUME TypeOK, RowsOK, CursorOK, AttemptHistory, PassOK, Next
    PROVE  PassOK'
<1> SUFFICES ASSUME pc' \in Visiting \union {"settle"}, NEW s \in Named,
                    s < at' \/ pc' = "settle", Absent(s)'
             PROVE  Unfinished'
  BY DEF PassOK, Unfinished
<1>n. s \in Steps /\ Node(s) = s
  BY DefinitionOK, Nodes
<1>0. /\ RowStep /\ at \in Nat /\ s \in Nat /\ s >= 1 /\ s <= N /\ N \in Nat
      /\ at <= N /\ s \in Steps /\ Node(s) = s
  BY <1>n, RowChanges, Numbers DEF TypeOK, Steps
<1>1. Absent(s)
  BY <1>0, RowsRemain DEF Absent
<1>2. pc \in Visiting \union {"settle"} /\ (s < at \/ pc = "settle") => Unfinished
  BY <1>1 DEF PassOK, Unfinished
<1>3. st' = st /\ Unfinished => Unfinished'
  BY DEF Unfinished, Current
<1>4. CASE Still
  BY <1>2, <1>3, <1>4 DEF Still, rows
<1>5. CASE NextStep
  <2>1. pc = "visit" /\ st' = st
    BY <1>5 DEF NextStep, rows
  <2>2. s < at \/ s = at
    BY <1>0, <1>5, <2>1 DEF NextStep
  <2>3. CASE s < at
    BY <1>2, <1>3, <2>1, <2>3 DEF Visiting
  <2>4. CASE s = at
    <3>1. PICK d \in Needs[at] : ~Succeeded(d)
      BY <1>0, <1>1, <1>5, <2>4 DEF NextStep, DepsSucceeded
    <3>2. d \in Named /\ d < at
      BY <1>0, <2>4, <3>1, DefinitionOK DEF Steps
    <3>3. CASE Absent(d)
      BY <1>3, <2>1, <3>2, <3>3 DEF PassOK, Unfinished, Visiting
    <3>4. CASE ~Absent(d)
      BY <1>3, <2>1, <3>1, <3>4 DEF Succeeded, Unfinished
    <3> QED
      BY <3>3, <3>4
  <2> QED
    BY <2>2, <2>3, <2>4
<1>6. CASE MarkRunning
  <2>1. PICK k \in StepRuns : k = stepOf[cur] /\ Current(k)
    BY <1>6 DEF MarkRunning, CursorOK, RowsOK
  <2>2. Write(k, "running") /\ st[k] # "absent"
    BY <1>6, <2>1 DEF MarkRunning, Write, StepStates, Busy, Current
  <2>3. Current(k)' /\ st'[k] = "running"
    BY <2>1, <2>2, UpdateCurrent DEF Write, SetStep, TypeOK
  <2> QED
    BY <2>3 DEF Unfinished
<1>7. ASSUME NEW k \in StepRuns, StartStepFails(k) PROVE Unfinished'
  <2>1. Write(k, "failed") /\ st[k] # "absent" /\ Current(k)
    BY <1>7 DEF StartStepFails, Write, StepStates, StepTerminal, Current
  <2>2. Current(k)' /\ st'[k] = "failed"
    BY <2>1, UpdateCurrent DEF Write, SetStep, TypeOK
  <2> QED
    BY <2>2 DEF Unfinished
<1>8. ASSUME NEW k \in StepRuns, StartStep(k) PROVE Unfinished'
  BY <1>2, <1>3, <1>8 DEF StartStep, rows, Visiting
<1>9. CASE Expand \/ \E i \in Indexes : ExpandItem(i)
  <2>1. at' = at /\ pc \in Visiting /\ pc' # "settle"
    BY <1>9 DEF Expand, ExpandItem, Visiting
  <2>2. Unfinished
    BY <1>2, <2>1
  <2> QED
    BY <1>3, <1>9, <2>2, AppearsSomewhere, AppearsKeepsUnfinished DEF rows
<1>10. CASE pc' = "visit" /\ at' = 1
  BY <1>0, <1>10
<1> QED
  BY <1>4, <1>5, <1>6, <1>7, <1>8, <1>9, <1>10, Walk

\* While a pipeline run is a success its rows are left alone.
LEMMA SuccessIsQuiet ==
    ASSUME SuccessMeansAll, prun = "success", RowStep
    PROVE  UNCHANGED rows
<1>1. \A k \in StepRuns : Current(k) => st[k] = "success"
  BY DEF SuccessMeansAll
<1> QED
  BY <1>1 DEF RowStep, Ends, Starts, Resets, Retried, Appears, Busy

LEMMA SuccessStep ==
    ASSUME TypeOK, RowsOK, CursorOK, AttemptHistory, PassOK, SuccessMeansAll, Next
    PROVE  SuccessMeansAll'
<1> SUFFICES ASSUME prun' = "success"
             PROVE  SuccessMeansAll'
  BY DEF SuccessMeansAll
<1>1. CASE prun = "success"
  BY <1>1, RowChanges, SuccessIsQuiet
     DEF SuccessMeansAll, Absent, Current, rows
<1>2. CASE prun # "success"
  <2>1. Settle
    BY <1>2, PipelineChanges DEF Start, FinishRun, Reopen, TypeOK
  <2>2. pc = "settle" /\ st' = st /\ CurrentIn(Bad) = {} /\ CurrentIn(Busy) = {}
    BY <1>2, <2>1 DEF Settle, rows
  <2>3. \A k \in StepRuns : Current(k) => st[k] = "success"
    BY <2>2 DEF CurrentIn, Bad, Busy, TypeOK, StepStates, StepTerminal, Current
  <2>4. \A s \in Named : s \in Steps /\ ~Absent(s)
    BY <2>2, <2>3, DefinitionOK DEF PassOK
  <2> QED
    BY <2>2, <2>3, <2>4 DEF SuccessMeansAll, Absent, Current
<1> QED
  BY <1>1, <1>2

LEMMA OverStep ==
    ASSUME TypeOK, RowsOK, CursorOK, AttemptHistory, OverIsOver, Next
    PROVE  OverIsOver'
<1> SUFFICES ASSUME prun' \in RunTerminal, NEW k \in StepRuns
             PROVE  st'[k] # "running"
  <2>1. RowsOK'
    BY RowChanges, RunChanges, RowsStep
  <2> QED
    BY <2>1 DEF OverIsOver, RowsOK
<1>1. CASE prun \in RunTerminal
  <2>1. st[k] # "running"
    BY <1>1 DEF OverIsOver
  <2>2. ASSUME NEW j \in StepRuns, NEW r, Starts(j, r) PROVE FALSE
    BY <1>1, <2>2 DEF Starts, CursorOK, Visiting, RunTerminal
  <2>3. ASSUME NEW j, NEW v, v # "running", SetStep(j, v) PROVE st'[k] # "running"
    BY <2>1, <2>3 DEF SetStep, TypeOK
  <2> QED
    BY <2>1, <2>2, <2>3, RowChanges
       DEF RowStep, rows, Ends, Resets, Retried, Appears, StepTerminal
<1>2. CASE prun \notin RunTerminal
  <2>1. Settle \/ FinishRun
    BY <1>2, PipelineChanges DEF Start, Reopen, RunTerminal
  <2>2. st' = st /\ CurrentIn(Busy) = {}
    BY <1>2, <2>1 DEF Settle, FinishRun, rows
  <2> QED
    BY <2>2, NewestUnlessFailed DEF CurrentIn, Busy
<1> QED
  BY <1>1, <1>2
-----------------------------------------------------------------------------
(* The theorems. *)

\* A run of the executor starts with nothing, which satisfies the invariant.
LEMMA InvInit == Init => Inv
<1> SUFFICES ASSUME Init PROVE Inv
  OBVIOUS
<1>1. TypeOK
  <2>1. /\ st \in [StepRuns -> StepStates]
        /\ runOf \in [StepRuns -> Runs \union {NoRun}]
        /\ stepOf \in [Runs -> StepRuns \union {<<>>}]
        /\ outcome \in [Runs -> {"none", "running", "success", "failed"}]
    BY DEF Init, StepStates
  <2>2. /\ nruns \in 0 .. MaxRuns /\ cur \in 0 .. nruns /\ at \in Steps
        /\ want \in 0 .. MaxItems /\ reopens \in 0 .. MaxReopens
    BY Numbers DEF Init, NoRun, Steps
  <2>3. /\ prun = "none" /\ late = FALSE /\ torn = FALSE /\ pc = "free"
        /\ goal = "none" /\ live = {} /\ bus = {} /\ todo = {}
    BY DEF Init
  <2> QED
    BY <2>1, <2>2, <2>3 DEF TypeOK, PCs
<1>2. nruns = 0 /\ \A k \in StepRuns : st[k] = "absent" /\ runOf[k] = NoRun
  BY DEF Init
<1>3. RowsOK
  BY <1>2 DEF Init, RowsOK
<1>4. CursorOK
  BY <1>2 DEF Init, CursorOK, Visiting
<1>5. AttemptHistory /\ RetryBudget /\ DepsFirst
  BY <1>2 DEF AttemptHistory, RetryBudget, DepsFirst
<1>6. PassOK /\ SuccessMeansAll /\ OverIsOver
  BY DEF Init, PassOK, SuccessMeansAll, OverIsOver, Visiting, RunTerminal
<1> QED
  BY <1>1, <1>3, <1>4, <1>5, <1>6 DEF Inv

\* Every step of the executor and of the world around it keeps it.
LEMMA InvStep == Inv /\ [Next]_vars => Inv'
<1> SUFFICES ASSUME Inv, [Next]_vars PROVE Inv'
  OBVIOUS
<1>0. /\ TypeOK /\ RowsOK /\ CursorOK /\ AttemptHistory /\ RetryBudget
      /\ DepsFirst /\ PassOK /\ SuccessMeansAll /\ OverIsOver
  BY DEF Inv
<1>1. CASE Next
  <2>1. RowStep /\ RunStep
    BY <1>0, <1>1, RowChanges, RunChanges
  <2>2. TypeOK' /\ RowsOK' /\ CursorOK'
    BY <1>0, <1>1, <2>1, TypeStep, RowsStep, CursorStep
  <2>3. reopens' \in Nat /\ reopens' >= reopens
    <3>1. reopens \in Nat /\ reopens' \in Nat
      BY <1>0, <2>2, Numbers DEF TypeOK
    <3>2. ASSUME NEW r \in Runs, Handle(r) \/ Reconcile(r)
          PROVE  reopens' = reopens
      BY <3>2 DEF Handle, Reconcile, CompleteStep
    <3>3. reopens' = reopens \/ reopens' = reopens + 1
      BY <1>1, <3>2 DEF Next, Operator, Locked, Cancel, RetryFailed, Tick,
           TickTimeout, Late, Restart, FinishOfRun, CreateStepRun, Expand,
           MarkRunning, NextStep, ExpandItem, StartStep, StartStepFails, StopStep,
           ReopenStep, CreateRetry, Start, Settle, FinishRun, Reopen
    <3> QED
      BY <3>1, <3>3
  <2>4. AttemptHistory' /\ RetryBudget' /\ DepsFirst'
    BY <1>0, <2>1, <2>3, HistoryStep, BudgetStep, DepsStep
  <2>5. PassOK' /\ SuccessMeansAll' /\ OverIsOver'
    BY <1>0, <1>1, PassStep, SuccessStep, OverStep
  <2> QED
    BY <2>2, <2>4, <2>5 DEF Inv
<1>2. CASE UNCHANGED vars
  <2>1. TypeOK'
    BY <1>0, <1>2 DEF vars, rows, runs, TypeOK
  <2>2. RowsOK' /\ AttemptHistory' /\ RetryBudget'
    BY <1>0, <1>2 DEF vars, rows, runs, RowsOK, AttemptHistory, RetryBudget
  <2>3. CursorOK'
    BY <1>0, <1>2 DEF vars, rows, runs, CursorOK, Current, MayStart, DepsSucceeded,
                      Succeeded, Absent, Node
  <2>4. DepsFirst' /\ PassOK' /\ SuccessMeansAll' /\ OverIsOver'
    BY <1>0, <1>2 DEF vars, rows, runs, DepsFirst, PassOK, SuccessMeansAll,
                      OverIsOver, AllSucceeded, Absent, Current
  <2> QED
    BY <2>1, <2>2, <2>3, <2>4 DEF Inv
<1> QED
  BY <1>1, <1>2

\* The invariant holds in every state of every run of the executor.
THEOREM PipelineInvariant == Spec => []Inv
BY InvInit, InvStep, PTL DEF Spec

\* Every row, run and cursor has the values its code allows.
THEOREM PipelineTypes == Spec => []TypeOK
BY PipelineInvariant, PTL DEF Inv

\* A pipeline run is a success only when no step with an id was left out and
\* the newest attempt of every slot succeeded, whatever was retried, cancelled,
\* lost or interrupted, for every definition that Validate accepts, steps
\* without an id included, and any number of items, runs, restarts and retries
\* (settle, advanceLocked).
THEOREM SuccessIsComplete == Spec => []SuccessMeansAll
BY PipelineInvariant, PTL DEF Inv

\* A node that was started has all the needs of a step of it succeeded behind it, then
\* and ever after (depsSucceeded).
THEOREM DependenciesFirst == Spec => []DepsFirst
BY PipelineInvariant, PTL DEF Inv

\* Of a slot only the newest attempt has not failed, and the attempts keep to
\* the budget (completeStep, RetryFailed).
THEOREM AttemptsInOrder == Spec => []AttemptsOK
BY PipelineInvariant, PTL DEF Inv, AttemptsOK

\* When a pipeline run is over no step of it runs and the sessions of the
\* cancelled ones are closed (settle, stopSteps, Cancel, Tick).
THEOREM NothingRunsOn == Spec => []OverIsOver
BY PipelineInvariant, PTL DEF Inv

-----------------------------------------------------------------------------
(* Definitions: Parse, topo and Validate. *)

\* The needs of a step that name a step which is not in the levels so far.
Unmet(i) == {k \in 1 .. Len(NeedList(i)) : idIndex(NeedList(i)[k]) \notin {0} \cup Ordered}

\* A set of steps of which each needs one of the set.
Closed(C) == \A i \in C : \E k \in 1 .. Len(NeedList(i)) : idIndex(NeedList(i)[k]) \in C

\* What Parse finds wrong, and what Validate adds.
ParseProblems ==
    IF ~input.yaml THEN {Problem("yaml", 0)}
    ELSE IF input.timeout = "unparsable" THEN {Problem("duration", 0)} ELSE {}
AllProblems ==
    ParseProblems \cup WorkspaceProblems \cup LimitProblems
    \cup (UNION {StepProblems(i) : i \in Positions})
    \cup (UNION {NeedProblems(i) : i \in First})
    \cup {Problem("cycle", i) : i \in Cyclic}

\* What Parse has made of the input, and what is known to be wrong with it.
Parsed ==
    /\ input \in Inputs
    /\ stage = "parse" => def = Unparsed /\ problems = {}
    /\ stage # "parse" => IF input.yaml
          THEN def = [timeout |-> IF input.timeout = "unparsable" THEN "unset" ELSE input.timeout,
                      steps |-> input.steps]
          ELSE def = Unparsed
    /\ stage \in {"graph", "level", "check"} => problems = ParseProblems
    /\ stage = "done" => problems = AllProblems

\* Where topo is: the queue holds the steps whose needs are met and that have
\* no level yet, and no step of a closed set ever gets a level.
Sorting ==
    /\ stage \in {"parse", "graph", "level", "check", "done"}
    /\ levels \in Seq(SUBSET First)
    /\ stage \in {"parse", "graph"} => levels = <<>> /\ queue = {}
    /\ stage \in {"level", "check", "done"} =>
          /\ indegree = [i \in First |-> Cardinality(Unmet(i))]
          /\ queue = {i \in First \ Ordered : Unmet(i) = {}}
    /\ stage \in {"check", "done"} => queue = {}
    /\ LevelsOrder
    /\ \A C \in SUBSET First : Closed(C) => C \cap Ordered = {}

DefinitionsInv == Parsed /\ Sorting

-----------------------------------------------------------------------------
(* Ids. *)

LEMMA Lengths ==
    ASSUME Parsed
    PROVE  /\ Len(def.steps) \in Nat /\ Positions \subseteq Nat \ {0}
           /\ Len(def.steps) <= Len(input.steps) /\ Len(input.steps) \in Nat
           /\ \A i \in Positions : Len(NeedList(i)) \in Nat
<1>1. Len(input.steps) \in Nat /\ \A i \in 1 .. Len(input.steps) : Len(input.steps[i].needs) \in Nat
  BY InputsOK DEF Parsed
<1>2. def.steps = <<>> \/ def.steps = input.steps
  BY DEF Parsed, Unparsed
<1>3. QED
  BY <1>1, <1>2 DEF Positions, NeedList

\* An id names the first step that has it.
LEMMA IdsName ==
    ASSUME Parsed, NEW id
    PROVE  /\ idIndex(id) \in Nat
           /\ idIndex(id) = 0 <=> id = NoId \/ \A i \in Positions : Id(i) # id
           /\ idIndex(id) # 0 => /\ idIndex(id) \in First /\ Id(idIndex(id)) = id
                                 /\ \A j \in Positions : Id(j) = id => idIndex(id) <= j
<1> DEFINE Has(x) == {i \in Positions : Id(i) = x}
<1>1. ASSUME NEW x, x # NoId, Has(x) # {}
      PROVE  idIndex(x) \in Has(x) /\ \A j \in Has(x) : idIndex(x) <= j
  <2>1. \E i \in Has(x) : \A j \in Has(x) : i <= j
    <3>1. Has(x) \subseteq Nat
      BY Lengths
    <3> HIDE DEF Has
    <3>2. QED
      BY <1>1, <3>1, Least
  <2>2. QED
    BY <1>1, <2>1 DEF idIndex
<1>2. CASE id = NoId \/ Has(id) = {}
  BY <1>2 DEF idIndex
<1>3. CASE id # NoId /\ Has(id) # {}
  <2>1. idIndex(id) \in Positions /\ Id(idIndex(id)) = id /\ \A j \in Has(id) : idIndex(id) <= j
    BY <1>1, <1>3
  <2>2. idIndex(id) \in First
    BY <1>3, <2>1 DEF First
  <2>3. QED
    BY <1>3, <2>1, <2>2, Lengths
<1>4. QED
  BY <1>2, <1>3

-----------------------------------------------------------------------------
(* Levels. *)

LEMMA OrderedIsUnion ==
    ASSUME NEW i
    PROVE  i \in Ordered <=> \E k \in 1 .. Len(levels) : i \in levels[k]
BY DEF Ordered

\* The needs of a step are finitely many, and those of a step in the levels
\* are met.
LEMMA NeedsAreMet ==
    ASSUME Parsed, Sorting
    PROVE  /\ Ordered \subseteq First /\ First \subseteq Positions /\ 0 \notin First
           /\ \A i \in Ordered : Unmet(i) = {}
           /\ \A i \in First : Unmet(i) \subseteq 1 .. Len(NeedList(i)) /\ IsFiniteSet(Unmet(i))
<1>1. First \subseteq Positions /\ 0 \notin First
  BY Lengths DEF First
<1>2. Ordered \subseteq First
  BY OrderedIsUnion DEF Sorting
<1>3. ASSUME NEW i \in Ordered PROVE Unmet(i) = {}
  <2>1. PICK k \in 1 .. Len(levels) : i \in levels[k]
    BY OrderedIsUnion
  <2>2. SUFFICES ASSUME NEW n \in 1 .. Len(NeedList(i)), idIndex(NeedList(i)[n]) # 0
                 PROVE  idIndex(NeedList(i)[n]) \in Ordered
    BY DEF Unmet
  <2>3. \E m \in 1 .. k - 1 : idIndex(NeedList(i)[n]) \in levels[m]
    BY <2>1, <2>2 DEF Sorting, LevelsOrder
  <2>4. QED
    BY <2>1, <2>3, OrderedIsUnion DEF Sorting
<1>4. ASSUME NEW i \in First
      PROVE  Unmet(i) \subseteq 1 .. Len(NeedList(i)) /\ IsFiniteSet(Unmet(i))
  <2>1. Len(NeedList(i)) \in Nat
    BY <1>1, Lengths
  <2>2. Unmet(i) \subseteq 1 .. Len(NeedList(i))
    BY DEF Unmet
  <2>3. IsFiniteSet(1 .. Len(NeedList(i)))
    BY <2>1, FS_Interval
  <2>4. QED
    BY <2>2, <2>3, FS_Subset
<1>5. QED
  BY <1>1, <1>2, <1>3, <1>4

\* The levels with the next one.
LEMMA OneMoreLevel ==
    ASSUME NEW s \in Seq(SUBSET First), NEW q \in SUBSET First
    PROVE  /\ Append(s, q) \in Seq(SUBSET First) /\ Len(Append(s, q)) = Len(s) + 1 /\ Len(s) \in Nat
           /\ \A k \in 1 .. Len(s) : Append(s, q)[k] = s[k]
           /\ Append(s, q)[Len(s) + 1] = q
OBVIOUS

\* A level more leaves the order of the levels and meets needs.
LEMMA LevelSorts ==
    ASSUME DefinitionsInv, TopoLevel
    PROVE  Sorting'
<1> USE DEF DefinitionsInv
<1> DEFINE MetSet(i) == {k \in 1 .. Len(NeedList(i)) : idIndex(NeedList(i)[k]) \in queue}
<1>1. /\ stage = "level" /\ stage' = "level" /\ def' = def /\ levels' = Append(levels, queue)
      /\ queue = {i \in First \ Ordered : Unmet(i) = {}}
      /\ indegree = [i \in First |-> Cardinality(Unmet(i))]
      /\ levels \in Seq(SUBSET First) /\ queue \in SUBSET First
  BY DEF TopoLevel, Sorting
<1>2. /\ \A x : idIndex(x)' = idIndex(x) /\ NeedList(x)' = NeedList(x) /\ Id(x)' = Id(x)
      /\ First' = First /\ Positions' = Positions
  BY <1>1 DEF idIndex, First, Positions, NeedList, Id
<1>3. /\ levels' \in Seq(SUBSET First) /\ Len(levels') = Len(levels) + 1 /\ Len(levels) \in Nat
      /\ \A k \in 1 .. Len(levels) : levels'[k] = levels[k]
      /\ levels'[Len(levels) + 1] = queue
  BY <1>1, OneMoreLevel
<1>4. Ordered' = Ordered \cup queue
  <2>1. \A i : i \in Ordered' <=> \E k \in 1 .. Len(levels') : i \in levels'[k]
    BY DEF Ordered
  <2>2. \A i : i \in Ordered <=> \E k \in 1 .. Len(levels) : i \in levels[k]
    BY OrderedIsUnion
  <2>3. QED
    BY <2>1, <2>2, <1>3
<1>5. ASSUME NEW i \in First
      PROVE  /\ Unmet(i)' = Unmet(i) \ MetSet(i) /\ MetSet(i) \subseteq Unmet(i)
             /\ Cardinality(Unmet(i)') \in Nat /\ Cardinality(Unmet(i)) \in Nat
             /\ Cardinality(Unmet(i)') = 0 <=> Unmet(i)' = {}
             /\ Cardinality(Unmet(i)) = 0 <=> Unmet(i) = {}
             /\ Cardinality(Unmet(i)') = Cardinality(Unmet(i)) - Cardinality(MetSet(i))
  <2>1. Unmet(i)' = {k \in 1 .. Len(NeedList(i)) : idIndex(NeedList(i)[k]) \notin {0} \cup (Ordered \cup queue)}
    BY <1>2, <1>4 DEF Unmet
  <2>2. queue \cap Ordered = {} /\ 0 \notin queue
    BY <1>1, NeedsAreMet
  <2>3. Unmet(i)' = Unmet(i) \ MetSet(i) /\ MetSet(i) \subseteq Unmet(i)
    BY <2>1, <2>2 DEF Unmet
  <2>4. IsFiniteSet(Unmet(i))
    BY NeedsAreMet
  <2>5. IsFiniteSet(MetSet(i)) /\ IsFiniteSet(Unmet(i)')
    BY <2>3, <2>4, FS_Subset
  <2>6. Unmet(i) = Unmet(i)' \cup MetSet(i) /\ Unmet(i)' \cap MetSet(i) = {}
    BY <2>3
  <2> DEFINE A == Unmet(i)
             B == Unmet(i)'
             C == MetSet(i)
  <2>7. IsFiniteSet(A) /\ IsFiniteSet(B) /\ IsFiniteSet(C) /\ A = B \cup C /\ B \cap C = {}
    BY <2>4, <2>5, <2>6
  <2>8. /\ Cardinality(A) \in Nat /\ Cardinality(B) \in Nat /\ Cardinality(C) \in Nat
        /\ Cardinality(A) = 0 <=> A = {}
        /\ Cardinality(B) = 0 <=> B = {}
        /\ Cardinality(A) = Cardinality(B) + Cardinality(C)
    <3> HIDE DEF A, B, C
    <3>1. Cardinality(A) \in Nat /\ Cardinality(B) \in Nat /\ Cardinality(C) \in Nat
      BY <2>7, FS_CardinalityType
    <3>2. (Cardinality(A) = 0 <=> A = {}) /\ (Cardinality(B) = 0 <=> B = {})
      BY <2>7, FS_EmptySet
    <3>3. Cardinality(B \cup C) = Cardinality(B) + Cardinality(C) - Cardinality(B \cap C)
      BY <2>7, FS_Union
    <3>4. Cardinality(B \cap C) = 0
      BY <2>7, FS_EmptySet
    <3>5. Cardinality(A) = Cardinality(B) + Cardinality(C) - Cardinality(B \cap C)
      BY <2>7, <3>3
    <3>6. Cardinality(A) = Cardinality(B) + Cardinality(C)
      BY <3>1, <3>4, <3>5
    <3>7. QED
      BY <3>1, <3>2, <3>6, Zenon
  <2>9. /\ Cardinality(B) \in Nat /\ Cardinality(A) \in Nat
        /\ Cardinality(B) = 0 <=> B = {}
        /\ Cardinality(A) = 0 <=> A = {}
        /\ Cardinality(B) = Cardinality(A) - Cardinality(C)
    <3> HIDE DEF A, B, C
    <3>1. QED
      BY <2>8
  <2>10. QED
    BY <2>3, <2>9
<1>6. indegree' = [i \in First |-> Cardinality(Unmet(i)')]
  <2>1. indegree' = [i \in First |-> indegree[i] - Cardinality(MetSet(i))]
    BY DEF TopoLevel
  <2>2. QED
    BY <1>1, <1>5, <2>1
<1>7. queue' = {i \in First : Cardinality(Unmet(i)') < Cardinality(Unmet(i)) /\ Cardinality(Unmet(i)') = 0}
  <2>1. queue' = {i \in First : Released(i, indegree'[i])}
    BY DEF TopoLevel
  <2>2. QED
    BY <1>1, <1>6, <2>1 DEF Released
<1>8. queue' = {i \in First' \ Ordered' : Unmet(i)' = {}}
  <2>1. ASSUME NEW i \in First
        PROVE  Cardinality(Unmet(i)') < Cardinality(Unmet(i)) /\ Cardinality(Unmet(i)') = 0
               <=> i \notin Ordered' /\ Unmet(i)' = {}
    <3>1. CASE Unmet(i) = {}
      <4>1. i \in Ordered'
        BY <1>1, <1>4, <3>1
      <4>2. Cardinality(Unmet(i)) = 0 /\ Cardinality(Unmet(i)') \in Nat
        BY <1>5, <3>1
      <4>3. QED
        BY <4>1, <4>2
    <3>2. CASE Unmet(i) # {}
      <4>1. i \notin Ordered /\ i \notin queue
        BY <3>2, <1>1, NeedsAreMet
      <4>2. i \notin Ordered'
        BY <1>4, <4>1
      <4>3. /\ Cardinality(Unmet(i)) \in Nat \ {0}
            /\ Cardinality(Unmet(i)') = 0 <=> Unmet(i)' = {}
        BY <1>5, <3>2
      <4>4. QED
        BY <4>2, <4>3
    <3>3. QED
      BY <3>1, <3>2
  <2>2. QED
    BY <1>2, <1>7, <2>1
<1>9. LevelsOrder'
  <2>1. SUFFICES ASSUME NEW k \in 1 .. Len(levels'), NEW i \in levels'[k]
                 PROVE  /\ \A m \in 1 .. k - 1 : i \notin levels'[m]
                        /\ \A n \in 1 .. Len(NeedList(i)) : idIndex(NeedList(i)[n]) # 0 =>
                              \E m \in 1 .. k - 1 : idIndex(NeedList(i)[n]) \in levels'[m]
    BY <1>2 DEF LevelsOrder
  <2>2. CASE k \in 1 .. Len(levels)
    <3>1. \A m \in 1 .. k - 1 : levels'[m] = levels[m]
      BY <1>3, <2>2
    <3>2. i \in levels[k]
      BY <1>3, <2>2
    <3>3. QED
      BY <2>2, <3>1, <3>2 DEF Sorting, LevelsOrder
  <2>3. CASE k = Len(levels) + 1
    <3>1. i \in First /\ i \notin Ordered /\ Unmet(i) = {}
      BY <1>1, <1>3, <2>3
    <3>2. \A m \in 1 .. k - 1 : i \notin levels'[m]
      BY <1>3, <2>3, <3>1, OrderedIsUnion
    <3>3. \A n \in 1 .. Len(NeedList(i)) : idIndex(NeedList(i)[n]) # 0 => idIndex(NeedList(i)[n]) \in Ordered
      BY <3>1 DEF Unmet
    <3>4. \A x \in Ordered : \E m \in 1 .. Len(levels) : x \in levels[m]
      BY OrderedIsUnion
    <3>5. \A x \in Ordered : \E m \in 1 .. k - 1 : x \in levels'[m]
      BY <1>3, <2>3, <3>4
    <3>6. QED
      BY <3>2, <3>3, <3>5
  <2>4. QED
    BY <1>3, <2>2, <2>3
<1>10. ASSUME NEW C \in SUBSET First', Closed(C)' PROVE C \cap Ordered' = {}
  <2>1. Closed(C)
    BY <1>2, <1>10 DEF Closed
  <2>2. C \in SUBSET First /\ C \cap Ordered = {}
    BY <1>2, <2>1 DEF Sorting
  <2>3. ASSUME NEW i \in C, i \in queue PROVE FALSE
    <3>1. PICK k \in 1 .. Len(NeedList(i)) : idIndex(NeedList(i)[k]) \in C
      BY <2>1 DEF Closed
    <3>2. k \in Unmet(i)
      BY <2>2, <3>1, NeedsAreMet DEF Unmet
    <3>3. QED
      BY <1>1, <2>3, <3>2
  <2>4. QED
    BY <1>4, <2>2, <2>3
<1>11. QED
  BY <1>1, <1>2, <1>3, <1>6, <1>8, <1>9, <1>10 DEF Sorting

-----------------------------------------------------------------------------
(* The invariant. *)

LEMMA DefinitionsStart == DefinitionsInit => DefinitionsInv
<1> SUFFICES ASSUME DefinitionsInit PROVE DefinitionsInv
  OBVIOUS
<1>1. Parsed
  BY DEF DefinitionsInit, Parsed
<1>2. Ordered = {} /\ levels \in Seq(SUBSET First)
  BY DEF DefinitionsInit, Ordered
<1>3. Sorting
  BY <1>2 DEF DefinitionsInit, Sorting, LevelsOrder
<1>4. QED
  BY <1>1, <1>3 DEF DefinitionsInv

LEMMA ParseKeeps ==
    ASSUME DefinitionsInv, Parse
    PROVE  DefinitionsInv'
<1>1. stage = "parse" /\ stage' = "graph" /\ levels = <<>> /\ levels' = <<>> /\ queue' = {} /\ input' = input
  BY DEF Parse, DefinitionsInv, Sorting
<1>2. Parsed'
  BY <1>1 DEF Parse, DefinitionsInv, Parsed, ParseProblems, Problem
<1>3. Ordered' = {} /\ levels' \in Seq(SUBSET First')
  BY <1>1 DEF Ordered
<1>4. Sorting'
  BY <1>1, <1>3 DEF Sorting, LevelsOrder
<1>5. QED
  BY <1>2, <1>4 DEF DefinitionsInv

\* The definition, and what only depends on it, stays after Parse.
LEMMA DefinitionStays ==
    ASSUME def' = def
    PROVE  /\ \A x : idIndex(x)' = idIndex(x) /\ NeedList(x)' = NeedList(x) /\ Id(x)' = Id(x)
           /\ First' = First /\ Positions' = Positions
BY DEF idIndex, First, Positions, NeedList, Id

LEMMA SortingStays ==
    ASSUME Sorting, def' = def, levels' = levels, queue' = queue, indegree' = indegree,
           stage \in {"level", "check"}, stage' \in {"level", "check", "done"},
           stage' \in {"check", "done"} => queue = {}
    PROVE  Sorting' /\ Ordered' = Ordered /\ Cyclic' = Cyclic
<1>1. /\ \A x : idIndex(x)' = idIndex(x) /\ NeedList(x)' = NeedList(x) /\ Id(x)' = Id(x)
      /\ First' = First /\ Positions' = Positions
  BY DefinitionStays
<1>2. Ordered' = Ordered
  BY DEF Ordered
<1>3. Cyclic' = Cyclic
  BY <1>1, <1>2 DEF Cyclic
<1>4. \A i : Unmet(i)' = Unmet(i)
  BY <1>1, <1>2 DEF Unmet
<1>5. LevelsOrder'
  BY <1>1 DEF Sorting, LevelsOrder
<1>6. \A C : Closed(C)' <=> Closed(C)
  BY <1>1 DEF Closed
<1>7. QED
  BY <1>1, <1>2, <1>3, <1>4, <1>5, <1>6 DEF Sorting

LEMMA TopoStartKeeps ==
    ASSUME DefinitionsInv, TopoStart
    PROVE  DefinitionsInv'
<1>1. /\ stage = "graph" /\ stage' = "level" /\ levels = <<>> /\ levels' = <<>> /\ input' = input
      /\ def' = def /\ problems' = problems
      /\ indegree' = [i \in First |-> Indegree(i)] /\ queue' = {i \in First : Indegree(i) = 0}
  BY DEF TopoStart, DefinitionsInv, Sorting
<1>2. Parsed'
  BY <1>1 DEF DefinitionsInv, Parsed, ParseProblems, Problem
<1>3. /\ \A x : idIndex(x)' = idIndex(x) /\ NeedList(x)' = NeedList(x) /\ Id(x)' = Id(x)
      /\ First' = First /\ Positions' = Positions
  BY <1>1, DefinitionStays
<1>4. Ordered' = {} /\ Ordered = {} /\ levels' \in Seq(SUBSET First')
  BY <1>1 DEF Ordered
<1>5. \A i : Unmet(i)' = {k \in 1 .. Len(NeedList(i)) : idIndex(NeedList(i)[k]) # 0}
  BY <1>3, <1>4 DEF Unmet
<1>6. \A i : Unmet(i) = Unmet(i)'
  BY <1>4, <1>5 DEF Unmet
<1>7. \A i : Indegree(i) = Cardinality(Unmet(i)')
  BY <1>5 DEF Indegree
<1>8. \A i \in First : Cardinality(Unmet(i)) = 0 <=> Unmet(i) = {}
  BY NeedsAreMet, FS_EmptySet DEF DefinitionsInv
<1>9. queue' = {i \in First' \ Ordered' : Unmet(i)' = {}}
  BY <1>1, <1>3, <1>4, <1>6, <1>7, <1>8
<1>10. Sorting'
  BY <1>1, <1>3, <1>4, <1>7, <1>9 DEF Sorting, LevelsOrder
<1>11. QED
  BY <1>2, <1>10 DEF DefinitionsInv

LEMMA TopoKeeps ==
    ASSUME DefinitionsInv, TopoLevel \/ TopoEnds
    PROVE  DefinitionsInv'
<1>1. CASE TopoLevel
  <2>1. Sorting'
    BY <1>1, LevelSorts
  <2>2. Parsed'
    BY <1>1 DEF TopoLevel, DefinitionsInv, Parsed, ParseProblems, Problem
  <2>3. QED
    BY <2>1, <2>2 DEF DefinitionsInv
<1>2. CASE TopoEnds
  <2>1. /\ def' = def /\ levels' = levels /\ queue' = queue /\ indegree' = indegree
        /\ stage = "level" /\ stage' = "check" /\ queue = {}
        /\ input' = input /\ problems' = problems
    BY <1>2 DEF TopoEnds
  <2>2. Sorting'
    BY <2>1, SortingStays DEF DefinitionsInv
  <2>3. Parsed'
    BY <2>1 DEF DefinitionsInv, Parsed, ParseProblems, Problem
  <2>4. QED
    BY <2>2, <2>3 DEF DefinitionsInv
<1>3. QED
  BY <1>1, <1>2

LEMMA ValidateKeeps ==
    ASSUME DefinitionsInv, Validate
    PROVE  DefinitionsInv'
<1>1. /\ def' = def /\ levels' = levels /\ queue' = queue /\ indegree' = indegree
      /\ stage = "check" /\ stage' = "done" /\ queue = {} /\ input' = input
  BY DEF Validate, DefinitionsInv, Sorting
<1>2. Sorting' /\ Ordered' = Ordered /\ Cyclic' = Cyclic
  BY <1>1, SortingStays DEF DefinitionsInv
<1>3. /\ \A x : idIndex(x)' = idIndex(x) /\ NeedList(x)' = NeedList(x) /\ Id(x)' = Id(x)
      /\ First' = First /\ Positions' = Positions
  BY <1>1, DefinitionStays
<1>4. problems' = AllProblems
  BY <1>1 DEF Validate, AllProblems, DefinitionsInv, Parsed
<1>5. \A i : StepProblems(i)' = StepProblems(i)
  BY <1>1, <1>3 DEF StepProblems, Problem
<1>6. \A i : NeedProblems(i)' = NeedProblems(i)
  BY <1>2, <1>3 DEF NeedProblems, Problem
<1>7. ParseProblems' = ParseProblems /\ WorkspaceProblems' = WorkspaceProblems /\ LimitProblems' = LimitProblems
  BY <1>1 DEF ParseProblems, WorkspaceProblems, LimitProblems, Problem
<1>8. UNION {StepProblems(i)' : i \in Positions'} = UNION {StepProblems(i) : i \in Positions}
  BY <1>3, <1>5
<1>9. UNION {NeedProblems(i)' : i \in First'} = UNION {NeedProblems(i) : i \in First}
  BY <1>3, <1>6
<1>10. AllProblems' = AllProblems
  BY <1>2, <1>7, <1>8, <1>9 DEF AllProblems, Problem
<1>11. Parsed'
  BY <1>1, <1>4, <1>10 DEF DefinitionsInv, Parsed
<1>12. QED
  BY <1>2, <1>11 DEF DefinitionsInv

LEMMA DefinitionsStutter ==
    ASSUME DefinitionsInv, UNCHANGED definitionVars
    PROVE  DefinitionsInv'
<1>1. /\ def' = def /\ levels' = levels /\ queue' = queue /\ indegree' = indegree
      /\ stage' = stage /\ input' = input /\ problems' = problems
  BY DEF definitionVars
<1>2. /\ \A x : idIndex(x)' = idIndex(x) /\ NeedList(x)' = NeedList(x) /\ Id(x)' = Id(x)
      /\ First' = First /\ Positions' = Positions
  BY <1>1, DefinitionStays
<1>3. Ordered' = Ordered /\ Cyclic' = Cyclic
  BY <1>1, <1>2 DEF Ordered, Cyclic
<1>4. \A i : Unmet(i)' = Unmet(i) /\ \A C : Closed(C)' <=> Closed(C)
  BY <1>2, <1>3 DEF Unmet, Closed
<1>5. LevelsOrder' /\ Sorting'
  BY <1>1, <1>2, <1>3, <1>4 DEF DefinitionsInv, Sorting, LevelsOrder
<1>6. \A i : StepProblems(i)' = StepProblems(i) /\ NeedProblems(i)' = NeedProblems(i)
  BY <1>1, <1>2, <1>3 DEF StepProblems, NeedProblems, Problem
<1>7. ParseProblems' = ParseProblems /\ WorkspaceProblems' = WorkspaceProblems /\ LimitProblems' = LimitProblems
  BY <1>1 DEF ParseProblems, WorkspaceProblems, LimitProblems, Problem
<1>8. /\ UNION {StepProblems(i)' : i \in Positions'} = UNION {StepProblems(i) : i \in Positions}
      /\ UNION {NeedProblems(i)' : i \in First'} = UNION {NeedProblems(i) : i \in First}
  BY <1>2, <1>6
<1>9. AllProblems' = AllProblems
  BY <1>3, <1>7, <1>8 DEF AllProblems, Problem
<1>10. QED
  BY <1>1, <1>5, <1>7, <1>9 DEF DefinitionsInv, Parsed

\* The invariant holds of every behaviour of Parse, topo and Validate.
THEOREM DefinitionsInvHolds == DefinitionsSpec => []DefinitionsInv
<1>1. DefinitionsInit => DefinitionsInv
  BY DefinitionsStart
<1>2. DefinitionsInv /\ [DefinitionsNext]_definitionVars => DefinitionsInv'
  BY ParseKeeps, TopoStartKeeps, TopoKeeps, ValidateKeeps, DefinitionsStutter DEF DefinitionsNext
<1>3. QED
  BY <1>1, <1>2, PTL DEF DefinitionsSpec

-----------------------------------------------------------------------------
(* The levels of topo. *)

\* A name is in the needs of a step if and only if one of them is it.
LEMMA Counted ==
    ASSUME Parsed, NEW i \in Positions, NEW x
    PROVE  Count(NeedList(i), x) > 0 <=> \E k \in 1 .. Len(NeedList(i)) : NeedList(i)[k] = x
<1> DEFINE K == {k \in 1 .. Len(NeedList(i)) : NeedList(i)[k] = x}
<1>1. Len(NeedList(i)) \in Nat
  BY Lengths
<1>2. IsFiniteSet(1 .. Len(NeedList(i)))
  BY <1>1, FS_Interval
<1>3. IsFiniteSet(K)
  BY <1>2, FS_Subset
<1>4. Cardinality(K) \in Nat /\ (Cardinality(K) = 0 <=> K = {})
  <2> HIDE DEF K
  <2>1. QED
    BY <1>3, FS_CardinalityType, FS_EmptySet
<1>5. Count(NeedList(i), x) = Cardinality(K)
  BY DEF Count
<1>6. QED
  <2>1. K # {} <=> \E k \in 1 .. Len(NeedList(i)) : NeedList(i)[k] = x
    OBVIOUS
  <2> HIDE DEF K
  <2>2. QED
    BY <1>4, <1>5, <2>1

\* What needs lead to, told by names or by positions.
LEMMA ClosedByName ==
    ASSUME Parsed, NEW C \in SUBSET First
    PROVE  Closed(C) <=> \A i \in C : \E j \in C : Count(NeedList(i), Id(j)) > 0
<1>1. First \subseteq Positions
  BY DEF First
<1>2. \A j \in First : \A x : idIndex(x) = j <=> x = Id(j)
  <2>1. ASSUME NEW j \in First, NEW x, idIndex(x) = j PROVE x = Id(j)
    BY <2>1, IdsName, <1>1, Lengths
  <2>2. QED
    BY <2>1 DEF First
<1>3. ASSUME NEW i \in C
      PROVE  (\E k \in 1 .. Len(NeedList(i)) : idIndex(NeedList(i)[k]) \in C)
             <=> \E j \in C : Count(NeedList(i), Id(j)) > 0
  <2>1. \A x : Count(NeedList(i), x) > 0 <=> \E k \in 1 .. Len(NeedList(i)) : NeedList(i)[k] = x
    BY <1>1, Counted
  <2>2. QED
    BY <1>2, <2>1
<1>4. QED
  BY <1>3 DEF Closed

\* When the queue is empty every step that is left needs one that is left.
LEMMA CyclicIsClosed ==
    ASSUME DefinitionsInv, stage \in {"check", "done"}
    PROVE  Closed(Cyclic) /\ Cyclic \in SUBSET First
<1>1. SUFFICES ASSUME NEW i \in Cyclic
               PROVE  \E k \in 1 .. Len(NeedList(i)) : idIndex(NeedList(i)[k]) \in Cyclic
  BY DEF Closed, Cyclic
<1>2. i \in First \ Ordered /\ Unmet(i) # {}
  BY DEF DefinitionsInv, Sorting, Cyclic
<1>3. PICK k \in 1 .. Len(NeedList(i)) : idIndex(NeedList(i)[k]) \notin {0} \cup Ordered
  BY <1>2 DEF Unmet
<1>4. idIndex(NeedList(i)[k]) \in First
  BY <1>3, IdsName DEF DefinitionsInv
<1>5. QED
  BY <1>3, <1>4 DEF Cyclic

\* Whatever the definition, the steps topo leaves out are the largest closed
\* set of steps.
LEMMA LeftOutIsCyclic ==
    ASSUME DefinitionsInv
    PROVE  CyclicIsCyclic
<1>1. SUFFICES ASSUME stage \in {"check", "done"}
               PROVE  Cyclic = UNION {C \in SUBSET First :
                                         \A i \in C : \E j \in C : Count(NeedList(i), Id(j)) > 0}
  BY DEF CyclicIsCyclic
<1>2. \A C \in SUBSET First : Closed(C) <=> \A i \in C : \E j \in C : Count(NeedList(i), Id(j)) > 0
  BY ClosedByName DEF DefinitionsInv
<1>3. Closed(Cyclic) /\ Cyclic \in SUBSET First
  BY <1>1, CyclicIsClosed
<1>4. \A C \in SUBSET First : Closed(C) => C \subseteq Cyclic
  BY DEF DefinitionsInv, Sorting, Cyclic
<1>5. QED
  BY <1>2, <1>3, <1>4

\* What may be wrong with a step by itself.
LEMMA StepKinds ==
    ASSUME NEW i
    PROVE  LET s == def.steps[i]
           IN  /\ StepProblems(i) \subseteq {Problem(kind, i) : kind \in
                      {"duplicate", "worktree", "shared", "retries", "template", "syntax"}}
               /\ StepProblems(i) = {} <=>
                      /\ ~(s.id # NoId /\ idIndex(s.id) # i)
                      /\ s.worktree \in {"", "own", "shared"} /\ ~(s.worktree = "shared" /\ s.needs = <<>>)
                      /\ s.retries \in 0 .. MaxRetries /\ ~(~s.template) /\ ~(~s.syntax)
<1> DEFINE s == def.steps[i]
           wrong == [duplicate |-> s.id # NoId /\ idIndex(s.id) # i,
                     worktree  |-> s.worktree \notin {"", "own", "shared"},
                     shared    |-> s.worktree = "shared" /\ s.needs = <<>>,
                     retries   |-> s.retries \notin 0 .. MaxRetries,
                     template  |-> ~s.template,
                     syntax    |-> ~s.syntax]
           Kinds == {"duplicate", "worktree", "shared", "retries", "template", "syntax"}
<1>1. StepProblems(i) = {Problem(kind, i) : kind \in {k \in DOMAIN wrong : wrong[k]}}
  BY DEF StepProblems
<1>2. DOMAIN wrong = Kinds
  OBVIOUS
<1>3. StepProblems(i) = {} <=> {k \in Kinds : wrong[k]} = {}
  <2> HIDE DEF wrong, Kinds
  <2>1. QED
    BY <1>1, <1>2
<1>4. {k \in Kinds : wrong[k]} = {} <=>
         ~wrong.duplicate /\ ~wrong.worktree /\ ~wrong.shared /\ ~wrong.retries
         /\ ~wrong.template /\ ~wrong.syntax
  <2> HIDE DEF wrong
  <2>1. QED
    OBVIOUS
<1>5. StepProblems(i) \subseteq {Problem(kind, i) : kind \in Kinds}
  <2> HIDE DEF wrong, Kinds
  <2>1. QED
    BY <1>1, <1>2
<1>6. QED
  BY <1>3, <1>4, <1>5

LEMMA ProblemsHaveTypes ==
    ASSUME DefinitionsInv
    PROVE  problems \subseteq [kind : {"yaml", "duration", "workspace", "steps", "timeout", "duplicate",
                                      "worktree", "shared", "retries", "template", "syntax",
                                      "unknown", "order", "cycle"}, step : 0 .. Len(input.steps)]
<1> DEFINE Kinds == {"yaml", "duration", "workspace", "steps", "timeout", "duplicate", "worktree",
                     "shared", "retries", "template", "syntax", "unknown", "order", "cycle"}
           Any == [kind : Kinds, step : 0 .. Len(input.steps)]
<1>1. /\ Len(input.steps) \in Nat /\ Positions \subseteq 0 .. Len(input.steps)
      /\ First \subseteq Positions /\ Cyclic \subseteq First
  BY Lengths DEF DefinitionsInv, Positions, First, Cyclic
<1>2. \A kind \in Kinds, i \in 0 .. Len(input.steps) : Problem(kind, i) \in Any
  BY DEF Problem
<1> HIDE DEF Any
<1>3. ParseProblems \subseteq Any /\ WorkspaceProblems \subseteq Any
  BY <1>1, <1>2 DEF ParseProblems, WorkspaceProblems
<1>31. LimitProblems \subseteq Any
  <2>1. Problem("steps", 0) \in Any /\ Problem("timeout", 0) \in Any
    BY <1>1, <1>2
  <2>2. QED
    BY <2>1 DEF LimitProblems
<1>4. \A i \in Positions : StepProblems(i) \subseteq Any
  <2>1. \A i : StepProblems(i) \subseteq {Problem(kind, i) : kind \in
                  {"duplicate", "worktree", "shared", "retries", "template", "syntax"}}
    BY StepKinds
  <2>2. QED
    BY <1>1, <1>2, <2>1
<1>5. \A i \in First : NeedProblems(i) \subseteq Any
  <2>1. ASSUME NEW i \in First
        PROVE  Problem("unknown", i) \in Any /\ Problem("order", i) \in Any
    BY <1>1, <1>2
  <2>2. \A i : NeedProblems(i) \subseteq {Problem("unknown", i), Problem("order", i)}
    BY DEF NeedProblems
  <2>3. QED
    BY <2>1, <2>2
<1>6. {Problem("cycle", i) : i \in Cyclic} \subseteq Any
  BY <1>1, <1>2
<1>7. AllProblems \subseteq Any
  <2>1. UNION {StepProblems(i) : i \in Positions} \subseteq Any
    BY <1>4
  <2>2. UNION {NeedProblems(i) : i \in First} \subseteq Any
    BY <1>5
  <2>3. QED
    BY <1>3, <1>31, <1>6, <2>1, <2>2 DEF AllProblems
<1>71. stage = "done" => problems = AllProblems
  BY DEF DefinitionsInv, Parsed
<1>72. stage # "done" => problems = {} \/ problems = ParseProblems
  BY DEF DefinitionsInv, Parsed, Sorting
<1>73. problems \subseteq Any
  BY <1>3, <1>7, <1>71, <1>72
<1>8. QED
  BY <1>73 DEF Any

LEMMA InvTopo ==
    ASSUME DefinitionsInv
    PROVE  TopoOK
<1>1. queue \subseteq First /\ \A k \in 1 .. Len(levels) : levels[k] \subseteq First
  BY DEF DefinitionsInv, Sorting
<1>2. stage \in {"level", "check", "done"} => indegree \in [First -> Nat]
  <2>1. \A i \in First : Cardinality(Unmet(i)) \in Nat
    BY NeedsAreMet, FS_CardinalityType DEF DefinitionsInv
  <2>2. QED
    BY <2>1 DEF DefinitionsInv, Sorting
<1>3. DefinitionsTypeOK
  BY <1>1, <1>2, ProblemsHaveTypes DEF DefinitionsTypeOK, DefinitionsInv, Sorting
<1>4. QED
  BY <1>3, LeftOutIsCyclic DEF TopoOK, DefinitionsInv, Sorting

\* topo sorts: whatever the definition, the levels are in order and what is
\* left out is what no order can hold.
THEOREM LevelsAreAnOrder == DefinitionsSpec => []TopoOK
<1>1. DefinitionsInv => TopoOK
  BY InvTopo
<1>2. QED
  BY <1>1, DefinitionsInvHolds, PTL

-----------------------------------------------------------------------------
(* The verdict of Validate. *)

\* Nothing is wrong if and only if nothing is wrong anywhere.
LEMMA NoProblems ==
    ASSUME DefinitionsInv, stage = "done"
    PROVE  problems = {} <=> /\ ParseProblems = {} /\ WorkspaceProblems = {} /\ LimitProblems = {}
                             /\ \A i \in Positions : StepProblems(i) = {}
                             /\ \A i \in First : NeedProblems(i) = {}
                             /\ Cyclic = {}
<1>1. problems = AllProblems
  BY DEF DefinitionsInv, Parsed
<1>2. (UNION {StepProblems(i) : i \in Positions}) = {} <=> \A i \in Positions : StepProblems(i) = {}
  OBVIOUS
<1>3. (UNION {NeedProblems(i) : i \in First}) = {} <=> \A i \in First : NeedProblems(i) = {}
  OBVIOUS
<1>4. {Problem("cycle", i) : i \in Cyclic} = {} <=> Cyclic = {}
  OBVIOUS
<1>5. QED
  BY <1>1, <1>2, <1>3, <1>4 DEF AllProblems

\* What is read of the text, and the limits.
LEMMA TextIsRead ==
    ASSUME DefinitionsInv, stage = "done"
    PROVE  /\ ParseProblems = {} <=> input.yaml /\ input.timeout # "unparsable"
           /\ ParseProblems = {} => def = [timeout |-> input.timeout, steps |-> input.steps]
           /\ input.yaml => (WorkspaceProblems = {} <=> input.workspace \in {"unnamed", "named"})
           /\ LimitProblems = {} <=> Len(def.steps) <= MaxSteps /\ def.timeout # "too long"
<1>1. input \in Inputs /\ input.workspace \in {"unnamed", "named", "misnamed", "hidden"} /\ input.yaml \in BOOLEAN
  BY InputsOK DEF DefinitionsInv, Parsed
<1>2. ParseProblems = {} <=> input.yaml /\ input.timeout # "unparsable"
  BY <1>1 DEF ParseProblems
<1>3. ParseProblems = {} => def = [timeout |-> input.timeout, steps |-> input.steps]
  BY <1>2 DEF DefinitionsInv, Parsed
<1>4. input.yaml => (WorkspaceProblems = {} <=> input.workspace \in {"unnamed", "named"})
  BY <1>1 DEF WorkspaceProblems
<1>5. LimitProblems = {} <=> Len(def.steps) <= MaxSteps /\ def.timeout # "too long"
  <2>1. Len(def.steps) \in Nat /\ MaxSteps \in Nat
    BY Lengths, InputsOK DEF DefinitionsInv
  <2>2. LimitProblems = {} <=> ~(Len(def.steps) > MaxSteps) /\ ~(def.timeout = "too long")
    <3>1. Problem("steps", 0).kind = "steps" /\ Problem("timeout", 0).kind = "timeout"
      BY DEF Problem
    <3>2. QED
      BY <3>1 DEF LimitProblems
  <2>3. Len(def.steps) <= MaxSteps <=> ~(Len(def.steps) > MaxSteps)
    BY <2>1
  <2>4. QED
    BY <2>2, <2>3, Zenon
<1>6. QED
  BY <1>2, <1>3, <1>4, <1>5

\* When no id is shared, an id names the one step that has it.
LEMMA UniqueIds ==
    ASSUME Parsed
    PROVE  (\A i \in Positions : ~(Id(i) # NoId /\ idIndex(Id(i)) # i))
           <=> \A i \in Positions : Id(i) # NoId => \A j \in 1 .. i - 1 : Id(j) # Id(i)
<1>1. ASSUME NEW i \in Positions, Id(i) # NoId
      PROVE  idIndex(Id(i)) = i <=> \A j \in 1 .. i - 1 : Id(j) # Id(i)
  <2>1. idIndex(Id(i)) \in Nat /\ i \in Nat
    BY IdsName, Lengths
  <2>2. /\ idIndex(Id(i)) # 0 /\ idIndex(Id(i)) \in Positions /\ Id(idIndex(Id(i))) = Id(i)
        /\ \A j \in Positions : Id(j) = Id(i) => idIndex(Id(i)) <= j
    BY <1>1, IdsName DEF First
  <2>3. idIndex(Id(i)) <= i /\ idIndex(Id(i)) \in 1 .. i
    BY <2>1, <2>2, Lengths
  <2>4. \A j \in 1 .. i - 1 : j \in Positions
    BY <2>1, Lengths DEF Positions
  <2>5. QED
    BY <2>1, <2>2, <2>3, <2>4
<1>2. QED
  BY <1>1

\* A need is of a step before if and only if the step it names is one.
LEMMA NeedsBefore ==
    ASSUME Parsed, NEW i \in Positions, NEW x
    PROVE  /\ idIndex(x) \in Nat /\ i \in Nat
           /\ idIndex(x) # 0 /\ idIndex(x) < i <=> x # NoId /\ \E j \in 1 .. i - 1 : Id(j) = x
<1>1. idIndex(x) \in Nat /\ i \in Nat /\ \A j \in 1 .. i - 1 : j \in Positions /\ j \in Nat
  BY IdsName, Lengths DEF Positions
<1>2. ASSUME idIndex(x) # 0, idIndex(x) < i PROVE x # NoId /\ \E j \in 1 .. i - 1 : Id(j) = x
  BY <1>1, <1>2, IdsName
<1>3. ASSUME x # NoId, NEW j \in 1 .. i - 1, Id(j) = x PROVE idIndex(x) # 0 /\ idIndex(x) < i
  <2>1. idIndex(x) # 0
    BY <1>1, <1>3, IdsName
  <2>2. idIndex(x) <= j
    BY <1>1, <1>3, <2>1, IdsName
  <2>3. QED
    BY <1>1, <1>3, <2>1, <2>2
<1>4. QED
  BY <1>1, <1>2, <1>3

\* When every need is of a step before, no step is left out: the first of those
\* left out would need one before it.
LEMMA NothingLeftOut ==
    ASSUME DefinitionsInv, stage = "done",
           \A i \in First : \A k \in 1 .. Len(NeedList(i)) : idIndex(NeedList(i)[k]) < i
    PROVE  Cyclic = {}
<1>1. SUFFICES ASSUME Cyclic # {} PROVE FALSE
  OBVIOUS
<1>2. Cyclic \subseteq Nat /\ Cyclic \subseteq First
  BY Lengths DEF DefinitionsInv, Cyclic, First
<1>3. PICK i \in Cyclic : \A j \in Cyclic : i <= j
  BY <1>1, <1>2, Least
<1>4. PICK k \in 1 .. Len(NeedList(i)) : idIndex(NeedList(i)[k]) \in Cyclic
  BY CyclicIsClosed DEF Closed
<1>5. idIndex(NeedList(i)[k]) < i
  BY <1>2
<1>6. idIndex(NeedList(i)[k]) \in Nat /\ i \in Nat /\ i <= idIndex(NeedList(i)[k])
  BY <1>2, <1>3, <1>4
<1>7. QED
  BY <1>5, <1>6

LEMMA NoNeedProblems ==
    ASSUME DefinitionsInv, Cyclic = {}, NEW i \in First
    PROVE  NeedProblems(i) = {} <=> \A k \in 1 .. Len(NeedList(i)) :
              idIndex(NeedList(i)[k]) # 0 /\ idIndex(NeedList(i)[k]) < i
<1>1. i \in Nat /\ \A x : idIndex(x) \in Nat
  BY Lengths, IdsName DEF DefinitionsInv, First
<1>2. NeedProblems(i) = {} <=>
        /\ \A k \in 1 .. Len(NeedList(i)) : idIndex(NeedList(i)[k]) # 0
        /\ \A k \in 1 .. Len(NeedList(i)) :
              ~(idIndex(NeedList(i)[k]) # 0 /\ idIndex(NeedList(i)[k]) >= i)
  BY DEF NeedProblems
<1>3. QED
  BY <1>1, <1>2

LEMMA InvAccepts ==
    ASSUME DefinitionsInv
    PROVE  AcceptsExactly
<1>1. SUFFICES ASSUME stage = "done"
               PROVE  problems = {} <=> /\ input.yaml /\ input.timeout # "unparsable"
                                        /\ input.workspace \in {"unnamed", "named"} /\ Passes(input)
  BY DEF AcceptsExactly
<1>2. CASE ParseProblems # {}
  BY <1>1, <1>2, NoProblems, TextIsRead
<1>3. CASE ParseProblems = {}
  <2>01. input.yaml /\ input.timeout # "unparsable"
    BY <1>1, <1>3, TextIsRead
  <2>02. def = [timeout |-> input.timeout, steps |-> input.steps]
    BY <1>1, <1>3, TextIsRead
  <2>03. WorkspaceProblems = {} <=> input.workspace \in {"unnamed", "named"}
    BY <1>1, <2>01, TextIsRead
  <2>04. LimitProblems = {} <=> Len(def.steps) <= MaxSteps /\ def.timeout # "too long"
    BY <1>1, TextIsRead
  <2>05. def.steps = input.steps /\ def.timeout = input.timeout
    BY <2>02
  <2>1. /\ input.yaml /\ input.timeout # "unparsable"
        /\ def = [timeout |-> input.timeout, steps |-> input.steps]
        /\ WorkspaceProblems = {} <=> input.workspace \in {"unnamed", "named"}
        /\ LimitProblems = {} <=> Len(input.steps) <= MaxSteps /\ input.timeout # "too long"
    BY <2>01, <2>02, <2>03, <2>04, <2>05
  <2> DEFINE Alone(i) == LET s == input.steps[i]
                         IN  /\ s.retries \in 0 .. MaxRetries /\ s.template /\ s.syntax
                             /\ s.worktree \in {"", "own"} \/ (s.worktree = "shared" /\ s.needs # <<>>)
             Unique == \A i \in Positions : ~(Id(i) # NoId /\ idIndex(Id(i)) # i)
             Before == \A i \in Positions : Id(i) # NoId => \A k \in 1 .. Len(NeedList(i)) :
                          idIndex(NeedList(i)[k]) # 0 /\ idIndex(NeedList(i)[k]) < i
  <2>2. def.steps = input.steps /\ Positions = 1 .. Len(input.steps)
    BY <2>1 DEF Positions
  <2>3. Passes(input) <=> /\ LimitProblems = {} /\ Unique /\ Before /\ \A i \in Positions : Alone(i)
    <3>1. Unique <=> \A i \in Positions : Id(i) # NoId => \A j \in 1 .. i - 1 : Id(j) # Id(i)
      BY UniqueIds DEF DefinitionsInv
    <3>2. Before <=> \A i \in Positions : Id(i) # NoId => \A k \in 1 .. Len(NeedList(i)) :
             NeedList(i)[k] # NoId /\ \E j \in 1 .. i - 1 : Id(j) = NeedList(i)[k]
      BY NeedsBefore DEF DefinitionsInv
    <3>3. \A i : Id(i) = input.steps[i].id /\ NeedList(i) = input.steps[i].needs
      BY <2>2 DEF Id, NeedList
    <3>4. Passes(input) <=>
             /\ Len(input.steps) <= MaxSteps /\ input.timeout # "too long"
             /\ \A i \in Positions : Alone(i)
             /\ \A i \in Positions : Id(i) # NoId => \A j \in 1 .. i - 1 : Id(j) # Id(i)
             /\ \A i \in Positions : Id(i) # NoId => \A k \in 1 .. Len(NeedList(i)) :
                   NeedList(i)[k] # NoId /\ \E j \in 1 .. i - 1 : Id(j) = NeedList(i)[k]
      <4> DEFINE Others(i) == \A j \in 1 .. i - 1 : Id(j) # Id(i)
                 Needed(i) == \A k \in 1 .. Len(NeedList(i)) :
                                 NeedList(i)[k] # NoId /\ \E j \in 1 .. i - 1 : Id(j) = NeedList(i)[k]
      <4>1. \A i : /\ Others(i) <=> \A j \in 1 .. i - 1 : input.steps[j].id # input.steps[i].id
                   /\ Needed(i) <=> \A k \in 1 .. Len(input.steps[i].needs) :
                         /\ input.steps[i].needs[k] # NoId
                         /\ \E j \in 1 .. i - 1 : input.steps[j].id = input.steps[i].needs[k]
        BY <3>3
      <4> HIDE DEF Others, Needed
      <4>2. \A i : Alone(i) <=>
               /\ input.steps[i].retries \in 0 .. MaxRetries /\ input.steps[i].template /\ input.steps[i].syntax
               /\ input.steps[i].worktree \in {"", "own"}
                     \/ (input.steps[i].worktree = "shared" /\ input.steps[i].needs # <<>>)
        BY Zenon
      <4> HIDE DEF Alone
      <4>3. Passes(input) <=>
             /\ Len(input.steps) <= MaxSteps /\ input.timeout # "too long"
             /\ \A i \in Positions : Alone(i) /\ (input.steps[i].id # NoId => Others(i) /\ Needed(i))
        BY <2>2, <4>1, <4>2, Zenon DEF Passes
      <4>4. Passes(input) <=>
             /\ Len(input.steps) <= MaxSteps /\ input.timeout # "too long"
             /\ \A i \in Positions : Alone(i)
             /\ \A i \in Positions : Id(i) # NoId => Others(i)
             /\ \A i \in Positions : Id(i) # NoId => Needed(i)
        BY <3>3, <4>3
      <4>5. QED
        BY <4>4 DEF Others, Needed
    <3> HIDE DEF Unique, Before, Alone
    <3>5. QED
      BY <2>1, <3>1, <3>2, <3>4
  <2>4. (\A i \in Positions : StepProblems(i) = {}) <=> Unique /\ \A i \in Positions : Alone(i)
    <3>1. ASSUME NEW i \in Positions
          PROVE  StepProblems(i) = {} <=> Alone(i) /\ ~(Id(i) # NoId /\ idIndex(Id(i)) # i)
      <4>1. input.steps[i].template \in BOOLEAN /\ input.steps[i].syntax \in BOOLEAN
        BY <2>2, InputsOK DEF DefinitionsInv, Parsed
      <4>2. StepProblems(i) = {} <=>
                      /\ ~(input.steps[i].id # NoId /\ idIndex(input.steps[i].id) # i)
                      /\ input.steps[i].worktree \in {"", "own", "shared"}
                      /\ ~(input.steps[i].worktree = "shared" /\ input.steps[i].needs = <<>>)
                      /\ input.steps[i].retries \in 0 .. MaxRetries
                      /\ ~(~input.steps[i].template) /\ ~(~input.steps[i].syntax)
        BY <2>2, StepKinds
      <4>3. Id(i) = input.steps[i].id
        BY <2>2 DEF Id
      <4>4. QED
        BY <4>1, <4>2, <4>3
    <3>2. QED
      BY <3>1
  <2>5. Unique => First = {i \in Positions : Id(i) # NoId}
    BY DEF First
  <2>6. Unique /\ Before => Cyclic = {}
    BY <1>1, <2>5, NothingLeftOut DEF First
  <2>7. Unique /\ Cyclic = {} => (Before <=> \A i \in First : NeedProblems(i) = {})
    <3>1. SUFFICES ASSUME Unique, Cyclic = {} PROVE Before <=> \A i \in First : NeedProblems(i) = {}
      OBVIOUS
    <3>2. \A i \in First : NeedProblems(i) = {} <=> \A k \in 1 .. Len(NeedList(i)) :
              idIndex(NeedList(i)[k]) # 0 /\ idIndex(NeedList(i)[k]) < i
      BY <3>1, NoNeedProblems
    <3>3. QED
      BY <3>1, <3>2, <2>5
  <2>8. problems = {} <=> /\ WorkspaceProblems = {} /\ LimitProblems = {}
                          /\ \A i \in Positions : StepProblems(i) = {}
                          /\ \A i \in First : NeedProblems(i) = {}
                          /\ Cyclic = {}
    BY <1>1, <1>3, NoProblems
  <2> HIDE DEF Unique, Before, Alone
  <2>9. QED
    BY <2>1, <2>3, <2>4, <2>6, <2>7, <2>8
<1>4. QED
  BY <1>2, <1>3

LEMMA InvPlaces ==
    ASSUME DefinitionsInv
    PROVE  AcceptedIsOrdered
<1>1. SUFFICES ASSUME stage = "done", problems = {}
               PROVE  /\ Ordered = {i \in Positions : Id(i) # NoId}
                      /\ \A e \in Graph : e[2] # NoId => \E k, m \in 1 .. Len(levels) :
                            k < m /\ idIndex(e[1]) \in levels[k] /\ idIndex(e[2]) \in levels[m]
  BY DEF AcceptedIsOrdered
<1>2. /\ Cyclic = {} /\ \A i \in Positions : StepProblems(i) = {}
      /\ \A i \in First : NeedProblems(i) = {}
  BY <1>1, NoProblems
<1>3. \A i \in Positions : Id(i) # NoId => idIndex(Id(i)) = i
  <2>1. ASSUME NEW i \in Positions PROVE ~(def.steps[i].id # NoId /\ idIndex(def.steps[i].id) # i)
    BY <1>2, StepKinds
  <2>2. QED
    BY <2>1 DEF Id
<1>4. First = {i \in Positions : Id(i) # NoId} /\ Ordered = First
  <2>1. First = {i \in Positions : Id(i) # NoId}
    BY <1>3 DEF First
  <2>2. QED
    BY <1>2, <2>1, NeedsAreMet DEF Cyclic, DefinitionsInv
<1>5. ASSUME NEW i \in First, NEW n \in 1 .. Len(NeedList(i))
      PROVE  \E k, m \in 1 .. Len(levels) :
                k < m /\ idIndex(NeedList(i)[n]) \in levels[k] /\ idIndex(Id(i)) \in levels[m]
  <2>1. PICK m \in 1 .. Len(levels) : i \in levels[m]
    BY <1>4, OrderedIsUnion
  <2>2. idIndex(NeedList(i)[n]) # 0
    BY <1>2, NoNeedProblems
  <2>3. PICK k \in 1 .. m - 1 : idIndex(NeedList(i)[n]) \in levels[k]
    BY <2>1, <2>2 DEF DefinitionsInv, Sorting, LevelsOrder
  <2>4. Len(levels) \in Nat
    BY DEF DefinitionsInv, Sorting
  <2>5. k \in 1 .. Len(levels) /\ k < m
    BY <2>1, <2>3, <2>4
  <2>6. idIndex(Id(i)) = i
    BY <1>3, <1>4
  <2>7. QED
    BY <2>1, <2>3, <2>5, <2>6
<1>6. \A e \in Graph : \E i \in Positions : \E n \in 1 .. Len(NeedList(i)) : e = <<NeedList(i)[n], Id(i)>>
  BY DEF Graph
<1>7. \A e \in Graph : e[2] # NoId => \E i \in First : \E n \in 1 .. Len(NeedList(i)) : e = <<NeedList(i)[n], Id(i)>>
  BY <1>4, <1>6
<1>8. QED
  BY <1>4, <1>5, <1>7

\* Of whatever is handed in and whatever the limits: Validate accepts what
\* Passes says and nothing else, and of what it accepts the steps with an id
\* are in an order that puts every one after all it needs.  Of steps without an
\* id it promises nothing.
THEOREM ValidateAccepts == DefinitionsSpec => []ValidateOK
<1>1. DefinitionsInv => ValidateOK
  BY InvAccepts, InvPlaces DEF ValidateOK
<1>2. QED
  BY <1>1, DefinitionsInvHolds, PTL
=============================================================================
