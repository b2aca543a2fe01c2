-------------------------- MODULE DiagnosisAgentProofs --------------------------
(***************************************************************************)
(* One diagnosis, for any machines, any plans an LLM may answer with, any  *)
(* tools that fail or hang, and any number of retries.                     *)
(***************************************************************************)
EXTENDS DiagnosisAgent, SequenceTheorems, FiniteSetTheorems, WellFoundedInduction, TLAPS

-----------------------------------------------------------------------------
(* Sequences.                                                              *)

\* A sequence by its elements.
LEMMA SequenceOf ==
  ASSUME NEW n \in Nat, NEW S, NEW s \in [1..n -> S]
  PROVE  s \in Seq(S) /\ Len(s) = n /\ DOMAIN s = 1..n
<1>1. s \in Seq(S)
  BY SeqDef
<1>. QED BY <1>1, LenProperties

\* A set of natural numbers that is not empty has a smallest member.
LEMMA Smallest ==
  ASSUME NEW S \in SUBSET Nat, S # {}
  PROVE  \E x \in S : \A y \in S : x <= y
<1>. DEFINE R == OpToRel(<, Nat)
<1>1. IsWellFoundedOn(R, Nat)
  BY NatLessThanWellFounded
<1>2. \A x, y \in S : y < x => <<y, x>> \in R
  BY DEF OpToRel
<1>. HIDE DEF R
<1>3. PICK x \in S : \A y \in S : ~ (<<y, x>> \in R)
  BY <1>1, WFMin
<1>4. \A y \in S : ~(y < x)
  BY <1>2, <1>3, Zenon
<1>. QED BY <1>4

\* flatten is what FlattenSeq computes for the first m sequences.
Flattens(flatten, seqs, m) ==
  flatten = [i \in 1..m |-> IF i = 1 THEN seqs[i] ELSE flatten[i-1] \o seqs[i]]

\* There is such a function for every length: a smallest one without could be made
\* from its predecessor.
LEMMA FlattenExists ==
  ASSUME NEW seqs, NEW n \in Nat
  PROVE  \A m \in 1..n : \E flatten : Flattens(flatten, seqs, m)
<1>. DEFINE Bad == {m \in 1..n : ~\E flatten : Flattens(flatten, seqs, m)}
<1>1. SUFFICES ASSUME Bad # {} PROVE FALSE
  OBVIOUS
<1>2. PICK m \in Bad : \A k \in Bad : m <= k
  <2>1. Bad \in SUBSET Nat
    OBVIOUS
  <2>. HIDE DEF Bad
  <2>. QED BY <1>1, <2>1, Smallest
<1>3. m \in 1..n
  OBVIOUS
<1>4. CASE m = 1
  <2>1. Flattens([i \in 1..1 |-> seqs[1]], seqs, 1)
    BY DEF Flattens
  <2>. QED BY <2>1, <1>4, <1>2
<1>5. CASE m > 1
  <2>1. m - 1 \in 1..n /\ m - 1 \notin Bad
    <3>1. m - 1 \in 1..n /\ ~(m <= m - 1)
      BY <1>3, <1>5
    <3>. HIDE DEF Bad
    <3>. QED BY <1>2, <3>1
  <2>2. PICK flatten : Flattens(flatten, seqs, m - 1)
    BY <2>1
  <2>. DEFINE longer == [i \in 1..m |-> IF i < m THEN flatten[i] ELSE flatten[m - 1] \o seqs[m]]
  <2>3. \A i \in 1..m : longer[i] = IF i = 1 THEN seqs[i] ELSE longer[i - 1] \o seqs[i]
    <3>1. ASSUME NEW i \in 1..m
          PROVE  longer[i] = IF i = 1 THEN seqs[i] ELSE longer[i - 1] \o seqs[i]
      <4>1. CASE i < m
        <5>1. i \in 1..(m - 1) /\ (i # 1 => i - 1 \in 1..m /\ i - 1 < m)
          BY <1>3, <4>1
        <5>2. flatten[i] = IF i = 1 THEN seqs[i] ELSE flatten[i - 1] \o seqs[i]
          BY <2>2, <5>1 DEF Flattens
        <5>. QED BY <4>1, <5>1, <5>2
      <4>2. CASE i = m
        <5>1. m - 1 \in 1..m /\ m - 1 < m /\ ~(m < m) /\ m # 1 /\ m \in 1..m
          BY <1>3, <1>5
        <5>2. longer[m - 1] = flatten[m - 1] /\ longer[m] = flatten[m - 1] \o seqs[m]
          BY <5>1
        <5>. HIDE DEF longer
        <5>. QED BY <4>2, <5>1, <5>2
      <4>. QED BY <4>1, <4>2, <1>3
    <3>. QED BY <3>1
  <2>4. Flattens(longer, seqs, m)
    <3>1. longer = [i \in 1..m |-> longer[i]]
      OBVIOUS
    <3>. HIDE DEF longer
    <3>. QED BY <2>3, <3>1 DEF Flattens
  <2>. QED BY <2>4, <1>2
<1>. QED BY <1>3, <1>4, <1>5

\* FlattenSeq returns the last value of one.
LEMMA FlattenIs ==
  ASSUME NEW n \in Nat, NEW seqs, Len(seqs) = n, n > 0
  PROVE  \E flatten : Flattens(flatten, seqs, n) /\ FlattenSeq(seqs) = flatten[n]
<1>. DEFINE flatten == CHOOSE f : Flattens(f, seqs, n)
<1>1. \E f : Flattens(f, seqs, n)
  BY FlattenExists
<1>2. Flattens(flatten, seqs, n)
  BY <1>1
<1>3. FlattenSeq(seqs) = flatten[n]
  BY DEF FlattenSeq, Flattens
<1>. QED BY <1>2, <1>3

\* What two sequences hold together.
LEMMA ConcatSets ==
  ASSUME NEW S, NEW s \in Seq(S), NEW t \in Seq(S)
  PROVE  /\ s \o t \in Seq(S) /\ Len(s \o t) = Len(s) + Len(t)
         /\ ToSet(s \o t) = ToSet(s) \cup ToSet(t)
<1>1. /\ s \o t \in Seq(S) /\ Len(s \o t) = Len(s) + Len(t)
      /\ \A i \in 1..(Len(s) + Len(t)) :
           (s \o t)[i] = IF i <= Len(s) THEN s[i] ELSE t[i - Len(s)]
  BY ConcatProperties
<1>2. /\ DOMAIN s = 1..Len(s) /\ DOMAIN t = 1..Len(t) /\ DOMAIN (s \o t) = 1..(Len(s) + Len(t))
      /\ Len(s) \in Nat /\ Len(t) \in Nat
  BY <1>1, LenProperties
<1>3. ASSUME NEW i \in 1..(Len(s) + Len(t))
      PROVE  (s \o t)[i] \in ToSet(s) \cup ToSet(t)
  <2>1. CASE i <= Len(s)
    BY <1>1, <1>2, <2>1 DEF ToSet
  <2>2. CASE ~(i <= Len(s))
    <3>1. i - Len(s) \in 1..Len(t)
      BY <1>2, <2>2
    <3>. QED BY <1>1, <1>2, <2>2, <3>1 DEF ToSet
  <2>. QED BY <2>1, <2>2
<1>4. ASSUME NEW i \in 1..Len(s)
      PROVE  s[i] \in ToSet(s \o t)
  <2>1. i \in 1..(Len(s) + Len(t)) /\ i <= Len(s)
    BY <1>2
  <2>. QED BY <1>1, <1>2, <2>1 DEF ToSet
<1>5. ASSUME NEW i \in 1..Len(t)
      PROVE  t[i] \in ToSet(s \o t)
  <2>1. i + Len(s) \in 1..(Len(s) + Len(t)) /\ ~(i + Len(s) <= Len(s)) /\ (i + Len(s)) - Len(s) = i
    BY <1>2
  <2>2. (s \o t)[i + Len(s)] = t[i]
    BY <1>1, <2>1
  <2>. QED BY <1>2, <2>1, <2>2 DEF ToSet
<1>. QED BY <1>1, <1>2, <1>3, <1>4, <1>5 DEF ToSet

\* r holds what the first m sequences hold, all over S, and as many items as
\* there are sequences of one item if none is longer.
Holds(r, S, seqs, m) ==
  /\ r \in Seq(S)
  /\ \A x : x \in ToSet(r) <=> \E i \in 1..m : x \in ToSet(seqs[i])
  /\ (\A i \in DOMAIN seqs : Len(seqs[i]) \in {0, 1}) =>
       Len(r) = Cardinality({i \in 1..m : Len(seqs[i]) = 1})

\* Every value of it holds what has been flattened so far.
LEMMA FlattenInduction ==
  ASSUME NEW S, NEW n \in Nat, NEW seqs \in [1..n -> Seq(S)], NEW flatten,
         Flattens(flatten, seqs, n)
  PROVE  \A m \in 1..n : Holds(flatten[m], S, seqs, m)
<1>. DEFINE Good(m) ==
           /\ flatten[m] \in Seq(S)
           /\ \A x : x \in ToSet(flatten[m]) <=> \E i \in 1..m : x \in ToSet(seqs[i])
           /\ (\A i \in 1..n : Len(seqs[i]) \in {0, 1}) =>
                Len(flatten[m]) = Cardinality({i \in 1..m : Len(seqs[i]) = 1})
            Bad == {m \in 1..n : ~Good(m)}
<1>1. SUFFICES ASSUME Bad # {} PROVE FALSE
  <2>1. SUFFICES \A m \in 1..n : Good(m)
    BY DEF Holds
  <2>. HIDE DEF Good
  <2>. QED OBVIOUS
<1>2. PICK m \in Bad : \A k \in Bad : m <= k
  <2>1. Bad \in SUBSET Nat
    OBVIOUS
  <2>. HIDE DEF Bad
  <2>. QED BY <1>1, <2>1, Smallest
<1>3. m \in 1..n /\ ~Good(m)
  <2>. HIDE DEF Good
  <2>. QED OBVIOUS
<1>4. CASE m = 1
  <2>1. flatten[1] = seqs[1]
    BY <1>3 DEF Flattens
  <2>2. seqs[1] \in Seq(S) /\ 1 \in 1..n
    BY <1>3, <1>4
  <2>3. \A i \in 1..1 : i = 1
    OBVIOUS
  <2>4. (\A i \in 1..n : Len(seqs[i]) \in {0, 1}) =>
                Len(flatten[1]) = Cardinality({i \in 1..1 : Len(seqs[i]) = 1})
    <3>1. ASSUME \A i \in 1..n : Len(seqs[i]) \in {0, 1} 
          PROVE  Len(seqs[1]) = Cardinality({i \in 1..1 : Len(seqs[i]) = 1})
      <4>1. CASE Len(seqs[1]) = 0
        <5>1. {i \in 1..1 : Len(seqs[i]) = 1} = {}
          <6>1. Len(seqs[1]) # 1
            BY <4>1
          <6>. QED BY <6>1, <2>3, Zenon
        <5>. QED BY <4>1, <5>1, FS_EmptySet
      <4>2. CASE Len(seqs[1]) = 1
        <5>1. {i \in 1..1 : Len(seqs[i]) = 1} = {1}
          BY <4>2, <2>3
        <5>. QED BY <4>2, <5>1, FS_Singleton
      <4>. QED BY <4>1, <4>2, <3>1, <2>2
    <3>. QED BY <3>1, <2>1
  <2>5. \A x : x \in ToSet(flatten[1]) <=> \E i \in 1..1 : x \in ToSet(seqs[i])
    BY <2>1, <2>3
  <2>6. Good(1)
    BY <2>1, <2>2, <2>4, <2>5
  <2>. QED BY <1>3, <1>4, <2>6
<1>5. CASE m > 1
  <2>1. m - 1 \in 1..n /\ m \in 1..n /\ m # 1
    BY <1>3, <1>5
  <2>2. Good(m - 1)
    <3>1. ~(m <= m - 1)
      BY <1>3
    <3>. HIDE DEF Good
    <3>. QED BY <2>1, <3>1, <1>2
  <2>3. flatten[m] = flatten[m - 1] \o seqs[m]
    BY <2>1 DEF Flattens
  <2>4. flatten[m - 1] \in Seq(S) /\ seqs[m] \in Seq(S)
    BY <2>1, <2>2
  <2>5. /\ flatten[m] \in Seq(S) /\ Len(flatten[m]) = Len(flatten[m - 1]) + Len(seqs[m])
        /\ ToSet(flatten[m]) = ToSet(flatten[m - 1]) \cup ToSet(seqs[m])
    BY <2>3, <2>4, ConcatSets
  <2>6. \A i : i \in 1..m <=> (i \in 1..(m - 1) \/ i = m)
    BY <2>1
  <2>7. \A x : x \in ToSet(flatten[m]) <=> \E i \in 1..m : x \in ToSet(seqs[i])
    <3>1. \A x : x \in ToSet(flatten[m - 1]) <=> \E i \in 1..(m-1) : x \in ToSet(seqs[i])
      BY <2>2
    <3>. QED BY <2>5, <2>6, <3>1, Zenon
  <2>8. ASSUME \A i \in 1..n : Len(seqs[i]) \in {0, 1} 
        PROVE  Len(flatten[m]) = Cardinality({i \in 1..m : Len(seqs[i]) = 1})
    <3>. DEFINE one == {i \in 1..(m - 1) : Len(seqs[i]) = 1}
    <3>1. Len(flatten[m - 1]) = Cardinality(one)
      BY <2>2, <2>8
    <3>2. IsFiniteSet(one) /\ Cardinality(one) \in Nat
      <4>1. IsFiniteSet(1..(m - 1))
        BY <2>1, FS_Interval
      <4>. QED BY <4>1, FS_Subset, FS_CardinalityType
    <3>3. CASE Len(seqs[m]) = 0
      <4>1. {i \in 1..m : Len(seqs[i]) = 1} = one
        <5>1. Len(seqs[m]) # 1
          BY <3>3
        <5>. QED BY <5>1, <2>6, Zenon
      <4>. HIDE DEF one
      <4>2. Len(flatten[m]) = Cardinality(one)
        BY <2>5, <3>1, <3>2, <3>3
      <4>. QED BY <4>1, <4>2, Zenon
    <3>4. CASE Len(seqs[m]) = 1
      <4>1. {i \in 1..m : Len(seqs[i]) = 1} = one \cup {m} /\ m \notin one
        BY <2>1, <2>6, <3>4
      <4>. HIDE DEF one
      <4>2. Cardinality(one \cup {m}) = Cardinality(one) + 1
        BY <3>2, <4>1, FS_AddElement
      <4>3. Len(flatten[m]) = Cardinality(one \cup {m})
        BY <2>5, <3>1, <3>2, <3>4, <4>2
      <4>. QED BY <4>1, <4>3, Zenon
    <3>. QED BY <2>1, <2>8, <3>3, <3>4
  <2>9. Good(m)
    BY <2>5, <2>7, <2>8
  <2>. HIDE DEF Good
  <2>. QED BY <1>3, <2>9
<1>. QED BY <1>3, <1>4, <1>5

\* What FlattenSeq returns.
LEMMA FlattenProperties ==
  ASSUME NEW S, NEW n \in Nat, NEW seqs \in [1..n -> Seq(S)]
  PROVE  Holds(FlattenSeq(seqs), S, seqs, n)
<1>1. seqs \in Seq(Seq(S)) /\ Len(seqs) = n
  BY SequenceOf
<1>2. CASE n = 0
  <2>1. FlattenSeq(seqs) = seqs /\ seqs = << >> /\ 1..n = {}
    BY <1>1, <1>2, EmptySeq DEF FlattenSeq
  <2>2. ToSet(<< >>) = {} /\ << >> \in Seq(S) /\ Len(<< >>) = 0
    BY DEF ToSet
  <2>3. {i \in 1..n : Len(seqs[i]) = 1} = {}
    BY <2>1
  <2>4. Cardinality({i \in 1..n : Len(seqs[i]) = 1}) = 0
    BY <2>3, FS_EmptySet
  <2>5. \A x : x \in ToSet(FlattenSeq(seqs)) <=> \E i \in 1..n : x \in ToSet(seqs[i])
    BY <2>1, <2>2, Zenon
  <2>. QED BY <2>1, <2>2, <2>4, <2>5, Zenon DEF Holds
<1>3. CASE n > 0
  <2>1. PICK flatten : Flattens(flatten, seqs, n) /\ FlattenSeq(seqs) = flatten[n]
    BY <1>1, <1>3, FlattenIs
  <2>2. n \in 1..n
    BY <1>3
  <2>3. Holds(flatten[n], S, seqs, n)
    BY <2>1, <2>2, FlattenInduction
  <2>. QED BY <2>1, <2>3, Zenon
<1>. QED BY <1>2, <1>3

-----------------------------------------------------------------------------
(* Plans.                                                                  *)

\* Safe tools, each once and at most eight, make a valid plan.
LEMMA CallsAreValid ==
  ASSUME NEW n \in 1..MaxSteps, NEW tools \in [1..n -> SafeTool],
         \A i, j \in 1..n : tools[i] = tools[j] => i = j
  PROVE  Calls(tools) \in Seq(PlanStep) /\ Valid(Calls(tools))
<1>1. SafeTool \subseteq Tool
  BY DEF Tool
<1>2. Calls(tools) = [i \in 1..n |-> [tool |-> tools[i], fits |-> TRUE]]
  BY DEF Calls, Call
<1>3. Calls(tools) \in [1..n -> PlanStep]
  BY <1>1, <1>2 DEF PlanStep
<1>4. Calls(tools) \in Seq(PlanStep) /\ Len(Calls(tools)) = n
  BY <1>3, SequenceOf DEF MaxSteps
<1>. QED BY <1>2, <1>4 DEF Valid

\* The fixed plans satisfy the rules an LLM's plan has to satisfy.
LEMMA BuiltPlansAreValid ==
  ASSUME NEW scope
  PROVE  BuildPlan(scope) \in Seq(PlanStep) /\ Valid(BuildPlan(scope))
<1>. USE CallsAreValid DEF SafeTool, DefaultTags, MaxSteps
<1>1. GpuPlan \in Seq(PlanStep) /\ Valid(GpuPlan)
  BY DEF GpuPlan
<1>2. CpuPlan \in Seq(PlanStep) /\ Valid(CpuPlan)
  BY DEF CpuPlan
<1>3. MemoryPlan \in Seq(PlanStep) /\ Valid(MemoryPlan)
  BY DEF MemoryPlan
<1>4. MixedPlan \in Seq(PlanStep) /\ Valid(MixedPlan)
  BY DEF MixedPlan
<1>. QED BY <1>1, <1>2, <1>3, <1>4 DEF BuildPlan

\* A plan that may be adopted: valid, and in scope when it is the LLM's.
GoodPlan(p) ==
  /\ p.source \in {"deterministic", "llm", "fallback"}
  /\ p.steps \in Seq(PlanStep)
  /\ Valid(p.steps)
  /\ p.source = "llm" => InScope(p.steps, Requested)

\* Whatever the LLM has answered, a plan that may be adopted comes of it.
LEMMA SelectedPlansAreGood ==
  ASSUME NEW steps, steps = Unparsable \/ steps \in Seq(PlanStep)
  PROVE  GoodPlan(SelectPlan(steps, Requested))
BY BuiltPlansAreValid DEF SelectPlan, GoodPlan

-----------------------------------------------------------------------------
(* Tools.                                                                  *)

\* How a tool may have ended.
Settled == {"completed", "failed"}

\* Tool k of the plan runs: those before it are done, those after it wait.
Running(k) ==
  /\ k \in DOMAIN toolTodos
  /\ \A i \in DOMAIN toolTodos :
       /\ i < k => toolTodos[i] \in Settled
       /\ i = k => toolTodos[i] = "running"
       /\ i > k => toolTodos[i] = "pending"

\* There is a plan once planning is over, and its tools run one by one.
ToolInv ==
  /\ toolTodos \in Seq(TodoStatus) /\ Len(toolTodos) = Len(plan.steps)
  /\ exec \in {"none", "running", "late"}
  /\ tries \in 0..Retry
  /\ IF pc \in {"start", "planning"}
       THEN plan = [source |-> "none", steps |-> <<>>] /\ exec = "none"
       ELSE GoodPlan(plan)
  /\ exec # "none" => pc = "tools" /\ \E k \in Nat : Running(k)
  /\ exec = "none" => \A i \in DOMAIN toolTodos : toolTodos[i] \in Settled

\* The tool that runs is the current one.
LEMMA CurrentRuns ==
  ASSUME NEW k \in Nat, Running(k)
  PROVE  Current = k
BY DEF Running, Current, Settled

\* What the tools are about stays the same.
LEMMA PlanStaysGood ==
  ASSUME NEW p, GoodPlan(p), UNCHANGED setup
  PROVE  GoodPlan(p)'
BY DEF GoodPlan, Requested

\* The first tool of a good plan starts.
LEMMA AdoptRuns ==
  ASSUME NEW selected, GoodPlan(selected), Adopt(selected)
  PROVE  ToolInv' /\ Running(1)'
<1>1. Len(selected.steps) \in 1..8 /\ DOMAIN selected.steps = 1..Len(selected.steps)
  BY LenProperties DEF GoodPlan, Valid, MaxSteps
<1>. DEFINE n == Len(selected.steps)
<1>2. toolTodos' = [i \in 1..n |-> IF i = 1 THEN "running" ELSE "pending"]
  BY <1>1 DEF Adopt
<1>3. toolTodos' \in [1..n -> TodoStatus] /\ n \in Nat
  BY <1>1, <1>2 DEF TodoStatus
<1>4. toolTodos' \in Seq(TodoStatus) /\ Len(toolTodos') = n /\ DOMAIN toolTodos' = 1..n
  BY <1>3, SequenceOf
<1>5. Running(1)'
  BY <1>1, <1>2, <1>4 DEF Running
<1>6. GoodPlan(selected)'
  BY PlanStaysGood DEF Adopt
<1>7. 0 \in 0..Retry
  BY AgentAssumption
<1>. QED BY <1>4, <1>5, <1>6, <1>7 DEF ToolInv, Adopt

\* A result is in: the next tool starts, or all have settled.
LEMMA ConcludeRuns ==
  ASSUME ToolInv, exec # "none", NEW result \in Settled, Conclude(result),
         UNCHANGED <<pc, plan, setup>>
  PROVE  ToolInv'
<1>1. PICK k \in Nat : Running(k)
  BY DEF ToolInv
<1>2. Current = k
  BY <1>1, CurrentRuns
<1>. DEFINE n == Len(toolTodos)
<1>3. n \in Nat /\ DOMAIN toolTodos = 1..n /\ k \in 1..n
  BY <1>1, LenProperties DEF ToolInv, Running
<1>4. toolTodos' = [i \in 1..n |-> IF i = k THEN result
                                   ELSE IF i = k + 1 THEN "running" ELSE toolTodos[i]]
  BY <1>2, <1>3 DEF Conclude
<1>5. toolTodos' \in [1..n -> TodoStatus]
  <2>1. \A i \in 1..n : toolTodos[i] \in TodoStatus
    BY <1>3, ElementOfSeq DEF ToolInv
  <2>. QED BY <1>4, <2>1 DEF TodoStatus, Settled
<1>6. toolTodos' \in Seq(TodoStatus) /\ Len(toolTodos') = n /\ DOMAIN toolTodos' = 1..n
  BY <1>3, <1>5, SequenceOf
<1>. HIDE DEF n
<1>7. \A i \in 1..n :
        /\ i < k => toolTodos'[i] \in Settled
        /\ i = k => toolTodos'[i] \in Settled
        /\ i = k + 1 => toolTodos'[i] = "running"
        /\ i > k + 1 => toolTodos'[i] = "pending"
  BY <1>1, <1>3, <1>4 DEF Running
<1>8. CASE k = n
  <2>1. ASSUME NEW i \in 1..n
        PROVE  toolTodos'[i] \in Settled
    <3>1. i < k \/ i = k
      BY <1>3, <1>8
    <3>. QED BY <3>1, <1>7, Zenon
  <2>2. exec' = "none" /\ tries' = 0
    BY <1>2, <1>8 DEF Conclude, n
  <2>. QED BY <1>6, <2>1, <2>2, PlanStaysGood, AgentAssumption DEF ToolInv, n
<1>9. CASE k # n
  <2>1. Running(k + 1)'
    <3>1. k + 1 \in 1..n
      BY <1>3, <1>9
    <3>2. ASSUME NEW i \in 1..n
          PROVE  /\ i < k + 1 => toolTodos'[i] \in Settled
                 /\ i = k + 1 => toolTodos'[i] = "running"
                 /\ i > k + 1 => toolTodos'[i] = "pending"
      <4>1. i < k + 1 => (i < k \/ i = k)
        BY <1>3
      <4>. QED BY <4>1, <1>7, Zenon
    <3>. QED BY <3>1, <3>2, <1>6, Zenon DEF Running
  <2>2. exec' = "running" /\ tries' = 0
    BY <1>2, <1>9 DEF Conclude, n
  <2>. QED BY <1>6, <2>1, <2>2, PlanStaysGood, AgentAssumption DEF ToolInv, n
<1>. QED BY <1>8, <1>9

\* Nothing changes about the tools.
LEMMA ToolsStay ==
  ASSUME ToolInv, UNCHANGED <<toolTodos, plan, setup>>,
         tries' \in 0..Retry, exec' = exec \/ (exec # "none" /\ exec' \in {"running", "late"}),
         \/ pc' = pc
         \/ pc = "start" /\ pc' = "planning"
         \/ exec = "none" /\ pc \in {"tools", "reporting"} /\ pc' \in {"reporting", "done"}
  PROVE  ToolInv'
BY PlanStaysGood DEF ToolInv, Running

\* A handler has failed: it runs again, or the next one does.
LEMMA TryRuns ==
  ASSUME ToolInv, exec # "none", TryAgainOrFail, UNCHANGED <<pc, plan, setup>>
  PROVE  ToolInv'
<1>1. CASE tries < Retry /\ tries' = tries + 1 /\ exec' = "running" /\ UNCHANGED toolTodos
  <2>1. tries' \in 0..Retry
    BY <1>1, AgentAssumption DEF ToolInv
  <2>. QED BY <1>1, <2>1, ToolsStay
<1>2. CASE Conclude("failed")
  BY <1>2, ConcludeRuns DEF Settled
<1>. QED BY <1>1, <1>2 DEF TryAgainOrFail

\* One step of a diagnosis, for the tools.
LEMMA ToolStepKeeps ==
  ASSUME ToolInv, [Next]_vars
  PROVE  ToolInv'
<1>. USE AgentAssumption
<1>1. CASE Start
  <2>1. CASE /\ StartCall(FALSE) /\ pc' = "planning"
             /\ UNCHANGED <<toolTodos, plan, setup, exec, tries>>
    BY <1>1, <2>1, ToolsStay DEF Start, ToolInv
  <2>2. CASE Adopt([source |-> IF setup.llmPlanner THEN "fallback" ELSE "deterministic",
                    steps |-> BuildPlan(Requested)])
    <3>1. GoodPlan([source |-> IF setup.llmPlanner THEN "fallback" ELSE "deterministic",
                    steps |-> BuildPlan(Requested)])
      BY BuiltPlansAreValid DEF GoodPlan
    <3>. QED BY <2>2, <3>1, AdoptRuns
  <2>. QED BY <1>1, <2>1, <2>2 DEF Start
<1>2. CASE PlannerAnswers
  <2>1. PICK steps : /\ steps = Unparsable \/ steps \in Seq(PlanStep)
                     /\ Adopt(SelectPlan(steps, Requested))
    BY <1>2 DEF PlannerAnswers
  <2>. QED BY <2>1, SelectedPlansAreGood, AdoptRuns
<1>3. CASE Detect
  BY <1>3, ToolsStay DEF Detect, ToolInv
<1>4. CASE FinishReport
  <2>1. PICK source, status, text : Report(source, status, text)
    BY <1>4 DEF FinishReport
  <2>2. exec = "none"
    BY <1>4 DEF FinishReport, ToolInv
  <2>. QED BY <1>4, <2>1, <2>2, ToolsStay DEF FinishReport, Report, ToolInv
<1>5. CASE ToolReturns
  BY <1>5, ConcludeRuns DEF ToolReturns, Settled
<1>6. CASE ToolRaises
  BY <1>6, TryRuns DEF ToolRaises
<1>7. CASE ToolTimesOut
  BY <1>7, ToolsStay DEF ToolTimesOut, ToolInv
<1>8. CASE LateToolEnds
  BY <1>8, TryRuns DEF LateToolEnds
<1>9. CASE UNCHANGED agentVars
  BY <1>9, ToolsStay DEF agentVars, ToolInv
<1>. QED BY <1>1, <1>2, <1>3, <1>4, <1>5, <1>6, <1>7, <1>8, <1>9
         DEF Next, AgentStep, ToolStep, vars

-----------------------------------------------------------------------------
(* The client.                                                             *)

\* Whether the LLM is called for the plan, and for the report.
PlannerCalls == setup.llmPlanner /\ setup.client
ReportCalls == setup.llmReport /\ setup.client

\* No call is under way.
Ended == {"idle", "answered", "raised"}

\* The requests of the current call, and those of the call before it.
Posted == IF stage = "posting" THEN attempt ELSE attempt + 1
Earlier == IF PlannerCalls THEN MaxRetries + 1 ELSE 0

\* The planner's call is the first, the report's the last, and neither is
\* made when it is not asked for.
RequestInv ==
  /\ setup \in Setup
  /\ ClientTypeOK
  /\ stage = "backoff" => attempt < MaxRetries
  /\ pc \in {"start", "planning", "tools", "reporting", "done"}
  /\ pc = "start" => stage = "idle" /\ sent = 0
  /\ pc = "planning" => PlannerCalls /\ stage # "idle" /\ sent <= Posted
  /\ pc = "tools" => stage \in Ended /\ sent <= Earlier
  /\ pc \in {"reporting", "done"} =>
       IF ReportCalls THEN stage # "idle" /\ sent <= Earlier + Posted
                      ELSE stage \in Ended /\ sent <= Earlier

\* Only the report's call streams, and its chunks are of one attempt: as long
\* as there may be another nothing has been shown.
ShownInv ==
  /\ pc \in {"start", "planning", "tools"} => shown = <<>> /\ ~streams
  /\ stage = "streaming" => streams
  /\ stage \in {"posting", "backoff"} => shown = <<>>
  /\ stage = "streaming" /\ shown # <<>> =>
       yielded /\ \A i \in DOMAIN shown : shown[i] = attempt
  /\ ShownTextIsOneAnswer

\* The client's steps.
LEMMA ClientKeeps ==
  ASSUME RequestInv, ShownInv, ClientStep, UNCHANGED <<pc, setup>>
  PROVE  RequestInv' /\ ShownInv'
<1>. USE ClientAssumption
<1>. USE DEF RequestInv, ShownInv, ClientTypeOK, Posted, Earlier, Ended, PlannerCalls, ReportCalls
<1>1. pc \in {"planning", "reporting", "done"}
  BY DEF ClientStep, Post, Backoff, ReceiveLine, EndStream, BreakStream
<1>2. CASE Post
  <2>1. /\ stage = "posting" /\ stage' \in {"backoff", "raised", "streaming", "answered"}
        /\ stage' = "backoff" => attempt < MaxRetries
        /\ stage' = "streaming" => streams
        /\ sent' = sent + 1 /\ yielded' = FALSE /\ UNCHANGED <<streams, attempt, shown>>
    BY <1>2 DEF Post, AgainOrRaise
  <2>2. ClientTypeOK'
    <3>1. streams' \in BOOLEAN /\ yielded' \in BOOLEAN
      BY <2>1, Zenon DEF RequestInv, ClientTypeOK
    <3>2. attempt' \in 0..MaxRetries /\ sent' \in Nat
      BY <2>1
    <3>3. shown' \in Seq(0..MaxRetries) /\ Len(shown') <= MaxChunks
      BY <2>1
    <3>. QED BY <2>1, <3>1, <3>2, <3>3
  <2>3. /\ pc = "planning" => sent' <= attempt + 1
        /\ pc # "planning" => ReportCalls /\ sent' <= Earlier + (attempt + 1)
    BY <1>1, <2>1 DEF RequestInv
  <2>4. RequestInv'
    BY <1>1, <2>1, <2>2, <2>3 DEF RequestInv
  <2>5. ShownInv'
    BY <1>1, <1>2 DEF Post, AgainOrRaise, ShownTextIsOneAnswer
  <2>. QED BY <2>4, <2>5
<1>3. CASE Backoff
  <2>1. RequestInv'
    BY <1>1, <1>3 DEF Backoff
  <2>2. ShownInv'
    BY <1>1, <1>3 DEF Backoff, ShownTextIsOneAnswer
  <2>. QED BY <2>1, <2>2
<1>4. CASE ReceiveLine
  <2>1. stage = "streaming" /\ streams /\ yielded' /\ UNCHANGED <<stage, streams, attempt, sent>>
    BY <1>4 DEF ReceiveLine
  <2>2. CASE Len(shown) < MaxChunks /\ shown' = Append(shown, attempt)
    <3>1. \A i \in DOMAIN shown : shown[i] = attempt
      BY <2>1, EmptySeq
    <3>2. shown' \in Seq(0..MaxRetries) /\ Len(shown') = Len(shown) + 1
      BY <2>2, AppendProperties
    <3>3. \A i \in DOMAIN shown' : shown'[i] = attempt
      BY <2>2, <3>1, AppendProperties, LenProperties
    <3>4. RequestInv'
      BY <1>1, <2>1, <2>2, <3>2, LenProperties
    <3>. QED BY <1>1, <2>1, <3>3, <3>4 DEF ShownTextIsOneAnswer
  <2>3. CASE ~yielded /\ UNCHANGED shown
    BY <1>1, <2>1, <2>3 DEF ShownTextIsOneAnswer
  <2>. QED BY <1>4, <2>2, <2>3 DEF ReceiveLine
<1>5. CASE EndStream \/ BreakStream
  <2>1. RequestInv'
    BY <1>1, <1>5 DEF EndStream, BreakStream, AgainOrRaise
  <2>2. ShownInv'
    BY <1>1, <1>5 DEF EndStream, BreakStream, AgainOrRaise, ShownTextIsOneAnswer
  <2>. QED BY <2>1, <2>2
<1>. QED BY <1>2, <1>3, <1>4, <1>5 DEF ClientStep

\* One step of a diagnosis, for its requests and what it shows.
LEMMA RequestStepKeeps ==
  ASSUME RequestInv, ShownInv, [Next]_vars
  PROVE  RequestInv' /\ ShownInv'
<1>. USE ClientAssumption
<1>. USE DEF RequestInv, ShownInv, ClientTypeOK, Posted, Earlier, Ended, PlannerCalls, ReportCalls,
             ShownTextIsOneAnswer
<1>1. \A s \in SetupType : /\ s.llmPlanner \in BOOLEAN /\ s.llmReport \in BOOLEAN
                          /\ s.client \in BOOLEAN /\ s.console \in BOOLEAN
  BY DEF SetupType
<1>2. setup \in SetupType
  BY AgentAssumption
<1>3. CASE Start
  <2>1. CASE StartCall(FALSE) /\ PlannerCalls /\ pc' = "planning" /\ UNCHANGED setup
    <3>1. /\ stage' = "posting" /\ streams' = FALSE /\ attempt' = 0 /\ yielded' = FALSE
          /\ UNCHANGED <<shown, sent>> /\ sent = 0 /\ shown = <<>> /\ pc = "start"
      BY <1>3, <2>1 DEF Start, StartCall
    <3>2. ClientTypeOK'
      <4>1. streams' \in BOOLEAN /\ yielded' \in BOOLEAN
        BY <3>1, Zenon
      <4>2. attempt' \in 0..MaxRetries /\ sent' \in Nat
        BY <3>1
      <4>3. shown' \in Seq(0..MaxRetries) /\ Len(shown') <= MaxChunks
        BY <3>1
      <4>. QED BY <3>1, <4>1, <4>2, <4>3
    <3>3. RequestInv'
      BY <2>1, <3>1, <3>2
    <3>4. ShownInv'
      BY <2>1, <3>1
    <3>. QED BY <3>3, <3>4
  <2>2. CASE pc' = "tools" /\ UNCHANGED setup /\ UNCHANGED clientVars
    BY <1>1, <1>2, <1>3, <2>2 DEF Start, clientVars
  <2>. QED BY <1>3, <2>1, <2>2 DEF Start, Adopt
<1>4. CASE PlannerAnswers
  <2>1. pc = "planning" /\ stage \in {"answered", "raised"} /\ pc' = "tools" /\ UNCHANGED setup
    BY <1>4 DEF PlannerAnswers, Adopt
  <2>2. UNCHANGED clientVars
    BY <1>4 DEF PlannerAnswers
  <2>. QED BY <1>1, <1>2, <2>1, <2>2 DEF clientVars
<1>5. CASE Detect
  <2>1. CASE StartCall(setup.console) /\ ReportCalls
    <3>1. /\ stage' = "posting" /\ streams' = setup.console /\ attempt' = 0 /\ yielded' = FALSE
          /\ UNCHANGED <<shown, sent, setup>> /\ sent <= Earlier /\ shown = <<>>
          /\ pc' = "reporting"
      BY <1>5, <2>1 DEF Detect, StartCall
    <3>2. ClientTypeOK'
      <4>1. streams' \in BOOLEAN /\ yielded' \in BOOLEAN
        BY <1>1, <1>2, <3>1, Zenon
      <4>2. attempt' \in 0..MaxRetries /\ sent' \in Nat
        BY <3>1
      <4>3. shown' \in Seq(0..MaxRetries) /\ Len(shown') <= MaxChunks
        BY <3>1
      <4>. QED BY <3>1, <4>1, <4>2, <4>3
    <3>3. RequestInv'
      BY <2>1, <3>1, <3>2
    <3>4. ShownInv'
      BY <2>1, <3>1
    <3>. QED BY <3>3, <3>4
  <2>2. CASE UNCHANGED clientVars /\ ~ReportCalls
    BY <1>1, <1>2, <1>5, <2>2 DEF Detect, clientVars
  <2>. QED BY <1>5, <2>1, <2>2 DEF Detect
<1>6. CASE FinishReport
  <2>1. pc = "reporting" /\ pc' = "done" /\ UNCHANGED setup /\ UNCHANGED clientVars
    BY <1>6 DEF FinishReport, Report
  <2>. QED BY <1>1, <1>2, <2>1 DEF clientVars
<1>7. CASE UNCHANGED <<pc, setup>> /\ UNCHANGED clientVars
  BY <1>7 DEF clientVars
<1>8. CASE ClientStep /\ UNCHANGED agentVars
  BY <1>8, ClientKeeps DEF agentVars
<1>9. ToolStep \/ LateToolEnds => UNCHANGED <<pc, setup>> /\ UNCHANGED clientVars
  BY DEF ToolStep, ToolReturns, ToolRaises, ToolTimesOut, LateToolEnds, clientVars
<1>. QED BY <1>3, <1>4, <1>5, <1>6, <1>7, <1>8, <1>9 DEF Next, AgentStep, vars, agentVars

-----------------------------------------------------------------------------
(* Detectors.                                                              *)

\* An item of evidence that rests on a tool of ok.
Item(ok) == [source : ok, item : Nat, level : {"warning", "critical"}, confidence : Nat]

\* What a rule may recommend: something safe, and the end of a process.
Recommended(actions) ==
  \E action, reason : \/ actions = <<Safe(action, reason)>>
                      \/ actions = <<Safe(action, reason), Kill>>

\* A rule finds nothing, or one thing, and has evidence for it.
SoundOutcome(d, ok) ==
  \/ d = Nothing
  \/ \E type, confidence, evidence, actions :
       /\ d = Found(type, confidence, evidence, actions)
       /\ evidence \in Seq(Item(ok)) /\ evidence # << >>
       /\ Recommended(actions)

\* What a rule finds, with evidence for it, is sound.
LEMMA FoundIsSound ==
  ASSUME NEW ok, NEW type, NEW confidence, NEW evidence \in Seq(Item(ok)), evidence # << >>,
         NEW action, NEW reason
  PROVE  /\ SoundOutcome(Found(type, confidence, evidence, <<Safe(action, reason)>>), ok)
         /\ SoundOutcome(Found(type, confidence, evidence, <<Safe(action, reason), Kill>>), ok)
<1>1. Recommended(<<Safe(action, reason)>>) /\ Recommended(<<Safe(action, reason), Kill>>)
  BY Zenon DEF Recommended
<1>. QED BY <1>1, Zenon DEF SoundOutcome

\* So it is with a single item of evidence from a tool of ok.
LEMMA OneItemIsSound ==
  ASSUME NEW ok, NEW tool \in ok, NEW n \in Nat, NEW level \in {"warning", "critical"},
         NEW confidence \in Nat, NEW type, NEW action, NEW reason
  PROVE  LET evidence == <<EvidenceItem(tool, n, level, confidence)>>
         IN /\ SoundOutcome(Found(type, confidence, evidence, <<Safe(action, reason)>>), ok)
            /\ SoundOutcome(Found(type, confidence, evidence, <<Safe(action, reason), Kill>>), ok)
<1>. DEFINE evidence == <<EvidenceItem(tool, n, level, confidence)>>
<1>1. evidence \in Seq(Item(ok)) /\ evidence # << >>
  BY DEF EvidenceItem, Item
<1>. HIDE DEF evidence
<1>2. /\ SoundOutcome(Found(type, confidence, evidence, <<Safe(action, reason)>>), ok)
      /\ SoundOutcome(Found(type, confidence, evidence, <<Safe(action, reason), Kill>>), ok)
  BY <1>1, FoundIsSound
<1>. QED BY <1>2 DEF evidence

\* The rule for a full GPU, whose evidence is one item for each of them.
LEMMA GpuRuleIsSound ==
  ASSUME NEW m \in MachineType, NEW ok
  PROVE  SoundOutcome(DetectGpuMemoryPressure(Readings(m), ok), ok)
<1>. DEFINE h == Readings(m)
            gpus == h.gpu.gpus
            one == [i \in DOMAIN gpus |-> IF gpus[i].memory >= 90
                      THEN <<EvidenceItem("get_gpu_snapshot", i, "critical", 95)>> ELSE << >>]
            full == FlattenSeq(one)
            owner == IF "list_gpu_processes" \in ok /\ h.gpu.processes > 0
                       THEN <<EvidenceItem("list_gpu_processes", 0, "warning", 85)>> ELSE << >>
<1>1. SUFFICES ASSUME HasGpus(h, ok), full # << >>
               PROVE  /\ full \o owner \in Seq(Item(ok))
                      /\ full \o owner # << >>
  <2>1. \/ DetectGpuMemoryPressure(h, ok) = Nothing
        \/ /\ HasGpus(h, ok) /\ full # << >>
           /\ DetectGpuMemoryPressure(h, ok) =
                Found("gpu_memory_pressure", 92, full \o owner,
                      <<Safe("inspect_gpu_processes", "attribute"), Kill>>)
    BY Zenon DEF DetectGpuMemoryPressure
  <2>2. SoundOutcome(Nothing, ok)
    BY DEF SoundOutcome
  <2>. HIDE DEF full, owner
  <2>3. SoundOutcome(DetectGpuMemoryPressure(h, ok), ok)
    <3>. HIDE DEF h
    <3>. QED BY <1>1, <2>1, <2>2, FoundIsSound
  <2>. QED BY <2>3
<1>2. gpus = GetGpuSnapshot(m).gpus
  BY DEF Readings
<1>3. \E n \in Nat : DOMAIN gpus = 1..n
  <2>1. m.gpus \in Seq([util : Nat, used : Nat, total : Nat])
    BY DEF MachineType
  <2>2. DOMAIN m.gpus = 1..Len(m.gpus) /\ Len(m.gpus) \in Nat
    BY <2>1, LenProperties
  <2>3. DOMAIN << >> = 1..0
    OBVIOUS
  <2>4. DOMAIN gpus = DOMAIN m.gpus \/ DOMAIN gpus = 1..0
    BY <1>2, <2>3 DEF GetGpuSnapshot
  <2>. QED BY <2>2, <2>4
<1>4. PICK n \in Nat : DOMAIN gpus = 1..n
  BY <1>3
<1>5. "get_gpu_snapshot" \in ok
  BY <1>1 DEF HasGpus
<1>. HIDE DEF gpus, h
<1>6. one \in [1..n -> Seq(Item(ok))]
  <2>1. \A i \in 1..n : <<EvidenceItem("get_gpu_snapshot", i, "critical", 95)>> \in Seq(Item(ok))
    BY <1>5 DEF EvidenceItem, Item
  <2>. QED BY <1>4, <2>1
<1>7. full \in Seq(Item(ok))
  <2>. HIDE DEF one
  <2>. QED BY <1>6, FlattenProperties DEF Holds
<1>8. owner \in Seq(Item(ok))
  <2>1. "list_gpu_processes" \in ok =>
          <<EvidenceItem("list_gpu_processes", 0, "warning", 85)>> \in Seq(Item(ok))
    BY DEF EvidenceItem, Item
  <2>2. << >> \in Seq(Item(ok))
    OBVIOUS
  <2>. QED BY <2>1, <2>2, Zenon
<1>. HIDE DEF full, owner
<1>9. Len(full) # 0
  BY <1>1, <1>7, EmptySeq
<1>. QED BY <1>7, <1>8, <1>9, ConcatProperties, LenProperties

\* Each of the nine rules is sound, whatever the machine and whichever tools have
\* not failed.
LEMMA RulesAreSound ==
  ASSUME NEW m \in MachineType, NEW ok
  PROVE  \A i \in 1..9 : SoundOutcome(Outcomes(Readings(m), ok)[i], ok)
<1>. DEFINE h == Readings(m)
<1>0. SoundOutcome(Nothing, ok)
  BY DEF SoundOutcome
<1>1. SoundOutcome(DetectGpuUnavailable(h, ok), ok)
  <2>. HIDE DEF h
  <2>. QED BY <1>0, OneItemIsSound DEF DetectGpuUnavailable
<1>2. SoundOutcome(DetectGpuMemoryPressure(h, ok), ok)
  BY GpuRuleIsSound
<1>3. SoundOutcome(DetectCpuBottleneck(h, ok), ok)
  <2>. HIDE DEF h
  <2>1. ASSUME "get_gpu_snapshot" \in ok, "get_cpu_snapshot" \in ok
        PROVE  /\ <<EvidenceItem("get_gpu_snapshot", 0, "warning", 85),
                    EvidenceItem("get_cpu_snapshot", 0, "warning", 85)>> \in Seq(Item(ok))
               /\ <<EvidenceItem("get_gpu_snapshot", 0, "warning", 85),
                    EvidenceItem("get_cpu_snapshot", 0, "warning", 85)>> # << >>
    BY <2>1 DEF EvidenceItem, Item
  <2>. QED BY <1>0, <2>1, FoundIsSound DEF DetectCpuBottleneck, HasGpus
<1>4. SoundOutcome(DetectCpuSaturation(h, ok), ok)
  <2>. HIDE DEF h
  <2>. QED BY <1>0, OneItemIsSound DEF DetectCpuSaturation
<1>5. SoundOutcome(DetectSingleProcessCpuHot(h, ok), ok)
  <2>. HIDE DEF h
  <2>. QED BY <1>0, OneItemIsSound DEF DetectSingleProcessCpuHot
<1>6. SoundOutcome(DetectMemoryPressure(h, ok), ok)
  <2>. HIDE DEF h
  <2>. DEFINE level == IF h.mem.used < 95 THEN "warning" ELSE "critical"
  <2>1. level \in {"warning", "critical"}
    OBVIOUS
  <2>2. \/ DetectMemoryPressure(h, ok) = Nothing
        \/ /\ "get_memory_snapshot" \in ok
           /\ DetectMemoryPressure(h, ok) =
                Found("memory_pressure", 90, <<EvidenceItem("get_memory_snapshot", 0, level, 90)>>,
                      <<Safe("inspect_top_memory_processes", "attribute")>>)
    BY Zenon DEF DetectMemoryPressure
  <2>. HIDE DEF level
  <2>3. ASSUME "get_memory_snapshot" \in ok, NEW l \in {"warning", "critical"}
        PROVE  SoundOutcome(Found("memory_pressure", 90,
                 <<EvidenceItem("get_memory_snapshot", 0, l, 90)>>,
                 <<Safe("inspect_top_memory_processes", "attribute")>>), ok)
    <3>. DEFINE evidence == <<EvidenceItem("get_memory_snapshot", 0, l, 90)>>
    <3>1. evidence \in Seq(Item(ok)) /\ evidence # << >>
      BY <2>3 DEF EvidenceItem, Item
    <3>. HIDE DEF evidence
    <3>2. SoundOutcome(Found("memory_pressure", 90, evidence,
                             <<Safe("inspect_top_memory_processes", "attribute")>>), ok)
      BY <3>1, FoundIsSound
    <3>. QED BY <3>2 DEF evidence
  <2>. QED BY <1>0, <2>1, <2>2, <2>3, Zenon
<1>7. SoundOutcome(DetectSwapPressure(h, ok), ok)
  <2>. HIDE DEF h
  <2>. QED BY <1>0, OneItemIsSound DEF DetectSwapPressure
<1>8. SoundOutcome(DetectOomEvent(h, ok), ok)
  <2>. HIDE DEF h
  <2>. QED BY <1>0, OneItemIsSound DEF DetectOomEvent
<1>9. SoundOutcome(DetectMemoryHog(h, ok), ok)
  <2>. HIDE DEF h
  <2>. QED BY <1>0, OneItemIsSound DEF DetectMemoryHog
<1>. HIDE DEF h
<1>. QED BY <1>1, <1>2, <1>3, <1>4, <1>5, <1>6, <1>7, <1>8, <1>9 DEF Outcomes, h

\* A finding with evidence from the tools of ok, that recommends what a rule may.
SoundFinding(f, ok) ==
  \E type, confidence, evidence, actions :
    /\ f = [type |-> type, confidence |-> confidence, evidence |-> evidence, actions |-> actions]
    /\ evidence \in Seq(Item(ok)) /\ evidence # << >>
    /\ Recommended(actions)

\* A sequence over a set is one over a larger set.
LEMMA WiderSeq ==
  ASSUME NEW S, NEW T, S \subseteq T, NEW s \in Seq(S)
  PROVE  s \in Seq(T)
<1>1. Len(s) \in Nat /\ s \in [1..Len(s) -> S]
  BY LenProperties
<1>2. s \in [1..Len(s) -> T]
  BY <1>1
<1>. QED BY <1>1, <1>2, SequenceOf

\* Evidence and findings of what a rule finds.
LEMMA OutcomeParts ==
  ASSUME NEW ok, NEW d, SoundOutcome(d, ok)
  PROVE  /\ d.evidence \in Seq(Item(ok))
         /\ d.findings \in Seq(ToSet(d.findings))
         /\ \A f \in ToSet(d.findings) : SoundFinding(f, ok) /\ f.evidence = d.evidence
<1>1. CASE d = Nothing
  <2>1. d.evidence = << >> /\ d.findings = << >>
    BY <1>1 DEF Nothing
  <2>2. ToSet(<< >>) = {}
    BY DEF ToSet
  <2>3. << >> \in Seq(Item(ok)) /\ << >> \in Seq({})
    OBVIOUS
  <2>. QED BY <2>1, <2>2, <2>3, Zenon
<1>2. ASSUME NEW type, NEW confidence, NEW evidence, NEW actions,
             d = Found(type, confidence, evidence, actions),
             evidence \in Seq(Item(ok)), evidence # << >>, Recommended(actions)
      PROVE  /\ d.evidence \in Seq(Item(ok))
             /\ d.findings \in Seq(ToSet(d.findings))
             /\ \A f \in ToSet(d.findings) : SoundFinding(f, ok) /\ f.evidence = d.evidence
  <2>. DEFINE f == [type |-> type, confidence |-> confidence, evidence |-> evidence,
                    actions |-> actions]
  <2>1. d.evidence = evidence /\ d.findings = <<f>> /\ f.evidence = evidence
    BY <1>2 DEF Found
  <2>2. SoundFinding(f, ok)
    BY <1>2, Zenon DEF SoundFinding
  <2>. HIDE DEF f
  <2>3. ToSet(<<f>>) = {f} /\ <<f>> \in Seq({f})
    BY DEF ToSet
  <2>. QED BY <1>2, <2>1, <2>2, <2>3, Zenon
<1>. QED BY <1>1, <1>2 DEF SoundOutcome

\* What the detectors find rests on evidence of theirs, and is what one of the
\* rules has found.
LEMMA DetectorsAreSound ==
  ASSUME NEW m \in MachineType, NEW ok, NEW d, d = RunDetectors(Readings(m), ok)
  PROVE  /\ d.evidence \in Seq(Item(ok))
         /\ d.findings \in Seq(ToSet(d.findings))
         /\ \A f \in ToSet(d.findings) :
              SoundFinding(f, ok) /\ ToSet(f.evidence) \subseteq ToSet(d.evidence)
         /\ \A i \in 1..9 :
              ToSet(Outcomes(Readings(m), ok)[i].findings) \subseteq ToSet(d.findings)
<1>. DEFINE o == Outcomes(Readings(m), ok)
            S == UNION {ToSet(o[i].findings) : i \in 1..9}
            es == [i \in 1..9 |-> o[i].evidence]
            fs == [i \in 1..9 |-> o[i].findings]
<1>1. DOMAIN o = 1..9
  BY DEF Outcomes
<1>2. d = [evidence |-> FlattenSeq(es), findings |-> FlattenSeq(fs)]
  BY <1>1, Zenon DEF RunDetectors
<1>3. \A i \in 1..9 :
        /\ o[i].evidence \in Seq(Item(ok))
        /\ o[i].findings \in Seq(ToSet(o[i].findings))
        /\ \A f \in ToSet(o[i].findings) :
             SoundFinding(f, ok) /\ f.evidence = o[i].evidence
  BY RulesAreSound, OutcomeParts
<1>. HIDE DEF o
<1>4. es \in [1..9 -> Seq(Item(ok))]
  BY <1>3
<1>5. fs \in [1..9 -> Seq(S)]
  <2>1. ASSUME NEW i \in 1..9 PROVE o[i].findings \in Seq(S)
    <3>1. ToSet(o[i].findings) \subseteq S
      OBVIOUS
    <3>2. o[i].findings \in Seq(ToSet(o[i].findings))
      BY <1>3
    <3>. HIDE DEF S
    <3>. QED BY <3>1, <3>2, WiderSeq
  <2>. HIDE DEF S
  <2>. QED BY <2>1
<1>6. d.evidence = FlattenSeq(es) /\ d.findings = FlattenSeq(fs)
  BY <1>2
<1>7. Holds(d.evidence, Item(ok), es, 9) /\ Holds(d.findings, S, fs, 9)
  <2>1. 9 \in Nat
    OBVIOUS
  <2>. HIDE DEF S, es, fs
  <2>. QED BY <2>1, <1>4, <1>5, <1>6, FlattenProperties
<1>8. \A x : x \in ToSet(d.evidence) <=> \E i \in 1..9 : x \in ToSet(o[i].evidence)
  <2>1. \A x : x \in ToSet(d.evidence) <=> \E i \in 1..9 : x \in ToSet(es[i])
    BY <1>7 DEF Holds
  <2>. QED BY <2>1
<1>9. \A x : x \in ToSet(d.findings) <=> \E i \in 1..9 : x \in ToSet(o[i].findings)
  <2>1. \A x : x \in ToSet(d.findings) <=> \E i \in 1..9 : x \in ToSet(fs[i])
    <3>. HIDE DEF S
    <3>. QED BY <1>7 DEF Holds
  <2>. QED BY <2>1
<1>10. d.findings \in Seq(ToSet(d.findings))
  <2>1. d.findings \in Seq(S)
    <3>. HIDE DEF S
    <3>. QED BY <1>7 DEF Holds
  <2>2. d.findings \in [1..Len(d.findings) -> ToSet(d.findings)] /\ Len(d.findings) \in Nat
    <3>. HIDE DEF S
    <3>. QED BY <2>1, LenProperties DEF ToSet
  <2>. QED BY <2>2, SequenceOf
<1>11. d.evidence \in Seq(Item(ok))
  BY <1>7 DEF Holds
<1>12. ASSUME NEW f \in ToSet(d.findings)
       PROVE  SoundFinding(f, ok) /\ ToSet(f.evidence) \subseteq ToSet(d.evidence)
  <2>1. PICK i \in 1..9 : f \in ToSet(o[i].findings)
    BY <1>9
  <2>2. SoundFinding(f, ok) /\ f.evidence = o[i].evidence
    BY <1>3, <2>1
  <2>. QED BY <1>8, <2>2
<1>13. \A i \in 1..9 : ToSet(o[i].findings) \subseteq ToSet(d.findings)
  BY <1>9
<1>. QED BY <1>10, <1>11, <1>12, <1>13 DEF o

\* An action list asks for one approval, or none.
LEMMA AskingIs ==
  ASSUME NEW actions, Recommended(actions)
  PROVE  /\ Asking(actions) \in Seq({Kill})
         /\ Len(Asking(actions)) = IF Kill \in ToSet(actions) THEN 1 ELSE 0
<1>1. PICK action, reason : \/ actions = <<Safe(action, reason)>>
                            \/ actions = <<Safe(action, reason), Kill>>
  BY DEF Recommended
<1>. DEFINE a == Safe(action, reason)
            one == [j \in DOMAIN actions |-> IF actions[j].approval THEN <<actions[j]>> ELSE << >>]
<1>2. a.approval = FALSE /\ Kill.approval = TRUE /\ a # Kill
  BY DEF Safe, Kill
<1>3. Asking(actions) = FlattenSeq(one)
  BY DEF Asking
<1>. HIDE DEF a
<1>4. << >> \in Seq({Kill}) /\ <<Kill>> \in Seq({Kill}) /\ Len(<< >>) = 0 /\ Len(<<Kill>>) = 1
  OBVIOUS
<1>5. CASE actions = <<a>>
  <2>1. DOMAIN actions = 1..1 /\ actions[1] = a /\ ToSet(actions) = {a}
    BY <1>5 DEF ToSet
  <2>2. \A j \in 1..1 : one[j] = << >>
    BY <1>2, <2>1
  <2>3. one \in [1..1 -> Seq({Kill})] /\ DOMAIN one = 1..1
    BY <1>4, <2>1, <2>2
  <2>. HIDE DEF one
  <2>4. Holds(Asking(actions), {Kill}, one, 1)
    BY <1>3, <2>3, FlattenProperties
  <2>5. \A i \in 1..1 : Len(one[i]) \in {0, 1} /\ Len(one[i]) # 1
    BY <1>4, <2>2
  <2>6. {i \in 1..1 : Len(one[i]) = 1} = {}
    BY <2>5, Zenon
  <2>7. Asking(actions) \in Seq({Kill}) /\ Len(Asking(actions)) = 0
    BY <2>3, <2>4, <2>5, <2>6, FS_EmptySet, Zenon DEF Holds
  <2>8. Kill \notin ToSet(actions)
    BY <1>2, <2>1
  <2>. QED BY <2>7, <2>8
<1>6. CASE actions = <<a, Kill>>
  <2>1. DOMAIN actions = 1..2 /\ actions[1] = a /\ actions[2] = Kill /\ Kill \in ToSet(actions)
    BY <1>6 DEF ToSet
  <2>2. one[1] = << >> /\ one[2] = <<Kill>> /\ DOMAIN one = 1..2
    BY <1>2, <2>1
  <2>3. one \in [1..2 -> Seq({Kill})]
    <3>1. \A j \in 1..2 : j = 1 \/ j = 2
      OBVIOUS
    <3>2. \A j \in 1..2 : one[j] \in Seq({Kill})
      BY <1>4, <2>2, <3>1, Zenon
    <3>3. one = [j \in 1..2 |-> one[j]]
      BY <2>1
    <3>. HIDE DEF one
    <3>. QED BY <3>2, <3>3
  <2>. HIDE DEF one
  <2>4. Holds(Asking(actions), {Kill}, one, 2)
    BY <1>3, <2>3, FlattenProperties
  <2>5. Len(one[1]) = 0 /\ Len(one[2]) = 1 /\ 0 # 1
    BY <1>4, <2>2
  <2>6. \A i : i \in 1..2 <=> i = 1 \/ i = 2
    OBVIOUS
  <2>7. {i \in 1..2 : Len(one[i]) = 1} = {2} /\ \A i \in 1..2 : Len(one[i]) \in {0, 1}
    BY <2>5, <2>6, Zenon
  <2>8. Asking(actions) \in Seq({Kill}) /\ Len(Asking(actions)) = 1
    BY <2>2, <2>4, <2>7, FS_Singleton, Zenon DEF Holds
  <2>. QED BY <2>1, <2>8
<1>. QED BY <1>1, <1>5, <1>6 DEF a

\* One approval for every finding that asks for one.
LEMMA ApprovalsAre ==
  ASSUME NEW ok, NEW findings, findings \in Seq(ToSet(findings)),
         \A f \in ToSet(findings) : SoundFinding(f, ok)
  PROVE  /\ ApprovalsFor(findings) \in Seq({Kill})
         /\ Len(ApprovalsFor(findings)) =
              Cardinality({i \in DOMAIN findings : Kill \in ToSet(findings[i].actions)})
<1>. DEFINE n == Len(findings)
            each == [i \in DOMAIN findings |-> Asking(findings[i].actions)]
<1>1. n \in Nat /\ DOMAIN findings = 1..n
  BY LenProperties
<1>2. \A i \in 1..n : Recommended(findings[i].actions)
  <2>1. ASSUME NEW i \in 1..n PROVE Recommended(findings[i].actions)
    <3>1. SoundFinding(findings[i], ok)
      BY <1>1 DEF ToSet
    <3>. QED BY <3>1 DEF SoundFinding
  <2>. QED BY <2>1
<1>3. \A i \in 1..n :
        /\ each[i] \in Seq({Kill})
        /\ Len(each[i]) = IF Kill \in ToSet(findings[i].actions) THEN 1 ELSE 0
  BY <1>1, <1>2, AskingIs
<1>4. each \in [1..n -> Seq({Kill})] /\ ApprovalsFor(findings) = FlattenSeq(each)
  BY <1>1, <1>3 DEF ApprovalsFor
<1>. HIDE DEF each, n
<1>5. Holds(ApprovalsFor(findings), {Kill}, each, n) /\ DOMAIN each = 1..n
  BY <1>1, <1>4, FlattenProperties
<1>6. ASSUME NEW i \in 1..n
      PROVE  /\ Len(each[i]) \in {0, 1}
             /\ Len(each[i]) = 1 <=> Kill \in ToSet(findings[i].actions)
  <2>1. CASE Kill \in ToSet(findings[i].actions)
    <3>1. Len(each[i]) = 1
      BY <1>3, <2>1
    <3>. QED BY <2>1, <3>1
  <2>2. CASE Kill \notin ToSet(findings[i].actions)
    <3>1. Len(each[i]) = 0
      BY <1>3, <2>2
    <3>2. Len(each[i]) # 1
      BY <3>1
    <3>. QED BY <2>2, <3>1, <3>2
  <2>. QED BY <2>1, <2>2
<1>7. {i \in 1..n : Len(each[i]) = 1} = {i \in 1..n : Kill \in ToSet(findings[i].actions)}
  BY <1>6, Zenon
<1>8. Len(ApprovalsFor(findings)) = Cardinality({i \in 1..n : Len(each[i]) = 1})
  BY <1>5, <1>6, Zenon DEF Holds
<1>9. ApprovalsFor(findings) \in Seq({Kill})
  BY <1>5, Zenon DEF Holds
<1>. QED BY <1>1, <1>7, <1>8, <1>9, Zenon

\* sum is what Total computes for s.
Sums(sum, s, n) == sum = [i \in 0..n |-> IF i = 0 THEN 0 ELSE sum[i-1] + s[i]]

\* There is such a function for every length.
LEMMA SumExists ==
  ASSUME NEW s, NEW n \in Nat
  PROVE  \A m \in 0..n : \E sum : Sums(sum, s, m)
<1>. DEFINE Bad == {m \in 0..n : ~\E sum : Sums(sum, s, m)}
<1>1. SUFFICES ASSUME Bad # {} PROVE FALSE
  OBVIOUS
<1>2. PICK m \in Bad : \A k \in Bad : m <= k
  <2>1. Bad \in SUBSET Nat
    OBVIOUS
  <2>. HIDE DEF Bad
  <2>. QED BY <1>1, <2>1, Smallest
<1>3. m \in 0..n
  OBVIOUS
<1>4. CASE m = 0
  <2>1. Sums([i \in 0..0 |-> 0], s, 0)
    BY DEF Sums
  <2>. QED BY <2>1, <1>4, <1>2
<1>5. CASE m > 0
  <2>1. m - 1 \in 0..n /\ m - 1 \notin Bad
    <3>1. m - 1 \in 0..n /\ ~(m <= m - 1)
      BY <1>3, <1>5
    <3>. HIDE DEF Bad
    <3>. QED BY <1>2, <3>1
  <2>2. PICK sum : Sums(sum, s, m - 1)
    BY <2>1
  <2>. DEFINE longer == [i \in 0..m |-> IF i < m THEN sum[i] ELSE sum[m - 1] + s[m]]
  <2>3. ASSUME NEW i \in 0..m
        PROVE  longer[i] = IF i = 0 THEN 0 ELSE longer[i - 1] + s[i]
    <3>1. CASE i < m
      <4>1. i \in 0..(m - 1) /\ (i # 0 => i - 1 \in 0..m /\ i - 1 < m)
        BY <1>3, <3>1
      <4>2. sum[i] = IF i = 0 THEN 0 ELSE sum[i - 1] + s[i]
        BY <2>2, <4>1 DEF Sums
      <4>. QED BY <3>1, <4>1, <4>2
    <3>2. CASE i = m
      <4>1. m - 1 \in 0..m /\ m - 1 < m /\ ~(m < m) /\ m # 0 /\ m \in 0..m
        BY <1>3, <1>5
      <4>2. longer[m - 1] = sum[m - 1] /\ longer[m] = sum[m - 1] + s[m]
        BY <4>1
      <4>. HIDE DEF longer
      <4>. QED BY <3>2, <4>1, <4>2
    <3>. QED BY <3>1, <3>2, <1>3
  <2>4. Sums(longer, s, m)
    <3>1. longer = [i \in 0..m |-> longer[i]]
      OBVIOUS
    <3>. HIDE DEF longer
    <3>. QED BY <2>3, <3>1 DEF Sums
  <2>. QED BY <2>4, <1>2
<1>. QED BY <1>3, <1>4, <1>5

\* The total of natural numbers is one, so that thresholds can be compared with it.
LEMMA TotalIsNatural ==
  ASSUME NEW s \in Seq(Nat)
  PROVE  Total(s) \in Nat
<1>. DEFINE n == Len(s)
            sum == CHOOSE f : Sums(f, s, n)
<1>1. n \in Nat /\ \A i \in 1..n : s[i] \in Nat
  BY LenProperties, ElementOfSeq
<1>2. \E f : Sums(f, s, n)
  <2>1. n \in 0..n
    BY <1>1
  <2>. QED BY <1>1, <2>1, SumExists
<1>3. Sums(sum, s, n)
  BY <1>2
<1>4. Total(s) = sum[n]
  BY DEF Total, Sums
<1>. HIDE DEF sum, n
<1>5. \A m \in 0..n : sum[m] = IF m = 0 THEN 0 ELSE sum[m - 1] + s[m]
  BY <1>3 DEF Sums
<1>. DEFINE Bad == {m \in 0..n : sum[m] \notin Nat}
<1>6. ASSUME Bad # {} PROVE FALSE
  <2>1. Bad \in SUBSET Nat
    BY <1>1
  <2>2. PICK m \in Bad : \A k \in Bad : m <= k
    <3>. HIDE DEF Bad
    <3>. QED BY <1>6, <2>1, Smallest
  <2>3. m \in 0..n /\ sum[m] \notin Nat
    OBVIOUS
  <2>4. m # 0
    BY <1>5, <2>3
  <2>5. m - 1 \in 0..n /\ ~(m <= m - 1) /\ m \in 1..n
    BY <1>1, <2>3, <2>4
  <2>6. sum[m - 1] \in Nat
    BY <2>2, <2>5
  <2>7. sum[m] = sum[m - 1] + s[m]
    BY <1>5, <2>3, <2>4
  <2>8. s[m] \in Nat
    BY <1>1, <2>5
  <2>. HIDE DEF Bad
  <2>. QED BY <2>3, <2>6, <2>7, <2>8
<1>7. n \in 0..n
  BY <1>1
<1>. QED BY <1>4, <1>6, <1>7

\* What the prompt declares matched was measured, and has been found.
LEMMA MatchedWasFound ==
  ASSUME NEW m \in MachineType, NEW ok, NEW ran, NEW d, d = RunDetectors(Readings(m), ok),
         NEW r \in BuildRuledOut(Readings(m), ok, ran), r.matched
  PROVE  /\ RuledOutBy[r.condition] \in ok
         /\ r.condition = "cpu_saturation" => \E f \in ToSet(d.findings) : f.type = "cpu_saturation"
         /\ r.condition = "recent_oom" => \E f \in ToSet(d.findings) : f.type = "oom_event"
<1>. DEFINE h == Readings(m)
            o == Outcomes(h, ok)
            gpus == IF "get_gpu_snapshot" \in ok /\ h.gpu.available THEN ToSet(h.gpu.gpus) ELSE {}
            matched ==
              [cpu_saturation |-> h.cpu.overall >= 90,
               gpu_pressure |-> \E g \in gpus : g.util >= 90 \/ g.memory >= 90,
               recent_oom |-> "check_oom_events" \in ok /\ h.oom.events > 0]
<1>1. h.cpu.overall \in Int
  <2>1. m.cpu.perCpu \in Seq(Nat)
    BY DEF MachineType
  <2>2. Total(m.cpu.perCpu) \in Nat /\ Len(m.cpu.perCpu) \in Nat
    BY <2>1, TotalIsNatural, LenProperties
  <2>3. m.cpu.perCpu # << >> => Len(m.cpu.perCpu) > 0
    BY <2>1, <2>2, EmptySeq
  <2>4. h.cpu.overall = IF m.cpu.perCpu = << >> THEN 0
                        ELSE Total(m.cpu.perCpu) \div Len(m.cpu.perCpu)
    BY DEF Readings, GetCpuSnapshot
  <2>. HIDE DEF h
  <2>. QED BY <2>2, <2>3, <2>4
<1>2. PICK c \in DOMAIN matched :
        /\ RuledOutBy[c] \in IF c = "cpu_saturation" THEN ok ELSE ran
        /\ r = [condition |-> c, matched |-> matched[c]]
  <2>. HIDE DEF h
  <2>. QED BY DEF BuildRuledOut, h
<1>. HIDE DEF h
<1>3. r.condition = c /\ matched[c]
  BY <1>2
<1>4. c \in {"cpu_saturation", "gpu_pressure", "recent_oom"}
  BY <1>2
<1>5. \A i \in 1..9 : ToSet(o[i].findings) \subseteq ToSet(d.findings)
  BY DetectorsAreSound DEF h
<1>6. \A evidence, actions, confidence, type :
        \E f \in ToSet(Found(type, confidence, evidence, actions).findings) : f.type = type
  BY DEF Found, ToSet
<1>7. CASE c = "cpu_saturation"
  <2>1. "get_cpu_snapshot" \in ok /\ h.cpu.overall > 85
    <3>1. matched["cpu_saturation"] = (h.cpu.overall >= 90)
      BY Zenon
    <3>2. h.cpu.overall >= 90
      BY <1>3, <1>7, <3>1, Zenon
    <3>3. RuledOutBy["cpu_saturation"] = "get_cpu_snapshot"
      BY DEF RuledOutBy
    <3>4. "get_cpu_snapshot" \in ok
      BY <1>2, <1>7, <3>3, Zenon
    <3>. QED BY <1>1, <3>2, <3>4
  <2>2. \E evidence, actions, confidence :
          o[4] = Found("cpu_saturation", confidence, evidence, actions)
    <3>1. o[4] = DetectCpuSaturation(h, ok)
      BY DEF Outcomes
    <3>. HIDE DEF o
    <3>. QED BY <2>1, <3>1, Zenon DEF DetectCpuSaturation
  <2>3. \E f \in ToSet(o[4].findings) : f.type = "cpu_saturation"
    <3>1. PICK evidence, actions, confidence :
            o[4] = Found("cpu_saturation", confidence, evidence, actions)
      BY <2>2
    <3>. HIDE DEF o
    <3>. QED BY <3>1, <1>6
  <2>4. 4 \in 1..9 /\ RuledOutBy[c] = "get_cpu_snapshot" /\ r.condition # "recent_oom"
    BY <1>3, <1>7 DEF RuledOutBy
  <2>. HIDE DEF o
  <2>. QED BY <1>3, <1>5, <2>1, <2>3, <2>4, Zenon
<1>8. CASE c = "recent_oom"
  <2>1. "check_oom_events" \in ok /\ h.oom.events > 0
    <3>1. matched["recent_oom"] = ("check_oom_events" \in ok /\ h.oom.events > 0)
      BY Zenon
    <3>. QED BY <1>3, <1>8, <3>1, Zenon
  <2>2. \E evidence, actions, confidence :
          o[8] = Found("oom_event", confidence, evidence, actions)
    <3>1. o[8] = DetectOomEvent(h, ok)
      BY DEF Outcomes
    <3>. HIDE DEF o
    <3>. QED BY <2>1, <3>1, Zenon DEF DetectOomEvent
  <2>3. \E f \in ToSet(o[8].findings) : f.type = "oom_event"
    <3>1. PICK evidence, actions, confidence :
            o[8] = Found("oom_event", confidence, evidence, actions)
      BY <2>2
    <3>. HIDE DEF o
    <3>. QED BY <3>1, <1>6
  <2>4. 8 \in 1..9 /\ RuledOutBy[c] = "check_oom_events" /\ r.condition # "cpu_saturation"
    BY <1>3, <1>8 DEF RuledOutBy
  <2>. HIDE DEF o
  <2>. QED BY <1>3, <1>5, <2>1, <2>3, <2>4, Zenon
<1>9. CASE c = "gpu_pressure"
  <2>1. gpus # {}
    BY <1>3, <1>9
  <2>. QED BY <1>3, <1>9, <2>1 DEF RuledOutBy
<1>. QED BY <1>4, <1>7, <1>8, <1>9

\* A set of numbers up to n that is not empty has a largest member.
LEMMA Largest ==
  ASSUME NEW n \in Nat, NEW S \in SUBSET (1..n), S # {}
  PROVE  \E x \in S : \A y \in S : y <= x
<1>. DEFINE T == {n - x : x \in S}
<1>1. T \in SUBSET Nat /\ T # {}
  <2>1. \A x \in S : x \in 1..n /\ n - x \in Nat
    OBVIOUS
  <2>. QED BY <2>1
<1>2. PICK t \in T : \A u \in T : t <= u
  <2>. HIDE DEF T
  <2>. QED BY <1>1, Smallest
<1>3. PICK x \in S : t = n - x
  OBVIOUS
<1>4. ASSUME NEW y \in S PROVE y <= x
  <2>1. n - x <= n - y
    BY <1>2, <1>3
  <2>2. x \in 1..n /\ y \in 1..n
    OBVIOUS
  <2>. QED BY <2>1, <2>2
<1>. QED BY <1>4

\* The prompt names approvals of the run.
LEMMA PromptNamesApprovals ==
  ASSUME NEW h, NEW ok, NEW ran, NEW d, NEW S, NEW as \in Seq(S)
  PROVE  PromptApprovals(BuildReportContext(h, ok, ran, d, as)) \subseteq DOMAIN as
<1>. DEFINE findings == SelectKeyFindings(d.findings)
            own(action) == {i \in DOMAIN as : as[i].action = action}
            last(action) == IF own(action) = {} THEN 0
                            ELSE CHOOSE i \in own(action) : \A j \in own(action) : j <= i
<1>1. DOMAIN as = 1..Len(as) /\ Len(as) \in Nat
  BY LenProperties
<1>2. ASSUME NEW action PROVE last(action) \in DOMAIN as \cup {0}
  <2>1. CASE own(action) # {}
    <3>1. own(action) \in SUBSET (1..Len(as)) /\ own(action) \subseteq DOMAIN as
      BY <1>1
    <3>2. \E i \in own(action) : \A j \in own(action) : j <= i
      <4>. HIDE DEF own
      <4>. QED BY <1>1, <2>1, <3>1, Largest
    <3>. HIDE DEF own
    <3>. QED BY <2>1, <3>1, <3>2
  <2>2. CASE own(action) = {}
    <3>. HIDE DEF own
    <3>. QED BY <2>2
  <2>. QED BY <2>1, <2>2
<1>3. BuildReportContext(h, ok, ran, d, as).recommendations = BuildRecommendations(findings, as)
  BY DEF BuildReportContext
<1>4. ASSUME NEW r \in BuildRecommendations(findings, as)
      PROVE  \E action : r.approval = last(action)
  <2>1. PICK a : r = [action |-> a.action, reason |-> a.reason, approval |-> last(a.action)]
    <3>. HIDE DEF findings
    <3>. QED BY Zenon DEF BuildRecommendations
  <2>. HIDE DEF last
  <2>. QED BY <2>1
<1>. HIDE DEF last
<1>. QED BY <1>2, <1>3, <1>4 DEF PromptApprovals

-----------------------------------------------------------------------------
(* The outcome.                                                            *)

\* A text calls every approval pending where it first names it.
CallsPending(text) ==
  \A a \in DOMAIN approvals : a \in text.named /\ "pending" \in text.near[a]

\* A report calls every approval pending, and is the LLM's only if its prompt
\* had named exactly the approvals of the run.
GoodReport(r) ==
  /\ r.source \in ReportSource /\ r.status \in {"success", "fallback"}
  /\ CallsPending(r.text)
  /\ r.source = "llm" => PromptApprovals(Context) = DOMAIN approvals

\* Findings and approvals are those of the tools that ran, and the phases agree
\* with them.
OutcomeInv ==
  /\ machine \in Machine
  /\ phases \in [Phase -> TodoStatus] /\ approvalTodo \in TodoStatus
  /\ pc = "tools" => phases["planning"] = "completed"
  /\ IF pc \in {"reporting", "done"}
       THEN /\ exec = "none"
            /\ phases["planning"] = "completed" /\ phases["actions"] = "skipped"
            /\ phases["tools"] = ToolPhase
            /\ detected = RunDetectors(Readings(machine), Ok)
            /\ approvals = IF setup.service THEN ApprovalsFor(detected.findings) ELSE << >>
       ELSE approvals = << >>
  /\ IF pc = "done"
       THEN /\ phases["report"] = "completed"
            /\ phases["approval"] = IF approvals # << >> THEN "waiting_approval" ELSE "completed"
            /\ approvals # << >> => approvalTodo = "waiting_approval"
            /\ \A r \in report : GoodReport(r)
       ELSE report = {}

\* What is found, and what it asks for.
LEMMA OutcomeIsSound ==
  ASSUME OutcomeInv, pc \in {"reporting", "done"}
  PROVE  /\ detected.evidence \in Seq(Item(Ok))
         /\ detected.findings \in Seq(ToSet(detected.findings))
         /\ \A f \in ToSet(detected.findings) :
              SoundFinding(f, Ok) /\ ToSet(f.evidence) \subseteq ToSet(detected.evidence)
         /\ setup.service =>
              Len(approvals) = Cardinality({i \in DOMAIN detected.findings :
                                              Kill \in ToSet(detected.findings[i].actions)})
<1>1. machine \in MachineType /\ detected = RunDetectors(Readings(machine), Ok)
  BY AgentAssumption DEF OutcomeInv
<1>2. /\ detected.evidence \in Seq(Item(Ok))
      /\ detected.findings \in Seq(ToSet(detected.findings))
      /\ \A f \in ToSet(detected.findings) :
           SoundFinding(f, Ok) /\ ToSet(f.evidence) \subseteq ToSet(detected.evidence)
  BY <1>1, DetectorsAreSound
<1>3. setup.service => approvals = ApprovalsFor(detected.findings)
  BY DEF OutcomeInv
<1>. QED BY <1>2, <1>3, ApprovalsAre

\* Every approval is one to kill a process.
LEMMA ApprovalsAreTyped ==
  ASSUME OutcomeInv
  PROVE  approvals \in Seq({Kill})
<1>1. CASE pc \in {"reporting", "done"} /\ setup.service
  <2>1. approvals = ApprovalsFor(detected.findings)
    BY <1>1 DEF OutcomeInv
  <2>. QED BY <1>1, <2>1, OutcomeIsSound, ApprovalsAre
<1>2. CASE approvals = << >>
  BY <1>2
<1>. QED BY <1>1, <1>2 DEF OutcomeInv

\* The report that is written, the LLM's or the fixed one, tells of every approval.
LEMMA ReportIsGood ==
  ASSUME OutcomeInv, FinishReport
  PROVE  \E source, status, text :
           /\ Report(source, status, text)
           /\ source \in ReportSource /\ status \in {"success", "fallback"}
           /\ CallsPending(text)
           /\ source = "llm" => PromptApprovals(Context) = DOMAIN approvals
<1>1. CallsPending(FixedText)
  BY DEF FixedText, CallsPending
<1>2. ASSUME NEW status \in {"success", "fallback"}, Report("deterministic", status, FixedText)
      PROVE  \E source, st, text :
               /\ Report(source, st, text)
               /\ source \in ReportSource /\ st \in {"success", "fallback"}
               /\ CallsPending(text)
               /\ source = "llm" => PromptApprovals(Context) = DOMAIN approvals
  <2>1. "deterministic" \in ReportSource /\ "deterministic" # "llm"
    BY DEF ReportSource
  <2>. QED BY <1>1, <1>2, <2>1, Zenon
<1>3. ASSUME NEW text \in LlmText(PromptApprovals(Context)),
             Acceptable(text, DOMAIN approvals), Report("llm", "success", text)
      PROVE  CallsPending(text) /\ PromptApprovals(Context) = DOMAIN approvals
  <2>. DEFINE ids == PromptApprovals(Context)
  <2>1. ids \subseteq DOMAIN approvals
    BY ApprovalsAreTyped, PromptNamesApprovals DEF Context
  <2>. HIDE DEF ids
  <2>2. text.named \subseteq ids
    BY <1>3 DEF LlmText, ids
  <2>3. CallsPending(text)
    BY <1>3 DEF Acceptable, CallsPending
  <2>4. DOMAIN approvals \subseteq text.named
    BY <2>3 DEF CallsPending
  <2>5. ids = DOMAIN approvals
    BY <2>1, <2>2, <2>4
  <2>. QED BY <2>3, <2>5 DEF ids
<1>4. \/ Report("deterministic", "success", FixedText)
      \/ Report("deterministic", "fallback", FixedText)
      \/ \E text \in LlmText(PromptApprovals(Context)) :
           Acceptable(text, DOMAIN approvals) /\ Report("llm", "success", text)
  BY DEF FinishReport
<1>. QED BY <1>2, <1>3, <1>4, Zenon DEF ReportSource

\* What the prompt is made of.
LEMMA ContextStays ==
  ASSUME UNCHANGED <<machine, plan, toolTodos, detected, approvals>>
  PROVE  Context' = Context
<1>1. Ok' = Ok /\ Ran' = Ran
  BY DEF Ok, Ran
<1>2. Readings(machine)' = Readings(machine)
  OBVIOUS
<1>. QED BY <1>1, <1>2 DEF Context

\* One step of a diagnosis, for its outcome.
LEMMA OutcomeStepKeeps ==
  ASSUME ToolInv, RequestInv, OutcomeInv, [Next]_vars
  PROVE  OutcomeInv'
<1>1. UNCHANGED <<plan, toolTodos>> => Ok' = Ok /\ ToolPhase' = ToolPhase
  BY DEF Ok, ToolPhase
<1>2. CASE Start
  <2>1. /\ pc' \in {"planning", "tools"}
        /\ phases' \in {[phases EXCEPT !["planning"] = "running"],
                        [phases EXCEPT !["planning"] = "completed", !["tools"] = "running"]}
        /\ pc' = "tools" =>
             phases' = [phases EXCEPT !["planning"] = "completed", !["tools"] = "running"]
        /\ UNCHANGED <<machine, approvals, approvalTodo, report>> /\ pc = "start"
    BY <1>2 DEF Start, Adopt
  <2>. QED BY <2>1 DEF OutcomeInv, Phase, TodoStatus
<1>3. CASE PlannerAnswers
  <2>1. /\ pc' = "tools" /\ pc = "planning"
        /\ phases' = [phases EXCEPT !["planning"] = "completed", !["tools"] = "running"]
        /\ UNCHANGED <<machine, approvals, approvalTodo, report>>
    BY <1>3 DEF PlannerAnswers, Adopt
  <2>. QED BY <2>1 DEF OutcomeInv, Phase, TodoStatus
<1>4. CASE ToolStep \/ LateToolEnds
  <2>1. pc = "tools"
    BY <1>4 DEF ToolStep, ToolReturns, ToolRaises, ToolTimesOut, LateToolEnds, ToolInv
  <2>2. UNCHANGED <<machine, pc, phases, approvals, approvalTodo, report>>
    BY <1>4 DEF ToolStep, ToolReturns, ToolRaises, ToolTimesOut, LateToolEnds
  <2>. QED BY <2>1, <2>2 DEF OutcomeInv
<1>5. CASE Detect
  <2>1. UNCHANGED <<machine, setup, plan, toolTodos, exec, report>> /\ pc = "tools"
        /\ pc' = "reporting" /\ exec = "none"
    BY <1>5 DEF Detect
  <2>2. detected' = RunDetectors(Readings(machine), Ok)
    BY <1>5 DEF Detect
  <2>3. approvals' = IF setup.service THEN ApprovalsFor(detected'.findings) ELSE << >>
    BY <1>5 DEF Detect
  <2>4. approvalTodo' \in TodoStatus
    BY <1>5 DEF Detect, TodoStatus
  <2>5. ToolPhase \in TodoStatus
    BY DEF ToolPhase, TodoStatus
  <2>6. /\ phases' \in [Phase -> TodoStatus] /\ phases'["planning"] = "completed"
        /\ phases'["actions"] = "skipped" /\ phases'["tools"] = ToolPhase
    BY <1>5, <2>1, <2>5 DEF Detect, OutcomeInv, Phase, TodoStatus
  <2>7. detected' = RunDetectors(Readings(machine), Ok)' /\ Ok' = Ok /\ ToolPhase' = ToolPhase
    BY <1>1, <2>1, <2>2
  <2>. QED BY <2>1, <2>3, <2>4, <2>6, <2>7 DEF OutcomeInv
<1>6. CASE FinishReport
  <2>1. PICK source, status, text :
          /\ Report(source, status, text)
          /\ source \in ReportSource /\ status \in {"success", "fallback"}
          /\ CallsPending(text)
          /\ source = "llm" => PromptApprovals(Context) = DOMAIN approvals
    BY <1>6, ReportIsGood
  <2>2. /\ pc = "reporting" /\ pc' = "done"
        /\ UNCHANGED <<machine, setup, plan, toolTodos, exec, detected, approvals>>
    BY <1>6, <2>1 DEF FinishReport, Report
  <2>3. \A r \in report' : GoodReport(r)'
    <3>. DEFINE r == [source |-> source, status |-> status, text |-> text]
    <3>1. report' = {r}
      BY <2>1 DEF Report
    <3>2. Context' = Context /\ approvals' = approvals /\ CallsPending(text)' = CallsPending(text)
      BY <2>2, ContextStays DEF CallsPending
    <3>3. r.source = source /\ r.status = status /\ r.text = text
      OBVIOUS
    <3>. HIDE DEF r
    <3>4. GoodReport(r)'
      BY <2>1, <3>2, <3>3 DEF GoodReport
    <3>. QED BY <3>1, <3>4
  <2>4. /\ phases' = [phases EXCEPT !["report"] = "completed",
                        !["approval"] = IF approvals # << >> THEN "waiting_approval"
                                        ELSE "completed"]
        /\ approvalTodo' = IF approvals # << >> THEN "waiting_approval" ELSE approvalTodo
    BY <2>1 DEF Report
  <2>5. /\ phases' \in [Phase -> TodoStatus] /\ approvalTodo' \in TodoStatus
        /\ phases'["planning"] = phases["planning"] /\ phases'["actions"] = phases["actions"]
        /\ phases'["tools"] = phases["tools"] /\ phases'["report"] = "completed"
        /\ phases'["approval"] = IF approvals # << >> THEN "waiting_approval" ELSE "completed"
    BY <2>4 DEF OutcomeInv, Phase, TodoStatus
  <2>6. detected' = RunDetectors(Readings(machine), Ok)' /\ ToolPhase' = ToolPhase
    BY <1>1, <2>2 DEF OutcomeInv
  <2>. QED BY <2>2, <2>3, <2>4, <2>5, <2>6 DEF OutcomeInv
<1>7. CASE UNCHANGED agentVars
  <2>1. UNCHANGED <<machine, setup, pc, plan, toolTodos, exec, phases, detected, approvals,
                    approvalTodo, report>>
    BY <1>7 DEF agentVars
  <2>2. Ok' = Ok /\ ToolPhase' = ToolPhase /\ \A r : GoodReport(r)' = GoodReport(r)
    BY <1>1, <2>1, ContextStays DEF GoodReport, CallsPending
  <2>. QED BY <2>1, <2>2 DEF OutcomeInv
<1>. QED BY <1>2, <1>3, <1>4, <1>5, <1>6, <1>7 DEF Next, AgentStep, vars

-----------------------------------------------------------------------------
(* The invariant of a diagnosis, and what follows from it.                 *)

\* The inductive invariant.
AgentInv == ToolInv /\ RequestInv /\ ShownInv /\ OutcomeInv

\* The invariant holds before a diagnosis starts.
LEMMA InitialAgentInv ==
  ASSUME Init
  PROVE  AgentInv
<1>. USE AgentAssumption, ClientAssumption DEF Init, ClientInit
<1>1. ToolInv
  BY DEF ToolInv
<1>2. RequestInv
  <2>1. streams \in BOOLEAN /\ yielded \in BOOLEAN
    BY Zenon
  <2>2. /\ stage = "idle" /\ attempt \in 0..MaxRetries /\ sent = 0 /\ setup \in Setup
        /\ shown \in Seq(0..MaxRetries) /\ Len(shown) <= MaxChunks /\ pc = "start"
    OBVIOUS
  <2>. QED BY <2>1, <2>2 DEF RequestInv, ClientTypeOK
<1>3. ShownInv
  BY DEF ShownInv, ShownTextIsOneAnswer
<1>4. OutcomeInv
  BY DEF OutcomeInv, Phase, TodoStatus
<1>. QED BY <1>1, <1>2, <1>3, <1>4 DEF AgentInv

\* The invariant holds of every diagnosis: of its plan and tools, its requests,
\* what its client shows and what comes of it.
THEOREM AgentInvariant == Spec => []AgentInv
<1>1. AgentInv /\ [Next]_vars => AgentInv'
  BY ToolStepKeeps, RequestStepKeeps, OutcomeStepKeeps DEF AgentInv
<1>. QED BY <1>1, InitialAgentInv, PTL DEF Spec

\* Every variable has its type: what the planner, the tools, the client and the
\* report leave behind.
THEOREM AgentTypeCorrect == Spec => []AgentTypeOK
<1>1. AgentInv => AgentTypeOK
  <2>1. SUFFICES ASSUME AgentInv PROVE AgentTypeOK
    OBVIOUS
  <2>2. plan.source \in {"none", "deterministic", "llm", "fallback"}
    BY <2>1 DEF AgentInv, ToolInv, GoodPlan
  <2>3. \A r \in report : r.source \in ReportSource /\ r.status \in {"success", "fallback"}
    BY <2>1 DEF AgentInv, OutcomeInv, GoodReport
  <2>4. approvals \in Seq({Kill})
    BY <2>1, ApprovalsAreTyped DEF AgentInv
  <2>. QED BY <2>1, <2>2, <2>3, <2>4 DEF AgentInv, ToolInv, RequestInv, OutcomeInv, AgentTypeOK
<1>. QED BY <1>1, AgentInvariant, PTL

\* The tools that a diagnosis starts are safe, fit, at most eight and each once,
\* and within the scope of the request when the LLM has chosen them.
THEOREM ValidPlansRun == Spec => []OnlyValidPlansRun
<1>1. AgentInv => OnlyValidPlansRun
  <2>. DEFINE started == {i \in DOMAIN toolTodos : toolTodos[i] # "pending"}
              n == Len(plan.steps)
  <2>1. SUFFICES ASSUME AgentInv PROVE OnlyValidPlansRun
    OBVIOUS
  <2>2. DOMAIN toolTodos = 1..n /\ n \in 0..MaxSteps
    <3>1. toolTodos \in Seq(TodoStatus) /\ Len(toolTodos) = n
      BY <2>1 DEF AgentInv, ToolInv
    <3>2. n = 0 \/ n \in 1..MaxSteps
      BY <2>1 DEF AgentInv, ToolInv, GoodPlan, Valid
    <3>. QED BY <3>1, <3>2, LenProperties DEF MaxSteps
  <2>3. Cardinality(started) <= MaxSteps
    <3>1. IsFiniteSet(1..n) /\ Cardinality(1..n) = n
      BY <2>2, FS_Interval DEF MaxSteps
    <3>2. started \subseteq 1..n
      BY <2>2
    <3>. HIDE DEF started, n
    <3>3. IsFiniteSet(started) /\ Cardinality(started) <= Cardinality(1..n)
      BY <3>1, <3>2, FS_Subset
    <3>4. Cardinality(started) \in Nat
      BY <3>3, FS_CardinalityType
    <3>. QED BY <2>2, <3>1, <3>3, <3>4 DEF MaxSteps
  <2>4. ASSUME NEW i \in started
        PROVE  /\ plan.steps[i].tool \in SafeTool /\ plan.steps[i].fits
               /\ plan.source = "llm" /\ Requested \notin {"mixed", "unknown"} =>
                    Requested \in ResourceTypes(plan.steps[i].tool)
               /\ \A j \in started : plan.steps[i].tool = plan.steps[j].tool => i = j
    <3>1. i \in 1..n /\ started \subseteq 1..n
      BY <2>2
    <3>2. GoodPlan(plan)
      <4>1. n # 0
        BY <2>2, <3>1
      <4>2. Len(<< >>) = 0
        OBVIOUS
      <4>. QED BY <2>1, <4>1, <4>2 DEF AgentInv, ToolInv
    <3>3. DOMAIN plan.steps = 1..n
      BY <3>2, LenProperties DEF GoodPlan
    <3>4. /\ plan.steps[i].tool \in SafeTool /\ plan.steps[i].fits
          /\ \A j \in 1..n : plan.steps[i].tool = plan.steps[j].tool => i = j
      BY <3>1, <3>2, <3>3 DEF GoodPlan, Valid
    <3>5. plan.source = "llm" /\ Requested \notin {"mixed", "unknown"} =>
            Requested \in ResourceTypes(plan.steps[i].tool)
      BY <3>1, <3>2, <3>3, <3>4 DEF GoodPlan, InScope, Tool
    <3>. QED BY <3>1, <3>4, <3>5
  <2>. QED BY <2>3, <2>4 DEF OnlyValidPlansRun
<1>. QED BY <1>1, AgentInvariant, PTL

\* A finding rests on evidence of its run, and that on tools that did not fail.
THEOREM FindingsTraced == Spec => []FindingsAreTraceable
<1>1. AgentInv => FindingsAreTraceable
  <2>1. SUFFICES ASSUME AgentInv, pc \in {"reporting", "done"}, NEW i \in DOMAIN detected.findings
                 PROVE  LET own == ToSet(detected.findings[i].evidence)
                        IN /\ own # {}
                           /\ own \subseteq ToSet(detected.evidence)
                           /\ \A e \in own : e.source \in Ok
    BY DEF FindingsAreTraceable
  <2>2. detected.findings[i] \in ToSet(detected.findings)
    BY DEF ToSet
  <2>. DEFINE f == detected.findings[i]
  <2>3. SoundFinding(f, Ok) /\ ToSet(f.evidence) \subseteq ToSet(detected.evidence)
    BY <2>1, <2>2, OutcomeIsSound DEF AgentInv
  <2>. HIDE DEF f
  <2>4. f.evidence \in Seq(Item(Ok)) /\ f.evidence # << >>
    BY <2>3 DEF SoundFinding
  <2>5. DOMAIN f.evidence = 1..Len(f.evidence) /\ Len(f.evidence) \in Nat /\ Len(f.evidence) # 0
    BY <2>4, LenProperties, EmptySeq
  <2>6. \A k \in DOMAIN f.evidence : f.evidence[k] \in Item(Ok)
    BY <2>4, <2>5, ElementOfSeq
  <2>7. 1 \in DOMAIN f.evidence
    BY <2>5
  <2>8. \A k \in DOMAIN f.evidence : f.evidence[k].source \in Ok
    BY <2>6 DEF Item
  <2>9. /\ ToSet(f.evidence) # {}
        /\ \A e \in ToSet(f.evidence) : e.source \in Ok
    BY <2>7, <2>8, Zenon DEF ToSet
  <2>. QED BY <2>3, <2>9 DEF f
<1>. QED BY <1>1, AgentInvariant, PTL

\* The plan tree of a finished diagnosis is settled.
THEOREM PlanTreeSettled == Spec => []PlanTreeSettles
<1>1. AgentInv => PlanTreeSettles
  <2>1. SUFFICES ASSUME AgentInv, pc = "done"
                 PROVE  /\ \A p \in Phase : phases[p] \notin {"pending", "running"}
                        /\ \A i \in DOMAIN toolTodos : toolTodos[i] \in {"completed", "failed"}
                        /\ phases["tools"] = "failed" <=>
                             \E i \in DOMAIN toolTodos : toolTodos[i] = "failed"
                        /\ phases["approval"] = "waiting_approval" <=> approvals # << >>
                        /\ approvals # << >> => approvalTodo = "waiting_approval"
    BY DEF PlanTreeSettles
  <2>2. /\ phases["planning"] = "completed" /\ phases["actions"] = "skipped"
        /\ phases["tools"] = ToolPhase /\ phases["report"] = "completed" /\ exec = "none"
        /\ phases["approval"] = IF approvals # << >> THEN "waiting_approval" ELSE "completed"
        /\ approvals # << >> => approvalTodo = "waiting_approval"
    BY <2>1 DEF AgentInv, OutcomeInv
  <2>3. \A i \in DOMAIN toolTodos : toolTodos[i] \in {"completed", "failed"}
    BY <2>1, <2>2 DEF AgentInv, ToolInv, Settled
  <2>. QED BY <2>2, <2>3 DEF ToolPhase, Phase
<1>. QED BY <1>1, AgentInvariant, PTL

\* The report of a diagnosis calls every approval pending where it first names
\* it, is the LLM's only if its prompt had named them all, and there is an
\* approval for every finding that recommends something destructive.
THEOREM ApprovalsReported == Spec => []EveryApprovalIsReported
<1>1. AgentInv => EveryApprovalIsReported
  BY OutcomeIsSound DEF AgentInv, EveryApprovalIsReported, OutcomeInv, GoodReport, CallsPending
<1>. QED BY <1>1, AgentInvariant, PTL

\* What the prompt declares matched was measured, and is a finding of the run.
THEOREM MatchedFound == Spec => []MatchedIsFound
<1>1. AgentInv => MatchedIsFound
  <2>1. SUFFICES ASSUME AgentInv, pc = "reporting", NEW r \in Context.ruledOut, r.matched
                 PROVE  LET found == {detected.findings[i].type : i \in DOMAIN detected.findings}
                        IN /\ RuledOutBy[r.condition] \in Ok
                           /\ r.condition = "cpu_saturation" => "cpu_saturation" \in found
                           /\ r.condition = "recent_oom" => "oom_event" \in found
    BY DEF MatchedIsFound
  <2>2. machine \in MachineType /\ detected = RunDetectors(Readings(machine), Ok)
    BY <2>1, AgentAssumption DEF AgentInv, OutcomeInv
  <2>3. r \in BuildRuledOut(Readings(machine), Ok, Ran)
    BY <2>1 DEF Context, BuildReportContext
  <2>4. /\ RuledOutBy[r.condition] \in Ok
        /\ r.condition = "cpu_saturation" =>
             \E f \in ToSet(detected.findings) : f.type = "cpu_saturation"
        /\ r.condition = "recent_oom" =>
             \E f \in ToSet(detected.findings) : f.type = "oom_event"
    BY <2>1, <2>2, <2>3, MatchedWasFound
  <2>. QED BY <2>4, Zenon DEF ToSet
<1>. QED BY <1>1, AgentInvariant, PTL

\* A diagnosis sends no more requests than its calls may be tried.
THEOREM RequestsBounded == Spec => []RequestsAreBounded
<1>1. AgentInv => RequestsAreBounded
  <2>1. SUFFICES ASSUME AgentInv PROVE RequestsAreBounded
    OBVIOUS
  <2>. DEFINE most == MaxRetries + 1
              calls == (IF setup.llmPlanner THEN 1 ELSE 0) + (IF setup.llmReport THEN 1 ELSE 0)
  <2>2. most \in Nat /\ most * 0 = 0 /\ most * 1 = most /\ most * 2 = most + most
    BY ClientAssumption
  <2>3. /\ sent \in Nat /\ attempt \in 0..MaxRetries /\ Posted <= most /\ Posted \in Nat
    BY <2>1, ClientAssumption DEF AgentInv, RequestInv, ClientTypeOK, Posted
  <2>4. /\ pc = "start" => sent = 0
        /\ pc = "planning" => PlannerCalls /\ sent <= most
        /\ pc = "tools" => sent <= Earlier
        /\ pc \in {"reporting", "done"} =>
             IF ReportCalls THEN sent <= Earlier + most ELSE sent <= Earlier
        /\ pc \in {"start", "planning", "tools", "reporting", "done"}
    BY <2>1, <2>3, ClientAssumption DEF AgentInv, RequestInv, Earlier
  <2>. HIDE DEF most
  <2>5. CASE setup.client
    <3>1. sent <= most * calls
      <4>1. CASE setup.llmPlanner /\ setup.llmReport
        <5>1. calls = 2
          BY <4>1
        <5>. HIDE DEF calls
        <5>. QED BY <2>2, <2>3, <2>4, <4>1, <5>1 DEF Earlier, PlannerCalls, ReportCalls, most
      <4>2. CASE ~setup.llmPlanner /\ ~setup.llmReport
        <5>1. calls = 0
          BY <4>2
        <5>. HIDE DEF calls
        <5>. QED BY <2>2, <2>3, <2>4, <4>2, <5>1 DEF Earlier, PlannerCalls, ReportCalls
      <4>3. CASE ~(setup.llmPlanner <=> setup.llmReport)
        <5>1. calls = 1
          BY <4>3
        <5>. HIDE DEF calls
        <5>. QED BY <2>2, <2>3, <2>4, <4>3, <5>1 DEF Earlier, PlannerCalls, ReportCalls, most
      <4>. QED BY <4>1, <4>2, <4>3
    <3>. QED BY <2>5, <3>1 DEF RequestsAreBounded, most
  <2>6. CASE ~setup.client
    <3>1. sent <= 0
      BY <2>3, <2>4, <2>6 DEF Earlier, PlannerCalls, ReportCalls
    <3>. QED BY <2>6, <3>1 DEF RequestsAreBounded
  <2>. QED BY <2>5, <2>6
<1>. QED BY <1>1, AgentInvariant, PTL

\* What a stream shows is of one attempt.
THEOREM OneAnswerShown == Spec => []ShownTextIsOneAnswer
BY AgentInvariant, PTL DEF AgentInv, ShownInv
=============================================================================
