---------------------------- MODULE AttackChains ----------------------------
(***************************************************************************)
(* The analysis of an attack chain: attack units, supplied by an analyst   *)
(* or extracted from a report, are diagnosed, compiled into ground rules   *)
(* and chained forward from the initial facts; then the proofs of the goal *)
(* are rebuilt backwards.  The stored units can be reasoned about again,   *)
(* from other facts and to another goal.                                   *)
(*                                                                         *)
(* A unit that belongs to one option of a branch excludes the units of the *)
(* other options, so a fact is derived in a context: the set of options    *)
(* that its derivation chose.  The rebuilding is a recursive function with *)
(* a memo; here its calls are explicit: a stack of the facts that are      *)
(* being proved, each with what its loops have done so far.                *)
(***************************************************************************)
EXTENDS AttackExtraction

CONSTANTS
    Universe,       \* attack units an analyst may supply, none without effect
    Behaviours,     \* steps a report may describe
    InitialSets,    \* sets of initial facts
    Goals,          \* goals that are asked for
    MaxUnits,       \* bound on the units an analyst supplies
    MaxSteps        \* bound on the steps of a report

NoGoal == <<"no goal">>

VARIABLES
    units,          \* the units in the order of their sequence
    steps,          \* the behaviours extracted from the report
    initial,        \* the initial facts
    goal,           \* the goal asked for
    phase,          \* extracting, chaining or proving
    contexts,       \* contexts in which each fact was derived
    derivations,    \* rules of each fact, in the order of their first firing
    at,             \* rule the pass has come to: a unit and one of its effects
    changed,        \* the pass has found a context
    stack,          \* facts that are being proved
    memo            \* proofs of the facts that were proved

input == <<units, steps, initial, goal>>
forward == <<contexts, derivations, at, changed>>
backward == <<stack, memo>>
vars == <<input, phase, forward, backward>>

-----------------------------------------------------------------------------
(* Rules *)

(* compile_rules: one rule for each postcondition of a unit.               *)
Effects(u) == ToSet(u.post)
Rule(place) == [unit |-> place[1], head |-> units[place[1]].post[place[2]]]
First == <<1, 1>>
After(place) ==
    IF place[2] < Len(units[place[1]].post) THEN <<place[1], place[2] + 1>>
    ELSE <<place[1] + 1, 1>>
Body(rule) == units[rule.unit].pre

(* _merge_choices: a context is a set of options, at most one of a group.  *)
(* Mutant: the options of a rule's premises are not compared.              *)
AnyChoices(c) == TRUE

Compatible(c) == \A m, n \in c : m.group = n.group => m = n

Init ==
    /\ units = <<>> /\ steps = <<>>
    /\ initial = {} /\ goal = NoGoal
    /\ phase = "extracting"
    /\ contexts = <<>> /\ derivations = <<>>
    /\ at = First /\ changed = FALSE
    /\ stack = <<>> /\ memo = <<>>

(* The next of the units an analyst supplies.                              *)
Supply(u) ==
    /\ phase = "extracting" /\ steps = <<>>
    /\ Len(units) < MaxUnits
    /\ units' = Append(units, u)
    /\ UNCHANGED <<steps, initial, goal, phase, forward, backward>>

(* The next behaviour of the report.                                       *)
Recognise(step) ==
    /\ phase = "extracting" /\ units = <<>>
    /\ Len(steps) < MaxSteps
    /\ steps' = Append(steps, step)
    /\ UNCHANGED <<units, initial, goal, phase, forward, backward>>

(* reason: chaining starts from the initial facts.                         *)
Start(us, facts, g) ==
    LET all == facts \cup UNION {u.pre \cup Effects(u) : u \in ToSet(us)}
    IN  /\ phase' = "chaining"
        /\ initial' = facts /\ goal' = g
        /\ contexts' = [f \in all |-> IF f \in facts THEN {{}} ELSE {}]
        /\ derivations' = [f \in all |-> <<>>]
        /\ at' = First /\ changed' = FALSE
        /\ stack' = <<>> /\ memo' = <<>>

(* analyze: without a goal, it is the last effect of the last unit.        *)
Analyze(facts, g) ==
    LET us == IF steps = <<>> THEN units ELSE UnitsOf(steps)
    IN  /\ phase = "extracting"
        /\ us # <<>>
        /\ units' = us
        /\ Start(us, facts, IF g = NoGoal THEN Last(Last(us).post) ELSE g)
        /\ UNCHANGED steps

Reasoned == phase = "proving" /\ stack = <<>>

(* reason_again: the stored units, other facts and another goal.           *)
ReasonAgain(facts, g) ==
    /\ Reasoned
    /\ Start(units, facts, g)
    /\ UNCHANGED <<units, steps>>

-----------------------------------------------------------------------------
(* Forward chaining *)

(* Mutant: premises that are not known yet are skipped.                    *)
FiringsOfKnown(rule, ctx) ==
    LET known == {f \in Body(rule) : ctx[f] # {}}
    IN  {c \in {units[rule.unit].branch \cup UNION {pick[f] : f \in known} :
                  pick \in {p \in [known -> UNION {ctx[f] : f \in known}] :
                              \A f \in known : p[f] \in ctx[f]}} :
            Compatible(c)}

(* The contexts in which a rule fires: its own option with one context of  *)
(* each premise.                                                           *)
Firings(rule, ctx) ==
    {c \in {units[rule.unit].branch \cup UNION {pick[f] : f \in Body(rule)} :
              pick \in {p \in [Body(rule) -> UNION {ctx[f] : f \in Body(rule)}] :
                          \A f \in Body(rule) : p[f] \in ctx[f]}} :
        Compatible(c)}

(* One rule of a pass, over what the pass has done so far.                 *)
FireRule ==
    /\ phase = "chaining" /\ at[1] <= Len(units)
    /\ LET rule == Rule(at)
           new == Firings(rule, contexts)
       IN  /\ contexts' = [contexts EXCEPT ![rule.head] = @ \cup new]
           /\ changed' = (changed \/ ~(new \subseteq contexts[rule.head]))
           /\ derivations' =
                 IF new = {} \/ rule \in ToSet(derivations[rule.head]) THEN derivations
                 ELSE [derivations EXCEPT ![rule.head] = Append(@, rule)]
    /\ at' = After(at)
    /\ UNCHANGED <<input, phase, backward>>

Known == {f \in DOMAIN contexts : contexts[f] # {}}

-----------------------------------------------------------------------------
(* Backward proofs *)

(* A proof: the units it uses and the options they belong to.              *)
Axiom == [units |-> {}, choices |-> {}]
Leaf(rule) == [units |-> {rule.unit}, choices |-> units[rule.unit].branch]
Joined(ps, qs) ==
    {[units |-> p.units \cup q.units, choices |-> p.choices \cup q.choices] : p \in ps, q \in qs}

(* A call of prove: its fact, the rules it has still to try, the premises  *)
(* of the first of them that it has still to prove, the ways in which the  *)
(* others can be proved together, and the proofs it has found.             *)
Frame(f, rules, proofs) ==
    [fact |-> f, rules |-> rules, proofs |-> proofs,
     left |-> IF rules = <<>> THEN {} ELSE Body(Head(rules)),
     partial |-> IF rules = <<>> THEN {} ELSE {Leaf(Head(rules))}]

Top == stack[Len(stack)]
OnStack(f) == \E k \in DOMAIN stack : stack[k].fact = f

(* Without a new context the pass was the last one, and a known goal is    *)
(* proved; an initial one is at once.                                      *)
EndPass ==
    /\ phase = "chaining" /\ at[1] > Len(units)
    /\ at' = First /\ changed' = FALSE
    /\ \/ changed /\ UNCHANGED <<phase, stack>>
       \/ /\ ~changed /\ phase' = "proving"
          /\ stack' = IF goal \in Known \ initial THEN <<Frame(goal, derivations[goal], {})>>
                      ELSE <<>>
    /\ UNCHANGED <<input, contexts, derivations, memo>>

(* A premise is an initial fact, is being proved already or was proved.    *)
Answered(f) == f \in initial \/ OnStack(f) \/ f \in DOMAIN memo
Answer(f) ==
    IF f \in initial THEN {Axiom} ELSE IF OnStack(f) THEN {} ELSE memo[f]

Resolve(f) ==
    /\ f \in Top.left /\ Answered(f)
    /\ stack' = [stack EXCEPT ![Len(stack)] =
                    [Top EXCEPT !.left = @ \ {f}, !.partial = Joined(@, Answer(f))]]
    /\ UNCHANGED memo

(* Another premise is proved first.                                        *)
Call(f) ==
    /\ f \in Top.left /\ ~Answered(f)
    /\ stack' = Append(stack, Frame(f, derivations[f], {}))
    /\ UNCHANGED memo

(* All premises of a rule are answered.                                    *)
FinishRule ==
    /\ Top.rules # <<>> /\ Top.left = {}
    /\ stack' = [stack EXCEPT ![Len(stack)] =
                    Frame(Top.fact, Tail(Top.rules),
                          Top.proofs \cup {p \in Top.partial : Compatible(p.choices)})]
    /\ UNCHANGED memo

(* All rules are tried, and the proofs are remembered.                     *)
Return ==
    /\ Top.rules = <<>>
    /\ memo' = [f \in DOMAIN memo \cup {Top.fact} |->
                  IF f = Top.fact THEN Top.proofs ELSE memo[f]]
    /\ stack' = SubSeq(stack, 1, Len(stack) - 1)

Prove ==
    /\ phase = "proving" /\ stack # <<>>
    /\ \/ \E f \in Top.left : Resolve(f) \/ Call(f)
       \/ FinishRule
       \/ Return
    /\ UNCHANGED <<input, phase, forward>>

Next ==
    \/ \E u \in Universe : Supply(u)
    \/ \E step \in Behaviours : Recognise(step)
    \/ \E facts \in InitialSets, g \in Goals \cup {NoGoal} : Analyze(facts, g)
    \/ \E facts \in InitialSets, g \in Goals : ReasonAgain(facts, g)
    \/ FireRule
    \/ EndPass
    \/ Prove

Spec == Init /\ [][Next]_vars

(* The paths that are reported: the proofs of the goal.                    *)
Paths ==
    IF goal \notin Known THEN {} ELSE IF goal \in initial THEN {Axiom} ELSE memo[goal]
Reachable == Paths # {}

-----------------------------------------------------------------------------
(* Diagnosis *)

ProducersOf(f) == {i \in DOMAIN units : f \in Effects(units[i])}
(* Facts a unit can rely on: initial ones and effects of earlier units.    *)
(* Mutant: the order of the units is ignored.                              *)
ProducedAnywhere(i) == initial \cup UNION {Effects(units[j]) : j \in DOMAIN units}

ProducedBefore(i) == initial \cup UNION {Effects(units[j]) : j \in 1..(i - 1)}

FutureDependency(i) ==
    \E f \in units[i].pre : f \notin ProducedBefore(i) /\ \E j \in ProducersOf(f) : j >= i
Unsupported(i) ==
    \E f \in units[i].pre : f \notin ProducedBefore(i) /\ ~\E j \in ProducersOf(f) : j >= i

(* Alternative branches are merged when no choice of one earlier producer  *)
(* for each premise is consistent.                                         *)
BranchMerge(i) ==
    LET needed == {f \in units[i].pre : f \notin initial /\ \E j \in ProducersOf(f) : j < i}
    IN  /\ needed # {}
        /\ ~\E pick \in [needed -> DOMAIN units] :
              /\ \A f \in needed : pick[f] \in ProducersOf(f) /\ pick[f] < i
              /\ Compatible(UNION {units[pick[f]].branch : f \in needed})

DependencyIssue == \E i \in DOMAIN units : FutureDependency(i) \/ Unsupported(i) \/ BranchMerge(i)

-----------------------------------------------------------------------------
(* Properties *)

(* What follows from facts when only some units happen: the least set that *)
(* contains the facts, and with what a unit requires what it brings about. *)
ClosedUnder(us, happening, known) ==
    \A i \in happening : us[i].pre \subseteq known => Effects(us[i]) \subseteq known
Follows(us, facts, happening) ==
    LET produced == UNION {Effects(us[i]) : i \in happening}
    IN  {f \in facts \cup produced :
            \A made \in SUBSET produced :
                ClosedUnder(us, happening, facts \cup made) => f \in facts \cup made}

(* A consistent choice takes one option of each group.                     *)
Options == UNION {units[i].branch : i \in DOMAIN units}
Selections ==
    {s \in SUBSET Options :
        \A o \in Options : \E m \in s : {n \in s : n.group = o.group} = {m}}
Consequences(s) ==
    Follows(units, initial, {i \in DOMAIN units : units[i].branch \subseteq s})
Derivable == UNION {Consequences(s) : s \in Selections}

(* Forward chaining derives exactly what some consistent choice of options *)
(* brings about, whatever the order of the rules.                          *)
ForwardIsExact == Reasoned => Known = Derivable

(* A reported path stands alone: its units, without any other, bring about *)
(* the goal, and they belong to one option of each of their groups.        *)
PathsStandAlone ==
    Reasoned => \A p \in Paths :
        /\ p.choices = UNION {units[i].branch : i \in p.units}
        /\ \A m, n \in p.choices : m.group = n.group => m = n
        /\ goal \in Follows(units, initial, p.units)

(* Without branches, a diagnosis that finds no dependency issue means that *)
(* every unit can happen.                                                  *)
CleanChainHappens ==
    Reasoned /\ Options = {} /\ ~DependencyIssue =>
        \A i \in DOMAIN units : units[i].pre \subseteq Known

(* A report's own chain is never wrongly called unreachable: what the      *)
(* extraction describes has no cycle, so the proofs that are remembered    *)
(* while a fact is on the stack are complete and the goal has a path when  *)
(* chaining derives it.                                                    *)
ReportReachable == Reasoned /\ steps # <<>> => (Reachable <=> goal \in Known)

(* docs/reachable-attack-chains.md:12: "Forward chaining answers whether a *)
(* requested security state is reachable."  It is answered by the proofs.  *)
ReachableIsDerivable == Reasoned => (Reachable <=> goal \in Known)
=============================================================================
