-------------------------- MODULE AttackExtraction --------------------------
(***************************************************************************)
(* The rule-based extraction backend: what the behaviours it recognises in *)
(* a report require and bring about.  A step is a behaviour class and the  *)
(* object the sentence names, the generic one when it names none.  An atom *)
(* is a predicate of the vocabulary and its object; hosts, the attacker    *)
(* and protocols are the same throughout a report and are left out.        *)
(***************************************************************************)
EXTENDS Integers, Sequences, SequencesExt, FiniteSets

CONSTANT Generic        \* "payload", "reported_vulnerability"

(* extract_local_conditions: what a class requires and brings about.       *)
Running(o) == <<"process.running", o>>
Present(o) == <<"file.present", o>>
Delivered(o) == <<"file.delivered", o>>
Opened(o) == <<"user.opened", o>>
Executing == <<"privilege.code_execution", Generic>>
Obtained == <<"credential.obtained", Generic>>
Collected == <<"data.collected", Generic>>
Channel == <<"data.c2_channel", Generic>>
Conditions(o) ==
    [delivery |-> [pre |-> {}, post |-> <<Delivered(o), Present(o)>>],
     user_action |-> [pre |-> {Delivered(o)}, post |-> <<Opened(o)>>],
     download |-> [pre |-> {<<"network.reachable", "remote_server">>}, post |-> <<Present(o)>>],
     exploitation |-> [pre |-> {<<"host.vuln_present", o>>}, post |-> <<Executing>>],
     execute |-> [pre |-> {Present(o)}, post |-> <<Running(o)>>],
     persistence |-> [pre |-> {Executing}, post |-> <<<<"persistence.established", Generic>>>>],
     privilege_escalation |-> [pre |-> {Executing}, post |-> <<<<"privilege.level", Generic>>>>],
     defense_evasion |-> [pre |-> {Running(Generic)}, post |-> <<<<"defense.disabled", Generic>>>>],
     credential_access |-> [pre |-> {Executing}, post |-> <<Obtained>>],
     discovery |-> [pre |-> {Executing}, post |-> <<<<"host.discovered", Generic>>>>],
     lateral_movement |-> [pre |-> {Obtained, <<"network.reachable", "lateral_host">>},
                           post |-> <<<<"host.access", Generic>>>>],
     collection |-> [pre |-> {Executing}, post |-> <<Collected>>],
     communication |-> [pre |-> {Running(Generic)}, post |-> <<Channel>>],
     exfiltration |-> [pre |-> {Collected, Channel}, post |-> <<<<"data.exfiltrated", Generic>>>>],
     impact |-> [pre |-> {Executing}, post |-> <<<<"host.impacted", Generic>>>>],
     other |-> [pre |-> {}, post |-> <<<<"host.state_changed", o>>>>]]
Local(step) == Conditions(step.object)[step.class]

(* _latest_postcondition: the effect of the last earlier step of a class.  *)
Latest(steps, i, class) ==
    LET of == {j \in 1..(i - 1) : steps[j].class = class}
    IN  CHOOSE j \in of : \A k \in of : k <= j
Prior(steps, i, class, predicate) ==
    IF ~\E j \in 1..(i - 1) : steps[j].class = class THEN {}
    ELSE {f \in ToSet(Local(steps[Latest(steps, i, class)]).post) : f[1] = predicate}

(* extract_global_conditions: the object of a class's dependency is the    *)
(* one that the report introduced.                                         *)
Dependency ==
    [exploitation |-> <<"user_action", "user.opened">>,
     execute |-> <<"download", "file.present">>,
     communication |-> <<"execute", "process.running">>,
     exfiltration |-> <<"collection", "data.collected">>]
Global(steps, i) ==
    LET pre == Local(steps[i]).pre
        class == steps[i].class
    IN  IF class \notin DOMAIN Dependency THEN pre
        ELSE LET d == Dependency[class]
                 prior == Prior(steps, i, d[1], d[2])
             IN  IF prior = {} THEN pre
                 ELSE {f \in pre : f[1] # d[2]} \cup prior

(* build_units: both sets of conditions are fused.                         *)
UnitsOf(steps) ==
    [i \in DOMAIN steps |->
        [pre |-> Local(steps[i]).pre \cup Global(steps, i),
         post |-> Local(steps[i]).post,
         branch |-> {}]]
=============================================================================
