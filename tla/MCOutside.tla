----------------------------- MODULE MCOutside ------------------------------
(* What comes in from outside and what goes out, for TLC: the requests that  *)
(* create, change and delete what users own, the deliveries to a trigger, or *)
(* the notifications.  None touches the state of another, so a behaviour is  *)
(* one of the three.  The calls in flight are interchangeable; those of the  *)
(* three parts have the same names, so that there is one symmetry.           *)
(*   Deliveries: a generic trigger that starts a pipeline, and a Grafana one *)
(*   that starts a template.                                                 *)
EXTENDS Resources, Triggers, Notify, TLC

MCShapes == {[kind |-> "generic", target |-> "pipeline", runOnResolved |-> FALSE],
             [kind |-> "grafana", target |-> "template", runOnResolved |-> FALSE]}
Symmetry == Permutations(Callers)
ASSUME OneSymmetry == Senders = Callers /\ Editors = Callers

VARIABLE part
OutsideInit == /\ part \in {"resources", "deliveries", "notifications"}
               /\ Init /\ TriggersInit /\ NotifyInit
               /\ part # "deliveries" => trig.shape.kind = "generic"
OutsideNext ==
    /\ UNCHANGED part
    /\ \/ part = "resources" /\ Next /\ UNCHANGED <<triggersVars, notifyVars>>
       \/ part = "deliveries" /\ TriggersNext /\ UNCHANGED <<vars, notifyVars>>
       \/ part = "notifications" /\ NotifyNext /\ UNCHANGED <<vars, triggersVars>>
OutsideSpec == OutsideInit /\ [][OutsideNext]_<<vars, triggersVars, notifyVars, part>>
=============================================================================
