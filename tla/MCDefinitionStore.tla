------------------------- MODULE MCDefinitionStore -------------------------
(***************************************************************************)
(* Two controller requests.  While they change the definition at the same  *)
(* time no task runs; against each kind of change alone a task runs, or an *)
(* instance starts.                                                        *)
(***************************************************************************)
EXTENDS DefinitionStore

CONSTANTS w1, w2

Modes2(m1, m2) == [w \in Writer |-> IF w = w1 THEN m1 ELSE m2]

AllPlans ==
    {[mode |-> Modes2(m[1], m[2]), runs |-> FALSE, starts |-> FALSE] :
        m \in {<< "update", "update" >>, << "create", "update" >>,
               << "delete", "update" >>, << "delete", "create" >>}}
    \cup
    {[mode |-> Modes2(m[1], "none"), runs |-> m[2], starts |-> m[3]] :
        m \in {<< "update", TRUE, FALSE >>, << "update", FALSE, TRUE >>,
               << "delete", TRUE, FALSE >>, << "delete", FALSE, TRUE >>,
               << "none", TRUE, TRUE >>}}

DeletePlan == {[mode |-> Modes2("delete", "none"), runs |-> TRUE, starts |-> FALSE]}
=============================================================================
