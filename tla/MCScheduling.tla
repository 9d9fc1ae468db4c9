---------------------------- MODULE MCScheduling ----------------------------
(***************************************************************************)
(* Instances of Scheduling for TLC.  The workflow of a run is chosen by    *)
(* StartTask: all the tasks below are stored definitions.                  *)
(***************************************************************************)
EXTENDS Scheduling, TLC

End == "END"

(* One line per task: its type, its action and its relations. *)
To(t)         == << [to |-> t, cond |-> ""] >>
Act(ty, name) == [type |-> ty, name |-> name]
Def(ty, a, tr) == [type |-> ty, action |-> a, next |-> tr]

MCDefs == [
    (* order -> route -> ship, joined by an event callback and a switch *)
    order  |-> Def("operation", Act("asyncapi", "other"), To("route")),
    route  |-> Def("switch", Act("", ""),
                   << [to |-> End, cond |-> "false"], [to |-> "ship", cond |-> "true"],
                      [to |-> End, cond |-> ""] >>),
    ship   |-> Def("operation", Act("asyncapi", "other"), To(End)),
    (* a fork *)
    split  |-> Def("fork", Act("", ""),
                   << [to |-> "mail", cond |-> ""], [to |-> End, cond |-> ""],
                      [to |-> "sms", cond |-> ""] >>),
    mail   |-> Def("emit", Act("emit", "other"), To(End)),
    sms    |-> Def("call", Act("a2a", "other"), To(End)),
    (* a linear one, ended by a switch without a true condition *)
    first  |-> Def("do", Act("", ""), To("last")),
    last   |-> Def("switch", Act("", ""), << [to |-> "first", cond |-> "false"] >>),
    (* tasks that fail *)
    guard  |-> Def("try", Act("", ""), To("alarm")),
    alarm  |-> Def("raise", Act("", ""), To(End)),
    poison |-> Def("operation", Act("asyncapi", "short"), To(End)),
    (* an agent call with a successor *)
    agent  |-> Def("call", Act("a2a", "other"), To("report")),
    report |-> Def("set", Act("", ""), To(End)),
    (* a listener that hands over at once *)
    listen |-> Def("listen", Act("asyncapi", "other"), To("result")),
    result |-> Def("set", Act("", ""), To(End))
  ]

MCTask        == DOMAIN MCDefs
MCTaskType    == [t \in MCTask |-> MCDefs[t].type]
MCAction      == [t \in MCTask |-> MCDefs[t].action]
MCTransitions == [t \in MCTask |-> MCDefs[t].next]

(* Engines are interchangeable, and so are RPC goroutines. *)
Symmetry == Permutations(Engine) \cup Permutations(Caller)

(* Two rows are created within one second. *)
MCCreateTime == [r \in 1 .. MaxRows |-> r \div 2]

OrderOnly  == {"order"}
LinearOnly == {"first"}
ListenOnly == {"listen"}
Local      == {"first", "split"}
Mixed      == {"listen", "guard", "first", "sms", "poison", "agent"}
=============================================================================
