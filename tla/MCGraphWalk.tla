---------------------------- MODULE MCGraphWalk ----------------------------
(***************************************************************************)
(* Workflow texts for GraphWalk: all the combinations below of two tasks   *)
(* and of nested tasks, and the examples of docs/USAGE.md.                 *)
(***************************************************************************)
EXTENDS GraphWalk

MCAbsent == "<absent>"

HttpCall == [type |-> "http", name |-> "other"]

Def(name, keys, then, cases, subs, catch) ==
    [name |-> name, keys |-> keys, call |-> HttpCall, then |-> then,
     cases |-> cases, subs |-> subs, catch |-> catch]

Leaf(name, key, then) == Def(name, {key}, then, << >>, << >>, << >>)

(* The items of nested definitions, from the index `at' on. *)
RECURSIVE Flat(_, _, _, _)
Flat(defs, parent, part, at) ==
    IF defs = << >> THEN << >>
    ELSE LET d     == Head(defs)
             subs  == Flat(d.subs, at, "subs", at + 1)
             catch == Flat(d.catch, at, "catch", at + 1 + Len(subs))
             item  == [name |-> d.name, keys |-> d.keys, call |-> d.call, then |-> d.then,
                       cases |-> d.cases, parent |-> parent, part |-> part]
             first == << item >> \o subs \o catch
         IN  first \o Flat(Tail(defs), parent, part, at + Len(first))

V1(do) == [kind |-> "v1", start |-> "", items |-> Flat(do, 0, "subs", 1)]

Targets == {MCAbsent, "", "end", "continue", "first", "second", "inner", "ghost"}

MCCases == [cond : {"", "p", "q"}, then : {"end", "second", "inner", "ghost"}]

Leaves(name) == {Leaf(name, k, t) : k \in {"call", "set", "raise", "listen"}, t \in Targets}

Switches(name) ==
    {Def(name, {"switch"}, MCAbsent, cs, << >>, << >>) :
        cs \in {<< >>} \cup {<< c >> : c \in MCCases} \cup {<< c, d >> : c, d \in MCCases}}

(* Nested tasks, one of them perhaps without a name. *)
Inner == {<< >>, << Leaf("ok", "listen", MCAbsent) >>}
           \cup {<< Leaf("inner", k, t) >> : k \in {"call", "set"}, t \in {MCAbsent, "second", "end"}}
           \cup {<< Leaf("inner", "set", MCAbsent), Leaf(n, "call", "end") >> : n \in {"other", ""}}

Nests(name) ==
    {Def(name, ks, t, << >>, subs, << >>) :
        ks \in {{"do"}, {"fork"}, {"for"}, {"for", "do"}, {"try"}},
        t \in Targets, subs \in Inner}
      \cup {Def(name, {"try"}, t, << >>, << Leaf("inner", "call", MCAbsent) >>,
                << Leaf(n, "set", "end") >>) : t \in Targets, n \in {"other", ""}}
      \cup {Def(name, {"fork"}, MCAbsent, << >>,
                << Def("inner", {"do"}, t, << >>, << Leaf(n, "set", MCAbsent) >>, << >>),
                   Leaf("other", "emit", MCAbsent) >>, << >>)
              : t \in Targets, n \in {"deep", ""}}

Firsts == Leaves("first") \cup Switches("first") \cup Nests("first")

Seconds == {Leaf("second", "set", "end"), Leaf("second", "call", "first"),
            Leaf("first", "set", "end"), Leaf("end", "set", "continue"),
            Def("second", {"switch"}, MCAbsent,
                << [cond |-> "p", then |-> "first"], [cond |-> "", then |-> "end"] >>,
                << >>, << >>)}

State(name, type, actions, transition, end, cases) ==
    [name |-> name, type |-> type, actions |-> actions, transition |-> transition,
     end |-> end, cases |-> cases]

LegacyDocs ==
    {[kind |-> "legacy", start |-> s,
      items |-> << State("first", ty, a, tr, e, << [cond |-> "p", then |-> "second"] >>),
                   State("second", "operation", << HttpCall >>, "", TRUE, << >>),
                   State("", "operation", << HttpCall >>, "ghost", TRUE, << >>) >>] :
        s \in {"", "second", "ghost"}, ty \in {"event", "operation", "switch", "inject"},
        a \in {<< >>, << HttpCall >>}, tr \in {"", "second", "ghost"}, e \in BOOLEAN}

(* USAGE.md 3.6, followed by the task it names. *)
ForkDocs == {V1(<< Def("parallelTasks", {"fork"}, "joinPoint", << >>,
                       << Leaf("notifyEmail", "call", MCAbsent),
                          Leaf("notifySMS", "call", MCAbsent) >>, << >>),
                   Leaf("joinPoint", "set", "end") >>)}

AllDocs == {V1(<< f >>) : f \in Firsts}
             \cup {V1(<< f, s >>) : f \in Firsts, s \in Seconds}
             \cup LegacyDocs
             \cup ForkDocs
=============================================================================
