-------------------------- MODULE GraphWalkProofs --------------------------
(***************************************************************************)
(* Theorems about GraphWalk: what is stored of an accepted text, whatever  *)
(* the text, and what becomes of an instance of it.                        *)
(***************************************************************************)
EXTENDS GraphWalk, FiniteSetTheorems, SequenceTheorems, WellFoundedInduction, TLAPS

-----------------------------------------------------------------------------
(* Finite sets. *)

(* The values of a function on a finite set are finitely many. *)
LEMMA FiniteImage ==
    ASSUME NEW S, NEW f, IsFiniteSet(S)
    PROVE  IsFiniteSet({f[x] : x \in S})
<1> DEFINE T == {f[x] : x \in S}
           g == [x \in S |-> f[x]]
<1>1. g \in Surjection(S, T)
  BY DEF Surjection
<1> QED
  BY <1>1, FS_Surjection

LEMMA FiniteSingleton ==
    ASSUME NEW x
    PROVE  IsFiniteSet({x}) /\ Cardinality({x}) = 1
BY FS_Singleton

(* A nonempty set of naturals has a least element, and a greatest one when *)
(* it is bounded.                                                          *)
LEMMA LeastNat ==
    ASSUME NEW T \in SUBSET Nat, T # {}
    PROVE  \E x \in T : \A y \in T : x <= y
<1>1. PICK x \in T : \A y \in T : ~ (<< y, x >> \in OpToRel(<, Nat))
  BY NatLessThanWellFounded, WFMin
<1>2. ASSUME NEW y \in T PROVE x <= y
  <2>1. << y, x >> \in Nat \X Nat
    OBVIOUS
  <2>2. ~ (y < x)
    BY <1>1, <2>1 DEF OpToRel
  <2> QED
    BY <2>2
<1> QED
  BY <1>2

LEMMA GreatestNat ==
    ASSUME NEW n \in Nat, NEW T \in SUBSET (1 .. n), T # {}
    PROVE  \E x \in T : \A y \in T : x >= y
<1> DEFINE D == {d \in Nat : n - d \in T}
<1>1. PICK z \in T : TRUE
  OBVIOUS
<1>2. n - z \in Nat /\ n - (n - z) = z
  BY <1>1
<1>3. D \in SUBSET Nat /\ D # {}
  BY <1>1, <1>2
<1>4. PICK d \in D : \A c \in D : d <= c
  BY <1>3, LeastNat
<1>5. ASSUME NEW y \in T PROVE n - d >= y
  <2>1. n - y \in Nat /\ n - (n - y) = y
    OBVIOUS
  <2>2. n - y \in D
    BY <2>1
  <2>3. d <= n - y /\ d \in Nat /\ y \in Nat
    BY <1>4, <2>2
  <2> QED
    BY <2>3
<1> QED
  BY <1>4, <1>5

(* A sequence of all the elements of a set has every one of them. *)
LEMMA SeqOfSet ==
    ASSUME NEW R, IsFiniteSet(R), NEW f \in SetToSeqs(R), NEW r \in R
    PROVE  \E k \in DOMAIN f : f[k] = r
<1> DEFINE n == Cardinality(R)
<1>1. /\ f \in [1 .. n -> R]
      /\ \A i, j \in 1 .. n : i # j => f[i] # f[j]
  BY DEF SetToSeqs
<1>2. n \in Nat
  BY FS_CardinalityType
<1>3. IsFiniteSet(R \ {r}) /\ Cardinality(R \ {r}) = n - 1
  BY FS_RemoveElement
<1>4. IsFiniteSet(1 .. n) /\ Cardinality(1 .. n) = n
  <2> HIDE DEF n
  <2>1. IsFiniteSet(1 .. n) /\ Cardinality(1 .. n) = IF 1 > n THEN 0 ELSE n - 1 + 1
    BY <1>2, FS_Interval
  <2> QED
    BY <1>2, <2>1
<1> HIDE DEF n
<1>5. Cardinality(R \ {r}) < Cardinality(1 .. n)
  BY <1>2, <1>3, <1>4
<1>6. ASSUME \A k \in DOMAIN f : f[k] # r PROVE FALSE
  <2>1. f \in [1 .. n -> R \ {r}]
    BY <1>1, <1>6
  <2>2. \E i, j \in 1 .. n : i # j /\ f[i] = f[j]
    BY <1>3, <1>4, <1>5, <2>1, FS_PigeonHole
  <2> QED
    BY <1>1, <2>2
<1> QED
  BY <1>6

-----------------------------------------------------------------------------
(* What the parser keeps. *)

(* The parsed tasks stand at places of the text. *)
LEMMA ParsedTasks ==
    ASSUME NEW d \in Documents
    PROVE  LET wf == ParseDocument(d) IN
           /\ DOMAIN wf.tasks \subseteq DOMAIN d.items
           /\ \A i \in DOMAIN wf.tasks : wf.tasks[i] = ParseTask(d, i)
<1>1. FlattenTasks(d.items) \subseteq DOMAIN d.items
  BY DEF FlattenTasks
<1>2. d.kind = "v1" => ParseDocument(d).tasks = [i \in FlattenTasks(d.items) |-> ParseTask(d, i)]
  BY DEF ParseDocument, ParseV1Workflow, Parsed
<1> DEFINE named == {i \in DOMAIN d.items : d.items[i].name # ""}
<1>3. d.kind # "v1" => ParseDocument(d).tasks = [i \in named |-> ParseTask(d, i)]
  BY DEF ParseDocument, ParseLegacyWorkflow, Parsed
<1> QED
  BY <1>1, <1>2, <1>3

(* The places of a text are finitely many. *)
LEMMA FiniteText ==
    ASSUME NEW d \in Documents
    PROVE  IsFiniteSet(DOMAIN d.items)
<1>1. PICK n \in Nat : DOMAIN d.items = 1 .. n
  BY GraphAssumption
<1> QED
  BY <1>1, FS_Interval

LEMMA EmptyCases == << >> \in Seq(Cases)
OBVIOUS

LEMMA V1Fields ==
    ASSUME NEW item
    PROVE  /\ V1Task(item).name = item.name
           /\ V1Task(item).then # "" => V1Task(item).explicit
           /\ V1Task(item).cases \in {item.cases, << >>}
<1>1. V1Task(item).name = item.name
  BY DEF V1Task
<1>2. V1Task(item).cases \in {item.cases, << >>}
  BY DEF V1Task
<1>3. V1Task(item).explicit = (item.then # Absent)
  BY DEF V1Task
<1>4. item.then = Absent => V1Task(item).then = ""
  BY DEF V1Task
<1> QED
  BY <1>1, <1>2, <1>3, <1>4

LEMMA LegacyFields ==
    ASSUME NEW s
    PROVE  /\ LegacyTask(s).name = s.name
           /\ LegacyTask(s).explicit
           /\ LegacyTask(s).cases \in {s.cases, << >>}
<1>1. LegacyTask(s).name = s.name /\ LegacyTask(s).explicit = TRUE
  BY DEF LegacyTask
<1>2. LegacyTask(s).cases \in {s.cases, << >>}
  BY DEF LegacyTask
<1> QED
  BY <1>1, <1>2

(* The actions of a parsed task. *)
LEMMA V1Actions ==
    ASSUME NEW item, item.call \in Operations
    PROVE  V1Task(item).actions \in Seq(Operations)
<1> DEFINE type == DetectV1TaskType(item.keys)
           own  == [type |-> type, name |-> NameClass(item.name)]
<1>1. V1Task(item).actions =
        CASE type = "operation" -> << item.call >>
          [] type \in {"set", "emit", "listen", "wait", "raise", "run"} -> << own >>
          [] OTHER -> << >>
  BY DEF V1Task
<1>2. type \in {"set", "emit", "listen", "wait", "raise", "run"} => own \in Operations
  BY DEF Operations, NameClass, StoredTypes
<1> HIDE DEF own, type
<1>3. CASE type = "operation"
  BY <1>1, <1>3
<1>4. CASE type \in {"set", "emit", "listen", "wait", "raise", "run"}
  BY <1>1, <1>2, <1>4
<1>5. CASE type \notin {"operation", "set", "emit", "listen", "wait", "raise", "run"}
  BY <1>1, <1>5
<1> QED
  BY <1>3, <1>4, <1>5

LEMMA ParsedActions ==
    ASSUME NEW d \in Documents, NEW i \in DOMAIN d.items
    PROVE  ParseTask(d, i).actions \in Seq(Operations)
<1>1. /\ d.kind = "v1" => d.items[i] \in Items
      /\ d.kind # "v1" => d.items[i] \in States
  BY GraphAssumption
<1>2. CASE d.kind = "v1"
  <2>1. ParseTask(d, i) = V1Task(d.items[i])
    BY <1>2 DEF ParseTask
  <2>2. d.items[i].call \in Operations
    BY <1>1, <1>2 DEF Items
  <2> QED
    BY <2>1, <2>2, V1Actions
<1>3. CASE d.kind # "v1"
  <2>1. ParseTask(d, i) = LegacyTask(d.items[i])
    BY <1>3 DEF ParseTask
  <2>2. d.items[i].actions \in Seq(Operations)
    BY <1>1, <1>3 DEF States
  <2>3. LegacyTask(d.items[i]).actions = d.items[i].actions
    BY DEF LegacyTask
  <2> QED
    BY <2>1, <2>2, <2>3
<1> QED
  BY <1>2, <1>3

(* What is read of one definition. *)
LEMMA ParsedTask ==
    ASSUME NEW d \in Documents, NEW i \in DOMAIN d.items
    PROVE  /\ ParseTask(d, i).name \notin {TaskStartID, TaskEndID}
           /\ ParseTask(d, i).then # "" => ParseTask(d, i).explicit
           /\ ParseTask(d, i).cases \in Seq(Cases)
<1>1. /\ d.kind = "v1" => d.items[i] \in Items
      /\ d.kind # "v1" => d.items[i] \in States
      /\ d.items[i].name \notin {TaskStartID, TaskEndID}
  BY GraphAssumption
<1>2. CASE d.kind = "v1"
  <2>1. ParseTask(d, i) = V1Task(d.items[i])
    BY <1>2 DEF ParseTask
  <2>2. d.items[i].cases \in Seq(Cases)
    BY <1>1, <1>2 DEF Items
  <2> QED
    BY <1>1, <2>1, <2>2, V1Fields, EmptyCases
<1>3. CASE d.kind # "v1"
  <2>1. ParseTask(d, i) = LegacyTask(d.items[i])
    BY <1>3 DEF ParseTask
  <2>2. d.items[i].cases \in Seq(Cases)
    BY <1>1, <1>3 DEF States
  <2> QED
    BY <1>1, <2>1, <2>2, LegacyFields, EmptyCases
<1> QED
  BY <1>2, <1>3

-----------------------------------------------------------------------------
(* What is stored. *)

(* A resolved target is a task or the end. *)
LEMMA ResolvedTarget ==
    ASSUME NEW n, NEW names
    PROVE  ResolveFlowDirective(n, names) \in names \cup {TaskEndID}
BY DEF ResolveFlowDirective

LEMMA NextTarget ==
    ASSUME NEW wf, NEW i
    PROVE  ResolveNextTaskID(wf, i) \in TaskNames(wf) \cup {TaskEndID}
<1>1. \A n : ResolveFlowDirective(n, TaskNames(wf)) \in TaskNames(wf) \cup {TaskEndID}
  BY ResolvedTarget
<1> QED
  BY <1>1 DEF ResolveNextTaskID

(* The relations built for one task: at least one and finitely many, from  *)
(* that task, to a task or to the end.                                     *)
RelationsFor(wf, i) ==
    LET rel == RelationsFrom(wf, i) IN
    /\ IsFiniteSet(rel)
    /\ rel # {}
    /\ \A r \in rel : r.from = wf.tasks[i].name /\ r.to \in TaskNames(wf) \cup {TaskEndID}

(* For a switch. *)
LEMMA SwitchRelations ==
    ASSUME NEW wf, NEW i, wf.tasks[i].type = "switch", wf.tasks[i].cases \in Seq(Cases)
    PROVE  RelationsFor(wf, i)
<1> DEFINE task  == wf.tasks[i]
           names == TaskNames(wf)
           row(k) == Relation(task.name, k, ResolveFlowDirective(task.cases[k].then, names),
                              task.cases[k].cond)
<1>1. RelationsFrom(wf, i) = BuildSwitchTaskRelation(task, names)
  BY DEF RelationsFrom
<1>2. CASE task.cases = << >>
  <2> DEFINE last == Relation(task.name, 1, TaskEndID, "")
  <2>1. RelationsFrom(wf, i) = {last}
    BY <1>1, <1>2 DEF BuildSwitchTaskRelation
  <2>2. last.from = task.name /\ last.to = TaskEndID
    BY DEF Relation
  <2> HIDE DEF last
  <2>3. IsFiniteSet(RelationsFrom(wf, i))
    BY <2>1, FiniteSingleton
  <2> QED
    BY <2>1, <2>2, <2>3 DEF RelationsFor
<1>3. CASE task.cases # << >>
  <2>1. RelationsFrom(wf, i) = {row(k) : k \in DOMAIN task.cases}
    BY <1>1, <1>3 DEF BuildSwitchTaskRelation
  <2>2. PICK n \in Nat : DOMAIN task.cases = 1 .. n /\ n >= 1
    BY <1>3
  <2>3. IsFiniteSet(DOMAIN task.cases)
    BY <2>2, FS_Interval
  <2>4. IsFiniteSet({row(k) : k \in DOMAIN task.cases})
    <3> DEFINE f == [k \in DOMAIN task.cases |-> row(k)]
    <3>1. IsFiniteSet({f[k] : k \in DOMAIN task.cases})
      <4> HIDE DEF f
      <4> QED
        BY <2>3, FiniteImage
    <3> QED
      BY <3>1
  <2>5. row(1) \in RelationsFrom(wf, i)
    BY <2>1, <2>2
  <2>6. \A k : row(k).from = task.name /\ row(k).to \in names \cup {TaskEndID}
    BY ResolvedTarget DEF Relation
  <2> QED
    BY <2>1, <2>4, <2>5, <2>6 DEF RelationsFor
<1> QED
  BY <1>2, <1>3

(* For a fork. *)
LEMMA ForkRelations ==
    ASSUME NEW wf, NEW i, wf.tasks[i].type = "fork", IsFiniteSet(DOMAIN wf.tasks)
    PROVE  RelationsFor(wf, i)
<1> DEFINE task == wf.tasks[i]
           row(j) == Relation(task.name, j, wf.tasks[j].name, "")
<1>1. RelationsFrom(wf, i) = BuildForkTaskRelation(wf, i)
  BY DEF RelationsFrom
<1>2. CASE Children(wf, i) = {}
  <2> DEFINE last == Relation(task.name, 1, TaskEndID, "")
  <2>1. RelationsFrom(wf, i) = {last}
    BY <1>1, <1>2 DEF BuildForkTaskRelation
  <2>2. last.from = task.name /\ last.to = TaskEndID
    BY DEF Relation
  <2> HIDE DEF last
  <2>3. IsFiniteSet(RelationsFrom(wf, i))
    BY <2>1, FiniteSingleton
  <2> QED
    BY <2>1, <2>2, <2>3 DEF RelationsFor
<1>3. CASE Children(wf, i) # {}
  <2>1. RelationsFrom(wf, i) = {row(j) : j \in Children(wf, i)}
    BY <1>1, <1>3 DEF BuildForkTaskRelation
  <2>2. Children(wf, i) \subseteq DOMAIN wf.tasks
    BY DEF Children
  <2>3. IsFiniteSet(Children(wf, i))
    BY <2>2, FS_Subset
  <2>4. IsFiniteSet({row(j) : j \in Children(wf, i)})
    <3> DEFINE f == [j \in Children(wf, i) |-> row(j)]
    <3>1. IsFiniteSet({f[j] : j \in Children(wf, i)})
      <4> HIDE DEF f
      <4> QED
        BY <2>3, FiniteImage
    <3> QED
      BY <3>1
  <2>5. \A j \in Children(wf, i) : row(j).from = task.name /\ row(j).to \in TaskNames(wf)
    BY <2>2 DEF Relation, TaskNames
  <2> QED
    BY <1>3, <2>1, <2>4, <2>5 DEF RelationsFor
<1> QED
  BY <1>2, <1>3

(* For a task of any other type: its one successor. *)
LEMMA OtherRelations ==
    ASSUME NEW wf, NEW i, wf.tasks[i].type \notin {"switch", "fork"}
    PROVE  /\ RelationsFrom(wf, i) = {Relation(wf.tasks[i].name, 1, ResolveNextTaskID(wf, i), "")}
           /\ RelationsFor(wf, i)
<1> DEFINE next == Relation(wf.tasks[i].name, 1, ResolveNextTaskID(wf, i), "")
<1>1. RelationsFrom(wf, i) = {next}
  BY DEF RelationsFrom
<1>2. ResolveNextTaskID(wf, i) \in TaskNames(wf) \cup {TaskEndID}
  BY NextTarget
<1>3. next.from = wf.tasks[i].name /\ next.to = ResolveNextTaskID(wf, i)
  BY DEF Relation
<1>4. RelationsFor(wf, i)
  <2> HIDE DEF next
  <2>1. IsFiniteSet(RelationsFrom(wf, i))
    BY <1>1, FiniteSingleton
  <2> QED
    BY <1>1, <1>2, <1>3, <2>1 DEF RelationsFor
<1> QED
  BY <1>1, <1>4

(* Every parsed task gets its relations. *)
LEMMA TaskRelations ==
    ASSUME NEW d \in Documents, NEW i \in DOMAIN ParseDocument(d).tasks
    PROVE  RelationsFor(ParseDocument(d), i)
<1> DEFINE wf == ParseDocument(d)
<1>1. /\ DOMAIN wf.tasks \subseteq DOMAIN d.items
      /\ wf.tasks[i] = ParseTask(d, i)
  BY ParsedTasks
<1>2. IsFiniteSet(DOMAIN wf.tasks)
  BY <1>1, FiniteText, FS_Subset
<1>3. wf.tasks[i].cases \in Seq(Cases)
  BY <1>1, ParsedTask
<1> HIDE DEF wf
<1>4. RelationsFor(wf, i)
  BY <1>2, <1>3, SwitchRelations, ForkRelations, OtherRelations
<1> QED
  BY <1>4 DEF wf

(* The rows of a task in what is stored are the ones built for it: names   *)
(* are unique, and no task has the id of the start.                        *)
LEMMA StoredRelations ==
    ASSUME NEW d \in Documents, Accepted(d), NEW i \in DOMAIN ParseDocument(d).tasks
    PROVE  {r \in Stored(d).relations : r.from = ParseDocument(d).tasks[i].name}
             = RelationsFrom(ParseDocument(d), i)
<1> DEFINE wf == ParseDocument(d)
<1>1. UniqueNames(wf)
  BY DEF Accepted, Validate
<1>2. Stored(d).relations = BuildTaskRelation(wf)
  BY DEF Stored
<1>3. wf.tasks[i].name # TaskStartID
  BY ParsedTasks, ParsedTask
<1>4. \A j \in DOMAIN wf.tasks : \A r \in RelationsFrom(wf, j) : r.from = wf.tasks[j].name
  BY TaskRelations DEF RelationsFor
<1> DEFINE first == Relation(TaskStartID, 1, wf.start, "")
           begin == IF wf.start \in TaskNames(wf) THEN {first} ELSE {}
<1>5. BuildTaskRelation(wf) = begin \cup UNION {RelationsFrom(wf, j) : j \in DOMAIN wf.tasks}
  BY DEF BuildTaskRelation
<1>6. \A r \in begin : r.from = TaskStartID
  <2>1. first.from = TaskStartID
    BY DEF Relation
  <2> HIDE DEF first
  <2> QED
    BY <2>1
<1> HIDE DEF wf, begin
<1>7. ASSUME NEW r \in BuildTaskRelation(wf), r.from = wf.tasks[i].name
      PROVE  r \in RelationsFrom(wf, i)
  <2>1. PICK j \in DOMAIN wf.tasks : r \in RelationsFrom(wf, j)
    BY <1>3, <1>5, <1>6, <1>7
  <2>2. wf.tasks[j].name = wf.tasks[i].name
    BY <1>4, <1>7, <2>1
  <2>3. j = i
    BY <1>1, <2>2 DEF UniqueNames, wf
  <2> QED
    BY <2>1, <2>3
<1>8. ASSUME NEW r \in RelationsFrom(wf, i)
      PROVE  r \in BuildTaskRelation(wf) /\ r.from = wf.tasks[i].name
  <2>1. i \in DOMAIN wf.tasks
    BY DEF wf
  <2> QED
    BY <1>4, <1>5, <2>1
<1> QED
  BY <1>2, <1>7, <1>8 DEF wf

(* The rows lead to stored tasks or to the end, those of the start to a    *)
(* stored task.                                                            *)
LEMMA StoredTargets ==
    ASSUME NEW d \in Documents, NEW r \in Stored(d).relations
    PROVE  /\ r.to \in Stored(d).tasks \cup {TaskEndID}
           /\ r.from = TaskStartID => r.to \in Stored(d).tasks
<1> DEFINE wf == ParseDocument(d)
           first == Relation(TaskStartID, 1, wf.start, "")
           begin == IF wf.start \in TaskNames(wf) THEN {first} ELSE {}
<1>1. Stored(d).relations = BuildTaskRelation(wf) /\ Stored(d).tasks = TaskNames(wf)
  BY DEF Stored
<1>2. BuildTaskRelation(wf) = begin \cup UNION {RelationsFrom(wf, j) : j \in DOMAIN wf.tasks}
  BY DEF BuildTaskRelation
<1>3. CASE r \in begin
  <2>1. first.to = wf.start
    BY DEF Relation
  <2> HIDE DEF first
  <2> QED
    BY <1>1, <1>3, <2>1
<1>4. CASE r \notin begin
  <2>1. PICK j \in DOMAIN wf.tasks : r \in RelationsFrom(wf, j)
    <3> HIDE DEF wf, begin
    <3> QED
      BY <1>1, <1>2, <1>4
  <2>2. r.from = wf.tasks[j].name /\ r.to \in TaskNames(wf) \cup {TaskEndID}
    BY <2>1, TaskRelations DEF RelationsFor
  <2>3. wf.tasks[j].name # TaskStartID
    BY ParsedTasks, ParsedTask
  <2> QED
    BY <1>1, <2>2, <2>3
<1> QED
  BY <1>3, <1>4

(* The stored type of a task is the one it was parsed with, normalised. *)
LEMMA StoredType ==
    ASSUME NEW d \in Documents, Accepted(d), NEW i \in DOMAIN ParseDocument(d).tasks
    PROVE  Stored(d).type[ParseDocument(d).tasks[i].name]
             = NormalizeTaskType(ParseDocument(d).tasks[i].type)
<1> DEFINE wf == ParseDocument(d)
           n  == wf.tasks[i].name
           c  == CHOOSE j \in DOMAIN wf.tasks : wf.tasks[j].name = n
<1>1. UniqueNames(wf)
  BY DEF Accepted, Validate
<1>2. n \in TaskNames(wf)
  BY DEF TaskNames
<1>3. c \in DOMAIN wf.tasks /\ wf.tasks[c].name = n
  OBVIOUS
<1>4. c = i
  BY <1>1, <1>3 DEF UniqueNames
<1>5. Stored(d).type[n] = NormalizeTaskType(wf.tasks[c].type)
  BY <1>2 DEF Stored
<1> QED
  BY <1>4, <1>5

(* The stored action of a task is one the executors know. *)
LEMMA StoredAction ==
    ASSUME NEW d \in Documents, Accepted(d), NEW i \in DOMAIN ParseDocument(d).tasks
    PROVE  Stored(d).action[ParseDocument(d).tasks[i].name] \in Operations
<1> DEFINE wf == ParseDocument(d)
           n  == wf.tasks[i].name
           c  == CHOOSE j \in DOMAIN wf.tasks : wf.tasks[j].name = n
           task == wf.tasks[c]
<1>1. n \in TaskNames(wf)
  BY DEF TaskNames
<1>2. c \in DOMAIN wf.tasks
  OBVIOUS
<1>3. Stored(d).action[n] = BuildTaskAction(task)
  BY <1>1 DEF Stored
<1>4. task.actions \in Seq(Operations)
  <2> HIDE DEF c
  <2> QED
    BY <1>2, ParsedTasks, ParsedActions
<1> DEFINE own == [type |-> NormalizeTaskType(task.type), name |-> NameClass(task.name)]
<1>5. own \in Operations
  <2>1. NormalizeTaskType(task.type) \in StoredTypes
    BY DEF NormalizeTaskType, StoredTypes
  <2>2. NameClass(task.name) \in {"short", "other"}
    BY DEF NameClass
  <2> HIDE DEF task
  <2> QED
    BY <2>1, <2>2 DEF Operations
<1>6. BuildTaskAction(task) = IF task.actions # << >> THEN Head(task.actions) ELSE own
  BY DEF BuildTaskAction
<1> HIDE DEF own, task
<1>7. BuildTaskAction(task) \in Operations
  BY <1>4, <1>5, <1>6
<1> QED
  BY <1>3, <1>7 DEF task

(* A graph the engine can run. *)
WellFormed(g) ==
    /\ {TaskStartID, TaskEndID} \cap g.tasks = {}
    /\ \A r \in g.relations : /\ r.to \in g.tasks \cup {TaskEndID}
                              /\ r.from = TaskStartID => r.to \in g.tasks
    /\ \A t \in g.tasks : LET rel == {r \in g.relations : r.from = t}
                          IN  rel # {} /\ IsFiniteSet(rel)

(* Whatever an accepted text says, what buildTask and buildTaskRelation    *)
(* store of it can be run: no relation leads to a task that is not stored, *)
(* and no task, a switch without cases or a fork without branches          *)
(* included, is left without a relation, for which the executors of event  *)
(* and switch tasks would return without a successor and without           *)
(* completing the instance.                                                *)
THEOREM StoredIsWellFormed ==
    ASSUME NEW d \in Documents, Accepted(d)
    PROVE  WellFormed(Stored(d))
<1> DEFINE wf == ParseDocument(d)
           g  == Stored(d)
<1>1. g.tasks = TaskNames(wf)
  BY DEF Stored
<1>2. ASSUME NEW t \in g.tasks
      PROVE  /\ t \notin {TaskStartID, TaskEndID}
             /\ {r \in g.relations : r.from = t} # {}
             /\ IsFiniteSet({r \in g.relations : r.from = t})
  <2>1. PICK i \in DOMAIN wf.tasks : t = wf.tasks[i].name
    BY <1>1 DEF TaskNames
  <2>2. t \notin {TaskStartID, TaskEndID}
    BY <2>1, ParsedTasks, ParsedTask
  <2>3. {r \in g.relations : r.from = t} = RelationsFrom(wf, i)
    BY <2>1, StoredRelations
  <2>4. RelationsFor(wf, i)
    BY TaskRelations
  <2> QED
    BY <2>2, <2>3, <2>4 DEF RelationsFor
<1>3. \A r \in g.relations : /\ r.to \in g.tasks \cup {TaskEndID}
                             /\ r.from = TaskStartID => r.to \in g.tasks
  BY StoredTargets
<1> HIDE DEF g
<1>4. WellFormed(g)
  BY <1>2, <1>3 DEF WellFormed
<1> QED
  BY <1>4 DEF g

(* The task a `then' of an accepted text names is stored as the one        *)
(* successor.                                                              *)
LEMMA StoredJump ==
    ASSUME NEW d \in Documents, Accepted(d), NEW i \in DOMAIN ParseDocument(d).tasks,
           NormalizeTaskType(ParseDocument(d).tasks[i].type) \notin {"switch", "fork"},
           ParseDocument(d).tasks[i].then \notin Directives \cup {""}
    PROVE  LET task == ParseDocument(d).tasks[i] IN
           /\ task.then \in Stored(d).tasks
           /\ \E r : /\ {q \in Stored(d).relations : q.from = task.name} = {r}
                    /\ r.to = task.then
<1> DEFINE wf   == ParseDocument(d)
           task == wf.tasks[i]
           next == Relation(task.name, 1, ResolveNextTaskID(wf, i), "")
<1>1. task.type \notin {"switch", "fork"}
  BY DEF NormalizeTaskType, StoredTypes
<1>2. {q \in Stored(d).relations : q.from = task.name} = {next}
  BY <1>1, StoredRelations, OtherRelations
<1>3. task.explicit
  BY ParsedTasks, ParsedTask
<1>4. task.then \in TaskNames(wf)
  <2>1. ValidThen(wf)
    BY DEF Accepted, Validate
  <2>2. IsValidFlowTarget(task.then, TaskNames(wf))
    BY <1>3, <2>1 DEF ValidThen
  <2> QED
    BY <2>2 DEF IsValidFlowTarget
<1>5. ResolveNextTaskID(wf, i) = task.then
  <2>1. ResolveNextTaskID(wf, i) = ResolveFlowDirective(task.then, TaskNames(wf))
    BY <1>3 DEF ResolveNextTaskID
  <2> QED
    BY <1>4, <2>1 DEF ResolveFlowDirective
<1>6. next.to = task.then
  BY <1>5 DEF Relation
<1>7. task.then \in Stored(d).tasks
  BY <1>4 DEF Stored
<1> HIDE DEF next, task
<1>8. /\ task.then \in Stored(d).tasks
      /\ \E r : /\ {q \in Stored(d).relations : q.from = task.name} = {r}
               /\ r.to = task.then
  BY <1>2, <1>6, <1>7
<1> QED
  BY <1>8 DEF task

(* A fork is stored with a relation to each of its branches, and with no   *)
(* other one.                                                              *)
LEMMA StoredFork ==
    ASSUME NEW d \in Documents, Accepted(d), NEW i \in DOMAIN ParseDocument(d).tasks,
           ParseDocument(d).tasks[i].type = "fork", NEW j \in Children(ParseDocument(d), i)
    PROVE  LET tasks == ParseDocument(d).tasks
               rows  == {q \in Stored(d).relations : q.from = tasks[i].name}
           IN  /\ \E r \in rows : r.to = tasks[j].name
               /\ \A r \in rows : r.to # TaskEndID
<1> DEFINE wf == ParseDocument(d)
           row(k) == Relation(wf.tasks[i].name, k, wf.tasks[k].name, "")
           rows == {q \in Stored(d).relations : q.from = wf.tasks[i].name}
<1>1. rows = RelationsFrom(wf, i)
  BY StoredRelations
<1>2. RelationsFrom(wf, i) = BuildForkTaskRelation(wf, i)
  BY DEF RelationsFrom
<1>3. BuildForkTaskRelation(wf, i) = {row(k) : k \in Children(wf, i)}
  BY DEF BuildForkTaskRelation
<1>4. \A k : row(k).to = wf.tasks[k].name
  BY DEF Relation
<1>5. \A k \in DOMAIN wf.tasks : wf.tasks[k].name # TaskEndID
  BY ParsedTasks, ParsedTask
<1>6. Children(wf, i) \subseteq DOMAIN wf.tasks
  BY DEF Children
<1> HIDE DEF row, rows, wf
<1>7. rows = {row(k) : k \in Children(wf, i)}
  BY <1>1, <1>2, <1>3
<1>8. row(j) \in rows /\ row(j).to = wf.tasks[j].name
  BY <1>4, <1>7 DEF wf
<1>9. \A r \in rows : r.to # TaskEndID
  BY <1>4, <1>5, <1>6, <1>7
<1> QED
  BY <1>8, <1>9 DEF rows, wf

-----------------------------------------------------------------------------
(* Bags. *)

(* One copy of t is taken away and the bag B is added. *)
LEMMA BagStep ==
    ASSUME NEW A, IsABag(A), NEW B, IsABag(B), NEW t \in DOMAIN A
    PROVE  LET C == (A (-) SetToBag({t})) (+) B IN
           /\ IsABag(C)
           /\ DOMAIN C \subseteq DOMAIN A \cup DOMAIN B
           /\ (DOMAIN A \ {t}) \cup DOMAIN B \subseteq DOMAIN C
<1> DEFINE D == A (-) SetToBag({t})
           C == D (+) B
<1>1. /\ IsABag(D)
      /\ DOMAIN D \subseteq DOMAIN A
      /\ DOMAIN A \ {t} \subseteq DOMAIN D
  BY DEF IsABag, SetToBag, (-)
<1> HIDE DEF D
<1>2. IsABag(C) /\ DOMAIN C = DOMAIN D \cup DOMAIN B
  BY <1>1 DEF IsABag, (+)
<1>3. /\ IsABag(C)
      /\ DOMAIN C \subseteq DOMAIN A \cup DOMAIN B
      /\ (DOMAIN A \ {t}) \cup DOMAIN B \subseteq DOMAIN C
  BY <1>1, <1>2
<1> QED
  BY <1>3 DEF D

LEMMA Bag1 ==
    ASSUME NEW S
    PROVE  IsABag(SetToBag(S)) /\ DOMAIN SetToBag(S) = S
BY DEF IsABag, SetToBag

LEMMA Bag0 == IsABag(EmptyBag) /\ DOMAIN EmptyBag = {}
BY Bag1 DEF EmptyBag

(* What a run publishes is a bag. *)
LEMMA PublishedBag ==
    ASSUME NEW steps, NEW n \in Nat, DOMAIN steps = 1 .. n
    PROVE  /\ IsABag(Published(steps))
           /\ DOMAIN Published(steps) = {steps[i].to : i \in Reached(steps, {"publish"})}
<1> DEFINE pubs  == Reached(steps, {"publish"})
           at(u) == {i \in pubs : steps[i].to = u}
<1>1. DOMAIN Published(steps) = {steps[i].to : i \in pubs}
  BY DEF Published
<1>2. ASSUME NEW u \in DOMAIN Published(steps)
      PROVE  Published(steps)[u] \in {m \in Nat : m > 0}
  <2>1. Published(steps)[u] = Cardinality(at(u))
    BY <1>1, <1>2 DEF Published
  <2>2. at(u) \in SUBSET (1 .. n)
    BY DEF Reached
  <2>3. IsFiniteSet(1 .. n)
    BY FS_Interval
  <2>4. IsFiniteSet(at(u))
    BY <2>2, <2>3, FS_Subset
  <2>5. at(u) # {}
    BY <1>1
  <2> HIDE DEF at
  <2>6. Cardinality(at(u)) \in Nat /\ Cardinality(at(u)) # 0
    BY <2>4, <2>5, FS_CardinalityType, FS_EmptySet
  <2> QED
    BY <2>1, <2>6
<1>3. Published(steps) = [u \in DOMAIN Published(steps) |-> Published(steps)[u]]
  BY DEF Published
<1> HIDE DEF pubs
<1> QED
  BY <1>1, <1>2, <1>3 DEF IsABag, pubs

-----------------------------------------------------------------------------
(* The executors on a well-formed graph. *)

Evaluations == [to : graph.tasks \cup {TaskEndID}, cond : {"", "true", "false", "error"}]

(* The steps of a run create task instances of stored tasks only, and one  *)
(* of them publishes, completes the instance or fails.                     *)
GoodRun(s) ==
    /\ \E n \in Nat : DOMAIN s = 1 .. n
    /\ \A k \in DOMAIN s : s[k].op = "publish" => s[k].to \in graph.tasks
    /\ Has(s, {"publish", "complete"}) \/ Has(s, {"error", "panic"})

(* A run publishes task `to' or fails. *)
Follows(s, to) ==
    \/ Has(s, {"error", "panic"})
    \/ \E k \in Reached(s, {"publish"}) : s[k].to = to

LEMMA EvaluationFields ==
    ASSUME NEW e, NEW a \in graph.tasks \cup {TaskEndID},
           NEW c \in {"", "true", "false", "error"}, e = [to |-> a, cond |-> c]
    PROVE  e \in Evaluations /\ e.to = a
<1>1. e \in Evaluations
  BY DEF Evaluations
<1>2. e.to = a
  OBVIOUS
<1> QED
  BY <1>1, <1>2

(* What the executors are given as the relations of a task. *)
LEMMA EvaluatedRelations ==
    ASSUME WellFormed(graph), NEW t \in graph.tasks, NEW out \in Outcomes,
           NEW rel \in SetToSeqs(RelationsOf(t))
    PROVE  /\ Evaluated(rel, out) \in Seq(Evaluations)
           /\ Evaluated(rel, out) # << >>
           /\ \A k \in DOMAIN Evaluated(rel, out) :
                \E r \in RelationsOf(t) : Evaluated(rel, out)[k].to = r.to
           /\ \A r \in RelationsOf(t) :
                \E k \in DOMAIN Evaluated(rel, out) : Evaluated(rel, out)[k].to = r.to
<1> DEFINE R == RelationsOf(t)
           n == Cardinality(R)
           tr == Evaluated(rel, out)
<1>1. R # {} /\ IsFiniteSet(R) /\ R \subseteq graph.relations
  BY DEF WellFormed, RelationsOf
<1>2. n \in Nat /\ n # 0
  <2> HIDE DEF R
  <2> QED
    BY <1>1, FS_CardinalityType, FS_EmptySet
<1>3. rel \in [1 .. n -> R]
  BY DEF SetToSeqs
<1> HIDE DEF n
<1>4. DOMAIN tr = 1 .. n
  BY <1>3 DEF Evaluated
<1>5. ASSUME NEW k \in 1 .. n
      PROVE  tr[k] \in Evaluations /\ tr[k].to = rel[k].to /\ rel[k] \in R
  <2>1. rel[k] \in R /\ rel[k] \in graph.relations
    BY <1>1, <1>3
  <2>2. rel[k].to \in graph.tasks \cup {TaskEndID}
    BY <2>1 DEF WellFormed
  <2>3. rel[k].cond # "" => rel[k].cond \in Conditions
    BY <2>1 DEF Conditions
  <2>4. rel[k].cond # "" => out[rel[k].cond] \in {"true", "false", "error"}
    BY <2>3 DEF Outcomes
  <2>5. tr[k] = [to |-> rel[k].to,
                 cond |-> IF rel[k].cond = "" THEN "" ELSE out[rel[k].cond]]
    BY <1>3 DEF Evaluated
  <2> DEFINE c == IF rel[k].cond = "" THEN "" ELSE out[rel[k].cond]
  <2>6. c \in {"", "true", "false", "error"}
    BY <2>4
  <2> HIDE DEF c
  <2>7. tr[k] = [to |-> rel[k].to, cond |-> c]
    BY <2>5 DEF c
  <2> HIDE DEF tr, R
  <2>8. tr[k] \in Evaluations /\ tr[k].to = rel[k].to
    BY <2>2, <2>6, <2>7, EvaluationFields
  <2> QED
    BY <2>1, <2>8
<1>6. tr = [k \in 1 .. n |-> tr[k]]
  BY <1>3 DEF Evaluated
<1>7. ASSUME NEW r \in R PROVE \E k \in DOMAIN tr : tr[k].to = r.to
  <2>1. PICK k \in DOMAIN rel : rel[k] = r
    BY <1>1, SeqOfSet
  <2>2. k \in 1 .. n
    BY <1>3, <2>1
  <2> HIDE DEF tr, R
  <2> QED
    BY <1>4, <1>5, <2>1, <2>2
<1> HIDE DEF tr
<1>8. tr \in Seq(Evaluations)
  BY <1>2, <1>5, <1>6, IsASeq
<1>9. tr # << >>
  BY <1>2, <1>4
<1> QED
  BY <1>4, <1>5, <1>8, <1>9, <1>7 DEF tr

(* A run of two steps, the second of them a completion. *)
LEMMA RunEnds ==
    ASSUME NEW a, NEW b, a.op # "publish", b.op = "complete"
    PROVE  GoodRun(<< a, b >>)
<1> DEFINE s == << a, b >>
<1>1. DOMAIN s = 1 .. 2 /\ s[1] = a /\ s[2] = b
  OBVIOUS
<1> HIDE DEF s
<1>2. \A k \in DOMAIN s : s[k].op # "publish"
  BY <1>1
<1>3. a.op \in {"error", "panic"} => 1 \in Reached(s, {"error", "panic"})
  BY <1>1 DEF Reached
<1>4. a.op \notin {"error", "panic"} => 2 \in Reached(s, {"publish", "complete"})
  BY <1>1 DEF Reached
<1> QED
  BY <1>1, <1>2, <1>3, <1>4 DEF GoodRun, Has, s

(* A run that begins by publishing. *)
LEMMA RunContinues ==
    ASSUME NEW a, NEW b, a.op = "publish", a.to \in graph.tasks, b.op # "publish"
    PROVE  GoodRun(<< a, b >>) /\ Follows(<< a, b >>, a.to)
<1> DEFINE s == << a, b >>
<1>1. DOMAIN s = 1 .. 2 /\ s[1] = a /\ s[2] = b
  OBVIOUS
<1> HIDE DEF s
<1>2. \A k \in DOMAIN s : s[k].op = "publish" => s[k].to \in graph.tasks
  BY <1>1
<1>3. 1 \in Reached(s, {"publish", "complete"}) /\ 1 \in Reached(s, {"publish"})
  BY <1>1 DEF Reached
<1> QED
  BY <1>1, <1>2, <1>3 DEF GoodRun, Has, Follows, s

(* A run of one step. *)
LEMMA RunOnce ==
    ASSUME NEW a, a.op \in {"publish", "complete", "error"},
           a.op = "publish" => a.to \in graph.tasks
    PROVE  GoodRun(<< a >>)
<1> DEFINE s == << a >>
<1>1. DOMAIN s = 1 .. 1 /\ s[1] = a
  OBVIOUS
<1> HIDE DEF s
<1>2. \A k \in DOMAIN s : s[k].op = "publish" => s[k].to \in graph.tasks
  BY <1>1
<1>3. /\ a.op \in {"publish", "complete"} => 1 \in Reached(s, {"publish", "complete"})
      /\ a.op = "error" => 1 \in Reached(s, {"error", "panic"})
  BY <1>1 DEF Reached
<1> QED
  BY <1>1, <1>2, <1>3 DEF GoodRun, Has, s

LEMMA EvaluationTarget ==
    ASSUME NEW tr \in Seq(Evaluations), NEW k \in DOMAIN tr
    PROVE  tr[k].to \in graph.tasks \cup {TaskEndID}
<1>1. tr[k] \in Evaluations
  OBVIOUS
<1>2. \A e \in Evaluations : e.to \in graph.tasks \cup {TaskEndID}
  BY DEF Evaluations
<1> QED
  BY <1>1, <1>2

(* The executor of operation, and of event and listen tasks. *)
LEMMA OperationRun ==
    ASSUME NEW t, NEW rel, NEW out, TaskEndID \notin graph.tasks,
           Evaluated(rel, out) \in Seq(Evaluations), Evaluated(rel, out) # << >>
    PROVE  LET s  == Executor(t, rel, out)!OperationSteps(t)
               to == Evaluated(rel, out)[1].to
           IN  GoodRun(s) /\ (to # TaskEndID => Follows(s, to))
<1> DEFINE tr == Evaluated(rel, out)
           s  == Executor(t, rel, out)!OperationSteps(t)
           act == Executor(t, rel, out)!ActionOp(graph.action[t])
           do  == [op |-> act, to |-> TaskEndID, status |-> "WAIT"]
           last == [op |-> "complete", to |-> TaskEndID, status |-> "WAIT"]
           pub == [op |-> "publish", to |-> tr[1].to, status |-> "SLEEP"]
<1>1. act \in {"skip", "a2a", "panic", "event"}
  BY DEF Executor!ActionOp
<1>2. s = IF tr[1].to = TaskEndID THEN << do, last >> ELSE << pub, do >>
  BY DEF Executor!OperationSteps, Executor!EndsHere, Executor!Do, Executor!Publish
<1>3. do.op # "publish" /\ last.op = "complete"
  BY <1>1
<1>4. pub.op = "publish" /\ pub.to = tr[1].to
  OBVIOUS
<1>5. tr[1].to \in graph.tasks \cup {TaskEndID}
  <2>1. 1 \in DOMAIN tr
    OBVIOUS
  <2> QED
    BY <2>1, EvaluationTarget
<1> HIDE DEF do, last, pub, tr, s
<1>6. CASE tr[1].to = TaskEndID
  BY <1>2, <1>3, <1>6, RunEnds DEF tr, s
<1>7. CASE tr[1].to # TaskEndID
  <2>1. GoodRun(<< pub, do >>) /\ Follows(<< pub, do >>, pub.to)
    BY <1>3, <1>4, <1>5, <1>7, RunContinues
  <2> QED
    BY <1>2, <1>4, <1>7, <2>1 DEF tr, s
<1> QED
  BY <1>6, <1>7

(* The executor of switch tasks. *)
LEMMA SwitchRun ==
    ASSUME NEW t, NEW rel, NEW out, TaskEndID \notin graph.tasks,
           Evaluated(rel, out) \in Seq(Evaluations), Evaluated(rel, out) # << >>
    PROVE  GoodRun(Executor(t, rel, out)!SwitchSteps(t))
<1> DEFINE tr == Evaluated(rel, out)
           s  == Executor(t, rel, out)!SwitchSteps(t)
           decisive == {i \in DOMAIN tr : tr[i].cond \in {"true", "error"}}
           default  == {i \in DOMAIN tr : tr[i].cond = ""}
           first == CHOOSE i \in decisive : \A j \in decisive : i <= j
           final == CHOOSE i \in default : \A j \in default : i >= j
           do(op) == [op |-> op, to |-> TaskEndID, status |-> "WAIT"]
           go(to) == IF to = TaskEndID THEN do("complete")
                     ELSE [op |-> "publish", to |-> to, status |-> "WAIT"]
<1>1. /\ decisive # {} =>
           s = << IF tr[first].cond = "error" THEN do("error") ELSE go(tr[first].to) >>
      /\ decisive = {} /\ default # {} => s = << go(tr[final].to) >>
      /\ decisive = {} /\ default = {} => s = << do("complete") >>
  <2>1. CASE decisive # {}
    BY <2>1 DEF Executor!SwitchSteps, Executor!PublishOrComplete, Executor!Do, Executor!Publish
  <2>2. CASE decisive = {} /\ default # {}
    BY <2>2 DEF Executor!SwitchSteps, Executor!PublishOrComplete, Executor!Do, Executor!Publish
  <2>3. CASE decisive = {} /\ default = {}
    BY <2>3 DEF Executor!SwitchSteps, Executor!Do
  <2> QED
    BY <2>1, <2>2, <2>3
<1>2. PICK n \in Nat : DOMAIN tr = 1 .. n
  OBVIOUS
<1>3. decisive # {} => first \in DOMAIN tr
  <2> HAVE decisive # {}
  <2>1. decisive \in SUBSET Nat
    BY <1>2
  <2>2. \E i \in decisive : \A j \in decisive : i <= j
    BY <2>1, LeastNat
  <2> QED
    BY <2>2
<1>4. default # {} => final \in DOMAIN tr
  <2> HAVE default # {}
  <2>1. default \in SUBSET (1 .. n)
    BY <1>2
  <2>2. \E i \in default : \A j \in default : i >= j
    BY <2>1, GreatestNat
  <2> QED
    BY <2>2
<1>5. \A i \in DOMAIN tr : tr[i].to \in graph.tasks \cup {TaskEndID}
  BY EvaluationTarget
<1>6. \A to \in graph.tasks \cup {TaskEndID} : GoodRun(<< go(to) >>)
  <2> TAKE to \in graph.tasks \cup {TaskEndID}
  <2>1. /\ go(to).op \in {"publish", "complete", "error"}
        /\ go(to).op = "publish" => go(to).to \in graph.tasks
    OBVIOUS
  <2> HIDE DEF go
  <2> QED
    BY <2>1, RunOnce
<1>7. GoodRun(<< do("error") >>) /\ GoodRun(<< do("complete") >>)
  <2>1. do("error").op = "error" /\ do("complete").op = "complete"
    OBVIOUS
  <2> HIDE DEF do
  <2> QED
    BY <2>1, RunOnce
<1> HIDE DEF tr, decisive, default, first, final, do, go, s
<1>8. GoodRun(s)
  BY <1>1, <1>3, <1>4, <1>5, <1>6, <1>7
<1> QED
  BY <1>8 DEF s

(* The local runtime. *)
LEMMA LocalRun ==
    ASSUME NEW t, NEW rel, NEW out, TaskEndID \notin graph.tasks,
           Evaluated(rel, out) \in Seq(Evaluations), Evaluated(rel, out) # << >>
    PROVE  LET s  == Executor(t, rel, out)!LocalRuntimeSteps(t)
               to == Evaluated(rel, out)[1].to
               targets == {Evaluated(rel, out)[k].to : k \in DOMAIN Evaluated(rel, out)}
           IN  /\ GoodRun(s)
               /\ to # TaskEndID => Follows(s, to)
               /\ TaskEndID \notin targets => \A u \in targets : Follows(s, u)
<1> DEFINE tr == Evaluated(rel, out)
           n  == Len(tr)
           s  == Executor(t, rel, out)!LocalRuntimeSteps(t)
           act == Executor(t, rel, out)!ExecuteOp(t)
           do(op) == [op |-> op, to |-> TaskEndID, status |-> "WAIT"]
           targets == {tr[k].to : k \in DOMAIN tr}
           go(to) == IF to = TaskEndID THEN do("skip")
                     ELSE [op |-> "publish", to |-> to, status |-> "WAIT"]
<1>1. act \in {"error", "event", "skip"}
  BY DEF Executor!ExecuteOp
<1>2. n \in Nat /\ n >= 1 /\ DOMAIN tr = 1 .. n
  OBVIOUS
<1>3. \A k \in DOMAIN tr : tr[k].to \in graph.tasks \cup {TaskEndID}
  BY EvaluationTarget
<1>4. CASE tr[1].to = TaskEndID
  <2>1. s = << do(act), do("complete") >>
    BY <1>4 DEF Executor!LocalRuntimeSteps, Executor!EndsHere, Executor!Do
  <2>2. do(act).op # "publish" /\ do("complete").op = "complete"
    BY <1>1
  <2>3. TaskEndID \in targets
    BY <1>2, <1>4
  <2> HIDE DEF do
  <2> QED
    BY <1>4, <2>1, <2>2, <2>3, RunEnds
<1>5. CASE tr[1].to # TaskEndID
  <2>1. s = [i \in 1 .. n + 1 |-> IF i = 1 THEN do(act) ELSE go(tr[i - 1].to)]
    BY <1>5 DEF Executor!LocalRuntimeSteps, Executor!EndsHere, Executor!Do,
                Executor!PublishNextTask, Executor!Publish
  <2>2. do(act).op = act
    OBVIOUS
  <2>3. \A to \in graph.tasks \cup {TaskEndID} :
          /\ go(to).op \in {"publish", "skip"}
          /\ go(to).op = "publish" => go(to).to \in graph.tasks
    OBVIOUS
  <2>4. go(tr[1].to).op = "publish" /\ go(tr[1].to).to = tr[1].to
    BY <1>5
  <2>5. \A to : to # TaskEndID => go(to).op = "publish" /\ go(to).to = to
    OBVIOUS
  <2> HIDE DEF do, go, tr, n, s, act
  <2>6. DOMAIN s = 1 .. n + 1 /\ n + 1 \in Nat /\ 1 \in DOMAIN s /\ 2 \in DOMAIN s
    BY <1>2, <2>1
  <2>7. s[1] = do(act)
    BY <1>2, <2>1
  <2>8. \A k \in DOMAIN s : k # 1 => k - 1 \in DOMAIN tr /\ s[k] = go(tr[k - 1].to)
    BY <1>2, <2>1
  <2>9. s[2] = go(tr[1].to)
    BY <2>6, <2>8
  <2>10. \A k \in DOMAIN s : s[k].op = "publish" => s[k].to \in graph.tasks
    BY <1>1, <1>3, <2>2, <2>3, <2>7, <2>8
  <2>11. act = "error" => 1 \in Reached(s, {"error", "panic"})
    BY <2>2, <2>6, <2>7 DEF Reached
  <2>12. act # "error" => 2 \in Reached(s, {"publish", "complete"}) /\ 2 \in Reached(s, {"publish"})
    <3>1. \A j \in DOMAIN s : j < 2 => j = 1
      BY <2>6
    <3> QED
      BY <1>1, <2>2, <2>4, <2>6, <2>7, <2>9, <3>1 DEF Reached
  <2>13. GoodRun(s)
    BY <2>6, <2>10, <2>11, <2>12 DEF GoodRun, Has
  <2>14. Follows(s, tr[1].to)
    BY <2>4, <2>9, <2>11, <2>12 DEF Follows, Has
  <2>15. ASSUME TaskEndID \notin targets, NEW u \in targets, act # "error"
         PROVE  Follows(s, u)
    <3>1. PICK k \in DOMAIN tr : tr[k].to = u
      OBVIOUS
    <3>2. tr[k].to # TaskEndID
      BY <2>15, <3>1
    <3>3. k + 1 \in DOMAIN s /\ s[k + 1] = go(tr[k].to)
      BY <1>2, <2>1, <2>6, <3>1
    <3>4. \A j \in DOMAIN s : s[j].op \notin {"error", "panic"}
      <4> TAKE j \in DOMAIN s
      <4>1. CASE j = 1
        BY <1>1, <2>2, <2>7, <2>15, <4>1
      <4>2. CASE j # 1
        <5>1. s[j] = go(tr[j - 1].to) /\ tr[j - 1].to \in graph.tasks \cup {TaskEndID}
          BY <1>3, <2>8, <4>2
        <5> QED
          BY <2>3, <5>1
      <4> QED
        BY <4>1, <4>2
    <3>5. k + 1 \in Reached(s, {"publish"})
      BY <2>5, <3>2, <3>3, <3>4 DEF Reached
    <3>6. s[k + 1].to = u
      BY <2>5, <3>1, <3>2, <3>3
    <3> QED
      BY <3>5, <3>6 DEF Follows
  <2>16. TaskEndID \notin targets => \A u \in targets : Follows(s, u)
    BY <2>11, <2>15 DEF Follows, Has
  <2> QED
    BY <2>13, <2>14, <2>16 DEF s, tr
<1> QED
  BY <1>4, <1>5

(* Any executor: a run of a task of a well-formed graph creates task       *)
(* instances of stored tasks only, is not silent, and follows the one      *)
(* relation of a task that is no switch and no fork, and all the relations *)
(* of a fork with branches.                                                *)
LEMMA TaskRun ==
    ASSUME WellFormed(graph), NEW t \in graph.tasks, NEW out \in Outcomes,
           NEW rel \in SetToSeqs(RelationsOf(t))
    PROVE  LET s == Executor(t, rel, out)!Steps(t) IN
           /\ GoodRun(s)
           /\ \A r : /\ graph.type[t] # "switch"
                    /\ RelationsOf(t) = {r}
                    /\ r.to # TaskEndID
                    => Follows(s, r.to)
           /\ graph.type[t] = "fork" /\ (\A r \in RelationsOf(t) : r.to # TaskEndID)
                => \A r \in RelationsOf(t) : Follows(s, r.to)
<1> DEFINE targets == {Evaluated(rel, out)[k].to : k \in DOMAIN Evaluated(rel, out)}
           tr == Evaluated(rel, out)
           s  == Executor(t, rel, out)!Steps(t)
<1>1. TaskEndID \notin graph.tasks
  BY DEF WellFormed
<1>2. tr \in Seq(Evaluations) /\ tr # << >>
  BY EvaluatedRelations
<1>3. \A k \in DOMAIN tr : \E r \in RelationsOf(t) : tr[k].to = r.to
  BY EvaluatedRelations
<1>4. 1 \in DOMAIN tr
  BY <1>2
<1>5. \A r \in RelationsOf(t) : \E k \in DOMAIN tr : tr[k].to = r.to
  BY EvaluatedRelations
<1>6. /\ GoodRun(s)
      /\ graph.type[t] # "switch" /\ tr[1].to # TaskEndID => Follows(s, tr[1].to)
      /\ graph.type[t] = "fork" /\ TaskEndID \notin targets => \A u \in targets : Follows(s, u)
  <2>1. CASE graph.type[t] \in Executor(t, rel, out)!LocalTypes
    <3>1. s = Executor(t, rel, out)!LocalRuntimeSteps(t)
      BY <2>1 DEF Executor!Steps, Executor!LocalTypes
    <3> QED
      BY <1>1, <1>2, <3>1, LocalRun
  <2>2. CASE graph.type[t] = "switch"
    <3>1. s = Executor(t, rel, out)!SwitchSteps(t)
      BY <2>2 DEF Executor!Steps, Executor!LocalTypes
    <3> QED
      BY <1>1, <1>2, <2>2, <3>1, SwitchRun
  <2>3. CASE graph.type[t] \notin Executor(t, rel, out)!LocalTypes \cup {"switch"}
    <3>1. s = Executor(t, rel, out)!OperationSteps(t)
      <4>1. Executor(t, rel, out)!EventSteps(t) = Executor(t, rel, out)!OperationSteps(t)
        BY <1>2 DEF Executor!EventSteps
      <4>2. CASE graph.type[t] \in {"event", "listen"}
        BY <4>1, <4>2 DEF Executor!Steps, Executor!LocalTypes
      <4>3. CASE graph.type[t] \notin {"event", "listen"}
        BY <2>3, <4>3 DEF Executor!Steps
      <4> QED
        BY <4>2, <4>3
    <3>2. graph.type[t] # "fork"
      BY <2>3 DEF Executor!LocalTypes
    <3> QED
      BY <1>1, <1>2, <3>1, <3>2, OperationRun
  <2> QED
    BY <2>1, <2>2, <2>3
<1> HIDE DEF tr, s
<1>7. ASSUME NEW r, graph.type[t] # "switch", RelationsOf(t) = {r}, r.to # TaskEndID
      PROVE  Follows(s, r.to)
  <2>1. tr[1].to = r.to
    BY <1>3, <1>4, <1>7
  <2> QED
    BY <1>6, <1>7, <2>1
<1>8. ASSUME graph.type[t] = "fork", \A r \in RelationsOf(t) : r.to # TaskEndID,
             NEW r \in RelationsOf(t)
      PROVE  Follows(s, r.to)
  <2>1. TaskEndID \notin targets
    BY <1>3, <1>8 DEF tr
  <2>2. r.to \in targets
    BY <1>5 DEF tr
  <2> QED
    BY <1>6, <1>8, <2>1, <2>2
<1> QED
  BY <1>6, <1>7, <1>8 DEF s

-----------------------------------------------------------------------------
(* The inductive invariant. *)

(* What is stored is what buildTask makes of the accepted text. *)
GraphInv ==
    /\ doc \in Documents
    /\ status \in {"submitted", "rejected"} => graph = NoGraph
    /\ status \notin {"submitted", "rejected"} => Accepted(doc) /\ graph = Stored(doc)

(* Nothing is run before the instance is started. *)
StartInv ==
    status \in {"submitted", "rejected", "saved", "not exists"} =>
        pending = EmptyBag /\ ran = {}

(* The target of a task that was run was run, or will be. *)
FollowInv ==
    failed \/ \A i \in Jumps(JumpTypes) :
                ParseDocument(doc).tasks[i].then \in ran \cup BagToSet(pending)

(* The branches of a fork that was run were run, or will be. *)
ForkInv ==
    failed \/ \A i \in Forks : \A j \in Children(ParseDocument(doc), i) :
                ParseDocument(doc).tasks[j].name \in ran \cup BagToSet(pending)

WalkInv ==
    /\ TypeOK /\ IsABag(pending) /\ GraphInv /\ StartInv
    /\ NoSilentEnd /\ FollowInv /\ ForkInv

LEMMA WalkInit == Init => WalkInv
<1> SUFFICES ASSUME Init PROVE WalkInv
  OBVIOUS
<1>1. TypeOK
  <2>1. ran \cup BagToSet(pending) = {}
    BY Bag0 DEF Init, BagToSet
  <2>2. runs \in 0 .. MaxRuns
    BY GraphAssumption DEF Init
  <2> QED
    BY <2>1, <2>2 DEF Init, TypeOK
<1>2. IsABag(pending) /\ GraphInv /\ StartInv /\ NoSilentEnd
  BY Bag0 DEF Init, GraphInv, StartInv, NoSilentEnd
<1>3. Jumps(JumpTypes) = {} /\ Forks = {}
  BY DEF Init, Jumps, Forks
<1> QED
  BY <1>1, <1>2, <1>3 DEF WalkInv, FollowInv, ForkInv

(* Saving a text. *)
LEMMA WalkSave == WalkInv /\ Save => WalkInv'
<1> SUFFICES ASSUME WalkInv, Save PROVE WalkInv'
  OBVIOUS
<1> USE DEF WalkInv
<1>1. /\ UNCHANGED << doc, pending, ran, runs, failed >>
      /\ pending = EmptyBag /\ ran = {}
  BY DEF Save, StartInv
<1>2. status' \in {"saved", "rejected"}
  BY DEF Save
<1>3. GraphInv'
  <2>1. CASE Accepted(doc)
    BY <1>1, <2>1 DEF Save, GraphInv
  <2>2. CASE ~ Accepted(doc)
    BY <1>1, <2>2 DEF Save, GraphInv
  <2> QED
    BY <2>1, <2>2
<1>4. TypeOK'
  BY <1>1, <1>2, Bag0 DEF TypeOK, BagToSet
<1>5. StartInv' /\ NoSilentEnd' /\ IsABag(pending)'
  BY <1>1, <1>2 DEF StartInv, NoSilentEnd
<1>6. Jumps(JumpTypes)' = {} /\ Forks' = {}
  BY <1>1 DEF Jumps, Forks
<1> QED
  BY <1>3, <1>4, <1>5, <1>6 DEF FollowInv, ForkInv

(* Starting an instance. *)
LEMMA WalkStart == WalkInv /\ Start => WalkInv'
<1> SUFFICES ASSUME WalkInv, Start PROVE WalkInv'
  OBVIOUS
<1> USE DEF WalkInv
<1>1. /\ UNCHANGED << doc, graph, ran, runs, failed >>
      /\ status = "saved" /\ pending = EmptyBag /\ ran = {}
  BY DEF Start, StartInv
<1>2. GraphInv' /\ Jumps(JumpTypes)' = {} /\ Forks' = {}
  <2>1. status' \in {"PROCESS", "not exists"}
    BY DEF Start
  <2> QED
    BY <1>1, <2>1 DEF GraphInv, Jumps, Forks
<1>3. CASE status' = "not exists"
  <2>1. UNCHANGED pending
    BY <1>3 DEF Start
  <2> QED
    BY <1>1, <1>2, <1>3, <2>1 DEF TypeOK, StartInv, NoSilentEnd, FollowInv, ForkInv
<1>4. CASE status' # "not exists"
  <2>1. PICK r \in RelationsOf(TaskStartID) : pending' = SetToBag({r.to}) /\ status' = "PROCESS"
    BY <1>4 DEF Start
  <2>2. WellFormed(graph)
    BY <1>1, StoredIsWellFormed DEF GraphInv
  <2>3. r.to \in graph.tasks
    BY <2>2 DEF WellFormed, RelationsOf
  <2>4. IsABag(pending') /\ DOMAIN pending' = {r.to}
    BY <2>1, Bag1
  <2>5. pending' # EmptyBag
    BY <2>4, Bag0
  <2>6. TypeOK'
    BY <1>1, <2>1, <2>3, <2>4 DEF TypeOK, BagToSet
  <2> QED
    BY <1>1, <1>2, <2>1, <2>4, <2>5, <2>6 DEF StartInv, NoSilentEnd, FollowInv, ForkInv
<1> QED
  BY <1>3, <1>4

(* Running a task. *)
LEMMA WalkRun ==
    ASSUME NEW t \in BagToSet(pending)
    PROVE  WalkInv /\ Run(t) => WalkInv'
<1> SUFFICES ASSUME WalkInv, Run(t) PROVE WalkInv'
  OBVIOUS
<1> USE DEF WalkInv
<1>1. PICK out \in Outcomes, rel \in SetToSeqs(RelationsOf(t)) :
        LET steps == Executor(t, rel, out)!Steps(t) IN
        /\ pending' = (pending (-) SetToBag({t})) (+) Published(steps)
        /\ status' = IF Has(steps, {"complete"}) THEN "SUCCESS" ELSE status
        /\ failed' = (failed \/ Has(steps, {"error", "panic"}))
  BY DEF Run
<1> DEFINE s == Executor(t, rel, out)!Steps(t)
<1>2. /\ ran' = ran \cup {t} /\ runs' = runs + 1 /\ runs < MaxRuns
      /\ UNCHANGED << doc, graph >>
  BY DEF Run
<1>3. t \in DOMAIN pending /\ t \in graph.tasks
  BY DEF TypeOK, BagToSet
<1>4. status \in {"PROCESS", "SUCCESS"}
  BY <1>3, Bag0 DEF StartInv, TypeOK
<1>5. Accepted(doc) /\ graph = Stored(doc) /\ doc \in Documents
  BY <1>4 DEF GraphInv
<1>6. WellFormed(graph)
  BY <1>5, StoredIsWellFormed
<1>7. /\ GoodRun(s)
      /\ \A r : /\ graph.type[t] # "switch"
               /\ RelationsOf(t) = {r}
               /\ r.to # TaskEndID
               => Follows(s, r.to)
      /\ graph.type[t] = "fork" /\ (\A r \in RelationsOf(t) : r.to # TaskEndID)
           => \A r \in RelationsOf(t) : Follows(s, r.to)
  BY <1>3, <1>6, TaskRun
<1>8. /\ pending' = (pending (-) SetToBag({t})) (+) Published(s)
      /\ status' = IF Has(s, {"complete"}) THEN "SUCCESS" ELSE status
      /\ failed' = (failed \/ Has(s, {"error", "panic"}))
  BY <1>1
<1> HIDE DEF s
<1>9. PICK n \in Nat : DOMAIN s = 1 .. n
  BY <1>7 DEF GoodRun
<1>10. /\ IsABag(Published(s))
       /\ DOMAIN Published(s) = {s[i].to : i \in Reached(s, {"publish"})}
  BY <1>9, PublishedBag
<1>11. /\ IsABag(pending')
       /\ DOMAIN pending' \subseteq DOMAIN pending \cup DOMAIN Published(s)
       /\ (DOMAIN pending \ {t}) \cup DOMAIN Published(s) \subseteq DOMAIN pending'
  BY <1>3, <1>8, <1>10, BagStep
<1>12. DOMAIN Published(s) \subseteq graph.tasks
  BY <1>7, <1>10 DEF GoodRun, Reached
<1>13. status' \in {"PROCESS", "SUCCESS"}
  BY <1>4, <1>8
<1>14. TypeOK'
  <2>1. ran' \cup BagToSet(pending') \subseteq graph'.tasks
    BY <1>2, <1>3, <1>11, <1>12 DEF TypeOK, BagToSet
  <2>2. runs' \in 0 .. MaxRuns
    <3>1. runs \in 0 .. MaxRuns
      BY DEF TypeOK
    <3>2. MaxRuns \in Nat
      BY GraphAssumption
    <3> QED
      BY <1>2, <3>1, <3>2
  <2>3. failed' \in BOOLEAN
    BY <1>8
  <2> QED
    BY <1>13, <2>1, <2>2, <2>3 DEF TypeOK
<1>15. GraphInv' /\ StartInv'
  BY <1>2, <1>5, <1>13 DEF GraphInv, StartInv
<1>16. NoSilentEnd'
  <2> SUFFICES ASSUME pending' = EmptyBag, status' = "PROCESS", ~ failed' PROVE FALSE
    BY DEF NoSilentEnd
  <2>1. ~ Has(s, {"complete"}) /\ ~ Has(s, {"error", "panic"})
    <3>1. status' # "SUCCESS"
      OBVIOUS
    <3>2. ~ Has(s, {"complete"})
      BY <1>8, <3>1
    <3>3. ~ Has(s, {"error", "panic"})
      BY <1>8, Zenon
    <3> QED
      BY <3>2, <3>3
  <2>2. Reached(s, {"publish"}) = {}
    BY <1>10, <1>11, Bag0
  <2>3. PICK k \in Reached(s, {"publish", "complete"}) : TRUE
    BY <1>7, <2>1 DEF GoodRun, Has
  <2>4. k \in Reached(s, {"publish"}) \/ k \in Reached(s, {"complete"})
    BY <2>3 DEF Reached
  <2> QED
    BY <2>1, <2>2, <2>4 DEF Has
<1>17. FollowInv'
  <2> DEFINE tasks == ParseDocument(doc).tasks
  <2> SUFFICES ASSUME ~ failed', NEW i \in Jumps(JumpTypes)'
               PROVE  tasks[i].then \in ran' \cup BagToSet(pending')
    BY <1>2 DEF FollowInv
  <2>1. /\ i \in DOMAIN tasks /\ tasks[i].name \in ran \cup {t}
        /\ NormalizeTaskType(tasks[i].type) \in JumpTypes
        /\ tasks[i].then \notin Directives \cup {""}
    BY <1>2 DEF Jumps
  <2>2. ~ failed /\ ~ Has(s, {"error", "panic"})
    BY <1>8
  <2>3. CASE tasks[i].name \in ran
    <3>1. i \in Jumps(JumpTypes)
      BY <2>1, <2>3 DEF Jumps
    <3>2. tasks[i].then \in ran \cup DOMAIN pending
      BY <2>2, <3>1 DEF FollowInv, BagToSet
    <3> QED
      BY <1>2, <1>11, <3>2 DEF BagToSet
  <2>4. CASE tasks[i].name = t
    <3>1. NormalizeTaskType(tasks[i].type) \notin {"switch", "fork"}
      BY <2>1 DEF JumpTypes
    <3>2. PICK r : /\ {q \in Stored(doc).relations : q.from = tasks[i].name} = {r}
                   /\ r.to = tasks[i].then
      BY <1>5, <2>1, <3>1, StoredJump
    <3>3. tasks[i].then \in Stored(doc).tasks
      BY <1>5, <2>1, <3>1, StoredJump
    <3>4. RelationsOf(t) = {r}
      BY <1>5, <2>4, <3>2 DEF RelationsOf
    <3>5. r.to # TaskEndID
      BY <1>5, <1>6, <3>2, <3>3 DEF WellFormed
    <3>6. graph.type[t] # "switch"
      BY <1>5, <2>1, <2>4, <3>1, StoredType
    <3>7. Follows(s, r.to)
      BY <1>7, <3>4, <3>5, <3>6
    <3>8. tasks[i].then \in DOMAIN Published(s)
      BY <1>10, <2>2, <3>2, <3>7 DEF Follows
    <3> QED
      BY <1>11, <3>8 DEF BagToSet
  <2> QED
    BY <2>1, <2>3, <2>4
<1>18. ForkInv'
  <2> DEFINE wf == ParseDocument(doc)
  <2> SUFFICES ASSUME ~ failed', NEW i \in Forks', NEW j \in Children(wf, i)
               PROVE  wf.tasks[j].name \in ran' \cup BagToSet(pending')
    BY <1>2 DEF ForkInv
  <2>1. /\ i \in DOMAIN wf.tasks /\ wf.tasks[i].name \in ran \cup {t}
        /\ wf.tasks[i].type = "fork"
    BY <1>2 DEF Forks
  <2>2. ~ failed /\ ~ Has(s, {"error", "panic"})
    BY <1>8
  <2>3. CASE wf.tasks[i].name \in ran
    <3>1. i \in Forks
      BY <2>1, <2>3 DEF Forks
    <3>2. wf.tasks[j].name \in ran \cup DOMAIN pending
      BY <2>2, <3>1 DEF ForkInv, BagToSet
    <3> QED
      BY <1>2, <1>11, <3>2 DEF BagToSet
  <2>4. CASE wf.tasks[i].name = t
    <3>1. /\ \E r \in RelationsOf(t) : r.to = wf.tasks[j].name
          /\ \A r \in RelationsOf(t) : r.to # TaskEndID
      BY <1>5, <2>1, <2>4, StoredFork DEF RelationsOf
    <3>2. graph.type[t] = "fork"
      <4>1. graph.type[t] = NormalizeTaskType(wf.tasks[i].type)
        BY <1>5, <2>1, <2>4, StoredType
      <4> QED
        BY <2>1, <4>1 DEF NormalizeTaskType, StoredTypes
    <3>3. Follows(s, wf.tasks[j].name)
      BY <1>7, <3>1, <3>2
    <3>4. wf.tasks[j].name \in DOMAIN Published(s)
      BY <1>10, <2>2, <3>3 DEF Follows
    <3> QED
      BY <1>11, <3>4 DEF BagToSet
  <2> QED
    BY <2>1, <2>3, <2>4
<1> QED
  BY <1>11, <1>14, <1>15, <1>16, <1>17, <1>18

LEMMA WalkStep == WalkInv /\ [Next]_vars => WalkInv'
<1> SUFFICES ASSUME WalkInv, [Next]_vars PROVE WalkInv'
  OBVIOUS
<1>1. CASE Save
  BY <1>1, WalkSave
<1>2. CASE Start
  BY <1>2, WalkStart
<1>3. ASSUME NEW t \in BagToSet(pending), Run(t) PROVE WalkInv'
  BY <1>3, WalkRun
<1>4. CASE UNCHANGED vars
  BY <1>4 DEF vars, WalkInv, TypeOK, GraphInv, StartInv, NoSilentEnd, FollowInv, Jumps,
                ForkInv, Forks
<1> QED
  BY <1>1, <1>2, <1>3, <1>4 DEF Next

LEMMA WalkAlways == Spec => []WalkInv
BY WalkInit, WalkStep, PTL DEF Spec

-----------------------------------------------------------------------------
(* For every text: a task instance is only ever created for a stored task, *)
(* whatever the text names as its targets.                                 *)
THEOREM TypeCorrect == Spec => []TypeOK
<1>1. WalkInv => TypeOK
  BY DEF WalkInv
<1> QED
  BY <1>1, WalkAlways, PTL

(* For every accepted text, every outcome of its conditions and every      *)
(* order of the relation rows: an instance is not left in PROCESS with     *)
(* nothing to run, unless a task failed.                                   *)
THEOREM NeverSilent == Spec => []NoSilentEnd
<1>1. WalkInv => NoSilentEnd
  BY DEF WalkInv
<1> QED
  BY <1>1, WalkAlways, PTL

(* For every accepted text: when an instance has come to its end, the      *)
(* target of the `then' of every task it ran (no switch, fork or raise)    *)
(* was run, nested tasks or not.                                           *)
THEOREM ThenIsTaken == Spec => []JumpsTaken
<1>1. WalkInv => JumpsTaken
  BY Bag0 DEF WalkInv, FollowInv, JumpsTaken, Ended, BagToSet
<1> QED
  BY <1>1, WalkAlways, PTL

(* For every accepted text, however its tasks are nested, and every order  *)
(* of the relation rows: when an instance has come to its end, every       *)
(* branch the parser kept of every fork it ran was run, also the ones that *)
(* were still to be run when the first branch completed the instance.      *)
THEOREM BranchesAreRun == Spec => []BranchesRun
<1>1. WalkInv => BranchesRun
  BY Bag0 DEF WalkInv, ForkInv, BranchesRun, Ended, BagToSet
<1> QED
  BY <1>1, WalkAlways, PTL

(* For every accepted text, every order of the relation rows and every     *)
(* outcome of the conditions: what Save stored satisfies the assumption of *)
(* the executors, under which the theorems about Scheduling hold, and      *)
(* leaves no task without a relation.                                      *)
THEOREM DefinitionsAreExecutable == Spec => []StoredIsExecutable
<1>1. WalkInv => StoredIsExecutable
  <2> SUFFICES ASSUME WalkInv, status \notin {"submitted", "rejected"},
                      NEW t \in graph.tasks, NEW out \in Outcomes,
                      NEW rel \in SetToSeqs(RelationsOf(t))
               PROVE  /\ graph.type[t] \in Executor(t, rel, out)!Types
                      /\ graph.action[t] \in Executor(t, rel, out)!Actions
                      /\ Evaluated(rel, out) \in Seq(Executor(t, rel, out)!Relations) \ {<< >>}
    BY DEF StoredIsExecutable
  <2> DEFINE wf == ParseDocument(doc)
  <2>1. doc \in Documents /\ Accepted(doc) /\ graph = Stored(doc)
    BY DEF WalkInv, GraphInv
  <2>2. PICK i \in DOMAIN wf.tasks : t = wf.tasks[i].name
    BY <2>1 DEF Stored, TaskNames
  <2>3. graph.type[t] \in Executor(t, rel, out)!Types
    <3>1. graph.type[t] = NormalizeTaskType(wf.tasks[i].type)
      BY <2>1, <2>2, StoredType
    <3> QED
      BY <3>1 DEF NormalizeTaskType, StoredTypes, Executor!Types, Executor!LocalTypes
  <2>4. graph.action[t] \in Executor(t, rel, out)!Actions
    <3>1. graph.action[t] \in Operations
      BY <2>1, <2>2, StoredAction
    <3> QED
      BY <3>1 DEF Operations, StoredTypes, Executor!Actions, Executor!Types, Executor!LocalTypes
  <2>5. Evaluated(rel, out) \in Seq(Evaluations) /\ Evaluated(rel, out) # << >>
    BY <2>1, StoredIsWellFormed, EvaluatedRelations
  <2>6. Executor(t, rel, out)!Relations = Evaluations
    BY DEF Executor!Relations, Evaluations
  <2> QED
    BY <2>3, <2>4, <2>5, <2>6
<1> QED
  BY <1>1, WalkAlways, PTL
=============================================================================
