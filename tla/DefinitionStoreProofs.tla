----------------------- MODULE DefinitionStoreProofs -----------------------
(***************************************************************************)
(* Theorems about DefinitionStore, for any number of controller requests,  *)
(* any plan and any number of failures.                                    *)
(***************************************************************************)
EXTENDS DefinitionStore, SequenceTheorems, TLAPS

Statuses == {"none", "normal", "invalid"}

StoreTypes ==
    /\ plan \in Plans
    /\ rows \in [Definitions -> [Version -> Statuses]]
    /\ wr \in [Writer -> WriterSet]
    /\ victims \subseteq Writer

(* A writer that is between requests or done holds nothing; only then its  *)
(* commit may have been left unanswered.  A statement that waits is one    *)
(* that is still to be done.                                               *)
Resting(w) ==
    /\ wr[w].pc \in {"idle", "over"} =>
           wr[w].tx \in {"none", "unsure"} /\ wr[w].inv = {} /\ wr[w].ins = {}
    /\ wr[w].tx = "unsure" => wr[w].pc = "over"
    /\ wr[w].pc \in {"idle", "check", "over"} => wr[w].todo = {}
    /\ wr[w].at # NoTable => wr[w].at \in wr[w].todo /\ wr[w].tx # "none"
    /\ wr[w].pc = "create" => wr[w].todo \subseteq Definitions

(* In delete a transaction has invalidated the tables it is done with,     *)
(* unless a statement failed.                                              *)
Deleting(w) ==
    wr[w].pc = "delete" =>
        /\ wr[w].ins = {}
        /\ wr[w].tx = "none" <=> plan.mode[w] = "delete"
        /\ plan.mode[w] \in {"update", "delete"}
        /\ wr[w].tx = "open" /\ ~ wr[w].bad => wr[w].inv = Tables \ wr[w].todo

(* In create it has all of them invalidated, or none if no id was given,   *)
(* and has inserted into the tables it is done with.                       *)
Creating(w) ==
    wr[w].pc \in {"check", "create"} =>
        /\ plan.mode[w] \in {"update", "create"}
        /\ wr[w].tx \in {"open", "lost"}
        /\ w \notin victims => /\ plan.mode[w] = "update" => wr[w].inv = Tables
                               /\ plan.mode[w] = "create" => wr[w].inv = {}
        /\ wr[w].pc = "check" => wr[w].ins = {} /\ ~ wr[w].bad
        /\ wr[w].pc = "create" /\ ~ wr[w].bad => wr[w].ins = Definitions \ wr[w].todo

(* A transaction is lost to a deadlock only. *)
LostIsVictim(w) == wr[w].tx = "lost" => w \in victims /\ wr[w].bad

(* Nothing of a version is visible before its Save is over. *)
Unseen(w) ==
    w \notin victims /\ plan.mode[w] # "delete" /\ wr[w].pc # "over" =>
        \A t \in Definitions : rows[t][w] = "none"

WriterInv ==
    \A w \in Writer :
        Resting(w) /\ Deleting(w) /\ Creating(w) /\ LostIsVictim(w) /\ Unseen(w)

(* While the only Save creates the workflow, none is offered. *)
CreatesNew ==
    CreatesAlone /\ victims = {} =>
        \A w \in Creates : wr[w].pc = "create" => Listed = {}

StoreInv ==
    StoreTypes /\ WriterInv /\ SavesAreAtomic /\ ReportIsTrue /\ OneVersion /\ CreatesNew

-----------------------------------------------------------------------------
LEMMA StoreInit == Init => StoreInv
<1> SUFFICES ASSUME Init PROVE StoreInv
  OBVIOUS
<1>1. StoreTypes
  BY StoreAssumption DEF Init, StoreTypes, Statuses, WriterSet, NoWriter
<1>2. WriterInv
  BY StoreAssumption DEF Init, WriterInv, Resting, Deleting, Creating, LostIsVictim, Unseen,
     NoWriter, Version
<1>3. SavesAreAtomic /\ ReportIsTrue
  BY DEF Init, SavesAreAtomic, ReportIsTrue, NoWriter, Definitions
<1>4. OneVersion /\ CreatesNew
  BY DEF Init, OneVersion, CreatesNew, Listed, Creates, NoWriter, Definitions
<1> QED
  BY <1>1, <1>2, <1>3, <1>4 DEF StoreInv

(* Steps that leave the definition and the writers alone. *)
LEMMA StoreSame ==
    StoreInv /\ UNCHANGED << plan, rows, wr, victims >> => StoreInv'
  BY DEF StoreInv, StoreTypes, WriterInv, Resting, Deleting, Creating, LostIsVictim, Unseen,
     SavesAreAtomic, ReportIsTrue, OneVersion, CreatesNew, CreatesAlone, Listed, Deletes, Creates

LEMMA WriteRows ==
    ASSUME NEW inv, NEW ins, NEW v \in Version, StoreTypes, Write(inv, ins, v)
    PROVE  /\ rows' \in [Definitions -> [Version -> Statuses]]
           /\ \A t \in Definitions, x \in Version :
                rows'[t][x] = IF x = v /\ t \in ins THEN "normal"
                              ELSE IF t \in inv /\ rows[t][x] = "normal" THEN "invalid"
                              ELSE rows[t][x]
<1>1. \A t \in Definitions, x \in Version : rows[t][x] \in Statuses
  BY DEF StoreTypes
<1>2. \A t \in Definitions, x \in Version :
        rows'[t][x] = IF x = v /\ t \in ins THEN "normal"
                      ELSE IF t \in inv /\ rows[t][x] = "normal" THEN "invalid"
                      ELSE rows[t][x]
  BY DEF Write
<1>3. rows' = [t \in Definitions |-> [x \in Version |-> rows'[t][x]]]
  BY DEF Write
<1>4. \A t \in Definitions, x \in Version : rows'[t][x] \in Statuses
  BY <1>1, <1>2 DEF Statuses
<1> QED
  BY <1>2, <1>3, <1>4

WriterFacts(w) == Resting(w) /\ Deleting(w) /\ Creating(w) /\ LostIsVictim(w)

(* A step of writer w that writes nothing. *)
LEMMA SilentStep ==
    ASSUME StoreInv, NEW w \in Writer, UNCHANGED << plan, rows >>,
           wr[w].pc # "over",
           wr' \in [Writer -> WriterSet],
           \A u \in Writer \ {w} : wr'[u] = wr[u],
           victims' \in {victims, victims \cup {w}},
           WriterFacts(w)',
           wr'[w].pc = "over" => (w \in Deletes \/ wr'[w].bad) /\ wr'[w].tx # "unsure",
           wr'[w].pc = "create" /\ w \in Creates /\ victims = {} =>
               wr[w].pc = "create" \/ Listed = {}
    PROVE  StoreInv'
<1>1. StoreTypes'
  BY DEF StoreInv, StoreTypes
<1>2. \A u \in Writer \ {w} : WriterFacts(u)' /\ Unseen(u)'
  BY DEF StoreInv, WriterInv, WriterFacts, Resting, Deleting, Creating, LostIsVictim, Unseen
<1>3. Unseen(w)'
  BY DEF StoreInv, WriterInv, Unseen
<1>4. WriterInv'
  BY <1>2, <1>3 DEF WriterInv, WriterFacts
<1>5. SavesAreAtomic'
  BY DEF StoreInv, SavesAreAtomic, Deletes
<1>6. ReportIsTrue'
  <2> SUFFICES ASSUME NEW u \in Writer, u \notin Deletes', u \notin victims', wr'[u].pc = "over",
                      NEW t \in Definitions
               PROVE  (rows'[t][u] = "none") = (wr'[u].bad /\ wr'[u].tx # "unsure")
    BY DEF ReportIsTrue
  <2>1. CASE u = w
    <3>1. wr'[w].bad = TRUE /\ wr'[w].tx # "unsure"
      BY <2>1, <1>1 DEF StoreTypes, WriterSet, Deletes
    <3>2. rows[t][w] = "none"
      BY <2>1 DEF StoreInv, WriterInv, Unseen, Deletes
    <3> QED
      BY <2>1, <3>1, <3>2
  <2>2. CASE u # w
    BY <2>2 DEF StoreInv, ReportIsTrue, Deletes
  <2> QED
    BY <2>1, <2>2
<1>7. OneVersion'
  BY DEF StoreInv, OneVersion, CreatesAlone, Creates, Listed
<1>8. CreatesNew'
  BY DEF StoreInv, CreatesNew, CreatesAlone, Creates, Listed
<1> QED
  BY <1>1, <1>4, <1>5, <1>6, <1>7, <1>8 DEF StoreInv

(* A statement of writer w that commits by itself: one of Delete, or of a  *)
(* Save whose transaction was lost.                                        *)
LEMMA LooseStep ==
    ASSUME StoreInv, NEW w \in Writer, UNCHANGED << plan, victims >>,
           NEW inv, NEW ins, Write(inv, ins, w),
           (w \in Deletes /\ ins = {}) \/ w \in victims,
           wr' \in [Writer -> WriterSet],
           \A u \in Writer \ {w} : wr'[u] = wr[u],
           WriterFacts(w)',
           wr'[w].pc = wr[w].pc
    PROVE  StoreInv'
<1> DEFINE New(t, x) == IF x = w /\ t \in ins THEN "normal"
                        ELSE IF t \in inv /\ rows[t][x] = "normal" THEN "invalid"
                        ELSE rows[t][x]
<1>1. w \in Version
  BY DEF Version
<1>2. /\ rows' \in [Definitions -> [Version -> Statuses]]
      /\ \A t \in Definitions, x \in Version : rows'[t][x] = New(t, x)
  BY <1>1, WriteRows DEF StoreInv
<1>3. \A t \in Definitions, u \in Writer \ {w} : (rows'[t][u] = "none") = (rows[t][u] = "none")
  BY <1>2 DEF Version
<1> HIDE DEF New
<1>4. StoreTypes'
  BY <1>2 DEF StoreInv, StoreTypes
<1>5. \A u \in Writer \ {w} : WriterFacts(u)' /\ Unseen(u)'
  BY <1>3 DEF StoreInv, WriterInv, WriterFacts, Resting, Deleting, Creating, LostIsVictim, Unseen
<1>6. Unseen(w)'
  BY DEF Unseen, Deletes
<1>7. WriterInv'
  BY <1>5, <1>6 DEF WriterInv, WriterFacts
<1>8. SavesAreAtomic'
  BY DEF SavesAreAtomic, Deletes
<1>9. ReportIsTrue'
  BY <1>3 DEF StoreInv, ReportIsTrue, Deletes
<1>10. victims = {} => Listed' \subseteq Listed
  BY <1>2 DEF Listed, New, Definitions
<1>11. OneVersion'
  BY <1>10 DEF StoreInv, OneVersion, CreatesAlone, Creates
<1>12. CreatesNew'
  <2> SUFFICES ASSUME CreatesAlone, victims = {}, NEW u \in Creates, wr'[u].pc = "create"
               PROVE  Listed' = {}
    BY DEF CreatesNew, CreatesAlone, Creates
  <2>1. wr[u].pc = "create"
    BY DEF Creates
  <2> QED
    BY <2>1, <1>10 DEF StoreInv, CreatesNew
<1> QED
  BY <1>4, <1>7, <1>8, <1>9, <1>11, <1>12 DEF StoreInv

(* The commit of a Save, after which the writer is in the state W. *)
LEMMA CommitStep ==
    ASSUME StoreInv, NEW w \in Writer, UNCHANGED << plan, victims >>,
           wr[w].pc = "create", wr[w].todo = {}, ~ wr[w].bad,
           Write(wr[w].inv, wr[w].ins, w), NEW W \in WriterSet, wr' = [wr EXCEPT ![w] = W],
           W.pc = "over" /\ W.todo = {} /\ W.at = NoTable /\ W.inv = {} /\ W.ins = {},
           (W.tx = "none" /\ ~ W.bad) \/ W.tx = "unsure"
    PROVE  StoreInv'
<1> DEFINE New(t, x) == IF x = w /\ t \in wr[w].ins THEN "normal"
                        ELSE IF t \in wr[w].inv /\ rows[t][x] = "normal" THEN "invalid"
                        ELSE rows[t][x]
<1>1. w \in Version
  BY DEF Version
<1>2. /\ rows' \in [Definitions -> [Version -> Statuses]]
      /\ \A t \in Definitions, x \in Version : rows'[t][x] = New(t, x)
  BY <1>1, WriteRows DEF StoreInv
<1>3. \A t \in Definitions, u \in Writer \ {w} : (rows'[t][u] = "none") = (rows[t][u] = "none")
  BY <1>2 DEF Version
<1>4. /\ wr[w].ins = Definitions
      /\ plan.mode[w] \in {"update", "create"}
      /\ w \notin victims => /\ plan.mode[w] = "update" => wr[w].inv = Tables
                             /\ plan.mode[w] = "create" => wr[w].inv = {}
  BY DEF StoreInv, WriterInv, Creating
<1>5. \A t \in Definitions : rows'[t][w] = "normal"
  BY <1>1, <1>2, <1>4
<1>7. /\ wr' \in [Writer -> WriterSet]
      /\ \A u \in Writer \ {w} : wr'[u] = wr[u]
      /\ wr'[w] = W
  BY DEF StoreInv, StoreTypes
<1>8. StoreTypes'
  BY <1>2, <1>7 DEF StoreInv, StoreTypes
<1>9. \A u \in Writer \ {w} : WriterFacts(u)' /\ Unseen(u)'
  BY <1>3, <1>7 DEF StoreInv, WriterInv, WriterFacts, Resting, Deleting, Creating,
     LostIsVictim, Unseen
<1>10. WriterFacts(w)' /\ Unseen(w)'
  BY <1>7 DEF WriterFacts, Resting, Deleting, Creating, LostIsVictim, Unseen
<1>11. WriterInv'
  BY <1>9, <1>10 DEF WriterInv, WriterFacts
<1>12. SavesAreAtomic'
  <2> SUFFICES ASSUME Deletes = {}, victims = {}, NEW v \in Version, NEW t \in Definitions
               PROVE  rows'[t][v] = rows'["workflow"][v]
    BY DEF SavesAreAtomic, Deletes
  <2>1. rows[t][v] = rows["workflow"][v]
    BY DEF StoreInv, SavesAreAtomic
  <2>2. wr[w].inv \in {Tables, {}} /\ "workflow" \in Definitions /\ Definitions \subseteq Tables
    BY <1>4 DEF Definitions, Tables
  <2> QED
    BY <1>2, <1>4, <2>1, <2>2
<1>13. ReportIsTrue'
  <2>1. \A t \in Definitions : (rows'[t][w] = "none") = (wr'[w].bad /\ wr'[w].tx # "unsure")
    BY <1>5, <1>7
  <2>2. ASSUME NEW u \in Writer \ {w}, u \notin Deletes, u \notin victims,
               wr[u].pc = "over", NEW t \in Definitions
        PROVE  (rows'[t][u] = "none") = (wr[u].bad /\ wr[u].tx # "unsure")
    <3>1. (rows[t][u] = "none") = (wr[u].bad /\ wr[u].tx # "unsure")
      BY <2>2 DEF StoreInv, ReportIsTrue
    <3> QED
      BY <1>3, <2>2, <3>1
  <2> SUFFICES ASSUME NEW u \in Writer, u \notin Deletes, u \notin victims,
                      wr'[u].pc = "over", NEW t \in Definitions
               PROVE  (rows'[t][u] = "none") = (wr'[u].bad /\ wr'[u].tx # "unsure")
    BY DEF ReportIsTrue, Deletes
  <2>3. CASE u = w
    BY <2>1, <2>3
  <2>4. CASE u # w
    <3>1. wr'[u] = wr[u]
      BY <1>7, <2>4
    <3> QED
      BY <2>2, <2>4, <3>1
  <2> QED
    BY <2>3, <2>4
<1>14. ASSUME CreatesAlone, victims = {}
       PROVE  Listed' \subseteq {w}
  <2> SUFFICES ASSUME NEW v \in Version, v # w
               PROVE  rows'["workflow"][v] # "normal"
    BY DEF Listed
  <2>1. "workflow" \in Definitions /\ "workflow" \in Tables
    BY DEF Definitions, Tables
  <2>2. CASE plan.mode[w] = "update"
    BY <1>2, <1>4, <1>14, <2>1, <2>2
  <2>3. CASE plan.mode[w] = "create"
    <3>1. Listed = {}
      BY <1>14, <2>3 DEF StoreInv, CreatesNew, Creates
    <3> QED
      BY <1>2, <1>4, <1>14, <2>1, <2>3, <3>1 DEF Listed
  <2> QED
    BY <1>4, <2>2, <2>3
<1>15. OneVersion'
  <2>1. CreatesAlone' => CreatesAlone
    BY DEF CreatesAlone, Creates
  <2> QED
    BY <1>14, <2>1 DEF OneVersion
<1>16. CreatesNew'
  BY <1>4, <1>7 DEF CreatesNew, CreatesAlone, Creates
<1> QED
  BY <1>8, <1>11, <1>12, <1>13, <1>15, <1>16 DEF StoreInv

-----------------------------------------------------------------------------
(* The actions of a writer.                                                *)
USE DEF NoWrite

LEMMA BeginStep ==
    ASSUME StoreInv, NEW w \in Writer, Begin(w)
    PROVE  StoreInv'
<1>1. wr \in [Writer -> WriterSet] /\ wr[w] \in WriterSet
  BY DEF StoreInv, StoreTypes
<1>2. wr' \in [Writer -> WriterSet] /\ \A u \in Writer \ {w} : wr'[u] = wr[u]
  BY <1>1 DEF Begin, WriterSet
<1>3. wr'[w].pc \in {"delete", "check"}
  BY <1>1 DEF Begin, WriterSet
<1>4. WriterFacts(w)'
  BY <1>1, StoreAssumption DEF Begin, WriterFacts, Resting, Deleting, Creating, LostIsVictim,
     StoreInv, WriterInv, WriterSet
<1> QED
  BY <1>2, <1>3, <1>4, SilentStep DEF Begin

LEMMA StatementStep ==
    ASSUME StoreInv, NEW w \in Writer, NEW t \in Tables, Statement(w, t)
    PROVE  StoreInv'
<1>1. wr \in [Writer -> WriterSet] /\ wr[w] \in WriterSet
  BY DEF StoreInv, StoreTypes
<1>2. wr[w].pc \in {"delete", "create"} /\ t \in wr[w].todo
  BY <1>1 DEF Statement, MaySend, WriterSet, StoreInv, WriterInv, Resting
<1>3. wr[w].pc = "create" => t \in Definitions
  BY <1>2 DEF StoreInv, WriterInv, Resting
<1> DEFINE upd == IF wr[w].pc = "delete" THEN {t} ELSE {}
           new == IF wr[w].pc = "create" THEN {t} ELSE {}
<1>4. CASE wr[w].tx = "open"
  <2>1. wr' = [Done(w, t) EXCEPT ![w].inv = @ \cup upd, ![w].ins = @ \cup new]
    BY <1>4 DEF Statement
  <2>2. wr' = [wr EXCEPT ![w] = [wr[w] EXCEPT !.todo = @ \ {t}, !.at = NoTable,
                                               !.inv = @ \cup upd, !.ins = @ \cup new]]
    BY <1>1, <2>1 DEF Done, WriterSet
  <2>3. wr' \in [Writer -> WriterSet] /\ \A u \in Writer \ {w} : wr'[u] = wr[u]
    BY <1>1, <1>2, <1>3, <2>2 DEF WriterSet
  <2>4. wr'[w].pc = wr[w].pc
    BY <1>1, <2>2 DEF WriterSet
  <2>5. WriterFacts(w)'
    BY <1>1, <1>2, <1>3, <1>4, <2>2
    DEF WriterFacts, Resting, Deleting, Creating, LostIsVictim, StoreInv, WriterInv, WriterSet,
        Statement
  <2> QED
    BY <1>2, <1>4, <2>3, <2>4, <2>5, SilentStep DEF Statement
<1>5. CASE wr[w].tx # "open"
  <2>1. wr' = Done(w, t) /\ Write(upd, new, w)
    BY <1>5 DEF Statement
  <2>2. wr' = [wr EXCEPT ![w] = [wr[w] EXCEPT !.todo = @ \ {t}, !.at = NoTable]]
    BY <1>1, <2>1 DEF Done, WriterSet
  <2>3. wr' \in [Writer -> WriterSet] /\ \A u \in Writer \ {w} : wr'[u] = wr[u]
    BY <1>1, <2>2 DEF WriterSet
  <2>4. wr'[w].pc = wr[w].pc
    BY <1>1, <2>2 DEF WriterSet
  <2>5. WriterFacts(w)'
    BY <1>1, <1>2, <1>5, <2>2
    DEF WriterFacts, Resting, Deleting, Creating, LostIsVictim, StoreInv, WriterInv, WriterSet,
        Statement
  <2>6. (w \in Deletes /\ new = {}) \/ w \in victims
    BY <1>1, <1>2, <1>5 DEF StoreInv, WriterInv, Resting, Deleting, Creating, LostIsVictim,
       WriterSet, Deletes
  <2> HIDE DEF upd, new
  <2> QED
    BY <2>1, <2>3, <2>4, <2>5, <2>6, LooseStep DEF Statement
<1> QED
  BY <1>4, <1>5

LEMMA WaitsStep ==
    ASSUME StoreInv, NEW w \in Writer, NEW t \in Tables, Waits(w, t)
    PROVE  StoreInv'
<1>1. wr \in [Writer -> WriterSet] /\ wr[w] \in WriterSet
  BY DEF StoreInv, StoreTypes
<1>2. wr' = [wr EXCEPT ![w] = [wr[w] EXCEPT !.at = t]] /\ t \in wr[w].todo
  BY <1>1 DEF Waits, MaySend, WriterSet
<1>3. wr' \in [Writer -> WriterSet] /\ \A u \in Writer \ {w} : wr'[u] = wr[u]
  BY <1>1, <1>2 DEF WriterSet
<1>4. wr'[w].pc = wr[w].pc /\ wr[w].pc \in {"delete", "create"}
  BY <1>1, <1>2 DEF WriterSet, StoreInv, WriterInv, Resting
<1>5. WriterFacts(w)'
  BY <1>1, <1>2 DEF WriterFacts, Resting, Deleting, Creating, LostIsVictim, StoreInv, WriterInv,
     WriterSet, Waits
<1> QED
  BY <1>3, <1>4, <1>5, SilentStep DEF Waits

LEMMA StatementFailsStep ==
    ASSUME StoreInv, NEW w \in Writer, NEW t \in Tables, StatementFails(w, t)
    PROVE  StoreInv'
<1>1. wr \in [Writer -> WriterSet] /\ wr[w] \in WriterSet
  BY DEF StoreInv, StoreTypes
<1>2. wr' = [wr EXCEPT ![w] = [wr[w] EXCEPT !.todo = @ \ {t}, !.at = NoTable, !.bad = TRUE]]
  BY <1>1 DEF StatementFails, Done, WriterSet
<1>3. t \in wr[w].todo
  BY DEF StatementFails, MaySend
<1>4. wr' \in [Writer -> WriterSet] /\ \A u \in Writer \ {w} : wr'[u] = wr[u]
  BY <1>1, <1>2 DEF WriterSet
<1>5. wr'[w].pc = wr[w].pc /\ wr[w].pc \in {"delete", "create"}
  BY <1>1, <1>2, <1>3 DEF WriterSet, StoreInv, WriterInv, Resting
<1>6. WriterFacts(w)'
  <2>1. UNCHANGED << plan, victims >>
    BY DEF StatementFails
  <2>2. /\ wr'[w].todo = wr[w].todo \ {t} /\ wr'[w].at = NoTable /\ wr'[w].bad
        /\ wr'[w].tx = wr[w].tx /\ wr'[w].inv = wr[w].inv /\ wr'[w].ins = wr[w].ins
    BY <1>1, <1>2 DEF WriterSet
  <2>3. Resting(w) /\ Deleting(w) /\ Creating(w) /\ LostIsVictim(w)
    BY DEF StoreInv, WriterInv
  <2>4. Resting(w)'
    BY <1>5, <2>2, <2>3 DEF Resting
  <2>5. Deleting(w)' /\ Creating(w)' /\ LostIsVictim(w)'
    BY <1>5, <2>1, <2>2, <2>3 DEF Deleting, Creating, LostIsVictim
  <2> QED
    BY <2>4, <2>5 DEF WriterFacts
<1> QED
  BY <1>4, <1>5, <1>6, SilentStep DEF StatementFails

LEMMA DeadlockStep ==
    ASSUME StoreInv, NEW w \in Writer, Deadlock(w)
    PROVE  StoreInv'
<1>1. wr \in [Writer -> WriterSet] /\ wr[w] \in WriterSet
  BY DEF StoreInv, StoreTypes
<1>2. wr' = [wr EXCEPT ![w] = [wr[w] EXCEPT !.todo = @ \ {wr[w].at}, !.at = NoTable,
                                 !.bad = TRUE, !.tx = "lost", !.inv = {}, !.ins = {}]]
  BY <1>1 DEF Deadlock, Done, WriterSet
<1>3. wr[w].at \in wr[w].todo
  BY DEF Deadlock, InCycle, StoreInv, WriterInv, Resting
<1>4. wr' \in [Writer -> WriterSet] /\ \A u \in Writer \ {w} : wr'[u] = wr[u]
  BY <1>1, <1>2 DEF WriterSet
<1>5. wr'[w].pc = wr[w].pc /\ wr[w].pc \in {"delete", "create"}
  BY <1>1, <1>2, <1>3 DEF WriterSet, StoreInv, WriterInv, Resting
<1>6. WriterFacts(w)'
  <2>1. plan' = plan /\ w \in victims'
    BY DEF Deadlock
  <2>2. /\ wr'[w].todo = wr[w].todo \ {wr[w].at} /\ wr'[w].at = NoTable /\ wr'[w].bad
        /\ wr'[w].tx = "lost" /\ wr'[w].inv = {} /\ wr'[w].ins = {}
    BY <1>1, <1>2 DEF WriterSet
  <2>3. Resting(w) /\ Deleting(w) /\ Creating(w) /\ wr[w].tx # "none"
    BY DEF StoreInv, WriterInv, Resting, Deadlock, InCycle
  <2>4. Resting(w)'
    BY <1>5, <2>2, <2>3 DEF Resting
  <2>5. Deleting(w)' /\ Creating(w)' /\ LostIsVictim(w)'
    BY <1>5, <2>1, <2>2, <2>3 DEF Deleting, Creating, LostIsVictim
  <2> QED
    BY <2>4, <2>5 DEF WriterFacts
<1> QED
  BY <1>4, <1>5, <1>6, SilentStep DEF Deadlock

LEMMA RollbackStep ==
    ASSUME StoreInv, NEW w \in Writer, UNCHANGED << plan, rows, victims >>,
           wr[w].pc # "over", NEW b \in BOOLEAN, Over(w, b), b \/ w \in Deletes
    PROVE  StoreInv'
<1> DEFINE W == [NoWriter EXCEPT !.pc = "over", !.bad = b]
<1>1. wr' = [wr EXCEPT ![w] = W] /\ W \in WriterSet
  BY DEF Over, WriterSet, NoWriter
<1>2. /\ wr' \in [Writer -> WriterSet]
      /\ \A u \in Writer \ {w} : wr'[u] = wr[u]
      /\ wr'[w] = W
  BY <1>1 DEF StoreInv, StoreTypes
<1>3. WriterFacts(w)'
  BY <1>2 DEF WriterFacts, Resting, Deleting, Creating, LostIsVictim, NoWriter
<1>4. wr'[w].pc = "over" /\ wr'[w].bad = b /\ wr'[w].tx = "none"
  BY <1>2 DEF NoWriter
<1> QED
  BY <1>2, <1>3, <1>4, SilentStep

LEMMA DeletedStep ==
    ASSUME StoreInv, NEW w \in Writer, Deleted(w)
    PROVE  StoreInv'
<1>1. wr \in [Writer -> WriterSet] /\ wr[w] \in WriterSet
  BY DEF StoreInv, StoreTypes
<1>2. wr[w].pc = "delete" /\ wr[w].todo = {} /\ UNCHANGED << plan, victims >>
  BY DEF Deleted
<1>3. wr[w].bad \in BOOLEAN
  BY <1>1 DEF WriterSet
<1>4. CASE plan.mode[w] = "delete"
  <2>1. UNCHANGED rows /\ Over(w, wr[w].bad)
    BY <1>4 DEF Deleted
  <2> QED
    BY <1>2, <1>3, <1>4, <2>1, RollbackStep DEF Deletes
<1>5. CASE plan.mode[w] # "delete" /\ wr[w].bad
  <2>1. UNCHANGED rows /\ Over(w, TRUE)
    BY <1>5 DEF Deleted, Rollback
  <2> QED
    BY <1>2, <2>1, RollbackStep
<1>6. CASE plan.mode[w] # "delete" /\ ~ wr[w].bad
  <2>1. wr' = [wr EXCEPT ![w] = [wr[w] EXCEPT !.pc = "check"]] /\ UNCHANGED rows
    BY <1>6 DEF Deleted
  <2>2. wr' \in [Writer -> WriterSet] /\ \A u \in Writer \ {w} : wr'[u] = wr[u]
    BY <1>1, <2>1 DEF WriterSet
  <2>3. /\ wr'[w].pc = "check" /\ wr'[w].bad = wr[w].bad /\ wr'[w].todo = wr[w].todo
        /\ wr'[w].at = wr[w].at /\ wr'[w].tx = wr[w].tx
        /\ wr'[w].inv = wr[w].inv /\ wr'[w].ins = wr[w].ins
    BY <1>1, <2>1 DEF WriterSet
  <2>4. Resting(w) /\ Deleting(w) /\ LostIsVictim(w) /\ wr[w].tx \in {"none", "open", "lost"}
    BY <1>1, <1>2 DEF StoreInv, WriterInv, WriterSet, Resting
  <2>5. plan.mode[w] = "update" /\ wr[w].tx = "open" /\ wr[w].inv = Tables /\ wr[w].ins = {}
    BY <1>2, <1>6, <2>4 DEF Deleting, LostIsVictim
  <2>6. WriterFacts(w)'
    BY <1>2, <1>6, <2>3, <2>4, <2>5
    DEF WriterFacts, Resting, Deleting, Creating, LostIsVictim
  <2> QED
    BY <1>2, <2>1, <2>2, <2>3, <2>6, SilentStep
<1> QED
  BY <1>4, <1>5, <1>6

LEMMA CheckStep ==
    ASSUME StoreInv, NEW w \in Writer, Check(w)
    PROVE  StoreInv'
<1>1. wr \in [Writer -> WriterSet] /\ wr[w] \in WriterSet
  BY DEF StoreInv, StoreTypes
<1>2. wr[w].pc = "check" /\ UNCHANGED << plan, victims, rows >>
  BY DEF Check, Rollback
<1>3. CASE Over(w, TRUE)
  BY <1>2, <1>3, RollbackStep
<1>4. CASE /\ ~ Exists(w)
           /\ wr' = [wr EXCEPT ![w].pc = "create", ![w].todo = Definitions]
  <2>1. wr' = [wr EXCEPT ![w] = [wr[w] EXCEPT !.pc = "create", !.todo = Definitions]]
    BY <1>1, <1>4 DEF WriterSet
  <2>2. wr' \in [Writer -> WriterSet] /\ \A u \in Writer \ {w} : wr'[u] = wr[u]
    BY <1>1, <2>1 DEF WriterSet, Tables
  <2>3. /\ wr'[w].pc = "create" /\ wr'[w].bad = wr[w].bad /\ wr'[w].todo = Definitions
        /\ wr'[w].at = wr[w].at /\ wr'[w].tx = wr[w].tx
        /\ wr'[w].inv = wr[w].inv /\ wr'[w].ins = wr[w].ins
    BY <1>1, <2>1 DEF WriterSet
  <2>4. Resting(w) /\ Creating(w) /\ LostIsVictim(w)
    BY DEF StoreInv, WriterInv
  <2>5. wr[w].at = NoTable /\ wr[w].ins = {}
    BY <1>2, <2>4 DEF Resting, Creating
  <2>6. WriterFacts(w)'
    BY <1>2, <2>3, <2>4, <2>5 DEF WriterFacts, Resting, Deleting, Creating, LostIsVictim
  <2>7. w \in Creates /\ victims = {} => Listed = {}
    BY <1>2, <1>4, <2>4 DEF Exists, Creating, Creates
  <2> QED
    BY <1>2, <2>2, <2>3, <2>6, <2>7, SilentStep
<1> QED
  BY <1>3, <1>4 DEF Check, Rollback

LEMMA CreatedStep ==
    ASSUME StoreInv, NEW w \in Writer, Created(w)
    PROVE  StoreInv'
<1>1. wr[w].pc = "create" /\ wr[w].todo = {} /\ UNCHANGED << plan, victims >>
  BY DEF Created
<1>2. CASE Rollback(w)
  <2>1. UNCHANGED rows /\ Over(w, TRUE)
    BY <1>2 DEF Rollback
  <2> QED
    BY <1>1, <2>1, RollbackStep
<1>3. CASE ~ wr[w].bad /\ Commit(w)
  <2> DEFINE W == [NoWriter EXCEPT !.pc = "over", !.bad = FALSE]
  <2>1. wr' = [wr EXCEPT ![w] = W] /\ Write(wr[w].inv, wr[w].ins, w)
    BY <1>3 DEF Commit, Over
  <2>2. /\ W \in WriterSet /\ W.pc = "over" /\ W.todo = {} /\ W.at = NoTable
        /\ W.inv = {} /\ W.ins = {} /\ W.tx = "none" /\ ~ W.bad
    BY DEF NoWriter, WriterSet
  <2> HIDE DEF W
  <2> QED
    BY <1>1, <1>3, <2>1, <2>2, CommitStep
<1>4. CASE ~ wr[w].bad /\ CommitUnanswered(w)
  <2> DEFINE W == [NoWriter EXCEPT !.pc = "over", !.bad = TRUE, !.tx = "unsure"]
  <2>1. wr' = [wr EXCEPT ![w] = W] /\ Write(wr[w].inv, wr[w].ins, w)
    BY <1>4 DEF CommitUnanswered
  <2>2. /\ W \in WriterSet /\ W.pc = "over" /\ W.todo = {} /\ W.at = NoTable
        /\ W.inv = {} /\ W.ins = {} /\ W.tx = "unsure"
    BY DEF NoWriter, WriterSet
  <2> HIDE DEF W
  <2> QED
    BY <1>1, <1>4, <2>1, <2>2, CommitStep
<1> QED
  BY <1>2, <1>3, <1>4 DEF Created

LEMMA CrashStep ==
    ASSUME StoreInv, ControllerCrash
    PROVE  StoreInv'
<1>1. UNCHANGED << plan, rows, victims >>
  BY DEF ControllerCrash
<1>2. ASSUME NEW w \in Writer
      PROVE  /\ wr'[w] \in WriterSet /\ wr'[w].pc = "over"
             /\ wr[w].pc = "over" => wr'[w] = wr[w]
             /\ wr[w].pc # "over" => wr'[w] = [NoWriter EXCEPT !.pc = "over", !.bad = TRUE]
  BY DEF ControllerCrash, NoWriter, WriterSet, StoreInv, StoreTypes
<1>3. wr' = [w \in Writer |-> wr'[w]]
  BY DEF ControllerCrash
<1>4. StoreTypes'
  BY <1>1, <1>2, <1>3 DEF StoreInv, StoreTypes
<1>5. WriterInv'
  <2> SUFFICES ASSUME NEW w \in Writer
               PROVE  /\ Resting(w)' /\ Deleting(w)' /\ Creating(w)' /\ LostIsVictim(w)'
                      /\ Unseen(w)'
    BY DEF WriterInv
  <2>1. Deleting(w)' /\ Creating(w)' /\ Unseen(w)'
    BY <1>2 DEF Deleting, Creating, Unseen
  <2>2. CASE wr[w].pc = "over"
    BY <1>1, <1>2, <2>1, <2>2 DEF StoreInv, WriterInv, Resting, LostIsVictim
  <2>3. CASE wr[w].pc # "over"
    BY <1>2, <2>1, <2>3 DEF Resting, LostIsVictim, NoWriter
  <2> QED
    BY <2>2, <2>3
<1>6. SavesAreAtomic'
  BY <1>1 DEF StoreInv, SavesAreAtomic, Deletes
<1>7. ReportIsTrue'
  <2> SUFFICES ASSUME NEW u \in Writer, u \notin Deletes, u \notin victims,
                      NEW t \in Definitions
               PROVE  (rows[t][u] = "none") = (wr'[u].bad /\ wr'[u].tx # "unsure")
    BY <1>1 DEF ReportIsTrue, Deletes
  <2>1. CASE wr[u].pc # "over"
    <3>1. rows[t][u] = "none"
      BY <2>1 DEF StoreInv, WriterInv, Unseen, Deletes
    <3>2. wr'[u].bad = TRUE /\ wr'[u].tx = "none"
      BY <1>2, <2>1 DEF NoWriter
    <3> QED
      BY <3>1, <3>2
  <2>2. CASE wr[u].pc = "over"
    <3>1. (rows[t][u] = "none") = (wr[u].bad /\ wr[u].tx # "unsure")
      BY <2>2 DEF StoreInv, ReportIsTrue
    <3> QED
      BY <1>2, <2>2, <3>1
  <2> QED
    BY <2>1, <2>2
<1>8. OneVersion'
  BY <1>1 DEF StoreInv, OneVersion, CreatesAlone, Creates, Listed
<1>9. CreatesNew'
  BY <1>1, <1>2 DEF CreatesNew, Creates
<1> QED
  BY <1>4, <1>5, <1>6, <1>7, <1>8, <1>9 DEF StoreInv

(* No step of the scheduler, of Start or of the observer touches the       *)
(* definition.                                                             *)
LEMMA OtherSteps ==
    SelectStartTask \/ InsertInstance \/ InsertTaskInstance \/ EngineStep =>
        UNCHANGED << plan, rows, wr, victims >>
  BY DEF SelectStartTask, InsertInstance, InsertTaskInstance, EngineStep, SelectTaskInstance,
     ReadDone, Claim, RunNext, RunComplete, Finish, Assign, Return, schedulerFrame

LEMMA StoreNext == StoreInv /\ [Next]_vars => StoreInv'
<1> SUFFICES ASSUME StoreInv, [Next]_vars PROVE StoreInv'
  OBVIOUS
<1>1. ASSUME NEW w \in Writer, WriterStep(w) PROVE StoreInv'
  BY <1>1, BeginStep, StatementStep, WaitsStep, StatementFailsStep, DeadlockStep, DeletedStep,
     CheckStep, CreatedStep DEF WriterStep
<1>2. CASE ControllerCrash
  BY <1>2, CrashStep
<1>3. CASE SelectStartTask \/ InsertInstance \/ InsertTaskInstance \/ EngineStep
  BY <1>3, OtherSteps, StoreSame
<1>4. CASE UNCHANGED vars
  BY <1>4, StoreSame DEF vars
<1> QED
  BY <1>1, <1>2, <1>3, <1>4 DEF Next

-----------------------------------------------------------------------------
LEMMA StoreInvariant == Spec => []StoreInv
  BY StoreInit, StoreNext, PTL DEF Spec

(* Saves are atomic: whatever number of Saves, failing statements and      *)
(* crashes of the controller interleave, a version is in all the tables    *)
(* with one status (dal.Save: its handlers share one transaction), unless  *)
(* a Delete ran or a deadlock took a transaction away.                     *)
THEOREM SavesAtomic == Spec => []SavesAreAtomic
<1>1. StoreInv => SavesAreAtomic
  BY DEF StoreInv
<1> QED
  BY <1>1, StoreInvariant, PTL

(* The answer of every Save that no deadlock hit tells what is stored:     *)
(* after success all of it, after an error nothing, with the one exception *)
(* of a COMMIT whose answer was lost, after which all of it is there too.  *)
(* A COMMIT may be refused, carried out without an answer, or follow on    *)
(* failed statements and crashes, and any number of other requests.        *)
THEOREM ReportsTrue == Spec => []ReportIsTrue
<1>1. StoreInv => ReportIsTrue
  BY DEF StoreInv
<1> QED
  BY <1>1, StoreInvariant, PTL

(* One version is offered at a time, with any number of updating Saves and *)
(* Deletes, or one creating Save.                                          *)
THEOREM VersionUnique == Spec => []OneVersion
<1>1. StoreInv => OneVersion
  BY DEF StoreInv
<1> QED
  BY <1>1, StoreInvariant, PTL

-----------------------------------------------------------------------------
(* The rows of a version are inserted once: they are not there before, and *)
(* once invalid they stay so.                                              *)
InsertsOnce(w) ==
    /\ wr[w].pc \in {"idle", "delete", "check"} => \A t \in Definitions : rows[t][w] = "none"
    /\ wr[w].pc = "create" => \A t \in wr[w].todo \cup wr[w].ins : rows[t][w] = "none"
    /\ wr[w].tx = "lost" => wr[w].ins = {}

Aged(t, x) == rows'[t][x] = rows[t][x] \/ (rows[t][x] = "normal" /\ rows'[t][x] = "invalid")

(* A step of writer w that inserts its version into the tables N. *)
WritesRows(w, N) ==
    /\ N \subseteq Definitions
    /\ \A t \in Definitions, x \in Version : (x = w /\ t \in N) \/ Aged(t, x)
    /\ \A t \in N : rows[t][w] = "none" /\ rows'[t][w] = "normal"

Proceeds(w, N) ==
    /\ \A u \in Writer \ {w} : wr'[u] = wr[u]
    /\ \/ wr'[w].pc = "over"
       \/ N = {} /\ wr[w].pc \in {"idle", "delete", "check"} /\ wr'[w].pc \in {"delete", "check", "create"}
       \/ /\ wr[w].pc = "create" /\ wr'[w].pc = "create"
          /\ wr'[w].todo \cup wr'[w].ins \subseteq (wr[w].todo \cup wr[w].ins) \ N
    /\ wr'[w].tx = "lost" => wr'[w].ins = {}

LEMMA NothingWritten ==
    ASSUME NEW w \in Writer, UNCHANGED rows
    PROVE  WritesRows(w, {})
BY DEF WritesRows, Aged

(* What a commit or a single statement writes. *)
LEMMA WriteInserts ==
    ASSUME StoreInv, NEW w \in Writer, NEW inv, NEW ins, ins \subseteq Definitions, Write(inv, ins, w),
           \A t \in ins : rows[t][w] = "none"
    PROVE  WritesRows(w, ins)
<1>1. w \in Version
  BY DEF Version
<1>2. \A t \in Definitions, x \in Version :
        rows'[t][x] = IF x = w /\ t \in ins THEN "normal"
                      ELSE IF t \in inv /\ rows[t][x] = "normal" THEN "invalid"
                      ELSE rows[t][x]
  BY <1>1, WriteRows DEF StoreInv
<1> QED
  BY <1>1, <1>2 DEF WritesRows, Aged

LEMMA StatementProceeds ==
    ASSUME StoreInv, NEW w \in Writer, InsertsOnce(w), NEW t \in Tables, Statement(w, t)
    PROVE  \E N : WritesRows(w, N) /\ Proceeds(w, N)
<1>1. wr \in [Writer -> WriterSet] /\ wr[w] \in WriterSet
  BY DEF StoreInv, StoreTypes
<1>2. t \in wr[w].todo /\ wr[w].pc \in {"delete", "create"}
  BY <1>1 DEF Statement, MaySend, StoreInv, WriterInv, Resting, WriterSet
<1>3. wr[w].pc = "create" => t \in Definitions
  BY <1>2 DEF StoreInv, WriterInv, Resting
<1> DEFINE upd == IF wr[w].pc = "delete" THEN {t} ELSE {}
           new == IF wr[w].pc = "create" THEN {t} ELSE {}
<1>4. CASE wr[w].tx = "open"
  <2>1. wr' = [Done(w, t) EXCEPT ![w].inv = @ \cup upd, ![w].ins = @ \cup new] /\ UNCHANGED rows
    BY <1>4 DEF Statement, NoWrite
  <2>2. wr' = [wr EXCEPT ![w] = [wr[w] EXCEPT !.todo = @ \ {t}, !.at = NoTable,
                                               !.inv = @ \cup upd, !.ins = @ \cup new]]
    BY <1>1, <2>1 DEF Done, WriterSet
  <2>3. /\ wr'[w].pc = wr[w].pc /\ wr'[w].todo = wr[w].todo \ {t} /\ wr'[w].ins = wr[w].ins \cup new
        /\ wr'[w].tx = "open" /\ \A u \in Writer \ {w} : wr'[u] = wr[u]
    BY <1>1, <1>4, <2>2 DEF WriterSet
  <2>4. Proceeds(w, {})
    BY <1>2, <2>3 DEF Proceeds
  <2> QED
    BY <2>1, <2>4, NothingWritten
<1>5. CASE wr[w].tx # "open"
  <2>1. wr' = Done(w, t) /\ Write(upd, new, w)
    BY <1>5 DEF Statement
  <2>2. wr' = [wr EXCEPT ![w] = [wr[w] EXCEPT !.todo = @ \ {t}, !.at = NoTable]]
    BY <1>1, <2>1 DEF Done, WriterSet
  <2>3. /\ wr'[w].pc = wr[w].pc /\ wr'[w].todo = wr[w].todo \ {t} /\ wr'[w].ins = wr[w].ins
        /\ wr'[w].tx = wr[w].tx /\ \A u \in Writer \ {w} : wr'[u] = wr[u]
    BY <1>1, <2>2 DEF WriterSet
  <2>4. wr[w].pc = "create" => wr[w].ins = {}
    BY <1>1, <1>5 DEF InsertsOnce, StoreInv, WriterInv, Creating, WriterSet
  <2>5. new \subseteq Definitions /\ \A s \in new : rows[s][w] = "none"
    BY <1>2, <1>3 DEF InsertsOnce
  <2>6. Proceeds(w, new)
    BY <1>2, <2>3, <2>4 DEF Proceeds, InsertsOnce
  <2> HIDE DEF upd, new
  <2>7. WritesRows(w, new)
    BY <2>1, <2>5, WriteInserts
  <2> QED
    BY <2>6, <2>7
<1> QED
  BY <1>4, <1>5

LEMMA WriterProceeds ==
    ASSUME StoreInv, NEW w \in Writer, InsertsOnce(w), WriterStep(w)
    PROVE  \E N : WritesRows(w, N) /\ Proceeds(w, N)
<1>1. wr \in [Writer -> WriterSet] /\ wr[w] \in WriterSet
  BY DEF StoreInv, StoreTypes
<1>2. ASSUME NEW b, Over(w, b) PROVE \A N : Proceeds(w, N)
  <2>1. wr' = [wr EXCEPT ![w] = [NoWriter EXCEPT !.pc = "over", !.bad = b]]
    BY <1>2 DEF Over
  <2>2. wr'[w].pc = "over" /\ wr'[w].tx = "none" /\ \A u \in Writer \ {w} : wr'[u] = wr[u]
    BY <1>1, <2>1 DEF NoWriter
  <2> QED
    BY <2>2 DEF Proceeds
<1>3. CASE Begin(w)
  <2>1. /\ wr'[w].pc \in {"delete", "check"} /\ wr'[w].tx # "lost"
        /\ \A u \in Writer \ {w} : wr'[u] = wr[u]
    <3>1. wr[w].pc = "idle"
      BY <1>3 DEF Begin
    <3>2. wr[w].tx = "none"
      BY <1>1, <3>1 DEF StoreInv, WriterInv, Resting, WriterSet
    <3>3. CASE wr' = [wr EXCEPT ![w].pc = "delete", ![w].todo = Tables, ![w].tx = "open"]
      <4>1. wr' = [wr EXCEPT ![w] = [wr[w] EXCEPT !.pc = "delete", !.todo = Tables, !.tx = "open"]]
        BY <1>1, <3>3 DEF WriterSet
      <4> QED
        BY <1>1, <4>1 DEF WriterSet
    <3>4. CASE wr' = [wr EXCEPT ![w].pc = "delete", ![w].todo = Tables]
      <4>1. wr' = [wr EXCEPT ![w] = [wr[w] EXCEPT !.pc = "delete", !.todo = Tables]]
        BY <1>1, <3>4 DEF WriterSet
      <4> QED
        BY <1>1, <3>2, <4>1 DEF WriterSet
    <3>5. CASE wr' = [wr EXCEPT ![w].pc = "check", ![w].tx = "open"]
      <4>1. wr' = [wr EXCEPT ![w] = [wr[w] EXCEPT !.pc = "check", !.tx = "open"]]
        BY <1>1, <3>5 DEF WriterSet
      <4> QED
        BY <1>1, <4>1 DEF WriterSet
    <3> QED
      BY <1>3, <3>3, <3>4, <3>5 DEF Begin
  <2>2. wr[w].pc = "idle" /\ UNCHANGED rows
    BY <1>3 DEF Begin, NoWrite
  <2>3. Proceeds(w, {})
    BY <1>1, <2>1, <2>2 DEF Proceeds
  <2> QED
    BY <2>2, <2>3, NothingWritten
<1>4. CASE Deadlock(w)
  <2>1. wr' = [wr EXCEPT ![w] = [wr[w] EXCEPT !.todo = @ \ {wr[w].at}, !.at = NoTable,
                                   !.bad = TRUE, !.tx = "lost", !.inv = {}, !.ins = {}]]
    BY <1>1, <1>4 DEF Deadlock, Done, WriterSet
  <2>2. wr[w].pc \in {"delete", "create"}
    BY <1>1, <1>4 DEF Deadlock, InCycle, StoreInv, WriterInv, Resting, WriterSet
  <2>3. Proceeds(w, {})
    BY <1>1, <2>1, <2>2 DEF Proceeds, WriterSet
  <2> QED
    BY <1>4, <2>3, NothingWritten DEF Deadlock, NoWrite
<1>5. CASE Deleted(w)
  <2>1. UNCHANGED rows /\ wr[w].pc = "delete"
    BY <1>5 DEF Deleted, Rollback, NoWrite
  <2>2. CASE wr' = [wr EXCEPT ![w].pc = "check"]
    <3>1. wr' = [wr EXCEPT ![w] = [wr[w] EXCEPT !.pc = "check"]]
      BY <1>1, <2>2 DEF WriterSet
    <3>2. Proceeds(w, {})
      BY <1>1, <2>1, <3>1 DEF Proceeds, WriterSet, InsertsOnce
    <3> QED
      BY <2>1, <3>2, NothingWritten
  <2> QED
    BY <1>2, <1>5, <2>1, <2>2, NothingWritten DEF Deleted, Rollback
<1>6. CASE Check(w)
  <2>1. UNCHANGED rows /\ wr[w].pc = "check"
    BY <1>6 DEF Check, Rollback, NoWrite
  <2>2. CASE wr' = [wr EXCEPT ![w].pc = "create", ![w].todo = Definitions]
    <3>1. wr' = [wr EXCEPT ![w] = [wr[w] EXCEPT !.pc = "create", !.todo = Definitions]]
      BY <1>1, <2>2 DEF WriterSet
    <3>2. Proceeds(w, {})
      BY <1>1, <2>1, <3>1 DEF Proceeds, WriterSet, InsertsOnce
    <3> QED
      BY <2>1, <3>2, NothingWritten
  <2> QED
    BY <1>2, <1>6, <2>1, <2>2, NothingWritten DEF Check, Rollback
<1>7. CASE Created(w)
  <2>0. \A N : Proceeds(w, N)
    <3>1. CASE CommitUnanswered(w)
      <4>1. wr' = [wr EXCEPT ![w] = [NoWriter EXCEPT !.pc = "over", !.bad = TRUE, !.tx = "unsure"]]
        BY <3>1 DEF CommitUnanswered
      <4>2. wr'[w].pc = "over" /\ wr'[w].tx = "unsure" /\ \A u \in Writer \ {w} : wr'[u] = wr[u]
        BY <1>1, <4>1 DEF NoWriter
      <4> QED
        BY <4>2 DEF Proceeds
    <3> QED
      BY <1>2, <1>7, <3>1 DEF Created, Rollback, Commit
  <2>1. CASE UNCHANGED rows
    BY <2>0, <2>1, NothingWritten
  <2>2. CASE Write(wr[w].inv, wr[w].ins, w)
    <3>1. wr[w].ins \subseteq Definitions /\ \A t \in wr[w].ins : rows[t][w] = "none"
      BY <1>1, <1>7 DEF Created, InsertsOnce, WriterSet
    <3>2. WritesRows(w, wr[w].ins)
      BY <2>2, <3>1, WriteInserts
    <3> QED
      BY <2>0, <3>2
  <2> QED
    BY <1>7, <2>1, <2>2 DEF Created, Rollback, Commit, CommitUnanswered, NoWrite
<1>8. ASSUME NEW t \in Tables, Waits(w, t) \/ StatementFails(w, t)
      PROVE  \E N : WritesRows(w, N) /\ Proceeds(w, N)
  <2>1. t \in wr[w].todo /\ UNCHANGED rows
    BY <1>8 DEF Waits, StatementFails, MaySend, NoWrite
  <2>2. wr[w].pc \in {"delete", "create"}
    BY <1>1, <2>1 DEF StoreInv, WriterInv, Resting, WriterSet
  <2>3. /\ wr'[w].pc = wr[w].pc /\ wr'[w].todo \subseteq wr[w].todo /\ wr'[w].ins = wr[w].ins
        /\ wr'[w].tx = wr[w].tx /\ \A u \in Writer \ {w} : wr'[u] = wr[u]
    <3>1. CASE Waits(w, t)
      <4>1. wr' = [wr EXCEPT ![w] = [wr[w] EXCEPT !.at = t]]
        BY <1>1, <3>1 DEF Waits, WriterSet
      <4> QED
        BY <1>1, <4>1 DEF WriterSet
    <3>2. CASE StatementFails(w, t)
      <4>1. wr' = [wr EXCEPT ![w] = [wr[w] EXCEPT !.todo = @ \ {t}, !.at = NoTable, !.bad = TRUE]]
        BY <1>1, <3>2 DEF StatementFails, Done, WriterSet
      <4> QED
        BY <1>1, <4>1 DEF WriterSet
    <3> QED
      BY <1>8, <3>1, <3>2
  <2>4. Proceeds(w, {})
    BY <2>2, <2>3 DEF Proceeds, InsertsOnce
  <2> QED
    BY <2>1, <2>4, NothingWritten
<1> QED
  BY <1>3, <1>4, <1>5, <1>6, <1>7, <1>8, StatementProceeds DEF WriterStep

Ages ==
    \A t \in Definitions, x \in Version :
        /\ rows[t][x] = "invalid" => rows'[t][x] = "invalid"
        /\ rows[t][x] # "none" => rows'[t][x] # "none"

LEMMA OnceNext ==
    ASSUME StoreInv, \A w \in Writer : InsertsOnce(w), [Next]_vars
    PROVE  Ages /\ \A w \in Writer : InsertsOnce(w)'
<1>0. wr \in [Writer -> WriterSet]
  BY DEF StoreInv, StoreTypes
<1>1. CASE UNCHANGED << rows, wr >>
  BY <1>1 DEF Ages, InsertsOnce
<1>2. ASSUME NEW w \in Writer, NEW N, WritesRows(w, N), Proceeds(w, N)
      PROVE  Ages /\ \A u \in Writer : InsertsOnce(u)'
  <2>1. Ages
    BY <1>2 DEF Ages, WritesRows, Aged, Version
  <2>2. ASSUME NEW u \in Writer \ {w} PROVE InsertsOnce(u)'
    <3>1. \A t \in Definitions : rows[t][u] = "none" => rows'[t][u] = "none"
      BY <1>2 DEF WritesRows, Aged, Version
    <3>2. wr'[u] = wr[u] /\ InsertsOnce(u)
      BY <1>2 DEF Proceeds
    <3>3. wr[u].pc = "create" => wr[u].todo \cup wr[u].ins \subseteq Definitions
      BY <1>0 DEF StoreInv, WriterInv, Resting, WriterSet
    <3> QED
      BY <3>1, <3>2, <3>3 DEF InsertsOnce
  <2>3. InsertsOnce(w)'
    <3>1. \A t \in Definitions \ N : rows[t][w] = "none" => rows'[t][w] = "none"
      BY <1>2 DEF WritesRows, Aged, Version
    <3>2. wr[w].pc = "create" => wr[w].todo \cup wr[w].ins \subseteq Definitions
      BY <1>0 DEF StoreInv, WriterInv, Resting, WriterSet
    <3>3. InsertsOnce(w) /\ StoreInv'
      BY StoreNext
    <3>4. wr'[w].pc = "create" => wr'[w].todo \cup wr'[w].ins \subseteq Definitions
      BY <3>3 DEF StoreInv, StoreTypes, WriterInv, Resting, WriterSet
    <3>5. CASE wr'[w].pc = "over"
      BY <1>2, <3>5 DEF InsertsOnce, Proceeds
    <3>6. CASE N = {} /\ wr[w].pc \in {"idle", "delete", "check"}
      BY <1>2, <3>1, <3>3, <3>4, <3>6 DEF InsertsOnce, Proceeds
    <3>7. CASE /\ wr[w].pc = "create" /\ wr'[w].pc = "create"
               /\ wr'[w].todo \cup wr'[w].ins \subseteq (wr[w].todo \cup wr[w].ins) \ N
      BY <1>2, <3>1, <3>2, <3>3, <3>7 DEF InsertsOnce, Proceeds
    <3> QED
      BY <1>2, <3>5, <3>6, <3>7 DEF Proceeds
  <2> QED
    BY <2>1, <2>2, <2>3
<1>3. ASSUME NEW w \in Writer, WriterStep(w) PROVE Ages /\ \A u \in Writer : InsertsOnce(u)'
  BY <1>2, <1>3, WriterProceeds
<1>4. CASE ControllerCrash
  <2>1. UNCHANGED rows
    BY <1>4 DEF ControllerCrash, NoWrite
  <2>2. \A u \in Writer : wr'[u].pc = "over" /\ wr'[u].tx # "lost"
    BY <1>4 DEF ControllerCrash, NoWriter, StoreInv, WriterInv, Resting
  <2> QED
    BY <2>1, <2>2 DEF Ages, InsertsOnce
<1>5. CASE UNCHANGED vars
  BY <1>1, <1>5 DEF vars
<1> QED
  BY <1>1, <1>3, <1>4, <1>5, OtherSteps DEF Next

-----------------------------------------------------------------------------
(* The state the scheduler, Start and the observer work on.                *)
RunTypes ==
    /\ inst \in Seq(InstStatus)
    /\ tasks \in Seq(TaskSet) /\ queue \in Seq(TaskSet)
    /\ \A i \in 1 .. Len(tasks) : tasks[i].inst \in 1 .. Len(inst)
    /\ \A i \in 1 .. Len(queue) : queue[i].inst \in 1 .. Len(inst)
    /\ eng \in EngineSet /\ (eng.pc # "idle" => eng.row \in 1 .. Len(tasks))
    /\ starts \subseteq Version
    /\ crashed \in BOOLEAN
    /\ faults \in 0 .. MaxFaults

(* No task instance is removed, or given to another instance or version. *)
TablesKeep ==
    /\ inst' \in Seq(InstStatus) /\ Len(inst') = Len(inst)
    /\ tasks' \in Seq(TaskSet) /\ Len(tasks') = Len(tasks)
    /\ \A i \in 1 .. Len(tasks) : tasks'[i].inst = tasks[i].inst /\ tasks'[i].ver = tasks[i].ver

LEMMA WriteKeeps ==
    ASSUME RunTypes, NEW inv, NEW ins, NEW v, Write(inv, ins, v) \/ NoWrite
    PROVE  TablesKeep
<1>0. inst \in Seq(InstStatus) /\ tasks \in Seq(TaskSet) /\ Len(inst) \in Nat /\ Len(tasks) \in Nat
  BY DEF RunTypes
<1>1. inst' \in Seq(InstStatus) /\ Len(inst') = Len(inst)
  <2>1. CASE inst' = inst
    BY <1>0, <2>1
  <2>2. CASE inst' = [i \in DOMAIN inst |-> "invalid"]
    <3>1. inst' = [i \in 1 .. Len(inst) |-> "invalid"] /\ "invalid" \in InstStatus
      BY <1>0, <2>2 DEF InstStatus
    <3>2. inst' \in Seq(InstStatus)
      BY <1>0, <3>1, IsASeq
    <3> QED
      BY <1>0, <3>1, <3>2
  <2> QED
    BY <2>1, <2>2 DEF Write, NoWrite
<1>2. /\ tasks' \in Seq(TaskSet) /\ Len(tasks') = Len(tasks)
      /\ \A i \in 1 .. Len(tasks) : tasks'[i].inst = tasks[i].inst /\ tasks'[i].ver = tasks[i].ver
  <2>1. CASE tasks' = tasks
    BY <1>0, <2>1
  <2>2. CASE tasks' = [i \in DOMAIN tasks |-> [tasks[i] EXCEPT !.st = "INVALID"]]
    <3>1. tasks' = [i \in 1 .. Len(tasks) |-> [tasks[i] EXCEPT !.st = "INVALID"]]
      BY <1>0, <2>2
    <3>2. ASSUME NEW i \in 1 .. Len(tasks)
          PROVE  /\ [tasks[i] EXCEPT !.st = "INVALID"] \in TaskSet
                 /\ [tasks[i] EXCEPT !.st = "INVALID"].inst = tasks[i].inst
                 /\ [tasks[i] EXCEPT !.st = "INVALID"].ver = tasks[i].ver
      <4>1. tasks[i] \in TaskSet
        BY <1>0, ElementOfSeq
      <4> QED
        BY <4>1 DEF TaskSet, TaskStatus
    <3>3. tasks' \in [1 .. Len(tasks) -> TaskSet]
      BY <3>1, <3>2
    <3>4. tasks' \in Seq(TaskSet)
      BY <1>0, <3>3
    <3>5. Len(tasks') = Len(tasks)
      BY <1>0, <3>3, <3>4
    <3> QED
      BY <3>1, <3>2, <3>4, <3>5
  <2> QED
    BY <2>1, <2>2 DEF Write, NoWrite
<1> QED
  BY <1>1, <1>2 DEF TablesKeep

(* A step of the controller. *)
LEMMA ControllerKeeps ==
    ASSUME RunTypes, ControllerCrash \/ \E w \in Writer : WriterStep(w)
    PROVE  TablesKeep /\ UNCHANGED engineVars /\ crashed' \in BOOLEAN /\ faults' \in 0 .. MaxFaults
<1>0. crashed \in BOOLEAN /\ faults \in 0 .. MaxFaults /\ MaxFaults \in Nat
  BY StoreAssumption DEF RunTypes
<1>1. Fault \/ NoFault => faults' \in 0 .. MaxFaults
  BY <1>0 DEF Fault, NoFault
<1>2. CASE ControllerCrash
  BY <1>1, <1>2, WriteKeeps DEF ControllerCrash
<1>3. ASSUME NEW w \in Writer, WriterStep(w)
      PROVE  TablesKeep /\ UNCHANGED engineVars /\ crashed' \in BOOLEAN /\ faults' \in 0 .. MaxFaults
  <2>1. CASE Begin(w) \/ Deadlock(w) \/ Deleted(w) \/ Check(w) \/ Created(w)
    <3>1. UNCHANGED << engineVars, crashed >> /\ (Fault \/ NoFault)
      BY <2>1 DEF Begin, Deadlock, Deleted, Check, Created, NoFault
    <3>2. NoWrite \/ Write(wr[w].inv, wr[w].ins, w)
      BY <2>1 DEF Begin, Deadlock, Deleted, Check, Created, Rollback, Commit, CommitUnanswered
    <3> QED
      BY <1>0, <1>1, <3>1, <3>2, WriteKeeps
  <2>2. ASSUME NEW t \in Tables, Statement(w, t)
        PROVE  TablesKeep /\ UNCHANGED engineVars /\ crashed' \in BOOLEAN /\ faults' \in 0 .. MaxFaults
    <3>1. UNCHANGED << engineVars, crashed, faults >> /\ \E upd, new : NoWrite \/ Write(upd, new, w)
      BY <2>2 DEF Statement
    <3> QED
      BY <1>0, <3>1, WriteKeeps
  <2>3. ASSUME NEW t \in Tables, Waits(w, t) \/ StatementFails(w, t)
        PROVE  TablesKeep /\ UNCHANGED engineVars /\ crashed' \in BOOLEAN /\ faults' \in 0 .. MaxFaults
    <3>1. UNCHANGED << engineVars, crashed >> /\ NoWrite /\ (Fault \/ NoFault)
      BY <2>3 DEF Waits, StatementFails, NoFault
    <3> QED
      BY <1>0, <1>1, <3>1, WriteKeeps
  <2> QED
    BY <1>3, <2>1, <2>2, <2>3 DEF WriterStep
<1> QED
  BY <1>2, <1>3

(* One more element, one element less. *)
LEMMA Appended ==
    ASSUME NEW S, NEW s \in Seq(S), NEW x \in S
    PROVE  /\ Append(s, x) \in Seq(S) /\ Len(Append(s, x)) = Len(s) + 1
           /\ \A i \in 1 .. Len(Append(s, x)) :
                 (i \in 1 .. Len(s) /\ Append(s, x)[i] = s[i]) \/ Append(s, x)[i] = x
<1>1. /\ Append(s, x) \in Seq(S) /\ Len(Append(s, x)) = Len(s) + 1
      /\ (\A i \in 1 .. Len(s) : Append(s, x)[i] = s[i]) /\ Append(s, x)[Len(s) + 1] = x
  BY AppendProperties
<1>2. \A i \in 1 .. Len(s) + 1 : i \in 1 .. Len(s) \/ i = Len(s) + 1
  OBVIOUS
<1> QED
  BY <1>1, <1>2

LEMMA Tailed ==
    ASSUME NEW S, NEW s \in Seq(S), s # << >>
    PROVE  /\ Head(s) \in S /\ Tail(s) \in Seq(S)
           /\ 1 \in 1 .. Len(s) /\ Head(s) = s[1]
           /\ \A i \in 1 .. Len(Tail(s)) : i + 1 \in 1 .. Len(s) /\ Tail(s)[i] = s[i + 1]
<1>1. /\ Head(s) \in S /\ Tail(s) \in Seq(S) /\ Len(Tail(s)) = Len(s) - 1
      /\ \A i \in 1 .. Len(Tail(s)) : Tail(s)[i] = s[i + 1]
  BY HeadTailProperties
<1>2. Len(s) \in Nat /\ Len(s) # 0
  BY EmptySeq
<1> QED
  BY <1>1, <1>2

LEMMA RunTypesStarts ==
    ASSUME RunTypes, SelectStartTask \/ InsertInstance \/ InsertTaskInstance
    PROVE  RunTypes'
<1>0. /\ inst \in Seq(InstStatus) /\ tasks \in Seq(TaskSet) /\ queue \in Seq(TaskSet)
      /\ Len(inst) \in Nat /\ Len(tasks) \in Nat /\ Len(queue) \in Nat
  BY DEF RunTypes
<1>1. CASE SelectStartTask
  BY <1>1 DEF SelectStartTask, NoWrite, RunTypes, Startable
<1>2. CASE InsertInstance
  <2>1. PICK v \in starts : \/ /\ inst' = Append(inst, "process")
                               /\ queue' = Append(queue, [inst |-> Len(inst) + 1, ver |-> v, no |-> 1, st |-> "WAIT"])
                            \/ UNCHANGED << inst, queue >>
    BY <1>2 DEF InsertInstance
  <2>2. starts' = {} /\ UNCHANGED << tasks, eng, crashed, faults >>
    BY <1>2 DEF InsertInstance
  <2>3. CASE UNCHANGED << inst, queue >>
    BY <2>2, <2>3 DEF RunTypes
  <2>4. CASE /\ inst' = Append(inst, "process")
             /\ queue' = Append(queue, [inst |-> Len(inst) + 1, ver |-> v, no |-> 1, st |-> "WAIT"])
    <3> DEFINE m == [inst |-> Len(inst) + 1, ver |-> v, no |-> 1, st |-> "WAIT"]
    <3>1. m \in TaskSet /\ m.inst = Len(inst) + 1
      BY <1>0 DEF TaskSet, TaskStatus, RunTypes
    <3> HIDE DEF m
    <3>2. inst' \in Seq(InstStatus) /\ Len(inst') = Len(inst) + 1
      BY <1>0, <2>4, Appended DEF InstStatus
    <3>3. /\ queue' \in Seq(TaskSet)
          /\ \A i \in 1 .. Len(queue') : (i \in 1 .. Len(queue) /\ queue'[i] = queue[i]) \/ queue'[i] = m
      BY <1>0, <2>4, <3>1, Appended DEF m
    <3>4. \A i \in 1 .. Len(queue') : queue'[i].inst \in 1 .. Len(inst')
      BY <1>0, <3>1, <3>2, <3>3 DEF RunTypes
    <3>5. \A i \in 1 .. Len(tasks') : tasks'[i].inst \in 1 .. Len(inst')
      BY <1>0, <2>2, <3>2 DEF RunTypes
    <3> QED
      BY <2>2, <3>2, <3>3, <3>4, <3>5 DEF RunTypes
  <2> QED
    BY <2>1, <2>3, <2>4
<1>3. CASE InsertTaskInstance
  <2>1. queue # << >> /\ queue' = Tail(queue) /\ UNCHANGED << inst, eng, starts, crashed, faults >>
    BY <1>3 DEF InsertTaskInstance
  <2>2. /\ queue' \in Seq(TaskSet) /\ Head(queue) \in TaskSet /\ Head(queue).inst \in 1 .. Len(inst)
        /\ \A i \in 1 .. Len(queue') : queue'[i].inst \in 1 .. Len(inst)
    BY <1>0, <2>1, Tailed DEF RunTypes
  <2>3. CASE UNCHANGED tasks
    BY <2>1, <2>2, <2>3 DEF RunTypes
  <2>4. CASE tasks' = Append(tasks, Head(queue))
    <3>1. /\ tasks' \in Seq(TaskSet) /\ Len(tasks') = Len(tasks) + 1
          /\ \A i \in 1 .. Len(tasks') : (i \in 1 .. Len(tasks) /\ tasks'[i] = tasks[i]) \/ tasks'[i] = Head(queue)
      BY <1>0, <2>2, <2>4, Appended
    <3>2. \A i \in 1 .. Len(tasks') : tasks'[i].inst \in 1 .. Len(inst)
      BY <2>2, <3>1 DEF RunTypes
    <3>3. eng'.pc # "idle" => eng'.row \in 1 .. Len(tasks')
      BY <1>0, <2>1, <3>1 DEF RunTypes
    <3> QED
      BY <2>1, <2>2, <3>1, <3>2, <3>3 DEF RunTypes
  <2> QED
    BY <1>3, <2>3, <2>4 DEF InsertTaskInstance
<1> QED
  BY <1>1, <1>2, <1>3

(* The fields of the scheduler's record after each kind of step. *)
SameReads(e, f) == e.reads = f.reads /\ e.got = f.got /\ e.missed = f.missed

LEMMA RunMoves ==
    ASSUME NEW e \in EngineSet, NEW p \in {"idle", "read", "claim", "run", "finish"}
    PROVE  /\ [e EXCEPT !.pc = p] \in EngineSet /\ [e EXCEPT !.pc = p].pc = p
           /\ [e EXCEPT !.pc = p].row = e.row /\ SameReads([e EXCEPT !.pc = p], e)
BY DEF EngineSet, SameReads

LEMMA RunFails ==
    ASSUME NEW e \in EngineSet
    PROVE  /\ [e EXCEPT !.pc = "finish", !.st = "FAIL"] \in EngineSet
           /\ [e EXCEPT !.pc = "finish", !.st = "FAIL"].pc = "finish"
           /\ [e EXCEPT !.pc = "finish", !.st = "FAIL"].row = e.row
           /\ SameReads([e EXCEPT !.pc = "finish", !.st = "FAIL"], e)
BY DEF EngineSet, SameReads

LEMMA RunRetries ==
    ASSUME NEW e \in EngineSet
    PROVE  /\ [e EXCEPT !.tries = @ + 1] \in EngineSet /\ [e EXCEPT !.tries = @ + 1].pc = e.pc
           /\ [e EXCEPT !.tries = @ + 1].row = e.row /\ SameReads([e EXCEPT !.tries = @ + 1], e)
BY DEF EngineSet, SameReads

(* What one step of the scheduler does to its record. *)
Lets  == eng' = NoRun
Takes == /\ eng'.pc = "read" /\ eng'.reads["relation"] = "todo"
         /\ eng'.row \in 1 .. Len(tasks) /\ UNCHANGED << inst, tasks, queue, early >>
Moves == /\ eng.pc # "idle" /\ eng'.pc \in {"claim", "run", "finish"} /\ eng'.row = eng.row
         /\ SameReads(eng', eng)
         /\ eng.pc = "read" => eng.reads["relation"] = "returned"
Asks  == /\ eng.pc = "read" /\ eng'.pc = "read" /\ eng'.row = eng.row
         /\ \/ SameReads(eng', eng)
            \/ /\ eng'.missed = eng.missed /\ eng.got \subseteq eng'.got
               /\ "relation" \notin eng'.got =>
                     eng'.reads["relation"] = eng.reads["relation"] \/ ~ Found("relation")
            \/ /\ eng'.got = eng.got /\ eng.missed \subseteq eng'.missed
               /\ "relation" \notin eng'.missed => eng'.reads["relation"] = eng.reads["relation"]
            \/ /\ eng'.got = eng.got /\ eng'.missed = eng.missed /\ eng.reads["relation"] # "todo"

LEMMA AssignEffect ==
    ASSUME RunTypes, NEW r \in Reads, Assign(r)
    PROVE  eng' \in EngineSet /\ Asks
<1>0. eng \in EngineSet /\ eng.pc = "read" /\ "relation" \in Reads
  BY DEF RunTypes, Assign, Reads
<1>1. CASE eng' = [eng EXCEPT !.reads[r] = "assigned", !.err = FALSE,
                              !.got = IF Found(r) THEN @ \cup {r} ELSE @]
  <2> DEFINE G == IF Found(r) THEN eng.got \cup {r} ELSE eng.got
             R == [eng.reads EXCEPT ![r] = "assigned"]
  <2>1. eng' = [eng EXCEPT !.reads = R, !.err = FALSE, !.got = G]
    BY <1>0, <1>1 DEF EngineSet
  <2>2. G \in SUBSET Reads /\ R \in [Reads -> {"todo", "assigned", "returned"}]
    BY <1>0 DEF EngineSet
  <2>3. R["relation"] = IF r = "relation" THEN "assigned" ELSE eng.reads["relation"]
    BY <1>0 DEF EngineSet
  <2>4. eng.got \subseteq G /\ (r = "relation" /\ Found(r) => "relation" \in G)
    OBVIOUS
  <2> HIDE DEF G, R
  <2>5. /\ eng' \in EngineSet /\ eng'.pc = eng.pc /\ eng'.row = eng.row
        /\ eng'.reads = R /\ eng'.got = G /\ eng'.missed = eng.missed
    BY <1>0, <2>1, <2>2 DEF EngineSet
  <2> QED
    BY <1>0, <2>3, <2>4, <2>5 DEF Asks
<1>2. CASE eng' = [eng EXCEPT !.reads[r] = "assigned", !.err = TRUE, !.missed = @ \cup {r}]
  <2> DEFINE G == eng.missed \cup {r}
             R == [eng.reads EXCEPT ![r] = "assigned"]
  <2>1. eng' = [eng EXCEPT !.reads = R, !.err = TRUE, !.missed = G]
    BY <1>0, <1>2 DEF EngineSet
  <2>2. G \in SUBSET Reads /\ R \in [Reads -> {"todo", "assigned", "returned"}]
    BY <1>0 DEF EngineSet
  <2>3. R["relation"] = IF r = "relation" THEN "assigned" ELSE eng.reads["relation"]
    BY <1>0 DEF EngineSet
  <2>4. eng.missed \subseteq G /\ (r = "relation" => "relation" \in G)
    OBVIOUS
  <2> HIDE DEF G, R
  <2>5. /\ eng' \in EngineSet /\ eng'.pc = eng.pc /\ eng'.row = eng.row
        /\ eng'.reads = R /\ eng'.got = eng.got /\ eng'.missed = G
    BY <1>0, <2>1, <2>2 DEF EngineSet
  <2> QED
    BY <1>0, <2>3, <2>4, <2>5 DEF Asks
<1> QED
  BY <1>1, <1>2 DEF Assign

LEMMA ReturnEffect ==
    ASSUME RunTypes, NEW r \in Reads, Return(r)
    PROVE  eng' \in EngineSet /\ Asks
<1>0. eng \in EngineSet /\ eng.pc = "read" /\ eng.reads[r] = "assigned"
  BY DEF RunTypes, Return
<1> DEFINE R == [eng.reads EXCEPT ![r] = "returned"]
           b == eng.failed \/ eng.err
<1>1. eng' = [eng EXCEPT !.reads = R, !.failed = b]
  BY <1>0 DEF Return, EngineSet
<1>2. R \in [Reads -> {"todo", "assigned", "returned"}] /\ b \in BOOLEAN
  BY <1>0 DEF EngineSet
<1>3. "relation" \in Reads /\ (r # "relation" => R["relation"] = eng.reads["relation"])
  BY <1>0 DEF EngineSet, Reads
<1> HIDE DEF R, b
<1>4. /\ eng' \in EngineSet /\ eng'.pc = eng.pc /\ eng'.row = eng.row
      /\ eng'.reads = R /\ eng'.got = eng.got /\ eng'.missed = eng.missed
  BY <1>0, <1>1, <1>2 DEF EngineSet
<1> QED
  BY <1>0, <1>3, <1>4 DEF Asks

(* Every step of the scheduler is one of these. *)
LEMMA EngineEffect ==
    ASSUME RunTypes, EngineStep
    PROVE  eng' \in EngineSet /\ (Lets \/ Takes \/ Moves \/ Asks)
<1>0. /\ eng \in EngineSet /\ NoRun \in EngineSet /\ DOMAIN tasks = 1 .. Len(tasks) /\ "relation" \in Reads
      /\ NoRun.reads["relation"] = "todo"
  BY DEF RunTypes, EngineSet, NoRun, Reads
<1>1. CASE SelectTaskInstance
  <2>1. PICK i \in 1 .. Len(tasks) : eng' = [NoRun EXCEPT !.pc = "read", !.row = i]
    BY <1>0, <1>1 DEF SelectTaskInstance
  <2>2. i \in Nat
    BY <2>1
  <2>3. /\ eng' \in EngineSet /\ eng'.pc = "read" /\ eng'.row = i /\ eng'.reads = NoRun.reads
    BY <1>0, <2>1, <2>2 DEF EngineSet, NoRun
  <2> QED
    BY <1>0, <1>1, <2>3 DEF Takes, SelectTaskInstance
<1>2. CASE ReadDone
  <2>1. eng.pc = "read" /\ eng.reads["relation"] = "returned"
    BY <1>0, <1>2 DEF ReadDone
  <2>2. CASE eng' = NoRun
    BY <1>0, <2>2 DEF Lets
  <2>3. CASE eng' = [eng EXCEPT !.pc = "claim"]
    BY <1>0, <2>1, <2>3, RunMoves DEF Moves
  <2> QED
    BY <1>2, <2>2, <2>3 DEF ReadDone
<1>3. CASE Claim
  <2>1. CASE eng' = NoRun
    BY <1>0, <2>1 DEF Lets
  <2>2. CASE eng' = [eng EXCEPT !.pc = "run"]
    <3>1. eng.pc = "claim"
      BY <1>3 DEF Claim
    <3>2. eng' \in EngineSet /\ eng'.pc = "run" /\ eng'.row = eng.row /\ SameReads(eng', eng)
      BY <1>0, <2>2, RunMoves
    <3> QED
      BY <3>1, <3>2 DEF Moves
  <2> QED
    BY <1>3, <2>1, <2>2 DEF Claim
<1>4. CASE RunNext
  BY <1>0, <1>4, RunMoves DEF Moves, RunNext
<1>5. CASE RunComplete
  <2>1. eng.pc = "run" /\ eng' \in {[eng EXCEPT !.pc = "finish"], [eng EXCEPT !.tries = @ + 1],
                                    [eng EXCEPT !.pc = "finish", !.st = "FAIL"]}
    BY <1>5 DEF RunComplete
  <2>2. eng' \in EngineSet /\ eng'.pc \in {"run", "finish"} /\ eng'.row = eng.row /\ SameReads(eng', eng)
    <3>1. CASE eng' = [eng EXCEPT !.pc = "finish"]
      BY <1>0, <3>1, RunMoves
    <3>2. CASE eng' = [eng EXCEPT !.tries = @ + 1]
      BY <1>0, <2>1, <3>2, RunRetries
    <3>3. CASE eng' = [eng EXCEPT !.pc = "finish", !.st = "FAIL"]
      BY <1>0, <3>3, RunFails
    <3> QED
      BY <2>1, <3>1, <3>2, <3>3
  <2> QED
    BY <2>1, <2>2 DEF Moves
<1>6. CASE Finish
  BY <1>0, <1>6 DEF Lets, Finish
<1> QED
  BY <1>1, <1>2, <1>3, <1>4, <1>5, <1>6, AssignEffect, ReturnEffect DEF EngineStep

(* ... and this is what it does to the tables and the queue. *)
Publishes ==
    \/ UNCHANGED queue
    \/ /\ eng.pc # "idle"
       /\ \E m \in TaskSet : /\ queue' = Append(queue, m)
                             /\ m.inst = Row.inst /\ m.ver = Row.ver

LEMMA EngineKeeps ==
    ASSUME RunTypes, EngineStep
    PROVE  /\ TablesKeep /\ Publishes /\ UNCHANGED << rows, starts, crashed >>
           /\ faults' \in 0 .. MaxFaults
<1>0. /\ inst \in Seq(InstStatus) /\ tasks \in Seq(TaskSet) /\ eng \in EngineSet
      /\ Len(inst) \in Nat /\ Len(tasks) \in Nat
      /\ eng.pc # "idle" => eng.row \in 1 .. Len(tasks)
  BY DEF RunTypes
<1>1. eng.pc # "idle" => Row \in TaskSet /\ Row.inst \in 1 .. Len(inst)
  BY <1>0, ElementOfSeq DEF Row, RunTypes
<1>2. UNCHANGED << rows, starts, crashed >>
  BY DEF EngineStep, SelectTaskInstance, ReadDone, Claim, RunNext, RunComplete, Finish, Assign, Return,
     schedulerFrame
<1>3. faults' \in 0 .. MaxFaults
  <2>1. faults \in 0 .. MaxFaults /\ MaxFaults \in Nat
    BY StoreAssumption DEF RunTypes
  <2>2. Fault \/ NoFault
    BY DEF EngineStep, SelectTaskInstance, ReadDone, Claim, RunNext, RunComplete, Finish, Assign, Return,
       NoFault
  <2> QED
    BY <2>1, <2>2 DEF Fault, NoFault
<1>4. Publishes
  <2>1. CASE RunNext
    <3> DEFINE m == [Row EXCEPT !.no = 2, !.st = "WAIT"]
    <3>1. eng.pc # "idle" /\ queue' = Append(queue, m)
      BY <2>1 DEF RunNext
    <3>2. m \in TaskSet /\ m.inst = Row.inst /\ m.ver = Row.ver
      BY <1>1, <3>1 DEF TaskSet, TaskStatus
    <3> QED
      BY <3>1, <3>2 DEF Publishes
  <2>2. CASE ~ RunNext
    BY <2>2 DEF EngineStep, SelectTaskInstance, ReadDone, Claim, RunComplete, Finish, Assign, Return,
       Publishes
  <2> QED
    BY <2>1, <2>2
<1>5. CASE UNCHANGED << inst, tasks >>
  BY <1>0, <1>2, <1>3, <1>4, <1>5 DEF TablesKeep
<1>6. CASE RunComplete
  <2>1. eng.pc # "idle" /\ UNCHANGED tasks /\ (UNCHANGED inst \/ inst' = [inst EXCEPT ![Row.inst] = "success"])
    BY <1>6 DEF RunComplete
  <2>2. CASE inst' = [inst EXCEPT ![Row.inst] = "success"]
    <3>1. inst' \in Seq(InstStatus) /\ Len(inst') = Len(inst)
      BY <1>0, <1>1, <2>1, <2>2, ExceptSeq DEF InstStatus
    <3> QED
      BY <1>0, <1>2, <1>3, <1>4, <2>1, <3>1 DEF TablesKeep
  <2> QED
    BY <1>5, <2>1, <2>2
<1>7. CASE Finish
  <2>1. eng.pc # "idle" /\ UNCHANGED inst /\ tasks' = [tasks EXCEPT ![eng.row].st = eng.st]
    BY <1>7 DEF Finish
  <2> DEFINE m == [tasks[eng.row] EXCEPT !.st = eng.st]
  <2>2. m \in TaskSet /\ m.inst = tasks[eng.row].inst /\ m.ver = tasks[eng.row].ver
    BY <1>0, <1>1, <2>1 DEF TaskSet, TaskStatus, EngineSet, Row
  <2>3. tasks' = [tasks EXCEPT ![eng.row] = m]
    BY <2>1
  <2> HIDE DEF m
  <2>4. /\ tasks' \in Seq(TaskSet) /\ Len(tasks') = Len(tasks)
        /\ \A i \in 1 .. Len(tasks) : tasks'[i] = IF i = eng.row THEN m ELSE tasks[i]
    BY <1>0, <2>1, <2>2, <2>3, ExceptSeq
  <2> QED
    BY <1>0, <1>2, <1>3, <1>4, <2>1, <2>2, <2>4 DEF TablesKeep
<1>8. UNCHANGED << inst, tasks >> \/ RunComplete \/ Finish
  BY DEF EngineStep, SelectTaskInstance, ReadDone, Claim, RunNext, Assign, Return
<1> QED
  BY <1>5, <1>6, <1>7, <1>8

LEMMA RunTypesKept ==
    ASSUME RunTypes, TablesKeep, eng' \in EngineSet, eng'.pc # "idle" => eng'.row \in 1 .. Len(tasks),
           queue' \in Seq(TaskSet), \A i \in 1 .. Len(queue') : queue'[i].inst \in 1 .. Len(inst),
           UNCHANGED starts, crashed' \in BOOLEAN, faults' \in 0 .. MaxFaults
    PROVE  RunTypes'
BY DEF RunTypes, TablesKeep

LEMMA RunTypesNext ==
    ASSUME RunTypes, [Next]_vars
    PROVE  RunTypes'
<1>0. queue \in Seq(TaskSet) /\ \A i \in 1 .. Len(queue) : queue[i].inst \in 1 .. Len(inst)
  BY DEF RunTypes
<1>1. CASE ControllerCrash \/ \E w \in Writer : WriterStep(w)
  BY <1>0, <1>1, ControllerKeeps, RunTypesKept DEF engineVars, RunTypes
<1>2. CASE EngineStep
  <2>1. eng' \in EngineSet /\ (Lets \/ Takes \/ Moves \/ Asks)
    BY <1>2, EngineEffect
  <2>2. eng'.pc # "idle" => eng'.row \in 1 .. Len(tasks)
    BY <2>1 DEF Lets, Takes, Moves, Asks, RunTypes, NoRun
  <2>3. TablesKeep /\ Publishes /\ UNCHANGED << starts, crashed >> /\ faults' \in 0 .. MaxFaults
    BY <1>2, EngineKeeps
  <2>4. queue' \in Seq(TaskSet) /\ \A i \in 1 .. Len(queue') : queue'[i].inst \in 1 .. Len(inst)
    <3>1. CASE UNCHANGED queue
      BY <1>0, <3>1
    <3>2. ASSUME NEW m \in TaskSet, queue' = Append(queue, m), m.inst = Row.inst, eng.pc # "idle"
          PROVE  queue' \in Seq(TaskSet) /\ \A i \in 1 .. Len(queue') : queue'[i].inst \in 1 .. Len(inst)
      <4>1. m.inst \in 1 .. Len(inst)
        BY <3>2 DEF Row, RunTypes
      <4>2. /\ queue' \in Seq(TaskSet)
            /\ \A i \in 1 .. Len(queue') : (i \in 1 .. Len(queue) /\ queue'[i] = queue[i]) \/ queue'[i] = m
        BY <1>0, <3>2, Appended
      <4> QED
        BY <1>0, <4>1, <4>2
    <3> QED
      BY <2>3, <3>1, <3>2 DEF Publishes
  <2>5. crashed' \in BOOLEAN
    BY <2>3 DEF RunTypes
  <2> QED
    BY <2>1, <2>2, <2>3, <2>4, <2>5, RunTypesKept
<1>3. CASE UNCHANGED vars
  BY <1>3 DEF vars, RunTypes
<1> QED
  BY <1>1, <1>2, <1>3, RunTypesStarts DEF Next

LEMMA RunTypesInit == Init => RunTypes
<1> SUFFICES ASSUME Init PROVE RunTypes
  OBVIOUS
<1>1. inst = << "process" >> /\ tasks = << [inst |-> 1, ver |-> Stored, no |-> 1, st |-> "WAIT"] >> /\ queue = << >>
  BY DEF Init
<1>2. [inst |-> 1, ver |-> Stored, no |-> 1, st |-> "WAIT"] \in TaskSet
  BY DEF TaskSet, TaskStatus, Version
<1>3. inst \in Seq(InstStatus) /\ Len(inst) = 1 /\ inst[1] = "process"
  BY <1>1 DEF InstStatus
<1>4. tasks \in Seq(TaskSet) /\ Len(tasks) = 1 /\ tasks[1].inst = 1
  BY <1>1, <1>2
<1>5. queue \in Seq(TaskSet) /\ Len(queue) = 0
  BY <1>1
<1>6. eng \in EngineSet /\ eng.pc = "idle"
  BY DEF Init, NoRun, EngineSet
<1>7. starts \subseteq Version /\ faults \in 0 .. MaxFaults
  BY StoreAssumption DEF Init
<1>8. crashed \in BOOLEAN
  BY DEF Init
<1> QED
  BY <1>3, <1>4, <1>5, <1>6, <1>7, <1>8 DEF RunTypes

LEMMA RunTypesInvariant == Spec => []RunTypes
<1>1. RunTypes /\ [Next]_vars => RunTypes'
  BY RunTypesNext
<1> QED
  BY RunTypesInit, <1>1, PTL DEF Spec

(* Every variable of the store keeps its type; in particular every task    *)
(* instance belongs to a workflow instance that is stored, and the         *)
(* scheduler works on a row that is there.                                 *)
THEOREM StoreTyped == Spec => []TypeOK
<1>1. StoreInv /\ RunTypes => TypeOK
  BY DEF StoreInv, StoreTypes, RunTypes, TypeOK, Statuses
<1> QED
  BY <1>1, RunTypesInvariant, StoreInvariant, PTL

-----------------------------------------------------------------------------
(* Why a task may be run without its relations.                            *)

(* The relations of a version were committed once. *)
Known(v) == rows["relation"][v] # "none"

(* Tasks, published tasks and starts are of such versions. *)
VersionsKnown ==
    /\ \A i \in 1 .. Len(tasks) : Known(tasks[i].ver)
    /\ \A i \in 1 .. Len(queue) : Known(queue[i].ver)
    /\ \A v \in starts : Known(v)

Excused == "relation" \in eng.missed \/ rows["relation"][Row.ver] = "invalid"

(* Once the handler of the relations has assigned, they are there or there *)
(* is an excuse; a task is not run before the handler has returned.        *)
ReadsExcused ==
    /\ eng.pc # "idle" /\ eng.reads["relation"] # "todo" /\ "relation" \notin eng.got => Excused
    /\ eng.pc \in {"claim", "run", "finish"} => eng.reads["relation"] = "returned"

EarlyTyped == early \subseteq [ver : Version, missed : BOOLEAN]

EarlyInv ==
    /\ \A w \in Writer : InsertsOnce(w)
    /\ VersionsKnown /\ ReadsExcused /\ EarlyTyped /\ EarlyEndIsExplained

LEMMA EarlyInit == Init => EarlyInv
<1> SUFFICES ASSUME Init PROVE EarlyInv
  OBVIOUS
<1>1. \A t \in Definitions, v \in Version : rows[t][v] = IF v = Stored THEN "normal" ELSE "none"
  BY DEF Init
<1>2. \A w \in Writer : InsertsOnce(w)
  BY <1>1, StoreAssumption DEF Init, NoWriter, InsertsOnce, Version
<1>3. /\ Len(tasks) = 1 /\ tasks[1] = [inst |-> 1, ver |-> Stored, no |-> 1, st |-> "WAIT"]
      /\ Len(queue) = 0 /\ starts = {}
  BY DEF Init
<1>4. VersionsKnown
  BY <1>1, <1>3 DEF VersionsKnown, Known, Version, Definitions
<1>5. ReadsExcused
  BY DEF Init, NoRun, ReadsExcused
<1> QED
  BY <1>2, <1>4, <1>5 DEF Init, EarlyInv, EarlyTyped, EarlyEndIsExplained

LEMMA KnownNext ==
    ASSUME RunTypes, VersionsKnown, Ages, [Next]_vars
    PROVE  VersionsKnown'
<1>0. /\ tasks \in Seq(TaskSet) /\ queue \in Seq(TaskSet) /\ Len(tasks) \in Nat /\ Len(queue) \in Nat
      /\ \A i \in 1 .. Len(tasks) : tasks[i] \in TaskSet
      /\ \A i \in 1 .. Len(queue) : queue[i] \in TaskSet
      /\ starts \subseteq Version
  BY ElementOfSeq DEF RunTypes
<1>1. /\ \A i \in 1 .. Len(tasks) : tasks[i].ver \in Version
      /\ \A i \in 1 .. Len(queue) : queue[i].ver \in Version
  BY <1>0 DEF TaskSet
<1>2. /\ \A i \in 1 .. Len(tasks) : rows'["relation"][tasks[i].ver] # "none"
      /\ \A i \in 1 .. Len(queue) : rows'["relation"][queue[i].ver] # "none"
      /\ \A v \in starts : rows'["relation"][v] # "none"
  BY <1>0, <1>1 DEF Ages, VersionsKnown, Known, Definitions
<1>3. SUFFICES /\ \A i \in 1 .. Len(tasks') : rows'["relation"][tasks'[i].ver] # "none"
               /\ \A i \in 1 .. Len(queue') : rows'["relation"][queue'[i].ver] # "none"
               /\ \A v \in starts' : rows'["relation"][v] # "none"
  BY DEF VersionsKnown, Known
<1>4. CASE ControllerCrash \/ \E w \in Writer : WriterStep(w)
  BY <1>2, <1>4, ControllerKeeps DEF TablesKeep, engineVars
<1>5. CASE EngineStep
  <2>1. TablesKeep /\ Publishes /\ UNCHANGED starts
    BY <1>5, EngineKeeps
  <2>2. ASSUME NEW m \in TaskSet, queue' = Append(queue, m), m.ver = Row.ver, eng.pc # "idle"
        PROVE  \A i \in 1 .. Len(queue') : rows'["relation"][queue'[i].ver] # "none"
    <3>1. rows'["relation"][m.ver] # "none"
      BY <1>2, <2>2 DEF Row, RunTypes
    <3>2. \A i \in 1 .. Len(queue') : (i \in 1 .. Len(queue) /\ queue'[i] = queue[i]) \/ queue'[i] = m
      BY <1>0, <2>2, Appended
    <3> QED
      BY <1>2, <3>1, <3>2
  <2>3. \A i \in 1 .. Len(queue') : rows'["relation"][queue'[i].ver] # "none"
    BY <1>2, <2>1, <2>2 DEF Publishes
  <2> QED
    BY <1>2, <2>1, <2>3 DEF TablesKeep
<1>6. CASE SelectStartTask
  BY <1>2, <1>6 DEF SelectStartTask, NoWrite, Startable
<1>7. CASE InsertInstance
  <2>1. PICK v \in starts : \/ queue' = Append(queue, [inst |-> Len(inst) + 1, ver |-> v, no |-> 1, st |-> "WAIT"])
                            \/ UNCHANGED queue
    BY <1>7 DEF InsertInstance
  <2>2. starts' = {} /\ UNCHANGED tasks
    BY <1>7 DEF InsertInstance
  <2>3. CASE UNCHANGED queue
    BY <1>2, <2>2, <2>3
  <2>4. CASE queue' = Append(queue, [inst |-> Len(inst) + 1, ver |-> v, no |-> 1, st |-> "WAIT"])
    <3> DEFINE m == [inst |-> Len(inst) + 1, ver |-> v, no |-> 1, st |-> "WAIT"]
    <3>1. m \in TaskSet /\ m.ver = v
      BY <1>0 DEF TaskSet, TaskStatus, RunTypes
    <3> HIDE DEF m
    <3>2. \A i \in 1 .. Len(queue') : (i \in 1 .. Len(queue) /\ queue'[i] = queue[i]) \/ queue'[i] = m
      BY <1>0, <2>4, <3>1, Appended DEF m
    <3>3. rows'["relation"][m.ver] # "none"
      BY <1>2, <3>1
    <3> QED
      BY <1>2, <2>2, <3>2, <3>3
  <2> QED
    BY <2>1, <2>3, <2>4
<1>8. CASE InsertTaskInstance
  <2>1. queue # << >> /\ queue' = Tail(queue) /\ UNCHANGED starts
    BY <1>8 DEF InsertTaskInstance
  <2>2. /\ Head(queue) \in TaskSet /\ 1 \in 1 .. Len(queue) /\ Head(queue) = queue[1]
        /\ \A i \in 1 .. Len(queue') : i + 1 \in 1 .. Len(queue) /\ queue'[i] = queue[i + 1]
    BY <1>0, <2>1, Tailed
  <2>3. \A i \in 1 .. Len(queue') : rows'["relation"][queue'[i].ver] # "none"
    BY <1>2, <2>2
  <2>4. CASE UNCHANGED tasks
    BY <1>2, <2>1, <2>3, <2>4
  <2>5. CASE tasks' = Append(tasks, Head(queue))
    <3>1. \A i \in 1 .. Len(tasks') : (i \in 1 .. Len(tasks) /\ tasks'[i] = tasks[i]) \/ tasks'[i] = Head(queue)
      BY <1>0, <2>2, <2>5, Appended
    <3>2. \A i \in 1 .. Len(tasks') : rows'["relation"][tasks'[i].ver] # "none"
      BY <1>2, <2>2, <3>1
    <3> QED
      BY <1>2, <2>1, <2>3, <3>2
  <2> QED
    BY <1>8, <2>4, <2>5 DEF InsertTaskInstance
<1>9. CASE UNCHANGED vars
  BY <1>2, <1>9 DEF vars
<1> QED
  BY <1>4, <1>5, <1>6, <1>7, <1>8, <1>9 DEF Next

(* The row the scheduler works on stays of its version. *)
LEMMA RowStays ==
    ASSUME RunTypes, eng.pc # "idle", [Next]_vars
    PROVE  tasks'[eng.row].ver = Row.ver
<1>0. eng.row \in 1 .. Len(tasks) /\ tasks \in Seq(TaskSet) /\ queue \in Seq(TaskSet)
  BY DEF RunTypes
<1>1. CASE TablesKeep
  BY <1>0, <1>1 DEF TablesKeep, Row
<1>2. CASE UNCHANGED tasks
  BY <1>2 DEF Row
<1>3. CASE InsertTaskInstance
  <2>1. CASE tasks' = Append(tasks, Head(queue))
    <3>1. Head(queue) \in TaskSet
      BY <1>0, <1>3, Tailed DEF InsertTaskInstance
    <3>2. tasks'[eng.row] = tasks[eng.row]
      BY <1>0, <2>1, <3>1, AppendProperties
    <3> QED
      BY <3>2 DEF Row
  <2> QED
    BY <1>2, <1>3, <2>1 DEF InsertTaskInstance
<1>4. SelectStartTask \/ InsertInstance \/ UNCHANGED vars => UNCHANGED tasks
  BY DEF SelectStartTask, NoWrite, InsertInstance, vars
<1> QED
  BY <1>1, <1>2, <1>3, <1>4, ControllerKeeps, EngineKeeps DEF Next

LEMMA ExcusedNext ==
    ASSUME StoreInv, RunTypes, VersionsKnown, ReadsExcused, Ages, [Next]_vars
    PROVE  ReadsExcused'
<1>0. eng.pc # "idle" => Row.ver \in Version /\ Known(Row.ver)
  <2>1. eng.pc # "idle" => eng.row \in 1 .. Len(tasks) /\ tasks \in Seq(TaskSet)
    BY DEF RunTypes
  <2>2. eng.pc # "idle" => tasks[eng.row] \in TaskSet
    BY <2>1, ElementOfSeq
  <2> QED
    BY <2>1, <2>2 DEF VersionsKnown, Row, TaskSet
<1>1. eng.pc # "idle" /\ rows["relation"][Row.ver] = "invalid" => rows'["relation"][tasks'[eng.row].ver] = "invalid"
  BY <1>0, RowStays DEF Ages, Definitions
<1>2. SUFFICES /\ eng'.pc # "idle" /\ eng'.reads["relation"] # "todo" /\ "relation" \notin eng'.got =>
                     "relation" \in eng'.missed \/ rows'["relation"][tasks'[eng'.row].ver] = "invalid"
               /\ eng'.pc \in {"claim", "run", "finish"} => eng'.reads["relation"] = "returned"
  BY DEF ReadsExcused, Excused, Row
<1>3. CASE UNCHANGED eng
  BY <1>1, <1>3 DEF ReadsExcused, Excused
<1>4. CASE EngineStep
  <2>1. Lets \/ Takes \/ Moves \/ Asks
    BY <1>4, EngineEffect
  <2>2. CASE Lets
    BY <2>2 DEF Lets, NoRun
  <2>3. CASE Takes
    BY <2>3 DEF Takes
  <2>4. CASE Moves
    <3>1. eng.reads["relation"] = "returned"
      BY <2>4 DEF Moves, ReadsExcused, RunTypes, EngineSet
    <3> QED
      BY <1>1, <2>4, <3>1 DEF Moves, SameReads, ReadsExcused, Excused
  <2>5. CASE Asks
    <3>1. ~ Found("relation") => rows["relation"][Row.ver] = "invalid"
      <4>1. Row.ver \in Version /\ Known(Row.ver) /\ "relation" \in Definitions
        BY <1>0, <2>5 DEF Asks, Definitions
      <4>2. rows["relation"][Row.ver] \in Statuses
        BY <4>1 DEF StoreInv, StoreTypes
      <4> QED
        BY <4>1, <4>2 DEF Known, Found, Row, Statuses
    <3> QED
      BY <1>1, <2>5, <3>1 DEF Asks, SameReads, ReadsExcused, Excused
  <2> QED
    BY <2>1, <2>2, <2>3, <2>4, <2>5
<1>5. [Next]_vars => UNCHANGED eng \/ EngineStep
  BY ControllerKeeps DEF Next, vars, engineVars, SelectStartTask, InsertInstance, InsertTaskInstance
<1> QED
  BY <1>3, <1>4, <1>5

LEMMA ExplainedNext ==
    ASSUME RunTypes, ReadsExcused, EarlyTyped, EarlyEndIsExplained, Ages, [Next]_vars
    PROVE  EarlyTyped' /\ EarlyEndIsExplained'
<1>1. CASE UNCHANGED early
  BY <1>1 DEF EarlyTyped, EarlyEndIsExplained, Ages, Definitions
<1>2. CASE RunComplete /\ early' # early
  <2> DEFINE e == [ver |-> Row.ver, missed |-> "relation" \in eng.missed]
  <2>1. eng.pc = "run" /\ Row.no = 1 /\ "relation" \notin eng.got /\ early' = early \cup {e} /\ UNCHANGED rows
    BY <1>2 DEF RunComplete, schedulerFrame
  <2>2. Row \in TaskSet
    BY <2>1, ElementOfSeq DEF RunTypes, Row
  <2>3. e \in [ver : Version, missed : BOOLEAN]
    BY <2>2 DEF TaskSet
  <2>4. e.missed \/ rows["relation"][e.ver] = "invalid"
    BY <2>1 DEF ReadsExcused, Excused
  <2> QED
    BY <2>1, <2>3, <2>4 DEF EarlyTyped, EarlyEndIsExplained
<1>3. UNCHANGED early \/ RunComplete
  BY ControllerKeeps DEF Next, vars, engineVars, SelectStartTask, InsertInstance, InsertTaskInstance,
     EngineStep, SelectTaskInstance, ReadDone, Claim, RunNext, Finish, Assign, Return
<1> QED
  BY <1>1, <1>2, <1>3

(* An instance is never ended by its first task for another reason than a  *)
(* definition that was invalidated under it or a query whose error was     *)
(* hidden (completeTaskInstance and its three handlers), with any number   *)
(* of Saves, Deletes, starts, failures and crashes around.                 *)
THEOREM EarlyEndsExplained == Spec => []EarlyEndIsExplained
<1>1. StoreInv /\ RunTypes /\ EarlyInv /\ [Next]_vars => EarlyInv'
  <2> SUFFICES ASSUME StoreInv, RunTypes, EarlyInv, [Next]_vars PROVE EarlyInv'
    OBVIOUS
  <2>1. Ages /\ \A w \in Writer : InsertsOnce(w)'
    BY OnceNext DEF EarlyInv
  <2>2. VersionsKnown' /\ ReadsExcused' /\ EarlyTyped' /\ EarlyEndIsExplained'
    BY <2>1, KnownNext, ExcusedNext, ExplainedNext DEF EarlyInv
  <2> QED
    BY <2>1, <2>2 DEF EarlyInv
<1>2. EarlyInv => EarlyEndIsExplained
  BY DEF EarlyInv
<1> QED
  BY <1>1, <1>2, EarlyInit, StoreInvariant, RunTypesInvariant, PTL DEF Spec
=============================================================================
