------------------------------- MODULE Catalog -------------------------------
(***************************************************************************)
(* The steps of one workflow template, and the administrators who replace  *)
(* them (CatalogService.update_workflow).  A request loads the template    *)
(* with its steps, and later deletes the rows IT LOADED, by id, and        *)
(* inserts its own: what another request wrote in between stays, unless    *)
(* the database gave one of its rows an id that had been in use before.    *)
(*                                                                         *)
(* Deletions and insertions are one transaction, and its first write locks *)
(* out other writers, so a replacement is one action.                      *)
(***************************************************************************)
EXTENDS Naturals, Sequences, FiniteSets

CONSTANTS
  Edits,     \* PATCH /admin/workflows/{code} requests
  Patches,   \* their bodies: [steps, enabled], an optional field is {} or {v}
  Shipped,   \* the steps bootstrap_data.py stored
  OtherLast, \* the largest id of a step of another workflow
  Engines    \* subset of {"sqlite", "mysql"}

\* A step of a list: its code, its type, its parallel_group ("" for none).
Codes == {"a", "b", "c", "x"}
Groups == {"", "g", "h"}
Step == [code : Codes, type : {"crew", "tool"}, group : Groups]

ASSUME CatalogAssumption ==
  /\ \A p \in Patches : /\ p.steps \subseteq Seq(Step)
                        /\ p.enabled \subseteq BOOLEAN
  /\ Shipped \in Seq(Step)
  /\ "shipped" \notin Edits
  /\ OtherLast \in Nat
  /\ Engines \subseteq {"sqlite", "mysql"}

VARIABLES
  engine,   \* the database of the deployment, fixed
  steps,    \* the workflow_steps rows of the workflow
  lastId,   \* AUTO_INCREMENT of workflow_steps (MySQL)
  enabled,  \* the workflow_templates row
  edit      \* where each request is in its code

catalogVars == <<engine, steps, lastId, enabled, edit>>

-----------------------------------------------------------------------------
Waiting == [at |-> "waiting"]

Rows == [id : Nat \ {0}, order : Nat \ {0}, code : Codes, type : {"crew", "tool"},
         group : Groups, by : Edits \union {"shipped"}]

\* A request that ended: refused by a check, failed in the database, or done.
\* For one that replaced the steps, list is its list, and stale says that it did
\* so on a read that was no longer current (nothing in the code reads either).
Ended(how) == [at |-> how, stale |-> FALSE, list |-> <<>>]
Replaced(list, stale) == [at |-> "done", stale |-> stale, list |-> list]
EditState == {Waiting}
  \union [at : {"read"}, patch : Patches, seen : SUBSET Rows, wasEnabled : BOOLEAN]
  \union [at : {"refused", "failed", "done"}, stale : BOOLEAN, list : Seq(Step)]

\* The rows of a list; sort_order is the place in the list.
RowsOf(list, firstId, author) ==
  { [id |-> firstId + i, order |-> i, by |-> author, code |-> list[i].code,
     type |-> list[i].type, group |-> list[i].group] : i \in DOMAIN list }

Largest(S) == CHOOSE n \in S : \A m \in S : m <= n

\* The id before the first one the database gives out when "kept" are the
\* workflow's rows: SQLite continues from the largest id in the table, MySQL
\* from the largest one it ever gave out.
IdBase(kept) ==
  IF engine = "sqlite" THEN Largest({OtherLast} \union {r.id : r \in kept}) ELSE lastId

CatalogInit ==
  /\ engine \in Engines
  /\ steps = RowsOf(Shipped, OtherLast, "shipped")
  /\ lastId = OtherLast + Len(Shipped)
  /\ enabled = TRUE
  /\ edit = [r \in Edits |-> Waiting]

(***************************************************************************)
(* update_workflow: get_workflow_by_code, with the steps.                  *)
(***************************************************************************)
ReadWorkflow(r) ==
  /\ edit[r] = Waiting
  /\ \E p \in Patches :
       edit' = [edit EXCEPT ![r] = [at |-> "read", patch |-> p,
                                    seen |-> steps, wasEnabled |-> enabled]]
  /\ UNCHANGED <<engine, steps, lastId, enabled>>

\* The checks of _replace_workflow_steps.
Acceptable(list) ==
  /\ list # <<>>
  /\ \A i, j \in DOMAIN list : list[i].code = list[j].code => i = j
  /\ \A i \in DOMAIN list : list[i].type = "crew"

Refuse(r) ==
  /\ edit[r].at = "read"
  /\ \E list \in edit[r].patch.steps : ~Acceptable(list)
  /\ edit' = [edit EXCEPT ![r] = Ended("refused")]
  /\ UNCHANGED <<engine, steps, lastId, enabled>>

\* Mutant: only the rows whose step_code is in the new list are deleted.
KeptNotListed(r) ==
  {s \in steps : \A list \in edit[r].patch.steps, i \in 1..4 :
                   i \in DOMAIN list => list[i].code # s.code}

\* The rows that are left when a request has deleted those it loaded.
Kept(r) == {s \in steps : s.id \notin {t.id : t \in edit[r].seen}}

\* uq_workflow_step_code: one row per step_code of the workflow.
Clash(kept, list) == \E s \in kept, i \in DOMAIN list : s.code = list[i].code

\* Only a column whose value differs from the one loaded is written.
EnabledAfter(r) ==
  IF edit[r].patch.enabled \subseteq {edit[r].wasEnabled}
  THEN enabled ELSE ~edit[r].wasEnabled

Save(r) ==
  /\ edit[r].at = "read"
  /\ edit[r].patch.steps = {}
  /\ enabled' = EnabledAfter(r)
  /\ edit' = [edit EXCEPT ![r] = Ended("done")]
  /\ UNCHANGED <<engine, steps, lastId>>

Replace(r) ==
  /\ edit[r].at = "read"
  /\ \E list \in edit[r].patch.steps :
       /\ Acceptable(list)
       /\ LET kept == Kept(r)
              added == RowsOf(list, IdBase(kept), r)
          IN \/ \* The insertion fails: the transaction is rolled back.
                /\ Clash(kept, list)
                /\ edit' = [edit EXCEPT ![r] = Ended("failed")]
                /\ UNCHANGED <<steps, enabled>>
             \/ /\ ~Clash(kept, list)
                /\ steps' = kept \union added
                /\ enabled' = EnabledAfter(r)
                /\ edit' = [edit EXCEPT ![r] = Replaced(list, steps # edit[r].seen)]
       \* AUTO_INCREMENT is not rolled back (taken here for the whole list).
       /\ lastId' = IF engine = "mysql" THEN lastId + Len(list) ELSE lastId
  /\ UNCHANGED engine

Edit(r) == ReadWorkflow(r) \/ Refuse(r) \/ Save(r) \/ Replace(r)

-----------------------------------------------------------------------------
\* Some request replaced steps that another one had replaced since it read.
Overlapped == \E r \in Edits : edit[r].at = "done" /\ edit[r].stale

\* The list that the rows of an author come from, and the rows there are of it.
ListOf(author) == IF author = "shipped" THEN Shipped ELSE edit[author].list
StepsBy(author) == {s \in steps : s.by = author}

\* A replacement leaves exactly the list it was given (_replace_workflow_steps).
\* Whatever requests were refused or failed, and whatever ids the database used
\* again, the steps are those of one request, all of them, unless replacements
\* overlapped; and on MySQL, which never gives an id out again, even overlapping
\* ones leave of each list all steps or none.
StepsOfOneRequest ==
  /\ ~Overlapped => \A s, t \in steps : s.by = t.by
  /\ ~Overlapped \/ engine = "mysql" =>
       \A s \in steps : StepsBy(s.by) = RowsOf(ListOf(s.by), s.id - s.order, s.by)

\* The values of the catalog's tables.
CatalogTypeOK ==
  /\ engine \in Engines
  /\ steps \subseteq Rows
  /\ enabled \in BOOLEAN
  /\ lastId \in Nat
  /\ edit \in [Edits -> EditState]
=============================================================================
