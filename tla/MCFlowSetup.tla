---------------------------- MODULE MCFlowSetup ----------------------------
(***************************************************************************)
(* FlowSetup on a small instance: step lists and request bodies in which   *)
(* every branch of the two services occurs.                                *)
(***************************************************************************)
EXTENDS FlowSetup, TLC

CONSTANTS r1, r2, r3

Crew(code, group) == [code |-> code, type |-> "crew", group |-> group]

\* A pair between two steps; groups that follow each other, and one at the end
\* of the list; one step; and lists that are refused.
ShippedSteps == <<Crew("a", ""), Crew("b", "g"), Crew("c", "g")>>
TwoGroups == <<Crew("b", "g"), Crew("a", "h"), Crew("c", "h")>>
Apart == <<Crew("c", "g"), Crew("b", ""), Crew("a", "g")>>
OneStep == <<Crew("b", "")>>
Unknown == <<Crew("x", "")>>
Doubled == <<Crew("a", ""), Crew("a", "")>>
Tool == <<[code |-> "a", type |-> "tool", group |-> ""]>>

WorkflowPatches ==
  [steps : {{TwoGroups}, {Apart}, {OneStep}, {Unknown}, {<< >>}, {Doubled}, {Tool}}, enabled : {{}}]
    \union [steps : {{}, {OneStep}}, enabled : {{TRUE}, {FALSE}}]

\* The user has one role (p) whose settings change and one (q) that keeps what
\* an older version stored.
Keep == [clear |-> FALSE, typed |-> "no"]
Type == [clear |-> FALSE, typed |-> "key"]
Spaces == [clear |-> FALSE, typed |-> "blank"]
Clear == [clear |-> TRUE, typed |-> "key"]
NoRoles == [x \in {} |-> Keep]
ForP(on, base, model, key) ==
  [x \in {"p"} |-> [on |-> on, base |-> base, model |-> model, key |-> key]]
Body(en, key, roles) ==
  [enabled |-> en, key |-> key, model |-> {}, legacy |-> {}, roles |-> roles]

Bodies ==
  { Body({TRUE}, Type, NoRoles),
    Body({FALSE}, Spaces, NoRoles),
    Body({}, Clear, NoRoles),
    [Body({}, Keep, NoRoles) EXCEPT !.model = {Blank}],
    [Body({}, Keep, NoRoles) EXCEPT !.legacy = {[x \in Agents |-> IF x = "p" THEN "model" ELSE Blank]}],
    Body({}, Keep, ForP(TRUE, {"url"}, {}, Type)),
    Body({}, Keep, ForP(TRUE, {Blank}, {"model"}, Keep)),
    Body({}, Keep, ForP(FALSE, {}, {}, Spaces)),
    Body({}, Keep, ForP(FALSE, {Blank}, {Blank}, Clear)) }

OlderRow ==
  [enabled |-> TRUE, key |-> "old", model |-> Blank,
   legacy |-> [x \in Agents |-> "model"], roles |-> [x \in Agents |-> NoRole]]
StoredRows == {NoConfig, OlderRow}

Interchangeable == Permutations(Edits)
=============================================================================
