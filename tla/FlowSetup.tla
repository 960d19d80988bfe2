------------------------------ MODULE FlowSetup ------------------------------
(***************************************************************************)
(* What an execution does before its first stage: TechnicalDesignFlow's    *)
(* constructor reads the workflow (Catalog) and the owner's connection     *)
(* settings (LLMConfig), both of which may be edited meanwhile, decides    *)
(* how its stages will run, and turns the steps into batches.  FlowRun     *)
(* starts from the batches; what happens on a refusal is modelled there.   *)
(***************************************************************************)
EXTENDS Catalog, LLMConfig

CONSTANTS
  Kinds,        \* subset of {"technical", "delivery"}: which flow
  Settings,     \* subset of {"auto", "crewai", "template"}: AGENT_RUNTIME_MODE
  Supported     \* the step codes of the flow's stage_template_registry

VARIABLE flow   \* the flow object under construction

vars == <<catalogVars, configVars, flow>>

-----------------------------------------------------------------------------
(***************************************************************************)
(* _iter_stage_batches.                                                    *)
(***************************************************************************)
\* Mutant: the scan stops before the last stage.
GroupEndShort(stages, g, from) ==
  LET Scan[k \in 1..(Len(stages) + 1)] ==
        IF k < Len(stages) /\ stages[k].group = g THEN Scan[k + 1] ELSE k
  IN Scan[from]

\* The inner loop: the index after the last stage, from k on, of group g.
GroupEnd(stages, g, from) ==
  LET Scan[k \in 1..(Len(stages) + 1)] ==
        IF k <= Len(stages) /\ stages[k].group = g THEN Scan[k + 1] ELSE k
  IN Scan[from]

\* The outer loop: the batches of the stages.
StageBatches(stages) ==
  LET From[i \in 1..(Len(stages) + 1)] ==
        IF i > Len(stages) THEN << >>
        ELSE LET after == IF stages[i].group # ""
                          THEN GroupEnd(stages, stages[i].group, i + 1)
                          ELSE i + 1
             IN <<SubSeq(stages, i, after - 1)>> \o From[after]
  IN From[1]

-----------------------------------------------------------------------------
Refused(why) == [flow EXCEPT !.at = "refused", !.why = why]

FlowInit ==
  flow = [at |-> "start", why |-> "", setting |-> "", enabled |-> FALSE, rows |-> {},
          runtime |-> NoRuntime, mode |-> "", stages |-> << >>, batches |-> << >>]

Init == CatalogInit /\ ConfigInit /\ FlowInit

\* _load_workflow: two SELECTs, the template's and its steps'.
LoadTemplate ==
  /\ flow.at = "start"
  /\ flow' = [flow EXCEPT !.at = "template", !.enabled = enabled]

LoadSteps ==
  /\ flow.at = "template"
  /\ flow' = IF ~flow.enabled THEN Refused("disabled")
             ELSE IF steps = {} THEN Refused("empty")
             ELSE [flow EXCEPT !.at = "steps", !.rows = steps]

LoadRuntimeConfig ==
  /\ flow.at = "steps"
  /\ flow' = [flow EXCEPT !.at = "config", !.runtime = RuntimeOf(config)]

\* _resolve_runtime_mode, for one flow and one deployment: DeliveryFlow's falls
\* back where TechnicalDesignFlow's refuses.
ResolveMode ==
  /\ flow.at = "config"
  /\ \E kind \in Kinds, setting \in Settings, server \in BOOLEAN :
       LET usable == flow.runtime # NoRuntime \/ server
           Mode(m) == [flow EXCEPT !.at = "mode", !.mode = m]
       IN flow' = CASE setting = "template" -> Mode("template")
                    [] setting # "template" /\ usable -> Mode("crewai")
                    [] setting = "auto" /\ ~usable /\ kind = "delivery" -> Mode("template")
                    [] OTHER -> [Refused("connection") EXCEPT !.setting = setting]

\* The steps by sort_order, each with a template in the registry of the flow.
InOrder(rows) ==
  CHOOSE list \in [1..Cardinality(rows) -> rows] :
    \A i, j \in DOMAIN list : i < j => \/ list[i].order < list[j].order
                                       \/ list[i].order = list[j].order /\ list[i].id < list[j].id

BuildStages ==
  /\ flow.at = "mode"
  /\ flow' = IF \E s \in flow.rows : s.code \notin Supported \/ s.type # "crew"
             THEN Refused("step")
             ELSE LET stages == InOrder(flow.rows)
                  IN [flow EXCEPT !.at = "ready", !.stages = stages,
                                  !.batches = StageBatches(stages)]

FlowStep ==
  \/ LoadTemplate \/ LoadSteps \/ LoadRuntimeConfig
  \/ ResolveMode \/ BuildStages

\* A request that is in both sets is one of either kind: a bound on the
\* requests in all.
Next ==
  \/ FlowStep /\ UNCHANGED <<catalogVars, configVars>>
  \/ /\ \E r \in Edits : (r \in Updates => update[r] = Idle) /\ Edit(r)
     /\ UNCHANGED <<configVars, flow>>
  \/ /\ \E r \in Updates : (r \in Edits => edit[r] = Waiting) /\ Update(r)
     /\ UNCHANGED <<catalogVars, flow>>

Spec == Init /\ [][Next]_vars

-----------------------------------------------------------------------------
\* The tables, the requests and the flow have values of their types.
TypeOK ==
  /\ CatalogTypeOK
  /\ ConfigTypeOK
  /\ flow.at \in {"start", "template", "steps", "config", "mode", "ready", "refused"}
  /\ flow.mode \in {"", "crewai", "template"}
  /\ flow.at \in {"mode", "ready"} => flow.mode # ""

\* _iter_stage_batches loses, repeats and reorders no stage; a batch is one
\* stage or several neighbours of one group; and two neighbouring batches are
\* never parts of one group, so a group's stages run together wherever the
\* group is in the list, its end included.
BatchesPartition ==
  flow.at = "ready" =>
    LET B == flow.batches
        Whole[i \in 0..Len(B)] == IF i = 0 THEN << >> ELSE Whole[i - 1] \o B[i]
        IsGroup(b, g) == g # "" /\ \A k \in DOMAIN b : b[k].group = g
    IN /\ Whole[Len(B)] = flow.stages
       /\ \A i \in DOMAIN B : \/ Len(B[i]) = 1
                              \/ Len(B[i]) > 1 /\ \E g \in Groups : IsGroup(B[i], g)
       /\ \A i \in 1..(Len(B) - 1), g \in Groups : ~(IsGroup(B[i], g) /\ IsGroup(B[i + 1], g))

\* README.md: with AGENT_RUNTIME_MODE=auto and no model configuration a run
\* falls back to the local template runtime (_resolve_runtime_mode refuses it).
AutoFallsBack == flow.setting = "auto" => flow.why # "connection"
=============================================================================
