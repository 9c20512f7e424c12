---------------------------- MODULE BasicMapper ----------------------------
(***************************************************************************)
(* mapper/plugins/basic/basic.go: how one policy rule is mapped to a       *)
(* control of one catalog.  Everything here is pure.                       *)
(*                                                                         *)
(* An assessment plan names a control of a catalog, and the procedures     *)
(* that assess its requirements, here in one sequence in document order.   *)
(* A catalog is its id and the sequence of its controls, each with the     *)
(* title of its family as category and with its guideline mappings.        *)
(***************************************************************************)
EXTENDS Naturals, SequencesExt

CONSTANT Nil  \* a nil slice or pointer, null in JSON

EmptyMap == [x \in {} |-> x]

\* m[key] = value on a Go map.
Assign(m, key, value) == [x \in DOMAIN m \cup {key} |-> IF x = key THEN value ELSE m[x]]

\* A slice that only grows by append: nil until it has an element.
Slice(list) == IF list = <<>> THEN Nil ELSE list

NewBasicMapper == EmptyMap

\* Mutant: the plans of a later file replace those of an earlier one.
AddEvaluationPlan_Replaces(plans, plan) == Assign(plans, plan.catalog, <<plan>>)

\* m.plans after AddEvaluationPlan(plan.catalog, plan).
AddEvaluationPlan(plans, plan) ==
  Assign(plans, plan.catalog,
         IF plan.catalog \in DOMAIN plans THEN Append(plans[plan.catalog], plan) ELSE <<plan>>)

-----------------------------------------------------------------------------
\* A later procedure with the same id overwrites an earlier one.
AddProcedure(byId, plan, p) ==
  Assign(byId, p.id, [control |-> plan.control, requirement |-> p.requirement,
                      documentation |-> p.documentation])

AddProcedures(byId, plan) ==
  FoldLeft(LAMBDA m, p : AddProcedure(m, plan, p), byId, plan.procedures)

buildProceduresMap(plans) == FoldLeft(AddProcedures, EmptyMap, plans)

AddControl(byId, control) == Assign(byId, control.id, control)

buildControlDataMap(catalog) == FoldLeft(AddControl, EmptyMap, catalog.controls)

extractRequirements(mappings) ==
  Slice(FlattenSeq([k \in DOMAIN mappings |-> mappings[k].entries]))

extractStandards(mappings) ==
  Slice([k \in DOMAIN mappings |-> mappings[k].reference])

-----------------------------------------------------------------------------
Unmapped ==
  [status |-> "Unmapped", id |-> "UNMAPPED", catalog |-> "UNMAPPED",
   category |-> "UNCATEGORIZED", documentation |-> Nil,
   requirements |-> <<>>, frameworks |-> <<>>]

\* The answer for a procedure and the control that its plan names.
Mapped(catalogId, procedure, control) ==
  [status |-> "Success", id |-> procedure.requirement, catalog |-> catalogId,
   category |-> control.category, documentation |-> procedure.documentation,
   requirements |-> extractRequirements(control.mappings),
   frameworks |-> extractStandards(control.mappings)]

\* One turn of the loop in Map: the answer, or Unmapped to go on.
MapInto(catalogId, plans, catalog, rule) ==
  LET proceduresById == buildProceduresMap(plans)
      controlData == buildControlDataMap(catalog)
  IN IF /\ rule \in DOMAIN proceduresById
        /\ proceduresById[rule].control \in DOMAIN controlData
     THEN Mapped(catalogId, proceduresById[rule], controlData[proceduresById[rule].control])
     ELSE Unmapped
=============================================================================
