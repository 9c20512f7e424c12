----------------------------- MODULE Enrichment -----------------------------
(***************************************************************************)
(* The enrichment side of compass: what main reads at start-up             *)
(* (cmd/compass/main.go, cmd/compass/server/config.go) and how the         *)
(* handlers of POST /v1/enrich answer from it (service/service.go), many   *)
(* at a time.  A handler goes through the mapper's catalogs in the order   *)
(* of a Go map, which is any order.  The configuration file itself is      *)
(* taken as read: CompassServer has the exit without one.                  *)
(***************************************************************************)
EXTENDS BasicMapper

CONSTANTS
  Inputs,     \* the inputs that compass may be started on, see Input
  Handlers,   \* requests being served
  Engines,    \* policy engine names that requests bring
  Rules,      \* policy rule ids that requests bring
  None        \* no policy, no answer

(***************************************************************************)
(* An input is the catalog file, the plugins of the configuration, and the *)
(* directories on the disk.  A file that os.ReadFile or yaml.Unmarshal     *)
(* rejects is Unreadable; otherwise it holds a catalog or a sequence of    *)
(* assessment plans.  A directory is the sequence of the files under it in *)
(* the lexical order of filepath.Walk; "" is the one never configured.     *)
(***************************************************************************)
Unreadable == [kind |-> "unreadable"]
Readable(content) == [kind |-> "readable", content |-> content]
Missing == [kind |-> "missing"]
Regular == [kind |-> "file"]
Directory(files) == [kind |-> "dir", files |-> files]

IsSequence(s) == Len(s) \in Nat /\ DOMAIN s = 1 .. Len(s)

IsEvaluation(plans) ==
  IsSequence(plans) /\ \A k \in DOMAIN plans : IsSequence(plans[k].procedures)

IsDirectory(files) ==
  /\ IsSequence(files)
  /\ \A j \in DOMAIN files : files[j].kind = "readable" => IsEvaluation(files[j].content)

ASSUME InputsAssumption ==
  \A i \in Inputs :
    /\ i.catalog.kind = "readable" => IsSequence(i.catalog.content.controls)
    /\ IsSequence(i.plugins)
    /\ \A p \in DOMAIN i.disk : i.disk[p].kind = "dir" => IsDirectory(i.disk[p].files)
    /\ \A k \in DOMAIN i.plugins : i.plugins[k].dir \in DOMAIN i.disk

VARIABLES
  input,    \* what compass was started on
  stage,    \* catalog, plugins, walk, serving or exited
  scope,    \* catalogs by id
  plugin,   \* the plugin being loaded, a position in the configuration
  file,     \* the file of its directory being read
  mpr,      \* the mapper being filled
  set,      \* mappers by plugin id
  hpc,      \* hpc[h]: idle, mapping or done
  policy,   \* policy[h]: the policy of the request, or None
  left,     \* left[h]: the catalogs that the loop in Map has yet to visit
  answer    \* answer[h]: the response, or None

loadVars == <<input, stage, scope, plugin, file, mpr, set>>
handlerVars == <<hpc, policy, left, answer>>
vars == <<loadVars, handlerVars>>

Policies == [engine : Engines, rule : Rules]

Init ==
  /\ input \in Inputs
  /\ stage = "catalog"
  /\ scope = EmptyMap
  /\ plugin = 1
  /\ file = 1
  /\ mpr = NewBasicMapper
  /\ set = EmptyMap
  /\ hpc = [h \in Handlers |-> "idle"]
  /\ policy = [h \in Handlers |-> None]
  /\ left = [h \in Handlers |-> {}]
  /\ answer = [h \in Handlers |-> None]

-----------------------------------------------------------------------------
(***************************************************************************)
(* Start-up.                                                               *)
(***************************************************************************)
Plugin == input.plugins[plugin]
MorePlugins == plugin <= Len(input.plugins)
Dir == input.disk[Plugin.dir]

\* os.Exit(1) in main.
Exit == stage' = "exited" /\ UNCHANGED <<input, scope, plugin, file, mpr, set, handlerVars>>

LoadCatalog ==
  /\ stage = "catalog"
  /\ \/ input.catalog.kind = "unreadable" /\ Exit
     \/ /\ input.catalog.kind = "readable"
        /\ scope' = [id \in {input.catalog.content.id} |-> input.catalog.content]
        /\ stage' = "plugins"
        /\ UNCHANGED <<input, plugin, file, mpr, set, handlerVars>>

\* A plugin without evaluations gets no mapper of its own.
SkipPlugin ==
  /\ stage = "plugins" /\ MorePlugins
  /\ Plugin.dir = ""
  /\ plugin' = plugin + 1
  /\ UNCHANGED <<input, stage, scope, file, mpr, set, handlerVars>>

OpenDir ==
  /\ stage = "plugins" /\ MorePlugins
  /\ Plugin.dir # ""
  /\ \/ Dir.kind # "dir" /\ Exit
     \/ /\ Dir.kind = "dir"
        /\ stage' = "walk"
        /\ file' = 1
        /\ mpr' = NewBasicMapper
        /\ UNCHANGED <<input, scope, plugin, set, handlerVars>>

\* Mutant: a plan of a control without a catalog is not left out.
AddPlan_Any(m, plan) == AddEvaluationPlan(m, plan)

\* A plan of a control without a catalog is left out.
AddPlan(m, plan) == IF plan.catalog = "" THEN m ELSE AddEvaluationPlan(m, plan)

WithPlans(m, plans) == FoldLeft(AddPlan, m, plans)

\* Mutant: a file that cannot be read is left out.
ReadFile_Skips ==
  /\ stage = "walk" /\ file <= Len(Dir.files)
  /\ file' = file + 1
  /\ mpr' = IF Dir.files[file].kind = "readable" THEN WithPlans(mpr, Dir.files[file].content) ELSE mpr
  /\ UNCHANGED <<input, stage, scope, plugin, set, handlerVars>>

ReadFile ==
  /\ stage = "walk" /\ file <= Len(Dir.files)
  /\ \/ Dir.files[file].kind = "unreadable" /\ Exit
     \/ /\ Dir.files[file].kind = "readable"
        /\ file' = file + 1
        /\ mpr' = WithPlans(mpr, Dir.files[file].content)
        /\ UNCHANGED <<input, stage, scope, plugin, set, handlerVars>>

\* A later plugin with the same id takes the place of an earlier one.
AddMapper ==
  /\ stage = "walk" /\ file = Len(Dir.files) + 1
  /\ set' = Assign(set, Plugin.id, mpr)
  /\ plugin' = plugin + 1
  /\ stage' = "plugins"
  /\ UNCHANGED <<input, scope, file, mpr, handlerVars>>

Serve ==
  /\ stage = "plugins" /\ ~MorePlugins
  /\ stage' = "serving"
  /\ UNCHANGED <<input, scope, plugin, file, mpr, set, handlerVars>>

-----------------------------------------------------------------------------
(***************************************************************************)
(* A request.                                                              *)
(***************************************************************************)
\* The plans of the mapper selected for an engine; an engine without a
\* mapper gets a new one, which has none.
Plans(engine) == IF engine \in DOMAIN set THEN set[engine] ELSE NewBasicMapper

\* c.Bind fails: 400.
Reject(h) ==
  /\ stage = "serving" /\ hpc[h] = "idle"
  /\ hpc' = [hpc EXCEPT ![h] = "done"]
  /\ answer' = [answer EXCEPT ![h] = [status |-> 400]]
  /\ UNCHANGED <<loadVars, policy, left>>

Receive(h) ==
  /\ stage = "serving" /\ hpc[h] = "idle"
  /\ hpc' = [hpc EXCEPT ![h] = "mapping"]
  /\ \E q \in Policies :
       /\ policy' = [policy EXCEPT ![h] = q]
       /\ left' = [left EXCEPT ![h] = DOMAIN Plans(q.engine)]
  /\ UNCHANGED <<loadVars, answer>>

Respond(h, compliance) ==
  /\ hpc' = [hpc EXCEPT ![h] = "done"]
  /\ answer' = [answer EXCEPT ![h] = [status |-> 200, compliance |-> compliance]]

\* What the plans for the catalog c make of the policy q.
Outcome(q, c) ==
  IF c \in DOMAIN scope
  THEN MapInto(c, Plans(q.engine)[c], scope[c], q.rule)
  ELSE Unmapped

\* Mutant: the first catalog decides.
VisitCatalog_First(h) ==
  /\ hpc[h] = "mapping"
  /\ \E c \in left[h] : Respond(h, Outcome(policy[h], c))
  /\ UNCHANGED <<loadVars, policy, left>>

\* One turn of the loop in Map.
VisitCatalog(h) ==
  /\ hpc[h] = "mapping"
  /\ \E c \in left[h] :
       \/ /\ Outcome(policy[h], c).status = "Success"
          /\ Respond(h, Outcome(policy[h], c))
          /\ UNCHANGED left
       \/ /\ Outcome(policy[h], c).status = "Unmapped"
          /\ left' = [left EXCEPT ![h] = @ \ {c}]
          /\ UNCHANGED <<hpc, answer>>
  /\ UNCHANGED <<loadVars, policy>>

\* The loop has ended without a match.
GiveUp(h) ==
  /\ hpc[h] = "mapping" /\ left[h] = {}
  /\ Respond(h, Unmapped)
  /\ UNCHANGED <<loadVars, policy, left>>

-----------------------------------------------------------------------------
LoadNext ==
  \/ LoadCatalog \/ SkipPlugin \/ OpenDir \/ ReadFile \/ AddMapper \/ Serve

HandlerNext == \E h \in Handlers : Reject(h) \/ Receive(h) \/ VisitCatalog(h) \/ GiveUp(h)

Next == LoadNext \/ HandlerNext

Spec == Init /\ [][Next]_vars

-----------------------------------------------------------------------------
(***************************************************************************)
(* TypeOK: every variable has its type; a mapper files each plan under the *)
(* catalog that the plan names, never under an empty one                   *)
(* (cmd/compass/server/config.go 124-132).                                 *)
(***************************************************************************)
IsMapper(m) ==
  /\ "" \notin DOMAIN m
  /\ \A c \in DOMAIN m : m[c] # <<>> /\ \A k \in DOMAIN m[c] : m[c][k].catalog = c

TypeOK ==
  /\ input \in Inputs
  /\ stage \in {"catalog", "plugins", "walk", "serving", "exited"}
  /\ plugin \in 1 .. Len(input.plugins) + 1
  /\ file \in Nat
  /\ IsMapper(mpr)
  /\ \A id \in DOMAIN set : IsMapper(set[id])
  /\ hpc \in [Handlers -> {"idle", "mapping", "done"}]
  /\ policy \in [Handlers -> Policies \cup {None}]
  /\ \A h \in Handlers : hpc[h] = "mapping" => left[h] \subseteq DOMAIN Plans(policy[h].engine)

(***************************************************************************)
(* AnswersAgree: requests for the same policy get the same answer, however *)
(* their loops through the catalogs are ordered and interleaved            *)
(* (mapper/plugins/basic/basic.go 63-117; the scope holds one catalog,     *)
(* cmd/compass/server/config.go 37-39).                                    *)
(***************************************************************************)
Answered(h) == hpc[h] = "done" /\ answer[h].status = 200

AnswersAgree ==
  \A g, h \in Handlers :
    Answered(g) /\ Answered(h) /\ policy[g] = policy[h] => answer[g] = answer[h]

(***************************************************************************)
(* AnswerMatchesFiles: an answer is what the files on the disk say, read   *)
(* without any of the intermediate maps: in the evaluation files of the    *)
(* last plugin of that engine, the last file, in it the last plan for the  *)
(* scope's catalog, and in that the last procedure with the rule's id      *)
(* decides, and its plan's control is the last with that id in the         *)
(* catalog.  If that control is not there, an earlier procedure with the   *)
(* same id does not help                                                   *)
(* (cmd/compass/server/config.go 66-132, mapper/plugins/basic/basic.go     *)
(* 59-173).                                                                *)
(***************************************************************************)
PluginOf(engine) == SelectLastInSeq(input.plugins, LAMBDA p : p.id = engine /\ p.dir # "")

Evaluations(engine) ==
  IF PluginOf(engine) = 0 THEN <<>> ELSE input.disk[input.plugins[PluginOf(engine)].dir].files

\* The last place with what is asked for, or 0.
ProcedureIn(plan, rule) == SelectLastInSeq(plan.procedures, LAMBDA p : p.id = rule)

PlanIn(plans, catalog, rule) ==
  SelectLastInSeq(plans, LAMBDA plan : plan.catalog = catalog /\ ProcedureIn(plan, rule) # 0)

FileIn(files, catalog, rule) ==
  SelectLastInSeq(files, LAMBDA f : PlanIn(f.content, catalog, rule) # 0)

ControlIn(catalog, id) == SelectLastInSeq(catalog.controls, LAMBDA control : control.id = id)

Expected(q) ==
  LET catalog == input.catalog.content
      files == Evaluations(q.engine)
      last == FileIn(files, catalog.id, q.rule)
      plans == files[last].content
      plan == plans[PlanIn(plans, catalog.id, q.rule)]
      control == ControlIn(catalog, plan.control)
  IN IF catalog.id = "" \/ last = 0 \/ control = 0 THEN Unmapped
     ELSE Mapped(catalog.id, plan.procedures[ProcedureIn(plan, q.rule)],
                 catalog.controls[control])

AnswerMatchesFiles ==
  \A h \in Handlers : Answered(h) => answer[h].compliance = Expected(policy[h])

(***************************************************************************)
(* ServesOnlyWhatLoads: compass does not serve on a part of its            *)
(* configuration: one missing directory or one file it cannot read, of any *)
(* plugin, keeps it from listening (cmd/compass/main.go 52-76,             *)
(* cmd/compass/server/config.go 79-135).                                   *)
(***************************************************************************)
Loads(p) ==
  LET dir == input.disk[p.dir]
  IN p.dir # "" => dir.kind = "dir" /\ \A j \in DOMAIN dir.files : dir.files[j].kind = "readable"

ServesOnlyWhatLoads ==
  stage = "serving" =>
    input.catalog.kind = "readable" /\ \A k \in DOMAIN input.plugins : Loads(input.plugins[k])

(***************************************************************************)
(* ListsAreArrays: api.yaml 305-319 requires frameworks and requirements,  *)
(* each an array.  The slices of a mapped control without guideline        *)
(* mappings are nil, and nil is null in JSON                               *)
(* (mapper/plugins/basic/basic.go 176-193).                                *)
(***************************************************************************)
ListsAreArrays ==
  \A h \in Handlers : Answered(h) =>
    answer[h].compliance.frameworks # Nil /\ answer[h].compliance.requirements # Nil
=============================================================================
