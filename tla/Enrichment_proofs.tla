------------------------- MODULE Enrichment_proofs -------------------------
(***************************************************************************)
(* The properties of Enrichment for any inputs, engines, rules and number  *)
(* of requests: first the order of the turns of the loop in Map, whatever  *)
(* a turn computes; then the order of loading; then what the mappers hold, *)
(* as folds over the files, and so what a turn computes.                   *)
(***************************************************************************)
EXTENDS Enrichment, TLAPS

(***************************************************************************)
(* Scoped: the scope holds at most one catalog.  Loaded: requests are      *)
(* served only once nothing is being loaded any more.                      *)
(***************************************************************************)
Scoped == \A c, d \in DOMAIN scope : c = d

Loaded == \A h \in Handlers : hpc[h] # "idle" => stage = "serving"

\* The catalogs whose plans map the policy q.
Matches(q) == {c \in DOMAIN Plans(q.engine) \cap DOMAIN scope : Outcome(q, c).status = "Success"}

\* The answer that does not depend on the order of the loop.
Found(q) == {Outcome(q, c) : c \in Matches(q)}
Decided(q) == IF Found(q) = {} THEN Unmapped ELSE CHOOSE found \in Found(q) : TRUE

(***************************************************************************)
(* Searching: a loop that is still running has not passed over a match.    *)
(* Settled: an answer given is the one decided.                            *)
(***************************************************************************)
Searching ==
  \A h \in Handlers : hpc[h] = "mapping" => Matches(policy[h]) \subseteq left[h]

Settled ==
  \A h \in Handlers : Answered(h) => answer[h] = [status |-> 200, compliance |-> Decided(policy[h])]

Shape ==
  /\ hpc \in [Handlers -> {"idle", "mapping", "done"}]
  /\ answer = [h \in Handlers |-> answer[h]]
  /\ policy = [h \in Handlers |-> policy[h]]
  /\ left = [h \in Handlers |-> left[h]]
  /\ \A h \in Handlers : hpc[h] = "mapping" => left[h] \subseteq DOMAIN Plans(policy[h].engine)

IInv == Shape /\ Scoped /\ Loaded /\ Searching /\ Settled

LEMMA UnmappedStatus == Unmapped.status = "Unmapped"
  BY DEF Unmapped

LEMMA InitInvariant == Init => IInv
  BY DEF Init, IInv, Shape, Scoped, Loaded, Searching, Settled, Answered, EmptyMap

\* While nothing is being served no handler has left "idle".
LEMMA LoadingStep ==
  ASSUME IInv, LoadNext
  PROVE  IInv'
<1>1. stage # "serving"
  BY DEF LoadNext, LoadCatalog, SkipPlugin, OpenDir, ReadFile, AddMapper, Serve
<1>2. UNCHANGED handlerVars
  BY DEF LoadNext, LoadCatalog, SkipPlugin, OpenDir, ReadFile, AddMapper, Serve, Exit
<1>3. \A h \in Handlers : hpc[h] = "idle" /\ hpc'[h] = "idle"
  BY <1>1, <1>2 DEF IInv, Loaded, handlerVars
<1>4. Scoped'
  <2>1. CASE LoadCatalog
    BY <2>1 DEF LoadCatalog, Exit, IInv, Scoped
  <2>2. CASE SkipPlugin \/ OpenDir \/ ReadFile \/ AddMapper \/ Serve
    BY <2>2 DEF SkipPlugin, OpenDir, ReadFile, AddMapper, Serve, Exit, IInv, Scoped
  <2> QED BY <2>1, <2>2 DEF LoadNext
<1>5. Shape' /\ Loaded' /\ Searching' /\ Settled'
  BY <1>2, <1>3 DEF IInv, Shape, Loaded, Searching, Settled, Answered, handlerVars
<1> QED BY <1>4, <1>5 DEF IInv

\* A match found first is the only one.
LEMMA OneMatch ==
  ASSUME Scoped, NEW q, NEW c \in Matches(q)
  PROVE  Decided(q) = Outcome(q, c)
<1>1. \A d \in Matches(q) : d = c
  BY DEF Scoped, Matches
<1>2. Found(q) = {Outcome(q, c)}
  BY <1>1 DEF Found
<1> QED BY <1>2 DEF Decided

LEMMA HandlerStep ==
  ASSUME IInv, HandlerNext
  PROVE  IInv'
<1>1. PICK h \in Handlers : Reject(h) \/ Receive(h) \/ VisitCatalog(h) \/ GiveUp(h)
  BY DEF HandlerNext
<1>2. UNCHANGED loadVars
  BY <1>1 DEF Reject, Receive, VisitCatalog, GiveUp
<1>3. \A q, c : Outcome(q, c)' = Outcome(q, c)
  BY <1>2 DEF loadVars, Outcome, Plans
<1>4. \A q : Matches(q)' = Matches(q)
  BY <1>2, <1>3 DEF loadVars, Matches, Plans
<1>5. \A q : Decided(q)' = Decided(q)
  BY <1>3, <1>4 DEF Decided, Found
<1>6. Scoped'
  BY <1>2 DEF IInv, Scoped, loadVars
<1>7. stage = "serving" /\ stage' = "serving"
  BY <1>1, <1>2 DEF loadVars, IInv, Loaded, Reject, Receive, VisitCatalog, GiveUp
<1>8. Loaded'
  BY <1>7 DEF Loaded
<1>9. \A g \in Handlers \ {h} :
        /\ hpc'[g] = hpc[g]
        /\ policy'[g] = policy[g]
        /\ left'[g] = left[g]
        /\ answer'[g] = answer[g]
  BY <1>1 DEF IInv, Shape, Reject, Receive, VisitCatalog, GiveUp, Respond
<1>10. \A q : DOMAIN Plans(q.engine)' = DOMAIN Plans(q.engine)
  BY <1>2 DEF loadVars, Plans
<1>11. CASE Reject(h)
  <2>1. hpc'[h] = "done" /\ answer'[h].status = 400
    BY <1>11 DEF Reject, IInv, Shape
  <2>2. Shape'
    BY <1>9, <1>10, <1>11, <2>1 DEF Reject, IInv, Shape, loadVars, Plans
  <2>3. Searching' /\ Settled'
    BY <1>4, <1>5, <1>9, <2>1 DEF IInv, Searching, Settled, Answered
  <2> QED BY <1>6, <1>8, <2>2, <2>3 DEF IInv
<1>12. CASE Receive(h)
  <2>1. PICK q \in Policies :
          /\ hpc' = [hpc EXCEPT ![h] = "mapping"]
          /\ policy' = [policy EXCEPT ![h] = q]
          /\ left' = [left EXCEPT ![h] = DOMAIN Plans(q.engine)]
          /\ UNCHANGED answer
    BY <1>12 DEF Receive
  <2>2. hpc'[h] = "mapping" /\ policy'[h] = q /\ left'[h] = DOMAIN Plans(q.engine)
    BY <2>1 DEF IInv, Shape
  <2>3. Shape'
    BY <1>2, <1>9, <2>1, <2>2 DEF IInv, Shape, loadVars, Plans
  <2>4. Matches(q) \subseteq DOMAIN Plans(q.engine)
    BY DEF Matches
  <2>5. Searching' /\ Settled'
    BY <1>4, <1>5, <1>9, <2>2, <2>4 DEF IInv, Searching, Settled, Answered
  <2> QED BY <1>6, <1>8, <2>3, <2>5 DEF IInv
<1>13. CASE VisitCatalog(h)
  <2>1. PICK c \in left[h] :
          \/ /\ Outcome(policy[h], c).status = "Success"
             /\ Respond(h, Outcome(policy[h], c))
             /\ UNCHANGED left
          \/ /\ Outcome(policy[h], c).status = "Unmapped"
             /\ left' = [left EXCEPT ![h] = @ \ {c}]
             /\ UNCHANGED <<hpc, answer>>
    BY <1>13 DEF VisitCatalog
  <2>2. hpc[h] = "mapping" /\ UNCHANGED policy
    BY <1>13 DEF VisitCatalog
  <2>3. Shape'
    BY <1>2, <1>9, <2>1, <2>2 DEF IInv, Shape, loadVars, Plans, Respond
  <2>4. CASE Outcome(policy[h], c).status = "Success" /\ Respond(h, Outcome(policy[h], c))
    <3>1. c \in DOMAIN Plans(policy[h].engine)
      BY <2>1, <2>2 DEF IInv, Shape
    <3>2. c \in DOMAIN scope
      BY <2>4, UnmappedStatus DEF Outcome
    <3>3. c \in Matches(policy[h])
      BY <2>4, <3>1, <3>2 DEF Matches
    <3>4. Decided(policy[h]) = Outcome(policy[h], c)
      BY <3>3, OneMatch DEF IInv
    <3>5. hpc'[h] = "done" /\ answer'[h] = [status |-> 200, compliance |-> Decided(policy[h])]
      BY <2>4, <3>4 DEF Respond, IInv, Shape
    <3>6. Searching' /\ Settled'
      BY <1>4, <1>5, <1>9, <2>2, <3>5 DEF IInv, Searching, Settled, Answered
    <3> QED BY <1>6, <1>8, <2>3, <3>6 DEF IInv
  <2>5. CASE /\ Outcome(policy[h], c).status = "Unmapped"
             /\ left' = [left EXCEPT ![h] = @ \ {c}]
             /\ UNCHANGED <<hpc, answer>>
    <3>1. c \notin Matches(policy[h])
      BY <2>5 DEF Matches
    <3>2. left'[h] = left[h] \ {c}
      BY <2>5 DEF IInv, Shape
    <3>3. Matches(policy[h]) \subseteq left'[h]
      BY <2>2, <3>1, <3>2 DEF IInv, Searching
    <3>4. Searching' /\ Settled'
      BY <1>4, <1>5, <1>9, <2>2, <2>5, <3>3 DEF IInv, Searching, Settled, Answered
    <3> QED BY <1>6, <1>8, <2>3, <3>4 DEF IInv
  <2> QED BY <2>1, <2>4, <2>5
<1>14. CASE GiveUp(h)
  <2>1. Matches(policy[h]) = {}
    BY <1>14 DEF GiveUp, IInv, Searching
  <2>2. hpc'[h] = "done" /\ answer'[h] = [status |-> 200, compliance |-> Decided(policy[h])]
    BY <1>14, <2>1 DEF GiveUp, Respond, Decided, Found, IInv, Shape
  <2>3. UNCHANGED <<policy, left>>
    BY <1>14 DEF GiveUp
  <2>4. Shape'
    BY <1>2, <1>9, <1>14, <2>2, <2>3 DEF IInv, Shape, loadVars, Plans, GiveUp, Respond
  <2>5. Searching' /\ Settled'
    BY <1>4, <1>5, <1>9, <2>2, <2>3 DEF IInv, Searching, Settled, Answered
  <2> QED BY <1>6, <1>8, <2>4, <2>5 DEF IInv
<1> QED BY <1>1, <1>11, <1>12, <1>13, <1>14

LEMMA Invariant == Spec => []IInv
<1>1. Init => IInv
  BY InitInvariant
<1>2. IInv /\ [Next]_vars => IInv'
  <2> SUFFICES ASSUME IInv, [Next]_vars PROVE IInv'
    OBVIOUS
  <2>1. CASE LoadNext
    BY <2>1, LoadingStep
  <2>2. CASE HandlerNext
    BY <2>2, HandlerStep
  <2>3. CASE UNCHANGED vars
    <3>1. UNCHANGED loadVars /\ UNCHANGED handlerVars
      BY <2>3 DEF vars
    <3>2. \A q, c : Outcome(q, c)' = Outcome(q, c)
      BY <3>1 DEF loadVars, Outcome, Plans
    <3>3. \A q : Matches(q)' = Matches(q)
      BY <3>1, <3>2 DEF loadVars, Matches, Plans
    <3>4. \A q : Decided(q)' = Decided(q)
      BY <3>2, <3>3 DEF Decided, Found
    <3>5. Shape' /\ Scoped' /\ Loaded'
      BY <3>1 DEF loadVars, handlerVars, IInv, Shape, Scoped, Loaded, Plans
    <3>6. Searching' /\ Settled'
      BY <3>1, <3>3, <3>4 DEF handlerVars, IInv, Searching, Settled, Answered
    <3> QED BY <3>5, <3>6 DEF IInv
  <2> QED BY <2>1, <2>2, <2>3 DEF Next
<1> QED BY <1>1, <1>2, PTL DEF Spec

(***************************************************************************)
(* Two requests for the same policy never get different answers, although  *)
(* Go visits the catalogs of a mapper in a random order: the scope holds   *)
(* one catalog at most (cmd/compass/server/config.go 37-39), so at most    *)
(* one turn of the loop can match.                                         *)
(***************************************************************************)
THEOREM SamePolicySameAnswer == Spec => []AnswersAgree
<1>1. IInv => AnswersAgree
  BY DEF IInv, Settled, AnswersAgree
<1> QED BY <1>1, Invariant, PTL

-----------------------------------------------------------------------------
(***************************************************************************)
(* Start-up.  Position: the place in the configuration and in a directory. *)
(* Behind: everything before that place could be loaded.                   *)
(***************************************************************************)
Position ==
  /\ input \in Inputs
  /\ plugin \in Nat \ {0}
  /\ file \in Nat \ {0}
  /\ stage = "walk" => MorePlugins /\ Plugin.dir # "" /\ Dir.kind = "dir"
  /\ stage = "serving" => ~MorePlugins

Behind ==
  /\ stage \in {"plugins", "walk", "serving"} => input.catalog.kind = "readable"
  /\ \A k \in DOMAIN input.plugins : k < plugin => Loads(input.plugins[k])
  /\ stage = "walk" => \A j \in DOMAIN Dir.files : j < file => Dir.files[j].kind = "readable"

LEMMA InitLoading == Init => Position /\ Behind
<1> SUFFICES ASSUME Init PROVE Position /\ Behind
  OBVIOUS
<1>1. input \in Inputs /\ stage = "catalog" /\ plugin = 1 /\ file = 1
  BY DEF Init
<1>2. DOMAIN input.plugins = 1 .. Len(input.plugins) /\ Len(input.plugins) \in Nat
  BY <1>1, InputsAssumption DEF IsSequence
<1> QED BY <1>1, <1>2 DEF Position, Behind

LEMMA PluginsLength ==
  ASSUME input \in Inputs
  PROVE  Len(input.plugins) \in Nat /\ DOMAIN input.plugins = 1 .. Len(input.plugins)
  BY InputsAssumption DEF IsSequence

LEMMA FilesLength ==
  ASSUME input \in Inputs, plugin \in DOMAIN input.plugins, Dir.kind = "dir"
  PROVE  Len(Dir.files) \in Nat /\ DOMAIN Dir.files = 1 .. Len(Dir.files)
  BY InputsAssumption DEF IsSequence, Dir, Plugin

LEMMA NextLoading ==
  ASSUME Position, Behind, [Next]_vars
  PROVE  Position' /\ Behind'
<1>a. /\ input \in Inputs
     /\ Len(input.plugins) \in Nat
     /\ DOMAIN input.plugins = 1 .. Len(input.plugins)
  BY PluginsLength DEF Position
<1>b. plugin \in Nat \ {0} /\ file \in Nat \ {0}
  BY DEF Position
<1>c. \A k \in DOMAIN input.plugins : k < plugin + 1 => k < plugin \/ k = plugin
  BY <1>a, <1>b
<1>e. MorePlugins <=> plugin \in DOMAIN input.plugins
  BY <1>a, <1>b DEF MorePlugins
<1>d. stage = "walk" => Len(Dir.files) \in Nat /\ DOMAIN Dir.files = 1 .. Len(Dir.files)
  BY <1>a, <1>e, FilesLength DEF Position
<1>f. \A j \in DOMAIN Dir.files : stage = "walk" => j \in 1 .. Len(Dir.files)
  BY <1>d
<1>1. CASE LoadCatalog
  <2>1. /\ UNCHANGED <<input, plugin, file>> /\ stage = "catalog"
        /\ stage' = "exited" \/ (stage' = "plugins" /\ input.catalog.kind = "readable")
    BY <1>1 DEF LoadCatalog, Exit
  <2>2. stage' # "walk" /\ stage' # "serving"
    BY <2>1
  <2>3. Position'
    BY <2>1, <2>2 DEF Position
  <2> QED BY <2>1, <2>2, <2>3 DEF Behind, Loads
<1>2. CASE SkipPlugin
  <2>1. /\ plugin' = plugin + 1 /\ stage = "plugins"
        /\ UNCHANGED <<input, stage, file>>
        /\ Loads(Plugin)
    BY <1>2 DEF SkipPlugin, Loads
  <2>2. \A k \in DOMAIN input.plugins : k < plugin + 1 => Loads(input.plugins[k])
    BY <1>c, <2>1 DEF Behind, Plugin
  <2>3. Position'
    BY <1>b, <2>1 DEF Position
  <2> QED BY <2>1, <2>2, <2>3 DEF Behind, Loads
<1>3. CASE OpenDir
  <2>1. CASE Exit
    BY <2>1 DEF Exit, Position, Behind, Loads
  <2>2. CASE ~Exit
    <3>1. /\ stage = "plugins" /\ MorePlugins /\ Plugin.dir # "" /\ Dir.kind = "dir"
          /\ stage' = "walk" /\ file' = 1 /\ UNCHANGED <<input, plugin>>
      BY <1>3, <2>2 DEF OpenDir
    <3>2. MorePlugins' /\ Plugin' = Plugin /\ Dir' = Dir
      BY <3>1 DEF MorePlugins, Plugin, Dir
    <3>3. Position'
      <4>1. 1 \in Nat \ {0}
        OBVIOUS
      <4>2. stage' # "serving"
        BY <3>1
      <4> QED BY <3>1, <3>2, <4>1, <4>2, Zenon DEF Position
    <3>4. \A j \in DOMAIN Dir.files : ~(j < 1)
      <4>1. DOMAIN Dir.files = 1 .. Len(Dir.files)
        BY <1>a, <1>e, <3>1, FilesLength
      <4> QED BY <4>1
    <3> QED BY <3>1, <3>2, <3>3, <3>4 DEF Behind, Loads
  <2> QED BY <2>1, <2>2
<1>4. CASE ReadFile
  <2>1. CASE Exit
    BY <2>1 DEF Exit, Position, Behind, Loads
  <2>2. CASE ~Exit
    <3>1. /\ stage = "walk" /\ file' = file + 1
          /\ UNCHANGED <<input, stage, plugin>>
          /\ Dir.files[file].kind = "readable"
      BY <1>4, <2>2 DEF ReadFile
    <3>2. ASSUME NEW j \in DOMAIN Dir.files, j < file + 1
          PROVE  Dir.files[j].kind = "readable"
      <4>1. j \in Nat
        BY <1>f, <3>1
      <4>2. j < file \/ j = file
        BY <1>b, <3>2, <4>1
      <4> QED BY <3>1, <4>2 DEF Behind
    <3>3. MorePlugins' = MorePlugins /\ Plugin' = Plugin /\ Dir' = Dir
      BY <3>1 DEF MorePlugins, Plugin, Dir
    <3>4. file + 1 \in Nat \ {0}
      BY <1>b
    <3>5. Position'
      BY <3>1, <3>3, <3>4, Zenon DEF Position
    <3> QED BY <3>1, <3>2, <3>3, <3>5 DEF Behind, Loads
  <2> QED BY <2>1, <2>2
<1>5. CASE AddMapper
  <2>1. /\ stage = "walk" /\ file = Len(Dir.files) + 1
        /\ plugin' = plugin + 1 /\ stage' = "plugins" /\ UNCHANGED <<input, file>>
    BY <1>5 DEF AddMapper
  <2>2. ASSUME NEW j \in DOMAIN Dir.files
        PROVE  Dir.files[j].kind = "readable"
    <3>1. Len(Dir.files) \in Nat /\ j \in 1 .. Len(Dir.files)
      BY <1>d, <1>f, <2>1
    <3>2. j < file
      BY <2>1, <3>1
    <3> QED BY <2>1, <3>2 DEF Behind
  <2>3. Loads(Plugin)
    BY <2>1, <2>2 DEF Loads, Dir, Position
  <2>4. \A k \in DOMAIN input.plugins : k < plugin + 1 => Loads(input.plugins[k])
    BY <1>c, <2>3 DEF Behind, Plugin
  <2>5. plugin + 1 \in Nat \ {0}
    BY <1>b
  <2>6. Position'
    BY <2>1, <2>5, Zenon DEF Position
  <2> QED BY <2>1, <2>4, <2>6 DEF Behind, Loads
<1>6. CASE Serve
  BY <1>6 DEF Serve, Position, Behind, Loads, MorePlugins
<1>7. CASE HandlerNext \/ UNCHANGED vars
  <2>1. UNCHANGED loadVars
    BY <1>7 DEF HandlerNext, Reject, Receive, VisitCatalog, GiveUp, vars
  <2> QED BY <2>1 DEF loadVars, Position, Behind, Loads, MorePlugins, Plugin, Dir
<1> QED BY <1>1, <1>2, <1>3, <1>4, <1>5, <1>6, <1>7 DEF Next, LoadNext

(***************************************************************************)
(* Whatever the configuration and the files, compass serves only when      *)
(* every plugin's evaluations could be read                                *)
(* (cmd/compass/server/config.go 66-141, cmd/compass/main.go 52-76).       *)
(***************************************************************************)
THEOREM NoHalfLoadedService == Spec => []ServesOnlyWhatLoads
<1>1. Position /\ Behind => ServesOnlyWhatLoads
  BY PluginsLength DEF Position, Behind, MorePlugins, ServesOnlyWhatLoads
<1>2. Init => Position /\ Behind
  BY InitLoading
<1>3. Position /\ Behind /\ [Next]_vars => (Position /\ Behind)'
  BY NextLoading
<1> QED BY <1>1, <1>2, <1>3, PTL DEF Spec
-----------------------------------------------------------------------------
(***************************************************************************)
(* The folds of BasicMapper, each with the context it runs in: LeftFolds   *)
(* proves what they compute, one element after the other.                  *)
(***************************************************************************)
AddedProcedure(plan, byId, p) == AddProcedure(byId, plan, p)
OverProcedures == INSTANCE LeftFolds WITH Op <- AddedProcedure

AddedProcedures(none, byId, plan) == AddProcedures(byId, plan)
OverPlans == INSTANCE LeftFolds WITH Op <- AddedProcedures

AddedPlan(none, m, plan) == AddPlan(m, plan)
OverFile == INSTANCE LeftFolds WITH Op <- AddedPlan

AddedControl(none, byId, control) == AddControl(byId, control)
OverControls == INSTANCE LeftFolds WITH Op <- AddedControl

-----------------------------------------------------------------------------
\* The greatest of a set of places, as SelectLastInSeq chooses it.
LEMMA MaxOf ==
  ASSUME NEW s, s \subseteq Nat, NEW k \in s, \A j \in s : j <= k
  PROVE  Max(s) = k
<1>1. \A x \in s : (\A y \in s : x >= y) => x = k
  OBVIOUS
<1> QED BY <1>1 DEF Max

LEMMA HasMax ==
  ASSUME NEW n \in Nat, NEW s \in SUBSET (1..n), s # {}
  PROVE  Max(s) \in s /\ Max(s) \in 1..n /\ Max(s) # 0
<1> DEFINE T == {n - k : k \in s}
<1>1. T \subseteq Nat /\ T # {}
  <2>1. \A k \in s : n - k \in Nat
    OBVIOUS
  <2> QED BY <2>1
<1>2. PICK t \in T : \A u \in T : t <= u
  <2> HIDE DEF T
  <2> QED BY <1>1, OverPlans!Least
<1>3. PICK k \in s : t = n - k
  OBVIOUS
<1>4. \A j \in s : j <= k
  <2> SUFFICES ASSUME NEW j \in s PROVE j <= k
    OBVIOUS
  <2>1. n - j \in T
    OBVIOUS
  <2> QED BY <1>2, <1>3, <2>1
<1>5. s \subseteq Nat
  OBVIOUS
<1>6. Max(s) = k
  <2> HIDE DEF T
  <2> QED BY <1>4, <1>5, MaxOf
<1>7. k \in 1..n /\ k # 0
  OBVIOUS
<1> QED BY <1>6, <1>7

\* The last of the places up to n: n itself or the last before it.
LEMMA SoFar ==
  ASSUME NEW s, NEW n \in Nat \ {0}
  PROVE  /\ n \in s => s \cap (1..n) # {} /\ Max(s \cap (1..n)) = n
         /\ n \notin s => s \cap (1..n) = s \cap (1 .. n - 1)
<1>1. ASSUME n \in s PROVE s \cap (1..n) # {} /\ Max(s \cap (1..n)) = n
  <2> DEFINE t == s \cap (1..n)
  <2>1. t \subseteq Nat /\ n \in t /\ \A j \in t : j <= n
    BY <1>1
  <2>2. Max(t) = n
    <3> HIDE DEF t
    <3> QED BY <2>1, MaxOf
  <2> QED BY <2>1, <2>2
<1>2. ASSUME n \notin s PROVE s \cap (1..n) = s \cap (1 .. n - 1)
  BY <1>2
<1> QED BY <1>1, <1>2

(***************************************************************************)
(* A value that every marked place overwrites: after the last place it is the*)
(* one of the last marked place, or what it was before the first.          *)
(***************************************************************************)
Overwrites(says, value, marked, n) ==
  \A k \in 1..n : says[k] = IF k \in marked THEN value[k] ELSE says[k - 1]

LEMMA LastWins ==
  ASSUME NEW n \in Nat, NEW says, NEW value, NEW marked \in SUBSET (1..n),
         Overwrites(says, value, marked, n)
  PROVE  /\ marked = {} => says[n] = says[0]
         /\ marked # {} => says[n] = value[Max(marked)]
<1> DEFINE So(k) == marked \cap (1..k)
           T == {k \in 0..n : says[k] = IF So(k) = {} THEN says[0] ELSE value[Max(So(k))]}
<1>1. 0 \in T
  OBVIOUS
<1>2. ASSUME NEW k \in 0 .. n - 1, k \in T PROVE k + 1 \in T
  <2>1. k + 1 \in Nat \ {0} /\ k + 1 \in 1..n /\ (k + 1) - 1 = k /\ k + 1 \in 0..n
    OBVIOUS
  <2>2. CASE k + 1 \in marked
    <3>1. says[k + 1] = value[k + 1]
      BY <2>1, <2>2 DEF Overwrites
    <3>2. So(k + 1) # {} /\ Max(So(k + 1)) = k + 1
      BY <2>1, <2>2, SoFar
    <3> QED BY <2>1, <3>1, <3>2
  <2>3. CASE k + 1 \notin marked
    <3>1. says[k + 1] = says[k]
      BY <2>1, <2>3 DEF Overwrites
    <3>2. So(k + 1) = So(k)
      BY <2>1, <2>3, SoFar
    <3> QED BY <1>2, <2>1, <3>1, <3>2
  <2> QED BY <2>2, <2>3
<1>3. 0..n \subseteq T
  <2> HIDE DEF T
  <2> QED BY <1>1, <1>2, OverPlans!InductUpTo
<1>4. So(n) = marked
  <2>1. \A k \in marked : k \in 1..n
    OBVIOUS
  <2> QED BY <2>1, Zenon
<1>5. n \in 0..n
  OBVIOUS
<1> HIDE DEF So
<1> QED BY <1>3, <1>4, <1>5

\* The same of the place that SelectLastInSeq returns.
LEMMA LastDecides ==
  ASSUME NEW n \in Nat, NEW says, NEW value, NEW marked \in SUBSET (1..n),
         Overwrites(says, value, marked, n),
         NEW last, last = IF marked # {} THEN Max(marked) ELSE 0
  PROVE  \/ last = 0 /\ says[n] = says[0]
         \/ last \in 1..n /\ last # 0 /\ says[n] = value[last]
<1>1. CASE marked = {}
  BY <1>1, LastWins
<1>2. CASE marked # {}
  <2>1. Max(marked) \in 1..n /\ Max(marked) # 0
    BY <1>2, HasMax
  <2>2. last \in 1..n /\ last # 0
    BY <1>2, <2>1
  <2>3. says[n] = value[Max(marked)]
    BY <1>2, LastWins
  <2> QED BY <1>2, <2>2, <2>3
<1> QED BY <1>1, <1>2

-----------------------------------------------------------------------------
\* What a map has for a key: one value or none.
At(f, x) == IF x \in DOMAIN f THEN {f[x]} ELSE {}

\* What AddProcedure stores.
Entry(plan, p) ==
  [control |-> plan.control, requirement |-> p.requirement, documentation |-> p.documentation]

LEMMA OneAdded ==
  ASSUME NEW f, NEW k, NEW v, NEW x
  PROVE  At(Assign(f, k, v), x) = IF x = k THEN {v} ELSE At(f, x)
BY DEF At, Assign

\* The last procedure with an id is the one that a plan leaves behind.
LEMMA ProcedureAt ==
  ASSUME NEW byId, NEW plan, IsSequence(plan.procedures), NEW rule
  PROVE  At(AddProcedures(byId, plan), rule) =
           IF ProcedureIn(plan, rule) = 0 THEN At(byId, rule)
           ELSE {Entry(plan, plan.procedures[ProcedureIn(plan, rule)])}
<1> DEFINE list == plan.procedures
           n == Len(list)
           fold == AddProcedures(byId, plan)
           marked == {i \in 1..n : list[i].id = rule}
<1>1. n \in Nat /\ DOMAIN list = 1..n
  BY DEF IsSequence
<1>2. fold = OverProcedures!Fold(plan, byId, list)
  BY DEF AddProcedures, OverProcedures!Fold, AddedProcedure, FoldLeft, MapThenFoldSet,
     OverProcedures!FoldLeft, OverProcedures!MapThenFoldSet, OverProcedures!Max, Max
<1>3. ProcedureIn(plan, rule) = IF marked # {} THEN Max(marked) ELSE 0
  BY DEF ProcedureIn, SelectLastInSeq
<1> HIDE DEF list, n, fold
<1>4. PICK a : OverProcedures!Chained(a, plan, byId, list, n)
  BY <1>1, OverProcedures!Chain, Zenon
<1>5. /\ a[0] = byId
      /\ \A k \in 1..n : a[k] = AddProcedure(a[k - 1], plan, list[k])
      /\ a[n] = fold
  BY <1>2, <1>4 DEF OverProcedures!Chained, AddedProcedure
<1> DEFINE says == [k \in 0..n |-> At(a[k], rule)]
           value == [k \in 1..n |-> {Entry(plan, list[k])}]
<1>6. ASSUME NEW k \in 1..n
      PROVE  says[k] = IF k \in marked THEN value[k] ELSE says[k - 1]
  <2>1. k - 1 \in 0..n /\ k \in 0..n
    BY <1>1
  <2>2. a[k] = Assign(a[k - 1], list[k].id, Entry(plan, list[k]))
    BY <1>5 DEF AddProcedure, Entry
  <2>3. At(a[k], rule) = IF rule = list[k].id THEN {Entry(plan, list[k])} ELSE At(a[k - 1], rule)
    <3> HIDE DEF says, value, marked
    <3> DEFINE before == a[k - 1]
               id == list[k].id
               entry == Entry(plan, list[k])
    <3>1. a[k] = Assign(before, id, entry)
      BY <2>2
    <3> HIDE DEF before, id, entry
    <3>2. At(a[k], rule) = IF rule = id THEN {entry} ELSE At(before, rule)
      BY <3>1, OneAdded
    <3> QED BY <3>2 DEF before, id, entry
  <2> QED BY <2>1, <2>3
<1>7. says[n] = At(fold, rule) /\ says[0] = At(byId, rule)
  BY <1>1, <1>5
<1>8. marked \in SUBSET (1..n)
  OBVIOUS
<1> DEFINE last == ProcedureIn(plan, rule)
<1>9. Overwrites(says, value, marked, n)
  <2> HIDE DEF says, value, marked
  <2> QED BY <1>6 DEF Overwrites
<1>10. \/ last = 0 /\ says[n] = says[0]
       \/ last \in 1..n /\ last # 0 /\ says[n] = value[last]
  <2> HIDE DEF marked, says, value, last
  <2>1. last = IF marked # {} THEN Max(marked) ELSE 0
    BY <1>3 DEF last
  <2> QED BY <1>1, <1>8, <1>9, <2>1, LastDecides
<1>11. last \in 1..n => value[last] = {Entry(plan, list[last])}
  <2> HIDE DEF last
  <2> QED OBVIOUS
<1> HIDE DEF marked, says, value
<1> QED BY <1>7, <1>10, <1>11 DEF list, fold
-----------------------------------------------------------------------------
\* Append as a function, for elements of no known set.
LEMMA AppendIs ==
  ASSUME NEW n \in Nat, NEW s, s = [k \in 1..n |-> s[k]], NEW x
  PROVE  Append(s, x) = [k \in 1 .. n + 1 |-> IF k = n + 1 THEN x ELSE s[k]]
<1> DEFINE S == {s[k] : k \in 1..n} \cup {x}
<1>1. \A k \in 1..n : s[k] \in S
  OBVIOUS
<1>2. x \in S
  OBVIOUS
<1> HIDE DEF S
<1>3. s \in [1..n -> S]
  BY <1>1
<1>4. s \in Seq(S) /\ Len(s) = n
  BY <1>3
<1>5. /\ Append(s, x) \in Seq(S) /\ Len(Append(s, x)) = n + 1
      /\ \A k \in 1 .. n + 1 : Append(s, x)[k] = IF k = n + 1 THEN x ELSE s[k]
  BY <1>2, <1>4
<1>6. /\ DOMAIN Append(s, x) = 1 .. n + 1
      /\ Append(s, x) = [k \in DOMAIN Append(s, x) |-> Append(s, x)[k]]
  BY <1>5
<1> QED BY <1>5, <1>6

(***************************************************************************)
(* Kept: a list with at least one plan, all of the catalog c.  Filed: a mapper*)
(* whose lists are so and which has none for an empty name.  Says: what a turn*)
(* of the loop finds for a rule among the plans of a catalog.              *)
(***************************************************************************)
Kept(plans, c) ==
  \E n \in Nat \ {0} :
    /\ plans = [k \in 1..n |-> plans[k]]
    /\ \A k \in 1..n : plans[k].catalog = c

Filed(m) == "" \notin DOMAIN m /\ \A c \in DOMAIN m : Kept(m[c], c)

Says(m, c, rule) == IF c \in DOMAIN m THEN At(buildProceduresMap(m[c]), rule) ELSE {}

EntryOf(plan, rule) == Entry(plan, plan.procedures[ProcedureIn(plan, rule)])

\* The first plan of a catalog, and one more.
LEMMA ProceduresFold ==
  ASSUME NEW plans
  PROVE  buildProceduresMap(plans) = OverPlans!Fold({}, EmptyMap, plans)
BY DEF buildProceduresMap, OverPlans!Fold, AddedProcedures, FoldLeft, MapThenFoldSet,
   OverPlans!FoldLeft, OverPlans!MapThenFoldSet, OverPlans!Max, Max

LEMMA FirstPlan ==
  ASSUME NEW plan
  PROVE  /\ Kept(<<plan>>, plan.catalog)
         /\ buildProceduresMap(<<plan>>) = AddProcedures(EmptyMap, plan)
<1> DEFINE one == <<plan>>
<1>1. one = [k \in 1..1 |-> one[k]] /\ one[1] = plan /\ DOMAIN one = 1..1
  OBVIOUS
<1> HIDE DEF one
<1>2. Kept(one, plan.catalog)
  <2>1. 1 \in Nat \ {0} /\ \A k \in 1..1 : one[k].catalog = plan.catalog
    BY <1>1
  <2> QED BY <1>1, <2>1 DEF Kept
<1>3. buildProceduresMap(one) = AddProcedures(EmptyMap, plan)
  <2> DEFINE nothing == [k \in 1..0 |-> plan]
  <2>1. DOMAIN nothing = {} /\ DOMAIN nothing = 1..0 /\ \A k \in 1..0 : one[k] = nothing[k]
    OBVIOUS
  <2>2. OverPlans!Fold({}, EmptyMap, nothing) = EmptyMap
    <3> HIDE DEF nothing
    <3> QED BY <2>1, OverPlans!FoldNone, Zenon
  <2>3. 0 \in Nat /\ 0 + 1 = 1
    OBVIOUS
  <2>4. OverPlans!Fold({}, EmptyMap, one) =
          AddedProcedures({}, OverPlans!Fold({}, EmptyMap, nothing), one[0 + 1])
    <3> HIDE DEF nothing
    <3>1. DOMAIN one = 1 .. 0 + 1
      BY <1>1, <2>3
    <3>2. OverPlans!OneMore(one, nothing, 0)
      BY <2>1, <3>1 DEF OverPlans!OneMore
    <3> QED BY <2>3, <3>2, OverPlans!FoldMore
  <2> QED BY <1>1, <2>2, <2>3, <2>4, ProceduresFold DEF AddedProcedures
<1> QED BY <1>2, <1>3 DEF one

LEMMA NextPlan ==
  ASSUME NEW plan, NEW plans, Kept(plans, plan.catalog)
  PROVE  /\ Kept(Append(plans, plan), plan.catalog)
         /\ buildProceduresMap(Append(plans, plan)) = AddProcedures(buildProceduresMap(plans), plan)
<1>1. PICK n \in Nat \ {0} :
        /\ plans = [k \in 1..n |-> plans[k]]
        /\ \A k \in 1..n : plans[k].catalog = plan.catalog
  BY DEF Kept
<1> DEFINE more == Append(plans, plan)
<1>2. more = [k \in 1 .. n + 1 |-> IF k = n + 1 THEN plan ELSE plans[k]]
  <2>1. n \in Nat
    OBVIOUS
  <2> HIDE DEF more
  <2>2. Append(plans, plan) = [k \in 1 .. n + 1 |-> IF k = n + 1 THEN plan ELSE plans[k]]
    BY <1>1, <2>1, AppendIs, ZenonT(60)
  <2> QED BY <2>2 DEF more
<1> HIDE DEF more
<1>3. /\ n \in Nat /\ n + 1 \in Nat \ {0}
      /\ DOMAIN plans = 1..n /\ DOMAIN more = 1 .. n + 1
      /\ \A k \in 1..n : more[k] = plans[k]
      /\ more[n + 1] = plan
  BY <1>1, <1>2
<1>4. Kept(more, plan.catalog)
  <2>1. \A k \in 1 .. n + 1 : more[k].catalog = plan.catalog
    BY <1>1, <1>2
  <2>2. more = [k \in 1 .. n + 1 |-> more[k]]
    BY <1>2
  <2> QED BY <1>3, <2>1, <2>2 DEF Kept
<1>5. OverPlans!Fold({}, EmptyMap, more) =
        AddedProcedures({}, OverPlans!Fold({}, EmptyMap, plans), more[n + 1])
  <2>1. OverPlans!OneMore(more, plans, n)
    BY <1>3 DEF OverPlans!OneMore
  <2> QED BY <1>3, <2>1, OverPlans!FoldMore
<1>6. buildProceduresMap(more) = AddProcedures(buildProceduresMap(plans), plan)
  BY <1>3, <1>5, ProceduresFold DEF AddedProcedures
<1> QED BY <1>4, <1>6 DEF more

\* What one plan of a file changes, AddPlan.
LEMMA PlanAdded ==
  ASSUME NEW m, Filed(m), NEW plan, IsSequence(plan.procedures)
  PROVE  /\ Filed(AddPlan(m, plan))
         /\ \A c, rule : c # "" =>
              Says(AddPlan(m, plan), c, rule) =
                IF plan.catalog = c /\ ProcedureIn(plan, rule) # 0
                THEN {EntryOf(plan, rule)} ELSE Says(m, c, rule)
<1>1. CASE plan.catalog = ""
  <2>1. AddPlan(m, plan) = m
    BY <1>1 DEF AddPlan
  <2> QED BY <1>1, <2>1
<1>2. CASE plan.catalog # ""
  <2> DEFINE cat == plan.catalog
             before == IF cat \in DOMAIN m THEN buildProceduresMap(m[cat]) ELSE EmptyMap
             list == IF cat \in DOMAIN m THEN Append(m[cat], plan) ELSE <<plan>>
             after == AddPlan(m, plan)
  <2>1. after = Assign(m, cat, list)
    BY <1>2 DEF AddPlan, AddEvaluationPlan
  <2>2. Kept(list, cat) /\ buildProceduresMap(list) = AddProcedures(before, plan)
    <3>1. CASE cat \in DOMAIN m
      <4>1. Kept(m[cat], plan.catalog)
        BY <3>1 DEF Filed
      <4> QED BY <3>1, <4>1, NextPlan
    <3>2. CASE cat \notin DOMAIN m
      BY <3>2, FirstPlan
    <3> QED BY <3>1, <3>2
  <2>3. \A rule : Says(m, cat, rule) = At(before, rule)
    BY DEF Says, At, EmptyMap
  <2> HIDE DEF before, list
  <2>4. /\ DOMAIN after = DOMAIN m \cup {cat} /\ after[cat] = list
        /\ \A c \in DOMAIN m : c # cat => after[c] = m[c]
    BY <2>1 DEF Assign
  <2> HIDE DEF after
  <2>5. Filed(after)
    BY <1>2, <2>2, <2>4 DEF Filed
  <2>6. ASSUME NEW c, NEW rule, c # cat
        PROVE  Says(after, c, rule) = Says(m, c, rule)
    BY <2>4, <2>6 DEF Says
  <2>7. ASSUME NEW rule
        PROVE  Says(after, cat, rule) =
                 IF ProcedureIn(plan, rule) # 0 THEN {EntryOf(plan, rule)} ELSE Says(m, cat, rule)
    <3>1. Says(after, cat, rule) = At(AddProcedures(before, plan), rule)
      BY <2>2, <2>4 DEF Says
    <3>2. At(AddProcedures(before, plan), rule) =
            IF ProcedureIn(plan, rule) = 0 THEN At(before, rule) ELSE {EntryOf(plan, rule)}
      BY ProcedureAt, Zenon DEF EntryOf
    <3> QED BY <2>3, <3>1, <3>2
  <2> QED BY <1>2, <2>5, <2>6, <2>7 DEF after, cat
<1> QED BY <1>1, <1>2

\* What all plans of a file change, WithPlans: the last that has the rule decides.
SaysAfter(plans, m, c, rule) ==
  IF PlanIn(plans, c, rule) = 0 THEN Says(m, c, rule)
  ELSE {EntryOf(plans[PlanIn(plans, c, rule)], rule)}

LEMMA PlansAdded ==
  ASSUME NEW m, Filed(m), NEW plans, IsEvaluation(plans)
  PROVE  /\ Filed(WithPlans(m, plans))
         /\ \A c, rule : c # "" =>
              Says(WithPlans(m, plans), c, rule) = SaysAfter(plans, m, c, rule)
<1> DEFINE n == Len(plans)
           fold == WithPlans(m, plans)
<1>1. /\ n \in Nat /\ DOMAIN plans = 1..n
      /\ \A k \in 1..n : IsSequence(plans[k].procedures)
  BY DEF IsEvaluation, IsSequence
<1>2. fold = OverFile!Fold({}, m, plans)
  BY DEF WithPlans, OverFile!Fold, AddedPlan, FoldLeft, MapThenFoldSet,
     OverFile!FoldLeft, OverFile!MapThenFoldSet, OverFile!Max, Max
<1>3. \A c, rule : PlanIn(plans, c, rule) =
        LET marked == {k \in 1..n : plans[k].catalog = c /\ ProcedureIn(plans[k], rule) # 0}
        IN IF marked # {} THEN Max(marked) ELSE 0
  BY DEF PlanIn, SelectLastInSeq
<1> HIDE DEF n, fold
<1>4. PICK a : OverFile!Chained(a, {}, m, plans, n)
  BY <1>1, OverFile!Chain, Zenon
<1>5. /\ a[0] = m
      /\ \A k \in 1..n : a[k] = AddPlan(a[k - 1], plans[k])
      /\ a[n] = fold
  BY <1>2, <1>4 DEF OverFile!Chained, AddedPlan
<1> DEFINE T == {k \in 0..n : Filed(a[k])}
<1>6. 0..n \subseteq T
  <2>1. 0 \in T
    BY <1>1, <1>5
  <2>2. ASSUME NEW k \in 0 .. n - 1, k \in T PROVE k + 1 \in T
    <3>1. k + 1 \in 1..n /\ (k + 1) - 1 = k /\ k + 1 \in 0..n
      BY <1>1
    <3>2. a[k + 1] = AddPlan(a[k], plans[k + 1])
      BY <1>5, <3>1
    <3>3. Filed(a[k]) /\ IsSequence(plans[k + 1].procedures)
      BY <1>1, <2>2, <3>1
    <3>4. Filed(AddPlan(a[k], plans[k + 1]))
      BY <3>3, PlanAdded
    <3> QED BY <3>1, <3>2, <3>4
  <2> HIDE DEF T
  <2> QED BY <1>1, <2>1, <2>2, OverPlans!InductUpTo
<1>7. Filed(fold)
  BY <1>1, <1>5, <1>6
<1>8. ASSUME NEW c, NEW rule, c # ""
      PROVE  Says(fold, c, rule) = SaysAfter(plans, m, c, rule)
  <2> DEFINE marked == {k \in 1..n : plans[k].catalog = c /\ ProcedureIn(plans[k], rule) # 0}
             says == [k \in 0..n |-> Says(a[k], c, rule)]
             value == [k \in 1..n |-> {EntryOf(plans[k], rule)}]
             last == PlanIn(plans, c, rule)
  <2>1. ASSUME NEW k \in 1..n
        PROVE  says[k] = IF k \in marked THEN value[k] ELSE says[k - 1]
    <3>1. k - 1 \in 0..n /\ k \in 0..n
      BY <1>1
    <3>2. Filed(a[k - 1]) /\ IsSequence(plans[k].procedures)
      BY <1>1, <1>6, <3>1
    <3>3. a[k] = AddPlan(a[k - 1], plans[k])
      BY <1>5
    <3>4. Says(AddPlan(a[k - 1], plans[k]), c, rule) =
            IF plans[k].catalog = c /\ ProcedureIn(plans[k], rule) # 0
            THEN {EntryOf(plans[k], rule)} ELSE Says(a[k - 1], c, rule)
      <4> DEFINE before == a[k - 1]
                 plan == plans[k]
      <4>1. Filed(before) /\ IsSequence(plan.procedures)
        BY <3>2
      <4> HIDE DEF marked, says, value, last, T, before, plan
      <4>2. Says(AddPlan(before, plan), c, rule) =
              IF plan.catalog = c /\ ProcedureIn(plan, rule) # 0
              THEN {EntryOf(plan, rule)} ELSE Says(before, c, rule)
        <5>1. \A x, r : x # "" =>
                Says(AddPlan(before, plan), x, r) =
                  IF plan.catalog = x /\ ProcedureIn(plan, r) # 0
                  THEN {EntryOf(plan, r)} ELSE Says(before, x, r)
          BY <4>1, PlanAdded, Zenon
        <5> QED BY <1>8, <5>1
      <4> QED BY <4>2 DEF before, plan
    <3> QED BY <1>8, <3>1, <3>3, <3>4
  <2>2. marked \in SUBSET (1..n)
    OBVIOUS
  <2>3. last = IF marked # {} THEN Max(marked) ELSE 0
    BY <1>3
  <2>4. says[0] = Says(m, c, rule) /\ says[n] = Says(fold, c, rule)
    BY <1>1, <1>5
  <2>5. last \in 1..n => value[last] = {EntryOf(plans[last], rule)}
    <3> HIDE DEF last
    <3> QED OBVIOUS
  <2> HIDE DEF marked, says, value, last
  <2>6. Overwrites(says, value, marked, n)
    BY <2>1 DEF Overwrites
  <2>7. \/ last = 0 /\ says[n] = says[0]
        \/ last \in 1..n /\ last # 0 /\ says[n] = value[last]
    BY <1>1, <2>2, <2>3, <2>6, LastDecides
  <2> QED BY <2>4, <2>5, <2>7 DEF last, SaysAfter
<1> QED BY <1>7, <1>8 DEF fold

\* The last control with an id is the one that the loop finds.
LEMMA ControlAt ==
  ASSUME NEW catalog, IsSequence(catalog.controls), NEW id
  PROVE  At(buildControlDataMap(catalog), id) =
           IF ControlIn(catalog, id) = 0 THEN {} ELSE {catalog.controls[ControlIn(catalog, id)]}
<1> DEFINE list == catalog.controls
           n == Len(list)
           fold == buildControlDataMap(catalog)
           marked == {i \in 1..n : list[i].id = id}
           last == ControlIn(catalog, id)
<1>1. n \in Nat /\ DOMAIN list = 1..n
  BY DEF IsSequence
<1>2. fold = OverControls!Fold({}, EmptyMap, list)
  BY DEF buildControlDataMap, OverControls!Fold, AddedControl, FoldLeft, MapThenFoldSet,
     OverControls!FoldLeft, OverControls!MapThenFoldSet, OverControls!Max, Max
<1>3. last = IF marked # {} THEN Max(marked) ELSE 0
  BY DEF ControlIn, SelectLastInSeq
<1> HIDE DEF list, n, fold
<1>4. PICK a : OverControls!Chained(a, {}, EmptyMap, list, n)
  BY <1>1, OverControls!Chain, Zenon
<1>5. /\ a[0] = EmptyMap
      /\ \A k \in 1..n : a[k] = AddControl(a[k - 1], list[k])
      /\ a[n] = fold
  BY <1>2, <1>4 DEF OverControls!Chained, AddedControl
<1> DEFINE says == [k \in 0..n |-> At(a[k], id)]
           value == [k \in 1..n |-> {list[k]}]
<1>6. ASSUME NEW k \in 1..n
      PROVE  says[k] = IF k \in marked THEN value[k] ELSE says[k - 1]
  <2>1. k - 1 \in 0..n /\ k \in 0..n
    BY <1>1
  <2>2. At(a[k], id) = IF id = list[k].id THEN {list[k]} ELSE At(a[k - 1], id)
    <3> DEFINE before == a[k - 1]
               control == list[k]
               key == control.id
    <3>1. a[k] = Assign(before, key, control)
      BY <1>5 DEF AddControl
    <3> HIDE DEF before, key, control, says, value, marked
    <3>2. At(a[k], id) = IF id = key THEN {control} ELSE At(before, id)
      BY <3>1, OneAdded
    <3> QED BY <3>2 DEF before, key, control
  <2> QED BY <2>1, <2>2
<1>7. says[n] = At(fold, id) /\ says[0] = {}
  <2>1. At(EmptyMap, id) = {}
    BY DEF At, EmptyMap
  <2> QED BY <1>1, <1>5, <2>1
<1>8. marked \in SUBSET (1..n)
  OBVIOUS
<1>9. last \in 1..n => value[last] = {list[last]}
  <2> HIDE DEF last
  <2> QED OBVIOUS
<1> HIDE DEF marked, says, value, last
<1>10. Overwrites(says, value, marked, n)
  BY <1>6 DEF Overwrites
<1>11. \/ last = 0 /\ says[n] = says[0]
       \/ last \in 1..n /\ last # 0 /\ says[n] = value[last]
  BY <1>1, <1>3, <1>8, <1>10, LastDecides
<1> QED BY <1>7, <1>9, <1>11 DEF list, fold, last

\* One turn of the loop in Map, from what the mapper says.
LEMMA TurnMaps ==
  ASSUME NEW id, NEW list, NEW catalog, IsSequence(catalog.controls), NEW rule
  PROVE  /\ At(buildProceduresMap(list), rule) = {} => MapInto(id, list, catalog, rule) = Unmapped
         /\ \A plan, p :
              At(buildProceduresMap(list), rule) = {Entry(plan, p)} =>
                MapInto(id, list, catalog, rule) =
                  IF ControlIn(catalog, plan.control) = 0 THEN Unmapped
                  ELSE Mapped(id, p, catalog.controls[ControlIn(catalog, plan.control)])
<1> DEFINE byId == buildProceduresMap(list)
           data == buildControlDataMap(catalog)
           out == MapInto(id, list, catalog, rule)
<1>1. out = IF rule \in DOMAIN byId /\ byId[rule].control \in DOMAIN data
            THEN Mapped(id, byId[rule], data[byId[rule].control]) ELSE Unmapped
  BY DEF MapInto
<1>2. \A c : At(data, c) =
               IF ControlIn(catalog, c) = 0 THEN {} ELSE {catalog.controls[ControlIn(catalog, c)]}
  BY ControlAt
<1>3. \A plan, p, control : Mapped(id, Entry(plan, p), control) = Mapped(id, p, control)
  BY DEF Mapped, Entry
<1>4. \A plan, p : Entry(plan, p).control = plan.control
  BY DEF Entry
<1> HIDE DEF byId, data, out
<1>5. ASSUME At(byId, rule) = {} PROVE out = Unmapped
  BY <1>1, <1>5 DEF At
<1>6. ASSUME NEW plan, NEW p, At(byId, rule) = {Entry(plan, p)}
      PROVE  out = IF ControlIn(catalog, plan.control) = 0 THEN Unmapped
                   ELSE Mapped(id, p, catalog.controls[ControlIn(catalog, plan.control)])
  <2>1. rule \in DOMAIN byId /\ byId[rule] = Entry(plan, p)
    BY <1>6 DEF At
  <2>2. CASE ControlIn(catalog, plan.control) = 0
    <3>1. plan.control \notin DOMAIN data
      BY <1>2, <2>2 DEF At
    <3> QED BY <1>1, <1>4, <2>1, <2>2, <3>1
  <2>3. CASE ControlIn(catalog, plan.control) # 0
    <3>1. /\ plan.control \in DOMAIN data
          /\ data[plan.control] = catalog.controls[ControlIn(catalog, plan.control)]
      BY <1>2, <2>3 DEF At
    <3> QED BY <1>1, <1>3, <1>4, <2>1, <2>3, <3>1
  <2> QED BY <2>2, <2>3
<1> QED BY <1>5, <1>6 DEF byId, out

-----------------------------------------------------------------------------
(***************************************************************************)
(* What the files say of a rule, as far as loading has got.  FilesWith: the*)
(* files of a directory that have the rule for the catalog c.  PluginsFor: the*)
(* plugins that load a mapper e.  Written: what the first n files say.     *)
(* Configured: what the first n plugins say.                               *)
(***************************************************************************)
FilesWith(files, c, rule) == {f \in 1 .. Len(files) : PlanIn(files[f].content, c, rule) # 0}

PluginsFor(e) ==
  {k \in 1 .. Len(input.plugins) : input.plugins[k].id = e /\ input.plugins[k].dir # ""}

Written(files, n, c, rule) ==
  LET s == FilesWith(files, c, rule) \cap (1..n)
      plans == files[Max(s)].content
  IN IF s = {} THEN {} ELSE {EntryOf(plans[PlanIn(plans, c, rule)], rule)}

Configured(n, e, c, rule) ==
  LET s == PluginsFor(e) \cap (1..n)
      files == input.disk[input.plugins[Max(s)].dir].files
  IN IF s = {} THEN {} ELSE Written(files, Len(files), c, rule)

(***************************************************************************)
(* Filing: what has been filed is what has been read, file by file in the  *)
(* mapper that is being filled and plugin by plugin in the mappers in use; the*)
(* scope is the catalog that was read.                                     *)
(***************************************************************************)
Bounded == plugin \in 1 .. Len(input.plugins) + 1

Scoping ==
  stage \in {"plugins", "walk", "serving"} =>
    scope = [id \in {input.catalog.content.id} |-> input.catalog.content]

Filling ==
  /\ Filed(mpr)
  /\ stage = "walk" =>
       \A c, rule : c # "" => Says(mpr, c, rule) = Written(Dir.files, file - 1, c, rule)

Filled ==
  /\ \A e : Filed(Plans(e))
  /\ \A e, c, rule : c # "" => Says(Plans(e), c, rule) = Configured(plugin - 1, e, c, rule)

Filing == Position /\ Behind /\ Bounded /\ Scoping /\ Filling /\ Filled

LEMMA NothingFiled ==
  /\ Filed(EmptyMap)
  /\ \A c, rule : Says(EmptyMap, c, rule) = {}
BY DEF Filed, EmptyMap, Says

LEMMA NothingWritten == \A files, c, rule : Written(files, 0, c, rule) = {}
<1>1. \A s : s \cap (1..0) = {}
  OBVIOUS
<1> QED BY <1>1 DEF Written

\* One file more, one plugin more.
LEMMA WrittenMore ==
  ASSUME NEW files, NEW n \in Nat, n \in 1 .. Len(files), NEW c, NEW rule, NEW plans,
         plans = files[n].content
  PROVE  Written(files, n, c, rule) =
           IF PlanIn(plans, c, rule) = 0 THEN Written(files, n - 1, c, rule)
           ELSE {EntryOf(plans[PlanIn(plans, c, rule)], rule)}
<1> DEFINE s == FilesWith(files, c, rule)
<1>1. n \in s <=> PlanIn(plans, c, rule) # 0
  BY DEF FilesWith
<1>2. n \in Nat \ {0}
  OBVIOUS
<1> HIDE DEF s
<1>3. CASE n \in s
  <2>1. s \cap (1..n) # {} /\ Max(s \cap (1..n)) = n
    BY <1>2, <1>3, SoFar
  <2> QED BY <1>1, <1>3, <2>1 DEF Written, s
<1>4. CASE n \notin s
  <2>1. s \cap (1..n) = s \cap (1 .. n - 1)
    BY <1>2, <1>4, SoFar
  <2> QED BY <1>1, <1>4, <2>1 DEF Written, s
<1> QED BY <1>3, <1>4

LEMMA ConfiguredMore ==
  ASSUME NEW n \in Nat \ {0}, NEW e, NEW c, NEW rule, NEW files,
         files = input.disk[input.plugins[n].dir].files
  PROVE  Configured(n, e, c, rule) =
           IF n \in PluginsFor(e) THEN Written(files, Len(files), c, rule)
           ELSE Configured(n - 1, e, c, rule)
<1> DEFINE s == PluginsFor(e)
<1> HIDE DEF s
<1>2. CASE n \in s
  <2>1. s \cap (1..n) # {} /\ Max(s \cap (1..n)) = n
    BY <1>2, SoFar
  <2> QED BY <1>2, <2>1 DEF Configured, s
<1>3. CASE n \notin s
  <2>1. s \cap (1..n) = s \cap (1 .. n - 1)
    BY <1>3, SoFar
  <2> QED BY <1>3, <2>1 DEF Configured, s
<1> QED BY <1>2, <1>3

\* Filing is inductive.
LEMMA InitFiling == Init => Filing
<1> SUFFICES ASSUME Init PROVE Filing
  OBVIOUS
<1>1. Position /\ Behind
  BY InitLoading
<1>2. Len(input.plugins) \in Nat
  BY <1>1, PluginsLength DEF Position
<1>3. Bounded /\ Scoping
  BY <1>2 DEF Init, Bounded, Scoping
<1>4. Filling
  BY NothingFiled DEF Init, Filling, NewBasicMapper
<1>5. \A e : Plans(e) = EmptyMap
  BY DEF Init, Plans, NewBasicMapper, EmptyMap
<1>6. \A e, c, rule : Configured(plugin - 1, e, c, rule) = {}
  <2>1. \A s : s \cap (1 .. plugin - 1) = {}
    BY DEF Init
  <2> QED BY <2>1 DEF Configured
<1> QED BY <1>1, <1>3, <1>4, <1>5, <1>6, NothingFiled DEF Filing, Filled

LEMMA SameConfigured ==
  ASSUME UNCHANGED input
  PROVE  \A n, e, c, rule : Configured(n, e, c, rule)' = Configured(n, e, c, rule)
BY DEF Configured, PluginsFor

LEMMA NextFiling ==
  ASSUME Filing, [Next]_vars
  PROVE  Filing'
<1>1. Position' /\ Behind'
  BY NextLoading DEF Filing
<1>2. /\ input \in Inputs /\ plugin \in Nat \ {0} /\ file \in Nat \ {0}
      /\ Len(input.plugins) \in Nat /\ plugin \in 1 .. Len(input.plugins) + 1
  BY PluginsLength DEF Filing, Position, Bounded
<1>3. UNCHANGED input
  BY DEF Next, LoadNext, LoadCatalog, SkipPlugin, OpenDir, ReadFile, AddMapper, Serve, Exit,
     HandlerNext, Reject, Receive, VisitCatalog, GiveUp, vars, loadVars
<1>4. \A n, e, c, rule : Configured(n, e, c, rule)' = Configured(n, e, c, rule)
  BY <1>3, SameConfigured
<1>5. MorePlugins => /\ plugin + 1 \in 1 .. Len(input.plugins) + 1
                     /\ plugin - 1 \in Nat /\ (plugin - 1) + 1 = plugin
                     /\ (plugin + 1) - 1 = plugin
                     /\ plugin \in 1 .. Len(input.plugins)
  BY <1>2 DEF MorePlugins
<1>6. \A e : MorePlugins =>
        (plugin \in PluginsFor(e) <=> Plugin.id = e /\ Plugin.dir # "")
  BY <1>5 DEF PluginsFor, Plugin
<1>7. stage = "walk" =>
        \A c, rule : c # "" => Says(mpr, c, rule) = Written(Dir.files, file - 1, c, rule)
  BY DEF Filing, Filling
<1>8. \A e, c, rule : c # "" => Says(Plans(e), c, rule) = Configured(plugin - 1, e, c, rule)
  BY DEF Filing, Filled
<1>a. CASE LoadCatalog
  <2>1. /\ UNCHANGED <<plugin, mpr, set>>
        /\ stage' = "exited" \/ (stage' = "plugins" /\
             scope' = [id \in {input.catalog.content.id} |-> input.catalog.content])
    BY <1>a DEF LoadCatalog, Exit
  <2>2. Scoping' /\ Filling'
    BY <1>3, <2>1 DEF Filing, Scoping, Filling
  <2>3. \A e : Plans(e)' = Plans(e)
    BY <2>1 DEF Plans
  <2>4. Filled'
    BY <1>4, <2>1, <2>3 DEF Filing, Filled
  <2> QED BY <1>1, <1>2, <1>3, <2>1, <2>2, <2>4 DEF Filing, Bounded
<1>b. CASE SkipPlugin
  <2>1. /\ UNCHANGED <<scope, stage, mpr, set>> /\ stage = "plugins" /\ MorePlugins
        /\ plugin' = plugin + 1 /\ input.plugins[plugin].dir = ""
    BY <1>b DEF SkipPlugin, Plugin
  <2>2. Scoping' /\ Filling'
    BY <1>3, <2>1 DEF Filing, Scoping, Filling
  <2>3. \A e : Plans(e)' = Plans(e)
    BY <2>1 DEF Plans
  <2>4. \A e : plugin \notin PluginsFor(e)
    BY <2>1 DEF PluginsFor
  <2>5. ASSUME NEW e, NEW c, NEW rule
        PROVE  Configured(plugin, e, c, rule) = Configured(plugin - 1, e, c, rule)
    <3>1. plugin \notin PluginsFor(e) /\ plugin \in Nat \ {0}
      BY <1>2, <2>4
    <3> QED BY <3>1, ConfiguredMore
  <2>6. \A e, c, rule : c # "" => Says(Plans(e), c, rule) = Configured(plugin, e, c, rule)
    <3> SUFFICES ASSUME NEW e, NEW c, NEW rule, c # ""
                 PROVE  Says(Plans(e), c, rule) = Configured(plugin, e, c, rule)
      OBVIOUS
    <3>1. Says(Plans(e), c, rule) = Configured(plugin - 1, e, c, rule)
      BY <1>8
    <3>2. Configured(plugin, e, c, rule) = Configured(plugin - 1, e, c, rule)
      BY <2>5
    <3> QED BY <3>1, <3>2
  <2>7. plugin' - 1 = plugin
    BY <1>5, <2>1
  <2>8. Filled'
    BY <1>4, <2>3, <2>6, <2>7 DEF Filing, Filled
  <2> QED BY <1>1, <1>3, <1>5, <2>1, <2>2, <2>8 DEF Filing, Bounded
<1>c. CASE OpenDir
  <2>1. CASE Exit
    <3>1. /\ UNCHANGED <<scope, plugin, mpr, set>> /\ stage' = "exited"
      BY <2>1 DEF Exit
    <3>2. \A e : Plans(e)' = Plans(e)
      BY <3>1 DEF Plans
    <3> QED BY <1>1, <1>3, <1>4, <3>1, <3>2 DEF Filing, Bounded, Scoping, Filling, Filled
  <2>2. CASE ~Exit
    <3>1. /\ UNCHANGED <<scope, plugin, set>> /\ stage = "plugins" /\ stage' = "walk"
          /\ file' = 1 /\ mpr' = EmptyMap
      BY <1>c, <2>2 DEF OpenDir, NewBasicMapper
    <3>2. \A e : Plans(e)' = Plans(e)
      BY <3>1 DEF Plans
    <3>3. Filled'
      BY <1>4, <3>1, <3>2 DEF Filing, Filled
    <3>4. Filling'
      <4>1. file' - 1 = 0
        BY <3>1
      <4>2. Filed(mpr')
        BY <3>1, NothingFiled
      <4>3. ASSUME NEW c, NEW rule
            PROVE  Says(mpr', c, rule) = Written(Dir.files', file' - 1, c, rule)
        BY <3>1, <4>1, NothingFiled, NothingWritten
      <4> QED BY <4>2, <4>3 DEF Filling, Filed, Says, Written, FilesWith
    <3> QED BY <1>1, <1>3, <3>1, <3>3, <3>4 DEF Filing, Bounded, Scoping
  <2> QED BY <2>1, <2>2
<1>d. CASE ReadFile
  <2>1. CASE Exit
    <3>1. /\ UNCHANGED <<scope, plugin, mpr, set>> /\ stage' = "exited"
      BY <2>1 DEF Exit
    <3>2. \A e : Plans(e)' = Plans(e)
      BY <3>1 DEF Plans
    <3> QED BY <1>1, <1>3, <1>4, <3>1, <3>2 DEF Filing, Bounded, Scoping, Filling, Filled
  <2>2. CASE ~Exit
    <3> DEFINE files == Dir.files
               plans == files[file].content
    <3>1. /\ UNCHANGED <<scope, stage, plugin, set>> /\ stage = "walk"
          /\ file <= Len(files) /\ file' = file + 1
          /\ files[file].kind = "readable" /\ mpr' = WithPlans(mpr, plans)
      BY <1>d, <2>2 DEF ReadFile
    <3>2. \A e : Plans(e)' = Plans(e)
      BY <3>1 DEF Plans
    <3>3. Filled'
      BY <1>4, <3>1, <3>2 DEF Filing, Filled
    <3>4. Dir' = Dir
      BY <1>3, <3>1 DEF Dir, Plugin
    <3>5. IsDirectory(files)
      <4>1. MorePlugins /\ Dir.kind = "dir"
        BY <3>1 DEF Filing, Position
      <4>2. plugin \in DOMAIN input.plugins
        BY <1>2, <1>5, <4>1, InputsAssumption DEF IsSequence
      <4> QED BY <1>2, <4>1, <4>2, InputsAssumption DEF Dir, Plugin
    <3> HIDE DEF files
    <3>6. Len(files) \in Nat /\ file \in DOMAIN files /\ file \in 1 .. Len(files)
      BY <1>2, <3>1, <3>5 DEF IsDirectory, IsSequence
    <3>7. IsEvaluation(plans)
      BY <3>1, <3>5, <3>6 DEF IsDirectory
    <3>8. file - 1 \in Nat /\ (file - 1) + 1 = file /\ file' - 1 = file
      BY <1>2, <3>1
    <3>9. ASSUME NEW c, NEW rule, c # ""
          PROVE  Says(mpr', c, rule) = Written(files, file, c, rule)
      <4>1. Says(mpr, c, rule) = Written(files, file - 1, c, rule)
        <5>1. \A x, r : x # "" => Says(mpr, x, r) = Written(files, file - 1, x, r)
          BY <1>7, <3>1, Zenon DEF files
        <5> QED BY <3>9, <5>1
      <4>2. Says(mpr', c, rule) = SaysAfter(plans, mpr, c, rule)
        <5>1. Filed(mpr)
          BY DEF Filing, Filling
        <5> HIDE DEF plans
        <5>2. \A x, r : x # "" => Says(WithPlans(mpr, plans), x, r) = SaysAfter(plans, mpr, x, r)
          BY <3>7, <5>1, PlansAdded
        <5> QED BY <3>1, <3>9, <5>2
      <4>3. Written(files, file, c, rule) =
              IF PlanIn(plans, c, rule) = 0 THEN Written(files, file - 1, c, rule)
              ELSE {EntryOf(plans[PlanIn(plans, c, rule)], rule)}
        <5>1. plans = files[file].content
          OBVIOUS
        <5> HIDE DEF plans
        <5> QED BY <1>2, <3>6, <5>1, WrittenMore
      <4> QED BY <4>1, <4>2, <4>3 DEF SaysAfter
    <3>10. Filed(mpr')
      <4> HIDE DEF plans
      <4> QED BY <3>1, <3>7, PlansAdded DEF Filing, Filling
    <3>11. Filling'
      BY <3>4, <3>8, <3>9, <3>10 DEF Filling, Filed, Says, Written, FilesWith, files
    <3> QED BY <1>1, <1>3, <3>1, <3>3, <3>11 DEF Filing, Bounded, Scoping
  <2> QED BY <2>1, <2>2
<1>e. CASE AddMapper
  <2> DEFINE files == Dir.files
  <2>1. /\ UNCHANGED <<scope, mpr>> /\ stage = "walk" /\ stage' = "plugins"
        /\ file = Len(files) + 1 /\ plugin' = plugin + 1
        /\ set' = Assign(set, Plugin.id, mpr)
    BY <1>e DEF AddMapper
  <2>2. MorePlugins /\ Plugin.dir # "" /\ Dir.kind = "dir"
    BY <2>1 DEF Filing, Position
  <2>3. Len(files) \in Nat
    <3>1. plugin \in DOMAIN input.plugins
      BY <1>2, <1>5, <2>2, InputsAssumption DEF IsSequence
    <3> QED BY <1>2, <2>2, <3>1, FilesLength
  <2>4. file - 1 = Len(files)
    BY <1>2, <2>1, <2>3
  <2>5. \A e : Plans(e)' = IF e = Plugin.id THEN mpr ELSE Plans(e)
    BY <2>1 DEF Plans, Assign
  <2>6. Filling' /\ Scoping'
    BY <1>3, <2>1 DEF Filing, Filling, Scoping
  <2>7. ASSUME NEW e, NEW c, NEW rule, c # ""
        PROVE  Says(Plans(e)', c, rule) = Configured(plugin, e, c, rule)
    <3>1. Configured(plugin, e, c, rule) =
            IF plugin \in PluginsFor(e) THEN Written(files, Len(files), c, rule)
            ELSE Configured(plugin - 1, e, c, rule)
      BY <1>2, ConfiguredMore DEF Plugin, Dir
    <3>2. Says(mpr, c, rule) = Written(files, Len(files), c, rule)
      BY <2>1, <2>4, <2>7 DEF Filing, Filling
    <3>3. Says(Plans(e), c, rule) = Configured(plugin - 1, e, c, rule)
      BY <2>7 DEF Filing, Filled
    <3> QED BY <1>6, <2>2, <2>5, <3>1, <3>2, <3>3
  <2>8. \A e : Filed(Plans(e)')
    BY <2>5 DEF Filing, Filling, Filled
  <2>9. Filled'
    BY <1>4, <1>5, <2>1, <2>2, <2>7, <2>8 DEF Filled, Filed, Says
  <2> QED BY <1>1, <1>3, <1>5, <2>1, <2>2, <2>6, <2>9 DEF Filing, Bounded
<1>f. CASE Serve
  <2>1. /\ UNCHANGED <<scope, plugin, mpr, set>> /\ stage = "plugins" /\ stage' = "serving"
    BY <1>f DEF Serve
  <2>2. \A e : Plans(e)' = Plans(e)
    BY <2>1 DEF Plans
  <2> QED BY <1>1, <1>3, <1>4, <2>1, <2>2 DEF Filing, Bounded, Scoping, Filling, Filled
<1>g. CASE HandlerNext \/ UNCHANGED vars
  <2>1. UNCHANGED loadVars
    BY <1>g DEF HandlerNext, Reject, Receive, VisitCatalog, GiveUp, vars
  <2>2. \A e : Plans(e)' = Plans(e)
    BY <2>1 DEF loadVars, Plans
  <2>3. Dir' = Dir
    BY <2>1 DEF loadVars, Dir, Plugin
  <2> QED
    BY <1>1, <1>3, <1>4, <2>1, <2>2, <2>3 DEF loadVars, Filing, Bounded, Scoping, Filling, Filled
<1> QED BY <1>a, <1>b, <1>c, <1>d, <1>e, <1>f, <1>g DEF Next, LoadNext

LEMMA AlwaysFiling == Spec => []Filing
<1> QED BY InitFiling, NextFiling, PTL DEF Spec

-----------------------------------------------------------------------------
LEMMA Counting ==
  /\ 1..0 = {}
  /\ \A x \in Nat : \A y \in 1..x : y < x + 1
  /\ \A x \in Nat : \A y \in 1 .. x + 1 : ~(y <= x) => y - 1 = x /\ y = (y - 1) + 1
  OBVIOUS

(***************************************************************************)
(* Once everything is loaded a mapper says what the last plan with the rule, in*)
(* the last file with such a plan, of the last plugin with its id says.    *)
(***************************************************************************)
LEMMA FilesSay ==
  ASSUME Filing, stage = "serving", NEW e, NEW c, c # "", NEW rule
  PROVE  LET files == Evaluations(e)
             plans == files[FileIn(files, c, rule)].content
         IN Says(Plans(e), c, rule) =
              IF FileIn(files, c, rule) = 0 THEN {}
              ELSE {EntryOf(plans[PlanIn(plans, c, rule)], rule)}
<1> DEFINE n == plugin - 1
           own == PluginsFor(e)
           files == Evaluations(e)
           in == FilesWith(files, c, rule)
           plans == files[FileIn(files, c, rule)].content
<1>1. Len(input.plugins) \in Nat /\ DOMAIN input.plugins = 1 .. Len(input.plugins)
  BY PluginsLength DEF Filing, Position
<1>2. n = Len(input.plugins) /\ plugin = n + 1
  <2>1. ~MorePlugins
    BY DEF Filing, Position
  <2>2. plugin \in 1 .. Len(input.plugins) + 1
    BY DEF Filing, Bounded
  <2> HIDE DEF own, files, in
  <2>4. ~(plugin <= Len(input.plugins))
    BY <2>1 DEF MorePlugins
  <2> QED BY <1>1, <2>2, <2>4, Counting, Zenon
<1>3. own \in SUBSET (1 .. Len(input.plugins))
  BY DEF PluginsFor
<1>4. PluginOf(e) = IF own # {} THEN Max(own) ELSE 0
  BY DEF PluginOf, SelectLastInSeq, PluginsFor
<1>5. FileIn(files, c, rule) = IF in # {} THEN Max(in) ELSE 0
  BY DEF FileIn, SelectLastInSeq, FilesWith
<1> HIDE DEF n, own, in
<1>6. own # {} => Max(own) \in own /\ Max(own) \in 1 .. Len(input.plugins) /\ Max(own) # 0
  BY <1>1, <1>3, HasMax
<1>7. files = IF own = {} THEN <<>> ELSE input.disk[input.plugins[Max(own)].dir].files
  BY <1>4, <1>6 DEF Evaluations
<1> HIDE DEF files
<1>8. Len(files) \in Nat
  <2>1. CASE own = {}
    <3>1. files = <<>>
      BY <1>7, <2>1
    <3>2. Len(<<>>) = 0
      OBVIOUS
    <3> QED BY <3>1, <3>2
  <2>2. CASE own # {}
    <3> DEFINE k == Max(own)
               dir == input.disk[input.plugins[k].dir]
    <3>1. k \in DOMAIN input.plugins /\ k < plugin
      <4> HIDE DEF dir
      <4>2. k \in 1 .. Len(input.plugins)
        BY <1>6, <2>2
      <4>3. k < Len(input.plugins) + 1
        BY <1>1, <4>2, Counting, Zenon
      <4> HIDE DEF k
      <4> QED BY <1>1, <1>2, <4>2, <4>3, Zenon
    <3>2. input.plugins[k].dir # ""
      BY <1>6, <2>2 DEF own, PluginsFor
    <3> HIDE DEF k
    <3>3. Loads(input.plugins[k])
      BY <3>1 DEF Filing, Behind
    <3>4. dir.kind = "dir"
      BY <3>2, <3>3 DEF Loads
    <3>5. input.plugins[k].dir \in DOMAIN input.disk /\ input \in Inputs
      BY <3>1, InputsAssumption DEF Filing, Position
    <3>6. IsSequence(dir.files)
      BY <3>4, <3>5, InputsAssumption DEF IsDirectory
    <3> QED BY <1>7, <2>2, <3>6 DEF IsSequence, k
  <2> QED BY <2>1, <2>2
<1>9. in \in SUBSET (1 .. Len(files))
  BY DEF in, FilesWith
<1>10. in # {} => Max(in) # 0
  BY <1>8, <1>9, HasMax
<1>14. Written(files, Len(files), c, rule) =
         IF in = {} THEN {}
         ELSE {EntryOf(files[Max(in)].content[PlanIn(files[Max(in)].content, c, rule)], rule)}
  <2>1. in \cap (1 .. Len(files)) = in
    BY <1>9
  <2> QED BY <2>1 DEF Written, in
<1>11. own = {} => in = {}
  <2>1. own = {} => Len(files) = 0
    <3>1. own = {} => files = <<>>
      BY <1>7
    <3>2. Len(<<>>) = 0
      OBVIOUS
    <3> QED BY <3>1, <3>2
  <2>2. Len(files) = 0 => in \in SUBSET {}
    BY <1>9, Counting
  <2> QED BY <2>1, <2>2
<1>12. Says(Plans(e), c, rule) = Configured(n, e, c, rule)
  BY DEF Filing, Filled, n
<1>13. Configured(n, e, c, rule) = IF own = {} THEN {} ELSE Written(files, Len(files), c, rule)
  <2>1. own \cap (1..n) = own
    BY <1>2, <1>3
  <2> QED BY <1>7, <2>1 DEF Configured, own
<1> QED BY <1>5, <1>10, <1>11, <1>12, <1>13, <1>14 DEF files

\* So the answer that does not depend on the order is the reference's.
LEMMA AnswerExpected ==
  ASSUME Filing, Scoped, stage = "serving", NEW q
  PROVE  Decided(q) = Expected(q)
<1> DEFINE catalog == input.catalog.content
           id == catalog.id
           files == Evaluations(q.engine)
           last == FileIn(files, id, q.rule)
           plans == files[last].content
           plan == plans[PlanIn(plans, id, q.rule)]
           p == plan.procedures[ProcedureIn(plan, q.rule)]
           control == ControlIn(catalog, plan.control)
           list == Plans(q.engine)
<1>1. Expected(q) = IF id = "" \/ last = 0 \/ control = 0 THEN Unmapped
                    ELSE Mapped(id, p, catalog.controls[control])
  BY DEF Expected
<1>2. IsSequence(catalog.controls)
  BY InputsAssumption DEF Filing, Position, Behind
<1>3. scope = [x \in {id} |-> catalog]
  BY DEF Filing, Scoping
<1>4. Filed(list)
  BY DEF Filing, Filled
<1> HIDE DEF catalog, list, files
<1>5. \A c \in Matches(q) : /\ c = id /\ id \in DOMAIN list
                            /\ MapInto(id, list[id], catalog, q.rule).status = "Success"
  BY <1>3 DEF Matches, Outcome, list
<1>6. Matches(q) = {} => Decided(q) = Unmapped
  BY DEF Decided, Found
<1>7. CASE id = ""
  <2>1. Matches(q) = {}
    BY <1>4, <1>5, <1>7 DEF Filed
  <2> QED BY <1>1, <1>6, <1>7, <2>1
<1>8. CASE id # "" /\ last = 0
  <2>1. Says(list, id, q.rule) = {}
    BY <1>8, FilesSay DEF list, files
  <2>2. id \in DOMAIN list => MapInto(id, list[id], catalog, q.rule) = Unmapped
    BY <1>2, <2>1, TurnMaps DEF Says
  <2>3. Matches(q) = {}
    BY <1>5, <2>2, UnmappedStatus
  <2> QED BY <1>1, <1>6, <1>8, <2>3
<1>9. CASE id # "" /\ last # 0
  <2>1. Says(list, id, q.rule) = {EntryOf(plan, q.rule)}
    BY <1>9, FilesSay DEF list, files
  <2>2. id \in DOMAIN list /\ At(buildProceduresMap(list[id]), q.rule) = {Entry(plan, p)}
    BY <2>1 DEF Says, EntryOf
  <2> HIDE DEF plan, p
  <2>3. MapInto(id, list[id], catalog, q.rule) =
          IF control = 0 THEN Unmapped ELSE Mapped(id, p, catalog.controls[control])
    BY <1>2, <2>2, TurnMaps
  <2>4. CASE control = 0
    <3>1. Matches(q) = {}
      BY <1>5, <2>3, <2>4, UnmappedStatus
    <3> QED BY <1>1, <1>6, <2>4, <3>1
  <2>5. CASE control # 0
    <3>1. MapInto(id, list[id], catalog, q.rule).status = "Success"
      BY <2>3, <2>5 DEF Mapped
    <3>2. Outcome(q, id) = MapInto(id, list[id], catalog, q.rule)
      BY <1>3 DEF Outcome, list
    <3>3. id \in Matches(q)
      BY <1>3, <2>2, <3>1, <3>2 DEF Matches, list
    <3>4. Decided(q) = Outcome(q, id)
      BY <3>3, OneMatch
    <3> QED BY <1>1, <1>9, <2>3, <2>5, <3>2, <3>4
  <2> QED BY <2>4, <2>5
<1> QED BY <1>7, <1>8, <1>9

(***************************************************************************)
(* Whatever is in the evaluation files and the catalog, and however the    *)
(* requests interleave, every answer is what the files say                 *)
(* (cmd/compass/server/config.go 66-132, mapper/plugins/basic/basic.go     *)
(* 38-173).                                                                *)
(***************************************************************************)
THEOREM AnswersMatchFiles == Spec => []AnswerMatchesFiles
<1>1. IInv /\ Filing => AnswerMatchesFiles
  <2> SUFFICES ASSUME IInv, Filing, NEW h \in Handlers, Answered(h)
               PROVE  answer[h].compliance = Expected(policy[h])
    BY DEF AnswerMatchesFiles
  <2>1. stage = "serving"
    BY DEF IInv, Loaded, Answered
  <2>2. answer[h].compliance = Decided(policy[h])
    <3>1. answer[h] = [status |-> 200, compliance |-> Decided(policy[h])]
      BY DEF IInv, Settled
    <3> QED BY <3>1
  <2>3. Decided(policy[h]) = Expected(policy[h])
    BY <2>1, AnswerExpected DEF IInv
  <2> QED BY <2>2, <2>3
<1> QED BY <1>1, Invariant, AlwaysFiling, PTL

-----------------------------------------------------------------------------
\* The types that the invariants above leave open.
Kinds ==
  /\ stage \in {"catalog", "plugins", "walk", "serving", "exited"}
  /\ policy \in [Handlers -> Policies \cup {None}]

LEMMA NextKinds == Kinds /\ [Next]_vars => Kinds'
<1> SUFFICES ASSUME Kinds, [Next]_vars PROVE Kinds'
  OBVIOUS
<1>1. CASE LoadNext
  BY <1>1 DEF Kinds, LoadNext, LoadCatalog, SkipPlugin, OpenDir, ReadFile, AddMapper, Serve, Exit,
     handlerVars
<1>2. ASSUME NEW h \in Handlers, Reject(h) \/ Receive(h) \/ VisitCatalog(h) \/ GiveUp(h)
      PROVE  Kinds'
  BY <1>2 DEF Kinds, Reject, Receive, VisitCatalog, GiveUp, loadVars
<1>3. CASE UNCHANGED vars
  BY <1>3 DEF Kinds, vars, loadVars, handlerVars
<1> QED BY <1>1, <1>2, <1>3 DEF Next, HandlerNext

LEMMA FiledMapper == ASSUME NEW m, Filed(m) PROVE IsMapper(m)
<1>1. ASSUME NEW c \in DOMAIN m
      PROVE  m[c] # <<>> /\ \A k \in DOMAIN m[c] : m[c][k].catalog = c
  <2>1. PICK n \in Nat \ {0} :
          /\ m[c] = [k \in 1..n |-> m[c][k]]
          /\ \A k \in 1..n : m[c][k].catalog = c
    BY DEF Filed, Kept
  <2>2. DOMAIN m[c] = 1..n /\ 1 \in DOMAIN m[c]
    BY <2>1
  <2>3. DOMAIN <<>> = {}
    OBVIOUS
  <2> QED BY <2>1, <2>2, <2>3
<1> QED BY <1>1 DEF IsMapper, Filed

(***************************************************************************)
(* Types, and that a mapper files every plan under the catalog it names    *)
(* and never under an empty one, for any files                             *)
(* (cmd/compass/server/config.go 124-132).                                 *)
(***************************************************************************)
THEOREM EnrichmentTyped == Spec => []TypeOK
<1>1. IInv /\ Filing /\ Kinds => TypeOK
  <2> SUFFICES ASSUME IInv, Filing, Kinds PROVE TypeOK
    OBVIOUS
  <2>1. IsMapper(mpr) /\ \A e \in DOMAIN set : IsMapper(set[e])
    <3>1. \A e \in DOMAIN set : Filed(set[e])
      BY DEF Filing, Filled, Plans
    <3> QED BY <3>1, FiledMapper DEF Filing, Filling
  <2> QED BY <2>1 DEF TypeOK, IInv, Shape, Filing, Position, Bounded, Kinds
<1>2. Init => Kinds
  BY DEF Init, Kinds
<1> QED BY <1>1, <1>2, NextKinds, Invariant, AlwaysFiling, PTL DEF Spec
=============================================================================
