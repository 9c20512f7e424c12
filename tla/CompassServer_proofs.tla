------------------------ MODULE CompassServer_proofs ------------------------
(***************************************************************************)
(* The whole compass process implements the server of SeedStore, for any   *)
(* number of processes and any settings.                                   *)
(***************************************************************************)
EXTENDS CompassServer, TLAPS

(***************************************************************************)
(* Opened: a process before bolt.Open, or after its exit, has no index     *)
(* file; one that waits for the lock of an index has that file.            *)
(***************************************************************************)
Typed ==
  /\ stage \in [Servers -> Stages]
  /\ sfd \in [Servers -> Seeders \cup {NoFile}]
  /\ path \in Seeders \cup {NoFile}

Opened ==
  \A v \in Servers :
    /\ stage[v] \in {"down", "load", "open", "exited"} => sfd[v] = NoFile
    /\ stage[v] = "lock" => sfd[v] # NoFile

IInv == Typed /\ Opened

\* What SeedStore sees is decided by the stage and the file.
LEMMA SeenIs ==
  ASSUME NEW file
  PROVE  /\ Seen("lock", file) = "lock"
         /\ Seen("refused", file) = "failed"
         /\ \A at \in {"down", "load", "open", "exited"} : Seen(at, file) = "down"
         /\ \A at \in AfterOpen : Seen(at, file) = IF file = NoFile THEN "down" ELSE "up"
  BY DEF Seen, AfterOpen

\* A step of the process v moves the stage of v alone.
LEMMA GotoOne ==
  ASSUME NEW v \in Servers, NEW to \in Stages, Typed, Goto(v, to)
  PROVE  /\ stage' \in [Servers -> Stages]
         /\ stage'[v] = to
         /\ \A u \in Servers \ {v} : stage'[u] = stage[u]
  BY DEF Goto, Typed

\* What SeedStore sees changes for v alone.
LEMMA SpcOne ==
  ASSUME NEW v \in Servers,
         \A u \in Servers \ {v} : stage'[u] = stage[u] /\ sfd'[u] = sfd[u]
  PROVE  spc' = [spc EXCEPT ![v] = Seen(stage'[v], sfd'[v])]
<1>1. spc' = [u \in Servers |-> Seen(stage'[u], sfd'[u])]
  BY DEF spc
<1>2. \A u \in Servers \ {v} : Seen(stage'[u], sfd'[u]) = Seen(stage[u], sfd[u])
  OBVIOUS
<1> QED
  BY <1>1, <1>2 DEF spc

-----------------------------------------------------------------------------
(***************************************************************************)
(* The invariant.                                                          *)
(***************************************************************************)
LEMMA InitInvariant == Init => IInv
  BY DEF Init, Store!Init, IInv, Typed, Opened, Stages

\* A seed process moves the path only.
LEMMA SeedKeeps ==
  ASSUME IInv, UNCHANGED <<processVars, sfd>>, Store!SeedNext
  PROVE  IInv'
<1>1. path' \in Seeders \cup {NoFile}
  <2>1. PICK s \in Seeders : Store!StartSeed(s) \/ Store!SeedStep(s) \/ Store!Die(s)
    BY DEF Store!SeedNext
  <2>2. CASE Store!OpenIndex(s)
    BY <2>2 DEF Store!OpenIndex, IInv, Typed
  <2>3. CASE Store!RemoveIndex(s)
    BY <2>3 DEF Store!RemoveIndex, IInv, Typed
  <2>4. CASE ~Store!OpenIndex(s) /\ ~Store!RemoveIndex(s)
    <3>1. path' = path
      BY <2>1, <2>4 DEF Store!SeedStep, Store!StartSeed, Store!Die, Store!BeginBlob,
        Store!EndBlob, Store!LockIndex, Store!PutArtifact, Store!Commit, Store!Close
    <3> QED
      BY <3>1 DEF IInv, Typed
  <2> QED
    BY <2>2, <2>3, <2>4
<1>2. stage' = stage /\ sfd' = sfd
  BY DEF processVars
<1> QED
  BY <1>1, <1>2 DEF IInv, Typed, Opened

\* A step that takes v to a stage after which its file is as Opened says.
LEMMA ServerKeeps ==
  ASSUME NEW v \in Servers, NEW to \in Stages, IInv, Goto(v, to), path' = path,
         sfd' \in [Servers -> Seeders \cup {NoFile}],
         \A u \in Servers \ {v} : sfd'[u] = sfd[u],
         to \in {"down", "load", "open", "exited"} => sfd'[v] = NoFile,
         to = "lock" => sfd'[v] # NoFile
  PROVE  IInv'
<1>1. /\ stage' \in [Servers -> Stages]
      /\ stage'[v] = to
      /\ \A u \in Servers \ {v} : stage'[u] = stage[u]
  BY GotoOne DEF IInv
<1>2. Typed'
  BY <1>1 DEF IInv, Typed
<1>3. Opened'
  BY <1>1 DEF IInv, Opened
<1> QED
  BY <1>2, <1>3 DEF IInv

-----------------------------------------------------------------------------
(***************************************************************************)
(* What SeedStore sees of the steps of main.                               *)
(***************************************************************************)
\* A step that SeedStore does not see.
LEMMA Unseen ==
  ASSUME NEW v \in Servers, NEW to \in Stages, IInv, Goto(v, to),
         UNCHANGED <<rootVars, sfd>>,
         Seen(to, sfd[v]) = Seen(stage[v], sfd[v])
  PROVE  UNCHANGED Store!vars
<1>1. stage'[v] = to /\ \A u \in Servers \ {v} : stage'[u] = stage[u]
  BY GotoOne DEF IInv
<1>2. sfd' = sfd
  OBVIOUS
<1>3. spc' = [spc EXCEPT ![v] = Seen(stage'[v], sfd'[v])]
  BY <1>1, <1>2, SpcOne
<1>4. spc' = [spc EXCEPT ![v] = Seen(stage[v], sfd[v])]
  BY <1>1, <1>2, <1>3
<1>5. spc' = spc
  BY <1>4 DEF spc
<1> QED
  BY <1>5, <1>2 DEF rootVars, Store!vars, Store!seedVars, Store!serverVars

\* The process goes, and with it the file it had open.
LEMMA Leaves ==
  ASSUME NEW v \in Servers, NEW to \in {"down", "exited"}, IInv, Goto(v, to),
         UNCHANGED rootVars, sfd' = [sfd EXCEPT ![v] = NoFile]
  PROVE  IInv' /\ (Store!StopServer(v) \/ UNCHANGED Store!vars)
<1>1. to \in Stages
  BY DEF Stages
<1>2. /\ stage'[v] = to
      /\ \A u \in Servers \ {v} : stage'[u] = stage[u]
  BY <1>1, GotoOne DEF IInv
<1>3. /\ sfd' \in [Servers -> Seeders \cup {NoFile}]
      /\ sfd'[v] = NoFile
      /\ \A u \in Servers \ {v} : sfd'[u] = sfd[u]
  BY DEF IInv, Typed
<1>4. path' = path
  BY DEF rootVars
<1>5. IInv'
  BY <1>1, <1>3, <1>4, ServerKeeps
<1>6. spc' = [spc EXCEPT ![v] = Seen(stage'[v], sfd'[v])]
  BY <1>2, <1>3, SpcOne
<1>7. spc' = [spc EXCEPT ![v] = "down"]
  BY <1>2, <1>6, SeenIs
<1>8. CASE spc[v] # "down"
  BY <1>5, <1>7, <1>8 DEF Store!StopServer, Store!seedVars, rootVars
<1>9. CASE spc[v] = "down"
  <2>1. spc' = spc
    BY <1>7, <1>9 DEF spc
  <2>2. stage[v] # "lock" /\ stage[v] # "refused"
    BY <1>9, SeenIs DEF spc
  <2>3. stage[v] \in AfterOpen => sfd[v] = NoFile
    BY <1>9, SeenIs DEF spc
  <2>4. sfd[v] = NoFile
    BY <2>2, <2>3 DEF IInv, Typed, Opened, Stages, AfterOpen
  <2>5. sfd' = sfd
    BY <2>4 DEF IInv, Typed
  <2> QED
    BY <1>5, <2>1, <2>5 DEF rootVars, Store!vars, Store!seedVars, Store!serverVars
<1> QED
  BY <1>8, <1>9

LEMMA OpenRegistryStep ==
  ASSUME NEW v \in Servers, IInv, OpenRegistry(v)
  PROVE  IInv' /\ (Store!OpenServer(v) \/ UNCHANGED Store!vars)
<1>1. path' = path /\ sfd[v] = NoFile /\ stage[v] = "open"
  BY DEF OpenRegistry, rootVars, IInv, Opened
<1>2. CASE ~setting[v].storage
  <2>1. Goto(v, "jwt") /\ sfd' = sfd
    BY <1>2 DEF OpenRegistry
  <2>2. sfd' \in [Servers -> Seeders \cup {NoFile}]
    BY <2>1 DEF IInv, Typed
  <2>3. IInv'
    BY <1>1, <2>1, <2>2, ServerKeeps DEF Stages
  <2>4. Seen("jwt", sfd[v]) = Seen(stage[v], sfd[v])
    BY <1>1, SeenIs DEF AfterOpen
  <2>5. UNCHANGED Store!vars
    BY <2>1, <2>4, Unseen DEF OpenRegistry, Stages
  <2> QED
    BY <2>3, <2>5
<1>3. CASE setting[v].storage /\ path # NoFile
  <2>1. Goto(v, "lock") /\ sfd' = [sfd EXCEPT ![v] = path]
    BY <1>3 DEF OpenRegistry
  <2>2. /\ sfd' \in [Servers -> Seeders \cup {NoFile}]
        /\ sfd'[v] = path
        /\ \A u \in Servers \ {v} : sfd'[u] = sfd[u]
    BY <2>1 DEF IInv, Typed
  <2>3. IInv'
    BY <1>1, <1>3, <2>1, <2>2, ServerKeeps DEF Stages
  <2>4. stage'[v] = "lock" /\ \A u \in Servers \ {v} : stage'[u] = stage[u]
    BY <2>1, GotoOne DEF IInv, Stages
  <2>5. spc' = [spc EXCEPT ![v] = "lock"]
    BY <2>2, <2>4, SpcOne, SeenIs
  <2>6. spc[v] = "down"
    BY <1>1, SeenIs DEF spc
  <2>7. Store!OpenServer(v)
    BY <1>3, <2>1, <2>5, <2>6 DEF OpenRegistry, rootVars, Store!OpenServer, Store!seedVars
  <2> QED
    BY <2>3, <2>7
<1>4. CASE setting[v].storage /\ path = NoFile
  <2>1. Goto(v, "refused") /\ sfd' = sfd
    BY <1>4 DEF OpenRegistry
  <2>2. sfd' \in [Servers -> Seeders \cup {NoFile}]
    BY <2>1 DEF IInv, Typed
  <2>3. IInv'
    BY <1>1, <2>1, <2>2, ServerKeeps DEF Stages
  <2>4. stage'[v] = "refused" /\ \A u \in Servers \ {v} : stage'[u] = stage[u]
    BY <2>1, GotoOne DEF IInv, Stages
  <2>5. spc' = [spc EXCEPT ![v] = "failed"]
    BY <2>1, <2>4, SpcOne, SeenIs
  <2>6. spc[v] = "down"
    BY <1>1, SeenIs DEF spc
  <2>7. Store!OpenServer(v)
    BY <1>4, <2>1, <2>5, <2>6 DEF OpenRegistry, rootVars, Store!OpenServer, Store!seedVars
  <2> QED
    BY <2>3, <2>7
<1> QED
  BY <1>2, <1>3, <1>4 DEF OpenRegistry

LEMMA LockRegistryStep ==
  ASSUME NEW v \in Servers, IInv, LockRegistry(v)
  PROVE  IInv' /\ Store!LockServer(v)
<1>1. stage[v] = "lock" /\ sfd' = sfd /\ path' = path /\ sfd[v] # NoFile
  BY DEF LockRegistry, rootVars, IInv, Opened
<1>2. PICK to \in {"jwt", "refused"} :
        /\ Goto(v, to)
        /\ to = "jwt" => kind[sfd[v]] = "db"
        /\ to = "refused" => kind[sfd[v]] = "blank"
  BY DEF LockRegistry
<1>3. to \in Stages
  BY DEF Stages
<1>4. sfd' \in [Servers -> Seeders \cup {NoFile}]
  BY <1>1 DEF IInv, Typed
<1>5. IInv'
  BY <1>1, <1>2, <1>3, <1>4, ServerKeeps
<1>6. stage'[v] = to /\ \A u \in Servers \ {v} : stage'[u] = stage[u]
  BY <1>2, <1>3, GotoOne DEF IInv
<1>7. spc' = [spc EXCEPT ![v] = Seen(to, sfd[v])]
  BY <1>1, <1>6, SpcOne
<1>8. Seen(to, sfd[v]) = IF to = "jwt" THEN "up" ELSE "failed"
  BY <1>1, <1>2, SeenIs DEF AfterOpen
<1>9. spc[v] = "lock"
  BY <1>1, SeenIs DEF spc
<1>10. \/ kind[sfd[v]] = "db" /\ spc' = [spc EXCEPT ![v] = "up"]
       \/ kind[sfd[v]] = "blank" /\ spc' = [spc EXCEPT ![v] = "failed"]
  BY <1>2, <1>7, <1>8
<1>11. Store!LockServer(v)
  BY <1>1, <1>9, <1>10 DEF LockRegistry, rootVars, Store!LockServer, Store!seedVars
<1> QED
  BY <1>5, <1>11

\* The steps of main that leave the root and the file alone.
LEMMA QuietStep ==
  ASSUME NEW v \in Servers, IInv,
         Start(v) \/ Load(v) \/ SkipJWT(v) \/ ProviderAnswers(v) \/ EndBackoff(v) \/ Listen(v)
  PROVE  IInv' /\ UNCHANGED Store!vars
<1>1. UNCHANGED <<rootVars, sfd>>
  BY DEF Start, Load, SkipJWT, ProviderAnswers, EndBackoff, Listen
<1>2. PICK to \in Stages :
        /\ Goto(v, to)
        /\ \/ stage[v] \in {"down", "load", "open", "exited"} /\ to \in {"load", "open", "exited"}
           \/ stage[v] \in AfterOpen /\ to \in AfterOpen
  BY DEF Start, Load, SkipJWT, ProviderAnswers, EndBackoff, Listen, Stages, AfterOpen
<1>3. path' = path /\ sfd' = sfd
  BY <1>1 DEF rootVars
<1>4. sfd' \in [Servers -> Seeders \cup {NoFile}]
  BY <1>3 DEF IInv, Typed
<1>5. to \in {"down", "load", "open", "exited"} => sfd'[v] = NoFile
  BY <1>2, <1>3 DEF IInv, Opened, AfterOpen
<1>6. to # "lock"
  BY <1>2 DEF AfterOpen
<1>7. IInv'
  BY <1>2, <1>3, <1>4, <1>5, <1>6, ServerKeeps
<1>8. Seen(to, sfd[v]) = Seen(stage[v], sfd[v])
  BY <1>2, SeenIs
<1>9. UNCHANGED Store!vars
  BY <1>1, <1>2, <1>8, Unseen
<1> QED
  BY <1>7, <1>9

\* An attempt that is not the last leaves the file alone; the last one exits.
LEMMA ProviderFailsStep ==
  ASSUME NEW v \in Servers, IInv, ProviderFails(v)
  PROVE  IInv' /\ (Store!StopServer(v) \/ UNCHANGED Store!vars)
<1>1. CASE attempt[v] < MaxAttempts
  <2>1. Goto(v, "backoff") /\ sfd' = [sfd EXCEPT ![v] = sfd[v]] /\ stage[v] = "jwt"
    BY <1>1 DEF ProviderFails
  <2>2. sfd' = sfd /\ path' = path
    BY <2>1 DEF IInv, Typed, ProviderFails, rootVars
  <2>3. sfd' \in [Servers -> Seeders \cup {NoFile}]
    BY <2>2 DEF IInv, Typed
  <2>4. IInv'
    BY <2>1, <2>2, <2>3, ServerKeeps DEF Stages
  <2>5. Seen("backoff", sfd[v]) = Seen(stage[v], sfd[v])
    BY <2>1, SeenIs DEF AfterOpen
  <2>6. UNCHANGED Store!vars
    BY <2>1, <2>2, <2>5, Unseen DEF ProviderFails, Stages
  <2> QED
    BY <2>4, <2>6
<1>2. CASE ~(attempt[v] < MaxAttempts)
  <2>1. Goto(v, "exited") /\ sfd' = [sfd EXCEPT ![v] = NoFile] /\ UNCHANGED rootVars
    BY <1>2 DEF ProviderFails
  <2> QED
    BY <2>1, Leaves
<1> QED
  BY <1>1, <1>2

-----------------------------------------------------------------------------
(***************************************************************************)
(* Every step of the whole process is a step of SeedStore, or none.        *)
(***************************************************************************)
LEMMA StepImplements ==
  ASSUME IInv, [Next]_vars
  PROVE  IInv' /\ [Store!Next]_(Store!vars)
<1>1. CASE UNCHANGED <<processVars, sfd>> /\ Store!SeedNext
  BY <1>1, SeedKeeps DEF Store!Next
<1>2. CASE ServerNext
  <2>1. PICK v \in Servers :
          Start(v) \/ Step(v) \/ ProviderAnswers(v) \/ ProviderFails(v) \/ Stop(v)
    BY <1>2 DEF ServerNext
  <2>2. CASE OpenRegistry(v)
    BY <2>2, OpenRegistryStep DEF Store!Next, Store!ServerNext
  <2>3. CASE LockRegistry(v)
    BY <2>3, LockRegistryStep DEF Store!Next, Store!ServerNext
  <2>4. CASE Start(v) \/ Load(v) \/ SkipJWT(v) \/ ProviderAnswers(v) \/ EndBackoff(v) \/ Listen(v)
    BY <2>4, QuietStep
  <2>5. CASE ProviderFails(v)
    BY <2>5, ProviderFailsStep DEF Store!Next, Store!ServerNext
  <2>6. CASE CannotListen(v)
    BY <2>6, Leaves DEF CannotListen, Store!Next, Store!ServerNext
  <2>7. CASE Stop(v)
    BY <2>7, Leaves DEF Stop, Store!Next, Store!ServerNext
  <2> QED
    BY <2>1, <2>2, <2>3, <2>4, <2>5, <2>6, <2>7 DEF Step
<1>3. CASE UNCHANGED vars
  <2>1. stage' = stage /\ sfd' = sfd /\ UNCHANGED rootVars
    BY <1>3 DEF vars, processVars
  <2>2. IInv'
    BY <2>1 DEF IInv, Typed, Opened, rootVars
  <2>3. spc' = spc
    BY <2>1 DEF spc
  <2> QED
    BY <2>1, <2>2, <2>3 DEF rootVars, Store!vars, Store!seedVars, Store!serverVars
<1> QED
  BY <1>1, <1>2, <1>3 DEF Next

LEMMA InitImplements == Init => Store!Init
  BY DEF Init

(***************************************************************************)
(* ProcessImplementsStore: whatever a compass process does from its start  *)
(* to its end (loading, retrying its provider, exiting, listening) is, to  *)
(* the storage root, a behaviour of SeedStore, so what is proved there     *)
(* holds under the whole process (cmd/compass/main.go 51-113,              *)
(* internal/middleware/jwtauth.go 86-103).                                 *)
(***************************************************************************)
THEOREM ProcessImplementsStore == Spec => ImplementsStore
<1>1. Spec => []IInv
  BY InitInvariant, StepImplements, PTL DEF Spec
<1> QED
  BY <1>1, InitImplements, StepImplements, PTL DEF Spec, ImplementsStore, Store!Spec

-----------------------------------------------------------------------------
(***************************************************************************)
(* A database stays one: the file that a seed process creates is one that  *)
(* nobody has opened before, so an index keeps its pages.                  *)
(***************************************************************************)
BeforeOpen == {"idle", "config", "remove", "open"}

Files ==
  /\ path \in Seeders \cup {NoFile}
  /\ kind \in [Seeders -> {"free", "blank", "db"}]
  /\ pc \in [Seeders -> Store!SeedPC]
  /\ fd \in [Seeders -> Seeders \cup {NoFile}]
  /\ path # NoFile => kind[path] # "free"
  /\ \A s \in Seeders :
       /\ pc[s] \in BeforeOpen => kind[s] = "free"
       /\ pc[s] = "lock" => fd[s] \in Seeders /\ kind[fd[s]] # "free"

Databases == \A i \in Seeders : kind[i] = "db" => kind'[i] = "db"

LEMMA InitFiles == Init => Files
  BY DEF Init, Store!Init, Files, Store!SeedPC

LEMMA SeedFiles ==
  ASSUME Files, NEW s \in Seeders, Store!StartSeed(s) \/ Store!SeedStep(s) \/ Store!Die(s)
  PROVE  Files' /\ Databases
<1> USE DEF Files, Databases, BeforeOpen, Store!SeedPC
<1>1. CASE Store!RemoveIndex(s)
  BY <1>1 DEF Store!RemoveIndex
<1>2. CASE Store!OpenIndex(s)
  BY <1>2 DEF Store!OpenIndex
<1>3. CASE Store!LockIndex(s)
  BY <1>3 DEF Store!LockIndex
<1>4. CASE \/ Store!StartSeed(s) \/ Store!BeginBlob(s) \/ Store!EndBlob(s)
           \/ Store!PutArtifact(s) \/ Store!Commit(s) \/ Store!Close(s) \/ Store!Die(s)
  <2>1. path' = path /\ kind' = kind /\ fd' = fd
    BY <1>4 DEF Store!StartSeed, Store!BeginBlob, Store!EndBlob, Store!PutArtifact,
                Store!Commit, Store!Close, Store!Die
  <2>2. /\ pc' \in [Seeders -> Store!SeedPC]
        /\ \A t \in Seeders : pc'[t] \in BeforeOpen => pc[t] \in BeforeOpen
        /\ \A t \in Seeders : pc'[t] = "lock" => pc[t] = "lock"
    BY <1>4 DEF Store!StartSeed, Store!BeginBlob, Store!EndBlob, Store!PutArtifact,
                Store!Commit, Store!Close, Store!Die
  <2> QED
    BY <2>1, <2>2
<1> QED
  BY <1>1, <1>2, <1>3, <1>4 DEF Store!SeedStep

LEMMA NextFiles == Files /\ [Next]_vars => Files' /\ Databases
<1> SUFFICES ASSUME Files, [Next]_vars PROVE Files' /\ Databases
  OBVIOUS
<1>1. CASE Store!SeedNext
  BY <1>1, SeedFiles DEF Store!SeedNext
<1>2. CASE UNCHANGED rootVars
  BY <1>2 DEF rootVars, Files, Databases
<1>3. ASSUME NEW v \in Servers,
             Start(v) \/ Step(v) \/ ProviderAnswers(v) \/ ProviderFails(v) \/ Stop(v)
      PROVE  UNCHANGED rootVars
  BY <1>3 DEF Start, Step, Load, OpenRegistry, LockRegistry, SkipJWT, EndBackoff, Listen,
              CannotListen, ProviderAnswers, ProviderFails, Stop
<1> QED
  BY <1>1, <1>2, <1>3 DEF Next, ServerNext, vars

-----------------------------------------------------------------------------
(***************************************************************************)
(* What a process has when it is at a stage.                               *)
(***************************************************************************)
AsAsked(v) ==
  /\ stage[v] \in {"open", "lock"} \cup AfterOpen => setting[v].loads
  /\ stage[v] = "lock" => sfd[v] # NoFile
  /\ stage[v] \in AfterOpen /\ setting[v].storage => sfd[v] # NoFile /\ kind[sfd[v]] = "db"
  /\ stage[v] \in {"down", "load", "open", "lock", "jwt", "backoff"} => verifier[v] = FALSE
  /\ stage[v] \in {"tls", "listen"} => (setting[v].jwt <=> verifier[v])
  /\ stage[v] = "listen" => setting[v].tls

Prepared ==
  /\ stage \in [Servers -> Stages]
  /\ setting = [v \in Servers |-> setting[v]]
  /\ verifier \in [Servers -> BOOLEAN]
  /\ sfd \in [Servers -> Seeders \cup {NoFile}]
  /\ \A v \in Servers : AsAsked(v)

LEMMA InitPrepared == Init => Prepared
  BY DEF Init, Store!Init, Prepared, AsAsked, AfterOpen, Stages

\* Where its stage is as it was, or the root alone has moved.
LEMMA SeedPrepared ==
  ASSUME Files, Prepared, UNCHANGED <<processVars, sfd>>, Databases
  PROVE  Prepared'
  BY DEF Prepared, AsAsked, Databases, processVars

\* Only the process that takes the step moves.
LEMMA ServerPrepared ==
  ASSUME Files, Prepared, NEW v \in Servers,
         Start(v) \/ Step(v) \/ ProviderAnswers(v) \/ ProviderFails(v) \/ Stop(v)
  PROVE  Prepared'
<1> USE DEF Prepared, AsAsked, Goto, Stages, AfterOpen, rootVars, Files
<1>1. CASE Start(v)
  BY <1>1 DEF Start
<1>2. CASE Load(v)
  BY <1>2 DEF Load
<1>3. CASE OpenRegistry(v)
  BY <1>3 DEF OpenRegistry
<1>4. CASE LockRegistry(v)
  BY <1>4 DEF LockRegistry
<1>5. CASE SkipJWT(v)
  BY <1>5 DEF SkipJWT
<1>6. CASE ProviderAnswers(v)
  BY <1>6 DEF ProviderAnswers
<1>7. CASE ProviderFails(v)
  BY <1>7 DEF ProviderFails
<1>8. CASE EndBackoff(v)
  BY <1>8 DEF EndBackoff
<1>9. CASE Listen(v)
  BY <1>9 DEF Listen
<1>10. CASE CannotListen(v)
  BY <1>10 DEF CannotListen
<1>11. CASE Stop(v)
  BY <1>11 DEF Stop
<1> QED
  BY <1>1, <1>2, <1>3, <1>4, <1>5, <1>6, <1>7, <1>8, <1>9, <1>10, <1>11 DEF Step

LEMMA NextPrepared == Files /\ Prepared /\ [Next]_vars => Prepared'
<1> SUFFICES ASSUME Files, Prepared, [Next]_vars PROVE Prepared'
  OBVIOUS
<1>1. Databases
  BY NextFiles
<1>2. CASE UNCHANGED <<processVars, sfd>>
  BY <1>1, <1>2, SeedPrepared
<1>3. CASE ServerNext
  BY <1>3, ServerPrepared DEF ServerNext
<1> QED
  BY <1>2, <1>3 DEF Next, vars

(***************************************************************************)
(* ListensWhenReady: a process listens only with all that its setting asks *)
(* for, for any number of processes and any settings                       *)
(* (cmd/compass/main.go 52-112, cmd/compass/server/server.go 38-70).       *)
(***************************************************************************)
THEOREM ListensWhenReady == Spec => []ReadyWhenListening
<1>1. Files /\ [Next]_vars => Files'
  BY NextFiles
<1>2. Prepared => ReadyWhenListening
  BY DEF Prepared, AsAsked, AfterOpen, ReadyWhenListening
<1> QED
  BY <1>1, <1>2, InitFiles, InitPrepared, NextPrepared, PTL DEF Spec

-----------------------------------------------------------------------------
(***************************************************************************)
(* What is proved of SeedStore holds under the whole process.  Proved is   *)
(* SeedStore again, instantiated like Store, together with its theorems:   *)
(* its definitions are those of Store.                                     *)
(***************************************************************************)
Proved == INSTANCE SeedStore_proofs

LEMMA SameConstants ==
  /\ Proved!artifactDef = Store!artifactDef
  /\ Proved!Digests = Store!Digests
  BY DEF Proved!artifactDef, Store!artifactDef, Proved!digestOf, Store!digestOf,
         Proved!EmptyConfigDigest, Store!EmptyConfigDigest, Proved!manifest,
         Store!manifest, Proved!manifestDigest, Store!manifestDigest, Proved!WriteList,
         Store!WriteList, Proved!tagKey, Store!tagKey, Proved!tagKeys, Store!tagKeys,
         Proved!Seeded, Store!Seeded, Proved!Keys, Store!Keys, Proved!Written,
         Store!Written, Proved!Digests, Store!Digests, Proved!TagKeys, Store!TagKeys,
         Proved!EmptyBucket, Store!EmptyBucket, Proved!EmptyIndex, Store!EmptyIndex,
         Proved!Put, Store!Put, Proved!References, Store!References

LEMMA SameSpec == (Proved!Init <=> Store!Init) /\ (Proved!Next <=> Store!Next) /\ Proved!vars = Store!vars
  BY DEF Proved!artifactDef, Store!artifactDef, Proved!digestOf, Store!digestOf,
         Proved!EmptyConfigDigest, Store!EmptyConfigDigest, Proved!manifest,
         Store!manifest, Proved!manifestDigest, Store!manifestDigest, Proved!WriteList,
         Store!WriteList, Proved!tagKey, Store!tagKey, Proved!tagKeys, Store!tagKeys,
         Proved!Seeded, Store!Seeded, Proved!Keys, Store!Keys, Proved!Written,
         Store!Written, Proved!Digests, Store!Digests, Proved!TagKeys, Store!TagKeys,
         Proved!EmptyBucket, Store!EmptyBucket, Proved!EmptyIndex, Store!EmptyIndex,
         Proved!Put, Store!Put, Proved!References, Store!References, Proved!Init,
         Store!Init, Proved!Next, Store!Next, Proved!SeedNext, Store!SeedNext,
         Proved!ServerNext, Store!ServerNext, Proved!SeedStep, Store!SeedStep,
         Proved!StartSeed, Store!StartSeed, Proved!Die, Store!Die, Proved!BeginBlob,
         Store!BeginBlob, Proved!EndBlob, Store!EndBlob, Proved!RemoveIndex,
         Store!RemoveIndex, Proved!OpenIndex, Store!OpenIndex, Proved!LockIndex,
         Store!LockIndex, Proved!PutArtifact, Store!PutArtifact, Proved!Commit,
         Store!Commit, Proved!Close, Store!Close, Proved!OpenServer, Store!OpenServer,
         Proved!LockServer, Store!LockServer, Proved!StopServer, Store!StopServer,
         Proved!vars, Store!vars, Proved!serverVars, Store!serverVars, Proved!seedVars,
         Store!seedVars, Proved!Filling, Store!Filling, Proved!Artifact, Store!Artifact,
         Proved!BlobsLeft, Store!BlobsLeft, Proved!NextBlob, Store!NextBlob,
         Proved!HoldsExclusive, Store!HoldsExclusive, Proved!HoldsShared,
         Store!HoldsShared

LEMMA SameProperties ==
  /\ Proved!TypeOK <=> Store!TypeOK
  /\ Proved!TagsResolve <=> Store!TagsResolve
  /\ Proved!ReachableIntact <=> Store!ReachableIntact
  /\ Proved!AllOrNothing <=> Store!AllOrNothing
  /\ Proved!QuietMeansPublished <=> Store!QuietMeansPublished
  BY DEF Proved!artifactDef, Store!artifactDef, Proved!digestOf, Store!digestOf,
         Proved!EmptyConfigDigest, Store!EmptyConfigDigest, Proved!manifest,
         Store!manifest, Proved!manifestDigest, Store!manifestDigest, Proved!WriteList,
         Store!WriteList, Proved!tagKey, Store!tagKey, Proved!tagKeys, Store!tagKeys,
         Proved!Seeded, Store!Seeded, Proved!Keys, Store!Keys, Proved!Written,
         Store!Written, Proved!Digests, Store!Digests, Proved!TagKeys, Store!TagKeys,
         Proved!EmptyBucket, Store!EmptyBucket, Proved!EmptyIndex, Store!EmptyIndex,
         Proved!Put, Store!Put, Proved!References, Store!References, Proved!TypeOK,
         Store!TypeOK, Proved!SeedPC, Store!SeedPC, Proved!ServerPC, Store!ServerPC,
         Proved!IsIndex, Store!IsIndex, Proved!TagsResolve, Store!TagsResolve,
         Proved!ReachableIntact, Store!ReachableIntact, Proved!AllOrNothing,
         Store!AllOrNothing, Proved!QuietMeansPublished, Store!QuietMeansPublished,
         Proved!IndexFiles, Store!IndexFiles, Proved!Intact, Store!Intact,
         Proved!Reachable, Store!Reachable, Proved!Committed, Store!Committed

(***************************************************************************)
(* StoreUnderProcesses: with whole compass processes, which load, retry    *)
(* and exit around their index, tags resolve, promised blobs are there,    *)
(* seeds are atomic, and a quiet root is published, as SeedStore_proofs    *)
(* proves it for its server (cmd/compass/main.go 87-113,                   *)
(* hack/seed/main.go 248-330).                                             *)
(***************************************************************************)
StoreSound ==
  /\ Store!TypeOK
  /\ Store!TagsResolve
  /\ Store!ReachableIntact
  /\ Store!AllOrNothing
  /\ Store!QuietMeansPublished

THEOREM StoreUnderProcesses == Spec => []StoreSound
<1>1. Artifacts \in [Seeders -> Seq(Proved!artifactDef)] /\ NoBlob \notin Proved!Digests
  BY SameConstants, StoreAssumption
<1>2. Proved!Spec <=> Store!Spec
  <2>1. Proved!Init <=> Store!Init
    BY SameSpec
  <2>2. [Proved!Next]_(Proved!vars) <=> [Store!Next]_(Store!vars)
    BY SameSpec DEF Proved!vars, Store!vars, Proved!serverVars, Store!serverVars,
                    Proved!seedVars, Store!seedVars
  <2> QED
    BY <2>1, <2>2, PTL DEF Proved!Spec, Store!Spec
<1>3. Proved!Spec => []Proved!TypeOK
  BY <1>1, StoreAssumption, Proved!TypeCorrect
<1>4. Proved!Spec => []Proved!TagsResolve
  BY <1>1, StoreAssumption, Proved!TagsAlwaysResolve
<1>5. Proved!Spec => []Proved!ReachableIntact
  BY <1>1, StoreAssumption, Proved!PromisesAreKept
<1>6. Proved!Spec => []Proved!AllOrNothing
  BY <1>1, StoreAssumption, Proved!SeedsAreAtomic
<1>7. Proved!Spec => []Proved!QuietMeansPublished
  BY <1>1, StoreAssumption, Proved!QuietIsPublished
<1>8. (Proved!TypeOK /\ Proved!TagsResolve /\ Proved!ReachableIntact /\ Proved!AllOrNothing
       /\ Proved!QuietMeansPublished) => StoreSound
  BY SameProperties DEF StoreSound
<1> QED
  BY ProcessImplementsStore, <1>2, <1>3, <1>4, <1>5, <1>6, <1>7, <1>8, PTL DEF ImplementsStore

-----------------------------------------------------------------------------
(***************************************************************************)
(* Types.  The attempts keep their bound because only an attempt that is   *)
(* not the last is followed by a pause.                                    *)
(***************************************************************************)
Counted ==
  /\ setting \in [Servers -> Settings \cup {NoSetting}]
  /\ attempt \in [Servers -> 1..MaxAttempts]
  /\ \A v \in Servers :
       /\ stage[v] # "down" => setting[v] \in Settings
       /\ stage[v] = "backoff" => attempt[v] < MaxAttempts

LEMMA InitCounted == Init => Counted
  BY DEF Init, Counted, MaxAttempts

LEMMA NextCounted == Prepared /\ Counted /\ [Next]_vars => Counted'
<1> SUFFICES ASSUME Prepared, Counted, [Next]_vars PROVE Counted'
  OBVIOUS
<1> USE DEF Counted, Goto, Stages, MaxAttempts
<1>0. stage \in [Servers -> Stages]
  BY DEF Prepared
<1>1. CASE UNCHANGED processVars
  BY <1>1 DEF processVars
<1>2. ASSUME NEW v \in Servers, Start(v) PROVE Counted'
  BY <1>0, <1>2 DEF Start
<1>3. ASSUME NEW v \in Servers,
             Load(v) \/ OpenRegistry(v) \/ LockRegistry(v) \/ SkipJWT(v) \/ ProviderAnswers(v)
             \/ Listen(v) \/ CannotListen(v)
      PROVE  Counted'
  BY <1>0, <1>3 DEF Load, OpenRegistry, LockRegistry, SkipJWT, ProviderAnswers, Listen, CannotListen
<1>4. ASSUME NEW v \in Servers, ProviderFails(v) PROVE Counted'
  BY <1>0, <1>4 DEF ProviderFails
<1>5. ASSUME NEW v \in Servers, EndBackoff(v) PROVE Counted'
  BY <1>0, <1>5 DEF EndBackoff
<1>6. ASSUME NEW v \in Servers, Stop(v) PROVE Counted'
  BY <1>0, <1>6 DEF Stop
<1> QED
  BY <1>1, <1>2, <1>3, <1>4, <1>5, <1>6 DEF Next, ServerNext, Step, vars

(***************************************************************************)
(* ProcessTyped: every variable of the process and of the storage root     *)
(* under it keeps its type; no process makes more than three attempts at   *)
(* its provider (internal/middleware/jwtauth.go 86-99).                    *)
(***************************************************************************)
THEOREM ProcessTyped == Spec => []TypeOKProcess
<1>1. Files /\ [Next]_vars => Files'
  BY NextFiles
<1>2. Prepared /\ Counted /\ StoreSound => TypeOKProcess
  BY DEF Prepared, Counted, StoreSound, TypeOKProcess
<1> QED
  BY <1>1, <1>2, InitFiles, InitPrepared, NextPrepared, InitCounted, NextCounted,
     StoreUnderProcesses, PTL DEF Spec
=============================================================================
