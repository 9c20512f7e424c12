--------------------------- MODULE CompassServer ---------------------------
(***************************************************************************)
(* The whole life of a compass process (cmd/compass/main.go, server.go and *)
(* NewJWTAuth in internal/middleware/jwtauth.go), beside the seed          *)
(* processes of SeedStore: what it loads, the index it opens and keeps     *)
(* locked, the OIDC provider it tries three times, TLS, and listening.     *)
(* SeedStore sees of all this only whether the index is open: stages are   *)
(* mapped to it by spc below, and Spec implements Store!Spec.              *)
(***************************************************************************)
EXTENDS Naturals, Sequences

CONSTANTS
  Seeders, Servers, Repos, Tags, Contents, Artifacts, EmptyConfig,
  Hex(_), Marshal(_), NoFile, NoBlob,    \* as in SeedStore
  Settings,                              \* what a process may be started with
  NoSetting

(***************************************************************************)
(* A setting says whether the catalog, the configuration and the           *)
(* evaluations load (module Enrichment has the details), whether a storage *)
(* root is given, whether jwtAuth.enabled is set, and whether TLS is       *)
(* skipped or, if not, has both its files configured.                      *)
(***************************************************************************)
ASSUME SettingsAssumption ==
  /\ Settings \subseteq [loads : BOOLEAN, storage : BOOLEAN, jwt : BOOLEAN, tls : BOOLEAN]
  /\ NoSetting \notin Settings

MaxAttempts == 3

VARIABLES
  blob, path, kind, index, pc, art, item, writing, fd, tx, sfd,  \* as in SeedStore
  stage,     \* stage[v]: where main is in the process v
  setting,   \* setting[v]: what it was started with
  attempt,   \* attempt[v]: the number of its current attempt at the provider
  verifier   \* verifier[v]: has NewJWTAuth returned a verifier?

processVars == <<stage, setting, attempt, verifier>>
rootVars == <<blob, path, kind, index, pc, art, item, writing, fd, tx>>
vars == <<rootVars, sfd, processVars>>

Stages == {"down", "load", "open", "lock", "jwt", "backoff", "tls", "listen",
           "refused", "exited"}

\* The index is open from bolt.Open until the process ends.
AfterOpen == {"jwt", "backoff", "tls", "listen"}

\* What SeedStore sees of a process at a stage with an index file.
Seen(at, file) ==
  CASE at = "lock" -> "lock"
    [] at \in AfterOpen /\ file # NoFile -> "up"
    [] at = "refused" -> "failed"
    [] OTHER -> "down"

spc == [v \in Servers |-> Seen(stage[v], sfd[v])]

Store == INSTANCE SeedStore

\* What SeedStore assumes of its constants.
ASSUME StoreAssumption ==
  /\ Artifacts \in [Seeders -> Seq(Store!artifactDef)]
  /\ NoBlob \notin Store!Digests
  /\ NoFile \notin Seeders

Init ==
  /\ stage = [v \in Servers |-> "down"]
  /\ setting = [v \in Servers |-> NoSetting]
  /\ attempt = [v \in Servers |-> 1]
  /\ verifier = [v \in Servers |-> FALSE]
  /\ Store!Init

-----------------------------------------------------------------------------
Goto(v, to) == stage' = [stage EXCEPT ![v] = to]

Start(v) ==
  /\ stage[v] = "down"
  /\ Goto(v, "load")
  /\ \E s \in Settings : setting' = [setting EXCEPT ![v] = s]
  /\ UNCHANGED <<rootVars, sfd, attempt, verifier>>

\* Catalog, configuration, mapper set: an error of any exits.
Load(v) ==
  /\ stage[v] = "load"
  /\ Goto(v, IF setting[v].loads THEN "open" ELSE "exited")
  /\ UNCHANGED <<rootVars, sfd, setting, attempt, verifier>>

\* Mutant: the database is opened for writing too, and so created.
OpenRegistry_Creates(v) ==
  /\ stage[v] = "open"
  /\ \/ /\ ~setting[v].storage
        /\ Goto(v, "jwt")
        /\ UNCHANGED <<path, kind, sfd>>
     \/ /\ setting[v].storage /\ path # NoFile
        /\ Goto(v, "lock")
        /\ sfd' = [sfd EXCEPT ![v] = path]
        /\ UNCHANGED <<path, kind>>
     \/ /\ setting[v].storage /\ path = NoFile
        /\ \E i \in Seeders :
             /\ kind[i] = "free"
             /\ path' = i
             /\ kind' = [kind EXCEPT ![i] = "db"]
             /\ sfd' = [sfd EXCEPT ![v] = i]
        /\ Goto(v, "lock")
  /\ UNCHANGED <<blob, index, pc, art, item, writing, fd, tx, setting, attempt, verifier>>

\* Without a storage root there is no registry; with one, bolt.Open needs
\* the file to exist.
OpenRegistry(v) ==
  /\ stage[v] = "open"
  /\ \/ /\ ~setting[v].storage
        /\ Goto(v, "jwt")
        /\ UNCHANGED sfd
     \/ /\ setting[v].storage /\ path # NoFile
        /\ Goto(v, "lock")
        /\ sfd' = [sfd EXCEPT ![v] = path]
     \/ /\ setting[v].storage /\ path = NoFile
        /\ Goto(v, "refused")
        /\ UNCHANGED sfd
  /\ UNCHANGED <<rootVars, setting, attempt, verifier>>

\* bolt.Open waits for the shared lock.
LockRegistry(v) ==
  /\ stage[v] = "lock"
  /\ \A s \in Seeders : ~Store!HoldsExclusive(s, sfd[v])
  /\ \/ kind[sfd[v]] = "db" /\ Goto(v, "jwt")
     \/ kind[sfd[v]] = "blank" /\ Goto(v, "refused")
  /\ UNCHANGED <<rootVars, sfd, setting, attempt, verifier>>

-----------------------------------------------------------------------------
(***************************************************************************)
(* NewGinServer.                                                           *)
(***************************************************************************)
SkipJWT(v) ==
  /\ stage[v] = "jwt" /\ ~setting[v].jwt
  /\ Goto(v, "tls")
  /\ UNCHANGED <<rootVars, sfd, setting, attempt, verifier>>

\* oidc.NewProvider has the provider's answer.
ProviderAnswers(v) ==
  /\ stage[v] = "jwt" /\ setting[v].jwt
  /\ Goto(v, "tls")
  /\ verifier' = [verifier EXCEPT ![v] = TRUE]
  /\ UNCHANGED <<rootVars, sfd, setting, attempt>>

\* Mutant: one attempt too many.
ProviderFails_OneMore(v) ==
  /\ stage[v] = "jwt" /\ setting[v].jwt
  /\ Goto(v, IF attempt[v] <= MaxAttempts THEN "backoff" ELSE "exited")
  /\ sfd' = [sfd EXCEPT ![v] = IF attempt[v] <= MaxAttempts THEN @ ELSE NoFile]
  /\ UNCHANGED <<rootVars, setting, attempt, verifier>>

\* Mutant: the error of the last attempt is not looked at.
ProviderFails_Ignored(v) ==
  /\ stage[v] = "jwt" /\ setting[v].jwt
  /\ Goto(v, IF attempt[v] < MaxAttempts THEN "backoff" ELSE "tls")
  /\ UNCHANGED <<rootVars, sfd, setting, attempt, verifier>>

\* It fails: a pause and another attempt, or after the last one the error
\* that makes NewGinServer exit.
ProviderFails(v) ==
  /\ stage[v] = "jwt" /\ setting[v].jwt
  /\ Goto(v, IF attempt[v] < MaxAttempts THEN "backoff" ELSE "exited")
  /\ sfd' = [sfd EXCEPT ![v] = IF attempt[v] < MaxAttempts THEN @ ELSE NoFile]
  /\ UNCHANGED <<rootVars, setting, attempt, verifier>>

\* Mutant: the attempts are not counted.
EndBackoff_Uncounted(v) ==
  /\ stage[v] = "backoff"
  /\ Goto(v, "jwt")
  /\ UNCHANGED <<rootVars, sfd, setting, attempt, verifier>>

\* time.Sleep returns.
EndBackoff(v) ==
  /\ stage[v] = "backoff"
  /\ Goto(v, "jwt")
  /\ attempt' = [attempt EXCEPT ![v] = @ + 1]
  /\ UNCHANGED <<rootVars, sfd, setting, verifier>>

(***************************************************************************)
(* SetupTLS, then ListenAndServe or ListenAndServeTLS.                     *)
(***************************************************************************)
Listen(v) ==
  /\ stage[v] = "tls" /\ setting[v].tls
  /\ Goto(v, "listen")
  /\ UNCHANGED <<rootVars, sfd, setting, attempt, verifier>>

\* A file is not configured, or cannot be used, or the port is taken.
CannotListen(v) ==
  /\ stage[v] = "tls"
  /\ Goto(v, "exited")
  /\ sfd' = [sfd EXCEPT ![v] = NoFile]
  /\ UNCHANGED <<rootVars, setting, attempt, verifier>>

\* The process is killed, or has exited and is cleared away.
Stop(v) ==
  /\ stage[v] # "down"
  /\ Goto(v, "down")
  /\ sfd' = [sfd EXCEPT ![v] = NoFile]
  /\ setting' = [setting EXCEPT ![v] = NoSetting]
  /\ attempt' = [attempt EXCEPT ![v] = 1]
  /\ verifier' = [verifier EXCEPT ![v] = FALSE]
  /\ UNCHANGED rootVars

-----------------------------------------------------------------------------
\* The steps that main takes by itself.
Step(v) ==
  \/ Load(v) \/ OpenRegistry(v) \/ LockRegistry(v) \/ SkipJWT(v)
  \/ EndBackoff(v) \/ Listen(v) \/ CannotListen(v)

ServerNext ==
  \E v \in Servers :
    Start(v) \/ Step(v) \/ ProviderAnswers(v) \/ ProviderFails(v) \/ Stop(v)

Next == (UNCHANGED <<processVars, sfd>> /\ Store!SeedNext) \/ ServerNext

Spec == Init /\ [][Next]_vars

(***************************************************************************)
(* A started process runs on, seed processes too: the operating system     *)
(* schedules it, and bolt.Open, which tries flock every 50 ms, gets a lock *)
(* that stays free.  Nobody has to start a process, to stop one or to let  *)
(* it die, and the provider may never answer: NewProvider is called        *)
(* without a time limit.                                                   *)
(***************************************************************************)
FairSpec ==
  /\ Spec
  /\ \A s \in Seeders : WF_vars(UNCHANGED <<processVars, sfd>> /\ Store!SeedStep(s))
  /\ \A v \in Servers : WF_vars(Step(v))

-----------------------------------------------------------------------------
(***************************************************************************)
(* Properties.                                                             *)
(***************************************************************************)
\* TypeOKProcess: every variable has its type, the attempts their bound
\* (internal/middleware/jwtauth.go 86-99).
TypeOKProcess ==
  /\ stage \in [Servers -> Stages]
  /\ setting \in [Servers -> Settings \cup {NoSetting}]
  /\ \A v \in Servers : stage[v] # "down" => setting[v] \in Settings
  /\ attempt \in [Servers -> 1..MaxAttempts]
  /\ verifier \in [Servers -> BOOLEAN]
  /\ Store!TypeOK

(***************************************************************************)
(* ReadyWhenListening: no process listens before all that its setting asks *)
(* for is there: everything loaded, an index of a finished seed process    *)
(* open and locked, a verifier for its tokens, TLS (cmd/compass/main.go    *)
(* 52-112, cmd/compass/server/server.go 38-70).  In particular a process   *)
(* that never reached its provider does not serve without authentication.  *)
(***************************************************************************)
ReadyWhenListening ==
  \A v \in Servers : stage[v] = "listen" =>
    /\ setting[v].loads
    /\ setting[v].storage => sfd[v] # NoFile /\ kind[sfd[v]] = "db"
    /\ setting[v].jwt <=> verifier[v]
    /\ setting[v].tls

(***************************************************************************)
(* ImplementsStore: all the stages of a process, its retries and its exits *)
(* are, to the storage root, nothing but the opening, locking and leaving  *)
(* of the index in SeedStore: whatever holds there holds under the real    *)
(* process, which keeps the lock while it retries the provider             *)
(* (cmd/compass/main.go 87-113).                                           *)
(***************************************************************************)
ImplementsStore == Store!Spec

(***************************************************************************)
(* StartDecides: a started process comes to listen or ends; what alone can *)
(* keep it, and with it the seed processes that wait for its lock, is one  *)
(* attempt that its provider never answers                                 *)
(* (internal/middleware/jwtauth.go 88-103).                                *)
(***************************************************************************)
Decided(v) == stage[v] \in {"listen", "refused", "exited", "down"}
Awaits(v) == stage[v] = "jwt" /\ setting[v].jwt

StartDecides ==
  \A v \in Servers : stage[v] = "load" ~> (Decided(v) \/ []Awaits(v))

(***************************************************************************)
(* SeedEnds: a seed process that was started ends, or dies, or meets again *)
(* and again a process that holds its index locked: one that listens or    *)
(* waits for its provider, or one that ends and is started anew before it  *)
(* listens.  Seed processes never keep each other waiting for good         *)
(* (hack/seed/main.go 257, cmd/compass/main.go 87-113).                    *)
(***************************************************************************)
Blocked(s) ==
  pc[s] = "lock" /\ \E v \in Servers : sfd[v] = fd[s] /\ stage[v] \in AfterOpen

SeedEnds ==
  \A s \in Seeders : pc[s] = "config" ~> (pc[s] \in {"done", "dead"} \/ []<>Blocked(s))
=============================================================================
