-------------------------- MODULE SeedStore_proofs --------------------------
(***************************************************************************)
(* Theorems about SeedStore, for any number of seed processes and servers  *)
(* and any artifacts.                                                      *)
(***************************************************************************)
EXTENDS SeedStore, TLAPS

-----------------------------------------------------------------------------
(***************************************************************************)
(* What the artifacts yield.                                               *)
(***************************************************************************)

\* The k-th artifact of a seed process is an artifactDef.
LEMMA ArtifactType ==
  ASSUME NEW s \in Seeders, NEW k \in 1..Len(Artifacts[s])
  PROVE  /\ Len(Artifacts[s]) \in Nat
         /\ Artifacts[s][k] \in artifactDef
         /\ Artifacts[s][k] \in Seeded(s)
BY ArtifactsAssumption DEF Seeded

\* The blobs of an artifact are its layers, then its manifest.
LEMMA WriteListParts ==
  ASSUME NEW a \in artifactDef
  PROVE  /\ Len(a.layers) \in Nat
         /\ Len(WriteList(a)) = Len(a.layers) + 1
         /\ \A k \in 1..Len(a.layers) : WriteList(a)[k] = manifest(a).layers[k]
         /\ WriteList(a)[Len(a.layers) + 1] = manifestDigest(a)
         /\ References(manifest(a)) =
              {EmptyConfigDigest} \cup {WriteList(a)[k] : k \in 1..Len(a.layers)}
<1> DEFINE n == Len(a.layers)
           L == manifest(a).layers
<1>1. n \in Nat
  BY DEF artifactDef
<1>2. L = [k \in 1..n |-> digestOf(a.layers[k])]
  BY DEF manifest
<1>3. L \in Seq({digestOf(a.layers[k]) : k \in 1..n}) /\ Len(L) = n
  BY <1>1, <1>2
<1>4. /\ Len(WriteList(a)) = n + 1
      /\ \A k \in 1..n : WriteList(a)[k] = L[k]
      /\ WriteList(a)[n + 1] = manifestDigest(a)
  BY <1>3, <1>1 DEF WriteList
<1>5. References(manifest(a)) = {EmptyConfigDigest} \cup {L[k] : k \in 1..n}
  BY <1>3 DEF References, manifest
<1> QED
  BY <1>1, <1>4, <1>5

\* Everything an artifact names is a digest, and its tags are tag keys.
LEMMA ArtifactDigests ==
  ASSUME NEW s \in Seeders, NEW a \in Seeded(s)
  PROVE  /\ a \in artifactDef
         /\ \A k \in 1..Len(WriteList(a)) : WriteList(a)[k] \in Digests
         /\ manifestDigest(a) \in Digests
         /\ References(manifest(a)) \subseteq Digests
         /\ tagKeys(a) \subseteq TagKeys
<1>1. a \in artifactDef
  BY ArtifactType DEF Seeded
<1>2. Written(a) \subseteq Digests
  BY DEF Digests
<1>3. \A k \in 1..Len(WriteList(a)) : WriteList(a)[k] \in Digests
  BY <1>2 DEF Written
<1>4. EmptyConfigDigest \in Digests
  BY DEF Digests
<1>5. tagKeys(a) \subseteq TagKeys
  BY DEF TagKeys, Keys
<1> QED
  BY <1>1, <1>3, <1>4, <1>5, WriteListParts

-----------------------------------------------------------------------------
(***************************************************************************)
(* Types.  TypeOK alone is not inductive: LockIndex reads the index of the *)
(* file that the process has open, so Files says which processes have one, *)
(* and that a file once created is not created again.                      *)
(***************************************************************************)
BeforeOpen == {"idle", "config", "remove", "open"}

Files ==
  /\ \A s \in Seeders :
       /\ pc[s] \in BeforeOpen => fd[s] = NoFile /\ kind[s] = "free"
       /\ pc[s] \notin BeforeOpen /\ fd[s] # NoFile => kind[fd[s]] # "free"
       /\ pc[s] \in {"lock", "fill", "close", "done"} => fd[s] # NoFile
       /\ pc[s] \in {"fill", "close", "done"} => kind[fd[s]] = "db"
  /\ \A v \in Servers :
       /\ spc[v] \in {"lock", "up"} => sfd[v] # NoFile
       /\ sfd[v] # NoFile => kind[sfd[v]] # "free"
       /\ spc[v] = "up" => kind[sfd[v]] = "db"
  /\ path # NoFile => kind[path] # "free"

Typed == TypeOK /\ Files

\* The blob that a process begins to write is a digest.
LEMMA NextBlobType ==
  ASSUME TypeOK, NEW s \in Seeders, pc[s] = "config" \/ (Filling(s) /\ BlobsLeft(s))
  PROVE  NextBlob(s) \in Digests
<1>1. CASE pc[s] = "config"
  BY <1>1 DEF NextBlob, Digests
<1>2. CASE Filling(s) /\ BlobsLeft(s)
  <2>1. art[s] \in 1..Len(Artifacts[s]) /\ item[s] \in Nat \ {0}
    BY <1>2, ArtifactsAssumption DEF TypeOK, Filling
  <2>2. Artifact(s) \in Seeded(s)
    BY <2>1, ArtifactType DEF Artifact
  <2>3. Artifact(s) \in artifactDef /\ Len(WriteList(Artifact(s))) \in Nat
    BY <2>2, ArtifactDigests, WriteListParts
  <2>4. item[s] \in 1..Len(WriteList(Artifact(s)))
    BY <1>2, <2>1, <2>3 DEF BlobsLeft
  <2>5. pc[s] # "config"
    BY <1>2 DEF Filling
  <2> QED
    BY <2>2, <2>4, <2>5, ArtifactDigests DEF NextBlob
<1> QED
  BY <1>1, <1>2

\* The artifact that a process is at is one of those it seeds.
LEMMA ArtifactSeeded ==
  ASSUME TypeOK, NEW s \in Seeders, Filling(s)
  PROVE  /\ art[s] \in 1..Len(Artifacts[s])
         /\ Artifact(s) \in Seeded(s)
<1>1. art[s] \in 1..Len(Artifacts[s])
  BY ArtifactsAssumption DEF TypeOK, Filling
<1> QED
  BY <1>1, ArtifactType DEF Artifact

\* Putting an artifact into an index keeps its type.
LEMMA PutType ==
  ASSUME NEW s \in Seeders, NEW a \in Seeded(s), NEW idx, IsIndex(idx)
  PROVE  IsIndex([tags      |-> Put(idx.tags, tagKeys(a), manifestDigest(a)),
                  manifests |-> Put(idx.manifests, {manifestDigest(a)}, manifest(a))])
BY ArtifactDigests DEF IsIndex, Put

LEMMA InitTyped == Init => Typed
<1> SUFFICES ASSUME Init PROVE Typed
  OBVIOUS
<1>1. IsIndex(EmptyIndex)
  BY DEF IsIndex, EmptyIndex, EmptyBucket
<1>2. \A s \in Seeders : 1 <= Len(Artifacts[s]) + 1
  BY ArtifactsAssumption
<1>3. TypeOK
  BY <1>1, <1>2 DEF Init, TypeOK, SeedPC, ServerPC
<1>4. Files
  BY DEF Init, Files, BeforeOpen
<1> QED
  BY <1>3, <1>4 DEF Typed

LEMMA NextTyped == Typed /\ [Next]_vars => Typed'
<1> SUFFICES ASSUME TypeOK, Files, [Next]_vars PROVE TypeOK' /\ Files'
  BY DEF Typed
<1> USE NoFileAssumption, NoBlobAssumption
<1>1. ASSUME NEW s \in Seeders, StartSeed(s) PROVE TypeOK' /\ Files'
  BY <1>1 DEF StartSeed, TypeOK, Files, SeedPC, BeforeOpen, serverVars
<1>2. ASSUME NEW s \in Seeders, BeginBlob(s) PROVE TypeOK' /\ Files'
  <2>1. NextBlob(s) \in Digests
    BY <1>2, NextBlobType DEF BeginBlob
  <2> QED
    BY <1>2, <2>1 DEF BeginBlob, TypeOK, Files, serverVars
<1>3. ASSUME NEW s \in Seeders, EndBlob(s) PROVE TypeOK' /\ Files'
  <2>1. TypeOK'
    <3>1. blob' \in [Digests -> {"absent", "torn", "whole"}]
      BY <1>3 DEF EndBlob, TypeOK
    <3>2. pc \in [Seeders -> SeedPC] /\ item \in [Seeders -> Nat \ {0}]
      BY DEF TypeOK
    <3>3. pc' \in [Seeders -> SeedPC] /\ item' \in [Seeders -> Nat \ {0}]
      <4>1. CASE pc[s] = "config"
        BY <1>3, <3>2, <4>1 DEF EndBlob, SeedPC
      <4>2. CASE pc[s] # "config"
        BY <1>3, <3>2, <4>2 DEF EndBlob
      <4> QED
        BY <4>1, <4>2
    <3> QED
      BY <1>3, <3>1, <3>3 DEF EndBlob, TypeOK, serverVars
  <2>2. Files'
    BY <1>3 DEF EndBlob, TypeOK, Files, BeforeOpen, serverVars
  <2> QED
    BY <2>1, <2>2
<1>4. ASSUME NEW s \in Seeders, RemoveIndex(s) PROVE TypeOK' /\ Files'
  BY <1>4 DEF RemoveIndex, TypeOK, Files, SeedPC, BeforeOpen, serverVars
<1>5. ASSUME NEW s \in Seeders, OpenIndex(s) PROVE TypeOK' /\ Files'
  <2>1. TypeOK'
    <3>1. /\ pc \in [Seeders -> SeedPC] /\ fd \in [Seeders -> Seeders \cup {NoFile}]
          /\ kind \in [Seeders -> {"free", "blank", "db"}] /\ path \in Seeders \cup {NoFile}
      BY DEF TypeOK
    <3>2. pc' \in [Seeders -> SeedPC]
      BY <1>5, <3>1 DEF OpenIndex, SeedPC
    <3>3. /\ path' \in Seeders \cup {NoFile}
          /\ kind' \in [Seeders -> {"free", "blank", "db"}]
          /\ fd' \in [Seeders -> Seeders \cup {NoFile}]
      BY <1>5, <3>1 DEF OpenIndex
    <3> QED
      BY <1>5, <3>2, <3>3 DEF OpenIndex, TypeOK, serverVars
  <2>2. Files'
    BY <1>5 DEF OpenIndex, TypeOK, Files, BeforeOpen, serverVars
  <2> QED
    BY <2>1, <2>2
<1>6. ASSUME NEW s \in Seeders, LockIndex(s) PROVE TypeOK' /\ Files'
  <2>1. fd[s] \in Seeders
    BY <1>6 DEF LockIndex, TypeOK, Files
  <2>2. IsIndex(index[fd[s]])
    BY <2>1 DEF TypeOK
  <2>3. TypeOK'
    BY <1>6, <2>1, <2>2 DEF LockIndex, TypeOK, SeedPC, serverVars
  <2>4. Files'
    BY <1>6, <2>1 DEF LockIndex, TypeOK, Files, BeforeOpen, serverVars
  <2> QED
    BY <2>3, <2>4
<1>7. ASSUME NEW s \in Seeders, PutArtifact(s) PROVE TypeOK' /\ Files'
  <2>1. art[s] \in 1..Len(Artifacts[s]) /\ Artifact(s) \in Seeded(s)
    BY <1>7, ArtifactSeeded DEF PutArtifact
  <2>2. IsIndex(tx[s]) /\ tx = [t \in Seeders |-> tx[t]]
    BY DEF TypeOK
  <2>3. IsIndex(tx'[s])
    BY <1>7, <2>1, <2>2, PutType DEF PutArtifact
  <2>4. \A t \in Seeders : IsIndex(tx'[t])
    BY <1>7, <2>2, <2>3 DEF PutArtifact, TypeOK
  <2>5. tx' = [t \in Seeders |-> tx'[t]]
    BY <1>7, <2>2 DEF PutArtifact
  <2>6. art' \in [Seeders -> Nat \ {0}] /\ \A t \in Seeders : art'[t] <= Len(Artifacts[t]) + 1
    BY <1>7, <2>1, ArtifactsAssumption DEF PutArtifact, TypeOK
  <2>7. TypeOK'
    BY <1>7, <2>4, <2>5, <2>6 DEF PutArtifact, TypeOK, serverVars
  <2>8. Files'
    BY <1>7 DEF PutArtifact, Files, serverVars
  <2> QED
    BY <2>7, <2>8
<1>8. ASSUME NEW s \in Seeders, Commit(s) PROVE TypeOK' /\ Files'
  <2>1. fd[s] \in Seeders /\ IsIndex(tx[s])
    BY <1>8 DEF Commit, TypeOK, Files
  <2>2. /\ index' = [i \in Seeders |-> index'[i]]
        /\ \A i \in Seeders : IsIndex(index'[i])
    BY <1>8, <2>1 DEF Commit, TypeOK
  <2>3. TypeOK'
    BY <1>8, <2>2 DEF Commit, TypeOK, SeedPC, serverVars
  <2>4. Files'
    BY <1>8 DEF Commit, TypeOK, Files, BeforeOpen, serverVars
  <2> QED
    BY <2>3, <2>4
<1>9. ASSUME NEW s \in Seeders, Close(s) PROVE TypeOK' /\ Files'
  BY <1>9 DEF Close, TypeOK, Files, SeedPC, BeforeOpen, serverVars
<1>10. ASSUME NEW s \in Seeders, Die(s) PROVE TypeOK' /\ Files'
  BY <1>10 DEF Die, TypeOK, Files, SeedPC, BeforeOpen, serverVars
<1>11. ASSUME NEW v \in Servers, OpenServer(v) PROVE TypeOK' /\ Files'
  <2>1. TypeOK'
    BY <1>11 DEF OpenServer, TypeOK, ServerPC, seedVars
  <2>2. Files'
    BY <1>11 DEF OpenServer, TypeOK, Files, BeforeOpen, seedVars
  <2> QED
    BY <2>1, <2>2
<1>12. ASSUME NEW v \in Servers, LockServer(v) PROVE TypeOK' /\ Files'
  <2>1. TypeOK'
    BY <1>12 DEF LockServer, TypeOK, ServerPC, seedVars
  <2>2. Files'
    BY <1>12 DEF LockServer, TypeOK, Files, BeforeOpen, seedVars
  <2> QED
    BY <2>1, <2>2
<1>13. ASSUME NEW v \in Servers, StopServer(v) PROVE TypeOK' /\ Files'
  BY <1>13 DEF StopServer, TypeOK, Files, ServerPC, seedVars
<1>14. CASE UNCHANGED vars
  BY <1>14 DEF vars, seedVars, serverVars, TypeOK, Files
<1> QED
  BY <1>1, <1>2, <1>3, <1>4, <1>5, <1>6, <1>7, <1>8, <1>9, <1>10, <1>11, <1>12,
     <1>13, <1>14 DEF Next, SeedNext, SeedStep, ServerNext

LEMMA Typing == Spec => []Typed
<1>1. Init => Typed
  BY InitTyped
<1>2. Typed /\ [Next]_vars => Typed'
  BY NextTyped
<1> QED
  BY <1>1, <1>2, PTL DEF Spec

(***************************************************************************)
(* TypeCorrect: the variables keep their types in every reachable state.   *)
(***************************************************************************)
THEOREM TypeCorrect == Spec => []TypeOK
<1>1. Typed => TypeOK
  BY DEF Typed
<1> QED
  BY <1>1, Typing, PTL

-----------------------------------------------------------------------------
(***************************************************************************)
(* The file lock.  A seed process between LockIndex and Close shares its   *)
(* file with no other such process and with no running server.             *)
(***************************************************************************)
Locked(s) == pc[s] \in {"fill", "close"}

Locks ==
  /\ \A s, t \in Seeders : s # t /\ Locked(s) /\ Locked(t) => fd[s] # fd[t]
  /\ \A s \in Seeders, v \in Servers : Locked(s) /\ spc[v] = "up" => fd[s] # sfd[v]

LEMMA InitLocks == Init => Locks
BY DEF Init, Locks, Locked

LEMMA NextLocks == Typed /\ Locks /\ [Next]_vars => Locks'
<1> SUFFICES ASSUME TypeOK, Files, Locks, [Next]_vars PROVE Locks'
  BY DEF Typed
<1>0. /\ pc \in [Seeders -> SeedPC] /\ fd \in [Seeders -> Seeders \cup {NoFile}]
      /\ spc \in [Servers -> ServerPC] /\ sfd \in [Servers -> Seeders \cup {NoFile}]
  BY DEF TypeOK
<1>1. ASSUME NEW s \in Seeders, LockIndex(s) PROVE Locks'
  BY <1>0, <1>1 DEF LockIndex, HoldsExclusive, HoldsShared, Locks, Locked, serverVars
<1>2. ASSUME NEW s \in Seeders, OpenIndex(s) PROVE Locks'
  BY <1>0, <1>2 DEF OpenIndex, Locks, Locked, serverVars
<1>3. ASSUME NEW s \in Seeders, StartSeed(s) \/ RemoveIndex(s) \/ Close(s) \/ Die(s)
      PROVE  Locks'
  BY <1>0, <1>3 DEF StartSeed, RemoveIndex, Close, Die, Locks, Locked, serverVars
<1>4. ASSUME NEW s \in Seeders, EndBlob(s) PROVE Locks'
  <2>1. \A t \in Seeders : Locked(t)' = Locked(t)
    BY <1>0, <1>4 DEF EndBlob, Locked
  <2> QED
    BY <1>4, <2>1 DEF EndBlob, Locks, serverVars
<1>5. ASSUME NEW s \in Seeders, BeginBlob(s) \/ PutArtifact(s) PROVE Locks'
  BY <1>5 DEF BeginBlob, PutArtifact, Locks, Locked, serverVars
<1>6. ASSUME NEW s \in Seeders, Commit(s) PROVE Locks'
  BY <1>0, <1>6 DEF Commit, Locks, Locked, serverVars
<1>7. ASSUME NEW v \in Servers, OpenServer(v) \/ StopServer(v) PROVE Locks'
  BY <1>0, <1>7 DEF OpenServer, StopServer, Locks, Locked, seedVars
<1>8. ASSUME NEW v \in Servers, LockServer(v) PROVE Locks'
  BY <1>0, <1>8 DEF LockServer, HoldsExclusive, Locks, Locked, seedVars
<1>9. CASE UNCHANGED vars
  BY <1>9 DEF vars, seedVars, serverVars, Locks, Locked
<1> QED
  BY <1>1, <1>2, <1>3, <1>4, <1>5, <1>6, <1>7, <1>8, <1>9
     DEF Next, SeedNext, SeedStep, ServerNext

LEMMA Locking == Spec => []Locks
<1>1. Init => Locks
  BY InitLocks
<1>2. Typed /\ Locks /\ [Next]_vars => Locks'
  BY NextLocks
<1> QED
  BY <1>1, <1>2, Typing, PTL DEF Spec

\* One step leaves the index of a running server alone.
Snapshot ==
  \A v \in Servers :
    spc[v] = "up" /\ spc'[v] = "up" => index'[sfd'[v]] = index[sfd[v]]

LEMMA NextSnapshot == Typed /\ Locks /\ [Next]_vars => Snapshot
<1> SUFFICES ASSUME TypeOK, Locks, [Next]_vars PROVE Snapshot
  BY DEF Typed
<1>0. /\ spc \in [Servers -> ServerPC] /\ sfd \in [Servers -> Seeders \cup {NoFile}]
      /\ index = [i \in Seeders |-> index[i]]
  BY DEF TypeOK
<1>1. ASSUME NEW s \in Seeders, Commit(s) PROVE Snapshot
  <2>1. \A v \in Servers : spc[v] = "up" => sfd[v] # fd[s]
    BY <1>1 DEF Commit, Locks, Locked
  <2>2. sfd' = sfd /\ \A i : i # fd[s] => index'[i] = index[i]
    BY <1>1, <1>0 DEF Commit, serverVars
  <2> QED
    BY <2>1, <2>2 DEF Snapshot
<1>2. ASSUME NEW s \in Seeders,
             StartSeed(s) \/ BeginBlob(s) \/ EndBlob(s) \/ RemoveIndex(s) \/ OpenIndex(s)
             \/ LockIndex(s) \/ PutArtifact(s) \/ Close(s) \/ Die(s)
      PROVE  Snapshot
  <2>1. index' = index /\ sfd' = sfd
    BY <1>2 DEF StartSeed, BeginBlob, EndBlob, RemoveIndex, OpenIndex, LockIndex,
                PutArtifact, Close, Die, serverVars
  <2> QED
    BY <2>1 DEF Snapshot
<1>3. ASSUME NEW v \in Servers, OpenServer(v) \/ StopServer(v) PROVE Snapshot
  BY <1>0, <1>3 DEF OpenServer, StopServer, Snapshot
<1>4. ASSUME NEW v \in Servers, LockServer(v) PROVE Snapshot
  BY <1>4 DEF LockServer, Snapshot
<1>5. CASE UNCHANGED vars
  BY <1>5 DEF vars, serverVars, Snapshot
<1> QED
  BY <1>1, <1>2, <1>3, <1>4, <1>5 DEF Next, SeedNext, SeedStep, ServerNext

(***************************************************************************)
(* SnapshotsAreStable: the index of a running server never changes under   *)
(* it, however many processes seed the root meanwhile.                     *)
(***************************************************************************)
THEOREM SnapshotsAreStable == Spec => StableSnapshot
<1>1. Typed /\ Locks /\ [Next]_vars => [Snapshot]_vars
  BY NextSnapshot
<1>2. StableSnapshot <=> [][Snapshot]_vars
  BY DEF StableSnapshot, Snapshot
<1> QED
  BY <1>1, <1>2, Typing, Locking, PTL DEF Spec

-----------------------------------------------------------------------------
(***************************************************************************)
(* Tags resolve.  What holds of every committed index holds of every       *)
(* transaction too, because one becomes the other.                         *)
(***************************************************************************)
Resolves(idx) ==
  /\ \A k \in DOMAIN idx.tags : idx.tags[k] \in DOMAIN idx.manifests
  /\ \A d \in DOMAIN idx.manifests : d = digestOf(Marshal(idx.manifests[d]))

AllResolve == \A s \in Seeders : Resolves(index[s]) /\ Resolves(tx[s])

\* Putting an artifact keeps an index resolved.
LEMMA PutResolves ==
  ASSUME NEW a, NEW idx, Resolves(idx)
  PROVE  Resolves([tags      |-> Put(idx.tags, tagKeys(a), manifestDigest(a)),
                   manifests |-> Put(idx.manifests, {manifestDigest(a)}, manifest(a))])
BY DEF Resolves, Put, manifestDigest

LEMMA InitResolve == Init => AllResolve
<1>1. DOMAIN EmptyIndex.tags = {} /\ DOMAIN EmptyIndex.manifests = {}
  BY DEF EmptyIndex, EmptyBucket
<1>2. Resolves(EmptyIndex)
  BY <1>1 DEF Resolves
<1>3. ASSUME Init, NEW s \in Seeders PROVE index[s] = EmptyIndex /\ tx[s] = EmptyIndex
  <2>1. index = [i \in Seeders |-> EmptyIndex] /\ tx = [i \in Seeders |-> EmptyIndex]
    BY <1>3 DEF Init
  <2> QED
    BY <2>1, Zenon
<1> QED
  BY <1>2, <1>3, Zenon DEF AllResolve

LEMMA NextResolve == Typed /\ AllResolve /\ [Next]_vars => AllResolve'
<1> SUFFICES ASSUME TypeOK, Files, AllResolve, [Next]_vars PROVE AllResolve'
  BY DEF Typed
<1>0. /\ fd \in [Seeders -> Seeders \cup {NoFile}]
      /\ index = [i \in Seeders |-> index[i]] /\ tx = [s \in Seeders |-> tx[s]]
  BY DEF TypeOK
<1>1. ASSUME NEW s \in Seeders, LockIndex(s) PROVE AllResolve'
  <2>1. fd[s] \in Seeders
    BY <1>0, <1>1 DEF LockIndex, Files
  <2> QED
    BY <1>0, <1>1, <2>1 DEF LockIndex, AllResolve
<1>2. ASSUME NEW s \in Seeders, PutArtifact(s) PROVE AllResolve'
  <2>1. Resolves(tx'[s])
    BY <1>0, <1>2, PutResolves DEF PutArtifact, AllResolve
  <2> QED
    BY <1>0, <1>2, <2>1 DEF PutArtifact, AllResolve
<1>3. ASSUME NEW s \in Seeders, Commit(s) PROVE AllResolve'
  BY <1>0, <1>3 DEF Commit, AllResolve
<1>4. CASE UNCHANGED <<index, tx>>
  BY <1>4 DEF AllResolve
<1>5. ASSUME NEW s \in Seeders,
             StartSeed(s) \/ BeginBlob(s) \/ EndBlob(s) \/ RemoveIndex(s)
             \/ OpenIndex(s) \/ Close(s) \/ Die(s)
      PROVE  UNCHANGED <<index, tx>>
  BY <1>5 DEF StartSeed, BeginBlob, EndBlob, RemoveIndex, OpenIndex, Close, Die
<1>6. ASSUME NEW v \in Servers, OpenServer(v) \/ LockServer(v) \/ StopServer(v)
      PROVE  UNCHANGED <<index, tx>>
  BY <1>6 DEF OpenServer, LockServer, StopServer, seedVars
<1>7. CASE UNCHANGED vars
  BY <1>7, <1>4 DEF vars, seedVars
<1> QED
  BY <1>1, <1>2, <1>3, <1>4, <1>5, <1>6, <1>7 DEF Next, SeedNext, SeedStep, ServerNext

(***************************************************************************)
(* TagsAlwaysResolve: a listed tag always leads to a manifest, stored      *)
(* under the digest of its own bytes.                                      *)
(***************************************************************************)
THEOREM TagsAlwaysResolve == Spec => []TagsResolve
<1>1. Init => AllResolve
  BY InitResolve
<1>2. Typed /\ AllResolve /\ [Next]_vars => AllResolve'
  BY NextResolve
<1>3. AllResolve => TagsResolve
  BY DEF AllResolve, Resolves, TagsResolve, IndexFiles
<1> QED
  BY <1>1, <1>2, <1>3, Typing, PTL DEF Spec

-----------------------------------------------------------------------------
(***************************************************************************)
(* Blobs.  A digest is intact once its file is whole, and stays intact in  *)
(* this sense: from then on it is whole or inside somebody's os.WriteFile. *)
(* Progress says that a seed process has made every blob intact that its   *)
(* transaction is about to promise.                                        *)
(***************************************************************************)
Writes(s) == pc[s] = "config" \/ (Filling(s) /\ BlobsLeft(s))

Writing ==
  \A s \in Seeders :
    writing[s] # NoBlob /\ pc[s] # "dead" => Writes(s) /\ writing[s] = NextBlob(s)

\* The blobs that the process has written and its next Put relies on.
Made(s) ==
  {e \in Digests :
     \/ e = EmptyConfigDigest /\ pc[s] \notin {"idle", "config", "dead"}
     \/ /\ Filling(s)
        /\ \E k \in 1..Len(WriteList(Artifact(s))) :
             k < item[s] /\ e = WriteList(Artifact(s))[k]}

Progress == \A s \in Seeders : \A e \in Made(s) : Intact(e)

Promised ==
  \A s \in Seeders :
    /\ \A d \in Reachable(index[s]) : Intact(d)
    /\ \A d \in Reachable(tx[s]) : Intact(d)

Fresh ==
  \A s \in Seeders :
    pc[s] \in {"idle", "config", "remove", "open", "lock"} => art[s] = 1 /\ item[s] = 1

Steady == Writing /\ Fresh /\ Progress /\ Promised

LEMMA InitSteady == Init => Steady
<1> SUFFICES ASSUME Init PROVE Steady
  OBVIOUS
<1>1. Reachable(EmptyIndex) = {}
  BY DEF Reachable, EmptyIndex, EmptyBucket
<1>2. Promised
  BY <1>1 DEF Init, Promised
<1>3. Writing /\ Fresh /\ Progress
  BY DEF Init, Writing, Fresh, Progress, Made, Filling
<1> QED
  BY <1>2, <1>3 DEF Steady

\* Steps that begin or end no blob leave every digest as intact as it was.
LEMMA OtherSteps ==
  ASSUME [Next]_vars,
         ~ \E s \in Seeders : BeginBlob(s) \/ EndBlob(s)
  PROVE  UNCHANGED <<blob, writing>>
BY DEF Next, SeedNext, SeedStep, ServerNext, StartSeed, RemoveIndex, OpenIndex, LockIndex,
       PutArtifact, Commit, Close, Die, OpenServer, LockServer, StopServer, vars, seedVars

\* No step makes an intact digest less than that.
LEMMA IntactStays ==
  ASSUME TypeOK, [Next]_vars, NEW d \in Digests, Intact(d)
  PROVE  Intact(d)'
<1> USE NoBlobAssumption
<1>0. blob \in [Digests -> {"absent", "torn", "whole"}] /\ writing \in [Seeders -> Digests \cup {NoBlob}]
  BY DEF TypeOK
<1>1. ASSUME NEW s \in Seeders, BeginBlob(s) PROVE Intact(d)'
  <2>1. /\ writing[s] = NoBlob
        /\ blob' = [blob EXCEPT ![NextBlob(s)] = "torn"]
        /\ writing' = [writing EXCEPT ![s] = NextBlob(s)]
    BY <1>1 DEF BeginBlob
  <2>2. CASE d = NextBlob(s)
    BY <1>0, <2>1, <2>2 DEF Intact
  <2>3. CASE d # NextBlob(s)
    BY <1>0, <2>1, <2>3 DEF Intact
  <2> QED
    BY <2>2, <2>3
<1>2. ASSUME NEW s \in Seeders, EndBlob(s) PROVE Intact(d)'
  <2>1. /\ blob' = [blob EXCEPT ![writing[s]] = "whole"]
        /\ writing' = [writing EXCEPT ![s] = NoBlob]
    BY <1>2 DEF EndBlob
  <2>2. CASE d = writing[s]
    BY <1>0, <2>1, <2>2 DEF Intact
  <2>3. CASE d # writing[s]
    BY <1>0, <2>1, <2>3 DEF Intact
  <2> QED
    BY <2>2, <2>3
<1>3. CASE UNCHANGED <<blob, writing>>
  BY <1>3 DEF Intact
<1> QED
  BY <1>1, <1>2, <1>3, OtherSteps

\* The end of os.WriteFile makes its blob intact.
LEMMA EndIntact ==
  ASSUME TypeOK, NEW s \in Seeders, EndBlob(s), NEW d \in Digests, d = writing[s]
  PROVE  Intact(d)'
BY NoBlobAssumption DEF EndBlob, Intact, TypeOK

\* What a process is about to write depends on its own variables only.
LEMMA OwnVariables ==
  ASSUME NEW t \in Seeders,
         pc'[t] = pc[t], art'[t] = art[t], item'[t] = item[t]
  PROVE  /\ Filling(t)' = Filling(t)
         /\ Writes(t)' = Writes(t)
         /\ Artifact(t)' = Artifact(t)
         /\ NextBlob(t)' = NextBlob(t)
BY DEF Filling, Writes, BlobsLeft, Artifact, NextBlob

LEMMA NextWriting == Typed /\ Writing /\ [Next]_vars => Writing'
<1> SUFFICES ASSUME TypeOK, Writing, [Next]_vars, NEW t \in Seeders,
                    writing'[t] # NoBlob, pc'[t] # "dead"
             PROVE  Writes(t)' /\ writing'[t] = NextBlob(t)'
  BY DEF Typed, Writing
<1> USE NoBlobAssumption
<1>0. /\ pc \in [Seeders -> SeedPC] /\ writing \in [Seeders -> Digests \cup {NoBlob}]
      /\ art \in [Seeders -> Nat \ {0}] /\ item \in [Seeders -> Nat \ {0}]
  BY DEF TypeOK
<1>1. CASE /\ pc'[t] = pc[t] /\ art'[t] = art[t] /\ item'[t] = item[t]
           /\ writing'[t] = writing[t]
  BY <1>1, OwnVariables DEF Writing
<1>2. ASSUME BeginBlob(t) PROVE Writes(t)' /\ writing'[t] = NextBlob(t)'
  <2>1. pc' = pc /\ art' = art /\ item' = item /\ Writes(t) /\ writing'[t] = NextBlob(t)
    BY <1>0, <1>2 DEF BeginBlob, Writes
  <2> QED
    BY <2>1, OwnVariables
<1>3. ASSUME EndBlob(t) PROVE FALSE
  BY <1>0, <1>3 DEF EndBlob
<1>4. ASSUME StartSeed(t) \/ RemoveIndex(t) \/ OpenIndex(t) \/ LockIndex(t) \/ PutArtifact(t)
             \/ Commit(t) \/ Close(t)
      PROVE  FALSE
  <2>1. ~Writes(t) /\ pc[t] # "dead"
    <3>1. CASE Commit(t)
      BY <3>1, ArtifactsAssumption DEF Commit, Writes, Filling
    <3>2. CASE PutArtifact(t)
      BY <3>2 DEF PutArtifact, Writes, Filling
    <3> QED
      BY <1>4, <3>1, <3>2 DEF StartSeed, RemoveIndex, OpenIndex, LockIndex, Close, Writes, Filling
  <2>2. writing' = writing
    BY <1>4 DEF StartSeed, RemoveIndex, OpenIndex, LockIndex, PutArtifact, Commit, Close
  <2> QED
    BY <2>1, <2>2 DEF Writing
<1>5. ASSUME Die(t) PROVE FALSE
  BY <1>0, <1>5 DEF Die
<1>6. ASSUME NEW s \in Seeders, s # t, StartSeed(s) \/ SeedStep(s) \/ Die(s)
      PROVE  /\ pc'[t] = pc[t] /\ art'[t] = art[t] /\ item'[t] = item[t]
             /\ writing'[t] = writing[t]
  BY <1>0, <1>6 DEF SeedStep, StartSeed, BeginBlob, EndBlob, RemoveIndex, OpenIndex, LockIndex,
                    PutArtifact, Commit, Close, Die
<1>7. CASE ServerNext \/ UNCHANGED vars
  <2>1. UNCHANGED <<pc, art, item, writing>>
    BY <1>7 DEF ServerNext, OpenServer, LockServer, StopServer, vars, seedVars
  <2> QED
    BY <1>1, <2>1
<1> QED
  BY <1>1, <1>2, <1>3, <1>4, <1>5, <1>6, <1>7 DEF Next, SeedNext, SeedStep

LEMMA NextFresh == Typed /\ Fresh /\ [Next]_vars => Fresh'
<1> SUFFICES ASSUME TypeOK, Fresh, [Next]_vars PROVE Fresh'
  BY DEF Typed
<1>0. /\ pc \in [Seeders -> SeedPC]
      /\ art \in [Seeders -> Nat \ {0}] /\ item \in [Seeders -> Nat \ {0}]
  BY DEF TypeOK
<1>1. ASSUME NEW s \in Seeders, EndBlob(s) PROVE Fresh'
  <2>1. CASE pc[s] = "config"
    BY <1>0, <1>1, <2>1 DEF EndBlob, Fresh
  <2>2. CASE pc[s] # "config"
    BY <1>0, <1>1, <2>2 DEF EndBlob, Fresh
  <2> QED
    BY <2>1, <2>2
<1>2. ASSUME NEW s \in Seeders, PutArtifact(s) PROVE Fresh'
  BY <1>0, <1>2 DEF PutArtifact, Filling, Fresh
<1>3. ASSUME NEW s \in Seeders,
             StartSeed(s) \/ BeginBlob(s) \/ RemoveIndex(s) \/ OpenIndex(s) \/ LockIndex(s)
             \/ Commit(s) \/ Close(s) \/ Die(s)
      PROVE  Fresh'
  <2>1. art' = art /\ item' = item
    BY <1>3 DEF StartSeed, BeginBlob, RemoveIndex, OpenIndex, LockIndex, Commit, Close, Die
  <2>2. \A t \in Seeders : t # s => pc'[t] = pc[t]
    BY <1>0, <1>3 DEF StartSeed, BeginBlob, RemoveIndex, OpenIndex, LockIndex, Commit, Close, Die
  <2>3. pc'[s] \in {"idle", "config", "remove", "open", "lock"} =>
          pc[s] \in {"idle", "config", "remove", "open", "lock"}
    BY <1>0, <1>3 DEF StartSeed, BeginBlob, RemoveIndex, OpenIndex, LockIndex, Commit, Close, Die
  <2> QED
    BY <2>1, <2>2, <2>3 DEF Fresh
<1>4. CASE ServerNext \/ UNCHANGED vars
  BY <1>4 DEF ServerNext, OpenServer, LockServer, StopServer, vars, seedVars, Fresh
<1> QED
  BY <1>1, <1>2, <1>3, <1>4 DEF Next, SeedNext, SeedStep

\* A process only adds to what it has made by ending a blob.
LEMMA MadeSteps ==
  ASSUME TypeOK, Writing, Fresh, [Next]_vars, NEW t \in Seeders, NEW e \in Made(t)'
  PROVE  e \in Made(t) \/ (EndBlob(t) /\ e = writing[t])
<1>0. /\ pc \in [Seeders -> SeedPC] /\ writing \in [Seeders -> Digests \cup {NoBlob}]
      /\ art \in [Seeders -> Nat \ {0}] /\ item \in [Seeders -> Nat \ {0}]
      /\ e \in Digests
  BY DEF TypeOK, Made
<1>1. CASE pc'[t] = pc[t] /\ art'[t] = art[t] /\ item'[t] = item[t]
  BY <1>1, OwnVariables DEF Made
<1>2. CASE EndBlob(t)
  <2>1. Writes(t) /\ writing[t] = NextBlob(t)
    BY <1>2 DEF EndBlob, Writing
  <2>2. CASE pc[t] = "config"
    <3>1. pc'[t] = "remove" /\ writing[t] = EmptyConfigDigest
      BY <1>0, <1>2, <2>1, <2>2 DEF EndBlob, NextBlob
    <3> QED
      BY <1>2, <3>1 DEF Made, Filling
  <2>3. CASE pc[t] # "config"
    <3>1. /\ pc' = pc /\ art' = art /\ item'[t] = item[t] + 1
          /\ pc[t] = "fill" /\ writing[t] = WriteList(Artifact(t))[item[t]]
      BY <1>0, <1>2, <2>1, <2>3 DEF EndBlob, NextBlob
    <3>2. Filling(t)' = Filling(t) /\ Artifact(t)' = Artifact(t)
      BY <3>1 DEF Filling, Artifact
    <3>3. CASE e = EmptyConfigDigest
      BY <1>0, <3>1, <3>3 DEF Made
    <3>4. CASE e # EmptyConfigDigest
      <4>1. PICK k \in 1..Len(WriteList(Artifact(t))) :
              k < item[t] + 1 /\ e = WriteList(Artifact(t))[k] /\ Filling(t)
        BY <3>1, <3>2, <3>4 DEF Made
      <4>2. CASE k = item[t]
        BY <1>2, <3>1, <4>1, <4>2
      <4>3. CASE k # item[t]
        <5>1. k < item[t]
          BY <1>0, <4>1, <4>3
        <5> QED
          BY <1>0, <4>1, <5>1 DEF Made
      <4> QED
        BY <4>2, <4>3
    <3> QED
      BY <3>3, <3>4
  <2> QED
    BY <2>2, <2>3
<1>3. CASE LockIndex(t) \/ PutArtifact(t)
  <2>1. item'[t] = 1 /\ pc[t] \notin {"idle", "config", "dead"}
    BY <1>0, <1>3 DEF LockIndex, PutArtifact, Fresh, Filling
  <2>2. ~ \E k \in Nat \ {0} : k < item'[t]
    BY <2>1
  <2>3. e = EmptyConfigDigest
    BY <2>2 DEF Made
  <2> QED
    BY <1>0, <2>1, <2>3 DEF Made
<1>4. CASE StartSeed(t) \/ RemoveIndex(t) \/ OpenIndex(t) \/ Commit(t) \/ Close(t) \/ Die(t)
  <2>1. pc'[t] # "fill"
    BY <1>0, <1>4 DEF StartSeed, RemoveIndex, OpenIndex, Commit, Close, Die
  <2>2. e = EmptyConfigDigest /\ pc'[t] \notin {"idle", "config", "dead"}
    BY <2>1 DEF Made, Filling
  <2>3. pc[t] \notin {"idle", "config", "dead"}
    BY <1>0, <1>4, <2>2 DEF StartSeed, RemoveIndex, OpenIndex, Commit, Close, Die
  <2> QED
    BY <1>0, <2>2, <2>3 DEF Made
<1>5. CASE BeginBlob(t)
  BY <1>1, <1>5 DEF BeginBlob
<1>6. ASSUME NEW s \in Seeders, s # t, StartSeed(s) \/ SeedStep(s) \/ Die(s)
      PROVE  pc'[t] = pc[t] /\ art'[t] = art[t] /\ item'[t] = item[t]
  BY <1>0, <1>6 DEF SeedStep, StartSeed, BeginBlob, EndBlob, RemoveIndex, OpenIndex, LockIndex,
                    PutArtifact, Commit, Close, Die
<1>7. CASE ServerNext \/ UNCHANGED vars
  <2>1. UNCHANGED <<pc, art, item>>
    BY <1>7 DEF ServerNext, OpenServer, LockServer, StopServer, vars, seedVars
  <2> QED
    BY <1>1, <2>1
<1> QED
  BY <1>1, <1>2, <1>3, <1>4, <1>5, <1>6, <1>7 DEF Next, SeedNext, SeedStep

LEMMA NextProgress == Typed /\ Steady /\ [Next]_vars => Progress'
<1> SUFFICES ASSUME TypeOK, Steady, [Next]_vars, NEW t \in Seeders, NEW e \in Made(t)'
             PROVE  Intact(e)'
  BY DEF Typed, Progress
<1>1. e \in Digests
  BY DEF Made
<1>2. e \in Made(t) \/ (EndBlob(t) /\ e = writing[t])
  BY MadeSteps DEF Steady
<1>3. CASE e \in Made(t)
  BY <1>1, <1>3, IntactStays DEF Steady, Progress
<1>4. CASE EndBlob(t) /\ e = writing[t]
  BY <1>1, <1>4, EndIntact
<1> QED
  BY <1>2, <1>3, <1>4

\* A complete artifact promises only blobs that its process has made.
LEMMA PutPromises ==
  ASSUME TypeOK, NEW t \in Seeders, PutArtifact(t), NEW e \in Reachable(tx'[t])
  PROVE  e \in Reachable(tx[t]) \cup Made(t)
<1> DEFINE a == Artifact(t)
           d == manifestDigest(a)
           old == tx[t].manifests
<1>1. a \in Seeded(t) /\ Filling(t) /\ ~BlobsLeft(t)
  BY ArtifactSeeded DEF PutArtifact
<1>2. tx'[t].manifests = [x \in DOMAIN old \cup {d} |-> IF x \in {d} THEN manifest(a) ELSE old[x]]
  BY DEF PutArtifact, Put, TypeOK
<1>3. e \in Reachable(tx[t]) \cup {d} \cup References(manifest(a))
  BY <1>2 DEF Reachable
<1>4. /\ a \in artifactDef
      /\ \A k \in 1..Len(WriteList(a)) : WriteList(a)[k] \in Digests
  BY <1>1, ArtifactDigests
<1>5. Len(a.layers) \in Nat /\ Len(WriteList(a)) = Len(a.layers) + 1
  BY <1>4, WriteListParts
<1>6. \A k \in 1..Len(WriteList(a)) : k < item[t]
  BY <1>1, <1>5 DEF BlobsLeft, TypeOK
<1>7. \A k \in 1..Len(WriteList(a)) : WriteList(a)[k] \in Made(t)
  BY <1>1, <1>4, <1>6 DEF Made
<1>8. EmptyConfigDigest \in Made(t)
  BY <1>1 DEF Made, Filling, Digests
<1>9. d \in Made(t)
  <2>1. WriteList(a)[Len(a.layers) + 1] = d
    BY <1>4, WriteListParts
  <2> QED
    BY <1>5, <1>7, <2>1
<1>10. References(manifest(a)) \subseteq Made(t)
  <2>1. References(manifest(a)) = {EmptyConfigDigest} \cup {WriteList(a)[k] : k \in 1..Len(a.layers)}
    BY <1>4, WriteListParts
  <2> QED
    BY <1>5, <1>7, <1>8, <2>1
<1> QED
  BY <1>3, <1>9, <1>10

LEMMA NextPromised == Typed /\ Steady /\ [Next]_vars => Promised'
<1> SUFFICES ASSUME TypeOK, Files, Steady, [Next]_vars, NEW i \in Seeders
             PROVE  /\ \A e \in Reachable(index'[i]) : Intact(e)'
                    /\ \A e \in Reachable(tx'[i]) : Intact(e)'
  BY DEF Typed, Promised
<1>0. /\ fd \in [Seeders -> Seeders \cup {NoFile}]
      /\ index = [j \in Seeders |-> index[j]] /\ tx = [s \in Seeders |-> tx[s]]
  BY DEF TypeOK
<1>1. \A j \in Seeders : Reachable(index[j]) \cup Reachable(tx[j]) \subseteq Digests
  BY DEF TypeOK, IsIndex, Reachable
<1>2. \A j \in Seeders : \A e \in Reachable(index[j]) \cup Reachable(tx[j]) : Intact(e)'
  BY <1>1, IntactStays DEF Steady, Promised
<1>3. \A e \in Made(i) : Intact(e)'
  BY IntactStays DEF Steady, Progress, Made
<1>4. index'[i] = index[i] \/ \E s \in Seeders : index'[i] = tx[s]
  BY <1>0 DEF Next, SeedNext, SeedStep, ServerNext, StartSeed, BeginBlob, EndBlob, RemoveIndex,
              OpenIndex, LockIndex, PutArtifact, Commit, Close, Die, OpenServer, LockServer,
              StopServer, vars, seedVars
<1>5. \/ tx'[i] = tx[i]
      \/ LockIndex(i) /\ tx'[i] = index[fd[i]]
      \/ PutArtifact(i)
  <2>1. ASSUME NEW s \in Seeders, LockIndex(s) \/ PutArtifact(s)
        PROVE  \/ s = i
               \/ tx'[i] = tx[i]
    BY <1>0, <2>1 DEF LockIndex, PutArtifact
  <2>2. LockIndex(i) => tx'[i] = index[fd[i]]
    BY <1>0 DEF LockIndex
  <2>3. ASSUME NEW s \in Seeders,
               StartSeed(s) \/ BeginBlob(s) \/ EndBlob(s) \/ RemoveIndex(s) \/ OpenIndex(s)
               \/ Commit(s) \/ Close(s) \/ Die(s)
        PROVE  tx' = tx
    BY <2>3 DEF StartSeed, BeginBlob, EndBlob, RemoveIndex, OpenIndex, Commit, Close, Die
  <2>4. ServerNext \/ UNCHANGED vars => tx' = tx
    BY DEF ServerNext, OpenServer, LockServer, StopServer, vars, seedVars
  <2> QED
    BY <2>1, <2>2, <2>3, <2>4 DEF Next, SeedNext, SeedStep
<1>6. \A e \in Reachable(index'[i]) : Intact(e)'
  BY <1>2, <1>4
<1>7. \A e \in Reachable(tx'[i]) : Intact(e)'
  <2>1. CASE tx'[i] = tx[i]
    BY <1>2, <2>1
  <2>2. CASE LockIndex(i) /\ tx'[i] = index[fd[i]]
    <3>1. fd[i] \in Seeders
      BY <1>0, <2>2 DEF LockIndex, Files
    <3> QED
      BY <1>2, <2>2, <3>1
  <2>3. CASE PutArtifact(i)
    BY <1>2, <1>3, <2>3, PutPromises
  <2> QED
    BY <1>5, <2>1, <2>2, <2>3
<1> QED
  BY <1>6, <1>7

(***************************************************************************)
(* PromisesAreKept: no reachable state has a committed index that promises *)
(* a blob nobody has written.                                              *)
(***************************************************************************)
THEOREM PromisesAreKept == Spec => []ReachableIntact
<1>1. Init => Steady
  BY InitSteady
<1>2. Typed /\ Steady /\ [Next]_vars => Steady'
  BY NextWriting, NextFresh, NextProgress, NextPromised DEF Steady
<1>3. Steady => ReachableIntact
  BY DEF Steady, Promised, ReachableIntact, IndexFiles, Intact
<1> QED
  BY <1>1, <1>2, <1>3, Typing, PTL DEF Spec

-----------------------------------------------------------------------------
(***************************************************************************)
(* All or nothing.  A transaction holds the tags of the index it began     *)
(* with, and those of the artifacts put so far; the lock keeps that index  *)
(* as it is until the commit.                                              *)
(***************************************************************************)
PutSoFar(s) == UNION {tagKeys(Artifacts[s][k]) : k \in 1..art[s] - 1}

Tally ==
  /\ AllOrNothing
  /\ \A s \in Seeders :
       pc[s] = "fill" => DOMAIN tx[s].tags = DOMAIN index[fd[s]].tags \cup PutSoFar(s)

LEMMA InitTally == Init => Tally
<1> SUFFICES ASSUME Init PROVE Tally
  OBVIOUS
<1>1. DOMAIN EmptyIndex.tags = {}
  BY DEF EmptyIndex, EmptyBucket
<1>2. \A i \in Seeders : DOMAIN index[i].tags = {}
  <2>1. index = [i \in Seeders |-> EmptyIndex]
    BY DEF Init
  <2> QED
    BY <1>1, <2>1, Zenon
<1>3. \A i \in Seeders : Committed(i) = {}
  BY DEF Init, Committed
<1>4. AllOrNothing
  BY <1>2, <1>3 DEF AllOrNothing
<1> QED
  BY <1>4 DEF Init, Tally

\* Nothing changes while transactions, indexes and their owners stay.
LEMMA TallyKept ==
  ASSUME Tally,
         index' = index, tx' = tx, art' = art,
         \A t \in Seeders : pc'[t] \in {"close", "done"} <=> pc[t] \in {"close", "done"},
         \A t \in Seeders : pc'[t] = "fill" => pc[t] = "fill",
         \A t \in Seeders : pc[t] \in {"fill", "close", "done"} => fd'[t] = fd[t]
  PROVE  Tally'
<1>1. ASSUME NEW i \in Seeders PROVE Committed(i)' = Committed(i)
  BY DEF Committed
<1>2. AllOrNothing'
  BY <1>1 DEF Tally, AllOrNothing
<1>3. ASSUME NEW t \in Seeders, pc'[t] = "fill"
      PROVE  DOMAIN tx'[t].tags = DOMAIN index'[fd'[t]].tags \cup PutSoFar(t)'
  <2>1. PutSoFar(t)' = PutSoFar(t)
    BY DEF PutSoFar
  <2> QED
    BY <1>3, <2>1 DEF Tally
<1> QED
  BY <1>2, <1>3 DEF Tally

LEMMA NextTally == Typed /\ Locks /\ Fresh /\ Tally /\ [Next]_vars => Tally'
<1> SUFFICES ASSUME TypeOK, Files, Locks, Fresh, Tally, [Next]_vars PROVE Tally'
  BY DEF Typed
<1> USE NoFileAssumption
<1>0. /\ pc \in [Seeders -> SeedPC] /\ fd \in [Seeders -> Seeders \cup {NoFile}]
      /\ art \in [Seeders -> Nat \ {0}]
      /\ index = [i \in Seeders |-> index[i]] /\ tx = [s \in Seeders |-> tx[s]]
  BY DEF TypeOK
<1>1. ASSUME NEW s \in Seeders, LockIndex(s) PROVE Tally'
  <2>1. \A i : Committed(i)' = Committed(i)
    BY <1>0, <1>1 DEF LockIndex, Committed
  <2>2. AllOrNothing'
    BY <1>1, <2>1 DEF LockIndex, Tally, AllOrNothing
  <2>3. PutSoFar(s)' = {}
    <3>1. art'[s] = 1
      BY <1>1 DEF LockIndex, Fresh
    <3> QED
      BY <3>1 DEF PutSoFar
  <2>4. DOMAIN tx'[s].tags = DOMAIN index'[fd'[s]].tags \cup PutSoFar(s)'
    BY <1>0, <1>1, <2>3 DEF LockIndex
  <2>5. ASSUME NEW t \in Seeders, t # s, pc'[t] = "fill"
        PROVE  DOMAIN tx'[t].tags = DOMAIN index'[fd'[t]].tags \cup PutSoFar(t)'
    BY <1>0, <1>1, <2>5 DEF LockIndex, Tally, PutSoFar
  <2> QED
    BY <2>2, <2>4, <2>5 DEF Tally
<1>2. ASSUME NEW s \in Seeders, PutArtifact(s) PROVE Tally'
  <2>1. AllOrNothing'
    BY <1>2 DEF PutArtifact, Tally, AllOrNothing, Committed
  <2>2. DOMAIN tx'[s].tags = DOMAIN tx[s].tags \cup tagKeys(Artifact(s))
    BY <1>0, <1>2 DEF PutArtifact, Put
  <2>3. PutSoFar(s)' = PutSoFar(s) \cup tagKeys(Artifact(s))
    <3>1. art[s] \in Nat \ {0} /\ art'[s] = art[s] + 1
      BY <1>0, <1>2 DEF PutArtifact
    <3>2. 1..art'[s] - 1 = (1..art[s] - 1) \cup {art[s]}
      BY <3>1
    <3> QED
      BY <3>2 DEF PutSoFar, Artifact
  <2>4. ASSUME NEW t \in Seeders, t # s, pc'[t] = "fill"
        PROVE  DOMAIN tx'[t].tags = DOMAIN index'[fd'[t]].tags \cup PutSoFar(t)'
    BY <1>0, <1>2, <2>4 DEF PutArtifact, Tally, PutSoFar
  <2>5. DOMAIN tx'[s].tags = DOMAIN index'[fd'[s]].tags \cup PutSoFar(s)'
    BY <1>2, <2>2, <2>3 DEF PutArtifact, Filling, Tally
  <2> QED
    BY <2>1, <2>4, <2>5 DEF Tally
<1>3. ASSUME NEW s \in Seeders, Commit(s) PROVE Tally'
  <2>1. PICK j \in Seeders : fd[s] = j
    BY <1>0, <1>3 DEF Commit, Files
  <2>2. /\ index' = [index EXCEPT ![j] = tx[s]] /\ fd' = fd /\ tx' = tx /\ art' = art
        /\ pc' = [pc EXCEPT ![s] = "close"] /\ pc[s] = "fill"
    BY <1>3, <2>1 DEF Commit
  <2>3. PutSoFar(s) = Keys(s)
    <3>1. Len(Artifacts[s]) \in Nat /\ art[s] - 1 = Len(Artifacts[s])
      BY <1>3, ArtifactsAssumption DEF Commit
    <3> QED
      BY <3>1 DEF PutSoFar, Keys, Seeded
  <2>4. Committed(j)' = Committed(j) \cup {s}
    BY <1>0, <2>1, <2>2 DEF Committed
  <2>5. ASSUME NEW i \in Seeders, i # j PROVE Committed(i)' = Committed(i)
    BY <1>0, <2>1, <2>2, <2>5 DEF Committed
  <2>6. ASSUME NEW i \in Seeders
        PROVE  DOMAIN index'[i].tags = UNION {Keys(t) : t \in Committed(i)'}
    <3>1. DOMAIN index[i].tags = UNION {Keys(t) : t \in Committed(i)}
      BY DEF Tally, AllOrNothing
    <3>2. CASE i = j
      <4>1. index'[i] = tx[s]
        BY <1>0, <2>2, <3>2
      <4>2. DOMAIN tx[s].tags = DOMAIN index[i].tags \cup Keys(s)
        BY <2>1, <2>2, <2>3, <3>2 DEF Tally
      <4> QED
        BY <2>4, <3>1, <3>2, <4>1, <4>2
    <3>3. CASE i # j
      <4>1. index'[i] = index[i]
        BY <1>0, <2>2, <3>3
      <4> QED
        BY <2>5, <3>1, <3>3, <4>1
    <3> QED
      BY <3>2, <3>3
  <2>7. AllOrNothing'
    BY <2>6 DEF AllOrNothing
  <2>8. ASSUME NEW t \in Seeders, pc'[t] = "fill"
        PROVE  DOMAIN tx'[t].tags = DOMAIN index'[fd'[t]].tags \cup PutSoFar(t)'
    <3>1. t # s /\ pc[t] = "fill"
      BY <1>0, <2>2, <2>8
    <3>2. fd[t] # j
      BY <2>1, <2>2, <3>1 DEF Locks, Locked
    <3>3. index'[fd[t]] = index[fd[t]]
      BY <1>0, <2>2, <3>2
    <3>4. PutSoFar(t)' = PutSoFar(t)
      BY <2>2 DEF PutSoFar
    <3> QED
      BY <2>2, <3>1, <3>3, <3>4 DEF Tally
  <2> QED
    BY <2>7, <2>8 DEF Tally
<1>4. ASSUME NEW s \in Seeders, OpenIndex(s) PROVE Tally'
  <2>1. index' = index /\ tx' = tx /\ art' = art
    BY <1>4 DEF OpenIndex
  <2>2. \A t \in Seeders : pc'[t] \in {"close", "done"} <=> pc[t] \in {"close", "done"}
    BY <1>0, <1>4 DEF OpenIndex
  <2>3. \A t \in Seeders : pc'[t] = "fill" => pc[t] = "fill"
    BY <1>0, <1>4 DEF OpenIndex
  <2>4. \A t \in Seeders : pc[t] \in {"fill", "close", "done"} => fd'[t] = fd[t]
    BY <1>0, <1>4 DEF OpenIndex
  <2> QED
    BY <2>1, <2>2, <2>3, <2>4, TallyKept
<1>5. ASSUME NEW s \in Seeders,
             StartSeed(s) \/ BeginBlob(s) \/ EndBlob(s) \/ RemoveIndex(s) \/ Close(s) \/ Die(s)
      PROVE  Tally'
  <2>1. UNCHANGED <<index, fd, tx, art>>
    BY <1>5 DEF StartSeed, BeginBlob, EndBlob, RemoveIndex, Close, Die
  <2>2. \A t \in Seeders : pc'[t] \in {"close", "done"} <=> pc[t] \in {"close", "done"}
    BY <1>0, <1>5 DEF StartSeed, BeginBlob, EndBlob, RemoveIndex, Close, Die
  <2>3. \A t \in Seeders : pc'[t] = "fill" => pc[t] = "fill"
    BY <1>0, <1>5 DEF StartSeed, BeginBlob, EndBlob, RemoveIndex, Close, Die
  <2>4. fd' = fd /\ index' = index /\ tx' = tx /\ art' = art
    BY <2>1
  <2> QED
    BY <2>2, <2>3, <2>4, TallyKept
<1>6. CASE ServerNext \/ UNCHANGED vars
  <2>1. UNCHANGED <<index, pc, fd, tx, art>>
    BY <1>6 DEF ServerNext, OpenServer, LockServer, StopServer, vars, seedVars
  <2> QED
    BY <2>1, TallyKept
<1> QED
  BY <1>1, <1>2, <1>3, <1>4, <1>5, <1>6 DEF Next, SeedNext, SeedStep

(***************************************************************************)
(* SeedsAreAtomic: an index holds exactly the tags of the seed processes   *)
(* that committed to it, whichever of them died on the way.                *)
(***************************************************************************)
THEOREM SeedsAreAtomic == Spec => []AllOrNothing
<1>1. Init => Tally /\ Fresh
  BY InitTally, InitSteady DEF Steady
<1>2. Typed /\ Locks /\ (Tally /\ Fresh) /\ [Next]_vars => (Tally /\ Fresh)'
  BY NextTally, NextFresh
<1>3. Tally => AllOrNothing
  BY DEF Tally
<1> QED
  BY <1>1, <1>2, <1>3, Typing, Locking, PTL DEF Spec

-----------------------------------------------------------------------------
(***************************************************************************)
(* The path.  index.db names a file that its creator still has open, and   *)
(* it names none only before the first removal, or while somebody that may *)
(* have removed it is about to open it, or died.                           *)
(***************************************************************************)
Named ==
  /\ path # NoFile => fd[path] = path
  /\ path = NoFile =>
       \/ \A s \in Seeders : pc[s] \in {"idle", "config", "remove"}
       \/ \E s \in Seeders : pc[s] \in {"open", "dead"}

LEMMA InitNamed == Init => Named
BY DEF Init, Named

LEMMA NextNamed == Typed /\ Named /\ [Next]_vars => Named'
<1> SUFFICES ASSUME TypeOK, Files, Named, [Next]_vars PROVE Named'
  BY DEF Typed
<1> USE NoFileAssumption
<1>0. /\ pc \in [Seeders -> SeedPC] /\ fd \in [Seeders -> Seeders \cup {NoFile}]
      /\ path \in Seeders \cup {NoFile}
  BY DEF TypeOK
<1>1. ASSUME NEW s \in Seeders, RemoveIndex(s) PROVE Named'
  <2>1. pc'[s] = "open" /\ fd' = fd /\ path' \in {NoFile, path}
    BY <1>0, <1>1 DEF RemoveIndex
  <2> QED
    BY <2>1 DEF Named
<1>2. ASSUME NEW s \in Seeders, OpenIndex(s) PROVE Named'
  <2>1. pc[s] = "open" /\ fd[s] = NoFile
    BY <1>2 DEF OpenIndex, Files, BeforeOpen
  <2>2. path' # NoFile
    BY <1>2 DEF OpenIndex
  <2>3. fd'[path'] = path'
    <3>1. CASE path = NoFile
      BY <1>0, <1>2, <3>1 DEF OpenIndex
    <3>2. CASE path # NoFile
      <4>1. path # s /\ path \in Seeders
        BY <1>0, <2>1, <3>2 DEF Named
      <4> QED
        BY <1>0, <1>2, <3>2, <4>1 DEF OpenIndex, Named
    <3> QED
      BY <3>1, <3>2
  <2> QED
    BY <2>2, <2>3 DEF Named
<1>3. ASSUME NEW s \in Seeders,
             StartSeed(s) \/ BeginBlob(s) \/ EndBlob(s) \/ LockIndex(s) \/ PutArtifact(s)
             \/ Commit(s) \/ Close(s) \/ Die(s)
      PROVE  Named'
  <2>1. path' = path /\ fd' = fd
    BY <1>3 DEF StartSeed, BeginBlob, EndBlob, LockIndex, PutArtifact, Commit, Close, Die
  <2>2. \A t \in Seeders : t # s => pc'[t] = pc[t]
    BY <1>0, <1>3 DEF StartSeed, BeginBlob, EndBlob, LockIndex, PutArtifact, Commit, Close, Die
  <2>3. pc[s] \in {"open", "dead"} => pc'[s] \in {"open", "dead"}
    BY <1>0, <1>3 DEF StartSeed, BeginBlob, EndBlob, LockIndex, PutArtifact, Commit, Close, Die,
                      Filling
  <2>4. pc[s] \in {"idle", "config", "remove"} => pc'[s] \in {"idle", "config", "remove", "dead"}
    BY <1>0, <1>3 DEF StartSeed, BeginBlob, EndBlob, LockIndex, PutArtifact, Commit, Close, Die,
                      Filling
  <2> QED
    BY <2>1, <2>2, <2>3, <2>4 DEF Named
<1>4. CASE ServerNext \/ UNCHANGED vars
  BY <1>4 DEF ServerNext, OpenServer, LockServer, StopServer, vars, seedVars, Named
<1> QED
  BY <1>1, <1>2, <1>3, <1>4 DEF Next, SeedNext, SeedStep

(***************************************************************************)
(* QuietIsPublished: when every seed process that was started has finished *)
(* and one has, index.db names an index that one of them committed.        *)
(***************************************************************************)
THEOREM QuietIsPublished == Spec => []QuietMeansPublished
<1>1. Init => Named
  BY InitNamed
<1>2. Typed /\ Named /\ [Next]_vars => Named'
  BY NextNamed
<1>3. Typed /\ Named => QuietMeansPublished
  <2> SUFFICES ASSUME TypeOK, Files, Named,
                      \A s \in Seeders : pc[s] \in {"idle", "done"},
                      NEW t \in Seeders, pc[t] = "done"
               PROVE  path # NoFile /\ kind[path] = "db" /\ Committed(path) # {}
    BY DEF Typed, QuietMeansPublished
  <2>1. path # NoFile
    BY DEF Named
  <2>2. path \in Seeders /\ fd[path] = path
    BY <2>1 DEF TypeOK, Named
  <2>3. pc[path] = "done"
    BY <2>2, NoFileAssumption DEF Files, BeforeOpen
  <2>4. kind[path] = "db"
    BY <2>2, <2>3 DEF Files
  <2>5. path \in Committed(path)
    BY <2>2, <2>3 DEF Committed
  <2> QED
    BY <2>1, <2>4, <2>5
<1> QED
  BY <1>1, <1>2, <1>3, Typing, PTL DEF Spec
-----------------------------------------------------------------------------
(***************************************************************************)
(* SeedStore implements Snapshots.  First what one more artifact adds to   *)
(* SeededIndex.                                                            *)
(***************************************************************************)
IsMap(f) == f = [x \in DOMAIN f |-> f[x]]

LEMMA TaggedMore ==
  ASSUME NEW s, NEW n \in Nat, NEW key
  PROVE  /\ key \in tagKeys(Artifacts[s][n + 1]) => Tagged(s, n + 1, key) = {n + 1}
         /\ key \notin tagKeys(Artifacts[s][n + 1]) => Tagged(s, n + 1, key) = Tagged(s, n, key)
<1> DEFINE Has(m) == key \in tagKeys(Artifacts[s][m])
<1>1. \A k \in Nat : Tagged(s, k, key) = {m \in 1..k : Has(m) /\ \A later \in m + 1 .. k : ~Has(later)}
  BY DEF Tagged
<1> HIDE DEF Has
<1>2. ASSUME Has(n + 1) PROVE Tagged(s, n + 1, key) = {n + 1}
  BY <1>1, <1>2
<1>3. ASSUME ~Has(n + 1) PROVE Tagged(s, n + 1, key) = Tagged(s, n, key)
  BY <1>1, <1>3
<1> QED
  BY <1>2, <1>3 DEF Has

LEMMA StoredMore ==
  ASSUME NEW s, NEW n \in Nat, NEW d
  PROVE  /\ d = manifestDigest(Artifacts[s][n + 1]) => Stored(s, n + 1, d) = {n + 1}
         /\ d # manifestDigest(Artifacts[s][n + 1]) => Stored(s, n + 1, d) = Stored(s, n, d)
<1> DEFINE Has(m) == d = manifestDigest(Artifacts[s][m])
<1>1. \A k \in Nat : Stored(s, k, d) = {m \in 1..k : Has(m) /\ \A later \in m + 1 .. k : ~Has(later)}
  BY DEF Stored
<1> HIDE DEF Has
<1>2. ASSUME Has(n + 1) PROVE Stored(s, n + 1, d) = {n + 1}
  BY <1>1, <1>2
<1>3. ASSUME ~Has(n + 1) PROVE Stored(s, n + 1, d) = Stored(s, n, d)
  BY <1>1, <1>3
<1> QED
  BY <1>2, <1>3 DEF Has

\* The tags after one more artifact are those before, and its own put over them.
LEMMA SeededTagsMore ==
  ASSUME NEW s, NEW n \in Nat, NEW tags
  PROVE  LET a == Artifacts[s][n + 1]
         IN SeededTags(s, n + 1, tags) = Put(SeededTags(s, n, tags), tagKeys(a), manifestDigest(a))
<1> DEFINE a == Artifacts[s][n + 1]
           D(k) == DOMAIN tags \cup UNION {tagKeys(Artifacts[s][m]) : m \in 1..k}
           V(k, key) == IF Tagged(s, k, key) = {} THEN tags[key]
                        ELSE manifestDigest(Artifacts[s][The(Tagged(s, k, key))])
<1>1. 1 .. n + 1 = (1..n) \cup {n + 1}
  OBVIOUS
<1>2. D(n + 1) = D(n) \cup tagKeys(a)
  BY <1>1
<1>3. ASSUME NEW key \in D(n + 1)
      PROVE  V(n + 1, key) = IF key \in tagKeys(a) THEN manifestDigest(a) ELSE V(n, key)
  <2>1. CASE key \in tagKeys(a)
    <3>1. Tagged(s, n + 1, key) = {n + 1}
      BY <2>1, TaggedMore
    <3>2. The({n + 1}) = n + 1
      BY DEF The
    <3> QED
      BY <2>1, <3>1, <3>2
  <2>2. CASE key \notin tagKeys(a)
    <3>1. Tagged(s, n + 1, key) = Tagged(s, n, key)
      BY <2>2, TaggedMore
    <3> QED
      BY <2>2, <3>1
  <2> QED
    BY <2>1, <2>2
<1>4. \A k \in Nat : SeededTags(s, k, tags) = [key \in D(k) |-> V(k, key)]
  BY DEF SeededTags
<1> HIDE DEF D, V, a
<1>5. Put(SeededTags(s, n, tags), tagKeys(a), manifestDigest(a)) =
        [key \in D(n) \cup tagKeys(a) |-> IF key \in tagKeys(a) THEN manifestDigest(a) ELSE V(n, key)]
  <2>1. SeededTags(s, n, tags) = [key \in D(n) |-> V(n, key)]
    BY <1>4
  <2> QED
    BY <2>1 DEF Put
<1>6. SeededTags(s, n + 1, tags) = [key \in D(n + 1) |-> V(n + 1, key)]
  BY <1>4
<1>7. [key \in D(n + 1) |-> V(n + 1, key)] =
        [key \in D(n + 1) |-> IF key \in tagKeys(a) THEN manifestDigest(a) ELSE V(n, key)]
  BY <1>3
<1> QED
  BY <1>2, <1>5, <1>6, <1>7 DEF a

LEMMA SeededManifestsMore ==
  ASSUME NEW s, NEW n \in Nat, NEW manifests
  PROVE  LET a == Artifacts[s][n + 1]
         IN SeededManifests(s, n + 1, manifests) =
              Put(SeededManifests(s, n, manifests), {manifestDigest(a)}, manifest(a))
<1> DEFINE a == Artifacts[s][n + 1]
           K == {manifestDigest(a)}
           D(k) == DOMAIN manifests \cup {manifestDigest(Artifacts[s][m]) : m \in 1..k}
           V(k, d) == IF Stored(s, k, d) = {} THEN manifests[d]
                      ELSE manifest(Artifacts[s][The(Stored(s, k, d))])
<1>1. 1 .. n + 1 = (1..n) \cup {n + 1}
  OBVIOUS
<1>2. D(n + 1) = D(n) \cup K
  BY <1>1
<1>3. ASSUME NEW d \in D(n + 1)
      PROVE  V(n + 1, d) = IF d \in K THEN manifest(a) ELSE V(n, d)
  <2>1. CASE d \in K
    <3>1. Stored(s, n + 1, d) = {n + 1}
      BY <2>1, StoredMore
    <3>2. The({n + 1}) = n + 1
      BY DEF The
    <3> QED
      BY <2>1, <3>1, <3>2
  <2>2. CASE d \notin K
    <3>1. Stored(s, n + 1, d) = Stored(s, n, d)
      BY <2>2, StoredMore
    <3> QED
      BY <2>2, <3>1
  <2> QED
    BY <2>1, <2>2
<1>4. \A k \in Nat : SeededManifests(s, k, manifests) = [d \in D(k) |-> V(k, d)]
  BY DEF SeededManifests
<1> HIDE DEF D, V, K, a
<1>5. Put(SeededManifests(s, n, manifests), K, manifest(a)) =
        [d \in D(n) \cup K |-> IF d \in K THEN manifest(a) ELSE V(n, d)]
  <2>1. SeededManifests(s, n, manifests) = [d \in D(n) |-> V(n, d)]
    BY <1>4
  <2> QED
    BY <2>1 DEF Put
<1>6. SeededManifests(s, n + 1, manifests) = [d \in D(n + 1) |-> V(n + 1, d)]
  BY <1>4
<1>7. [d \in D(n + 1) |-> V(n + 1, d)] =
        [d \in D(n + 1) |-> IF d \in K THEN manifest(a) ELSE V(n, d)]
  BY <1>3
<1> QED
  BY <1>2, <1>5, <1>6, <1>7 DEF a, K

\* No artifact adds nothing, if the buckets are maps.
LEMMA SeededNothing ==
  ASSUME NEW s, NEW idx, idx = [tags |-> idx.tags, manifests |-> idx.manifests],
         IsMap(idx.tags), IsMap(idx.manifests)
  PROVE  SeededIndex(s, 0, idx) = idx
<1>1. 1..0 = {}
  OBVIOUS
<1>2. (\A key : Tagged(s, 0, key) = {}) /\ (\A d : Stored(s, 0, d) = {})
  BY <1>1 DEF Tagged, Stored
<1>3. SeededTags(s, 0, idx.tags) = [key \in DOMAIN idx.tags |-> idx.tags[key]]
  BY <1>1, <1>2 DEF SeededTags
<1>4. SeededManifests(s, 0, idx.manifests) = [d \in DOMAIN idx.manifests |-> idx.manifests[d]]
  BY <1>1, <1>2 DEF SeededManifests
<1>5. SeededTags(s, 0, idx.tags) = idx.tags /\ SeededManifests(s, 0, idx.manifests) = idx.manifests
  BY <1>3, <1>4 DEF IsMap
<1> QED
  BY <1>5, Zenon DEF SeededIndex

LEMMA SeededMaps ==
  ASSUME NEW s, NEW n \in Nat, NEW idx
  PROVE  /\ IsMap(SeededIndex(s, n, idx).tags)
         /\ IsMap(SeededIndex(s, n, idx).manifests)
BY DEF IsMap, SeededIndex, SeededTags, SeededManifests

-----------------------------------------------------------------------------
(***************************************************************************)
(* A transaction is, between any two of its Puts, what the artifacts put   *)
(* so far make of the index that it began with, and that index stays as it *)
(* is, since the process has it locked.                                    *)
(***************************************************************************)
Maps == \A i \in Seeders : IsMap(index[i].tags) /\ IsMap(index[i].manifests)

Folding ==
  \A s \in Seeders : pc[s] = "fill" => tx[s] = SeededIndex(s, art[s] - 1, index[fd[s]])

Serial == Maps /\ Folding

LEMMA InitSerial == Init => Serial
<1> SUFFICES ASSUME Init PROVE Serial
  OBVIOUS
<1>1. IsMap(EmptyIndex.tags) /\ IsMap(EmptyIndex.manifests)
  BY DEF IsMap, EmptyIndex, EmptyBucket
<1>2. \A i \in Seeders : index[i] = EmptyIndex
  BY Zenon DEF Init
<1>3. \A s \in Seeders : pc[s] # "fill"
  BY DEF Init
<1> QED
  BY <1>1, <1>2, <1>3 DEF Serial, Maps, Folding

\* Nothing changes while indexes stay, and those transactions that go on.
LEMMA SerialKept ==
  ASSUME Serial, index' = index,
         \A t \in Seeders : pc'[t] = "fill" =>
           pc[t] = "fill" /\ tx'[t] = tx[t] /\ art'[t] = art[t] /\ fd'[t] = fd[t]
  PROVE  Serial'
BY DEF Serial, Maps, Folding

LEMMA NextSerial == Typed /\ Locks /\ Fresh /\ Serial /\ [Next]_vars => Serial'
<1> SUFFICES ASSUME TypeOK, Files, Locks, Fresh, Serial, [Next]_vars PROVE Serial'
  BY DEF Typed
<1> USE NoFileAssumption
<1>0. /\ pc \in [Seeders -> SeedPC] /\ fd \in [Seeders -> Seeders \cup {NoFile}]
      /\ art \in [Seeders -> Nat \ {0}]
      /\ index = [i \in Seeders |-> index[i]] /\ tx = [s \in Seeders |-> tx[s]]
      /\ \A i \in Seeders : index[i] = [tags |-> index[i].tags, manifests |-> index[i].manifests]
  BY DEF TypeOK, IsIndex
<1>1. ASSUME NEW s \in Seeders, LockIndex(s) PROVE Serial'
  <2>1. PICK j \in Seeders : fd[s] = j
    BY <1>0, <1>1 DEF LockIndex, Files, BeforeOpen
  <2>2. /\ index' = index /\ art' = art /\ fd' = fd
        /\ tx' = [tx EXCEPT ![s] = index[j]] /\ pc' = [pc EXCEPT ![s] = "fill"]
    BY <1>1, <2>1 DEF LockIndex
  <2>3. art[s] - 1 = 0
    BY <1>1 DEF LockIndex, Fresh
  <2>4. SeededIndex(s, 0, index[j]) = index[j]
    BY <1>0, SeededNothing DEF Serial, Maps
  <2>5. tx'[s] = SeededIndex(s, art'[s] - 1, index'[fd'[s]])
    BY <1>0, <2>1, <2>2, <2>3, <2>4
  <2>6. ASSUME NEW t \in Seeders, t # s, pc'[t] = "fill"
        PROVE  tx'[t] = SeededIndex(t, art'[t] - 1, index'[fd'[t]])
    BY <1>0, <2>2, <2>6 DEF Serial, Folding
  <2> QED
    BY <2>2, <2>5, <2>6 DEF Serial, Maps, Folding
<1>2. ASSUME NEW s \in Seeders, PutArtifact(s) PROVE Serial'
  <2> DEFINE a == Artifacts[s][art[s]]
             n == art[s] - 1
             idx == index[fd[s]]
  <2>1. /\ index' = index /\ fd' = fd /\ pc' = pc /\ pc[s] = "fill"
        /\ art' = [art EXCEPT ![s] = @ + 1]
        /\ tx' = [tx EXCEPT ![s] =
                    [tags      |-> Put(tx[s].tags, tagKeys(a), manifestDigest(a)),
                     manifests |-> Put(tx[s].manifests, {manifestDigest(a)}, manifest(a))]]
    BY <1>0, <1>2 DEF PutArtifact, Filling, Artifact
  <2>2. n \in Nat /\ n + 1 = art[s] /\ art'[s] - 1 = n + 1
    BY <1>0, <2>1
  <2>3. tx[s] = SeededIndex(s, n, idx)
    BY <2>1 DEF Serial, Folding
  <2>4. /\ tx[s].tags = SeededTags(s, n, idx.tags)
        /\ tx[s].manifests = SeededManifests(s, n, idx.manifests)
    BY <2>3 DEF SeededIndex
  <2>5. tx'[s] = [tags      |-> Put(tx[s].tags, tagKeys(a), manifestDigest(a)),
                  manifests |-> Put(tx[s].manifests, {manifestDigest(a)}, manifest(a))]
    BY <1>0, <2>1
  <2> HIDE DEF n, idx
  <2>6. /\ SeededTags(s, n + 1, idx.tags) = Put(tx[s].tags, tagKeys(a), manifestDigest(a))
        /\ SeededManifests(s, n + 1, idx.manifests) =
             Put(tx[s].manifests, {manifestDigest(a)}, manifest(a))
    BY <2>2, <2>4, SeededTagsMore, SeededManifestsMore
  <2>7. tx'[s] = SeededIndex(s, n + 1, idx)
    BY <2>5, <2>6 DEF SeededIndex
  <2>8. tx'[s] = SeededIndex(s, art'[s] - 1, index'[fd'[s]])
    BY <2>1, <2>2, <2>7 DEF idx
  <2>9. ASSUME NEW t \in Seeders, t # s, pc'[t] = "fill"
        PROVE  tx'[t] = SeededIndex(t, art'[t] - 1, index'[fd'[t]])
    BY <1>0, <2>1, <2>9 DEF Serial, Folding
  <2> QED
    BY <2>1, <2>8, <2>9 DEF Serial, Maps, Folding
<1>3. ASSUME NEW s \in Seeders, Commit(s) PROVE Serial'
  <2>1. PICK j \in Seeders : fd[s] = j
    BY <1>0, <1>3 DEF Commit, Files, BeforeOpen
  <2>2. /\ index' = [index EXCEPT ![j] = tx[s]] /\ fd' = fd /\ tx' = tx /\ art' = art
        /\ pc' = [pc EXCEPT ![s] = "close"] /\ pc[s] = "fill"
    BY <1>3, <2>1 DEF Commit
  <2>3. IsMap(tx[s].tags) /\ IsMap(tx[s].manifests)
    <3>1. art[s] - 1 \in Nat
      BY <1>0
    <3>2. tx[s] = SeededIndex(s, art[s] - 1, index[fd[s]])
      BY <2>2 DEF Serial, Folding
    <3> QED
      BY <3>1, <3>2, SeededMaps
  <2>4. \A i \in Seeders : index'[i] = IF i = j THEN tx[s] ELSE index[i]
    BY <1>0, <2>2
  <2>5. Maps'
    BY <2>3, <2>4 DEF Serial, Maps
  <2>6. ASSUME NEW t \in Seeders, pc'[t] = "fill"
        PROVE  tx'[t] = SeededIndex(t, art'[t] - 1, index'[fd'[t]])
    <3>1. t # s /\ pc[t] = "fill"
      BY <1>0, <2>2, <2>6
    <3>2. fd[t] # j
      BY <2>1, <2>2, <3>1 DEF Locks, Locked
    <3>3. index'[fd[t]] = index[fd[t]]
      BY <1>0, <2>2, <3>2
    <3> QED
      BY <2>2, <3>1, <3>3 DEF Serial, Folding
  <2> QED
    BY <2>5, <2>6 DEF Serial, Folding
<1>4. ASSUME NEW s \in Seeders,
             \/ StartSeed(s) \/ BeginBlob(s) \/ EndBlob(s) \/ RemoveIndex(s)
             \/ OpenIndex(s) \/ Close(s) \/ Die(s)
      PROVE  Serial'
  <2>1. index' = index /\ tx' = tx /\ art' = art
    BY <1>4 DEF StartSeed, BeginBlob, EndBlob, RemoveIndex, OpenIndex, Close, Die
  <2>2. \A t \in Seeders : pc'[t] = "fill" => pc[t] = "fill" /\ fd'[t] = fd[t]
    BY <1>0, <1>4 DEF StartSeed, BeginBlob, EndBlob, RemoveIndex, OpenIndex, Close, Die
  <2> QED
    BY <2>1, <2>2, SerialKept
<1>5. ASSUME NEW v \in Servers, OpenServer(v) \/ LockServer(v) \/ StopServer(v) PROVE Serial'
  BY <1>5, SerialKept DEF OpenServer, LockServer, StopServer, seedVars
<1>6. CASE UNCHANGED vars
  BY <1>6, SerialKept DEF vars, seedVars
<1> QED
  BY <1>1, <1>2, <1>3, <1>4, <1>5, <1>6 DEF Next, SeedNext, SeedStep, ServerNext

\* Serial holds in every reachable state.
LEMMA Serially == Spec => []Serial
<1>1. Typed /\ Locks /\ Fresh /\ Serial /\ [Next]_vars => Serial'
  BY NextSerial
<1>2. Spec => []Fresh
  <2>1. Init => Fresh
    BY InitSteady DEF Steady
  <2>2. Typed /\ Fresh /\ [Next]_vars => Fresh'
    BY NextFresh
  <2> QED
    BY <2>1, <2>2, Typing, PTL DEF Spec
<1> QED
  BY <1>1, <1>2, InitSerial, Typing, Locking, PTL DEF Spec

-----------------------------------------------------------------------------
(***************************************************************************)
(* Every step of SeedStore is one of Snapshots or changes nothing there:   *)
(* Commit publishes, LockServer opens, StopServer leaves.                  *)
(***************************************************************************)
LEMMA InitSnapshots == Init => Registry!Init
<1> SUFFICES ASSUME Init PROVE Registry!Init
  OBVIOUS
<1>1. Published = {}
  BY DEF Init, Published
<1>2. Opened = [v \in Servers |-> NoFile]
  BY DEF Init, Opened
<1>3. index = [i \in Seeders |-> EmptyIndex]
  BY DEF Init
<1> QED
  BY <1>1, <1>2, <1>3 DEF Registry!Init

LEMMA StepSnapshots ==
  Typed /\ Locks /\ Serial /\ [Next]_vars => [Registry!Next]_(Registry!vars)
<1> SUFFICES ASSUME TypeOK, Files, Locks, Serial, [Next]_vars
             PROVE  Registry!Next \/ (index' = index /\ Opened' = Opened /\ Published' = Published)
  BY DEF Typed, Registry!vars
<1> USE NoFileAssumption
<1>0. /\ pc \in [Seeders -> SeedPC] /\ fd \in [Seeders -> Seeders \cup {NoFile}]
      /\ art \in [Seeders -> Nat \ {0}] /\ index = [i \in Seeders |-> index[i]]
      /\ spc \in [Servers -> ServerPC] /\ sfd \in [Servers -> Seeders \cup {NoFile}]
  BY DEF TypeOK
<1>1. ASSUME NEW s \in Seeders, Commit(s) PROVE Registry!Next
  <2>1. PICK j \in Seeders : fd[s] = j
    BY <1>0, <1>1 DEF Commit, Files, BeforeOpen
  <2>2. /\ index' = [index EXCEPT ![j] = tx[s]] /\ spc' = spc /\ sfd' = sfd
        /\ pc' = [pc EXCEPT ![s] = "close"] /\ pc[s] = "fill"
    BY <1>1, <2>1 DEF Commit, serverVars
  <2>3. tx[s] = SeedOver(s, index[j])
    <3>1. art[s] - 1 = Len(Artifacts[s])
      BY <1>1, ArtifactsAssumption DEF Commit
    <3> QED
      BY <2>1, <2>2, <3>1 DEF Serial, Folding, SeedOver
  <2>4. s \notin Published /\ Published' = Published \cup {s}
    BY <1>0, <2>2 DEF Published
  <2>5. Opened' = Opened
    BY <2>2 DEF Opened
  <2>6. \A v \in Servers : Opened[v] # j
    BY <2>1, <2>2 DEF Opened, Locks, Locked
  <2>7. Registry!Publish(s, j)
    BY <2>2, <2>3, <2>4, <2>5, <2>6 DEF Registry!Publish
  <2> QED
    BY <2>7 DEF Registry!Next
<1>2. ASSUME NEW s \in Seeders,
             \/ StartSeed(s) \/ BeginBlob(s) \/ EndBlob(s) \/ RemoveIndex(s)
             \/ OpenIndex(s) \/ LockIndex(s) \/ PutArtifact(s) \/ Close(s) \/ Die(s)
      PROVE  index' = index /\ Opened' = Opened /\ Published' = Published
  <2>1. index' = index /\ spc' = spc /\ sfd' = sfd
    BY <1>2 DEF StartSeed, BeginBlob, EndBlob, RemoveIndex, OpenIndex, LockIndex, PutArtifact,
                Close, Die, serverVars
  <2>2. \A t \in Seeders : pc'[t] \in {"close", "done"} <=> pc[t] \in {"close", "done"}
    BY <1>0, <1>2 DEF StartSeed, BeginBlob, EndBlob, RemoveIndex, OpenIndex, LockIndex,
                      PutArtifact, Filling, Close, Die
  <2> QED
    BY <2>1, <2>2 DEF Opened, Published
<1>3. ASSUME NEW v \in Servers, OpenServer(v)
      PROVE  index' = index /\ Opened' = Opened /\ Published' = Published
  <2>1. index' = index /\ pc' = pc
    BY <1>3 DEF OpenServer, seedVars
  <2>2. ASSUME NEW w \in Servers PROVE Opened'[w] = Opened[w]
    BY <1>0, <1>3 DEF OpenServer, Opened
  <2> QED
    BY <2>1, <2>2 DEF Opened, Published
<1>4. ASSUME NEW v \in Servers, LockServer(v)
      PROVE  Registry!Next \/ (index' = index /\ Opened' = Opened /\ Published' = Published)
  <2>1. index' = index /\ pc' = pc /\ sfd' = sfd /\ Opened[v] = NoFile
    BY <1>4 DEF LockServer, seedVars, Opened
  <2>2. Published' = Published
    BY <2>1 DEF Published
  <2>3. CASE spc' = [spc EXCEPT ![v] = "up"]
    <3>1. sfd[v] \in Seeders
      BY <1>0, <1>4 DEF LockServer, Files
    <3>2. Opened' = [Opened EXCEPT ![v] = sfd[v]]
      BY <1>0, <2>1, <2>3 DEF Opened
    <3>3. Registry!Open(v, sfd[v])
      BY <2>1, <2>2, <3>2 DEF Registry!Open
    <3> QED
      BY <3>1, <3>3 DEF Registry!Next
  <2>4. CASE spc' = [spc EXCEPT ![v] = "failed"]
    <3>1. Opened' = Opened
      BY <1>0, <1>4, <2>1, <2>4 DEF LockServer, Opened
    <3> QED
      BY <2>1, <2>2, <3>1
  <2> QED
    BY <1>4, <2>3, <2>4 DEF LockServer
<1>5. ASSUME NEW v \in Servers, StopServer(v) PROVE Registry!Next
  <2>1. index' = index /\ pc' = pc
    BY <1>5 DEF StopServer, seedVars
  <2>2. Opened' = [Opened EXCEPT ![v] = NoFile]
    BY <1>0, <1>5 DEF StopServer, Opened
  <2>3. Published' = Published
    BY <2>1 DEF Published
  <2>4. Registry!Leave(v)
    BY <2>1, <2>2, <2>3 DEF Registry!Leave
  <2> QED
    BY <2>4 DEF Registry!Next
<1>6. CASE UNCHANGED vars
  BY <1>6 DEF vars, seedVars, serverVars, Opened, Published
<1> QED
  BY <1>1, <1>2, <1>3, <1>4, <1>5, <1>6 DEF Next, SeedNext, SeedStep, ServerNext

(***************************************************************************)
(* StoreImplementsSnapshots: to its readers the storage root is a registry *)
(* of whole seeds, whatever its processes do to one another                *)
(* (hack/seed/main.go 248-330, cmd/compass/main.go 87).                    *)
(***************************************************************************)
THEOREM StoreImplementsSnapshots == Spec => ImplementsSnapshots
BY InitSnapshots, StepSnapshots, Typing, Locking, Serially, PTL
   DEF Spec, ImplementsSnapshots, Registry!Spec
=============================================================================
