----------------------------- MODULE SeedStore -----------------------------
(***************************************************************************)
(* The storage root that the OCI registry serves: a directory of blobs     *)
(* named by their sha256 digest, beside a bbolt index "index.db".  Seed    *)
(* processes (hack/seed/main.go) write it; compass processes               *)
(* (cmd/compass/main.go) open the index read-only and hold it open for     *)
(* their whole life.  Only the file system and bbolt's file lock           *)
(* coordinate them, so every interleaving of the steps below, and the      *)
(* death of a seed process between any two of them, is a behaviour.        *)
(*                                                                         *)
(* A seed process opens the index once, so the index file it may create is *)
(* named after it: an inode is a member of Seeders.  The path "index.db"   *)
(* names one inode or none; a removed inode lives on in its open files.    *)
(***************************************************************************)
EXTENDS SeedArtifacts

CONSTANTS
  Servers,      \* compass processes given this storage root
  NoFile        \* no inode

ASSUME NoFileAssumption == NoFile \notin Seeders

-----------------------------------------------------------------------------
VARIABLES
  blob,     \* blob[d]: the file of digest d: absent, torn (truncated by
            \* os.WriteFile and not yet written) or whole
  path,     \* the inode that "index.db" names, or NoFile
  kind,     \* kind[i]: free, blank (created, no bbolt pages) or db
  index,    \* index[i]: what the last committed transaction left in i
  pc,       \* pc[s]: where the seed process s is
  art,      \* art[s]: the artifact it is at
  item,     \* item[s]: the blob of that artifact it is at
  writing,  \* writing[s]: the blob it is inside os.WriteFile of, or NoBlob;
            \* kept when it dies
  fd,       \* fd[s]: the inode it opened, or NoFile
  tx,       \* tx[s]: its uncommitted read-write transaction
  spc,      \* spc[v]: down, lock (waiting in bolt.Open), up or failed
  sfd       \* sfd[v]: the inode the server v opened, or NoFile

seedVars == <<pc, art, item, writing, fd, tx>>
serverVars == <<spc, sfd>>
vars == <<blob, path, kind, index, seedVars, serverVars>>

SeedPC == {"idle", "config", "remove", "open", "lock", "fill", "close", "done", "dead"}
ServerPC == {"down", "lock", "up", "failed"}

IsIndex(idx) ==
  /\ idx = [tags |-> idx.tags, manifests |-> idx.manifests]
  /\ DOMAIN idx.tags \subseteq TagKeys
  /\ \A k \in DOMAIN idx.tags : idx.tags[k] \in Digests
  /\ DOMAIN idx.manifests \subseteq Digests
  /\ \A d \in DOMAIN idx.manifests : References(idx.manifests[d]) \subseteq Digests

(***************************************************************************)
(* TypeOK: every variable has its type; an index only ever holds keys and  *)
(* digests that some seed process computes (hack/seed/main.go 248-326).    *)
(***************************************************************************)
TypeOK ==
  /\ blob \in [Digests -> {"absent", "torn", "whole"}]
  /\ path \in Seeders \cup {NoFile}
  /\ kind \in [Seeders -> {"free", "blank", "db"}]
  /\ index = [i \in Seeders |-> index[i]]
  /\ \A i \in Seeders : IsIndex(index[i])
  /\ pc \in [Seeders -> SeedPC]
  /\ art \in [Seeders -> Nat \ {0}]
  /\ item \in [Seeders -> Nat \ {0}]
  /\ \A s \in Seeders : art[s] <= Len(Artifacts[s]) + 1
  /\ writing \in [Seeders -> Digests \cup {NoBlob}]
  /\ fd \in [Seeders -> Seeders \cup {NoFile}]
  /\ tx = [s \in Seeders |-> tx[s]]
  /\ \A s \in Seeders : IsIndex(tx[s])
  /\ spc \in [Servers -> ServerPC]
  /\ sfd \in [Servers -> Seeders \cup {NoFile}]

Init ==
  /\ blob = [d \in Digests |-> "absent"]
  /\ path = NoFile
  /\ kind = [i \in Seeders |-> "free"]
  /\ index = [i \in Seeders |-> EmptyIndex]
  /\ pc = [s \in Seeders |-> "idle"]
  /\ art = [s \in Seeders |-> 1]
  /\ item = [s \in Seeders |-> 1]
  /\ writing = [s \in Seeders |-> NoBlob]
  /\ fd = [s \in Seeders |-> NoFile]
  /\ tx = [s \in Seeders |-> EmptyIndex]
  /\ spc = [v \in Servers |-> "down"]
  /\ sfd = [v \in Servers |-> NoFile]

-----------------------------------------------------------------------------
(***************************************************************************)
(* The seed process.                                                       *)
(***************************************************************************)
StartSeed(s) ==
  /\ pc[s] = "idle"
  /\ pc' = [pc EXCEPT ![s] = "config"]
  /\ UNCHANGED <<blob, path, kind, index, art, item, writing, fd, tx, serverVars>>

Filling(s) == pc[s] = "fill" /\ art[s] <= Len(Artifacts[s])
Artifact(s) == Artifacts[s][art[s]]

\* Mutant: the manifest's own blob is not written.
BlobsLeft_LayersOnly(s) == item[s] < Len(WriteList(Artifact(s)))

BlobsLeft(s) == item[s] <= Len(WriteList(Artifact(s)))

\* The blob that s is to write next.
NextBlob(s) == IF pc[s] = "config" THEN EmptyConfigDigest
                                   ELSE WriteList(Artifact(s))[item[s]]

\* Mutant: the old file is removed and a new one created.
BeginBlob_Removes(s) ==
  /\ pc[s] = "config" \/ (Filling(s) /\ BlobsLeft(s))
  /\ writing[s] = NoBlob
  /\ blob' = [blob EXCEPT ![NextBlob(s)] = "absent"]
  /\ writing' = [writing EXCEPT ![s] = NextBlob(s)]
  /\ UNCHANGED <<path, kind, index, pc, art, item, fd, tx, serverVars>>

\* Mutant: a blob whose file is there is not written again.
BeginBlob_SkipsExisting(s) ==
  /\ pc[s] = "config" \/ (Filling(s) /\ BlobsLeft(s))
  /\ writing[s] = NoBlob
  /\ \/ /\ blob[NextBlob(s)] = "absent"
        /\ blob' = [blob EXCEPT ![NextBlob(s)] = "torn"]
        /\ writing' = [writing EXCEPT ![s] = NextBlob(s)]
        /\ UNCHANGED <<pc, item>>
     \/ /\ blob[NextBlob(s)] # "absent"
        /\ IF pc[s] = "config"
             THEN pc' = [pc EXCEPT ![s] = "remove"] /\ UNCHANGED item
             ELSE item' = [item EXCEPT ![s] = @ + 1] /\ UNCHANGED pc
        /\ UNCHANGED <<blob, writing>>
  /\ UNCHANGED <<path, kind, index, art, fd, tx, serverVars>>

\* Mutant: a torn file is taken for one that somebody is about to finish.
BeginBlob_AwaitsWriter(s) ==
  /\ pc[s] = "config" \/ (Filling(s) /\ BlobsLeft(s))
  /\ writing[s] = NoBlob
  /\ blob[NextBlob(s)] # "torn"
  /\ blob' = [blob EXCEPT ![NextBlob(s)] = "torn"]
  /\ writing' = [writing EXCEPT ![s] = NextBlob(s)]
  /\ UNCHANGED <<path, kind, index, pc, art, item, fd, tx, serverVars>>

(***************************************************************************)
(* writeBlob is os.WriteFile on the blob's own path: the file is truncated *)
(* in place when it is opened, and holds its content again once written.   *)
(***************************************************************************)
BeginBlob(s) ==
  /\ pc[s] = "config" \/ (Filling(s) /\ BlobsLeft(s))
  /\ writing[s] = NoBlob
  /\ blob' = [blob EXCEPT ![NextBlob(s)] = "torn"]
  /\ writing' = [writing EXCEPT ![s] = NextBlob(s)]
  /\ UNCHANGED <<path, kind, index, pc, art, item, fd, tx, serverVars>>

EndBlob(s) ==
  /\ pc[s] \in {"config", "fill"}
  /\ writing[s] # NoBlob
  /\ blob' = [blob EXCEPT ![writing[s]] = "whole"]
  /\ writing' = [writing EXCEPT ![s] = NoBlob]
  /\ IF pc[s] = "config"
       THEN pc' = [pc EXCEPT ![s] = "remove"] /\ UNCHANGED item
       ELSE item' = [item EXCEPT ![s] = @ + 1] /\ UNCHANGED pc
  /\ UNCHANGED <<path, kind, index, art, fd, tx, serverVars>>

\* os.Remove(dbPath): its error is dropped, so the file may also stay.
RemoveIndex(s) ==
  /\ pc[s] = "remove"
  /\ path' \in {NoFile, path}
  /\ pc' = [pc EXCEPT ![s] = "open"]
  /\ UNCHANGED <<blob, kind, index, art, item, writing, fd, tx, serverVars>>

\* Mutant: os.Remove comes after bolt.Open.
OpenIndex_ThenRemove(s) ==
  /\ pc[s] = "open"
  /\ pc' = [pc EXCEPT ![s] = "lock"]
  /\ path' = NoFile
  /\ fd' = [fd EXCEPT ![s] = IF path = NoFile THEN s ELSE path]
  /\ kind' = IF path = NoFile THEN [kind EXCEPT ![s] = "blank"] ELSE kind
  /\ UNCHANGED <<blob, index, art, item, writing, tx, serverVars>>

\* bolt.Open, its os.OpenFile with O_RDWR and O_CREATE.
OpenIndex(s) ==
  /\ pc[s] = "open"
  /\ pc' = [pc EXCEPT ![s] = "lock"]
  /\ \/ /\ path # NoFile
        /\ fd' = [fd EXCEPT ![s] = path]
        /\ UNCHANGED <<path, kind>>
     \/ /\ path = NoFile
        /\ path' = s
        /\ kind' = [kind EXCEPT ![s] = "blank"]
        /\ fd' = [fd EXCEPT ![s] = s]
  /\ UNCHANGED <<blob, index, art, item, writing, tx, serverVars>>

HoldsExclusive(s, i) == fd[s] = i /\ pc[s] \in {"fill", "close"}

HoldsShared(v, i) == sfd[v] = i /\ spc[v] = "up"

\* Mutant: the transaction makes its buckets anew.
LockIndex_NewBuckets(s) ==
  /\ pc[s] = "lock"
  /\ \A t \in Seeders : ~HoldsExclusive(t, fd[s])
  /\ \A v \in Servers : ~HoldsShared(v, fd[s])
  /\ kind' = [kind EXCEPT ![fd[s]] = "db"]
  /\ tx' = [tx EXCEPT ![s] = EmptyIndex]
  /\ pc' = [pc EXCEPT ![s] = "fill"]
  /\ UNCHANGED <<blob, path, index, art, item, writing, fd, serverVars>>

\* bolt.Open, its exclusive flock, awaited without a time limit; an empty
\* file gets its first pages; then db.Update begins and makes the buckets.
LockIndex(s) ==
  /\ pc[s] = "lock"
  /\ \A t \in Seeders : ~HoldsExclusive(t, fd[s])
  /\ \A v \in Servers : ~HoldsShared(v, fd[s])
  /\ kind' = [kind EXCEPT ![fd[s]] = "db"]
  /\ tx' = [tx EXCEPT ![s] = index[fd[s]]]
  /\ pc' = [pc EXCEPT ![s] = "fill"]
  /\ UNCHANGED <<blob, path, index, art, item, writing, fd, serverVars>>

\* Mutant: the digest goes into the buckets without its "sha256:".
PutArtifact_Bare(s) ==
  /\ Filling(s)
  /\ ~BlobsLeft(s)
  /\ LET a == Artifact(s)
         d == <<Hex(Marshal(manifest(a)))>>
     IN tx' = [tx EXCEPT ![s] = [tags      |-> Put(@.tags, tagKeys(a), d),
                                 manifests |-> Put(@.manifests, {d}, manifest(a))]]
  /\ art' = [art EXCEPT ![s] = @ + 1]
  /\ item' = [item EXCEPT ![s] = 1]
  /\ UNCHANGED <<blob, path, kind, index, pc, writing, fd, serverVars>>

\* Mutant: a tag that is there is left as it is.
PutArtifact_KeepsTags(s) ==
  /\ Filling(s)
  /\ ~BlobsLeft(s)
  /\ LET a == Artifact(s)
         d == manifestDigest(a)
     IN tx' = [tx EXCEPT ![s] =
                 [tags      |-> Put(@.tags, tagKeys(a) \ DOMAIN @.tags, d),
                  manifests |-> Put(@.manifests, {d}, manifest(a))]]
  /\ art' = [art EXCEPT ![s] = @ + 1]
  /\ item' = [item EXCEPT ![s] = 1]
  /\ UNCHANGED <<blob, path, kind, index, pc, writing, fd, serverVars>>

\* The Puts of one artifact, seen by no one before the commit.
PutArtifact(s) ==
  /\ Filling(s)
  /\ ~BlobsLeft(s)
  /\ LET a == Artifact(s)
         d == manifestDigest(a)
     IN tx' = [tx EXCEPT ![s] = [tags      |-> Put(@.tags, tagKeys(a), d),
                                 manifests |-> Put(@.manifests, {d}, manifest(a))]]
  /\ art' = [art EXCEPT ![s] = @ + 1]
  /\ item' = [item EXCEPT ![s] = 1]
  /\ UNCHANGED <<blob, path, kind, index, pc, writing, fd, serverVars>>

\* db.Update returns nil; "Storage root ready" is logged.
Commit(s) ==
  /\ pc[s] = "fill"
  /\ art[s] = Len(Artifacts[s]) + 1
  /\ index' = [index EXCEPT ![fd[s]] = tx[s]]
  /\ pc' = [pc EXCEPT ![s] = "close"]
  /\ UNCHANGED <<blob, path, kind, art, item, writing, fd, tx, serverVars>>

\* The deferred db.Close releases the lock.
Close(s) ==
  /\ pc[s] = "close"
  /\ pc' = [pc EXCEPT ![s] = "done"]
  /\ UNCHANGED <<blob, path, kind, index, art, item, writing, fd, tx, serverVars>>

\* log.Fatalf on an error of any step, or a kill.  The lock goes with the
\* process; its transaction is never seen; a file it truncated stays torn.
Die(s) ==
  /\ pc[s] \in {"config", "remove", "open", "lock", "fill"}
  /\ pc' = [pc EXCEPT ![s] = "dead"]
  /\ UNCHANGED <<blob, path, kind, index, art, item, writing, fd, tx, serverVars>>

-----------------------------------------------------------------------------
(***************************************************************************)
(* The compass process, as far as its index goes.                          *)
(***************************************************************************)
\* bolt.Open with ReadOnly: no O_CREATE, so a missing file is an error and
\* main exits.
OpenServer(v) ==
  /\ spc[v] = "down"
  /\ \/ /\ path = NoFile
        /\ spc' = [spc EXCEPT ![v] = "failed"]
        /\ UNCHANGED sfd
     \/ /\ path # NoFile
        /\ spc' = [spc EXCEPT ![v] = "lock"]
        /\ sfd' = [sfd EXCEPT ![v] = path]
  /\ UNCHANGED <<blob, path, kind, index, seedVars>>

\* Mutant: the server does not wait for the lock.
LockServer_NoWait(v) ==
  /\ spc[v] = "lock"
  /\ \/ kind[sfd[v]] = "db" /\ spc' = [spc EXCEPT ![v] = "up"]
     \/ kind[sfd[v]] = "blank" /\ spc' = [spc EXCEPT ![v] = "failed"]
  /\ UNCHANGED <<blob, path, kind, index, seedVars, sfd>>

\* The shared flock, awaited without a time limit.  bbolt cannot put the
\* first pages into an empty file it opened read-only: main exits.
LockServer(v) ==
  /\ spc[v] = "lock"
  /\ \A s \in Seeders : ~HoldsExclusive(s, sfd[v])
  /\ \/ kind[sfd[v]] = "db" /\ spc' = [spc EXCEPT ![v] = "up"]
     \/ kind[sfd[v]] = "blank" /\ spc' = [spc EXCEPT ![v] = "failed"]
  /\ UNCHANGED <<blob, path, kind, index, seedVars, sfd>>

\* The process is stopped, or restarted after a failure.
StopServer(v) ==
  /\ spc[v] # "down"
  /\ spc' = [spc EXCEPT ![v] = "down"]
  /\ sfd' = [sfd EXCEPT ![v] = NoFile]
  /\ UNCHANGED <<blob, path, kind, index, seedVars>>

-----------------------------------------------------------------------------
SeedStep(s) ==
  \/ BeginBlob(s) \/ EndBlob(s)
  \/ RemoveIndex(s) \/ OpenIndex(s) \/ LockIndex(s)
  \/ PutArtifact(s) \/ Commit(s) \/ Close(s)

SeedNext == \E s \in Seeders : StartSeed(s) \/ SeedStep(s) \/ Die(s)
ServerNext == \E v \in Servers : OpenServer(v) \/ LockServer(v) \/ StopServer(v)

Next == SeedNext \/ ServerNext

Spec == Init /\ [][Next]_vars

-----------------------------------------------------------------------------
(***************************************************************************)
(* Properties.                                                             *)
(***************************************************************************)
IndexFiles == {i \in Seeders : kind[i] = "db"}

(***************************************************************************)
(* TagsResolve: in every index a server can open, each tag names a         *)
(* manifest that the same index holds, under the digest of its own bytes,  *)
(* so a pull by tag never ends in MANIFEST_UNKNOWN for a listed tag        *)
(* (hack/seed/main.go 303-317, internal/oci/registry.go 131-144).          *)
(***************************************************************************)
TagsResolve ==
  \A i \in IndexFiles :
    /\ \A k \in DOMAIN index[i].tags : index[i].tags[k] \in DOMAIN index[i].manifests
    /\ \A d \in DOMAIN index[i].manifests : d = digestOf(Marshal(index[i].manifests[d]))

(***************************************************************************)
(* ReachableIntact: every blob that a committed index promises is whole on *)
(* disk, except while a seed process is inside os.WriteFile of that very   *)
(* blob, or died there.  No interleaving of seed processes, no death and   *)
(* no failed removal publishes a manifest before its blobs                 *)
(* (hack/seed/main.go 251, 275-309).                                       *)
(***************************************************************************)
Intact(d) == blob[d] = "whole" \/ \E s \in Seeders : writing[s] = d

ReachableIntact == \A i \in IndexFiles : \A d \in Reachable(index[i]) : Intact(d)

(***************************************************************************)
(* AllOrNothing: an index holds exactly the tags of the seed processes     *)
(* that committed to it: none of one that died half way, all of each that  *)
(* finished, also when several meet in one file because a removal failed   *)
(* or came too early (hack/seed/main.go 255-326).                          *)
(***************************************************************************)
Committed(i) == {s \in Seeders : fd[s] = i /\ pc[s] \in {"close", "done"}}

AllOrNothing ==
  \A i \in Seeders :
    DOMAIN index[i].tags = UNION {Keys(s) : s \in Committed(i)}

(***************************************************************************)
(* QuietMeansPublished: once at least one seed process has finished, and   *)
(* all others are finished or not started, index.db names a file that one  *)
(* of them committed to.  Two seed processes that remove each other's file *)
(* leave no root without an index (hack/seed/main.go 255-261).             *)
(***************************************************************************)
QuietMeansPublished ==
  ( /\ \A s \in Seeders : pc[s] \in {"idle", "done"}
    /\ \E s \in Seeders : pc[s] = "done" )
  => path # NoFile /\ kind[path] = "db" /\ Committed(path) # {}

(***************************************************************************)
(* StableSnapshot: the index of a running server never changes under it.   *)
(* A re-seed goes to another file or waits for the server's lock, so all   *)
(* requests of one server's life see one index (cmd/compass/main.go 87,    *)
(* hack/seed/main.go 255-257).                                             *)
(***************************************************************************)
StableSnapshot ==
  [][ \A v \in Servers :
        spc[v] = "up" /\ spc'[v] = "up" => index'[sfd'[v]] = index[sfd[v]] ]_vars

(***************************************************************************)
(* ImplementsSnapshots: whatever seed processes and servers do to one      *)
(* another, an index is the outcome of whole seeds, one after the other,   *)
(* the last one's tags over the earlier ones', and no seed goes into a     *)
(* file that a running server has open: module Snapshots, where a seed is  *)
(* one step (hack/seed/main.go 248-330, cmd/compass/main.go 87).           *)
(***************************************************************************)
Opened == [v \in Servers |-> IF spc[v] = "up" THEN sfd[v] ELSE NoFile]
Published == {s \in Seeders : pc[s] \in {"close", "done"}}

Registry == INSTANCE Snapshots WITH
  content <- index, opened <- Opened, published <- Published

ImplementsSnapshots == Registry!Spec

(***************************************************************************)
(* StartsWithoutIndex: specs/001-gemara-oci-registry/spec.md 133-134 has   *)
(* the server create a new, empty database when there is none at startup,  *)
(* so a missing file would never make it fail (cmd/compass/main.go 87).    *)
(***************************************************************************)
StartsWithoutIndex ==
  [][ \A v \in Servers :
        spc[v] = "down" /\ path = NoFile => spc'[v] # "failed" ]_vars
=============================================================================
