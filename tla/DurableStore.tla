---------------------------- MODULE DurableStore ----------------------------
(***************************************************************************)
(* SeedStore on a machine that crashes.  bbolt flushes a transaction       *)
(* before db.Update returns; nothing else that a seed process does to the  *)
(* storage root is flushed: not the blobs of os.WriteFile, not the name    *)
(* that os.Remove takes away, not the one that bolt.Open creates.  The     *)
(* kernel writes these back when it likes, in any order, so a crash may    *)
(* leave any state that a file or the name has had since the last crash.   *)
(* Every process ends in a crash; a later one starts from what is left.    *)
(***************************************************************************)
EXTENDS SeedStore

CONSTANT MaxCrashes    \* the bound on crashes

ASSUME MaxCrashesAssumption == MaxCrashes \in Nat

VARIABLES
  leaves,      \* leaves[d]: the states of d's file that a crash may leave
  leavesPath,  \* the inodes that a crash may leave under "index.db"
  recent,      \* the seed processes started since the last crash
  crashes      \* the number of crashes

durableVars == <<leaves, leavesPath, recent, crashes>>
allVars == <<vars, durableVars>>

(***************************************************************************)
(* TypeOKDurable: every variable has its type, and what is there now is    *)
(* among what a crash may leave (hack/seed/main.go 255-257, 337-345).      *)
(***************************************************************************)
TypeOKDurable ==
  /\ TypeOK
  /\ leaves \in [Digests -> SUBSET {"absent", "torn", "whole"}]
  /\ \A d \in Digests : blob[d] \in leaves[d]
  /\ leavesPath \subseteq Seeders \cup {NoFile}
  /\ path \in leavesPath
  /\ recent \subseteq Seeders
  /\ crashes \in 0..MaxCrashes

InitDurable ==
  /\ Init
  /\ leaves = [d \in Digests |-> {blob[d]}]
  /\ leavesPath = {path}
  /\ recent = {}
  /\ crashes = 0

-----------------------------------------------------------------------------
\* What a step makes of a file or of the name may last, or not.
Unflushed ==
  /\ leaves' = [d \in Digests |-> leaves[d] \cup {blob'[d]}]
  /\ leavesPath' = leavesPath \cup {path'}

SeedDurable ==
  /\ SeedNext
  /\ Unflushed
  /\ recent' = recent \cup {s \in Seeders : pc'[s] = "config"}
  /\ UNCHANGED crashes

ServerDurable == ServerNext /\ UNCHANGED durableVars

Ended(at) == IF at = "close" THEN "done" ELSE IF at \in {"idle", "done"} THEN at ELSE "dead"

(***************************************************************************)
(* The machine goes down and comes up again.  A process that had committed *)
(* counts as done: its transaction is on disk.                             *)
(***************************************************************************)
Crash ==
  /\ crashes < MaxCrashes
  /\ crashes' = crashes + 1
  /\ \E left \in [Digests -> {"absent", "torn", "whole"}] :
       /\ \A d \in Digests : left[d] \in leaves[d]
       /\ blob' = left
       /\ leaves' = [d \in Digests |-> {left[d]}]
  /\ path' \in leavesPath
  /\ leavesPath' = {path'}
  /\ pc' = [s \in Seeders |-> Ended(pc[s])]
  /\ writing' = [s \in Seeders |-> NoBlob]
  /\ recent' = {}
  /\ spc' = [v \in Servers |-> "down"]
  /\ sfd' = [v \in Servers |-> NoFile]
  /\ UNCHANGED <<kind, index, art, item, fd, tx>>

NextDurable == SeedDurable \/ ServerDurable \/ Crash

SpecDurable == InitDurable /\ [][NextDurable]_allVars

-----------------------------------------------------------------------------
(***************************************************************************)
(* Properties.  AllOrNothing of SeedStore holds as it is: an index         *)
(* survives a crash with all of what each of its seed processes seeded, or *)
(* none.  What a crash can break is the blobs that it promises, and what   *)
(* mends them is seeding again.                                            *)
(***************************************************************************)
(***************************************************************************)
(* ReseedRepairs: a seed process that finished since the last crash has    *)
(* made all its blobs whole, whatever the crash had left of them: it       *)
(* writes every blob again, also one whose file is there                   *)
(* (hack/seed/main.go 337-345).                                            *)
(***************************************************************************)
ReseedRepairs ==
  \A s \in recent : pc[s] = "done" =>
    \A d \in {EmptyConfigDigest} \cup UNION {Written(a) : a \in Seeded(s)} : Intact(d)

(***************************************************************************)
(* FreshIndexIntact: an index that only seed processes since the last      *)
(* crash have committed to promises nothing that is lost, although older   *)
(* transactions, half-written blobs and the name of a removed index may    *)
(* have come back with the crash (hack/seed/main.go 248-326).              *)
(***************************************************************************)
FreshIndexIntact ==
  \A i \in IndexFiles :
    Committed(i) \subseteq recent => \A d \in Reachable(index[i]) : Intact(d)

(***************************************************************************)
(* ReseedPublishes: once all seed processes started since the last crash   *)
(* have finished, and there is one, index.db names an index that one of    *)
(* them committed to, whichever file, blank file or no file the crash left *)
(* under that name (hack/seed/main.go 255-271).                            *)
(***************************************************************************)
ReseedPublishes ==
  recent # {} /\ (\A s \in recent : pc[s] = "done")
  => path # NoFile /\ kind[path] = "db" /\ Committed(path) \cap recent # {}

(***************************************************************************)
(* ReseededTagsPull: every tag that a seed process committed since the     *)
(* last crash can be pulled to the last blob, also when its index is the   *)
(* one from before the crash, which the process failed to remove and which *)
(* goes on promising lost blobs under other tags: its Puts lead every tag  *)
(* of its own away from what is lost (hack/seed/main.go 255-317).          *)
(***************************************************************************)
Pullable(idx, key) ==
  /\ key \in DOMAIN idx.tags
  /\ idx.tags[key] \in DOMAIN idx.manifests
  /\ \A d \in {idx.tags[key]} \cup References(idx.manifests[idx.tags[key]]) : Intact(d)

ReseededTagsPull ==
  \A i \in IndexFiles : \A s \in Committed(i) \cap recent :
    \A key \in Keys(s) : Pullable(index[i], key)
=============================================================================
