------------------------- MODULE DurableStore_proofs -------------------------
(***************************************************************************)
(* Theorems about DurableStore, for any number of processes and crashes.   *)
(* A step that is no crash is one of SeedStore, so its lemmas apply; what  *)
(* a crash does to each invariant is shown here.                           *)
(***************************************************************************)
EXTENDS DurableStore, SeedStore_proofs

-----------------------------------------------------------------------------
(***************************************************************************)
(* Steps.                                                                  *)
(***************************************************************************)
\* A process that runs was started since the last crash.
Alive ==
  /\ recent \subseteq Seeders
  /\ \A s \in Seeders : pc[s] \notin {"idle", "dead", "done"} => s \in recent

\* What a step that is no crash does to recent.
Recent ==
  /\ recent \subseteq recent'
  /\ \A s \in recent' \ recent : s \in Seeders /\ pc[s] = "idle" /\ pc'[s] = "config"
  /\ \A s \in Seeders : pc'[s] = "config" => s \in recent'

LEMMA StepKinds ==
  ASSUME TypeOK, Alive, [NextDurable]_allVars
  PROVE  Crash \/ ([Next]_vars /\ Recent)
<1>1. CASE UNCHANGED allVars
  BY <1>1 DEF allVars, durableVars, vars, seedVars, Alive, Recent
<1>2. CASE SeedDurable
  <2>1. [Next]_vars /\ recent' = recent \cup {s \in Seeders : pc'[s] = "config"}
    BY <1>2 DEF SeedDurable, Next
  <2>2. ASSUME NEW s \in Seeders, pc'[s] = "config" PROVE pc[s] \in {"idle", "config"}
    BY <1>2, <2>2 DEF SeedDurable, SeedNext, SeedStep, StartSeed, BeginBlob, EndBlob, RemoveIndex,
       OpenIndex, LockIndex, PutArtifact, Commit, Close, Die, TypeOK
  <2> QED
    BY <2>1, <2>2 DEF Recent, Alive
<1>3. CASE ServerDurable
  <2>1. [Next]_vars /\ recent' = recent /\ pc' = pc
    BY <1>3 DEF ServerDurable, Next, ServerNext, OpenServer, LockServer, StopServer, durableVars,
                seedVars
  <2> QED
    BY <2>1 DEF Recent, Alive
<1> QED
  BY <1>1, <1>2, <1>3 DEF NextDurable

\* Only Commit changes an index, or who has committed to it.
LEMMA CommittedStep ==
  ASSUME Typed, [Next]_vars, NEW i \in Seeders
  PROVE  \/ Committed(i)' = Committed(i) /\ index'[i] = index[i]
         \/ \E s \in Seeders : /\ Commit(s) /\ fd[s] = i
                               /\ Committed(i)' = Committed(i) \cup {s}
                               /\ index'[i] = tx[s]
<1>0. /\ pc \in [Seeders -> SeedPC] /\ fd \in [Seeders -> Seeders \cup {NoFile}]
      /\ index = [j \in Seeders |-> index[j]]
  BY DEF Typed, TypeOK
<1>1. ASSUME NEW s \in Seeders, Commit(s), fd[s] = i
      PROVE  Committed(i)' = Committed(i) \cup {s} /\ index'[i] = tx[s]
  BY <1>0, <1>1 DEF Commit, Committed
<1>2. ASSUME NEW s \in Seeders, Commit(s), fd[s] # i
      PROVE  Committed(i)' = Committed(i) /\ index'[i] = index[i]
  BY <1>0, <1>2 DEF Commit, Committed
<1>3. ASSUME NEW s \in Seeders,
             StartSeed(s) \/ EndBlob(s) \/ RemoveIndex(s) \/ LockIndex(s) \/ Close(s) \/ Die(s)
      PROVE  Committed(i)' = Committed(i) /\ index'[i] = index[i]
  BY <1>0, <1>3 DEF StartSeed, EndBlob, RemoveIndex, LockIndex, Close, Die, Committed
<1>4. ASSUME NEW s \in Seeders, OpenIndex(s)
      PROVE  Committed(i)' = Committed(i) /\ index'[i] = index[i]
  BY <1>0, <1>4 DEF OpenIndex, Committed
<1>5. ASSUME NEW s \in Seeders, BeginBlob(s) \/ PutArtifact(s)
      PROVE  Committed(i)' = Committed(i) /\ index'[i] = index[i]
  BY <1>5 DEF BeginBlob, PutArtifact, Committed
<1>6. CASE ServerNext \/ UNCHANGED vars
  BY <1>6 DEF ServerNext, OpenServer, LockServer, StopServer, vars, seedVars, Committed
<1> QED
  BY <1>1, <1>2, <1>3, <1>4, <1>5, <1>6 DEF Next, SeedNext, SeedStep

-----------------------------------------------------------------------------
(***************************************************************************)
(* What SeedStore's proofs rest on survives a crash.  The name "index.db"  *)
(* comes back as one that it has had: LeftNamed says that each of these is *)
(* a file.                                                                 *)
(***************************************************************************)
LeftNamed == /\ leavesPath \subseteq Seeders \cup {NoFile} /\ path \in leavesPath
             /\ \A p \in leavesPath : p # NoFile => kind[p] # "free"

Base == Typed /\ Locks /\ Writing /\ Fresh /\ Tally /\ LeftNamed /\ Alive

LEMMA InitBase == InitDurable => Base
<1> SUFFICES ASSUME InitDurable PROVE Base
  OBVIOUS
<1>1. Init
  BY DEF InitDurable
<1>2. Typed /\ Locks /\ Tally
  BY <1>1, InitTyped, InitLocks, InitTally
<1>3. Writing /\ Fresh
  BY <1>1, InitSteady DEF Steady
<1>4. LeftNamed /\ Alive
  BY <1>1 DEF InitDurable, Init, LeftNamed, Alive
<1> QED
  BY <1>2, <1>3, <1>4 DEF Base

\* A crash ends every process, and nobody else has committed than before.
LEMMA CrashEnds ==
  ASSUME TypeOK, Crash
  PROVE  /\ UNCHANGED <<kind, index, art, item, fd, tx>>
         /\ pc' \in [Seeders -> {"idle", "dead", "done"}]
         /\ \A s \in Seeders : /\ pc'[s] = "idle" <=> pc[s] = "idle"
                               /\ pc'[s] = "done" <=> pc[s] \in {"close", "done"}
         /\ \A i : Committed(i)' = Committed(i)
         /\ recent' = {}
<1>1. /\ UNCHANGED <<kind, index, art, item, fd, tx>> /\ recent' = {}
      /\ pc' = [s \in Seeders |-> Ended(pc[s])]
  BY DEF Crash
<1>2. \A s \in Seeders : /\ pc'[s] \in {"idle", "dead", "done"}
                         /\ pc'[s] = "idle" <=> pc[s] = "idle"
                         /\ pc'[s] = "done" <=> pc[s] \in {"close", "done"}
  BY <1>1 DEF Ended
<1>3. \A i : Committed(i)' = Committed(i)
  BY <1>1, <1>2 DEF Committed
<1> QED
  BY <1>1, <1>2, <1>3

LEMMA CrashBase == Base /\ Crash => Base'
<1> SUFFICES ASSUME Typed, Locks, Writing, Fresh, Tally, LeftNamed, Alive, Crash
             PROVE  Base'
  BY DEF Base
<1>1. TypeOK /\ Files
  BY DEF Typed
<1>2. /\ UNCHANGED <<kind, index, art, item, fd, tx>>
      /\ pc' \in [Seeders -> {"idle", "dead", "done"}]
      /\ \A s \in Seeders : /\ pc'[s] = "idle" <=> pc[s] = "idle"
                            /\ pc'[s] = "done" <=> pc[s] \in {"close", "done"}
      /\ recent' = {}
  BY <1>1, CrashEnds
<1>3. /\ blob' \in [Digests -> {"absent", "torn", "whole"}]
      /\ path' \in leavesPath /\ leavesPath' = {path'}
      /\ writing' = [s \in Seeders |-> NoBlob]
      /\ spc' = [v \in Servers |-> "down"] /\ sfd' = [v \in Servers |-> NoFile]
  BY DEF Crash
<1>4. TypeOK'
  BY <1>1, <1>2, <1>3 DEF TypeOK, LeftNamed, SeedPC, ServerPC
<1>5. Files'
  BY <1>1, <1>2, <1>3 DEF Files, BeforeOpen, LeftNamed, TypeOK, SeedPC
<1>6. Locks'
  BY <1>2 DEF Locks, Locked
<1>7. Writing' /\ Fresh'
  BY <1>2, <1>3 DEF Writing, Fresh
<1>8. Tally'
  BY <1>2, TallyKept
<1>9. LeftNamed' /\ Alive'
  BY <1>2, <1>3 DEF LeftNamed, Alive
<1> QED
  BY <1>4, <1>5, <1>6, <1>7, <1>8, <1>9 DEF Base, Typed

\* Steps of SeedStore keep the invariants of its proofs.
LEMMA StoreBase ==
  Typed /\ Locks /\ Writing /\ Fresh /\ Tally /\ [Next]_vars
  => (Typed /\ Locks /\ Writing /\ Fresh /\ Tally)'
BY NextTyped, NextLocks, NextWriting, NextFresh, NextTally

\* A file does not go back to being free.
LEMMA KindStays ==
  ASSUME TypeOK, [Next]_vars, NEW p, kind[p] # "free", p \in Seeders
  PROVE  kind'[p] # "free"
BY DEF TypeOK, Next, SeedNext, SeedStep, ServerNext, StartSeed, BeginBlob, EndBlob, RemoveIndex,
       OpenIndex, LockIndex, PutArtifact, Commit, Close, Die, OpenServer, LockServer, StopServer,
       vars, seedVars

\* A process that runs after a step ran before it, or has just been started.
LEMMA AliveStep ==
  ASSUME TypeOK, [Next]_vars, NEW s \in Seeders, pc'[s] \notin {"idle", "dead", "done"}
  PROVE  pc'[s] = "config" \/ pc[s] \notin {"idle", "dead", "done"}
<1>0. pc \in [Seeders -> SeedPC]
  BY DEF TypeOK
<1>1. ASSUME NEW t \in Seeders, StartSeed(t) \/ SeedStep(t) \/ Die(t)
      PROVE  pc'[s] = "config" \/ pc[s] \notin {"idle", "dead", "done"}
  BY <1>0, <1>1 DEF SeedStep, StartSeed, BeginBlob, EndBlob, RemoveIndex, OpenIndex, LockIndex,
                    PutArtifact, Filling, Commit, Close, Die
<1>2. CASE ServerNext \/ UNCHANGED vars
  BY <1>2 DEF ServerNext, OpenServer, LockServer, StopServer, vars, seedVars
<1> QED
  BY <1>1, <1>2 DEF Next, SeedNext

LEMMA LeftStep ==
  ASSUME Typed, LeftNamed, [NextDurable]_allVars, ~Crash, Files'
  PROVE  LeftNamed'
<1>0. TypeOK /\ kind \in [Seeders -> {"free", "blank", "db"}]
  BY DEF Typed, TypeOK
<1>1. CASE SeedDurable
  <2>1. [Next]_vars /\ leavesPath' = leavesPath \cup {path'}
    BY <1>1 DEF SeedDurable, Unflushed, Next
  <2>2. path' \in Seeders \cup {NoFile}
    BY <1>0, <1>1 DEF SeedDurable, SeedNext, SeedStep, StartSeed, BeginBlob, EndBlob, RemoveIndex,
       OpenIndex, LockIndex, PutArtifact, Commit, Close, Die, TypeOK
  <2>3. ASSUME NEW p \in leavesPath, p # NoFile PROVE kind'[p] # "free"
    BY <1>0, <2>1, <2>3, KindStays DEF LeftNamed
  <2>4. path' # NoFile => kind'[path'] # "free"
    BY DEF Files
  <2> QED
    BY <2>1, <2>2, <2>3, <2>4 DEF LeftNamed
<1>2. CASE ServerDurable \/ UNCHANGED allVars
  BY <1>2 DEF ServerDurable, ServerNext, OpenServer, LockServer, StopServer, allVars, vars,
              durableVars, LeftNamed
<1> QED
  BY <1>1, <1>2 DEF NextDurable

LEMMA NextBase == Base /\ [NextDurable]_allVars => Base'
<1> SUFFICES ASSUME Base, [NextDurable]_allVars PROVE Base'
  OBVIOUS
<1>1. CASE Crash
  BY <1>1, CrashBase
<1>2. CASE ~Crash
  <2>1. [Next]_vars /\ Recent
    BY <1>2, StepKinds DEF Base, Typed
  <2>2. (Typed /\ Locks /\ Writing /\ Fresh /\ Tally)'
    BY <2>1, StoreBase DEF Base
  <2>3. LeftNamed'
    BY <1>2, <2>2, LeftStep DEF Base, Typed
  <2>4. Alive'
    <3>1. ASSUME NEW t \in Seeders, pc'[t] \notin {"idle", "dead", "done"} PROVE t \in recent'
      <4>1. pc'[t] = "config" \/ pc[t] \notin {"idle", "dead", "done"}
        BY <2>1, <3>1, AliveStep DEF Base, Typed
      <4> QED
        BY <2>1, <4>1 DEF Base, Alive, Recent
    <3>2. recent' \subseteq Seeders
      BY <2>1 DEF Base, Alive, Recent
    <3> QED
      BY <3>1, <3>2 DEF Alive
  <2> QED
    BY <2>2, <2>3, <2>4 DEF Base
<1> QED
  BY <1>1, <1>2

LEMMA Based == SpecDurable => []Base
BY InitBase, NextBase, PTL DEF SpecDurable

(***************************************************************************)
(* SeedsSurvive: AllOrNothing holds of every index also when the machine   *)
(* crashes, since an index changes by whole transactions only, and these   *)
(* are flushed (hack/seed/main.go 261-326).                                *)
(***************************************************************************)
THEOREM SeedsSurvive == SpecDurable => []AllOrNothing
<1>1. Base => AllOrNothing
  BY DEF Base, Tally
<1> QED
  BY <1>1, Based, PTL

(***************************************************************************)
(* DurablyTyped: TypeOKDurable, in particular that what there is now is    *)
(* among what a crash may leave.                                           *)
(***************************************************************************)
Remembered ==
  /\ leaves \in [Digests -> SUBSET {"absent", "torn", "whole"}]
  /\ \A d \in Digests : blob[d] \in leaves[d]
  /\ crashes \in 0..MaxCrashes

LEMMA NextRemembered ==
  ASSUME TypeOK, TypeOK', Remembered, [NextDurable]_allVars
  PROVE  Remembered'
<1>0. blob' \in [Digests -> {"absent", "torn", "whole"}]
  BY DEF TypeOK
<1>1. CASE SeedDurable
  BY <1>0, <1>1 DEF SeedDurable, Unflushed, Remembered
<1>2. CASE ServerDurable \/ UNCHANGED allVars
  BY <1>2 DEF ServerDurable, ServerNext, OpenServer, LockServer, StopServer, allVars, vars,
              durableVars, Remembered
<1>3. CASE Crash
  <2>1. crashes' \in 0..MaxCrashes
    BY <1>3, MaxCrashesAssumption DEF Crash, Remembered
  <2>2. /\ leaves' \in [Digests -> SUBSET {"absent", "torn", "whole"}]
        /\ \A d \in Digests : blob'[d] \in leaves'[d]
    BY <1>3 DEF Crash
  <2> QED
    BY <2>1, <2>2 DEF Remembered
<1> QED
  BY <1>1, <1>2, <1>3 DEF NextDurable

THEOREM DurablyTyped == SpecDurable => []TypeOKDurable
<1>1. InitDurable => Remembered
  <2> SUFFICES ASSUME InitDurable PROVE Remembered
    OBVIOUS
  <2>1. /\ blob = [d \in Digests |-> "absent"] /\ leaves = [d \in Digests |-> {blob[d]}]
        /\ crashes = 0
    BY DEF InitDurable, Init
  <2> QED
    BY <2>1, MaxCrashesAssumption DEF Remembered
<1>2. Base /\ Base' /\ Remembered /\ [NextDurable]_allVars => Remembered'
  BY NextRemembered DEF Base, Typed
<1>3. Base /\ Remembered => TypeOKDurable
  BY DEF Base, Typed, LeftNamed, Alive, Remembered, TypeOKDurable
<1> QED
  BY <1>1, <1>2, <1>3, Based, PTL DEF SpecDurable

-----------------------------------------------------------------------------
(***************************************************************************)
(* Seeding again.  A process started since the last crash finds intact     *)
(* what it has made and all of the artifacts that it has put; about older  *)
(* processes nothing can be said.                                          *)
(***************************************************************************)
Finished(s) == pc[s] \in {"close", "done"} => art[s] = Len(Artifacts[s]) + 1

Repaired ==
  \A s \in recent :
    /\ \A e \in Made(s) : Intact(e)
    /\ \A k \in 1 .. art[s] - 1 : \A e \in Written(Artifacts[s][k]) : Intact(e)

AllFinished == \A s \in Seeders : Finished(s)

LEMMA NextFinished ==
  ASSUME TypeOK, AllFinished, [Next]_vars
  PROVE  AllFinished'
<1>0. pc \in [Seeders -> SeedPC] /\ art \in [Seeders -> Nat \ {0}]
  BY DEF TypeOK
<1>1. ASSUME NEW t \in Seeders, StartSeed(t) \/ BeginBlob(t) \/ EndBlob(t) \/ RemoveIndex(t)
                                \/ OpenIndex(t) \/ LockIndex(t) \/ Die(t)
      PROVE  AllFinished'
  BY <1>0, <1>1 DEF StartSeed, BeginBlob, EndBlob, RemoveIndex, OpenIndex, LockIndex, Die,
                    AllFinished, Finished
<1>2. ASSUME NEW t \in Seeders, PutArtifact(t) \/ Commit(t) \/ Close(t) PROVE AllFinished'
  BY <1>0, <1>2 DEF PutArtifact, Filling, Commit, Close, AllFinished, Finished
<1>3. CASE ServerNext \/ UNCHANGED vars
  BY <1>3 DEF ServerNext, OpenServer, LockServer, StopServer, vars, seedVars, AllFinished, Finished
<1> QED
  BY <1>1, <1>2, <1>3 DEF Next, SeedNext, SeedStep

\* A process that puts its artifact has written all of it.
LEMMA PutWritten ==
  ASSUME TypeOK, NEW t \in Seeders, PutArtifact(t), NEW e \in Written(Artifact(t))
  PROVE  e \in Made(t)
<1>1. Artifact(t) \in Seeded(t) /\ Filling(t) /\ ~BlobsLeft(t)
  BY ArtifactSeeded DEF PutArtifact
<1>2. /\ Len(Artifact(t).layers) \in Nat
      /\ Len(WriteList(Artifact(t))) = Len(Artifact(t).layers) + 1
      /\ \A k \in 1..Len(WriteList(Artifact(t))) : WriteList(Artifact(t))[k] \in Digests
  BY <1>1, ArtifactDigests, WriteListParts
<1>3. \A k \in 1..Len(WriteList(Artifact(t))) : k < item[t]
  BY <1>1, <1>2 DEF BlobsLeft, TypeOK
<1>4. PICK k \in 1..Len(WriteList(Artifact(t))) : e = WriteList(Artifact(t))[k]
  BY DEF Written
<1> QED
  BY <1>1, <1>2, <1>3, <1>4 DEF Made

\* Only PutArtifact changes how many artifacts a process has put.
LEMMA ArtStep ==
  ASSUME TypeOK, [Next]_vars, NEW s \in Seeders
  PROVE  art'[s] = art[s] \/ (PutArtifact(s) /\ art'[s] = art[s] + 1)
<1>0. art \in [Seeders -> Nat \ {0}]
  BY DEF TypeOK
<1>1. ASSUME NEW t \in Seeders, PutArtifact(t)
      PROVE  art'[s] = art[s] \/ (PutArtifact(s) /\ art'[s] = art[s] + 1)
  <2>1. art' = [art EXCEPT ![t] = @ + 1]
    BY <1>1 DEF PutArtifact
  <2>2. CASE s = t
    BY <1>0, <1>1, <2>1, <2>2
  <2>3. CASE s # t
    BY <1>0, <2>1, <2>3
  <2> QED
    BY <2>2, <2>3
<1>2. ASSUME NEW t \in Seeders,
             StartSeed(t) \/ BeginBlob(t) \/ EndBlob(t) \/ RemoveIndex(t) \/ OpenIndex(t)
             \/ LockIndex(t) \/ Commit(t) \/ Close(t) \/ Die(t)
      PROVE  art' = art
  BY <1>2 DEF StartSeed, BeginBlob, EndBlob, RemoveIndex, OpenIndex, LockIndex, Commit, Close, Die
<1>3. CASE ServerNext \/ UNCHANGED vars
  BY <1>3 DEF ServerNext, OpenServer, LockServer, StopServer, vars, seedVars
<1> QED
  BY <1>1, <1>2, <1>3 DEF Next, SeedNext, SeedStep

LEMMA WrittenDigests ==
  ASSUME NEW s \in Seeders, NEW k \in 1..Len(Artifacts[s])
  PROVE  Written(Artifacts[s][k]) \subseteq Digests
<1>1. Artifacts[s][k] \in Seeded(s)
  BY ArtifactType
<1> QED
  BY <1>1 DEF Digests

LEMMA NextRepaired ==
  ASSUME Base, Repaired, [NextDurable]_allVars
  PROVE  Repaired'
<1>0. TypeOK /\ Writing /\ Fresh /\ Alive /\ recent \subseteq Seeders
  BY DEF Base, Typed, Alive
<1>1. CASE Crash
  BY <1>0, <1>1, CrashEnds DEF Repaired
<1>2. CASE ~Crash
  <2>1. [Next]_vars /\ Recent
    BY <1>0, <1>2, StepKinds
  <2>2. ASSUME NEW s \in recent', NEW e \in Made(s)' PROVE Intact(e)'
    <3>1. e \in Digests /\ s \in Seeders
      BY <1>0, <2>1 DEF Made, Recent
    <3>2. CASE s \in recent
      <4>1. e \in Made(s) \/ (EndBlob(s) /\ e = writing[s])
        BY <1>0, <2>1, <2>2, <3>1, MadeSteps
      <4>2. CASE e \in Made(s)
        BY <1>0, <2>1, <3>1, <3>2, <4>2, IntactStays DEF Repaired
      <4>3. CASE EndBlob(s) /\ e = writing[s]
        BY <1>0, <3>1, <4>3, EndIntact
      <4> QED
        BY <4>1, <4>2, <4>3
    <3>3. CASE s \notin recent
      <4>1. pc'[s] = "config"
        BY <2>1, <3>3 DEF Recent
      <4> QED
        BY <2>2, <4>1 DEF Made, Filling
    <3> QED
      BY <3>2, <3>3
  <2>3. ASSUME NEW s \in recent', NEW k \in 1 .. art'[s] - 1, NEW e \in Written(Artifacts[s][k])
        PROVE  Intact(e)'
    <3>1. s \in Seeders /\ art[s] \in Nat \ {0} /\ art[s] <= Len(Artifacts[s]) + 1
          /\ Len(Artifacts[s]) \in Nat
      BY <1>0, <2>1, ArtifactsAssumption DEF Recent, TypeOK
    <3>2. CASE k <= art[s] - 1
      <4>1. k \in 1 .. art[s] - 1 /\ k \in 1..Len(Artifacts[s])
        BY <3>1, <3>2
      <4>2. s \in recent
        BY <1>0, <2>1, <3>1, <4>1 DEF Recent, Fresh
      <4>3. e \in Digests
        BY <3>1, <4>1, WrittenDigests
      <4> QED
        BY <1>0, <2>1, <4>1, <4>2, <4>3, IntactStays DEF Repaired
    <3>3. CASE ~(k <= art[s] - 1)
      <4>1. PutArtifact(s) /\ art'[s] = art[s] + 1
        BY <1>0, <2>1, <3>1, <3>3, ArtStep
      <4>2. k = art[s]
        BY <3>1, <3>3, <4>1
      <4>3. e \in Made(s)
        BY <1>0, <3>1, <4>1, <4>2, PutWritten DEF Artifact
      <4>4. s \in recent
        BY <1>0, <3>1, <4>1 DEF PutArtifact, Filling, Alive
      <4> QED
        BY <1>0, <2>1, <4>3, <4>4, IntactStays DEF Repaired, Made
    <3> QED
      BY <3>2, <3>3
  <2> QED
    BY <2>2, <2>3 DEF Repaired
<1> QED
  BY <1>1, <1>2

LEMMA InitRepaired == InitDurable => Repaired /\ AllFinished
BY DEF InitDurable, Init, Repaired, AllFinished, Finished

LEMMA DurableFinished ==
  ASSUME Base, AllFinished, [NextDurable]_allVars
  PROVE  AllFinished'
<1>1. TypeOK /\ Alive
  BY DEF Base, Typed
<1>2. CASE Crash
  BY <1>1, <1>2, CrashEnds DEF AllFinished, Finished
<1>3. CASE ~Crash
  BY <1>1, <1>3, StepKinds, NextFinished
<1> QED
  BY <1>2, <1>3

(***************************************************************************)
(* ReseedsRepair: ReseedRepairs, for any artifacts, processes and crashes. *)
(***************************************************************************)
THEOREM ReseedsRepair == SpecDurable => []ReseedRepairs
<1>1. InitDurable => Repaired /\ AllFinished
  BY InitRepaired
<1>2. Base /\ (Repaired /\ AllFinished) /\ [NextDurable]_allVars => (Repaired /\ AllFinished)'
  BY NextRepaired, DurableFinished
<1>3. Base /\ Repaired /\ AllFinished => ReseedRepairs
  <2> SUFFICES ASSUME Base, Repaired, AllFinished, NEW s \in recent, pc[s] = "done"
               PROVE  \A d \in {EmptyConfigDigest} \cup UNION {Written(a) : a \in Seeded(s)} :
                        Intact(d)
    BY DEF ReseedRepairs
  <2>1. s \in Seeders /\ art[s] = Len(Artifacts[s]) + 1 /\ Len(Artifacts[s]) \in Nat
    BY ArtifactsAssumption DEF Base, Alive, AllFinished, Finished
  <2>2. EmptyConfigDigest \in Made(s)
    BY DEF Made, Digests
  <2>3. ASSUME NEW a \in Seeded(s), NEW d \in Written(a) PROVE Intact(d)
    <3>1. PICK k \in 1..Len(Artifacts[s]) : a = Artifacts[s][k]
      BY DEF Seeded
    <3>2. k \in 1 .. art[s] - 1
      BY <2>1
    <3> QED
      BY <2>3, <3>1, <3>2 DEF Repaired
  <2> QED
    BY <2>2, <2>3 DEF Repaired
<1> QED
  BY <1>1, <1>2, <1>3, Based, PTL DEF SpecDurable

-----------------------------------------------------------------------------
(***************************************************************************)
(* Fresh indexes.  An index nobody has committed to is empty, and one that *)
(* only processes since the last crash have committed to, or a transaction *)
(* upon such an index, promises what is intact.                            *)
(***************************************************************************)
PromisesIntact(idx) == \A d \in Reachable(idx) : Intact(d)

Untouched == \A i \in Seeders : Committed(i) = {} => index[i] = EmptyIndex

FreshPromises ==
  /\ \A i \in Seeders : Committed(i) \subseteq recent => PromisesIntact(index[i])
  /\ \A s \in Seeders :
       pc[s] = "fill" /\ Committed(fd[s]) \subseteq recent => PromisesIntact(tx[s])

LEMMA EmptyPromises == Reachable(EmptyIndex) = {}
BY DEF Reachable, EmptyIndex, EmptyBucket

\* What an index or a transaction promises are digests.
LEMMA ReachableDigests ==
  ASSUME TypeOK, NEW i \in Seeders
  PROVE  Reachable(index[i]) \subseteq Digests /\ Reachable(tx[i]) \subseteq Digests
BY DEF TypeOK, IsIndex, Reachable

LEMMA PromisesStay ==
  ASSUME TypeOK, [Next]_vars, NEW idx, Reachable(idx) \subseteq Digests, PromisesIntact(idx)
  PROVE  PromisesIntact(idx)'
BY IntactStays DEF PromisesIntact

\* How a transaction comes to be what it is.
LEMMA TransactionStep ==
  ASSUME Typed, [Next]_vars, NEW s \in Seeders, pc'[s] = "fill"
  PROVE  /\ fd'[s] = fd[s] /\ fd[s] \in Seeders
         /\ \/ pc[s] = "fill" /\ tx'[s] = tx[s]
            \/ LockIndex(s) /\ tx'[s] = index[fd[s]]
            \/ PutArtifact(s) /\ pc[s] = "fill"
<1>0. /\ pc \in [Seeders -> SeedPC] /\ fd \in [Seeders -> Seeders \cup {NoFile}]
      /\ tx = [t \in Seeders |-> tx[t]]
  BY DEF Typed, TypeOK
<1>1. CASE LockIndex(s)
  BY <1>0, <1>1 DEF LockIndex, Typed, Files
<1>2. CASE PutArtifact(s)
  BY <1>0, <1>2 DEF PutArtifact, Filling, Typed, Files
<1>3. CASE BeginBlob(s) \/ EndBlob(s)
  BY <1>0, <1>3 DEF BeginBlob, EndBlob, Filling, Typed, Files
<1>4. CASE StartSeed(s) \/ RemoveIndex(s) \/ OpenIndex(s) \/ Commit(s) \/ Close(s) \/ Die(s)
  BY <1>0, <1>4 DEF StartSeed, RemoveIndex, OpenIndex, Commit, Close, Die
<1>5. CASE pc'[s] = pc[s] /\ tx'[s] = tx[s] /\ fd'[s] = fd[s]
  BY <1>0, <1>5 DEF Typed, Files
<1>6. ASSUME NEW t \in Seeders, t # s, StartSeed(t) \/ SeedStep(t) \/ Die(t)
      PROVE  pc'[s] = pc[s] /\ tx'[s] = tx[s] /\ fd'[s] = fd[s]
  BY <1>0, <1>6 DEF SeedStep, StartSeed, BeginBlob, EndBlob, RemoveIndex, OpenIndex, LockIndex,
                    PutArtifact, Commit, Close, Die
<1>7. ServerNext \/ UNCHANGED vars => pc' = pc /\ tx' = tx /\ fd' = fd
  BY DEF ServerNext, OpenServer, LockServer, StopServer, vars, seedVars
<1> QED
  BY <1>1, <1>2, <1>3, <1>4, <1>5, <1>6, <1>7 DEF Next, SeedNext, SeedStep

LEMMA NextUntouched ==
  ASSUME Base, Untouched, [NextDurable]_allVars
  PROVE  Untouched'
<1>1. CASE Crash
  BY <1>1, CrashEnds DEF Base, Typed, Untouched
<1>2. CASE ~Crash
  <2>1. [Next]_vars
    BY <1>2, StepKinds DEF Base, Typed
  <2> QED
    BY <2>1, CommittedStep DEF Base, Untouched
<1> QED
  BY <1>1, <1>2

LEMMA StoreFreshPromises ==
  ASSUME Base, Repaired, FreshPromises, [Next]_vars, Recent
  PROVE  FreshPromises'
<1>0. Typed /\ TypeOK /\ Locks /\ Alive
  BY DEF Base, Typed
<1>1. ASSUME NEW i \in Seeders, Committed(i)' \subseteq recent'
      PROVE  Committed(i)' \subseteq recent
  <2>1. ASSUME NEW s \in Committed(i)' PROVE s \in recent
    BY <1>1, <2>1 DEF Committed, Recent
  <2> QED
    BY <2>1
<1>2. ASSUME NEW i \in Seeders, Committed(i)' \subseteq recent'
      PROVE  PromisesIntact(index[i])' /\ Committed(i) \subseteq recent
  <2>1. Committed(i)' \subseteq recent
    BY <1>1, <1>2
  <2>2. CASE Committed(i)' = Committed(i) /\ index'[i] = index[i]
    <3>1. PromisesIntact(index[i])
      BY <2>1, <2>2 DEF FreshPromises
    <3>2. \A d \in Reachable(index[i]) : Intact(d)'
      BY <1>0, <3>1, ReachableDigests, IntactStays DEF PromisesIntact
    <3> QED
      BY <2>1, <2>2, <3>2 DEF PromisesIntact
  <2>3. ASSUME NEW s \in Seeders, Commit(s), fd[s] = i,
               Committed(i)' = Committed(i) \cup {s}, index'[i] = tx[s]
        PROVE  PromisesIntact(index[i])' /\ Committed(i) \subseteq recent
    <3>1. Committed(i) \subseteq recent
      BY <2>1, <2>3
    <3>2. PromisesIntact(tx[s])
      BY <2>3, <3>1 DEF FreshPromises, Commit
    <3>3. \A d \in Reachable(tx[s]) : Intact(d)'
      BY <1>0, <3>2, ReachableDigests, IntactStays DEF PromisesIntact
    <3> QED
      BY <2>3, <3>1, <3>3 DEF PromisesIntact
  <2> QED
    BY <1>0, <2>2, <2>3, CommittedStep
<1>3. ASSUME NEW s \in Seeders, pc'[s] = "fill", Committed(fd[s])' \subseteq recent',
             fd'[s] = fd[s], fd[s] \in Seeders
      PROVE  PromisesIntact(tx[s])'
  <2>1. Committed(fd[s]) \subseteq recent
    BY <1>2, <1>3
  <2>2. CASE pc[s] = "fill" /\ tx'[s] = tx[s]
    <3>1. PromisesIntact(tx[s])
      BY <2>1, <2>2 DEF FreshPromises
    <3>2. \A d \in Reachable(tx[s]) : Intact(d)'
      BY <1>0, <3>1, ReachableDigests, IntactStays DEF PromisesIntact
    <3> QED
      BY <2>2, <3>2 DEF PromisesIntact
  <2>3. CASE tx'[s] = index[fd[s]]
    <3>1. PromisesIntact(index[fd[s]])
      BY <1>3, <2>1 DEF FreshPromises
    <3>2. \A d \in Reachable(index[fd[s]]) : Intact(d)'
      BY <1>0, <1>3, <3>1, ReachableDigests, IntactStays DEF PromisesIntact
    <3> QED
      BY <2>3, <3>2 DEF PromisesIntact
  <2>4. CASE PutArtifact(s) /\ pc[s] = "fill"
    <3>1. PromisesIntact(tx[s])
      BY <2>1, <2>4 DEF FreshPromises
    <3>2. s \in recent
      BY <1>0, <2>4 DEF Alive
    <3>3. ASSUME NEW d \in Reachable(tx'[s]) PROVE Intact(d)'
      <4>1. d \in Reachable(tx[s]) \cup Made(s)
        BY <1>0, <2>4, <3>3, PutPromises
      <4>2. d \in Digests
        BY <1>0, <4>1, ReachableDigests DEF Made
      <4>3. Intact(d)
        BY <3>1, <3>2, <4>1 DEF PromisesIntact, Repaired
      <4> QED
        BY <1>0, <4>2, <4>3, IntactStays
    <3> QED
      BY <3>3 DEF PromisesIntact
  <2> QED
    BY <1>0, <1>3, <2>2, <2>3, <2>4, TransactionStep
<1>4. ASSUME NEW s \in Seeders, pc'[s] = "fill", Committed(fd[s])' \subseteq recent'
      PROVE  PromisesIntact(tx[s])'
  <2>1. fd'[s] = fd[s] /\ fd[s] \in Seeders
    BY <1>0, <1>4, TransactionStep
  <2> QED
    BY <1>3, <1>4, <2>1
<1> QED
  BY <1>2, <1>4 DEF FreshPromises

LEMMA NextFreshPromises ==
  ASSUME Base, Repaired, Untouched, FreshPromises, [NextDurable]_allVars
  PROVE  FreshPromises'
<1>1. CASE Crash
  <2>1. /\ index' = index /\ recent' = {}
        /\ \A i : Committed(i)' = Committed(i)
        /\ \A s \in Seeders : pc'[s] # "fill"
    BY <1>1, CrashEnds DEF Base, Typed
  <2>2. ASSUME NEW i \in Seeders, Committed(i)' \subseteq recent' PROVE PromisesIntact(index[i])'
    BY <2>1, <2>2, EmptyPromises DEF Untouched, PromisesIntact
  <2> QED
    BY <2>1, <2>2 DEF FreshPromises
<1>2. CASE ~Crash
  BY <1>2, StepKinds, StoreFreshPromises DEF Base, Typed
<1> QED
  BY <1>1, <1>2

LEMMA InitFreshPromises == InitDurable => Untouched /\ FreshPromises
<1> SUFFICES ASSUME InitDurable PROVE Untouched /\ FreshPromises
  OBVIOUS
<1>1. /\ index = [i \in Seeders |-> EmptyIndex]
      /\ \A s \in Seeders : pc[s] # "fill"
  BY DEF InitDurable, Init
<1>2. \A i \in Seeders : index[i] = EmptyIndex
  BY <1>1
<1> QED
  BY <1>1, <1>2, EmptyPromises DEF Untouched, FreshPromises, PromisesIntact

(***************************************************************************)
(* FreshIndexesIntact: FreshIndexIntact, for any artifacts, processes and  *)
(* crashes.                                                                *)
(***************************************************************************)
THEOREM FreshIndexesIntact == SpecDurable => []FreshIndexIntact
<1>1. InitDurable => Repaired /\ Untouched /\ FreshPromises
  BY InitRepaired, InitFreshPromises
<1>2. Base /\ (Repaired /\ Untouched /\ FreshPromises) /\ [NextDurable]_allVars
      => (Repaired /\ Untouched /\ FreshPromises)'
  BY NextRepaired, NextUntouched, NextFreshPromises
<1>3. FreshPromises => FreshIndexIntact
  BY DEF FreshPromises, FreshIndexIntact, PromisesIntact, IndexFiles
<1> QED
  BY <1>1, <1>2, <1>3, Based, PTL DEF SpecDurable

-----------------------------------------------------------------------------
(***************************************************************************)
(* Tags seeded again.  In an index that a process started since the last   *)
(* crash has committed to, and in the transaction that follows, its tags   *)
(* can be pulled, whatever else the index promises; so can, in its own     *)
(* transaction, the tags of the artifacts that it has put.                 *)
(***************************************************************************)
Reseeded ==
  /\ \A i \in Seeders : \A s \in Committed(i) \cap recent :
       \A key \in Keys(s) : Pullable(index[i], key)
  /\ \A s \in recent : pc[s] = "fill" =>
       /\ \A t \in Committed(fd[s]) \cap recent : \A key \in Keys(t) : Pullable(tx[s], key)
       /\ \A n \in 1 .. art[s] - 1 :
            \A key \in tagKeys(Artifacts[s][n]) : Pullable(tx[s], key)

\* What can be pulled are digests.
LEMMA PullDigests ==
  ASSUME NEW idx, IsIndex(idx), NEW key, Pullable(idx, key)
  PROVE  {idx.tags[key]} \cup References(idx.manifests[idx.tags[key]]) \subseteq Digests
BY DEF IsIndex, Pullable

\* A process that puts its artifact has made all that it names.
LEMMA PutMade ==
  ASSUME TypeOK, NEW s \in Seeders, PutArtifact(s)
  PROVE  {manifestDigest(Artifact(s))} \cup References(manifest(Artifact(s))) \subseteq Made(s)
<1> DEFINE a == Artifact(s)
<1>1. a \in Seeded(s) /\ Filling(s)
  BY ArtifactSeeded DEF PutArtifact
<1>2. a \in artifactDef
  BY <1>1, ArtifactDigests
<1>3. /\ Len(a.layers) \in Nat /\ Len(WriteList(a)) = Len(a.layers) + 1
      /\ WriteList(a)[Len(a.layers) + 1] = manifestDigest(a)
      /\ References(manifest(a)) = {EmptyConfigDigest} \cup {WriteList(a)[k] : k \in 1..Len(a.layers)}
  BY <1>2, WriteListParts
<1>4. \A k \in 1 .. Len(a.layers) + 1 : WriteList(a)[k] \in Made(s)
  BY <1>3, PutWritten DEF Written
<1>5. EmptyConfigDigest \in Made(s)
  BY <1>1 DEF Made, Filling, Digests
<1> QED
  BY <1>3, <1>4, <1>5

\* What a Put makes of a transaction: the tags of its artifact can be
\* pulled, and those that could be still can.
LEMMA PutPulls ==
  ASSUME TypeOK, NEW s \in Seeders, PutArtifact(s), \A e \in Made(s) : Intact(e), NEW key,
         key \in tagKeys(Artifact(s)) \/ Pullable(tx[s], key)
  PROVE  Pullable(tx'[s], key)
<1> DEFINE a == Artifact(s)
           d == manifestDigest(a)
           old == tx[s]
<1>1. /\ tx'[s].tags = Put(old.tags, tagKeys(a), d)
      /\ tx'[s].manifests = Put(old.manifests, {d}, manifest(a))
  BY DEF PutArtifact, TypeOK
<1>2. \A e \in {d} \cup References(manifest(a)) : Intact(e)
  BY PutMade
<1>3. CASE key \in tagKeys(a)
  <2>1. key \in DOMAIN tx'[s].tags /\ tx'[s].tags[key] = d
    BY <1>1, <1>3 DEF Put
  <2>2. d \in DOMAIN tx'[s].manifests /\ tx'[s].manifests[d] = manifest(a)
    BY <1>1 DEF Put
  <2> QED
    BY <1>2, <2>1, <2>2 DEF Pullable
<1>4. CASE key \notin tagKeys(a)
  <2> DEFINE e == old.tags[key]
  <2>1. /\ key \in DOMAIN old.tags /\ e \in DOMAIN old.manifests
        /\ \A b \in {e} \cup References(old.manifests[e]) : Intact(b)
    BY <1>4 DEF Pullable
  <2>2. key \in DOMAIN tx'[s].tags /\ tx'[s].tags[key] = e
    BY <1>1, <1>4, <2>1 DEF Put
  <2>3. e \in DOMAIN tx'[s].manifests
    BY <1>1, <2>1 DEF Put
  <2>4. tx'[s].manifests[e] = old.manifests[e] \/ (e = d /\ tx'[s].manifests[e] = manifest(a))
    BY <1>1, <2>1 DEF Put
  <2> QED
    BY <1>2, <2>1, <2>2, <2>3, <2>4 DEF Pullable
<1> QED
  BY <1>3, <1>4

LEMMA StoreReseeded ==
  ASSUME Base, Repaired, AllFinished, Reseeded, [Next]_vars, Recent
  PROVE  Reseeded'
<1>0. /\ Typed /\ TypeOK /\ Locks /\ Alive /\ Fresh
      /\ pc \in [Seeders -> SeedPC]
      /\ \A j \in Seeders : IsIndex(index[j]) /\ IsIndex(tx[j])
  BY DEF Base, Typed, TypeOK
<1>1. \A d \in Digests : Intact(d) => Intact(d)'
  BY <1>0, IntactStays
<1>2. ASSUME NEW i \in Seeders, NEW s \in Committed(i)' \cap recent' PROVE s \in recent
  BY <1>2 DEF Committed, Recent
<1>3. ASSUME NEW i \in Seeders, NEW s \in Committed(i)' \cap recent', NEW key \in Keys(s)
      PROVE  Pullable(index[i], key)'
  <2>0. s \in recent /\ s \in Seeders
    BY <1>0, <1>2 DEF Alive
  <2>1. CASE Committed(i)' = Committed(i) /\ index'[i] = index[i]
    <3>1. Pullable(index[i], key)
      BY <1>3, <2>0, <2>1 DEF Reseeded
    <3> QED
      BY <1>0, <1>1, <2>1, <3>1, PullDigests DEF Pullable
  <2>2. ASSUME NEW t \in Seeders, Commit(t), fd[t] = i,
               Committed(i)' = Committed(i) \cup {t}, index'[i] = tx[t]
        PROVE  Pullable(index[i], key)'
    <3>1. pc[t] = "fill" /\ art[t] = Len(Artifacts[t]) + 1 /\ Len(Artifacts[t]) \in Nat
      BY <2>2, ArtifactsAssumption DEF Commit
    <3>2. t \in recent
      BY <1>0, <3>1 DEF Alive
    <3>3. Pullable(tx[t], key)
      <4>1. CASE s = t
        <5>1. PICK n \in 1..Len(Artifacts[t]) : key \in tagKeys(Artifacts[t][n])
          BY <4>1 DEF Keys, Seeded
        <5>2. n \in 1 .. art[t] - 1
          BY <3>1
        <5> QED
          BY <3>1, <3>2, <5>1, <5>2 DEF Reseeded
      <4>2. CASE s # t
        <5>1. s \in Committed(fd[t]) \cap recent
          BY <1>3, <2>0, <2>2, <4>2
        <5> QED
          BY <3>1, <3>2, <5>1 DEF Reseeded
      <4> QED
        BY <4>1, <4>2
    <3> QED
      BY <1>0, <1>1, <2>2, <3>3, PullDigests DEF Pullable
  <2> QED
    BY <1>0, <2>1, <2>2, CommittedStep
<1>4. ASSUME NEW s \in recent', pc'[s] = "fill", NEW key,
             \/ \E t \in Committed(fd[s])' \cap recent' : key \in Keys(t)
             \/ \E n \in 1 .. art'[s] - 1 : key \in tagKeys(Artifacts[s][n])
      PROVE  Pullable(tx[s], key)'
  <2>0. s \in recent /\ s \in Seeders
    BY <1>0, <1>4 DEF Alive, Recent
  <2>1. fd'[s] = fd[s] /\ fd[s] \in Seeders
    BY <1>0, <1>4, <2>0, TransactionStep
  <2>2. Committed(fd[s])' = Committed(fd[s])
    <3>1. ASSUME NEW t \in Seeders, Commit(t), fd[t] = fd[s] PROVE FALSE
      <4>1. pc[t] = "fill" /\ pc'[t] = "close" /\ \A u \in Seeders : u # t => pc'[u] = pc[u]
        BY <1>0, <3>1 DEF Commit
      <4>2. s # t /\ pc[s] = "fill"
        BY <1>4, <2>0, <4>1
      <4> QED
        BY <1>0, <2>0, <3>1, <4>1, <4>2 DEF Locks, Locked
    <3>2. \A i \in Seeders : \/ Committed(i)' = Committed(i)
                            \/ \E t \in Seeders : Commit(t) /\ fd[t] = i
      BY <1>0, CommittedStep
    <3>3. \/ {t \in Seeders : fd'[t] = fd[s] /\ pc'[t] \in {"close", "done"}} = Committed(fd[s])
          \/ \E t \in Seeders : Commit(t) /\ fd[t] = fd[s]
      BY <2>1, <3>2 DEF Committed
    <3> QED
      BY <2>1, <3>1, <3>3 DEF Committed
  <2>3. \/ \E t \in Committed(fd[s]) \cap recent : key \in Keys(t)
        \/ \E n \in 1 .. art'[s] - 1 : key \in tagKeys(Artifacts[s][n])
    <3>1. \A t \in Committed(fd[s])' \cap recent' : t \in recent
      BY DEF Committed, Recent
    <3> QED
      BY <1>4, <2>2, <3>1
  <2>4. CASE PutArtifact(s)
    <3>1. pc[s] = "fill" /\ art[s] \in 1..Len(Artifacts[s]) /\ art'[s] = art[s] + 1
      BY <1>0, <2>0, <2>4, ArtifactSeeded DEF PutArtifact, Filling, TypeOK
    <3>2. key \in tagKeys(Artifact(s)) \/ Pullable(tx[s], key)
      <4>1. ASSUME NEW n \in 1 .. art'[s] - 1 PROVE n = art[s] \/ n \in 1 .. art[s] - 1
        BY <3>1
      <4> QED
        BY <2>0, <2>3, <3>1, <4>1 DEF Reseeded, Artifact
    <3>3. Pullable(tx'[s], key)
      BY <1>0, <2>0, <2>4, <3>2, PutPulls DEF Repaired
    <3>4. IsIndex(tx'[s])
      <4>1. Typed'
        BY <1>0, NextTyped
      <4> QED
        BY <2>0, <4>1 DEF Typed, TypeOK, IsIndex
    <3> QED
      BY <1>1, <3>3, <3>4, PullDigests DEF Pullable
  <2>5. CASE ~PutArtifact(s) /\ pc[s] = "fill" /\ tx'[s] = tx[s]
    <3>1. art'[s] = art[s]
      BY <1>0, <2>0, <2>5, ArtStep
    <3>2. Pullable(tx[s], key)
      BY <2>0, <2>3, <2>5, <3>1 DEF Reseeded
    <3> QED
      BY <1>0, <1>1, <2>0, <2>5, <3>2, PullDigests DEF Pullable
  <2>6. CASE LockIndex(s) /\ tx'[s] = index[fd[s]]
    <3>1. art'[s] = 1
      BY <1>0, <2>0, <2>6 DEF LockIndex, Fresh
    <3>2. Pullable(index[fd[s]], key)
      BY <2>1, <2>3, <3>1 DEF Reseeded
    <3> QED
      BY <1>0, <1>1, <2>1, <2>6, <3>2, PullDigests DEF Pullable
  <2> QED
    BY <1>0, <1>4, <2>0, <2>4, <2>5, <2>6, TransactionStep
<1>5. \A s \in recent' : pc'[s] = "fill" =>
        /\ \A t \in Committed(fd[s])' \cap recent' : \A key \in Keys(t) : Pullable(tx[s], key)'
        /\ \A n \in 1 .. art'[s] - 1 :
             \A key \in tagKeys(Artifacts[s][n]) : Pullable(tx[s], key)'
  BY <1>4
<1> QED
  BY <1>3, <1>5 DEF Reseeded

LEMMA NextReseeded ==
  ASSUME Base, Repaired, AllFinished, Reseeded, [NextDurable]_allVars
  PROVE  Reseeded'
<1>1. CASE Crash
  BY <1>1, CrashEnds DEF Base, Typed, Reseeded
<1>2. CASE ~Crash
  BY <1>2, StepKinds, StoreReseeded DEF Base, Typed
<1> QED
  BY <1>1, <1>2

(***************************************************************************)
(* ReseedsPull: ReseededTagsPull, for any artifacts, processes and         *)
(* crashes: the tags that are seeded again lead to nothing that a crash    *)
(* has lost, whichever old index they were put into.                       *)
(***************************************************************************)
THEOREM ReseedsPull == SpecDurable => []ReseededTagsPull
<1>1. InitDurable => Repaired /\ AllFinished /\ Reseeded
  <2>1. InitDurable => recent = {}
    BY DEF InitDurable
  <2>2. recent = {} => Reseeded
    BY DEF Reseeded
  <2> QED
    BY <2>1, <2>2, InitRepaired
<1>2. Base /\ (Repaired /\ AllFinished /\ Reseeded) /\ [NextDurable]_allVars
      => (Repaired /\ AllFinished /\ Reseeded)'
  BY NextRepaired, DurableFinished, NextReseeded
<1>3. Reseeded => ReseededTagsPull
  BY DEF Reseeded, ReseededTagsPull, IndexFiles
<1> QED
  BY <1>1, <1>2, <1>3, Based, PTL DEF SpecDurable

-----------------------------------------------------------------------------
(***************************************************************************)
(* The name.  Once a process started since the last crash has opened the   *)
(* index, the name is a file that one of them has open, or one of them may *)
(* just have removed it, or died.                                          *)
(***************************************************************************)
Renamed ==
  \/ \A s \in recent : pc[s] \in {"config", "remove"}
  \/ \E s \in recent : pc[s] \in {"open", "dead"}
  \/ path # NoFile /\ \E s \in recent : fd[s] = path /\ pc[s] \in {"lock", "fill", "close", "done"}

\* Where a step leaves the name and the process that takes it.
LEMMA StoreRenamed ==
  ASSUME Typed, Alive, Renamed, [Next]_vars, Recent
  PROVE  Renamed'
<1> USE NoFileAssumption
<1>0. /\ pc \in [Seeders -> SeedPC] /\ fd \in [Seeders -> Seeders \cup {NoFile}]
      /\ recent \subseteq recent' /\ recent' \subseteq Seeders
      /\ \A s \in recent' \ recent : pc[s] = "idle" /\ pc'[s] = "config"
      /\ \A s \in Seeders : pc'[s] = "config" => s \in recent'
  BY DEF Typed, TypeOK, Alive, Recent
<1>1. ASSUME NEW s \in Seeders, RemoveIndex(s) \/ Die(s) PROVE Renamed'
  <2>1. s \in recent'
    BY <1>0, <1>1 DEF RemoveIndex, Die, Alive
  <2>2. pc'[s] \in {"open", "dead"}
    BY <1>0, <1>1 DEF RemoveIndex, Die
  <2> QED
    BY <2>1, <2>2 DEF Renamed
<1>2. ASSUME NEW s \in Seeders, OpenIndex(s) PROVE Renamed'
  <2>1. s \in recent'
    BY <1>0, <1>2 DEF OpenIndex, Alive
  <2>2. path' # NoFile /\ fd'[s] = path' /\ pc'[s] = "lock"
    BY <1>0, <1>2 DEF OpenIndex
  <2> QED
    BY <2>1, <2>2 DEF Renamed
<1>3. ASSUME NEW s \in Seeders, StartSeed(s) \/ BeginBlob(s) \/ EndBlob(s) PROVE Renamed'
  <2>1. /\ path' = path /\ fd' = fd
        /\ \A t \in Seeders : t # s => pc'[t] = pc[t]
        /\ pc'[s] = pc[s] \/ (pc[s] \in {"idle", "config"} /\ pc'[s] \in {"config", "remove"})
    BY <1>0, <1>3 DEF StartSeed, BeginBlob, EndBlob
  <2>2. CASE \A t \in recent : pc[t] \in {"config", "remove"}
    BY <1>0, <2>1, <2>2 DEF Renamed
  <2>3. CASE \E t \in recent : pc[t] \in {"open", "dead"}
    BY <1>0, <2>1, <2>3 DEF Renamed
  <2>4. ASSUME path # NoFile, NEW t \in recent, fd[t] = path,
               pc[t] \in {"lock", "fill", "close", "done"}
        PROVE  Renamed'
    BY <1>0, <2>1, <2>4 DEF Renamed
  <2> QED
    BY <2>2, <2>3, <2>4 DEF Renamed
<1>4. ASSUME NEW s \in Seeders, LockIndex(s) \/ PutArtifact(s) \/ Commit(s) \/ Close(s)
      PROVE  Renamed'
  <2>1. /\ path' = path /\ fd' = fd
        /\ \A t \in Seeders : t # s => pc'[t] = pc[t]
        /\ pc[s] \in {"lock", "fill", "close"} /\ pc'[s] \in {"fill", "close", "done"}
    BY <1>0, <1>4 DEF LockIndex, PutArtifact, Filling, Commit, Close
  <2>2. s \in recent
    BY <2>1 DEF Alive
  <2>3. CASE \E t \in recent : pc[t] \in {"open", "dead"}
    BY <1>0, <2>1, <2>3 DEF Renamed
  <2>4. ASSUME path # NoFile, NEW t \in recent, fd[t] = path,
               pc[t] \in {"lock", "fill", "close", "done"}
        PROVE  Renamed'
    BY <1>0, <2>1, <2>4 DEF Renamed
  <2> QED
    BY <2>1, <2>2, <2>3, <2>4 DEF Renamed
<1>5. CASE ServerNext \/ UNCHANGED vars
  <2>1. path' = path /\ fd' = fd /\ pc' = pc
    BY <1>5 DEF ServerNext, OpenServer, LockServer, StopServer, vars, seedVars
  <2>2. recent' = recent
    BY <1>0, <2>1
  <2> QED
    BY <2>1, <2>2 DEF Renamed
<1> QED
  BY <1>1, <1>2, <1>3, <1>4, <1>5 DEF Next, SeedNext, SeedStep

LEMMA NextRenamed ==
  ASSUME Base, Renamed, [NextDurable]_allVars
  PROVE  Renamed'
<1>1. CASE Crash
  BY <1>1, CrashEnds DEF Base, Typed, Renamed
<1>2. CASE ~Crash
  BY <1>2, StepKinds, StoreRenamed DEF Base, Typed
<1> QED
  BY <1>1, <1>2

(***************************************************************************)
(* ReseedsPublish: ReseedPublishes, for any artifacts, processes and       *)
(* crashes.                                                                *)
(***************************************************************************)
THEOREM ReseedsPublish == SpecDurable => []ReseedPublishes
<1>1. InitDurable => Renamed
  BY DEF InitDurable, Renamed
<1>2. Base /\ Renamed /\ [NextDurable]_allVars => Renamed'
  BY NextRenamed
<1>3. Base /\ Renamed => ReseedPublishes
  <2> SUFFICES ASSUME Base, Renamed, recent # {}, \A s \in recent : pc[s] = "done"
               PROVE  path # NoFile /\ kind[path] = "db" /\ Committed(path) \cap recent # {}
    BY DEF ReseedPublishes
  <2>1. PICK s \in recent : path # NoFile /\ fd[s] = path
    BY DEF Renamed
  <2>2. s \in Seeders /\ pc[s] = "done"
    BY DEF Base, Alive
  <2>3. kind[path] = "db" /\ s \in Committed(path)
    BY <2>1, <2>2 DEF Base, Typed, Files, Committed
  <2> QED
    BY <2>1, <2>3
<1> QED
  BY <1>1, <1>2, <1>3, Based, PTL DEF SpecDurable
=============================================================================
