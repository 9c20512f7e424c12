# A TLA+ development of the Gemara content service

The service ("compass") serves Gemara artifacts as an OCI registry and enriches
evidence with compliance context. This directory holds TLA+ models of it, the
TLC configurations that check them, and proofs that TLAPS checks. Paths below
are relative to the repository.

    tlc -workers 2 -config MCSeedStore.cfg MCSeedStore.tla    # one run
    tlapm SeedStore_proofs.tla                                # one module of proofs

## 1. The system's parts

| component | code | state | operations |
|---|---|---|---|
| seed loader | `hack/seed/main.go` | the process's place, one uncommitted bbolt transaction | write blobs, remove and re-create `index.db`, put manifests and tags, commit |
| storage root | written by the seed loader, read by compass | blob files by digest; `index.db` with two buckets and a file lock | shared by all processes |
| registry reads | `internal/oci/registry.go` | none of its own | `ListRepositories`, `ListTags`, `GetManifest`, `BlobPath` |
| handlers, dispatch | `internal/oci/handler.go`, `routes.go`, `errors.go` | none | one catch-all route, five handlers |
| pull client | `internal/oci/integration_test.go` | what it has learnt so far | handshake, catalog, tags, manifest, blobs |
| start-up | `cmd/compass/main.go` | the open index, the listening socket | load, open, listen, stop |
| server assembly | `cmd/compass/server/server.go` | the middleware chain | `NewGinServer`, `SetupTLS` |
| configuration | `cmd/compass/server/config.go` | the mapper set and the scope | `NewScopeFromCatalogPath`, `NewMapperSet`, `NewMapperFromDir` |
| enrichment | `service/service.go`, `mapper/` | read-only after start-up | `PostV1Enrich`, `Map`, `AddEvaluationPlan` |
| JWT authentication | `internal/middleware/jwtauth.go` | the OIDC verifier | `NewJWTAuth`, `Middleware` |
| access log | `internal/middleware/accesslog.go` | none | a line per request |
| logging set-up | `internal/logging` | none | level and format |
| API types | `api/*.gen.go` | none | generated |

**How they interact.** Seed processes and compass processes share a storage root
and nothing else: the file system and bbolt's file lock are all that coordinates
them. A compass process loads its catalog and evaluations, opens the index,
sets up JWT and TLS, and listens. Its requests run concurrently over the open
index, the mapper set and the scope, none of which is written after start-up.

**What is hard.** The storage root: several writers and readers in any order,
deaths between any two steps, a dropped error of `os.Remove`, blobs rewritten in
place, locks awaited without a time limit. A pull is several requests, between
which servers restart on another index. `dispatch` searches freeform paths for
reserved words. `Map` ranges over a Go map. Start-up retries its provider while
it holds the lock that seed processes wait for. A crash of the machine keeps what
bbolt flushed and may lose everything else. Requests share the verifier's cached
keys, while tokens expire and keys rotate between a check and its use; which
middlewares a route has depends on the order of registration. `PROJECT.json`
lists each of these hazards with its line.

**What makes each part correct.**
Storage root: an index shows all of what each of its seed processes seeded or
none, promises only what is on disk, and does not move under a running server.
Registry and handlers: a pull from one server meets no error, and listings say
what was seeded. Dispatch: each request reaches its handler with its arguments.
Enrichment: one policy, one answer, and the one the files give. Start-up:
listen only with everything asked for, or exit. Authentication: a handler of any
route runs only for a request whose token passed every check, whichever the
settings. Server and access log: each request gets one answer, and its line in
the log says which; a request that gin redirects, or whose handler panics, has
no line.

## 2. The modules

    SeedArtifacts --> SeedStore --> DurableStore, RegistryPull
                          |   \--- Registry == INSTANCE Snapshots
                          \------- CompassServer: Store == INSTANCE SeedStore

    GoStrings --> OciDispatch --> DispatchCheck
                          \-----> OciRegistry --> RegistryPull

    BasicMapper --> Enrichment

    JwtAuth --> HttpServer: TheGate == INSTANCE Gate

An arrow is EXTENDS; an INSTANCE names the abstract specification that the
module implements. The `..._proofs` of SeedStore, DurableStore, OciDispatch,
RegistryPull, CompassServer, Enrichment and HttpServer hold the theorems, with
`LeftFolds`, what a fold over a sequence computes; `MC...` are the instances for
TLC. SeedTable is the table of artifacts in `main.go`, which MCRegistryPull
seeds.

**SeedArtifacts** is the pure part of the seed loader: what it computes from an
artifact (blobs, manifest, tag keys) and what an index promises. At its end
stands a specification, `SeedOver`: what a whole seed makes of an index.

**SeedStore** is the storage root with its seed processes and, as far as the
index goes, its compass processes.

- An inode of `index.db` is named after the seed process that created it: a seed
  process opens the index once. `path` is the inode that the name `index.db`
  has, or none; a removed inode lives on in its open files. `kind` tells an
  inode that has no bbolt pages yet from a database.
- A blob is `absent`, `torn` (truncated by `os.WriteFile` and not yet written)
  or `whole`. Writing one takes two steps.
- `index[i]` is what the last transaction committed to `i` left there; `tx[s]`
  is the seed process's own transaction, invisible until it commits.
- Actions follow `main`: `BeginBlob`, `EndBlob`, `RemoveIndex` (whose error is
  dropped, so the file may stay), `OpenIndex`, `LockIndex` (waits for the
  exclusive lock; makes the buckets), `PutArtifact`, `Commit`, `Close`, and
  `Die` before any of them up to the commit. A dead process keeps `writing`:
  the file it truncated stays torn.
- `OpenServer`, `LockServer`, `StopServer` are what compass does to the index.

**Snapshots** is what its readers may take the storage root for: files that each
hold the outcome of whole seeds, one after the other, and servers that each look
at one of them. A seed is published in one step, `Publish`, into a file that no
server looks at. `Registry` maps SeedStore to it: contents are the committed
indexes, a server looks at the file it has locked, and a seed is published when
its process commits.

**DurableStore** puts SeedStore on a machine that crashes. bbolt flushes a
transaction before `db.Update` returns; nothing else is flushed: blobs, the name
that `os.Remove` takes away, the name that `bolt.Open` creates. So `Crash` picks
for every blob any state that its file has had since the last crash (`leaves`),
and for the name any inode it has had (`leavesPath`); pages inside one inode
keep bbolt's own guarantee. Every process ends in a crash. `recent` are the seed
processes started since, whose work the properties are about.

**OciDispatch, OciRegistry** are the pure functions of the HTTP side, over
**GoStrings**, the functions of Go's `strings` on sequences of words. A name is
a sequence of words and slashes, so prefixes, infixes and suffixes behave as on
text as far as the reserved words go. **RegistryPull** adds clients to SeedStore:
each request is answered by dispatch and the registry from the index that the
server holds, in one step, because one bolt read transaction serves it; a blob
takes two steps, because `GetBlob` checks the file and `c.File` opens it later.
**DispatchCheck** is a client that spells a path segment by segment (`Spell`; the
catch-all route takes any) and sends it as it stands, or sends a request for the
repository it has named (`Ask`), and one call of `dispatch`.

**BasicMapper** is the pure part of `basic.go`; **Enrichment** is start-up's
reading of catalog and evaluations, file by file, and concurrent requests, whose
loops through the catalogs take one catalog per step in any order, as Go's
`range` over a map does.

**CompassServer** is a whole compass process: loading, the index, the OIDC
provider with its three attempts, TLS, listening, every exit. Its `spc` maps its
stages to what SeedStore sees, and `Store == INSTANCE SeedStore` is the abstract
specification that it implements: SeedStore's server may be taken for the real
one.

**JwtAuth** is `NewJWTAuth` and the checks of a token without their steps: what
the settings and the two environment variables, which override each other in
opposite directions, make of the verifier. **HttpServer** is a process that
listens: the chains of handlers that `NewGinServer` builds for each kind of
route, in the order in which gin collects them, and requests that walk them
side by side.

- `todo[r]` are the handlers of the request's chain that have yet to run,
  `entered[r]` those that wait in their `c.Next`. `Enter` goes into the
  middlewares that call it, `Leave` is their code after it; `Abort` empties
  `todo`; `Panic` unwinds to `gin.Recovery`, past the access log's line, which
  is not deferred. gin redirects (307; 301 for GET alike) before any middleware.
- The JWT middleware takes four steps: the header, the claims as far as the
  cached keys go, the provider's keys if none fits, the subject. Between them
  tokens `Expire`, the provider `Rotate`s its keys, and other requests replace
  `cached`. `FetchKeys` may also fail; it may also never happen.

**Gate** is its abstract specification: a request may be admitted only while it
is entitled to be, a refused one never is, and a handler runs only for an
admitted one. `Entitled` is what the code can know: claims that are right now,
or were when `Verify` looked at them before it waited for keys; a key that the
provider publishes, or published when the keys were last fetched.

**Abstractions.** Contents of layers are model values; `Hex` and `Marshal` are
parameters, and no proof assumes that they are injective, but for the one of
`DigestsPin`. Media types,
annotations and sizes of a manifest are left out, so are response headers other
than the manifest's digest. Lists in responses whose order comes from bbolt or a
Go map are sets. A bucket that does not exist is an empty one. A YAML file is
its parsed content or unreadable. An assessment plan's procedures are one
sequence in document order, and so are a catalog's controls. I/O errors inside
a request (500) are left out, but a handler's panic is not. A death in
SeedStore is that of a process, one in DurableStore that of the machine.

bbolt, `flock`, the file system, gin and go-oidc are modelled from how the code
uses them: a transaction commits at once or not at all, a read-only open takes a
shared lock and creates nothing, the lock goes with its process.

## 3. The runs

| run | instance | states | shows |
|---|---|---|---|
| `seed_store` | 2 seed processes (one artifact; two artifacts), 2 servers | 82,000 | `TypeOK`, `TagsResolve`, `ReachableIntact`, `AllOrNothing`, `QuietMeansPublished`, `StableSnapshot`, `ImplementsSnapshots` |
| `durable_store` | 2 seed processes of one catalog, the second with a policy beside it; 1 server, 1 crash | 180,000 | `TypeOKDurable`, `AllOrNothing`, `ReseedRepairs`, `FreshIndexIntact`, `ReseedPublishes`, `ReseededTagsPull` |
| `registry_pull` | 2 seed processes (the code's table; a later version of it), 1 server, 1 client | 261,000 | `TypeOKPull`, `SessionConsistent`, `NoBrokenPull`, `ListingsMatchSeed`, `PinnedManifest` |
| `dispatch` | every path of up to 5 segments over 6 words, empty segments included; every request for names of up to 3 segments | 44,000 | `RequestReachesHandler`, `CallIsSpelled` |
| `enrichment` | every configuration of 0 to 2 plugins over 8 directories, 5 catalogs; 2 requests | 29,000 | `TypeOK`, `AnswersAgree`, `AnswerMatchesFiles`, `ServesOnlyWhatLoads` |
| `compass_server` | 2 seed processes, 1 compass process, 9 settings: each that loads, one that does not | 131,000 | `TypeOKProcess`, `ReadyWhenListening`, `ImplementsStore` |
| `compass_server_live` | 2 seed processes, 1 compass process, settings that load | 70,000 | `StartDecides`, `SeedEnds` |
| `http_server` | 2 requests of 9 kinds, 6 settings, 2 keys, 1 rotation | 186,000 | `TypeOKServer`, `OnlyDocumentedTokens`, `LogTellsAnswer`, `ImplementsGate`, `RequestsEnd` |

Why these bounds are enough to meet the interesting cases:

- Two seed processes are what it takes to remove each other's index, to meet in
  one file after a failed removal, to move a tag, and to truncate a blob that
  the other's index promises; the second has two artifacts, so that it can die
  between them. Two servers are what it takes to hold two indexes at once.
- One client suffices for `registry_pull`: clients write nothing that another
  client or process reads. Its server may stop and start again on another index
  between any two of its requests. One repository name begins with another's
  and has the reserved segment `blobs`.
- Five segments are a name of one to three and the longest pattern; the last
  `/manifests/` and `/blobs/` can then overlap with each other, with the suffix
  and with the name in each way.
- The evaluation files shadow one another within a file, between files and
  between plugins of one id; they name an absent control, another catalog and
  none; one cannot be read. Two requests are a pair to disagree.
- One crash (`MaxCrashes`) is enough for `durable_store`: what a crash leaves is
  any state since the one before, a state that the second crash would find is
  one that the first could have left, and `recent` forgets what was before. Both
  processes write the catalog's blob, so the second meets what the crash made of
  the first one's; both have the tag `latest`, with other manifests, so a second
  that ends up in the first one's index finds its tag leading to what was lost.
- Two requests share the cached keys; a third could change them no further. One
  rotation (`MaxRotations`) takes a key away between its use and a check, or
  brings the one that a token is signed with. The settings are: no
  authentication, neither authentication nor storage root, no audience, the
  environment's audience over the configuration's with a list of subjects, DNS
  bypass, an issuer of its own. Each token fails one check under one of them.
- `attempt` is bounded by the code (3) and the length of a path by `MaxSegments`;
  no other counter grows.

`CHECK_DEADLOCK FALSE` is set for `dispatch`, whose behaviour is one call, and
for `enrichment` and `http_server`, where a process that exited, or answered all
its requests, stops. Everywhere else deadlock is checked: a server can always be
stopped or started. That check is shallow, and the liveness runs are what shows
that nobody waits for ever, the exceptions below aside.

**Fairness.** A started seed process and a server waiting for a lock are weakly
fair: the operating system schedules them, and `bolt.Open` tries the lock again
every 50 ms, so a waiter gets it when it becomes free for good. It need not get
one that is free again and again: a server that is restarted over and over and
exits before it listens, because of its provider or its certificates, can keep a
seed process waiting for ever. TLC found this, and `SeedEnds` says so. A compass
process is weakly fair in the steps it takes by itself, and so is a request.
Nothing is fair that the code does not do by itself: starting a
process, stopping one, dying, and the provider's answer. Hence the exceptions
that the liveness properties make: a seed process waits as long as a running
server holds its file, and one unanswered attempt at the provider holds up a
start (and its lock) as long as it lasts; in `RequestsEnd` it holds up a request,
whose context has no deadline.

**Where code and documents disagree.** Four runs each show one violation:

| run | the document says | the code does |
|---|---|---|
| `start_without_index` | a server without `index.db` creates an empty one | exits, because it opens read-only |
| `dispatch_freeform` | repository names are freeform | blobs of a repository with a segment `manifests` cannot be pulled |
| `registry_pull_torn` | a blob response is the content of its digest | a re-seed truncates blobs in place under a running server |
| `enrichment_arrays` | `frameworks` and `requirements` are arrays | a control without mappings has `null` for both |

More disagreements can be read off the models and need no run.
`specs/001-gemara-oci-registry/spec.md` 212-213 has every error in the OCI format,
but `dispatch` answers a path that fits no pattern with a plain 404; its line 183
says that no endpoint may require authentication in this phase, but with JWT
enabled every route does. With JWT enabled and no audience configured, as in the
demo configuration (`hack/demo/config.yaml` 10-11), no token at all is let in.
`docs/JWT_AUTHENTICATION.md` 17 names `KUBERNETES_SERVICE_HOST`, which the code
never reads; its line 24 speaks of three retries with pauses of 1, 2 and 4
seconds, where the third attempt is the last and the third pause never taken;
and its line 144 has requests answered with 503 after a failed initialization,
where the process exits. The comment at `internal/middleware/accesslog.go` 11 has
a line for each request; one that gin redirects, or whose handler panics, has
none, and `LogTellsAnswer` says so.

## 4. What is proved

All theorems hold for any number of processes and requests, and any values of
the constants that satisfy the named assumptions. Every invariant and action
property of section 3 is a theorem, and so is every refinement.

**SeedStore_proofs** (assumes `ArtifactsAssumption`, `NoFileAssumption`,
`NoBlobAssumption`):

- `TypeCorrect`. `TypeOK` is not inductive alone: it needs `Files`, that a
  process past `OpenIndex` has a file that is not free, and `Typed` is both.
- `SnapshotsAreStable`, from `Locks`: a seed process between `LockIndex` and
  `Close` shares its file with no other such process and no running server. So
  the `Commit` that changes an index is never one a running server holds.
- `TagsAlwaysResolve`, from `AllResolve`: what holds of every committed index
  has to hold of every transaction, because one becomes the other.
- `PromisesAreKept`, from `Steady`, four parts: what a process is writing is its
  next blob (`Writing`); its inode is untouched until it opens it (`Fresh`); it
  has made intact all that its next `Put` relies on (`Progress`); indexes and
  transactions promise intact blobs only (`Promised`). "Intact" is whole or
  inside somebody's `os.WriteFile`, since a blob may be truncated again.
- `SeedsAreAtomic`, from `Tally`: a transaction has the tags of the index it
  began with and those put so far, and the lock keeps that index as it is.
- `QuietIsPublished`, from `Named`: if `index.db` names no file then somebody
  who may have removed it is still to open it, or died.

The same module's last section is `StoreImplementsSnapshots`, that `Spec`
implements `Registry!Spec`. Besides `Typed` and `Locks` it takes `Serial`: a
transaction is what the artifacts put so far make of the index it began with
(`Folding`), so at the commit it is `SeedOver` of that index. Every other step
maps to `Open`, `Leave` or a stutter.

**DurableStore_proofs** (in addition `MaxCrashesAssumption`). A step that is no
crash is one of SeedStore, so the lemmas above apply; a crash is shown to keep
`Typed`, `Locks`, `Tally`, and so on, which together are `Base`.
`SeedsSurvive` is `AllOrNothing` again, and `DurablyTyped` is `TypeOKDurable`.
`Promised` does not survive: what a crash loses, old indexes still promise. So
the rest is about processes started since:

- `ReseedsRepair`, from `Repaired`: what such a process has made, and all of the
  artifacts it has put, is intact.
- `FreshIndexesIntact`, from `FreshPromises`: so is what an index promises that
  only such processes committed to, or a transaction upon such an index; and
  from `Untouched`: an index that nobody has committed to is empty.
- `ReseedsPull`, that is `ReseededTagsPull`, from `Reseeded`: in an index that
  such a process committed to, and in the transaction that follows, its tags lead
  to intact manifests and blobs, whatever else an old index still promises; so do,
  in its own transaction, those that it has put so far. `FreshPromises` says
  nothing of an index that was there before the crash, which is why this is
  needed: `PutMade` and `PutPulls` say what one `Put` does to one tag, and `Locks`
  that nobody commits to the index in the meantime.
- `ReseedsPublish`, from `Renamed`: once one of them has opened the index, the
  name is a file that one of them has open, or one is about to open, or died.

**CompassServer_proofs**: `ProcessImplementsStore`, that `Spec` implements
`Store!Spec`. The invariant is `Opened`: a process before `bolt.Open` or after
its exit has no file, one that waits for a lock has one. Each step of `main` is
then shown to be `OpenServer`, `LockServer`, `StopServer` or a stutter.
`ListensWhenReady` is `ReadyWhenListening`, from `Prepared`: a process has, at
each stage, all that the stages before it were to give it. That its file stays a
database is a fact about the seed processes (`Files`, `Databases`).
`ProcessTyped` is `TypeOKProcess`; that no fourth attempt is made is `Counted`.
`StoreUnderProcesses` carries the theorems of SeedStore over the refinement:
tags resolve, promised blobs are there, seeds are atomic and a quiet root is
published beside whole processes too. It needs `StoreAssumption`, which is what
SeedStore assumes of the same constants.

**OciDispatch_proofs**: `TagsRequest`, `ManifestRequest` and `BlobRequest`, that
`dispatch` gives a request its own arguments back, for names and references of
any length. A reference has no slash, so the last `/manifests/` or `/blobs/` of
the path is the one that the client put there (`LastIndexIs`); the
blob's case excepts names with a segment `manifests`. `CallsAreSpelled` is the
converse and says what `CallIsSpelled` checks, of every path with a slash in
front, gin's own: no handler gets an argument that the path does not spell out
where the pattern has it. A prefix, a suffix or the last infix splits a path into
parts that make it up again (`PrefixSplit`, `SuffixSplit`, `OccurrenceSplit`);
that the last occurrence exists is well-foundedness of the numbers (`Greatest`).

The last section is about DispatchCheck, and its `InputsAssumption`:
`RequestsReachHandlers` is `RequestReachesHandler`, and `SpelledCalls` is
`CallIsSpelled`, for any words and references and without a bound on the path.
Their inductive invariant is `Asked`: a path begins with a slash as soon as it is
not empty; a request is one of the three kinds, its path spelt as the pattern
says (`Sent`); the call is what `dispatch` makes of that path, or none yet.
`NamesRepository` is what gives a request a name that is not empty
(`TailIsName`). RegistryPull_proofs extends this module for its lemmas about
`dispatch` alone, and uses nothing of DispatchCheck.

**RegistryPull_proofs** (assumes `ServableNames`: what names of repositories and
tags may contain, and `HexDecodes`: what is printed in hexadecimal is one word
that decodes again):

- `PullsOverStore`: clients change nothing of the storage root, so every theorem
  about SeedStore holds during pulls. `Sourced` adds that an index holds only
  what some seed process put, `BlobsStay` that a blob once there is never absent.
- `SessionsAreConsistent` and `PullsNeverBreak`, from `Pulls`: what a client has
  picked was once served (`Picked`), and as long as its server has not been
  restarted, it is in the index that the server holds (`Live`). One lemma per
  request turns the handler's answer into a fact about the index
  (`CatalogAnswer`, `TagsAnswer`, `ByTagAnswer`, ...), through the theorems about
  `dispatch` and the keys: a key splits into its repository and tag in one way
  only (`KeyParts`, `KeyUnique`).
- `CatalogsTellSeed` is `ListingsMatchSeed`, from the same lemmas about keys and
  `SeedsAreAtomic`. `PullTypesCorrect` is `TypeOKPull`.
- `DigestsPin` is `PinnedManifest`, an action property. It alone needs
  `NoCollisions`: SHA-256 tells the seeded manifests apart.

**Enrichment_proofs** (assumes `InputsAssumption`):

- `SamePolicySameAnswer`: at most one catalog is in the scope (`Scoped`), a loop
  that still runs has not passed over a match (`Searching`), so an answer given
  is the one that does not depend on the order (`Settled`). What a turn of the
  loop computes stays opaque here.
- `NoHalfLoadedService`: everything before the place that loading has reached
  could be read (`Behind`), and `Serve` comes at the end.
- `AnswersMatchFiles`: an answer is what the files say, for files and catalogs
  of any length. The mappers are folds of assignments into maps, and each
  assignment overwrites, so the last place that has the key decides
  (`LastDecides`): the last procedure of a plan (`ProcedureAt`), the last plan of
  a file (`PlansAdded`), the last file and plugin (`Filing`, the inductive
  invariant: what has been filed is what has been read so far), the last control
  of a catalog (`ControlAt`). `TurnMaps` is then what one turn of the loop
  computes, and `AnswerExpected` that it is the reference's answer.
- `EnrichmentTyped` is `TypeOK`, which says of the mappers that every plan is
  filed under its own catalog: `Filed`, a part of the same invariant.

**LeftFolds** is what the last two rest on. `FoldLeft` chooses a recursive
function on sets of positions; `Chain` shows that there is one and that its
values are the results after one element, two elements, and so on; `FoldMore`
is the step from a sequence to one that is longer by an element. The induction
is by the least counterexample (`Least`, from the well-foundedness of `<`), over
a set and not over a predicate.

**HttpServer_proofs** (assumes `NoneAssumption`, `KeysAssumption`):

- `ServerImplementsGate`, that `Spec` implements `TheGate!Spec`, from `Kept`: as
  long as a request has no claims, every handler still in its chain comes behind
  the JWT middleware (`Barred`), which is there once at most (`Once`), and what
  the middleware has got to (`check`) says what its token has passed. A refused
  request has an empty chain. `ChainShape` shows that NewGinServer's chains have
  that shape; `TailShape` and `RestShape` that going down a chain keeps it.
- `NoneButDocumented`, that is `OnlyDocumentedTokens`, from the same invariant.
- `LogIsComplete`, that is `LogTellsAnswer`, and `ServerTypeCorrect`, that is
  `TypeOKServer`, from `Placed`: a request is at one of five places. It has not arrived
  (`Untouched`), has all of its chain before it (`Coming`), is inside the three
  outer middlewares, where nothing is written as long as something is left to run
  (`Inside`), has panicked up to `gin.Recovery` (`Broken`), or is through, with
  its line written unless gin redirected it or it panicked (`Through`). What it
  has yet to run is always the end of its own chain (`Rest`).

**Only model-checked.** Liveness: `SeedEnds`, `StartDecides` and
`RequestsEnd` rest on fairness, which needs ENABLED, out of this prover's reach.
The four violated properties of section 3 are TLC's counterexamples.

## 5. Where each hazard is caught

`PROJECT.json` maps each hazard to its properties, and each property to a
mutant, a plausible mistake in the code that violates it. The mutants stand
beside the definitions they change, under the same name with a suffix.

Four hazards have no property, because the code meets them as it is and no
document promises better. Three are waits without a limit: a seed process behind
the lock of a running server, a start whose provider never answers, a request
whose key the provider never sends. `SeedEnds`, `StartDecides` and `RequestsEnd`
except just these, and show that nothing else makes anybody wait for ever: no
lock or half-written blob of a dead process, no cycle of waits, no retry without
end. The fourth is the access log's missing line after a panic, which no handler
of today is known to cause.

## 6. Not modelled

- The logging set-up: level and format of lines, which nothing else reads. Of
  the access log's lines, all fields but the status.
- The generated types and the embedded document. The OpenAPI validator is one
  bit of a request, valid or not; what makes a body valid is the document's.
- `JWTAuthMiddleware` of `jwtauth.go`, deprecated, which nothing calls.
- The content of Gemara documents, media types, annotations and sizes, and I/O
  errors inside a request.
- Signals: `main` has no handler, so a process is stopped at any point.

## 7. Plan

Done, in the order of importance: the storage root (SeedStore), the registry on
it (OciDispatch, OciRegistry, RegistryPull), enrichment, the compass process,
authentication and the middleware chains (JwtAuth, HttpServer, Gate), the
machine that crashes (DurableStore), the abstract registry (Snapshots).

Nothing of the plan is left. If a later version of the code changes one of the
mapped operations, its action changes first, then TLC, then the lemma of that
action in the component's `..._proofs`.
