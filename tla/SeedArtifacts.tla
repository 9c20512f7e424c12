--------------------------- MODULE SeedArtifacts ---------------------------
(***************************************************************************)
(* What a seed process (hack/seed/main.go) makes of its table of artifacts *)
(* before any of it is on disk: blobs named by their sha256 digest, and    *)
(* the entries of the index.  The operators are pure.                      *)
(***************************************************************************)
EXTENDS Naturals, Sequences

CONSTANTS
  Seeders,      \* runs of "go run ./hack/seed"
  Repos, Tags,  \* repository names and tags, sequences of words
  Contents,     \* bytes that a layer may hold
  Artifacts,    \* Artifacts[s]: the sequence of artifactDefs that s seeds
  EmptyConfig,  \* the content "{}"
  Hex(_),       \* sha256.Sum256 of some bytes, printed in hexadecimal
  Marshal(_),   \* json.Marshal of a manifest
  NoBlob        \* no blob

artifactDef == [repo : Repos, tags : SUBSET Tags, layers : Seq(Contents)]

ASSUME ArtifactsAssumption == Artifacts \in [Seeders -> Seq(artifactDef)]

(***************************************************************************)
(* What an artifact becomes.  A digest is a string of three words, so that *)
(* the registry can tell it from a tag by its prefix.                      *)
(***************************************************************************)
digestOf(data) == <<"sha256", ":", Hex(data)>>

EmptyConfigDigest == digestOf(EmptyConfig)

manifest(a) ==
  [config |-> EmptyConfigDigest,
   layers |-> [k \in 1..Len(a.layers) |-> digestOf(a.layers[k])]]

\* Mutant: the manifest is marshalled before its layers are in it.
manifestDigest_Early(a) == digestOf(Marshal([manifest(a) EXCEPT !.layers = <<>>]))

manifestDigest(a) == digestOf(Marshal(manifest(a)))

\* The blobs of an artifact in the order in which the loop writes them.
WriteList(a) == Append(manifest(a).layers, manifestDigest(a))

tagKey(repo, tag) == repo \o <<":">> \o tag
tagKeys(a) == {tagKey(a.repo, t) : t \in a.tags}

Seeded(s) == {Artifacts[s][k] : k \in 1..Len(Artifacts[s])}
Keys(s) == UNION {tagKeys(a) : a \in Seeded(s)}

Written(a) == {WriteList(a)[k] : k \in 1..Len(WriteList(a))}
Digests == {EmptyConfigDigest} \cup UNION {Written(a) : a \in UNION {Seeded(s) : s \in Seeders}}
TagKeys == UNION {Keys(s) : s \in Seeders}

ASSUME NoBlobAssumption == NoBlob \notin Digests

-----------------------------------------------------------------------------
(***************************************************************************)
(* An index holds two buckets, each a finite map.                          *)
(***************************************************************************)
EmptyBucket == [x \in {} |-> x]
EmptyIndex == [tags |-> EmptyBucket, manifests |-> EmptyBucket]

\* bucket.Put of the value v under every key of K.
Put(bucket, K, v) ==
  [x \in DOMAIN bucket \cup K |-> IF x \in K THEN v ELSE bucket[x]]

\* The blobs that a client following the manifest m downloads.
References(m) == {m.config} \cup {m.layers[k] : k \in 1..Len(m.layers)}

\* The blobs that an index promises: each manifest's own and all it names.
Reachable(idx) ==
  DOMAIN idx.manifests \cup UNION {References(idx.manifests[d]) : d \in DOMAIN idx.manifests}

-----------------------------------------------------------------------------
(***************************************************************************)
(* What the first n artifacts of a seed make of an index: a tag names the  *)
(* last of them that has it.  This says in one step what the loop of Puts  *)
(* does in many.                                                           *)
(***************************************************************************)
The(singleton) == CHOOSE m \in singleton : TRUE

Tagged(s, n, key) ==
  {m \in 1..n : /\ key \in tagKeys(Artifacts[s][m])
                /\ \A later \in m + 1 .. n : key \notin tagKeys(Artifacts[s][later])}

Stored(s, n, d) ==
  {m \in 1..n : /\ d = manifestDigest(Artifacts[s][m])
                /\ \A later \in m + 1 .. n : d # manifestDigest(Artifacts[s][later])}

SeededTags(s, n, tags) ==
  [key \in DOMAIN tags \cup UNION {tagKeys(Artifacts[s][m]) : m \in 1..n} |->
     IF Tagged(s, n, key) = {} THEN tags[key]
     ELSE manifestDigest(Artifacts[s][The(Tagged(s, n, key))])]

SeededManifests(s, n, manifests) ==
  [d \in DOMAIN manifests \cup {manifestDigest(Artifacts[s][m]) : m \in 1..n} |->
     IF Stored(s, n, d) = {} THEN manifests[d]
     ELSE manifest(Artifacts[s][The(Stored(s, n, d))])]

SeededIndex(s, n, idx) ==
  [tags |-> SeededTags(s, n, idx.tags), manifests |-> SeededManifests(s, n, idx.manifests)]

SeedOver(s, idx) == SeededIndex(s, Len(Artifacts[s]), idx)
=============================================================================
