---------------------------- MODULE OciRegistry ----------------------------
(***************************************************************************)
(* internal/oci/registry.go and handler.go: how one read request is        *)
(* answered from an index and the blob files.  The operators are pure; the *)
(* index is the snapshot that a bolt read transaction sees, and a bucket   *)
(* that does not exist is an empty one: every method treats both alike.    *)
(* A list in a response is the set of its elements, which are distinct.    *)
(***************************************************************************)
EXTENDS OciDispatch

CONSTANT IsHex(_)   \* does hex.DecodeString accept the word?

\* Mutant: the separator stays in the name.
ListRepositories_Colon(idx) ==
  {Before(key, LastIndex(key, <<":">>) + 1) :
     key \in {k \in DOMAIN idx.tags : LastIndex(k, <<":">>) >= 0}}

ListRepositories(idx) ==
  {Before(key, LastIndex(key, <<":">>)) :
     key \in {k \in DOMAIN idx.tags : LastIndex(k, <<":">>) >= 0}}

\* Mutant: the prefix searched for lacks the separator.
ListTags_NoColon(idx, repo) ==
  {From(key, Len(repo) + 1) : key \in {k \in DOMAIN idx.tags : HasPrefix(k, repo)}}

\* The empty set stands for ErrRepoNotFound.
ListTags(idx, repo) ==
  LET prefix == repo \o <<":">>
  IN {From(key, Len(prefix)) : key \in {k \in DOMAIN idx.tags : HasPrefix(k, prefix)}}

\* Mutant: every reference is looked up as a tag.
Resolve_TagsOnly(idx, repo, reference) ==
  {idx.tags[k] : k \in {repo \o <<":">> \o reference} \cap DOMAIN idx.tags}

\* The digests that a reference stands for: one, or none for an unknown tag.
\* A digest is taken as it is, whatever the repository.
Resolve(idx, repo, reference) ==
  IF HasPrefix(reference, <<"sha256", ":">>) THEN {reference}
  ELSE {idx.tags[k] : k \in {repo \o <<":">> \o reference} \cap DOMAIN idx.tags}

\* The pairs of manifest and digest found: one, or none for
\* ErrManifestNotFound.
GetManifest(idx, repo, reference) ==
  {[data |-> idx.manifests[d], digest |-> d] :
     d \in Resolve(idx, repo, reference) \cap DOMAIN idx.manifests}

\* SplitN(digest, ":", 2) into an algorithm and one hexadecimal word.
ParsesAsDigest(digest) ==
  /\ Len(digest) >= 3
  /\ digest[Len(digest) - 1] = ":"
  /\ \A k \in 1 .. Len(digest) - 2 : digest[k] # ":"
  /\ IsHex(digest[Len(digest)])

\* os.Stat finds the file: blob files exist for sha256 digests only.
BlobExists(blob, digest) ==
  /\ ParsesAsDigest(digest)
  /\ digest \in DOMAIN blob
  /\ blob[digest] # "absent"

-----------------------------------------------------------------------------
Error(code) == [status |-> 404, code |-> code]

\* A response with a body; the manifest's digest travels in a header.
HandleListCatalog(idx) == [status |-> 200, repositories |-> ListRepositories(idx)]

HandleListTags(idx, name) ==
  LET tags == ListTags(idx, name)
  IN IF tags = {} THEN Error("NAME_UNKNOWN")
     ELSE [status |-> 200, name |-> name, tags |-> tags]

HandleGetManifest(idx, name, reference) ==
  LET found == GetManifest(idx, name, reference)
  IN IF found = {} THEN Error("MANIFEST_UNKNOWN")
     ELSE LET m == CHOOSE m \in found : TRUE
          IN [status |-> 200, data |-> m.data, digest |-> m.digest]

\* GetBlob up to c.File, which opens and streams the file later.
HandleGetBlob(blob, digest) ==
  IF BlobExists(blob, digest) THEN [status |-> 200, digest |-> digest]
  ELSE Error("BLOB_UNKNOWN")

\* What GET /v2 followed by p answers.
Answer(p, idx, blob) ==
  LET r == dispatch(p)
  IN CASE r.op = "V2Check"     -> [status |-> 200]
       [] r.op = "ListCatalog" -> HandleListCatalog(idx)
       [] r.op = "ListTags"    -> HandleListTags(idx, r.name)
       [] r.op = "GetManifest" -> HandleGetManifest(idx, r.name, r.reference)
       [] r.op = "GetBlob"     -> HandleGetBlob(blob, r.digest)
       [] r.op = "NotFound"    -> Error("not found")
=============================================================================
