--------------------------- MODULE DispatchCheck ---------------------------
(***************************************************************************)
(* dispatch (internal/oci/routes.go) against the URL patterns its comment  *)
(* lists.  In a behaviour a client spells a path, segment by segment, and  *)
(* sends it as it stands, or sends a request for the repository that the   *)
(* path names; dispatch makes a call of it.                                *)
(***************************************************************************)
EXTENDS OciDispatch, FiniteSets

CONSTANTS
  Words,       \* segments of paths, the reserved ones among them
  Refs,        \* tags and digests
  MaxSegments  \* the longest path, in segments; a name has two less

\* Words are strings without "/", and so are those of a tag or digest.
ASSUME InputsAssumption ==
  /\ Words \subseteq STRING /\ "/" \notin Words
  /\ Refs \subseteq Seq(STRING) \ {<<>>}
  /\ \A r \in Refs : \A k \in 1 .. Len(r) : r[k] # "/"

\* A segment may be empty, so that slashes repeat.
Segment == {<<>>} \cup {<<w>> : w \in Words}
Slashes(p) == {k \in 1 .. Len(p) : p[k] = "/"}

\* Does p name a repository, with a slash before the name?
NamesRepository(p) ==
  p # <<>> /\ \A k \in Slashes(p) : k < Len(p) /\ k + 1 \notin Slashes(p)

Requests(name) ==
       {[op |-> "ListTags", name |-> name]}
  \cup {[op |-> "GetManifest", name |-> name, reference |-> r] : r \in Refs}
  \cup {[op |-> "GetBlob", name |-> name, digest |-> r] : r \in Refs}

\* The URL patterns of the Distribution specification, after "/v2".
Url(r) ==
  <<"/">> \o r.name \o
    CASE r.op = "ListTags"    -> tagsList
      [] r.op = "GetManifest" -> manifests \o r.reference
      [] r.op = "GetBlob"     -> blobs \o r.digest

\* The call that a request is meant to become.
Intended(r) ==
  IF r.op = "GetBlob" THEN [op |-> "GetBlob", digest |-> r.digest] ELSE r

Anything == [op |-> "Anything"]
Pending == [op |-> "Pending"]

-----------------------------------------------------------------------------
VARIABLES
  request,  \* what the client asks for, or Anything
  param,    \* the path after "/v2" that gin hands over
  call      \* the call that dispatch makes of the path, or Pending

checkVars == <<request, param, call>>

InitCheck == request = Anything /\ param = <<>> /\ call = Pending

Unsent == request = Anything /\ call = Pending

\* The catch-all route takes any path that begins with a slash.
Spell ==
  /\ Unsent /\ Cardinality(Slashes(param)) < MaxSegments
  /\ \E segment \in Segment : param' = param \o <<"/">> \o segment
  /\ UNCHANGED <<request, call>>

Ask ==
  /\ Unsent /\ NamesRepository(param) /\ Cardinality(Slashes(param)) + 2 <= MaxSegments
  /\ request' \in Requests(Tail(param))
  /\ param' = Url(request')
  /\ UNCHANGED call

Dispatch ==
  /\ call = Pending /\ param # <<>>
  /\ call' = dispatch(param)
  /\ UNCHANGED <<request, param>>

NextCheck == Spell \/ Ask \/ Dispatch

SpecCheck == InitCheck /\ [][NextCheck]_checkVars

-----------------------------------------------------------------------------
Called(r) == call = Intended(r)
Reserved(name) == "manifests" \in {name[k] : k \in 1..Len(name)}

(***************************************************************************)
(* RequestReachesHandler: the request for the tags, a manifest or a blob   *)
(* of any repository calls its own handler with its own arguments, also    *)
(* when a segment of the name is itself "tags", "list", "blobs" or         *)
(* "_catalog"; for blobs, unless a segment of the name is "manifests"      *)
(* (internal/oci/routes.go 45-79).                                         *)
(***************************************************************************)
RequestReachesHandler ==
  request # Anything /\ call # Pending =>
    Called(request) \/ (request.op = "GetBlob" /\ Reserved(request.name))

(***************************************************************************)
(* CallIsSpelled: whatever the path, a handler is only ever called with    *)
(* arguments that the path spells out at the places the patterns name:     *)
(* overlapping prefix, infix and suffix never yield a word twice or drop   *)
(* one.  The one exception is "/tags/list" itself, whose name comes out as *)
(* "tags/list" (internal/oci/routes.go 45-79).                             *)
(***************************************************************************)
CallIsSpelled == Spelled(param, call)

(***************************************************************************)
(* FreeformNamesServeBlobs: specs/001-gemara-oci-registry/spec.md 266 lets *)
(* a repository name be any path.  So every blob request would reach the   *)
(* blob handler (internal/oci/routes.go 57-79).                            *)
(***************************************************************************)
FreeformNamesServeBlobs ==
  request # Anything /\ request.op = "GetBlob" /\ call # Pending => Called(request)
=============================================================================
