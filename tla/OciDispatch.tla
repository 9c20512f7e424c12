---------------------------- MODULE OciDispatch ----------------------------
(***************************************************************************)
(* internal/oci/routes.go: which handler a request under /v2/ reaches.     *)
(* Repository names hold slashes, so one catch-all route receives every    *)
(* path and dispatch takes it apart by searching for fixed infixes.        *)
(***************************************************************************)
EXTENDS GoStrings

tagsList  == <<"/", "tags", "/", "list">>
manifests == <<"/", "manifests", "/">>
blobs     == <<"/", "blobs", "/">>

NotFound == [op |-> "NotFound"]

\* The manifest branch; k is the offset of the last "/manifests/" in p.
dispatchManifest(p, k) ==
  LET name == TrimPrefix(Before(p, k), <<"/">>)
      reference == From(p, k + Len(manifests))
  IN IF name = <<>> \/ reference = <<>> THEN NotFound
     ELSE [op |-> "GetManifest", name |-> name, reference |-> reference]

\* The blob branch; the handler is not told the name.
dispatchBlob(p, k) ==
  LET name == TrimPrefix(Before(p, k), <<"/">>)
      digest == From(p, k + Len(blobs))
  IN IF name = <<>> \/ digest = <<>> THEN NotFound
     ELSE [op |-> "GetBlob", digest |-> digest]

\* Mutant: the leading slash stays in the name.
dispatchTags_Slash(p) ==
  LET name == TrimSuffix(p, tagsList)
  IN IF name = <<>> THEN NotFound ELSE [op |-> "ListTags", name |-> name]

dispatchTags(p) ==
  LET name == TrimSuffix(TrimPrefix(p, <<"/">>), tagsList)
  IN IF name = <<>> THEN NotFound ELSE [op |-> "ListTags", name |-> name]

\* Mutant: manifests are looked for before "/tags/list".
dispatch_ManifestsFirst(p) ==
  CASE p \in {<<>>, <<"/">>} -> [op |-> "V2Check"]
    [] p = <<"/", "_catalog">> -> [op |-> "ListCatalog"]
    [] LastIndex(p, manifests) >= 0 -> dispatchManifest(p, LastIndex(p, manifests))
    [] OTHER ->
         LET b == LastIndex(p, blobs)
         IN IF HasSuffix(p, tagsList) THEN dispatchTags(p)
            ELSE IF b >= 0 THEN dispatchBlob(p, b)
            ELSE NotFound

\* p is gin's parameter *path: what follows "/v2", from the slash on.
dispatch(p) ==
  CASE p \in {<<>>, <<"/">>} -> [op |-> "V2Check"]
    [] p = <<"/", "_catalog">> -> [op |-> "ListCatalog"]
    [] HasSuffix(p, tagsList) -> dispatchTags(p)
    [] OTHER ->
         LET m == LastIndex(p, manifests)
             b == LastIndex(p, blobs)
         IN IF m >= 0 THEN dispatchManifest(p, m)
            ELSE IF b >= 0 THEN dispatchBlob(p, b)
            ELSE NotFound

-----------------------------------------------------------------------------
(***************************************************************************)
(* Spelled: the path p spells out what the handler is called with, where   *)
(* the patterns of routes.go 45-79 have it.  The handler of a blob is not  *)
(* told the name, but there is one, and the digest is all that follows the *)
(* last "/blobs/".  "/tags/list" has no name, but one comes out.           *)
(***************************************************************************)
Spelled(p, call) ==
  CASE call.op = "ListTags"    -> p = <<"/">> \o call.name \o tagsList \/ p = tagsList
    [] call.op = "GetManifest" -> p = <<"/">> \o call.name \o manifests \o call.reference
    [] call.op = "GetBlob"     -> /\ HasSuffix(p, blobs \o call.digest)
                                  /\ Len(p) > Len(blobs \o call.digest) + 1
                                  /\ Occurrences(call.digest, blobs) = {}
    [] OTHER -> TRUE
=============================================================================
