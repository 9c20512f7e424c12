---------------------------- MODULE RegistryPull ----------------------------
(***************************************************************************)
(* Clients that pull artifacts over HTTP from compass servers, while seed  *)
(* processes rewrite the storage root and servers restart.  A client takes *)
(* the steps of internal/oci/integration_test.go: handshake, catalog,      *)
(* tags, manifest by tag, the same manifest by digest, every blob that the *)
(* manifest names.  Each request is answered by the server's own handlers: *)
(* dispatch, the registry, the index it holds open and the shared blobs.   *)
(*                                                                         *)
(* One bolt read transaction answers one request, so a request is a step.  *)
(* A blob takes two: GetBlob checks that the file exists, and c.File opens *)
(* and streams it afterwards.                                              *)
(***************************************************************************)
EXTENDS SeedStore, OciRegistry

CONSTANTS Clients, NoServer

\* The names that seed processes use: no ":" in a repository's, neither ":"
\* nor "/" in a tag.  A blob of a repository with a segment "manifests" could
\* not be requested at all: DispatchCheck shows it.
ASSUME ServableNames ==
  /\ \A r \in Repos : r \in Seq(STRING) /\ r # <<>>
  /\ \A r \in Repos : \A k \in 1 .. Len(r) : r[k] \notin {":", "manifests"}
  /\ \A t \in Tags : t \in Seq(STRING) /\ t # <<>>
  /\ \A t \in Tags : \A k \in 1 .. Len(t) : t[k] \notin {":", "/"}

\* What is printed in hexadecimal is one word, which decodes again.
ASSUME HexDecodes ==
  \A d \in Digests : d[3] \in STRING /\ d[3] # "/" /\ IsHex(d[3])

\* The bytes of seeded manifests have digests that differ when the manifests do.
ASSUME NoCollisions ==
  LET all == {manifest(a) : a \in UNION {Seeded(s) : s \in Seeders}}
  IN \A m, n \in all : digestOf(Marshal(m)) = digestOf(Marshal(n)) => m = n

VARIABLES
  cpc,       \* cpc[c]: the request that the client sends next
  cserver,   \* cserver[c]: the server it talks to
  crepo,     \* crepo[c], ctag[c]: what it picked from the listings
  ctag,
  cdigest,   \* cdigest[c]: the digest that came with its manifest
  cbody,     \* cbody[c]: that manifest
  cleft,     \* cleft[c]: the blobs it has yet to receive
  cblob,     \* cblob[c]: the blob being streamed to it, or NoBlob
  ctorn,     \* ctorn[c]: the blobs it received incomplete
  failure,   \* failure[c]: the error that ended its pull, or "none"
  restarted  \* restarted[c]: has its server stopped since the handshake?

clientVars == <<cpc, cserver, crepo, ctag, cdigest, cbody, cleft, cblob, ctorn,
                failure, restarted>>
storeVars == vars
allVars == <<storeVars, clientVars>>

ClientPC == {"idle", "catalog", "tags", "byTag", "byDigest", "blobs", "stream",
             "done", "failed"}

TypeOKPull ==
  /\ TypeOK
  /\ cpc \in [Clients -> ClientPC]
  /\ cserver \in [Clients -> Servers \cup {NoServer}]
  /\ \A c \in Clients :
       /\ crepo[c] \in Repos \cup {<<>>}
       /\ ctag[c] \in Tags \cup {<<>>}
       /\ cdigest[c] \in Digests \cup {NoBlob}
       /\ References(cbody[c]) \subseteq Digests \cup {NoBlob}
       /\ cleft[c] \subseteq Digests
       /\ ctorn[c] \subseteq Digests
       /\ cblob[c] \in cleft[c] \cup {NoBlob}
  /\ failure \in [Clients -> {"none", "NAME_UNKNOWN", "MANIFEST_UNKNOWN", "BLOB_UNKNOWN"}]
  /\ restarted \in [Clients -> BOOLEAN]

NoManifest == [config |-> NoBlob, layers |-> <<>>]

InitPull ==
  /\ Init
  /\ cpc = [c \in Clients |-> "idle"]
  /\ cserver = [c \in Clients |-> NoServer]
  /\ crepo = [c \in Clients |-> <<>>]
  /\ ctag = [c \in Clients |-> <<>>]
  /\ cdigest = [c \in Clients |-> NoBlob]
  /\ cbody = [c \in Clients |-> NoManifest]
  /\ cleft = [c \in Clients |-> {}]
  /\ cblob = [c \in Clients |-> NoBlob]
  /\ ctorn = [c \in Clients |-> {}]
  /\ failure = [c \in Clients |-> "none"]
  /\ restarted = [c \in Clients |-> FALSE]

-----------------------------------------------------------------------------
Slash == <<"/">>

\* The client's server is up and answers GET /v2 followed by p.
Reply(c, p) == Answer(p, index[sfd[cserver[c]]], blob)
Online(c) == cserver[c] # NoServer /\ spc[cserver[c]] = "up"

\* An error answer ends the pull.
Fail(c, reply) ==
  /\ reply.status = 404
  /\ failure' = [failure EXCEPT ![c] = reply.code]
  /\ cpc' = [cpc EXCEPT ![c] = "failed"]

Handshake(c) ==
  /\ cpc[c] = "idle"
  /\ \E v \in Servers :
       /\ spc[v] = "up"
       /\ Answer(Slash, index[sfd[v]], blob).status = 200
       /\ cserver' = [cserver EXCEPT ![c] = v]
  /\ cpc' = [cpc EXCEPT ![c] = "catalog"]
  /\ UNCHANGED <<storeVars, crepo, ctag, cdigest, cbody, cleft, cblob, ctorn, failure, restarted>>

\* With an empty catalog there is nothing to pull.
PullCatalog(c) ==
  /\ cpc[c] = "catalog" /\ Online(c)
  /\ LET reply == Reply(c, <<"/", "_catalog">>)
     IN \/ /\ reply.repositories = {}
           /\ cpc' = [cpc EXCEPT ![c] = "done"]
           /\ UNCHANGED crepo
        \/ \E r \in reply.repositories :
             /\ crepo' = [crepo EXCEPT ![c] = r]
             /\ cpc' = [cpc EXCEPT ![c] = "tags"]
  /\ UNCHANGED <<storeVars, cserver, ctag, cdigest, cbody, cleft, cblob, ctorn, failure, restarted>>

PullTags(c) ==
  /\ cpc[c] = "tags" /\ Online(c)
  /\ LET reply == Reply(c, Slash \o crepo[c] \o tagsList)
     IN \/ Fail(c, reply) /\ UNCHANGED ctag
        \/ /\ reply.status = 200
           /\ \E t \in reply.tags : ctag' = [ctag EXCEPT ![c] = t]
           /\ cpc' = [cpc EXCEPT ![c] = "byTag"]
           /\ UNCHANGED failure
  /\ UNCHANGED <<storeVars, cserver, crepo, cdigest, cbody, cleft, cblob, ctorn, restarted>>

PullByTag(c) ==
  /\ cpc[c] = "byTag" /\ Online(c)
  /\ LET reply == Reply(c, Slash \o crepo[c] \o manifests \o ctag[c])
     IN \/ Fail(c, reply) /\ UNCHANGED <<cdigest, cbody>>
        \/ /\ reply.status = 200
           /\ cdigest' = [cdigest EXCEPT ![c] = reply.digest]
           /\ cbody' = [cbody EXCEPT ![c] = reply.data]
           /\ cpc' = [cpc EXCEPT ![c] = "byDigest"]
           /\ UNCHANGED failure
  /\ UNCHANGED <<storeVars, cserver, crepo, ctag, cleft, cblob, ctorn, restarted>>

PullByDigest(c) ==
  /\ cpc[c] = "byDigest" /\ Online(c)
  /\ LET reply == Reply(c, Slash \o crepo[c] \o manifests \o cdigest[c])
     IN \/ Fail(c, reply) /\ UNCHANGED <<cbody, cleft>>
        \/ /\ reply.status = 200
           /\ cbody' = [cbody EXCEPT ![c] = reply.data]
           /\ cleft' = [cleft EXCEPT ![c] = References(reply.data)]
           /\ cpc' = [cpc EXCEPT ![c] = "blobs"]
           /\ UNCHANGED failure
  /\ UNCHANGED <<storeVars, cserver, crepo, ctag, cdigest, cblob, ctorn, restarted>>

\* GetBlob, up to the os.Stat in BlobPath.
StatBlob(c) ==
  /\ cpc[c] = "blobs" /\ Online(c)
  /\ \E d \in cleft[c] :
       LET reply == Reply(c, Slash \o crepo[c] \o blobs \o d)
       IN \/ Fail(c, reply) /\ UNCHANGED cblob
          \/ /\ reply.status = 200
             /\ cblob' = [cblob EXCEPT ![c] = d]
             /\ cpc' = [cpc EXCEPT ![c] = "stream"]
             /\ UNCHANGED failure
  /\ UNCHANGED <<storeVars, cserver, crepo, ctag, cdigest, cbody, cleft, ctorn, restarted>>

\* c.File, and the arrival of the response.
StreamBlob(c) ==
  /\ cpc[c] = "stream" /\ Online(c)
  /\ ctorn' = [ctorn EXCEPT ![c] = IF blob[cblob[c]] = "whole" THEN @ ELSE @ \cup {cblob[c]}]
  /\ cleft' = [cleft EXCEPT ![c] = @ \ {cblob[c]}]
  /\ cblob' = [cblob EXCEPT ![c] = NoBlob]
  /\ cpc' = [cpc EXCEPT ![c] = IF cleft'[c] = {} THEN "done" ELSE "blobs"]
  /\ UNCHANGED <<storeVars, cserver, crepo, ctag, cdigest, cbody, failure, restarted>>

PullingFrom(v) ==
  {c \in Clients : cserver[c] = v /\ cpc[c] \notin {"idle", "done", "failed"}}

\* A server that stops cuts off its responses; its clients ask again.
StopServerPull(v) ==
  /\ StopServer(v)
  /\ restarted' = [c \in Clients |-> restarted[c] \/ c \in PullingFrom(v)]
  /\ cpc' = [c \in Clients |->
               IF c \in PullingFrom(v) /\ cpc[c] = "stream" THEN "blobs" ELSE cpc[c]]
  /\ cblob' = [c \in Clients |-> IF c \in PullingFrom(v) THEN NoBlob ELSE cblob[c]]
  /\ UNCHANGED <<cserver, crepo, ctag, cdigest, cbody, cleft, ctorn, failure>>

-----------------------------------------------------------------------------
ClientNext ==
  \E c \in Clients :
    \/ Handshake(c) \/ PullCatalog(c) \/ PullTags(c) \/ PullByTag(c)
    \/ PullByDigest(c) \/ StatBlob(c) \/ StreamBlob(c)

StoreNext ==
  \/ SeedNext /\ UNCHANGED clientVars
  \/ \E v \in Servers : (OpenServer(v) \/ LockServer(v)) /\ UNCHANGED clientVars
  \/ \E v \in Servers : StopServerPull(v)

NextPull == ClientNext \/ StoreNext

SpecPull == InitPull /\ [][NextPull]_allVars

-----------------------------------------------------------------------------
(***************************************************************************)
(* SessionConsistent: as long as its server runs, a pull meets no error:   *)
(* every listed repository has tags, every listed tag a manifest, every    *)
(* manifest is found again by its digest, and every blob it names exists,  *)
(* whatever seed processes do meanwhile.  An error needs a restart onto    *)
(* another index (internal/oci/registry.go 45-182, handler.go 29-93).      *)
(***************************************************************************)
SessionConsistent ==
  \A c \in Clients : failure[c] # "none" => restarted[c]

(***************************************************************************)
(* NoBrokenPull: a manifest once received never leads to a missing blob,   *)
(* even if its server was restarted, the root re-seeded, or a seed process *)
(* died half way: blobs are written before the index names them and never  *)
(* removed (hack/seed/main.go 275-309, internal/oci/registry.go 174-176).  *)
(***************************************************************************)
NoBrokenPull ==
  \A c \in Clients : failure[c] # "BLOB_UNKNOWN"

(***************************************************************************)
(* PinnedManifest: pulling a manifest by the digest that came with its tag *)
(* yields the same manifest, also when the server was restarted on a       *)
(* re-seeded index in between where that tag has moved                     *)
(* (internal/oci/registry.go 122-149, handler.go 67-76).                   *)
(***************************************************************************)
PinnedManifest ==
  [][ \A c \in Clients :
        cpc[c] = "byDigest" /\ cpc'[c] = "blobs" => cbody'[c] = cbody[c] ]_allVars

(***************************************************************************)
(* ListingsMatchSeed: what the catalog and the tag lists of a running      *)
(* server spell out is exactly what the seed processes that committed to   *)
(* its index seeded, although a key joins repository and tag in one string *)
(* and one repository's name may begin with another's                      *)
(* (hack/seed/main.go 314, internal/oci/registry.go 54-96).                *)
(***************************************************************************)
Listed(idx) ==
  UNION {{<<r, t>> : t \in ListTags(idx, r)} : r \in ListRepositories(idx)}

ListingsMatchSeed ==
  \A v \in Servers : spc[v] = "up" =>
    Listed(index[sfd[v]]) =
      UNION {UNION {{<<a.repo, t>> : t \in a.tags} : a \in Seeded(s)} : s \in Committed(sfd[v])}

(***************************************************************************)
(* BlobServedWhole: a blob response is the content that its digest         *)
(* identifies, as api.yaml 138-139 describes it.  The seed process         *)
(* rewrites blobs in place (hack/seed/main.go 344) under running servers,  *)
(* which lock only the index (internal/oci/handler.go 81-92).              *)
(***************************************************************************)
BlobServedWhole ==
  \A c \in Clients : ctorn[c] = {}
=============================================================================
