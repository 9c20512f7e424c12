------------------------ MODULE RegistryPull_proofs ------------------------
(***************************************************************************)
(* Theorems about RegistryPull, for any number of clients, servers and     *)
(* seed processes and any artifacts with servable names.                   *)
(***************************************************************************)
EXTENDS RegistryPull, SeedStore_proofs, OciDispatch_proofs

-----------------------------------------------------------------------------
(***************************************************************************)
(* Names.                                                                  *)
(***************************************************************************)
Colon == <<":">>

\* A word that no other can be taken for.
Without(s, word) == \A i \in 1 .. Len(s) : s[i] # word

LEMMA StringsAreText ==
  ASSUME NEW s \in Seq(STRING)
  PROVE  s \in Text
<1>1. STRING \subseteq Word
  BY DEF Word
<1> QED
  BY <1>1, SeqMonotonic DEF Text

LEMMA RepoNames ==
  ASSUME NEW r \in Repos
  PROVE  r \in Name /\ r \in Text /\ Without(r, ":") /\ Unreserved(r)
<1>1. r \in Seq(STRING) /\ r # <<>> /\ \A k \in 1 .. Len(r) : r[k] \notin {":", "manifests"}
  BY ServableNames
<1>2. r \in Text
  BY <1>1, StringsAreText
<1> QED
  BY <1>1, <1>2 DEF Name, Without, Unreserved

LEMMA TagNames ==
  ASSUME NEW t \in Tags
  PROVE  t \in Reference /\ t \in Text /\ Without(t, ":")
<1>1. t \in Seq(STRING) /\ t # <<>> /\ \A k \in 1 .. Len(t) : t[k] \notin {":", "/"}
  BY ServableNames
<1>2. t \in Text
  BY <1>1, StringsAreText
<1> QED
  BY <1>1, <1>2 DEF Reference, Without

LEMMA DigestNames ==
  ASSUME NEW d \in Digests
  PROVE  /\ d \in Reference
         /\ HasPrefix(d, <<"sha256", ":">>)
         /\ ParsesAsDigest(d)
<1> DEFINE prefix == <<"sha256", ":">>
<1>1. PICK data : d = <<"sha256", ":", Hex(data)>>
  <2>1. \A x : digestOf(x) = <<"sha256", ":", Hex(x)>>
    BY DEF digestOf
  <2>2. CASE d = EmptyConfigDigest
    BY <2>1, <2>2 DEF EmptyConfigDigest
  <2>3. CASE d # EmptyConfigDigest
    <3>1. PICK a \in UNION {Seeded(s) : s \in Seeders} : d \in Written(a)
      BY <2>3 DEF Digests
    <3>2. a \in artifactDef
      BY <3>1, ArtifactDigests
    <3>3. PICK k \in 1 .. Len(WriteList(a)) : d = WriteList(a)[k]
      BY <3>1 DEF Written
    <3>4. CASE k = Len(a.layers) + 1
      BY <2>1, <3>2, <3>3, <3>4, WriteListParts DEF manifestDigest
    <3>5. CASE k # Len(a.layers) + 1
      <4>1. k \in 1 .. Len(a.layers)
        BY <3>2, <3>3, <3>5, WriteListParts
      <4>2. d = digestOf(a.layers[k])
        BY <3>2, <3>3, <4>1, WriteListParts DEF manifest
      <4> QED
        BY <2>1, <4>2
    <3> QED
      BY <3>4, <3>5
  <2> QED
    BY <2>2, <2>3
<1> DEFINE hex == Hex(data)
<1>2. hex \in STRING /\ hex # "/" /\ IsHex(hex)
  BY <1>1, HexDecodes
<1> HIDE DEF hex
<1>3. d = <<"sha256", ":", hex>>
  BY <1>1 DEF hex
<1>4. Len(d) = 3 /\ d[1] = "sha256" /\ d[2] = ":" /\ d[3] = hex
  BY <1>3
<1>5. d \in Text
  BY <1>2, <1>3 DEF Text, Word
<1>6. d \in Reference
  <2>1. d # <<>>
    BY <1>3
  <2>2. \A i \in 1 .. 3 : i = 1 \/ i = 2 \/ i = 3
    OBVIOUS
  <2>3. \A i \in 1 .. 3 : d[i] # "/"
    BY <1>2, <1>4, <2>2
  <2> QED
    BY <1>4, <1>5, <2>1, <2>3 DEF Reference
<1>7. prefix \in Text /\ Len(prefix) = 2 /\ prefix[1] = "sha256" /\ prefix[2] = ":"
  BY DEF Text, Word
<1>8. HasPrefix(d, prefix)
  <2> HIDE DEF prefix
  <2>1. Len(prefix) <= Len(d) /\ \A i \in 1 .. Len(prefix) : d[i] = prefix[i]
    BY <1>4, <1>7
  <2> QED
    BY <1>5, <1>7, <2>1, HasPrefixIs
<1>9. ParsesAsDigest(d)
  BY <1>2, <1>4 DEF ParsesAsDigest
<1> QED
  BY <1>6, <1>8, <1>9

\* A key, element by element.
LEMMA KeyShape ==
  ASSUME NEW r \in Text, NEW t \in Text
  PROVE  LET key == tagKey(r, t)
         IN /\ key \in Text
            /\ Len(r) \in Nat /\ Len(t) \in Nat
            /\ Len(key) = Len(r) + 1 + Len(t)
            /\ \A i \in 1 .. Len(r) : key[i] = r[i]
            /\ key[Len(r) + 1] = ":"
            /\ \A i \in 1 .. Len(t) : key[Len(r) + 1 + i] = t[i]
            /\ key = (r \o Colon) \o t
<1> DEFINE head == r \o Colon
           key == head \o t
<1>1. Colon \in Text /\ Len(Colon) = 1 /\ Colon[1] = ":"
  BY DEF Colon, Text, Word
<1>2. /\ head \in Text /\ Len(r) \in Nat
      /\ Len(head) = Len(r) + 1
      /\ \A i \in 1 .. Len(r) : head[i] = r[i]
      /\ head[Len(r) + 1] = ":"
  <2> HIDE DEF Colon
  <2>1. /\ head \in Text /\ Len(r) \in Nat
        /\ Len(head) = Len(r) + Len(Colon)
        /\ \A i \in 1 .. Len(r) : head[i] = r[i]
        /\ \A i \in 1 .. Len(Colon) : head[Len(r) + i] = Colon[i]
    BY <1>1, ConcatShape
  <2> HIDE DEF head
  <2> QED
    BY <1>1, <2>1
<1> HIDE DEF head
<1>3. /\ key \in Text /\ Len(t) \in Nat
      /\ Len(key) = Len(head) + Len(t)
      /\ \A i \in 1 .. Len(head) : key[i] = head[i]
      /\ \A i \in 1 .. Len(t) : key[Len(head) + i] = t[i]
  BY <1>2, ConcatShape
<1> HIDE DEF key
<1>4. ASSUME NEW i \in 1 .. Len(r) PROVE key[i] = r[i]
  BY <1>2, <1>3
<1>5. key[Len(r) + 1] = ":"
  <2>1. Len(r) + 1 \in 1 .. Len(head)
    BY <1>2
  <2> QED
    BY <1>2, <1>3, <2>1
<1>6. tagKey(r, t) = key /\ key = (r \o Colon) \o t
  BY DEF tagKey, key, head, Colon
<1> QED
  BY <1>2, <1>3, <1>4, <1>5, <1>6

\* A key is one repository's only.
LEMMA KeyOfRepo ==
  ASSUME NEW r \in Repos, NEW u \in Repos, NEW t \in Tags
  PROVE  HasPrefix(tagKey(u, t), r \o Colon) <=> u = r
<1> DEFINE prefix == r \o Colon
           key == tagKey(u, t)
           m == Len(r)
           n == Len(u)
<1>1. /\ r \in Text /\ u \in Text /\ t \in Text
      /\ Without(r, ":") /\ Without(u, ":") /\ Without(t, ":")
  BY RepoNames, TagNames
<1>2. /\ prefix \in Text /\ m \in Nat /\ Len(prefix) = m + 1
      /\ \A i \in 1 .. m : prefix[i] = r[i]
      /\ prefix[m + 1] = ":"
  <2>1. Colon \in Text /\ Len(Colon) = 1 /\ Colon[1] = ":"
    BY DEF Colon, Text, Word
  <2>2. /\ prefix \in Text /\ m \in Nat
        /\ Len(prefix) = m + Len(Colon)
        /\ \A i \in 1 .. m : prefix[i] = r[i]
        /\ \A i \in 1 .. Len(Colon) : prefix[m + i] = Colon[i]
    BY <1>1, <2>1, ConcatShape
  <2> HIDE DEF prefix, m
  <2> QED
    BY <2>1, <2>2
<1>3. /\ key \in Text /\ n \in Nat /\ Len(t) \in Nat
      /\ Len(key) = n + 1 + Len(t)
      /\ \A i \in 1 .. n : key[i] = u[i]
      /\ key[n + 1] = ":"
      /\ \A i \in 1 .. Len(t) : key[n + 1 + i] = t[i]
      /\ key = (u \o Colon) \o t
  BY <1>1, KeyShape
<1>4. ASSUME u = r PROVE HasPrefix(key, prefix)
  <2>1. u \o Colon \in Text
    BY <1>2, <1>4
  <2> QED
    BY <1>1, <1>3, <1>4, <2>1, TrimConcat
<1> HIDE DEF prefix, key
<1>5. ASSUME HasPrefix(key, prefix) PROVE u = r
  <2>1. m + 1 <= Len(key) /\ \A i \in 1 .. m + 1 : key[i] = prefix[i]
    BY <1>2, <1>3, <1>5, HasPrefixIs
  <2>2. key[m + 1] = ":"
    <3>1. m + 1 \in 1 .. m + 1
      BY <1>2
    <3> QED
      BY <1>2, <2>1, <3>1
  <2> HIDE DEF m, n
  <2>3. ~(m + 1 <= n)
    <3>1. ASSUME m + 1 <= n PROVE FALSE
      <4>1. m + 1 \in 1 .. n
        BY <1>2, <3>1
      <4>2. u[m + 1] = ":"
        BY <1>3, <2>2, <4>1
      <4> QED
        BY <1>1, <4>1, <4>2 DEF Without, n
    <3> QED
      BY <3>1
  <2>4. ~(n + 1 <= m)
    <3>1. ASSUME n + 1 <= m PROVE FALSE
      <4>1. n + 1 \in 1 .. m /\ n + 1 \in 1 .. m + 1
        BY <1>2, <1>3, <3>1
      <4>2. r[n + 1] = ":"
        BY <1>2, <1>3, <2>1, <4>1
      <4> QED
        BY <1>1, <4>1, <4>2 DEF Without, m
    <3> QED
      BY <3>1
  <2>5. m = n
    BY <1>2, <1>3, <2>3, <2>4
  <2>6. \A i \in 1 .. m : u[i] = r[i]
    <3>1. \A i \in 1 .. m : i \in 1 .. n /\ i \in 1 .. m + 1
      BY <1>2, <2>5
    <3> QED
      BY <1>2, <1>3, <2>1, <3>1
  <2> QED
    BY <1>1, <2>5, <2>6, SeqEqual DEF Text, m, n
<1> QED
  BY <1>4, <1>5 DEF key, prefix

\* What the listings cut a key into.
LEMMA KeyParts ==
  ASSUME NEW r \in Repos, NEW t \in Tags
  PROVE  /\ LastIndex(tagKey(r, t), Colon) = Len(r) /\ Len(r) \in Nat
         /\ Before(tagKey(r, t), Len(r)) = r
         /\ From(tagKey(r, t), Len(r \o Colon)) = t
<1> DEFINE key == tagKey(r, t)
           m == Len(r)
           prefix == r \o Colon
<1>1. r \in Text /\ t \in Text /\ Without(r, ":") /\ Without(t, ":")
  BY RepoNames, TagNames
<1>2. /\ key \in Text /\ m \in Nat /\ Len(t) \in Nat
      /\ Len(key) = m + 1 + Len(t)
      /\ \A i \in 1 .. m : key[i] = r[i]
      /\ key[m + 1] = ":"
      /\ \A i \in 1 .. Len(t) : key[m + 1 + i] = t[i]
      /\ key = prefix \o t
  BY <1>1, KeyShape
<1>3. Colon \in Text /\ Len(Colon) = 1 /\ Colon[1] = ":"
  BY DEF Colon, Text, Word
<1>4. From(key, Len(prefix)) = t
  <2>1. prefix \in Text
    BY <1>1, <1>3, ConcatShape
  <2>2. HasPrefix(prefix \o t, prefix) /\ TrimPrefix(prefix \o t, prefix) = t
    BY <1>1, <2>1, TrimConcat
  <2> QED
    BY <1>2, <2>2 DEF TrimPrefix, From
<1> HIDE DEF key, m, prefix
<1>5. Before(key, m) = r
  <2>1. 1 \in Nat \ {0} /\ 1 <= m + 1 /\ m <= Len(key)
    BY <1>2
  <2>2. /\ SubSeq(key, 1, m) \in Text /\ Len(SubSeq(key, 1, m)) = m - 1 + 1
        /\ \A i \in 1 .. m - 1 + 1 : SubSeq(key, 1, m)[i] = key[1 + i - 1]
    BY <1>2, <2>1, SliceShape
  <2> DEFINE slice == SubSeq(key, 1, m)
  <2> HIDE DEF slice
  <2>3. slice \in Text /\ Len(slice) = m /\ \A i \in 1 .. m : slice[i] = r[i]
    BY <1>2, <2>2 DEF slice
  <2>4. slice = r
    BY <1>1, <2>3, SeqEqual DEF Text, m
  <2> QED
    BY <2>4 DEF Before, slice
<1>6. LastIndex(key, Colon) = m
  <2> DEFINE l == Len(Colon)
  <2>1. Occurrences(key, Colon) =
          {k \in Nat : k + l <= Len(key) /\ \A i \in 1 .. l : key[k + i] = Colon[i]}
    BY <1>2, <1>3, OccurrencesAre
  <2> HIDE DEF l, Colon
  <2>2. l = 1
    BY <1>3 DEF l
  <2>3. m \in Occurrences(key, Colon)
    BY <1>2, <1>3, <2>1, <2>2
  <2>4. ASSUME NEW j \in Occurrences(key, Colon) PROVE j <= m
    <3>1. j \in Nat /\ j + 1 <= Len(key) /\ key[j + 1] = ":"
      BY <1>3, <2>1, <2>2
    <3>2. ASSUME ~(j <= m) PROVE FALSE
      <4>1. j - m \in 1 .. Len(t) /\ m + 1 + (j - m) = j + 1
        BY <1>2, <3>1, <3>2
      <4>2. t[j - m] = ":"
        BY <1>2, <3>1, <4>1
      <4> QED
        BY <1>1, <4>1, <4>2 DEF Without
    <3> QED
      BY <3>2
  <2> QED
    BY <1>2, <1>3, <2>3, <2>4, LastIndexIs
<1> QED
  BY <1>2, <1>4, <1>5, <1>6 DEF key, m, prefix

\* A key tells its repository and its tag.
LEMMA KeyUnique ==
  ASSUME NEW r \in Repos, NEW u \in Repos, NEW t \in Tags, NEW w \in Tags,
         tagKey(r, t) = tagKey(u, w)
  PROVE  r = u /\ t = w
<1>1. /\ LastIndex(tagKey(r, t), Colon) = Len(r) /\ Before(tagKey(r, t), Len(r)) = r
      /\ From(tagKey(r, t), Len(r \o Colon)) = t
  BY KeyParts
<1>2. /\ LastIndex(tagKey(u, w), Colon) = Len(u) /\ Before(tagKey(u, w), Len(u)) = u
      /\ From(tagKey(u, w), Len(u \o Colon)) = w
  BY KeyParts
<1>3. Len(r) = Len(u)
  BY <1>1, <1>2
<1>4. r = u
  BY <1>1, <1>2, <1>3
<1> QED
  BY <1>1, <1>2, <1>4

-----------------------------------------------------------------------------
(***************************************************************************)
(* Answers.                                                                *)
(***************************************************************************)
\* A key is put together from a repository and a tag.
LEMMA KeysArePairs ==
  ASSUME NEW key \in TagKeys
  PROVE  \E r \in Repos, t \in Tags : key = tagKey(r, t)
<1>1. PICK s \in Seeders : key \in Keys(s)
  BY DEF TagKeys
<1>2. PICK a \in Seeded(s) : key \in tagKeys(a)
  BY <1>1 DEF Keys
<1>3. a \in artifactDef
  BY <1>1, <1>2, ArtifactDigests
<1>4. PICK t \in a.tags : key = tagKey(a.repo, t)
  BY <1>2 DEF tagKeys
<1> QED
  BY <1>3, <1>4 DEF artifactDef

\* The tags of a repository are those that make a key of the index with it.
LEMMA TagsListed ==
  ASSUME NEW idx, DOMAIN idx.tags \subseteq TagKeys, NEW r \in Repos
  PROVE  ListTags(idx, r) = {t \in Tags : tagKey(r, t) \in DOMAIN idx.tags}
<1> DEFINE K == DOMAIN idx.tags
           prefix == r \o Colon
<1>1. ListTags(idx, r) = {From(key, Len(prefix)) : key \in {k \in K : HasPrefix(k, prefix)}}
  BY DEF ListTags, Colon
<1>2. ASSUME NEW t \in Tags, tagKey(r, t) \in K PROVE t \in ListTags(idx, r)
  <2>1. HasPrefix(tagKey(r, t), prefix) /\ From(tagKey(r, t), Len(prefix)) = t
    BY KeyOfRepo, KeyParts
  <2> QED
    BY <1>1, <1>2, <2>1
<1>3. ASSUME NEW t \in ListTags(idx, r) PROVE t \in Tags /\ tagKey(r, t) \in K
  <2>1. PICK key \in K : HasPrefix(key, prefix) /\ t = From(key, Len(prefix))
    BY <1>1, <1>3
  <2>2. PICK u \in Repos, w \in Tags : key = tagKey(u, w)
    BY <2>1, KeysArePairs
  <2>3. u = r
    BY <2>1, <2>2, KeyOfRepo
  <2>4. t = w
    BY <2>1, <2>2, <2>3, KeyParts
  <2> QED
    BY <2>1, <2>2, <2>3, <2>4
<1> QED
  BY <1>2, <1>3

\* The catalog holds the repositories that have a tag.
LEMMA ReposListed ==
  ASSUME NEW idx, DOMAIN idx.tags \subseteq TagKeys
  PROVE  ListRepositories(idx) =
           {r \in Repos : \E t \in Tags : tagKey(r, t) \in DOMAIN idx.tags}
<1> DEFINE K == DOMAIN idx.tags
<1>1. ListRepositories(idx) =
        {Before(key, LastIndex(key, Colon)) : key \in {k \in K : LastIndex(k, Colon) >= 0}}
  BY DEF ListRepositories, Colon
<1>2. ASSUME NEW r \in Repos, NEW t \in Tags, tagKey(r, t) \in K
      PROVE  r \in ListRepositories(idx)
  <2>1. LastIndex(tagKey(r, t), Colon) >= 0 /\ Before(tagKey(r, t), LastIndex(tagKey(r, t), Colon)) = r
    BY KeyParts
  <2> QED
    BY <1>1, <1>2, <2>1
<1>3. ASSUME NEW r \in ListRepositories(idx)
      PROVE  r \in Repos /\ \E t \in Tags : tagKey(r, t) \in K
  <2>1. PICK key \in K : r = Before(key, LastIndex(key, Colon))
    BY <1>1, <1>3
  <2>2. PICK u \in Repos, w \in Tags : key = tagKey(u, w)
    BY <2>1, KeysArePairs
  <2>3. r = u
    BY <2>1, <2>2, KeyParts
  <2> QED
    BY <2>1, <2>2, <2>3
<1> QED
  BY <1>2, <1>3

LEMMA CatalogAnswer ==
  ASSUME NEW idx, NEW files
  PROVE  Answer(<<"/", "_catalog">>, idx, files).repositories = ListRepositories(idx)
<1> DEFINE p == <<"/", "_catalog">>
<1>1. p # <<>> /\ p # <<"/">> /\ ~HasSuffix(p, tagsList)
  <2>1. Len(p) = 2 /\ Len(<<"/">>) = 1 /\ Len(tagsList) = 4
    BY Infixes
  <2> QED
    BY <2>1 DEF HasSuffix
<1>2. dispatch(p) = [op |-> "ListCatalog"]
  <2> HIDE DEF p
  <2> QED
    BY <1>1 DEF dispatch, p
<1> HIDE DEF p
<1>3. Answer(p, idx, files) = HandleListCatalog(idx)
  BY <1>2 DEF Answer
<1> QED
  BY <1>3 DEF HandleListCatalog, p

LEMMA TagsAnswer ==
  ASSUME NEW idx, NEW files, NEW r \in Repos
  PROVE  LET reply == Answer(Slash \o r \o tagsList, idx, files)
         IN /\ reply.status = 404 => reply.code = "NAME_UNKNOWN" /\ ListTags(idx, r) = {}
            /\ reply.status = 200 => reply.tags = ListTags(idx, r)
<1> DEFINE p == Slash \o r \o tagsList
           tags == ListTags(idx, r)
<1>1. dispatch(p) = [op |-> "ListTags", name |-> r]
  BY RepoNames, TagsRequest DEF Slash
<1> HIDE DEF p
<1>2. Answer(p, idx, files) = HandleListTags(idx, r)
  BY <1>1 DEF Answer
<1>3. CASE tags = {}
  BY <1>2, <1>3 DEF HandleListTags, Error, p
<1>4. CASE tags # {}
  <2>1. Answer(p, idx, files) = [status |-> 200, name |-> r, tags |-> tags]
    BY <1>2, <1>4 DEF HandleListTags
  <2> QED
    BY <2>1 DEF p
<1> QED
  BY <1>3, <1>4

\* What is found under the digests of D.
LEMMA ManifestAnswer ==
  ASSUME NEW idx, NEW files, NEW name \in Name, NEW reference \in Reference,
         NEW D, Resolve(idx, name, reference) = D,
         \A d, e \in D : d = e
  PROVE  LET reply == Answer(Slash \o name \o manifests \o reference, idx, files)
         IN /\ reply.status = 404 =>
                 reply.code = "MANIFEST_UNKNOWN" /\ D \cap DOMAIN idx.manifests = {}
            /\ reply.status = 200 =>
                 /\ reply.digest \in D \cap DOMAIN idx.manifests
                 /\ reply.data = idx.manifests[reply.digest]
<1> DEFINE p == Slash \o name \o manifests \o reference
           found == GetManifest(idx, name, reference)
           m == CHOOSE x \in found : TRUE
<1>1. dispatch(p) = [op |-> "GetManifest", name |-> name, reference |-> reference]
  BY ManifestRequest DEF Slash
<1>2. found = {[data |-> idx.manifests[d], digest |-> d] : d \in D \cap DOMAIN idx.manifests}
  BY DEF GetManifest
<1> HIDE DEF p, found
<1>3. Answer(p, idx, files) = HandleGetManifest(idx, name, reference)
  BY <1>1 DEF Answer
<1>4. CASE found = {}
  <2>1. Answer(p, idx, files) = [status |-> 404, code |-> "MANIFEST_UNKNOWN"]
    BY <1>3, <1>4 DEF HandleGetManifest, Error, found
  <2>2. D \cap DOMAIN idx.manifests = {}
    BY <1>2, <1>4
  <2> QED
    BY <2>1, <2>2 DEF p
<1>5. CASE found # {}
  <2>1. m \in found
    BY <1>5
  <2> HIDE DEF m
  <2>2. Answer(p, idx, files) = [status |-> 200, data |-> m.data, digest |-> m.digest]
    BY <1>3, <1>5 DEF HandleGetManifest, found, m
  <2>3. PICK d \in D \cap DOMAIN idx.manifests : m = [data |-> idx.manifests[d], digest |-> d]
    BY <1>2, <2>1
  <2> QED
    BY <2>2, <2>3 DEF p
<1> QED
  BY <1>4, <1>5

LEMMA ByTagAnswer ==
  ASSUME NEW idx, NEW files, NEW r \in Repos, NEW t \in Tags
  PROVE  LET reply == Answer(Slash \o r \o manifests \o t, idx, files)
             key == tagKey(r, t)
         IN /\ reply.status = 404 =>
                 /\ reply.code = "MANIFEST_UNKNOWN"
                 /\ key \in DOMAIN idx.tags => idx.tags[key] \notin DOMAIN idx.manifests
            /\ reply.status = 200 =>
                 /\ key \in DOMAIN idx.tags
                 /\ reply.digest = idx.tags[key]
                 /\ reply.digest \in DOMAIN idx.manifests
                 /\ reply.data = idx.manifests[reply.digest]
<1> DEFINE key == tagKey(r, t)
           D == {idx.tags[k] : k \in {key} \cap DOMAIN idx.tags}
           prefix == <<"sha256", ":">>
<1>1. r \in Name /\ t \in Reference /\ t \in Text /\ Without(t, ":")
  BY RepoNames, TagNames
<1>2. ~HasPrefix(t, prefix)
  <2>1. prefix \in Text /\ Len(prefix) = 2 /\ prefix[2] = ":"
    BY DEF Text, Word
  <2> HIDE DEF prefix
  <2>2. ASSUME HasPrefix(t, prefix) PROVE FALSE
    <3>1. Len(prefix) <= Len(t) /\ \A i \in 1 .. Len(prefix) : t[i] = prefix[i]
      BY <1>1, <2>1, <2>2, HasPrefixIs
    <3>2. Len(t) \in Nat
      BY <1>1, LenProperties DEF Text
    <3> QED
      BY <1>1, <2>1, <3>1, <3>2 DEF Without
  <2> QED
    BY <2>2
<1>3. Resolve(idx, r, t) = D
  BY <1>2 DEF Resolve, tagKey
<1>4. \A d, e \in D : d = e
  OBVIOUS
<1>5. D = IF key \in DOMAIN idx.tags THEN {idx.tags[key]} ELSE {}
  OBVIOUS
<1> HIDE DEF D, key
<1> DEFINE reply == Answer(Slash \o r \o manifests \o t, idx, files)
<1>6. /\ reply.status = 404 =>
           reply.code = "MANIFEST_UNKNOWN" /\ D \cap DOMAIN idx.manifests = {}
      /\ reply.status = 200 =>
           /\ reply.digest \in D \cap DOMAIN idx.manifests
           /\ reply.data = idx.manifests[reply.digest]
  BY <1>1, <1>3, <1>4, ManifestAnswer
<1> HIDE DEF reply
<1> QED
  BY <1>5, <1>6 DEF reply, key

LEMMA ByDigestAnswer ==
  ASSUME NEW idx, NEW files, NEW r \in Repos, NEW d \in Digests
  PROVE  LET reply == Answer(Slash \o r \o manifests \o d, idx, files)
         IN /\ reply.status = 404 =>
                 reply.code = "MANIFEST_UNKNOWN" /\ d \notin DOMAIN idx.manifests
            /\ reply.status = 200 =>
                 d \in DOMAIN idx.manifests /\ reply.data = idx.manifests[d]
<1>1. r \in Name /\ d \in Reference /\ HasPrefix(d, <<"sha256", ":">>)
  BY RepoNames, DigestNames
<1>2. Resolve(idx, r, d) = {d}
  BY <1>1 DEF Resolve
<1>3. \A x, e \in {d} : x = e
  OBVIOUS
<1> DEFINE reply == Answer(Slash \o r \o manifests \o d, idx, files)
<1>4. /\ reply.status = 404 =>
           reply.code = "MANIFEST_UNKNOWN" /\ {d} \cap DOMAIN idx.manifests = {}
      /\ reply.status = 200 =>
           /\ reply.digest \in {d} \cap DOMAIN idx.manifests
           /\ reply.data = idx.manifests[reply.digest]
  BY <1>1, <1>2, <1>3, ManifestAnswer
<1> HIDE DEF reply
<1> QED
  BY <1>4 DEF reply

LEMMA BlobAnswer ==
  ASSUME NEW idx, NEW files, DOMAIN files = Digests, NEW r \in Repos, NEW d \in Digests
  PROVE  LET reply == Answer(Slash \o r \o blobs \o d, idx, files)
         IN /\ reply.status = 404 => reply.code = "BLOB_UNKNOWN" /\ files[d] = "absent"
            /\ reply.status = 200 => files[d] # "absent"
<1> DEFINE p == Slash \o r \o blobs \o d
<1>1. /\ r \in Name /\ Unreserved(r)
      /\ d \in Reference /\ ParsesAsDigest(d)
  BY RepoNames, DigestNames
<1>2. dispatch(p) = [op |-> "GetBlob", digest |-> d]
  BY <1>1, BlobRequest DEF Slash
<1> HIDE DEF p
<1>3. Answer(p, idx, files) = HandleGetBlob(files, d)
  BY <1>2 DEF Answer
<1>4. BlobExists(files, d) <=> files[d] # "absent"
  BY <1>1 DEF BlobExists
<1> QED
  BY <1>3, <1>4 DEF HandleGetBlob, Error, p

-----------------------------------------------------------------------------
(***************************************************************************)
(* The steps of a pull leave the storage root alone, so what holds of the  *)
(* storage root by itself holds while clients pull.                        *)
(***************************************************************************)
LEMMA PullSteps == [NextPull]_allVars => [Next]_vars
<1>1. ASSUME ClientNext PROVE UNCHANGED vars
  BY <1>1 DEF ClientNext, Handshake, PullCatalog, PullTags, PullByTag, PullByDigest,
              StatBlob, StreamBlob, storeVars
<1>2. ASSUME StoreNext PROVE Next
  BY <1>2 DEF StoreNext, StopServerPull, Next, ServerNext
<1>3. ASSUME UNCHANGED allVars PROVE UNCHANGED vars
  BY <1>3 DEF allVars, storeVars
<1> QED
  BY <1>1, <1>2, <1>3 DEF NextPull

(***************************************************************************)
(* PullsOverStore: with clients, the storage root behaves as it does       *)
(* without them, so that every theorem about SeedStore holds here too      *)
(* (cmd/compass/main.go 87, internal/oci/handler.go 29-93).                *)
(***************************************************************************)
THEOREM PullsOverStore == SpecPull => Spec
<1>1. InitPull => Init
  BY DEF InitPull
<1>2. [NextPull]_allVars => [Next]_vars
  BY PullSteps
<1> QED
  BY <1>1, <1>2, PTL DEF SpecPull, Spec

LEMMA Resolving == Spec => []AllResolve
<1>1. Init => AllResolve
  BY InitResolve
<1>2. Typed /\ AllResolve /\ [Next]_vars => AllResolve'
  BY NextResolve
<1> QED
  BY <1>1, <1>2, Typing, PTL DEF Spec

LEMMA Steadying == Spec => []Steady
<1>1. Init => Steady
  BY InitSteady
<1>2. Typed /\ Steady /\ [Next]_vars => Steady'
  BY NextWriting, NextFresh, NextProgress, NextPromised DEF Steady
<1> QED
  BY <1>1, <1>2, Typing, PTL DEF Spec

(***************************************************************************)
(* Two more facts about the storage root: a blob inside os.WriteFile is    *)
(* there, and a manifest in an index is that of a seeded artifact, under   *)
(* that artifact's digest.                                                 *)
(***************************************************************************)
AllSeeded == UNION {Seeded(s) : s \in Seeders}

Begun == \A s \in Seeders : writing[s] # NoBlob => blob[writing[s]] # "absent"

SourcedIn(idx) ==
  \A d \in DOMAIN idx.manifests :
    \E a \in AllSeeded : d = manifestDigest(a) /\ idx.manifests[d] = manifest(a)

Sourced == \A s \in Seeders : SourcedIn(index[s]) /\ SourcedIn(tx[s])

\* No step removes a blob.
BlobsStay == \A d \in Digests : blob[d] # "absent" => blob'[d] # "absent"

LEMMA NextBlobs == TypeOK /\ [Next]_vars => BlobsStay
<1> SUFFICES ASSUME TypeOK, [Next]_vars PROVE BlobsStay
  OBVIOUS
<1>0. blob \in [Digests -> {"absent", "torn", "whole"}]
  BY DEF TypeOK
<1>1. ASSUME NEW s \in Seeders, BeginBlob(s) PROVE BlobsStay
  BY <1>0, <1>1 DEF BeginBlob, BlobsStay
<1>2. ASSUME NEW s \in Seeders, EndBlob(s) PROVE BlobsStay
  BY <1>0, <1>2 DEF EndBlob, BlobsStay
<1>3. CASE UNCHANGED blob
  BY <1>3 DEF BlobsStay
<1>4. ASSUME NEW s \in Seeders,
             StartSeed(s) \/ RemoveIndex(s) \/ OpenIndex(s) \/ LockIndex(s)
             \/ PutArtifact(s) \/ Commit(s) \/ Close(s) \/ Die(s)
      PROVE  UNCHANGED blob
  BY <1>4 DEF StartSeed, RemoveIndex, OpenIndex, LockIndex, PutArtifact, Commit, Close, Die
<1>5. ASSUME ServerNext PROVE UNCHANGED blob
  BY <1>5 DEF ServerNext, OpenServer, LockServer, StopServer
<1>6. ASSUME UNCHANGED vars PROVE UNCHANGED blob
  BY <1>6 DEF vars
<1> QED
  BY <1>1, <1>2, <1>3, <1>4, <1>5, <1>6 DEF Next, SeedNext, SeedStep

LEMMA NextBegun == TypeOK /\ Begun /\ [Next]_vars => Begun'
<1> SUFFICES ASSUME TypeOK, Begun, [Next]_vars, NEW r \in Seeders, writing'[r] # NoBlob
             PROVE  blob'[writing'[r]] # "absent"
  BY DEF Begun
<1>0. /\ blob \in [Digests -> {"absent", "torn", "whole"}]
      /\ writing \in [Seeders -> Digests \cup {NoBlob}]
      /\ BlobsStay
  BY NextBlobs DEF TypeOK
<1>1. CASE writing'[r] = writing[r]
  BY <1>0, <1>1 DEF Begun, BlobsStay
<1>2. ASSUME NEW s \in Seeders, BeginBlob(s), writing'[r] # writing[r]
      PROVE  blob'[writing'[r]] # "absent"
  <2>1. NextBlob(s) \in Digests
    BY <1>2, NextBlobType DEF BeginBlob
  <2>2. writing'[r] = NextBlob(s)
    BY <1>0, <1>2 DEF BeginBlob
  <2> QED
    BY <1>0, <1>2, <2>1, <2>2 DEF BeginBlob
<1>3. ASSUME NEW s \in Seeders, EndBlob(s) PROVE writing'[r] = writing[r]
  BY <1>0, <1>3 DEF EndBlob
<1>4. ASSUME NEW s \in Seeders,
             StartSeed(s) \/ RemoveIndex(s) \/ OpenIndex(s) \/ LockIndex(s)
             \/ PutArtifact(s) \/ Commit(s) \/ Close(s) \/ Die(s)
      PROVE  UNCHANGED writing
  BY <1>4 DEF StartSeed, RemoveIndex, OpenIndex, LockIndex, PutArtifact, Commit, Close, Die
<1>5. ASSUME ServerNext PROVE UNCHANGED writing
  BY <1>5 DEF ServerNext, OpenServer, LockServer, StopServer, seedVars
<1>6. ASSUME UNCHANGED vars PROVE UNCHANGED writing
  BY <1>6 DEF vars, seedVars
<1> QED
  BY <1>1, <1>2, <1>3, <1>4, <1>5, <1>6 DEF Next, SeedNext, SeedStep

LEMMA NextSourced == Typed /\ Sourced /\ [Next]_vars => Sourced'
<1> SUFFICES ASSUME TypeOK, Files, Sourced, [Next]_vars PROVE Sourced'
  BY DEF Typed
<1>0. /\ fd \in [Seeders -> Seeders \cup {NoFile}]
      /\ index = [i \in Seeders |-> index[i]] /\ tx = [s \in Seeders |-> tx[s]]
  BY DEF TypeOK
<1>1. ASSUME NEW s \in Seeders, LockIndex(s) PROVE Sourced'
  <2>1. fd[s] \in Seeders
    BY <1>0, <1>1 DEF LockIndex, Files
  <2> QED
    BY <1>0, <1>1, <2>1 DEF LockIndex, Sourced
<1>2. ASSUME NEW s \in Seeders, PutArtifact(s) PROVE Sourced'
  <2> DEFINE a == Artifact(s)
             d == manifestDigest(a)
             new == [tags      |-> Put(tx[s].tags, tagKeys(a), d),
                     manifests |-> Put(tx[s].manifests, {d}, manifest(a))]
  <2>1. a \in AllSeeded
    BY <1>2, ArtifactSeeded DEF PutArtifact, AllSeeded
  <2>2. tx' = [tx EXCEPT ![s] = new]
    BY <1>2 DEF PutArtifact
  <2>3. SourcedIn(tx[s])
    BY DEF Sourced
  <2> HIDE DEF a
  <2>4. SourcedIn(new)
    BY <2>1, <2>3 DEF SourcedIn, Put
  <2> HIDE DEF new
  <2>5. \A i \in Seeders : SourcedIn(tx'[i])
    BY <1>0, <2>2, <2>4 DEF Sourced
  <2> QED
    BY <1>2, <2>5 DEF PutArtifact, Sourced
<1>3. ASSUME NEW s \in Seeders, Commit(s) PROVE Sourced'
  BY <1>0, <1>3 DEF Commit, Sourced
<1>4. CASE UNCHANGED <<index, tx>>
  BY <1>4 DEF Sourced
<1>5. ASSUME NEW s \in Seeders,
             StartSeed(s) \/ BeginBlob(s) \/ EndBlob(s) \/ RemoveIndex(s)
             \/ OpenIndex(s) \/ Close(s) \/ Die(s)
      PROVE  UNCHANGED <<index, tx>>
  BY <1>5 DEF StartSeed, BeginBlob, EndBlob, RemoveIndex, OpenIndex, Close, Die
<1>6. ASSUME ServerNext PROVE UNCHANGED <<index, tx>>
  BY <1>6 DEF ServerNext, OpenServer, LockServer, StopServer, seedVars
<1>7. ASSUME UNCHANGED vars PROVE UNCHANGED <<index, tx>>
  BY <1>7 DEF vars, seedVars
<1> QED
  BY <1>1, <1>2, <1>3, <1>4, <1>5, <1>6, <1>7 DEF Next, SeedNext, SeedStep

LEMMA InitSourced == Init => Begun /\ Sourced
<1> SUFFICES ASSUME Init PROVE Begun /\ Sourced
  OBVIOUS
<1>1. DOMAIN EmptyIndex.manifests = {}
  BY DEF EmptyIndex, EmptyBucket
<1>2. SourcedIn(EmptyIndex)
  BY <1>1 DEF SourcedIn
<1>3. ASSUME NEW s \in Seeders
      PROVE  index[s] = EmptyIndex /\ tx[s] = EmptyIndex /\ writing[s] = NoBlob
  <2>1. /\ index = [i \in Seeders |-> EmptyIndex] /\ tx = [i \in Seeders |-> EmptyIndex]
        /\ writing = [i \in Seeders |-> NoBlob]
    BY DEF Init
  <2> QED
    BY <2>1, Zenon
<1> QED
  BY <1>2, <1>3, Zenon DEF Begun, Sourced

(***************************************************************************)
(* What clients rely on, of the storage root.                              *)
(***************************************************************************)
StoreFacts == Typed /\ Locks /\ AllResolve /\ Steady /\ Begun /\ Sourced

LEMMA StoreStays == Spec => []StoreFacts
<1>1. Init => Begun /\ Sourced
  BY InitSourced
<1>2. Typed /\ (Begun /\ Sourced) /\ [Next]_vars => (Begun /\ Sourced)'
  BY NextBegun, NextSourced DEF Typed
<1>3. Typed /\ Locks /\ AllResolve /\ Steady /\ (Begun /\ Sourced) => StoreFacts
  BY DEF StoreFacts
<1> QED
  BY <1>1, <1>2, <1>3, Typing, Locking, Resolving, Steadying, PTL DEF Spec

-----------------------------------------------------------------------------
(***************************************************************************)
(* The clients.  PullTypes gives every variable its shape.  Picked says    *)
(* what a client has in hand at each request of its pull.  Live says what  *)
(* its server's index still holds of that, as long as the server has not   *)
(* been restarted.                                                         *)
(***************************************************************************)
PullTypes ==
  /\ cpc \in [Clients -> ClientPC]
  /\ cserver \in [Clients -> Servers \cup {NoServer}]
  /\ crepo \in [Clients -> Repos \cup {<<>>}]
  /\ ctag \in [Clients -> Tags \cup {<<>>}]
  /\ cdigest \in [Clients -> Digests \cup {NoBlob}]
  /\ cbody = [c \in Clients |-> cbody[c]]
  /\ \A c \in Clients : References(cbody[c]) \subseteq Digests \cup {NoBlob}
  /\ cleft \in [Clients -> SUBSET Digests]
  /\ ctorn \in [Clients -> SUBSET Digests]
  /\ cblob \in [Clients -> Digests \cup {NoBlob}]
  /\ failure \in [Clients -> {"none", "NAME_UNKNOWN", "MANIFEST_UNKNOWN", "BLOB_UNKNOWN"}]
  /\ restarted \in [Clients -> BOOLEAN]

FromTags == {"tags", "byTag", "byDigest", "blobs", "stream"}
FromByTag == FromTags \ {"tags"}
FromByDigest == FromByTag \ {"byTag"}
FromBlobs == {"blobs", "stream"}
Pulling == FromTags \cup {"catalog"}

Picked(c) ==
  /\ cpc[c] # "idle" => cserver[c] \in Servers
  /\ cpc[c] \in FromTags => crepo[c] \in Repos
  /\ cpc[c] \in FromByTag => ctag[c] \in Tags
  /\ cpc[c] \in FromByDigest =>
       \E a \in AllSeeded : cdigest[c] = manifestDigest(a) /\ cbody[c] = manifest(a)
  /\ cpc[c] \in FromBlobs => \A d \in cleft[c] : blob[d] # "absent"
  /\ IF cpc[c] = "stream" THEN cblob[c] \in cleft[c] ELSE cblob[c] = NoBlob
  /\ failure[c] # "BLOB_UNKNOWN"

Held(c) == index[sfd[cserver[c]]]

Live(c) ==
  /\ failure[c] = "none"
  /\ cpc[c] \in Pulling => spc[cserver[c]] = "up"
  /\ cpc[c] = "tags" => \E t \in Tags : tagKey(crepo[c], t) \in DOMAIN Held(c).tags
  /\ cpc[c] = "byTag" => tagKey(crepo[c], ctag[c]) \in DOMAIN Held(c).tags
  /\ cpc[c] = "byDigest" => cdigest[c] \in DOMAIN Held(c).manifests

Fine(c) == Picked(c) /\ (~restarted[c] => Live(c))

Pulls == PullTypes /\ \A c \in Clients : Fine(c)

LEMMA InitPulls == InitPull => Pulls
<1> SUFFICES ASSUME InitPull PROVE Pulls
  OBVIOUS
<1>1. References(NoManifest) = {NoBlob}
  BY DEF References, NoManifest
<1>2. PullTypes
  BY <1>1 DEF InitPull, PullTypes, ClientPC
<1>3. ASSUME NEW c \in Clients PROVE Fine(c)
  <2>1. cpc[c] = "idle" /\ cblob[c] = NoBlob /\ failure[c] = "none"
    BY DEF InitPull
  <2> QED
    BY <2>1 DEF Fine, Picked, Live, FromTags, FromByTag, FromByDigest, FromBlobs, Pulling
<1> QED
  BY <1>2, <1>3 DEF Pulls

\* What is a client's own.
Own(c) == <<cpc[c], cserver[c], crepo[c], ctag[c], cdigest[c], cbody[c], cleft[c],
            cblob[c], failure[c], restarted[c]>>

\* What a client that talks to a running server finds there.
LEMMA HeldFacts ==
  ASSUME StoreFacts, NEW c \in Clients, cserver[c] \in Servers, Online(c)
  PROVE  /\ \A p : Reply(c, p) = Answer(p, Held(c), blob)
         /\ DOMAIN blob = Digests
         /\ DOMAIN Held(c).tags \subseteq TagKeys
         /\ \A k \in DOMAIN Held(c).tags :
              Held(c).tags[k] \in Digests /\ Held(c).tags[k] \in DOMAIN Held(c).manifests
         /\ \A d \in DOMAIN Held(c).manifests :
              /\ \E a \in AllSeeded : d = manifestDigest(a) /\ Held(c).manifests[d] = manifest(a)
              /\ References(Held(c).manifests[d]) \subseteq Digests
              /\ \A e \in References(Held(c).manifests[d]) : blob[e] # "absent"
<1> DEFINE i == sfd[cserver[c]]
<1>1. i \in Seeders
  BY DEF StoreFacts, Typed, TypeOK, Files, Online
<1> HIDE DEF i
<1>2. Held(c) = index[i] /\ \A p : Reply(c, p) = Answer(p, Held(c), blob)
  BY DEF Held, Reply, i
<1>3. IsIndex(index[i]) /\ Resolves(index[i]) /\ SourcedIn(index[i]) /\ DOMAIN blob = Digests
  BY <1>1 DEF StoreFacts, Typed, TypeOK, AllResolve, Sourced
<1>4. \A e \in Reachable(index[i]) : blob[e] # "absent"
  <2>1. ASSUME NEW e \in Reachable(index[i]) PROVE blob[e] # "absent"
    <3>1. Intact(e)
      BY <1>1 DEF StoreFacts, Steady, Promised
    <3>2. CASE blob[e] = "whole"
      BY <3>2
    <3>3. ASSUME NEW s \in Seeders, writing[s] = e PROVE blob[e] # "absent"
      <4>1. IsIndex(index[i])
        BY <1>3
      <4>2. e \in Digests
        BY <4>1 DEF IsIndex, Reachable
      <4> QED
        BY <3>3, <4>2, NoBlobAssumption DEF StoreFacts, Begun
    <3> QED
      BY <3>1, <3>2, <3>3 DEF Intact
  <2> QED
    BY <2>1
<1> QED
  BY <1>2, <1>3, <1>4 DEF IsIndex, Resolves, SourcedIn, Reachable

-----------------------------------------------------------------------------
(***************************************************************************)
(* Each step of a client.                                                  *)
(***************************************************************************)
Root == <<blob, index, spc, sfd>>

\* A client that does not move while the storage root does not.
LEMMA StillFine ==
  ASSUME NEW c, Fine(c), Own(c)' = Own(c), UNCHANGED Root
  PROVE  Fine(c)'
BY DEF Fine, Picked, Live, Held, Own, Root

\* One client's step: the others' variables stay.
LEMMA OneFine ==
  ASSUME Pulls, UNCHANGED Root, PullTypes', NEW c \in Clients, Fine(c)',
         \A e \in Clients : e # c => Own(e)' = Own(e)
  PROVE  Pulls'
BY StillFine DEF Pulls

LEMMA HandshakeFine ==
  ASSUME Pulls, NEW c \in Clients, Handshake(c)
  PROVE  Pulls'
<1>1. PullTypes'
  BY DEF Pulls, PullTypes, Handshake, ClientPC
<1>2. UNCHANGED Root
  BY DEF Handshake, Root, storeVars, vars, serverVars
<1>3. \A e \in Clients : e # c => Own(e)' = Own(e)
  BY DEF Pulls, PullTypes, Handshake, Own
<1>4. Fine(c)'
  <2>1. cpc'[c] = "catalog" /\ cserver'[c] \in Servers /\ spc'[cserver'[c]] = "up"
    BY <1>2 DEF Pulls, PullTypes, Handshake, Root
  <2>2. /\ cblob'[c] = NoBlob /\ failure'[c] # "BLOB_UNKNOWN"
        /\ ~restarted'[c] => failure'[c] = "none"
    BY DEF Pulls, Fine, Picked, Live, Handshake
  <2> QED
    BY <2>1, <2>2 DEF Fine, Picked, Live, FromTags, FromByTag, FromByDigest, FromBlobs
<1> QED
  BY <1>1, <1>2, <1>3, <1>4, OneFine

LEMMA CatalogFine ==
  ASSUME StoreFacts, Pulls, NEW c \in Clients, PullCatalog(c)
  PROVE  Pulls'
<1>1. UNCHANGED Root
  BY DEF PullCatalog, Root, storeVars, vars, serverVars
<1>2. /\ cpc \in [Clients -> ClientPC] /\ crepo \in [Clients -> Repos \cup {<<>>}]
      /\ Fine(c) /\ cserver[c] \in Servers /\ cpc[c] = "catalog" /\ Online(c)
  BY DEF Pulls, PullTypes, Fine, Picked, PullCatalog
<1>3. Reply(c, <<"/", "_catalog">>).repositories =
        {r \in Repos : \E t \in Tags : tagKey(r, t) \in DOMAIN Held(c).tags}
  BY <1>2, HeldFacts, CatalogAnswer, ReposListed
<1>4. \/ cpc' = [cpc EXCEPT ![c] = "done"] /\ crepo' = crepo
      \/ \E r \in Repos : /\ \E t \in Tags : tagKey(r, t) \in DOMAIN Held(c).tags
                          /\ crepo' = [crepo EXCEPT ![c] = r]
                          /\ cpc' = [cpc EXCEPT ![c] = "tags"]
  BY <1>3 DEF PullCatalog
<1>5. UNCHANGED <<cserver, ctag, cdigest, cbody, cleft, cblob, ctorn, failure, restarted>>
  BY DEF PullCatalog
<1>6. PullTypes'
  <2>1. cpc' \in [Clients -> ClientPC] /\ crepo' \in [Clients -> Repos \cup {<<>>}]
    BY <1>2, <1>4 DEF ClientPC
  <2> QED
    BY <1>5, <2>1 DEF Pulls, PullTypes
<1>7. \A e \in Clients : e # c => Own(e)' = Own(e)
  BY <1>2, <1>4, <1>5 DEF Own
<1>8. Fine(c)'
  <2>1. Held(c)' = Held(c) /\ spc' = spc
    BY <1>1, <1>5 DEF Root, Held
  <2>2. CASE cpc'[c] = "done"
    BY <1>2, <1>5, <2>2 DEF Fine, Picked, Live, FromTags, FromByTag, FromByDigest, FromBlobs, Pulling
  <2>3. CASE /\ cpc'[c] = "tags" /\ crepo'[c] \in Repos
             /\ \E t \in Tags : tagKey(crepo'[c], t) \in DOMAIN Held(c).tags
    BY <1>2, <1>5, <2>1, <2>3 DEF Fine, Picked, Live, FromTags, FromByTag, FromByDigest, FromBlobs, Pulling
  <2> QED
    BY <1>2, <1>4, <2>2, <2>3
<1> QED
  BY <1>1, <1>6, <1>7, <1>8, OneFine

LEMMA TagsFine ==
  ASSUME StoreFacts, Pulls, NEW c \in Clients, PullTags(c)
  PROVE  Pulls'
<1>1. UNCHANGED Root
  BY DEF PullTags, Root, storeVars, vars, serverVars
<1>2. /\ cpc \in [Clients -> ClientPC] /\ ctag \in [Clients -> Tags \cup {<<>>}]
      /\ failure \in [Clients -> {"none", "NAME_UNKNOWN", "MANIFEST_UNKNOWN", "BLOB_UNKNOWN"}]
      /\ Fine(c) /\ cserver[c] \in Servers /\ crepo[c] \in Repos /\ cpc[c] = "tags" /\ Online(c)
  BY DEF Pulls, PullTypes, Fine, Picked, PullTags, FromTags
<1> DEFINE tags == {t \in Tags : tagKey(crepo[c], t) \in DOMAIN Held(c).tags}
           reply == Reply(c, Slash \o crepo[c] \o tagsList)
<1>3. /\ reply.status = 404 => reply.code = "NAME_UNKNOWN" /\ tags = {}
      /\ reply.status = 200 => reply.tags = tags
  <2>1. /\ reply = Answer(Slash \o crepo[c] \o tagsList, Held(c), blob)
        /\ DOMAIN Held(c).tags \subseteq TagKeys
    BY <1>2, HeldFacts
  <2>2. ListTags(Held(c), crepo[c]) = tags
    BY <1>2, <2>1, TagsListed
  <2> HIDE DEF reply, tags
  <2>3. /\ reply.status = 404 => reply.code = "NAME_UNKNOWN" /\ ListTags(Held(c), crepo[c]) = {}
        /\ reply.status = 200 => reply.tags = ListTags(Held(c), crepo[c])
    BY <1>2, <2>1, TagsAnswer
  <2> QED
    BY <2>2, <2>3
<1>4. \/ Fail(c, reply) /\ ctag' = ctag
      \/ /\ reply.status = 200
         /\ \E t \in reply.tags : ctag' = [ctag EXCEPT ![c] = t]
         /\ cpc' = [cpc EXCEPT ![c] = "byTag"]
         /\ failure' = failure
  BY DEF PullTags
<1> HIDE DEF reply
<1>5. \/ /\ tags = {}
         /\ failure' = [failure EXCEPT ![c] = "NAME_UNKNOWN"]
         /\ cpc' = [cpc EXCEPT ![c] = "failed"]
         /\ ctag' = ctag
      \/ /\ \E t \in tags : ctag' = [ctag EXCEPT ![c] = t]
         /\ cpc' = [cpc EXCEPT ![c] = "byTag"]
         /\ failure' = failure
  BY <1>3, <1>4 DEF Fail
<1>6. UNCHANGED <<cserver, crepo, cdigest, cbody, cleft, cblob, ctorn, restarted>>
  BY DEF PullTags
<1>7. PullTypes'
  <2>1. /\ cpc' \in [Clients -> ClientPC] /\ ctag' \in [Clients -> Tags \cup {<<>>}]
        /\ failure' \in [Clients -> {"none", "NAME_UNKNOWN", "MANIFEST_UNKNOWN", "BLOB_UNKNOWN"}]
    BY <1>2, <1>5 DEF ClientPC
  <2> QED
    BY <1>6, <2>1 DEF Pulls, PullTypes
<1>8. \A e \in Clients : e # c => Own(e)' = Own(e)
  BY <1>2, <1>5, <1>6 DEF Own
<1>9. Fine(c)'
  <2>1. Held(c)' = Held(c) /\ spc' = spc
    BY <1>1, <1>6 DEF Root, Held
  <2>2. CASE tags = {} /\ cpc'[c] = "failed" /\ failure'[c] = "NAME_UNKNOWN"
    <3>1. restarted[c]
      BY <1>2, <2>2 DEF Fine, Live
    <3> QED
      BY <1>2, <1>6, <2>2, <3>1 DEF Fine, Picked, FromTags, FromByTag, FromByDigest, FromBlobs
  <2>3. CASE /\ cpc'[c] = "byTag" /\ failure'[c] = failure[c] /\ ctag'[c] \in Tags
             /\ tagKey(crepo[c], ctag'[c]) \in DOMAIN Held(c).tags
    BY <1>2, <1>6, <2>1, <2>3 DEF Fine, Picked, Live, FromTags, FromByTag, FromByDigest, FromBlobs, Pulling
  <2> QED
    BY <1>2, <1>5, <2>2, <2>3
<1> QED
  BY <1>1, <1>7, <1>8, <1>9, OneFine

LEMMA ByTagFine ==
  ASSUME StoreFacts, Pulls, NEW c \in Clients, PullByTag(c)
  PROVE  Pulls'
<1>1. UNCHANGED Root
  BY DEF PullByTag, Root, storeVars, vars, serverVars
<1>2. /\ cpc \in [Clients -> ClientPC] /\ cdigest \in [Clients -> Digests \cup {NoBlob}]
      /\ cbody = [e \in Clients |-> cbody[e]]
      /\ \A e \in Clients : References(cbody[e]) \subseteq Digests \cup {NoBlob}
      /\ failure \in [Clients -> {"none", "NAME_UNKNOWN", "MANIFEST_UNKNOWN", "BLOB_UNKNOWN"}]
      /\ Fine(c) /\ cserver[c] \in Servers /\ crepo[c] \in Repos /\ ctag[c] \in Tags
      /\ cpc[c] = "byTag" /\ Online(c)
  BY DEF Pulls, PullTypes, Fine, Picked, PullByTag, FromTags, FromByTag
<1> DEFINE key == tagKey(crepo[c], ctag[c])
           reply == Reply(c, Slash \o crepo[c] \o manifests \o ctag[c])
<1>3. /\ reply.status = 404 =>
           /\ reply.code = "MANIFEST_UNKNOWN"
           /\ key \in DOMAIN Held(c).tags => Held(c).tags[key] \notin DOMAIN Held(c).manifests
      /\ reply.status = 200 =>
           /\ key \in DOMAIN Held(c).tags
           /\ reply.digest = Held(c).tags[key]
           /\ reply.digest \in DOMAIN Held(c).manifests
           /\ reply.data = Held(c).manifests[reply.digest]
  <2>1. reply = Answer(Slash \o crepo[c] \o manifests \o ctag[c], Held(c), blob)
    BY <1>2, HeldFacts
  <2> HIDE DEF reply
  <2> QED
    BY <1>2, <2>1, ByTagAnswer
<1>4. \/ Fail(c, reply) /\ UNCHANGED <<cdigest, cbody>>
      \/ /\ reply.status = 200
         /\ cdigest' = [cdigest EXCEPT ![c] = reply.digest]
         /\ cbody' = [cbody EXCEPT ![c] = reply.data]
         /\ cpc' = [cpc EXCEPT ![c] = "byDigest"]
         /\ failure' = failure
  BY DEF PullByTag
<1> HIDE DEF reply, key
<1>5. \/ /\ key \notin DOMAIN Held(c).tags
         /\ failure' = [failure EXCEPT ![c] = "MANIFEST_UNKNOWN"]
         /\ cpc' = [cpc EXCEPT ![c] = "failed"]
         /\ UNCHANGED <<cdigest, cbody>>
      \/ \E d \in DOMAIN Held(c).manifests :
           /\ d \in Digests
           /\ \E a \in AllSeeded : d = manifestDigest(a) /\ Held(c).manifests[d] = manifest(a)
           /\ References(Held(c).manifests[d]) \subseteq Digests
           /\ cdigest' = [cdigest EXCEPT ![c] = d]
           /\ cbody' = [cbody EXCEPT ![c] = Held(c).manifests[d]]
           /\ cpc' = [cpc EXCEPT ![c] = "byDigest"]
           /\ failure' = failure
  <2>1. /\ \A k \in DOMAIN Held(c).tags :
              Held(c).tags[k] \in Digests /\ Held(c).tags[k] \in DOMAIN Held(c).manifests
        /\ \A d \in DOMAIN Held(c).manifests :
              /\ \E a \in AllSeeded : d = manifestDigest(a) /\ Held(c).manifests[d] = manifest(a)
              /\ References(Held(c).manifests[d]) \subseteq Digests
    BY <1>2, HeldFacts
  <2>2. CASE Fail(c, reply) /\ UNCHANGED <<cdigest, cbody>>
    <3>1. key \notin DOMAIN Held(c).tags /\ reply.code = "MANIFEST_UNKNOWN"
      BY <1>3, <2>1, <2>2 DEF Fail
    <3> QED
      BY <2>2, <3>1 DEF Fail
  <2>3. CASE /\ reply.status = 200
             /\ cdigest' = [cdigest EXCEPT ![c] = reply.digest]
             /\ cbody' = [cbody EXCEPT ![c] = reply.data]
             /\ cpc' = [cpc EXCEPT ![c] = "byDigest"]
             /\ failure' = failure
    <3> DEFINE d == reply.digest
    <3>1. d \in DOMAIN Held(c).manifests /\ d \in Digests /\ reply.data = Held(c).manifests[d]
      BY <1>3, <2>1, <2>3
    <3>2. /\ \E a \in AllSeeded : d = manifestDigest(a) /\ Held(c).manifests[d] = manifest(a)
          /\ References(Held(c).manifests[d]) \subseteq Digests
      BY <2>1, <3>1
    <3>3. /\ cdigest' = [cdigest EXCEPT ![c] = d]
          /\ cbody' = [cbody EXCEPT ![c] = Held(c).manifests[d]]
      BY <2>3, <3>1
    <3> HIDE DEF d
    <3> QED
      BY <2>3, <3>1, <3>2, <3>3, Zenon
  <2> QED
    BY <1>4, <2>2, <2>3
<1>6. UNCHANGED <<cserver, crepo, ctag, cleft, cblob, ctorn, restarted>>
  BY DEF PullByTag
<1>7. PullTypes'
  <2>1. /\ cpc' \in [Clients -> ClientPC] /\ cdigest' \in [Clients -> Digests \cup {NoBlob}]
        /\ failure' \in [Clients -> {"none", "NAME_UNKNOWN", "MANIFEST_UNKNOWN", "BLOB_UNKNOWN"}]
    BY <1>2, <1>5 DEF ClientPC
  <2>2. cbody' = [e \in Clients |-> cbody'[e]]
    BY <1>2, <1>5
  <2>3. \A e \in Clients : References(cbody'[e]) \subseteq Digests \cup {NoBlob}
    BY <1>2, <1>5
  <2> QED
    BY <1>6, <2>1, <2>2, <2>3 DEF Pulls, PullTypes
<1>8. \A e \in Clients : e # c => Own(e)' = Own(e)
  BY <1>2, <1>5, <1>6 DEF Own
<1>9. Fine(c)'
  <2>1. Held(c)' = Held(c) /\ spc' = spc
    BY <1>1, <1>6 DEF Root, Held
  <2>2. CASE key \notin DOMAIN Held(c).tags /\ cpc'[c] = "failed" /\ failure'[c] = "MANIFEST_UNKNOWN"
    <3>1. restarted[c]
      BY <1>2, <2>2 DEF Fine, Live, key
    <3> QED
      BY <1>2, <1>6, <2>2, <3>1 DEF Fine, Picked, FromTags, FromByTag, FromByDigest, FromBlobs
  <2>3. CASE /\ cpc'[c] = "byDigest" /\ failure'[c] = failure[c]
             /\ \E a \in AllSeeded : cdigest'[c] = manifestDigest(a) /\ cbody'[c] = manifest(a)
             /\ cdigest'[c] \in DOMAIN Held(c).manifests
    BY <1>2, <1>6, <2>1, <2>3 DEF Fine, Picked, Live, FromTags, FromByTag, FromByDigest, FromBlobs, Pulling
  <2> QED
    BY <1>2, <1>5, <2>2, <2>3
<1> QED
  BY <1>1, <1>7, <1>8, <1>9, OneFine

LEMMA ByDigestFine ==
  ASSUME StoreFacts, Pulls, NEW c \in Clients, PullByDigest(c)
  PROVE  /\ Pulls'
         /\ cpc'[c] = "blobs" => cbody'[c] = cbody[c]
<1>1. UNCHANGED Root
  BY DEF PullByDigest, Root, storeVars, vars, serverVars
<1>2. /\ cpc \in [Clients -> ClientPC] /\ cleft \in [Clients -> SUBSET Digests]
      /\ cbody = [e \in Clients |-> cbody[e]]
      /\ \A e \in Clients : References(cbody[e]) \subseteq Digests \cup {NoBlob}
      /\ failure \in [Clients -> {"none", "NAME_UNKNOWN", "MANIFEST_UNKNOWN", "BLOB_UNKNOWN"}]
      /\ Fine(c) /\ cserver[c] \in Servers /\ crepo[c] \in Repos /\ ctag[c] \in Tags
      /\ \E a \in AllSeeded : cdigest[c] = manifestDigest(a) /\ cbody[c] = manifest(a)
      /\ cpc[c] = "byDigest" /\ Online(c)
  BY DEF Pulls, PullTypes, Fine, Picked, PullByDigest, FromTags, FromByTag, FromByDigest
<1>3. cdigest[c] \in Digests
  BY <1>2, ArtifactDigests DEF AllSeeded
<1> DEFINE reply == Reply(c, Slash \o crepo[c] \o manifests \o cdigest[c])
<1>4. /\ reply.status = 404 =>
           reply.code = "MANIFEST_UNKNOWN" /\ cdigest[c] \notin DOMAIN Held(c).manifests
      /\ reply.status = 200 =>
           /\ cdigest[c] \in DOMAIN Held(c).manifests
           /\ reply.data = Held(c).manifests[cdigest[c]]
  <2>1. reply = Answer(Slash \o crepo[c] \o manifests \o cdigest[c], Held(c), blob)
    BY <1>2, HeldFacts
  <2> HIDE DEF reply
  <2> QED
    BY <1>2, <1>3, <2>1, ByDigestAnswer
<1>5. \/ Fail(c, reply) /\ UNCHANGED <<cbody, cleft>>
      \/ /\ reply.status = 200
         /\ cbody' = [cbody EXCEPT ![c] = reply.data]
         /\ cleft' = [cleft EXCEPT ![c] = References(reply.data)]
         /\ cpc' = [cpc EXCEPT ![c] = "blobs"]
         /\ failure' = failure
  BY DEF PullByDigest
<1> HIDE DEF reply
\* Equal digests, equal manifests.
<1>6. ASSUME cdigest[c] \in DOMAIN Held(c).manifests
      PROVE  /\ Held(c).manifests[cdigest[c]] = cbody[c]
             /\ References(cbody[c]) \subseteq Digests
             /\ \A e \in References(cbody[c]) : blob[e] # "absent"
  <2>1. PICK a \in AllSeeded : cdigest[c] = manifestDigest(a) /\ cbody[c] = manifest(a)
    BY <1>2
  <2>2. PICK b \in AllSeeded :
          cdigest[c] = manifestDigest(b) /\ Held(c).manifests[cdigest[c]] = manifest(b)
    BY <1>2, <1>6, HeldFacts
  <2>3. manifest(a) = manifest(b)
    BY <2>1, <2>2, NoCollisions DEF AllSeeded, manifestDigest
  <2>4. Held(c).manifests[cdigest[c]] = cbody[c]
    BY <2>1, <2>2, <2>3
  <2> QED
    BY <1>2, <1>6, <2>4, HeldFacts
<1>7. \/ /\ cdigest[c] \notin DOMAIN Held(c).manifests
         /\ failure' = [failure EXCEPT ![c] = "MANIFEST_UNKNOWN"]
         /\ cpc' = [cpc EXCEPT ![c] = "failed"]
         /\ UNCHANGED <<cbody, cleft>>
      \/ /\ References(cbody[c]) \subseteq Digests
         /\ \A e \in References(cbody[c]) : blob[e] # "absent"
         /\ cbody' = cbody
         /\ cleft' = [cleft EXCEPT ![c] = References(cbody[c])]
         /\ cpc' = [cpc EXCEPT ![c] = "blobs"]
         /\ failure' = failure
  <2>1. [cbody EXCEPT ![c] = cbody[c]] = cbody
    BY <1>2
  <2>2. CASE Fail(c, reply) /\ UNCHANGED <<cbody, cleft>>
    BY <1>4, <2>2 DEF Fail
  <2>3. CASE /\ reply.status = 200
             /\ cbody' = [cbody EXCEPT ![c] = reply.data]
             /\ cleft' = [cleft EXCEPT ![c] = References(reply.data)]
             /\ cpc' = [cpc EXCEPT ![c] = "blobs"]
             /\ failure' = failure
    <3>1. reply.data = cbody[c]
      BY <1>4, <1>6, <2>3
    <3> QED
      BY <1>4, <1>6, <2>1, <2>3, <3>1
  <2> QED
    BY <1>5, <2>2, <2>3
<1>8. UNCHANGED <<cserver, crepo, ctag, cdigest, cblob, ctorn, restarted>>
  BY DEF PullByDigest
<1>9. cbody' = cbody
  BY <1>7
<1>10. PullTypes'
  <2>1. /\ cpc' \in [Clients -> ClientPC] /\ cleft' \in [Clients -> SUBSET Digests]
        /\ failure' \in [Clients -> {"none", "NAME_UNKNOWN", "MANIFEST_UNKNOWN", "BLOB_UNKNOWN"}]
    BY <1>2, <1>7 DEF ClientPC
  <2> QED
    BY <1>8, <1>9, <2>1 DEF Pulls, PullTypes
<1>11. \A e \in Clients : e # c => Own(e)' = Own(e)
  BY <1>2, <1>7, <1>8, <1>9 DEF Own
<1>12. Fine(c)'
  <2>1. Held(c)' = Held(c) /\ spc' = spc /\ blob' = blob
    BY <1>1, <1>8 DEF Root, Held
  <2>2. CASE /\ cdigest[c] \notin DOMAIN Held(c).manifests
             /\ cpc'[c] = "failed" /\ failure'[c] = "MANIFEST_UNKNOWN"
    <3>1. restarted[c]
      BY <1>2, <2>2 DEF Fine, Live
    <3> QED
      BY <1>2, <1>8, <2>2, <3>1 DEF Fine, Picked, FromTags, FromByTag, FromByDigest, FromBlobs
  <2>3. CASE /\ cpc'[c] = "blobs" /\ failure'[c] = failure[c]
             /\ \A e \in cleft'[c] : blob[e] # "absent"
    BY <1>2, <1>8, <1>9, <2>1, <2>3 DEF Fine, Picked, Live, FromTags, FromByTag, FromByDigest, FromBlobs, Pulling
  <2> QED
    BY <1>2, <1>7, <2>2, <2>3
<1> QED
  BY <1>1, <1>9, <1>10, <1>11, <1>12, OneFine

LEMMA StatFine ==
  ASSUME StoreFacts, Pulls, NEW c \in Clients, StatBlob(c)
  PROVE  Pulls'
<1>1. UNCHANGED Root
  BY DEF StatBlob, Root, storeVars, vars, serverVars
<1>2. /\ cpc \in [Clients -> ClientPC] /\ cleft \in [Clients -> SUBSET Digests]
      /\ cblob \in [Clients -> Digests \cup {NoBlob}]
      /\ failure \in [Clients -> {"none", "NAME_UNKNOWN", "MANIFEST_UNKNOWN", "BLOB_UNKNOWN"}]
      /\ Fine(c) /\ cserver[c] \in Servers /\ crepo[c] \in Repos
      /\ \A d \in cleft[c] : blob[d] # "absent"
      /\ cpc[c] = "blobs" /\ Online(c)
  BY DEF Pulls, PullTypes, Fine, Picked, StatBlob, FromTags, FromBlobs
<1>3. PICK d \in cleft[c] :
        LET reply == Reply(c, Slash \o crepo[c] \o blobs \o d)
        IN \/ Fail(c, reply) /\ UNCHANGED cblob
           \/ /\ reply.status = 200
              /\ cblob' = [cblob EXCEPT ![c] = d]
              /\ cpc' = [cpc EXCEPT ![c] = "stream"]
              /\ UNCHANGED failure
  BY DEF StatBlob
<1> DEFINE reply == Reply(c, Slash \o crepo[c] \o blobs \o d)
<1>4. d \in Digests /\ blob[d] # "absent"
  BY <1>2
<1>5. reply.status # 404
  <2>1. reply = Answer(Slash \o crepo[c] \o blobs \o d, Held(c), blob) /\ DOMAIN blob = Digests
    BY <1>2, HeldFacts
  <2> HIDE DEF reply
  <2>2. reply.status = 404 => blob[d] = "absent"
    BY <1>2, <1>4, <2>1, BlobAnswer
  <2> QED
    BY <1>4, <2>2
<1> HIDE DEF reply
<1>6. /\ cblob' = [cblob EXCEPT ![c] = d]
      /\ cpc' = [cpc EXCEPT ![c] = "stream"]
      /\ UNCHANGED failure
  BY <1>3, <1>5 DEF Fail, reply
<1>7. UNCHANGED <<cserver, crepo, ctag, cdigest, cbody, cleft, ctorn, restarted>>
  BY DEF StatBlob
<1>8. PullTypes'
  <2>1. cpc' \in [Clients -> ClientPC] /\ cblob' \in [Clients -> Digests \cup {NoBlob}]
    BY <1>2, <1>4, <1>6 DEF ClientPC
  <2> QED
    BY <1>6, <1>7, <2>1 DEF Pulls, PullTypes
<1>9. \A e \in Clients : e # c => Own(e)' = Own(e)
  BY <1>2, <1>6, <1>7 DEF Own
<1>10. Fine(c)'
  <2>1. blob' = blob /\ spc' = spc
    BY <1>1 DEF Root
  <2>2. cpc'[c] = "stream" /\ cblob'[c] = d
    BY <1>2, <1>6
  <2> QED
    BY <1>2, <1>6, <1>7, <2>1, <2>2
       DEF Fine, Picked, Live, FromTags, FromByTag, FromByDigest, FromBlobs, Pulling
<1> QED
  BY <1>1, <1>8, <1>9, <1>10, OneFine

LEMMA StreamFine ==
  ASSUME Pulls, NEW c \in Clients, StreamBlob(c)
  PROVE  Pulls'
<1>1. UNCHANGED Root
  BY DEF StreamBlob, Root, storeVars, vars, serverVars
<1>2. /\ cpc \in [Clients -> ClientPC] /\ cleft \in [Clients -> SUBSET Digests]
      /\ ctorn \in [Clients -> SUBSET Digests] /\ cblob \in [Clients -> Digests \cup {NoBlob}]
      /\ Fine(c) /\ cblob[c] \in cleft[c]
      /\ \A d \in cleft[c] : blob[d] # "absent"
      /\ cpc[c] = "stream"
  BY DEF Pulls, PullTypes, Fine, Picked, StreamBlob, FromBlobs
<1>3. cblob[c] \in Digests
  BY <1>2
<1>4. /\ cleft' = [cleft EXCEPT ![c] = @ \ {cblob[c]}]
      /\ cblob' = [cblob EXCEPT ![c] = NoBlob]
      /\ UNCHANGED <<cserver, crepo, ctag, cdigest, cbody, failure, restarted>>
  BY DEF StreamBlob
<1>5. \/ cpc' = [cpc EXCEPT ![c] = "done"]
      \/ cpc' = [cpc EXCEPT ![c] = "blobs"]
  BY DEF StreamBlob
<1>6. PullTypes'
  <2>1. cpc' \in [Clients -> ClientPC]
    BY <1>2, <1>5 DEF ClientPC
  <2>2. cleft' \in [Clients -> SUBSET Digests] /\ cblob' \in [Clients -> Digests \cup {NoBlob}]
    BY <1>2, <1>4
  <2>3. ctorn' \in [Clients -> SUBSET Digests]
    BY <1>2, <1>3 DEF StreamBlob
  <2> QED
    BY <1>4, <2>1, <2>2, <2>3 DEF Pulls, PullTypes
<1>7. \A e \in Clients : e # c => Own(e)' = Own(e)
  BY <1>2, <1>4, <1>5 DEF Own
<1>8. Fine(c)'
  <2>1. blob' = blob /\ spc' = spc
    BY <1>1 DEF Root
  <2>2. cblob'[c] = NoBlob /\ cleft'[c] \subseteq cleft[c] /\ cpc'[c] \in {"done", "blobs"}
    BY <1>2, <1>4, <1>5
  <2> QED
    BY <1>2, <1>4, <2>1, <2>2
       DEF Fine, Picked, Live, FromTags, FromByTag, FromByDigest, FromBlobs, Pulling
<1> QED
  BY <1>1, <1>6, <1>7, <1>8, OneFine

(***************************************************************************)
(* The storage root's steps.                                               *)
(***************************************************************************)
\* What the storage root may do behind a client's back.
LEMMA BehindFine ==
  ASSUME Snapshot, BlobsStay, PullTypes, NEW c \in Clients, Fine(c), Own(c)' = Own(c),
         ~restarted[c] /\ cpc[c] \in Pulling /\ spc[cserver[c]] = "up"
           => spc'[cserver[c]] = "up"
  PROVE  Fine(c)'
<1>1. /\ cpc'[c] = cpc[c] /\ cserver'[c] = cserver[c] /\ crepo'[c] = crepo[c] /\ ctag'[c] = ctag[c]
      /\ cdigest'[c] = cdigest[c] /\ cbody'[c] = cbody[c] /\ cleft'[c] = cleft[c]
      /\ cblob'[c] = cblob[c] /\ failure'[c] = failure[c] /\ restarted'[c] = restarted[c]
  BY DEF Own
<1>2. Picked(c)'
  <2>1. cleft[c] \subseteq Digests
    BY DEF PullTypes
  <2>2. \A d \in cleft[c] : blob[d] # "absent" => blob'[d] # "absent"
    BY <2>1 DEF BlobsStay
  <2> QED
    BY <1>1, <2>2 DEF Fine, Picked
<1>3. ASSUME ~restarted[c] PROVE Live(c)'
  <2>1. Live(c) /\ Picked(c)
    BY <1>3 DEF Fine
  <2>2. CASE cpc[c] \in Pulling
    <3>1. cserver[c] \in Servers /\ spc[cserver[c]] = "up" /\ spc'[cserver[c]] = "up"
      BY <1>3, <2>1, <2>2 DEF Live, Picked, Pulling, FromTags
    <3>2. Held(c)' = Held(c)
      BY <1>1, <3>1 DEF Snapshot, Held
    <3> QED
      BY <1>1, <2>1, <3>1, <3>2 DEF Live
  <2>3. CASE cpc[c] \notin Pulling
    BY <1>1, <2>1, <2>3 DEF Live, Pulling, FromTags
  <2> QED
    BY <2>2, <2>3
<1> QED
  BY <1>1, <1>2, <1>3 DEF Fine

LEMMA StoreFine ==
  ASSUME StoreFacts, Pulls, [Next]_vars,
         \A v \in Servers : spc[v] = "up" => spc'[v] = "up",
         UNCHANGED clientVars
  PROVE  Pulls'
<1>1. Snapshot /\ BlobsStay
  BY NextSnapshot, NextBlobs DEF StoreFacts, Typed
<1>2. PullTypes'
  BY DEF Pulls, PullTypes, clientVars
<1>3. ASSUME NEW c \in Clients PROVE Fine(c)'
  <2>1. PullTypes /\ Fine(c) /\ Own(c)' = Own(c)
    BY DEF Pulls, Own, clientVars
  <2>2. cpc[c] \in Pulling => cserver[c] \in Servers
    BY <2>1 DEF Fine, Picked, Pulling, FromTags
  <2> QED
    BY <1>1, <2>1, <2>2, BehindFine
<1> QED
  BY <1>2, <1>3 DEF Pulls

LEMMA StopFine ==
  ASSUME StoreFacts, Pulls, NEW v \in Servers, StopServerPull(v)
  PROVE  Pulls'
<1>1. [Next]_vars
  BY DEF StopServerPull, Next, ServerNext
<1>2. Snapshot /\ BlobsStay
  BY <1>1, NextSnapshot, NextBlobs DEF StoreFacts, Typed
<1>3. \A w \in Servers : w # v => spc'[w] = spc[w]
  BY DEF StopServerPull, StopServer, StoreFacts, Typed, TypeOK
<1>4. /\ UNCHANGED <<cserver, crepo, ctag, cdigest, cbody, cleft, ctorn, failure>>
      /\ restarted' = [c \in Clients |-> restarted[c] \/ c \in PullingFrom(v)]
      /\ cpc' = [c \in Clients |->
                   IF c \in PullingFrom(v) /\ cpc[c] = "stream" THEN "blobs" ELSE cpc[c]]
      /\ cblob' = [c \in Clients |-> IF c \in PullingFrom(v) THEN NoBlob ELSE cblob[c]]
  BY DEF StopServerPull
<1>5. PullTypes'
  <2>1. /\ restarted \in [Clients -> BOOLEAN] /\ cpc \in [Clients -> ClientPC]
        /\ cblob \in [Clients -> Digests \cup {NoBlob}]
    BY DEF Pulls, PullTypes
  <2>2. restarted' \in [Clients -> BOOLEAN]
    BY <1>4, <2>1
  <2>3. cpc' \in [Clients -> ClientPC] /\ cblob' \in [Clients -> Digests \cup {NoBlob}]
    BY <1>4, <2>1 DEF ClientPC
  <2> QED
    BY <1>4, <2>2, <2>3 DEF Pulls, PullTypes
<1>6. ASSUME NEW c \in Clients, c \in PullingFrom(v) PROVE Fine(c)'
  <2>1. /\ restarted'[c] /\ cblob'[c] = NoBlob
        /\ cpc'[c] = IF cpc[c] = "stream" THEN "blobs" ELSE cpc[c]
    BY <1>4, <1>6
  <2>2. Picked(c) /\ cpc[c] # "idle" /\ cleft[c] \subseteq Digests
    BY <1>6 DEF Pulls, PullTypes, Fine, PullingFrom
  <2>3. cpc'[c] # "stream"
    BY <2>1
  <2>4. \A d \in cleft[c] : blob[d] # "absent" => blob'[d] # "absent"
    BY <1>2, <2>2 DEF BlobsStay
  <2> QED
    BY <1>4, <2>1, <2>2, <2>3, <2>4
       DEF Fine, Picked, FromTags, FromByTag, FromByDigest, FromBlobs
<1>7. ASSUME NEW c \in Clients, c \notin PullingFrom(v) PROVE Fine(c)'
  <2>1. restarted \in [Clients -> BOOLEAN]
    BY DEF Pulls, PullTypes
  <2>2. restarted'[c] = restarted[c]
    BY <1>4, <1>7, <2>1
  <2>3. PullTypes /\ Fine(c) /\ Own(c)' = Own(c)
    BY <1>4, <1>7, <2>2 DEF Pulls, Own
  <2>4. cpc[c] \in Pulling => cserver[c] \in Servers /\ cserver[c] # v
    BY <1>7, <2>3 DEF Fine, Picked, Pulling, FromTags, PullingFrom
  <2> QED
    BY <1>2, <1>3, <2>3, <2>4, BehindFine
<1> QED
  BY <1>5, <1>6, <1>7 DEF Pulls

LEMMA NextPulls == StoreFacts /\ Pulls /\ [NextPull]_allVars => Pulls'
<1> SUFFICES ASSUME StoreFacts, Pulls, [NextPull]_allVars PROVE Pulls'
  OBVIOUS
<1>0. [Next]_vars /\ spc \in [Servers -> ServerPC]
  BY PullSteps DEF StoreFacts, Typed, TypeOK
<1>1. ASSUME ClientNext PROVE Pulls'
  BY <1>1, HandshakeFine, CatalogFine, TagsFine, ByTagFine, ByDigestFine, StatFine, StreamFine
     DEF ClientNext
<1>2. ASSUME SeedNext, UNCHANGED clientVars PROVE Pulls'
  <2>1. spc' = spc
    BY <1>2 DEF SeedNext, SeedStep, StartSeed, BeginBlob, EndBlob, RemoveIndex, OpenIndex,
                LockIndex, PutArtifact, Commit, Close, Die, serverVars
  <2> QED
    BY <1>0, <1>2, <2>1, StoreFine
<1>3. ASSUME NEW v \in Servers, OpenServer(v) \/ LockServer(v), UNCHANGED clientVars PROVE Pulls'
  <2>1. \A w \in Servers : spc[w] = "up" => spc'[w] = "up"
    BY <1>0, <1>3 DEF OpenServer, LockServer
  <2> QED
    BY <1>0, <1>3, <2>1, StoreFine
<1>4. ASSUME NEW v \in Servers, StopServerPull(v) PROVE Pulls'
  BY <1>4, StopFine
<1>5. ASSUME UNCHANGED allVars PROVE Pulls'
  <2>1. UNCHANGED clientVars /\ UNCHANGED vars
    BY <1>5 DEF allVars, storeVars
  <2>2. spc' = spc
    BY <2>1 DEF vars, serverVars
  <2> QED
    BY <1>0, <2>1, <2>2, StoreFine
<1> QED
  BY <1>1, <1>2, <1>3, <1>4, <1>5 DEF NextPull, StoreNext

LEMMA Pulled == SpecPull => []StoreFacts /\ []Pulls
<1>1. InitPull => Pulls
  BY InitPulls
<1>2. StoreFacts /\ Pulls /\ [NextPull]_allVars => Pulls'
  BY NextPulls
<1> QED
  BY <1>1, <1>2, PullsOverStore, StoreStays, PTL DEF SpecPull

(***************************************************************************)
(* PullTypesCorrect: the clients' variables keep their types, and so do    *)
(* the storage root's under them (internal/oci/handler.go 29-93).          *)
(***************************************************************************)
THEOREM PullTypesCorrect == SpecPull => []TypeOKPull
<1>1. StoreFacts /\ Pulls => TypeOKPull
  BY DEF StoreFacts, Typed, Pulls, PullTypes, Fine, Picked, TypeOKPull
<1> QED
  BY <1>1, Pulled, PTL

(***************************************************************************)
(* SessionsAreConsistent: as long as its server runs, a pull meets no      *)
(* error, whatever seed processes and other servers do meanwhile           *)
(* (internal/oci/registry.go 45-182, handler.go 29-93).                    *)
(***************************************************************************)
THEOREM SessionsAreConsistent == SpecPull => []SessionConsistent
<1>1. Pulls => SessionConsistent
  BY DEF Pulls, PullTypes, Fine, Live, SessionConsistent
<1> QED
  BY <1>1, Pulled, PTL

(***************************************************************************)
(* PullsNeverBreak: no manifest that a client received leads to a missing  *)
(* blob, not even after restarts, re-seeds and the death of seeds          *)
(* (hack/seed/main.go 275-309, internal/oci/registry.go 174-176).          *)
(***************************************************************************)
THEOREM PullsNeverBreak == SpecPull => []NoBrokenPull
<1>1. Pulls => NoBrokenPull
  BY DEF Pulls, Fine, Picked, NoBrokenPull
<1> QED
  BY <1>1, Pulled, PTL

\* One step of a pull by digest.
Pinned ==
  \A c \in Clients : cpc[c] = "byDigest" /\ cpc'[c] = "blobs" => cbody'[c] = cbody[c]

LEMMA NextPinned == StoreFacts /\ Pulls /\ [NextPull]_allVars => Pinned
<1> SUFFICES ASSUME StoreFacts, Pulls, [NextPull]_allVars,
                    NEW c \in Clients, cpc[c] = "byDigest", cpc'[c] = "blobs"
             PROVE  cbody'[c] = cbody[c]
  BY DEF Pinned
<1>1. ASSUME NEW e \in Clients, PullByDigest(e) PROVE cbody'[c] = cbody[c]
  <2>1. CASE e = c
    BY <1>1, <2>1, ByDigestFine
  <2>2. CASE e # c
    BY <1>1, <2>2 DEF PullByDigest, Pulls, PullTypes
  <2> QED
    BY <2>1, <2>2
<1>2. ASSUME NEW e \in Clients, PullByTag(e) PROVE cbody'[c] = cbody[c]
  <2>1. e # c
    BY <1>2 DEF PullByTag
  <2> QED
    BY <1>2, <2>1 DEF PullByTag, Pulls, PullTypes
<1>3. ASSUME NEW e \in Clients,
             Handshake(e) \/ PullCatalog(e) \/ PullTags(e) \/ StatBlob(e) \/ StreamBlob(e)
      PROVE  cbody' = cbody
  BY <1>3 DEF Handshake, PullCatalog, PullTags, StatBlob, StreamBlob
<1>4. ASSUME StoreNext PROVE cbody' = cbody
  BY <1>4 DEF StoreNext, StopServerPull, clientVars
<1>5. ASSUME UNCHANGED allVars PROVE cbody' = cbody
  BY <1>5 DEF allVars, clientVars
<1> QED
  BY <1>1, <1>2, <1>3, <1>4, <1>5 DEF NextPull, ClientNext

(***************************************************************************)
(* DigestsPin: a pull by digest yields the manifest that came with the     *)
(* tag, wherever the tag points by now (internal/oci/registry.go 122-149). *)
(***************************************************************************)
THEOREM DigestsPin == SpecPull => PinnedManifest
<1>1. StoreFacts /\ Pulls /\ [NextPull]_allVars => [Pinned]_allVars
  BY NextPinned
<1>2. PinnedManifest <=> [][Pinned]_allVars
  BY DEF PinnedManifest, Pinned
<1> QED
  BY <1>1, <1>2, Pulled, PTL DEF SpecPull

-----------------------------------------------------------------------------
(***************************************************************************)
(* The listings.                                                           *)
(***************************************************************************)
\* What an index with the keys of some seed processes lists.
LEMMA ListedIs ==
  ASSUME NEW idx, NEW S \in SUBSET Seeders, DOMAIN idx.tags = UNION {Keys(s) : s \in S}
  PROVE  Listed(idx) = UNION {UNION {{<<a.repo, t>> : t \in a.tags} : a \in Seeded(s)} : s \in S}
<1> DEFINE seeded == UNION {UNION {{<<a.repo, t>> : t \in a.tags} : a \in Seeded(s)} : s \in S}
           K == DOMAIN idx.tags
<1>1. K \subseteq TagKeys
  BY DEF TagKeys
<1>2. /\ ListRepositories(idx) = {r \in Repos : \E t \in Tags : tagKey(r, t) \in K}
      /\ \A r \in Repos : ListTags(idx, r) = {t \in Tags : tagKey(r, t) \in K}
  BY <1>1, ReposListed, TagsListed
<1> HIDE DEF K
<1>3. ASSUME NEW x \in Listed(idx) PROVE x \in seeded
  <2>1. PICK r \in ListRepositories(idx) : \E t \in ListTags(idx, r) : x = <<r, t>>
    BY <1>3 DEF Listed
  <2>2. r \in Repos
    BY <1>2
  <2>3. PICK t \in Tags : tagKey(r, t) \in K /\ x = <<r, t>>
    BY <1>2, <2>1, <2>2
  <2>4. PICK s \in S : tagKey(r, t) \in Keys(s)
    BY <2>3 DEF K
  <2>5. PICK a \in Seeded(s) : tagKey(r, t) \in tagKeys(a)
    BY <2>4 DEF Keys
  <2>6. PICK w \in a.tags : tagKey(r, t) = tagKey(a.repo, w)
    BY <2>5 DEF tagKeys
  <2>7. a.repo \in Repos /\ w \in Tags
    BY <2>5, <2>6, ArtifactDigests DEF artifactDef
  <2>8. r = a.repo /\ t = w
    BY <2>2, <2>3, <2>6, <2>7, KeyUnique
  <2>9. x \in {<<a.repo, u>> : u \in a.tags}
    BY <2>3, <2>6, <2>8
  <2> QED
    BY <2>4, <2>5, <2>9
<1>4. ASSUME NEW x \in seeded PROVE x \in Listed(idx)
  <2>1. PICK s \in S : x \in UNION {{<<a.repo, t>> : t \in a.tags} : a \in Seeded(s)}
    BY <1>4
  <2>2. PICK a \in Seeded(s) : x \in {<<a.repo, t>> : t \in a.tags}
    BY <2>1
  <2>3. PICK t \in a.tags : x = <<a.repo, t>>
    BY <2>2
  <2>4. a.repo \in Repos /\ t \in Tags
    BY <2>1, <2>2, <2>3, ArtifactDigests DEF artifactDef
  <2>5. tagKey(a.repo, t) \in K
    BY <2>1, <2>2, <2>3 DEF K, Keys, tagKeys
  <2>6. a.repo \in ListRepositories(idx) /\ t \in ListTags(idx, a.repo)
    BY <1>2, <2>4, <2>5
  <2> QED
    BY <2>3, <2>6 DEF Listed
<1> QED
  BY <1>3, <1>4

(***************************************************************************)
(* CatalogsTellSeed: a running server lists exactly the repositories and   *)
(* tags of the seed processes that committed to its index                  *)
(* (hack/seed/main.go 314, internal/oci/registry.go 54-96).                *)
(***************************************************************************)
THEOREM CatalogsTellSeed == SpecPull => []ListingsMatchSeed
<1>1. Typed /\ AllOrNothing => ListingsMatchSeed
  <2> SUFFICES ASSUME TypeOK, Files, AllOrNothing, NEW v \in Servers, spc[v] = "up"
               PROVE  Listed(index[sfd[v]]) =
                        UNION {UNION {{<<a.repo, t>> : t \in a.tags} : a \in Seeded(s)} :
                                 s \in Committed(sfd[v])}
    BY DEF Typed, ListingsMatchSeed
  <2>1. sfd[v] \in Seeders
    BY DEF TypeOK, Files
  <2>2. DOMAIN index[sfd[v]].tags = UNION {Keys(s) : s \in Committed(sfd[v])}
    BY <2>1 DEF AllOrNothing
  <2>3. Committed(sfd[v]) \in SUBSET Seeders
    BY DEF Committed
  <2> QED
    BY <2>2, <2>3, ListedIs
<1> QED
  BY <1>1, PullsOverStore, Typing, SeedsAreAtomic, PTL
=============================================================================
