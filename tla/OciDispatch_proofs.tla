------------------------- MODULE OciDispatch_proofs -------------------------
(***************************************************************************)
(* What dispatch (internal/oci/routes.go) makes of a request's path, for   *)
(* names and references of any length.  Words are strings; that no two     *)
(* stand side by side plays no part here.  The words that the code knows   *)
(* are listed because the provers know nothing of STRING but its name.     *)
(***************************************************************************)
EXTENDS DispatchCheck, SequenceTheorems, WellFoundedInduction, TLAPS

Word == STRING \cup {"/", ":", "tags", "list", "manifests", "blobs", "_catalog", "sha256"}
Text == Seq(Word)

-----------------------------------------------------------------------------
(***************************************************************************)
(* GoStrings, element by element.                                          *)
(***************************************************************************)

\* A slice from the m-th element to the n-th.
LEMMA SliceShape ==
  ASSUME NEW s \in Text, NEW m \in Nat \ {0}, NEW n \in Nat, m <= n + 1, n <= Len(s)
  PROVE  /\ SubSeq(s, m, n) \in Text
         /\ Len(SubSeq(s, m, n)) = n - m + 1
         /\ \A i \in 1 .. n - m + 1 : SubSeq(s, m, n)[i] = s[m + i - 1]
<1>1. Len(s) \in Nat /\ \A i \in m .. n : s[i] \in Word
  BY LenProperties, ElementOfSeq DEF Text
<1>2. /\ SubSeq(s, m, n) \in Text
      /\ Len(SubSeq(s, m, n)) = IF m <= n THEN n - m + 1 ELSE 0
      /\ \A i \in 1 .. n - m + 1 : SubSeq(s, m, n)[i] = s[m + i - 1]
  BY <1>1, SubSeqProperties DEF Text
<1> HIDE DEF Text
<1> QED
  BY <1>2

\* A slice equals a text when their elements do.
LEMMA SliceEquals ==
  ASSUME NEW s \in Text, NEW sub \in Text, NEW k \in Nat, k + Len(sub) <= Len(s)
  PROVE  SubSeq(s, k + 1, k + Len(sub)) = sub
           <=> \A i \in 1 .. Len(sub) : s[k + i] = sub[i]
<1> DEFINE slice == SubSeq(s, k + 1, k + Len(sub))
<1>1. Len(s) \in Nat /\ Len(sub) \in Nat
  BY LenProperties DEF Text
<1>2. /\ slice \in Text
      /\ Len(slice) = k + Len(sub) - (k + 1) + 1
      /\ \A i \in 1 .. k + Len(sub) - (k + 1) + 1 : slice[i] = s[k + 1 + i - 1]
  <2>1. /\ k + 1 \in Nat \ {0} /\ k + Len(sub) \in Nat
        /\ k + 1 <= k + Len(sub) + 1
    BY <1>1
  <2> QED
    BY <2>1, SliceShape
<1> HIDE DEF slice
<1>3. Len(slice) = Len(sub)
  BY <1>1, <1>2
<1>4. \A i \in 1 .. Len(sub) : slice[i] = s[k + i]
  BY <1>1, <1>2
<1>5. (\A i \in 1 .. Len(sub) : slice[i] = sub[i]) => slice = sub
  BY <1>2, <1>3, SeqEqual DEF Text
<1> QED
  BY <1>4, <1>5 DEF slice

\* Where a text occurs in another.
LEMMA OccurrencesAre ==
  ASSUME NEW s \in Text, NEW sub \in Text
  PROVE  Occurrences(s, sub) =
           {k \in Nat : /\ k + Len(sub) <= Len(s)
                        /\ \A i \in 1 .. Len(sub) : s[k + i] = sub[i]}
<1>1. Len(s) \in Nat /\ Len(sub) \in Nat
  BY LenProperties DEF Text
<1>2. \A k : k \in 0 .. Len(s) - Len(sub) <=> k \in Nat /\ k + Len(sub) <= Len(s)
  BY <1>1
<1>3. \A k \in 0 .. Len(s) - Len(sub) :
        SubSeq(s, k + 1, k + Len(sub)) = sub <=> \A i \in 1 .. Len(sub) : s[k + i] = sub[i]
  BY <1>2, SliceEquals
<1> QED
  BY <1>2, <1>3 DEF Occurrences

\* The last occurrence is the one that no other comes behind.
LEMMA LastIndexIs ==
  ASSUME NEW s \in Text, NEW sub \in Text,
         NEW k \in Occurrences(s, sub), \A j \in Occurrences(s, sub) : j <= k
  PROVE  LastIndex(s, sub) = k /\ k \in Nat
<1>1. Occurrences(s, sub) \subseteq Nat
  BY OccurrencesAre
<1>2. \A x \in Occurrences(s, sub) :
        (\A j \in Occurrences(s, sub) : j <= x) => x = k
  BY <1>1
<1> QED
  BY <1>1, <1>2 DEF LastIndex

LEMMA NoLastIndex ==
  ASSUME NEW s, NEW sub, Occurrences(s, sub) = {}
  PROVE  LastIndex(s, sub) = -1
BY DEF LastIndex

LEMMA HasPrefixIs ==
  ASSUME NEW s \in Text, NEW prefix \in Text
  PROVE  HasPrefix(s, prefix)
           <=> /\ Len(prefix) <= Len(s)
               /\ \A i \in 1 .. Len(prefix) : s[i] = prefix[i]
<1>1. Len(s) \in Nat /\ Len(prefix) \in Nat
  BY LenProperties DEF Text
<1>2. 0 + Len(prefix) = Len(prefix) /\ \A i \in 1 .. Len(prefix) : 0 + i = i
  BY <1>1
<1>3. Len(prefix) <= Len(s) =>
        (SubSeq(s, 0 + 1, 0 + Len(prefix)) = prefix <=> \A i \in 1 .. Len(prefix) : s[0 + i] = prefix[i])
  BY <1>1, SliceEquals
<1> QED
  BY <1>2, <1>3 DEF HasPrefix

LEMMA HasSuffixIs ==
  ASSUME NEW s \in Text, NEW suffix \in Text
  PROVE  HasSuffix(s, suffix)
           <=> /\ Len(suffix) <= Len(s)
               /\ \A i \in 1 .. Len(suffix) : s[Len(s) - Len(suffix) + i] = suffix[i]
<1> DEFINE k == Len(s) - Len(suffix)
<1>1. Len(s) \in Nat /\ Len(suffix) \in Nat
  BY LenProperties DEF Text
<1>2. Len(suffix) <= Len(s) => k \in Nat /\ k + Len(suffix) = Len(s)
  BY <1>1
<1>3. ASSUME Len(suffix) <= Len(s)
      PROVE  SubSeq(s, k + 1, k + Len(suffix)) = suffix
               <=> \A i \in 1 .. Len(suffix) : s[k + i] = suffix[i]
  <2>1. k \in Nat /\ k + Len(suffix) <= Len(s)
    BY <1>1, <1>2, <1>3
  <2> HIDE DEF k
  <2> QED
    BY <2>1, SliceEquals
<1> QED
  BY <1>2, <1>3 DEF HasSuffix

-----------------------------------------------------------------------------
(***************************************************************************)
(* Paths.                                                                  *)
(***************************************************************************)
Path(name, infix, reference) == <<"/">> \o name \o infix \o reference

LEMMA Infixes ==
  /\ tagsList \in Text /\ Len(tagsList) = 4
  /\ tagsList[1] = "/" /\ tagsList[2] = "tags" /\ tagsList[3] = "/" /\ tagsList[4] = "list"
  /\ manifests \in Text /\ Len(manifests) = 3
  /\ manifests[1] = "/" /\ manifests[2] = "manifests" /\ manifests[3] = "/"
  /\ blobs \in Text /\ Len(blobs) = 3
  /\ blobs[1] = "/" /\ blobs[2] = "blobs" /\ blobs[3] = "/"
  /\ <<"/">> \in Text /\ Len(<<"/">>) = 1 /\ <<"/">>[1] = "/"
<1>1. tagsList \in Text /\ manifests \in Text /\ blobs \in Text /\ <<"/">> \in Text
  BY DEF tagsList, manifests, blobs, Text, Word
<1>2. Len(tagsList) = 4 /\ Len(manifests) = 3 /\ Len(blobs) = 3 /\ Len(<<"/">>) = 1
  BY DEF tagsList, manifests, blobs
<1>3. tagsList[1] = "/" /\ tagsList[2] = "tags" /\ tagsList[3] = "/" /\ tagsList[4] = "list"
  BY DEF tagsList
<1>4. manifests[1] = "/" /\ manifests[2] = "manifests" /\ manifests[3] = "/"
  BY DEF manifests
<1>5. blobs[1] = "/" /\ blobs[2] = "blobs" /\ blobs[3] = "/"
  BY DEF blobs
<1>6. <<"/">>[1] = "/"
  OBVIOUS
<1> QED
  BY <1>1, <1>2, <1>3, <1>4, <1>5, <1>6

LEMMA ConcatShape ==
  ASSUME NEW s \in Text, NEW t \in Text
  PROVE  /\ s \o t \in Text
         /\ Len(s) \in Nat /\ Len(t) \in Nat
         /\ Len(s \o t) = Len(s) + Len(t)
         /\ \A i \in 1 .. Len(s) : (s \o t)[i] = s[i]
         /\ \A i \in 1 .. Len(t) : (s \o t)[Len(s) + i] = t[i]
<1>1. Len(s) \in Nat /\ Len(t) \in Nat
  BY LenProperties DEF Text
<1>2. /\ s \o t \in Text
      /\ Len(s \o t) = Len(s) + Len(t)
      /\ \A i \in 1 .. Len(s) + Len(t) : (s \o t)[i] = IF i <= Len(s) THEN s[i] ELSE t[i - Len(s)]
  BY ConcatProperties DEF Text
<1>3. ASSUME NEW i \in 1 .. Len(s) PROVE (s \o t)[i] = s[i]
  BY <1>1, <1>2
<1>4. ASSUME NEW i \in 1 .. Len(t) PROVE (s \o t)[Len(s) + i] = t[i]
  <2>1. Len(s) + i \in 1 .. Len(s) + Len(t) /\ ~(Len(s) + i <= Len(s)) /\ Len(s) + i - Len(s) = i
    BY <1>1
  <2> QED
    BY <1>2, <2>1
<1> QED
  BY <1>1, <1>2, <1>3, <1>4

\* A path, element by element.
LEMMA PathShape ==
  ASSUME NEW name \in Text, NEW infix \in Text, NEW reference \in Text
  PROVE  LET p == Path(name, infix, reference)
         IN /\ p \in Text
            /\ Len(name) \in Nat /\ Len(infix) \in Nat /\ Len(reference) \in Nat
            /\ Len(p) = 1 + Len(name) + Len(infix) + Len(reference)
            /\ p[1] = "/"
            /\ \A i \in 1 .. Len(name) : p[1 + i] = name[i]
            /\ \A i \in 1 .. Len(infix) : p[1 + Len(name) + i] = infix[i]
            /\ \A i \in 1 .. Len(reference) : p[1 + Len(name) + Len(infix) + i] = reference[i]
<1> DEFINE a == <<"/">> \o name
           b == a \o infix
           c == b \o reference
<1>1. /\ a \in Text /\ Len(name) \in Nat
      /\ Len(a) = 1 + Len(name)
      /\ a[1] = "/"
      /\ \A i \in 1 .. Len(name) : a[1 + i] = name[i]
  BY ConcatShape, Infixes
<1> HIDE DEF a
<1>2. /\ b \in Text /\ Len(infix) \in Nat
      /\ Len(b) = Len(a) + Len(infix)
      /\ \A i \in 1 .. Len(a) : b[i] = a[i]
      /\ \A i \in 1 .. Len(infix) : b[Len(a) + i] = infix[i]
  BY <1>1, ConcatShape
<1> HIDE DEF b
<1>3. /\ c \in Text /\ Len(reference) \in Nat
      /\ Len(c) = Len(b) + Len(reference)
      /\ \A i \in 1 .. Len(b) : c[i] = b[i]
      /\ \A i \in 1 .. Len(reference) : c[Len(b) + i] = reference[i]
  BY <1>2, ConcatShape
<1> HIDE DEF c
<1>4. ASSUME NEW i \in 1 .. Len(name) PROVE c[1 + i] = name[i]
  BY <1>1, <1>2, <1>3
<1>5. ASSUME NEW i \in 1 .. Len(infix) PROVE c[1 + Len(name) + i] = infix[i]
  BY <1>1, <1>2, <1>3
<1>6. c[1] = "/" /\ Len(c) = 1 + Len(name) + Len(infix) + Len(reference)
  BY <1>1, <1>2, <1>3
<1>7. c = Path(name, infix, reference)
  BY DEF a, b, c, Path
<1> QED
  BY <1>1, <1>2, <1>3, <1>4, <1>5, <1>6, <1>7

\* What dispatch cuts a path into at its infix.
LEMMA PathParts ==
  ASSUME NEW name \in Text, NEW infix \in Text, NEW reference \in Text
  PROVE  LET p == Path(name, infix, reference)
         IN /\ TrimPrefix(Before(p, 1 + Len(name)), <<"/">>) = name
            /\ From(p, 1 + Len(name) + Len(infix)) = reference
<1> DEFINE p == Path(name, infix, reference)
           n == Len(name)
           m == Len(infix)
           head == Before(p, 1 + n)
           tail == From(p, 1 + n + m)
           trimmed == SubSeq(head, 2, Len(head))
<1>1. /\ p \in Text /\ n \in Nat /\ m \in Nat /\ Len(reference) \in Nat
      /\ Len(p) = 1 + n + m + Len(reference)
      /\ p[1] = "/"
      /\ \A i \in 1 .. n : p[1 + i] = name[i]
      /\ \A i \in 1 .. Len(reference) : p[1 + n + m + i] = reference[i]
  BY PathShape
<1> HIDE DEF p, n, m
<1>2. /\ head \in Text /\ Len(head) = 1 + n
      /\ \A i \in 1 .. 1 + n : head[i] = p[i]
  <2>1. /\ SubSeq(p, 1, 1 + n) \in Text
        /\ Len(SubSeq(p, 1, 1 + n)) = 1 + n - 1 + 1
        /\ \A i \in 1 .. 1 + n - 1 + 1 : SubSeq(p, 1, 1 + n)[i] = p[1 + i - 1]
    BY <1>1, SliceShape
  <2> QED
    BY <1>1, <2>1 DEF Before
<1>3. /\ tail \in Text /\ Len(tail) = Len(reference)
      /\ \A i \in 1 .. Len(reference) : tail[i] = reference[i]
  <2> DEFINE l == Len(p)
             k == 1 + n + m
  <2>1. k + 1 \in Nat \ {0} /\ l \in Nat /\ k + 1 <= l + 1 /\ l <= Len(p)
    BY <1>1
  <2>2. /\ SubSeq(p, k + 1, l) \in Text
        /\ Len(SubSeq(p, k + 1, l)) = l - (k + 1) + 1
        /\ \A i \in 1 .. l - (k + 1) + 1 : SubSeq(p, k + 1, l)[i] = p[k + 1 + i - 1]
    <3> HIDE DEF k, l
    <3> QED
      BY <1>1, <2>1, SliceShape DEF l
  <2>3. tail = SubSeq(p, k + 1, l)
    BY DEF From
  <2> HIDE DEF tail
  <2>4. Len(tail) = Len(reference)
    BY <1>1, <2>2, <2>3
  <2>5. ASSUME NEW i \in 1 .. Len(reference) PROVE tail[i] = reference[i]
    <3>1. i \in 1 .. l - (k + 1) + 1 /\ k + 1 + i - 1 = 1 + n + m + i
      BY <1>1
    <3> QED
      BY <1>1, <2>2, <2>3, <3>1
  <2> QED
    BY <2>2, <2>3, <2>4, <2>5
<1> HIDE DEF head, tail
<1>4. HasPrefix(head, <<"/">>)
  <2> DEFINE slash == <<"/">>
  <2>1. slash \in Text /\ Len(slash) = 1 /\ slash[1] = "/"
    BY Infixes
  <2> HIDE DEF slash
  <2>2. Len(slash) <= Len(head) /\ \A i \in 1 .. Len(slash) : head[i] = slash[i]
    BY <1>1, <1>2, <2>1
  <2>3. HasPrefix(head, slash)
    BY <1>2, <2>1, <2>2, HasPrefixIs
  <2> QED
    BY <2>3 DEF slash
<1>5. TrimPrefix(head, <<"/">>) = trimmed
  BY <1>4, Infixes DEF TrimPrefix
<1>6. /\ trimmed \in Text /\ Len(trimmed) = n
      /\ \A i \in 1 .. n : trimmed[i] = head[2 + i - 1]
  <2>1. /\ trimmed \in Text
        /\ Len(trimmed) = Len(head) - 2 + 1
        /\ \A i \in 1 .. Len(head) - 2 + 1 : trimmed[i] = head[2 + i - 1]
    BY <1>1, <1>2, SliceShape
  <2> QED
    BY <1>1, <1>2, <2>1
<1> HIDE DEF trimmed
<1>7. ASSUME NEW i \in 1 .. n PROVE trimmed[i] = name[i]
  BY <1>1, <1>2, <1>6
<1>8. trimmed = name
  BY <1>6, <1>7, SeqEqual DEF Text, n
<1>9. tail = reference
  BY <1>3, SeqEqual DEF Text
<1> QED
  BY <1>5, <1>8, <1>9 DEF head, tail, p, n, m

\* Cutting off what a text was put together with.
LEMMA TrimConcat ==
  ASSUME NEW s \in Text, NEW t \in Text
  PROVE  /\ HasPrefix(s \o t, s) /\ TrimPrefix(s \o t, s) = t
         /\ HasSuffix(s \o t, t) /\ TrimSuffix(s \o t, t) = s
<1> DEFINE u == s \o t
           m == Len(s)
           n == Len(t)
           left == SubSeq(u, 1, Len(u) - n)
           right == SubSeq(u, m + 1, Len(u))
<1>1. /\ u \in Text /\ m \in Nat /\ n \in Nat /\ Len(u) = m + n
      /\ \A i \in 1 .. m : u[i] = s[i]
      /\ \A i \in 1 .. n : u[m + i] = t[i]
  BY ConcatShape
<1> HIDE DEF u
<1>2. HasPrefix(u, s)
  BY <1>1, HasPrefixIs
<1>3. HasSuffix(u, t)
  <2>1. n <= Len(u) /\ Len(u) - n = m
    BY <1>1
  <2> QED
    BY <1>1, <2>1, HasSuffixIs
<1> HIDE DEF m, n
<1>4. left = s
  <2>1. Len(u) - n = m /\ 1 <= m + 1 /\ m <= Len(u) /\ 1 \in Nat \ {0}
    BY <1>1
  <2>2. /\ SubSeq(u, 1, m) \in Text /\ Len(SubSeq(u, 1, m)) = m - 1 + 1
        /\ \A i \in 1 .. m - 1 + 1 : SubSeq(u, 1, m)[i] = u[1 + i - 1]
    BY <1>1, <2>1, SliceShape
  <2>3. left \in Text /\ Len(left) = m /\ \A i \in 1 .. m : left[i] = s[i]
    BY <1>1, <2>1, <2>2
  <2> HIDE DEF left
  <2> QED
    BY <2>3, SeqEqual DEF Text, m
<1>5. right = t
  <2>1. m + 1 \in Nat \ {0} /\ Len(u) \in Nat /\ m + 1 <= Len(u) + 1
    BY <1>1
  <2>2. /\ right \in Text /\ Len(right) = Len(u) - (m + 1) + 1
        /\ \A i \in 1 .. Len(u) - (m + 1) + 1 : right[i] = u[m + 1 + i - 1]
    BY <1>1, <2>1, SliceShape
  <2> HIDE DEF right
  <2>3. Len(right) = n /\ \A i \in 1 .. n : right[i] = t[i]
    BY <1>1, <2>2
  <2> QED
    BY <2>2, <2>3, SeqEqual DEF Text, n
<1> QED
  BY <1>2, <1>3, <1>4, <1>5 DEF TrimPrefix, TrimSuffix, left, right, m, n, u

-----------------------------------------------------------------------------
(***************************************************************************)
(* A tag or a digest holds no slash.                                       *)
(***************************************************************************)
Reference == {r \in Text : r # <<>> /\ \A i \in 1 .. Len(r) : r[i] # "/"}
Name == Text \ {<<>>}

LEMMA ShortPaths ==
  ASSUME NEW p \in Text, Len(p) > 2
  PROVE  p \notin {<<>>, <<"/">>} /\ p # <<"/", "_catalog">>
<1>1. p # <<>>
  OBVIOUS
<1>2. p # <<"/">>
  <2>1. Len(<<"/">>) = 1
    OBVIOUS
  <2> QED
    BY <2>1
<1>3. p # <<"/", "_catalog">>
  <2>1. Len(<<"/", "_catalog">>) = 2
    OBVIOUS
  <2> QED
    BY <2>1
<1> QED
  BY <1>1, <1>2, <1>3

(***************************************************************************)
(* TagsRequest: a request for the tags of a repository of any name calls   *)
(* the handler for tag lists with that name (internal/oci/routes.go        *)
(* 45-79).                                                                 *)
(***************************************************************************)
THEOREM TagsRequest ==
  ASSUME NEW name \in Name
  PROVE  dispatch(<<"/">> \o name \o tagsList) = [op |-> "ListTags", name |-> name]
<1> DEFINE slash == <<"/">>
           rest == name \o tagsList
           p == slash \o rest
<1>1. name \in Text /\ slash \in Text /\ tagsList \in Text /\ rest \in Text
  BY Infixes, ConcatShape DEF Name
<1>2. slash \o name \o tagsList = p
  BY <1>1, ConcatAssociative DEF Text
<1>3. TrimPrefix(p, slash) = rest
  BY <1>1, TrimConcat
<1>4. TrimSuffix(rest, tagsList) = name
  BY <1>1, TrimConcat
<1>5. HasSuffix(p, tagsList)
  <2>1. slash \o name \in Text
    BY <1>1, ConcatShape
  <2> QED
    BY <1>1, <1>2, <2>1, TrimConcat
<1>6. dispatchTags(p) = [op |-> "ListTags", name |-> name]
  BY <1>3, <1>4 DEF dispatchTags, Name
<1>7. p \in Text /\ Len(p) > 2
  <2>1. Len(rest) = Len(name) + 4 /\ Len(name) \in Nat
    <3>1. Len(name \o tagsList) = Len(name) + Len(tagsList) /\ Len(name) \in Nat
      BY <1>1, ConcatShape
    <3> QED
      BY <3>1, Infixes
  <2>2. p \in Text /\ Len(p) = 1 + Len(rest)
    <3> HIDE DEF rest
    <3> QED
      BY <1>1, ConcatShape, Infixes
  <2> QED
    BY <2>1, <2>2
<1>8. p \notin {<<>>, slash} /\ p # <<"/", "_catalog">>
  BY <1>7, ShortPaths
<1> HIDE DEF p
<1>9. dispatch(p) = dispatchTags(p)
  BY <1>5, <1>8 DEF dispatch
<1> QED
  BY <1>2, <1>6, <1>9

\* The path of a request for a manifest or a blob, element by element.
LEMMA RequestShape ==
  ASSUME NEW name \in Name, NEW infix \in {manifests, blobs}, NEW reference \in Reference
  PROVE  LET p == Path(name, infix, reference)
         IN /\ p \in Text
            /\ Len(name) \in Nat /\ Len(reference) \in Nat /\ Len(reference) # 0
            /\ Len(p) = 1 + Len(name) + 3 + Len(reference)
            /\ \A i \in 1 .. Len(name) : p[1 + i] = name[i]
            /\ \A i \in 1 .. 3 : p[1 + Len(name) + i] = infix[i]
            /\ \A i \in 1 .. Len(reference) : /\ p[1 + Len(name) + 3 + i] = reference[i]
                                            /\ p[1 + Len(name) + 3 + i] # "/"
<1> DEFINE p == Path(name, infix, reference)
           m == Len(infix)
<1>1. m = 3
  BY Infixes
<1>2. /\ p \in Text
      /\ Len(name) \in Nat /\ Len(reference) \in Nat
      /\ Len(p) = 1 + Len(name) + m + Len(reference)
      /\ \A i \in 1 .. Len(name) : p[1 + i] = name[i]
      /\ \A i \in 1 .. m : p[1 + Len(name) + i] = infix[i]
      /\ \A i \in 1 .. Len(reference) : p[1 + Len(name) + m + i] = reference[i]
  <2>1. name \in Text /\ infix \in Text /\ reference \in Text
    BY Infixes DEF Name, Reference
  <2> HIDE DEF m
  <2> QED
    BY <2>1, PathShape DEF m
<1>3. Len(reference) # 0 /\ \A i \in 1 .. Len(reference) : reference[i] # "/"
  BY EmptySeq DEF Reference, Text
<1> HIDE DEF p, m
<1> QED
  BY <1>1, <1>2, <1>3 DEF p

\* The last occurrence of an infix is where the request has put it.
LEMMA LastInfix ==
  ASSUME NEW name \in Name, NEW infix \in {manifests, blobs}, NEW reference \in Reference
  PROVE  LastIndex(Path(name, infix, reference), infix) = 1 + Len(name)
<1> DEFINE p == Path(name, infix, reference)
           n == Len(name)
           r == Len(reference)
           m == Len(infix)
<1>1. infix \in Text /\ m = 3 /\ infix[3] = "/"
  BY Infixes
<1>2. /\ p \in Text /\ n \in Nat /\ r \in Nat
      /\ Len(p) = 1 + n + 3 + r
      /\ \A i \in 1 .. 3 : p[1 + n + i] = infix[i]
      /\ \A i \in 1 .. r : p[1 + n + 3 + i] # "/"
  BY RequestShape
<1> HIDE DEF p, n, r
<1>3. Occurrences(p, infix) =
        {k \in Nat : k + m <= Len(p) /\ \A i \in 1 .. m : p[k + i] = infix[i]}
  BY <1>1, <1>2, OccurrencesAre
<1> HIDE DEF m
<1>4. 1 + n \in Occurrences(p, infix)
  BY <1>1, <1>2, <1>3
<1>5. ASSUME NEW j \in Occurrences(p, infix) PROVE j <= 1 + n
  <2>1. j \in Nat /\ j + 3 <= Len(p) /\ \A i \in 1 .. 3 : p[j + i] = infix[i]
    BY <1>1, <1>3
  <2>2. p[j + 3] = "/"
    BY <1>1, <2>1
  <2>3. ASSUME ~(j <= 1 + n) PROVE FALSE
    <3>1. j - (1 + n) \in 1 .. r /\ 1 + n + 3 + (j - (1 + n)) = j + 3
      BY <1>2, <2>1, <2>3
    <3> QED
      BY <1>2, <2>2, <3>1
  <2> QED
    BY <2>3
<1>6. LastIndex(p, infix) = 1 + n
  BY <1>1, <1>2, <1>4, <1>5, LastIndexIs
<1> QED
  BY <1>6 DEF p, n

\* Such a path does not look like one for a list of tags.
LEMMA NoTagsSuffix ==
  ASSUME NEW name \in Name, NEW infix \in {manifests, blobs}, NEW reference \in Reference
  PROVE  ~HasSuffix(Path(name, infix, reference), tagsList)
<1> DEFINE p == Path(name, infix, reference)
           n == Len(name)
           r == Len(reference)
           m == Len(tagsList)
<1>1. /\ infix[2] # "tags"
      /\ tagsList \in Text /\ m = 4 /\ tagsList[2] = "tags" /\ tagsList[3] = "/"
  BY Infixes
<1>2. /\ p \in Text /\ n \in Nat /\ r \in Nat /\ r # 0
      /\ Len(p) = 1 + n + 3 + r
      /\ \A i \in 1 .. 3 : p[1 + n + i] = infix[i]
      /\ \A i \in 1 .. r : p[1 + n + 3 + i] # "/"
  BY RequestShape
<1> HIDE DEF p, n, r
<1>3. ASSUME HasSuffix(p, tagsList) PROVE FALSE
  <2>1. \A i \in 1 .. m : p[Len(p) - m + i] = tagsList[i]
    BY <1>1, <1>2, <1>3, HasSuffixIs
  <2> HIDE DEF m
  <2>2. p[n + r + 2] = "tags" /\ p[n + r + 3] = "/"
    <3>1. 2 \in 1 .. m /\ 3 \in 1 .. m /\ Len(p) - m + 2 = n + r + 2 /\ Len(p) - m + 3 = n + r + 3
      BY <1>1, <1>2
    <3> QED
      BY <1>1, <2>1, <3>1
  <2>3. CASE r = 1
    <3>1. 1 + n + 2 = n + r + 2 /\ 2 \in 1 .. 3
      BY <1>2, <2>3
    <3>2. p[1 + n + 2] = infix[2]
      BY <1>2, <3>1
    <3> QED
      BY <1>1, <2>2, <3>1, <3>2
  <2>4. CASE r # 1
    <3>1. r - 1 \in 1 .. r /\ 1 + n + 3 + (r - 1) = n + r + 3
      BY <1>2, <2>4
    <3> QED
      BY <1>2, <2>2, <3>1
  <2> QED
    BY <2>3, <2>4
<1> QED
  BY <1>3 DEF p

\* Nor like one of the short paths.
LEMMA LongPath ==
  ASSUME NEW name \in Name, NEW infix \in {manifests, blobs}, NEW reference \in Reference
  PROVE  LET p == Path(name, infix, reference)
         IN p \notin {<<>>, <<"/">>} /\ p # <<"/", "_catalog">>
<1> DEFINE p == Path(name, infix, reference)
<1>1. p \in Text /\ Len(p) > 2
  BY RequestShape
<1> HIDE DEF p
<1> QED
  BY <1>1, ShortPaths DEF p

(***************************************************************************)
(* ManifestRequest: a request for a manifest, by a tag or a digest, of a   *)
(* repository of any name calls the handler for manifests with that name   *)
(* and that reference, whatever reserved words the name holds              *)
(* (internal/oci/routes.go 45-79).                                         *)
(***************************************************************************)
THEOREM ManifestRequest ==
  ASSUME NEW name \in Name, NEW reference \in Reference
  PROVE  dispatch(<<"/">> \o name \o manifests \o reference) =
           [op |-> "GetManifest", name |-> name, reference |-> reference]
<1> DEFINE p == Path(name, manifests, reference)
           k == 1 + Len(name)
<1>1. name \in Text /\ manifests \in Text /\ reference \in Text /\ Len(manifests) = 3
  BY Infixes DEF Name, Reference
<1>2. /\ TrimPrefix(Before(p, k), <<"/">>) = name
      /\ From(p, k + Len(manifests)) = reference
  BY <1>1, PathParts
<1>3. /\ p \notin {<<>>, <<"/">>} /\ p # <<"/", "_catalog">>
      /\ ~HasSuffix(p, tagsList)
      /\ LastIndex(p, manifests) = k
  BY LongPath, NoTagsSuffix, LastInfix
<1>4. k \in Nat
  BY <1>1, LenProperties DEF Text
<1> HIDE DEF p, k
<1>5. dispatch(p) = dispatchManifest(p, k)
  BY <1>3, <1>4 DEF dispatch
<1>6. dispatchManifest(p, k) = [op |-> "GetManifest", name |-> name, reference |-> reference]
  BY <1>2 DEF dispatchManifest, Name, Reference
<1> QED
  BY <1>5, <1>6 DEF p, Path

\* No segment of the name is the one that dispatch looks for first.
Unreserved(name) == \A i \in 1 .. Len(name) : name[i] # "manifests"

(***************************************************************************)
(* BlobRequest: a request for a blob calls the handler for blobs with its  *)
(* digest, unless a segment of the repository's name is "manifests"        *)
(* (internal/oci/routes.go 45-79).                                         *)
(***************************************************************************)
THEOREM BlobRequest ==
  ASSUME NEW name \in Name, Unreserved(name), NEW digest \in Reference
  PROVE  dispatch(<<"/">> \o name \o blobs \o digest) = [op |-> "GetBlob", digest |-> digest]
<1> DEFINE p == Path(name, blobs, digest)
           n == Len(name)
           r == Len(digest)
           k == 1 + Len(name)
<1>1. name \in Text /\ blobs \in Text /\ digest \in Text /\ Len(blobs) = 3
  BY Infixes DEF Name, Reference
<1>2. /\ TrimPrefix(Before(p, k), <<"/">>) = name
      /\ From(p, k + Len(blobs)) = digest
  BY <1>1, PathParts
<1>3. /\ p \notin {<<>>, <<"/">>} /\ p # <<"/", "_catalog">>
      /\ ~HasSuffix(p, tagsList)
      /\ LastIndex(p, blobs) = k
  BY LongPath, NoTagsSuffix, LastInfix
<1>4. k \in Nat
  BY <1>1, LenProperties DEF Text
<1>5. /\ p \in Text /\ n \in Nat /\ r \in Nat
      /\ Len(p) = 1 + n + 3 + r
      /\ \A i \in 1 .. n : p[1 + i] = name[i]
      /\ \A i \in 1 .. 3 : p[1 + n + i] = blobs[i]
      /\ \A i \in 1 .. r : p[1 + n + 3 + i] # "/"
  BY RequestShape
<1> HIDE DEF p, k
<1>6. ASSUME NEW j \in Occurrences(p, manifests) PROVE FALSE
  <2> HIDE DEF n, r
  <2>1. j \in Nat /\ j + 3 <= Len(p) /\ p[j + 2] = "manifests" /\ p[j + 3] = "/"
    <3> DEFINE m == Len(manifests)
    <3>1. manifests \in Text /\ m = 3 /\ manifests[2] = "manifests" /\ manifests[3] = "/"
      BY Infixes
    <3>2. Occurrences(p, manifests) =
            {at \in Nat : at + m <= Len(p) /\ \A i \in 1 .. m : p[at + i] = manifests[i]}
      BY <1>5, <3>1, OccurrencesAre
    <3>3. j \in Nat /\ j + m <= Len(p) /\ \A i \in 1 .. m : p[j + i] = manifests[i]
      <4> HIDE DEF m
      <4> QED
        BY <3>2
    <3> HIDE DEF m
    <3> QED
      BY <3>1, <3>3
  <2>2. CASE j + 2 <= 1 + n
    <3>1. j + 1 \in 1 .. n /\ 1 + (j + 1) = j + 2
      BY <1>5, <2>1, <2>2
    <3> QED
      BY <1>5, <2>1, <3>1 DEF Unreserved, n
  <2>3. CASE j + 2 > 1 + n /\ j + 2 <= 1 + n + 3
    <3>1. j + 1 - n \in 1 .. 3 /\ 1 + n + (j + 1 - n) = j + 2
      BY <1>5, <2>1, <2>3
    <3>2. blobs[j + 1 - n] = "manifests"
      BY <1>5, <2>1, <3>1
    <3> QED
      BY <3>1, <3>2, Infixes
  <2>4. CASE j + 2 > 1 + n + 3
    <3>1. j - n - 1 \in 1 .. r /\ 1 + n + 3 + (j - n - 1) = j + 3
      BY <1>5, <2>1, <2>4
    <3> QED
      BY <1>5, <2>1, <3>1
  <2> QED
    BY <1>5, <2>1, <2>2, <2>3, <2>4
<1>7. LastIndex(p, manifests) = -1
  BY <1>6, NoLastIndex
<1>8. dispatch(p) = dispatchBlob(p, k)
  BY <1>3, <1>4, <1>7 DEF dispatch
<1>9. dispatchBlob(p, k) = [op |-> "GetBlob", digest |-> digest]
  BY <1>2 DEF dispatchBlob, Name, Reference
<1> QED
  BY <1>8, <1>9 DEF p, Path

-----------------------------------------------------------------------------
(***************************************************************************)
(* Any path at all.                                                        *)
(***************************************************************************)

\* A set of numbers with a bound has a greatest.
LEMMA Greatest ==
  ASSUME NEW n \in Nat, NEW s, s \subseteq 0..n, s # {}
  PROVE  \E k \in s : \A j \in s : j <= k
<1> DEFINE R == {ss \in Nat \X Nat : ss[1] < ss[2]}
           T == {n - k : k \in s}
<1>1. IsWellFoundedOn(R, Nat)
  BY NatLessThanWellFounded DEF OpToRel
<1>2. \A a, b \in Nat : <<a, b>> \in R <=> a < b
  OBVIOUS
<1>3. T \subseteq Nat /\ T # {}
  <2>1. \A k \in s : n - k \in Nat
    OBVIOUS
  <2> QED BY <2>1
<1> HIDE DEF R, T
<1>4. PICK t \in T : \A u \in T : ~(<<u, t>> \in R)
  BY <1>1, <1>3, WFMin
<1>5. ASSUME NEW u \in T PROVE t <= u
  <2>1. t \in Nat /\ u \in Nat /\ ~(u < t)
    BY <1>2, <1>3, <1>4
  <2> QED BY <2>1
<1>6. PICK k \in s : t = n - k
  BY DEF T
<1>7. ASSUME NEW j \in s PROVE j <= k
  <2>1. t <= n - j
    BY <1>5 DEF T
  <2> QED BY <1>6, <2>1
<1> QED BY <1>7

\* An offset that LastIndex returns is an occurrence with none behind it.
LEMMA LastIndexFound ==
  ASSUME NEW s \in Text, NEW sub \in Text, LastIndex(s, sub) >= 0
  PROVE  /\ LastIndex(s, sub) \in Occurrences(s, sub)
         /\ \A j \in Occurrences(s, sub) : j <= LastIndex(s, sub)
<1>1. Len(s) \in Nat /\ Len(sub) \in Nat
  BY LenProperties DEF Text
<1>2. Occurrences(s, sub) # {}
  BY DEF LastIndex
<1>3. Occurrences(s, sub) \subseteq 0 .. Len(s)
  BY <1>1, OccurrencesAre
<1>4. \E k \in Occurrences(s, sub) : \A j \in Occurrences(s, sub) : j <= k
  <2> DEFINE occ == Occurrences(s, sub)
  <2> HIDE DEF occ
  <2>1. \E k \in occ : \A j \in occ : j <= k
    BY <1>1, <1>2, <1>3, Greatest DEF occ
  <2> QED BY <2>1 DEF occ
<1> QED BY <1>2, <1>4 DEF LastIndex

\* A text is what lies before an offset and from it on.
LEMMA Cut ==
  ASSUME NEW s \in Text, NEW k \in Nat, k <= Len(s)
  PROVE  /\ Before(s, k) \in Text /\ Len(Before(s, k)) = k
         /\ From(s, k) \in Text /\ Len(From(s, k)) = Len(s) - k
         /\ \A i \in 1 .. k : Before(s, k)[i] = s[i]
         /\ \A i \in 1 .. Len(s) - k : From(s, k)[i] = s[k + i]
         /\ s = Before(s, k) \o From(s, k)
<1> DEFINE a == Before(s, k)
           b == From(s, k)
           n == Len(s)
           c == a \o b
<1>1. n \in Nat /\ s \in Text
  BY LenProperties DEF Text
<1>2. a \in Text /\ Len(a) = k /\ \A i \in 1 .. k : a[i] = s[i]
  <2>1. /\ SubSeq(s, 1, k) \in Text
        /\ Len(SubSeq(s, 1, k)) = k - 1 + 1
        /\ \A i \in 1 .. k - 1 + 1 : SubSeq(s, 1, k)[i] = s[1 + i - 1]
    BY SliceShape
  <2>2. \A i \in 1 .. k : i \in 1 .. k - 1 + 1 /\ 1 + i - 1 = i
    OBVIOUS
  <2> QED BY <2>1, <2>2 DEF Before
<1>3. b \in Text /\ Len(b) = n - k /\ \A i \in 1 .. n - k : b[i] = s[k + i]
  <2>1. k + 1 \in Nat \ {0} /\ k + 1 <= n + 1 /\ n <= Len(s)
    BY <1>1
  <2>2. /\ b \in Text
        /\ Len(b) = n - (k + 1) + 1
        /\ \A i \in 1 .. n - (k + 1) + 1 : b[i] = s[k + 1 + i - 1]
    <3> HIDE DEF n
    <3> QED BY <1>1, <2>1, SliceShape DEF From, n
  <2>3. /\ n - (k + 1) + 1 = n - k
        /\ \A i \in 1 .. n - k : i \in 1 .. n - (k + 1) + 1 /\ k + 1 + i - 1 = k + i
    BY <1>1
  <2> HIDE DEF b, n
  <2> QED BY <2>2, <2>3
<1> HIDE DEF a, b
<1>4. /\ c \in Text /\ Len(c) = Len(a) + Len(b)
      /\ \A i \in 1 .. Len(a) : c[i] = a[i]
      /\ \A i \in 1 .. Len(b) : c[Len(a) + i] = b[i]
  BY <1>2, <1>3, ConcatShape
<1> HIDE DEF c, n
<1>5. Len(c) = Len(s)
  BY <1>1, <1>2, <1>3, <1>4 DEF n
<1>6. ASSUME NEW i \in 1 .. Len(s) PROVE s[i] = c[i]
  <2>1. CASE i <= k
    BY <1>1, <1>2, <1>4, <2>1
  <2>2. CASE ~(i <= k)
    <3>1. i - k \in 1 .. n - k /\ k + (i - k) = i
      BY <1>1, <2>2 DEF n
    <3>2. c[k + (i - k)] = b[i - k]
      BY <1>2, <1>3, <1>4, <3>1
    <3> QED BY <1>3, <3>1, <3>2
  <2> QED BY <2>1, <2>2
<1>7. s = c
  BY <1>4, <1>5, <1>6, SeqEqual DEF Text
<1> QED BY <1>2, <1>3, <1>7 DEF a, b, c, n

LEMMA Associative ==
  ASSUME NEW a \in Text, NEW b \in Text, NEW c \in Text
  PROVE  a \o (b \o c) = a \o b \o c
BY ConcatAssociative DEF Text

LEMMA PrefixSplit ==
  ASSUME NEW s \in Text, NEW t \in Text, HasPrefix(s, t)
  PROVE  TrimPrefix(s, t) \in Text /\ s = t \o TrimPrefix(s, t)
<1> DEFINE k == Len(t)
<1>1. k \in Nat /\ k <= Len(s)
  BY LenProperties DEF Text, HasPrefix
<1>2. Before(s, k) = t /\ From(s, k) = TrimPrefix(s, t)
  BY DEF Before, From, HasPrefix, TrimPrefix
<1> HIDE DEF k
<1>3. From(s, k) \in Text /\ s = Before(s, k) \o From(s, k)
  BY <1>1, Cut
<1> QED BY <1>2, <1>3

LEMMA SuffixSplit ==
  ASSUME NEW s \in Text, NEW t \in Text, HasSuffix(s, t)
  PROVE  TrimSuffix(s, t) \in Text /\ s = TrimSuffix(s, t) \o t
<1> DEFINE k == Len(s) - Len(t)
<1>1. k \in Nat /\ k <= Len(s) /\ k + Len(t) = Len(s)
  BY LenProperties DEF Text, HasSuffix
<1>2. Before(s, k) = TrimSuffix(s, t) /\ From(s, k) = t
  BY DEF Before, From, HasSuffix, TrimSuffix
<1> HIDE DEF k
<1>3. Before(s, k) \in Text /\ s = Before(s, k) \o From(s, k)
  BY <1>1, Cut
<1> QED BY <1>2, <1>3

\* A text around one occurrence of another.
LEMMA OccurrenceSplit ==
  ASSUME NEW s \in Text, NEW sub \in Text, NEW k \in Occurrences(s, sub)
  PROVE  /\ k \in Nat /\ k + Len(sub) \in Nat /\ k + Len(sub) <= Len(s)
         /\ Before(s, k) \in Text /\ From(s, k + Len(sub)) \in Text
         /\ s = Before(s, k) \o (sub \o From(s, k + Len(sub)))
<1> DEFINE m == Len(sub)
           rest == From(s, k)
           tail == From(s, k + m)
<1>1. m \in Nat /\ Len(s) \in Nat
  BY LenProperties DEF Text
<1>2. k \in Nat /\ k + m <= Len(s) /\ \A i \in 1 .. m : s[k + i] = sub[i]
  BY OccurrencesAre
<1>3. k + m \in Nat /\ k <= Len(s)
  BY <1>1, <1>2
<1> HIDE DEF m
<1>4. /\ Before(s, k) \in Text
      /\ rest \in Text /\ Len(rest) = Len(s) - k
      /\ \A i \in 1 .. Len(s) - k : rest[i] = s[k + i]
      /\ s = Before(s, k) \o rest
  BY <1>2, <1>3, Cut
<1>5. /\ tail \in Text /\ Len(tail) = Len(s) - (k + m)
      /\ \A i \in 1 .. Len(s) - (k + m) : tail[i] = s[k + m + i]
  BY <1>2, <1>3, Cut
<1> HIDE DEF rest, tail
<1>6. rest = sub \o tail
  <2> DEFINE c == sub \o tail
  <2>1. /\ c \in Text /\ Len(c) = m + Len(tail)
        /\ \A i \in 1 .. m : c[i] = sub[i]
        /\ \A i \in 1 .. Len(tail) : c[m + i] = tail[i]
    BY <1>5, ConcatShape DEF m
  <2> HIDE DEF c
  <2>2. Len(c) = Len(rest)
    BY <1>1, <1>2, <1>4, <1>5, <2>1
  <2>3. ASSUME NEW i \in 1 .. Len(rest) PROVE rest[i] = c[i]
    <3>1. rest[i] = s[k + i]
      BY <1>4
    <3>2. CASE i <= m
      <4>1. i \in 1 .. m
        BY <1>1, <3>2
      <4> QED BY <1>2, <2>1, <3>1, <4>1
    <3>3. CASE ~(i <= m)
      <4>1. i - m \in 1 .. Len(tail) /\ i - m \in 1 .. Len(s) - (k + m)
            /\ m + (i - m) = i /\ k + m + (i - m) = k + i
        BY <1>1, <1>2, <1>4, <1>5, <3>3
      <4>2. c[m + (i - m)] = tail[i - m] /\ tail[i - m] = s[k + m + (i - m)]
        BY <1>5, <2>1, <4>1
      <4> QED BY <3>1, <4>1, <4>2
    <3> QED BY <3>2, <3>3
  <2>4. rest = c
    BY <1>4, <2>1, <2>2, <2>3, SeqEqual DEF Text
  <2> QED BY <2>4 DEF c
<1> QED BY <1>2, <1>3, <1>4, <1>5, <1>6 DEF m, rest, tail

\* What stands before an infix, if a name is left of it.
LEMMA NameBefore ==
  ASSUME NEW p \in Text, HasPrefix(p, <<"/">>), NEW k \in Nat, k <= Len(p),
         TrimPrefix(Before(p, k), <<"/">>) # <<>>
  PROVE  /\ k > 1
         /\ TrimPrefix(Before(p, k), <<"/">>) \in Text
         /\ Before(p, k) = <<"/">> \o TrimPrefix(Before(p, k), <<"/">>)
<1> DEFINE slash == <<"/">>
           head == Before(p, k)
           name == TrimPrefix(head, slash)
<1>1. slash \in Text /\ Len(slash) = 1 /\ slash[1] = "/"
  BY Infixes
<1>2. head \in Text /\ Len(head) = k /\ \A i \in 1 .. k : head[i] = p[i]
  BY Cut
<1>3. p[1] = "/"
  <2> HIDE DEF slash
  <2>1. \A i \in 1 .. Len(slash) : p[i] = slash[i]
    BY <1>1, HasPrefixIs DEF slash
  <2> QED BY <1>1, <2>1
<1> HIDE DEF head
<1>4. k # 0
  <2>1. ASSUME k = 0 PROVE FALSE
    <3>1. head = <<>>
      BY <1>2, <2>1, EmptySeq DEF Text
    <3>2. ~HasPrefix(head, slash)
      BY <1>1, <1>2, <2>1 DEF HasPrefix
    <3>3. name = head
      BY <3>2 DEF TrimPrefix
    <3> QED BY <3>1, <3>3 DEF head
  <2> QED BY <2>1
<1>5. HasPrefix(head, slash)
  <2> HIDE DEF slash
  <2>1. Len(slash) <= Len(head) /\ \A i \in 1 .. Len(slash) : head[i] = slash[i]
    BY <1>1, <1>2, <1>3, <1>4
  <2> QED BY <1>1, <1>2, <2>1, HasPrefixIs
<1>6. name \in Text /\ head = slash \o name
  BY <1>1, <1>2, <1>5, PrefixSplit
<1>7. k = 1 + Len(name) /\ Len(name) \in Nat
  <2> HIDE DEF slash, name
  <2>1. Len(slash \o name) = Len(slash) + Len(name) /\ Len(name) \in Nat
    BY <1>1, <1>6, ConcatShape
  <2> QED BY <1>1, <1>2, <1>6, <2>1
<1>8. Len(name) # 0
  <2> HIDE DEF name
  <2>1. name # <<>>
    BY DEF name, head
  <2> QED BY <1>6, <2>1, EmptySeq DEF Text
<1>9. k > 1
  <2> HIDE DEF name
  <2> QED BY <1>7, <1>8
<1> QED BY <1>6, <1>9 DEF head

(***************************************************************************)
(* TagsSpelled, ManifestSpelled, BlobSpelled: a handler that is called has *)
(* its arguments from the path (internal/oci/routes.go 45-79).             *)
(***************************************************************************)
LEMMA TagsSpelled ==
  ASSUME NEW p \in Text, HasPrefix(p, <<"/">>), HasSuffix(p, tagsList)
  PROVE  Spelled(p, dispatchTags(p))
<1> DEFINE slash == <<"/">>
           rest == TrimPrefix(p, slash)
           name == TrimSuffix(rest, tagsList)
<1>1. slash \in Text /\ Len(slash) = 1 /\ tagsList \in Text /\ Len(tagsList) = 4
  BY Infixes
<1>2. rest \in Text /\ p = slash \o rest
  BY <1>1, PrefixSplit
<1>3. dispatchTags(p) = IF name = <<>> THEN NotFound ELSE [op |-> "ListTags", name |-> name]
  BY DEF dispatchTags
<1>4. p = slash \o name \o tagsList \/ p = tagsList
  <2> HIDE DEF slash, rest, name
  <2>1. CASE HasSuffix(rest, tagsList)
    <3>1. name \in Text /\ rest = name \o tagsList
      BY <1>1, <1>2, <2>1, SuffixSplit DEF name
    <3>2. slash \o (name \o tagsList) = slash \o name \o tagsList
      BY <1>1, <3>1, Associative
    <3> QED BY <1>2, <3>1, <3>2
  <2>2. CASE ~HasSuffix(rest, tagsList)
    <3> DEFINE m == Len(tagsList)
    <3>1. m = 4 /\ Len(p) \in Nat /\ Len(rest) \in Nat /\ Len(p) = 1 + Len(rest)
      <4>1. /\ Len(slash \o rest) = Len(slash) + Len(rest)
            /\ Len(slash) \in Nat /\ Len(rest) \in Nat
        BY <1>1, <1>2, ConcatShape
      <4>2. Len(p) = 1 + Len(rest)
        BY <1>1, <1>2, <4>1
      <4> QED BY <1>1, <4>1, <4>2
    <3>2. \A i \in 1 .. Len(rest) : p[1 + i] = rest[i]
      <4>1. \A i \in 1 .. Len(rest) : (slash \o rest)[Len(slash) + i] = rest[i]
        BY <1>1, <1>2, ConcatShape
      <4> QED BY <1>1, <1>2, <4>1
    <3>3. m <= Len(p) /\ \A i \in 1 .. m : p[Len(p) - m + i] = tagsList[i]
      BY <1>1, HasSuffixIs
    <3>4. ~(m <= Len(rest) /\ \A i \in 1 .. m : rest[Len(rest) - m + i] = tagsList[i])
      BY <1>1, <1>2, <2>2, HasSuffixIs
    <3>5. Len(p) = m
      <4> HIDE DEF m
      <4>1. ASSUME m <= Len(rest) PROVE FALSE
        <5>1. ASSUME NEW i \in 1 .. m PROVE rest[Len(rest) - m + i] = tagsList[i]
          <6>1. /\ Len(rest) - m + i \in 1 .. Len(rest)
                /\ 1 + (Len(rest) - m + i) = Len(p) - m + i
            BY <3>1, <4>1
          <6> QED BY <3>2, <3>3, <6>1
        <5> QED BY <3>4, <4>1, <5>1
      <4> QED BY <3>1, <3>3, <4>1
    <3>6. ASSUME NEW i \in 1 .. Len(p) PROVE p[i] = tagsList[i]
      <4> HIDE DEF m
      <4> DEFINE n == Len(p)
      <4>1. n = 4 /\ m = 4 /\ i \in 1 .. n
        BY <3>1, <3>5
      <4> HIDE DEF n
      <4>2. i \in 1 .. m /\ n - m + i = i
        BY <4>1
      <4> QED BY <3>3, <4>2 DEF n
    <3>7. p = tagsList
      BY <1>1, <3>5, <3>6, SeqEqual DEF Text
    <3> QED BY <3>7
  <2> QED BY <2>1, <2>2
<1> HIDE DEF name
<1>5. CASE name = <<>>
  BY <1>3, <1>5 DEF Spelled, NotFound
<1>6. CASE name # <<>>
  <2>1. dispatchTags(p).op = "ListTags" /\ dispatchTags(p).name = name
    BY <1>3, <1>6
  <2> QED BY <1>4, <2>1 DEF Spelled
<1> QED BY <1>5, <1>6

LEMMA ManifestSpelled ==
  ASSUME NEW p \in Text, HasPrefix(p, <<"/">>), NEW k \in Occurrences(p, manifests)
  PROVE  Spelled(p, dispatchManifest(p, k))
<1> DEFINE slash == <<"/">>
           name == TrimPrefix(Before(p, k), slash)
           reference == From(p, k + Len(manifests))
<1>1. slash \in Text /\ manifests \in Text
  BY Infixes
<1>2. /\ k \in Nat /\ k + Len(manifests) \in Nat /\ k + Len(manifests) <= Len(p)
      /\ Before(p, k) \in Text /\ reference \in Text
      /\ p = Before(p, k) \o (manifests \o reference)
  BY <1>1, OccurrenceSplit
<1>3. dispatchManifest(p, k) =
        IF name = <<>> \/ reference = <<>> THEN NotFound
        ELSE [op |-> "GetManifest", name |-> name, reference |-> reference]
  BY DEF dispatchManifest
<1>4. CASE name = <<>> \/ reference = <<>>
  <2> HIDE DEF name, reference
  <2> QED BY <1>3, <1>4 DEF Spelled, NotFound
<1>5. CASE name # <<>> /\ reference # <<>>
  <2>1. k <= Len(p)
    BY <1>1, <1>2, LenProperties DEF Text
  <2>2. name \in Text /\ Before(p, k) = slash \o name
    BY <1>2, <1>5, <2>1, NameBefore
  <2> HIDE DEF slash, name, reference
  <2>3. slash \o name \in Text
    BY <1>1, <2>2, ConcatShape
  <2>4. p = slash \o name \o manifests \o reference
    <3>1. p = slash \o name \o (manifests \o reference)
      BY <1>2, <2>2
    <3>2. slash \o name \o (manifests \o reference) = slash \o name \o manifests \o reference
      BY <1>1, <1>2, <2>3, Associative
    <3> QED BY <3>1, <3>2
  <2>5. /\ dispatchManifest(p, k).op = "GetManifest"
        /\ dispatchManifest(p, k).name = name
        /\ dispatchManifest(p, k).reference = reference
    BY <1>3, <1>5
  <2> QED BY <2>4, <2>5 DEF Spelled, slash
<1> QED BY <1>4, <1>5

LEMMA BlobSpelled ==
  ASSUME NEW p \in Text, HasPrefix(p, <<"/">>), NEW k \in Occurrences(p, blobs),
         \A j \in Occurrences(p, blobs) : j <= k
  PROVE  Spelled(p, dispatchBlob(p, k))
<1> DEFINE slash == <<"/">>
           head == Before(p, k)
           m == Len(blobs)
           digest == From(p, k + m)
           tail == blobs \o digest
<1>1. slash \in Text /\ blobs \in Text /\ m = 3
  BY Infixes
<1>2. /\ k \in Nat /\ k + m \in Nat /\ k + m <= Len(p)
      /\ head \in Text /\ digest \in Text
      /\ p = head \o tail
  BY <1>1, OccurrenceSplit
<1>3. dispatchBlob(p, k) =
        IF TrimPrefix(head, slash) = <<>> \/ digest = <<>> THEN NotFound
        ELSE [op |-> "GetBlob", digest |-> digest]
  BY DEF dispatchBlob
<1>4. CASE TrimPrefix(head, slash) = <<>> \/ digest = <<>>
  <2> HIDE DEF head, digest, slash
  <2> QED BY <1>3, <1>4 DEF Spelled, NotFound
<1>5. CASE TrimPrefix(head, slash) # <<>> /\ digest # <<>>
  <2>1. k <= Len(p)
    BY <1>1, <1>2, LenProperties DEF Text
  <2>2. k > 1
    BY <1>2, <1>5, <2>1, NameBefore
  <2>3. Len(head) = k
    BY <1>2, <2>1, Cut
  <2> HIDE DEF digest, head, slash, m
  <2>4. tail \in Text
    BY <1>1, <1>2, ConcatShape
  <2>5. HasSuffix(p, tail) /\ Len(p) = k + Len(tail) /\ Len(tail) \in Nat
    <3> HIDE DEF tail
    <3> QED BY <1>2, <2>3, <2>4, TrimConcat, ConcatShape
  <2>6. Len(p) > Len(tail) + 1
    <3> HIDE DEF tail
    <3> QED BY <1>2, <2>2, <2>5
  <2>7. ASSUME NEW j \in Occurrences(digest, blobs) PROVE FALSE
    <3>1. /\ j \in Nat /\ j + m <= Len(digest)
          /\ \A i \in 1 .. m : digest[j + i] = blobs[i]
      <4>1. Occurrences(digest, blobs) =
              {at \in Nat : /\ at + Len(blobs) <= Len(digest)
                           /\ \A i \in 1 .. Len(blobs) : digest[at + i] = blobs[i]}
        BY <1>1, <1>2, OccurrencesAre
      <4> QED BY <4>1 DEF m
    <3>2. /\ Len(digest) = Len(p) - (k + m) /\ Len(p) \in Nat
          /\ \A i \in 1 .. Len(p) - (k + m) : digest[i] = p[k + m + i]
      BY <1>2, Cut, LenProperties DEF digest, Text
    <3> DEFINE at == k + m + j
    <3>3. at \in Nat /\ at + m <= Len(p) /\ at > k
      BY <1>1, <1>2, <3>1, <3>2
    <3>4. ASSUME NEW i \in 1 .. m PROVE p[at + i] = blobs[i]
      <4>1. j + i \in 1 .. Len(p) - (k + m) /\ k + m + (j + i) = at + i
        BY <1>1, <1>2, <3>1, <3>2
      <4> QED BY <3>1, <3>2, <4>1
    <3> HIDE DEF at
    <3>5. at \in Occurrences(p, blobs)
      BY <1>1, <3>3, <3>4, OccurrencesAre DEF m
    <3> QED BY <1>2, <3>3, <3>5
  <2>8. Occurrences(digest, blobs) = {}
    BY <2>7
  <2>9. dispatchBlob(p, k).op = "GetBlob" /\ dispatchBlob(p, k).digest = digest
    BY <1>3, <1>5
  <2> QED BY <2>5, <2>6, <2>8, <2>9 DEF Spelled, tail
<1> QED BY <1>4, <1>5

(***************************************************************************)
(* CallsAreSpelled: whatever the path, of any length and with repeated     *)
(* slashes, no handler is called with arguments that the path does not     *)
(* spell out where the patterns name them: overlapping prefix, infix and   *)
(* suffix never yield a word twice or drop one.  gin gives every path a    *)
(* slash to begin with (internal/oci/routes.go 45-79).                     *)
(***************************************************************************)
THEOREM CallsAreSpelled ==
  ASSUME NEW p \in Text, HasPrefix(p, <<"/">>)
  PROVE  Spelled(p, dispatch(p))
<1>1. CASE p \in {<<>>, <<"/">>}
  <2>1. dispatch(p) = [op |-> "V2Check"]
    <3>1. Len(p) < 2 /\ Len(p) \in Nat
      BY <1>1
    <3>2. p # <<"/", "_catalog">>
      BY <3>1
    <3>3. ~HasSuffix(p, tagsList)
      BY <3>1, Infixes DEF HasSuffix
    <3> QED BY <1>1, <3>2, <3>3 DEF dispatch
  <2> QED BY <2>1 DEF Spelled
<1>2. CASE p \notin {<<>>, <<"/">>} /\ p = <<"/", "_catalog">>
  <2>1. dispatch(p) = [op |-> "ListCatalog"]
    <3>1. Len(p) = 2
      BY <1>2
    <3>2. ~HasSuffix(p, tagsList)
      BY <3>1, Infixes DEF HasSuffix
    <3> QED BY <1>2, <3>2 DEF dispatch
  <2> QED BY <2>1 DEF Spelled
<1>3. CASE p \notin {<<>>, <<"/">>} /\ p # <<"/", "_catalog">> /\ HasSuffix(p, tagsList)
  <2>1. dispatch(p) = dispatchTags(p)
    BY <1>3 DEF dispatch
  <2> QED BY <1>3, <2>1, TagsSpelled
<1>4. CASE p \notin {<<>>, <<"/">>} /\ p # <<"/", "_catalog">> /\ ~HasSuffix(p, tagsList)
  <2> DEFINE m == LastIndex(p, manifests)
             b == LastIndex(p, blobs)
  <2>1. dispatch(p) = IF m >= 0 THEN dispatchManifest(p, m)
                      ELSE IF b >= 0 THEN dispatchBlob(p, b) ELSE NotFound
    BY <1>4 DEF dispatch
  <2>2. manifests \in Text /\ blobs \in Text
    BY Infixes
  <2>3. m >= 0 => m \in Occurrences(p, manifests)
    BY <2>2, LastIndexFound
  <2>4. b >= 0 => b \in Occurrences(p, blobs) /\ \A j \in Occurrences(p, blobs) : j <= b
    BY <2>2, LastIndexFound
  <2> HIDE DEF m, b
  <2>5. CASE m >= 0
    BY <2>1, <2>3, <2>5, ManifestSpelled
  <2>6. CASE ~(m >= 0) /\ b >= 0
    BY <2>1, <2>4, <2>6, BlobSpelled
  <2>7. CASE ~(m >= 0) /\ ~(b >= 0)
    <3>1. dispatch(p) = NotFound
      BY <2>1, <2>7
    <3> QED BY <3>1 DEF Spelled, NotFound
  <2> QED BY <2>5, <2>6, <2>7
<1> QED BY <1>1, <1>2, <1>3, <1>4

-----------------------------------------------------------------------------
(***************************************************************************)
(* DispatchCheck: what a client spells, and what becomes of it.            *)
(***************************************************************************)
\* A path that gin hands over, or one that is still empty.
SlashFirst(p) == p \in Text /\ (p # <<>> => p[1] = "/")

LEMMA SpelledFurther ==
  ASSUME NEW p, SlashFirst(p), NEW segment \in Text
  PROVE  SlashFirst(p \o <<"/">> \o segment)
<1> DEFINE slash == <<"/">>
           left == p \o slash
           longer == left \o segment
<1>1. slash \in Text /\ Len(slash) = 1 /\ slash[1] = "/"
  BY Infixes
<1> HIDE DEF slash
<1>2. /\ p \in Text /\ left \in Text /\ Len(p) \in Nat /\ Len(left) = Len(p) + 1
      /\ \A i \in 1 .. Len(p) : left[i] = p[i]
      /\ left[Len(p) + 1] = "/"
  <2>1. p \in Text
    BY DEF SlashFirst
  <2>2. /\ left \in Text /\ Len(p) \in Nat /\ Len(left) = Len(p) + Len(slash)
        /\ \A i \in 1 .. Len(p) : left[i] = p[i]
        /\ \A i \in 1 .. Len(slash) : left[Len(p) + i] = slash[i]
    BY <1>1, <2>1, ConcatShape
  <2> HIDE DEF left
  <2>3. left[Len(p) + 1] = "/"
    BY <1>1, <2>2
  <2> QED BY <1>1, <2>1, <2>2, <2>3
<1>3. left[1] = "/"
  <2>1. CASE Len(p) = 0
    BY <1>2, <2>1
  <2>2. CASE Len(p) # 0
    <3>1. p # <<>>
      BY <2>2
    <3>2. p[1] = "/" /\ 1 \in 1 .. Len(p)
      BY <1>2, <2>2, <3>1 DEF SlashFirst
    <3> QED BY <1>2, <3>2
  <2> QED BY <2>1, <2>2
<1> HIDE DEF left
<1>4. longer \in Text /\ \A i \in 1 .. Len(left) : longer[i] = left[i]
  BY <1>2, ConcatShape
<1>5. longer[1] = "/"
  BY <1>2, <1>3, <1>4
<1> QED BY <1>4, <1>5 DEF SlashFirst, slash, left

\* What follows the slash is a name, if it does not end there.
LEMMA TailIsName ==
  ASSUME NEW p, SlashFirst(p), p # <<>>, p[Len(p)] # "/"
  PROVE  Tail(p) \in Name
<1>1. p \in Seq(Word) /\ Len(p) \in Nat /\ p[1] = "/"
  BY LenProperties DEF SlashFirst, Text
<1>2. Len(p) # 0
  BY <1>1, EmptySeq
<1>3. Len(p) > 1
  BY <1>1, <1>2
<1>4. Tail(p) \in Seq(Word) /\ Len(Tail(p)) = Len(p) - 1
  BY <1>1, HeadTailProperties
<1>5. Tail(p) # <<>>
  <2> DEFINE name == Tail(p)
  <2>1. name \in Seq(Word) /\ Len(name) # 0
    BY <1>1, <1>3, <1>4
  <2> HIDE DEF name
  <2>2. name # <<>>
    BY <2>1, EmptySeq
  <2> QED BY <2>2 DEF name
<1> QED BY <1>4, <1>5 DEF Name, Text

(***************************************************************************)
(* Sent: what the client has sent is a request of the three kinds, with a  *)
(* name and a reference, spelt as its pattern says, or is Anything.        *)
(***************************************************************************)
SentTags ==
  \E name \in Name :
    /\ request = [op |-> "ListTags", name |-> name]
    /\ param = <<"/">> \o name \o tagsList
SentManifest ==
  \E name \in Name, r \in Reference :
    /\ request = [op |-> "GetManifest", name |-> name, reference |-> r]
    /\ param = <<"/">> \o name \o manifests \o r
SentBlob ==
  \E name \in Name, r \in Reference :
    /\ request = [op |-> "GetBlob", name |-> name, digest |-> r]
    /\ param = <<"/">> \o name \o blobs \o r

Sent == request = Anything \/ SentTags \/ SentManifest \/ SentBlob

Answered == call = Pending \/ (param # <<>> /\ call = dispatch(param))

Asked == SlashFirst(param) /\ Sent /\ Answered

LEMMA PathsSpelled ==
  ASSUME NEW name \in Name, NEW infix \in {manifests, blobs}, NEW r \in Reference
  PROVE  /\ <<"/">> \o name \o (infix \o r) = <<"/">> \o name \o infix \o r
         /\ SlashFirst(<<"/">> \o name \o infix \o r)
<1>1. name \in Text /\ <<"/">> \in Text /\ infix \in Text /\ r \in Text
  BY Infixes DEF Name, Reference
<1>2. <<"/">> \o name \in Text
  BY <1>1, ConcatShape
<1>3. <<"/">> \o name \o (infix \o r) = <<"/">> \o name \o infix \o r
  BY <1>1, <1>2, Associative
<1>4. SlashFirst(<<"/">> \o name \o infix \o r)
  <2> DEFINE p == Path(name, infix, r)
  <2>1. p \in Text /\ p[1] = "/"
    BY <1>1, PathShape
  <2> QED BY <2>1 DEF p, Path, SlashFirst
<1> QED BY <1>3, <1>4

LEMMA TagsPathSpelled ==
  ASSUME NEW name \in Name
  PROVE  SlashFirst(<<"/">> \o name \o tagsList)
<1> DEFINE slash == <<"/">>
           left == slash \o name
           p == left \o tagsList
<1>1. name \in Text /\ tagsList \in Text /\ slash \in Text /\ Len(slash) = 1 /\ slash[1] = "/"
  BY Infixes DEF Name
<1> HIDE DEF slash
<1>2. left \in Text /\ Len(left) = 1 + Len(name) /\ Len(name) \in Nat /\ left[1] = "/"
  <2>1. /\ left \in Text /\ Len(left) = Len(slash) + Len(name) /\ Len(name) \in Nat
        /\ \A i \in 1 .. Len(slash) : left[i] = slash[i]
    BY <1>1, ConcatShape
  <2> HIDE DEF left
  <2> QED BY <1>1, <2>1
<1> HIDE DEF left
<1>3. p \in Text /\ p[1] = "/"
  BY <1>1, <1>2, ConcatShape
<1> QED BY <1>3 DEF SlashFirst, p, left, slash

LEMMA InitAsked == InitCheck => Asked
<1> SUFFICES ASSUME InitCheck PROVE Asked
  OBVIOUS
<1>1. request = Anything /\ param = <<>> /\ call = Pending
  BY DEF InitCheck, Anything, Pending
<1>2. <<>> \in Text
  BY EmptySeq DEF Text
<1> QED BY <1>1, <1>2 DEF Asked, SlashFirst, Sent, Answered

LEMMA SpellAsked == Asked /\ Spell => Asked'
<1> SUFFICES ASSUME Asked, Spell PROVE Asked'
  OBVIOUS
<1>1. PICK segment \in {<<>>} \cup {<<w>> : w \in Words} :
        param' = param \o <<"/">> \o segment
  BY DEF Spell, Segment
<1>2. segment \in Text
  <2>1. Words \subseteq Word
    BY InputsAssumption DEF Word
  <2>2. \A w \in Word : <<w>> \in Seq(Word)
    OBVIOUS
  <2> QED BY <1>1, <2>1, <2>2, EmptySeq DEF Text
<1>3. SlashFirst(param')
  <2>1. SlashFirst(param)
    BY DEF Asked
  <2>2. SlashFirst(param \o <<"/">> \o segment)
    BY <1>2, <2>1, SpelledFurther
  <2> QED BY <1>1, <2>2
<1>4. request' = Anything /\ call' = Pending
  BY DEF Spell, Unsent, Anything, Pending
<1> QED BY <1>3, <1>4 DEF Asked, Sent, Answered

LEMMA AskAsked == Asked /\ Ask => Asked'
<1> SUFFICES ASSUME Asked, Ask PROVE Asked'
  OBVIOUS
<1> DEFINE name == Tail(param)
<1>1. name \in Name
  <2>1. param # <<>> /\ \A k \in {j \in 1 .. Len(param) : param[j] = "/"} : k < Len(param)
    BY DEF Ask, NamesRepository, Slashes
  <2>2. SlashFirst(param) /\ param \in Seq(Word)
    BY DEF Asked, SlashFirst, Text
  <2>3. Len(param) \in Nat \ {0}
    BY <2>1, <2>2, EmptySeq
  <2>4. param[Len(param)] # "/"
    BY <2>1, <2>3
  <2> QED BY <2>1, <2>2, <2>4, TailIsName
<1>2. Refs \subseteq Reference
  <2>1. ASSUME NEW r \in Refs PROVE r \in Reference
    <3>1. r \in Seq(STRING) /\ r # <<>> /\ \A k \in 1 .. Len(r) : r[k] # "/"
      BY InputsAssumption
    <3>2. r \in Text
      <4>1. STRING \subseteq Word
        BY DEF Word
      <4> QED BY <3>1, <4>1, SeqMonotonic DEF Text
    <3> QED BY <3>1, <3>2 DEF Reference
  <2> QED BY <2>1
<1>3. /\ call' = Pending
      /\ param' = <<"/">> \o request'.name \o
           CASE request'.op = "ListTags"    -> tagsList
             [] request'.op = "GetManifest" -> manifests \o request'.reference
             [] request'.op = "GetBlob"     -> blobs \o request'.digest
  BY DEF Ask, Unsent, Url
<1>4. request' \in
              {[op |-> "ListTags", name |-> name]}
         \cup {[op |-> "GetManifest", name |-> name, reference |-> r] : r \in Refs}
         \cup {[op |-> "GetBlob", name |-> name, digest |-> r] : r \in Refs}
  BY DEF Ask, Requests
<1> HIDE DEF name
<1>5. SlashFirst(param') /\ Sent'
  <2>1. CASE request' = [op |-> "ListTags", name |-> name]
    <3>1. param' = <<"/">> \o name \o tagsList
      BY <1>3, <2>1
    <3> QED BY <1>1, <2>1, <3>1, TagsPathSpelled DEF Sent, SentTags
  <2>2. ASSUME NEW r \in Refs,
               request' = [op |-> "GetManifest", name |-> name, reference |-> r]
        PROVE  SlashFirst(param') /\ Sent'
    <3>1. param' = <<"/">> \o name \o (manifests \o r)
      BY <1>3, <2>2
    <3>2. param' = <<"/">> \o name \o manifests \o r /\ SlashFirst(param')
      BY <1>1, <1>2, <3>1, PathsSpelled
    <3> QED BY <1>1, <1>2, <2>2, <3>2 DEF Sent, SentManifest
  <2>3. ASSUME NEW r \in Refs,
               request' = [op |-> "GetBlob", name |-> name, digest |-> r]
        PROVE  SlashFirst(param') /\ Sent'
    <3>1. param' = <<"/">> \o name \o (blobs \o r)
      BY <1>3, <2>3
    <3>2. param' = <<"/">> \o name \o blobs \o r /\ SlashFirst(param')
      BY <1>1, <1>2, <3>1, PathsSpelled
    <3> QED BY <1>1, <1>2, <2>3, <3>2 DEF Sent, SentBlob
  <2> QED BY <1>4, <2>1, <2>2, <2>3
<1> QED BY <1>3, <1>5 DEF Asked, Answered

LEMMA DispatchAsked == Asked /\ Dispatch => Asked'
<1> SUFFICES ASSUME Asked, Dispatch PROVE Asked'
  OBVIOUS
<1>1. param # <<>> /\ request' = request /\ param' = param /\ call' = dispatch(param)
  BY DEF Dispatch
<1> QED BY <1>1 DEF Asked, Sent, SentTags, SentManifest, SentBlob, Answered

LEMMA CheckAsked == SpecCheck => []Asked
<1>1. Asked /\ [NextCheck]_checkVars => Asked'
  <2> SUFFICES ASSUME Asked, [NextCheck]_checkVars PROVE Asked'
    OBVIOUS
  <2>1. CASE Spell
    BY <2>1, SpellAsked
  <2>2. CASE Ask
    BY <2>2, AskAsked
  <2>3. CASE Dispatch
    BY <2>3, DispatchAsked
  <2>4. CASE UNCHANGED checkVars
    BY <2>4 DEF checkVars, Asked, Sent, SentTags, SentManifest, SentBlob, Answered
  <2> QED BY <2>1, <2>2, <2>3, <2>4 DEF NextCheck
<1> QED BY <1>1, InitAsked, PTL DEF SpecCheck

(***************************************************************************)
(* RequestsReachHandlers: the request for the tags, a manifest or a blob   *)
(* of any repository calls its own handler with its own arguments, for     *)
(* names of any length made of any words, tags and digests, unless it asks *)
(* for a blob of a repository with a segment "manifests" in its name       *)
(* (internal/oci/routes.go 45-79).                                         *)
(***************************************************************************)
THEOREM RequestsReachHandlers == SpecCheck => []RequestReachesHandler
<1>1. Asked => RequestReachesHandler
  <2> SUFFICES
        ASSUME Asked, request # Anything, call # Pending
        PROVE  \/ call = IF request.op = "GetBlob"
                           THEN [op |-> "GetBlob", digest |-> request.digest] ELSE request
               \/ /\ request.op = "GetBlob"
                  /\ "manifests" \in {request.name[k] : k \in 1 .. Len(request.name)}
    BY DEF RequestReachesHandler, Called, Intended, Reserved
  <2>1. call = dispatch(param) /\ Sent
    BY DEF Asked, Answered
  <2>2. CASE SentTags
    <3>1. PICK name \in Name : /\ request = [op |-> "ListTags", name |-> name]
                               /\ param = <<"/">> \o name \o tagsList
      BY <2>2 DEF SentTags
    <3>2. call = request /\ request.op # "GetBlob"
      BY <2>1, <3>1, TagsRequest
    <3> QED BY <3>2
  <2>3. CASE SentManifest
    <3>1. PICK name \in Name, r \in Reference :
            /\ request = [op |-> "GetManifest", name |-> name, reference |-> r]
            /\ param = <<"/">> \o name \o manifests \o r
      BY <2>3 DEF SentManifest
    <3>2. call = request /\ request.op # "GetBlob"
      BY <2>1, <3>1, ManifestRequest
    <3> QED BY <3>2
  <2>4. CASE SentBlob
    <3>1. PICK name \in Name, r \in Reference :
            /\ request = [op |-> "GetBlob", name |-> name, digest |-> r]
            /\ param = <<"/">> \o name \o blobs \o r
      BY <2>4 DEF SentBlob
    <3>2. request.op = "GetBlob" /\ request.name = name /\ request.digest = r
      BY <3>1
    <3>3. CASE Unreserved(name)
      <4>1. call = [op |-> "GetBlob", digest |-> r]
        BY <2>1, <3>1, <3>3, BlobRequest
      <4> QED BY <3>2, <4>1
    <3>4. CASE ~Unreserved(name)
      BY <3>2, <3>4 DEF Unreserved
    <3> QED BY <3>3, <3>4
  <2> QED BY <2>1, <2>2, <2>3, <2>4 DEF Sent
<1> QED BY <1>1, CheckAsked, PTL

(***************************************************************************)
(* SpelledCalls: whatever path a client spells, of any length and with     *)
(* repeated slashes, CallsAreSpelled holds of the call it becomes          *)
(* (internal/oci/routes.go 45-79).                                         *)
(***************************************************************************)
THEOREM SpelledCalls == SpecCheck => []CallIsSpelled
<1>1. Asked => CallIsSpelled
  <2> SUFFICES ASSUME Asked PROVE Spelled(param, call)
    BY DEF CallIsSpelled
  <2>1. CASE call = Pending
    BY <2>1 DEF Spelled, Pending
  <2>2. CASE param # <<>> /\ call = dispatch(param)
    <3>1. param \in Text /\ param[1] = "/" /\ Len(param) \in Nat
      BY <2>2, LenProperties DEF Asked, SlashFirst, Text
    <3>2. Len(param) # 0
      BY <2>2, <3>1, EmptySeq DEF Text
    <3>3. HasPrefix(param, <<"/">>)
      <4> DEFINE slash == <<"/">>
      <4>1. slash \in Text /\ Len(slash) = 1 /\ slash[1] = "/"
        BY Infixes
      <4> HIDE DEF slash
      <4>2. Len(slash) <= Len(param) /\ \A i \in 1 .. Len(slash) : param[i] = slash[i]
        BY <3>1, <3>2, <4>1
      <4>3. HasPrefix(param, slash)
        BY <3>1, <4>1, <4>2, HasPrefixIs
      <4> QED BY <4>3 DEF slash
    <3> QED BY <2>2, <3>1, <3>3, CallsAreSpelled
  <2> QED BY <2>1, <2>2 DEF Asked, Answered
<1> QED BY <1>1, CheckAsked, PTL
=============================================================================
