----------------------------- MODULE GoStrings -----------------------------
(***************************************************************************)
(* The functions of Go's package "strings" that the registry calls.  A     *)
(* string is the sequence of its words: "/" and ":" are words of their     *)
(* own, and what lies between two of them is one word, so two words that   *)
(* are neither "/" nor ":" are never adjacent.  Every pattern the registry *)
(* searches for begins and ends at such a boundary, or at an end of the    *)
(* string, which is why matching words finds what matching bytes finds.    *)
(***************************************************************************)
EXTENDS Integers, Sequences

HasPrefix(s, prefix) ==
  Len(prefix) <= Len(s) /\ SubSeq(s, 1, Len(prefix)) = prefix

HasSuffix(s, suffix) ==
  Len(suffix) <= Len(s) /\ SubSeq(s, Len(s) - Len(suffix) + 1, Len(s)) = suffix

TrimPrefix(s, prefix) ==
  IF HasPrefix(s, prefix) THEN SubSeq(s, Len(prefix) + 1, Len(s)) ELSE s

TrimSuffix(s, suffix) ==
  IF HasSuffix(s, suffix) THEN SubSeq(s, 1, Len(s) - Len(suffix)) ELSE s

\* The offsets, from 0, at which sub occurs in s.
Occurrences(s, sub) ==
  {k \in 0 .. Len(s) - Len(sub) : SubSeq(s, k + 1, k + Len(sub)) = sub}

\* -1 when there is none.
LastIndex(s, sub) ==
  IF Occurrences(s, sub) = {} THEN -1
  ELSE CHOOSE k \in Occurrences(s, sub) : \A j \in Occurrences(s, sub) : j <= k

\* The Go slices s[:k] and s[k:].
Before(s, k) == SubSeq(s, 1, k)
From(s, k) == SubSeq(s, k + 1, Len(s))
=============================================================================
