----------------------------- MODULE Snapshots -----------------------------
(***************************************************************************)
(* What the storage root is to those who read it: index files, each the    *)
(* outcome of whole seeds one after the other, and servers that each look  *)
(* at one of them.  A seed is published in one step, into a file that no   *)
(* server looks at.  There are no blobs, locks, names or deaths here.      *)
(***************************************************************************)
CONSTANTS
  Seeders, Servers, NoFile,
  EmptyIndex,      \* the index of a new file
  SeedOver(_, _)   \* what the whole seed of a seed process makes of an index

VARIABLES
  content,    \* content[i]: the index in the file i
  opened,     \* opened[v]: the file that the server v looks at, or NoFile
  published   \* the seed processes whose seeds are published

vars == <<content, opened, published>>

Init ==
  /\ content = [i \in Seeders |-> EmptyIndex]
  /\ opened = [v \in Servers |-> NoFile]
  /\ published = {}

Publish(s, i) ==
  /\ s \notin published
  /\ \A v \in Servers : opened[v] # i
  /\ content' = [content EXCEPT ![i] = SeedOver(s, @)]
  /\ published' = published \cup {s}
  /\ UNCHANGED opened

Open(v, i) ==
  /\ opened[v] = NoFile
  /\ opened' = [opened EXCEPT ![v] = i]
  /\ UNCHANGED <<content, published>>

Leave(v) ==
  /\ opened' = [opened EXCEPT ![v] = NoFile]
  /\ UNCHANGED <<content, published>>

Next ==
  \/ \E s, i \in Seeders : Publish(s, i)
  \/ \E v \in Servers : Leave(v) \/ \E i \in Seeders : Open(v, i)

Spec == Init /\ [][Next]_vars
=============================================================================
