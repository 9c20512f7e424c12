-------------------------------- MODULE Gate --------------------------------
(***************************************************************************)
(* What authentication promises: a handler runs for a request only after   *)
(* the request was admitted, it is admitted only while it is entitled to   *)
(* be, and one that was refused is never admitted, nor any handler run for *)
(* it.  Who is entitled changes as tokens expire and keys rotate.          *)
(***************************************************************************)
CONSTANT Requests

VARIABLES
  entitled,   \* the requests that may be admitted now
  admitted,
  refused,
  ran         \* the requests for which a handler behind the gate has run

vars == <<entitled, admitted, refused, ran>>

Init ==
  /\ admitted \subseteq entitled
  /\ refused = {}
  /\ ran = {}

Admit(r) ==
  /\ r \in entitled \ refused
  /\ admitted' = admitted \cup {r}
  /\ UNCHANGED <<refused, ran>>

Refuse(r) ==
  /\ r \notin admitted
  /\ refused' = refused \cup {r}
  /\ UNCHANGED <<admitted, ran>>

Run(r) ==
  /\ r \in admitted
  /\ ran' = ran \cup {r}
  /\ UNCHANGED <<admitted, refused>>

Turn == UNCHANGED <<admitted, refused, ran>>

Next == Turn \/ \E r \in Requests : Admit(r) \/ Refuse(r) \/ Run(r)

Spec == Init /\ [][Next]_vars
=============================================================================
