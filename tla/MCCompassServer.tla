-------------------------- MODULE MCCompassServer --------------------------
(***************************************************************************)
(* CompassServer for TLC: one artifact per seed process, and every setting *)
(* a process may be started with; what does not load shows no other.       *)
(***************************************************************************)
EXTENDS CompassServer, SequencesExt

CONSTANTS s1, s2

MCRepos == {<<"guidance">>}
MCTags == {<<"v1">>, <<"latest">>}
MCContents == {"catalog"}

guidance(tag) == [repo |-> <<"guidance">>, tags |-> {<<tag>>}, layers |-> <<"catalog">>]

MCArtifacts == (s1 :> <<guidance("v1")>>) @@ (s2 :> <<guidance("latest")>>)

MCHex(data) == "h" \o data
MCMarshal(m) == FoldLeft(LAMBDA bytes, d : bytes \o d[3], "m", <<m.config>> \o m.layers)

MCSettings ==
  [loads : {TRUE}, storage : BOOLEAN, jwt : BOOLEAN, tls : BOOLEAN] \cup
  {[loads |-> FALSE, storage |-> TRUE, jwt |-> TRUE, tls |-> TRUE]}

\* Processes that come as far as the provider.
MCGoodSettings == {s \in MCSettings : s.loads /\ s.tls}
=============================================================================
