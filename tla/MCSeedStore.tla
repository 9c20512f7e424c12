---------------------------- MODULE MCSeedStore ----------------------------
(***************************************************************************)
(* SeedStore for TLC: two seed processes, the second a re-seed that adds a *)
(* tag and a policy layer to the first one's catalog and shares a blob     *)
(* with it.                                                                *)
(***************************************************************************)
EXTENDS SeedStore, SequencesExt

CONSTANTS s1, s2

MCRepos == {<<"policies", "/", "nist">>, <<"guidance">>}
MCTags == {<<"v1">>, <<"v2">>, <<"latest">>}
MCContents == {"catalog", "policy"}

nist(tags, layers) == [repo |-> <<"policies", "/", "nist">>, tags |-> tags, layers |-> layers]

MCArtifacts ==
  (s1 :> <<nist({<<"v1">>, <<"latest">>}, <<"catalog">>)>>) @@
  (s2 :> <<nist({<<"v2">>, <<"latest">>}, <<"catalog", "policy">>),
           [repo |-> <<"guidance">>, tags |-> {<<"v1">>}, layers |-> <<"catalog">>]>>)

\* An injective stand-in for the digest and for the manifest's bytes.
MCHex(data) == "h" \o data
MCMarshal(m) == FoldLeft(LAMBDA bytes, d : bytes \o d[3], "m", <<m.config>> \o m.layers)
=============================================================================
