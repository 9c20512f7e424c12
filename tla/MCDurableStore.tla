--------------------------- MODULE MCDurableStore ---------------------------
(***************************************************************************)
(* DurableStore for TLC: two seed processes of the same catalog, the       *)
(* second with a policy layer beside it and another tag, so that what the  *)
(* first one wrote and a crash lost is for the second one to write again.  *)
(***************************************************************************)
EXTENDS DurableStore, SequencesExt

CONSTANTS s1, s2

MCRepos == {<<"nist">>}
MCTags == {<<"v1">>, <<"latest">>}
MCContents == {"catalog", "policy"}

nist(tags, layers) == [repo |-> <<"nist">>, tags |-> tags, layers |-> layers]

MCArtifacts ==
  (s1 :> <<nist({<<"v1">>, <<"latest">>}, <<"catalog">>)>>) @@
  (s2 :> <<nist({<<"latest">>}, <<"catalog", "policy">>)>>)

\* An injective stand-in for the digest and for the manifest's bytes.
MCHex(data) == "h" \o data
MCMarshal(m) == FoldLeft(LAMBDA bytes, d : bytes \o d[3], "m", <<m.config>> \o m.layers)
=============================================================================
