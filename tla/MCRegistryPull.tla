-------------------------- MODULE MCRegistryPull --------------------------
(***************************************************************************)
(* RegistryPull for TLC: the first seed process seeds the table of the     *)
(* code; the second one a later version of it, which gives a catalog a     *)
(* policy and moves its tag "latest", and adds a repository whose name     *)
(* begins with that catalog's name and holds a reserved segment.           *)
(***************************************************************************)
EXTENDS RegistryPull, SeedTable, SequencesExt

CONSTANTS s1, s2

nist == nested("guidance", "nist")

Later ==
  << [repo |-> nist, tags |-> {<<"latest">>}, layers |-> <<"nist-guidance", "policy">>],
     [repo |-> nist \o <<"/", "blobs">>, tags |-> {<<"v1.0.0">>}, layers |-> <<"policy">>] >>

MCArtifacts == (s1 :> artifacts) @@ (s2 :> Later)

Of(field(_)) == {field((artifacts \o Later)[k]) : k \in 1 .. Len(artifacts \o Later)}

MCRepos == Of(LAMBDA a : a.repo)
MCTags == UNION Of(LAMBDA a : a.tags)
MCContents == UNION Of(LAMBDA a : ToSet(a.layers))

\* An injective stand-in for the digest and for the manifest's bytes.
MCHex(data) == "h" \o data
MCMarshal(m) == FoldLeft(LAMBDA bytes, d : bytes \o d[3], "m", <<m.config>> \o m.layers)
MCIsHex(word) == word \in {d[3] : d \in Digests}
=============================================================================
