----------------------------- MODULE SeedTable -----------------------------
(***************************************************************************)
(* The artifacts that hack/seed/main.go seeds.  The YAML text of a layer   *)
(* is named after its document's metadata id, or the file it comes from.   *)
(***************************************************************************)
nested(dir, name) == <<dir, "/", name>>

Both(version) == {<<version>>, <<"latest">>}

artifacts ==
  << [repo |-> nested("policies", "nist-800-53-r5"), tags |-> Both("v1.0.0"),
      layers |-> <<"nist-800-53-r5", "nist-800-53-r5-policy">>],
     [repo |-> nested("policies", "cis-benchmark"), tags |-> Both("v2.0.0"),
      layers |-> <<"cis-benchmark">>],
     [repo |-> nested("catalogs", "osps-b"), tags |-> Both("v1.0.0"),
      layers |-> <<"osps-b">>],
     [repo |-> nested("guidance", "nist"), tags |-> Both("v1.0.0"),
      layers |-> <<"nist-guidance">>],
     [repo |-> nested("policies", "cis-fedora-l1-server"), tags |-> Both("v1.0.0"),
      layers |-> <<"cis-fedora-l1-server-catalog.yaml", "cis-fedora-l1-server-policy.yaml">>] >>
=============================================================================
