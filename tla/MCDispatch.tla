----------------------------- MODULE MCDispatch -----------------------------
(***************************************************************************)
(* DispatchCheck for TLC: every reserved segment, and one that is not.     *)
(***************************************************************************)
EXTENDS DispatchCheck

MCWords == {"tags", "list", "manifests", "blobs", "_catalog", "nist"}
MCRefs == {<<"v1">>, <<"list">>, <<"blobs">>, <<"sha256", ":", "ab">>}
=============================================================================
