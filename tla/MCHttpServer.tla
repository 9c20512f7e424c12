---------------------------- MODULE MCHttpServer ----------------------------
(***************************************************************************)
(* HttpServer for TLC: settings that differ in what they check, and        *)
(* tokens that each fail one of the checks under some of them.             *)
(***************************************************************************)
EXTENDS HttpServer

K8s == "https://kubernetes.default.svc"
Ours == "compass"

MCSettings ==
  { Setting(TRUE, FALSE, "", "", "", {}, "", ""),               \* no authentication
    Setting(FALSE, FALSE, "", "", "", {}, "", ""),              \* nor storage root
    Setting(TRUE, TRUE, "", "", "", {}, "", ""),                \* no audience at all
    Setting(TRUE, TRUE, "", "", "theirs", {"collector"}, "", Ours),   \* the environment's audience
    Setting(TRUE, TRUE, "", "", Ours, {}, "10.0.0.1", ""),            \* DNS bypass
    Setting(TRUE, TRUE, "https://ci", "", Ours, {"collector"}, "", "") }

Tok(key, iss, aud, sub) ==
  [wellFormed |-> TRUE, key |-> key, iss |-> iss, aud |-> aud, sub |-> sub]

Good == Tok("k1", K8s, {Ours}, "collector")

MCTokens ==
  { Tok("k2", K8s, {Ours, "theirs"}, "collector"),
    Tok("k1", "https://ci", {Ours}, "collector"),
    Tok("k1", K8s, {Ours}, NoSubject),
    Tok("k1", K8s, {"theirs"}, "collector"),
    [Good EXCEPT !.wellFormed = FALSE] }

Bearer(t) == <<"Bearer", t>>

Kind(target, header, valid) == [target |-> target, header |-> header, valid |-> valid]

MCKinds ==
  {Kind("oci", Bearer(t), TRUE) : t \in MCTokens} \cup
  { Kind("enrich", Bearer(Good), TRUE),
    Kind("enrich", <<"Basic", Good>>, FALSE),
    Kind("other", <<>>, TRUE),
    Kind("slash", <<>>, TRUE) }
=============================================================================
