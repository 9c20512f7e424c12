------------------------------ MODULE JwtAuth ------------------------------
(***************************************************************************)
(* internal/middleware/jwtauth.go without its steps: what the settings and *)
(* the environment make of the verifier (with server.go, which reads them  *)
(* first), and what the verifier and the middleware want of a request.     *)
(* An empty string is a setting that was not given.                        *)
(***************************************************************************)
EXTENDS Sequences

CONSTANT NoSubject    \* a token without a sub claim that is a string

\* Whether there is a storage root, the jwtAuth settings of the configuration,
\* and the two variables of the environment that the code reads.
Setting(storage, enabled, issuer, ip, audience, subjects, envIP, envAudience) ==
  [storage |-> storage, enabled |-> enabled, issuerUrl |-> issuer, kubernetesServiceIp |-> ip,
   expectedAudience |-> audience, allowedSubjects |-> subjects,
   KUBERNETES_SERVICE_IP |-> envIP, EXPECTED_AUDIENCE |-> envAudience]

\* The environment overrides the configuration.
ExpectedAudience(s) ==
  IF s.EXPECTED_AUDIENCE # "" THEN s.EXPECTED_AUDIENCE ELSE s.expectedAudience

\* Here the configuration overrides the environment.
KubernetesServiceIP(s) ==
  IF s.kubernetesServiceIp # "" THEN s.kubernetesServiceIp ELSE s.KUBERNETES_SERVICE_IP

IssuerURL(s) == IF s.issuerUrl # "" THEN s.issuerUrl ELSE "https://kubernetes.default.svc"

\* Mutant: without an audience the verifier does not look at it.
NewJWTAuth_AnyAudience(s) ==
  [clientID          |-> ExpectedAudience(s),
   skipClientIDCheck |-> ExpectedAudience(s) = "",
   issuer            |-> IssuerURL(s),
   skipIssuerCheck   |-> KubernetesServiceIP(s) # "",
   allowedSubjects   |-> s.allowedSubjects]

\* The oidc.Config of the verifier, and the subjects kept beside it.
NewJWTAuth(s) ==
  [clientID          |-> ExpectedAudience(s),
   skipClientIDCheck |-> FALSE,
   issuer            |-> IssuerURL(s),
   skipIssuerCheck   |-> KubernetesServiceIP(s) # "",
   allowedSubjects   |-> s.allowedSubjects]

-----------------------------------------------------------------------------
\* A header is empty, or cut by SplitN at its first space.  strings.ToLower
\* takes these spellings, among others, to "bearer".
HasBearer(header) == Len(header) = 2 /\ header[1] \in {"bearer", "Bearer", "BEARER"}

\* IDTokenVerifier.Verify up to the signature: the token parses, and its
\* claims are right.  Without a client id no token passes.
VerifyClaims(auth, token, expired) ==
  /\ token.wellFormed
  /\ auth.skipIssuerCheck \/ token.iss = auth.issuer
  /\ auth.skipClientIDCheck \/ (auth.clientID # "" /\ auth.clientID \in token.aud)
  /\ token \notin expired

\* validateSubject, for a list of subjects that is not empty.
SubjectAllowed(auth, token) ==
  auth.allowedSubjects = {} \/ token.sub \in auth.allowedSubjects \ {NoSubject}
=============================================================================
