-------------------------- MODULE HttpServer_proofs --------------------------
(***************************************************************************)
(* Theorems about HttpServer, for any settings, requests, tokens and keys: *)
(* it implements Gate, and lets in none but the documented tokens.         *)
(***************************************************************************)
EXTENDS HttpServer, SequenceTheorems, TLAPS

-----------------------------------------------------------------------------
(***************************************************************************)
(* Chains of handlers.                                                     *)
(***************************************************************************)
Behind == {"validator", "dispatch", "PostV1Enrich"}

Handlers == Wrappers \cup {"jwt"} \cup Behind

Has(s, h) == \E k \in 1..Len(s) : s[k] = h

\* No handler comes without the JWT middleware before it.
Barred(s) == \A k \in 1..Len(s) : s[k] \in Behind => \E j \in 1..k : s[j] = "jwt"

Once(s) == \A j, k \in 1..Len(s) : s[j] = "jwt" /\ s[k] = "jwt" => j = k

LEMMA EngineShape ==
  /\ EngineHandlers \in Seq(Handlers)
  /\ Len(EngineHandlers) = IF settings.enabled THEN 4 ELSE 3
  /\ \A k \in 1..Len(EngineHandlers) :
       EngineHandlers[k] = IF k = 4 THEN "jwt" ELSE <<"recovery", "requestid", "accesslog">>[k]
<1> DEFINE first == <<"recovery", "requestid", "accesslog">>
           last == IF settings.enabled THEN <<"jwt">> ELSE <<>>
<1>1. first \in Seq(Handlers) /\ Len(first) = 3
  <2>1. first \in Seq(Handlers)
    BY DEF Handlers, Wrappers, Behind
  <2>2. Len(first) = 3
    OBVIOUS
  <2> QED
    BY <2>1, <2>2
<1>2. last \in Seq(Handlers) /\ Len(last) = IF settings.enabled THEN 1 ELSE 0
  <2>1. <<"jwt">> \in Seq(Handlers) /\ <<>> \in Seq(Handlers)
    BY DEF Handlers, Wrappers, Behind
  <2>2. Len(<<"jwt">>) = 1 /\ Len(<<>>) = 0
    OBVIOUS
  <2> QED
    BY <2>1, <2>2
<1>3. settings.enabled => last[1] = "jwt"
  OBVIOUS
<1>4. EngineHandlers = first \o last
  BY DEF EngineHandlers
<1> HIDE DEF first, last
<1>5. /\ first \o last \in Seq(Handlers)
      /\ Len(first \o last) = Len(first) + Len(last)
      /\ \A i \in 1 .. Len(first) + Len(last) :
           (first \o last)[i] = IF i <= Len(first) THEN first[i] ELSE last[i - Len(first)]
  BY <1>1, <1>2, ConcatProperties
<1>6. Len(EngineHandlers) = IF settings.enabled THEN 4 ELSE 3
  BY <1>1, <1>2, <1>4, <1>5
<1>7. ASSUME NEW k \in 1..Len(EngineHandlers)
      PROVE  EngineHandlers[k] = IF k = 4 THEN "jwt" ELSE first[k]
  BY <1>1, <1>2, <1>3, <1>4, <1>5, <1>6
<1> QED
  BY <1>4, <1>5, <1>6, <1>7 DEF first

\* What handlers a route adds to the engine's.
LEMMA ChainSplit ==
  ASSUME NEW k
  PROVE  \E tail \in {<<>>, <<"dispatch">>, <<"validator", "PostV1Enrich">>} :
           Chain(k) = EngineHandlers \o tail
<1>1. EngineHandlers = EngineHandlers \o <<>>
  BY EngineShape, ConcatEmptySeq
<1> QED
  BY <1>1 DEF Chain, OciChain, EnrichChain

LEMMA ChainShape ==
  ASSUME NEW k
  PROVE  /\ Chain(k) \in Seq(Handlers)
         /\ settings.enabled => Barred(Chain(k))
         /\ Has(Chain(k), "jwt") => settings.enabled
         /\ Once(Chain(k))
<1>1. PICK tail \in {<<>>, <<"dispatch">>, <<"validator", "PostV1Enrich">>} :
        Chain(k) = EngineHandlers \o tail
  BY ChainSplit
<1>2. tail \in Seq(Handlers) /\ Len(tail) \in Nat /\ \A i \in 1..Len(tail) : tail[i] # "jwt"
  <2>1. CASE tail = <<>>
    BY <2>1
  <2>2. CASE tail = <<"dispatch">>
    <3>1. <<"dispatch">> \in Seq(Handlers)
      BY DEF Handlers, Wrappers, Behind
    <3>2. Len(<<"dispatch">>) = 1
      OBVIOUS
    <3> QED
      BY <2>2, <3>1, <3>2
  <2>3. CASE tail = <<"validator", "PostV1Enrich">>
    <3>1. <<"validator", "PostV1Enrich">> \in Seq(Handlers)
      BY DEF Handlers, Wrappers, Behind
    <3>2. Len(<<"validator", "PostV1Enrich">>) = 2
      OBVIOUS
    <3> QED
      BY <2>3, <3>1, <3>2
  <2> QED
    BY <1>1, <2>1, <2>2, <2>3
<1> DEFINE e == EngineHandlers
           c == Chain(k)
<1>3. e \in Seq(Handlers) /\ Len(e) = IF settings.enabled THEN 4 ELSE 3
  BY EngineShape
<1>4. /\ \A i \in 1..3 : e[i] \notin Behind \cup {"jwt"}
      /\ settings.enabled => e[4] = "jwt"
  <2>1. \A i \in 1..3 : e[i] = <<"recovery", "requestid", "accesslog">>[i]
    BY EngineShape
  <2>2. settings.enabled => e[4] = "jwt"
    BY EngineShape
  <2> QED
    BY <2>1, <2>2 DEF Behind
<1> HIDE DEF e
<1>5. /\ c \in Seq(Handlers)
      /\ Len(c) = Len(e) + Len(tail)
      /\ \A i \in 1..Len(c) : c[i] = IF i <= Len(e) THEN e[i] ELSE tail[i - Len(e)]
  <2>1. /\ e \o tail \in Seq(Handlers)
        /\ Len(e \o tail) = Len(e) + Len(tail)
        /\ \A i \in 1 .. Len(e) + Len(tail) :
             (e \o tail)[i] = IF i <= Len(e) THEN e[i] ELSE tail[i - Len(e)]
    BY <1>2, <1>3, ConcatProperties
  <2>2. c = e \o tail
    BY <1>1 DEF e
  <2> HIDE DEF c
  <2> QED
    BY <2>1, <2>2
<1> HIDE DEF c
<1>6. ASSUME NEW i \in 1..Len(c), c[i] = "jwt" PROVE i = 4 /\ settings.enabled
  BY <1>2, <1>3, <1>4, <1>5, <1>6
<1>7. ASSUME NEW i \in 1..Len(c), c[i] \in Behind, settings.enabled
      PROVE  i > 4 /\ c[4] = "jwt"
  <2>1. ~(i \in 1..3)
    BY <1>3, <1>4, <1>5, <1>7
  <2>2. c[4] = "jwt"
    BY <1>3, <1>4, <1>5, <1>2, <1>7
  <2> QED
    BY <2>1, <2>2, <1>7, <1>3, <1>5, <1>2 DEF Behind
<1> QED
  <2>1. Barred(c) \/ ~settings.enabled
    BY <1>7 DEF Barred
  <2> QED
    BY <1>5, <1>6, <2>1 DEF Has, Once, c

\* What is left when the next handler has run.
LEMMA TailShape ==
  ASSUME NEW s \in Seq(Handlers), s # <<>>
  PROVE  /\ Tail(s) \in Seq(Handlers)
         /\ \A h : Has(Tail(s), h) => Has(s, h)
         /\ Once(s) => Once(Tail(s))
         /\ Once(s) /\ Head(s) = "jwt" => ~Has(Tail(s), "jwt")
         /\ Has(s, Head(s))
         /\ Barred(s) => Head(s) \notin Behind
<1>1. /\ Tail(s) \in Seq(Handlers)
      /\ Len(Tail(s)) = Len(s) - 1
      /\ \A i \in 1 .. Len(Tail(s)) : Tail(s)[i] = s[i + 1]
  BY HeadTailProperties
<1>2. Len(s) \in Nat \ {0} /\ Head(s) = s[1]
  BY EmptySeq
<1>3. ASSUME NEW i \in 1 .. Len(Tail(s))
      PROVE  i + 1 \in 1..Len(s) /\ i + 1 # 1 /\ Tail(s)[i] = s[i + 1]
  BY <1>1, <1>2
<1>4. Once(s) => Once(Tail(s))
  BY <1>1, <1>3 DEF Once
<1>5. Once(s) /\ Head(s) = "jwt" => ~Has(Tail(s), "jwt")
  BY <1>2, <1>3 DEF Once, Has
<1>6. Barred(s) => Head(s) \notin Behind
  BY <1>2 DEF Barred, Behind
<1> QED
  BY <1>1, <1>2, <1>3, <1>4, <1>5, <1>6 DEF Has

\* What is left when the middlewares that come next wait in c.Next.
LEMMA RestShape ==
  ASSUME NEW s \in Seq(Handlers), NEW n \in 1..Len(s), Leading(n, s)
  PROVE  LET rest == SubSeq(s, n + 1, Len(s))
         IN /\ rest \in Seq(Handlers)
            /\ Has(rest, "jwt") => Has(s, "jwt")
            /\ Once(s) => Once(rest)
            /\ Barred(s) => Barred(rest)
<1> DEFINE rest == SubSeq(s, n + 1, Len(s))
<1>1. Len(s) \in Nat /\ \A i \in 1..Len(s) : s[i] \in Handlers
  BY LenProperties, ElementOfSeq
<1>2. /\ rest \in Seq(Handlers)
      /\ Len(rest) = Len(s) - n
      /\ \A i \in 1..Len(rest) : rest[i] = s[n + i]
  <2>1. \A i \in n + 1 .. Len(s) : s[i] \in Handlers
    BY <1>1
  <2>2. /\ rest \in Seq(Handlers)
        /\ Len(rest) = IF n + 1 <= Len(s) THEN Len(s) - (n + 1) + 1 ELSE 0
        /\ \A i \in 1 .. Len(s) - (n + 1) + 1 : rest[i] = s[(n + 1) + i - 1]
    BY <1>1, <2>1, SubSeqProperties
  <2> HIDE DEF rest
  <2>3. Len(rest) = Len(s) - n
    BY <1>1, <2>2
  <2>4. ASSUME NEW i \in 1..Len(rest) PROVE rest[i] = s[n + i]
    <3>1. i \in 1 .. Len(s) - (n + 1) + 1 /\ (n + 1) + i - 1 = n + i
      BY <1>1, <2>3
    <3> QED
      BY <2>2, <3>1
  <2> QED
    BY <2>2, <2>3, <2>4
<1> HIDE DEF rest
<1>3. \A i \in 1..Len(rest) : n + i \in 1..Len(s)
  BY <1>1, <1>2
<1>4. \A i \in 1..n : s[i] # "jwt"
  BY DEF Leading, Wrappers
<1>5. Has(rest, "jwt") => Has(s, "jwt")
  BY <1>2, <1>3 DEF Has
<1>6. Once(s) => Once(rest)
  BY <1>1, <1>2, <1>3 DEF Once
<1>7. ASSUME Barred(s), NEW i \in 1..Len(rest), rest[i] \in Behind
      PROVE  \E j \in 1..i : rest[j] = "jwt"
  <2>1. PICK j \in 1 .. n + i : s[j] = "jwt"
    BY <1>2, <1>3, <1>7 DEF Barred
  <2>2. j - n \in 1..i /\ n + (j - n) = j
    BY <1>1, <1>4, <2>1
  <2>3. rest[j - n] = "jwt"
    BY <1>1, <1>2, <2>1, <2>2
  <2> QED
    BY <2>2, <2>3
<1> QED
  BY <1>2, <1>5, <1>6, <1>7 DEF rest, Barred

-----------------------------------------------------------------------------
(***************************************************************************)
(* The inductive invariant: what a request's place in its chain says about *)
(* its token.                                                              *)
(***************************************************************************)
Checks == {"header", "verify", "keys", "subject"}

Typed ==
  /\ request \in [Requests -> Kinds \cup {None}]
  /\ todo \in [Requests -> Seq(Handlers)]
  /\ check \in [Requests -> Checks]
  /\ claims \in [Requests -> Tokens \cup {None}]
  /\ ran \in [Requests -> BOOLEAN]
  /\ status \in [Requests -> Nat]
  /\ bodies \in [Requests -> Nat]

\* The claims of a token are right, but that it may have expired since.
Right(t) == VerifyClaims(Auth, t, {})

Fresh(r) == todo[r] = <<>> /\ check[r] = "header" /\ claims[r] = None /\ status[r] = 200

Kept(r) ==
  /\ request[r] = None => Fresh(r)
  /\ check[r] # "header" => HasBearer(request[r].header)
  /\ check[r] \in {"keys", "subject"} => Right(Token(r))
  /\ claims[r] # None => /\ claims[r] = Token(r) /\ Right(Token(r))
                         /\ SubjectAllowed(Auth, Token(r))
  /\ todo[r] # <<>> => status[r] # 401
  /\ Has(todo[r], "jwt") => settings.enabled /\ claims[r] = None
  /\ settings.enabled /\ claims[r] = None => Barred(todo[r])
  /\ Once(todo[r])

Invariant == Typed /\ \A r \in Requests : Kept(r)

\* A step leaves a request as it is.
Same(q) ==
  /\ request'[q] = request[q] /\ todo'[q] = todo[q] /\ check'[q] = check[q]
  /\ claims'[q] = claims[q] /\ ran'[q] = ran[q] /\ status'[q] = status[q]

LEMMA RequestToken ==
  ASSUME Typed, NEW r \in Requests, request[r] # None, HasBearer(request[r].header)
  PROVE  Token(r) \in Tokens /\ Token(r) # None
BY NoneAssumption DEF Typed, Tokens, Token, HasBearer

LEMMA EmptyShape == Barred(<<>>) /\ Once(<<>>) /\ \A h : ~Has(<<>>, h)
BY DEF Barred, Once, Has

LEMMA SameKept ==
  ASSUME NEW q, Same(q), settings' = settings, Kept(q)
  PROVE  Kept(q)'
BY DEF Same, Kept, Fresh, Token, Right, Auth

LEMMA WriteEffect ==
  ASSUME Typed, NEW r \in Requests, NEW code \in Nat, Write(r, code)
  PROVE  /\ status' \in [Requests -> Nat] /\ bodies' \in [Requests -> Nat]
         /\ \A q \in Requests \ {r} : status'[q] = status[q]
         /\ status'[r] \in {code, status[r]}
BY DEF Typed, Write

LEMMA RefuseEffect ==
  ASSUME Typed, NEW r \in Requests, Refuse(r)
  PROVE  /\ status' \in [Requests -> Nat] /\ bodies' \in [Requests -> Nat]
         /\ todo' \in [Requests -> Seq(Handlers)]
         /\ \A q \in Requests \ {r} : status'[q] = status[q] /\ todo'[q] = todo[q]
         /\ status'[r] \in {401, status[r]} /\ todo'[r] = <<>>
<1>1. Write(r, 401) /\ Abort(r)
  BY DEF Refuse
<1>2. <<>> \in Seq(Handlers)
  OBVIOUS
<1> QED
  BY <1>1, <1>2, WriteEffect DEF Abort, Typed

LEMMA PassEffect ==
  ASSUME Typed, NEW r \in Requests, todo[r] # <<>>, Pass(r)
  PROVE  /\ todo' \in [Requests -> Seq(Handlers)]
         /\ todo'[r] = Tail(todo[r])
         /\ \A q \in Requests \ {r} : todo'[q] = todo[q]
<1>1. Tail(todo[r]) \in Seq(Handlers)
  BY TailShape DEF Typed
<1> QED
  BY <1>1 DEF Pass, Typed

LEMMA AbortEffect ==
  ASSUME Typed, NEW r \in Requests, Abort(r)
  PROVE  /\ todo' \in [Requests -> Seq(Handlers)]
         /\ todo'[r] = <<>>
         /\ \A q \in Requests \ {r} : todo'[q] = todo[q]
<1>1. <<>> \in Seq(Handlers)
  OBVIOUS
<1> QED
  BY <1>1 DEF Abort, Typed

-----------------------------------------------------------------------------
(***************************************************************************)
(* The steps, each with what it does to its own request.                   *)
(***************************************************************************)
LEMMA ArriveStep ==
  ASSUME Invariant, NEW r \in Requests, Arrive(r)
  PROVE  /\ Typed' /\ settings' = settings /\ Kept(r)'
         /\ \A q \in Requests \ {r} : Same(q)
         /\ request[r] = None /\ Fresh(r)
         /\ check' = check /\ claims' = claims /\ ran' = ran /\ status'[r] # 401
<1>1. request[r] = None /\ Fresh(r)
  BY DEF Arrive, Invariant, Kept
<1>2. /\ settings' = settings /\ check' = check /\ claims' = claims /\ ran' = ran
  BY DEF Arrive
<1>3. PICK k \in Kinds :
        /\ request' = [request EXCEPT ![r] = k]
        /\ \/ k.target = "slash" /\ Write(r, 307) /\ UNCHANGED todo
           \/ /\ k.target # "slash"
              /\ todo' = [todo EXCEPT ![r] = Chain(k)]
              /\ status' = [status EXCEPT ![r] = IF Routed(k) THEN 200 ELSE 404]
              /\ UNCHANGED bodies
  BY DEF Arrive
<1>4. k # None
  BY NoneAssumption
<1>5. CASE k.target = "slash" /\ Write(r, 307) /\ UNCHANGED todo
  <2>1. /\ status' \in [Requests -> Nat] /\ bodies' \in [Requests -> Nat]
        /\ \A q \in Requests \ {r} : status'[q] = status[q]
        /\ status'[r] \in {307, status[r]}
    BY <1>5, WriteEffect DEF Invariant
  <2>2. Typed'
    BY <1>2, <1>3, <1>5, <2>1 DEF Invariant, Typed
  <2>3. \A q \in Requests \ {r} : Same(q)
    BY <1>2, <1>3, <1>5, <2>1 DEF Invariant, Typed, Same
  <2>4. request'[r] = k /\ todo'[r] = <<>> /\ status'[r] # 401
    BY <1>1, <1>3, <1>5, <2>1 DEF Invariant, Typed, Fresh
  <2>5. Kept(r)'
    BY <1>1, <1>2, <1>4, <2>4, EmptyShape DEF Kept, Fresh
  <2> QED
    BY <1>1, <1>2, <2>2, <2>3, <2>4, <2>5
<1>6. CASE /\ k.target # "slash"
           /\ todo' = [todo EXCEPT ![r] = Chain(k)]
           /\ status' = [status EXCEPT ![r] = IF Routed(k) THEN 200 ELSE 404]
           /\ UNCHANGED bodies
  <2>1. /\ Chain(k) \in Seq(Handlers)
        /\ settings.enabled => Barred(Chain(k))
        /\ Has(Chain(k), "jwt") => settings.enabled
        /\ Once(Chain(k))
    BY ChainShape
  <2>2. Typed'
    BY <1>2, <1>3, <1>6, <2>1 DEF Invariant, Typed
  <2>3. \A q \in Requests \ {r} : Same(q)
    BY <1>2, <1>3, <1>6 DEF Invariant, Typed, Same
  <2>4. request'[r] = k /\ todo'[r] = Chain(k) /\ status'[r] # 401
    BY <1>3, <1>6 DEF Invariant, Typed
  <2>5. Kept(r)'
    BY <1>1, <1>2, <1>4, <2>1, <2>4 DEF Kept, Fresh
  <2> QED
    BY <1>1, <1>2, <2>2, <2>3, <2>4, <2>5
<1> QED
  BY <1>3, <1>5, <1>6

\* Steps that write nothing and only go down the chain.
LEMMA QuietStep ==
  ASSUME Invariant, NEW r \in Requests, Enter(r) \/ Leave(r) \/ Finish(r)
  PROVE  /\ Typed' /\ settings' = settings /\ Kept(r)'
         /\ \A q \in Requests : Same(q) \/ q = r
         /\ request' = request /\ check' = check /\ claims' = claims /\ ran' = ran
         /\ status' = status
<1>1. CASE Enter(r)
  <2>1. PICK n \in 1..Len(todo[r]) :
          /\ Leading(n, todo[r])
          /\ todo' = [todo EXCEPT ![r] = SubSeq(@, n + 1, Len(@))]
    BY <1>1 DEF Enter
  <2>2. /\ settings' = settings /\ request' = request /\ check' = check /\ claims' = claims
        /\ ran' = ran /\ status' = status /\ bodies' = bodies
    BY <1>1 DEF Enter
  <2> DEFINE rest == SubSeq(todo[r], n + 1, Len(todo[r]))
  <2>3. todo[r] \in Seq(Handlers)
    BY DEF Invariant, Typed
  <2>4. /\ rest \in Seq(Handlers)
        /\ Has(rest, "jwt") => Has(todo[r], "jwt")
        /\ Once(todo[r]) => Once(rest)
        /\ Barred(todo[r]) => Barred(rest)
    BY <2>1, <2>3, RestShape
  <2>5. todo[r] # <<>>
    BY <2>1
  <2> HIDE DEF rest
  <2>6. todo'[r] = rest /\ todo' \in [Requests -> Seq(Handlers)]
    BY <2>1, <2>4 DEF Invariant, Typed, rest
  <2>7. Typed'
    BY <2>2, <2>6 DEF Invariant, Typed
  <2>8. \A q \in Requests : Same(q) \/ q = r
    BY <2>1, <2>2 DEF Invariant, Typed, Same
  <2>9. Kept(r)'
    BY <2>2, <2>4, <2>5, <2>6 DEF Invariant, Kept, Fresh, Token, Right, Auth
  <2> QED
    BY <2>2, <2>7, <2>8, <2>9
<1>2. CASE Leave(r) \/ Finish(r)
  <2>1. /\ settings' = settings /\ request' = request /\ check' = check /\ claims' = claims
        /\ ran' = ran /\ todo' = todo
    BY <1>2 DEF Leave, Finish
  <2>2. status' = status /\ bodies' \in [Requests -> Nat]
    <3>1. CASE Leave(r)
      BY <3>1 DEF Leave, Invariant, Typed
    <3>2. CASE Finish(r)
      <4>1. Write(r, status[r]) /\ bodies[r] = 0
        BY <3>2 DEF Finish
      <4> QED
        BY <4>1 DEF Write, Invariant, Typed
    <3> QED
      BY <1>2, <3>1, <3>2
  <2>3. Typed' /\ \A q \in Requests : Same(q)
    BY <2>1, <2>2 DEF Invariant, Typed, Same
  <2>4. Kept(r)'
    BY <2>1, <2>3, SameKept DEF Invariant
  <2> QED
    BY <2>1, <2>2, <2>3, <2>4
<1> QED
  BY <1>1, <1>2

\* What a step can mean to Gate: nothing, an admission, or a refusal.
Meaning(r) ==
  \/ (Admitted(r)' <=> Admitted(r)) /\ status'[r] = status[r]
  \/ Entitled(r) /\ status[r] # 401 /\ Admitted(r)' /\ status'[r] = status[r]
  \/ ~Admitted(r) /\ ~Admitted(r)' /\ status'[r] \in {401, status[r]}

LEMMA AtShape ==
  ASSUME Invariant, NEW r \in Requests, NEW h, At(r, h)
  PROVE  /\ todo[r] \in Seq(Handlers) /\ todo[r] # <<>> /\ Head(todo[r]) = h
         /\ Has(todo[r], h) /\ Kept(r)
         /\ request[r] # None /\ status[r] # 401
<1>1. todo[r] \in Seq(Handlers) /\ todo[r] # <<>> /\ Head(todo[r]) = h /\ Kept(r)
  BY DEF Invariant, Typed, At
<1>2. Has(todo[r], h)
  BY <1>1, TailShape
<1> QED
  BY <1>1, <1>2 DEF Kept, Fresh

LEMMA AtJwt ==
  ASSUME Invariant, NEW r \in Requests, At(r, "jwt")
  PROVE  settings.enabled /\ claims[r] = None
BY AtShape DEF Kept

LEMMA RefusedStep ==
  ASSUME Invariant, NEW r \in Requests, At(r, "jwt"), Refuse(r), ~Admitted(r),
         settings' = settings, request' = request, check' = check, claims' = claims, ran' = ran
  PROVE  Typed' /\ Kept(r)' /\ (\A q \in Requests \ {r} : Same(q)) /\ Meaning(r)
<1>1. /\ status' \in [Requests -> Nat] /\ bodies' \in [Requests -> Nat]
      /\ todo' \in [Requests -> Seq(Handlers)]
      /\ \A q \in Requests \ {r} : status'[q] = status[q] /\ todo'[q] = todo[q]
      /\ status'[r] \in {401, status[r]} /\ todo'[r] = <<>>
  BY RefuseEffect DEF Invariant
<1>2. Typed'
  BY <1>1 DEF Invariant, Typed
<1>3. \A q \in Requests \ {r} : Same(q)
  BY <1>1 DEF Same
<1>4. Kept(r)'
  <2>1. Kept(r) /\ request[r] # None
    BY AtShape
  <2> QED
    BY <1>1, <2>1, EmptyShape DEF Kept, Token, Right, Auth
<1>5. ~Admitted(r)'
  BY DEF Admitted, Token, Auth
<1> QED
  BY <1>1, <1>2, <1>3, <1>4, <1>5 DEF Meaning

\* The middleware goes on to another check of its own.
LEMMA GoneOnStep ==
  ASSUME Invariant, NEW r \in Requests, At(r, "jwt"), NEW to \in Checks, GoOn(r, to),
         HasBearer(request[r].header), to \in {"keys", "subject"} => Right(Token(r)),
         settings' = settings, request' = request, claims' = claims, ran' = ran
  PROVE  /\ Typed' /\ Kept(r)' /\ \A q \in Requests \ {r} : Same(q)
         /\ check'[r] = to /\ status' = status
<1>1. check'[r] = to /\ check' \in [Requests -> Checks] /\ todo' = todo /\ status' = status
      /\ bodies' = bodies
  BY DEF GoOn, Invariant, Typed
<1>2. Typed'
  BY <1>1 DEF Invariant, Typed
<1>3. \A q \in Requests \ {r} : Same(q)
  BY <1>1 DEF Invariant, Typed, Same, GoOn
<1>4. Kept(r)'
  <2>1. Kept(r) /\ request[r] # None
    BY AtShape
  <2> QED
    BY <1>1, <2>1 DEF Kept, Token, Right, Auth
<1> QED
  BY <1>1, <1>2, <1>3, <1>4

LEMMA ReadHeaderStep ==
  ASSUME Invariant, NEW r \in Requests, ReadHeader(r)
  PROVE  /\ Typed' /\ settings' = settings /\ Kept(r)' /\ \A q \in Requests \ {r} : Same(q)
         /\ ran' = ran /\ Meaning(r)
<1>1. /\ At(r, "jwt") /\ check[r] = "header"
      /\ settings' = settings /\ request' = request /\ claims' = claims /\ ran' = ran
  BY DEF ReadHeader
<1>2. ~Admitted(r)
  BY <1>1, AtJwt DEF Admitted
<1>3. CASE HasBearer(request[r].header) /\ GoOn(r, "verify")
  <2>1. /\ Typed' /\ Kept(r)' /\ \A q \in Requests \ {r} : Same(q)
        /\ check'[r] = "verify" /\ status' = status
    BY <1>1, <1>3, GoneOnStep DEF Checks
  <2>2. ~Admitted(r)'
    BY <1>1, <2>1, AtJwt DEF Admitted
  <2> QED
    BY <1>1, <1>2, <2>1, <2>2 DEF Meaning
<1>4. CASE Refuse(r) /\ check' = check
  BY <1>1, <1>2, <1>4, RefusedStep
<1> QED
  BY <1>3, <1>4 DEF ReadHeader

LEMMA VerifyStep ==
  ASSUME Invariant, NEW r \in Requests, Verify(r)
  PROVE  /\ Typed' /\ settings' = settings /\ Kept(r)' /\ \A q \in Requests \ {r} : Same(q)
         /\ ran' = ran /\ Meaning(r)
<1>1. /\ At(r, "jwt") /\ check[r] = "verify"
      /\ settings' = settings /\ request' = request /\ claims' = claims /\ ran' = ran
  BY DEF Verify
<1>2. ~Admitted(r)
  BY <1>1, AtJwt DEF Admitted
<1>3. HasBearer(request[r].header) /\ request[r] # None /\ status[r] # 401
  BY <1>1, AtShape DEF Kept
<1>4. CASE Refuse(r) /\ check' = check
  BY <1>1, <1>2, <1>4, RefusedStep
<1>5. ASSUME VerifyClaims(Auth, Token(r), expired), NEW to \in Checks, GoOn(r, to),
             to = IF Token(r).key \in cached THEN "subject" ELSE "keys"
      PROVE  /\ Typed' /\ Kept(r)' /\ (\A q \in Requests \ {r} : Same(q)) /\ Meaning(r)
  <2>1. Right(Token(r))
    BY <1>5 DEF Right, VerifyClaims
  <2>2. /\ Typed' /\ Kept(r)' /\ \A q \in Requests \ {r} : Same(q)
        /\ check'[r] = to /\ status' = status
    BY <1>1, <1>3, <1>5, <2>1, GoneOnStep
  <2>3. CASE Admitted(r)'
    <3>1. to = "subject" /\ SubjectAllowed(Auth, Token(r))
      BY <1>1, <2>2, <2>3, AtJwt DEF Admitted, Token, Auth
    <3>2. Entitled(r)
      BY <1>3, <1>5, <3>1 DEF Entitled
    <3> QED
      BY <1>3, <2>2, <2>3, <3>2 DEF Meaning
  <2>4. CASE ~Admitted(r)'
    BY <1>2, <2>2, <2>4 DEF Meaning
  <2> QED
    BY <2>2, <2>3, <2>4
<1> QED
  BY <1>1, <1>4, <1>5 DEF Verify, Checks

LEMMA FetchKeysStep ==
  ASSUME Invariant, NEW r \in Requests, FetchKeys(r)
  PROVE  /\ Typed' /\ settings' = settings /\ Kept(r)' /\ \A q \in Requests \ {r} : Same(q)
         /\ ran' = ran /\ Meaning(r)
<1>1. /\ At(r, "jwt") /\ check[r] = "keys"
      /\ settings' = settings /\ request' = request /\ claims' = claims /\ ran' = ran
  BY DEF FetchKeys
<1>2. ~Admitted(r)
  BY <1>1, AtJwt DEF Admitted
<1>3. /\ HasBearer(request[r].header) /\ request[r] # None /\ status[r] # 401
      /\ Right(Token(r))
  BY <1>1, AtShape DEF Kept
<1>4. CASE Refuse(r) /\ check' = check
  BY <1>1, <1>2, <1>4, RefusedStep
<1>5. CASE Token(r).key \in published /\ GoOn(r, "subject")
  <2>1. /\ Typed' /\ Kept(r)' /\ \A q \in Requests \ {r} : Same(q)
        /\ check'[r] = "subject" /\ status' = status
    BY <1>1, <1>3, <1>5, GoneOnStep DEF Checks
  <2>2. CASE Admitted(r)'
    <3>1. SubjectAllowed(Auth, Token(r))
      BY <1>1, <2>1, <2>2, AtJwt DEF Admitted, Token, Auth
    <3>2. Entitled(r)
      BY <1>1, <1>3, <1>5, <3>1 DEF Entitled
    <3> QED
      BY <1>1, <1>3, <2>1, <2>2, <3>2 DEF Meaning
  <2>3. CASE ~Admitted(r)'
    BY <1>1, <1>2, <2>1, <2>3 DEF Meaning
  <2> QED
    BY <1>1, <2>1, <2>2, <2>3
<1> QED
  BY <1>4, <1>5 DEF FetchKeys

LEMMA CheckSubjectStep ==
  ASSUME Invariant, NEW r \in Requests, CheckSubject(r)
  PROVE  /\ Typed' /\ settings' = settings /\ Kept(r)' /\ \A q \in Requests \ {r} : Same(q)
         /\ ran' = ran /\ Meaning(r)
<1>1. /\ At(r, "jwt") /\ check[r] = "subject"
      /\ settings' = settings /\ request' = request /\ check' = check /\ ran' = ran
  BY DEF CheckSubject
<1>2. settings.enabled /\ claims[r] = None
  BY <1>1, AtJwt
<1>3. /\ HasBearer(request[r].header) /\ request[r] # None /\ status[r] # 401
      /\ Right(Token(r)) /\ Kept(r)
      /\ todo[r] \in Seq(Handlers) /\ todo[r] # <<>> /\ Head(todo[r]) = "jwt"
  BY <1>1, AtShape DEF Kept
<1>4. CASE ~SubjectAllowed(Auth, Token(r)) /\ Refuse(r) /\ claims' = claims
  <2>1. ~Admitted(r)
    BY <1>2, <1>4 DEF Admitted
  <2> QED
    BY <1>1, <1>4, <2>1, RefusedStep
<1>5. CASE /\ SubjectAllowed(Auth, Token(r))
           /\ claims' = [claims EXCEPT ![r] = Token(r)]
           /\ Pass(r)
           /\ UNCHANGED <<status, bodies>>
  <2>1. Token(r) \in Tokens /\ Token(r) # None
    BY <1>3, RequestToken DEF Invariant
  <2>2. /\ todo' \in [Requests -> Seq(Handlers)]
        /\ todo'[r] = Tail(todo[r])
        /\ \A q \in Requests \ {r} : todo'[q] = todo[q]
    BY <1>3, <1>5, PassEffect DEF Invariant
  <2>3. /\ claims' \in [Requests -> Tokens \cup {None}]
        /\ claims'[r] = Token(r)
        /\ \A q \in Requests \ {r} : claims'[q] = claims[q]
    BY <1>5, <2>1 DEF Invariant, Typed
  <2>4. Typed'
    BY <1>1, <1>5, <2>2, <2>3 DEF Invariant, Typed
  <2>5. \A q \in Requests \ {r} : Same(q)
    BY <1>1, <1>5, <2>2, <2>3 DEF Same
  <2>6. Once(Tail(todo[r])) /\ ~Has(Tail(todo[r]), "jwt")
    BY <1>3, TailShape DEF Kept
  <2>7. Kept(r)'
    BY <1>1, <1>3, <1>5, <2>1, <2>2, <2>3, <2>6 DEF Kept, Token, Right, Auth
  <2>8. Admitted(r) /\ Admitted(r)'
    BY <1>1, <1>5, <2>1, <2>3 DEF Admitted
  <2> QED
    BY <1>1, <1>5, <2>4, <2>5, <2>7, <2>8 DEF Meaning
<1> QED
  BY <1>4, <1>5 DEF CheckSubject

\* A handler has run, for a request that was and is admitted.
Served(r) ==
  /\ \A q \in Requests \ {r} : Same(q) /\ ran'[q] = ran[q]
  /\ Admitted(r) /\ Admitted(r)' /\ ran'[r] = TRUE
  /\ status[r] # 401 /\ status'[r] # 401

\* A handler behind the middlewares, when it is its turn.
LEMMA BehindStep ==
  ASSUME Invariant, NEW r \in Requests, NEW h \in Behind, At(r, h), Runs(r),
         Pass(r) \/ Abort(r),
         (status' = status /\ bodies' = bodies)
           \/ \E code \in {200, 400, 404, 500} : Write(r, code),
         settings' = settings, request' = request, check' = check, claims' = claims
  PROVE  Typed' /\ Kept(r)' /\ Served(r)
<1>1. /\ todo[r] \in Seq(Handlers) /\ todo[r] # <<>> /\ Head(todo[r]) = h
      /\ Kept(r) /\ request[r] # None /\ status[r] # 401
  BY AtShape
<1>2. /\ ran' \in [Requests -> BOOLEAN] /\ ran'[r] = TRUE
      /\ \A q \in Requests \ {r} : ran'[q] = ran[q]
  BY DEF Runs, Invariant, Typed
<1>3. /\ status' \in [Requests -> Nat] /\ bodies' \in [Requests -> Nat]
      /\ \A q \in Requests \ {r} : status'[q] = status[q]
      /\ status'[r] # 401
  <2>1. CASE status' = status /\ bodies' = bodies
    BY <1>1, <2>1 DEF Invariant, Typed
  <2>2. ASSUME NEW code \in {200, 400, 404, 500}, Write(r, code)
        PROVE  /\ status' \in [Requests -> Nat] /\ bodies' \in [Requests -> Nat]
               /\ \A q \in Requests \ {r} : status'[q] = status[q]
               /\ status'[r] # 401
    <3>1. /\ status' \in [Requests -> Nat] /\ bodies' \in [Requests -> Nat]
          /\ \A q \in Requests \ {r} : status'[q] = status[q]
          /\ status'[r] \in {code, status[r]}
      BY <2>2, WriteEffect DEF Invariant
    <3> QED
      BY <1>1, <3>1
  <2> QED
    BY <2>1, <2>2
<1>4. /\ todo' \in [Requests -> Seq(Handlers)]
      /\ \A q \in Requests \ {r} : todo'[q] = todo[q]
      /\ todo'[r] \in {Tail(todo[r]), <<>>}
  <2>1. CASE Pass(r)
    <3>1. Typed
      BY DEF Invariant
    <3>2. /\ todo' \in [Requests -> Seq(Handlers)]
          /\ todo'[r] = Tail(todo[r])
          /\ \A q \in Requests \ {r} : todo'[q] = todo[q]
      BY <1>1, <2>1, <3>1, PassEffect
    <3> QED
      BY <3>2
  <2>2. CASE Abort(r)
    BY <2>2, AbortEffect DEF Invariant
  <2> QED
    BY <2>1, <2>2
<1>5. ~settings.enabled \/ claims[r] # None
  <2>1. Barred(todo[r]) => h \notin Behind
    BY <1>1, TailShape
  <2> QED
    BY <1>1, <2>1 DEF Kept
<1>6. /\ Has(todo'[r], "jwt") => Has(todo[r], "jwt")
      /\ Once(todo[r]) => Once(todo'[r])
  <2>1. CASE todo'[r] = Tail(todo[r])
    BY <1>1, <2>1, TailShape
  <2>2. CASE todo'[r] = <<>>
    BY <2>2, EmptyShape
  <2> QED
    BY <1>4, <2>1, <2>2
<1>7. Kept(r)'
  BY <1>1, <1>3, <1>5, <1>6 DEF Kept, Token, Right, Auth
<1>8. Typed'
  BY <1>2, <1>3, <1>4 DEF Invariant, Typed
<1>9. \A q \in Requests \ {r} : Same(q) /\ ran'[q] = ran[q]
  BY <1>2, <1>3, <1>4 DEF Same
<1> QED
  BY <1>1, <1>2, <1>3, <1>5, <1>7, <1>8, <1>9 DEF Served, Admitted

LEMMA HandlerStep ==
  ASSUME Invariant, NEW r \in Requests,
         OapiRequestValidator(r) \/ dispatch(r) \/ PostV1Enrich(r) \/ Panic(r)
  PROVE  Typed' /\ settings' = settings /\ Kept(r)' /\ Served(r)
<1>1. PICK h \in Behind : At(r, h)
  BY DEF OapiRequestValidator, dispatch, PostV1Enrich, Panic, Behind
<1>2. /\ Runs(r)
      /\ settings' = settings /\ request' = request /\ check' = check /\ claims' = claims
  BY DEF OapiRequestValidator, dispatch, PostV1Enrich, Panic
<1>3. Pass(r) \/ Abort(r)
  BY DEF OapiRequestValidator, dispatch, PostV1Enrich, Panic
<1>4. (status' = status /\ bodies' = bodies)
        \/ \E code \in {200, 400, 404, 500} : Write(r, code)
  BY DEF OapiRequestValidator, dispatch, PostV1Enrich, Panic
<1> QED
  BY <1>1, <1>2, <1>3, <1>4, BehindStep

-----------------------------------------------------------------------------
(***************************************************************************)
(* The invariant is inductive.                                             *)
(***************************************************************************)
LEMMA InitInvariant == Init => Invariant
BY EmptyShape DEF Init, Invariant, Typed, Kept, Fresh, Checks

\* A step of one request keeps the invariant of all.
LEMMA OneStep ==
  ASSUME Invariant, NEW r \in Requests, Typed', settings' = settings, Kept(r)',
         \A q \in Requests \ {r} : Same(q)
  PROVE  Invariant'
<1>1. ASSUME NEW q \in Requests \ {r} PROVE Kept(q)'
  BY <1>1, SameKept DEF Invariant
<1> QED
  BY <1>1 DEF Invariant

LEMMA StepInvariant == Invariant /\ [Next]_vars => Invariant'
<1> SUFFICES ASSUME Invariant, [Next]_vars PROVE Invariant'
  OBVIOUS
<1>1. CASE Expire \/ Rotate \/ UNCHANGED vars
  <2>1. UNCHANGED <<settings, request, todo, check, claims, ran, status, bodies>>
    BY <1>1 DEF Expire, Rotate, vars, requestVars
  <2>2. Typed'
    BY <2>1 DEF Invariant, Typed
  <2>3. ASSUME NEW r \in Requests PROVE Kept(r)'
    BY <2>1, SameKept DEF Invariant, Same
  <2> QED
    BY <2>2, <2>3 DEF Invariant
<1>2. ASSUME NEW r \in Requests, Arrive(r) PROVE Invariant'
  BY <1>2, ArriveStep, OneStep
<1>3. ASSUME NEW r \in Requests, Enter(r) \/ Leave(r) \/ Finish(r) PROVE Invariant'
  BY <1>3, QuietStep, OneStep
<1>4. ASSUME NEW r \in Requests, ReadHeader(r) \/ Verify(r) \/ FetchKeys(r) \/ CheckSubject(r)
      PROVE  Invariant'
  BY <1>4, ReadHeaderStep, VerifyStep, FetchKeysStep, CheckSubjectStep, OneStep
<1>5. ASSUME NEW r \in Requests,
             OapiRequestValidator(r) \/ dispatch(r) \/ PostV1Enrich(r) \/ Panic(r)
      PROVE  Invariant'
  <2>1. /\ Typed' /\ settings' = settings /\ Kept(r)'
        /\ \A q \in Requests \ {r} : Same(q)
    BY <1>5, HandlerStep DEF Served
  <2> QED
    BY <2>1, OneStep
<1> QED
  BY <1>1, <1>2, <1>3, <1>4, <1>5 DEF Next, Step

LEMMA Inductive == Spec => []Invariant
BY InitInvariant, StepInvariant, PTL DEF Spec

LEMMA DocumentedFollows == Invariant => OnlyDocumentedTokens
<1> SUFFICES ASSUME Invariant, NEW r \in Requests, claims[r] # None
             PROVE  LET s == settings
                        t == claims[r]
                    IN /\ request[r].header[2] = t
                       /\ IF s.EXPECTED_AUDIENCE = "" THEN s.expectedAudience \in t.aud \ {""}
                                                      ELSE s.EXPECTED_AUDIENCE \in t.aud
                       /\ \/ s.kubernetesServiceIp # "" \/ s.KUBERNETES_SERVICE_IP # ""
                          \/ t.iss = s.issuerUrl
                          \/ s.issuerUrl = "" /\ t.iss = "https://kubernetes.default.svc"
                       /\ s.allowedSubjects = {} \/ t.sub \in s.allowedSubjects
  BY DEF OnlyDocumentedTokens
<1> DEFINE s == settings
           t == claims[r]
<1>1. t = Token(r) /\ Right(t) /\ SubjectAllowed(Auth, t)
  BY DEF Invariant, Kept
<1>2. /\ Auth.clientID = ExpectedAudience(s)
      /\ ~Auth.skipClientIDCheck
      /\ Auth.issuer = IssuerURL(s)
      /\ Auth.skipIssuerCheck = (KubernetesServiceIP(s) # "")
      /\ Auth.allowedSubjects = s.allowedSubjects
  BY DEF Auth, NewJWTAuth
<1>3. ExpectedAudience(s) \in t.aud \ {""}
  BY <1>1, <1>2 DEF Right, VerifyClaims
<1>4. KubernetesServiceIP(s) # "" \/ t.iss = IssuerURL(s)
  BY <1>1, <1>2 DEF Right, VerifyClaims
<1>5. s.allowedSubjects = {} \/ t.sub \in s.allowedSubjects
  BY <1>1, <1>2 DEF SubjectAllowed
<1> QED
  BY <1>1, <1>3, <1>4, <1>5 DEF Token, ExpectedAudience, KubernetesServiceIP, IssuerURL

(***************************************************************************)
(* NoneButDocumented: OnlyDocumentedTokens, for any settings, tokens,      *)
(* numbers of requests, keys and rotations                                 *)
(* (internal/middleware/jwtauth.go 45-118, 128-184).                       *)
(***************************************************************************)
THEOREM NoneButDocumented == Spec => []OnlyDocumentedTokens
BY Inductive, DocumentedFollows, PTL

-----------------------------------------------------------------------------
(***************************************************************************)
(* HttpServer implements Gate.                                             *)
(***************************************************************************)
LEMMA InitGate == Init => TheGate!Init
<1> SUFFICES ASSUME Init PROVE TheGate!Init
  OBVIOUS
<1>1. ASSUME NEW r \in Requests, Admitted(r) PROVE Entitled(r)
  BY <1>1 DEF Admitted, Entitled, Init
<1>2. \A r \in Requests : status[r] # 401 /\ ran[r] = FALSE
  BY DEF Init
<1> QED
  BY <1>1, <1>2 DEF TheGate!Init

\* A step of one request that runs no handler.
LEMMA MeaningfulStep ==
  ASSUME NEW r \in Requests, settings' = settings, \A q \in Requests \ {r} : Same(q),
         ran' = ran, Meaning(r)
  PROVE  TheGate!Next
<1>1. ASSUME NEW q \in Requests \ {r}
      PROVE  (Admitted(q)' <=> Admitted(q)) /\ status'[q] = status[q]
  BY <1>1 DEF Same, Admitted, Token, Auth
<1>2. CASE (Admitted(r)' <=> Admitted(r)) /\ status'[r] = status[r]
  BY <1>1, <1>2 DEF TheGate!Next, TheGate!Turn
<1>3. CASE Entitled(r) /\ status[r] # 401 /\ Admitted(r)' /\ status'[r] = status[r]
  <2>1. TheGate!Admit(r)
    BY <1>1, <1>3 DEF TheGate!Admit
  <2> QED
    BY <2>1 DEF TheGate!Next
<1>4. CASE ~Admitted(r) /\ ~Admitted(r)' /\ status'[r] \in {401, status[r]}
  <2>1. CASE status'[r] = 401
    <3>1. TheGate!Refuse(r)
      BY <1>1, <1>4, <2>1 DEF TheGate!Refuse
    <3> QED
      BY <3>1 DEF TheGate!Next
  <2>2. CASE status'[r] = status[r]
    BY <1>1, <1>4, <2>2 DEF TheGate!Next, TheGate!Turn
  <2> QED
    BY <1>4, <2>1, <2>2
<1> QED
  BY <1>2, <1>3, <1>4 DEF Meaning

LEMMA StepGate == Invariant /\ [Next]_vars => [TheGate!Next]_(TheGate!vars)
<1> SUFFICES ASSUME Invariant, [Next]_vars PROVE TheGate!Next
  OBVIOUS
<1>1. CASE Expire \/ Rotate \/ UNCHANGED vars
  <2>1. UNCHANGED <<settings, request, check, claims, ran, status>>
    BY <1>1 DEF Expire, Rotate, vars, requestVars
  <2>2. \A q \in Requests : Admitted(q)' <=> Admitted(q)
    BY <2>1 DEF Admitted, Token, Auth
  <2> QED
    BY <2>1, <2>2 DEF TheGate!Next, TheGate!Turn
<1>2. ASSUME NEW r \in Requests, Arrive(r) PROVE TheGate!Next
  <2>1. /\ settings' = settings /\ \A q \in Requests \ {r} : Same(q)
        /\ request[r] = None /\ Fresh(r)
        /\ check' = check /\ claims' = claims /\ ran' = ran /\ status'[r] # 401
    BY <1>2, ArriveStep
  <2>2. \A q \in Requests : Admitted(q)' <=> Admitted(q)
    BY <2>1 DEF Fresh, Same, Admitted, Token, Auth
  <2>3. \A q \in Requests : status'[q] = 401 <=> status[q] = 401
    BY <2>1 DEF Fresh, Same
  <2> QED
    BY <2>1, <2>2, <2>3 DEF TheGate!Next, TheGate!Turn
<1>3. ASSUME NEW r \in Requests, Enter(r) \/ Leave(r) \/ Finish(r) PROVE TheGate!Next
  <2>1. /\ settings' = settings /\ request' = request /\ check' = check
        /\ claims' = claims /\ ran' = ran /\ status' = status
    BY <1>3, QuietStep
  <2>2. \A q \in Requests : Admitted(q)' <=> Admitted(q)
    BY <2>1 DEF Admitted, Token, Auth
  <2> QED
    BY <2>1, <2>2 DEF TheGate!Next, TheGate!Turn
<1>4. ASSUME NEW r \in Requests, ReadHeader(r) \/ Verify(r) \/ FetchKeys(r) \/ CheckSubject(r)
      PROVE  TheGate!Next
  <2>1. /\ settings' = settings /\ \A q \in Requests \ {r} : Same(q)
        /\ ran' = ran /\ Meaning(r)
    BY <1>4, ReadHeaderStep, VerifyStep, FetchKeysStep, CheckSubjectStep
  <2> QED
    BY <2>1, MeaningfulStep
<1>5. ASSUME NEW r \in Requests,
             OapiRequestValidator(r) \/ dispatch(r) \/ PostV1Enrich(r) \/ Panic(r)
      PROVE  TheGate!Next
  <2>0. settings' = settings /\ Served(r)
    BY <1>5, HandlerStep
  <2>1. /\ settings' = settings
        /\ \A q \in Requests \ {r} : Same(q) /\ ran'[q] = ran[q]
        /\ Admitted(r) /\ Admitted(r)' /\ ran'[r] = TRUE
        /\ status[r] # 401 /\ status'[r] # 401
    BY <2>0 DEF Served
  <2>2. ASSUME NEW q \in Requests \ {r}
        PROVE  (Admitted(q)' <=> Admitted(q)) /\ status'[q] = status[q] /\ ran'[q] = ran[q]
    BY <2>1, <2>2 DEF Same, Admitted, Token, Auth
  <2>3. TheGate!Run(r)
    BY <2>1, <2>2 DEF TheGate!Run
  <2> QED
    BY <2>3 DEF TheGate!Next
<1> QED
  BY <1>1, <1>2, <1>3, <1>4, <1>5 DEF Next, Step

(***************************************************************************)
(* ServerImplementsGate: no handler runs for a request whose token was not *)
(* verified, however many requests there are and whatever they bring       *)
(* (cmd/compass/server/server.go 38-73,                                    *)
(* internal/middleware/jwtauth.go 128-184).                                *)
(***************************************************************************)
THEOREM ServerImplementsGate == Spec => ImplementsGate
BY InitGate, StepGate, Inductive, PTL DEF Spec, ImplementsGate, TheGate!Spec

-----------------------------------------------------------------------------
(***************************************************************************)
(* Where a request is on its way through its chain, which bounds what it   *)
(* is answered and what the access log says of it.                         *)
(***************************************************************************)
Wrapped == <<"recovery", "requestid", "accesslog">>

\* A chain behind its first n handlers.
Rest(k, n) == SubSeq(Chain(k), n + 1, Len(Chain(k)))

Statuses == {200, 307, 400, 401, 404, 500}

Untouched(r) ==
  request[r] = None /\ todo[r] = <<>> /\ entered[r] = <<>> /\ bodies[r] = 0 /\ log[r] = <<>>

Coming(r) ==
  /\ request[r] # None /\ todo[r] = Chain(request[r]) /\ entered[r] = <<>>
  /\ bodies[r] = 0 /\ log[r] = <<>>

\* Whatever is still to run has nothing written before it.
Inside(r) ==
  /\ request[r] # None /\ entered[r] = Wrapped /\ log[r] = <<>>
  /\ \E n \in 3 .. Len(Chain(request[r])) :
       /\ todo[r] = Rest(request[r], n)
       /\ n < Len(Chain(request[r])) => bodies[r] = 0

Broken(r) ==
  /\ request[r] # None /\ todo[r] = <<>> /\ entered[r] = <<"recovery">>
  /\ bodies[r] = 1 /\ status[r] = 500 /\ log[r] = <<>>

Through(r) ==
  /\ request[r] # None /\ todo[r] = <<>> /\ entered[r] = <<>>
  /\ \/ log[r] = <<status[r]>>
     \/ log[r] = <<>> /\ bodies[r] = 1 /\ status[r] \in {307, 500}

Placed(r) == Untouched(r) \/ Coming(r) \/ Inside(r) \/ Broken(r) \/ Through(r)

Measured ==
  /\ published \subseteq Keys
  /\ cached \subseteq Keys
  /\ rotations \in 0..MaxRotations
  /\ expired \subseteq Tokens
  /\ entered \in [Requests -> {<<>>, Wrapped, <<"recovery">>}]
  /\ status \in [Requests -> Statuses]
  /\ bodies \in [Requests -> {0, 1}]
  /\ log \in [Requests -> Seq(Statuses)]

Orderly == Measured /\ \A r \in Requests : Placed(r)

\* The places of the handlers in a chain: the middlewares with a c.Next come
\* first, and what answers comes last.
LEMMA ChainPlaces ==
  ASSUME NEW k
  PROVE  /\ Chain(k) \in Seq(Handlers)
         /\ Len(Chain(k)) \in 3..6
         /\ \A i \in 1..Len(Chain(k)) :
              /\ Chain(k)[i] \in Wrappers <=> i <= 3
              /\ Chain(k)[i] \in {"dispatch", "PostV1Enrich"} => i = Len(Chain(k))
         /\ SubSeq(Chain(k), 1, 3) = Wrapped
<1>1. PICK tail \in {<<>>, <<"dispatch">>, <<"validator", "PostV1Enrich">>} :
        Chain(k) = EngineHandlers \o tail
  BY ChainSplit
<1>2. /\ tail \in Seq(Handlers) /\ Len(tail) \in 0..2
      /\ \A i \in 1..Len(tail) :
           /\ tail[i] \notin Wrappers
           /\ tail[i] \in {"dispatch", "PostV1Enrich"} => i = Len(tail)
  <2>1. CASE tail = <<>>
    BY <2>1
  <2>2. CASE tail = <<"dispatch">>
    <3>1. <<"dispatch">> \in Seq(Handlers)
      BY DEF Handlers, Behind
    <3>2. Len(<<"dispatch">>) = 1 /\ "dispatch" \notin Wrappers
      BY DEF Wrappers
    <3> QED
      BY <2>2, <3>1, <3>2
  <2>3. CASE tail = <<"validator", "PostV1Enrich">>
    <3>1. <<"validator", "PostV1Enrich">> \in Seq(Handlers)
      BY DEF Handlers, Behind
    <3>2. /\ Len(<<"validator", "PostV1Enrich">>) = 2
          /\ "validator" \notin Wrappers /\ "PostV1Enrich" \notin Wrappers
      BY DEF Wrappers
    <3> QED
      BY <2>3, <3>1, <3>2
  <2> QED
    BY <1>1, <2>1, <2>2, <2>3
<1> DEFINE e == EngineHandlers
           c == Chain(k)
<1>3. /\ e \in Seq(Handlers) /\ Len(e) \in {3, 4}
      /\ \A i \in 1..Len(e) : e[i] = IF i = 4 THEN "jwt" ELSE Wrapped[i]
  BY EngineShape DEF Wrapped
<1>4. \A i \in 1..3 : Wrapped[i] \in Wrappers
  BY DEF Wrapped, Wrappers
<1>5. "jwt" \notin Wrappers /\ \A h \in Wrappers \cup {"jwt"} : h \notin {"dispatch", "PostV1Enrich"}
  BY DEF Wrappers
<1> HIDE DEF e
<1>6. /\ c \in Seq(Handlers)
      /\ Len(c) = Len(e) + Len(tail)
      /\ \A i \in 1..Len(c) : c[i] = IF i <= Len(e) THEN e[i] ELSE tail[i - Len(e)]
  <2>1. /\ e \o tail \in Seq(Handlers)
        /\ Len(e \o tail) = Len(e) + Len(tail)
        /\ \A i \in 1 .. Len(e) + Len(tail) :
             (e \o tail)[i] = IF i <= Len(e) THEN e[i] ELSE tail[i - Len(e)]
    BY <1>2, <1>3, ConcatProperties
  <2>2. c = e \o tail
    BY <1>1 DEF e
  <2> HIDE DEF c
  <2> QED
    BY <2>1, <2>2
<1> HIDE DEF c
<1>9. /\ Len(e) \in Nat /\ Len(e) >= 3 /\ Len(tail) \in Nat /\ Len(c) \in 3..6
     /\ 3 <= Len(c) /\ 3 <= Len(e)
  <2>0. Len(e) = 3 \/ Len(e) = 4
    BY <1>3, Zenon
  <2>1. \A a \in {3, 4}, b \in 0..2 : a + b \in 3..6
    OBVIOUS
  <2>2. Len(e) + Len(tail) \in 3..6
    BY <1>2, <1>3, <2>1
  <2>3. \A x \in 3..6 : x \in Nat /\ 3 <= x
    OBVIOUS
  <2>4. Len(c) \in 3..6
    BY <1>6, <2>2, Zenon
  <2>5. \A x \in 0..2 : x \in Nat
    OBVIOUS
  <2>6. Len(e) \in Nat /\ Len(e) >= 3
    BY <2>0
  <2>7. Len(tail) \in Nat
    BY <1>2, <2>5, Zenon
  <2>8. 3 <= Len(c)
    BY <2>3, <2>4, Zenon
  <2>9. 3 <= Len(e)
    <3>1. 3 <= 3 /\ 3 <= 4
      OBVIOUS
    <3> QED
      BY <2>0, <3>1, Zenon
  <2> QED
    BY <2>3, <2>4, <2>6, <2>7, <2>8, <2>9, Zenon
<1>7. ASSUME NEW i \in 1..Len(c)
      PROVE  /\ c[i] \in Wrappers <=> i <= 3
             /\ c[i] \in {"dispatch", "PostV1Enrich"} => i = Len(c)
  <2>1. CASE i <= Len(e)
    <3>1. i \in 1..Len(e) /\ c[i] = e[i]
      BY <1>3, <1>6, <2>1
    <3>2. c[i] = IF i = 4 THEN "jwt" ELSE Wrapped[i]
      BY <1>3, <3>1
    <3>3. i = 4 \/ i \in 1..3
      BY <1>3, <3>1
    <3> QED
      BY <1>4, <1>5, <3>2, <3>3
  <2>2. CASE i > Len(e)
    <3>1. i - Len(e) \in 1..Len(tail) /\ i > 3
      <4>1. i \in Nat /\ i <= Len(e) + Len(tail) /\ Len(e) >= 3
        BY <1>6, <1>9
      <4> QED
        BY <1>9, <2>2, <4>1
    <3>2. c[i] = tail[i - Len(e)] /\ (i - Len(e) = Len(tail) => i = Len(c))
      BY <1>6, <1>9, <2>2
    <3> QED
      BY <1>2, <3>1, <3>2
  <2> QED
    BY <1>9, <2>1, <2>2
<1>8. SubSeq(c, 1, 3) = Wrapped
  <2>1. /\ 3 <= Len(c)
        /\ \A i \in 1..3 : c[i] = Wrapped[i] /\ c[i] \in Handlers
    <3>1. 3 <= Len(c) /\ 3 <= Len(e)
      BY <1>9
    <3>2. \A i \in 1..3 : i \in 1..Len(c) /\ i \in 1..Len(e) /\ i <= Len(e) /\ i # 4
      BY <1>9, <3>1
    <3> QED
      BY <1>3, <1>4, <1>6, <3>1, <3>2 DEF Handlers
  <2>2. /\ SubSeq(c, 1, 3) \in Seq(Handlers)
        /\ Len(SubSeq(c, 1, 3)) = 3
        /\ \A i \in 1..3 : SubSeq(c, 1, 3)[i] = c[i]
    <3>1. /\ SubSeq(c, 1, 3) \in Seq(Handlers)
          /\ Len(SubSeq(c, 1, 3)) = IF 1 <= 3 THEN 3 - 1 + 1 ELSE 0
          /\ \A i \in 1 .. 3 - 1 + 1 : SubSeq(c, 1, 3)[i] = c[1 + i - 1]
      BY <2>1, SubSeqProperties
    <3> QED
      BY <3>1
  <2>3. Wrapped \in Seq(Handlers) /\ Len(Wrapped) = 3
    BY DEF Wrapped, Handlers, Wrappers
  <2> QED
    BY <2>1, <2>2, <2>3, SeqEqual
<1> QED
  BY <1>6, <1>7, <1>8, <1>9 DEF c

\* What is left of a chain, and what is left when one more handler has run.
LEMMA RestPlaces ==
  ASSUME NEW k, NEW n \in 3 .. Len(Chain(k))
  PROVE  /\ n = Len(Chain(k)) => Rest(k, n) = <<>>
         /\ n < Len(Chain(k)) =>
              /\ Rest(k, n) # <<>> /\ Head(Rest(k, n)) = Chain(k)[n + 1]
              /\ Rest(k, n)[1] = Chain(k)[n + 1]
              /\ Chain(k)[n + 1] \notin Wrappers
              /\ Tail(Rest(k, n)) = Rest(k, n + 1)
<1> DEFINE c == Chain(k)
<1>1. /\ c \in Seq(Handlers) /\ Len(c) \in 3..6
      /\ \A i \in 1..Len(c) : (c[i] \in Wrappers <=> i <= 3) /\ c[i] \in Handlers
  BY ChainPlaces, ElementOfSeq
<1> HIDE DEF c
<1>2. CASE n = Len(c)
  BY <1>1, <1>2, SubSeqEmpty DEF Rest, c
<1>3. CASE n < Len(c)
  <2>1. n + 1 \in 1..Len(c) /\ Len(c) \in n + 1 .. Len(c)
    BY <1>1, <1>3 DEF c
  <2>2. /\ Head(SubSeq(c, n + 1, Len(c))) = c[n + 1]
        /\ Tail(SubSeq(c, n + 1, Len(c))) = SubSeq(c, n + 1 + 1, Len(c))
    BY <1>1, <2>1, HeadTailOfSubSeq
  <2>3. /\ Len(SubSeq(c, n + 1, Len(c))) # 0
        /\ SubSeq(c, n + 1, Len(c))[1] = c[n + 1]
    <3>1. /\ Len(SubSeq(c, n + 1, Len(c))) = IF n + 1 <= Len(c) THEN Len(c) - (n + 1) + 1 ELSE 0
          /\ \A i \in 1 .. Len(c) - (n + 1) + 1 : SubSeq(c, n + 1, Len(c))[i] = c[n + 1 + i - 1]
      BY <1>1, <2>1, SubSeqProperties
    <3>2. 1 \in 1 .. Len(c) - (n + 1) + 1 /\ n + 1 + 1 - 1 = n + 1
      BY <1>1, <2>1
    <3> QED
      BY <1>1, <2>1, <3>1, <3>2
  <2>4. c[n + 1] \notin Wrappers
    BY <1>1, <2>1 DEF c
  <2>5. Rest(k, n) = SubSeq(c, n + 1, Len(c)) /\ Rest(k, n + 1) = SubSeq(c, n + 1 + 1, Len(c))
    BY DEF Rest, c
  <2>6. Rest(k, n) # <<>>
    <3>1. Len(Rest(k, n)) # 0
      BY <2>3, <2>5
    <3>2. Len(<<>>) = 0
      OBVIOUS
    <3> QED
      BY <3>1, <3>2
  <2>7. n # Len(c)
    BY <1>1, <1>3
  <2> QED
    BY <2>2, <2>3, <2>4, <2>5, <2>6, <2>7 DEF c
<1> QED
  BY <1>1, <1>2, <1>3 DEF c

-----------------------------------------------------------------------------
(***************************************************************************)
(* The steps again, with what they do to a request's place.                *)
(***************************************************************************)
\* A step leaves the place of a request as it is.
Still(q) ==
  /\ request'[q] = request[q] /\ todo'[q] = todo[q] /\ entered'[q] = entered[q]
  /\ status'[q] = status[q] /\ bodies'[q] = bodies[q] /\ log'[q] = log[q]

ChainsStay == settings' = settings

Moves(r) == Measured' /\ Placed(r)' /\ \A q \in Requests \ {r} : Still(q)

LEMMA SamePlace ==
  ASSUME NEW q \in Requests, ChainsStay, Still(q), Placed(q)
  PROVE  Placed(q)'
<1>1. Chain(request[q])' = Chain(request[q])
  BY DEF ChainsStay, Still, Chain, Routed, OciChain, EnrichChain, EngineHandlers
<1>2. \A n : Rest(request[q], n)' = Rest(request[q], n)
  BY <1>1 DEF Rest
<1> QED
  BY <1>1, <1>2 DEF Still, Placed, Untouched, Coming, Inside, Broken, Through

\* What is written first is what the client gets.
LEMMA FirstBody ==
  ASSUME Measured, NEW r \in Requests, NEW code \in Statuses, Write(r, code), bodies[r] = 0
  PROVE  /\ status' \in [Requests -> Statuses] /\ bodies' \in [Requests -> {0, 1}]
         /\ status'[r] = code /\ bodies'[r] = 1
         /\ \A q \in Requests \ {r} : status'[q] = status[q] /\ bodies'[q] = bodies[q]
BY DEF Measured, Write

\* Where a request is whose next handler is not one that waits in c.Next.
LEMMA OnItsWay ==
  ASSUME NEW r \in Requests, Placed(r), NEW h, h \notin Wrappers, At(r, h)
  PROVE  /\ request[r] # None /\ entered[r] = Wrapped /\ log[r] = <<>> /\ bodies[r] = 0
         /\ \E n \in 3 .. Len(Chain(request[r])) :
              /\ n + 1 \in 3 .. Len(Chain(request[r]))
              /\ todo[r] = Rest(request[r], n)
              /\ Tail(todo[r]) = Rest(request[r], n + 1)
              /\ h \in {"dispatch", "PostV1Enrich"} => Tail(todo[r]) = <<>>
<1>1. todo[r] # <<>> /\ Head(todo[r]) = h
  BY DEF At
<1> DEFINE c == Chain(request[r])
<1>2. /\ c \in Seq(Handlers) /\ Len(c) \in 3..6
      /\ \A i \in 1..Len(c) :
           /\ c[i] \in Wrappers <=> i <= 3
           /\ c[i] \in {"dispatch", "PostV1Enrich"} => i = Len(c)
  BY ChainPlaces
<1>3. ~Coming(r)
  <2>1. Head(c) = c[1] /\ 1 \in 1..Len(c) /\ 1 <= 3
    <3>1. \A x \in 3..6 : 1 \in 1..x
      OBVIOUS
    <3>2. 1 \in 1..Len(c)
      BY <1>2, <3>1, Zenon
    <3>3. Head(c) = c[1] /\ 1 <= 3
      OBVIOUS
    <3> QED
      BY <3>2, <3>3
  <2>2. c[1] \in Wrappers
    <3> HIDE DEF c
    <3>1. \A i \in 1..Len(c) : c[i] \in Wrappers <=> i <= 3
      BY <1>2
    <3>2. c[1] \in Wrappers <=> 1 <= 3
      BY <2>1, <3>1, Zenon
    <3>3. 1 <= 3
      OBVIOUS
    <3> QED
      BY <3>2, <3>3, Zenon
  <2> QED
    BY <1>1, <2>1, <2>2 DEF Coming
<1>4. Inside(r)
  BY <1>1, <1>3 DEF Placed, Untouched, Broken, Through
<1>5. PICK n \in 3..Len(c) : todo[r] = Rest(request[r], n) /\ (n < Len(c) => bodies[r] = 0)
  BY <1>4 DEF Inside
<1> HIDE DEF c
<1>6. n # Len(c)
  BY <1>1, <1>5, RestPlaces DEF c
<1>7. n < Len(c) /\ n + 1 \in 3..Len(c) /\ n + 1 \in 1..Len(c)
  BY <1>2, <1>6
<1>8. Head(todo[r]) = c[n + 1] /\ Tail(todo[r]) = Rest(request[r], n + 1)
  BY <1>5, <1>7, RestPlaces DEF c
<1>9. n + 1 = Len(c) => Tail(todo[r]) = <<>>
  BY <1>7, <1>8, RestPlaces DEF c
<1>10. h \in {"dispatch", "PostV1Enrich"} => Tail(todo[r]) = <<>>
  BY <1>1, <1>2, <1>7, <1>8, <1>9
<1> QED
  BY <1>4, <1>5, <1>7, <1>8, <1>10 DEF Inside, c

\* It stays on its way when the handler goes on, passes or aborts.
LEMMA StaysInside ==
  ASSUME NEW r \in Requests, Placed(r), NEW h, h \notin Wrappers, At(r, h), ChainsStay,
         request'[r] = request[r], entered'[r] = entered[r], log'[r] = log[r],
         bodies'[r] \in {0, 1},
         \/ todo'[r] \in {todo[r], Tail(todo[r])} /\ bodies'[r] = 0
         \/ todo'[r] = Tail(todo[r]) /\ h \in {"dispatch", "PostV1Enrich"}
         \/ todo'[r] = <<>>
  PROVE  Inside(r)'
<1>1. /\ request[r] # None /\ entered[r] = Wrapped /\ log[r] = <<>> /\ bodies[r] = 0
      /\ \E n \in 3 .. Len(Chain(request[r])) :
           /\ n + 1 \in 3 .. Len(Chain(request[r]))
           /\ todo[r] = Rest(request[r], n)
           /\ Tail(todo[r]) = Rest(request[r], n + 1)
           /\ h \in {"dispatch", "PostV1Enrich"} => Tail(todo[r]) = <<>>
  BY OnItsWay
<1>2. Chain(request[r])' = Chain(request[r])
  BY DEF ChainsStay, Chain, Routed, OciChain, EnrichChain, EngineHandlers
<1>3. \A n : Rest(request[r], n)' = Rest(request[r], n)
  BY <1>2 DEF Rest
<1> DEFINE c == Chain(request[r])
<1>4. Len(c) \in 3 .. Len(c) /\ ~(Len(c) < Len(c)) /\ Rest(request[r], Len(c)) = <<>>
  <2>1. Len(c) \in 3..6
    BY ChainPlaces
  <2>2. \A x \in 3..6 : x \in 3..x /\ ~(x < x)
    OBVIOUS
  <2>3. Len(c) \in 3 .. Len(c) /\ ~(Len(c) < Len(c))
    BY <2>1, <2>2, Zenon
  <2> QED
    BY <2>3, RestPlaces
<1> HIDE DEF c
<1>5. PICK m \in 3 .. Len(c) :
        todo'[r] = Rest(request[r], m) /\ (m < Len(c) => bodies'[r] = 0)
  <2>1. CASE todo'[r] \in {todo[r], Tail(todo[r])} /\ bodies'[r] = 0
    <3>1. PICK n \in 3 .. Len(c) :
            /\ n + 1 \in 3 .. Len(c)
            /\ todo[r] = Rest(request[r], n)
            /\ Tail(todo[r]) = Rest(request[r], n + 1)
      BY <1>1 DEF c
    <3>2. CASE todo'[r] = todo[r]
      BY <2>1, <3>1, <3>2
    <3>3. CASE todo'[r] = Tail(todo[r])
      BY <2>1, <3>1, <3>3
    <3> QED
      BY <2>1, <3>2, <3>3
  <2>2. CASE todo'[r] = <<>>
    BY <1>4, <2>2
  <2>3. CASE todo'[r] = Tail(todo[r]) /\ h \in {"dispatch", "PostV1Enrich"}
    BY <1>1, <2>2, <2>3
  <2> QED
    BY <2>1, <2>2, <2>3
<1>6. request'[r] # None /\ entered'[r] = Wrapped /\ log'[r] = <<>>
  BY <1>1
<1> QED
  BY <1>2, <1>3, <1>5, <1>6 DEF Inside, c

LEMMA ArriveMoves ==
  ASSUME Invariant, Orderly, NEW r \in Requests, Arrive(r)
  PROVE  ChainsStay /\ Moves(r)
<1>1. Untouched(r)
  BY DEF Arrive, Orderly, Placed, Coming, Inside, Broken, Through
<1>2. /\ settings' = settings /\ published' = published /\ cached' = cached
      /\ rotations' = rotations /\ expired' = expired /\ entered' = entered /\ log' = log
  BY DEF Arrive, providerVars
<1>3. PICK k \in Kinds :
        /\ request' = [request EXCEPT ![r] = k]
        /\ \/ k.target = "slash" /\ Write(r, 307) /\ UNCHANGED todo
           \/ /\ todo' = [todo EXCEPT ![r] = Chain(k)]
              /\ status' = [status EXCEPT ![r] = IF Routed(k) THEN 200 ELSE 404]
              /\ UNCHANGED bodies
  BY DEF Arrive
<1>4. k # None /\ request'[r] = k /\ \A q \in Requests \ {r} : request'[q] = request[q]
  BY <1>3, NoneAssumption DEF Invariant, Typed
<1>5. CASE Write(r, 307) /\ UNCHANGED todo
  <2>1. /\ status' \in [Requests -> Statuses] /\ bodies' \in [Requests -> {0, 1}]
        /\ status'[r] = 307 /\ bodies'[r] = 1
        /\ \A q \in Requests \ {r} : status'[q] = status[q] /\ bodies'[q] = bodies[q]
    BY <1>1, <1>5, FirstBody DEF Orderly, Untouched, Statuses
  <2>2. Through(r)'
    BY <1>1, <1>2, <1>4, <1>5, <2>1 DEF Through, Untouched
  <2> QED
    BY <1>2, <1>4, <1>5, <2>1, <2>2 DEF Orderly, Measured, Moves, Placed, Still, ChainsStay
<1>6. CASE /\ todo' = [todo EXCEPT ![r] = Chain(k)]
           /\ status' = [status EXCEPT ![r] = IF Routed(k) THEN 200 ELSE 404]
           /\ UNCHANGED bodies
  <2>1. /\ status' \in [Requests -> Statuses] /\ bodies' = bodies
        /\ \A q \in Requests \ {r} : status'[q] = status[q]
    BY <1>6 DEF Orderly, Measured, Statuses
  <2>2. todo'[r] = Chain(k) /\ \A q \in Requests \ {r} : todo'[q] = todo[q]
    BY <1>6 DEF Invariant, Typed
  <2>3. Chain(request[r])' = Chain(k)
    BY <1>2, <1>4 DEF Chain, Routed, OciChain, EnrichChain, EngineHandlers
  <2>4. Coming(r)'
    BY <1>1, <1>2, <1>4, <2>1, <2>2, <2>3 DEF Coming, Untouched
  <2> QED
    BY <1>2, <1>4, <2>1, <2>2, <2>4 DEF Orderly, Measured, Moves, Placed, Still, ChainsStay
<1> QED
  BY <1>3, <1>5, <1>6

LEMMA EnterMoves ==
  ASSUME Invariant, Orderly, NEW r \in Requests, Enter(r)
  PROVE  ChainsStay /\ Moves(r)
<1>1. PICK n \in 1 .. Len(todo[r]) :
        /\ Leading(n, todo[r])
        /\ entered' = [entered EXCEPT ![r] = @ \o SubSeq(todo[r], 1, n)]
        /\ todo' = [todo EXCEPT ![r] = SubSeq(@, n + 1, Len(@))]
  BY DEF Enter
<1>2. /\ settings' = settings /\ published' = published /\ cached' = cached
      /\ rotations' = rotations /\ expired' = expired /\ request' = request
      /\ status' = status /\ bodies' = bodies /\ log' = log
  BY DEF Enter, providerVars
<1> DEFINE c == Chain(request[r])
<1>3. /\ c \in Seq(Handlers) /\ Len(c) \in 3..6
      /\ \A i \in 1..Len(c) : c[i] \in Wrappers <=> i <= 3
      /\ SubSeq(c, 1, 3) = Wrapped
  BY ChainPlaces
<1>4. n \in Nat /\ n >= 1 /\ Len(todo[r]) \in Nat /\ n <= Len(todo[r])
  BY LenProperties DEF Invariant, Typed
<1>5. todo[r] # <<>> /\ todo[r][1] \in Wrappers
  <2>1. 1 \in 1..n
    BY <1>4
  <2> QED
    BY <1>1, <1>4, <2>1 DEF Leading
<1> HIDE DEF c
<1>6. ~Inside(r)
  <2> SUFFICES ASSUME NEW m \in 3 .. Len(c), todo[r] = Rest(request[r], m) PROVE FALSE
    BY DEF Inside, c
  <2>1. m # Len(c)
    BY <1>5, RestPlaces DEF c
  <2>2. m < Len(c)
    BY <1>3, <2>1
  <2>3. Rest(request[r], m)[1] \notin Wrappers
    BY <2>2, RestPlaces DEF c
  <2> QED
    BY <1>5, <2>3
<1>7. Coming(r)
  BY <1>5, <1>6 DEF Orderly, Placed, Untouched, Broken, Through
<1>8. todo[r] = c
  BY <1>7 DEF Coming, c
<1>9. n = 3
  <2>1. ~(n > 3)
    <3> SUFFICES ASSUME n > 3 PROVE FALSE
      OBVIOUS
    <3>1. 4 \in 1..n /\ 4 \in 1..Len(c) /\ ~(4 <= 3)
      BY <1>4, <1>8
    <3>2. c[4] \in Wrappers
      BY <1>1, <1>8, <3>1 DEF Leading
    <3> QED
      BY <1>3, <3>1, <3>2
  <2>2. ~(n < 3)
    <3> SUFFICES ASSUME n < 3 PROVE FALSE
      OBVIOUS
    <3>0. \A x \in 3..6 : n < x /\ n + 1 \in 1..x /\ n + 1 <= 3
      BY <1>4
    <3>1. n < Len(c) /\ n + 1 \in 1..Len(c) /\ n + 1 <= 3
      BY <1>3, <3>0
    <3>2. c[n + 1] \notin Wrappers
      BY <1>1, <1>8, <3>1 DEF Leading
    <3> QED
      BY <1>3, <3>1, <3>2
  <2> QED
    BY <1>4, <2>1, <2>2
<1>10. entered'[r] = Wrapped
  <2>1. entered'[r] = <<>> \o SubSeq(c, 1, 3)
    BY <1>1, <1>7, <1>8, <1>9 DEF Orderly, Measured, Coming
  <2>2. Wrapped \in Seq(Handlers)
    BY DEF Wrapped, Handlers, Wrappers
  <2> QED
    BY <1>3, <2>1, <2>2, ConcatEmptySeq
<1>11. todo'[r] = Rest(request[r], 3)
  BY <1>1, <1>8, <1>9 DEF Invariant, Typed, Rest, c
<1>12. 3 \in 3 .. Len(c)
  <2>1. \A x \in 3..6 : 3 \in 3..x
    OBVIOUS
  <2> QED
    BY <1>3, <2>1, Zenon
<1>13. Chain(request[r])' = c /\ Rest(request[r], 3)' = Rest(request[r], 3)
  BY <1>2 DEF c, Rest, Chain, Routed, OciChain, EnrichChain, EngineHandlers
<1>14. Inside(r)'
  BY <1>2, <1>7, <1>10, <1>11, <1>12, <1>13 DEF Inside, Coming
<1>15. \A q \in Requests \ {r} : Still(q)
  BY <1>1, <1>2 DEF Orderly, Measured, Invariant, Typed, Still
<1>16. entered' \in [Requests -> {<<>>, Wrapped, <<"recovery">>}]
  BY <1>1, <1>10 DEF Orderly, Measured
<1> QED
  BY <1>2, <1>14, <1>15, <1>16 DEF Orderly, Measured, Moves, Placed, ChainsStay

LEMMA LeaveMoves ==
  ASSUME Invariant, Orderly, NEW r \in Requests, Leave(r)
  PROVE  ChainsStay /\ Moves(r)
<1>1. /\ settings' = settings /\ published' = published /\ cached' = cached
      /\ rotations' = rotations /\ expired' = expired /\ request' = request
      /\ todo' = todo /\ status' = status /\ bodies' = bodies
      /\ todo[r] = <<>> /\ entered[r] # <<>>
      /\ entered' = [entered EXCEPT ![r] = <<>>]
  BY DEF Leave, providerVars
<1>2. log' = [log EXCEPT ![r] =
                IF \E k \in 1 .. Len(entered[r]) : entered[r][k] = "accesslog"
                THEN Append(@, status[r]) ELSE @]
  BY DEF Leave
<1>3. /\ entered' \in [Requests -> {<<>>, Wrapped, <<"recovery">>}]
      /\ entered'[r] = <<>> /\ \A q \in Requests \ {r} : entered'[q] = entered[q]
  BY <1>1 DEF Orderly, Measured
<1>4. /\ request[r] # None /\ log[r] = <<>>
      /\ \/ entered[r] = Wrapped
         \/ entered[r] = <<"recovery">> /\ bodies[r] = 1 /\ status[r] = 500
  BY <1>1 DEF Orderly, Placed, Untouched, Coming, Inside, Broken, Through
<1>5. status[r] \in Statuses /\ log[r] \in Seq(Statuses)
  BY DEF Orderly, Measured
<1>6. CASE entered[r] = Wrapped
  <2>1. \E k \in 1 .. Len(entered[r]) : entered[r][k] = "accesslog"
    <3>1. Len(Wrapped) = 3 /\ Wrapped[3] = "accesslog" /\ 3 \in 1..3
      BY DEF Wrapped
    <3> QED
      BY <1>6, <3>1
  <2>2. log' = [log EXCEPT ![r] = Append(@, status[r])]
    BY <1>2, <2>1
  <2>3. Append(log[r], status[r]) = <<status[r]>> /\ Append(log[r], status[r]) \in Seq(Statuses)
    BY <1>4, <1>5, AppendProperties
  <2>4. /\ log' \in [Requests -> Seq(Statuses)] /\ log'[r] = <<status[r]>>
        /\ \A q \in Requests \ {r} : log'[q] = log[q]
    BY <2>2, <2>3 DEF Orderly, Measured
  <2>5. Through(r)'
    BY <1>1, <1>3, <1>4, <2>4 DEF Through
  <2> QED
    BY <1>1, <1>3, <2>4, <2>5 DEF Orderly, Measured, Moves, Placed, Still, ChainsStay
<1>7. CASE entered[r] = <<"recovery">> /\ bodies[r] = 1 /\ status[r] = 500
  <2>1. ~\E k \in 1 .. Len(entered[r]) : entered[r][k] = "accesslog"
    BY <1>7
  <2>2. log' = [log EXCEPT ![r] = @]
    BY <1>2, <2>1
  <2>3. log' = log
    BY <2>2 DEF Orderly, Measured
  <2>5. Through(r)'
    BY <1>1, <1>3, <1>4, <1>7, <2>3 DEF Through
  <2> QED
    BY <1>1, <1>3, <2>3, <2>5 DEF Orderly, Measured, Moves, Placed, Still, ChainsStay
<1> QED
  BY <1>4, <1>6, <1>7

LEMMA FinishMoves ==
  ASSUME Invariant, Orderly, NEW r \in Requests, Finish(r)
  PROVE  ChainsStay /\ Moves(r)
<1>1. /\ settings' = settings /\ published' = published /\ cached' = cached
      /\ rotations' = rotations /\ expired' = expired /\ request' = request
      /\ todo' = todo /\ entered' = entered /\ log' = log
      /\ request[r] # None /\ todo[r] = <<>> /\ entered[r] = <<>> /\ bodies[r] = 0
      /\ Write(r, status[r])
  BY DEF Finish, providerVars
<1>2. /\ status' \in [Requests -> Statuses] /\ bodies' \in [Requests -> {0, 1}]
      /\ status'[r] = status[r] /\ bodies'[r] = 1
      /\ \A q \in Requests \ {r} : status'[q] = status[q] /\ bodies'[q] = bodies[q]
  <2>1. status[r] \in Statuses
    BY DEF Orderly, Measured
  <2> QED
    BY <1>1, <2>1, FirstBody DEF Orderly
<1>3. ~Coming(r)
  <2>1. \A x \in 3..6 : x # 0
    OBVIOUS
  <2>2. Len(Chain(request[r])) # 0
    BY <2>1, ChainPlaces, Zenon
  <2>3. Len(<<>>) = 0
    OBVIOUS
  <2>4. Chain(request[r]) # <<>>
    BY <2>2, <2>3, Zenon
  <2> QED
    BY <1>1, <2>4 DEF Coming
<1>4. Wrapped # <<>>
  BY DEF Wrapped
<1>5. log[r] = <<status[r]>>
  BY <1>1, <1>3, <1>4 DEF Orderly, Placed, Untouched, Inside, Broken, Through
<1>6. Through(r)'
  BY <1>1, <1>2, <1>5 DEF Through
<1> QED
  BY <1>1, <1>2, <1>6 DEF Orderly, Measured, Moves, Placed, Still, ChainsStay

\* Refuse answers 401 and ends the chain.
LEMMA RefuseMoves ==
  ASSUME Invariant, Orderly, NEW r \in Requests, At(r, "jwt"), Refuse(r), ChainsStay,
         request' = request, entered' = entered, log' = log,
         published' = published, cached' \subseteq Keys, rotations' = rotations,
         expired' = expired
  PROVE  Moves(r)
<1>1. bodies[r] = 0
  BY OnItsWay DEF Orderly, Wrappers
<1>2. Write(r, 401) /\ Abort(r)
  BY DEF Refuse
<1>3. /\ status' \in [Requests -> Statuses] /\ bodies' \in [Requests -> {0, 1}]
      /\ \A q \in Requests \ {r} : status'[q] = status[q] /\ bodies'[q] = bodies[q]
  BY <1>1, <1>2, FirstBody DEF Orderly, Statuses
<1>4. todo'[r] = <<>> /\ \A q \in Requests \ {r} : todo'[q] = todo[q]
  BY <1>2, AbortEffect DEF Invariant
<1>5. Inside(r)'
  BY <1>3, <1>4, StaysInside DEF Orderly, Wrappers
<1> QED
  BY <1>3, <1>4, <1>5 DEF Orderly, Measured, Moves, Placed, Still

LEMMA GoOnMoves ==
  ASSUME Invariant, Orderly, NEW r \in Requests, At(r, "jwt"), NEW to, GoOn(r, to), ChainsStay,
         request' = request, entered' = entered, log' = log,
         published' = published, cached' \subseteq Keys, rotations' = rotations,
         expired' = expired
  PROVE  Moves(r)
<1>1. bodies[r] = 0
  BY OnItsWay DEF Orderly, Wrappers
<1>2. todo' = todo /\ status' = status /\ bodies' = bodies
  BY DEF GoOn
<1>3. Inside(r)'
  BY <1>1, <1>2, StaysInside DEF Orderly, Wrappers
<1> QED
  BY <1>2, <1>3 DEF Orderly, Measured, Moves, Placed, Still

LEMMA AuthMoves ==
  ASSUME Invariant, Orderly, NEW r \in Requests,
         ReadHeader(r) \/ Verify(r) \/ FetchKeys(r) \/ CheckSubject(r)
  PROVE  ChainsStay /\ Moves(r)
<1>1. /\ ChainsStay /\ At(r, "jwt") /\ request' = request /\ entered' = entered /\ log' = log
      /\ published' = published /\ rotations' = rotations /\ expired' = expired
  BY DEF ReadHeader, Verify, FetchKeys, CheckSubject, providerVars, ChainsStay
<1>2. cached' \subseteq Keys
  BY DEF ReadHeader, Verify, FetchKeys, CheckSubject, providerVars, Orderly, Measured
<1>3. CASE Refuse(r)
  BY <1>1, <1>2, <1>3, RefuseMoves
<1>4. CASE \E to : GoOn(r, to)
  BY <1>1, <1>2, <1>4, GoOnMoves
<1>5. CASE Pass(r) /\ UNCHANGED <<status, bodies>>
  <2>1. todo[r] # <<>> /\ bodies[r] = 0
    BY <1>1, OnItsWay DEF Orderly, Wrappers, At
  <2>2. todo'[r] = Tail(todo[r]) /\ \A q \in Requests \ {r} : todo'[q] = todo[q]
    BY <1>5, <2>1, PassEffect DEF Invariant
  <2>3. Inside(r)'
    BY <1>1, <1>5, <2>1, <2>2, StaysInside DEF Orderly, Wrappers
  <2> QED
    BY <1>1, <1>2, <1>5, <2>2, <2>3 DEF Orderly, Measured, Moves, Placed, Still
<1>6. Refuse(r) \/ (\E to : GoOn(r, to)) \/ (Pass(r) /\ UNCHANGED <<status, bodies>>)
  BY DEF ReadHeader, Verify, FetchKeys, CheckSubject
<1> QED
  BY <1>1, <1>3, <1>4, <1>5, <1>6

LEMMA HandlerMoves ==
  ASSUME Invariant, Orderly, NEW r \in Requests,
         OapiRequestValidator(r) \/ dispatch(r) \/ PostV1Enrich(r) \/ Panic(r)
  PROVE  ChainsStay /\ Moves(r)
<1>1. /\ ChainsStay /\ request' = request /\ log' = log /\ published' = published
      /\ cached' = cached /\ rotations' = rotations /\ expired' = expired
  BY DEF OapiRequestValidator, dispatch, PostV1Enrich, Panic, providerVars, ChainsStay
<1>2. PICK h \in Behind : At(r, h)
  BY DEF OapiRequestValidator, dispatch, PostV1Enrich, Panic, Behind
<1>3. h \notin Wrappers
  BY DEF Behind, Wrappers
<1>4. /\ todo[r] # <<>> /\ request[r] # None /\ entered[r] = Wrapped
      /\ log[r] = <<>> /\ bodies[r] = 0 /\ Head(todo[r]) = h
  BY <1>2, <1>3, OnItsWay DEF Orderly, At
<1>5. ASSUME NEW code \in Statuses, Write(r, code)
      PROVE  /\ status' \in [Requests -> Statuses] /\ bodies' \in [Requests -> {0, 1}]
             /\ status'[r] = code /\ bodies'[r] = 1
             /\ \A q \in Requests \ {r} : status'[q] = status[q] /\ bodies'[q] = bodies[q]
  BY <1>4, <1>5, FirstBody DEF Orderly
<1>6. Pass(r) => todo'[r] = Tail(todo[r]) /\ \A q \in Requests \ {r} : todo'[q] = todo[q]
  BY <1>4, PassEffect DEF Invariant
<1>7. Abort(r) => todo'[r] = <<>> /\ \A q \in Requests \ {r} : todo'[q] = todo[q]
  BY AbortEffect DEF Invariant
<1>8. CASE OapiRequestValidator(r)
  <2>1. entered' = entered
    BY <1>8 DEF OapiRequestValidator
  <2>2. CASE Pass(r) /\ UNCHANGED <<status, bodies>>
    <3>1. Inside(r)'
      BY <1>1, <1>2, <1>3, <1>4, <1>6, <2>1, <2>2, StaysInside DEF Orderly
    <3> QED
      BY <1>1, <1>6, <2>1, <2>2, <3>1 DEF Orderly, Measured, Moves, Placed, Still
  <2>3. CASE Write(r, 400) /\ Abort(r)
    <3>0. 400 \in Statuses
      BY DEF Statuses
    <3>1. Inside(r)'
      BY <1>1, <1>2, <1>3, <1>5, <1>7, <2>1, <2>3, <3>0, StaysInside DEF Orderly
    <3> QED
      BY <1>1, <1>5, <1>7, <2>1, <2>3, <3>0, <3>1 DEF Orderly, Measured, Moves, Placed, Still
  <2> QED
    BY <1>8, <2>2, <2>3 DEF OapiRequestValidator
<1>9. CASE dispatch(r) \/ PostV1Enrich(r)
  <2>1. entered' = entered /\ Pass(r) /\ h \in {"dispatch", "PostV1Enrich"}
    BY <1>4, <1>9 DEF dispatch, PostV1Enrich, At
  <2>2. PICK code \in Statuses : Write(r, code)
    BY <1>9 DEF dispatch, PostV1Enrich, Statuses
  <2>3. Inside(r)'
    BY <1>1, <1>2, <1>3, <1>5, <1>6, <2>1, <2>2, StaysInside DEF Orderly
  <2> QED
    BY <1>1, <1>5, <1>6, <2>1, <2>2, <2>3 DEF Orderly, Measured, Moves, Placed, Still
<1>10. CASE Panic(r)
  <2>1. Write(r, 500) /\ Abort(r) /\ entered' = [entered EXCEPT ![r] = UpToRecovery(@)]
    BY <1>10 DEF Panic
  <2>2. UpToRecovery(Wrapped) = <<"recovery">>
    <3>1. \A k \in 1..Len(Wrapped) : Wrapped[k] = "recovery" <=> k = 1
      BY DEF Wrapped
    <3>2. 1 \in 1..Len(Wrapped)
      BY DEF Wrapped
    <3>3. (CHOOSE k \in 1..Len(Wrapped) : Wrapped[k] = "recovery") = 1
      BY <3>1, <3>2
    <3>4. SubSeq(Wrapped, 1, 1) = <<"recovery">>
      <4>1. /\ SubSeq(Wrapped, 1, 1) \in Seq(Handlers)
            /\ Len(SubSeq(Wrapped, 1, 1)) = 1
            /\ SubSeq(Wrapped, 1, 1)[1] = "recovery"
        <5>1. Wrapped[1] = "recovery" /\ "recovery" \in Handlers
          BY DEF Wrapped, Handlers, Wrappers
        <5>2. \A i \in 1..1 : Wrapped[i] \in Handlers
          BY <5>1
        <5>3. /\ SubSeq(Wrapped, 1, 1) \in Seq(Handlers)
              /\ Len(SubSeq(Wrapped, 1, 1)) = IF 1 <= 1 THEN 1 - 1 + 1 ELSE 0
              /\ \A i \in 1 .. 1 - 1 + 1 : SubSeq(Wrapped, 1, 1)[i] = Wrapped[1 + i - 1]
          BY <5>2, SubSeqProperties
        <5> QED
          BY <5>1, <5>3
      <4>2. <<"recovery">> \in Seq(Handlers) /\ Len(<<"recovery">>) = 1
        BY DEF Handlers, Wrappers
      <4> DEFINE some == SubSeq(Wrapped, 1, 1)
                 one == <<"recovery">>
      <4>3. one[1] = "recovery"
        OBVIOUS
      <4> HIDE DEF some, one
      <4>4. some \in Seq(Handlers) /\ one \in Seq(Handlers) /\ Len(some) = Len(one)
        BY <4>1, <4>2 DEF some, one
      <4>5. ASSUME NEW i \in 1..Len(some) PROVE some[i] = one[i]
        <5>1. i = 1
          BY <4>1 DEF some
        <5> QED
          BY <4>1, <4>3, <5>1 DEF some
      <4>6. some = one
        BY <4>4, <4>5, SeqEqual
      <4> QED
        BY <4>6 DEF some, one
    <3> QED
      BY <3>3, <3>4 DEF UpToRecovery
  <2>3. /\ entered' \in [Requests -> {<<>>, Wrapped, <<"recovery">>}]
        /\ entered'[r] = <<"recovery">> /\ \A q \in Requests \ {r} : entered'[q] = entered[q]
    BY <1>4, <2>1, <2>2 DEF Orderly, Measured
  <2>4. 500 \in Statuses
    BY DEF Statuses
  <2>5. Broken(r)'
    BY <1>1, <1>4, <1>5, <1>7, <2>1, <2>3, <2>4 DEF Broken
  <2> QED
    BY <1>1, <1>5, <1>7, <2>1, <2>3, <2>4, <2>5 DEF Orderly, Measured, Moves, Placed, Still
<1> QED
  BY <1>8, <1>9, <1>10

LEMMA InitOrderly == Init => Orderly
<1> SUFFICES ASSUME Init PROVE Orderly
  OBVIOUS
<1>1. Measured
  <2>1. <<>> \in Seq(Statuses) /\ 200 \in Statuses /\ 0 \in 0..MaxRotations
    BY KeysAssumption DEF Statuses
  <2> QED
    BY <2>1, KeysAssumption DEF Init, Measured
<1>2. \A r \in Requests : Untouched(r)
  BY DEF Init, Untouched
<1> QED
  BY <1>1, <1>2 DEF Orderly, Placed

LEMMA StepOrderly == Invariant /\ Orderly /\ [Next]_vars => Orderly'
<1> SUFFICES ASSUME Invariant, Orderly, [Next]_vars PROVE Orderly'
  OBVIOUS
<1>1. ASSUME NEW r \in Requests, ChainsStay, Moves(r) PROVE Orderly'
  BY <1>1, SamePlace DEF Moves, Orderly
<1>2. ASSUME ChainsStay, Measured', \A q \in Requests : Still(q) PROVE Orderly'
  BY <1>2, SamePlace DEF Orderly
<1>3. CASE Expire
  <2>1. PICK r \in Requests : /\ request[r] # None /\ HasBearer(request[r].header)
                              /\ expired' = expired \cup {Token(r)}
    BY <1>3 DEF Expire
  <2>2. Token(r) \in Tokens
    BY <2>1, RequestToken DEF Invariant
  <2>3. UNCHANGED <<settings, published, cached, rotations, requestVars>>
    BY <1>3 DEF Expire
  <2> QED
    BY <1>2, <2>1, <2>2, <2>3 DEF Orderly, Measured, Still, ChainsStay, requestVars
<1>4. CASE Rotate
  <2>1. rotations < MaxRotations /\ rotations' = rotations + 1 /\ published' \subseteq Keys
    BY <1>4 DEF Rotate
  <2>2. UNCHANGED <<settings, cached, expired, requestVars>>
    BY <1>4 DEF Rotate
  <2>3. rotations' \in 0..MaxRotations
    BY <2>1, KeysAssumption DEF Orderly, Measured
  <2> QED
    BY <1>2, <2>1, <2>2, <2>3 DEF Orderly, Measured, Still, ChainsStay, requestVars
<1>5. CASE UNCHANGED vars
  BY <1>2, <1>5 DEF Orderly, Measured, Still, ChainsStay, vars, requestVars, providerVars
<1>6. ASSUME NEW r \in Requests, Arrive(r) \/ Step(r) \/ FetchKeys(r) PROVE Orderly'
  <2>1. ChainsStay /\ Moves(r)
    BY <1>6, ArriveMoves, EnterMoves, LeaveMoves, FinishMoves, AuthMoves, HandlerMoves DEF Step
  <2> QED
    BY <1>1, <2>1
<1> QED
  BY <1>3, <1>4, <1>5, <1>6 DEF Next

LEMMA AlwaysOrderly == Spec => [](Invariant /\ Orderly)
BY Inductive, InitOrderly, StepOrderly, PTL DEF Spec

(***************************************************************************)
(* ServerTypeCorrect: every variable has its type; in particular no        *)
(* request gets a second body, whatever aborts, passes or panics           *)
(* (cmd/compass/server/server.go 33-73).                                   *)
(***************************************************************************)
THEOREM ServerTypeCorrect == Spec => []TypeOKServer
<1>1. Invariant /\ Orderly => TypeOKServer
  <2> SUFFICES ASSUME Invariant, Orderly PROVE TypeOKServer
    OBVIOUS
  <2>1. ASSUME NEW r \in Requests, todo[r] # <<>>
        PROVE  \E n \in 0 .. 5 :
                 todo[r] = SubSeq(Chain(request[r]), n + 1, Len(Chain(request[r])))
    <3> DEFINE c == Chain(request[r])
    <3>1. c \in Seq(Handlers) /\ Len(c) \in 3..6
      BY ChainPlaces
    <3> HIDE DEF c
    <3>2. CASE Coming(r)
      <4>1. todo[r] = SubSeq(c, 1, Len(c))
        BY <3>1, <3>2, SubSeqFull DEF Coming, c
      <4> QED
        BY <4>1 DEF c
    <3>3. CASE Inside(r)
      <4>1. PICK n \in 3..Len(c) : todo[r] = SubSeq(c, n + 1, Len(c))
        BY <3>3 DEF Inside, Rest, c
      <4>2. n # Len(c)
        BY <2>1, <4>1, RestPlaces DEF Rest, c
      <4>3. \A x \in 3..6 : \A y \in 3..x : y # x => y \in 0..5
        OBVIOUS
      <4>4. n \in 0..5
        BY <3>1, <4>2, <4>3
      <4> QED
        BY <4>1, <4>4 DEF c
    <3> QED
      BY <2>1, <3>2, <3>3 DEF Orderly, Placed, Untouched, Broken, Through
  <2>2. ASSUME NEW r \in Requests, NEW k \in 1..Len(entered[r]) PROVE entered[r][k] \in Wrappers
    <3>1. entered[r] \in {<<>>, Wrapped, <<"recovery">>}
      BY DEF Orderly, Measured
    <3>2. CASE entered[r] = <<>>
      BY <2>2, <3>2
    <3>3. CASE entered[r] = Wrapped
      BY <2>2, <3>3 DEF Wrapped, Wrappers
    <3>4. CASE entered[r] = <<"recovery">>
      BY <2>2, <3>4 DEF Wrappers
    <3> QED
      BY <3>1, <3>2, <3>3, <3>4
  <2> QED
    BY <2>1, <2>2 DEF TypeOKServer, Invariant, Typed, Orderly, Measured, Checks, Statuses
<1> QED
  BY <1>1, AlwaysOrderly, PTL

(***************************************************************************)
(* LogIsComplete: for any number of requests, whatever they bring, a       *)
(* request that is through has one line in the access log, with the status *)
(* that its client got; it has none where gin redirected or a handler      *)
(* panicked (internal/middleware/accesslog.go 12-35,                       *)
(* cmd/compass/server/server.go 34-35).                                    *)
(***************************************************************************)
THEOREM LogIsComplete == Spec => []LogTellsAnswer
<1>1. Invariant /\ Orderly => LogTellsAnswer
  <2> SUFFICES ASSUME Invariant, Orderly, NEW r \in Requests
               PROVE  /\ log[r] \in {<<>>, <<status[r]>>}
                      /\ Finished(r) /\ log[r] = <<>> => status[r] \in {307, 500}
    BY DEF LogTellsAnswer
  <2>1. Placed(r) /\ Wrapped # <<>> /\ <<"recovery">> # <<>>
    BY DEF Orderly, Wrapped
  <2>2. bodies[r] = 0 => ~Finished(r)
    BY DEF Finished
  <2>3. CASE Untouched(r) \/ Coming(r)
    BY <2>2, <2>3 DEF Untouched, Coming
  <2>4. CASE Inside(r) \/ Broken(r)
    BY <2>1, <2>4 DEF Inside, Broken, Finished
  <2>5. CASE Through(r)
    <3>1. CASE log[r] = <<status[r]>>
      <4>1. <<status[r]>> # <<>>
        OBVIOUS
      <4> QED
        BY <3>1, <4>1
    <3>2. CASE log[r] = <<>> /\ status[r] \in {307, 500}
      BY <3>2
    <3> QED
      BY <2>5, <3>1, <3>2 DEF Through
  <2> QED
    BY <2>1, <2>3, <2>4, <2>5 DEF Placed
<1> QED
  BY <1>1, AlwaysOrderly, PTL
=============================================================================
