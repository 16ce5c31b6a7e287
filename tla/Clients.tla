------------------------------ MODULE Clients ------------------------------
(***************************************************************************)
(* JSON web tokens (internal/system/jwt), and the OAuth clients they are   *)
(* issued to.                                                              *)
(*                                                                         *)
(* One key signs all tokens: assertions, sessions, access, ID and refresh  *)
(* tokens differ in their claims only.  A payload is a function from the   *)
(* names of claims to their values; scopes are sets instead of strings     *)
(* with spaces in between.                                                 *)
(***************************************************************************)
EXTENDS Integers, FiniteSets

CONSTANTS
    None,
    Issuer,           \* jwt.issuer of the deployment
    Audience,         \* jwt.audience
    DefaultValidity,  \* jwt.validity_period, in seconds
    Second,           \* what a second has of ticks of the clock
    MaxTime,          \* bound: the clock stops here
    MaxJwts           \* bound: how many tokens are signed

ASSUME JwtAssumption ==
    /\ {DefaultValidity, Second, MaxTime, MaxJwts} \subseteq Nat
    /\ Second > 0 /\ DefaultValidity > 0

VARIABLES
    now,   \* the clock, in ticks
    jwts   \* the tokens signed so far, as [claims, via, origin]: via is the
           \* operation that signed it, origin is what was granted first

Unix == now \div Second

\* The value of a field or parameter that is left out.
Blank == ""

\* Claims f and, where these say nothing, claims g.
Over(f, g) == [n \in DOMAIN f \cup DOMAIN g |-> IF n \in DOMAIN f THEN f[n] ELSE g[n]]

f ++ g == Over(f, g)

\* A claim that is left out unless the condition holds.
Claim(name, value, present) == [n \in IF present THEN {name} ELSE {} |-> value]

Has(claims, name) == name \in DOMAIN claims

\* The claims of the caller replace the ones of the server.
GenerateJWT(sub, aud, iss, validity, claims) ==
    claims ++
    [sub |-> sub, aud |-> aud, iss |-> IF iss = Blank THEN Issuer ELSE iss,
     iat |-> Unix, nbf |-> Unix,
     exp |-> Unix + IF validity = 0 THEN DefaultValidity ELSE validity]

verifyJWTClaims(claims, aud, iss) ==
    /\ Unix <= claims.exp
    /\ Unix >= claims.nbf
    /\ aud # Blank => claims.aud = aud
    /\ iss # Blank => claims.iss = iss

\* Tokens of jwts have the signature of the server; tokens of others are checked
\* against the keys their issuer publishes, which may not be had.
VerifyJWT(token, aud, iss) == token \in jwts /\ verifyJWTClaims(token.claims, aud, iss)

VerifyJWTSignatureWithJWKS(token, keys) == token.key \in keys

VerifyJWTWithJWKS(token, keys, aud, iss) ==
    /\ VerifyJWTSignatureWithJWKS(token, keys)
    /\ verifyJWTClaims(token.claims, aud, iss)

Issue(tokens) ==
    /\ Cardinality(jwts \cup tokens) <= MaxJwts
    /\ jwts' = jwts \cup tokens

Tick == now < MaxTime /\ now' = now + 1

-----------------------------------------------------------------------------
(***************************************************************************)
(* OAuth clients: how an application is checked and completed when it is   *)
(* created (internal/application), dynamic registration on top of it       *)
(* (oauth/oauth2/dcr), and how a client proves who it is at the token      *)
(* endpoint (oauth/oauth2/clientauth).  A secret is named by the client it *)
(* was made for.                                                           *)
(***************************************************************************)

CONSTANTS
    Clients,       \* client IDs
    AppIDs,        \* the ID of the application of each client
    UserTypes,     \* the names of the user schemas
    Flows,         \* the IDs of the flow graphs
    GoodUris,      \* absolute URIs with a host and without a fragment
    DefaultFlow    \* flow.authn.default_flow

VARIABLE apps      \* what the application store has of each client, or None

GrantTypes == {"authorization_code", "client_credentials", "refresh_token", "token_exchange"}
AuthMethods == {"client_secret_basic", "client_secret_post", "none"}

\* Grants, responses and method get their defaults.
WithDefaults(c) ==
    LET grants == IF c.grants = {} THEN {"authorization_code"} ELSE c.grants
    IN  [c EXCEPT !.grants = grants,
           !.responses = IF @ = {} /\ "authorization_code" \in grants THEN {"code"} ELSE @,
           !.method = IF @ = Blank THEN "client_secret_basic" ELSE @]

ValidRedirects(c) ==
    /\ c.redirects \subseteq GoodUris
    /\ "authorization_code" \in c.grants => c.redirects # {}

ValidGrants(c) ==
    /\ c.grants \subseteq GrantTypes
    /\ c.responses \subseteq {"code"}
    /\ c.grants = {"client_credentials"} => c.responses = {}
    /\ "authorization_code" \in c.grants => "code" \in c.responses

ValidMethod(c) ==
    /\ c.method \in AuthMethods
    /\ "client_credentials" \in c.grants => c.method # "none"

ValidPublic(c) ==
    /\ c.method = "none"
    /\ "client_credentials" \notin c.grants
    /\ c.secret = Blank
    /\ c.pkce

ValidOAuth(c) ==
    /\ ValidRedirects(c) /\ ValidGrants(c) /\ ValidMethod(c)
    /\ c.public => ValidPublic(c)

\* The flow of registration is the one that goes with the flow of authentication.
FlowIsValid(a) ==
    /\ a.flow \in Flows \cup {Blank}
    /\ a.registration \in Flows \cup {Blank}

\* Fault: the secret remains what the request says, which is none for registrations.
SecretAsGiven(c, id) == c.secret

\* Confidential clients without a secret are given one.
ClientSecret(c, id) == IF c.secret = Blank /\ ~c.public THEN id ELSE c.secret

\* What the parts of the configuration of tokens leave out is taken from the one of
\* the application, what that leaves out from the deployment.
TokenConfiguration(t) ==
    LET root == [issuer |-> IF t.issuer = Blank THEN Issuer ELSE t.issuer,
                 validity |-> IF t.validity = 0 THEN DefaultValidity ELSE t.validity,
                 attributes |-> t.attributes]
        Part(p) == IF p = None THEN [validity |-> root.validity, attributes |-> root.attributes]
                   ELSE [p EXCEPT !.validity = IF @ = 0 THEN root.validity ELSE @]
    IN  [root |-> root, issuer |-> IF t.oauthIssuer = Blank THEN root.issuer ELSE t.oauthIssuer,
         access |-> Part(t.access), id |-> Part(t.id),
         scopeClaims |-> IF t.id = None THEN <<>> ELSE t.scopeClaims]

NoTokenConfig ==
    [issuer |-> Blank, oauthIssuer |-> Blank, validity |-> 0, attributes |-> {}, access |-> None,
     id |-> None, scopeClaims |-> <<>>]

\* Application a with OAuth configuration c, completed, under the client ID id.
ValidApplication(a, c) ==
    /\ \A i \in Clients : apps[i] # None => apps[i].name # a.name
    /\ ValidOAuth(c)
    /\ FlowIsValid(a)
    /\ a.userTypes \subseteq UserTypes

Completed(a, c, id) ==
    [name |-> a.name, appID |-> AppIDs[id], client |-> id, secret |-> ClientSecret(c, id),
     method |-> c.method, grants |-> c.grants, responses |-> c.responses,
     redirects |-> c.redirects, pkce |-> c.pkce, public |-> c.public,
     flow |-> IF a.flow = Blank THEN DefaultFlow ELSE a.flow, token |-> TokenConfiguration(a.token)]

\* Dynamic registration: a client that names the method none is public.
FromDCR(r) ==
    [redirects |-> r.redirects, grants |-> r.grants, responses |-> r.responses,
     method |-> r.method, public |-> r.method = "none", pkce |-> r.method = "none", secret |-> Blank]

DCRApplication(r, id) ==
    [name |-> IF r.name = Blank THEN id ELSE r.name, flow |-> Blank, registration |-> Blank,
     userTypes |-> {}, token |-> NoTokenConfig]

RegisterClient(r, id) ==
    LET a == DCRApplication(r, id)
        c == WithDefaults(FromDCR(r))
    IN  /\ apps[id] = None
        /\ ~(r.jwks /\ r.jwksUri)
        /\ ValidApplication(a, c)
        /\ apps' = [apps EXCEPT ![id] = Completed(a, c, id)]

-----------------------------------------------------------------------------
(* The token endpoint.  A request names a client and a secret in the        *)
(* header, in the body or in both; what is left out is Blank.               *)

MethodOf(q) ==
    IF q.bodyID # Blank THEN IF q.bodySecret # Blank THEN "client_secret_post" ELSE "none"
    ELSE IF q.headerID # Blank /\ q.headerSecret # Blank THEN "client_secret_basic" ELSE Blank

ClientOf(q) == IF q.bodyID # Blank THEN q.bodyID ELSE q.headerID

SecretOf(q) == IF q.bodyID # Blank /\ q.bodySecret # Blank THEN q.bodySecret ELSE q.headerSecret

\* The hashes are compared; public clients have none stored.
ValidateCredentials(app, q) == ~app.public /\ SecretOf(q) = app.secret

Authenticated(q) ==
    /\ ~({q.headerID, q.headerSecret} # {Blank} /\ {q.bodyID, q.bodySecret} # {Blank})
    /\ ClientOf(q) # Blank
    /\ SecretOf(q) = Blank => MethodOf(q) = "none"
    /\ ClientOf(q) \in Clients /\ apps[ClientOf(q)] # None
    /\ LET app == apps[ClientOf(q)]
       IN  /\ MethodOf(q) = app.method
           /\ MethodOf(q) # "none" => ValidateCredentials(app, q)

\* All the ways to present client id with secret s.
Presentations(id, s) ==
    {[headerID |-> id, headerSecret |-> s, bodyID |-> Blank, bodySecret |-> Blank],
     [headerID |-> Blank, headerSecret |-> Blank, bodyID |-> id, bodySecret |-> s],
     [headerID |-> id, headerSecret |-> s, bodyID |-> id, bodySecret |-> Blank]}

\* The ways to say who asks, right and wrong.
Proofs == UNION {UNION {Presentations(id, s) : s \in Clients \cup {Blank}} : id \in Clients}

\* There is a way for client id to be accepted, with a secret or without.
MayAuthenticate(id, withSecret) ==
    \E p \in Presentations(id, IF withSecret THEN apps[id].secret ELSE Blank) :
        Authenticated(p) /\ (SecretOf(p) # Blank <=> withSecret)
=============================================================================
