--------------------------- MODULE IdentityProofs ---------------------------
(***************************************************************************)
(* Proofs about clients, tokens and authentications, for any number of     *)
(* tokens, clients, users and providers: what a token can be good for      *)
(* whatever it went through, what user info tells, how clients             *)
(* authenticate, what an assertion says and how long a one-time password   *)
(* lasts.                                                                  *)
(***************************************************************************)
EXTENDS Identity, FiniteSetTheorems, TLAPS

-----------------------------------------------------------------------------
(* The inductive invariant.                                                *)

AppFields == {"client", "secret", "public", "method", "grants", "token"}

\* What holds of an application from the day it is registered.
AppKept(app, id) ==
    /\ AppFields \subseteq DOMAIN app
    /\ app.client = id
    /\ app.secret = IF app.public THEN Blank ELSE id
    /\ app.method \in AuthMethods
    /\ app.public => app.method = "none"
    /\ app.grants \subseteq GrantTypes

AppsKept ==
    /\ DOMAIN apps = Clients
    /\ \A id \in Clients : apps[id] # None => AppKept(apps[id], id)

\* A grant was made to a user or to a client.
OriginKept(o) ==
    /\ o.kind \in {"user", "client"}
    /\ o.kind = "user" => o.who \in Users
    /\ o.kind = "client" => o.who \in Clients
    /\ o.client \in Clients \cup {Blank}

\* Attributes as they are copied from token to token: none of them is a claim that the
\* server relies on, and the one named sub is a name of the user.
AttributesKept(f, o) ==
    /\ DOMAIN f \cap ReservedClaims = {}
    /\ "sub" \in DOMAIN f => f.sub \in Names(o)

\* Claims c of a token that goes back to grant o, those included that say what a later
\* token is going to have.
WithinGrant(c, o) ==
    /\ c.sub \in Names(o)
    /\ Has(c, "scope") => c.scope \subseteq o.scopes
    /\ Has(c, "authorized_permissions") => c.authorized_permissions \subseteq o.scopes
    /\ Has(c, "access_token_sub") => c.access_token_sub \in Names(o)
    /\ Has(c, "access_token_user_attributes") => AttributesKept(c.access_token_user_attributes, o)

\* Claims of a session, and of what sessions are exchanged for, say nothing of a grant.
Bare(c) == ~Has(c, "access_token_sub") /\ ~Has(c, "assurance")

Authenticators ==
    {"CredentialsAuthenticator", "SMSOTPAuthenticator", "OAuthAuthenticator", "OIDCAuthenticator",
     "GoogleOIDCAuthenticator", "GithubOAuthAuthenticator"}

\* User u passed authenticator r.
Passed(u, r) == \E p \in passed : p.user = u /\ StandsFor(p.by, r)

\* An assurance, also when it was copied by an exchange, is that of the user of the grant.
AssuranceKept(c, o) ==
    Has(c, "assurance") =>
        LET refs == c.assurance.authenticators
        IN  /\ o.kind = "user" /\ o.client = Blank
            /\ refs \in Seq(Authenticators)
            /\ c.assurance.aal = calculateAAL(refs)
            /\ \A i \in DOMAIN refs : Passed(o.who, refs[i])

\* A session made at time n for a one-time password.
OtpSessionOf(c, n) ==
    LET left == Seconds(c.otp_data.expiry - n)
    IN  /\ c.aud = "otp-svc" /\ c.iss = Issuer
        /\ c.nbf = n \div Second
        /\ c.exp = n \div Second + IF left = 0 THEN DefaultValidity ELSE left

\* A provider that a session or a call names.
ProviderKept(p) == p.idp \in Idps /\ p.type \in IdpTypes

SessionKept(t) ==
    /\ Has(t.claims, "auth_data") => ProviderKept(t.claims.auth_data)
    /\ Has(t.claims, "otp_data") =>
          t.claims.otp_data.recipient \in Users /\ t.claims.otp_data.expiry \in Nat
    /\ t.via = "session" /\ Has(t.claims, "otp_data") =>
          \E n \in 0..now : OtpSessionOf(t.claims, n)

TokenKept(t) ==
    /\ \/ t.origin = None /\ Bare(t.claims)
       \/ OriginKept(t.origin) /\ WithinGrant(t.claims, t.origin)
    /\ AssuranceKept(t.claims, t.origin)
    /\ SessionKept(t)
    /\ Has(t.claims, "client_id") => t.claims.client_id \in Clients
    /\ t.via = "assertion" => Has(t.claims, "assurance")

\* What the call in progress has found out.
CallKept ==
    /\ call.pc \in {"idle", "sent", "exchanging", "answered", "identified"}
    /\ call.pc = "sent" => call.recipient \in Users /\ call.expiry \in Nat
    /\ call.pc \in {"exchanging", "answered"} => ProviderKept(call)
    /\ call.pc = "answered" =>
          /\ call.from \in IdpTypes
          /\ call.idToken # None /\ call.idToken.claims.iss = "google" => call.from = "GOOGLE"
    /\ call.pc = "identified" =>
          call.user \in Users /\ call.by \in Authenticators /\ Passed(call.user, call.by)
    /\ call.pc \in {"exchanging", "answered", "identified"} => call.existing \in jwts \cup {None}

IInv ==
    /\ now \in Nat
    /\ users \subseteq Users
    /\ idps \in [Idps -> ProviderTypes \cup {None}]
    /\ AppsKept
    /\ \A t \in jwts : TokenKept(t)
    /\ CallKept

-----------------------------------------------------------------------------
(* Claims over claims.                                                     *)

\* Claims f over claims g: where f says nothing, g does.
LEMMA OverIs ==
    ASSUME NEW f, NEW g, NEW n
    PROVE  /\ n \in DOMAIN Over(f, g) <=> n \in DOMAIN f \/ n \in DOMAIN g
           /\ n \in DOMAIN f => Over(f, g)[n] = f[n]
           /\ n \in DOMAIN g /\ n \notin DOMAIN f => Over(f, g)[n] = g[n]
BY DEF Over

\* A claim that may be left out.
LEMMA ClaimIs ==
    ASSUME NEW name, NEW value, NEW present \in BOOLEAN
    PROVE  \A n : /\ n \in DOMAIN Claim(name, value, present) <=> present /\ n = name
                  /\ n \in DOMAIN Claim(name, value, present) =>
                        Claim(name, value, present)[n] = value
BY DEF Claim

ServerClaims == {"sub", "aud", "iss", "iat", "nbf", "exp"}

\* What a token says that was not among the claims of the caller.
LEMMA JwtClaims ==
    ASSUME NEW sub, NEW aud, NEW iss, NEW validity, NEW claims
    PROVE  LET c == GenerateJWT(sub, aud, iss, validity, claims)
           IN  /\ \A n : n \in DOMAIN c <=> n \in DOMAIN claims \/ n \in ServerClaims
               /\ \A n \in DOMAIN claims : c[n] = claims[n]
               /\ "sub" \notin DOMAIN claims => c["sub"] = sub
               /\ "aud" \notin DOMAIN claims => c["aud"] = aud
               /\ "iss" \notin DOMAIN claims => c["iss"] = IF iss = Blank THEN Issuer ELSE iss
               /\ "nbf" \notin DOMAIN claims => c["nbf"] = Unix
<1> DEFINE issuer == IF iss = Blank THEN Issuer ELSE iss
           expiry == Unix + IF validity = 0 THEN DefaultValidity ELSE validity
           server == [sub |-> sub, aud |-> aud, iss |-> issuer, iat |-> Unix, nbf |-> Unix,
                      exp |-> expiry]
           c == GenerateJWT(sub, aud, iss, validity, claims)
<1>1. c = Over(claims, server)
  BY DEF GenerateJWT, ++
<1> HIDE DEF issuer, expiry, c
<1>2. \A n : n \in DOMAIN server <=> n \in ServerClaims
  BY DEF ServerClaims
<1>3. /\ server["sub"] = sub /\ server["aud"] = aud /\ server["iss"] = issuer
      /\ server["nbf"] = Unix
  OBVIOUS
<1> HIDE DEF server
<1>4. \A n : n \in DOMAIN c <=> n \in DOMAIN claims \/ n \in ServerClaims
  BY <1>1, <1>2, OverIs
<1>5. \A n \in DOMAIN claims : c[n] = claims[n]
  BY <1>1, OverIs
<1>6. \A n \in ServerClaims : n \notin DOMAIN claims => c[n] = server[n]
  BY <1>1, <1>2, OverIs
<1>7. /\ "sub" \notin DOMAIN claims => c["sub"] = sub
      /\ "aud" \notin DOMAIN claims => c["aud"] = aud
      /\ "iss" \notin DOMAIN claims => c["iss"] = issuer
      /\ "nbf" \notin DOMAIN claims => c["nbf"] = Unix
  BY <1>3, <1>6 DEF ServerClaims
<1> QED
  BY <1>4, <1>5, <1>7 DEF issuer, c

\* When a token ends.
LEMMA JwtExpiry ==
    ASSUME NEW sub, NEW aud, NEW iss, NEW validity, NEW claims, ~Has(claims, "exp")
    PROVE  GenerateJWT(sub, aud, iss, validity, claims)["exp"] =
              Unix + IF validity = 0 THEN DefaultValidity ELSE validity
<1> DEFINE expiry == Unix + IF validity = 0 THEN DefaultValidity ELSE validity
           server == [sub |-> sub, aud |-> aud, iss |-> IF iss = Blank THEN Issuer ELSE iss,
                      iat |-> Unix, nbf |-> Unix, exp |-> expiry]
<1>1. GenerateJWT(sub, aud, iss, validity, claims) = Over(claims, server)
  BY DEF GenerateJWT, ++
<1> HIDE DEF expiry
<1>2. "exp" \in DOMAIN server /\ server["exp"] = expiry
  OBVIOUS
<1> HIDE DEF server
<1>3. Over(claims, server)["exp"] = expiry
  BY <1>2, OverIs DEF Has
<1> QED
  BY <1>1, <1>3 DEF expiry

-----------------------------------------------------------------------------
(* What the builders make of claims.                                       *)

\* Attributes in an access token are those it was given, except for groups.
LEMMA AccessAttributesAre ==
    ASSUME NEW attrs, NEW groups, NEW app
    PROVE  LET f == AccessAttributes(attrs, groups, app)
           IN  \A n \in DOMAIN f : n # "groups" => n \in DOMAIN attrs /\ f[n] = attrs[n]
<1> DEFINE listed == app.token.access.attributes
           first == Claim("groups", groups, groups # {} /\ "groups" \in listed)
           kept == IF listed # {} THEN Restrict(attrs, listed \cap DOMAIN attrs) ELSE attrs
<1>1. AccessAttributes(attrs, groups, app) = Over(first, kept)
  BY DEF AccessAttributes, ++
<1>2. \A n \in DOMAIN first : n = "groups"
  BY DEF Claim
<1>3. \A n \in DOMAIN kept : n \in DOMAIN attrs /\ kept[n] = attrs[n]
  <2>1. CASE listed # {}
    <3>1. kept = [n \in listed \cap DOMAIN attrs |-> attrs[n]]
      BY <2>1 DEF Restrict
    <3> QED
      BY <3>1
  <2>2. CASE listed = {}
    BY <2>2
  <2> QED
    BY <2>1, <2>2
<1> HIDE DEF first, kept
<1> QED
  BY <1>1, <1>2, <1>3, OverIs

\* The claims of an access token: the attributes, or else what the grant says.
LEMMA AccessTokenClaims ==
    ASSUME NEW ctx
    PROVE  LET c == BuildAccessToken(ctx).claims
               f == AccessAttributes(ctx.attrs, ctx.groups, ctx.app)
           IN  /\ \A n \in DOMAIN c : n \in DOMAIN f \/ n \in ServerClaims \/
                      n \in {"userType", "act", "scope", "client_id", "grant_type"}
               /\ \A n \in DOMAIN f : n \notin {"userType", "act"} => n \in DOMAIN c /\ c[n] = f[n]
               /\ "sub" \notin DOMAIN f => c["sub"] = ctx.sub
               /\ "scope" \in DOMAIN c /\ "scope" \notin DOMAIN f => c["scope"] = ctx.scopes
               /\ "client_id" \notin DOMAIN f => c["client_id"] = ctx.app.client
<1> DEFINE f == AccessAttributes(ctx.attrs, ctx.groups, ctx.app)
           type == Claim("userType", ctx.userType, ctx.userType # Blank)
           act == Claim("act", IF ctx.actor = None THEN None ELSE ActorClaim(ctx.actor),
                        ctx.actor # None)
           scope == Claim("scope", ctx.scopes, ctx.scopes # {})
           rest == [client_id |-> ctx.app.client, grant_type |-> ctx.grant]
           claims == Over(Over(Over(Over(type, act), f), scope), rest)
           conf == resolveTokenConfig(ctx.app, "access")
           c == BuildAccessToken(ctx).claims
<1>1. c = GenerateJWT(ctx.sub, ctx.aud, conf.issuer, conf.validity, claims)
  BY DEF BuildAccessToken, ++
<1>2. /\ \A n \in DOMAIN type : n = "userType"
      /\ \A n \in DOMAIN act : n = "act"
      /\ \A n \in DOMAIN scope : n = "scope" /\ scope[n] = ctx.scopes
  BY DEF Claim
<1>3. /\ \A n : n \in DOMAIN rest <=> n \in {"client_id", "grant_type"}
      /\ rest["client_id"] = ctx.app.client
  OBVIOUS
<1> HIDE DEF f, type, act, scope, rest
<1>4. /\ \A n : n \in DOMAIN claims <=>
            \/ n \in DOMAIN type \/ n \in DOMAIN act \/ n \in DOMAIN f
            \/ n \in DOMAIN scope \/ n \in DOMAIN rest
      /\ \A n \in DOMAIN f : n \notin {"userType", "act"} => claims[n] = f[n]
      /\ "scope" \in DOMAIN scope /\ "scope" \notin DOMAIN f => claims["scope"] = ctx.scopes
      /\ "client_id" \notin DOMAIN f => claims["client_id"] = ctx.app.client
  BY <1>2, <1>3, OverIs
<1> HIDE DEF claims, c
<1>5. /\ \A n : n \in DOMAIN c <=> n \in DOMAIN claims \/ n \in ServerClaims
      /\ \A n \in DOMAIN claims : c[n] = claims[n]
      /\ "sub" \notin DOMAIN claims => c["sub"] = ctx.sub
  <2> HIDE DEF conf
  <2> QED
    BY <1>1, JwtClaims
<1>6. "scope" \in DOMAIN c /\ "scope" \notin DOMAIN f => "scope" \in DOMAIN scope
  BY <1>2, <1>3, <1>4, <1>5 DEF ServerClaims
<1>7. "sub" \notin DOMAIN f => "sub" \notin DOMAIN claims
  BY <1>2, <1>3, <1>4
<1> QED
  BY <1>2, <1>3, <1>4, <1>5, <1>6, <1>7 DEF f, c

\* The claims of a refresh token: its subject is the client, and what the access token
\* said is kept under other names.
LEMMA RefreshTokenClaims ==
    ASSUME NEW ctx
    PROVE  LET c == BuildRefreshToken(ctx).claims
           IN  /\ \A n \in DOMAIN c : n \in ServerClaims \/
                      n \in {"userType", "access_token_user_attributes", "scope",
                             "access_token_sub", "access_token_aud", "grant_type"}
               /\ c["sub"] = ctx.app.client
               /\ c["access_token_sub"] = ctx.sub
               /\ "scope" \in DOMAIN c => c["scope"] = ctx.scopes
               /\ "access_token_user_attributes" \in DOMAIN c =>
                     c["access_token_user_attributes"] =
                     AccessAttributes(ctx.attrs, ctx.groups, ctx.app)
<1> DEFINE f == AccessAttributes(ctx.attrs, ctx.groups, ctx.app)
           type == Claim("userType", ctx.userType, ctx.userType # Blank)
           attributes == Claim("access_token_user_attributes", f,
                               ctx.app.token.access.attributes # {} /\ f # <<>>)
           scope == Claim("scope", ctx.scopes, ctx.scopes # {})
           rest == [access_token_sub |-> ctx.sub, access_token_aud |-> ctx.aud,
                    grant_type |-> ctx.grant]
           claims == Over(Over(Over(type, attributes), scope), rest)
           conf == resolveTokenConfig(ctx.app, "refresh")
           c == BuildRefreshToken(ctx).claims
<1>1. c = GenerateJWT(ctx.app.client, conf.issuer, conf.issuer, conf.validity, claims)
  BY DEF BuildRefreshToken, ++
<1>2. /\ \A n \in DOMAIN type : n = "userType"
      /\ \A n \in DOMAIN attributes :
            n = "access_token_user_attributes" /\ attributes[n] = f
      /\ \A n \in DOMAIN scope : n = "scope" /\ scope[n] = ctx.scopes
  <2> HIDE DEF f
  <2> QED
    BY DEF Claim
<1>3. /\ \A n : n \in DOMAIN rest <=>
            n \in {"access_token_sub", "access_token_aud", "grant_type"}
      /\ rest["access_token_sub"] = ctx.sub
  OBVIOUS
<1> HIDE DEF f, type, attributes, scope, rest
<1>4. /\ \A n \in DOMAIN claims : \/ n \in DOMAIN type \/ n \in DOMAIN attributes
                                  \/ n \in DOMAIN scope \/ n \in DOMAIN rest
      /\ "access_token_sub" \in DOMAIN claims /\ claims["access_token_sub"] = ctx.sub
      /\ "scope" \in DOMAIN claims => claims["scope"] = ctx.scopes
      /\ "access_token_user_attributes" \in DOMAIN claims =>
            claims["access_token_user_attributes"] = f
  BY <1>2, <1>3, OverIs
<1> HIDE DEF claims, c
<1>5. /\ \A n : n \in DOMAIN c <=> n \in DOMAIN claims \/ n \in ServerClaims
      /\ \A n \in DOMAIN claims : c[n] = claims[n]
      /\ "sub" \notin DOMAIN claims => c["sub"] = ctx.app.client
  <2> HIDE DEF conf
  <2> QED
    BY <1>1, JwtClaims
<1>6. "sub" \notin DOMAIN claims
  BY <1>2, <1>3, <1>4
<1>7. /\ "scope" \in DOMAIN c => "scope" \in DOMAIN claims
      /\ "access_token_user_attributes" \in DOMAIN c =>
            "access_token_user_attributes" \in DOMAIN claims
  BY <1>5 DEF ServerClaims
<1>8. \A n \in DOMAIN c : n \in ServerClaims \/
          n \in {"userType", "access_token_user_attributes", "scope",
                 "access_token_sub", "access_token_aud", "grant_type"}
  BY <1>2, <1>3, <1>4, <1>5
<1> QED
  BY <1>4, <1>5, <1>6, <1>7, <1>8 DEF f, c

\* The attributes an ID token may have are those of the user and its groups.
LEMMA WithGroupsIs ==
    ASSUME NEW u, NEW app
    PROVE  LET f == WithGroups(u, app)
           IN  \A n \in DOMAIN f : n # "groups" =>
                  n \in DOMAIN Attributes[u] /\ f[n] = Attributes[u][n]
<1> DEFINE groups == Claim("groups", GroupsOf[u], GroupsOf[u] # {} /\
                                                 "groups" \in app.token.id.attributes)
<1>1. WithGroups(u, app) = Over(groups, Attributes[u])
  BY DEF WithGroups, ++
<1>2. \A n \in DOMAIN groups : n = "groups"
  BY DEF Claim
<1> HIDE DEF groups
<1> QED
  BY <1>1, <1>2, OverIs

\* Claims that scopes stand for are some of the attributes there are, and each of them
\* belongs to one of the scopes.
LEMMA OIDCClaimsAre ==
    ASSUME NEW scopes, NEW attrs, NEW app
    PROVE  LET f == BuildOIDCClaimsFromScopes(scopes, attrs, app)
           IN  \A n \in DOMAIN f : /\ n \in DOMAIN attrs /\ f[n] = attrs[n]
                                   /\ \E s \in scopes : n \in ClaimsOfScope(s, app)
<1> DEFINE names == (UNION {ClaimsOfScope(s, app) : s \in scopes}) \cap
                    app.token.id.attributes \cap DOMAIN attrs
<1>1. BuildOIDCClaimsFromScopes(scopes, attrs, app) = [n \in names |-> attrs[n]]
  BY DEF BuildOIDCClaimsFromScopes, Restrict
<1>2. \A n \in names : n \in DOMAIN attrs /\ \E s \in scopes : n \in ClaimsOfScope(s, app)
  <2> TAKE n \in names
  <2>1. n \in DOMAIN attrs /\ n \in UNION {ClaimsOfScope(s, app) : s \in scopes}
    OBVIOUS
  <2> HIDE DEF names
  <2> QED
    BY <2>1, Zenon
<1> HIDE DEF names
<1> QED
  BY <1>1, <1>2

\* The claims of an ID token: attributes of the user, or what the server says.
LEMMA IdTokenClaims ==
    ASSUME NEW ctx
    PROVE  LET c == BuildIDToken(ctx).claims
               f == Attributes[ctx.sub]
           IN  /\ \A n \in DOMAIN c : n \in ServerClaims \/ n \in DOMAIN f \/
                      n \in {"userType", "groups", "auth_time"}
               /\ c["sub"] = ctx.sub \/ ("sub" \in DOMAIN f /\ c["sub"] = f["sub"])
<1> DEFINE f == Attributes[ctx.sub]
           type == Claim("userType", ctx.userType, ctx.userType # Blank)
           all == WithGroups(ctx.sub, ctx.app)
           oidc == BuildOIDCClaimsFromScopes(ctx.scopes, all, ctx.app)
           rest == [auth_time |-> Unix]
           claims == Over(Over(type, oidc), rest)
           conf == resolveTokenConfig(ctx.app, "id")
           c == BuildIDToken(ctx).claims
<1>1. c = GenerateJWT(ctx.sub, ctx.app.client, conf.issuer, conf.validity, claims)
  BY DEF BuildIDToken, ++
<1>2. \A n \in DOMAIN type : n = "userType"
  BY DEF Claim
<1>3. \A n \in DOMAIN oidc : n # "groups" => n \in DOMAIN f /\ oidc[n] = f[n]
  <2> HIDE DEF f
  <2>1. \A n \in DOMAIN all : n # "groups" => n \in DOMAIN f /\ all[n] = f[n]
    BY WithGroupsIs DEF f
  <2> HIDE DEF all
  <2> QED
    BY <2>1, OIDCClaimsAre
<1>4. \A n : n \in DOMAIN rest <=> n = "auth_time"
  OBVIOUS
<1> HIDE DEF f, type, oidc, rest
<1>5. /\ \A n \in DOMAIN claims : n \in DOMAIN type \/ n \in DOMAIN oidc \/ n \in DOMAIN rest
      /\ \A n \in DOMAIN claims :
            n \notin DOMAIN type /\ n \in DOMAIN oidc => claims[n] = oidc[n]
  BY <1>2, <1>4, OverIs
<1> HIDE DEF claims, c
<1>6. /\ \A n : n \in DOMAIN c <=> n \in DOMAIN claims \/ n \in ServerClaims
      /\ \A n \in DOMAIN claims : c[n] = claims[n]
      /\ "sub" \notin DOMAIN claims => c["sub"] = ctx.sub
  <2> HIDE DEF conf
  <2> QED
    BY <1>1, JwtClaims
<1>7. "sub" \in DOMAIN claims => "sub" \in DOMAIN f /\ claims["sub"] = f["sub"]
  BY <1>2, <1>3, <1>4, <1>5
<1>8. \A n \in DOMAIN c : n \in ServerClaims \/ n \in DOMAIN f \/
          n \in {"userType", "groups", "auth_time"}
  BY <1>2, <1>3, <1>4, <1>5, <1>6
<1>9. c["sub"] = ctx.sub \/ ("sub" \in DOMAIN f /\ c["sub"] = f["sub"])
  BY <1>6, <1>7
<1> QED
  BY <1>8, <1>9 DEF f, c

-----------------------------------------------------------------------------
(* The tokens that the grants sign keep the invariant.                     *)

\* Attributes that say no more than grant o does.
AttributesWithin(f, o) ==
    /\ Has(f, "sub") => f.sub \in Names(o)
    /\ Has(f, "authorized_permissions") => f.authorized_permissions \subseteq o.scopes
    /\ Has(f, "access_token_sub") => f.access_token_sub \in Names(o)
    /\ Has(f, "access_token_user_attributes") => AttributesKept(f.access_token_user_attributes, o)

\* Claims that a token may take over as attributes.
Carried(f, o) ==
    /\ ~Has(f, "scope") /\ ~Has(f, "client_id")
    /\ AssuranceKept(f, o)
    /\ Has(f, "auth_data") => ProviderKept(f.auth_data)
    /\ Has(f, "otp_data") => f.otp_data.recipient \in Users /\ f.otp_data.expiry \in Nat

\* Some of the claims that may be taken over, and groups, may be taken over.
LEMMA CarriedPart ==
    ASSUME NEW f, NEW g, NEW o, Carried(f, o),
           \A n \in DOMAIN g : n # "groups" => n \in DOMAIN f /\ g[n] = f[n]
    PROVE  /\ Carried(g, o)
           /\ AttributesWithin(f, o) => AttributesWithin(g, o)
           /\ Bare(f) => Bare(g)
<1>1. \A n : n # "groups" /\ Has(g, n) => Has(f, n) /\ g[n] = f[n]
  BY DEF Has
<1>2. AssuranceKept(g, o)
  <2>1. Has(g, "assurance") => Has(f, "assurance") /\ g["assurance"] = f["assurance"]
    BY <1>1
  <2> QED
    BY <2>1 DEF Carried, AssuranceKept
<1>3. AttributesWithin(f, o) => AttributesWithin(g, o)
  BY <1>1 DEF AttributesWithin
<1>4. Bare(f) => Bare(g)
  BY <1>1 DEF Bare
<1> QED
  BY <1>1, <1>2, <1>3, <1>4 DEF Carried

\* Attributes of a user may be taken over.
LEMMA AttributesCarried ==
    ASSUME NEW f, NEW o, AttributesKept(f, o)
    PROVE  Carried(f, o) /\ AttributesWithin(f, o)
BY DEF AttributesKept, Carried, AttributesWithin, ReservedClaims, Has, AssuranceKept

\* What an exchange takes from a token may be taken over, and says no more than the
\* token did.
LEMMA ExtractedCarried ==
    ASSUME NEW t, TokenKept(t)
    PROVE  LET g == ExtractUserAttributes(t.claims)
           IN  /\ Carried(g, t.origin)
               /\ WithinGrant(t.claims, t.origin) => AttributesWithin(g, t.origin)
               /\ Bare(t.claims) => Bare(g)
<1> DEFINE g == ExtractUserAttributes(t.claims)
           f == t.claims
           o == t.origin
<1>1. \A n : Has(g, n) => Has(f, n) /\ n \notin StandardClaims /\ g[n] = f[n]
  BY DEF ExtractUserAttributes, Restrict, Has
<1>2. ~Has(g, "scope") /\ ~Has(g, "client_id") /\ ~Has(g, "sub")
  BY <1>1 DEF StandardClaims
<1> HIDE DEF g, f, o
<1>3. AssuranceKept(g, o)
  <2>1. Has(g, "assurance") => Has(f, "assurance") /\ g["assurance"] = f["assurance"]
    BY <1>1
  <2>2. AssuranceKept(f, o)
    BY DEF TokenKept, f, o
  <2> QED
    BY <2>1, <2>2 DEF AssuranceKept
<1>4. WithinGrant(f, o) => AttributesWithin(g, o)
  BY <1>1, <1>2 DEF WithinGrant, AttributesWithin
<1>5. Bare(f) => Bare(g)
  BY <1>1 DEF Bare
<1>6. /\ Has(g, "auth_data") => ProviderKept(g.auth_data)
      /\ Has(g, "otp_data") => g.otp_data.recipient \in Users /\ g.otp_data.expiry \in Nat
  <2>1. SessionKept(t)
    BY DEF TokenKept
  <2> QED
    BY <1>1, <2>1 DEF SessionKept, f
<1>7. Carried(g, o)
  BY <1>2, <1>3, <1>6 DEF Carried
<1> QED
  BY <1>4, <1>5, <1>7 DEF g, f, o

\* A subject and scopes that a token of grant o may have.
Granted(sub, scopes, o) == OriginKept(o) /\ sub \in Names(o) /\ scopes \subseteq o.scopes

\* An access token keeps the invariant if it stays within its grant and its attributes
\* may be taken over.
LEMMA AccessTokenKept ==
    ASSUME NEW ctx, Carried(ctx.attrs, ctx.origin),
           \/ Granted(ctx.sub, ctx.scopes, ctx.origin) /\ AttributesWithin(ctx.attrs, ctx.origin)
           \/ ctx.origin = None /\ Bare(ctx.attrs),
           ctx.app.client \in Clients, ctx.via \notin {"assertion", "session"}
    PROVE  TokenKept(BuildAccessToken(ctx))
<1> DEFINE t == BuildAccessToken(ctx)
           c == t.claims
           f == AccessAttributes(ctx.attrs, ctx.groups, ctx.app)
           o == ctx.origin
           more == {"userType", "act", "scope", "client_id", "grant_type"}
<1>1. t.origin = o /\ t.via = ctx.via
  BY DEF BuildAccessToken
<1>2. /\ Carried(f, o)
      /\ AttributesWithin(ctx.attrs, o) => AttributesWithin(f, o)
      /\ Bare(ctx.attrs) => Bare(f)
  BY AccessAttributesAre, CarriedPart
<1>3. /\ \A n \in DOMAIN c : n \in DOMAIN f \/ n \in ServerClaims \/ n \in more
      /\ \A n \in DOMAIN f : n \notin {"userType", "act"} => n \in DOMAIN c /\ c[n] = f[n]
      /\ "sub" \notin DOMAIN f => c["sub"] = ctx.sub
      /\ "scope" \in DOMAIN c /\ "scope" \notin DOMAIN f => c["scope"] = ctx.scopes
      /\ "client_id" \notin DOMAIN f => c["client_id"] = ctx.app.client
  BY AccessTokenClaims
<1> HIDE DEF t, c, f, o
<1>4. \A n \in DOMAIN c : \/ n \in {"userType", "act", "scope", "client_id", "grant_type"}
                          \/ n \in ServerClaims
                          \/ (n \in DOMAIN f /\ c[n] = f[n])
  BY <1>3
<1> HIDE DEF more
<1>5. \A n \in ReservedClaims \ {"scope", "client_id"} :
          Has(c, n) => Has(f, n) /\ c[n] = f[n]
  BY <1>4 DEF ReservedClaims, ServerClaims, Has
<1>6. AssuranceKept(c, o)
  <2>1. Has(c, "assurance") => Has(f, "assurance") /\ c["assurance"] = f["assurance"]
    BY <1>5 DEF ReservedClaims
  <2> QED
    BY <1>2, <2>1 DEF Carried, AssuranceKept
<1>7. ASSUME Granted(ctx.sub, ctx.scopes, o), AttributesWithin(f, o)
      PROVE  OriginKept(o) /\ WithinGrant(c, o)
  <2>1. OriginKept(o) /\ ctx.sub \in Names(o) /\ ctx.scopes \subseteq o.scopes
    BY <1>7 DEF Granted
  <2>2. c.sub \in Names(o)
    BY <1>3, <1>7, <2>1 DEF AttributesWithin, Has
  <2>3. Has(c, "scope") => c.scope \subseteq o.scopes
    BY <1>2, <1>3, <2>1 DEF Carried, Has
  <2>4. /\ Has(c, "authorized_permissions") => c.authorized_permissions \subseteq o.scopes
        /\ Has(c, "access_token_sub") => c.access_token_sub \in Names(o)
        /\ Has(c, "access_token_user_attributes") =>
              AttributesKept(c.access_token_user_attributes, o)
    BY <1>5, <1>7 DEF AttributesWithin, ReservedClaims
  <2> QED
    BY <2>1, <2>2, <2>3, <2>4 DEF WithinGrant
<1>8. Bare(f) => Bare(c)
  BY <1>5 DEF Bare, ReservedClaims
<1>9. SessionKept(t)
  BY <1>1, <1>2, <1>5 DEF Carried, ReservedClaims, SessionKept, c
<1>10. c.client_id \in Clients
  BY <1>2, <1>3 DEF Carried, Has
<1>11. (OriginKept(o) /\ WithinGrant(c, o)) \/ (o = None /\ Bare(c))
  BY <1>2, <1>7, <1>8 DEF o
<1>12. TokenKept(t)
  BY <1>1, <1>6, <1>9, <1>10, <1>11 DEF TokenKept, c
<1> QED
  BY <1>12 DEF t

\* A refresh token keeps the invariant if what it remembers is within the grant.
LEMMA RefreshTokenKept ==
    ASSUME NEW ctx, AttributesKept(ctx.attrs, ctx.origin),
           Granted(ctx.sub, ctx.scopes, ctx.origin), ctx.app.client \in Names(ctx.origin),
           ctx.via \notin {"assertion", "session"}
    PROVE  TokenKept(BuildRefreshToken(ctx))
<1> DEFINE t == BuildRefreshToken(ctx)
           c == t.claims
           f == AccessAttributes(ctx.attrs, ctx.groups, ctx.app)
           o == ctx.origin
           more == {"userType", "access_token_user_attributes", "scope", "access_token_sub",
                    "access_token_aud", "grant_type"}
<1>1. t.origin = o /\ t.via = ctx.via
  BY DEF BuildRefreshToken
<1>2. AttributesKept(f, o)
  BY AccessAttributesAre DEF AttributesKept, ReservedClaims
<1>3. /\ \A n \in DOMAIN c : n \in ServerClaims \/ n \in more
      /\ c["sub"] = ctx.app.client
      /\ c["access_token_sub"] = ctx.sub
      /\ "scope" \in DOMAIN c => c["scope"] = ctx.scopes
      /\ "access_token_user_attributes" \in DOMAIN c => c["access_token_user_attributes"] = f
  BY RefreshTokenClaims
<1> HIDE DEF t, c, f
<1>4. /\ ~Has(c, "authorized_permissions") /\ ~Has(c, "assurance") /\ ~Has(c, "auth_data")
      /\ ~Has(c, "otp_data") /\ ~Has(c, "client_id")
  BY <1>3 DEF ServerClaims, Has
<1>5. OriginKept(o) /\ WithinGrant(c, o)
  BY <1>2, <1>3, <1>4 DEF Granted, WithinGrant, Has
<1>6. TokenKept(t)
  BY <1>1, <1>4, <1>5 DEF TokenKept, AssuranceKept, SessionKept, c
<1> QED
  BY <1>6 DEF t

\* Names that attributes of a user are copied under belong to the user.
LEMMA OwnAttributesKept ==
    ASSUME NEW u \in Users, NEW o, o.kind = "user", o.who = u
    PROVE  AttributesKept(Attributes[u], o) /\ u \in Names(o)
BY AttributesAssumption DEF AttributesKept, Names

\* An ID token keeps the invariant.
LEMMA IdTokenKept ==
    ASSUME NEW ctx, ctx.sub \in Users, OriginKept(ctx.origin),
           ctx.origin.kind = "user", ctx.origin.who = ctx.sub
    PROVE  TokenKept(BuildIDToken(ctx))
<1> DEFINE t == BuildIDToken(ctx)
           c == t.claims
           f == Attributes[ctx.sub]
           o == ctx.origin
           more == {"userType", "groups", "auth_time"}
<1>1. t.origin = o /\ t.via = "id"
  BY DEF BuildIDToken
<1>2. AttributesKept(f, o) /\ ctx.sub \in Names(o)
  BY OwnAttributesKept
<1>3. /\ \A n \in DOMAIN c : n \in ServerClaims \/ n \in DOMAIN f \/ n \in more
      /\ c["sub"] = ctx.sub \/ ("sub" \in DOMAIN f /\ c["sub"] = f["sub"])
  BY IdTokenClaims
<1> HIDE DEF t, c, f
<1>4. \A n \in ReservedClaims : ~Has(c, n)
  BY <1>2, <1>3 DEF ServerClaims, Has, AttributesKept, ReservedClaims
<1>5. c.sub \in Names(o)
  BY <1>2, <1>3 DEF AttributesKept
<1>6. /\ ~Has(c, "authorized_permissions") /\ ~Has(c, "assurance") /\ ~Has(c, "auth_data")
      /\ ~Has(c, "otp_data") /\ ~Has(c, "client_id") /\ ~Has(c, "scope")
      /\ ~Has(c, "access_token_sub") /\ ~Has(c, "access_token_user_attributes")
  BY <1>4 DEF ReservedClaims
<1>7. WithinGrant(c, o)
  BY <1>5, <1>6 DEF WithinGrant
<1>8. TokenKept(t)
  BY <1>1, <1>6, <1>7 DEF TokenKept, AssuranceKept, SessionKept, c
<1> QED
  BY <1>8 DEF t

\* What may be asked for is what there is.
LEMMA Downscoped ==
    ASSUME NEW requested, NEW have
    PROVE  applyScopeDownscoping(requested, have) \subseteq have
BY DEF applyScopeDownscoping

\* The tokens for a code: of the user who was asked, for the scopes of the code.
LEMMA CodeTokensKept ==
    ASSUME NEW q, q.user \in Users, q.client \in Clients, apps[q.client].client = q.client,
           CodeGrant(q), \A t \in jwts : TokenKept(t)
    PROVE  \A t \in jwts' : TokenKept(t)
<1> DEFINE app == apps[q.client]
           o == Origin("user", q.user, app.client, q.scopes)
           aud == DetermineAudience(Blank, q.resource, Blank, app.client)
           ctx == [sub |-> q.user, aud |-> aud,
                   app |-> app, scopes |-> q.scopes, attrs |-> Attributes[q.user],
                   groups |-> GroupsOf[q.user], grant |-> "authorization_code", actor |-> None,
                   userType |-> UserType[q.user], via |-> "code", origin |-> o]
<1>1. jwts' = jwts \cup ({BuildAccessToken(ctx)} \cup
                 (IF "openid" \in q.scopes THEN {BuildIDToken(ctx)} ELSE {}) \cup
                 (IF "refresh_token" \in app.grants THEN {BuildRefreshToken(ctx)} ELSE {}))
  BY DEF CodeGrant, Issue
<1>2. /\ o.kind = "user" /\ o.who = q.user /\ o.client = q.client /\ o.scopes = q.scopes
      /\ app.client = q.client
  BY DEF Origin
<1> HIDE DEF app, o, aud
<1>4. OriginKept(o) /\ q.client \in Names(o)
  BY <1>2 DEF OriginKept, Names
<1>5. /\ ctx.sub = q.user /\ ctx.app = app /\ ctx.scopes = q.scopes
      /\ ctx.attrs = Attributes[q.user] /\ ctx.via = "code" /\ ctx.origin = o
  OBVIOUS
<1> HIDE DEF ctx
<1>6. AttributesKept(ctx.attrs, o) /\ q.user \in Names(o)
  BY <1>2, <1>5, OwnAttributesKept
<1>7. Granted(ctx.sub, ctx.scopes, ctx.origin)
  BY <1>2, <1>4, <1>5, <1>6 DEF Granted
<1>8. TokenKept(BuildAccessToken(ctx))
  BY <1>2, <1>5, <1>6, <1>7, AttributesCarried, AccessTokenKept
<1>9. TokenKept(BuildRefreshToken(ctx))
  BY <1>2, <1>4, <1>5, <1>6, <1>7, RefreshTokenKept
<1>10. TokenKept(BuildIDToken(ctx))
  BY <1>2, <1>4, <1>5, IdTokenKept
<1> QED
  BY <1>1, <1>8, <1>9, <1>10

\* No attributes are what anybody may have.
LEMMA NoAttributes ==
    ASSUME NEW o
    PROVE  AttributesKept(<<>>, o)
<1>1. DOMAIN <<>> = {}
  OBVIOUS
<1> QED
  BY <1>1 DEF AttributesKept

\* The token of a client for itself.
LEMMA ClientTokenKept ==
    ASSUME NEW q, q.client \in Clients, apps[q.client].client = q.client,
           ClientCredentialsGrant(q), \A t \in jwts : TokenKept(t)
    PROVE  \A t \in jwts' : TokenKept(t)
<1> DEFINE app == apps[q.client]
           o == Origin("client", app.client, app.client, q.scopes)
           aud == DetermineAudience(Blank, q.resource, Blank, app.client)
           ctx == [sub |-> app.client, aud |-> aud,
                   app |-> app, scopes |-> q.scopes, attrs |-> <<>>, groups |-> {},
                   grant |-> "client_credentials", actor |-> None, userType |-> Blank,
                   via |-> "client", origin |-> o]
<1>1. jwts' = jwts \cup {BuildAccessToken(ctx)}
  BY DEF ClientCredentialsGrant, Issue
<1>2. /\ o.kind = "client" /\ o.who = q.client /\ o.client = q.client /\ o.scopes = q.scopes
      /\ app.client = q.client
  BY DEF Origin
<1> HIDE DEF app, o, aud
<1>3. OriginKept(o) /\ q.client \in Names(o)
  BY <1>2 DEF OriginKept, Names
<1>4. /\ ctx.sub = app.client /\ ctx.app = app /\ ctx.scopes = q.scopes
      /\ ctx.attrs = <<>> /\ ctx.via = "client" /\ ctx.origin = o
  OBVIOUS
<1> HIDE DEF ctx
<1>5. AttributesKept(ctx.attrs, o)
  BY <1>4, NoAttributes
<1>6. Granted(ctx.sub, ctx.scopes, ctx.origin)
  BY <1>2, <1>3, <1>4 DEF Granted
<1>7. TokenKept(BuildAccessToken(ctx))
  BY <1>2, <1>4, <1>5, <1>6, AttributesCarried, AccessTokenKept
<1> QED
  BY <1>1, <1>7

\* The tokens for a refresh token: of the grant that it remembers.
LEMMA RefreshedTokensKept ==
    ASSUME NEW q, q.client \in Clients, apps[q.client].client = q.client,
           RefreshGrant(q), \A t \in jwts : TokenKept(t)
    PROVE  \A t \in jwts' : TokenKept(t)
<1> DEFINE app == apps[q.client]
           old == q.token.claims
           o == q.token.origin
           attrs == IF Has(old, "access_token_user_attributes")
                    THEN old.access_token_user_attributes ELSE <<>>
           scopes == applyScopeDownscoping(q.scopes, ScopesOf(old, FALSE))
           type == IF Has(old, "userType") THEN old.userType ELSE Blank
           ctx == [sub |-> old.access_token_sub, aud |-> old.access_token_aud, app |-> app,
                   scopes |-> scopes, attrs |-> attrs,
                   groups |-> {}, grant |-> old.grant_type, actor |-> None,
                   userType |-> type, via |-> "refresh", origin |-> o]
<1>1. jwts' = jwts \cup ({BuildAccessToken(ctx)} \cup
                         (IF RenewOnGrant THEN {BuildRefreshToken(ctx)} ELSE {}))
  BY DEF RefreshGrant, Issue
<1>2. /\ q.token \in jwts /\ old.sub = q.client /\ Has(old, "access_token_sub")
      /\ app.client = q.client
  BY DEF RefreshGrant, ValidateRefreshToken, VerifyJWT, Has
<1>3. OriginKept(o) /\ WithinGrant(old, o)
  BY <1>2 DEF TokenKept, Bare
<1> HIDE DEF app, old, o, type
<1>4. AttributesKept(attrs, o)
  BY <1>3, NoAttributes DEF WithinGrant
<1>5. scopes \subseteq o.scopes
  <2>1. ScopesOf(old, FALSE) \subseteq o.scopes
    BY <1>3 DEF ScopesOf, WithinGrant
  <2> QED
    BY <2>1, Downscoped
<1>6. old.access_token_sub \in Names(o) /\ q.client \in Names(o)
  BY <1>2, <1>3 DEF WithinGrant
<1> HIDE DEF attrs, scopes
<1>7. /\ ctx.sub = old.access_token_sub /\ ctx.app = app /\ ctx.scopes = scopes
      /\ ctx.attrs = attrs /\ ctx.via = "refresh" /\ ctx.origin = o
  OBVIOUS
<1> HIDE DEF ctx
<1>8. Granted(ctx.sub, ctx.scopes, ctx.origin)
  BY <1>3, <1>5, <1>6, <1>7 DEF Granted
<1>9. TokenKept(BuildAccessToken(ctx))
  BY <1>2, <1>4, <1>7, <1>8, AttributesCarried, AccessTokenKept
<1>10. TokenKept(BuildRefreshToken(ctx))
  BY <1>2, <1>4, <1>6, <1>7, <1>8, RefreshTokenKept
<1> QED
  BY <1>1, <1>9, <1>10

\* The token for another token, whoever acts: of the grant of the token it is for.
LEMMA ExchangedTokenKept ==
    ASSUME NEW q, q.client \in Clients, apps[q.client].client = q.client, q.token \in jwts,
           ExchangeGrant(q), \A t \in jwts : TokenKept(t)
    PROVE  \A t \in jwts' : TokenKept(t)
<1> DEFINE app == apps[q.client]
           old == q.token.claims
           o == q.token.origin
           have == ScopesOf(old, Has(old, "assurance"))
           scopes == applyScopeDownscoping(q.scopes, have)
           attrs == ExtractUserAttributes(old)
           aud == DetermineAudience(Blank, q.resource, old.aud, app.client)
           actor == IF q.actor = None THEN None
                    ELSE [sub |-> q.actor.claims.sub, iss |-> q.actor.claims.iss,
                          nested |-> IF Has(q.actor.claims, "act")
                                     THEN q.actor.claims.act ELSE None]
           ctx == [sub |-> old.sub, aud |-> aud, app |-> app, scopes |-> scopes,
                   attrs |-> attrs, groups |-> {}, grant |-> "token_exchange",
                   actor |-> actor, userType |-> Blank, via |-> "exchange", origin |-> o]
<1>1. jwts' = jwts \cup {BuildAccessToken(ctx)}
  BY DEF ExchangeGrant, Issue
<1>2. app.client = q.client
  OBVIOUS
<1>3. /\ Carried(attrs, o)
      /\ WithinGrant(old, o) => AttributesWithin(attrs, o)
      /\ Bare(old) => Bare(attrs)
  <2>1. TokenKept(q.token)
    OBVIOUS
  <2> QED
    BY <2>1, ExtractedCarried
<1>4. \/ OriginKept(o) /\ WithinGrant(old, o)
      \/ o = None /\ Bare(old)
  BY DEF TokenKept
<1> HIDE DEF app, old, o, aud, actor, attrs
<1>5. OriginKept(o) /\ WithinGrant(old, o) => Granted(old.sub, scopes, o)
  <2> SUFFICES ASSUME OriginKept(o), WithinGrant(old, o) PROVE Granted(old.sub, scopes, o)
    OBVIOUS
  <2>1. have \subseteq o.scopes
    BY DEF ScopesOf, WithinGrant
  <2>2. scopes \subseteq o.scopes
    BY <2>1, Downscoped
  <2> QED
    BY <2>2 DEF Granted, WithinGrant
<1> HIDE DEF scopes, have
<1>6. /\ ctx.sub = old.sub /\ ctx.app = app /\ ctx.scopes = scopes
      /\ ctx.attrs = attrs /\ ctx.via = "exchange" /\ ctx.origin = o
  OBVIOUS
<1> HIDE DEF ctx
<1>7. TokenKept(BuildAccessToken(ctx))
  BY <1>2, <1>3, <1>4, <1>5, <1>6, AccessTokenKept
<1> QED
  BY <1>1, <1>7

-----------------------------------------------------------------------------
(* Sessions and assertions keep the invariant.                             *)

\* The session of a one-time password, when it is signed.
LEMMA OtpSessionKept ==
    ASSUME now \in Nat, NEW u \in Users, NEW e \in Nat
    PROVE  TokenKept(OtpSession(u, e))
<1> DEFINE t == OtpSession(u, e)
           c == t.claims
           left == Seconds(e - now)
           claims == [otp_data |-> [recipient |-> u, expiry |-> e]]
<1>1. t.origin = None /\ t.via = "session" /\ c = GenerateJWT("otp-svc", "otp-svc", Issuer, left, claims)
  BY DEF OtpSession
<1>2. /\ \A n : n \in DOMAIN claims <=> n = "otp_data"
      /\ claims["otp_data"].recipient = u /\ claims["otp_data"].expiry = e
  OBVIOUS
<1> HIDE DEF claims, left, c, t
<1>3. /\ \A n : n \in DOMAIN c <=> n \in DOMAIN claims \/ n \in ServerClaims
      /\ \A n \in DOMAIN claims : c[n] = claims[n]
      /\ "aud" \notin DOMAIN claims => c["aud"] = "otp-svc"
      /\ "iss" \notin DOMAIN claims => c["iss"] = IF Issuer = Blank THEN Issuer ELSE Issuer
      /\ "nbf" \notin DOMAIN claims => c["nbf"] = Unix
  BY <1>1, JwtClaims
<1>4. c["exp"] = Unix + IF left = 0 THEN DefaultValidity ELSE left
  <2>1. ~Has(claims, "exp")
    BY <1>2 DEF Has
  <2> QED
    BY <1>1, <2>1, JwtExpiry
<1>5. /\ ~Has(c, "access_token_sub") /\ ~Has(c, "assurance") /\ ~Has(c, "auth_data")
      /\ ~Has(c, "client_id")
  BY <1>2, <1>3 DEF Has, ServerClaims
<1>6. /\ c["otp_data"].recipient = u /\ c["otp_data"].expiry = e
      /\ c["aud"] = "otp-svc" /\ c["iss"] = Issuer /\ c["nbf"] = Unix
  BY <1>2, <1>3
<1>7. OtpSessionOf(c, now)
  BY <1>4, <1>6 DEF OtpSessionOf, Unix, left
<1>8. SessionKept(t)
  <2>1. now \in 0..now
    OBVIOUS
  <2> QED
    BY <1>5, <1>6, <1>7, <2>1 DEF SessionKept, c
<1>9. TokenKept(t)
  BY <1>1, <1>5, <1>8 DEF TokenKept, Bare, AssuranceKept, c
<1> QED
  BY <1>9 DEF t

\* The session with a provider.
LEMMA IdpSessionKept ==
    ASSUME NEW t, NEW i \in Idps, NEW type \in IdpTypes,
           t = [claims |-> GenerateJWT("auth-svc", "auth-svc", Issuer, SessionPeriod,
                  [auth_data |-> [idp |-> i, type |-> type]]),
               via |-> "session", origin |-> None]
    PROVE  TokenKept(t)
<1> DEFINE c == t.claims
           claims == [auth_data |-> [idp |-> i, type |-> type]]
<1>1. t.origin = None /\ c = GenerateJWT("auth-svc", "auth-svc", Issuer, SessionPeriod, claims)
  OBVIOUS
<1>2. /\ \A n : n \in DOMAIN claims <=> n = "auth_data"
      /\ claims["auth_data"].type = type /\ claims["auth_data"].idp = i
  OBVIOUS
<1> HIDE DEF claims, c
<1>3. /\ \A n : n \in DOMAIN c <=> n \in DOMAIN claims \/ n \in ServerClaims
      /\ \A n \in DOMAIN claims : c[n] = claims[n]
  BY <1>1, JwtClaims
<1>4. /\ ~Has(c, "access_token_sub") /\ ~Has(c, "assurance") /\ ~Has(c, "otp_data")
      /\ ~Has(c, "client_id") /\ c["auth_data"].type = type /\ c["auth_data"].idp = i
  BY <1>2, <1>3 DEF Has, ServerClaims
<1> QED
  BY <1>1, <1>4 DEF TokenKept, Bare, AssuranceKept, SessionKept, ProviderKept, c

\* An assertion that u builds on is about u.
LEMMA ExistingIsAbout ==
    ASSUME NEW t \in jwts, TokenKept(t), NEW u \in Users, ExistingAssertion(t, u)
    PROVE  LET refs == t.claims.assurance.authenticators
           IN  /\ refs \in Seq(Authenticators)
               /\ \A i \in DOMAIN refs : Passed(u, refs[i])
<1> DEFINE c == t.claims
           o == t.origin
<1>1. Has(c, "assurance") /\ c.sub = u
  BY DEF ExistingAssertion
<1>2. OriginKept(o) /\ c.sub \in Names(o)
  BY <1>1 DEF TokenKept, Bare, WithinGrant
<1>3. AssuranceKept(c, o)
  BY DEF TokenKept
<1> HIDE DEF c, o
<1>4. o.kind = "user" /\ o.client = Blank /\ o.who \in Users
  BY <1>1, <1>2, <1>3 DEF AssuranceKept, OriginKept
<1>5. u = o.who
  BY <1>1, <1>2, <1>4, IdsAssumption DEF Names
<1> QED
  BY <1>1, <1>3, <1>5 DEF AssuranceKept, c

\* The assertion after one more authenticator.
LEMMA AssertionKept ==
    ASSUME NEW u \in Users, NEW by \in Authenticators, Passed(u, by), NEW existing,
           existing # None => existing \in jwts /\ TokenKept(existing)
                              /\ ExistingAssertion(existing, u)
    PROVE  TokenKept(AssertionWith(u, by, existing))
<1> DEFINE t == AssertionWith(u, by, existing)
           c == t.claims
           o == t.origin
           refs == IF existing = None THEN <<by>>
                   ELSE Append(existing.claims.assurance.authenticators, by)
           claims == [userType |-> UserType[u], assurance |-> GenerateAssertion(refs)]
<1>1. /\ t.via = "assertion" /\ o = Origin("user", u, Blank, {})
      /\ c = GenerateJWT(u, Audience, Issuer, DefaultValidity, claims)
  BY DEF AssertionWith
<1>2. refs \in Seq(Authenticators) /\ \A i \in DOMAIN refs : Passed(u, refs[i])
  <2>1. CASE existing = None
    BY <2>1
  <2>2. CASE existing # None
    <3> DEFINE old == existing.claims.assurance.authenticators
    <3>1. old \in Seq(Authenticators) /\ \A i \in DOMAIN old : Passed(u, old[i])
      BY <2>2, ExistingIsAbout
    <3>2. refs = Append(old, by)
      BY <2>2
    <3> HIDE DEF old, refs
    <3>3. refs \in Seq(Authenticators)
      BY <3>1, <3>2
    <3>4. ASSUME NEW i \in DOMAIN refs PROVE Passed(u, refs[i])
      <4>1. refs[i] = by \/ (i \in DOMAIN old /\ refs[i] = old[i])
        BY <3>1, <3>2
      <4> QED
        BY <3>1, <4>1
    <3> QED
      BY <3>3, <3>4
  <2> QED
    BY <2>1, <2>2
<1> HIDE DEF refs
<1>3. /\ \A n : n \in DOMAIN claims <=> n \in {"userType", "assurance"}
      /\ claims["assurance"] = GenerateAssertion(refs)
  OBVIOUS
<1>4. o.kind = "user" /\ o.who = u /\ o.client = Blank /\ u \in Names(o)
  BY <1>1 DEF Origin, Names
<1> HIDE DEF claims, c, t, o
<1>5. /\ \A n : n \in DOMAIN c <=> n \in DOMAIN claims \/ n \in ServerClaims
      /\ \A n \in DOMAIN claims : c[n] = claims[n]
      /\ "sub" \notin DOMAIN claims => c["sub"] = u
  BY <1>1, JwtClaims
<1>6. /\ ~Has(c, "scope") /\ ~Has(c, "authorized_permissions") /\ ~Has(c, "access_token_sub")
      /\ ~Has(c, "access_token_user_attributes") /\ ~Has(c, "auth_data") /\ ~Has(c, "otp_data")
      /\ ~Has(c, "client_id")
  BY <1>3, <1>5 DEF Has, ServerClaims
<1>7. c["sub"] = u /\ Has(c, "assurance") /\ c["assurance"] = GenerateAssertion(refs)
  BY <1>3, <1>5 DEF Has
<1>8. OriginKept(o) /\ WithinGrant(c, o)
  BY <1>4, <1>6, <1>7 DEF OriginKept, WithinGrant
<1>9. AssuranceKept(c, o)
  BY <1>2, <1>4, <1>7 DEF AssuranceKept, GenerateAssertion
<1>10. TokenKept(t)
  BY <1>1, <1>6, <1>7, <1>8, <1>9 DEF TokenKept, SessionKept, c, o
<1> QED
  BY <1>10 DEF t

\* The claims of the assertion at the end of a flow.
LEMMA FlowAssertionClaims ==
    ASSUME NEW u \in Users, NEW app, NEW r, NEW permissions
    PROVE  LET t == FlowAssertion(u, app, <<r>>, permissions)
               c == t.claims
               o == t.origin
           IN  /\ t.via = "assertion" /\ o = Origin("user", u, Blank, permissions)
               /\ \A n \in ReservedClaims : n \in {"assurance", "authorized_permissions"} \/ ~Has(c, n)
               /\ Has(c, "assurance") /\ c["assurance"] = GenerateAssertion(<<r>>)
               /\ Has(c, "authorized_permissions") => c["authorized_permissions"] = permissions
               /\ c["sub"] \in Names(o)
<1> DEFINE t == FlowAssertion(u, app, <<r>>, permissions)
           c == t.claims
           o == t.origin
           type == [userType |-> UserType[u]]
           f == Attributes[u]
           attributes == Restrict(f, app.token.root.attributes \cap DOMAIN f)
           granted == Claim("authorized_permissions", permissions, permissions # {})
           assurance == Claim("assurance", GenerateAssertion(<<r>>), <<r>> # <<>>)
           claims == Over(Over(Over(type, attributes), granted), assurance)
<1>1. /\ t.via = "assertion" /\ o = Origin("user", u, Blank, permissions)
      /\ c = GenerateJWT(u, app.appID, app.token.root.issuer, app.token.root.validity, claims)
  BY DEF FlowAssertion, ++
<1>2. \A n \in DOMAIN type : n = "userType"
  OBVIOUS
<1>3. \A n \in DOMAIN attributes : n \in DOMAIN f /\ attributes[n] = f[n]
  <2> HIDE DEF f
  <2> QED
    BY DEF Restrict
<1>4. \A n \in DOMAIN granted : n = "authorized_permissions" /\ granted[n] = permissions
  BY DEF Claim
<1>5. /\ \A n : n \in DOMAIN assurance <=> n = "assurance"
      /\ assurance["assurance"] = GenerateAssertion(<<r>>)
  BY DEF Claim
<1>6. o.kind = "user" /\ o.who = u /\ AttributesKept(f, o) /\ u \in Names(o)
  BY <1>1, OwnAttributesKept DEF Origin
<1>7. /\ \A n \in ReservedClaims : n \notin DOMAIN f
      /\ "sub" \in DOMAIN f => f["sub"] \in Names(o)
  BY <1>6 DEF AttributesKept
<1> HIDE DEF type, attributes, granted, assurance, c, t, o, f
<1>8. /\ \A n \in DOMAIN claims : \/ n \in DOMAIN type \/ n \in DOMAIN attributes
                                  \/ n \in DOMAIN granted \/ n \in DOMAIN assurance
      /\ \A n \in DOMAIN attributes : n \notin DOMAIN type => claims[n] = attributes[n]
      /\ \A n \in DOMAIN granted :
            n \notin DOMAIN type /\ n \notin DOMAIN attributes => claims[n] = granted[n]
      /\ \A n \in DOMAIN assurance :
            /\ n \in DOMAIN claims
            /\ n \notin DOMAIN type /\ n \notin DOMAIN attributes /\ n \notin DOMAIN granted =>
                  claims[n] = assurance[n]
  BY OverIs
<1> HIDE DEF claims
<1>9. "assurance" \notin DOMAIN attributes /\ "authorized_permissions" \notin DOMAIN attributes
  BY <1>3, <1>7 DEF ReservedClaims
<1>10. /\ \A n : n \in DOMAIN c <=> n \in DOMAIN claims \/ n \in ServerClaims
       /\ \A n \in DOMAIN claims : c[n] = claims[n]
       /\ "sub" \notin DOMAIN claims => c["sub"] = u
  BY <1>1, JwtClaims
<1>11. "assurance" \in DOMAIN c /\ c["assurance"] = GenerateAssertion(<<r>>)
  BY <1>2, <1>4, <1>5, <1>8, <1>9, <1>10
<1>12. "authorized_permissions" \in DOMAIN c => c["authorized_permissions"] = permissions
  <2>1. "authorized_permissions" \in DOMAIN c => "authorized_permissions" \in DOMAIN claims
    BY <1>10 DEF ServerClaims
  <2>2. "authorized_permissions" \in DOMAIN c => "authorized_permissions" \in DOMAIN granted
    BY <1>2, <1>5, <1>8, <1>9, <2>1
  <2>3. "authorized_permissions" \in DOMAIN granted => claims["authorized_permissions"] = permissions
    BY <1>2, <1>4, <1>8, <1>9
  <2> QED
    BY <1>10, <2>1, <2>2, <2>3
<1>13. c["sub"] \in Names(o)
  <2>1. "sub" \in DOMAIN claims => "sub" \in DOMAIN attributes /\ claims["sub"] = attributes["sub"]
    BY <1>2, <1>4, <1>5, <1>8
  <2> QED
    BY <1>3, <1>6, <1>7, <1>10, <2>1
<1>14. ASSUME NEW n \in ReservedClaims, n \in DOMAIN c
       PROVE  n \in {"assurance", "authorized_permissions"}
  <2>1. n \notin ServerClaims /\ n # "userType"
    BY <1>14 DEF ReservedClaims, ServerClaims
  <2>2. n \in DOMAIN claims
    BY <1>10, <1>14, <2>1
  <2>3. n \notin DOMAIN type /\ n \notin DOMAIN attributes
    BY <1>2, <1>3, <1>7, <1>14, <2>1
  <2>4. n \in DOMAIN granted \/ n \in DOMAIN assurance
    BY <1>8, <2>2, <2>3
  <2> QED
    BY <1>4, <1>5, <2>4
<1> QED
  BY <1>1, <1>11, <1>12, <1>13, <1>14 DEF Has, c, o, t

-----------------------------------------------------------------------------
(* What is known of tokens, calls and applications lasts.                  *)

\* A token keeps the invariant while time passes and users prove more.
LEMMA TokenStays ==
    ASSUME NEW t, TokenKept(t), now \in Nat, now' \in Nat, now <= now', passed \subseteq passed'
    PROVE  TokenKept(t)'
<1>1. \A u, r : Passed(u, r) => Passed(u, r)'
  BY DEF Passed
<1>2. AssuranceKept(t.claims, t.origin)'
  <2>1. AssuranceKept(t.claims, t.origin)
    BY DEF TokenKept
  <2> QED
    BY <1>1, <2>1 DEF AssuranceKept
<1>3. SessionKept(t)'
  <2>1. SessionKept(t)
    BY DEF TokenKept
  <2>2. 0..now \subseteq 0..now'
    OBVIOUS
  <2>3. (\E n \in 0..now : OtpSessionOf(t.claims, n)) => \E n \in 0..now' : OtpSessionOf(t.claims, n)
    BY <2>2, Zenon
  <2> QED
    BY <2>1, <2>3, Zenon DEF SessionKept
<1> QED
  BY <1>2, <1>3 DEF TokenKept

\* So do all, with those that are signed.
LEMMA TokensStay ==
    ASSUME \A t \in jwts : TokenKept(t), now \in Nat, now' \in Nat, now <= now',
           passed \subseteq passed', NEW new, jwts' \subseteq jwts \cup new,
           \A t \in new : TokenKept(t) \/ TokenKept(t)'
    PROVE  \A t \in jwts' : TokenKept(t)'
BY TokenStays

\* A call keeps the invariant while others go on.
LEMMA CallStays ==
    ASSUME CallKept, call' = call, jwts \subseteq jwts', passed \subseteq passed'
    PROVE  CallKept'
<1>1. \A u, r : Passed(u, r) => Passed(u, r)'
  BY DEF Passed
<1> QED
  BY <1>1 DEF CallKept

\* A registration leaves an application as it has to be.
LEMMA RegisterKeeps ==
    ASSUME AppsKept, NEW r, NEW id \in Clients, RegisterClient(r, id)
    PROVE  AppsKept'
<1> DEFINE a == DCRApplication(r, id)
           c == WithDefaults(FromDCR(r))
           app == Completed(a, c, id)
<1>1. /\ ValidOAuth(c) /\ apps' = [apps EXCEPT ![id] = app]
  BY DEF RegisterClient, ValidApplication
<1>2. c.secret = Blank /\ c.public \in BOOLEAN
  BY DEF WithDefaults, FromDCR
<1>3. /\ c.method \in AuthMethods /\ c.grants \subseteq GrantTypes
      /\ c.public => c.method = "none"
  BY <1>1 DEF ValidOAuth, ValidMethod, ValidGrants, ValidPublic
<1> HIDE DEF a, c
<1>4. AppKept(app, id)
  <2>1. /\ app.client = id /\ app.secret = ClientSecret(c, id) /\ app.method = c.method
        /\ app.grants = c.grants /\ app.public = c.public /\ AppFields \subseteq DOMAIN app
    BY DEF Completed, AppFields
  <2> HIDE DEF app
  <2>2. ClientSecret(c, id) = IF c.public THEN Blank ELSE id
    BY <1>2 DEF ClientSecret
  <2> QED
    BY <1>3, <2>1, <2>2 DEF AppKept
<1> HIDE DEF app
<1> QED
  BY <1>1, <1>4 DEF AppsKept

\* A change of the attributes of an access token leaves the rest as it was.
LEMMA ReconfigureKeeps ==
    ASSUME AppsKept, NEW attributes, NEW id \in Clients, Reconfigure(id, attributes)
    PROVE  AppsKept'
<1>1. /\ apps[id] # None
      /\ apps' = [apps EXCEPT ![id].token.access.attributes = attributes]
  BY DEF Reconfigure
<1>2. AppKept(apps[id], id) /\ DOMAIN apps = Clients
  BY <1>1 DEF AppsKept
<1>3. DOMAIN apps' = Clients /\ \A other \in Clients \ {id} : apps'[other] = apps[other]
  BY <1>1, <1>2
<1>4. /\ DOMAIN apps'[id] = DOMAIN apps[id]
      /\ \A n \in DOMAIN apps[id] : n # "token" => apps'[id][n] = apps[id][n]
  BY <1>1, <1>2
<1>5. AppKept(apps'[id], id)
  <2>1. \A n \in AppFields \ {"token"} : apps'[id][n] = apps[id][n]
    BY <1>2, <1>4 DEF AppKept
  <2>2. /\ apps'[id].client = apps[id].client /\ apps'[id].secret = apps[id].secret
        /\ apps'[id].public = apps[id].public /\ apps'[id].method = apps[id].method
        /\ apps'[id].grants = apps[id].grants
    BY <2>1 DEF AppFields
  <2> QED
    BY <1>2, <1>4, <2>2 DEF AppKept
<1> QED
  BY <1>3, <1>5 DEF AppsKept

-----------------------------------------------------------------------------
(* Each action keeps the invariant.                                        *)

\* Time passes.
LEMMA TimeStep ==
    ASSUME IInv, TimePasses
    PROVE  IInv'
<1>1. /\ now \in Nat /\ now' = now + 1
      /\ jwts' = jwts /\ apps' = apps /\ users' = users /\ idps' = idps /\ call' = call
      /\ passed' = passed
  BY DEF IInv, TimePasses, Tick
<1>2. now' \in Nat /\ now <= now'
  BY <1>1
<1>3. \A t \in jwts' : TokenKept(t)'
  BY <1>1, <1>2, TokensStay DEF IInv
<1>4. CallKept'
  BY <1>1, CallStays DEF IInv
<1>5. AppsKept'
  BY <1>1 DEF IInv, AppsKept
<1> QED
  BY <1>1, <1>2, <1>3, <1>4, <1>5 DEF IInv

\* A client registers, or its application is changed.
LEMMA ApplicationStep ==
    ASSUME IInv, AppsKept', UNCHANGED <<now, jwts, users, idps, call, passed>>
    PROVE  IInv'
<1>1. now' = now /\ now \in Nat /\ jwts' = jwts /\ call' = call /\ passed' = passed
  BY DEF IInv
<1>2. now <= now'
  BY <1>1
<1>3. \A t \in jwts' : TokenKept(t)'
  BY <1>1, <1>2, TokensStay DEF IInv
<1>4. CallKept'
  BY <1>1, CallStays DEF IInv
<1> QED
  BY <1>3, <1>4 DEF IInv

\* Tokens are signed.
LEMMA IssueStep ==
    ASSUME IInv, NEW new, jwts \subseteq jwts', jwts' \subseteq jwts \cup new,
           \A t \in new : TokenKept(t) \/ TokenKept(t)', passed \subseteq passed',
           UNCHANGED <<now, apps, users, idps, call>>
    PROVE  IInv'
<1>1. now' = now /\ now \in Nat /\ now <= now'
  BY DEF IInv
<1>2. \A t \in jwts' : TokenKept(t)'
  BY <1>1, TokensStay DEF IInv
<1>3. CallKept'
  BY CallStays DEF IInv
<1>4. AppsKept'
  BY DEF IInv, AppsKept
<1> QED
  BY <1>1, <1>2, <1>3, <1>4 DEF IInv

\* A call takes its next step.
LEMMA CallStep ==
    ASSUME IInv, CallKept', passed \subseteq passed', UNCHANGED <<now, jwts, apps, users, idps>>
    PROVE  IInv'
<1>1. now' = now /\ now \in Nat /\ now <= now' /\ jwts' = jwts
  BY DEF IInv
<1>2. \A t \in jwts' : TokenKept(t)'
  BY <1>1, TokensStay DEF IInv
<1>3. AppsKept'
  BY DEF IInv, AppsKept
<1> QED
  BY <1>1, <1>2, <1>3 DEF IInv

\* A flow ends.
LEMMA FlowStep ==
    ASSUME IInv, NEW u \in Users, NEW id \in Clients, NEW permissions,
           FlowEnds(u, id, permissions)
    PROVE  IInv'
<1> DEFINE r == "CredentialsAuthenticator"
           p == [user |-> u, by |-> "CREDENTIALS"]
<1>t. PICK t : t = FlowAssertion(u, apps[id], <<r>>, permissions)
  OBVIOUS
<1> DEFINE c == t.claims
           o == t.origin
<1>1. /\ jwts' = jwts \cup {t} /\ passed' = passed \cup {p}
      /\ UNCHANGED <<now, apps, users, idps, call>>
  BY <1>t DEF FlowEnds, Issue
<1>2. /\ t.via = "assertion" /\ o = Origin("user", u, Blank, permissions)
      /\ \A n \in ReservedClaims : n \in {"assurance", "authorized_permissions"} \/ ~Has(c, n)
      /\ Has(c, "assurance") /\ c["assurance"] = GenerateAssertion(<<r>>)
      /\ Has(c, "authorized_permissions") => c["authorized_permissions"] = permissions
      /\ c["sub"] \in Names(o)
  BY <1>t, FlowAssertionClaims
<1> HIDE DEF c, o
<1>3. Passed(u, r)'
  <2>1. p \in passed' /\ p.user = u /\ p.by = "CREDENTIALS"
    BY <1>1
  <2>2. StandsFor("CREDENTIALS", r)
    BY DEF StandsFor
  <2> HIDE DEF p
  <2> QED
    BY <2>1, <2>2 DEF Passed
<1>4. o.kind = "user" /\ o.who = u /\ o.client = Blank /\ o.scopes = permissions
  BY <1>2 DEF Origin
<1>5. /\ ~Has(c, "scope") /\ ~Has(c, "access_token_sub") /\ ~Has(c, "client_id")
      /\ ~Has(c, "access_token_user_attributes") /\ ~Has(c, "auth_data") /\ ~Has(c, "otp_data")
  BY <1>2 DEF ReservedClaims
<1>6. OriginKept(o) /\ WithinGrant(c, o)
  BY <1>2, <1>4, <1>5 DEF OriginKept, WithinGrant
<1>7. c.assurance.authenticators = <<r>> /\ c.assurance.aal = calculateAAL(<<r>>)
  BY <1>2 DEF GenerateAssertion
<1>8. AssuranceKept(c, o)'
  <2>1. <<r>> \in Seq(Authenticators) /\ \A i \in DOMAIN <<r>> : <<r>>[i] = r
    BY DEF Authenticators
  <2>2. AssuranceKept(c, o)' <=> (Has(c, "assurance") =>
            /\ o.kind = "user" /\ o.client = Blank
            /\ c.assurance.authenticators \in Seq(Authenticators)
            /\ c.assurance.aal = calculateAAL(c.assurance.authenticators)
            /\ \A i \in DOMAIN c.assurance.authenticators :
                  Passed(o.who, c.assurance.authenticators[i])')
    BY DEF AssuranceKept
  <2> QED
    BY <1>3, <1>4, <1>7, <2>1, <2>2
<1>9. TokenKept(t)'
  <2>1. SessionKept(t)'
    BY <1>2, <1>5 DEF SessionKept, c
  <2>2. TokenKept(t)' <=>
          /\ (OriginKept(o) /\ WithinGrant(c, o)) \/ (o = None /\ Bare(c))
          /\ AssuranceKept(c, o)'
          /\ SessionKept(t)'
          /\ Has(c, "client_id") => c.client_id \in Clients
          /\ t.via = "assertion" => Has(c, "assurance")
    BY DEF TokenKept, c, o
  <2> QED
    BY <1>2, <1>5, <1>6, <1>8, <2>1, <2>2
<1>10. PICK new : new = {t}
  OBVIOUS
<1>11. /\ jwts \subseteq jwts' /\ jwts' \subseteq jwts \cup new /\ passed \subseteq passed'
       /\ \A x \in new : TokenKept(x) \/ TokenKept(x)'
  BY <1>1, <1>9, <1>10
<1> HIDE DEF p
<1>12. UNCHANGED <<now, apps, users, idps, call>>
  BY <1>1
<1> QED
  BY <1>11, <1>12, IssueStep

\* What the request of a client says.
LEMMA RequestIs ==
    ASSUME NEW id, NEW r, NEW f
    PROVE  LET q == f ++ ([client |-> id] ++ r)
           IN  /\ "client" \notin DOMAIN f => q.client = id
               /\ \A n \in DOMAIN f : q[n] = f[n]
<1> DEFINE client == [client |-> id]
           q == Over(f, Over(client, r))
<1>1. "client" \in DOMAIN client /\ client["client"] = id
  OBVIOUS
<1> HIDE DEF client
<1>2. "client" \in DOMAIN Over(client, r) /\ Over(client, r)["client"] = id
  BY <1>1, OverIs
<1>3. /\ "client" \notin DOMAIN f => q["client"] = id
      /\ \A n \in DOMAIN f : q[n] = f[n]
  BY <1>2, OverIs
<1> QED
  BY <1>3 DEF client, ++

\* The token endpoint answers.
LEMMA TokenStep ==
    ASSUME IInv, NEW id \in Clients, apps[id] # None, NEW grant \in apps[id].grants, NEW r,
           Token(grant, r, id)
    PROVE  IInv'
<1> DEFINE q == [client |-> id] ++ r
<1>1. UNCHANGED <<now, apps, users, idps, call, passed>>
  BY DEF Token
<1>2. grant \in GrantTypes /\ apps[id].client = id
  BY DEF IInv, AppsKept, AppKept
<1>3. CASE grant = "authorization_code"
  <2>1. PICK u \in users : CodeGrant([user |-> u] ++ q)
    BY <1>3 DEF Token
  <2> DEFINE f == [user |-> u]
  <2>2. "client" \notin DOMAIN f /\ "user" \in DOMAIN f /\ f["user"] = u
    OBVIOUS
  <2>3. (f ++ q).client = id /\ (f ++ q).user = u
    <3> HIDE DEF f
    <3> QED
      BY <2>2, RequestIs
  <2>4. u \in Users
    BY DEF IInv
  <2> DEFINE req == f ++ q
  <2>5. req.client = id /\ req.user = u /\ CodeGrant(req)
    BY <2>1, <2>3
  <2> HIDE DEF req
  <2>6. \A t \in jwts' : TokenKept(t)
    BY <1>2, <2>4, <2>5, CodeTokensKept DEF IInv
  <2>7. jwts \subseteq jwts'
    BY <2>5 DEF CodeGrant, Issue
  <2> QED
    BY <1>1, <2>6, <2>7, IssueStep
<1>4. CASE grant = "client_credentials"
  <2> DEFINE f == [n \in {} |-> n]
  <2>1. q.client = id
    <3>1. DOMAIN [client |-> id] = {"client"} /\ [client |-> id].client = id
      OBVIOUS
    <3> QED
      BY <3>1, OverIs DEF ++
  <2>2. ClientCredentialsGrant(q)
    BY <1>4 DEF Token
  <2> HIDE DEF q
  <2>3. \A t \in jwts' : TokenKept(t)
    BY <1>2, <2>1, <2>2, ClientTokenKept DEF IInv
  <2>4. jwts \subseteq jwts'
    BY <2>2 DEF ClientCredentialsGrant, Issue
  <2> QED
    BY <1>1, <2>3, <2>4, IssueStep
<1>5. CASE grant = "refresh_token"
  <2>1. PICK t \in jwts : RefreshGrant([token |-> t] ++ q)
    BY <1>5 DEF Token
  <2> DEFINE f == [token |-> t]
  <2>2. "client" \notin DOMAIN f
    OBVIOUS
  <2>3. (f ++ q).client = id
    <3> HIDE DEF f
    <3> QED
      BY <2>2, RequestIs
  <2> DEFINE req == f ++ q
  <2>4. req.client = id /\ RefreshGrant(req)
    BY <2>1, <2>3
  <2> HIDE DEF req
  <2>5. \A x \in jwts' : TokenKept(x)
    BY <1>2, <2>4, RefreshedTokensKept DEF IInv
  <2>6. jwts \subseteq jwts'
    BY <2>4 DEF RefreshGrant, Issue
  <2> QED
    BY <1>1, <2>5, <2>6, IssueStep
<1>6. CASE grant = "token_exchange"
  <2>1. PICK t \in jwts, a \in jwts \cup {None} : ExchangeGrant([token |-> t, actor |-> a] ++ q)
    BY <1>6 DEF Token
  <2> DEFINE f == [token |-> t, actor |-> a]
  <2>2. "client" \notin DOMAIN f /\ "token" \in DOMAIN f /\ f["token"] = t
    OBVIOUS
  <2>3. (f ++ q).client = id /\ (f ++ q).token = t
    <3> HIDE DEF f
    <3> QED
      BY <2>2, RequestIs
  <2> DEFINE req == f ++ q
  <2>4. req.client = id /\ req.token \in jwts /\ ExchangeGrant(req)
    BY <2>1, <2>3
  <2> HIDE DEF req
  <2>5. \A x \in jwts' : TokenKept(x)
    BY <1>2, <2>4, ExchangedTokenKept DEF IInv
  <2>6. jwts \subseteq jwts'
    BY <2>4 DEF ExchangeGrant, Issue
  <2> QED
    BY <1>1, <2>5, <2>6, IssueStep
<1> QED
  BY <1>2, <1>3, <1>4, <1>5, <1>6 DEF GrantTypes

\* A user has been identified, by what it just passed.
LEMMA IdentifiedStep ==
    ASSUME IInv, NEW u \in Users, NEW r \in Authenticators, NEW existing \in jwts \cup {None},
           Identified(u, r, existing), NEW by, StandsFor(by, r),
           passed' = passed \cup {[user |-> u, by |-> by]},
           UNCHANGED <<now, jwts, apps, users, idps>>
    PROVE  IInv'
<1> DEFINE p == [user |-> u, by |-> by]
<1>1. Passed(u, r)'
  <2>1. p \in passed' /\ p.user = u /\ p.by = by
    OBVIOUS
  <2> HIDE DEF p
  <2> QED
    BY <2>1 DEF Passed
<1>2. /\ call'.pc = "identified" /\ call'.user = u /\ call'.by = r /\ call'.existing = existing
  BY DEF Identified
<1>3. CallKept'
  BY <1>1, <1>2 DEF CallKept
<1>4. passed \subseteq passed'
  OBVIOUS
<1> QED
  BY <1>3, <1>4, CallStep

\* Credentials are checked.
LEMMA CredentialsStep ==
    ASSUME IInv, NEW u \in Users, NEW existing \in jwts \cup {None}, Credentials(u, existing)
    PROVE  IInv'
<1>1. "CredentialsAuthenticator" \in Authenticators
  BY DEF Authenticators
<1>2. StandsFor("CREDENTIALS", "CredentialsAuthenticator")
  BY DEF StandsFor
<1>3. /\ Identified(u, "CredentialsAuthenticator", existing)
      /\ passed' = passed \cup {[user |-> u, by |-> "CREDENTIALS"]}
      /\ UNCHANGED <<now, jwts, apps, users, idps>>
  BY DEF Credentials
<1> QED
  BY <1>1, <1>2, <1>3, IdentifiedStep

\* A one-time password is entered.
LEMMA VerifyOTPStep ==
    ASSUME IInv, NEW t \in jwts, NEW existing \in jwts \cup {None}, VerifyOTP(t, existing)
    PROVE  IInv'
<1> DEFINE u == t.claims.otp_data.recipient
<1>1. "SMSOTPAuthenticator" \in Authenticators
  BY DEF Authenticators
<1>2. StandsFor("OTP", "SMSOTPAuthenticator")
  BY DEF StandsFor
<1>3. /\ Identified(u, "SMSOTPAuthenticator", existing)
      /\ passed' = passed \cup {[user |-> u, by |-> "OTP"]}
      /\ UNCHANGED <<now, jwts, apps, users, idps>>
  BY DEF VerifyOTP
<1>4. u \in Users
  BY DEF VerifyOTP, IInv
<1> HIDE DEF u
<1> QED
  BY <1>1, <1>2, <1>3, <1>4, IdentifiedStep

\* What a provider vouched for stands for the authenticator of its type: Google's ID
\* token says who issued it.
LEMMA VouchedStands ==
    ASSUME IInv, call.pc = "answered", Vouched
    PROVE  /\ AuthenticatorOf(call.type) \in Authenticators
           /\ StandsFor(call.from, AuthenticatorOf(call.type))
<1>1. /\ call.type \in {"OAUTH", "OIDC", "GOOGLE", "GITHUB"} /\ call.from \in IdpTypes
      /\ call.idToken # None /\ call.idToken.claims.iss = "google" => call.from = "GOOGLE"
  BY ProvidersAssumption DEF IInv, CallKept, ProviderKept
<1>2. CASE call.type = "GOOGLE"
  <2>1. call.idToken # None /\ call.idToken.claims.iss = "google"
    BY <1>2 DEF Vouched, ValidGoogleToken
  <2>2. AuthenticatorOf(call.type) = "GoogleOIDCAuthenticator" /\ call.from = "GOOGLE"
    BY <1>1, <1>2, <2>1 DEF AuthenticatorOf
  <2> QED
    BY <2>2 DEF Authenticators, StandsFor
<1>3. CASE call.type # "GOOGLE"
  <2>1. AuthenticatorOf(call.type) \in
            {"OAuthAuthenticator", "OIDCAuthenticator", "GithubOAuthAuthenticator"}
    BY <1>1, <1>3 DEF AuthenticatorOf
  <2> QED
    BY <1>1, <2>1 DEF Authenticators, StandsFor
<1> QED
  BY <1>2, <1>3

\* The user that a provider vouched for is found.
LEMMA IdentifyExternalStep ==
    ASSUME IInv, IdentifyExternal
    PROVE  IInv'
<1>1. call.pc = "answered" /\ Vouched
  BY DEF IdentifyExternal
<1>2. PICK u \in GetInternalUser(call.sub) :
          /\ Identified(u, AuthenticatorOf(call.type), call.existing)
          /\ passed' = passed \cup {[user |-> u, by |-> call.from]}
  BY DEF IdentifyExternal
<1>3. u \in Users
  BY DEF GetInternalUser, IInv
<1>4. call.existing \in jwts \cup {None}
  BY <1>1 DEF IInv, CallKept
<1>5. UNCHANGED <<now, jwts, apps, users, idps>>
  BY DEF IdentifyExternal
<1>6. PICK r, by, existing :
          r = AuthenticatorOf(call.type) /\ by = call.from /\ existing = call.existing
  OBVIOUS
<1>7. /\ r \in Authenticators /\ StandsFor(by, r) /\ existing \in jwts \cup {None}
      /\ Identified(u, r, existing) /\ passed' = passed \cup {[user |-> u, by |-> by]}
  BY <1>1, <1>2, <1>4, <1>6, VouchedStands
<1> QED
  BY <1>3, <1>5, <1>7, IdentifiedStep

\* A one-time password is made.
LEMMA SendOTPStep ==
    ASSUME IInv, NEW u \in Users, SendOTP(u)
    PROVE  IInv'
<1>1. now + OtpPeriod \in Nat
  BY ProvidersAssumption DEF IInv
<1>2. call'.pc = "sent" /\ call'.recipient = u /\ call'.expiry = now + OtpPeriod
  BY DEF SendOTP
<1>3. CallKept'
  BY <1>1, <1>2 DEF CallKept
<1> QED
  BY <1>3, CallStep DEF SendOTP

\* The call ends.
LEMMA NobodyKept == call' = Nobody => CallKept'
<1> SUFFICES ASSUME call' = Nobody PROVE CallKept'
  OBVIOUS
<1>1. call'.pc = "idle"
  BY DEF Nobody
<1> QED
  BY <1>1 DEF CallKept

\* Tokens are signed, and the call ends.
LEMMA LastStep ==
    ASSUME IInv, CallKept', NEW new, jwts \subseteq jwts', jwts' \subseteq jwts \cup new,
           \A t \in new : TokenKept(t), UNCHANGED <<now, apps, users, idps, passed>>
    PROVE  IInv'
<1>1. now' = now /\ now \in Nat /\ now <= now'
  BY DEF IInv
<1>2. \A t \in jwts' : TokenKept(t)'
  BY <1>1, TokensStay DEF IInv
<1>3. AppsKept'
  BY DEF IInv, AppsKept
<1> QED
  BY <1>1, <1>2, <1>3 DEF IInv

\* The one-time password has been sent.
LEMMA OtpSentStep ==
    ASSUME IInv, OtpSent
    PROVE  IInv'
<1>1. PICK t : t = OtpSession(call.recipient, call.expiry)
  OBVIOUS
<1>2. TokenKept(t)
  <2>1. call.recipient \in Users /\ call.expiry \in Nat /\ now \in Nat
    BY DEF OtpSent, IInv, CallKept
  <2> QED
    BY <1>1, <2>1, OtpSessionKept
<1>3. CallKept'
  BY NobodyKept DEF OtpSent
<1>4. PICK new : new = {t}
  OBVIOUS
<1>5. jwts \subseteq jwts' /\ jwts' \subseteq jwts \cup new
  BY <1>1, <1>4 DEF OtpSent, Issue
<1>6. UNCHANGED <<now, apps, users, idps, passed>>
  BY DEF OtpSent
<1> QED
  BY <1>2, <1>3, <1>4, <1>5, <1>6, LastStep

\* A session with a provider starts.
LEMMA StartIDPStep ==
    ASSUME IInv, NEW i \in Idps, NEW type, StartIDP(i, type)
    PROVE  IInv'
<1>1. PICK t : t = [claims |-> GenerateJWT("auth-svc", "auth-svc", Issuer, SessionPeriod,
                       [auth_data |-> [idp |-> i, type |-> idps[i].type]]),
                    via |-> "session", origin |-> None]
  OBVIOUS
<1>2. idps[i].type \in IdpTypes
  BY DEF StartIDP, IInv, ProviderTypes
<1>3. TokenKept(t)
  BY <1>1, <1>2, IdpSessionKept
<1>4. jwts' = jwts \cup {t} /\ UNCHANGED <<now, apps, users, idps, call, passed>>
  BY <1>1 DEF StartIDP, Issue
<1>5. PICK new : new = {t}
  OBVIOUS
<1>6. CallKept'
  BY <1>4, CallStays DEF IInv
<1>7. UNCHANGED <<now, apps, users, idps, passed>>
  BY <1>4
<1> QED
  BY <1>3, <1>4, <1>5, <1>6, <1>7, LastStep

\* The session with a provider comes back.
LEMMA FinishIDPStep ==
    ASSUME IInv, NEW t \in jwts, NEW type, NEW existing \in jwts \cup {None},
           FinishIDP(t, type, existing)
    PROVE  IInv'
<1>1. ProviderKept(t.claims.auth_data)
  BY DEF IInv, TokenKept, SessionKept, FinishIDP, IdpSessionHolds
<1>2. /\ call'.pc = "exchanging" /\ call'.type = t.claims.auth_data.type
      /\ call'.idp = t.claims.auth_data.idp
      /\ call'.existing = existing /\ jwts' = jwts
  BY DEF FinishIDP
<1>3. CallKept'
  BY <1>1, <1>2 DEF CallKept, ProviderKept
<1> QED
  BY <1>3, CallStep DEF FinishIDP

\* The provider answers.
LEMMA ExchangeCodeStep ==
    ASSUME IInv, NEW s, ExchangeCodeForToken(s)
    PROVE  IInv'
<1> DEFINE type == idps[call.idp].type
           idToken == IF type \in {"OIDC", "GOOGLE"}
                      THEN [key |-> type,
                            claims |-> [sub |-> s, aud |-> type, nbf |-> Unix, iat |-> Unix,
                                        exp |-> Unix + 1,
                                        iss |-> IF type = "GOOGLE" THEN "google" ELSE "other"]]
                      ELSE None
<1>1. idToken # None /\ idToken.claims.iss = "google" => type = "GOOGLE"
  BY DEF Unix
<1>2. /\ call'.pc = "answered" /\ call'.type = call.type /\ call'.idp = call.idp
      /\ call'.existing = call.existing
      /\ call'.from = type /\ call'.idToken = idToken /\ jwts' = jwts
  BY DEF ExchangeCodeForToken
<1>3. type \in IdpTypes
  BY DEF ExchangeCodeForToken, IInv, CallKept, ProviderTypes, ProviderKept
<1> HIDE DEF type, idToken
<1>4. ProviderKept(call) /\ call.existing \in jwts \cup {None}
  BY DEF IInv, CallKept, ExchangeCodeForToken
<1>5. CallKept'
  BY <1>1, <1>2, <1>3, <1>4 DEF CallKept, ProviderKept
<1> QED
  BY <1>5, CallStep DEF ExchangeCodeForToken

\* The call ends with an assertion or without.
LEMMA FinishStep ==
    ASSUME IInv, Finish
    PROVE  IInv'
<1>1. CallKept' /\ UNCHANGED <<now, apps, users, idps, passed>>
  BY NobodyKept DEF Finish
<1>2. CASE UNCHANGED jwts
  BY <1>1, <1>2, CallStep DEF Finish
<1>3. CASE /\ call.existing # None => ExistingAssertion(call.existing, call.user)
           /\ Issue({AssertionWith(call.user, call.by, call.existing)})
  <2>1. PICK t : t = AssertionWith(call.user, call.by, call.existing)
    OBVIOUS
  <2>2. /\ call.user \in Users /\ call.by \in Authenticators /\ Passed(call.user, call.by)
        /\ call.existing \in jwts \cup {None}
    BY DEF Finish, IInv, CallKept
  <2>3. call.existing # None => call.existing \in jwts /\ TokenKept(call.existing)
    BY <2>2 DEF IInv
  <2>4. TokenKept(t)
    BY <1>3, <2>1, <2>2, <2>3, AssertionKept
  <2>5. jwts' = jwts \cup {t}
    BY <1>3, <2>1 DEF Issue
  <2>6. PICK new : new = {t}
    OBVIOUS
  <2>7. /\ jwts \subseteq jwts' /\ jwts' \subseteq jwts \cup new
        /\ \A x \in new : TokenKept(x)
    BY <2>4, <2>5, <2>6
  <2> HIDE <1>3
  <2> QED
    BY <1>1, <2>7, LastStep
<1> QED
  BY <1>2, <1>3 DEF Finish

\* The call fails; providers and users are changed.
LEMMA OtherSteps ==
    ASSUME IInv,
           \/ CallFails
           \/ \E u \in Leavers : DeleteUser(u)
           \/ \E i \in Idps, new \in Changes : ChangeIdp(i, new)
    PROVE  IInv'
<1>1. CASE CallFails
  BY <1>1, NobodyKept, CallStep DEF CallFails
<1>2. ASSUME NEW u, DeleteUser(u) PROVE IInv'
  <2>1. UNCHANGED <<now, jwts, apps, idps, call, passed>> /\ users' \subseteq users
    BY <1>2 DEF DeleteUser
  <2>2. now' = now /\ now \in Nat /\ now <= now' /\ jwts' = jwts
    BY <2>1 DEF IInv
  <2>3. \A t \in jwts' : TokenKept(t)'
    BY <2>1, <2>2, TokensStay DEF IInv
  <2>4. CallKept' /\ AppsKept'
    BY <2>1, CallStays DEF IInv, AppsKept
  <2> QED
    BY <2>1, <2>2, <2>3, <2>4 DEF IInv
<1>3. ASSUME NEW i \in Idps, NEW new \in Changes, ChangeIdp(i, new) PROVE IInv'
  <2>1. UNCHANGED <<now, jwts, apps, users, call, passed>> /\ idps' = [idps EXCEPT ![i] = new]
    BY <1>3 DEF ChangeIdp
  <2>2. now' = now /\ now \in Nat /\ now <= now' /\ jwts' = jwts
    BY <2>1 DEF IInv
  <2>3. \A t \in jwts' : TokenKept(t)'
    BY <2>1, <2>2, TokensStay DEF IInv
  <2>4. CallKept' /\ AppsKept'
    BY <2>1, CallStays DEF IInv, AppsKept
  <2>5. idps' \in [Idps -> ProviderTypes \cup {None}]
    BY <2>1, ProvidersAssumption DEF IInv
  <2> QED
    BY <2>1, <2>2, <2>3, <2>4, <2>5 DEF IInv
<1> QED
  BY <1>1, <1>2, <1>3

\* The invariant holds at the start.
LEMMA InitKeeps == Init => IInv
<1> SUFFICES ASSUME Init PROVE IInv
  OBVIOUS
<1>1. AppsKept
  <2>1. ASSUME NEW id \in Clients, apps[id] # None PROVE AppKept(apps[id], id)
    BY <2>1, InitialAppsAssumption DEF Init, AppKept, AppFields
  <2> QED
    BY <2>1, InitialAppsAssumption DEF Init, AppsKept
<1>2. CallKept
  <2>1. call.pc = "idle"
    BY DEF Init, Nobody
  <2> QED
    BY <2>1 DEF CallKept
<1> QED
  BY <1>1, <1>2, ProvidersAssumption DEF Init, IInv

\* Every step keeps it.
LEMMA NextKeeps == IInv /\ [Next]_vars => IInv'
<1> SUFFICES ASSUME IInv, [Next]_vars PROVE IInv'
  OBVIOUS
<1>1. CASE UNCHANGED vars
  <2>1. UNCHANGED <<now, jwts, users, idps, call, passed>> /\ apps' = apps
    BY <1>1 DEF vars
  <2>2. AppsKept'
    BY <2>1 DEF IInv, AppsKept
  <2> QED
    BY <2>1, <2>2, ApplicationStep
<1>2. CASE TimePasses
  BY <1>2, TimeStep
<1>3. ASSUME NEW r, NEW id \in Clients, Register(r, id) PROVE IInv'
  <2>1. AppsKept'
    BY <1>3, RegisterKeeps DEF Register, IInv
  <2> QED
    BY <1>3, <2>1, ApplicationStep DEF Register
<1>4. ASSUME NEW id \in Clients, NEW attributes, Reconfigure(id, attributes) PROVE IInv'
  <2>1. AppsKept'
    BY <1>4, ReconfigureKeeps DEF IInv
  <2> QED
    BY <1>4, <2>1, ApplicationStep DEF Reconfigure
<1>5. ASSUME NEW u \in Users, NEW id \in Clients, NEW p, FlowEnds(u, id, p) PROVE IInv'
  BY <1>5, FlowStep
<1>6. ASSUME NEW id \in Clients, apps[id] # None, NEW r, NEW grant \in apps[id].grants,
             Token(grant, r, id)
      PROVE  IInv'
  BY <1>6, TokenStep
<1>7. ASSUME NEW u \in Users, NEW existing \in jwts \cup {None}, Credentials(u, existing)
      PROVE  IInv'
  BY <1>7, CredentialsStep
<1>8. ASSUME NEW u \in Users, SendOTP(u) PROVE IInv'
  BY <1>8, SendOTPStep
<1>9. ASSUME NEW t \in jwts, NEW existing \in jwts \cup {None}, VerifyOTP(t, existing)
      PROVE  IInv'
  BY <1>9, VerifyOTPStep
<1>10. ASSUME NEW i \in Idps, NEW type, StartIDP(i, type) PROVE IInv'
  BY <1>10, StartIDPStep
<1>11. ASSUME NEW t \in jwts, NEW type, NEW existing \in jwts \cup {None},
              FinishIDP(t, type, existing)
       PROVE  IInv'
  BY <1>11, FinishIDPStep
<1>12. ASSUME NEW s, ExchangeCodeForToken(s) PROVE IInv'
  BY <1>12, ExchangeCodeStep
<1>13. CASE OtpSent
  BY <1>13, OtpSentStep
<1>14. CASE IdentifyExternal
  BY <1>14, IdentifyExternalStep
<1>15. CASE Finish
  BY <1>15, FinishStep
<1>16. CASE \/ CallFails
            \/ \E u \in Leavers : DeleteUser(u)
            \/ \E i \in Idps, new \in Changes : ChangeIdp(i, new)
  BY <1>16, OtherSteps
<1> QED
  BY <1>1, <1>2, <1>3, <1>4, <1>5, <1>6, <1>7, <1>8, <1>9, <1>10, <1>11, <1>12, <1>13, <1>14,
     <1>15, <1>16 DEF Next

\* The inductive invariant holds in every reachable state: what tokens, applications and
\* the call in progress say goes back to a grant, a registration and what users passed.
THEOREM Inductive == Spec => []IInv
BY InitKeeps, NextKeeps, PTL DEF Spec

-----------------------------------------------------------------------------
(* What tokens are good for.                                               *)

\* A token that goes back to a grant is within it.
LEMMA WithinOrigin ==
    ASSUME IInv, NEW t \in jwts, t.origin # None
    PROVE  /\ OriginKept(t.origin) /\ WithinGrant(t.claims, t.origin)
           /\ Authority(t.claims) \subseteq t.origin.scopes
<1>1. OriginKept(t.origin) /\ WithinGrant(t.claims, t.origin)
  BY DEF IInv, TokenKept
<1>2. Authority(t.claims) \subseteq t.origin.scopes
  BY <1>1 DEF Authority, WithinGrant
<1> QED
  BY <1>1, <1>2

\* A token that was refreshed and exchanged in any order, by any clients, has no scope
\* and no permission that was not granted at first, and its subject is one of the names
\* of the party it was granted for.
THEOREM TokensWithinOrigin == Spec => []NoTokenOutgrowsItsOrigin
<1>1. IInv => NoTokenOutgrowsItsOrigin
  BY WithinOrigin DEF NoTokenOutgrowsItsOrigin, WithinGrant
<1> QED
  BY <1>1, Inductive, PTL

\* User info, from a token that introspection calls active, is about the user of the
\* first grant, and tells only attributes that the scopes of that grant stand for.
THEOREM InfoTellsWhatWasGranted == Spec => []InfoWithinGrant
<1>1. ASSUME IInv, NEW t \in jwts, t.origin # None, UserInfo(t) # Refused
      PROVE  /\ Introspection(t)
             /\ t.origin.kind = "user" \/ DOMAIN UserInfo(t) = {"sub"}
             /\ \A name \in DOMAIN UserInfo(t) \ {"sub", "groups"} :
                   /\ UserInfo(t)[name] = Attributes[t.origin.who][name]
                   /\ \E s \in t.origin.scopes, id \in Clients :
                         apps[id] # None /\ name \in ClaimsOfScope(s, apps[id])
  <2> DEFINE c == t.claims
             o == t.origin
             sub == c.sub
             scopes == IF Has(c, "scope") THEN c.scope ELSE {}
             app == IF Has(c, "client_id") THEN apps[c.client_id] ELSE None
             f == BuildOIDCClaimsFromScopes(scopes, WithGroups(sub, app), app)
             only == [sub |-> sub]
  <2>1. /\ InfoAllowed(t)
        /\ \/ UserInfo(t) = only
           \/ sub \in users /\ app # None /\ UserInfo(t) = Over(f, only)
    <3>1. UserInfo(t) = IF ~InfoAllowed(t) \/ (scopes # {} /\ sub \notin users) THEN Refused
                        ELSE IF scopes = {} \/ app = None THEN only ELSE Over(f, only)
      BY DEF UserInfo, ++
    <3> HIDE DEF scopes, sub, app, f, only
    <3> QED
      BY <1>1, <3>1
  <2>2. Introspection(t)
    BY <2>1 DEF InfoAllowed, Introspection
  <2>3. /\ OriginKept(o) /\ sub \in Names(o) /\ scopes \subseteq o.scopes
        /\ Has(c, "client_id") => c.client_id \in Clients
    <3>1. OriginKept(o) /\ WithinGrant(c, o)
      BY <1>1, WithinOrigin
    <3>2. Has(c, "client_id") => c.client_id \in Clients
      BY <1>1 DEF IInv, TokenKept
    <3> QED
      BY <3>1, <3>2 DEF WithinGrant
  <2>4. DOMAIN only = {"sub"}
    OBVIOUS
  <2>5. ASSUME sub \in users PROVE o.kind = "user" /\ sub = o.who
    BY <1>1, <2>3, <2>5, IdsAssumption DEF Names, OriginKept, IInv
  <2>6. ASSUME app # None PROVE \E id \in Clients : apps[id] # None /\ app = apps[id]
    BY <2>3, <2>6
  <2>7. \A n \in DOMAIN f : n # "groups" =>
            f[n] = Attributes[sub][n] /\ \E s \in scopes : n \in ClaimsOfScope(s, app)
    <3> HIDE DEF scopes, app, sub
    <3> QED
      BY WithGroupsIs, OIDCClaimsAre
  <2> HIDE DEF c, o, sub, scopes, app, f, only
  <2>8. CASE UserInfo(t) = only
    <3>1. DOMAIN UserInfo(t) = {"sub"}
      BY <2>4, <2>8
    <3> QED
      BY <2>2, <3>1
  <2>9. CASE sub \in users /\ app # None /\ UserInfo(t) = Over(f, only)
    <3>1. \A n \in DOMAIN UserInfo(t) : n # "sub" => n \in DOMAIN f /\ UserInfo(t)[n] = f[n]
      BY <2>4, <2>9, OverIs
    <3>2. o.kind = "user" /\ sub = o.who
      BY <2>5, <2>9
    <3>3. PICK id \in Clients : apps[id] # None /\ app = apps[id]
      BY <2>6, <2>9
    <3>4. ASSUME NEW name \in DOMAIN UserInfo(t) \ {"sub", "groups"}
          PROVE  /\ UserInfo(t)[name] = Attributes[o.who][name]
                 /\ \E s \in o.scopes : apps[id] # None /\ name \in ClaimsOfScope(s, apps[id])
      BY <2>3, <2>7, <3>1, <3>2, <3>3
    <3> QED
      BY <2>2, <3>2, <3>4 DEF o
  <2> QED
    BY <2>1, <2>8, <2>9
<1>2. IInv => InfoWithinGrant
  BY <1>1 DEF InfoWithinGrant
<1> QED
  BY <1>2, Inductive, PTL

-----------------------------------------------------------------------------
(* How clients authenticate.                                               *)

\* What a client may present: in the header, in the body or in both.
LEMMA PresentationsAre ==
    ASSUME NEW q, NEW id, NEW s, q \in Presentations(id, s)
    PROVE  \/ q.headerID = id /\ q.headerSecret = s /\ q.bodyID = Blank /\ q.bodySecret = Blank
           \/ q.headerID = Blank /\ q.headerSecret = Blank /\ q.bodyID = id /\ q.bodySecret = s
           \/ q.headerID = id /\ q.headerSecret = s /\ q.bodyID = id /\ q.bodySecret = Blank
BY DEF Presentations

\* A client presents itself in one of these ways, with anyone's secret or with none.
LEMMA ProofsAre ==
    ASSUME NEW q
    PROVE  q \in Proofs <=> \E id \in Clients : \E s \in Clients \cup {Blank} : q \in Presentations(id, s)
<1> DEFINE S == Clients \cup {Blank}
           Of(id) == UNION {Presentations(id, s) : s \in S}
<1>1. Proofs = UNION {Of(id) : id \in Clients}
  BY DEF Proofs
<1> HIDE DEF S
<1>2. \A id : q \in Of(id) <=> \E s \in S : q \in Presentations(id, s)
  OBVIOUS
<1> HIDE DEF Of
<1>3. q \in Proofs <=> \E id \in Clients : q \in Of(id)
  BY <1>1
<1> QED
  BY <1>2, <1>3 DEF S

\* A method is never blank.
LEMMA MethodNamed == Blank \notin AuthMethods
BY Zenon DEF Blank, AuthMethods

\* The way a registered client has to present itself.
ByItsMethod(q, id) ==
    LET app == apps[id]
    IN  /\ ~(q.headerID # Blank /\ q.bodyID # Blank)
        /\ CASE app.method = "none" -> q.bodyID = id /\ q.bodySecret = Blank
             [] app.method = "client_secret_basic" -> q.headerSecret = app.secret
             [] app.method = "client_secret_post" -> q.bodySecret = app.secret
        /\ app.public => app.method = "none"

\* A client is accepted when it presents itself by its method with its secret.
LEMMA AcceptedByMethod ==
    ASSUME NEW id \in Clients, NEW s \in Clients \cup {Blank}, NEW q \in Presentations(id, s),
           apps[id] # None, AppKept(apps[id], id)
    PROVE  Authenticated(q) <=> s \in {Blank, apps[id].secret} /\ ByItsMethod(q, id)
<1> DEFINE app == apps[id]
<1>1. id # Blank /\ Blank \notin Clients
  BY IdsAssumption
<1>2. /\ app.secret = IF app.public THEN Blank ELSE id
      /\ app.method \in AuthMethods
      /\ app.public => app.method = "none"
  BY DEF AppKept
<1>3. app.method \in {"client_secret_basic", "client_secret_post", "none"} /\ app.method # Blank
  BY <1>2, MethodNamed DEF AuthMethods
<1> HIDE DEF app
<1>4. CASE /\ q.headerID = id /\ q.headerSecret = s /\ q.bodyID = Blank /\ q.bodySecret = Blank
  <2>1. ClientOf(q) = id /\ SecretOf(q) = s /\ MethodOf(q) = IF s # Blank THEN "client_secret_basic" ELSE Blank
    BY <1>1, <1>4 DEF ClientOf, SecretOf, MethodOf
  <2>2. Authenticated(q) <=>
          s # Blank /\ app.method = "client_secret_basic" /\ ~app.public /\ s = app.secret
    BY <1>1, <1>3, <1>4, <2>1 DEF Authenticated, ValidateCredentials, app
  <2>3. ByItsMethod(q, id) <=> app.method = "client_secret_basic" /\ s = app.secret
    BY <1>1, <1>2, <1>3, <1>4 DEF ByItsMethod, app
  <2> QED
    BY <1>1, <1>2, <2>2, <2>3 DEF app
<1>5. CASE /\ q.headerID = Blank /\ q.headerSecret = Blank /\ q.bodyID = id /\ q.bodySecret = s
  <2>1. ClientOf(q) = id /\ SecretOf(q) = s /\ MethodOf(q) = IF s # Blank THEN "client_secret_post" ELSE "none"
    BY <1>1, <1>5 DEF ClientOf, SecretOf, MethodOf
  <2>2. Authenticated(q) <=>
          \/ s = Blank /\ app.method = "none"
          \/ s # Blank /\ app.method = "client_secret_post" /\ ~app.public /\ s = app.secret
    BY <1>1, <1>3, <1>5, <2>1 DEF Authenticated, ValidateCredentials, app
  <2>3. ByItsMethod(q, id) <=>
          \/ app.method = "none" /\ s = Blank
          \/ app.method = "client_secret_post" /\ s = app.secret
          \/ app.method = "client_secret_basic" /\ Blank = app.secret
    BY <1>1, <1>2, <1>3, <1>5 DEF ByItsMethod, app
  <2> QED
    BY <1>1, <1>2, <2>2, <2>3 DEF app
<1>6. CASE /\ q.headerID = id /\ q.headerSecret = s /\ q.bodyID = id /\ q.bodySecret = Blank
  <2>1. ~Authenticated(q)
    BY <1>1, <1>6 DEF Authenticated
  <2>2. ~ByItsMethod(q, id)
    BY <1>1, <1>6 DEF ByItsMethod
  <2> QED
    BY <2>1, <2>2
<1> QED
  BY <1>4, <1>5, <1>6, PresentationsAre

\* Whatever was registered, a client is accepted when it presents itself by its method
\* with the secret that its registration answered, and in no other way.
THEOREM RegisteredAuthenticate == Spec => []RegisteredMayAuthenticate
<1>1. ASSUME IInv, NEW id \in Clients, apps[id] # None, NEW q
      PROVE  q \in Proofs /\ Authenticated(q) /\ ClientOf(q) = id <=>
             /\ q \in Presentations(id, apps[id].secret) \cup Presentations(id, Blank)
             /\ ByItsMethod(q, id)
  <2>1. AppKept(apps[id], id)
    BY <1>1 DEF IInv, AppsKept
  <2>2. apps[id].secret \in Clients \cup {Blank}
    BY <2>1 DEF AppKept
  <2>3. ASSUME NEW i \in Clients, NEW s, q \in Presentations(i, s)
        PROVE  ClientOf(q) = i
    BY <2>3, IdsAssumption, PresentationsAre DEF ClientOf
  <2>4. ASSUME q \in Proofs, Authenticated(q), ClientOf(q) = id
        PROVE  /\ q \in Presentations(id, apps[id].secret) \cup Presentations(id, Blank)
               /\ ByItsMethod(q, id)
    <3>1. PICK i \in Clients : \E s \in Clients \cup {Blank} : q \in Presentations(i, s)
      BY <2>4, ProofsAre
    <3>2. PICK s \in Clients \cup {Blank} : q \in Presentations(i, s)
      BY <3>1
    <3>3. q \in Presentations(id, s)
      BY <2>3, <2>4, <3>2
    <3>4. s \in {Blank, apps[id].secret} /\ ByItsMethod(q, id)
      BY <1>1, <2>1, <2>4, <3>3, AcceptedByMethod
    <3> QED
      BY <3>3, <3>4
  <2>5. ASSUME NEW s \in {Blank, apps[id].secret}, q \in Presentations(id, s), ByItsMethod(q, id)
        PROVE  q \in Proofs /\ Authenticated(q) /\ ClientOf(q) = id
    <3>1. s \in Clients \cup {Blank}
      BY <2>2
    <3> QED
      BY <1>1, <2>1, <2>3, <2>5, <3>1, ProofsAre, AcceptedByMethod
  <2> QED
    BY <2>4, <2>5
<1>2. IInv => RegisteredMayAuthenticate
  BY <1>1 DEF RegisteredMayAuthenticate, ByItsMethod
<1> QED
  BY <1>2, Inductive, PTL

-----------------------------------------------------------------------------
(* What assertions say.                                                    *)

SMS == "SMSOTPAuthenticator"

\* The level is the number of factors: two when and only when the one-time password is
\* there and something else.
LEMMA LevelTells ==
    ASSUME NEW refs \in Seq(Authenticators)
    PROVE  calculateAAL(refs) = "AAL2" <=> SMS \in Range(refs) /\ Cardinality(Range(refs)) > 1
<1> DEFINE factors == UNION {Factors(refs[i]) : i \in DOMAIN refs}
           R == Range(refs)
<1>1. R \subseteq Authenticators /\ \A r : r \in R <=> \E i \in DOMAIN refs : refs[i] = r
  BY DEF Range
<1>2. calculateAAL(refs) = CASE factors = {} -> "UNKNOWN"
                             [] Cardinality(factors) = 1 -> "AAL1"
                             [] Cardinality(factors) = 2 -> "AAL2"
                             [] OTHER -> "AAL3"
  BY DEF calculateAAL
<1>3. \A x : x \in factors <=> \E i \in DOMAIN refs : x \in Factors(refs[i])
  OBVIOUS
<1> HIDE DEF factors, R
<1>4. "POSSESSION" \in factors <=> SMS \in R
  BY <1>1, <1>3 DEF Factors, SMS
<1>5. "KNOWLEDGE" \in factors <=> \E r \in R : r # SMS
  BY <1>1, <1>3 DEF Factors, SMS
<1>6. factors \subseteq {"POSSESSION", "KNOWLEDGE"}
  BY <1>3 DEF Factors
<1>7. Cardinality({"POSSESSION"}) = 1 /\ Cardinality({"KNOWLEDGE"}) = 1 /\ Cardinality({SMS}) = 1
  BY FS_Singleton
<1>8. Cardinality({"POSSESSION", "KNOWLEDGE"}) = 2
  <2>1. IsFiniteSet({"KNOWLEDGE"})
    BY FS_Singleton
  <2>2. Cardinality({"KNOWLEDGE"} \cup {"POSSESSION"}) = Cardinality({"KNOWLEDGE"}) + 1
    BY <2>1, FS_AddElement
  <2>3. {"KNOWLEDGE"} \cup {"POSSESSION"} = {"POSSESSION", "KNOWLEDGE"}
    OBVIOUS
  <2> QED
    BY <1>7, <2>2, <2>3
<1>9. calculateAAL(refs) = "AAL2" <=> factors = {"POSSESSION", "KNOWLEDGE"}
  <2>1. Cardinality({}) = 0
    BY FS_EmptySet
  <2>2. CASE factors = {}
    <3>1. calculateAAL(refs) = "UNKNOWN"
      BY <1>2, <2>1, <2>2
    <3>2. factors # {"POSSESSION", "KNOWLEDGE"}
      BY <2>2
    <3> QED
      BY <3>1, <3>2
  <2>3. CASE factors = {"POSSESSION"} \/ factors = {"KNOWLEDGE"}
    <3>1. Cardinality(factors) = 1
      BY <1>7, <2>3, Zenon
    <3>2. factors # {} /\ factors # {"POSSESSION", "KNOWLEDGE"}
      <4>1. "POSSESSION" \notin factors \/ "KNOWLEDGE" \notin factors
        BY <2>3
      <4> QED
        BY <2>3, <4>1
    <3>3. calculateAAL(refs) = "AAL1"
      BY <1>2, <3>1, <3>2
    <3> QED
      BY <3>2, <3>3
  <2>4. CASE factors = {"POSSESSION", "KNOWLEDGE"}
    <3>1. factors # {} /\ Cardinality(factors) = 2
      BY <1>8, <2>4
    <3>2. calculateAAL(refs) = "AAL2"
      BY <1>2, <3>1
    <3> QED
      BY <2>4, <3>2
  <2> QED
    BY <1>6, <2>2, <2>3, <2>4
<1>10. IsFiniteSet(R) /\ Cardinality(R) \in Nat
  <2> DEFINE A1 == {"CredentialsAuthenticator", SMS}
             A2 == A1 \cup {"OAuthAuthenticator"}
             A3 == A2 \cup {"OIDCAuthenticator"}
             A4 == A3 \cup {"GoogleOIDCAuthenticator"}
             A5 == A4 \cup {"GithubOAuthAuthenticator"}
  <2>1. IsFiniteSet(A1)
    <3>1. IsFiniteSet({"CredentialsAuthenticator"} \cup {SMS})
      BY FS_Singleton, FS_AddElement
    <3>2. {"CredentialsAuthenticator"} \cup {SMS} = A1
      OBVIOUS
    <3> QED
      BY <3>1, <3>2
  <2>2. Authenticators = A5
    BY DEF Authenticators, SMS
  <2> HIDE DEF A1
  <2>3. IsFiniteSet(A2)
    BY <2>1, FS_AddElement
  <2> HIDE DEF A2
  <2>4. IsFiniteSet(A3)
    BY <2>3, FS_AddElement
  <2> HIDE DEF A3
  <2>5. IsFiniteSet(A4)
    BY <2>4, FS_AddElement
  <2> HIDE DEF A4
  <2>6. IsFiniteSet(A5)
    BY <2>5, FS_AddElement
  <2> HIDE DEF A5
  <2>7. IsFiniteSet(Authenticators) /\ R \in SUBSET Authenticators
    BY <1>1, <2>2, <2>6
  <2>8. IsFiniteSet(R)
    BY <2>7, FS_Subset
  <2> QED
    BY <2>8, FS_CardinalityType
<1>11. SMS \in R => (Cardinality(R) > 1 <=> \E r \in R : r # SMS)
  <2>1. ASSUME SMS \in R PROVE {SMS} \subseteq R
    BY <2>1
  <2>2. ASSUME SMS \in R, Cardinality(R) > 1 PROVE \E r \in R : r # SMS
    <3>1. ASSUME R = {SMS} PROVE FALSE
      <4>1. Cardinality(R) = 1
        BY <1>7, <3>1, Zenon
      <4> QED
        BY <2>2, <4>1
    <3> QED
      BY <2>2, <3>1
  <2>3. ASSUME SMS \in R, NEW r \in R, r # SMS PROVE Cardinality(R) > 1
    <3> DEFINE D == {SMS, r}
    <3>1. IsFiniteSet({SMS}) /\ {SMS} \cup {r} = D
      BY FS_Singleton
    <3>2. Cardinality({SMS} \cup {r}) = Cardinality({SMS}) + 1
      BY <2>3, <3>1, FS_AddElement
    <3>3. Cardinality(D) = Cardinality({SMS}) + 1
      BY <3>1, <3>2, Zenon
    <3>4. D \in SUBSET R
      BY <2>3
    <3> HIDE DEF D
    <3>5. Cardinality(D) <= Cardinality(R)
      BY <1>10, <3>4, FS_Subset
    <3> QED
      BY <1>7, <1>10, <3>3, <3>5
  <2> QED
    BY <2>2, <2>3
<1> QED
  BY <1>4, <1>5, <1>6, <1>9, <1>11 DEF R

\* Every authenticator that an assertion names was passed by the user it is about, in
\* however many calls, and its level is the number of factors among them.
THEOREM AssurancesAreEarned == Spec => []AssurancesEarned
<1>1. ASSUME IInv, NEW t \in jwts, t.via = "assertion"
      PROVE  LET a == t.claims.assurance
                 refs == Range(a.authenticators)
             IN  /\ t.claims.sub \in Names(t.origin)
                 /\ \A r \in refs : \E p \in passed : p.user = t.origin.who /\ StandsFor(p.by, r)
                 /\ a.aal = "AAL2" <=> "SMSOTPAuthenticator" \in refs /\ Cardinality(refs) > 1
  <2> DEFINE a == t.claims.assurance
             refs == a.authenticators
  <2>1. TokenKept(t) /\ Has(t.claims, "assurance")
    BY <1>1 DEF IInv, TokenKept
  <2>2. OriginKept(t.origin) /\ WithinGrant(t.claims, t.origin)
    BY <2>1 DEF TokenKept, Bare
  <2>3. /\ refs \in Seq(Authenticators)
        /\ a.aal = calculateAAL(refs)
        /\ \A i \in DOMAIN refs : Passed(t.origin.who, refs[i])
    BY <2>1 DEF TokenKept, AssuranceKept
  <2>4. t.claims.sub \in Names(t.origin)
    BY <2>2 DEF WithinGrant
  <2> HIDE DEF a, refs
  <2>5. \A r \in Range(refs) : Passed(t.origin.who, r)
    BY <2>3 DEF Range
  <2>6. a.aal = "AAL2" <=> SMS \in Range(refs) /\ Cardinality(Range(refs)) > 1
    BY <2>3, LevelTells
  <2> QED
    BY <2>4, <2>5, <2>6 DEF a, refs, Passed, SMS
<1>2. IInv => AssurancesEarned
  BY <1>1 DEF AssurancesEarned
<1> QED
  BY <1>2, Inductive, PTL

-----------------------------------------------------------------------------
(* How long one-time passwords last.                                       *)

\* What whole seconds are.
LEMMA WholeSeconds ==
    ASSUME NEW n \in Nat
    PROVE  /\ n \div Second \in Nat
           /\ (n \div Second) * Second <= n
           /\ n < (n \div Second + 1) * Second
BY JwtAssumption

\* Products are in the order of their factors.
LEMMA ProductsOrdered ==
    ASSUME NEW i \in Nat, NEW j \in Nat, NEW s \in Nat, i <= j
    PROVE  i * s <= j * s
BY SMT

\* A session made at n says it is valid until a second before the password expires.
LEMMA SecondsCover ==
    ASSUME NEW n \in Nat, NEW m \in Nat, NEW e \in Nat, n <= m, m + Second <= e
    PROVE  /\ n \div Second <= m \div Second
           /\ m \div Second <= n \div Second + (e - n) \div Second
<1>1. Second \in Nat /\ Second > 0
  BY JwtAssumption
<1>2. PICK a \in Nat : a = n \div Second /\ a * Second <= n /\ n < (a + 1) * Second
  BY WholeSeconds
<1>3. PICK b \in Nat : b = m \div Second /\ b * Second <= m /\ m < (b + 1) * Second
  BY WholeSeconds
<1>4. e - n \in Nat
  BY <1>1
<1>5. PICK d \in Nat : d = (e - n) \div Second /\ d * Second <= e - n /\ e - n < (d + 1) * Second
  BY <1>4, WholeSeconds
<1>6. a <= b
  <2>1. CASE b + 1 <= a
    <3>1. (b + 1) * Second <= a * Second
      BY <1>1, <2>1, ProductsOrdered
    <3> QED
      BY <1>1, <1>2, <1>3, <3>1
  <2> QED
    BY <2>1
<1>7. b <= a + d
  <2>1. CASE a + d + 1 <= b
    <3>1. (a + d + 1) * Second <= b * Second
      BY <1>1, <2>1, ProductsOrdered
    <3>2. (a + d + 1) * Second = (a + 1) * Second + d * Second /\ (d + 1) * Second = d * Second + Second
      BY <1>1
    <3>3. (a + 1) * Second \in Nat /\ d * Second \in Nat /\ b * Second \in Nat
      BY <1>1
    <3>4. n < (a + 1) * Second /\ e - n < d * Second + Second
      BY <1>2, <1>5, <3>2
    <3> QED
      BY <1>1, <1>3, <3>1, <3>2, <3>3, <3>4
  <2> QED
    BY <2>1
<1> QED
  BY <1>2, <1>3, <1>5, <1>6, <1>7

\* A one-time password is accepted for as long as its message says, up to the second
\* that the clock of tokens may lose, and never after that.
THEOREM OtpAsPromised == Spec => []OtpLastsAsPromised
<1>1. ASSUME IInv, NEW t \in jwts, t.via = "session", Has(t.claims, "otp_data"),
             now <= t.claims.otp_data.expiry - Second
      PROVE  OtpAccepted(t)
  <2> DEFINE e == t.claims.otp_data.expiry
  <2>1. now \in Nat /\ e \in Nat /\ \E n \in 0..now : OtpSessionOf(t.claims, n)
    BY <1>1 DEF IInv, TokenKept, SessionKept
  <2>2. PICK n \in 0..now : OtpSessionOf(t.claims, n)
    BY <2>1
  <2>3. Second \in Nat /\ Second > 0 /\ DefaultValidity \in Nat
    BY JwtAssumption
  <2>4. n \in Nat /\ n <= now /\ now + Second <= e /\ e - n \in Nat
    BY <1>1, <2>1, <2>2, <2>3
  <2>5. Seconds(e - n) = (e - n) \div Second
    BY <2>4 DEF Seconds
  <2>6. /\ t.claims.aud = "otp-svc" /\ t.claims.iss = Issuer /\ t.claims.nbf = n \div Second
        /\ t.claims.exp = n \div Second +
               IF (e - n) \div Second = 0 THEN DefaultValidity ELSE (e - n) \div Second
    BY <2>2, <2>5 DEF OtpSessionOf
  <2> HIDE DEF e
  <2>7. n \div Second <= now \div Second /\ now \div Second <= n \div Second + (e - n) \div Second
    BY <2>1, <2>4, SecondsCover
  <2>8. n \div Second \in Nat /\ now \div Second \in Nat /\ (e - n) \div Second \in Nat
    BY <2>1, <2>4, WholeSeconds
  <2>9. Unix >= t.claims.nbf /\ Unix <= t.claims.exp
    BY <2>3, <2>6, <2>7, <2>8 DEF Unix
  <2>10. now <= e
    BY <2>1, <2>3, <2>4
  <2> QED
    BY <1>1, <2>6, <2>9, <2>10 DEF OtpAccepted, OtpSessionHolds, VerifyJWT, verifyJWTClaims, e
<1>2. ASSUME IInv, NEW t \in jwts, Has(t.claims, "otp_data"), now > t.claims.otp_data.expiry
      PROVE  ~OtpAccepted(t)
  <2>1. now \in Nat /\ t.claims.otp_data.expiry \in Nat
    BY <1>2 DEF IInv, TokenKept, SessionKept
  <2> QED
    BY <1>2, <2>1 DEF OtpAccepted
<1>3. IInv => OtpLastsAsPromised
  BY <1>1, <1>2 DEF OtpLastsAsPromised
<1> QED
  BY <1>3, Inductive, PTL

=============================================================================
