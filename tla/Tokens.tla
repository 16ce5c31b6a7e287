------------------------------- MODULE Tokens -------------------------------
(***************************************************************************)
(* The token endpoint: the grants (oauth/oauth2/granthandlers), the        *)
(* service that builds and validates tokens (oauth/oauth2/tokenservice)    *)
(* and what is answered about a token: introspection, user info and the    *)
(* check of the server's own API (system/security).                        *)
(***************************************************************************)
EXTENDS Clients, Functions

CONSTANTS
    Users,           \* user IDs
    Attributes,      \* of each user: a function from names to values
    GroupsOf,        \* of each user: the names of its groups
    UserType,        \* of each user
    Scopes,          \* scopes and permissions, one name space
    StandardScopes,  \* OIDC scopes: the claims of each
    RefreshValidity, \* oauth.refresh_token.validity_period
    RenewOnGrant     \* oauth.refresh_token.renew_on_grant

VARIABLE users       \* the users there are

\* The validity of a refresh token is the deployment's.
resolveTokenConfig(app, type) ==
    [issuer |-> app.token.issuer,
     validity |-> CASE type = "access" -> app.token.access.validity
                    [] type = "id" -> app.token.id.validity
                    [] type = "refresh" -> IF RefreshValidity > 0 THEN RefreshValidity
                                           ELSE DefaultValidity]

\* Attributes in a token: those listed or, if none is, all; groups only if listed.
AccessAttributes(attrs, groups, app) ==
    LET listed == app.token.access.attributes
    IN  Claim("groups", groups, groups # {} /\ "groups" \in listed) ++
        IF listed # {} THEN Restrict(attrs, listed \cap DOMAIN attrs) ELSE attrs

\* The claim scope, and in an assertion the permissions the flow authorized.
ScopesOf(claims, isAssertion) ==
    IF Has(claims, "scope") THEN claims.scope
    ELSE IF isAssertion /\ Has(claims, "authorized_permissions")
    THEN claims.authorized_permissions ELSE {}

ActorClaim(actor) ==
    [sub |-> actor.sub, iss |-> actor.iss] ++ Claim("act", actor.nested, actor.nested # None)

\* An access token as ctx asks for it, with what is kept of it for a refresh token.
BuildAccessToken(ctx) ==
    LET attrs == AccessAttributes(ctx.attrs, ctx.groups, ctx.app)
        conf == resolveTokenConfig(ctx.app, "access")
        claims == Claim("userType", ctx.userType, ctx.userType # Blank) ++
                  Claim("act", IF ctx.actor = None THEN None ELSE ActorClaim(ctx.actor),
                        ctx.actor # None) ++
                  attrs ++ Claim("scope", ctx.scopes, ctx.scopes # {}) ++
                  [client_id |-> ctx.app.client, grant_type |-> ctx.grant]
    IN  [claims |-> GenerateJWT(ctx.sub, ctx.aud, conf.issuer, conf.validity, claims),
         via |-> ctx.via, origin |-> ctx.origin]

\* The subject of a refresh token is the client.
BuildRefreshToken(ctx) ==
    LET attrs == AccessAttributes(ctx.attrs, ctx.groups, ctx.app)
        conf == resolveTokenConfig(ctx.app, "refresh")
        claims == Claim("userType", ctx.userType, ctx.userType # Blank) ++
                  Claim("access_token_user_attributes", attrs,
                        ctx.app.token.access.attributes # {} /\ attrs # <<>>) ++
                  Claim("scope", ctx.scopes, ctx.scopes # {}) ++
                  [access_token_sub |-> ctx.sub, access_token_aud |-> ctx.aud,
                   grant_type |-> ctx.grant]
    IN  [claims |-> GenerateJWT(ctx.app.client, conf.issuer, conf.issuer, conf.validity, claims),
         via |-> ctx.via, origin |-> ctx.origin]

\* The claims that scopes stand for, as far as the application lists them.
ClaimsOfScope(s, app) ==
    IF s \in DOMAIN app.token.scopeClaims THEN app.token.scopeClaims[s]
    ELSE IF s \in DOMAIN StandardScopes THEN StandardScopes[s] ELSE {}

\* Fault: what the application lists is there whatever the scopes.
ListedClaims(scopes, attrs, app) == Restrict(attrs, app.token.id.attributes \cap DOMAIN attrs)

BuildOIDCClaimsFromScopes(scopes, attrs, app) ==
    Restrict(attrs, (UNION {ClaimsOfScope(s, app) : s \in scopes}) \cap
                    app.token.id.attributes \cap DOMAIN attrs)

WithGroups(u, app) ==
    Claim("groups", GroupsOf[u], GroupsOf[u] # {} /\ "groups" \in app.token.id.attributes) ++
    Attributes[u]

BuildIDToken(ctx) ==
    LET conf == resolveTokenConfig(ctx.app, "id")
        claims == Claim("userType", ctx.userType, ctx.userType # Blank) ++
                  BuildOIDCClaimsFromScopes(ctx.scopes, WithGroups(ctx.sub, ctx.app), ctx.app) ++
                  [auth_time |-> Unix]
    IN  [claims |-> GenerateJWT(ctx.sub, ctx.app.client, conf.issuer, conf.validity, claims),
         via |-> "id", origin |-> ctx.origin]

\* A resource of the request comes first, then the audience of the token before.
DetermineAudience(audience, resource, tokenAud, client) ==
    IF audience # Blank THEN audience
    ELSE IF resource # Blank THEN resource
    ELSE IF tokenAud # Blank THEN tokenAud ELSE client

-----------------------------------------------------------------------------
(* Validation.                                                              *)

ValidateRefreshToken(token, client) ==
    /\ VerifyJWT(token, Blank, Blank)
    /\ token.claims.sub = client
    /\ {"access_token_sub", "access_token_aud", "grant_type"} \subseteq DOMAIN token.claims

validateTimeClaims(claims) == Unix < claims.exp /\ Unix >= claims.nbf

\* An assertion is for the deployment or for the application itself.
ValidateSubjectToken(token, app) ==
    /\ token.claims.iss = resolveTokenConfig(app, "access").issuer
    /\ token \in jwts
    /\ validateTimeClaims(token.claims)
    /\ Has(token.claims, "assurance") => token.claims.aud \in {Audience, app.appID}

StandardClaims ==
    {"sub", "iss", "aud", "exp", "nbf", "iat", "jti", "scope", "client_id", "act"}

ExtractUserAttributes(claims) == Restrict(claims, DOMAIN claims \ StandardClaims)

\* Fault: what is asked for is given.
AsRequested(requested, have) == IF requested = {} THEN have ELSE requested

applyScopeDownscoping(requested, have) ==
    IF requested = {} THEN have ELSE requested \cap have

-----------------------------------------------------------------------------
(* The token endpoint.  q is the request, whose client was accepted.        *)

ForClient(id, grant) ==
    /\ grant \in apps[id].grants
    /\ \E withSecret \in BOOLEAN : MayAuthenticate(id, withSecret)

Origin(kind, who, client, scopes) ==
    [kind |-> kind, who |-> who, client |-> client, scopes |-> scopes]

\* A code is redeemed that was made for user u, this client and these scopes (AuthzCode
\* is about codes): an access token, with openid an ID token and, if the client
\* may use it, a refresh token.
CodeGrant(q) ==
    /\ q.user \in users
    /\ LET app == apps[q.client]
           ctx == [sub |-> q.user, aud |-> DetermineAudience(Blank, q.resource, Blank, app.client),
                   app |-> app, scopes |-> q.scopes, attrs |-> Attributes[q.user],
                   groups |-> GroupsOf[q.user], grant |-> "authorization_code", actor |-> None,
                   userType |-> UserType[q.user], via |-> "code",
                   origin |-> Origin("user", q.user, app.client, q.scopes)]
       IN  Issue({BuildAccessToken(ctx)} \cup
                 (IF "openid" \in q.scopes THEN {BuildIDToken(ctx)} ELSE {}) \cup
                 (IF "refresh_token" \in app.grants THEN {BuildRefreshToken(ctx)} ELSE {}))

\* The client is the subject and has all the scopes it asks for.
ClientCredentialsGrant(q) ==
    /\ MayAuthenticate(q.client, TRUE)
    /\ LET app == apps[q.client]
       IN  Issue({BuildAccessToken(
              [sub |-> app.client, aud |-> DetermineAudience(Blank, q.resource, Blank, app.client),
               app |-> app, scopes |-> q.scopes, attrs |-> <<>>, groups |-> {},
               grant |-> "client_credentials", actor |-> None, userType |-> Blank,
               via |-> "client", origin |-> Origin("client", app.client, app.client, q.scopes)])})

\* The claims of the refresh token are carried over; a new one is issued only if the
\* deployment says so.
RefreshGrant(q) ==
    /\ ValidateRefreshToken(q.token, q.client)
    /\ LET app == apps[q.client]
           old == q.token.claims
           ctx == [sub |-> old.access_token_sub, aud |-> old.access_token_aud, app |-> app,
                   scopes |-> applyScopeDownscoping(q.scopes, ScopesOf(old, FALSE)),
                   attrs |-> IF Has(old, "access_token_user_attributes")
                             THEN old.access_token_user_attributes ELSE <<>>,
                   groups |-> {}, grant |-> old.grant_type, actor |-> None,
                   userType |-> IF Has(old, "userType") THEN old.userType ELSE Blank,
                   via |-> "refresh", origin |-> q.token.origin]
       IN  Issue({BuildAccessToken(ctx)} \cup
                 (IF RenewOnGrant THEN {BuildRefreshToken(ctx)} ELSE {}))

\* A token of the server for another one, with an actor or without.  Asking for scopes
\* of a token that has none is refused.
ExchangeGrant(q) ==
    /\ LET app == apps[q.client]
           old == q.token.claims
           have == ScopesOf(old, Has(old, "assurance"))
       IN  /\ ValidateSubjectToken(q.token, app)
           /\ q.actor # None => ValidateSubjectToken(q.actor, app)
           /\ q.scopes # {} => have # {}
           /\ Issue({BuildAccessToken(
                [sub |-> old.sub, aud |-> DetermineAudience(Blank, q.resource, old.aud, app.client),
                 app |-> app, scopes |-> applyScopeDownscoping(q.scopes, have),
                 attrs |-> ExtractUserAttributes(old), groups |-> {}, grant |-> "token_exchange",
                 actor |-> IF q.actor = None THEN None
                           ELSE [sub |-> q.actor.claims.sub, iss |-> q.actor.claims.iss,
                                 nested |-> IF Has(q.actor.claims, "act")
                                            THEN q.actor.claims.act ELSE None],
                 userType |-> Blank, via |-> "exchange", origin |-> q.token.origin])})

-----------------------------------------------------------------------------
(* Answers about tokens; they change nothing.                               *)

Introspection(token) == VerifyJWT(token, Blank, Blank)

Refused == [sub |-> Blank]

InfoAllowed(token) ==
    /\ VerifyJWT(token, Blank, Blank)
    /\ Has(token.claims, "grant_type") => token.claims.grant_type # "client_credentials"

\* Without scopes only the subject; else the subject has to be a user.
UserInfo(token) ==
    LET sub == token.claims.sub
        scopes == IF Has(token.claims, "scope") THEN token.claims.scope ELSE {}
        app == IF Has(token.claims, "client_id") THEN apps[token.claims.client_id] ELSE None
    IN  IF ~InfoAllowed(token) \/ (scopes # {} /\ sub \notin users) THEN Refused
        ELSE IF scopes = {} \/ app = None THEN [sub |-> sub]
        ELSE BuildOIDCClaimsFromScopes(scopes, WithGroups(sub, app), app) ++ [sub |-> sub]

\* The server's API looks at the signature and at the scopes: the claim scope or the
\* permissions of an assertion.  Users' own pages need no scope.
Authority(claims) ==
    IF Has(claims, "scope") THEN claims.scope
    ELSE IF Has(claims, "authorized_permissions") THEN claims.authorized_permissions ELSE {}

Authorized(token, ownPage) ==
    token \in jwts /\ (ownPage \/ "system" \in Authority(token.claims))
=============================================================================
