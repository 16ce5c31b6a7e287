------------------------------ MODULE Identity ------------------------------
(***************************************************************************)
(* Clients, users who authenticate and the tokens that come of it: one     *)
(* service signs the assertions, sessions, access, ID and refresh tokens,  *)
(* and any of them may be presented wherever a token is expected.          *)
(***************************************************************************)
EXTENDS Authentication

CONSTANTS
    InitialApps,     \* what is registered at the start
    InitialIdps,
    Registrations,   \* requests for dynamic registration
    Changes,         \* what identity providers are changed to
    AttributeLists,  \* what the list of attributes in access tokens is changed to
    Leavers,         \* users who may be deleted
    Services,        \* the authentication services in use
    Permissions,     \* sets of permissions that flows authorize
    Requests         \* of the token endpoint, without client and tokens

\* Claims that the server itself relies on.
ReservedClaims ==
    {"scope", "authorized_permissions", "client_id", "assurance", "otp_data", "auth_data",
     "access_token_sub", "access_token_user_attributes"}

\* Schemas do not give attributes the names of claims that the server relies on.  The
\* code does not see to it: an attribute would take the place of the claim.
ASSUME AttributesAssumption ==
    \A u \in Users : DOMAIN Attributes[u] \cap ReservedClaims = {}

\* User IDs are UUIDs of the server's own: no client ID is one, and no subject of a
\* provider that is kept as an attribute.
ASSUME IdsAssumption ==
    /\ Users \cap (Clients \cup {Blank}) = {}
    /\ Blank \notin Clients
    /\ \A u \in Users : "sub" \in DOMAIN Attributes[u] => Attributes[u].sub \notin Users

ProviderTypes == [type : IdpTypes, checked : BOOLEAN]

ASSUME ProvidersAssumption ==
    /\ IdpTypes \subseteq {"OAUTH", "OIDC", "GOOGLE", "GITHUB"}
    /\ InitialIdps \in [Idps -> ProviderTypes \cup {None}]
    /\ Changes \subseteq ProviderTypes \cup {None}
    /\ OtpPeriod \in Nat

\* What is registered at the start was completed as registrations are.
ASSUME InitialAppsAssumption ==
    /\ DOMAIN InitialApps = Clients
    /\ \A id \in Clients : InitialApps[id] # None =>
          LET app == InitialApps[id]
          IN  /\ {"client", "secret", "public", "method", "grants", "token"} \subseteq DOMAIN app
              /\ app.client = id
              /\ app.secret = IF app.public THEN Blank ELSE id
              /\ app.method \in AuthMethods
              /\ app.public => app.method = "none"
              /\ app.grants \subseteq GrantTypes

vars == <<now, jwts, apps, users, idps, call, passed>>

Register(r, id) ==
    RegisterClient(r, id) /\ UNCHANGED <<now, jwts, users, idps, call, passed>>

\* The access-token attributes of an application are changed, with a token that the
\* API takes for an administrator's.
Reconfigure(id, attributes) ==
    /\ \E t \in jwts : Authorized(t, FALSE)
    /\ apps[id] # None
    /\ apps[id].token.access.attributes # attributes
    /\ apps' = [apps EXCEPT ![id].token.access.attributes = attributes]
    /\ UNCHANGED <<now, jwts, users, idps, call, passed>>

\* A flow ends in which u has passed credentials.
FlowEnds(u, id, permissions) ==
    /\ u \in users /\ apps[id] # None
    /\ Issue({FlowAssertion(u, apps[id], <<"CredentialsAuthenticator">>, permissions)})
    /\ passed' = passed \cup {[user |-> u, by |-> "CREDENTIALS"]}
    /\ UNCHANGED <<now, apps, users, idps, call>>

Token(grant, r, id) ==
    LET q == [client |-> id] ++ r
    IN  /\ Cardinality(jwts) < MaxJwts
        /\ ForClient(id, grant)
        /\ CASE grant = "authorization_code" ->
                    \E u \in users : CodeGrant([user |-> u] ++ q)
             [] grant = "client_credentials" -> ClientCredentialsGrant(q)
             [] grant = "refresh_token" ->
                    \E t \in jwts : RefreshGrant([token |-> t] ++ q)
             [] grant = "token_exchange" ->
                    \E t \in jwts, a \in jwts \cup {None} :
                       ExchangeGrant([token |-> t, actor |-> a] ++ q)
        /\ UNCHANGED <<now, apps, users, idps, call, passed>>

TimePasses == Tick /\ UNCHANGED <<jwts, apps, users, idps, call, passed>>

Init ==
    /\ now = 0
    /\ jwts = {}
    /\ apps = InitialApps
    /\ users = Users
    /\ idps = InitialIdps
    /\ call = Nobody
    /\ passed = {}

Next ==
    \/ TimePasses
    \/ \E r \in Registrations, id \in Clients : Register(r, id)
    \/ \E id \in Clients, attributes \in AttributeLists : Reconfigure(id, attributes)
    \/ \E u \in Users, id \in Clients, p \in Permissions : FlowEnds(u, id, p)
    \/ \E id \in Clients :
          /\ apps[id] # None
          /\ \E r \in Requests, grant \in apps[id].grants : Token(grant, r, id)
    \/ \E u \in Leavers : DeleteUser(u)
    \/ /\ "credentials" \in Services
       /\ \E u \in Users, existing \in jwts \cup {None} : Credentials(u, existing)
    \/ /\ "otp" \in Services
       /\ \/ \E u \in Users : SendOTP(u)
          \/ \E t \in jwts, existing \in jwts \cup {None} : VerifyOTP(t, existing)
    \/ \E i \in Idps, type \in IdpTypes \cup {Blank} : StartIDP(i, type)
    \/ \E t \in jwts, type \in IdpTypes \cup {Blank}, existing \in jwts \cup {None} :
          FinishIDP(t, type, existing)
    \/ \E s \in Subjects : ExchangeCodeForToken(s)
    \/ \E i \in Idps, new \in Changes : ChangeIdp(i, new)
    \/ OtpSent \/ IdentifyExternal \/ Finish \/ CallFails

Spec == Init /\ [][Next]_vars

-----------------------------------------------------------------------------
(* Properties.                                                             *)

\* The names one and the same party goes by: a user has its ID and, once it came from
\* a provider, a subject there; the client it used is the subject of refresh tokens.
Names(origin) ==
    {origin.who, origin.client} \cup
    IF origin.kind = "user" /\ "sub" \in DOMAIN Attributes[origin.who]
    THEN {Attributes[origin.who].sub} ELSE {}

\* Whatever a token went through, refreshed and exchanged in any order by any client,
\* it has no scope and no permission that was not granted at first, and its subject is
\* the one it was granted for.
NoTokenOutgrowsItsOrigin ==
    \A t \in jwts : t.origin # None =>
        /\ Authority(t.claims) \subseteq t.origin.scopes
        /\ t.claims.sub \in Names(t.origin)

\* Which authenticators what was passed can stand for: only Google for Google's.
StandsFor(by, authenticator) ==
    CASE authenticator = "CredentialsAuthenticator" -> by = "CREDENTIALS"
      [] authenticator = "SMSOTPAuthenticator" -> by = "OTP"
      [] authenticator = "GoogleOIDCAuthenticator" -> by = "GOOGLE"
      [] OTHER -> by \in IdpTypes

\* Every authenticator that an assertion names was passed by the user it is about, in
\* however many calls and with whichever assertions in between, and its level is the
\* number of factors among them.  (An attribute named sub may be its subject instead of
\* the user ID.)
AssurancesEarned ==
    \A t \in jwts : t.via = "assertion" =>
        LET a == t.claims.assurance
            refs == Range(a.authenticators)
        IN  /\ t.claims.sub \in Names(t.origin)
            /\ \A r \in refs : \E p \in passed : p.user = t.origin.who /\ StandsFor(p.by, r)
            /\ a.aal = "AAL2" <=> "SMSOTPAuthenticator" \in refs /\ Cardinality(refs) > 1

\* A one-time password is accepted for as long as its message says, up to the second
\* that the clock of tokens may lose, and never after that.
OtpLastsAsPromised ==
    \A t \in jwts : Has(t.claims, "otp_data") =>
        /\ t.via = "session" /\ now <= t.claims.otp_data.expiry - Second => OtpAccepted(t)
        /\ now > t.claims.otp_data.expiry => ~OtpAccepted(t)

\* User info is given for tokens that introspection calls active, about the subject,
\* with attributes of that user only and only those that the scopes stand for that were
\* granted at first.
InfoWithinGrant ==
    \A t \in {x \in jwts : x.origin # None} :
        LET info == UserInfo(t)
        IN  info # Refused =>
              /\ Introspection(t)
              /\ t.origin.kind = "user" \/ DOMAIN info = {"sub"}
              /\ \A name \in DOMAIN info \ {"sub", "groups"} :
                    /\ info[name] = Attributes[t.origin.who][name]
                    /\ \E s \in t.origin.scopes, id \in Clients :
                          apps[id] # None /\ name \in ClaimsOfScope(s, apps[id])

\* What a registration answered is enough to authenticate: the client is accepted when
\* it presents itself by its method with its secret, and in no other way.
RegisteredMayAuthenticate ==
    \A id \in Clients : apps[id] # None =>
        LET app == apps[id]
        IN  {q \in Proofs : Authenticated(q) /\ ClientOf(q) = id} =
            {q \in Presentations(id, app.secret) \cup Presentations(id, Blank) :
                /\ ~(q.headerID # Blank /\ q.bodyID # Blank)
                /\ CASE app.method = "none" -> q.bodyID = id /\ q.bodySecret = Blank
                     [] app.method = "client_secret_basic" -> q.headerSecret = app.secret
                     [] app.method = "client_secret_post" -> q.bodySecret = app.secret
                /\ app.public => app.method = "none"}

=============================================================================
