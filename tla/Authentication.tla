--------------------------- MODULE Authentication ---------------------------
(***************************************************************************)
(* The authentication services (internal/authn): credentials, one-time     *)
(* passwords (internal/notification) and identity providers, each of which *)
(* finds out who the user is, and the assertion that says so.  One call is *)
(* followed step by step, while users are deleted, identity providers are  *)
(* changed and time passes.                                                *)
(***************************************************************************)
EXTENDS Tokens, Sequences

CONSTANTS
    Idps,           \* identity providers
    IdpTypes,       \* a subset of OAUTH, OIDC, GOOGLE and GITHUB
    Subjects,       \* the subjects that identity providers know users by
    OtpPeriod,      \* getOTPValidityPeriodInMillis, in ticks
    SessionPeriod   \* the validity of a session with an identity provider, in seconds

VARIABLES
    idps,    \* of each identity provider: [type, checked], checked if a JWKS
             \* endpoint is configured; or None
    call,    \* the call in progress
    passed   \* history: who proved what, as [user, by]

Nobody == [pc |-> "idle"]

CrossAllowed == {"OAUTH", "OIDC"}

validateIDPType(requested, actual) ==
    requested \in {Blank, actual} \/ {requested, actual} \subseteq CrossAllowed

AuthenticatorOf(type) ==
    CASE type = "OAUTH" -> "OAuthAuthenticator"
      [] type = "OIDC" -> "OIDCAuthenticator"
      [] type = "GOOGLE" -> "GoogleOIDCAuthenticator"
      [] type = "GITHUB" -> "GithubOAuthAuthenticator"

\* One-time passwords show possession, everything else knowledge.
Factors(authenticator) ==
    IF authenticator = "SMSOTPAuthenticator" THEN {"POSSESSION"} ELSE {"KNOWLEDGE"}

\* Fault: every authenticator counts, whatever its factor.
LevelByCount(refs) == IF Len(refs) = 1 THEN "AAL1" ELSE "AAL2"

\* The level depends on how many factors there are.
calculateAAL(refs) ==
    LET factors == UNION {Factors(refs[i]) : i \in DOMAIN refs}
    IN  CASE factors = {} -> "UNKNOWN"
          [] Cardinality(factors) = 1 -> "AAL1"
          [] Cardinality(factors) = 2 -> "AAL2"
          [] OTHER -> "AAL3"

GenerateAssertion(refs) == [aal |-> calculateAAL(refs), authenticators |-> refs]

\* An assertion that u may build on.
ExistingAssertion(token, u) ==
    /\ VerifyJWT(token, Blank, Issuer)
    /\ Has(token.claims, "assurance")
    /\ token.claims.sub = u

\* The assertion of u having passed one more authenticator.
AssertionWith(u, authenticator, existing) ==
    [claims |-> GenerateJWT(u, Audience, Issuer, DefaultValidity,
        [userType |-> UserType[u],
         assurance |-> GenerateAssertion(
            IF existing = None THEN <<authenticator>>
            ELSE Append(existing.claims.assurance.authenticators, authenticator))]),
     via |-> "assertion", origin |-> Origin("user", u, Blank, {})]

\* The assertion at the end of a flow (AuthAssertExecutor): of the authenticators
\* that were passed in it, with the permissions that were authorized; attributes that
\* the application lists take the place of other claims of the same name.
FlowAssertion(u, app, refs, permissions) ==
    [claims |-> GenerateJWT(u, app.appID, app.token.root.issuer, app.token.root.validity,
        [userType |-> UserType[u]] ++
        Restrict(Attributes[u], app.token.root.attributes \cap DOMAIN Attributes[u]) ++
        Claim("authorized_permissions", permissions, permissions # {}) ++
        Claim("assurance", GenerateAssertion(refs), refs # <<>>)),
     via |-> "assertion", origin |-> Origin("user", u, Blank, permissions)]

-----------------------------------------------------------------------------
(* Credentials, one-time passwords.                                         *)

Identified(u, authenticator, existing) ==
    call' = [pc |-> "identified", user |-> u, by |-> authenticator, existing |-> existing]

Credentials(u, existing) ==
    /\ call.pc = "idle" /\ u \in users
    /\ Identified(u, "CredentialsAuthenticator", existing)
    /\ passed' = passed \cup {[user |-> u, by |-> "CREDENTIALS"]}
    /\ UNCHANGED <<now, jwts, apps, users, idps>>

\* GetUser, which may not find the user any more, and the assertion.  With
\* skip_assertion there is none.
Finish ==
    /\ call.pc = "identified"
    /\ call' = Nobody
    /\ \/ UNCHANGED jwts
       \/ /\ call.user \in users
          /\ call.existing # None => ExistingAssertion(call.existing, call.user)
          /\ Issue({AssertionWith(call.user, call.by, call.existing)})
    /\ UNCHANGED <<now, apps, users, idps, passed>>

\* Division of a number of ticks, towards zero.
Seconds(d) == IF d >= 0 THEN d \div Second ELSE -((-d) \div Second)

\* The password is made and sent; the session token is made when that is done.
SendOTP(u) ==
    /\ call.pc = "idle"
    /\ call' = [pc |-> "sent", recipient |-> u, expiry |-> now + OtpPeriod]
    /\ UNCHANGED <<now, jwts, apps, users, idps, passed>>

OtpSession(recipient, expiry) ==
    [claims |-> GenerateJWT("otp-svc", "otp-svc", Issuer, Seconds(expiry - now),
                  [otp_data |-> [recipient |-> recipient, expiry |-> expiry]]),
     via |-> "session", origin |-> None]

OtpSent ==
    /\ call.pc = "sent"
    /\ call' = Nobody
    /\ Issue({OtpSession(call.recipient, call.expiry)}) \/ UNCHANGED jwts
    /\ UNCHANGED <<now, apps, users, idps, passed>>

\* A token of the service for itself, with what it remembers.
OtpSessionHolds(token) ==
    VerifyJWT(token, "otp-svc", Issuer) /\ Has(token.claims, "otp_data")

\* Fault: the session is trusted to end with the password.
SessionLasts(token) == OtpSessionHolds(token)

OtpAccepted(token) ==
    /\ OtpSessionHolds(token)
    /\ now <= token.claims.otp_data.expiry

\* The password that was sent is entered; the user is found by the number.
VerifyOTP(token, existing) ==
    /\ call.pc = "idle"
    /\ OtpAccepted(token)
    /\ token.claims.otp_data.recipient \in users
    /\ Identified(token.claims.otp_data.recipient, "SMSOTPAuthenticator", existing)
    /\ passed' = passed \cup {[user |-> token.claims.otp_data.recipient, by |-> "OTP"]}
    /\ UNCHANGED <<now, jwts, apps, users, idps>>

-----------------------------------------------------------------------------
(* Identity providers.                                                      *)

\* The session says with which provider, and of which type it was.
StartIDP(i, requested) ==
    /\ call.pc = "idle" /\ idps[i] # None
    /\ validateIDPType(requested, idps[i].type)
    /\ Issue({[claims |-> GenerateJWT("auth-svc", "auth-svc", Issuer, SessionPeriod,
                  [auth_data |-> [idp |-> i, type |-> idps[i].type]]),
               via |-> "session", origin |-> None]})
    /\ UNCHANGED <<now, apps, users, idps, call, passed>>

IdpSessionHolds(token) ==
    VerifyJWT(token, "auth-svc", Issuer) /\ Has(token.claims, "auth_data")

FinishIDP(token, requested, existing) ==
    /\ call.pc = "idle"
    /\ IdpSessionHolds(token)
    /\ validateIDPType(requested, token.claims.auth_data.type)
    /\ call' = [pc |-> "exchanging", idp |-> token.claims.auth_data.idp,
                type |-> token.claims.auth_data.type, existing |-> existing]
    /\ UNCHANGED <<now, jwts, apps, users, idps, passed>>

\* The provider, as it is configured now, takes the code for subject s and answers with
\* tokens, of which there is an ID token if it knows OpenID Connect.
ExchangeCodeForToken(s) ==
    /\ call.pc = "exchanging"
    /\ idps[call.idp] # None
    /\ LET type == idps[call.idp].type
       IN  call' = [pc |-> "answered", idp |-> call.idp, type |-> call.type,
                    existing |-> call.existing, sub |-> s, from |-> type,
                    idToken |-> IF type \in {"OIDC", "GOOGLE"}
                                THEN [key |-> type,
                                      claims |-> [sub |-> s, aud |-> type, nbf |-> Unix, iat |-> Unix,
                                                  exp |-> Unix + 1,
                                                  iss |-> IF type = "GOOGLE" THEN "google" ELSE "other"]]
                                ELSE None]
    /\ UNCHANGED <<now, jwts, apps, users, idps, passed>>

\* Published keys of a provider: they change with its type.
KeysOf(i) == {idps[i].type}

ValidGoogleToken(i, t) ==
    /\ idps[i].checked => VerifyJWTSignatureWithJWKS(t, KeysOf(i))
    /\ t.claims.iss = "google"
    /\ t.claims.aud = idps[i].type
    /\ Unix < t.claims.exp
    /\ Unix >= t.claims.iat

\* OAuth and GitHub are asked for user info; an ID token is validated as the session's
\* type has it.
Vouched ==
    CASE call.type \in {"OAUTH", "GITHUB"} -> idps[call.idp] # None
      [] call.type = "OIDC" ->
            /\ call.idToken # None /\ idps[call.idp] # None
            /\ idps[call.idp].checked => VerifyJWTWithJWKS(call.idToken, KeysOf(call.idp), Blank, Blank)
      [] call.type = "GOOGLE" ->
            /\ call.idToken # None /\ idps[call.idp] # None
            /\ ValidGoogleToken(call.idp, call.idToken)

GetInternalUser(s) == {u \in users : "sub" \in DOMAIN Attributes[u] /\ Attributes[u].sub = s}

IdentifyExternal ==
    /\ call.pc = "answered"
    /\ Vouched
    /\ \E u \in GetInternalUser(call.sub) :
          /\ Identified(u, AuthenticatorOf(call.type), call.existing)
          /\ passed' = passed \cup {[user |-> u, by |-> call.from]}
    /\ UNCHANGED <<now, jwts, apps, users, idps>>

\* The call ends in an error: a request that fails, or a check that does.
CallFails ==
    /\ call.pc \in {"exchanging", "answered"}
    /\ call' = Nobody
    /\ UNCHANGED <<now, jwts, apps, users, idps, passed>>

\* Changes made to providers and users by others.
ChangeIdp(i, new) ==
    /\ idps[i] # None /\ idps[i] # new
    /\ idps' = [idps EXCEPT ![i] = new]
    /\ UNCHANGED <<now, jwts, apps, users, call, passed>>

DeleteUser(u) ==
    /\ u \in users
    /\ users' = users \ {u}
    /\ UNCHANGED <<now, jwts, apps, idps, call, passed>>
=============================================================================
