----------------------------- MODULE MCIdentity -----------------------------
(* A web application and a client that registers itself; Ann came from a   *)
(* provider, Bob did not.  A second has two ticks; a one-time password is  *)
(* good for a second and a half.                                           *)
EXTENDS Identity

CONSTANTS ann, bob

MCAttributes == [u \in {ann, bob} |->
                    IF u = ann THEN [email |-> "annsEmail", sub |-> "annsSubject"]
                    ELSE [email |-> "bobsEmail"]]
MCGroups == [u \in {ann, bob} |-> IF u = bob THEN {"staff"} ELSE {}]
MCUserType == [u \in {ann, bob} |-> "person"]
MCAppIDs == [c \in {"web", "svc"} |-> IF c = "web" THEN "webApp" ELSE "svcApp"]
MCStandardScopes == [openid |-> {"sub"}, email |-> {"email"}]

WebTokens ==
    [NoTokenConfig EXCEPT
       !.attributes = {"email", "sub"},
       !.access = [validity |-> 1, attributes |-> {"email", "groups"}],
       !.id = [validity |-> 0, attributes |-> {"email", "groups"}],
       !.scopeClaims = [openid |-> {"email"}]]

WebOAuth ==
    [redirects |-> {"webUri"}, grants |-> {"authorization_code", "refresh_token"},
     responses |-> {"code"}, method |-> "client_secret_post", public |-> FALSE,
     pkce |-> FALSE, secret |-> "web"]

MCApps ==
    [c \in {"web", "svc"} |->
       IF c = "svc" THEN None
       ELSE Completed([name |-> "Web", flow |-> "", registration |-> "", userTypes |-> {},
                       token |-> WebTokens], WebOAuth, "web")]

Request(name, grants, method) ==
    [name |-> name, redirects |-> {"svcUri"}, grants |-> grants, responses |-> {},
     method |-> method, jwks |-> FALSE, jwksUri |-> FALSE]

\* A service, an application in browsers, and four that are refused.
MCRegistrations ==
    {Request("", {"client_credentials", "token_exchange"}, ""),
     Request("Page", {}, "none"),
     Request("Web", {}, ""),
     Request("Page", {"client_credentials"}, "none"),
     [Request("Page", {}, "") EXCEPT !.redirects = {"svcUri#part"}],
     [Request("Page", {}, "") EXCEPT !.jwks = TRUE, !.jwksUri = TRUE]}

MCIdps == [i \in Idps |-> [type |-> "OIDC", checked |-> TRUE]]

MCChanges == {[type |-> "GOOGLE", checked |-> FALSE], None}

MCRequests ==
    {[resource |-> "", scopes |-> {}],
     [resource |-> "api", scopes |-> {"openid", "system"}],
     [resource |-> "api", scopes |-> {"system"}]}
=============================================================================
