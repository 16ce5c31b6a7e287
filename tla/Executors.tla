------------------------------ MODULE Executors ------------------------------
(***************************************************************************)
(* The executors of flows (internal/flow/executor): what each does with    *)
(* the inputs of the client, the runtime data and the user of the flow,    *)
(* and to users and organization units.  One flow runs along the executors *)
(* of a graph without decisions (FlowExec is about graphs, requests and    *)
(* the store); others add, change and delete users at any time.            *)
(***************************************************************************)
EXTENDS Integers, Sequences, FiniteSets, Functions, TLC

CONSTANTS
    None, Gone,
    People,        \* user IDs; a deleted user's is not given again
    InitialUsers,  \* [People -> None or a user: [attrs, credentials, type, ou]]
    Graphs,        \* flow graphs: [type, steps, allowed, posts, runtime]
    Schemas,       \* user types: [selfReg, ou]
    InitialUnits,  \* handles of the organization units
    Profiles,      \* what providers say of each subject: names to values
    Roles,         \* what each permits, and which users and groups it is assigned to
    OtherChanges,  \* what users are made or changed to by others
    MaxChanges,    \* bound: changes made by others
    MaxPosts       \* bound: requests of the client

VARIABLES
    graph, flow,   \* the graph, and the context of the flow that the engine keeps
    users, units,
    sent,          \* one-time passwords: [to, owners], who had that number then
    proved,        \* history: [by, who], the checks of this flow that were passed; nobody
                   \* may be known by a number
    created,       \* history: the users that this flow created
    changes, posts

vars == <<graph, flow, users, units, sent, proved, created, changes, posts>>

\* What the executors tell each other through the runtime data.
ExecutorKeys == {"userID", "otpSessionToken", "attemptCount", "userType", "defaultOUID", "ouId"}

\* A flow starts with the permissions that are requested, at most.
ASSUME ExecutorsAssumption ==
    /\ {MaxChanges, MaxPosts} \subseteq Nat
    /\ "" \notin People \cup DOMAIN Schemas
    /\ DOMAIN InitialUsers = People
    /\ \A g \in Graphs :
          /\ g.type \in {"AUTHENTICATION", "REGISTRATION"}
          /\ Len(g.steps) \in Nat \ {0} /\ DOMAIN g.steps = 1..Len(g.steps)
          /\ DOMAIN g.runtime \cap ExecutorKeys = {}

\* The premise on the authors of flows: what another service answers is not mapped to the
\* names that the executors use themselves.  The code leaves that to them.
ASSUME MappingsAssumption ==
    \A g \in Graphs : \A i \in DOMAIN g.steps : DOMAIN g.steps[i].answer \cap ExecutorKeys = {}

Present(u) == users[u] \notin {None, Gone}

NoUser == [is |-> FALSE, user |-> "", type |-> "", ou |-> "", attrs |-> <<>>]

UserOf(u, attrs) ==
    [is |-> TRUE, user |-> u, type |-> users[u].type, ou |-> users[u].ou, attrs |-> attrs]

Step == graph.steps[flow.at]
Inputs == flow.inputs
IsRegistration == graph.type = "REGISTRATION"
Get(f, name) == IF name \in DOMAIN f THEN f[name] ELSE ""

\* The entries of f, and those of g under other names.
Merge(f, g) ==
    [n \in DOMAIN f \cup DOMAIN g |-> IF n \in DOMAIN f THEN f[n] ELSE g[n]]

-----------------------------------------------------------------------------
(* Base executor (internal/flow/core/executor.go).                          *)

Given(rt) == DOMAIN Inputs \cup DOMAIN rt

\* The inputs of an executor whose node does not name any, and what it presupposes.
BasicAuthInputs == {"username", "password"}
OTPInputs == [inputs |-> {"otp"}, prerequisites |-> {"mobileNumber"}]
OUInputs == {"ouName", "ouHandle"}

GetRequiredData(defaults) == IF Step.required # {} THEN Step.required ELSE defaults

\* Without any data, inputs are asked for though none may be required.
CheckInputData(defaults) ==
    Given(flow.runtime) = {} \/ ~(GetRequiredData(defaults) \subseteq Given(flow.runtime))

ValidatePrerequisites(names) == names \subseteq Given(flow.runtime)

GetUserIDFromContext ==
    CASE flow.authn.user # "" -> flow.authn.user
      [] flow.authn.user = "" /\ Get(flow.runtime, "userID") # "" -> flow.runtime.userID
      [] OTHER -> Get(Inputs, "userID")

\* What an executor answers, and what it has done by then.
Response(status) == [status |-> status, runtime |-> <<>>, authn |-> NoUser, assertion |-> None]

Failure == Response("FAILURE")
NeedsInput == Response("USER_INPUT_REQUIRED")
Error == Response("error")
Complete(authn, runtime) == [Response("COMPLETE") EXCEPT !.authn = authn, !.runtime = runtime]

Effect(resp) ==
    [resp |-> resp, runtime |-> flow.runtime, users |-> users, units |-> units, sent |-> sent,
     proved |-> {}, created |-> {}]

-----------------------------------------------------------------------------
(* Identification and credentials.                                          *)

NonSearchable == {"password", "code", "nonce", "otp"}

Matching(filters) ==
    {u \in People : Present(u) /\ \A n \in DOMAIN filters : Get(users[u].attrs, n) = filters[n]}

\* One user is found, nobody, or it is an error: several, or nothing to look for.
IdentifyUser(filters) ==
    LET f == Restrict(filters, DOMAIN filters \ NonSearchable)
    IN  CASE DOMAIN f = {} -> [found |-> "error"]
          [] DOMAIN f # {} /\ Matching(f) = {} -> [found |-> "nobody"]
          [] DOMAIN f # {} /\ Cardinality(Matching(f)) = 1 ->
                [found |-> "one", user |-> CHOOSE u \in Matching(f) : TRUE]
          [] OTHER -> [found |-> "error"]

CredentialFields == {"password", "pin", "secret"}

\* Empty ones are left out, at least one remains, and each is the stored one of its kind.
VerifyUser(u, credentials) ==
    LET given == {c \in DOMAIN credentials : credentials[c] # ""}
    IN  given # {} /\ \A c \in given : credentials[c] = Get(users[u].credentials, c)

\* The user whom all but the credentials identify, if those are the user's.
AuthenticateUser(given) ==
    LET filters == Restrict(given, DOMAIN given \ CredentialFields)
        credentials == Restrict(given, DOMAIN given \cap CredentialFields)
        id == IdentifyUser(filters)
    IN  IF DOMAIN filters # {} /\ id.found = "one" /\ VerifyUser(id.user, credentials)
        THEN {id.user} ELSE {}

BasicAuth ==
    LET required == GetRequiredData(BasicAuthInputs)
        given == Restrict(Inputs, required \cap DOMAIN Inputs)
        search == Restrict(given, DOMAIN given \ {"password"})
    IN  CASE CheckInputData(BasicAuthInputs) -> Effect(NeedsInput)
          [] ~CheckInputData(BasicAuthInputs) /\ IsRegistration ->
                IF IdentifyUser(search).found # "nobody" THEN Effect(Failure)
                ELSE Effect(Complete([NoUser EXCEPT !.attrs = search], <<>>))
          [] OTHER ->
                IF AuthenticateUser(given) = {} THEN Effect(Failure)
                ELSE LET u == CHOOSE x \in AuthenticateUser(given) : TRUE
                     IN  [Effect(Complete(UserOf(u, users[u].attrs), <<>>)) EXCEPT
                            !.proved = {[by |-> "CredentialsAuthenticator", who |-> u]}]

-----------------------------------------------------------------------------
(* One-time passwords.  A password is named by its place in sent, and so is *)
(* its session; a session that is over is "".                               *)

MaxAttempts == 3

Session(i) == ToString(i)

Number(rt) ==
    IF Get(rt, "mobileNumber") # "" THEN rt.mobileNumber ELSE Get(Inputs, "mobileNumber")

\* The attribute by which resolveUserID looks for the user.
Identifier ==
    LET Value(n) == IF Get(Inputs, n) # "" THEN Inputs[n] ELSE Get(flow.runtime, n)
    IN  CASE Value("mobileNumber") # "" -> [mobileNumber |-> Value("mobileNumber")]
          [] Value("mobileNumber") = "" /\ Value("username") # "" ->
                [username |-> Value("username")]
          [] OTHER -> [email |-> Value("email")]

ResolveUserID ==
    IF GetUserIDFromContext # "" THEN GetUserIDFromContext
    ELSE LET id == IdentifyUser(Identifier) IN IF id.found = "one" THEN id.user ELSE ""

\* The number in the profile of u, or the status the executor answers without one.
UserMobileNumber(u) ==
    CASE ~(u \in People /\ Present(u)) -> [status |-> "FAILURE"]
      [] u \in People /\ Present(u) /\ Get(users[u].attrs, "mobileNumber") # "" ->
            [status |-> "", number |-> users[u].attrs.mobileNumber]
      [] OTHER -> [status |-> IF flow.authn.is THEN "USER_INPUT_REQUIRED" ELSE "FAILURE"]

\* The number of the user, if nobody has sent one: [status, runtime].
SatisfyPrerequisites ==
    LET u == ResolveUserID
        rt == Merge([userID |-> u], flow.runtime)
        mobile == UserMobileNumber(u)
    IN  CASE u = "" -> [status |-> "FAILURE", runtime |-> flow.runtime]
          [] u # "" /\ mobile.status # "" -> [status |-> mobile.status, runtime |-> rt]
          [] OTHER -> [status |-> "", runtime |-> Merge([mobileNumber |-> mobile.number], rt)]

Attempts(rt) == IF "attemptCount" \in DOMAIN rt THEN rt.attemptCount ELSE 0

\* Fault: the attempts before this one are forgotten.
CountsFromOne(rt, number) ==
    [Effect([NeedsInput EXCEPT !.runtime = [otpSessionToken |-> Session(Len(sent) + 1), attemptCount |-> 1]])
       EXCEPT !.runtime = rt,
              !.sent = Append(sent, [to |-> number, owners |-> Matching([mobileNumber |-> number])])]

\* generateAndSendOTP, but for the attempts that are used up.
Send(rt, number) ==
    [Effect([NeedsInput EXCEPT !.runtime =
               [otpSessionToken |-> Session(Len(sent) + 1), attemptCount |-> Attempts(rt) + 1]]) EXCEPT
       !.runtime = rt,
       !.sent = Append(sent, [to |-> number, owners |-> Matching([mobileNumber |-> number])])]

\* The user of the flow is set before the attempts are counted.
InitiateOTP(rt) ==
    LET id == IF flow.authn.is THEN [found |-> "one", user |-> GetUserIDFromContext]
              ELSE IdentifyUser([mobileNumber |-> Number(rt)])
        next == IF IsRegistration THEN rt ELSE Merge([userID |-> id.user], rt)
    IN  CASE IsRegistration /\ id.found = "error" -> Effect(Error)
          [] id.found = (IF IsRegistration THEN "nobody" ELSE "one") ->
                IF Attempts(rt) >= MaxAttempts THEN [Effect(Failure) EXCEPT !.runtime = next]
                ELSE Send(next, Number(rt))
          [] OTHER -> [Effect(Failure) EXCEPT !.runtime = rt]

\* Fault: a password that was sent before is good for the session of another.
AnySession(rt) == \E i \in DOMAIN sent : Inputs.otp = Session(i)

SessionMatches(rt) == Inputs.otp = rt.otpSessionToken

ProcessOTP(rt) ==
    LET session == Get(rt, "otpSessionToken")
        u == Get(rt, "userID")
        over == [otpSessionToken |-> ""]
        owners == UNION {sent[i].owners : i \in {j \in DOMAIN sent : Session(j) = Inputs.otp}}
        passed == {[by |-> "SMSOTPAuthenticator", who |-> o] : o \in
                     IF owners = {} THEN {""} ELSE owners}
    IN  CASE "otp" \notin DOMAIN Inputs -> Effect(Failure)
          [] "otp" \in DOMAIN Inputs /\ session = "" -> Effect(Error)
          [] "otp" \in DOMAIN Inputs /\ session # "" /\ ~SessionMatches(rt) ->
                [Effect(Failure) EXCEPT !.runtime = rt]
          [] OTHER ->
                IF IsRegistration
                THEN [Effect(Complete([NoUser EXCEPT !.attrs = [mobileNumber |-> Number(rt)]], over))
                        EXCEPT !.runtime = rt, !.proved = passed]
                ELSE IF u \in People /\ Present(u)
                THEN [Effect(Complete(UserOf(u, users[u].attrs), over))
                        EXCEPT !.runtime = rt, !.proved = passed]
                ELSE Effect(Error)

SMSAuth ==
    LET has == ValidatePrerequisites(OTPInputs.prerequisites)
        pre == IF has THEN [status |-> "", runtime |-> flow.runtime] ELSE SatisfyPrerequisites
    IN  IF ~has /\ IsRegistration THEN Effect(NeedsInput)
        ELSE IF pre.status # "" THEN [Effect(Response(pre.status)) EXCEPT !.runtime = pre.runtime]
        ELSE IF "otp" \notin DOMAIN Inputs /\ CheckInputData(OTPInputs.inputs) THEN InitiateOTP(pre.runtime)
        ELSE ProcessOTP(pre.runtime)

-----------------------------------------------------------------------------
(* Identity providers.  A code is named by the subject it is given for.     *)

\* The one type of the allowed ones that users may register for themselves.
SelfRegistered(types) == {t \in types : Schemas[t].selfReg}

TypeData(t) == [userType |-> t, defaultOUID |-> Schemas[t].ou]

\* What the executors of the two protocols keep of what a provider says of a subject;
\* the ID token and the user information are taken to say the same.
OAuthAttributes(profile) == Restrict(profile, DOMAIN profile \ {"username", "sub", "id"})
OIDCAttributes(profile) == Restrict(profile, DOMAIN profile \ {"sub"})

GetInternalUser(s) == IdentifyUser([sub |-> s])

\* ResolveContextUser: known users are authenticated, or registered again if the
\* graph allows that; unknown ones are to be provisioned.
ContextUser(s, attrs) ==
    LET data == Restrict(attrs, {"email"} \cap DOMAIN attrs)
        id == GetInternalUser(s)
        unknown == [NoUser EXCEPT !.attrs = attrs]
        types == SelfRegistered(graph.allowed)
    IN  CASE id.found = "error" -> Failure
          [] id.found = "one" /\ ~IsRegistration -> Complete(UserOf(id.user, attrs), data)
          [] id.found = "one" /\ IsRegistration ->
                IF Step.existing THEN Complete(UserOf(id.user, attrs), Merge([skip |-> "true"], data))
                ELSE Failure
          [] id.found = "nobody" /\ IsRegistration -> Complete(unknown, Merge([sub |-> s], data))
          [] OTHER ->
                IF Step.withoutLocal /\ Cardinality(types) = 1
                THEN Complete(unknown, Merge([sub |-> s, eligible |-> "true"],
                                       Merge(data, TypeData(CHOOSE t \in types : TRUE))))
                ELSE Failure

\* The provider has vouched for s.
Vouched(s, attrs) ==
    [Effect(ContextUser(s, attrs)) EXCEPT
       !.proved = IF GetInternalUser(s).found # "one" THEN {}
                  ELSE {[by |-> Step.executor, who |-> GetInternalUser(s).user]}]

OAuthAuth ==
    IF "code" \notin DOMAIN Inputs THEN Effect(Response("EXTERNAL_REDIRECTION"))
    ELSE Vouched(Inputs.code.sub, OAuthAttributes(Profiles[Inputs.code.sub]))

\* An ID token carries the nonce it was asked for with.
NonceMatches == Get(Inputs, "nonce") \in {"", Inputs.code.nonce}

OIDCAuth ==
    CASE "code" \notin DOMAIN Inputs -> Effect(Response("EXTERNAL_REDIRECTION"))
      [] "code" \in DOMAIN Inputs /\ ~NonceMatches -> Effect(Failure)
      [] OTHER -> Vouched(Inputs.code.sub, OIDCAttributes(Profiles[Inputs.code.sub]))

-----------------------------------------------------------------------------
(* Registration.                                                            *)

UserTypeResolver ==
    LET given == Get(Inputs, "userType")
        types == SelfRegistered(graph.allowed)
        Resolved(t) == Effect(Complete(NoUser, TypeData(t)))
    IN  IF ~IsRegistration THEN Effect(Complete(NoUser, <<>>))
        ELSE IF given # "" THEN
            IF graph.allowed # {} /\ given \notin graph.allowed THEN Effect(Failure)
            ELSE IF given \notin DOMAIN Schemas THEN Effect(Error)
            ELSE IF Schemas[given].selfReg THEN Resolved(given) ELSE Effect(Failure)
        ELSE CASE types = {} -> Effect(Failure)
               [] Cardinality(types) = 1 -> Resolved(CHOOSE t \in types : TRUE)
               [] OTHER -> Effect(NeedsInput)

\* A unit below the one of the user type, if there is a type by now.
OUCreation ==
    CASE CheckInputData(OUInputs) -> Effect(NeedsInput)
      [] ~CheckInputData(OUInputs) /\ Get(Inputs, "ouHandle") \in units \cup {""} ->
            Effect(Failure)
      [] OTHER -> [Effect(Complete(NoUser, [ouId |-> Inputs.ouHandle])) EXCEPT
                     !.units = units \cup {Inputs.ouHandle}]

NonUserAttributes ==
    {"userID", "code", "nonce", "otp", "attemptCount", "requested_permissions",
     "authorized_permissions", "userType", "ouId", "defaultOUID", "ouName", "ouHandle",
     "eligible", "skip", "provisioned"}

\* All there is or, of what the node asks for, the input, the runtime data, the user's.
AttributesForProvisioning ==
    LET all == IF Step.required = {} THEN Merge(flow.runtime, Merge(flow.authn.attrs, Inputs))
               ELSE Merge(Inputs, Merge(flow.runtime, flow.authn.attrs))
        wanted == IF Step.required = {} THEN DOMAIN all ELSE Step.required \cap DOMAIN all
    IN  Restrict(all, wanted \ NonUserAttributes)

\* Required data may be among the attributes of the user of the flow.
ProvisioningNeedsInput ==
    /\ Step.required # {}
    /\ CheckInputData({})
    /\ ~(Step.required \subseteq Given(flow.runtime) \cup DOMAIN flow.authn.attrs)

\* Fault: a user type that was chosen may be overwritten by the client.
TypeOfClient ==
    IF Get(Inputs, "userType") # "" THEN Inputs.userType ELSE Get(flow.runtime, "userType")

ProvisionedType == Get(flow.runtime, "userType")

ProvisionedUnit ==
    IF Get(flow.runtime, "ouId") # "" THEN flow.runtime.ouId ELSE Get(flow.runtime, "defaultOUID")

\* createUserInStore: the new user, with the password in its place.
NewUser(attrs) ==
    [attrs |-> Restrict(attrs, DOMAIN attrs \ {"password"}), type |-> ProvisionedType,
     ou |-> ProvisionedUnit,
     credentials |-> [password |-> IF Get(Inputs, "password") # "" THEN Inputs.password
                                  ELSE Get(flow.runtime, "password")]]

Provisioning ==
    LET attrs == AttributesForProvisioning
        id == IdentifyUser(attrs)
        free == {u \in People : users[u] = None}
        new == NewUser(attrs)
        u == CHOOSE x \in free : TRUE
    IN  CASE ~IsRegistration /\ Get(flow.runtime, "eligible") # "true" ->
                Effect(Complete(NoUser, <<>>))
          [] (IsRegistration \/ Get(flow.runtime, "eligible") = "true") /\ ProvisioningNeedsInput ->
                Effect(NeedsInput)
          [] OTHER ->
                CASE id.found = "one" /\ IsRegistration /\ Get(flow.runtime, "skip") = "true" ->
                        Effect(Complete(NoUser, [userID |-> id.user]))
                  [] id.found = "nobody" /\ new.type \in DOMAIN Schemas /\ new.ou \in units /\ free # {} ->
                        [Effect(Complete([is |-> TRUE, user |-> u, type |-> new.type, ou |-> new.ou,
                                          attrs |-> new.attrs],
                                         IF IsRegistration THEN [userID |-> u]
                                         ELSE [userID |-> u, provisioned |-> "true"]))
                           EXCEPT !.users = [users EXCEPT ![u] = new], !.created = {u}]
                  [] OTHER -> Effect(Failure)

-----------------------------------------------------------------------------
(* Attributes, permissions, other services, the assertion.                  *)

\* The profile's attributes are not asked for again.
CollectorNeedsInput(u) ==
    /\ Step.required # {}
    /\ CheckInputData({})
    /\ LET missing == Step.required \ Given(flow.runtime)
       IN  ~(missing \subseteq DOMAIN flow.authn.attrs \cup DOMAIN users[u].attrs \cup {"password"})

\* Inputs before runtime data, and not the ID of the user.
InputAttributes ==
    LET all == Merge(Inputs, flow.runtime)
    IN  Restrict(all, (Step.required \cap DOMAIN all) \ {"userID"})

\* What was collected is merged into the profile.
Merged(u, collected) == Merge(collected, users[u].attrs)

AttributeCollector ==
    LET u == GetUserIDFromContext
        collected == InputAttributes
    IN  CASE IsRegistration -> Effect(Complete(NoUser, <<>>))
          [] ~IsRegistration /\ (~flow.authn.is \/ ~(u \in People /\ Present(u))) -> Effect(Failure)
          [] OTHER ->
                IF CollectorNeedsInput(u) THEN Effect(NeedsInput)
                ELSE [Effect(Complete(NoUser, <<>>)) EXCEPT
                        !.users = IF DOMAIN collected = {} THEN users
                                  ELSE [users EXCEPT ![u].attrs = Merged(u, collected)]]

\* The query of the role store: those of roles assigned to the user or to a group.
PermissionsOf(u, groups, requested) ==
    {p \in requested : \E r \in Roles :
        p \in r.permits /\ (u \in r.users \/ groups \cap r.groups # {})}

\* The service needs somebody to ask about.
GetAuthorizedPermissions(u, groups, requested) ==
    IF u = "" /\ groups = {} THEN [ok |-> FALSE]
    ELSE [ok |-> TRUE, permits |-> PermissionsOf(u, groups, requested)]

\* A profile names one group here, or none; none is in the runtime data.
Groups == IF "groups" \in DOMAIN flow.authn.attrs THEN {flow.authn.attrs.groups} ELSE {}

Authorization ==
    LET requested == IF "requested_permissions" \in DOMAIN flow.runtime
                     THEN flow.runtime.requested_permissions ELSE {}
        answer == GetAuthorizedPermissions(flow.authn.user, Groups, requested)
    IN  CASE ~flow.authn.is -> Effect(Failure)
          [] flow.authn.is /\ requested = {} -> Effect(Complete(NoUser, <<>>))
          [] OTHER -> IF ~answer.ok THEN Effect(Failure)
                      ELSE Effect(Complete(NoUser, [authorized_permissions |-> answer.permits]))

\* The number of retries is capped.
RetryCount == IF Step.retryCount > 5 THEN 5 ELSE Step.retryCount

\* One request more; a number below zero means no request at all.
Tries == RetryCount + 1

\* Unless the node says so, an error does not fail the flow.
RequestError == Effect(IF Step.failOnError THEN Failure ELSE Complete(NoUser, <<>>))

\* What the answer, if there is one, puts into the runtime data.
Answered == Effect(Complete(NoUser, Step.answer))

HTTPRequest == {RequestError} \cup (IF Tries > 0 THEN {Answered} ELSE {})

AuthenticatorOf(executor) ==
    CASE executor = "BasicAuthExecutor" -> "CredentialsAuthenticator"
      [] executor = "SMSOTPAuthExecutor" -> "SMSOTPAuthenticator"
      [] OTHER -> executor

OAuthExecutors == {"OAuthExecutor", "GithubOAuthExecutor"}
OIDCExecutors == {"OIDCAuthExecutor", "GoogleOIDCAuthExecutor"}

AuthnExecutors == OAuthExecutors \cup OIDCExecutors \cup {"BasicAuthExecutor", "SMSOTPAuthExecutor"}

\* Fault: every authentication executor of the graph is named.
AuthenticatorsOfGraph ==
    {AuthenticatorOf(graph.steps[i].executor) : i \in
       {j \in DOMAIN graph.steps : graph.steps[j].executor \in AuthnExecutors}}

\* extractAuthenticatorReferences: of the executors that completed.
Authenticators ==
    {AuthenticatorOf(e) : e \in flow.done \cap AuthnExecutors}

\* The unit of the user is looked up and has to be there.
AuthAssert ==
    CASE ~flow.authn.is -> Effect(Failure)
      [] flow.authn.is /\ flow.authn.ou \notin units -> Effect(Error)
      [] OTHER ->
            Effect([Response("COMPLETE") EXCEPT !.assertion =
              [sub |-> flow.authn.user, authenticators |-> Authenticators,
               permissions |-> IF "authorized_permissions" \in DOMAIN flow.runtime
                               THEN flow.runtime.authorized_permissions ELSE {}]])

-----------------------------------------------------------------------------
(* The engine around the executors.                                         *)

\* shouldUpdateAuthenticatedUser, after the runtime data was merged.
UpdatesUser(rt) ==
    IF ~IsRegistration
    THEN \/ Step.executor \in AuthnExecutors
         \/ Step.executor = "ProvisioningExecutor" /\ Get(rt, "eligible") = "true"
    ELSE IF Get(rt, "skip") = "true" THEN Step.executor \in AuthnExecutors
    ELSE Step.executor = "ProvisioningExecutor"

\* The user of the response, with the attributes known before.
NextUser(resp, rt) ==
    IF UpdatesUser(rt) THEN [resp.authn EXCEPT !.attrs = Merge(@, flow.authn.attrs)] ELSE flow.authn

NextRuntime(rt, authn) ==
    IF UpdatesUser(rt) /\ authn.user # "" /\ Get(rt, "userID") = ""
    THEN Merge([userID |-> authn.user], rt) ELSE rt

NextState(status) ==
    CASE status = "COMPLETE" -> IF flow.at = Len(graph.steps) THEN "over" ELSE "running"
      [] status \in {"USER_INPUT_REQUIRED", "EXTERNAL_REDIRECTION"} -> "waiting"
      [] status = "FAILURE" -> "failed"
      [] status = "error" -> "dropped"

\* updateContextWithNodeResponse, processNodeResponse.
Apply(e) ==
    LET rt == Merge(e.resp.runtime, e.runtime)
        authn == NextUser(e.resp, rt)
        done == e.resp.status = "COMPLETE"
    IN  /\ flow' = [flow EXCEPT
                      !.runtime = NextRuntime(rt, authn), !.authn = authn,
                      !.assertion = e.resp.assertion, !.state = NextState(e.resp.status),
                      !.done = IF done THEN @ \cup {Step.executor} ELSE @,
                      !.at = IF done /\ @ < Len(graph.steps) THEN @ + 1 ELSE @]
        /\ users' = e.users /\ units' = e.units /\ sent' = e.sent
        /\ proved' = proved \cup e.proved
        /\ created' = created \cup e.created
        /\ UNCHANGED <<graph, changes, posts>>

\* A condition names runtime data, input if there is none, or the user of the flow.
ShouldExecute ==
    LET key == Step.condition.key
        input == Get(Inputs, key)
        value == CASE key = "userID" /\ flow.authn.user # "" -> flow.authn.user
                   [] key # "userID" /\ Get(flow.runtime, key) = "" -> input
                   [] OTHER -> Get(flow.runtime, key)
    IN  key # "" => value = Step.condition.value

Runs(executors) == flow.state = "running" /\ ShouldExecute /\ Step.executor \in executors

SkipNode ==
    /\ flow.state = "running" /\ ~ShouldExecute
    /\ flow' = [flow EXCEPT !.at = IF @ < Len(graph.steps) THEN @ + 1 ELSE @,
                            !.state = IF flow.at < Len(graph.steps) THEN @ ELSE "over"]
    /\ UNCHANGED <<graph, users, units, sent, proved, created, changes, posts>>

ExecuteBasicAuth == Runs({"BasicAuthExecutor"}) /\ Apply(BasicAuth)
ExecuteSMSAuth == Runs({"SMSOTPAuthExecutor"}) /\ Apply(SMSAuth)
ExecuteOAuth == Runs(OAuthExecutors) /\ Apply(OAuthAuth)
ExecuteOIDC == Runs(OIDCExecutors) /\ Apply(OIDCAuth)
ExecuteUserType == Runs({"UserTypeResolver"}) /\ Apply(UserTypeResolver)
ExecuteOU == Runs({"OUExecutor"}) /\ Apply(OUCreation)
ExecuteProvisioning == Runs({"ProvisioningExecutor"}) /\ Apply(Provisioning)
ExecuteCollector == Runs({"AttributeCollector"}) /\ Apply(AttributeCollector)
ExecuteAuthorization == Runs({"AuthorizationExecutor"}) /\ Apply(Authorization)
ExecuteHTTP == Runs({"HTTPRequestExecutor"}) /\ \E e \in HTTPRequest : Apply(e)
ExecuteAssert == Runs({"AuthAssertExecutor"}) /\ Apply(AuthAssert)

\* A service that an executor calls has failed: the executor fails, or returns an error.
ServiceFails ==
    /\ flow.state = "running" /\ ShouldExecute
    /\ \/ Step.executor # "AuthAssertExecutor" /\ Apply(Effect(Failure))
       \/ Step.executor \in OAuthExecutors \cup OIDCExecutors \cup
            {"BasicAuthExecutor", "SMSOTPAuthExecutor", "OUExecutor", "UserTypeResolver",
             "AuthAssertExecutor"} /\
          Apply(Effect(Error))

\* The client continues the flow; its inputs are merged into those before.
Continue(inputs) ==
    /\ flow.state \in {"new", "waiting", "failed"}
    /\ posts < MaxPosts
    /\ posts' = posts + 1
    /\ flow' = [flow EXCEPT !.inputs = Merge(inputs, @), !.state = "running"]
    /\ UNCHANGED <<graph, users, units, sent, proved, created, changes>>

\* Others add, change and delete users.
ChangedByOthers(u, new) ==
    /\ changes < MaxChanges
    /\ users[u] # new /\ users[u] # Gone
    /\ new = Gone => users[u] # None
    /\ changes' = changes + 1
    /\ users' = [users EXCEPT ![u] = new]
    /\ UNCHANGED <<graph, flow, units, sent, proved, created, posts>>

Init ==
    /\ graph \in Graphs
    /\ flow = [state |-> "new", at |-> 1, inputs |-> <<>>, runtime |-> graph.runtime,
               authn |-> NoUser, done |-> {}, assertion |-> None]
    /\ users = InitialUsers
    /\ units = InitialUnits
    /\ sent = <<>> /\ proved = {} /\ created = {}
    /\ changes = 0 /\ posts = 0

Next ==
    \/ \E inputs \in graph.posts : Continue(inputs)
    \/ \E u \in People, new \in OtherChanges \cup {Gone} : ChangedByOthers(u, new)
    \/ ExecuteBasicAuth \/ ExecuteSMSAuth \/ ExecuteOAuth \/ ExecuteOIDC \/ ExecuteUserType \/ ExecuteOU
    \/ ExecuteProvisioning \/ ExecuteCollector \/ ExecuteAuthorization \/ ExecuteHTTP
    \/ ExecuteAssert \/ SkipNode \/ ServiceFails

Spec == Init /\ [][Next]_vars

-----------------------------------------------------------------------------
(* Properties.                                                             *)

\* All sends of one-time passwords were within the limit: the flow's user is set
\* before attempts are counted, so that a refused one leaves it as it was set.
NoSendRefused == Attempts(flow.runtime) < MaxAttempts

\* Whoever the flow takes for authenticated has passed a check of this flow or was
\* created by it, however often the client changed its inputs in between, in whatever
\* order nodes failed and were tried again, and whatever others did to the users.
OnlyTheProven ==
    flow.authn.is /\ NoSendRefused =>
        \/ flow.authn.user \in created
        \/ \E p \in proved : p.who = flow.authn.user

\* What an assertion says of the way to authenticate was done in this flow, and what
\* it permits is what roles give to its subject or to the groups in its attributes.
AssertionsTell ==
    flow.assertion # None =>
        /\ graph.type = "AUTHENTICATION" /\ created = {} =>
              \A a \in flow.assertion.authenticators : \E p \in proved : p.by = a
        /\ flow.assertion.permissions \subseteq
              UNION {r.permits : r \in
                       {x \in Roles : flow.assertion.sub \in x.users \/ Groups \cap x.groups # {}}}

\* The premise under which assertions tell that of every graph, in any flow: nothing sets
\* another user once permissions were looked up, which no other node and no service answers
\* with; and in a login no user is authenticated after a provider may have vouched for somebody
\* unknown.  The code leaves the order of nodes to the authors of graphs.
SettingUser == AuthnExecutors \cup {"ProvisioningExecutor"}

AllowsUnknown(step) == step.executor \in OAuthExecutors \cup OIDCExecutors /\ step.withoutLocal

TellingOrder(g) ==
    /\ "authorized_permissions" \notin DOMAIN g.runtime
    /\ \A i \in DOMAIN g.steps : "authorized_permissions" \notin DOMAIN g.steps[i].answer
    /\ \A j \in DOMAIN g.steps : \A i \in 1..(j - 1) :
          /\ g.steps[i].executor = "AuthorizationExecutor" => g.steps[j].executor \notin SettingUser
          /\ g.type = "AUTHENTICATION" /\ AllowsUnknown(g.steps[i]) =>
                g.steps[j].executor \notin AuthnExecutors

\* A user the flow creates has a type that the application allows and that users may
\* register for, and is in the unit of that type or in one that the flow created.
ProvisionedAsAllowed ==
    [][\A u \in created' \ created :
          LET new == users'[u]
          IN  /\ graph.allowed # {} => new.type \in graph.allowed
              /\ Schemas[new.type].selfReg
              /\ new.ou \in {Schemas[new.type].ou} \cup (units \ InitialUnits)]_vars

\* However often a flow fails, is sent again or passes the node in another round, it sends
\* no more one-time passwords than it is limited to (sms_auth_executor.go:511).
SendsAreLimited == Len(sent) <= MaxAttempts

=============================================================================
