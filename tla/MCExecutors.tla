---------------------------- MODULE MCExecutors ----------------------------
(* Instances of Executors: six graphs, two users, two numbers and a provider. *)
EXTENDS Executors

CONSTANTS ann, bob, eve

MCUser(name, mobile) ==
    [attrs |-> [username |-> name, mobileNumber |-> mobile] @@
               (IF name = "bob" THEN [groups |-> "admins"] ELSE <<>>), credentials |-> [password |-> name],
     type |-> "person", ou |-> "home"]

MCUsers == (ann :> MCUser("ann", "1")) @@ (bob :> MCUser("bob", "2")) @@ (eve :> None)

\* The profile of a user changes hands: a number and a subject of a provider.
MCChanges ==
    {MCUser("ann", "2"),
     [attrs |-> [sub |-> "s1", username |-> "ann"], credentials |-> [password |-> "ann"],
      type |-> "person", ou |-> "home"]}

\* Who registers as staff is not in control of the account.
MCSchemas ==
    [person |-> [selfReg |-> TRUE, ou |-> "home"],
     guest |-> [selfReg |-> TRUE, ou |-> "home"],
     staff |-> [selfReg |-> FALSE, ou |-> "home"]]

MCProfiles == [s1 |-> [sub |-> "s1", email |-> "e1"], s2 |-> [sub |-> "s2"]]

MCRoles ==
    {[permits |-> {"read"}, users |-> {ann}, groups |-> {}],
     [permits |-> {"write"}, users |-> {}, groups |-> {"admins"}]}

MCStep(executor, required) ==
    [executor |-> executor, required |-> required, condition |-> [key |-> "", value |-> ""],
     existing |-> FALSE, withoutLocal |-> FALSE, failOnError |-> TRUE, retryCount |-> 0, answer |-> <<>>]

MCAssert == MCStep("AuthAssertExecutor", {})
MCGoogle == [MCStep("GoogleOIDCAuthExecutor", {}) EXCEPT !.withoutLocal = TRUE, !.existing = TRUE]
MCGithub == [MCGoogle EXCEPT !.executor = "GithubOAuthExecutor"]

MCName(x) == [username |-> x]
MCWords(x) == [username |-> x, password |-> x]
MCOtp(n) == [otp |-> ToString(n)]
MCCode(s) == [code |-> [sub |-> s, nonce |-> "n"], nonce |-> "n"]

\* Name and password or an added email, permissions, an assertion.
MCLogin ==
    [type |-> "AUTHENTICATION", allowed |-> {}, runtime |-> [requested_permissions |-> {"read", "write"}],
     steps |-> <<MCStep("BasicAuthExecutor", {}), MCStep("AttributeCollector", {"email"}),
                 MCStep("AuthorizationExecutor", {}), MCAssert>>,
     posts |-> {MCWords("ann"), MCWords("bob"), [username |-> "ann", password |-> "bob"],
                MCName("bob"), [email |-> "e2"]}]

\* A one-time password after a name or a number.
MCMobile ==
    [type |-> "AUTHENTICATION", allowed |-> {}, runtime |-> <<>>,
     steps |-> <<MCStep("SMSOTPAuthExecutor", {}), MCAssert>>,
     posts |-> {MCName("ann"), MCName("bob"), [mobileNumber |-> "2"], <<>>} \cup
               {MCOtp(n) : n \in 0..2}]

\* A password and, for bob, the provider: the user of the second counts.
MCFactors ==
    [type |-> "AUTHENTICATION", allowed |-> {"person"}, runtime |-> <<>>,
     steps |-> <<MCStep("BasicAuthExecutor", {}),
                 [MCGoogle EXCEPT !.condition = [key |-> "username", value |-> "bob"]],
                 MCStep("ProvisioningExecutor", {}), MCAssert>>,
     posts |-> {MCWords("ann"), MCWords("bob"), MCCode("s1"), MCCode("s2"),
                [code |-> [sub |-> "s1", nonce |-> "m"], nonce |-> "n"]}]

MCSignUp ==
    [type |-> "REGISTRATION", allowed |-> {"person", "guest", "staff"}, runtime |-> <<>>,
     steps |-> <<MCStep("UserTypeResolver", {}), MCStep("OUExecutor", {}),
                 MCStep("BasicAuthExecutor", {}), MCStep("ProvisioningExecutor", {}), MCAssert>>,
     posts |-> {[userType |-> "person"], [userType |-> "staff"], MCWords("ann"), MCWords("eve"),
                [ouName |-> "new", ouHandle |-> "new"], [ouName |-> "home", ouHandle |-> "home"]}]

MCSignUpBySubject ==
    [type |-> "REGISTRATION", allowed |-> {"person", "staff"}, runtime |-> <<>>,
     steps |-> <<MCStep("UserTypeResolver", {}), MCGithub,
                 MCStep("ProvisioningExecutor", {"sub", "email"}), MCAssert>>,
     posts |-> {[userType |-> "person"], [userType |-> "staff"], MCCode("s1"), MCCode("s2"),
                [email |-> "e2"]}]

MCSignUpByNumber ==
    [type |-> "REGISTRATION", allowed |-> {"person"}, runtime |-> <<>>,
     steps |-> <<MCStep("UserTypeResolver", {}), MCStep("SMSOTPAuthExecutor", {}),
                 [MCStep("HTTPRequestExecutor", {}) EXCEPT !.answer = [country |-> "c"],
                                                           !.failOnError = FALSE],
                 MCStep("ProvisioningExecutor", {}), MCAssert>>,
     posts |-> {[mobileNumber |-> "2"], [mobileNumber |-> "3"]} \cup {MCOtp(n) : n \in 0..3}]

MCGraphs == {MCLogin, MCMobile, MCFactors, MCSignUp, MCSignUpBySubject, MCSignUpByNumber}

ASSUME OrderAssumption == \A g \in MCGraphs : TellingOrder(g)
=============================================================================
