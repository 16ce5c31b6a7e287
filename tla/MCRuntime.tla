----------------------------- MODULE MCRuntime -----------------------------
(* The file subscriber takes every event, the other one only those of      *)
(* authentication; two requests; a login with a password or with Google,   *)
(* which has a registration, one with a second factor, which has none, one *)
(* that nobody gets through and one whose executor does not exist.  The    *)
(* files are those of one of nine deployments.                             *)
EXTENDS Runtime

MCCategory == [e \in Events |-> IF e = "login" THEN "authn" ELSE "flow"]
MCInterests == [s \in Subscribers |-> IF s = FileSub THEN {"all"} ELSE {"authn"}]

Choice(id, next) ==
    [id |-> id, type |-> "DECISION", executor |-> "", next |-> next, condition |-> ""]
Task(id, executor, next) ==
    [id |-> id, type |-> "TASK_EXECUTION", executor |-> executor, next |-> <<next>>,
     condition |-> ""]
Success ==
    [id |-> "authenticated", type |-> "AUTHENTICATION_SUCCESS", executor |-> "", next |-> <<>>,
     condition |-> ""]
Definition(id, type, nodes) == [id |-> id, type |-> type, nodes |-> nodes]

Password == Task("password", "BasicAuthExecutor", "authenticated")
Google == Task("google", "GoogleOIDCAuthExecutor", "authenticated")

MCDefinitions ==
    {Definition("auth_social", "AUTHENTICATION",
                <<Choice("choose", <<"password", "google">>), Password, Google, Success>>),
     Definition("registration_social", "REGISTRATION",
                <<Password, [Google EXCEPT !.next = <<"password">>], Success>>),
     Definition("auth_strict", "AUTHENTICATION",
                <<Choice("choose", <<"google", "password">>),
                  [Password EXCEPT !.next = <<"otp">>], Google,
                  Task("otp", "SMSOTPAuthExecutor", "authenticated"), Success>>),
     Definition("auth_loop", "AUTHENTICATION",
                <<Choice("choose", <<"password">>), [Password EXCEPT !.next = <<"google">>],
                  [Google EXCEPT !.next = <<"password">>]>>),
     Definition("auth_other", "AUTHENTICATION",
                <<[Google EXCEPT !.executor = "OtherExecutor"], Success>>)}

MCRegistrationID ==
    [auth_social |-> "registration_social", auth_strict |-> "registration_strict",
     auth_loop |-> "registration_loop", auth_other |-> "registration_other"]

-----------------------------------------------------------------------------
MCCapital == [a |-> "A", b |-> "B"]
MCNumeral == [i \in 0..3 |-> ToString(i)]

App(id, name, credentials, types, flow, branding) ==
    [kind |-> "application", id |-> id, name |-> name, client |-> credentials, types |-> types,
     flow |-> flow, branding |-> branding]
Client(id, secret, uris, public) ==
    [id |-> id, secret |-> secret, uris |-> uris, public |-> public]
Props(kind, id, name, values) ==
    [kind |-> kind, id |-> id, name |-> name,
     props |-> [p \in DOMAIN values |-> [value |-> values[p], secret |-> p = "KEY"]]]
Schema(id, name, definition) ==
    [kind |-> "schema", id |-> id, name |-> name, ou |-> "ou", definition |-> definition]

All == [k \in ToSet(Kinds) |-> {"*"}]
Deployment(database, wanted, byHand, environment) ==
    [database |-> database, request |-> wanted, written |-> byHand,
     environment |-> environment]

Staff == Schema("s1", <<"a">>, "definition")
Shop == App("p1", <<"a", " ", "b">>, Client("c1", "k1", <<"u1", "u2">>, FALSE), {<<"a">>},
            "auth_social", "theme")
Portal == App("p2", <<"a", "B">>, Client("c2", "", <<"u3">>, TRUE), {}, "auth_strict", Absent)
Issuer == Props("idp", "i1", <<"b">>, [ISSUER |-> "e1", KEY |-> "k2"])
Gateway == Props("sender", "n1", <<"a", "b", "1">>, [KEY |-> "k3"])

\* Made by hand: values in the files, and variables that the environment may have.
Mobile(flow) ==
    App("", <<"b", "a">>, Client(Text("c3"), Text(""), Each(<<"B", "_", "URIS">>), FALSE), {},
        flow, Absent)
MobileURIs ==
    (<<"B", "_", "URIS", "_", "0">> :> "u4") @@ (<<"B", "_", "URIS", "_", "1">> :> "u5")

MCDeployments ==
    {\* All that can be exported, and the user type that it needs.
     Deployment({Shop, Issuer, Gateway}, All, {Staff}, << >>),
     \* One of two applications, and one made by hand.
     Deployment({Shop, Portal}, [All EXCEPT !["application"] = {"p1"}], {Staff, Mobile("")},
                MobileURIs),
     \* Without the variables of its array, and with a flow that is not there.
     Deployment({Portal}, All, {Mobile("")}, << >>),
     Deployment({Portal}, All, {[Mobile("auth_none") EXCEPT !.client.uris = Texts(<<"u4">>)]},
                << >>),
     \* Both applications have the variables A_B_...
     Deployment({Shop, Portal}, All, {Staff}, << >>),
     \* Both have the file b; the application needs a user type that is not there.
     Deployment({Issuer, [Issuer EXCEPT !.id = "i2", !.name = <<"b", ".">>], Shop}, All, {},
                << >>),
     \* A-B_CLIENT_ID is no variable.
     Deployment({[Portal EXCEPT !.name = <<"a", "-", "b">>]}, All, {}, << >>),
     \* A user type is exported.
     Deployment({Staff, Portal}, [All EXCEPT !["schema"] = {"s1"}], {}, << >>),
     \* A user type is in the database, all are asked for, and none is exported; a file
     \* made by hand has the ID of one that is.
     Deployment({Staff, Issuer, Shop}, All,
                {Props("idp", "i1", <<"a">>, [ISSUER |-> Text("e2")])}, << >>)}
=============================================================================
