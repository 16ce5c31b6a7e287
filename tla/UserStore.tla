----------------------------- MODULE UserStore -----------------------------
(***************************************************************************)
(* The user service (internal/user) and the user schemas (types of users)  *)
(* it validates against (internal/userschema).                             *)
(***************************************************************************)
EXTENDS OrgUnits

-----------------------------------------------------------------------------
(* User schemas.  A change is not compared with the users there are.       *)

\* CreateUserSchema: schemaOU, schemaName, insertSchema.
CreateUserSchema(c, r) ==
    /\ r.op = "createSchema"
    /\ Begin(c, r, "schemaOU", [NoLocal EXCEPT !.ou = r.ou])

\* UpdateUserSchema: schemaOU, getSchema, schemaName, updateSchema.
UpdateUserSchema(c, r) ==
    /\ r.op = "updateSchema"
    /\ Begin(c, r, "schemaOU", [NoLocal EXCEPT !.ou = r.ou])

\* DeleteUserSchema: deleteSchema.
DeleteUserSchema(c, r) ==
    /\ r.op = "deleteSchema"
    /\ Begin(c, r, "deleteSchema", NoLocal)

\* ensureOrganizationUnitExists.
SchemaOUExists(c) ==
    /\ pc[c] = "schemaOU"
    /\ Check(c, local[c].ou \in PresentOUs, "refused",
             IF arg[c].op = "createSchema" THEN "schemaName" ELSE "getSchema")

\* GetUserSchemaByID; the name is checked if it is a new one.
GetSchema(c) ==
    LET s == arg[c].schema IN
    /\ pc[c] = "getSchema"
    /\ Check(c, s \in PresentSchemas, "refused",
             IF s \in PresentSchemas /\ schemas[s].name = arg[c].name
             THEN "updateSchema" ELSE "schemaName")

SchemaNames == {schemas[s].name : s \in PresentSchemas}

SchemaNameFree(c) ==
    /\ pc[c] = "schemaName"
    /\ Check(c, arg[c].name \notin SchemaNames, "conflict",
             IF arg[c].op = "createSchema" THEN "insertSchema" ELSE "updateSchema")

\* The unique constraint on NAME.
SchemaNameKey(c, s) == \A t \in PresentSchemas \ {s} : schemas[t].name # arg[c].name

\* An UPDATE of a row that is gone changes nothing and reports no error.  A
\* schema that is renamed leaves its old name without one.
WriteSchema(c) ==
    LET s == IF arg[c].op = "createSchema" THEN c ELSE arg[c].schema
        there == arg[c].op = "createSchema" \/ s \in PresentSchemas
        renamed == IF s \in PresentSchemas THEN {schemas[s].name} \ {arg[c].name} ELSE {}
    IN
    /\ pc[c] \in {"insertSchema", "updateSchema"}
    /\ \/ /\ there /\ SchemaNameKey(c, s)
          /\ schemas' = [schemas EXCEPT ![s] = [name |-> arg[c].name, ou |-> arg[c].ou]]
          /\ Written(c, {<<"schema", t, "removed">> : t \in renamed})
          /\ UNCHANGED <<ous, users, groups, roles>>
       \/ there /\ ~SchemaNameKey(c, s) /\ NotWritten(c, "failed")
       \/ ~there /\ NotWritten(c, "ok")

RemoveSchema(c) ==
    LET s == arg[c].schema IN
    /\ pc[c] = "deleteSchema"
    /\ schemas' = [schemas EXCEPT ![s] = None]
    /\ Written(c, {<<"schema", schemas[t].name, "removed">> : t \in PresentSchemas \cap {s}})
    /\ UNCHANGED <<ous, users, groups, roles>>

-----------------------------------------------------------------------------
(* Users.                                                                  *)

\* CreateUser: ouExists, schema, isParent, validate, unique, insertUser.
CreateUser(c, r) ==
    /\ r.op = "createUser"
    /\ Begin(c, r, "ouExists", [NoLocal EXCEPT !.ou = r.ou])

\* CreateUserByPath: path, and on like CreateUser.
CreateUserByPath(c, r) ==
    /\ r.op = "createUserByPath"
    /\ Begin(c, r, "path", [NoLocal EXCEPT !.path = r.path])

\* UpdateUser: ouExists, schema, isParent, validate, unique, updateUser.
UpdateUser(c, r) ==
    /\ r.op = "updateUser"
    /\ Begin(c, r, "ouExists", [NoLocal EXCEPT !.ou = r.ou])

\* UpdateUserAttributes: getUser, validate, unique, updateUser.
UpdateUserAttributes(c, r) ==
    /\ r.op = "updateUserAttributes"
    /\ Begin(c, r, "getUser", NoLocal)

\* UpdateUserCredentials: getCredentials, updateCredentials.
UpdateUserCredentials(c, r) ==
    /\ r.op = "updateUserCredentials"
    /\ Begin(c, r, "getCredentials", NoLocal)

\* DeleteUser: deleteUser.
DeleteUser(c, r) ==
    /\ r.op = "deleteUser"
    /\ Begin(c, r, "deleteUser", NoLocal)

\* Fault: the organization unit of the type is not looked at.
SchemaOfAnyOU(c) ==
    /\ pc[c] = "schema"
    /\ Check(c, arg[c].type \in SchemaNames, "refused", "validate")

\* validateOrganizationUnitForUserType, after the organization unit was found:
\* the type's schema belongs to it or to one above it.
SchemaOfType(c) ==
    /\ pc[c] = "schema"
    /\ \/ /\ arg[c].type \notin SchemaNames
          /\ Answer(c, "refused")
       \/ \E s \in PresentSchemas :
             /\ schemas[s].name = arg[c].type
             /\ Goto(c, IF schemas[s].ou = local[c].ou THEN "validate" ELSE "isParent")
             /\ Keep(c, [local[c] EXCEPT !.walk = local[c].ou, !.row = schemas[s].ou])
    /\ UNCHANGED <<tables, arg, before, stamp>>

\* The copy that UpdateUserAttributes writes back with the new attributes.
GetUser(c) ==
    LET u == arg[c].user IN
    /\ pc[c] = "getUser"
    /\ IF u \in PresentUsers
       THEN /\ Goto(c, "validate")
            /\ Keep(c, [local[c] EXCEPT !.ou = users[u].ou, !.row = users[u].type])
       ELSE Answer(c, "refused")
    /\ UNCHANGED <<tables, arg, before, stamp>>

UserType(c) == IF arg[c].op = "updateUserAttributes" THEN local[c].row ELSE arg[c].type

\* ValidateUser loads the schema again.  (Attributes that do not conform to it
\* end the call: see Fails.)
ValidateUser(c) ==
    /\ pc[c] = "validate"
    /\ Check(c, UserType(c) \in SchemaNames, "refused", "unique")

\* What validateUserAndUniqueness is followed by.
AfterUnique(c) ==
    IF arg[c].op \in {"createUser", "createUserByPath"} THEN "insertUser" ELSE "updateUser"

\* The users with a value of the unique attribute.
IdentifyUser(attr) == {u \in PresentUsers : users[u].attr = attr}

\* ValidateUserUniqueness loads the schema once more and looks for a user with
\* the value, the one to be updated included.  Several are an error.
ValidateUserUniqueness(c) ==
    LET same == IdentifyUser(arg[c].attr) IN
    /\ pc[c] = "unique"
    /\ Check(c, UserType(c) \in SchemaNames /\ (arg[c].attr = None \/ same = {}),
             IF UserType(c) \notin SchemaNames THEN "refused"
             ELSE IF Cardinality(same) = 1 THEN "conflict" ELSE "failed",
             AfterUnique(c))

NewUser(c, creds) ==
    [type |-> UserType(c), ou |-> local[c].ou, attr |-> arg[c].attr, creds |-> creds]

UserChanges(u, old, new) ==
    {<<"user", u, f>> : f \in {g \in {"type", "ou", "attr"} : old = None \/ old[g] # new[g]}}

\* The credentials among the attributes (extractCredentials) go to a column of
\* their own.
InsertUser(c) ==
    /\ pc[c] = "insertUser"
    /\ users' = [users EXCEPT ![c] = NewUser(c, [t \in CredTypes |-> IF t \in arg[c].creds THEN c ELSE None])]
    /\ Written(c, UserChanges(c, None, NewUser(c, None)))
    /\ UNCHANGED <<ous, groups, roles, schemas>>

WriteUser(c) ==
    LET u == arg[c].user IN
    /\ pc[c] = "updateUser"
    /\ \/ /\ u \in PresentUsers
          /\ users' = [users EXCEPT ![u] = NewUser(c, @.creds)]
          /\ Written(c, UserChanges(u, users[u], NewUser(c, None)))
          /\ UNCHANGED <<ous, groups, roles, schemas>>
       \/ u \notin PresentUsers /\ NotWritten(c, "refused")

GetCredentials(c) ==
    LET u == arg[c].user IN
    /\ pc[c] = "getCredentials"
    /\ IF u \in PresentUsers
       THEN Goto(c, "updateCredentials") /\ Keep(c, [local[c] EXCEPT !.row = users[u].creds])
       ELSE Answer(c, "refused")
    /\ UNCHANGED <<tables, arg, before, stamp>>

\* Fault: the credentials of the request replace all others.
ReplacedCredentials(c) == [t \in CredTypes |-> IF t = arg[c].cred THEN c ELSE None]

\* mergeCredentials: what was read, with the credential of the request.
MergedCredentials(c) == [local[c].row EXCEPT ![arg[c].cred] = c]

WriteCredentials(c) ==
    LET u == arg[c].user IN
    /\ pc[c] = "updateCredentials"
    /\ \/ /\ u \in PresentUsers
          /\ users' = [users EXCEPT ![u].creds = MergedCredentials(c)]
          /\ Written(c, {})
          /\ UNCHANGED <<ous, groups, roles, schemas>>
       \/ u \notin PresentUsers /\ NotWritten(c, "refused")

\* Memberships and role assignments of the user stay.
RemoveUser(c) ==
    LET u == arg[c].user IN
    /\ pc[c] = "deleteUser"
    /\ users' = [users EXCEPT ![u] = None]
    /\ Written(c, {<<"user", v, "removed">> : v \in PresentUsers \cap {u}})
    /\ UNCHANGED <<ous, groups, roles, schemas>>

-----------------------------------------------------------------------------
BeginUser(c, r) ==
    \/ CreateUserSchema(c, r) \/ UpdateUserSchema(c, r) \/ DeleteUserSchema(c, r)
    \/ CreateUser(c, r) \/ CreateUserByPath(c, r) \/ UpdateUser(c, r)
    \/ UpdateUserAttributes(c, r) \/ UpdateUserCredentials(c, r) \/ DeleteUser(c, r)

StepUser(c) ==
    \/ SchemaOUExists(c) \/ GetSchema(c) \/ SchemaNameFree(c) \/ WriteSchema(c) \/ RemoveSchema(c)
    \/ SchemaOfType(c) \/ GetUser(c) \/ ValidateUser(c) \/ ValidateUserUniqueness(c)
    \/ InsertUser(c) \/ WriteUser(c) \/ GetCredentials(c) \/ WriteCredentials(c) \/ RemoveUser(c)
=============================================================================
