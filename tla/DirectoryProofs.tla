-------------------------- MODULE DirectoryProofs --------------------------
(***************************************************************************)
(* Proofs about the directory, for any number of calls, rows and requests: *)
(* what the services check before they write is lost to overlapping calls  *)
(* only.                                                                   *)
(*                                                                         *)
(* The inductive invariant says of every call what it still knows of its   *)
(* checks: each row that now contradicts a check was changed by a call     *)
(* that had not ended when this one began.                                 *)
(***************************************************************************)
EXTENDS Directory, TLAPS

-----------------------------------------------------------------------------
(* The course of the calls.                                                *)

CreatesUser == {"createUser", "createUserByPath"}
CreatesGroup == {"createGroup", "createGroupByPath"}
ChangesOU == {"updateOU", "updateOUByPath"}

\* The steps of every operation.
Course(c) ==
    LET at(steps, ops) == pc[c] \in steps => arg[c].op \in ops IN
    /\ pc[c] = "idle" => arg[c] = None
    /\ pc[c] # "idle" => arg[c] \in Requests
    /\ at({"path"}, {"updateOUByPath", "deleteOUByPath", "createUserByPath", "createGroupByPath"})
    /\ at({"getOU"}, {"updateOU"})
    /\ at({"ouExists"}, {"deleteOU", "updateUser"} \cup CreatesUser)
    /\ at({"parent", "name", "handle"}, {"createOU"} \cup ChangesOU)
    /\ at({"circular", "updateOU"}, ChangesOU)
    /\ at({"insertOU"}, {"createOU"})
    /\ at({"children", "deleteOU"}, {"deleteOU", "deleteOUByPath"})
    /\ at({"schemaOU", "schemaName"}, {"createSchema", "updateSchema"})
    /\ at({"insertSchema"}, {"createSchema"})
    /\ at({"getSchema", "updateSchema"}, {"updateSchema"})
    /\ at({"deleteSchema"}, {"deleteSchema"})
    /\ at({"schema", "isParent"}, {"updateUser"} \cup CreatesUser)
    /\ at({"validate", "unique"}, {"updateUser", "updateUserAttributes"} \cup CreatesUser)
    /\ at({"insertUser"}, CreatesUser)
    /\ at({"updateUser"}, {"updateUser", "updateUserAttributes"})
    /\ at({"getUser"}, {"updateUserAttributes"})
    /\ at({"getCredentials", "updateCredentials"}, {"updateUserCredentials"})
    /\ at({"deleteUser"}, {"deleteUser"})
    /\ at({"getGroup"}, {"updateGroup", "deleteGroup"})
    /\ at({"groupOU", "groupName"}, {"updateGroup"} \cup CreatesGroup)
    /\ at({"insertGroup"}, CreatesGroup)
    /\ at({"updateGroup"}, {"updateGroup"})
    /\ at({"deleteGroup"}, {"deleteGroup"})
    /\ at({"userIDs", "groupIDs"},
          {"updateGroup", "createRole", "addAssignments"} \cup CreatesGroup)
    /\ at({"roleExists"}, {"updateRole", "deleteRole", "addAssignments", "removeAssignments"})
    /\ at({"roleOU", "roleName"}, {"createRole", "updateRole"})
    /\ at({"insertRole"}, {"createRole"})
    /\ at({"updateRole"}, {"updateRole"})
    /\ at({"assignments", "deleteRole"}, {"deleteRole"})
    /\ at({"addAssignments"}, {"addAssignments"})
    /\ at({"removeAssignments"}, {"removeAssignments"})

\* What the calls have read, where their writes depend on it.
LocalOK(c) ==
    /\ DOMAIN local[c] = {"ou", "path", "walk", "row"}
    /\ pc[c] \in {"getOU", "ouExists", "parent", "circular", "name", "handle", "insertOU", "updateOU",
                  "children", "deleteOU", "schema", "isParent", "validate", "unique",
                  "insertUser", "updateUser", "groupOU", "groupName", "insertGroup", "updateGroup"}
       => local[c].ou \in OUs
    /\ pc[c] \in {"userIDs", "groupIDs"} /\ arg[c].op # "addAssignments" => local[c].ou \in OUs
    /\ pc[c] \in {"validate", "unique", "updateUser"} /\ arg[c].op = "updateUserAttributes"
       => local[c].row \in Types
    /\ pc[c] = "updateCredentials" => local[c].row \in [CredTypes -> Calls \cup {None}]
    /\ Running(c) /\ arg[c].op \in {"updateOU", "updateGroup", "createRole", "updateRole"}
       => local[c].ou = arg[c].ou

\* Calls name calls that have ended.
HistoryOK ==
    /\ \A c \in Calls :
          /\ \A d \in before[c] : Ended(d)
          /\ c \notin before[c]
          /\ pc[c] = "idle" => before[c] = {}
    /\ \A f \in Facts : stamp[f] # None => Ended(stamp[f])

Base ==
    /\ TypeOK
    /\ DOMAIN local = Calls
    /\ \A c \in Calls : Course(c) /\ LocalOK(c)
    /\ HistoryOK

-----------------------------------------------------------------------------
(* The tables.                                                             *)

\* What a call creates is not there before it ends; and an organization unit
\* that is gone does not come back.
NewRows ==
    /\ \A c \in Calls :
          ~Ended(c) => /\ ous[c] = None /\ users[c] = None /\ groups[c] = None
                       /\ stamp[<<"ou", c, "removed">>] = None
    /\ \A o \in OUs : stamp[<<"ou", o, "removed">>] # None => ous[o] = None

\* The foreign key on PARENT_ID.
ParentsThere == \A o \in PresentOUs : ous[o].parent \in PresentOUs \cup {None}

-----------------------------------------------------------------------------
(* What a call knows of its checks.                                        *)

\* f was changed by a call that had not ended when c began.
Since(f, c) == stamp[f] # None /\ stamp[f] \notin before[c]

AttrChecked(c) ==
    pc[c] \in {"insertUser", "updateUser"} /\ arg[c].attr # None
    => \A u \in PresentUsers : users[u].attr = arg[c].attr => Since(<<"user", u, "attr">>, c)

OURowRead(c) ==
    LET o == local[c].ou IN
    pc[c] \in {"parent", "circular", "name", "handle", "updateOU"} /\ arg[c].op \in ChangesOU
    => /\ o \in Calls => Ended(o)
       /\ UpdatesOU(c, o)
       /\ o \in PresentOUs =>
             ous[o] = local[c].row \/ \E d \in Calls : Overlap(c, d) /\ UpdatesOU(d, o)

OUNameChecked(c) ==
    /\ pc[c] \in {"handle", "insertOU", "updateOU"}
    /\ ~(SameRoot(c) /\ local[c].row.name = arg[c].name)
    => \A p \in Siblings(c) : ous[p].name = arg[c].name => Since(<<"ou", p, "name">>, c)

OUHandleChecked(c) ==
    /\ pc[c] \in {"insertOU", "updateOU"}
    /\ ~(SameRoot(c) /\ local[c].row.handle = arg[c].handle)
    => \A p \in Siblings(c) : ous[p].handle = arg[c].handle => Since(<<"ou", p, "handle">>, c)

\* A set that the new parent would close, but for the organization unit itself,
\* has a member that was moved meanwhile, or the walk is still in it.
CycleChecked(c) ==
    pc[c] \in {"circular", "name", "handle", "updateOU"} /\ arg[c].op \in ChangesOU
    => \A S \in SUBSET OUs :
          /\ arg[c].parent \in S
          /\ \A q \in S \ {local[c].ou} : q \in PresentOUs /\ ous[q].parent \in S
          => \/ \E q \in S \ {local[c].ou} : Since(<<"ou", q, "parent">>, c)
             \/ pc[c] = "circular" /\ local[c].walk \in S

ChildrenCounted(c) ==
    pc[c] = "deleteOU" =>
    /\ \A p \in PresentOUs : ous[p].parent = local[c].ou => Since(<<"ou", p, "parent">>, c)
    /\ \A u \in PresentUsers : users[u].ou = local[c].ou => Since(<<"user", u, "ou">>, c)
    /\ \A g \in PresentGroups : groups[g].ou = local[c].ou => Since(<<"group", g, "ou">>, c)

ThereOrGoneSince(o, c) == o \in PresentOUs \/ Since(<<"ou", o, "removed">>, c)

UserOUChecked(c) ==
    /\ pc[c] \in {"schema", "isParent", "validate", "unique", "insertUser", "updateUser"}
    /\ arg[c].op # "updateUserAttributes"
    => ThereOrGoneSince(local[c].ou, c)

UserRowRead(c) ==
    LET u == arg[c].user IN
    /\ pc[c] \in {"validate", "unique", "updateUser"}
    /\ arg[c].op = "updateUserAttributes"
    => /\ u \in Calls => Ended(u)
       /\ u \in PresentUsers =>
             users[u].ou = local[c].ou \/ \E d \in Calls : Overlap(c, d) /\ UpdatesUser(d, u)

GroupRowRead(c) ==
    LET g == arg[c].group IN
    /\ pc[c] \in {"groupOU", "userIDs", "groupIDs", "groupName", "updateGroup"}
    /\ arg[c].op = "updateGroup"
    => /\ g \in Calls => Ended(g)
       /\ g \in PresentGroups =>
             \/ local[c].row = [name |-> groups[g].name, ou |-> groups[g].ou]
             \/ \E d \in Calls : Overlap(c, d) /\ UpdatesGroup(d, g)

GroupOUChecked(c) ==
    /\ pc[c] \in {"userIDs", "groupIDs", "groupName", "insertGroup", "updateGroup"}
    /\ arg[c].op \in {"updateGroup"} \cup CreatesGroup
    => \/ ThereOrGoneSince(local[c].ou, c)
       \/ arg[c].op = "updateGroup" /\ local[c].row.ou = local[c].ou

GroupNameChecked(c) ==
    pc[c] \in {"insertGroup", "updateGroup"} /\ ~SameGroupName(c)
    => \A h \in PresentGroups :
          /\ pc[c] = "updateGroup" => h # arg[c].group
          /\ groups[h].ou = local[c].ou /\ groups[h].name = arg[c].name
          => Since(<<"group", h, "name">>, c)

\* p is there, or was there when c began.
Known(p, c) ==
    \/ p[2] \in (IF p[1] = "user" THEN PresentUsers ELSE PresentGroups)
    \/ stamp[<<p[1], p[2], "removed">>] \notin before[c]

PrincipalsChecked(c) ==
    arg[c] # None /\ arg[c].op \in {"updateGroup", "createRole", "addAssignments"} \cup CreatesGroup
    => /\ pc[c] \in {"groupIDs", "groupName", "insertGroup", "updateGroup", "roleOU", "roleName",
                     "insertRole", "addAssignments"}
          => \A p \in Named(c) : p[1] = "user" => Known(p, c)
       /\ pc[c] \in {"groupName", "insertGroup", "updateGroup", "roleOU", "roleName",
                     "insertRole", "addAssignments"}
          => \A p \in Named(c) : p[1] = "group" => Known(p, c)

RoleOUChecked(c) ==
    pc[c] \in {"roleName", "insertRole", "updateRole"}
    => local[c].ou \in PresentOUs \/ stamp[<<"ou", local[c].ou, "removed">>] \notin before[c]

TypeChecked(c) ==
    pc[c] \in {"unique", "insertUser", "updateUser"}
    => UserType(c) \in SchemaNames \/ stamp[<<"schema", UserType(c), "removed">>] \notin before[c]

AssignmentsCounted(c) ==
    pc[c] = "deleteRole" /\ arg[c].role \in PresentRoles
    => \A p \in roles[arg[c].role].assigned : Since(<<"assigned", arg[c].role, p>>, c)

\* The credential that c set for u was set again, or an overlapping call set
\* credentials of u.
Reset(c, u) ==
    \E d \in Calls \ {c} :
        /\ SetsCredential(d, u)
        /\ \/ c \in before[d] /\ arg[d].cred = arg[c].cred
           \/ Overlap(c, d)

CredentialsRead(c) ==
    pc[c] = "updateCredentials"
    => \A e \in Calls \ {c} :
          pc[e] = "ok" /\ SetsCredential(e, arg[c].user)
          => local[c].row[arg[e].cred] = e \/ Reset(e, arg[c].user) \/ Overlap(e, c)

CredentialHolder(c) ==
    pc[c] = "ok" /\ arg[c].op = "updateUserCredentials" /\ arg[c].user \in Calls
    => Ended(arg[c].user)

NoChange(c) ==
    \A d \in Calls \ before[c] : pc[d] = "idle" \/ arg[d].op \notin HierarchyChanges

HierarchyRead(c) ==
    NoChange(c) =>
    /\ /\ pc[c] \in {"schema", "isParent", "validate", "unique", "insertUser", "updateUser"}
       /\ arg[c].op # "updateUserAttributes"
       => local[c].ou \in PresentOUs
    /\ pc[c] = "isParent" =>
       /\ \E s \in PresentSchemas : schemas[s].name = arg[c].type /\ schemas[s].ou = local[c].row
       /\ \A S \in SUBSET OUs :
             /\ local[c].row \in S
             /\ \A q \in PresentOUs : ous[q].parent \in S => q \in S
             /\ local[c].walk \in S
             => local[c].ou \in S
    /\ /\ pc[c] \in {"validate", "unique", "insertUser", "updateUser"}
       /\ arg[c].op # "updateUserAttributes"
       => \E s \in PresentSchemas :
             schemas[s].name = arg[c].type /\ local[c].ou \in Subtree(schemas[s].ou)

Rules(c) ==
    /\ AttrChecked(c) /\ OURowRead(c) /\ OUNameChecked(c) /\ OUHandleChecked(c) /\ CycleChecked(c)
    /\ ChildrenCounted(c) /\ UserOUChecked(c) /\ UserRowRead(c) /\ GroupRowRead(c)
    /\ GroupOUChecked(c) /\ GroupNameChecked(c) /\ PrincipalsChecked(c) /\ RoleOUChecked(c)
    /\ TypeChecked(c) /\ AssignmentsCounted(c) /\ CredentialsRead(c) /\ CredentialHolder(c)
    /\ HierarchyRead(c)

-----------------------------------------------------------------------------
(* The steps of a call: it starts, it looks at the tables, or it writes.   *)

Acts(c) ==
    \/ /\ pc[c] = "idle"
       /\ \E r \in Requests : BeginOU(c, r) \/ BeginUser(c, r) \/ BeginMembership(c, r)
    \/ StepOU(c) \/ StepUser(c) \/ StepMembership(c) \/ Fails(c)

\* Only c goes on.
Alone(c) ==
    /\ DOMAIN pc' = Calls /\ DOMAIN local' = Calls
    /\ \A d \in Calls \ {c} : pc'[d] = pc[d] /\ local'[d] = local[d]

Starts(c) ==
    /\ Alone(c) /\ pc[c] = "idle" /\ pc'[c] \in Steps
    /\ \E r \in Requests : arg' = [arg EXCEPT ![c] = r]
    /\ before' = [before EXCEPT ![c] = {d \in Calls : Ended(d)}]
    /\ UNCHANGED <<tables, stamp>>

Looks(c) ==
    /\ Alone(c) /\ pc[c] \in Steps /\ pc'[c] \in Steps \cup Answers
    /\ UNCHANGED <<tables, arg, before, stamp>>

\* Organization units.
OUFields == {"parent", "name", "handle"}

OUFieldsSame ==
    \A o \in OUs : \A f \in OUFields : stamp'[<<"ou", o, f>>] = stamp[<<"ou", o, f>>]
OURemovalsSame ==
    \A o \in OUs : stamp'[<<"ou", o, "removed">>] = stamp[<<"ou", o, "removed">>]
OUsSame == ous' = ous /\ OUFieldsSame /\ OURemovalsSame

OUInserted(c) ==
    /\ pc[c] = "insertOU" /\ ParentKey(c)
    /\ ous' = [ous EXCEPT ![c] = NewOU(c)]
    /\ \A o \in OUs : \A f \in OUFields :
          stamp'[<<"ou", o, f>>] = IF o = c THEN c ELSE stamp[<<"ou", o, f>>]
    /\ OURemovalsSame

OUWritten(c) ==
    LET o == local[c].ou IN
    /\ pc[c] = "updateOU" /\ o \in PresentOUs /\ ParentKey(c)
    /\ ous' = [ous EXCEPT ![o] = NewOU(c)]
    /\ \A q \in OUs : \A f \in OUFields :
          stamp'[<<"ou", q, f>>] =
              IF q = o /\ (ous[o].parent # arg[c].parent \/ ous[o][f] # arg[c][f])
              THEN c ELSE stamp[<<"ou", q, f>>]
    /\ OURemovalsSame

OURemoved(c) ==
    /\ pc[c] = "deleteOU"
    /\ ous' = [o \in OUs |-> IF o \in Subtree(local[c].ou) THEN None ELSE ous[o]]
    /\ OUFieldsSame
    /\ \A o \in OUs :
          stamp'[<<"ou", o, "removed">>] =
              IF o \in Subtree(local[c].ou) THEN c ELSE stamp[<<"ou", o, "removed">>]

OUsChange(c) == OUInserted(c) \/ OUWritten(c) \/ OURemoved(c)

\* User schemas.
SchemaFactsSame ==
    \A t \in Types : stamp'[<<"schema", t, "removed">>] = stamp[<<"schema", t, "removed">>]
SchemasSame == schemas' = schemas /\ SchemaFactsSame

SchemaWritten(c) ==
    \E s \in Schemas :
        /\ pc[c] \in {"insertSchema", "updateSchema"}
        /\ schemas' = [schemas EXCEPT ![s] = [name |-> arg[c].name, ou |-> arg[c].ou]]
        /\ \A t \in Types :
              stamp'[<<"schema", t, "removed">>] =
                  IF s \in PresentSchemas /\ t = schemas[s].name /\ t # arg[c].name
                  THEN c ELSE stamp[<<"schema", t, "removed">>]

SchemaRemoved(c) ==
    LET s == arg[c].schema IN
    /\ pc[c] = "deleteSchema"
    /\ schemas' = [schemas EXCEPT ![s] = None]
    /\ \A t \in Types :
          stamp'[<<"schema", t, "removed">>] =
              IF s \in PresentSchemas /\ t = schemas[s].name
              THEN c ELSE stamp[<<"schema", t, "removed">>]

SchemasChange(c) == SchemaWritten(c) \/ SchemaRemoved(c)

\* Users.
UserFields == {"type", "ou", "attr"}

UserFieldsSame ==
    \A u \in Users : \A f \in UserFields : stamp'[<<"user", u, f>>] = stamp[<<"user", u, f>>]
UserRemovalsSame ==
    \A u \in Users : stamp'[<<"user", u, "removed">>] = stamp[<<"user", u, "removed">>]
UsersSame == users' = users /\ UserFieldsSame /\ UserRemovalsSame

UserInserted(c) ==
    /\ pc[c] = "insertUser"
    /\ users' = [users EXCEPT ![c] =
                    NewUser(c, [t \in CredTypes |-> IF t \in arg[c].creds THEN c ELSE None])]
    /\ \A u \in Users : \A f \in UserFields :
          stamp'[<<"user", u, f>>] = IF u = c THEN c ELSE stamp[<<"user", u, f>>]
    /\ UserRemovalsSame

UserWritten(c) ==
    LET u == arg[c].user IN
    /\ pc[c] = "updateUser" /\ u \in PresentUsers
    /\ users' = [users EXCEPT ![u] = NewUser(c, users[u].creds)]
    /\ \A v \in Users : \A f \in UserFields :
          stamp'[<<"user", v, f>>] =
              IF v = u /\ users[u][f] # NewUser(c, None)[f] THEN c ELSE stamp[<<"user", v, f>>]
    /\ UserRemovalsSame

CredentialsWritten(c) ==
    LET u == arg[c].user IN
    /\ pc[c] = "updateCredentials" /\ u \in PresentUsers
    /\ users' = [users EXCEPT ![u].creds = MergedCredentials(c)]
    /\ UserFieldsSame /\ UserRemovalsSame

UserRemoved(c) ==
    LET u == arg[c].user IN
    /\ pc[c] = "deleteUser"
    /\ users' = [users EXCEPT ![u] = None]
    /\ UserFieldsSame
    /\ \A v \in Users :
          stamp'[<<"user", v, "removed">>] =
              IF v = u /\ u \in PresentUsers THEN c ELSE stamp[<<"user", v, "removed">>]

UsersChange(c) ==
    UserInserted(c) \/ UserWritten(c) \/ CredentialsWritten(c) \/ UserRemoved(c)

\* Groups.
GroupFields == {"ou", "name"}

GroupFieldsSame ==
    \A g \in Groups : \A f \in GroupFields \cup {"members"} :
        stamp'[<<"group", g, f>>] = stamp[<<"group", g, f>>]
GroupRemovalsSame ==
    \A g \in Groups : stamp'[<<"group", g, "removed">>] = stamp[<<"group", g, "removed">>]
GroupsSame == groups' = groups /\ GroupFieldsSame /\ GroupRemovalsSame

GroupInserted(c) ==
    /\ pc[c] = "insertGroup"
    /\ groups' = [groups EXCEPT ![c] = NewGroup(c)]
    /\ \A g \in Groups : \A f \in GroupFields \cup {"members"} :
          stamp'[<<"group", g, f>>] = IF g = c THEN c ELSE stamp[<<"group", g, f>>]
    /\ GroupRemovalsSame

GroupWritten(c) ==
    LET g == arg[c].group IN
    /\ pc[c] = "updateGroup" /\ g \in PresentGroups
    /\ groups' = [groups EXCEPT ![g] = NewGroup(c)]
    /\ \A h \in Groups : \A f \in GroupFields :
          stamp'[<<"group", h, f>>] =
              IF h = g /\ (groups[g].ou # local[c].ou \/ groups[g][f] # NewGroup(c)[f])
              THEN c ELSE stamp[<<"group", h, f>>]
    /\ \A h \in Groups :
          stamp'[<<"group", h, "members">>] = IF h = g THEN c ELSE stamp[<<"group", h, "members">>]
    /\ GroupRemovalsSame

GroupRemoved(c) ==
    LET g == arg[c].group IN
    /\ pc[c] = "deleteGroup"
    /\ groups' = [groups EXCEPT ![g] = None]
    /\ GroupFieldsSame
    /\ \A h \in Groups :
          stamp'[<<"group", h, "removed">>] =
              IF h = g /\ g \in PresentGroups THEN c ELSE stamp[<<"group", h, "removed">>]

GroupsChange(c) == GroupInserted(c) \/ GroupWritten(c) \/ GroupRemoved(c)

\* Roles.
RoleFactsSame == \A r \in Roles : stamp'[<<"role", r, "ou">>] = stamp[<<"role", r, "ou">>]
AssignmentsSame ==
    \A r \in Roles : \A p \in Principals :
        stamp'[<<"assigned", r, p>>] = stamp[<<"assigned", r, p>>]
RolesSame == roles' = roles /\ RoleFactsSame /\ AssignmentsSame

RoleInserted(c) ==
    /\ pc[c] = "insertRole"
    /\ roles' = [roles EXCEPT ![c] = [name |-> arg[c].name, ou |-> arg[c].ou,
                                      assigned |-> arg[c].assigned]]
    /\ \A r \in Roles :
          stamp'[<<"role", r, "ou">>] = IF r = c THEN c ELSE stamp[<<"role", r, "ou">>]
    /\ \A r \in Roles : \A p \in Principals :
          stamp'[<<"assigned", r, p>>] =
              IF r = c /\ p \in arg[c].assigned THEN c ELSE stamp[<<"assigned", r, p>>]

RoleWritten(c) ==
    /\ pc[c] = "updateRole" /\ arg[c].role \in PresentRoles
    /\ roles' = [roles EXCEPT ![arg[c].role].name = arg[c].name, ![arg[c].role].ou = arg[c].ou]
    /\ \A r \in Roles :
          stamp'[<<"role", r, "ou">>] = IF r = arg[c].role THEN c ELSE stamp[<<"role", r, "ou">>]
    /\ AssignmentsSame

RoleRemoved(c) ==
    /\ pc[c] = "deleteRole"
    /\ roles' = [roles EXCEPT ![arg[c].role] = None]
    /\ RoleFactsSame /\ AssignmentsSame

AssignmentsAdded(c) ==
    LET r == arg[c].role IN
    /\ pc[c] = "addAssignments" /\ r \in PresentRoles
    /\ roles' = [roles EXCEPT ![r].assigned = @ \cup arg[c].assigned]
    /\ RoleFactsSame
    /\ \A q \in Roles : \A p \in Principals :
          stamp'[<<"assigned", q, p>>] =
              IF q = r /\ p \in arg[c].assigned THEN c ELSE stamp[<<"assigned", q, p>>]

AssignmentsTaken(c) ==
    LET r == arg[c].role IN
    /\ pc[c] = "removeAssignments"
    /\ roles' = IF r \in PresentRoles
                THEN [roles EXCEPT ![r].assigned = @ \ arg[c].assigned] ELSE roles
    /\ RoleFactsSame /\ AssignmentsSame

RolesChange(c) ==
    \/ RoleInserted(c) \/ RoleWritten(c) \/ RoleRemoved(c)
    \/ AssignmentsAdded(c) \/ AssignmentsTaken(c)

\* The write ends the call and signs what it changes.
Signs(c) ==
    /\ Alone(c) /\ pc[c] \in Steps /\ pc'[c] \in {"ok", "failed"}
    /\ UNCHANGED <<arg, before>>
    /\ stamp' \in [Facts -> Calls \cup {None}] /\ \A f \in Facts : stamp'[f] \in {c, stamp[f]}

Writes(c) ==
    /\ Signs(c)
    /\ \/ OUsChange(c) /\ SchemasSame /\ UsersSame /\ GroupsSame /\ RolesSame
       \/ OUsSame /\ SchemasChange(c) /\ UsersSame /\ GroupsSame /\ RolesSame
       \/ OUsSame /\ SchemasSame /\ UsersChange(c) /\ GroupsSame /\ RolesSame
       \/ OUsSame /\ SchemasSame /\ UsersSame /\ GroupsChange(c) /\ RolesSame
       \/ OUsSame /\ SchemasSame /\ UsersSame /\ GroupsSame /\ RolesChange(c)

-----------------------------------------------------------------------------
(* Every action is of one of these kinds.                                  *)

\* The facts of the tables are facts (DirectoryDB.Facts).
LEMMA FactsAre ==
    /\ \A o \in OUs : \A f \in OUFields \cup {"removed"} : <<"ou", o, f>> \in Facts
    /\ \A u \in Users : \A f \in UserFields \cup {"removed"} : <<"user", u, f>> \in Facts
    /\ \A g \in Groups : \A f \in GroupFields \cup {"members", "removed"} : <<"group", g, f>> \in Facts
    /\ \A t \in Types : <<"schema", t, "removed">> \in Facts
    /\ \A r \in Roles : <<"role", r, "ou">> \in Facts
    /\ \A r \in Roles : \A p \in Principals : <<"assigned", r, p>> \in Facts
BY SMT DEF Facts, OUFields, UserFields, GroupFields

\* What is written to one table signs nothing of another.
LEMMA OthersSame ==
    ASSUME NEW facts, NEW tags, \A f \in facts : f[1] \in tags,
           \A f \in Facts : f \notin facts => stamp'[f] = stamp[f]
    PROVE  /\ "ou" \notin tags => OUFieldsSame /\ OURemovalsSame
           /\ "user" \notin tags => UserFieldsSame /\ UserRemovalsSame
           /\ "group" \notin tags => GroupFieldsSame /\ GroupRemovalsSame
           /\ "schema" \notin tags => SchemaFactsSame
           /\ "role" \notin tags => RoleFactsSame
           /\ "assigned" \notin tags => AssignmentsSame
<1>1. \A a, b, d : <<a, b, d>> \in Facts /\ a \notin tags => stamp'[<<a, b, d>>] = stamp[<<a, b, d>>]
  BY SMT
<1>. QED
  BY <1>1, FactsAre, SMT DEF OUFieldsSame, OURemovalsSame, UserFieldsSame, UserRemovalsSame,
     GroupFieldsSame, GroupRemovalsSame, SchemaFactsSame, RoleFactsSame, AssignmentsSame

\* A write (DirectoryDB.Written) ends the call and signs the facts it changes.
LEMMA WrittenSigns ==
    ASSUME Base, NEW c \in Calls, NEW facts, Written(c, facts), pc[c] \in Steps,
           NEW tags, \A f \in facts : f[1] \in tags
    PROVE  /\ Signs(c)
           /\ \A f \in Facts : stamp'[f] = IF f \in facts THEN c ELSE stamp[f]
           /\ "ou" \notin tags => OUFieldsSame /\ OURemovalsSame
           /\ "user" \notin tags => UserFieldsSame /\ UserRemovalsSame
           /\ "group" \notin tags => GroupFieldsSame /\ GroupRemovalsSame
           /\ "schema" \notin tags => SchemaFactsSame
           /\ "role" \notin tags => RoleFactsSame
           /\ "assigned" \notin tags => AssignmentsSame
<1>1. pc \in [Calls -> {"idle"} \cup Steps \cup Answers] /\ DOMAIN local = Calls
      /\ stamp \in [Facts -> Calls \cup {None}]
  BY DEF Base, TypeOK
<1>2. Alone(c) /\ pc'[c] \in {"ok", "failed"} /\ UNCHANGED <<arg, before>>
  BY <1>1, SMT DEF Written, Answer, Goto, Keep, Alone
<1>3. stamp' = [f \in Facts |-> IF f \in facts THEN c ELSE stamp[f]]
  BY DEF Written
<1>4. stamp' \in [Facts -> Calls \cup {None}]
  BY <1>1, <1>3, SMT
<1>5. \A f \in Facts : stamp'[f] = IF f \in facts THEN c ELSE stamp[f]
  BY <1>3, Zenon
<1>6. Signs(c)
  BY <1>2, <1>4, <1>5, Zenon DEF Signs
<1>7. \A f \in Facts : f \notin facts => stamp'[f] = stamp[f]
  BY <1>5
<1>. QED  BY <1>5, <1>6, <1>7, OthersSame

\* A write that does not come about only ends the call.
LEMMA NotWrittenLooks ==
    ASSUME Base, NEW c \in Calls, NEW a \in Answers, NotWritten(c, a), pc[c] \in Steps
    PROVE  Looks(c)
<1>1. DOMAIN pc = Calls /\ DOMAIN local = Calls
  BY DEF Base, TypeOK
<1>2. Alone(c) /\ pc'[c] = a
  BY <1>1, SMT DEF NotWritten, Answer, Goto, Keep, Alone
<1>. QED  BY <1>2 DEF NotWritten, Looks

\* The tables' other facts.
LEMMA RemovedIsNoField ==
    /\ "removed" \notin OUFields /\ "removed" \in OUFields \cup {"removed"}
    /\ "removed" \notin UserFields /\ "removed" \in UserFields \cup {"removed"}
    /\ "removed" \notin GroupFields /\ "members" \notin GroupFields
BY DEF OUFields, UserFields, GroupFields

\* The tables that a fact can be of.
OUTag == {"ou"}
UserTag == {"user"}
GroupTag == {"group"}
SchemaTag == {"schema"}
RoleTags == {"role", "assigned"}

\* No tag is that of another table.
LEMMA TagsApart ==
    /\ "ou" \notin UserTag /\ "ou" \notin GroupTag /\ "ou" \notin SchemaTag /\ "ou" \notin RoleTags
    /\ "user" \notin OUTag /\ "user" \notin GroupTag /\ "user" \notin SchemaTag
    /\ "user" \notin RoleTags
    /\ "group" \notin OUTag /\ "group" \notin UserTag /\ "group" \notin SchemaTag
    /\ "group" \notin RoleTags
    /\ "schema" \notin OUTag /\ "schema" \notin UserTag /\ "schema" \notin GroupTag
    /\ "schema" \notin RoleTags
    /\ "role" \notin OUTag /\ "role" \notin UserTag /\ "role" \notin GroupTag /\ "role" \notin SchemaTag
    /\ "assigned" \notin OUTag /\ "assigned" \notin UserTag /\ "assigned" \notin GroupTag
    /\ "assigned" \notin SchemaTag
BY DEF OUTag, UserTag, GroupTag, SchemaTag, RoleTags

\* The rows that are there are whole (part of TypeOK).
LEMMA RowsAre ==
    ASSUME TypeOK
    PROVE  /\ \A o \in PresentOUs : o \in OUs /\ ous[o] \in OURows /\ ous[o].parent \in OUs \cup {None}
           /\ \A u \in PresentUsers :
                 /\ u \in Users /\ users[u] \in UserRows
                 /\ users[u].type \in Types /\ users[u].ou \in OUs
                 /\ users[u].attr \in Attrs \cup {None}
                 /\ users[u].creds \in [CredTypes -> Calls \cup {None}]
           /\ \A g \in PresentGroups :
                 /\ g \in Groups /\ groups[g] \in GroupRows
                 /\ groups[g].name \in Names /\ groups[g].ou \in OUs
                 /\ groups[g].members \in SUBSET Principals
           /\ \A r \in PresentRoles :
                 /\ r \in Roles /\ roles[r] \in RoleRows
                 /\ roles[r].name \in Names /\ roles[r].ou \in OUs
                 /\ roles[r].assigned \in SUBSET Principals
           /\ \A s \in PresentSchemas :
                 /\ s \in Schemas /\ schemas[s] \in SchemaRows
                 /\ schemas[s].name \in Types /\ schemas[s].ou \in OUs
<1>1. /\ ous \in [OUs -> OURows \cup {None}]
      /\ users \in [Users -> UserRows \cup {None}]
      /\ groups \in [Groups -> GroupRows \cup {None}]
      /\ roles \in [Roles -> RoleRows \cup {None}]
      /\ schemas \in [Schemas -> SchemaRows \cup {None}]
  BY SMT DEF TypeOK, Tables
<1>2. ASSUME NEW o \in PresentOUs
      PROVE  o \in OUs /\ ous[o] \in OURows /\ ous[o].parent \in OUs \cup {None}
  BY <1>1, SMT DEF PresentOUs, OURows
<1>3. ASSUME NEW u \in PresentUsers
      PROVE  /\ u \in Users /\ users[u] \in UserRows
             /\ users[u].type \in Types /\ users[u].ou \in OUs
             /\ users[u].attr \in Attrs \cup {None}
             /\ users[u].creds \in [CredTypes -> Calls \cup {None}]
  BY <1>1, SMT DEF PresentUsers, UserRows
<1>4. ASSUME NEW g \in PresentGroups
      PROVE  /\ g \in Groups /\ groups[g] \in GroupRows
             /\ groups[g].name \in Names /\ groups[g].ou \in OUs
             /\ groups[g].members \in SUBSET Principals
  BY <1>1, SMT DEF PresentGroups, GroupRows
<1>5. ASSUME NEW r \in PresentRoles
      PROVE  /\ r \in Roles /\ roles[r] \in RoleRows
             /\ roles[r].name \in Names /\ roles[r].ou \in OUs
             /\ roles[r].assigned \in SUBSET Principals
  BY <1>1, SMT DEF PresentRoles, RoleRows
<1>6. ASSUME NEW s \in PresentSchemas
      PROVE  /\ s \in Schemas /\ schemas[s] \in SchemaRows
             /\ schemas[s].name \in Types /\ schemas[s].ou \in OUs
  BY <1>1, SMT DEF PresentSchemas, SchemaRows
<1>. QED  BY <1>2, <1>3, <1>4, <1>5, <1>6

\* What a change of a row signs (OUChanges, UserChanges, GroupChanges).
LEMMA ChangesAre ==
    /\ \A o, old, new :
          /\ \A f \in OUChanges(o, old, new) : f[1] \in OUTag
          /\ \A q, f : <<"ou", q, f>> \in OUChanges(o, old, new)
                      <=> /\ q = o /\ f \in OUFields
                          /\ old = None \/ old.parent # new.parent \/ old[f] # new[f]
    /\ \A u, old, new :
          /\ \A f \in UserChanges(u, old, new) : f[1] \in UserTag
          /\ \A v, f : <<"user", v, f>> \in UserChanges(u, old, new)
                      <=> /\ v = u /\ f \in UserFields
                          /\ old = None \/ old[f] # new[f]
    /\ \A g, old, new :
          /\ \A f \in GroupChanges(g, old, new) : f[1] \in GroupTag
          /\ \A h, f : <<"group", h, f>> \in GroupChanges(g, old, new)
                      <=> /\ h = g
                          /\ \/ f = "members"
                             \/ /\ f \in GroupFields
                                /\ old = None \/ old.ou # new.ou \/ old[f] # new[f]
<1>1. ASSUME NEW o, NEW old, NEW new
      PROVE  /\ \A f \in OUChanges(o, old, new) : f[1] \in OUTag
             /\ \A q, f : <<"ou", q, f>> \in OUChanges(o, old, new)
                         <=> /\ q = o /\ f \in OUFields
                             /\ old = None \/ old.parent # new.parent \/ old[f] # new[f]
  <2> DEFINE fs == {g \in {"parent", "name", "handle"} :
                       old = None \/ old.parent # new.parent \/ old[g] # new[g]}
  <2>1. OUChanges(o, old, new) = {<<"ou", o, f>> : f \in fs}
    BY DEF OUChanges
  <2>2. \A f : f \in fs <=> /\ f \in OUFields
                            /\ old = None \/ old.parent # new.parent \/ old[f] # new[f]
    BY DEF OUFields
  <2> HIDE DEF fs
  <2>3. \A q, f : <<"ou", q, f>> \in {<<"ou", o, h>> : h \in fs} <=> q = o /\ f \in fs
    BY SMT
  <2>. QED  BY <2>1, <2>2, <2>3, SMT DEF OUTag
<1>2. ASSUME NEW u, NEW old, NEW new
      PROVE  /\ \A f \in UserChanges(u, old, new) : f[1] \in UserTag
             /\ \A v, f : <<"user", v, f>> \in UserChanges(u, old, new)
                         <=> /\ v = u /\ f \in UserFields
                             /\ old = None \/ old[f] # new[f]
  <2> DEFINE fs == {g \in {"type", "ou", "attr"} : old = None \/ old[g] # new[g]}
  <2>1. UserChanges(u, old, new) = {<<"user", u, f>> : f \in fs}
    BY DEF UserChanges
  <2>2. \A f : f \in fs <=> f \in UserFields /\ (old = None \/ old[f] # new[f])
    BY DEF UserFields
  <2> HIDE DEF fs
  <2>3. \A v, f : <<"user", v, f>> \in {<<"user", u, h>> : h \in fs} <=> v = u /\ f \in fs
    BY SMT
  <2>. QED  BY <2>1, <2>2, <2>3, SMT DEF UserTag
<1>3. ASSUME NEW g, NEW old, NEW new
      PROVE  /\ \A f \in GroupChanges(g, old, new) : f[1] \in GroupTag
             /\ \A h, f : <<"group", h, f>> \in GroupChanges(g, old, new)
                         <=> /\ h = g
                             /\ \/ f = "members"
                                \/ /\ f \in GroupFields
                                   /\ old = None \/ old.ou # new.ou \/ old[f] # new[f]
  <2> DEFINE fs == {h \in {"ou", "name"} : old = None \/ old.ou # new.ou \/ old[h] # new[h]}
  <2>1. GroupChanges(g, old, new) = {<<"group", g, "members">>} \cup {<<"group", g, f>> : f \in fs}
    BY DEF GroupChanges
  <2>2. \A f : f \in fs <=> f \in GroupFields /\ (old = None \/ old.ou # new.ou \/ old[f] # new[f])
    BY DEF GroupFields
  <2> HIDE DEF fs
  <2>3. \A h, f : <<"group", h, f>> \in {<<"group", g, x>> : x \in fs} <=> h = g /\ f \in fs
    BY SMT
  <2>. QED  BY <2>1, <2>2, <2>3, SMT DEF GroupTag
<1>. QED  BY <1>1, <1>2, <1>3, Zenon

\* OrgUnits.InsertOU.
LEMMA InsertOUIs ==
    ASSUME Base, NEW c \in Calls, InsertOU(c)
    PROVE  Looks(c) \/ Writes(c)
<1>0. pc[c] = "insertOU" /\ pc[c] \in Steps
  BY DEF InsertOU, Steps
<1>1. CASE ~ParentKey(c)
  BY <1>0, <1>1, NotWrittenLooks DEF InsertOU, Answers
<1>2. CASE /\ ParentKey(c)
           /\ ous' = [ous EXCEPT ![c] = NewOU(c)]
           /\ Written(c, OUChanges(c, None, NewOU(c)))
           /\ UNCHANGED <<users, groups, roles, schemas>>
  <2> DEFINE facts == OUChanges(c, None, NewOU(c))
  <2>1. ASSUME NEW o \in OUs, NEW f \in OUFields \cup {"removed"}
        PROVE  <<"ou", o, f>> \in facts <=> o = c /\ f \in OUFields
    BY ChangesAre, SMT
  <2>2. \A f \in facts : f[1] \in OUTag
    BY ChangesAre, SMT
  <2> HIDE DEF facts
  <2>3. /\ Signs(c) /\ SchemaFactsSame /\ UserFieldsSame /\ UserRemovalsSame
        /\ GroupFieldsSame /\ GroupRemovalsSame /\ RoleFactsSame /\ AssignmentsSame
        /\ \A f \in Facts : stamp'[f] = IF f \in facts THEN c ELSE stamp[f]
    <3>1. Written(c, facts)
      BY <1>2 DEF facts
    <3>. QED  BY <1>0, <2>2, <3>1, WrittenSigns, TagsApart
  <2>4. OUInserted(c)
    <3>1. ASSUME NEW o \in OUs, NEW f \in OUFields \cup {"removed"}
          PROVE  stamp'[<<"ou", o, f>>] =
                    IF o = c /\ f \in OUFields THEN c ELSE stamp[<<"ou", o, f>>]
      <4>1. <<"ou", o, f>> \in Facts
        BY FactsAre, Zenon
      <4>. QED  BY <2>1, <2>3, <4>1, Zenon
    <3>2. OURemovalsSame
      BY <3>1, RemovedIsNoField, Zenon DEF OURemovalsSame
    <3>. QED  BY <1>0, <1>2, <3>1, <3>2, SMT DEF OUInserted
  <2>. QED
    <3>1. SchemasSame /\ UsersSame /\ GroupsSame /\ RolesSame
      BY <1>2, <2>3 DEF SchemasSame, UsersSame, GroupsSame, RolesSame
    <3>. QED  BY <2>3, <2>4, <3>1 DEF Writes, OUsChange
<1>. QED  BY <1>1, <1>2 DEF InsertOU

\* OrgUnits.WriteOU.
LEMMA WriteOUIs ==
    ASSUME Base, NEW c \in Calls, WriteOU(c)
    PROVE  Looks(c) \/ Writes(c)
<1>0. pc[c] = "updateOU" /\ pc[c] \in Steps
  BY DEF WriteOU, Steps
<1>1. CASE ~(local[c].ou \in PresentOUs /\ ParentKey(c))
  BY <1>0, <1>1, NotWrittenLooks DEF WriteOU, Answers
<1>2. CASE /\ local[c].ou \in PresentOUs /\ ParentKey(c)
           /\ ous' = [ous EXCEPT ![local[c].ou] = NewOU(c)]
           /\ Written(c, OUChanges(local[c].ou, ous[local[c].ou], NewOU(c)))
           /\ UNCHANGED <<users, groups, roles, schemas>>
  <2> DEFINE facts == OUChanges(local[c].ou, ous[local[c].ou], NewOU(c))
  <2>0. ous[local[c].ou] # None
    BY <1>2 DEF PresentOUs
  <2>1. ASSUME NEW o \in OUs, NEW f \in OUFields \cup {"removed"}
        PROVE  <<"ou", o, f>> \in facts
               <=> /\ o = local[c].ou /\ f \in OUFields
                   /\ \/ ous[local[c].ou].parent # NewOU(c).parent
                      \/ ous[local[c].ou][f] # NewOU(c)[f]
    BY <2>0, ChangesAre, SMT
  <2>2. \A f \in facts : f[1] \in OUTag
    BY ChangesAre, SMT
  <2> HIDE DEF facts
  <2>3. /\ Signs(c) /\ SchemaFactsSame /\ UserFieldsSame /\ UserRemovalsSame /\ GroupFieldsSame
        /\ GroupRemovalsSame /\ RoleFactsSame /\ AssignmentsSame
        /\ \A f \in Facts : stamp'[f] = IF f \in facts THEN c ELSE stamp[f]
    <3>1. Written(c, facts)
      BY <1>2 DEF facts
    <3>. QED  BY <1>0, <2>2, <3>1, WrittenSigns, TagsApart
  <2>4. OUWritten(c)
    <3>1. ASSUME NEW o \in OUs, NEW f \in OUFields
          PROVE  stamp'[<<"ou", o, f>>] =
                    IF o = local[c].ou /\ (\/ ous[local[c].ou].parent # arg[c].parent
                                          \/ ous[local[c].ou][f] # arg[c][f])
                    THEN c ELSE stamp[<<"ou", o, f>>]
      <4>1. <<"ou", o, f>> \in Facts
        BY FactsAre, SMT
      <4>2. NewOU(c).parent = arg[c].parent /\ NewOU(c)[f] = arg[c][f]
        BY SMT DEF NewOU, OUFields
      <4>. QED  BY <2>1, <2>3, <4>1, <4>2, SMT
    <3>2. OURemovalsSame
      BY <2>1, <2>3, FactsAre, RemovedIsNoField, SMT DEF OURemovalsSame
    <3>. QED  BY <1>0, <1>2, <3>1, <3>2, SMT DEF OUWritten
  <2>. QED
    <3>1. SchemasSame /\ UsersSame /\ GroupsSame /\ RolesSame
      BY <1>2, <2>3 DEF SchemasSame, UsersSame, GroupsSame, RolesSame
    <3>. QED  BY <2>3, <2>4, <3>1 DEF Writes, OUsChange
<1>. QED  BY <1>1, <1>2 DEF WriteOU

\* OrgUnits.RemoveOU.
LEMMA RemoveOUIs ==
    ASSUME Base, NEW c \in Calls, RemoveOU(c)
    PROVE  Looks(c) \/ Writes(c)
<1>0. pc[c] = "deleteOU" /\ pc[c] \in Steps
  BY DEF RemoveOU, Steps
<1>2. CASE /\ ous' = [o \in OUs |-> IF o \in Subtree(local[c].ou) THEN None ELSE ous[o]]
           /\ Written(c, {<<"ou", o, "removed">> : o \in Subtree(local[c].ou)})
           /\ UNCHANGED <<users, groups, roles, schemas>>
  <2> DEFINE facts == {<<"ou", o, "removed">> : o \in Subtree(local[c].ou)}
  <2>1. ASSUME NEW o \in OUs, NEW f \in OUFields \cup {"removed"}
        PROVE  <<"ou", o, f>> \in facts <=> o \in Subtree(local[c].ou) /\ f = "removed"
    BY SMT
  <2>2. \A f \in facts : f[1] \in OUTag
    BY SMT DEF OUTag
  <2> HIDE DEF facts
  <2>3. /\ Signs(c) /\ SchemaFactsSame /\ UserFieldsSame /\ UserRemovalsSame /\ GroupFieldsSame
        /\ GroupRemovalsSame /\ RoleFactsSame /\ AssignmentsSame
        /\ \A f \in Facts : stamp'[f] = IF f \in facts THEN c ELSE stamp[f]
    <3>1. Written(c, facts)
      BY <1>2 DEF facts
    <3>. QED  BY <1>0, <2>2, <3>1, WrittenSigns, TagsApart
  <2>4. OURemoved(c)
    <3>1. ASSUME NEW o \in OUs, NEW f \in OUFields
          PROVE  stamp'[<<"ou", o, f>>] = stamp[<<"ou", o, f>>]
      BY <2>1, <2>3, FactsAre, RemovedIsNoField, SMT
    <3>2. ASSUME NEW o \in OUs
          PROVE  stamp'[<<"ou", o, "removed">>] =
                    IF o \in Subtree(local[c].ou) THEN c ELSE stamp[<<"ou", o, "removed">>]
      BY <2>1, <2>3, FactsAre, RemovedIsNoField, SMT
    <3>. QED  BY <1>0, <1>2, <3>1, <3>2 DEF OURemoved, OUFieldsSame
  <2>. QED
    <3>1. SchemasSame /\ UsersSame /\ GroupsSame /\ RolesSame
      BY <1>2, <2>3 DEF SchemasSame, UsersSame, GroupsSame, RolesSame
    <3>. QED  BY <2>3, <2>4, <3>1 DEF Writes, OUsChange
<1>. QED  BY <1>2 DEF RemoveOU

\* UserStore.RemoveSchema.
LEMMA RemoveSchemaIs ==
    ASSUME Base, NEW c \in Calls, RemoveSchema(c)
    PROVE  Looks(c) \/ Writes(c)
<1>1. pc[c] = "deleteSchema" /\ pc[c] \in Steps
  BY DEF RemoveSchema, Steps
<1>2. CASE /\ schemas' = [schemas EXCEPT ![arg[c].schema] = None]
           /\ Written(c, {<<"schema", schemas[t].name, "removed">> : t \in PresentSchemas \cap {arg[c].schema}})
           /\ UNCHANGED <<ous, users, groups, roles>>
  <2> DEFINE facts == {<<"schema", schemas[t].name, "removed">> : t \in PresentSchemas \cap {arg[c].schema}}
  <2>1. ASSUME NEW t \in Types
        PROVE  <<"schema", t, "removed">> \in facts
               <=> arg[c].schema \in PresentSchemas /\ t = schemas[arg[c].schema].name
    BY SMT
  <2>2. \A f \in facts : f[1] \in SchemaTag
    BY SMT DEF SchemaTag
  <2> HIDE DEF facts
  <2>3. /\ Signs(c) /\ UserFieldsSame /\ UserRemovalsSame /\ GroupFieldsSame /\ GroupRemovalsSame
        /\ RoleFactsSame /\ AssignmentsSame /\ OUFieldsSame /\ OURemovalsSame
        /\ \A f \in Facts : stamp'[f] = IF f \in facts THEN c ELSE stamp[f]
    <3>1. Written(c, facts)
      BY <1>2 DEF facts
    <3>. QED  BY <1>1, <2>2, <3>1, WrittenSigns, TagsApart
  <2>4. SchemaRemoved(c)
    <3>1. ASSUME NEW t \in Types
          PROVE  stamp'[<<"schema", t, "removed">>] =
                    IF arg[c].schema \in PresentSchemas /\ t = schemas[arg[c].schema].name
                    THEN c ELSE stamp[<<"schema", t, "removed">>]
      BY <2>1, <2>3, FactsAre, SMT
    <3>. QED  BY <1>1, <1>2, <3>1 DEF SchemaRemoved
  <2>. QED
    <3>1. OUsSame /\ UsersSame /\ GroupsSame /\ RolesSame
      BY <1>2, <2>3 DEF OUsSame, UsersSame, GroupsSame, RolesSame
    <3>. QED  BY <2>3, <2>4, <3>1 DEF Writes, SchemasChange
<1>. QED  BY <1>2 DEF RemoveSchema

\* UserStore.InsertUser.
LEMMA InsertUserIs ==
    ASSUME Base, NEW c \in Calls, InsertUser(c)
    PROVE  Looks(c) \/ Writes(c)
<1>1. pc[c] = "insertUser" /\ pc[c] \in Steps
  BY DEF InsertUser, Steps
<1>2. CASE /\ users' = [users EXCEPT ![c] =
                           NewUser(c, [t \in CredTypes |-> IF t \in arg[c].creds THEN c ELSE None])]
           /\ Written(c, UserChanges(c, None, NewUser(c, None)))
           /\ UNCHANGED <<ous, groups, roles, schemas>>
  <2> DEFINE facts == UserChanges(c, None, NewUser(c, None))
  <2>1. ASSUME NEW u \in Users, NEW f \in UserFields \cup {"removed"}
        PROVE  <<"user", u, f>> \in facts <=> u = c /\ f \in UserFields
    BY ChangesAre, SMT
  <2>2. \A f \in facts : f[1] \in UserTag
    BY ChangesAre, SMT
  <2> HIDE DEF facts
  <2>3. /\ Signs(c) /\ SchemaFactsSame /\ GroupFieldsSame /\ GroupRemovalsSame /\ RoleFactsSame
        /\ AssignmentsSame /\ OUFieldsSame /\ OURemovalsSame
        /\ \A f \in Facts : stamp'[f] = IF f \in facts THEN c ELSE stamp[f]
    <3>1. Written(c, facts)
      BY <1>2 DEF facts
    <3>. QED  BY <1>1, <2>2, <3>1, WrittenSigns, TagsApart
  <2>4. UserInserted(c)
    <3>1. ASSUME NEW u \in Users, NEW f \in UserFields
          PROVE  stamp'[<<"user", u, f>>] = IF u = c THEN c ELSE stamp[<<"user", u, f>>]
      BY <2>1, <2>3, FactsAre, SMT
    <3>2. UserRemovalsSame
      BY <2>1, <2>3, FactsAre, RemovedIsNoField, SMT DEF UserRemovalsSame
    <3>. QED  BY <1>1, <1>2, <3>1, <3>2 DEF UserInserted
  <2>. QED
    <3>1. OUsSame /\ SchemasSame /\ GroupsSame /\ RolesSame
      BY <1>2, <2>3 DEF OUsSame, SchemasSame, GroupsSame, RolesSame
    <3>. QED  BY <2>3, <2>4, <3>1 DEF Writes, UsersChange
<1>. QED  BY <1>2 DEF InsertUser

\* UserStore.WriteUser.
LEMMA WriteUserIs ==
    ASSUME Base, NEW c \in Calls, WriteUser(c)
    PROVE  Looks(c) \/ Writes(c)
<1>1. pc[c] = "updateUser" /\ pc[c] \in Steps
  BY DEF WriteUser, Steps
<1>2. CASE arg[c].user \notin PresentUsers
  BY <1>1, <1>2, NotWrittenLooks DEF WriteUser, Answers
<1>3. CASE /\ arg[c].user \in PresentUsers
           /\ users' = [users EXCEPT ![arg[c].user] = NewUser(c, @.creds)]
           /\ Written(c, UserChanges(arg[c].user, users[arg[c].user], NewUser(c, None)))
           /\ UNCHANGED <<ous, groups, roles, schemas>>
  <2> DEFINE facts == UserChanges(arg[c].user, users[arg[c].user], NewUser(c, None))
  <2>0. users[arg[c].user] # None
    BY <1>3 DEF PresentUsers
  <2>1. ASSUME NEW u \in Users, NEW f \in UserFields \cup {"removed"}
        PROVE  <<"user", u, f>> \in facts
               <=> /\ u = arg[c].user /\ f \in UserFields
                   /\ users[arg[c].user][f] # NewUser(c, None)[f]
    BY <2>0, ChangesAre, SMT
  <2>2. \A f \in facts : f[1] \in UserTag
    BY ChangesAre, SMT
  <2> HIDE DEF facts
  <2>3. /\ Signs(c) /\ SchemaFactsSame /\ GroupFieldsSame /\ GroupRemovalsSame /\ RoleFactsSame
        /\ AssignmentsSame /\ OUFieldsSame /\ OURemovalsSame
        /\ \A f \in Facts : stamp'[f] = IF f \in facts THEN c ELSE stamp[f]
    <3>1. Written(c, facts)
      BY <1>3 DEF facts
    <3>. QED  BY <1>1, <2>2, <3>1, WrittenSigns, TagsApart
  <2>4. UserWritten(c)
    <3>1. ASSUME NEW u \in Users, NEW f \in UserFields
          PROVE  stamp'[<<"user", u, f>>] =
                    IF u = arg[c].user /\ users[arg[c].user][f] # NewUser(c, None)[f]
                    THEN c ELSE stamp[<<"user", u, f>>]
      BY <2>1, <2>3, FactsAre, SMT
    <3>2. UserRemovalsSame
      BY <2>1, <2>3, FactsAre, RemovedIsNoField, SMT DEF UserRemovalsSame
    <3>. QED  BY <1>1, <1>3, <3>1, <3>2, SMT DEF UserWritten
  <2>. QED
    <3>1. OUsSame /\ SchemasSame /\ GroupsSame /\ RolesSame
      BY <1>3, <2>3 DEF OUsSame, SchemasSame, GroupsSame, RolesSame
    <3>. QED  BY <2>3, <2>4, <3>1 DEF Writes, UsersChange
<1>. QED  BY <1>2, <1>3 DEF WriteUser

\* UserStore.WriteCredentials.
LEMMA WriteCredentialsIs ==
    ASSUME Base, NEW c \in Calls, WriteCredentials(c)
    PROVE  Looks(c) \/ Writes(c)
<1>1. pc[c] = "updateCredentials" /\ pc[c] \in Steps
  BY DEF WriteCredentials, Steps
<1>2. CASE arg[c].user \notin PresentUsers
  BY <1>1, <1>2, NotWrittenLooks DEF WriteCredentials, Answers
<1>3. CASE /\ arg[c].user \in PresentUsers
           /\ users' = [users EXCEPT ![arg[c].user].creds = MergedCredentials(c)]
           /\ Written(c, {})
           /\ UNCHANGED <<ous, groups, roles, schemas>>
  <2> DEFINE facts == {}
  <2>2. \A f \in facts : f[1] \in UserTag
    OBVIOUS
  <2> HIDE DEF facts
  <2>3. /\ Signs(c) /\ SchemaFactsSame /\ GroupFieldsSame /\ GroupRemovalsSame /\ RoleFactsSame
        /\ AssignmentsSame /\ OUFieldsSame /\ OURemovalsSame
        /\ \A f \in Facts : stamp'[f] = IF f \in facts THEN c ELSE stamp[f]
    <3>1. Written(c, facts)
      BY <1>3 DEF facts
    <3>. QED  BY <1>1, <2>2, <3>1, WrittenSigns, TagsApart
  <2>4. CredentialsWritten(c)
    <3>1. \A f \in Facts : stamp'[f] = stamp[f]
      BY <2>3 DEF facts
    <3>2. UserFieldsSame /\ UserRemovalsSame
      BY <3>1, FactsAre, SMT DEF UserFieldsSame, UserRemovalsSame
    <3>. QED  BY <1>1, <1>3, <3>2 DEF CredentialsWritten
  <2>. QED
    <3>1. OUsSame /\ SchemasSame /\ GroupsSame /\ RolesSame
      BY <1>3, <2>3 DEF OUsSame, SchemasSame, GroupsSame, RolesSame
    <3>. QED  BY <2>3, <2>4, <3>1 DEF Writes, UsersChange
<1>. QED  BY <1>2, <1>3 DEF WriteCredentials

\* UserStore.RemoveUser.
LEMMA RemoveUserIs ==
    ASSUME Base, NEW c \in Calls, RemoveUser(c)
    PROVE  Looks(c) \/ Writes(c)
<1>1. pc[c] = "deleteUser" /\ pc[c] \in Steps
  BY DEF RemoveUser, Steps
<1>2. CASE /\ users' = [users EXCEPT ![arg[c].user] = None]
           /\ Written(c, {<<"user", v, "removed">> : v \in PresentUsers \cap {arg[c].user}})
           /\ UNCHANGED <<ous, groups, roles, schemas>>
  <2> DEFINE facts == {<<"user", v, "removed">> : v \in PresentUsers \cap {arg[c].user}}
  <2>1. ASSUME NEW u \in Users, NEW f \in UserFields \cup {"removed"}
        PROVE  <<"user", u, f>> \in facts
               <=> u = arg[c].user /\ u \in PresentUsers /\ f = "removed"
    BY SMT
  <2>2. \A f \in facts : f[1] \in UserTag
    BY SMT DEF UserTag
  <2> HIDE DEF facts
  <2>3. /\ Signs(c) /\ SchemaFactsSame /\ GroupFieldsSame /\ GroupRemovalsSame /\ RoleFactsSame
        /\ AssignmentsSame /\ OUFieldsSame /\ OURemovalsSame
        /\ \A f \in Facts : stamp'[f] = IF f \in facts THEN c ELSE stamp[f]
    <3>1. Written(c, facts)
      BY <1>2 DEF facts
    <3>. QED  BY <1>1, <2>2, <3>1, WrittenSigns, TagsApart
  <2>4. UserRemoved(c)
    <3>1. ASSUME NEW u \in Users, NEW f \in UserFields
          PROVE  stamp'[<<"user", u, f>>] = stamp[<<"user", u, f>>]
      BY <2>1, <2>3, FactsAre, RemovedIsNoField, SMT
    <3>2. ASSUME NEW v \in Users
          PROVE  stamp'[<<"user", v, "removed">>] =
                    IF v = arg[c].user /\ arg[c].user \in PresentUsers
                    THEN c ELSE stamp[<<"user", v, "removed">>]
      BY <2>1, <2>3, FactsAre, RemovedIsNoField, SMT
    <3>. QED  BY <1>1, <1>2, <3>1, <3>2 DEF UserRemoved, UserFieldsSame
  <2>. QED
    <3>1. OUsSame /\ SchemasSame /\ GroupsSame /\ RolesSame
      BY <1>2, <2>3 DEF OUsSame, SchemasSame, GroupsSame, RolesSame
    <3>. QED  BY <2>3, <2>4, <3>1 DEF Writes, UsersChange
<1>. QED  BY <1>2 DEF RemoveUser

\* Memberships.InsertGroup.
LEMMA InsertGroupIs ==
    ASSUME Base, NEW c \in Calls, InsertGroup(c)
    PROVE  Looks(c) \/ Writes(c)
<1>1. pc[c] = "insertGroup" /\ pc[c] \in Steps
  BY DEF InsertGroup, Steps
<1>2. CASE /\ groups' = [groups EXCEPT ![c] = NewGroup(c)]
           /\ Written(c, GroupChanges(c, None, NewGroup(c)))
           /\ UNCHANGED <<ous, users, roles, schemas>>
  <2> DEFINE facts == GroupChanges(c, None, NewGroup(c))
  <2>1. ASSUME NEW g \in Groups, NEW f \in GroupFields \cup {"members", "removed"}
        PROVE  <<"group", g, f>> \in facts <=> g = c /\ f \in GroupFields \cup {"members"}
    BY ChangesAre, SMT
  <2>2. \A f \in facts : f[1] \in GroupTag
    BY ChangesAre, SMT
  <2> HIDE DEF facts
  <2>3. /\ Signs(c) /\ SchemaFactsSame /\ UserFieldsSame /\ UserRemovalsSame /\ RoleFactsSame
        /\ AssignmentsSame /\ OUFieldsSame /\ OURemovalsSame
        /\ \A f \in Facts : stamp'[f] = IF f \in facts THEN c ELSE stamp[f]
    <3>1. Written(c, facts)
      BY <1>2 DEF facts
    <3>. QED  BY <1>1, <2>2, <3>1, WrittenSigns, TagsApart
  <2>4. GroupInserted(c)
    <3>1. ASSUME NEW g \in Groups, NEW f \in GroupFields \cup {"members"}
          PROVE  stamp'[<<"group", g, f>>] = IF g = c THEN c ELSE stamp[<<"group", g, f>>]
      BY <2>1, <2>3, FactsAre, SMT
    <3>2. GroupRemovalsSame
      BY <2>1, <2>3, FactsAre, RemovedIsNoField, SMT DEF GroupRemovalsSame
    <3>. QED  BY <1>1, <1>2, <3>1, <3>2 DEF GroupInserted
  <2>. QED
    <3>1. OUsSame /\ SchemasSame /\ UsersSame /\ RolesSame
      BY <1>2, <2>3 DEF OUsSame, SchemasSame, UsersSame, RolesSame
    <3>. QED  BY <2>3, <2>4, <3>1 DEF Writes, GroupsChange
<1>. QED  BY <1>2 DEF InsertGroup

\* Memberships.WriteGroup.
LEMMA WriteGroupIs ==
    ASSUME Base, NEW c \in Calls, WriteGroup(c)
    PROVE  Looks(c) \/ Writes(c)
<1>1. pc[c] = "updateGroup" /\ pc[c] \in Steps
  BY DEF WriteGroup, Steps
<1>2. CASE arg[c].group \notin PresentGroups
  BY <1>1, <1>2, NotWrittenLooks DEF WriteGroup, Answers
<1>3. CASE /\ arg[c].group \in PresentGroups
           /\ groups' = [groups EXCEPT ![arg[c].group] = NewGroup(c)]
           /\ Written(c, GroupChanges(arg[c].group, groups[arg[c].group], NewGroup(c)))
           /\ UNCHANGED <<ous, users, roles, schemas>>
  <2> DEFINE facts == GroupChanges(arg[c].group, groups[arg[c].group], NewGroup(c))
  <2>0. groups[arg[c].group] # None
    BY <1>3 DEF PresentGroups
  <2>1. ASSUME NEW g \in Groups, NEW f \in GroupFields \cup {"members", "removed"}
        PROVE  <<"group", g, f>> \in facts
               <=> /\ g = arg[c].group
                   /\ \/ f = "members"
                      \/ /\ f \in GroupFields
                         /\ \/ groups[arg[c].group].ou # NewGroup(c).ou
                            \/ groups[arg[c].group][f] # NewGroup(c)[f]
    BY <2>0, ChangesAre, SMT
  <2>2. \A f \in facts : f[1] \in GroupTag
    BY ChangesAre, SMT
  <2> HIDE DEF facts
  <2>3. /\ Signs(c) /\ SchemaFactsSame /\ UserFieldsSame /\ UserRemovalsSame /\ RoleFactsSame
        /\ AssignmentsSame /\ OUFieldsSame /\ OURemovalsSame
        /\ \A f \in Facts : stamp'[f] = IF f \in facts THEN c ELSE stamp[f]
    <3>1. Written(c, facts)
      BY <1>3 DEF facts
    <3>. QED  BY <1>1, <2>2, <3>1, WrittenSigns, TagsApart
  <2>4. GroupWritten(c)
    <3>1. ASSUME NEW g \in Groups, NEW f \in GroupFields
          PROVE  stamp'[<<"group", g, f>>] =
                    IF g = arg[c].group /\ (\/ groups[arg[c].group].ou # local[c].ou
                                           \/ groups[arg[c].group][f] # NewGroup(c)[f])
                    THEN c ELSE stamp[<<"group", g, f>>]
      <4>1. NewGroup(c).ou = local[c].ou
        BY SMT DEF NewGroup
      <4>. QED  BY <2>1, <2>3, <4>1, FactsAre, RemovedIsNoField, SMT
    <3>2. ASSUME NEW g \in Groups
          PROVE  stamp'[<<"group", g, "members">>] =
                    IF g = arg[c].group THEN c ELSE stamp[<<"group", g, "members">>]
      BY <2>1, <2>3, FactsAre, SMT
    <3>3. GroupRemovalsSame
      BY <2>1, <2>3, FactsAre, RemovedIsNoField, SMT DEF GroupRemovalsSame
    <3>. QED  BY <1>1, <1>3, <3>1, <3>2, <3>3, SMT DEF GroupWritten
  <2>. QED
    <3>1. OUsSame /\ SchemasSame /\ UsersSame /\ RolesSame
      BY <1>3, <2>3 DEF OUsSame, SchemasSame, UsersSame, RolesSame
    <3>. QED  BY <2>3, <2>4, <3>1 DEF Writes, GroupsChange
<1>. QED  BY <1>2, <1>3 DEF WriteGroup

\* Memberships.RemoveGroup.
LEMMA RemoveGroupIs ==
    ASSUME Base, NEW c \in Calls, RemoveGroup(c)
    PROVE  Looks(c) \/ Writes(c)
<1>1. pc[c] = "deleteGroup" /\ pc[c] \in Steps
  BY DEF RemoveGroup, Steps
<1>2. CASE /\ groups' = [groups EXCEPT ![arg[c].group] = None]
           /\ Written(c, {<<"group", h, "removed">> : h \in PresentGroups \cap {arg[c].group}})
           /\ UNCHANGED <<ous, users, roles, schemas>>
  <2> DEFINE facts == {<<"group", h, "removed">> : h \in PresentGroups \cap {arg[c].group}}
  <2>1. ASSUME NEW g \in Groups, NEW f \in GroupFields \cup {"members", "removed"}
        PROVE  <<"group", g, f>> \in facts
               <=> g = arg[c].group /\ g \in PresentGroups /\ f = "removed"
    BY SMT
  <2>2. \A f \in facts : f[1] \in GroupTag
    BY SMT DEF GroupTag
  <2> HIDE DEF facts
  <2>3. /\ Signs(c) /\ SchemaFactsSame /\ UserFieldsSame /\ UserRemovalsSame /\ RoleFactsSame
        /\ AssignmentsSame /\ OUFieldsSame /\ OURemovalsSame
        /\ \A f \in Facts : stamp'[f] = IF f \in facts THEN c ELSE stamp[f]
    <3>1. Written(c, facts)
      BY <1>2 DEF facts
    <3>. QED  BY <1>1, <2>2, <3>1, WrittenSigns, TagsApart
  <2>4. GroupRemoved(c)
    <3>1. ASSUME NEW g \in Groups, NEW f \in GroupFields \cup {"members"}
          PROVE  stamp'[<<"group", g, f>>] = stamp[<<"group", g, f>>]
      BY <2>1, <2>3, FactsAre, RemovedIsNoField, SMT
    <3>2. ASSUME NEW h \in Groups
          PROVE  stamp'[<<"group", h, "removed">>] =
                    IF h = arg[c].group /\ arg[c].group \in PresentGroups
                    THEN c ELSE stamp[<<"group", h, "removed">>]
      BY <2>1, <2>3, FactsAre, RemovedIsNoField, SMT
    <3>. QED  BY <1>1, <1>2, <3>1, <3>2 DEF GroupRemoved, GroupFieldsSame
  <2>. QED
    <3>1. OUsSame /\ SchemasSame /\ UsersSame /\ RolesSame
      BY <1>2, <2>3 DEF OUsSame, SchemasSame, UsersSame, RolesSame
    <3>. QED  BY <2>3, <2>4, <3>1 DEF Writes, GroupsChange
<1>. QED  BY <1>2 DEF RemoveGroup

\* Memberships.InsertRole.
LEMMA InsertRoleIs ==
    ASSUME Base, NEW c \in Calls, InsertRole(c)
    PROVE  Looks(c) \/ Writes(c)
<1>1. pc[c] = "insertRole" /\ pc[c] \in Steps
  BY DEF InsertRole, Steps
<1>2. CASE SameRoleName(c) # {}
  BY <1>1, <1>2, NotWrittenLooks DEF InsertRole, Answers
<1>3. CASE /\ SameRoleName(c) = {}
           /\ roles' = [roles EXCEPT ![c] = [name |-> arg[c].name, ou |-> arg[c].ou,
                                              assigned |-> arg[c].assigned]]
           /\ Written(c, {<<"role", c, "ou">>} \cup {<<"assigned", c, p>> : p \in arg[c].assigned})
           /\ UNCHANGED <<ous, users, groups, schemas>>
  <2> DEFINE facts == {<<"role", c, "ou">>} \cup {<<"assigned", c, p>> : p \in arg[c].assigned}
  <2>0. ASSUME NEW r \in Roles PROVE <<"role", r, "ou">> \in facts <=> r = c
    BY SMT
  <2>1. ASSUME NEW r \in Roles, NEW p \in Principals
        PROVE  <<"assigned", r, p>> \in facts <=> r = c /\ p \in arg[c].assigned
    BY SMT
  <2>2. \A f \in facts : f[1] \in RoleTags
    BY SMT DEF RoleTags
  <2> HIDE DEF facts
  <2>3. /\ Signs(c) /\ SchemaFactsSame /\ UserFieldsSame /\ UserRemovalsSame /\ GroupFieldsSame
        /\ GroupRemovalsSame /\ OUFieldsSame /\ OURemovalsSame
        /\ \A f \in Facts : stamp'[f] = IF f \in facts THEN c ELSE stamp[f]
    <3>1. Written(c, facts)
      BY <1>3 DEF facts
    <3>. QED  BY <1>1, <2>2, <3>1, WrittenSigns, TagsApart
  <2>4. RoleInserted(c)
    <3>1. ASSUME NEW r \in Roles
          PROVE  stamp'[<<"role", r, "ou">>] = IF r = c THEN c ELSE stamp[<<"role", r, "ou">>]
      BY <2>0, <2>3, FactsAre, SMT
    <3>2. ASSUME NEW r \in Roles, NEW p \in Principals
          PROVE  stamp'[<<"assigned", r, p>>] =
                    IF r = c /\ p \in arg[c].assigned THEN c ELSE stamp[<<"assigned", r, p>>]
      BY <2>1, <2>3, FactsAre, SMT
    <3>. QED  BY <1>1, <1>3, <3>1, <3>2 DEF RoleInserted
  <2>. QED
    <3>1. OUsSame /\ SchemasSame /\ UsersSame /\ GroupsSame
      BY <1>3, <2>3 DEF OUsSame, SchemasSame, UsersSame, GroupsSame
    <3>. QED  BY <2>3, <2>4, <3>1 DEF Writes, RolesChange
<1>. QED  BY <1>2, <1>3 DEF InsertRole

\* Memberships.WriteRole.
LEMMA WriteRoleIs ==
    ASSUME Base, NEW c \in Calls, WriteRole(c)
    PROVE  Looks(c) \/ Writes(c)
<1>1. pc[c] = "updateRole" /\ pc[c] \in Steps
  BY DEF WriteRole, Steps
<1>2. CASE arg[c].role \notin PresentRoles \/ SameRoleName(c) # {}
  BY <1>1, <1>2, NotWrittenLooks DEF WriteRole, Answers
<1>3. CASE /\ arg[c].role \in PresentRoles
           /\ roles' = [roles EXCEPT ![arg[c].role].name = arg[c].name,
                                  ![arg[c].role].ou = arg[c].ou]
           /\ Written(c, {<<"role", arg[c].role, "ou">>})
           /\ UNCHANGED <<ous, users, groups, schemas>>
  <2> DEFINE facts == {<<"role", arg[c].role, "ou">>}
  <2>0. ASSUME NEW r \in Roles PROVE <<"role", r, "ou">> \in facts <=> r = arg[c].role
    BY SMT
  <2>1. ASSUME NEW r \in Roles, NEW p \in Principals
        PROVE  <<"assigned", r, p>> \notin facts
    BY SMT
  <2>2. \A f \in facts : f[1] \in RoleTags
    BY SMT DEF RoleTags
  <2> HIDE DEF facts
  <2>3. /\ Signs(c) /\ SchemaFactsSame /\ UserFieldsSame /\ UserRemovalsSame /\ GroupFieldsSame
        /\ GroupRemovalsSame /\ OUFieldsSame /\ OURemovalsSame
        /\ \A f \in Facts : stamp'[f] = IF f \in facts THEN c ELSE stamp[f]
    <3>1. Written(c, facts)
      BY <1>3 DEF facts
    <3>. QED  BY <1>1, <2>2, <3>1, WrittenSigns, TagsApart
  <2>4. RoleWritten(c)
    <3>1. ASSUME NEW r \in Roles
          PROVE  stamp'[<<"role", r, "ou">>] =
                    IF r = arg[c].role THEN c ELSE stamp[<<"role", r, "ou">>]
      BY <2>0, <2>3, FactsAre, SMT
    <3>2. ASSUME NEW r \in Roles, NEW p \in Principals
          PROVE  stamp'[<<"assigned", r, p>>] = stamp[<<"assigned", r, p>>]
      BY <2>1, <2>3, FactsAre, SMT
    <3>3. AssignmentsSame
      BY <3>2 DEF AssignmentsSame
    <3>. QED  BY <1>1, <1>3, <3>1, <3>3, SMT DEF RoleWritten
  <2>. QED
    <3>1. OUsSame /\ SchemasSame /\ UsersSame /\ GroupsSame
      BY <1>3, <2>3 DEF OUsSame, SchemasSame, UsersSame, GroupsSame
    <3>. QED  BY <2>3, <2>4, <3>1 DEF Writes, RolesChange
<1>. QED  BY <1>2, <1>3 DEF WriteRole

\* Memberships.RemoveRole.
LEMMA RemoveRoleIs ==
    ASSUME Base, NEW c \in Calls, RemoveRole(c)
    PROVE  Looks(c) \/ Writes(c)
<1>1. pc[c] = "deleteRole" /\ pc[c] \in Steps
  BY DEF RemoveRole, Steps
<1>2. CASE /\ roles' = [roles EXCEPT ![arg[c].role] = None]
           /\ Written(c, {})
           /\ UNCHANGED <<ous, users, groups, schemas>>
  <2> DEFINE facts == {}
  <2>2. \A f \in facts : f[1] \in RoleTags
    OBVIOUS
  <2> HIDE DEF facts
  <2>3. /\ Signs(c) /\ SchemaFactsSame /\ UserFieldsSame /\ UserRemovalsSame /\ GroupFieldsSame
        /\ GroupRemovalsSame /\ OUFieldsSame /\ OURemovalsSame
        /\ \A f \in Facts : stamp'[f] = IF f \in facts THEN c ELSE stamp[f]
    <3>1. Written(c, facts)
      BY <1>2 DEF facts
    <3>. QED  BY <1>1, <2>2, <3>1, WrittenSigns, TagsApart
  <2>4. RoleRemoved(c)
    <3>1. \A f \in Facts : stamp'[f] = stamp[f]
      BY <2>3 DEF facts
    <3>2. RoleFactsSame /\ AssignmentsSame
      BY <3>1, FactsAre, SMT DEF RoleFactsSame, AssignmentsSame
    <3>. QED  BY <1>1, <1>2, <3>2 DEF RoleRemoved
  <2>. QED
    <3>1. OUsSame /\ SchemasSame /\ UsersSame /\ GroupsSame
      BY <1>2, <2>3 DEF OUsSame, SchemasSame, UsersSame, GroupsSame
    <3>. QED  BY <2>3, <2>4, <3>1 DEF Writes, RolesChange
<1>. QED  BY <1>2 DEF RemoveRole

\* Memberships.InsertAssignments.
LEMMA InsertAssignmentsIs ==
    ASSUME Base, NEW c \in Calls, InsertAssignments(c)
    PROVE  Looks(c) \/ Writes(c)
<1>1. pc[c] = "addAssignments" /\ pc[c] \in Steps
  BY DEF InsertAssignments, Steps
<1>2. CASE ~(/\ arg[c].role \in PresentRoles
             /\ roles[arg[c].role].assigned \cap arg[c].assigned = {})
  BY <1>1, <1>2, NotWrittenLooks DEF InsertAssignments, Answers
<1>3. CASE /\ arg[c].role \in PresentRoles
           /\ roles' = [roles EXCEPT ![arg[c].role].assigned = @ \cup arg[c].assigned]
           /\ Written(c, {<<"assigned", arg[c].role, p>> : p \in arg[c].assigned})
           /\ UNCHANGED <<ous, users, groups, schemas>>
  <2> DEFINE facts == {<<"assigned", arg[c].role, p>> : p \in arg[c].assigned}
  <2>0. ASSUME NEW r \in Roles PROVE <<"role", r, "ou">> \notin facts
    BY SMT
  <2>1. ASSUME NEW r \in Roles, NEW p \in Principals
        PROVE  <<"assigned", r, p>> \in facts <=> r = arg[c].role /\ p \in arg[c].assigned
    BY SMT
  <2>2. \A f \in facts : f[1] \in RoleTags
    BY SMT DEF RoleTags
  <2> HIDE DEF facts
  <2>3. /\ Signs(c) /\ SchemaFactsSame /\ UserFieldsSame /\ UserRemovalsSame /\ GroupFieldsSame
        /\ GroupRemovalsSame /\ OUFieldsSame /\ OURemovalsSame
        /\ \A f \in Facts : stamp'[f] = IF f \in facts THEN c ELSE stamp[f]
    <3>1. Written(c, facts)
      BY <1>3 DEF facts
    <3>. QED  BY <1>1, <2>2, <3>1, WrittenSigns, TagsApart
  <2>4. AssignmentsAdded(c)
    <3>1. ASSUME NEW r \in Roles
          PROVE  stamp'[<<"role", r, "ou">>] = stamp[<<"role", r, "ou">>]
      BY <2>0, <2>3, FactsAre, SMT
    <3>2. ASSUME NEW r \in Roles, NEW p \in Principals
          PROVE  stamp'[<<"assigned", r, p>>] =
                    IF r = arg[c].role /\ p \in arg[c].assigned
                    THEN c ELSE stamp[<<"assigned", r, p>>]
      BY <2>1, <2>3, FactsAre, SMT
    <3>. QED  BY <1>1, <1>3, <3>1, <3>2 DEF AssignmentsAdded, RoleFactsSame
  <2>. QED
    <3>1. OUsSame /\ SchemasSame /\ UsersSame /\ GroupsSame
      BY <1>3, <2>3 DEF OUsSame, SchemasSame, UsersSame, GroupsSame
    <3>. QED  BY <2>3, <2>4, <3>1 DEF Writes, RolesChange
<1>. QED  BY <1>2, <1>3 DEF InsertAssignments

\* Memberships.DeleteAssignments.
LEMMA DeleteAssignmentsIs ==
    ASSUME Base, NEW c \in Calls, DeleteAssignments(c)
    PROVE  Looks(c) \/ Writes(c)
<1>1. pc[c] = "removeAssignments" /\ pc[c] \in Steps
  BY DEF DeleteAssignments, Steps
<1>2. CASE /\ roles' = IF arg[c].role \in PresentRoles
                       THEN [roles EXCEPT ![arg[c].role].assigned = @ \ arg[c].assigned] ELSE roles
           /\ Written(c, {})
           /\ UNCHANGED <<ous, users, groups, schemas>>
  <2> DEFINE facts == {}
  <2>2. \A f \in facts : f[1] \in RoleTags
    OBVIOUS
  <2> HIDE DEF facts
  <2>3. /\ Signs(c) /\ SchemaFactsSame /\ UserFieldsSame /\ UserRemovalsSame /\ GroupFieldsSame
        /\ GroupRemovalsSame /\ OUFieldsSame /\ OURemovalsSame
        /\ \A f \in Facts : stamp'[f] = IF f \in facts THEN c ELSE stamp[f]
    <3>1. Written(c, facts)
      BY <1>2 DEF facts
    <3>. QED  BY <1>1, <2>2, <3>1, WrittenSigns, TagsApart
  <2>4. AssignmentsTaken(c)
    <3>1. \A f \in Facts : stamp'[f] = stamp[f]
      BY <2>3 DEF facts
    <3>2. RoleFactsSame /\ AssignmentsSame
      BY <3>1, FactsAre, SMT DEF RoleFactsSame, AssignmentsSame
    <3>. QED  BY <1>1, <1>2, <3>2 DEF AssignmentsTaken
  <2>. QED
    <3>1. OUsSame /\ SchemasSame /\ UsersSame /\ GroupsSame
      BY <1>2, <2>3 DEF OUsSame, SchemasSame, UsersSame, GroupsSame
    <3>. QED  BY <2>3, <2>4, <3>1 DEF Writes, RolesChange
<1>. QED  BY <1>2 DEF DeleteAssignments

\* UserStore.WriteSchema.
LEMMA WriteSchemaIs ==
    ASSUME Base, NEW c \in Calls, WriteSchema(c)
    PROVE  Looks(c) \/ Writes(c)
<1> DEFINE s == IF arg[c].op = "createSchema" THEN c ELSE arg[c].schema
           renamed == IF s \in PresentSchemas THEN {schemas[s].name} \ {arg[c].name} ELSE {}
<1>1. pc[c] \in {"insertSchema", "updateSchema"} /\ pc[c] \in Steps
  BY DEF WriteSchema, Steps
<1>2. CASE NotWritten(c, "failed") \/ NotWritten(c, "ok")
  BY <1>1, <1>2, NotWrittenLooks DEF Answers
<1>3. CASE /\ arg[c].op = "createSchema" \/ s \in PresentSchemas
           /\ schemas' = [schemas EXCEPT ![s] = [name |-> arg[c].name, ou |-> arg[c].ou]]
           /\ Written(c, {<<"schema", t, "removed">> : t \in renamed})
           /\ UNCHANGED <<ous, users, groups, roles>>
  <2> DEFINE facts == {<<"schema", t, "removed">> : t \in renamed}
  <2>0. s \in Schemas
    BY <1>3 DEF Schemas, PresentSchemas
  <2>1. ASSUME NEW t \in Types
        PROVE  <<"schema", t, "removed">> \in facts
               <=> s \in PresentSchemas /\ t = schemas[s].name /\ t # arg[c].name
    BY SMT
  <2>2. \A f \in facts : f[1] \in SchemaTag
    BY SMT DEF SchemaTag
  <2> HIDE DEF facts
  <2>3. /\ Signs(c) /\ UserFieldsSame /\ UserRemovalsSame /\ GroupFieldsSame
        /\ GroupRemovalsSame /\ RoleFactsSame /\ AssignmentsSame /\ OUFieldsSame
        /\ OURemovalsSame
        /\ \A f \in Facts : stamp'[f] = IF f \in facts THEN c ELSE stamp[f]
    <3>1. Written(c, facts)
      BY <1>3 DEF facts
    <3>. QED  BY <1>1, <2>2, <3>1, WrittenSigns, TagsApart
  <2>4. SchemaWritten(c)
    <3>1. ASSUME NEW t \in Types
          PROVE  stamp'[<<"schema", t, "removed">>] =
                    IF s \in PresentSchemas /\ t = schemas[s].name /\ t # arg[c].name
                    THEN c ELSE stamp[<<"schema", t, "removed">>]
      BY <2>1, <2>3, FactsAre, SMT
    <3> HIDE DEF s
    <3>. QED  BY <1>1, <1>3, <2>0, <3>1, Zenon DEF SchemaWritten
  <2>. QED
    <3>1. OUsSame /\ UsersSame /\ GroupsSame /\ RolesSame
      BY <1>3, <2>3 DEF OUsSame, UsersSame, GroupsSame, RolesSame
    <3>. QED  BY <2>3, <2>4, <3>1 DEF Writes, SchemasChange
<1>. QED  BY <1>2, <1>3 DEF WriteSchema

-----------------------------------------------------------------------------
(* Where a step comes from.                                                *)

\* The steps that operations begin with.
FirstStep(c) ==
    /\ pc'[c] \in {"parent", "getOU", "path", "ouExists", "schemaOU", "deleteSchema", "getUser",
                   "getCredentials", "deleteUser", "groupOU", "getGroup", "userIDs", "roleExists"}
    /\ pc'[c] = "parent" => arg'[c].op = "createOU"
    /\ pc'[c] = "groupOU" => arg'[c].op = "createGroup"
    /\ pc'[c] = "userIDs" => arg'[c].op = "createRole"

\* The steps that others lead to.
ComesFrom(c) ==
    /\ pc'[c] = "schema" => OUExists(c)
    /\ pc'[c] = "isParent" => SchemaOfType(c) \/ IsParent(c)
    /\ pc'[c] = "validate" => SchemaOfType(c) \/ IsParent(c) \/ GetUser(c)
    /\ pc'[c] = "unique" => ValidateUser(c)
    /\ pc'[c] \in {"insertUser", "updateUser"} => ValidateUserUniqueness(c)
    /\ pc'[c] = "updateCredentials" => GetCredentials(c)
    /\ pc'[c] = "ok" /\ arg[c].op = "updateUserCredentials" => WriteCredentials(c)
    /\ pc'[c] = "parent" => GetOU(c) \/ ResolveHandle(c)
    /\ pc'[c] = "circular" => ParentExists(c) \/ CircularDependency(c)
    /\ pc'[c] = "name" => ParentExists(c) \/ CircularDependency(c)
    /\ pc'[c] = "handle" => OUNameFree(c)
    /\ pc'[c] \in {"insertOU", "updateOU"} => OUHandleFree(c)
    /\ pc'[c] = "deleteOU" => NoChildResources(c)
    /\ pc'[c] = "groupOU" => ResolveHandle(c) \/ GetGroup(c)
    /\ pc'[c] = "userIDs" => GetGroup(c) \/ GroupOUExists(c) \/ RoleExists(c)
    /\ pc'[c] = "groupIDs" => UserIDsValid(c)
    /\ pc'[c] \in {"groupName", "addAssignments"} => GroupIDsValid(c)
    /\ pc'[c] \in {"insertGroup", "updateGroup"} => GroupNameFree(c)
    /\ pc'[c] = "roleOU" => GroupIDsValid(c) \/ RoleExists(c)
    /\ pc'[c] = "roleName" => RoleOUExists(c)
    /\ pc'[c] \in {"insertRole", "updateRole"} => RoleNameFree(c)
    /\ pc'[c] = "deleteRole" => RoleUnassigned(c)

Goes(c) == Looks(c) /\ ComesFrom(c) /\ Course(c)' /\ LocalOK(c)'

\* The questions of OrgUnits leave everything but the call as it is.
LEMMA OULooksGo ==
    ASSUME Base, NEW c \in Calls,
           \/ ResolveHandle(c) \/ GetOU(c) \/ OUExists(c) \/ ParentExists(c)
           \/ CircularDependency(c) \/ OUNameFree(c) \/ OUHandleFree(c)
           \/ NoChildResources(c) \/ IsParent(c)
    PROVE  Goes(c)
<1>1. DOMAIN pc = Calls /\ DOMAIN local = Calls /\ Course(c) /\ LocalOK(c) /\ TypeOK
  BY DEF Base, TypeOK
<1> USE DEF Goes, Looks, ComesFrom, LocalOK, Course, CreatesUser, CreatesGroup, ChangesOU, NoLocal,
        Running, Ended, Answers, Steps, Check, Answer, Goto, Keep, Alone
<1>2. ASSUME ResolveHandle(c) PROVE Goes(c)
  <2>1. CASE Answer(c, "refused") /\ UNCHANGED <<tables, arg, before, stamp>> /\ pc[c] = "path"
    BY <1>1, <2>1, SMTT(20)
  <2>2. ASSUME NEW o \in PresentOUs, pc[c] = "path",
               Keep(c, [local[c] EXCEPT !.ou = o, !.path = Tail(@), !.row = ous[o]]),
               Goto(c, IF Len(local[c].path) = 1 THEN AfterPath(arg[c].op) ELSE "path"),
               UNCHANGED <<tables, arg, before, stamp>>
        PROVE  Goes(c)
    <3>1. /\ local'[c].ou = o /\ o \in OUs /\ DOMAIN local'[c] = {"ou", "path", "walk", "row"}
          /\ \A d \in Calls \ {c} : local'[d] = local[d] /\ DOMAIN local' = Calls
      BY <1>1, <2>2, SMT DEF PresentOUs
    <3>2. \/ pc'[c] = "path"
          \/ pc'[c] = "parent" /\ arg[c].op = "updateOUByPath"
          \/ pc'[c] = "children" /\ arg[c].op = "deleteOUByPath"
          \/ pc'[c] = "ouExists" /\ arg[c].op = "createUserByPath"
          \/ pc'[c] = "groupOU" /\ arg[c].op = "createGroupByPath"
      BY <1>1, <2>2, SMT DEF AfterPath
    <3>. QED  BY <1>1, <1>2, <2>2, <3>1, <3>2, SMTT(20)
  <2>. QED  BY <1>2, <2>1, <2>2 DEF ResolveHandle
<1>3. ASSUME GetOU(c) PROVE Goes(c)
  BY <1>1, <1>3, SMTT(20) DEF GetOU
<1>4. ASSUME OUExists(c) PROVE Goes(c)
  BY <1>1, <1>4, SMTT(20) DEF OUExists
<1>5. ASSUME ParentExists(c) PROVE Goes(c)
  BY <1>1, <1>5, SMTT(20) DEF ParentExists
<1>6. ASSUME CircularDependency(c) PROVE Goes(c)
  BY <1>1, <1>6, SMTT(20) DEF CircularDependency
<1>7. ASSUME OUNameFree(c) PROVE Goes(c)
  BY <1>1, <1>7, SMTT(20) DEF OUNameFree
<1>8. ASSUME OUHandleFree(c) PROVE Goes(c)
  BY <1>1, <1>8, SMTT(20) DEF OUHandleFree
<1>9. ASSUME NoChildResources(c) PROVE Goes(c)
  BY <1>1, <1>9, SMTT(20) DEF NoChildResources
<1>10. ASSUME IsParent(c) PROVE Goes(c)
  BY <1>1, <1>10, SMTT(20) DEF IsParent
<1>. QED  BY <1>2, <1>3, <1>4, <1>5, <1>6, <1>7, <1>8, <1>9, <1>10, Zenon

\* The questions of UserStore leave everything but the call as it is.
LEMMA UserLooksGo ==
    ASSUME Base, NEW c \in Calls,
           \/ SchemaOUExists(c) \/ GetSchema(c) \/ SchemaNameFree(c) \/ SchemaOfType(c)
           \/ GetUser(c) \/ ValidateUser(c) \/ ValidateUserUniqueness(c) \/ GetCredentials(c)
    PROVE  Goes(c)
<1>1. DOMAIN pc = Calls /\ DOMAIN local = Calls /\ Course(c) /\ LocalOK(c) /\ TypeOK
  BY DEF Base, TypeOK
<1> USE DEF Goes, Looks, ComesFrom, LocalOK, Course, CreatesUser, CreatesGroup, ChangesOU, NoLocal,
        Running, Ended, Answers, Steps, Check, Answer, Goto, Keep, Alone
<1>2. ASSUME SchemaOUExists(c) PROVE Goes(c)
  BY <1>1, <1>2, SMTT(20) DEF SchemaOUExists
<1>3. ASSUME GetSchema(c) PROVE Goes(c)
  BY <1>1, <1>3, SMTT(20) DEF GetSchema
<1>4. ASSUME SchemaNameFree(c) PROVE Goes(c)
  BY <1>1, <1>4, SMTT(20) DEF SchemaNameFree
<1>5. ASSUME SchemaOfType(c) PROVE Goes(c)
  <2>1. CASE Answer(c, "refused") /\ UNCHANGED <<tables, arg, before, stamp>> /\ pc[c] = "schema"
    BY <1>1, <2>1, SMTT(20)
  <2>2. ASSUME NEW s \in PresentSchemas, pc[c] = "schema",
               Goto(c, IF schemas[s].ou = local[c].ou THEN "validate" ELSE "isParent"),
               Keep(c, [local[c] EXCEPT !.walk = local[c].ou, !.row = schemas[s].ou]),
               UNCHANGED <<tables, arg, before, stamp>>
        PROVE  Goes(c)
    BY <1>1, <1>5, <2>2, SMTT(20)
  <2>. QED  BY <1>5, <2>1, <2>2 DEF SchemaOfType
<1>6. ASSUME GetUser(c) PROVE Goes(c)
  <2>1. arg[c].user \in PresentUsers
        => users[arg[c].user].type \in Types /\ users[arg[c].user].ou \in OUs
    BY <1>1, RowsAre
  <2>2. CASE arg[c].user \notin PresentUsers
    BY <1>1, <1>6, <2>2, SMTT(20) DEF GetUser
  <2>3. CASE arg[c].user \in PresentUsers
    <3>1. /\ pc[c] = "getUser" /\ pc'[c] = "validate"
          /\ \A d \in Calls \ {c} : pc'[d] = pc[d] /\ local'[d] = local[d]
          /\ DOMAIN pc' = Calls /\ DOMAIN local' = Calls
          /\ UNCHANGED <<tables, arg, before, stamp>>
      BY <1>1, <1>6, <2>3, SMT DEF GetUser
    <3>2. /\ DOMAIN local'[c] = {"ou", "path", "walk", "row"}
          /\ local'[c].ou = users[arg[c].user].ou /\ local'[c].row = users[arg[c].user].type
      <4>1. local'[c] = [local[c] EXCEPT !.ou = users[arg[c].user].ou,
                                         !.row = users[arg[c].user].type]
        BY <1>1, <1>6, <2>3, SMT DEF GetUser
      <4>2. DOMAIN local[c] = {"ou", "path", "walk", "row"}
        BY <1>1
      <4>. QED  BY <4>1, <4>2, SMT
    <3>. QED  BY <1>1, <1>6, <2>1, <2>3, <3>1, <3>2, SMTT(20)
  <2>. QED  BY <2>2, <2>3
<1>7. ASSUME ValidateUser(c) PROVE Goes(c)
  BY <1>1, <1>7, SMTT(20) DEF ValidateUser
<1>8. ASSUME ValidateUserUniqueness(c) PROVE Goes(c)
  BY <1>1, <1>8, SMTT(20) DEF ValidateUserUniqueness, AfterUnique
<1>9. ASSUME GetCredentials(c) PROVE Goes(c)
  <2>1. arg[c].user \in PresentUsers
        => users[arg[c].user].creds \in [CredTypes -> Calls \cup {None}]
    BY <1>1, RowsAre
  <2>. QED  BY <1>1, <1>9, <2>1, SMTT(20) DEF GetCredentials
<1>. QED  BY <1>2, <1>3, <1>4, <1>5, <1>6, <1>7, <1>8, <1>9, Zenon

\* The questions of Memberships leave everything but the call as it is.
LEMMA MembershipLooksGo ==
    ASSUME Base, NEW c \in Calls,
           \/ GetGroup(c) \/ GroupOUExists(c) \/ UserIDsValid(c) \/ GroupIDsValid(c)
           \/ GroupNameFree(c) \/ RoleExists(c) \/ RoleOUExists(c) \/ RoleNameFree(c)
           \/ RoleUnassigned(c)
    PROVE  Goes(c)
<1>1. DOMAIN pc = Calls /\ DOMAIN local = Calls /\ Course(c) /\ LocalOK(c) /\ TypeOK
  BY DEF Base, TypeOK
<1> USE DEF Goes, Looks, ComesFrom, LocalOK, Course, CreatesUser, CreatesGroup, ChangesOU, NoLocal,
        Running, Ended, Answers, Steps, Check, Answer, Goto, Keep, Alone
<1>2. ASSUME GetGroup(c) PROVE Goes(c)
  <2>1. CASE Answer(c, "refused")
    BY <1>1, <1>2, <2>1, SMTT(20) DEF GetGroup
  <2>2. CASE /\ Keep(c, [local[c] EXCEPT !.row = [name |-> groups[arg[c].group].name,
                                                 ou |-> groups[arg[c].group].ou]])
             /\ Goto(c, IF arg[c].op = "deleteGroup" THEN "deleteGroup"
                        ELSE IF groups[arg[c].group].ou = arg[c].ou THEN "userIDs" ELSE "groupOU")
    <3>1. /\ pc[c] = "getGroup"
          /\ \A d \in Calls \ {c} : pc'[d] = pc[d] /\ local'[d] = local[d]
          /\ DOMAIN pc' = Calls /\ DOMAIN local' = Calls
          /\ UNCHANGED <<tables, arg, before, stamp>>
      BY <1>1, <1>2, <2>2, SMT DEF GetGroup
    <3>2. \/ pc'[c] = "deleteGroup" /\ arg[c].op = "deleteGroup"
          \/ pc'[c] \in {"userIDs", "groupOU"} /\ arg[c].op # "deleteGroup"
      BY <1>1, <2>2, SMT
    <3>3. DOMAIN local'[c] = {"ou", "path", "walk", "row"} /\ local'[c].ou = local[c].ou
      BY <1>1, <2>2, SMT
    <3>4. arg[c].op = "updateGroup" => arg[c].ou \in OUs
      BY <1>1, <3>1, RequestsAssumption, Zenon
    <3>. QED  BY <1>1, <1>2, <3>1, <3>2, <3>3, <3>4, SMTT(20)
  <2>. QED  BY <1>2, <2>1, <2>2 DEF GetGroup
<1>3. ASSUME GroupOUExists(c) PROVE Goes(c)
  BY <1>1, <1>3, SMTT(20) DEF GroupOUExists
<1>4. ASSUME UserIDsValid(c) PROVE Goes(c)
  BY <1>1, <1>4, SMTT(20) DEF UserIDsValid
<1>5. ASSUME GroupIDsValid(c) PROVE Goes(c)
  BY <1>1, <1>5, SMTT(20) DEF GroupIDsValid
<1>6. ASSUME GroupNameFree(c) PROVE Goes(c)
  BY <1>1, <1>6, SMTT(20) DEF GroupNameFree
<1>7. ASSUME RoleExists(c) PROVE Goes(c)
  BY <1>1, <1>7, SMTT(20) DEF RoleExists
<1>8. ASSUME RoleOUExists(c) PROVE Goes(c)
  BY <1>1, <1>8, SMTT(20) DEF RoleOUExists
<1>9. ASSUME RoleNameFree(c) PROVE Goes(c)
  BY <1>1, <1>9, SMTT(20) DEF RoleNameFree
<1>10. ASSUME RoleUnassigned(c) PROVE Goes(c)
  BY <1>1, <1>10, SMTT(20) DEF RoleUnassigned
<1>. QED  BY <1>2, <1>3, <1>4, <1>5, <1>6, <1>7, <1>8, <1>9, <1>10, Zenon

\* What ends a call leaves nothing to be known of it.
LEMMA EndsGo ==
    ASSUME Base, NEW c \in Calls, pc'[c] \in Answers, arg' = arg, local'[c] = NoLocal,
           pc[c] \in Steps, pc'[c] = "ok" /\ arg[c].op = "updateUserCredentials" => WriteCredentials(c)
    PROVE  ComesFrom(c) /\ Course(c)' /\ LocalOK(c)'
<1>1. Course(c) /\ arg[c] \in Requests
  BY SMT DEF Base, Course, Steps
<1>2. ComesFrom(c)
  BY SMT DEF ComesFrom, Answers
<1>3. Course(c)'
  BY <1>1, SMT DEF Course, Answers
<1>4. LocalOK(c)'
  BY SMT DEF LocalOK, NoLocal, Running, Ended, Answers
<1>. QED  BY <1>2, <1>3, <1>4

\* A failure ends the call.
LEMMA FailsGoes == ASSUME Base, NEW c \in Calls, Fails(c) PROVE Goes(c)
<1>1. DOMAIN pc = Calls /\ DOMAIN local = Calls /\ pc \in [Calls -> {"idle"} \cup Steps \cup Answers]
  BY DEF Base, TypeOK
<1>2. pc[c] \in Steps
  BY <1>1 DEF Fails, Running, Ended
<1>3. Looks(c)
  BY <1>2, NotWrittenLooks DEF Fails, Answers
<1>4. pc'[c] = "failed" /\ arg' = arg /\ local'[c] = NoLocal
  BY <1>1, SMT DEF Fails, NotWritten, Answer, Goto, Keep
<1>. QED  BY <1>2, <1>3, <1>4, EndsGo DEF Goes, Answers

Statements(c) ==
    \/ InsertOU(c) \/ WriteOU(c) \/ RemoveOU(c) \/ WriteSchema(c) \/ RemoveSchema(c)
    \/ InsertUser(c) \/ WriteUser(c) \/ WriteCredentials(c) \/ RemoveUser(c)
    \/ InsertGroup(c) \/ WriteGroup(c) \/ RemoveGroup(c)
    \/ InsertRole(c) \/ WriteRole(c) \/ RemoveRole(c)
    \/ InsertAssignments(c) \/ DeleteAssignments(c)

\* The call ends, and nothing but what it asked for stays known of it.
Finishes(c) == arg' = arg /\ \E a \in Answers : Answer(c, a)

StatementSteps ==
    {"insertOU", "updateOU", "deleteOU", "insertSchema", "updateSchema", "deleteSchema",
     "insertUser", "updateUser", "updateCredentials", "deleteUser", "insertGroup",
     "updateGroup", "deleteGroup", "insertRole", "updateRole", "deleteRole",
     "addAssignments", "removeAssignments"}

\* A statement is the last step of a call.
LEMMA StatementsFinish ==
    ASSUME NEW c \in Calls, Statements(c)
    PROVE  pc[c] \in StatementSteps /\ Finishes(c)
<1>1. \A facts : Written(c, facts) => Finishes(c)
  BY Zenon DEF Written, Finishes, Answers
<1>2. \A a \in Answers : NotWritten(c, a) => Finishes(c)
  BY Zenon DEF NotWritten, Finishes
<1>3. "ok" \in Answers /\ "failed" \in Answers /\ "refused" \in Answers
  BY DEF Answers
<1> USE <1>1, <1>2, <1>3 DEF StatementSteps
<1>4. ASSUME InsertOU(c) PROVE pc[c] \in StatementSteps /\ Finishes(c)
  BY <1>4 DEF InsertOU
<1>5. ASSUME WriteOU(c) PROVE pc[c] \in StatementSteps /\ Finishes(c)
  BY <1>5 DEF WriteOU
<1>6. ASSUME RemoveOU(c) PROVE pc[c] \in StatementSteps /\ Finishes(c)
  BY <1>6 DEF RemoveOU
<1>7. ASSUME WriteSchema(c) PROVE pc[c] \in StatementSteps /\ Finishes(c)
  BY <1>7 DEF WriteSchema
<1>8. ASSUME RemoveSchema(c) PROVE pc[c] \in StatementSteps /\ Finishes(c)
  BY <1>8 DEF RemoveSchema
<1>9. ASSUME InsertUser(c) PROVE pc[c] \in StatementSteps /\ Finishes(c)
  BY <1>9 DEF InsertUser
<1>10. ASSUME WriteUser(c) PROVE pc[c] \in StatementSteps /\ Finishes(c)
  BY <1>10 DEF WriteUser
<1>11. ASSUME WriteCredentials(c) PROVE pc[c] \in StatementSteps /\ Finishes(c)
  BY <1>11 DEF WriteCredentials
<1>12. ASSUME RemoveUser(c) PROVE pc[c] \in StatementSteps /\ Finishes(c)
  BY <1>12 DEF RemoveUser
<1>13. ASSUME InsertGroup(c) PROVE pc[c] \in StatementSteps /\ Finishes(c)
  BY <1>13 DEF InsertGroup
<1>14. ASSUME WriteGroup(c) PROVE pc[c] \in StatementSteps /\ Finishes(c)
  BY <1>14 DEF WriteGroup
<1>15. ASSUME RemoveGroup(c) PROVE pc[c] \in StatementSteps /\ Finishes(c)
  BY <1>15 DEF RemoveGroup
<1>16. ASSUME InsertRole(c) PROVE pc[c] \in StatementSteps /\ Finishes(c)
  BY <1>16 DEF InsertRole
<1>17. ASSUME WriteRole(c) PROVE pc[c] \in StatementSteps /\ Finishes(c)
  BY <1>17 DEF WriteRole
<1>18. ASSUME RemoveRole(c) PROVE pc[c] \in StatementSteps /\ Finishes(c)
  BY <1>18 DEF RemoveRole
<1>19. ASSUME InsertAssignments(c) PROVE pc[c] \in StatementSteps /\ Finishes(c)
  BY <1>19 DEF InsertAssignments
<1>20. ASSUME DeleteAssignments(c) PROVE pc[c] \in StatementSteps /\ Finishes(c)
  BY <1>20 DEF DeleteAssignments
<1>. QED
  BY <1>4, <1>5, <1>6, <1>7, <1>8, <1>9, <1>10, <1>11, <1>12, <1>13, <1>14, <1>15, <1>16, <1>17,
     <1>18, <1>19, <1>20 DEF Statements

\* A statement at the step of the credentials writes credentials.
LEMMA CredentialStatement ==
    ASSUME NEW c, Statements(c), pc[c] = "updateCredentials"
    PROVE  WriteCredentials(c)
<1>1. ~InsertOU(c) /\ ~WriteOU(c) /\ ~RemoveOU(c) /\ ~WriteSchema(c) /\ ~RemoveSchema(c)
  BY DEF InsertOU, WriteOU, RemoveOU, WriteSchema, RemoveSchema
<1>2. ~InsertUser(c) /\ ~WriteUser(c) /\ ~RemoveUser(c)
  BY DEF InsertUser, WriteUser, RemoveUser
<1>3. ~InsertGroup(c) /\ ~WriteGroup(c) /\ ~RemoveGroup(c)
  BY DEF InsertGroup, WriteGroup, RemoveGroup
<1>4. ~InsertRole(c) /\ ~WriteRole(c) /\ ~RemoveRole(c)
  BY DEF InsertRole, WriteRole, RemoveRole
<1>5. ~InsertAssignments(c) /\ ~DeleteAssignments(c)
  BY DEF InsertAssignments, DeleteAssignments
<1>. QED  BY <1>1, <1>2, <1>3, <1>4, <1>5 DEF Statements

\* A statement changes a table or finds nothing to change, and ends the call.
LEMMA StatementsGo ==
    ASSUME Base, NEW c \in Calls, Statements(c)
    PROVE  Goes(c) \/ (Writes(c) /\ ComesFrom(c) /\ Course(c)' /\ LocalOK(c)')
<1>1. Looks(c) \/ Writes(c)
  BY InsertOUIs, WriteOUIs, RemoveOUIs, WriteSchemaIs, RemoveSchemaIs, InsertUserIs, WriteUserIs,
     WriteCredentialsIs, RemoveUserIs, InsertGroupIs, WriteGroupIs, RemoveGroupIs, InsertRoleIs,
     WriteRoleIs, RemoveRoleIs, InsertAssignmentsIs, DeleteAssignmentsIs, Zenon DEF Statements
<1>2. DOMAIN pc = Calls /\ DOMAIN local = Calls /\ Course(c)
  BY DEF Base, TypeOK
<1>3. pc[c] \in StatementSteps /\ Finishes(c)
  BY StatementsFinish
<1>4. /\ pc'[c] \in Answers /\ local'[c] = NoLocal /\ arg' = arg
  BY <1>2, <1>3, SMT DEF Finishes, Answer, Goto, Keep
<1>5. pc[c] \in Steps
  BY <1>3, SMT DEF StatementSteps, Steps
<1>6. arg[c].op = "updateUserCredentials" => WriteCredentials(c)
  <2>1. arg[c].op = "updateUserCredentials" => pc[c] = "updateCredentials"
    BY <1>2, <1>3, SMT DEF Course, StatementSteps, CreatesUser, CreatesGroup, ChangesOU
  <2>. QED  BY <2>1, CredentialStatement
<1>7. ComesFrom(c) /\ Course(c)' /\ LocalOK(c)'
  BY <1>4, <1>5, <1>6, EndsGo
<1>. QED  BY <1>1, <1>7 DEF Goes

-----------------------------------------------------------------------------
(* The beginnings of the operations.                                       *)

FirstSteps ==
    {"parent", "getOU", "path", "ouExists", "schemaOU", "deleteSchema", "getUser",
     "getCredentials", "deleteUser", "groupOU", "getGroup", "userIDs", "roleExists"}

StartsWell(c) == Starts(c) /\ FirstStep(c) /\ Course(c)' /\ LocalOK(c)'

\* A call begins with what its operation needs to know (DirectoryDB.Begin).
LEMMA BeginIs ==
    ASSUME Base, NEW c \in Calls, pc[c] = "idle", NEW r \in Requests, NEW first \in FirstSteps,
           NEW fields, Begin(c, r, first, fields)
    PROVE  /\ Starts(c)
           /\ pc'[c] = first /\ arg'[c] = r /\ local'[c] = fields
<1>1. /\ pc \in [Calls -> {"idle"} \cup Steps \cup Answers] /\ DOMAIN local = Calls
      /\ DOMAIN arg = Calls
  BY DEF Base, TypeOK
<1>2. first \in Steps
  BY SMT DEF FirstSteps, Steps
<1>3. /\ pc' = [pc EXCEPT ![c] = first] /\ local' = [local EXCEPT ![c] = fields]
      /\ arg' = [arg EXCEPT ![c] = r]
  BY DEF Begin, Goto, Keep
<1>4. Alone(c) /\ pc'[c] = first /\ arg'[c] = r /\ local'[c] = fields
  BY <1>1, <1>3, SMT DEF Alone
<1>. QED  BY <1>2, <1>3, <1>4, Zenon DEF Starts, Begin

\* What a call has read when its operation begins.
Beginnings(c) ==
    LET r == arg'[c] IN
    \/ local'[c] = [NoLocal EXCEPT !.ou = c] /\ r.op = "createOU" /\ pc'[c] = "parent"
    \/ /\ local'[c] = [NoLocal EXCEPT !.ou = r.ou] /\ r.ou \in OUs
       /\ \/ pc'[c] = "getOU" /\ r.op = "updateOU"
          \/ pc'[c] = "ouExists" /\ r.op \in {"deleteOU", "createUser", "updateUser"}
          \/ pc'[c] = "schemaOU" /\ r.op \in {"createSchema", "updateSchema"}
          \/ pc'[c] = "groupOU" /\ r.op = "createGroup"
          \/ pc'[c] = "getGroup" /\ r.op = "updateGroup"
          \/ pc'[c] = "userIDs" /\ r.op = "createRole"
          \/ pc'[c] = "roleExists" /\ r.op = "updateRole"
    \/ /\ local'[c] = [NoLocal EXCEPT !.path = r.path] /\ pc'[c] = "path"
       /\ r.op \in {"updateOUByPath", "deleteOUByPath", "createUserByPath", "createGroupByPath"}
    \/ /\ local'[c] = NoLocal
       /\ \/ pc'[c] = "deleteSchema" /\ r.op = "deleteSchema"
          \/ pc'[c] = "getUser" /\ r.op = "updateUserAttributes"
          \/ pc'[c] = "getCredentials" /\ r.op = "updateUserCredentials"
          \/ pc'[c] = "deleteUser" /\ r.op = "deleteUser"
          \/ pc'[c] = "getGroup" /\ r.op = "deleteGroup"
          \/ pc'[c] = "roleExists" /\ r.op \in {"deleteRole", "addAssignments", "removeAssignments"}

\* Such a beginning is one of a course, and what it needs is known.
LEMMA BeginningsStartWell ==
    ASSUME Base, NEW c \in Calls, Starts(c), arg'[c] \in Requests, Beginnings(c)
    PROVE  StartsWell(c)
<1>1. c \in OUs
  BY DEF OUs
<1>2. DOMAIN local'[c] = {"ou", "path", "walk", "row"}
  BY SMT DEF Beginnings, NoLocal
<1>3. FirstStep(c)
  BY SMT DEF FirstStep, Beginnings
<1>4. Course(c)'
  BY SMTT(20) DEF Course, Beginnings, CreatesUser, CreatesGroup, ChangesOU
<1>5. LocalOK(c)'
  <2>1. pc'[c] \in {"parent", "getOU", "ouExists", "groupOU", "userIDs"} => local'[c].ou \in OUs
    BY <1>1, SMT DEF Beginnings, NoLocal
  <2>2. arg'[c].op \in {"updateOU", "updateGroup", "createRole", "updateRole"} => local'[c].ou = arg'[c].ou
    BY SMT DEF Beginnings, NoLocal
  <2>. QED  BY <1>2, <1>3, <2>1, <2>2, SMT DEF LocalOK, FirstStep
<1>. QED  BY <1>3, <1>4, <1>5 DEF StartsWell

\* The operations of BeginOU.
LEMMA BeginOUStarts ==
    ASSUME Base, NEW c \in Calls, pc[c] = "idle", NEW r \in Requests, BeginOU(c, r)
    PROVE  StartsWell(c)
<1>1. ASSUME CreateOU(c, r) PROVE Starts(c) /\ arg'[c] \in Requests /\ Beginnings(c)
  <2>1. r.op = "createOU" /\ Begin(c, r, "parent", [NoLocal EXCEPT !.ou = c]) /\ "parent" \in FirstSteps
    BY <1>1, Zenon DEF CreateOU, FirstSteps
  <2>2. /\ Starts(c) /\ arg'[c] = r
        /\ pc'[c] = "parent" /\ local'[c] = [NoLocal EXCEPT !.ou = c]
    BY <2>1, BeginIs
  <2>. QED  BY <2>1, <2>2 DEF Beginnings
<1>2. ASSUME UpdateOU(c, r) PROVE Starts(c) /\ arg'[c] \in Requests /\ Beginnings(c)
  <2>1. r.op = "updateOU" /\ Begin(c, r, "getOU", [NoLocal EXCEPT !.ou = r.ou]) /\ "getOU" \in FirstSteps
    BY <1>2, Zenon DEF UpdateOU, FirstSteps
  <2>2. r.ou \in OUs
    BY <2>1, RequestsAssumption, Zenon
  <2>3. /\ Starts(c) /\ arg'[c] = r
        /\ pc'[c] = "getOU" /\ local'[c] = [NoLocal EXCEPT !.ou = r.ou]
    BY <2>1, BeginIs
  <2>. QED  BY <2>1, <2>2, <2>3 DEF Beginnings
<1>3. ASSUME UpdateOUByPath(c, r) PROVE Starts(c) /\ arg'[c] \in Requests /\ Beginnings(c)
  <2>1. r.op = "updateOUByPath" /\ Begin(c, r, "path", [NoLocal EXCEPT !.path = r.path]) /\ "path" \in FirstSteps
    BY <1>3, Zenon DEF UpdateOUByPath, FirstSteps
  <2>2. /\ Starts(c) /\ arg'[c] = r
        /\ pc'[c] = "path" /\ local'[c] = [NoLocal EXCEPT !.path = r.path]
    BY <2>1, BeginIs
  <2>. QED  BY <2>1, <2>2 DEF Beginnings
<1>4. ASSUME DeleteOU(c, r) PROVE Starts(c) /\ arg'[c] \in Requests /\ Beginnings(c)
  <2>1. r.op = "deleteOU" /\ Begin(c, r, "ouExists", [NoLocal EXCEPT !.ou = r.ou]) /\ "ouExists" \in FirstSteps
    BY <1>4, Zenon DEF DeleteOU, FirstSteps
  <2>2. r.ou \in OUs
    BY <2>1, RequestsAssumption, Zenon
  <2>3. /\ Starts(c) /\ arg'[c] = r
        /\ pc'[c] = "ouExists" /\ local'[c] = [NoLocal EXCEPT !.ou = r.ou]
    BY <2>1, BeginIs
  <2>. QED  BY <2>1, <2>2, <2>3 DEF Beginnings
<1>5. ASSUME DeleteOUByPath(c, r) PROVE Starts(c) /\ arg'[c] \in Requests /\ Beginnings(c)
  <2>1. r.op = "deleteOUByPath" /\ Begin(c, r, "path", [NoLocal EXCEPT !.path = r.path]) /\ "path" \in FirstSteps
    BY <1>5, Zenon DEF DeleteOUByPath, FirstSteps
  <2>2. /\ Starts(c) /\ arg'[c] = r
        /\ pc'[c] = "path" /\ local'[c] = [NoLocal EXCEPT !.path = r.path]
    BY <2>1, BeginIs
  <2>. QED  BY <2>1, <2>2 DEF Beginnings
<1>. QED  BY <1>1, <1>2, <1>3, <1>4, <1>5, BeginningsStartWell DEF BeginOU

\* The operations of BeginUser.
LEMMA BeginUserStarts ==
    ASSUME Base, NEW c \in Calls, pc[c] = "idle", NEW r \in Requests, BeginUser(c, r)
    PROVE  StartsWell(c)
<1>1. ASSUME CreateUserSchema(c, r) PROVE Starts(c) /\ arg'[c] \in Requests /\ Beginnings(c)
  <2>1. r.op = "createSchema" /\ Begin(c, r, "schemaOU", [NoLocal EXCEPT !.ou = r.ou]) /\ "schemaOU" \in FirstSteps
    BY <1>1, Zenon DEF CreateUserSchema, FirstSteps
  <2>2. r.ou \in OUs
    BY <2>1, RequestsAssumption, Zenon
  <2>3. /\ Starts(c) /\ arg'[c] = r
        /\ pc'[c] = "schemaOU" /\ local'[c] = [NoLocal EXCEPT !.ou = r.ou]
    BY <2>1, BeginIs
  <2>. QED  BY <2>1, <2>2, <2>3 DEF Beginnings
<1>2. ASSUME UpdateUserSchema(c, r) PROVE Starts(c) /\ arg'[c] \in Requests /\ Beginnings(c)
  <2>1. r.op = "updateSchema" /\ Begin(c, r, "schemaOU", [NoLocal EXCEPT !.ou = r.ou]) /\ "schemaOU" \in FirstSteps
    BY <1>2, Zenon DEF UpdateUserSchema, FirstSteps
  <2>2. r.ou \in OUs
    BY <2>1, RequestsAssumption, Zenon
  <2>3. /\ Starts(c) /\ arg'[c] = r
        /\ pc'[c] = "schemaOU" /\ local'[c] = [NoLocal EXCEPT !.ou = r.ou]
    BY <2>1, BeginIs
  <2>. QED  BY <2>1, <2>2, <2>3 DEF Beginnings
<1>3. ASSUME DeleteUserSchema(c, r) PROVE Starts(c) /\ arg'[c] \in Requests /\ Beginnings(c)
  <2>1. r.op = "deleteSchema" /\ Begin(c, r, "deleteSchema", NoLocal) /\ "deleteSchema" \in FirstSteps
    BY <1>3, Zenon DEF DeleteUserSchema, FirstSteps
  <2>2. /\ Starts(c) /\ arg'[c] = r
        /\ pc'[c] = "deleteSchema" /\ local'[c] = NoLocal
    BY <2>1, BeginIs
  <2>. QED  BY <2>1, <2>2 DEF Beginnings
<1>4. ASSUME CreateUser(c, r) PROVE Starts(c) /\ arg'[c] \in Requests /\ Beginnings(c)
  <2>1. r.op = "createUser" /\ Begin(c, r, "ouExists", [NoLocal EXCEPT !.ou = r.ou]) /\ "ouExists" \in FirstSteps
    BY <1>4, Zenon DEF CreateUser, FirstSteps
  <2>2. r.ou \in OUs
    BY <2>1, RequestsAssumption, Zenon
  <2>3. /\ Starts(c) /\ arg'[c] = r
        /\ pc'[c] = "ouExists" /\ local'[c] = [NoLocal EXCEPT !.ou = r.ou]
    BY <2>1, BeginIs
  <2>. QED  BY <2>1, <2>2, <2>3 DEF Beginnings
<1>5. ASSUME CreateUserByPath(c, r) PROVE Starts(c) /\ arg'[c] \in Requests /\ Beginnings(c)
  <2>1. r.op = "createUserByPath" /\ Begin(c, r, "path", [NoLocal EXCEPT !.path = r.path]) /\ "path" \in FirstSteps
    BY <1>5, Zenon DEF CreateUserByPath, FirstSteps
  <2>2. /\ Starts(c) /\ arg'[c] = r
        /\ pc'[c] = "path" /\ local'[c] = [NoLocal EXCEPT !.path = r.path]
    BY <2>1, BeginIs
  <2>. QED  BY <2>1, <2>2 DEF Beginnings
<1>6. ASSUME UpdateUser(c, r) PROVE Starts(c) /\ arg'[c] \in Requests /\ Beginnings(c)
  <2>1. r.op = "updateUser" /\ Begin(c, r, "ouExists", [NoLocal EXCEPT !.ou = r.ou]) /\ "ouExists" \in FirstSteps
    BY <1>6, Zenon DEF UpdateUser, FirstSteps
  <2>2. r.ou \in OUs
    BY <2>1, RequestsAssumption, Zenon
  <2>3. /\ Starts(c) /\ arg'[c] = r
        /\ pc'[c] = "ouExists" /\ local'[c] = [NoLocal EXCEPT !.ou = r.ou]
    BY <2>1, BeginIs
  <2>. QED  BY <2>1, <2>2, <2>3 DEF Beginnings
<1>7. ASSUME UpdateUserAttributes(c, r) PROVE Starts(c) /\ arg'[c] \in Requests /\ Beginnings(c)
  <2>1. r.op = "updateUserAttributes" /\ Begin(c, r, "getUser", NoLocal) /\ "getUser" \in FirstSteps
    BY <1>7, Zenon DEF UpdateUserAttributes, FirstSteps
  <2>2. /\ Starts(c) /\ arg'[c] = r
        /\ pc'[c] = "getUser" /\ local'[c] = NoLocal
    BY <2>1, BeginIs
  <2>. QED  BY <2>1, <2>2 DEF Beginnings
<1>8. ASSUME UpdateUserCredentials(c, r) PROVE Starts(c) /\ arg'[c] \in Requests /\ Beginnings(c)
  <2>1. r.op = "updateUserCredentials" /\ Begin(c, r, "getCredentials", NoLocal) /\ "getCredentials" \in FirstSteps
    BY <1>8, Zenon DEF UpdateUserCredentials, FirstSteps
  <2>2. /\ Starts(c) /\ arg'[c] = r
        /\ pc'[c] = "getCredentials" /\ local'[c] = NoLocal
    BY <2>1, BeginIs
  <2>. QED  BY <2>1, <2>2 DEF Beginnings
<1>9. ASSUME DeleteUser(c, r) PROVE Starts(c) /\ arg'[c] \in Requests /\ Beginnings(c)
  <2>1. r.op = "deleteUser" /\ Begin(c, r, "deleteUser", NoLocal) /\ "deleteUser" \in FirstSteps
    BY <1>9, Zenon DEF DeleteUser, FirstSteps
  <2>2. /\ Starts(c) /\ arg'[c] = r
        /\ pc'[c] = "deleteUser" /\ local'[c] = NoLocal
    BY <2>1, BeginIs
  <2>. QED  BY <2>1, <2>2 DEF Beginnings
<1>. QED  BY <1>1, <1>2, <1>3, <1>4, <1>5, <1>6, <1>7, <1>8, <1>9, BeginningsStartWell DEF BeginUser

\* The operations of BeginMembership.
LEMMA BeginMembershipStarts ==
    ASSUME Base, NEW c \in Calls, pc[c] = "idle", NEW r \in Requests, BeginMembership(c, r)
    PROVE  StartsWell(c)
<1>1. ASSUME CreateGroup(c, r) PROVE Starts(c) /\ arg'[c] \in Requests /\ Beginnings(c)
  <2>1. r.op = "createGroup" /\ Begin(c, r, "groupOU", [NoLocal EXCEPT !.ou = r.ou]) /\ "groupOU" \in FirstSteps
    BY <1>1, Zenon DEF CreateGroup, FirstSteps
  <2>2. r.ou \in OUs
    BY <2>1, RequestsAssumption, Zenon
  <2>3. /\ Starts(c) /\ arg'[c] = r
        /\ pc'[c] = "groupOU" /\ local'[c] = [NoLocal EXCEPT !.ou = r.ou]
    BY <2>1, BeginIs
  <2>. QED  BY <2>1, <2>2, <2>3 DEF Beginnings
<1>2. ASSUME CreateGroupByPath(c, r) PROVE Starts(c) /\ arg'[c] \in Requests /\ Beginnings(c)
  <2>1. r.op = "createGroupByPath" /\ Begin(c, r, "path", [NoLocal EXCEPT !.path = r.path]) /\ "path" \in FirstSteps
    BY <1>2, Zenon DEF CreateGroupByPath, FirstSteps
  <2>2. /\ Starts(c) /\ arg'[c] = r
        /\ pc'[c] = "path" /\ local'[c] = [NoLocal EXCEPT !.path = r.path]
    BY <2>1, BeginIs
  <2>. QED  BY <2>1, <2>2 DEF Beginnings
<1>3. ASSUME UpdateGroup(c, r) PROVE Starts(c) /\ arg'[c] \in Requests /\ Beginnings(c)
  <2>1. r.op = "updateGroup" /\ Begin(c, r, "getGroup", [NoLocal EXCEPT !.ou = r.ou]) /\ "getGroup" \in FirstSteps
    BY <1>3, Zenon DEF UpdateGroup, FirstSteps
  <2>2. r.ou \in OUs
    BY <2>1, RequestsAssumption, Zenon
  <2>3. /\ Starts(c) /\ arg'[c] = r
        /\ pc'[c] = "getGroup" /\ local'[c] = [NoLocal EXCEPT !.ou = r.ou]
    BY <2>1, BeginIs
  <2>. QED  BY <2>1, <2>2, <2>3 DEF Beginnings
<1>4. ASSUME DeleteGroup(c, r) PROVE Starts(c) /\ arg'[c] \in Requests /\ Beginnings(c)
  <2>1. r.op = "deleteGroup" /\ Begin(c, r, "getGroup", NoLocal) /\ "getGroup" \in FirstSteps
    BY <1>4, Zenon DEF DeleteGroup, FirstSteps
  <2>2. /\ Starts(c) /\ arg'[c] = r
        /\ pc'[c] = "getGroup" /\ local'[c] = NoLocal
    BY <2>1, BeginIs
  <2>. QED  BY <2>1, <2>2 DEF Beginnings
<1>5. ASSUME CreateRole(c, r) PROVE Starts(c) /\ arg'[c] \in Requests /\ Beginnings(c)
  <2>1. r.op = "createRole" /\ Begin(c, r, "userIDs", [NoLocal EXCEPT !.ou = r.ou]) /\ "userIDs" \in FirstSteps
    BY <1>5, Zenon DEF CreateRole, FirstSteps
  <2>2. r.ou \in OUs
    BY <2>1, RequestsAssumption, Zenon
  <2>3. /\ Starts(c) /\ arg'[c] = r
        /\ pc'[c] = "userIDs" /\ local'[c] = [NoLocal EXCEPT !.ou = r.ou]
    BY <2>1, BeginIs
  <2>. QED  BY <2>1, <2>2, <2>3 DEF Beginnings
<1>6. ASSUME UpdateRole(c, r) PROVE Starts(c) /\ arg'[c] \in Requests /\ Beginnings(c)
  <2>1. r.op = "updateRole" /\ Begin(c, r, "roleExists", [NoLocal EXCEPT !.ou = r.ou]) /\ "roleExists" \in FirstSteps
    BY <1>6, Zenon DEF UpdateRole, FirstSteps
  <2>2. r.ou \in OUs
    BY <2>1, RequestsAssumption, Zenon
  <2>3. /\ Starts(c) /\ arg'[c] = r
        /\ pc'[c] = "roleExists" /\ local'[c] = [NoLocal EXCEPT !.ou = r.ou]
    BY <2>1, BeginIs
  <2>. QED  BY <2>1, <2>2, <2>3 DEF Beginnings
<1>7. ASSUME DeleteRole(c, r) PROVE Starts(c) /\ arg'[c] \in Requests /\ Beginnings(c)
  <2>1. r.op = "deleteRole" /\ Begin(c, r, "roleExists", NoLocal) /\ "roleExists" \in FirstSteps
    BY <1>7, Zenon DEF DeleteRole, FirstSteps
  <2>2. /\ Starts(c) /\ arg'[c] = r
        /\ pc'[c] = "roleExists" /\ local'[c] = NoLocal
    BY <2>1, BeginIs
  <2>. QED  BY <2>1, <2>2 DEF Beginnings
<1>8. ASSUME AddAssignments(c, r) PROVE Starts(c) /\ arg'[c] \in Requests /\ Beginnings(c)
  <2>1. r.op = "addAssignments" /\ Begin(c, r, "roleExists", NoLocal) /\ "roleExists" \in FirstSteps
    BY <1>8, Zenon DEF AddAssignments, FirstSteps
  <2>2. /\ Starts(c) /\ arg'[c] = r
        /\ pc'[c] = "roleExists" /\ local'[c] = NoLocal
    BY <2>1, BeginIs
  <2>. QED  BY <2>1, <2>2 DEF Beginnings
<1>9. ASSUME RemoveAssignments(c, r) PROVE Starts(c) /\ arg'[c] \in Requests /\ Beginnings(c)
  <2>1. r.op = "removeAssignments" /\ Begin(c, r, "roleExists", NoLocal) /\ "roleExists" \in FirstSteps
    BY <1>9, Zenon DEF RemoveAssignments, FirstSteps
  <2>2. /\ Starts(c) /\ arg'[c] = r
        /\ pc'[c] = "roleExists" /\ local'[c] = NoLocal
    BY <2>1, BeginIs
  <2>. QED  BY <2>1, <2>2 DEF Beginnings
<1>. QED  BY <1>1, <1>2, <1>3, <1>4, <1>5, <1>6, <1>7, <1>8, <1>9, BeginningsStartWell DEF BeginMembership

-----------------------------------------------------------------------------
(* Every step starts a call, lets it look at the tables, or writes for it.  *)

\* Where the calls are, after a step of c.
Placed(c) == pc' = pc \/ \E step : pc' = [pc EXCEPT ![c] = step]

\* The actions move no other call.
LEMMA ActsPlace == ASSUME NEW c \in Calls, Acts(c) PROVE Placed(c)
<1>1. /\ \A step : Goto(c, step) => Placed(c)
      /\ pc' = pc => Placed(c)
  BY Zenon DEF Goto, Placed
<1>2. /\ \A a : Answer(c, a) => Placed(c)
      /\ \A holds, refusal, next : Check(c, holds, refusal, next) => Placed(c)
      /\ \A r, first, fields : Begin(c, r, first, fields) => Placed(c)
  BY <1>1, Zenon DEF Answer, Check, Begin
<1>3. ASSUME Statements(c) PROVE Placed(c)
  BY <1>2, <1>3, StatementsFinish, Zenon DEF Finishes
<1>4. ASSUME Fails(c) PROVE Placed(c)
  BY <1>2, <1>4, Zenon DEF Fails, NotWritten
<1>5. ASSUME NEW r \in Requests, BeginOU(c, r) PROVE Placed(c)
  BY <1>2, <1>5, Zenon
     DEF BeginOU, CreateOU, UpdateOU, UpdateOUByPath, DeleteOU, DeleteOUByPath
<1>6. ASSUME NEW r \in Requests, BeginUser(c, r) PROVE Placed(c)
  BY <1>2, <1>6, Zenon
     DEF BeginUser, CreateUserSchema, UpdateUserSchema, DeleteUserSchema, CreateUser, CreateUserByPath,
        UpdateUser, UpdateUserAttributes, UpdateUserCredentials, DeleteUser
<1>7. ASSUME NEW r \in Requests, BeginMembership(c, r) PROVE Placed(c)
  BY <1>2, <1>7, Zenon
     DEF BeginMembership, CreateGroup, CreateGroupByPath, UpdateGroup, DeleteGroup, CreateRole, UpdateRole,
        DeleteRole, AddAssignments, RemoveAssignments
<1>8. ASSUME ResolveHandle(c) PROVE Placed(c)
  BY <1>1, <1>2, <1>8, Zenon DEF ResolveHandle
<1>9. ASSUME GetOU(c) PROVE Placed(c)
  BY <1>1, <1>2, <1>9, Zenon DEF GetOU
<1>10. ASSUME OUExists(c) PROVE Placed(c)
  BY <1>1, <1>2, <1>10, Zenon DEF OUExists
<1>11. ASSUME ParentExists(c) PROVE Placed(c)
  BY <1>1, <1>2, <1>11, Zenon DEF ParentExists
<1>12. ASSUME CircularDependency(c) PROVE Placed(c)
  BY <1>1, <1>2, <1>12, Zenon DEF CircularDependency
<1>13. ASSUME OUNameFree(c) PROVE Placed(c)
  BY <1>1, <1>2, <1>13, Zenon DEF OUNameFree
<1>14. ASSUME OUHandleFree(c) PROVE Placed(c)
  BY <1>1, <1>2, <1>14, Zenon DEF OUHandleFree
<1>15. ASSUME NoChildResources(c) PROVE Placed(c)
  BY <1>1, <1>2, <1>15, Zenon DEF NoChildResources
<1>16. ASSUME IsParent(c) PROVE Placed(c)
  BY <1>1, <1>2, <1>16, Zenon DEF IsParent
<1>17. ASSUME SchemaOUExists(c) PROVE Placed(c)
  BY <1>1, <1>2, <1>17, Zenon DEF SchemaOUExists
<1>18. ASSUME GetSchema(c) PROVE Placed(c)
  BY <1>1, <1>2, <1>18, Zenon DEF GetSchema
<1>19. ASSUME SchemaNameFree(c) PROVE Placed(c)
  BY <1>1, <1>2, <1>19, Zenon DEF SchemaNameFree
<1>20. ASSUME SchemaOfType(c) PROVE Placed(c)
  BY <1>1, <1>2, <1>20, Zenon DEF SchemaOfType
<1>21. ASSUME GetUser(c) PROVE Placed(c)
  BY <1>1, <1>2, <1>21, Zenon DEF GetUser
<1>22. ASSUME ValidateUser(c) PROVE Placed(c)
  BY <1>1, <1>2, <1>22, Zenon DEF ValidateUser
<1>23. ASSUME ValidateUserUniqueness(c) PROVE Placed(c)
  BY <1>1, <1>2, <1>23, Zenon DEF ValidateUserUniqueness
<1>24. ASSUME GetCredentials(c) PROVE Placed(c)
  BY <1>1, <1>2, <1>24, Zenon DEF GetCredentials
<1>25. ASSUME GetGroup(c) PROVE Placed(c)
  BY <1>1, <1>2, <1>25, Zenon DEF GetGroup
<1>26. ASSUME GroupOUExists(c) PROVE Placed(c)
  BY <1>1, <1>2, <1>26, Zenon DEF GroupOUExists
<1>27. ASSUME UserIDsValid(c) PROVE Placed(c)
  BY <1>1, <1>2, <1>27, Zenon DEF UserIDsValid
<1>28. ASSUME GroupIDsValid(c) PROVE Placed(c)
  BY <1>1, <1>2, <1>28, Zenon DEF GroupIDsValid
<1>29. ASSUME GroupNameFree(c) PROVE Placed(c)
  BY <1>1, <1>2, <1>29, Zenon DEF GroupNameFree
<1>30. ASSUME RoleExists(c) PROVE Placed(c)
  BY <1>1, <1>2, <1>30, Zenon DEF RoleExists
<1>31. ASSUME RoleOUExists(c) PROVE Placed(c)
  BY <1>1, <1>2, <1>31, Zenon DEF RoleOUExists
<1>32. ASSUME RoleNameFree(c) PROVE Placed(c)
  BY <1>1, <1>2, <1>32, Zenon DEF RoleNameFree
<1>33. ASSUME RoleUnassigned(c) PROVE Placed(c)
  BY <1>1, <1>2, <1>33, Zenon DEF RoleUnassigned
<1>. QED
  BY <1>3, <1>4, <1>5, <1>6, <1>7, <1>8, <1>9, <1>10, <1>11, <1>12, <1>13, <1>14, <1>15, <1>16, <1>17,
     <1>18, <1>19, <1>20, <1>21, <1>22, <1>23, <1>24, <1>25, <1>26, <1>27, <1>28, <1>29, <1>30,
     <1>31, <1>32, <1>33, Zenon
     DEF Acts, StepOU, StepUser, StepMembership, Statements

Ends(c) == Writes(c) /\ ComesFrom(c) /\ Course(c)' /\ LocalOK(c)'

Moves(c) == Placed(c) /\ (StartsWell(c) \/ Goes(c) \/ Ends(c))

\* Every action of the directory is one of the three.
LEMMA ActsAre ==
    ASSUME Base, NEW c \in Calls, Acts(c)
    PROVE  Moves(c)
<1>0. Placed(c)
  BY ActsPlace
<1>1. CASE /\ pc[c] = "idle"
           /\ \E r \in Requests : BeginOU(c, r) \/ BeginUser(c, r) \/ BeginMembership(c, r)
  BY <1>0, <1>1, BeginOUStarts, BeginUserStarts, BeginMembershipStarts DEF Moves
<1>2. CASE Fails(c)
  BY <1>0, <1>2, FailsGoes DEF Moves
<1>3. CASE StepOU(c)
  BY <1>0, <1>3, OULooksGo, StatementsGo, Zenon DEF Moves, StepOU, Statements, Ends
<1>4. CASE StepUser(c)
  BY <1>0, <1>4, UserLooksGo, StatementsGo, Zenon DEF Moves, StepUser, Statements, Ends
<1>5. CASE StepMembership(c)
  BY <1>0, <1>5, MembershipLooksGo, StatementsGo, Zenon DEF Moves, StepMembership, Statements, Ends
<1>. QED  BY <1>1, <1>2, <1>3, <1>4, <1>5 DEF Acts

\* Every step of the directory is one of a call.
LEMMA NextMoves ==
    ASSUME Base, Next
    PROVE  \E c \in Calls : Moves(c)
BY ActsAre DEF Next, Acts

-----------------------------------------------------------------------------
(* What a step leaves as it is.                                            *)

\* An entry of a table is written.
LEMMA EntryWritten ==
    ASSUME NEW S, NEW T, NEW f \in [S -> T], NEW i, NEW v \in T
    PROVE  [f EXCEPT ![i] = v] \in [S -> T]
OBVIOUS

\* Only the call that moves changes its place, and it has not ended.  Calls that
\* run stay what they are to the others.
LEMMA MovesAlone ==
    ASSUME Base, NEW c \in Calls, Moves(c)
    PROVE  /\ ~Ended(c) /\ pc'[c] # "idle"
           /\ \A d \in Calls \ {c} :
                 /\ pc'[d] = pc[d] /\ local'[d] = local[d] /\ arg'[d] = arg[d]
                 /\ before'[d] = before[d] /\ (Ended(d)' <=> Ended(d))
           /\ pc[c] # "idle" => arg'[c] = arg[c] /\ before'[c] = before[c]
           /\ pc[c] = "idle" => before'[c] = {d \in Calls : Ended(d)}
           /\ DOMAIN local' = Calls
           /\ pc' \in [Calls -> {"idle"} \cup Steps \cup Answers]
           /\ arg' \in [Calls -> Requests \cup {None}]
           /\ before' \in [Calls -> SUBSET Calls]
           /\ stamp' \in [Facts -> Calls \cup {None}]
           /\ \A f \in Facts : stamp'[f] # stamp[f] => stamp'[f] = c /\ Ended(c)' /\ Writes(c)
<1>1. /\ pc \in [Calls -> {"idle"} \cup Steps \cup Answers] /\ DOMAIN local = Calls
      /\ arg \in [Calls -> Requests \cup {None}]
      /\ before \in [Calls -> SUBSET Calls]
      /\ stamp \in [Facts -> Calls \cup {None}]
  BY DEF Base, TypeOK
<1>2. Steps \cap Answers = {} /\ "idle" \notin Steps /\ "idle" \notin Answers
      /\ {"ok", "failed"} \subseteq Answers
  BY SMT DEF Steps, Answers
<1>3. /\ Alone(c) /\ pc[c] \in {"idle"} \cup Steps /\ pc'[c] \in Steps \cup Answers
      /\ \/ /\ pc[c] = "idle" /\ stamp' = stamp
            /\ \E r \in Requests : arg' = [arg EXCEPT ![c] = r]
            /\ before' = [before EXCEPT ![c] = {d \in Calls : Ended(d)}]
         \/ /\ pc[c] # "idle" /\ arg' = arg /\ before' = before
            /\ \/ stamp' = stamp
               \/ /\ Writes(c) /\ pc'[c] \in Answers
                  /\ stamp' \in [Facts -> Calls \cup {None}]
                  /\ \A f \in Facts : stamp'[f] \in {c, stamp[f]}
  <2>1. CASE Starts(c)
    BY <1>2, <2>1 DEF Starts
  <2>2. CASE Looks(c)
    BY <1>2, <2>2 DEF Looks
  <2>3. CASE Writes(c)
    <3>1. Signs(c)
      BY <2>3 DEF Writes
    <3>. QED  BY <1>2, <2>3, <3>1 DEF Signs
  <2>. QED  BY <2>1, <2>2, <2>3 DEF Moves, StartsWell, Goes, Ends
<1>4. ~Ended(c) /\ pc'[c] # "idle"
  BY <1>2, <1>3, SMT DEF Ended
<1>5. \A d \in Calls \ {c} : pc'[d] = pc[d] /\ local'[d] = local[d] /\ (Ended(d)' <=> Ended(d))
  BY <1>3 DEF Alone, Ended
<1>6. DOMAIN local' = Calls /\ pc' \in [Calls -> {"idle"} \cup Steps \cup Answers]
  <2>1. DOMAIN local' = Calls /\ DOMAIN pc' = Calls
    BY <1>3 DEF Alone
  <2>2. \A d \in Calls : pc'[d] \in {"idle"} \cup Steps \cup Answers
    BY <1>1, <1>3, <1>5, SMT
  <2>3. pc' = [d \in Calls |-> pc'[d]]
    BY <1>1, Zenon DEF Moves, Placed
  <2>. QED  BY <2>1, <2>2, <2>3, SMT
<1>7. /\ arg' \in [Calls -> Requests \cup {None}] /\ before' \in [Calls -> SUBSET Calls]
      /\ stamp' \in [Facts -> Calls \cup {None}]
      /\ \A d \in Calls \ {c} : arg'[d] = arg[d] /\ before'[d] = before[d]
      /\ pc[c] # "idle" => arg'[c] = arg[c] /\ before'[c] = before[c]
      /\ pc[c] = "idle" => before'[c] = {d \in Calls : Ended(d)}
  BY <1>1, <1>3, SMT
<1>8. \A f \in Facts : stamp'[f] # stamp[f] => stamp'[f] = c /\ Ended(c)' /\ Writes(c)
  BY <1>3, SMT DEF Ended
<1>. QED  BY <1>4, <1>5, <1>6, <1>7, <1>8

\* The courses of the calls go on.
LEMMA CoursesStay ==
    ASSUME Base, NEW c \in Calls, Moves(c), NEW d \in Calls
    PROVE  Course(d)' /\ LocalOK(d)'
<1>1. CASE d = c
  BY <1>1 DEF Moves, StartsWell, Goes, Ends
<1>2. CASE d # c
  <2>1. Course(d) /\ LocalOK(d)
    BY DEF Base
  <2>2. pc'[d] = pc[d] /\ local'[d] = local[d] /\ arg'[d] = arg[d]
    BY <1>2, MovesAlone, Zenon
  <2>3. Course(d)'
    BY <2>1, <2>2 DEF Course
  <2>4. LocalOK(d)'
    BY <2>1, <2>2 DEF LocalOK, Running, Ended
  <2>. QED  BY <2>3, <2>4
<1>. QED  BY <1>1, <1>2

\* Calls go on naming calls that have ended.
LEMMA HistoryStays ==
    ASSUME Base, NEW c \in Calls, Moves(c)
    PROVE  HistoryOK'
<1>1. HistoryOK /\ pc \in [Calls -> {"idle"} \cup Steps \cup Answers]
      /\ before \in [Calls -> SUBSET Calls] /\ stamp \in [Facts -> Calls \cup {None}]
  BY DEF Base, TypeOK
<1>2. ASSUME NEW d \in Calls, NEW e \in before'[d] PROVE e # d /\ Ended(e)'
  <2>1. \/ e \in before[d]
        \/ d = c /\ e \in Calls /\ Ended(e)
    BY <1>2, MovesAlone, Zenon
  <2>2. e \in Calls /\ Ended(e) /\ e # d
    BY <1>1, <2>1, MovesAlone, SMT DEF HistoryOK
  <2>. QED  BY <2>2, MovesAlone
<1>3. ASSUME NEW d \in Calls, pc'[d] = "idle" PROVE before'[d] = {}
  BY <1>1, <1>3, MovesAlone DEF HistoryOK
<1>4. ASSUME NEW f \in Facts, stamp'[f] # None PROVE pc'[stamp'[f]] \in Answers
  <2>1. /\ ~Ended(c)
        /\ stamp'[f] # stamp[f] => stamp'[f] = c /\ Ended(c)'
        /\ \A d \in Calls \ {c} : pc'[d] = pc[d]
    BY MovesAlone, Zenon
  <2>2. stamp[f] # None => stamp[f] \in Calls /\ Ended(stamp[f])
    BY <1>1, SMT DEF HistoryOK
  <2>3. CASE stamp'[f] # stamp[f]
    BY <2>1, <2>3 DEF Ended
  <2>4. CASE stamp'[f] = stamp[f]
    <3>1. stamp[f] \in Calls \ {c} /\ pc[stamp[f]] \in Answers
      BY <1>4, <2>1, <2>2, <2>4 DEF Ended
    <3>2. pc'[stamp[f]] = pc[stamp[f]]
      BY <2>1, <3>1
    <3>. QED  BY <2>4, <3>1, <3>2
  <2>. QED  BY <2>3, <2>4
<1>. QED  BY <1>2, <1>3, <1>4 DEF HistoryOK, Ended

\* What the requests of the operations say, by the step of a statement.
LEMMA StatementsAsk ==
    ASSUME Base, NEW c \in Calls
    PROVE  /\ pc[c] \in {"insertOU", "updateOU"}
              => arg[c].name \in Names /\ arg[c].handle \in Handles /\ arg[c].parent \in OUs \cup {None}
           /\ pc[c] \in {"insertSchema", "updateSchema"} => arg[c].name \in Types /\ arg[c].ou \in OUs
           /\ pc[c] \in {"updateSchema", "deleteSchema"} => arg[c].schema \in Schemas
           /\ pc[c] \in {"insertUser", "updateUser"}
              => arg[c].attr \in Attrs \cup {None} /\ UserType(c) \in Types
           /\ pc[c] = "insertUser" => arg[c].creds \subseteq CredTypes
           /\ pc[c] \in {"updateUser", "updateCredentials", "deleteUser"} => arg[c].user \in Users
           /\ pc[c] = "updateCredentials" => arg[c].cred \in CredTypes
           /\ pc[c] \in {"insertGroup", "updateGroup"}
              => arg[c].name \in Names /\ arg[c].members \subseteq Principals
           /\ pc[c] \in {"updateGroup", "deleteGroup"} => arg[c].group \in Groups
           /\ pc[c] \in {"insertRole", "updateRole"} => arg[c].name \in Names /\ arg[c].ou \in OUs
           /\ pc[c] = "insertRole" => arg[c].assigned \subseteq Principals
           /\ pc[c] = "addAssignments" => arg[c].assigned \subseteq Principals
           /\ pc[c] \in {"updateRole", "deleteRole", "addAssignments", "removeAssignments"}
              => arg[c].role \in Roles
<1>1. Course(c) /\ LocalOK(c)
  BY DEF Base
<1>2. pc[c] # "idle" => arg[c] \in Requests
  BY <1>1, Zenon DEF Course
<1>3. pc[c] \in {"insertOU", "updateOU"}
      => arg[c].name \in Names /\ arg[c].handle \in Handles /\ arg[c].parent \in OUs \cup {None}
  <2>1. pc[c] \in {"insertOU", "updateOU"} => arg[c].op \in {"createOU", "updateOU", "updateOUByPath"}
    BY <1>1, SMT DEF Course, ChangesOU
  <2>. QED  BY <1>2, <2>1, RequestsAssumption, Zenon
<1>4. /\ pc[c] \in {"insertSchema", "updateSchema"} => arg[c].name \in Types /\ arg[c].ou \in OUs
      /\ pc[c] \in {"updateSchema", "deleteSchema"} => arg[c].schema \in Schemas
  <2>1. /\ pc[c] = "insertSchema" => arg[c].op = "createSchema"
        /\ pc[c] = "updateSchema" => arg[c].op = "updateSchema"
        /\ pc[c] = "deleteSchema" => arg[c].op = "deleteSchema"
    BY <1>1, SMT DEF Course
  <2>. QED  BY <1>2, <2>1, RequestsAssumption, Zenon
<1>5. /\ pc[c] \in {"insertUser", "updateUser"}
         => arg[c].attr \in Attrs \cup {None} /\ UserType(c) \in Types
      /\ pc[c] = "insertUser" => arg[c].creds \subseteq CredTypes
      /\ pc[c] \in {"updateUser", "updateCredentials", "deleteUser"} => arg[c].user \in Users
      /\ pc[c] = "updateCredentials" => arg[c].cred \in CredTypes
  <2>1. /\ pc[c] = "insertUser" => arg[c].op \in {"createUser", "createUserByPath"}
        /\ pc[c] = "updateUser" => arg[c].op \in {"updateUser", "updateUserAttributes"}
        /\ pc[c] = "updateCredentials" => arg[c].op = "updateUserCredentials"
        /\ pc[c] = "deleteUser" => arg[c].op = "deleteUser"
    BY <1>1, SMT DEF Course, CreatesUser
  <2>2. pc[c] = "updateUser" /\ arg[c].op = "updateUserAttributes" => local[c].row \in Types
    BY <1>1, SMT DEF LocalOK
  <2>3. pc[c] \in {"insertUser", "updateUser"} => UserType(c) \in Types
    <3>1. pc[c] = "insertUser" => arg[c].type \in Types
      BY <1>2, <2>1, RequestsAssumption, Zenon
    <3>2. pc[c] = "updateUser" /\ arg[c].op = "updateUser" => arg[c].type \in Types
      BY <1>2, <2>1, RequestsAssumption, Zenon
    <3>. QED  BY <2>1, <2>2, <3>1, <3>2, SMT DEF UserType
  <2>. QED  BY <1>2, <2>1, <2>3, RequestsAssumption, Zenon
<1>6. /\ pc[c] \in {"insertGroup", "updateGroup"}
         => arg[c].name \in Names /\ arg[c].members \subseteq Principals
      /\ pc[c] \in {"updateGroup", "deleteGroup"} => arg[c].group \in Groups
  <2>1. /\ pc[c] = "insertGroup" => arg[c].op \in {"createGroup", "createGroupByPath"}
        /\ pc[c] = "updateGroup" => arg[c].op = "updateGroup"
        /\ pc[c] = "deleteGroup" => arg[c].op = "deleteGroup"
    BY <1>1, SMT DEF Course, CreatesGroup
  <2>. QED  BY <1>2, <2>1, RequestsAssumption, Zenon
<1>7. /\ pc[c] \in {"insertRole", "updateRole"} => arg[c].name \in Names /\ arg[c].ou \in OUs
      /\ pc[c] = "insertRole" => arg[c].assigned \subseteq Principals
      /\ pc[c] = "addAssignments" => arg[c].assigned \subseteq Principals
      /\ pc[c] \in {"updateRole", "deleteRole", "addAssignments", "removeAssignments"}
         => arg[c].role \in Roles
  <2>1. /\ pc[c] = "insertRole" => arg[c].op = "createRole"
        /\ pc[c] = "updateRole" => arg[c].op = "updateRole"
        /\ pc[c] = "deleteRole" => arg[c].op = "deleteRole"
        /\ pc[c] = "addAssignments" => arg[c].op = "addAssignments"
        /\ pc[c] = "removeAssignments" => arg[c].op = "removeAssignments"
    BY <1>1, SMT DEF Course
  <2>. QED  BY <1>2, <2>1, RequestsAssumption, Zenon
<1>. QED  BY <1>3, <1>4, <1>5, <1>6, <1>7

\* The rows that the statements write are whole.
LEMMA StatementsWrite ==
    ASSUME Base, NEW c \in Calls
    PROVE  /\ pc[c] \in {"insertOU", "updateOU"} => NewOU(c) \in OURows /\ NewOU(c) # None
           /\ pc[c] \in {"insertUser", "updateUser"}
              => \A creds \in [CredTypes -> Calls \cup {None}] :
                    NewUser(c, creds) \in UserRows /\ NewUser(c, creds) # None
           /\ pc[c] \in {"insertGroup", "updateGroup"} => NewGroup(c) \in GroupRows /\ NewGroup(c) # None
<1>1. LocalOK(c)
  BY DEF Base
<1>2. ASSUME pc[c] \in {"insertOU", "updateOU"} PROVE NewOU(c) \in OURows
  BY <1>2, StatementsAsk, SMT DEF NewOU, OURows
<1>3. ASSUME pc[c] \in {"insertUser", "updateUser"}, NEW creds \in [CredTypes -> Calls \cup {None}]
      PROVE  NewUser(c, creds) \in UserRows
  <2>1. local[c].ou \in OUs
    BY <1>1, <1>3, SMT DEF LocalOK
  <2>2. arg[c].attr \in Attrs \cup {None} /\ UserType(c) \in Types
    BY <1>3, StatementsAsk
  <2>. QED  BY <2>1, <2>2, SMT DEF NewUser, UserRows
<1>4. ASSUME pc[c] \in {"insertGroup", "updateGroup"} PROVE NewGroup(c) \in GroupRows
  <2>1. local[c].ou \in OUs
    BY <1>1, <1>4, SMT DEF LocalOK
  <2>2. arg[c].name \in Names /\ arg[c].members \subseteq Principals
    BY <1>4, StatementsAsk
  <2>. QED  BY <2>1, <2>2, SMT DEF NewGroup, GroupRows
<1>. QED  BY <1>2, <1>3, <1>4, NoneAssumption

\* The tables go on holding whole rows.
LEMMA TablesStay ==
    ASSUME Base, NEW c \in Calls, Moves(c)
    PROVE  [ous |-> ous, users |-> users, groups |-> groups, roles |-> roles, schemas |-> schemas]'
              \in Tables
<1>1. /\ ous \in [OUs -> OURows \cup {None}]
      /\ users \in [Users -> UserRows \cup {None}]
      /\ groups \in [Groups -> GroupRows \cup {None}]
      /\ roles \in [Roles -> RoleRows \cup {None}]
      /\ schemas \in [Schemas -> SchemaRows \cup {None}]
      /\ LocalOK(c)
  BY SMT DEF Base, TypeOK, Tables
<1>2. c \in OUs /\ c \in Users /\ c \in Groups /\ c \in Roles /\ c \in Schemas
  BY DEF OUs, Users, Groups, Roles, Schemas
<1>3. CASE UNCHANGED tables
  BY <1>1, <1>3, SMT DEF tables, Tables
<1>4. ASSUME OUsChange(c) PROVE ous' \in [OUs -> OURows \cup {None}]
  <2>1. CASE pc[c] \in {"insertOU", "updateOU"}
    <3>1. NewOU(c) \in OURows
      BY <2>1, StatementsWrite
    <3>2. local[c].ou \in OUs
      BY <1>1, <2>1, SMT DEF LocalOK
    <3>3. ous' = [ous EXCEPT ![c] = NewOU(c)] \/ ous' = [ous EXCEPT ![local[c].ou] = NewOU(c)]
      BY <1>4, <2>1, SMT DEF OUsChange, OUInserted, OUWritten, OURemoved
    <3>. QED  BY <1>1, <1>2, <3>1, <3>2, <3>3, SMT
  <2>2. CASE OURemoved(c)
    BY <1>1, <2>2, SMT DEF OURemoved
  <2>. QED  BY <1>4, <2>1, <2>2 DEF OUsChange, OUInserted, OUWritten
<1>5. ASSUME SchemasChange(c) PROVE schemas' \in [Schemas -> SchemaRows \cup {None}]
  <2>1. CASE SchemaWritten(c)
    <3>1. [name |-> arg[c].name, ou |-> arg[c].ou] \in SchemaRows
      BY <2>1, StatementsAsk, SMT DEF SchemaWritten, SchemaRows
    <3>. QED  BY <1>1, <2>1, <3>1, SMT DEF SchemaWritten
  <2>2. CASE SchemaRemoved(c)
    <3>1. schemas' = [schemas EXCEPT ![arg[c].schema] = None]
      BY <2>2 DEF SchemaRemoved
    <3>2. None \in SchemaRows \cup {None}
      OBVIOUS
    <3>. QED  BY <1>1, <3>1, <3>2, EntryWritten, Zenon
  <2>. QED  BY <1>5, <2>1, <2>2 DEF SchemasChange
<1>6. ASSUME UsersChange(c) PROVE users' \in [Users -> UserRows \cup {None}]
  <2>1. ASSUME NEW creds \in [CredTypes -> Calls \cup {None}], pc[c] \in {"insertUser", "updateUser"}
        PROVE  NewUser(c, creds) \in UserRows
    BY <2>1, StatementsWrite
  <2>2. CASE UserInserted(c)
    <3>1. [t \in CredTypes |-> IF t \in arg[c].creds THEN c ELSE None]
             \in [CredTypes -> Calls \cup {None}]
      BY SMT
    <3>. QED  BY <1>1, <1>2, <2>1, <2>2, <3>1, SMT DEF UserInserted
  <2>3. CASE UserWritten(c)
    <3>1. users[arg[c].user].creds \in [CredTypes -> Calls \cup {None}]
      BY <2>3, RowsAre DEF UserWritten, Base
    <3>2. arg[c].user \in Users
      BY <2>3 DEF UserWritten, PresentUsers
    <3>. QED  BY <1>1, <2>1, <2>3, <3>1, <3>2, SMT DEF UserWritten
  <2>4. CASE CredentialsWritten(c)
    <3>1. arg[c].user \in Users /\ users[arg[c].user] \in UserRows
      BY <2>4, RowsAre DEF CredentialsWritten, Base
    <3>2. MergedCredentials(c) \in [CredTypes -> Calls \cup {None}]
      <4>1. local[c].row \in [CredTypes -> Calls \cup {None}]
        BY <1>1, <2>4 DEF CredentialsWritten, LocalOK
      <4>2. c \in Calls \cup {None}
        OBVIOUS
      <4>. QED  BY <4>1, <4>2, EntryWritten, Zenon DEF MergedCredentials
    <3>3. [users[arg[c].user] EXCEPT !.creds = MergedCredentials(c)] \in UserRows
      BY <3>1, <3>2, SMT DEF UserRows
    <3>4. users' = [users EXCEPT ![arg[c].user].creds = MergedCredentials(c)]
      BY <2>4 DEF CredentialsWritten
    <3>. QED  BY <1>1, <3>1, <3>3, <3>4, SMT
  <2>5. CASE UserRemoved(c)
    <3>1. users' = [users EXCEPT ![arg[c].user] = None]
      BY <2>5 DEF UserRemoved
    <3>2. None \in UserRows \cup {None}
      OBVIOUS
    <3>. QED  BY <1>1, <3>1, <3>2, EntryWritten, Zenon
  <2>. QED  BY <1>6, <2>2, <2>3, <2>4, <2>5 DEF UsersChange
<1>7. ASSUME GroupsChange(c) PROVE groups' \in [Groups -> GroupRows \cup {None}]
  <2>1. ASSUME pc[c] \in {"insertGroup", "updateGroup"} PROVE NewGroup(c) \in GroupRows
    BY <2>1, StatementsWrite
  <2>2. CASE GroupInserted(c)
    BY <1>1, <1>2, <2>1, <2>2, SMT DEF GroupInserted
  <2>3. CASE GroupWritten(c)
    BY <1>1, <2>1, <2>3, SMT DEF GroupWritten, PresentGroups
  <2>4. CASE GroupRemoved(c)
    <3>1. groups' = [groups EXCEPT ![arg[c].group] = None]
      BY <2>4 DEF GroupRemoved
    <3>2. None \in GroupRows \cup {None}
      OBVIOUS
    <3>. QED  BY <1>1, <3>1, <3>2, EntryWritten, Zenon
  <2>. QED  BY <1>7, <2>2, <2>3, <2>4 DEF GroupsChange
<1>8. ASSUME RolesChange(c) PROVE roles' \in [Roles -> RoleRows \cup {None}]
  <2>1. CASE RoleInserted(c)
    <3>1. [name |-> arg[c].name, ou |-> arg[c].ou, assigned |-> arg[c].assigned] \in RoleRows
      BY <2>1, StatementsAsk, SMT DEF RoleInserted, RoleRows
    <3>. QED  BY <1>1, <1>2, <2>1, <3>1, SMT DEF RoleInserted
  <2>2. CASE RoleWritten(c)
    <3>1. arg[c].role \in Roles /\ roles[arg[c].role] \in RoleRows
      BY <2>2, RowsAre DEF RoleWritten, Base
    <3>2. arg[c].name \in Names /\ arg[c].ou \in OUs
      BY <2>2, StatementsAsk DEF RoleWritten
    <3>3. ASSUME NEW row \in RoleRows
          PROVE  [row EXCEPT !.name = arg[c].name] \in RoleRows
                 /\ [row EXCEPT !.ou = arg[c].ou] \in RoleRows
      BY <3>2, SMT DEF RoleRows
    <3>4. roles' = [roles EXCEPT ![arg[c].role].name = arg[c].name, ![arg[c].role].ou = arg[c].ou]
      BY <2>2 DEF RoleWritten
    <3> DEFINE row == [roles[arg[c].role] EXCEPT !.name = arg[c].name]
               mid == [roles EXCEPT ![arg[c].role] = row]
    <3>5. row \in RoleRows /\ [row EXCEPT !.ou = arg[c].ou] \in RoleRows
      BY <3>1, <3>3
    <3>6. mid \in [Roles -> RoleRows \cup {None}] /\ mid[arg[c].role] = row
      BY <1>1, <3>1, <3>5, SMT
    <3>7. roles' = [mid EXCEPT ![arg[c].role] = [mid[arg[c].role] EXCEPT !.ou = arg[c].ou]]
      BY <3>4
    <3>. QED  BY <3>5, <3>6, <3>7, EntryWritten, SMT
  <2>3. CASE RoleRemoved(c)
    <3>1. roles' = [roles EXCEPT ![arg[c].role] = None]
      BY <2>3 DEF RoleRemoved
    <3>2. None \in RoleRows \cup {None}
      OBVIOUS
    <3>. QED  BY <1>1, <3>1, <3>2, EntryWritten, Zenon
  <2>4. CASE AssignmentsAdded(c)
    <3>1. arg[c].role \in Roles /\ roles[arg[c].role] \in RoleRows
      BY <2>4, RowsAre DEF AssignmentsAdded, Base
    <3>2. arg[c].assigned \subseteq Principals
      BY <2>4, StatementsAsk DEF AssignmentsAdded
    <3>3. [roles[arg[c].role] EXCEPT !.assigned = @ \cup arg[c].assigned] \in RoleRows
      BY <3>1, <3>2, SMT DEF RoleRows
    <3>4. roles' = [roles EXCEPT ![arg[c].role].assigned = @ \cup arg[c].assigned]
      BY <2>4 DEF AssignmentsAdded
    <3>. QED  BY <1>1, <3>1, <3>3, <3>4, SMT
  <2>5. CASE AssignmentsTaken(c)
    <3>1. CASE arg[c].role \in PresentRoles
      <4>1. arg[c].role \in Roles /\ roles[arg[c].role] \in RoleRows
        BY <3>1, RowsAre DEF Base
      <4>2. [roles[arg[c].role] EXCEPT !.assigned = @ \ arg[c].assigned] \in RoleRows
        BY <4>1, SMT DEF RoleRows
      <4>3. roles' = [roles EXCEPT ![arg[c].role].assigned = @ \ arg[c].assigned]
        BY <2>5, <3>1 DEF AssignmentsTaken
      <4>. QED  BY <1>1, <4>1, <4>2, <4>3, SMT
    <3>2. CASE arg[c].role \notin PresentRoles
      BY <1>1, <2>5, <3>2 DEF AssignmentsTaken
    <3>. QED  BY <3>1, <3>2
  <2>. QED  BY <1>8, <2>1, <2>2, <2>3, <2>4, <2>5 DEF RolesChange
<1>9. CASE Writes(c)
  <2>1. ous' \in [OUs -> OURows \cup {None}]
    BY <1>1, <1>4, <1>9 DEF Writes, OUsSame
  <2>2. schemas' \in [Schemas -> SchemaRows \cup {None}]
    BY <1>1, <1>5, <1>9 DEF Writes, SchemasSame
  <2>3. users' \in [Users -> UserRows \cup {None}]
    BY <1>1, <1>6, <1>9 DEF Writes, UsersSame
  <2>4. groups' \in [Groups -> GroupRows \cup {None}]
    BY <1>1, <1>7, <1>9 DEF Writes, GroupsSame
  <2>5. roles' \in [Roles -> RoleRows \cup {None}]
    BY <1>1, <1>8, <1>9 DEF Writes, RolesSame
  <2>. QED  BY <2>1, <2>2, <2>3, <2>4, <2>5, SMT DEF Tables
<1>. QED  BY <1>3, <1>9 DEF Moves, StartsWell, Goes, Ends, Starts, Looks

\* The state of the calls, the tables and the history stays well formed.
LEMMA BaseStays ==
    ASSUME Base, NEW c \in Calls, Moves(c)
    PROVE  Base'
<1>1. \A d \in Calls : Course(d)' /\ LocalOK(d)'
  BY CoursesStay
<1>2. TypeOK'
  <2>1. \A d \in Calls : DOMAIN local'[d] = {"ou", "path", "walk", "row"}
    BY <1>1 DEF LocalOK
  <2>. QED  BY <2>1, TablesStay, MovesAlone DEF TypeOK
<1>3. DOMAIN local' = Calls
  BY MovesAlone
<1>. QED  BY <1>1, <1>2, <1>3, HistoryStays DEF Base

-----------------------------------------------------------------------------
(* What stays true of calls that overlap.                                  *)

\* A step changes at most one table, and only if it ends its call.
LEMMA MovesChange ==
    ASSUME NEW c \in Calls, Moves(c)
    PROVE  /\ OUsSame \/ (Ends(c) /\ OUsChange(c))
           /\ SchemasSame \/ (Ends(c) /\ SchemasChange(c))
           /\ UsersSame \/ (Ends(c) /\ UsersChange(c))
           /\ GroupsSame \/ (Ends(c) /\ GroupsChange(c))
           /\ RolesSame \/ (Ends(c) /\ RolesChange(c))
<1>1. CASE UNCHANGED <<tables, stamp>>
  BY <1>1 DEF tables, OUsSame, SchemasSame, UsersSame, GroupsSame, RolesSame, OUFieldsSame,
     OURemovalsSame, SchemaFactsSame, UserFieldsSame, UserRemovalsSame, GroupFieldsSame,
     GroupRemovalsSame, RoleFactsSame, AssignmentsSame
<1>2. CASE Ends(c)
  BY <1>2 DEF Ends, Writes
<1>. QED  BY <1>1, <1>2 DEF Moves, StartsWell, Goes, Starts, Looks

\* Calls keep what they ask for once they have begun.
LEMMA RequestsStay ==
    ASSUME Base, NEW c \in Calls, Moves(c), NEW d \in Calls, arg[d] # None
    PROVE  arg'[d] = arg[d] /\ before'[d] = before[d] /\ pc[d] # "idle"
<1>1. pc[d] # "idle"
  BY DEF Base, Course
<1>. QED  BY <1>1, MovesAlone

\* Calls that overlap go on overlapping.
LEMMA OverlapsStay ==
    ASSUME Base, NEW c \in Calls, Moves(c)
    PROVE  \A x, y \in Calls :
              pc[x] # "idle" /\ pc[y] # "idle" /\ Overlap(x, y)
              => x # y /\ x \notin before'[y] /\ y \notin before'[x]
BY MovesAlone, Zenon DEF Overlap

\* What was changed during a call was changed during it.
LEMMA SinceStays ==
    ASSUME Base, NEW c \in Calls, Moves(c), NEW d \in Calls, pc[d] # "idle", NEW f \in Facts,
           Since(f, d) \/ stamp'[f] # stamp[f]
    PROVE  Since(f, d)'
<1>1. before'[d] = before[d] /\ ~Ended(c)
  BY MovesAlone
<1>2. CASE stamp'[f] = stamp[f]
  BY <1>1, <1>2 DEF Since
<1>3. CASE stamp'[f] # stamp[f]
  <2>1. stamp'[f] = c
    BY <1>3, MovesAlone
  <2>2. c \notin before[d] /\ c # None
    BY <1>1, NoneAssumption DEF Base, HistoryOK
  <2>. QED  BY <1>1, <2>1, <2>2 DEF Since
<1>. QED  BY <1>2, <1>3

\* A call that writes overlaps those that changed something since it began.
LEMMA WriterOverlaps ==
    ASSUME Base, NEW c \in Calls, Moves(c), Ends(c), NEW f \in Facts, Since(f, c)
    PROVE  /\ stamp[f] \in Calls /\ stamp[f] # c
           /\ c \notin before'[stamp[f]] /\ stamp[f] \notin before'[c]
<1>1. /\ ~Ended(c) /\ pc[c] # "idle"
      /\ \A d \in Calls : before'[d] = before[d]
  <2>1. pc[c] \in Steps
    BY DEF Ends, Writes, Signs
  <2>2. pc[c] # "idle"
    BY <2>1, SMT DEF Steps
  <2>. QED  BY <2>2, MovesAlone
<1>2. stamp[f] \in Calls /\ Ended(stamp[f])
  BY DEF Base, TypeOK, HistoryOK, Since
<1>3. c \notin before[stamp[f]]
  BY <1>1, <1>2 DEF Base, HistoryOK
<1>. QED  BY <1>1, <1>2, <1>3 DEF Since

\* Signatures of calls that overlap.
LEMMA SignaturesOverlap ==
    ASSUME Base, NEW c \in Calls, Moves(c), NEW f \in Facts, NEW g \in Facts,
           stamp'[g] = stamp[g],
           \/ stamp'[f] = stamp[f] /\ Overlap(stamp[f], stamp[g])
           \/ stamp'[f] = c /\ Ends(c) /\ Since(g, c)
    PROVE  Overlap(stamp[f], stamp[g])' /\ Overlap(stamp[g], stamp[f])'
<1>1. CASE stamp'[f] = stamp[f] /\ Overlap(stamp[f], stamp[g])
  <2>1. /\ stamp[f] \in Calls /\ stamp[g] \in Calls
        /\ pc[stamp[f]] # "idle" /\ pc[stamp[g]] # "idle"
    BY <1>1 DEF Base, TypeOK, HistoryOK, Overlap, Ended, Answers
  <2>2. /\ stamp[f] # stamp[g]
        /\ stamp[f] \notin before'[stamp[g]] /\ stamp[g] \notin before'[stamp[f]]
    BY <1>1, <2>1, OverlapsStay
  <2>3. /\ stamp'[f] # None /\ stamp'[g] # None /\ stamp'[f] # stamp'[g]
        /\ stamp'[f] \notin before'[stamp'[g]] /\ stamp'[g] \notin before'[stamp'[f]]
    BY <1>1, <2>1, <2>2, NoneAssumption
  <2>. QED  BY <2>3 DEF Overlap
<1>2. CASE stamp'[f] = c /\ Ends(c) /\ Since(g, c)
  <2>1. /\ stamp[g] \in Calls /\ stamp[g] # c
        /\ c \notin before'[stamp[g]] /\ stamp[g] \notin before'[c]
    BY <1>2, WriterOverlaps
  <2>2. /\ stamp'[f] # None /\ stamp'[g] # None /\ stamp'[f] # stamp'[g]
        /\ stamp'[f] \notin before'[stamp'[g]] /\ stamp'[g] \notin before'[stamp'[f]]
    BY <1>2, <2>1, NoneAssumption
  <2>. QED  BY <2>2 DEF Overlap
<1>. QED  BY <1>1, <1>2

-----------------------------------------------------------------------------
(* The tables.                                                             *)

\* What is below a member of a subtree belongs to it.
LEMMA SubtreeClosed ==
    ASSUME NEW o \in OUs
    PROVE  /\ Subtree(o) \subseteq PresentOUs
           /\ o \in PresentOUs => o \in Subtree(o)
           /\ \A q \in PresentOUs : ous[q].parent \in Subtree(o) => q \in Subtree(o)
BY Zenon DEF Subtree

\* What a call creates is new, and what was removed stays away.
LEMMA NewRowsStay ==
    ASSUME Base, NewRows, NEW c \in Calls, Moves(c)
    PROVE  NewRows'
<1>1. /\ ous \in [OUs -> OURows \cup {None}]
      /\ users \in [Users -> UserRows \cup {None}]
      /\ groups \in [Groups -> GroupRows \cup {None}]
      /\ LocalOK(c)
  BY SMT DEF Base, TypeOK, Tables
<1>2. Calls \subseteq OUs /\ Calls \subseteq Users /\ Calls \subseteq Groups
  BY DEF OUs, Users, Groups
<1>3. /\ ~Ended(c)
      /\ \A d \in Calls \ {c} : ~Ended(d)' => ~Ended(d)
      /\ Ends(c) => Ended(c)'
  <2>1. Ends(c) => Ended(c)'
    BY DEF Ends, Writes, Signs, Ended, Answers
  <2>. QED  BY <2>1, MovesAlone
<1>4. ASSUME NEW d \in Calls, ~Ended(d)'
      PROVE  ous'[d] = None /\ stamp'[<<"ou", d, "removed">>] = None
  <2>1. ~Ended(d) /\ ous[d] = None /\ stamp[<<"ou", d, "removed">>] = None
    BY <1>3, <1>4 DEF NewRows
  <2>2. CASE OUsSame
    BY <1>2, <2>1, <2>2 DEF OUsSame, OURemovalsSame
  <2>3. CASE Ends(c) /\ OUsChange(c)
    <3>1. d # c /\ d \in OUs /\ d \notin PresentOUs
      BY <1>2, <1>3, <1>4, <2>1, <2>3 DEF PresentOUs
    <3>2. CASE OUInserted(c)
      BY <1>1, <2>1, <3>1, <3>2, SMT DEF OUInserted, OURemovalsSame
    <3>3. CASE OUWritten(c)
      BY <1>1, <2>1, <3>1, <3>3, SMT DEF OUWritten, OURemovalsSame
    <3>4. CASE OURemoved(c)
      <4>1. d \notin Subtree(local[c].ou)
        BY <3>1 DEF Subtree
      <4>. QED  BY <2>1, <3>1, <3>4, <4>1, SMT DEF OURemoved
    <3>. QED  BY <2>3, <3>2, <3>3, <3>4 DEF OUsChange
  <2>. QED  BY <2>2, <2>3, MovesChange
<1>5. ASSUME NEW d \in Calls, ~Ended(d)' PROVE users'[d] = None
  <2>1. ~Ended(d) /\ users[d] = None
    BY <1>3, <1>5 DEF NewRows
  <2>2. CASE UsersSame
    BY <2>1, <2>2 DEF UsersSame
  <2>3. CASE Ends(c) /\ UsersChange(c)
    <3>1. d # c /\ d \in Users /\ d \notin PresentUsers
      BY <1>2, <1>3, <1>5, <2>1, <2>3 DEF PresentUsers
    <3>2. CASE UserInserted(c)
      BY <1>1, <2>1, <3>1, <3>2, SMT DEF UserInserted
    <3>3. CASE UserWritten(c)
      BY <1>1, <2>1, <3>1, <3>3, SMT DEF UserWritten
    <3>4. CASE CredentialsWritten(c)
      BY <1>1, <2>1, <3>1, <3>4, SMT DEF CredentialsWritten
    <3>5. CASE UserRemoved(c)
      BY <1>1, <2>1, <3>1, <3>5, SMT DEF UserRemoved
    <3>. QED  BY <2>3, <3>2, <3>3, <3>4, <3>5 DEF UsersChange
  <2>. QED  BY <2>2, <2>3, MovesChange
<1>6. ASSUME NEW d \in Calls, ~Ended(d)' PROVE groups'[d] = None
  <2>1. ~Ended(d) /\ groups[d] = None
    BY <1>3, <1>6 DEF NewRows
  <2>2. CASE GroupsSame
    BY <2>1, <2>2 DEF GroupsSame
  <2>3. CASE Ends(c) /\ GroupsChange(c)
    <3>1. d # c /\ d \in Groups /\ d \notin PresentGroups
      BY <1>2, <1>3, <1>6, <2>1, <2>3 DEF PresentGroups
    <3>2. CASE GroupInserted(c)
      BY <1>1, <2>1, <3>1, <3>2, SMT DEF GroupInserted
    <3>3. CASE GroupWritten(c)
      BY <1>1, <2>1, <3>1, <3>3, SMT DEF GroupWritten
    <3>4. CASE GroupRemoved(c)
      BY <1>1, <2>1, <3>1, <3>4, SMT DEF GroupRemoved
    <3>. QED  BY <2>3, <3>2, <3>3, <3>4 DEF GroupsChange
  <2>. QED  BY <2>2, <2>3, MovesChange
<1>7. ASSUME NEW o \in OUs, stamp'[<<"ou", o, "removed">>] # None PROVE ous'[o] = None
  <2>1. stamp[<<"ou", o, "removed">>] # None => ous[o] = None
    BY DEF NewRows
  <2>2. CASE OUsSame
    BY <1>7, <2>1, <2>2 DEF OUsSame, OURemovalsSame
  <2>3. CASE OUInserted(c)
    <3>1. o # c
      BY <1>3, <1>7, <2>3 DEF NewRows, OUInserted, OURemovalsSame
    <3>. QED  BY <1>1, <1>7, <2>1, <2>3, <3>1, SMT DEF OUInserted, OURemovalsSame
  <2>4. CASE OUWritten(c)
    <3>1. o \notin PresentOUs
      BY <1>7, <2>1, <2>4 DEF OUWritten, OURemovalsSame, PresentOUs
    <3>. QED  BY <1>1, <1>7, <2>1, <2>4, <3>1, SMT DEF OUWritten, OURemovalsSame
  <2>5. CASE OURemoved(c)
    BY <1>7, <2>1, <2>5, SMT DEF OURemoved
  <2>. QED  BY <2>2, <2>3, <2>4, <2>5, MovesChange DEF OUsChange
<1>. QED  BY <1>4, <1>5, <1>6, <1>7 DEF NewRows

\* Parents are there: the foreign key holds, and a deletion takes all that is
\* below.
LEMMA ParentsStay ==
    ASSUME Base, ParentsThere, NEW c \in Calls, Moves(c)
    PROVE  ParentsThere'
<1>1. ous \in [OUs -> OURows \cup {None}] /\ LocalOK(c) /\ c \in OUs
  BY SMT DEF Base, TypeOK, Tables, OUs
<1>2. CASE OUsSame
  BY <1>2 DEF OUsSame, ParentsThere, PresentOUs
<1>3. ASSUME OUInserted(c) \/ OUWritten(c) PROVE ParentsThere'
  <2>1. PICK o \in OUs : /\ ous' = [ous EXCEPT ![o] = NewOU(c)] /\ ParentKey(c)
                         /\ pc[c] \in {"insertOU", "updateOU"}
    BY <1>1, <1>3 DEF OUInserted, OUWritten, PresentOUs
  <2>2. NewOU(c) # None /\ NewOU(c).parent = arg[c].parent
    BY <2>1, StatementsWrite DEF NewOU
  <2>3. \A q \in OUs : ous'[q] = IF q = o THEN NewOU(c) ELSE ous[q]
    BY <1>1, <2>1
  <2>4. PresentOUs' = PresentOUs \cup {o}
    BY <2>2, <2>3 DEF PresentOUs
  <2>. QED  BY <2>1, <2>2, <2>3, <2>4, SMT DEF ParentsThere, ParentKey, PresentOUs
<1>4. ASSUME OURemoved(c) PROVE ParentsThere'
  <2>1. local[c].ou \in OUs
    BY <1>1, <1>4, SMT DEF LocalOK, OURemoved
  <2>2. \A q \in OUs : ous'[q] = IF q \in Subtree(local[c].ou) THEN None ELSE ous[q]
    BY <1>4 DEF OURemoved
  <2>3. PresentOUs' = PresentOUs \ Subtree(local[c].ou)
    BY <2>2 DEF PresentOUs
  <2>4. ASSUME NEW q \in PresentOUs' PROVE ous'[q].parent \in PresentOUs' \cup {None}
    <3>1. q \in PresentOUs /\ q \notin Subtree(local[c].ou) /\ ous'[q] = ous[q]
      BY <2>2, <2>3, <2>4 DEF PresentOUs
    <3>2. ous[q].parent \in PresentOUs \cup {None}
      BY <3>1 DEF ParentsThere
    <3>3. ous[q].parent \notin Subtree(local[c].ou)
      BY <2>1, <3>1, SubtreeClosed
    <3>. QED  BY <2>3, <3>1, <3>2, <3>3
  <2>. QED  BY <2>4 DEF ParentsThere
<1>. QED  BY <1>2, <1>3, <1>4, MovesChange DEF OUsChange

-----------------------------------------------------------------------------
(* A fact that is not signed in a step is as it was.                       *)

\* The row that call c inserts or updates.
WritesOU(c, o) ==
    Ends(c) /\ ((pc[c] = "insertOU" /\ o = c) \/ (pc[c] = "updateOU" /\ o = local[c].ou))
WritesUser(c, u) ==
    Ends(c) /\ ((pc[c] = "insertUser" /\ u = c) \/ (pc[c] = "updateUser" /\ u = arg[c].user))
WritesGroup(c, g) ==
    Ends(c) /\ ((pc[c] = "insertGroup" /\ g = c) \/ (pc[c] = "updateGroup" /\ g = arg[c].group))

\* No call has signed anything before it writes.
LEMMA NotSigned ==
    ASSUME Base, NEW c \in Calls, Moves(c)
    PROVE  \A f \in Facts : stamp[f] # c
<1>1. ~Ended(c)
  BY MovesAlone
<1>. QED  BY <1>1, NoneAssumption DEF Base, HistoryOK

\* Organization units.
LEMMA OUsMove ==
    ASSUME Base, NEW c \in Calls, Moves(c)
    PROVE  /\ \A o \in PresentOUs' : \A f \in OUFields :
                 \/ /\ stamp'[<<"ou", o, f>>] = stamp[<<"ou", o, f>>]
                    /\ o \in PresentOUs
                    /\ ous'[o].parent = ous[o].parent /\ ous'[o][f] = ous[o][f]
                 \/ /\ stamp'[<<"ou", o, f>>] = c /\ stamp[<<"ou", o, f>>] # c
                    /\ WritesOU(c, o) /\ ParentKey(c)
                    /\ ous'[o] = NewOU(c)
           /\ \A o \in PresentOUs :
                 \/ o \in PresentOUs' /\ stamp'[<<"ou", o, "removed">>] = stamp[<<"ou", o, "removed">>]
                 \/ stamp'[<<"ou", o, "removed">>] = c /\ stamp[<<"ou", o, "removed">>] # c
           /\ \A o \in OUs :
                 stamp'[<<"ou", o, "removed">>] # stamp[<<"ou", o, "removed">>]
                 => /\ Ends(c) /\ OURemoved(c)
                    /\ o \in Subtree(local[c].ou) /\ o \in PresentOUs /\ o \notin PresentOUs'
                    /\ stamp'[<<"ou", o, "removed">>] = c
<1>1. ous \in [OUs -> OURows \cup {None}] /\ LocalOK(c) /\ c \in OUs
  BY SMT DEF Base, TypeOK, Tables, OUs
<1>2. /\ \A o \in OUs : \A f \in OUFields : stamp[<<"ou", o, f>>] # c
      /\ \A o \in OUs : stamp[<<"ou", o, "removed">>] # c
  BY NotSigned, FactsAre, Zenon
<1>3. CASE OUsSame
  BY <1>2, <1>3 DEF OUsSame, OUFieldsSame, OURemovalsSame, PresentOUs
<1>4. ASSUME OUInserted(c), Ends(c)
      PROVE  /\ \A o \in PresentOUs' : \A f \in OUFields :
                   \/ /\ stamp'[<<"ou", o, f>>] = stamp[<<"ou", o, f>>]
                      /\ o \in PresentOUs
                      /\ ous'[o].parent = ous[o].parent /\ ous'[o][f] = ous[o][f]
                   \/ /\ stamp'[<<"ou", o, f>>] = c /\ stamp[<<"ou", o, f>>] # c
                      /\ WritesOU(c, o) /\ ParentKey(c)
                      /\ ous'[o] = NewOU(c)
             /\ PresentOUs \subseteq PresentOUs' /\ OURemovalsSame
  <2>1. /\ \A q \in OUs : ous'[q] = IF q = c THEN NewOU(c) ELSE ous[q]
        /\ pc[c] = "insertOU" /\ ParentKey(c) /\ OURemovalsSame
        /\ \A o \in OUs : \A f \in OUFields :
              stamp'[<<"ou", o, f>>] = IF o = c THEN c ELSE stamp[<<"ou", o, f>>]
    BY <1>1, <1>4 DEF OUInserted
  <2>2. NewOU(c) # None
    BY <2>1, StatementsWrite
  <2>3. /\ WritesOU(c, c) /\ PresentOUs \subseteq PresentOUs'
        /\ \A o \in PresentOUs' : o \in OUs /\ (o # c => o \in PresentOUs)
    <3>1. WritesOU(c, c)
      BY <1>4, <2>1 DEF WritesOU
    <3>. QED  BY <2>1, <2>2, <3>1 DEF PresentOUs
  <2>. QED  BY <1>2, <2>1, <2>3, Zenon
<1>5. ASSUME OUWritten(c), Ends(c)
      PROVE  /\ \A o \in PresentOUs' : \A f \in OUFields :
                   \/ /\ stamp'[<<"ou", o, f>>] = stamp[<<"ou", o, f>>]
                      /\ o \in PresentOUs
                      /\ ous'[o].parent = ous[o].parent /\ ous'[o][f] = ous[o][f]
                   \/ /\ stamp'[<<"ou", o, f>>] = c /\ stamp[<<"ou", o, f>>] # c
                      /\ WritesOU(c, o) /\ ParentKey(c)
                      /\ ous'[o] = NewOU(c)
             /\ PresentOUs \subseteq PresentOUs' /\ OURemovalsSame
  <2>1. local[c].ou \in PresentOUs /\ local[c].ou \in OUs
    BY <1>5 DEF OUWritten, PresentOUs
  <2>2. /\ \A q \in OUs : ous'[q] = IF q = local[c].ou THEN NewOU(c) ELSE ous[q]
        /\ pc[c] = "updateOU" /\ ParentKey(c) /\ OURemovalsSame
    BY <1>1, <1>5 DEF OUWritten
  <2>3. \A q \in OUs : \A f \in OUFields :
          stamp'[<<"ou", q, f>>] =
              IF /\ q = local[c].ou
                 /\ ous[local[c].ou].parent # arg[c].parent \/ ous[local[c].ou][f] # arg[c][f]
              THEN c ELSE stamp[<<"ou", q, f>>]
    BY <1>5 DEF OUWritten
  <2>4. NewOU(c) # None
    BY <2>2, StatementsWrite
  <2>5. \A f \in OUFields : NewOU(c)[f] = arg[c][f] /\ NewOU(c).parent = arg[c].parent
    BY SMT DEF NewOU, OUFields
  <2>6. WritesOU(c, local[c].ou)
    BY <1>5, <2>2 DEF WritesOU
  <2>7. PresentOUs \subseteq PresentOUs' /\ \A o \in PresentOUs' : o \in PresentOUs
    BY <2>1, <2>2, <2>4 DEF PresentOUs
  <2>8. ASSUME NEW o \in PresentOUs', NEW f \in OUFields
        PROVE  \/ /\ stamp'[<<"ou", o, f>>] = stamp[<<"ou", o, f>>]
                  /\ o \in PresentOUs
                  /\ ous'[o].parent = ous[o].parent /\ ous'[o][f] = ous[o][f]
               \/ /\ stamp'[<<"ou", o, f>>] = c /\ stamp[<<"ou", o, f>>] # c
                  /\ WritesOU(c, o) /\ ParentKey(c)
                  /\ ous'[o] = NewOU(c)
    <3>1. o \in OUs /\ o \in PresentOUs
      BY <2>7 DEF PresentOUs
    <3>2. CASE o # local[c].ou
      BY <2>2, <2>3, <3>1, <3>2, Zenon
    <3>3. CASE o = local[c].ou
      <4>1. ous'[o] = NewOU(c)
        BY <2>2, <3>1, <3>3
      <4>2. CASE ous[o].parent # arg[c].parent \/ ous[o][f] # arg[c][f]
        BY <1>2, <2>2, <2>3, <2>6, <3>1, <3>3, <4>1, <4>2, Zenon
      <4>3. CASE ous[o].parent = arg[c].parent /\ ous[o][f] = arg[c][f]
        BY <2>3, <2>5, <3>1, <3>3, <4>1, <4>3, Zenon
      <4>. QED  BY <4>2, <4>3
    <3>. QED  BY <3>2, <3>3
  <2>. QED  BY <2>2, <2>7, <2>8
<1>6. ASSUME OURemoved(c), Ends(c)
      PROVE  /\ OUFieldsSame /\ PresentOUs' = PresentOUs \ Subtree(local[c].ou)
             /\ \A o \in PresentOUs' : ous'[o] = ous[o]
             /\ \A o \in OUs : stamp'[<<"ou", o, "removed">>] =
                   IF o \in Subtree(local[c].ou) THEN c ELSE stamp[<<"ou", o, "removed">>]
  <2>1. \A q \in OUs : ous'[q] = IF q \in Subtree(local[c].ou) THEN None ELSE ous[q]
    BY <1>6 DEF OURemoved
  <2>2. PresentOUs' = PresentOUs \ Subtree(local[c].ou)
    BY <2>1 DEF PresentOUs
  <2>3. \A o \in PresentOUs' : ous'[o] = ous[o]
    BY <2>1, <2>2 DEF PresentOUs
  <2>. QED  BY <1>6, <2>2, <2>3 DEF OURemoved
<1>7. CASE OUInserted(c) /\ Ends(c)
  BY <1>2, <1>4, <1>7 DEF OURemovalsSame, PresentOUs
<1>8. CASE OUWritten(c) /\ Ends(c)
  BY <1>2, <1>5, <1>8 DEF OURemovalsSame, PresentOUs
<1>9. CASE OURemoved(c) /\ Ends(c)
  <2>1. PresentOUs \subseteq OUs /\ PresentOUs' \subseteq OUs /\ Subtree(local[c].ou) \subseteq PresentOUs
    BY DEF PresentOUs, Subtree
  <2>. QED  BY <1>2, <1>6, <1>9, <2>1, Zenon DEF OUFieldsSame
<1>. QED  BY <1>3, <1>7, <1>8, <1>9, MovesChange DEF OUsChange

\* Users.
LEMMA UsersMove ==
    ASSUME Base, NEW c \in Calls, Moves(c)
    PROVE  /\ \A u \in PresentUsers' : \A f \in UserFields :
                 \/ /\ stamp'[<<"user", u, f>>] = stamp[<<"user", u, f>>]
                    /\ u \in PresentUsers /\ users'[u][f] = users[u][f]
                 \/ /\ stamp'[<<"user", u, f>>] = c /\ stamp[<<"user", u, f>>] # c
                    /\ WritesUser(c, u)
                    /\ users'[u][f] = NewUser(c, None)[f]
           /\ \A u \in PresentUsers :
                 \/ u \in PresentUsers' /\ stamp'[<<"user", u, "removed">>] = stamp[<<"user", u, "removed">>]
                 \/ stamp'[<<"user", u, "removed">>] = c /\ stamp[<<"user", u, "removed">>] # c
           /\ \A u \in Users :
                 stamp'[<<"user", u, "removed">>] # stamp[<<"user", u, "removed">>]
                 => u \in PresentUsers /\ stamp'[<<"user", u, "removed">>] = c
<1>1. users \in [Users -> UserRows \cup {None}] /\ LocalOK(c) /\ c \in Users
  BY SMT DEF Base, TypeOK, Tables, Users
<1>2. /\ \A u \in Users : \A f \in UserFields : stamp[<<"user", u, f>>] # c
      /\ \A u \in Users : stamp[<<"user", u, "removed">>] # c
  BY NotSigned, FactsAre, Zenon
<1>3. PresentUsers \subseteq Users /\ PresentUsers' \subseteq Users
  BY DEF PresentUsers
<1>4. \A creds : \A f \in UserFields : NewUser(c, creds)[f] = NewUser(c, None)[f]
  BY SMT DEF NewUser, UserFields
<1>5. CASE UsersSame
  BY <1>2, <1>5 DEF UsersSame, UserFieldsSame, UserRemovalsSame, PresentUsers
<1>6. CASE UserInserted(c) /\ Ends(c)
  <2> DEFINE creds == [t \in CredTypes |-> IF t \in arg[c].creds THEN c ELSE None]
  <2>1. /\ \A q \in Users : users'[q] = IF q = c THEN NewUser(c, creds) ELSE users[q]
        /\ pc[c] = "insertUser" /\ UserRemovalsSame
        /\ \A u \in Users : \A f \in UserFields :
              stamp'[<<"user", u, f>>] = IF u = c THEN c ELSE stamp[<<"user", u, f>>]
    BY <1>1, <1>6 DEF UserInserted
  <2>2. creds \in [CredTypes -> Calls \cup {None}]
    BY SMT
  <2> HIDE DEF creds
  <2>3. NewUser(c, creds) # None
    BY <2>1, <2>2, StatementsWrite
  <2>4. PresentUsers \subseteq PresentUsers'
    BY <2>1, <2>3 DEF PresentUsers
  <2>5. \A u \in PresentUsers' : u # c => u \in PresentUsers
    BY <2>1 DEF PresentUsers
  <2>6. WritesUser(c, c)
    BY <1>6, <2>1, Zenon DEF WritesUser
  <2>7. ASSUME NEW u \in PresentUsers', NEW f \in UserFields
        PROVE  \/ /\ stamp'[<<"user", u, f>>] = stamp[<<"user", u, f>>]
                  /\ u \in PresentUsers /\ users'[u][f] = users[u][f]
               \/ /\ stamp'[<<"user", u, f>>] = c /\ stamp[<<"user", u, f>>] # c
                  /\ WritesUser(c, u)
                  /\ users'[u][f] = NewUser(c, None)[f]
    <3>1. CASE u = c
      <4>1. users'[u] = NewUser(c, creds) /\ stamp'[<<"user", u, f>>] = c
        BY <1>1, <2>1, <3>1, Zenon
      <4>2. stamp[<<"user", u, f>>] # c
        BY <1>2, <1>3
      <4>3. users'[u][f] = NewUser(c, None)[f]
        BY <1>4, <4>1, Zenon
      <4>. QED  BY <2>6, <3>1, <4>1, <4>2, <4>3
    <3>2. CASE u # c
      BY <1>3, <2>1, <2>5, <3>2, Zenon
    <3>. QED  BY <3>1, <3>2
  <2>. QED  BY <1>3, <2>1, <2>4, <2>7 DEF UserRemovalsSame
<1>7. CASE UserWritten(c) /\ Ends(c)
  <2> DEFINE row == NewUser(c, users[arg[c].user].creds)
  <2>1. arg[c].user \in PresentUsers /\ pc[c] = "updateUser" /\ UserRemovalsSame
    BY <1>7 DEF UserWritten
  <2>2. \A q \in Users : users'[q] = IF q = arg[c].user THEN row ELSE users[q]
    BY <1>1, <1>7 DEF UserWritten
  <2>3. \A v \in Users : \A f \in UserFields :
          stamp'[<<"user", v, f>>] =
              IF v = arg[c].user /\ users[arg[c].user][f] # NewUser(c, None)[f]
              THEN c ELSE stamp[<<"user", v, f>>]
    BY <1>7 DEF UserWritten
  <2>4. row # None
    <3>1. users[arg[c].user].creds \in [CredTypes -> Calls \cup {None}]
      BY <2>1, RowsAre DEF Base
    <3>. QED  BY <2>1, <3>1, StatementsWrite
  <2>5. \A f \in UserFields : row[f] = NewUser(c, None)[f]
    BY <1>4
  <2> HIDE DEF row
  <2>6. PresentUsers' = PresentUsers
    BY <2>1, <2>2, <2>4 DEF PresentUsers
  <2>7. WritesUser(c, arg[c].user)
    BY <1>7, <2>1 DEF WritesUser
  <2>8. ASSUME NEW u \in PresentUsers', NEW f \in UserFields
        PROVE  \/ /\ stamp'[<<"user", u, f>>] = stamp[<<"user", u, f>>]
                  /\ u \in PresentUsers /\ users'[u][f] = users[u][f]
               \/ /\ stamp'[<<"user", u, f>>] = c /\ stamp[<<"user", u, f>>] # c
                  /\ WritesUser(c, u)
                  /\ users'[u][f] = NewUser(c, None)[f]
    <3>1. u \in Users /\ u \in PresentUsers
      BY <1>3, <2>6
    <3>2. CASE u # arg[c].user
      BY <2>2, <2>3, <3>1, <3>2, Zenon
    <3>3. CASE u = arg[c].user
      <4>1. users'[u] = row /\ row[f] = NewUser(c, None)[f]
        BY <2>2, <2>5, <3>1, <3>3
      <4>2. CASE users[u][f] # NewUser(c, None)[f]
        BY <1>2, <2>3, <2>7, <3>1, <3>3, <4>1, <4>2, Zenon
      <4>3. CASE users[u][f] = NewUser(c, None)[f]
        BY <2>3, <3>1, <3>3, <4>1, <4>3, Zenon
      <4>. QED  BY <4>2, <4>3
    <3>. QED  BY <3>2, <3>3
  <2>. QED  BY <1>3, <2>1, <2>6, <2>8 DEF UserRemovalsSame
<1>8. CASE CredentialsWritten(c)
  <2>1. arg[c].user \in PresentUsers /\ UserFieldsSame /\ UserRemovalsSame
    BY <1>8 DEF CredentialsWritten
  <2>2. users[arg[c].user] \in UserRows /\ arg[c].user \in Users
    BY <2>1, RowsAre DEF Base
  <2>3. \A q \in Users :
          users'[q] = IF q = arg[c].user
                      THEN [users[arg[c].user] EXCEPT !.creds = MergedCredentials(c)] ELSE users[q]
    BY <1>1, <1>8, <2>2, SMT DEF CredentialsWritten
  <2> DEFINE row == [users[arg[c].user] EXCEPT !.creds = MergedCredentials(c)]
  <2>4. row # None /\ \A f \in UserFields : row[f] = users[arg[c].user][f]
    <3>1. \A f \in UserFields : row[f] = users[arg[c].user][f]
      BY <2>2, SMT DEF UserRows, UserFields
    <3>2. users'[arg[c].user] = row
      BY <2>2, <2>3
    <3>3. row \in UserRows
      <4>1. users' \in [Users -> UserRows \cup {None}]
        BY TablesStay, SMT DEF Tables
      <4>2. local[c].row \in [CredTypes -> Calls \cup {None}]
        BY <1>1, <1>8 DEF CredentialsWritten, LocalOK
      <4>3. MergedCredentials(c) \in [CredTypes -> Calls \cup {None}]
        <5>1. c \in Calls \cup {None}
          OBVIOUS
        <5>. QED  BY <4>2, <5>1, EntryWritten, Zenon DEF MergedCredentials
      <4>. QED  BY <2>2, <4>3, SMT DEF UserRows
    <3>. QED  BY <3>1, <3>3, NoneAssumption
  <2> HIDE DEF row
  <2>5. PresentUsers' = PresentUsers
    BY <2>1, <2>3, <2>4 DEF PresentUsers, row
  <2>6. \A u \in PresentUsers : \A f \in UserFields : users'[u][f] = users[u][f]
    BY <1>3, <2>3, <2>4 DEF row
  <2>. QED  BY <1>3, <2>1, <2>5, <2>6, Zenon DEF UserFieldsSame, UserRemovalsSame
<1>9. CASE UserRemoved(c)
  <2>1. /\ \A q \in Users : users'[q] = IF q = arg[c].user THEN None ELSE users[q]
        /\ UserFieldsSame
        /\ \A v \in Users :
              stamp'[<<"user", v, "removed">>] =
                  IF v = arg[c].user /\ arg[c].user \in PresentUsers
                  THEN c ELSE stamp[<<"user", v, "removed">>]
    BY <1>1, <1>9 DEF UserRemoved
  <2>2. PresentUsers' = PresentUsers \ {arg[c].user}
    BY <2>1 DEF PresentUsers
  <2>. QED  BY <1>2, <1>3, <2>1, <2>2, Zenon DEF UserFieldsSame
<1>. QED  BY <1>5, <1>6, <1>7, <1>8, <1>9, MovesChange DEF UsersChange

\* Groups.
LEMMA GroupsMove ==
    ASSUME Base, NEW c \in Calls, Moves(c)
    PROVE  /\ \A g \in PresentGroups' : \A f \in GroupFields :
                 \/ /\ stamp'[<<"group", g, f>>] = stamp[<<"group", g, f>>]
                    /\ g \in PresentGroups
                    /\ groups'[g].ou = groups[g].ou /\ groups'[g][f] = groups[g][f]
                 \/ /\ stamp'[<<"group", g, f>>] = c /\ stamp[<<"group", g, f>>] # c
                    /\ WritesGroup(c, g)
                    /\ groups'[g] = NewGroup(c)
           /\ \A g \in PresentGroups' :
                 \/ /\ stamp'[<<"group", g, "members">>] = stamp[<<"group", g, "members">>]
                    /\ g \in PresentGroups /\ groups'[g].members = groups[g].members
                 \/ /\ stamp'[<<"group", g, "members">>] = c /\ WritesGroup(c, g)
                    /\ groups'[g].members = arg[c].members
           /\ \A g \in PresentGroups :
                 \/ g \in PresentGroups' /\ stamp'[<<"group", g, "removed">>] = stamp[<<"group", g, "removed">>]
                 \/ stamp'[<<"group", g, "removed">>] = c /\ stamp[<<"group", g, "removed">>] # c
           /\ \A g \in Groups :
                 stamp'[<<"group", g, "removed">>] # stamp[<<"group", g, "removed">>]
                 => g \in PresentGroups /\ stamp'[<<"group", g, "removed">>] = c
<1>1. groups \in [Groups -> GroupRows \cup {None}] /\ LocalOK(c) /\ c \in Groups
  BY SMT DEF Base, TypeOK, Tables, Groups
<1>2. /\ \A g \in Groups : \A f \in GroupFields \cup {"members"} : stamp[<<"group", g, f>>] # c
      /\ \A g \in Groups : stamp[<<"group", g, "removed">>] # c
  <2>1. \A g \in Groups : \A f \in GroupFields \cup {"members"} : <<"group", g, f>> \in Facts
    BY FactsAre, Zenon
  <2>2. \A g \in Groups : <<"group", g, "removed">> \in Facts
    BY FactsAre, Zenon
  <2>. QED  BY <2>1, <2>2, NotSigned, Zenon
<1>3. /\ PresentGroups \subseteq Groups /\ PresentGroups' \subseteq Groups
      /\ GroupFields \subseteq GroupFields \cup {"members"} /\ "members" \in GroupFields \cup {"members"}
  BY DEF PresentGroups
<1>4. CASE GroupsSame
  BY <1>2, <1>3, <1>4, Zenon DEF GroupsSame, GroupFieldsSame, GroupRemovalsSame, PresentGroups
<1>5. CASE GroupInserted(c) /\ Ends(c)
  <2>1. /\ \A q \in Groups : groups'[q] = IF q = c THEN NewGroup(c) ELSE groups[q]
        /\ pc[c] = "insertGroup" /\ GroupRemovalsSame
    BY <1>1, <1>5 DEF GroupInserted
  <2>2. \A g \in Groups : \A f \in GroupFields \cup {"members"} :
           stamp'[<<"group", g, f>>] = IF g = c THEN c ELSE stamp[<<"group", g, f>>]
    BY <1>5 DEF GroupInserted
  <2>3. NewGroup(c) # None
    BY <2>1, StatementsWrite
  <2>4. PresentGroups \subseteq PresentGroups'
    BY <2>1, <2>3 DEF PresentGroups
  <2>5. \A g \in PresentGroups' : g # c => g \in PresentGroups
    BY <2>1 DEF PresentGroups
  <2>6. WritesGroup(c, c)
    BY <1>5, <2>1 DEF WritesGroup
  <2>7. ASSUME NEW g \in PresentGroups', NEW f \in GroupFields \cup {"members"}
        PROVE  \/ /\ stamp'[<<"group", g, f>>] = stamp[<<"group", g, f>>]
                  /\ g \in PresentGroups /\ groups'[g] = groups[g]
               \/ /\ stamp'[<<"group", g, f>>] = c /\ stamp[<<"group", g, f>>] # c
                  /\ WritesGroup(c, g)
                  /\ groups'[g] = NewGroup(c)
    <3>1. CASE g = c
      BY <1>1, <1>2, <2>1, <2>2, <2>6, <3>1, Zenon
    <3>2. CASE g # c
      BY <1>3, <2>1, <2>2, <2>5, <3>2, Zenon
    <3>. QED  BY <3>1, <3>2
  <2>8. NewGroup(c).members = arg[c].members
    BY DEF NewGroup
  <2>. QED  BY <1>3, <2>1, <2>4, <2>7, <2>8, Zenon DEF GroupRemovalsSame
<1>6. CASE GroupWritten(c) /\ Ends(c)
  <2>1. arg[c].group \in PresentGroups /\ pc[c] = "updateGroup" /\ GroupRemovalsSame
    BY <1>6 DEF GroupWritten
  <2>2. \A q \in Groups : groups'[q] = IF q = arg[c].group THEN NewGroup(c) ELSE groups[q]
    BY <1>1, <1>6 DEF GroupWritten
  <2>3. \A h \in Groups : \A f \in GroupFields :
          stamp'[<<"group", h, f>>] =
              IF /\ h = arg[c].group
                 /\ \/ groups[arg[c].group].ou # local[c].ou
                    \/ groups[arg[c].group][f] # NewGroup(c)[f]
              THEN c ELSE stamp[<<"group", h, f>>]
    BY <1>6 DEF GroupWritten
  <2>4. \A h \in Groups : stamp'[<<"group", h, "members">>] =
                             IF h = arg[c].group THEN c ELSE stamp[<<"group", h, "members">>]
    BY <1>6 DEF GroupWritten
  <2>5. NewGroup(c) # None /\ NewGroup(c).ou = local[c].ou /\ NewGroup(c).members = arg[c].members
    BY <2>1, StatementsWrite DEF NewGroup
  <2>6. PresentGroups' = PresentGroups
    BY <2>1, <2>2, <2>5 DEF PresentGroups
  <2>7. WritesGroup(c, arg[c].group)
    BY <1>6, <2>1 DEF WritesGroup
  <2>8. ASSUME NEW g \in PresentGroups', NEW f \in GroupFields
        PROVE  \/ /\ stamp'[<<"group", g, f>>] = stamp[<<"group", g, f>>]
                  /\ g \in PresentGroups
                  /\ groups'[g].ou = groups[g].ou /\ groups'[g][f] = groups[g][f]
               \/ /\ stamp'[<<"group", g, f>>] = c /\ stamp[<<"group", g, f>>] # c
                  /\ WritesGroup(c, g)
                  /\ groups'[g] = NewGroup(c)
    <3>1. g \in Groups /\ g \in PresentGroups
      BY <1>3, <2>6
    <3>2. CASE g # arg[c].group
      BY <2>2, <2>3, <3>1, <3>2, Zenon
    <3>3. CASE g = arg[c].group
      <4>1. groups'[g] = NewGroup(c) /\ stamp[<<"group", g, f>>] # c
        BY <1>2, <1>3, <2>2, <3>1, <3>3
      <4>2. CASE groups[g].ou # local[c].ou \/ groups[g][f] # NewGroup(c)[f]
        BY <2>3, <2>7, <3>1, <3>3, <4>1, <4>2, Zenon
      <4>3. CASE groups[g].ou = local[c].ou /\ groups[g][f] = NewGroup(c)[f]
        BY <2>3, <2>5, <3>1, <3>3, <4>1, <4>3, Zenon
      <4>. QED  BY <4>2, <4>3
    <3>. QED  BY <3>2, <3>3
  <2>9. ASSUME NEW g \in PresentGroups'
        PROVE  \/ /\ stamp'[<<"group", g, "members">>] = stamp[<<"group", g, "members">>]
                  /\ g \in PresentGroups /\ groups'[g].members = groups[g].members
               \/ /\ stamp'[<<"group", g, "members">>] = c /\ WritesGroup(c, g)
                  /\ groups'[g].members = arg[c].members
    BY <1>3, <2>2, <2>4, <2>5, <2>6, <2>7, Zenon
  <2>. QED  BY <1>3, <2>1, <2>6, <2>8, <2>9 DEF GroupRemovalsSame
<1>7. CASE GroupRemoved(c)
  <2>1. /\ \A q \in Groups : groups'[q] = IF q = arg[c].group THEN None ELSE groups[q]
        /\ GroupFieldsSame
        /\ \A v \in Groups :
              stamp'[<<"group", v, "removed">>] =
                  IF v = arg[c].group /\ arg[c].group \in PresentGroups
                  THEN c ELSE stamp[<<"group", v, "removed">>]
    BY <1>1, <1>7 DEF GroupRemoved
  <2>2. PresentGroups' = PresentGroups \ {arg[c].group}
    BY <2>1 DEF PresentGroups
  <2>. QED  BY <1>2, <1>3, <2>1, <2>2, Zenon DEF GroupFieldsSame
<1>. QED  BY <1>4, <1>5, <1>6, <1>7, MovesChange DEF GroupsChange

\* Roles.
LEMMA RolesMove ==
    ASSUME Base, NEW c \in Calls, Moves(c)
    PROVE  /\ \A r \in PresentRoles' :
                 \/ /\ stamp'[<<"role", r, "ou">>] = stamp[<<"role", r, "ou">>]
                    /\ r \in PresentRoles /\ roles'[r].ou = roles[r].ou
                 \/ /\ stamp'[<<"role", r, "ou">>] = c /\ pc[c] \in {"insertRole", "updateRole"}
                    /\ Ends(c) /\ roles'[r].ou = arg[c].ou
           /\ \A r \in PresentRoles' : \A p \in roles'[r].assigned :
                 \/ /\ stamp'[<<"assigned", r, p>>] = stamp[<<"assigned", r, p>>]
                    /\ r \in PresentRoles /\ p \in roles[r].assigned
                 \/ /\ stamp'[<<"assigned", r, p>>] = c /\ stamp[<<"assigned", r, p>>] # c
                    /\ pc[c] \in {"insertRole", "addAssignments"}
                    /\ Ends(c) /\ p \in arg[c].assigned
<1>1. roles \in [Roles -> RoleRows \cup {None}] /\ c \in Roles
  BY SMT DEF Base, TypeOK, Tables, Roles
<1>2. /\ \A r \in Roles : \A p \in Principals : stamp[<<"assigned", r, p>>] # c
  BY NotSigned, FactsAre, Zenon
<1>3. /\ PresentRoles \subseteq Roles /\ PresentRoles' \subseteq Roles
      /\ \A r \in PresentRoles : roles[r].assigned \subseteq Principals /\ roles[r] \in RoleRows
  BY RowsAre DEF PresentRoles, Base
<1>4. CASE RolesSame
  <2>1. PresentRoles' = PresentRoles
    BY <1>4 DEF RolesSame, PresentRoles
  <2>2. RoleFactsSame /\ AssignmentsSame /\ roles' = roles
    BY <1>4 DEF RolesSame
  <2>. QED  BY <1>3, <2>1, <2>2, SMT DEF RoleFactsSame, AssignmentsSame
<1>5. CASE RoleInserted(c) /\ Ends(c)
  <2> DEFINE row == [name |-> arg[c].name, ou |-> arg[c].ou, assigned |-> arg[c].assigned]
  <2>1. /\ \A q \in Roles : roles'[q] = IF q = c THEN row ELSE roles[q]
        /\ pc[c] = "insertRole"
        /\ \A r \in Roles :
              stamp'[<<"role", r, "ou">>] = IF r = c THEN c ELSE stamp[<<"role", r, "ou">>]
        /\ \A r \in Roles : \A p \in Principals :
              stamp'[<<"assigned", r, p>>] =
                  IF r = c /\ p \in arg[c].assigned THEN c ELSE stamp[<<"assigned", r, p>>]
    BY <1>1, <1>5 DEF RoleInserted
  <2>2. row.ou = arg[c].ou /\ row.assigned = arg[c].assigned
    OBVIOUS
  <2> HIDE DEF row
  <2>3. arg[c].assigned \subseteq Principals
    BY <2>1, StatementsAsk
  <2>4. \A r \in PresentRoles' : r # c => r \in PresentRoles /\ roles'[r] = roles[r]
    BY <2>1 DEF PresentRoles
  <2>5. ASSUME NEW r \in PresentRoles'
        PROVE  \/ /\ stamp'[<<"role", r, "ou">>] = stamp[<<"role", r, "ou">>]
                  /\ r \in PresentRoles /\ roles'[r].ou = roles[r].ou
               \/ /\ stamp'[<<"role", r, "ou">>] = c /\ pc[c] \in {"insertRole", "updateRole"}
                  /\ Ends(c) /\ roles'[r].ou = arg[c].ou
    BY <1>3, <1>5, <2>1, <2>2, <2>4, SMT
  <2>6. ASSUME NEW r \in PresentRoles', NEW p \in roles'[r].assigned
        PROVE  \/ /\ stamp'[<<"assigned", r, p>>] = stamp[<<"assigned", r, p>>]
                  /\ r \in PresentRoles /\ p \in roles[r].assigned
               \/ /\ stamp'[<<"assigned", r, p>>] = c /\ stamp[<<"assigned", r, p>>] # c
                  /\ pc[c] \in {"insertRole", "addAssignments"}
                  /\ Ends(c) /\ p \in arg[c].assigned
    <3>1. CASE r = c
      BY <1>1, <1>2, <1>5, <2>1, <2>2, <2>3, <2>6, <3>1, SMT
    <3>2. CASE r # c
      <4>1. r \in PresentRoles /\ p \in roles[r].assigned /\ p \in Principals /\ r \in Roles
        BY <1>3, <2>4, <2>6, <3>2, SMT
      <4>. QED  BY <2>1, <3>2, <4>1
    <3>. QED  BY <3>1, <3>2
  <2>. QED  BY <2>5, <2>6
<1>6. CASE RoleWritten(c) /\ Ends(c)
  <2>1. arg[c].role \in PresentRoles /\ pc[c] = "updateRole" /\ AssignmentsSame
    BY <1>6 DEF RoleWritten
  <2>2. roles' = [roles EXCEPT ![arg[c].role].name = arg[c].name, ![arg[c].role].ou = arg[c].ou]
    BY <1>6 DEF RoleWritten
  <2>3. /\ roles'[arg[c].role].ou = arg[c].ou
        /\ roles'[arg[c].role].assigned = roles[arg[c].role].assigned
        /\ \A r \in Roles : r # arg[c].role => roles'[r] = roles[r]
    BY <1>1, <1>3, <2>1, <2>2, SMT DEF RoleRows
  <2>4. \A r \in PresentRoles' : r \in PresentRoles
    BY <2>1, <2>3 DEF PresentRoles
  <2>5. \A r \in Roles : stamp'[<<"role", r, "ou">>] =
                            IF r = arg[c].role THEN c ELSE stamp[<<"role", r, "ou">>]
    BY <1>6 DEF RoleWritten
  <2>6. \A r \in PresentRoles' : roles'[r].assigned = roles[r].assigned
    BY <1>3, <2>3, SMT
  <2>7. ASSUME NEW r \in PresentRoles'
        PROVE  \/ /\ stamp'[<<"role", r, "ou">>] = stamp[<<"role", r, "ou">>]
                  /\ r \in PresentRoles /\ roles'[r].ou = roles[r].ou
               \/ /\ stamp'[<<"role", r, "ou">>] = c /\ pc[c] \in {"insertRole", "updateRole"}
                  /\ Ends(c) /\ roles'[r].ou = arg[c].ou
    BY <1>3, <1>6, <2>1, <2>3, <2>4, <2>5, SMT
  <2>. QED  BY <1>3, <2>1, <2>4, <2>6, <2>7, SMT DEF AssignmentsSame
<1>7. CASE RoleRemoved(c)
  <2>1. /\ \A q \in Roles : roles'[q] = IF q = arg[c].role THEN None ELSE roles[q]
        /\ RoleFactsSame /\ AssignmentsSame
    BY <1>1, <1>7 DEF RoleRemoved
  <2>2. \A r \in PresentRoles' : r \in PresentRoles /\ roles'[r] = roles[r]
    BY <2>1 DEF PresentRoles
  <2>. QED  BY <1>3, <2>1, <2>2, SMT DEF RoleFactsSame, AssignmentsSame
<1>8. CASE AssignmentsAdded(c) /\ Ends(c)
  <2> DEFINE r0 == arg[c].role
  <2>1. /\ r0 \in PresentRoles /\ pc[c] = "addAssignments" /\ RoleFactsSame
        /\ roles' = [roles EXCEPT ![r0].assigned = @ \cup arg[c].assigned]
        /\ \A q \in Roles : \A p \in Principals :
              stamp'[<<"assigned", q, p>>] =
                  IF q = r0 /\ p \in arg[c].assigned THEN c ELSE stamp[<<"assigned", q, p>>]
    BY <1>8 DEF AssignmentsAdded
  <2> HIDE DEF r0
  <2>2. /\ roles'[r0].ou = roles[r0].ou
        /\ roles'[r0].assigned = roles[r0].assigned \cup arg[c].assigned
        /\ \A r \in Roles : r # r0 => roles'[r] = roles[r]
    BY <1>1, <1>3, <2>1, SMT DEF RoleRows
  <2>3. \A r \in PresentRoles' : r \in PresentRoles
    BY <2>1, <2>2 DEF PresentRoles
  <2>4. arg[c].assigned \subseteq Principals
    BY <2>1, StatementsAsk
  <2>5. ASSUME NEW r \in PresentRoles', NEW p \in roles'[r].assigned
        PROVE  \/ /\ stamp'[<<"assigned", r, p>>] = stamp[<<"assigned", r, p>>]
                  /\ r \in PresentRoles /\ p \in roles[r].assigned
               \/ /\ stamp'[<<"assigned", r, p>>] = c /\ stamp[<<"assigned", r, p>>] # c
                  /\ pc[c] \in {"insertRole", "addAssignments"}
                  /\ Ends(c) /\ p \in arg[c].assigned
    <3>1. r \in Roles /\ r \in PresentRoles /\ p \in Principals
      BY <1>3, <2>2, <2>3, <2>4, SMT
    <3>2. CASE r = r0 /\ p \in arg[c].assigned
      BY <1>2, <1>8, <2>1, <3>1, <3>2, SMT
    <3>3. CASE ~(r = r0 /\ p \in arg[c].assigned)
      BY <2>1, <2>2, <3>1, <3>3, SMT
    <3>. QED  BY <3>2, <3>3
  <2>. QED  BY <1>3, <2>1, <2>2, <2>3, <2>5, SMT DEF RoleFactsSame
<1>9. CASE AssignmentsTaken(c)
  <2>1. RoleFactsSame /\ AssignmentsSame
    BY <1>9 DEF AssignmentsTaken
  <2>2. \A r \in PresentRoles' :
           /\ r \in PresentRoles /\ roles'[r].ou = roles[r].ou
           /\ roles'[r].assigned \subseteq roles[r].assigned
    <3>1. CASE arg[c].role \in PresentRoles
      <4>1. roles' = [roles EXCEPT ![arg[c].role].assigned = @ \ arg[c].assigned]
        BY <1>9, <3>1 DEF AssignmentsTaken
      <4>2. /\ roles'[arg[c].role].ou = roles[arg[c].role].ou
            /\ roles'[arg[c].role].assigned = roles[arg[c].role].assigned \ arg[c].assigned
            /\ \A r \in Roles : r # arg[c].role => roles'[r] = roles[r]
        BY <1>1, <1>3, <3>1, <4>1, SMT DEF RoleRows
      <4>3. \A r \in PresentRoles' : r \in PresentRoles
        BY <3>1, <4>2 DEF PresentRoles
      <4>. QED  BY <1>3, <4>2, <4>3, SMT
    <3>2. CASE arg[c].role \notin PresentRoles
      BY <1>9, <3>2 DEF AssignmentsTaken, PresentRoles
    <3>. QED  BY <3>1, <3>2
  <2>. QED  BY <1>3, <2>1, <2>2, SMT DEF RoleFactsSame, AssignmentsSame
<1>. QED  BY <1>4, <1>5, <1>6, <1>7, <1>8, <1>9, MovesChange DEF RolesChange

\* User schemas.
LEMMA SchemasMove ==
    ASSUME Base, NEW c \in Calls, Moves(c)
    PROVE  \A t \in SchemaNames :
              t \in SchemaNames' \/ stamp'[<<"schema", t, "removed">>] = c
<1>1. schemas \in [Schemas -> SchemaRows \cup {None}]
  BY SMT DEF Base, TypeOK, Tables
<1>2. CASE SchemasSame
  BY <1>2 DEF SchemasSame, SchemaNames, PresentSchemas
<1>3. \A s \in PresentSchemas : s \in Schemas /\ schemas[s].name \in Types
  BY RowsAre DEF Base
<1>4. CASE SchemaWritten(c)
  <2>1. PICK s \in Schemas :
           /\ schemas' = [schemas EXCEPT ![s] = [name |-> arg[c].name, ou |-> arg[c].ou]]
           /\ pc[c] \in {"insertSchema", "updateSchema"}
           /\ \A t \in Types :
                 stamp'[<<"schema", t, "removed">>] =
                     IF s \in PresentSchemas /\ t = schemas[s].name /\ t # arg[c].name
                     THEN c ELSE stamp[<<"schema", t, "removed">>]
    BY <1>4 DEF SchemaWritten
  <2> DEFINE row == [name |-> arg[c].name, ou |-> arg[c].ou]
  <2>2. row \in SchemaRows /\ row # None /\ row.name = arg[c].name
    <3>1. arg[c].name \in Types /\ arg[c].ou \in OUs
      BY <2>1, StatementsAsk
    <3>2. row \in SchemaRows
      BY <3>1, SMT DEF SchemaRows
    <3>. QED  BY <3>2, NoneAssumption
  <2> HIDE DEF row
  <2>3. \A q \in Schemas : schemas'[q] = IF q = s THEN row ELSE schemas[q]
    BY <1>1, <2>1 DEF row
  <2>4. ASSUME NEW q \in PresentSchemas
        PROVE  schemas[q].name \in SchemaNames' \/ stamp'[<<"schema", schemas[q].name, "removed">>] = c
    <3>1. CASE q # s
      BY <1>3, <2>3, <3>1 DEF SchemaNames, PresentSchemas
    <3>2. CASE q = s /\ schemas[q].name = arg[c].name
      BY <1>3, <2>2, <2>3, <3>2 DEF SchemaNames, PresentSchemas
    <3>3. CASE q = s /\ schemas[q].name # arg[c].name
      BY <1>3, <2>1, <3>3
    <3>. QED  BY <3>1, <3>2, <3>3
  <2>. QED  BY <2>4 DEF SchemaNames
<1>5. CASE SchemaRemoved(c)
  <2>1. /\ \A q \in Schemas : schemas'[q] = IF q = arg[c].schema THEN None ELSE schemas[q]
        /\ \A t \in Types :
              stamp'[<<"schema", t, "removed">>] =
                  IF arg[c].schema \in PresentSchemas /\ t = schemas[arg[c].schema].name
                  THEN c ELSE stamp[<<"schema", t, "removed">>]
    BY <1>1, <1>5 DEF SchemaRemoved
  <2>2. ASSUME NEW q \in PresentSchemas
        PROVE  schemas[q].name \in SchemaNames' \/ stamp'[<<"schema", schemas[q].name, "removed">>] = c
    <3>1. CASE q # arg[c].schema
      BY <1>3, <2>1, <3>1 DEF SchemaNames, PresentSchemas
    <3>2. CASE q = arg[c].schema
      BY <1>3, <2>1, <3>2
    <3>. QED  BY <3>1, <3>2
  <2>. QED  BY <2>2 DEF SchemaNames
<1>. QED  BY <1>2, <1>4, <1>5, MovesChange DEF SchemasChange

-----------------------------------------------------------------------------
(* Unique attributes.                                                      *)

\* A call that is at a step has begun with it, or has come to it by looking at
\* the tables.
LEMMA Arrives ==
    ASSUME NEW c \in Calls, Moves(c), pc'[c] \in Steps
    PROVE  \/ Starts(c) /\ FirstStep(c)
           \/ Looks(c) /\ ComesFrom(c)
<1>1. ~Ends(c)
  BY SMT DEF Ends, Writes, Signs, Steps
<1>. QED  BY <1>1 DEF Moves, StartsWell, Goes

\* A check that holds leads on, one that does not ends the call.
LEMMA CheckLeadsOn ==
    ASSUME Base, NEW c \in Calls, NEW holds, NEW refusal \in Answers, NEW next,
           Check(c, holds, refusal, next), pc'[c] \notin Answers
    PROVE  holds /\ pc'[c] = next /\ local'[c] = local[c]
<1>1. DOMAIN pc = Calls
  BY DEF Base, TypeOK
<1>2. CASE holds
  BY <1>1, <1>2, SMT DEF Check, Goto
<1>3. CASE ~holds
  BY <1>1, <1>3, SMT DEF Check, Answer, Goto
<1>. QED  BY <1>2, <1>3

\* ValidateUserUniqueness finds nobody with the value, and whoever has it later
\* got it since.
LEMMA AttrCheckedStays ==
    ASSUME Base, NEW c \in Calls, Moves(c), NEW d \in Calls, AttrChecked(d)
    PROVE  AttrChecked(d)'
<1> SUFFICES ASSUME pc'[d] \in {"insertUser", "updateUser"}, arg'[d].attr # None,
                    NEW u \in PresentUsers', users'[u].attr = arg'[d].attr
             PROVE  Since(<<"user", u, "attr">>, d)'
  BY DEF AttrChecked
<1>0. u \in Users /\ "attr" \in UserFields /\ <<"user", u, "attr">> \in Facts
  <2>1. u \in Users /\ "attr" \in UserFields \cup {"removed"} /\ "attr" \in UserFields
    BY DEF PresentUsers, UserFields
  <2>. QED  BY <2>1, FactsAre, Zenon
<1>1. CASE d = c
  <2>1. pc'[c] \in Steps /\ ~FirstStep(c) /\ pc'[c] \notin Answers
    BY <1>1, SMT DEF Steps, FirstStep, Answers
  <2>2. ValidateUserUniqueness(c) /\ Looks(c)
    BY <1>1, <2>1, Arrives DEF ComesFrom
  <2>3. arg[c].attr = None \/ IdentifyUser(arg[c].attr) = {}
    <3> DEFINE same == IdentifyUser(arg[c].attr)
               holds == UserType(c) \in SchemaNames /\ (arg[c].attr = None \/ same = {})
               refusal == IF UserType(c) \notin SchemaNames THEN "refused"
                            ELSE IF Cardinality(same) = 1 THEN "conflict" ELSE "failed"
    <3>1. Check(c, holds, refusal, AfterUnique(c))
      BY <2>2 DEF ValidateUserUniqueness
    <3>2. refusal \in Answers
      BY DEF Answers
    <3> HIDE DEF holds, refusal
    <3>3. holds
      BY <2>1, <3>1, <3>2, CheckLeadsOn
    <3>. QED  BY <3>3 DEF holds
  <2>4. arg'[c] = arg[c] /\ users' = users
    BY <2>2 DEF Looks, tables
  <2>. QED  BY <1>1, <2>3, <2>4 DEF IdentifyUser, PresentUsers
<1>2. CASE d # c
  <2>1. pc'[d] = pc[d] /\ arg'[d] = arg[d] /\ pc[d] # "idle"
    BY <1>2, MovesAlone
  <2>2. CASE /\ stamp'[<<"user", u, "attr">>] = stamp[<<"user", u, "attr">>]
             /\ u \in PresentUsers /\ users'[u].attr = users[u].attr
    <3>1. Since(<<"user", u, "attr">>, d)
      BY <2>1, <2>2 DEF AttrChecked
    <3>. QED  BY <1>0, <2>1, <3>1, SinceStays
  <2>3. CASE stamp'[<<"user", u, "attr">>] # stamp[<<"user", u, "attr">>]
    BY <1>0, <2>1, <2>3, SinceStays
  <2>. QED  BY <1>0, <2>2, <2>3, UsersMove
<1>. QED  BY <1>1, <1>2

\* AttributesUnique: the value that a call writes is one it has looked for.
LEMMA AttributesUniqueStays ==
    ASSUME Base, AttributesUnique, NEW c \in Calls, Moves(c), AttrChecked(c)
    PROVE  AttributesUnique'
<1> DEFINE st(u) == stamp[<<"user", u, "attr">>]
<1> SUFFICES ASSUME NEW u \in PresentUsers', NEW v \in PresentUsers', u # v,
                    users'[u].attr # None, users'[u].attr = users'[v].attr
             PROVE  Overlap(stamp[<<"user", u, "attr">>], stamp[<<"user", v, "attr">>])'
  BY DEF AttributesUnique
<1>0. /\ "attr" \in UserFields
      /\ \A w \in PresentUsers' : w \in Users /\ <<"user", w, "attr">> \in Facts
  <2>1. "attr" \in UserFields \cup {"removed"} /\ "attr" \in UserFields
        /\ \A w \in PresentUsers' : w \in Users
    BY DEF PresentUsers, UserFields
  <2>. QED  BY <2>1, FactsAre, Zenon
<1>1. \A w \in PresentUsers' :
        \/ st(w)' = st(w) /\ w \in PresentUsers /\ users'[w].attr = users[w].attr
        \/ /\ st(w)' = c /\ WritesUser(c, w) /\ users'[w].attr = arg[c].attr
  <2>1. NewUser(c, None).attr = arg[c].attr
    BY DEF NewUser
  <2>2. ASSUME NEW w \in PresentUsers'
        PROVE  \/ st(w)' = st(w) /\ w \in PresentUsers /\ users'[w].attr = users[w].attr
               \/ /\ st(w)' = c /\ WritesUser(c, w) /\ users'[w].attr = arg[c].attr
    <3>1. \/ /\ stamp'[<<"user", w, "attr">>] = stamp[<<"user", w, "attr">>]
             /\ w \in PresentUsers /\ users'[w]["attr"] = users[w]["attr"]
          \/ /\ stamp'[<<"user", w, "attr">>] = c /\ stamp[<<"user", w, "attr">>] # c
             /\ WritesUser(c, w)
             /\ users'[w]["attr"] = NewUser(c, None)["attr"]
      <4>1. "attr" \in UserFields
        BY <1>0
      <4>. QED  BY <4>1, UsersMove
    <3>2. users'[w]["attr"] = users'[w].attr /\ users[w]["attr"] = users[w].attr
      OBVIOUS
    <3>3. NewUser(c, None)["attr"] = arg[c].attr
      BY <2>1
    <3> HIDE DEF st
    <3>4. st(w) = stamp[<<"user", w, "attr">>] /\ st(w)' = stamp'[<<"user", w, "attr">>]
      BY DEF st
    <3>. QED  BY <3>1, <3>2, <3>3, <3>4, Zenon
  <2>. QED  BY <2>2
<1>2. ASSUME NEW a \in PresentUsers', NEW b \in PresentUsers', a # b,
             users'[a].attr # None, users'[a].attr = users'[b].attr,
             st(a)' = c, WritesUser(c, a), users'[a].attr = arg[c].attr
      PROVE  Overlap(st(a), st(b))' /\ Overlap(st(b), st(a))'
  <2>1. ~WritesUser(c, b)
    BY <1>2 DEF WritesUser
  <2>2. st(b)' = st(b) /\ b \in PresentUsers /\ users[b].attr = arg[c].attr
    BY <1>1, <1>2, <2>1
  <2>3. Since(<<"user", b, "attr">>, c) /\ Ends(c)
    BY <1>2, <2>2 DEF WritesUser, AttrChecked
  <2>. QED  BY <1>0, <1>2, <2>2, <2>3, SignaturesOverlap
<1>3. CASE st(u)' = st(u) /\ u \in PresentUsers /\ users'[u].attr = users[u].attr
           /\ st(v)' = st(v) /\ v \in PresentUsers /\ users'[v].attr = users[v].attr
  <2>1. Overlap(st(u), st(v))
    BY <1>3 DEF AttributesUnique
  <2>. QED  BY <1>0, <1>3, <2>1, SignaturesOverlap
<1>4. CASE st(u)' = c /\ WritesUser(c, u) /\ users'[u].attr = arg[c].attr
  BY <1>2, <1>4
<1>5. CASE st(v)' = c /\ WritesUser(c, v) /\ users'[v].attr = arg[c].attr
  BY <1>2, <1>5
<1>. QED  BY <1>1, <1>3, <1>4, <1>5

-----------------------------------------------------------------------------
(* Credentials.                                                            *)

\* A credential that was set again, or during whose call others were set, stays
\* so.
LEMMA ResetStays ==
    ASSUME Base, NEW c \in Calls, Moves(c), NEW e \in Calls, NEW u, Reset(e, u), pc[e] # "idle"
    PROVE  Reset(e, u)'
<1>1. PICK d \in Calls \ {e} :
         /\ SetsCredential(d, u)
         /\ \/ e \in before[d] /\ arg[d].cred = arg[e].cred
            \/ Overlap(e, d)
  BY DEF Reset
<1>2. arg'[d] = arg[d] /\ before'[d] = before[d] /\ pc[d] # "idle"
  BY <1>1, RequestsStay DEF SetsCredential
<1>3. arg'[e] = arg[e]
  BY MovesAlone
<1>4. SetsCredential(d, u)'
  BY <1>1, <1>2 DEF SetsCredential
<1>5. Overlap(e, d) => Overlap(e, d)'
  <2>1. Overlap(e, d) => e # d /\ e \notin before'[d] /\ d \notin before'[e]
    BY <1>2, OverlapsStay
  <2>. QED  BY <2>1, NoneAssumption DEF Overlap
<1>. QED  BY <1>1, <1>2, <1>3, <1>4, <1>5 DEF Reset

\* Only the write of the credentials ends a call that is for them with success.
LEMMA CredentialsEnd ==
    ASSUME Base, NEW c \in Calls, Moves(c), pc'[c] = "ok", arg'[c].op = "updateUserCredentials"
    PROVE  /\ arg'[c] = arg[c] /\ before'[c] = before[c] /\ pc[c] # "idle"
           /\ WriteCredentials(c) /\ arg[c].user \in PresentUsers /\ CredentialsWritten(c)
<1>1. pc'[c] \notin Steps
  BY SMT DEF Steps
<1>2. pc[c] \in Steps /\ ComesFrom(c)
  BY <1>1 DEF Moves, StartsWell, Starts, Goes, Looks, Ends, Writes, Signs
<1>3. pc[c] # "idle"
  BY <1>2, SMT DEF Steps
<1>4. arg'[c] = arg[c] /\ before'[c] = before[c]
  BY <1>3, MovesAlone
<1>5. WriteCredentials(c)
  BY <1>2, <1>4 DEF ComesFrom
<1>6. DOMAIN pc = Calls
  BY DEF Base, TypeOK
<1>7. NotWritten(c, "refused") => pc'[c] = "refused"
  BY <1>6, SMT DEF NotWritten, Answer, Goto
<1>8. arg[c].user \in PresentUsers /\ Written(c, {})
      /\ users' = [users EXCEPT ![arg[c].user].creds = MergedCredentials(c)]
  BY <1>5, <1>7 DEF WriteCredentials
<1>9. UserFieldsSame /\ UserRemovalsSame
  <2>1. stamp' = [f \in Facts |-> stamp[f]]
    BY <1>8, Zenon DEF Written
  <2>2. \A f \in Facts : stamp'[f] = stamp[f]
    BY <2>1
  <2>. QED  BY <2>2, FactsAre, Zenon DEF UserFieldsSame, UserRemovalsSame
<1>10. pc[c] = "updateCredentials"
  BY <1>5 DEF WriteCredentials
<1>. QED  BY <1>3, <1>4, <1>5, <1>8, <1>9, <1>10 DEF CredentialsWritten

\* A call whose credentials are set was about a user who is no more to come.
LEMMA CredentialHolderStays ==
    ASSUME Base, NewRows, NEW c \in Calls, Moves(c), NEW d \in Calls, CredentialHolder(d)
    PROVE  CredentialHolder(d)'
<1> SUFFICES ASSUME pc'[d] = "ok", arg'[d].op = "updateUserCredentials", arg'[d].user \in Calls
             PROVE  pc'[arg'[d].user] \in Answers
  BY DEF CredentialHolder, Ended
<1>1. \A e \in Calls : pc[e] \in Answers => pc'[e] \in Answers
  BY MovesAlone, Zenon DEF Ended
<1>2. CASE d # c
  <2>1. arg'[d] = arg[d] /\ pc'[d] = pc[d]
    BY <1>2, MovesAlone
  <2>. QED  BY <1>1, <2>1 DEF CredentialHolder, Ended
<1>3. CASE d = c
  <2>1. arg[c].user \in PresentUsers /\ arg'[c] = arg[c]
    BY <1>3, CredentialsEnd
  <2>2. users[arg[c].user] # None /\ arg[c].user \in Calls
    BY <1>3, <2>1 DEF PresentUsers
  <2>3. pc[arg[c].user] \in Answers
    BY <2>2 DEF NewRows, Ended
  <2>. QED  BY <1>1, <1>3, <2>1, <2>2, <2>3
<1>. QED  BY <1>2, <1>3

\* What UpdateUserCredentials has read still holds each credential that was set,
\* unless it was set again or a call overlaps.
LEMMA CredentialsReadStays ==
    ASSUME Base, CredentialsKept, NEW c \in Calls, Moves(c), NEW d \in Calls, CredentialsRead(d)
    PROVE  CredentialsRead(d)'
<1> DEFINE Undone(e, u) == Reset(e, u) \/ Overlap(e, d)
<1> SUFFICES ASSUME pc'[d] = "updateCredentials"
             PROVE  \A e \in Calls \ {d} : \A u :
                       u = arg'[d].user /\ pc'[e] = "ok" /\ SetsCredential(e, u)'
                       => local'[d].row[arg'[e].cred] = e \/ Reset(e, u)' \/ Overlap(e, d)'
  BY DEF CredentialsRead, SetsCredential, Reset
<1> TAKE e \in Calls \ {d}
<1> TAKE u
<1> HAVE u = arg'[d].user /\ pc'[e] = "ok" /\ SetsCredential(e, u)'
<1>1. CASE d = c
  <2>1. pc'[c] \in Steps /\ ~FirstStep(c) /\ pc'[c] \notin Answers
    BY <1>1, SMT DEF Steps, FirstStep, Answers
  <2>2. GetCredentials(c) /\ Looks(c)
    BY <1>1, <2>1, Arrives DEF ComesFrom
  <2>3. pc'[e] = pc[e] /\ arg' = arg /\ before' = before
    BY <1>1, <2>2, MovesAlone DEF Looks
  <2>4. arg[c].user \in PresentUsers /\ local'[c].row = users[arg[c].user].creds
    <3>1. DOMAIN pc = Calls /\ DOMAIN local = Calls /\ DOMAIN local[c] = {"ou", "path", "walk", "row"}
      BY DEF Base, TypeOK
    <3>2. arg[c].user \in PresentUsers
      <4>1. Answer(c, "refused") => pc'[c] = "refused"
        BY <3>1, SMT DEF Answer, Goto
      <4>. QED  BY <2>1, <2>2, <4>1 DEF GetCredentials, Answers
    <3>3. local'[c] = [local[c] EXCEPT !.row = users[arg[c].user].creds]
      <4>1. Keep(c, [local[c] EXCEPT !.row = users[arg[c].user].creds])
        BY <2>2, <3>2 DEF GetCredentials
      <4>. QED  BY <3>1, <4>1, SMT DEF Keep
    <3>. QED  BY <3>1, <3>2, <3>3, SMT
  <2>5. SetsCredential(e, u) /\ pc[e] = "ok" /\ u \in PresentUsers /\ local'[c].row = users[u].creds
    BY <1>1, <2>3, <2>4 DEF SetsCredential
  <2>6. users[u].creds[arg[e].cred] = e \/ Reset(e, u)
    BY <2>5 DEF CredentialsKept, Reset
  <2>7. Reset(e, u) => Reset(e, u)'
    BY <2>3 DEF Reset, SetsCredential, Overlap
  <2>. QED  BY <1>1, <2>3, <2>5, <2>6, <2>7
<1>2. CASE d # c
  <2>1. /\ pc'[d] = pc[d] /\ local'[d] = local[d] /\ arg'[d] = arg[d] /\ before'[d] = before[d]
        /\ pc[d] # "idle" /\ ~Ended(d)
    <3>1. pc'[d] = pc[d] /\ local'[d] = local[d] /\ arg'[d] = arg[d] /\ before'[d] = before[d]
      BY <1>2, MovesAlone
    <3>. QED  BY <3>1 DEF Ended, Answers
  <2>2. CASE e = c
    <3>1. ~Ended(c)
      BY MovesAlone
    <3>2. before'[c] = before[c]
      BY <2>2, CredentialsEnd DEF SetsCredential
    <3>4. c \notin before'[d] /\ d \notin before'[c]
      BY <2>1, <3>1, <3>2 DEF Base, HistoryOK
    <3>. QED  BY <1>2, <2>2, <3>4, NoneAssumption DEF Overlap
  <2>3. CASE e # c
    <3>1. pc[e] = "ok" /\ arg'[e] = arg[e] /\ pc[e] # "idle"
      BY <2>3, MovesAlone
    <3>2. SetsCredential(e, u) /\ u = arg[d].user
      BY <2>1, <3>1 DEF SetsCredential
    <3>3. \/ local[d].row[arg[e].cred] = e
          \/ Reset(e, u)
          \/ Overlap(e, d)
      BY <2>1, <3>1, <3>2 DEF CredentialsRead
    <3>4. Reset(e, u) => Reset(e, u)'
      BY <3>1, ResetStays
    <3>5. Overlap(e, d) => Overlap(e, d)'
      <4>1. Overlap(e, d) => e # d /\ e \notin before'[d] /\ d \notin before'[e]
        BY <2>1, <3>1, OverlapsStay
      <4>. QED  BY <4>1, NoneAssumption DEF Overlap
    <3>. QED  BY <2>1, <3>1, <3>3, <3>4, <3>5
  <2>. QED  BY <2>2, <2>3
<1>. QED  BY <1>1, <1>2

\* CredentialsKept: the credentials that UpdateUserCredentials writes back are
\* those it has read, with its own.
LEMMA CredentialsKeptStays ==
    ASSUME Base, NewRows, CredentialsKept, NEW c \in Calls, Moves(c), CredentialsRead(c),
           \A d \in Calls : CredentialHolder(d)
    PROVE  CredentialsKept'
<1> SUFFICES ASSUME NEW e \in Calls, NEW u \in PresentUsers', pc'[e] = "ok", SetsCredential(e, u)'
             PROVE  users'[u].creds[arg'[e].cred] = e \/ Reset(e, u)'
  BY DEF CredentialsKept, Reset
<1>0. users \in [Users -> UserRows \cup {None}] /\ LocalOK(c) /\ u \in Users
  BY SMT DEF Base, TypeOK, Tables, PresentUsers
<1>1. CASE e = c
  <2>1. CredentialsWritten(c) /\ arg'[c] = arg[c] /\ u = arg[c].user
    BY <1>1, CredentialsEnd DEF SetsCredential
  <2>2. users'[u].creds = MergedCredentials(c)
    <3>1. users[u] \in UserRows
      BY <1>0, <2>1 DEF CredentialsWritten, PresentUsers
    <3>2. DOMAIN users[u] = {"type", "ou", "attr", "creds"}
      BY <3>1, SMT DEF UserRows
    <3>. QED  BY <1>0, <2>1, <3>2, SMT DEF CredentialsWritten
  <2>3. local[c].row \in [CredTypes -> Calls \cup {None}] /\ arg[c].cred \in CredTypes
    BY <1>0, <2>1, StatementsAsk DEF LocalOK, CredentialsWritten
  <2>4. MergedCredentials(c)[arg[c].cred] = c
    BY <2>3, SMT DEF MergedCredentials
  <2>. QED  BY <1>1, <2>1, <2>2, <2>4
<1>2. CASE e # c
  <2>1. pc[e] = "ok" /\ arg'[e] = arg[e] /\ before'[e] = before[e] /\ pc[e] # "idle"
    BY <1>2, MovesAlone
  <2>2. SetsCredential(e, u)
    BY <2>1 DEF SetsCredential
  <2>3. Reset(e, u) => Reset(e, u)'
    BY <2>1, ResetStays
  <2>4. u \in PresentUsers => users[u].creds[arg[e].cred] = e \/ Reset(e, u)
    BY <2>1, <2>2 DEF CredentialsKept, Reset
  <2>5. CASE u \in PresentUsers /\ users'[u].creds = users[u].creds
    BY <2>1, <2>3, <2>4, <2>5
  <2>6. UsersSame \/ (Ends(c) /\ UsersChange(c))
    BY MovesChange
  <2>7. CASE UsersSame
    BY <2>5, <2>7 DEF UsersSame, PresentUsers
  <2>8. ASSUME Ends(c), UserInserted(c) PROVE u \in PresentUsers /\ users'[u].creds = users[u].creds
    <3>1. u # c
      <4>1. ~Ended(c)
        BY MovesAlone
      <4>2. u \in Calls => Ended(u)
        BY <2>1, <2>2 DEF CredentialHolder, SetsCredential
      <4>. QED  BY <4>1, <4>2
    <3>. QED  BY <1>0, <2>8, <3>1 DEF UserInserted, PresentUsers
  <2>9. ASSUME Ends(c), UserWritten(c) PROVE u \in PresentUsers /\ users'[u].creds = users[u].creds
    <3>1. u \in PresentUsers
      BY <1>0, <2>9 DEF UserWritten, PresentUsers
    <3>2. NewUser(c, users[arg[c].user].creds).creds = users[arg[c].user].creds
      BY DEF NewUser
    <3>. QED  BY <1>0, <2>9, <3>1, <3>2, Zenon DEF UserWritten
  <2>10. ASSUME Ends(c), UserRemoved(c) PROVE u \in PresentUsers /\ users'[u].creds = users[u].creds
    BY <1>0, <2>10 DEF UserRemoved, PresentUsers
  <2>11. ASSUME Ends(c), CredentialsWritten(c), u # arg[c].user
         PROVE  u \in PresentUsers /\ users'[u].creds = users[u].creds
    BY <1>0, <2>11 DEF CredentialsWritten, PresentUsers
  <2>12. ASSUME Ends(c), CredentialsWritten(c), u = arg[c].user
         PROVE  users'[u].creds[arg[e].cred] = e \/ Reset(e, u)'
    <3>1. /\ local[c].row \in [CredTypes -> Calls \cup {None}] /\ arg[c].cred \in CredTypes
          /\ pc[c] = "updateCredentials" /\ arg[c].op = "updateUserCredentials"
      <4>1. pc[c] = "updateCredentials"
        BY <2>12 DEF CredentialsWritten
      <4>2. arg[c].op = "updateUserCredentials"
        BY <4>1 DEF Base, Course
      <4>3. local[c].row \in [CredTypes -> Calls \cup {None}]
        BY <1>0, <4>1 DEF LocalOK
      <4>. QED  BY <4>1, <4>2, <4>3, StatementsAsk
    <3>2. users'[u].creds = MergedCredentials(c)
      <4>1. users[u] \in UserRows
        BY <1>0, <2>12 DEF CredentialsWritten, PresentUsers
      <4>2. DOMAIN users[u] = {"type", "ou", "attr", "creds"}
        BY <4>1, SMT DEF UserRows
      <4>. QED  BY <1>0, <2>12, <4>2, SMT DEF CredentialsWritten
    <3>3. SetsCredential(c, u)
      <4>1. arg[c] \in Requests
        BY <3>1 DEF Base, Course
      <4>. QED  BY <2>12, <3>1, <4>1, NoneAssumption DEF SetsCredential
    <3>4. CASE arg[e].cred # arg[c].cred
      <4>1. MergedCredentials(c)[arg[e].cred] = local[c].row[arg[e].cred]
        BY <3>1, <3>4, SMT DEF MergedCredentials
      <4>2. local[c].row[arg[e].cred] = e \/ Reset(e, u) \/ Overlap(e, c)
        BY <1>2, <2>1, <2>2, <2>12, <3>1 DEF CredentialsRead
      <4>3. Overlap(e, c) => Reset(e, u)
        BY <1>2, <3>3 DEF Reset
      <4>. QED  BY <2>3, <3>2, <4>1, <4>2, <4>3
    <3>5. CASE arg[e].cred = arg[c].cred
      <4>1. ~Ended(c)
        BY MovesAlone
      <4>2. c \notin before[e]
        BY <4>1 DEF Base, HistoryOK
      <4>3. e \in before[c] \/ Overlap(e, c)
        BY <1>2, <4>2, NoneAssumption DEF Overlap
      <4>. QED  BY <1>2, <2>3, <3>3, <3>5, <4>3 DEF Reset
    <3>. QED  BY <3>4, <3>5
  <2>. QED  BY <2>1, <2>5, <2>6, <2>7, <2>8, <2>9, <2>10, <2>11, <2>12 DEF UsersChange
<1>. QED  BY <1>1, <1>2

-----------------------------------------------------------------------------
(* References to what is gone.                                             *)

\* What is removed now is removed by a call that no other call has seen end.
LEMMA LaterStays ==
    ASSUME Base, NEW c \in Calls, Moves(c), NEW d \in Calls, pc[d] # "idle", NEW f \in Facts,
           stamp[f] \notin before[d] \/ stamp'[f] # stamp[f]
    PROVE  stamp'[f] \notin before'[d]
<1>1. before'[d] = before[d] /\ stamp'[f] \in {c, stamp[f]} /\ ~Ended(c)
  BY MovesAlone
<1>2. c \notin before[d]
  BY <1>1 DEF Base, HistoryOK
<1>. QED  BY <1>1, <1>2

\* What is there for a call, or went during it, stays so.
LEMMA GoneStays ==
    ASSUME Base, NEW c \in Calls, Moves(c), NEW d \in Calls, pc[d] # "idle"
    PROVE  /\ \A u \in Users :
                 u \in PresentUsers \/ stamp[<<"user", u, "removed">>] \notin before[d]
                 => u \in PresentUsers' \/ stamp'[<<"user", u, "removed">>] \notin before'[d]
           /\ \A g \in Groups :
                 g \in PresentGroups \/ stamp[<<"group", g, "removed">>] \notin before[d]
                 => g \in PresentGroups' \/ stamp'[<<"group", g, "removed">>] \notin before'[d]
           /\ \A o \in OUs :
                 o \in PresentOUs \/ stamp[<<"ou", o, "removed">>] \notin before[d]
                 => o \in PresentOUs' \/ stamp'[<<"ou", o, "removed">>] \notin before'[d]
           /\ \A t \in Types :
                 t \in SchemaNames \/ stamp[<<"schema", t, "removed">>] \notin before[d]
                 => t \in SchemaNames' \/ stamp'[<<"schema", t, "removed">>] \notin before'[d]
<1>0. /\ \A u \in Users : <<"user", u, "removed">> \in Facts
      /\ \A g \in Groups : <<"group", g, "removed">> \in Facts
      /\ \A o \in OUs : <<"ou", o, "removed">> \in Facts
      /\ \A t \in Types : <<"schema", t, "removed">> \in Facts
  BY FactsAre, SMT
<1>1. before'[d] = before[d] /\ c \notin before[d]
  BY MovesAlone DEF Base, HistoryOK
<1>2. ASSUME NEW u \in Users, u \in PresentUsers \/ stamp[<<"user", u, "removed">>] \notin before[d]
      PROVE  u \in PresentUsers' \/ stamp'[<<"user", u, "removed">>] \notin before'[d]
  <2>1. CASE u \in PresentUsers
    BY <1>1, <2>1, UsersMove, <1>0, LaterStays
  <2>2. CASE stamp[<<"user", u, "removed">>] \notin before[d]
    BY <1>0, <2>2, LaterStays
  <2>. QED  BY <1>2, <2>1, <2>2
<1>3. ASSUME NEW g \in Groups, g \in PresentGroups \/ stamp[<<"group", g, "removed">>] \notin before[d]
      PROVE  g \in PresentGroups' \/ stamp'[<<"group", g, "removed">>] \notin before'[d]
  <2>1. CASE g \in PresentGroups
    BY <1>1, <2>1, GroupsMove, <1>0, LaterStays
  <2>2. CASE stamp[<<"group", g, "removed">>] \notin before[d]
    BY <1>0, <2>2, LaterStays
  <2>. QED  BY <1>3, <2>1, <2>2
<1>4. ASSUME NEW o \in OUs, o \in PresentOUs \/ stamp[<<"ou", o, "removed">>] \notin before[d]
      PROVE  o \in PresentOUs' \/ stamp'[<<"ou", o, "removed">>] \notin before'[d]
  <2>1. CASE o \in PresentOUs
    BY <1>1, <2>1, OUsMove, <1>0, LaterStays
  <2>2. CASE stamp[<<"ou", o, "removed">>] \notin before[d]
    BY <1>0, <2>2, LaterStays
  <2>. QED  BY <1>4, <2>1, <2>2
<1>5. ASSUME NEW t \in Types, t \in SchemaNames \/ stamp[<<"schema", t, "removed">>] \notin before[d]
      PROVE  t \in SchemaNames' \/ stamp'[<<"schema", t, "removed">>] \notin before'[d]
  <2>1. CASE t \in SchemaNames
    BY <1>1, <2>1, SchemasMove
  <2>2. CASE stamp[<<"schema", t, "removed">>] \notin before[d]
    BY <1>0, <2>2, LaterStays
  <2>. QED  BY <1>5, <2>1, <2>2
<1>. QED  BY <1>2, <1>3, <1>4, <1>5

\* A principal that a call knows stays known to it.
LEMMA KnownStays ==
    ASSUME Base, NEW c \in Calls, Moves(c), NEW d \in Calls, pc[d] # "idle", NEW p \in Principals,
           Known(p, d)
    PROVE  Known(p, d)'
<1>1. \/ p[1] = "user" /\ p[2] \in Users /\ p = <<"user", p[2]>>
      \/ p[1] = "group" /\ p[2] \in Groups /\ p = <<"group", p[2]>>
  BY DEF Principals
<1>2. CASE p[1] = "user" /\ p[2] \in Users
  BY <1>2, GoneStays DEF Known
<1>3. CASE p[1] = "group" /\ p[2] \in Groups
  BY <1>3, GoneStays DEF Known
<1>. QED  BY <1>1, <1>2, <1>3

\* The principals a request names.
LEMMA NamedAre ==
    ASSUME Base, NEW c \in Calls, pc[c] # "idle",
           arg[c].op \in {"updateGroup", "createRole", "addAssignments"} \cup CreatesGroup
    PROVE  Named(c) \subseteq Principals
<1>1. arg[c] \in Requests
  BY DEF Base, Course
<1>2. CASE arg[c].op \in {"createGroup", "createGroupByPath", "updateGroup"}
  BY <1>1, <1>2, RequestsAssumption, Zenon DEF Named
<1>3. CASE arg[c].op \in {"createRole", "addAssignments"}
  <2>1. arg[c].assigned \subseteq Principals
    BY <1>1, <1>3, RequestsAssumption, Zenon
  <2>2. arg[c].op \notin {"createGroup", "createGroupByPath", "updateGroup"}
    BY <1>3, SMT
  <2>. QED  BY <2>1, <2>2, Zenon DEF Named
<1>. QED  BY <1>2, <1>3 DEF CreatesGroup

\* The type of a user is one.
LEMMA UserTypeIs ==
    ASSUME Base, NEW c \in Calls, pc[c] \in {"validate", "unique", "insertUser", "updateUser"}
    PROVE  UserType(c) \in Types
<1>1. Course(c) /\ LocalOK(c)
  BY DEF Base
<1>2. arg[c] \in Requests /\ arg[c].op \in {"updateUser", "updateUserAttributes"} \cup CreatesUser
  BY <1>1, SMT DEF Course, CreatesUser
<1>3. CASE arg[c].op = "updateUserAttributes"
  <2>1. pc[c] # "insertUser"
    BY <1>1, <1>3, SMT DEF Course, CreatesUser
  <2>. QED  BY <1>1, <1>3, <2>1 DEF LocalOK, UserType
<1>4. CASE arg[c].op # "updateUserAttributes"
  <2>1. arg[c].type \in Types
    BY <1>2, <1>4, RequestsAssumption, Zenon DEF CreatesUser
  <2>. QED  BY <1>4, <2>1 DEF UserType
<1>. QED  BY <1>3, <1>4

\* The principals stay known.
LEMMA PrincipalsCheckedStays ==
    ASSUME Base, NEW c \in Calls, Moves(c), NEW d \in Calls, PrincipalsChecked(d)
    PROVE  PrincipalsChecked(d)'
<1> DEFINE AfterUsers == {"groupIDs", "groupName", "insertGroup", "updateGroup", "roleOU", "roleName",
                          "insertRole", "addAssignments"}
           AfterGroups == AfterUsers \ {"groupIDs"}
           Asks(op) == op \in {"updateGroup", "createRole", "addAssignments"} \cup CreatesGroup
<1> SUFFICES ASSUME arg'[d] # None, Asks(arg'[d].op), pc'[d] \in AfterUsers
             PROVE  \A p \in Named(d)' :
                       /\ p[1] = "user" => Known(p, d)'
                       /\ pc'[d] \in AfterGroups /\ p[1] = "group" => Known(p, d)'
  BY DEF PrincipalsChecked
<1>0. /\ pc[d] # "idle" => Named(d) \subseteq Principals \/ ~Asks(arg[d].op)
      /\ pc[d] \in AfterUsers /\ arg[d] # None /\ Asks(arg[d].op)
         => \A p \in Named(d) : p[1] = "user" => Known(p, d)
      /\ pc[d] \in AfterGroups /\ arg[d] # None /\ Asks(arg[d].op)
         => \A p \in Named(d) : p[1] = "group" => Known(p, d)
  BY NamedAre, SMT DEF PrincipalsChecked
<1>1. CASE d # c
  <2>1. pc'[d] = pc[d] /\ arg'[d] = arg[d] /\ pc[d] # "idle"
    BY <1>1, MovesAlone
  <2>2. Named(d)' = Named(d) /\ Named(d) \subseteq Principals
    BY <1>0, <2>1 DEF Named
  <2>. QED  BY <1>0, <2>1, <2>2, KnownStays
<1>2. CASE d = c
  <2>1. pc'[c] \in Steps /\ ~FirstStep(c) /\ pc'[c] \notin Answers
    BY <1>2, SMT DEF Steps, FirstStep, Answers
  <2>2. Looks(c) /\ ComesFrom(c)
    BY <2>1, Arrives
  <2>3. arg'[c] = arg[c] /\ pc[c] # "idle" /\ Named(c)' = Named(c) /\ Named(c) \subseteq Principals
    <3>1. arg' = arg /\ pc[c] # "idle"
      BY <2>2, SMT DEF Looks, Steps
    <3>. QED  BY <1>0, <1>2, <3>1 DEF Named
  <2>4. CASE UserIDsValid(c)
    <3>1. UsersAmong(Named(c)) \subseteq PresentUsers /\ pc'[c] = "groupIDs"
      BY <2>1, <2>4, CheckLeadsOn DEF UserIDsValid, Answers
    <3>2. \A p \in Named(c) : p[1] = "user" => Known(p, c)
      BY <3>1 DEF UsersAmong, Known
    <3>. QED  BY <1>2, <2>3, <3>1, <3>2, KnownStays
  <2>5. CASE GroupIDsValid(c)
    <3>1. GroupsAmong(Named(c)) \subseteq PresentGroups /\ pc[c] = "groupIDs"
      BY <2>1, <2>5, CheckLeadsOn DEF GroupIDsValid, Answers
    <3>2. \A p \in Named(c) : p[1] = "group" => Known(p, c)
      BY <3>1, SMT DEF GroupsAmong, Known
    <3>. QED  BY <1>0, <1>2, <2>3, <3>1, <3>2, KnownStays
  <2>6. CASE pc[c] \in {"groupName", "roleOU", "roleName"}
    BY <1>0, <1>2, <2>3, <2>6, KnownStays
  <2>7. ~RoleExists(c) \/ pc'[c] # "roleOU"
    <3>1. RoleExists(c) => pc[c] = "roleExists"
      BY DEF RoleExists
    <3>2. pc[c] = "roleExists" => arg[c].op \in {"updateRole", "deleteRole", "addAssignments", "removeAssignments"}
      BY DEF Base, Course
    <3>3. RoleExists(c) => arg[c].op = "addAssignments"
      BY <1>2, <2>3, <3>1, <3>2, SMT DEF CreatesGroup
    <3>4. RoleExists(c) => pc'[c] = "userIDs"
      BY <2>1, <3>3, CheckLeadsOn DEF RoleExists, Answers
    <3>. QED  BY <3>4
  <2>. QED
    <3>1. \/ UserIDsValid(c) \/ GroupIDsValid(c) \/ GroupNameFree(c) \/ RoleOUExists(c) \/ RoleNameFree(c)
      BY <1>2, <2>2, <2>7, SMT DEF ComesFrom
    <3>2. /\ GroupNameFree(c) => pc[c] = "groupName"
          /\ RoleOUExists(c) => pc[c] = "roleOU"
          /\ RoleNameFree(c) => pc[c] = "roleName"
      BY DEF GroupNameFree, RoleOUExists, RoleNameFree
    <3>. QED  BY <2>4, <2>5, <2>6, <3>1, <3>2
<1>. QED  BY <1>1, <1>2

\* The organization unit of a role is the one of the request.
LEMMA RoleOUIs ==
    ASSUME Base, NEW c \in Calls, pc[c] \in {"roleOU", "roleName", "insertRole", "updateRole"}
    PROVE  local[c].ou = arg[c].ou /\ arg[c].ou \in OUs
<1>1. Course(c) /\ LocalOK(c)
  BY DEF Base
<1>2. arg[c] \in Requests /\ arg[c].op \in {"createRole", "updateRole"}
  BY <1>1, SMT DEF Course
<1>3. arg[c].ou \in OUs
  BY <1>2, RequestsAssumption, Zenon
<1>4. Running(c)
  BY SMT DEF Running, Ended, Answers
<1>. QED  BY <1>1, <1>2, <1>3, <1>4 DEF LocalOK

\* The organization unit of a role was there during the call.
LEMMA RoleOUCheckedStays ==
    ASSUME Base, NEW c \in Calls, Moves(c), NEW d \in Calls, RoleOUChecked(d)
    PROVE  RoleOUChecked(d)'
<1> SUFFICES ASSUME pc'[d] \in {"roleName", "insertRole", "updateRole"}
             PROVE  \A o : o = local'[d].ou
                           => o \in PresentOUs' \/ stamp'[<<"ou", o, "removed">>] \notin before'[d]
  BY DEF RoleOUChecked
<1> TAKE o
<1> HAVE o = local'[d].ou
<1>1. CASE d # c
  <2>1. pc'[d] = pc[d] /\ local'[d] = local[d] /\ pc[d] # "idle"
    BY <1>1, MovesAlone
  <2>2. local[d].ou \in OUs
    BY <2>1, RoleOUIs
  <2>. QED  BY <2>1, <2>2, GoneStays DEF RoleOUChecked
<1>2. CASE d = c
  <2>1. pc'[c] \in Steps /\ ~FirstStep(c) /\ pc'[c] \notin Answers
    BY <1>2, SMT DEF Steps, FirstStep, Answers
  <2>2. Looks(c) /\ (RoleOUExists(c) \/ RoleNameFree(c))
    BY <1>2, <2>1, Arrives DEF ComesFrom
  <2>3. CASE RoleOUExists(c)
    <3> DEFINE holds == local[c].ou \in PresentOUs
    <3>0. Check(c, holds, "refused", "roleName") /\ "refused" \in Answers
      BY <2>3 DEF RoleOUExists, Answers
    <3> HIDE DEF holds
    <3>1. holds /\ local'[c] = local[c]
      BY <2>1, <3>0, CheckLeadsOn
    <3>2. ous' = ous
      BY <2>2 DEF Looks, tables
    <3>. QED  BY <1>2, <3>1, <3>2 DEF PresentOUs, holds
  <2>4. CASE RoleNameFree(c)
    <3>1. local'[c] = local[c] /\ pc[c] = "roleName"
      BY <2>1, <2>4, CheckLeadsOn DEF RoleNameFree, Answers
    <3>2. local[c].ou \in OUs
      BY <3>1, RoleOUIs
    <3>3. o = local[c].ou /\ pc[c] # "idle"
      BY <1>2, <3>1
    <3>4. o \in PresentOUs \/ stamp[<<"ou", o, "removed">>] \notin before[c]
      BY <1>2, <3>1, <3>3 DEF RoleOUChecked
    <3>. QED  BY <1>2, <3>2, <3>3, <3>4, GoneStays
  <2>. QED  BY <2>2, <2>3, <2>4
<1>. QED  BY <1>1, <1>2

\* The type of a user was there during the call.
LEMMA TypeCheckedStays ==
    ASSUME Base, NEW c \in Calls, Moves(c), NEW d \in Calls, TypeChecked(d)
    PROVE  TypeChecked(d)'
<1> SUFFICES ASSUME pc'[d] \in {"unique", "insertUser", "updateUser"}
             PROVE  \A t : t = UserType(d)'
                           => t \in SchemaNames' \/ stamp'[<<"schema", t, "removed">>] \notin before'[d]
  BY DEF TypeChecked
<1> TAKE t
<1> HAVE t = UserType(d)'
<1>1. CASE d # c
  <2>1. pc'[d] = pc[d] /\ UserType(d)' = UserType(d) /\ pc[d] # "idle"
    BY <1>1, MovesAlone DEF UserType
  <2>2. UserType(d) \in Types
    BY <2>1, UserTypeIs
  <2>3. t \in SchemaNames \/ stamp[<<"schema", t, "removed">>] \notin before[d]
    BY <2>1 DEF TypeChecked
  <2>. QED  BY <2>1, <2>2, <2>3, GoneStays
<1>2. CASE d = c
  <2>1. pc'[c] \in Steps /\ ~FirstStep(c) /\ pc'[c] \notin Answers
    BY <1>2, SMT DEF Steps, FirstStep, Answers
  <2>2. Looks(c) /\ (ValidateUser(c) \/ ValidateUserUniqueness(c))
    BY <1>2, <2>1, Arrives DEF ComesFrom
  <2>3. arg' = arg /\ schemas' = schemas
    BY <2>2 DEF Looks, tables
  <2>4. UserType(c) \in SchemaNames /\ local'[c] = local[c]
    <3>1. CASE ValidateUser(c)
      <4> DEFINE holds == UserType(c) \in SchemaNames
      <4>1. Check(c, holds, "refused", "unique") /\ "refused" \in Answers
        BY <3>1 DEF ValidateUser, Answers
      <4> HIDE DEF holds
      <4>2. holds /\ local'[c] = local[c]
        BY <2>1, <4>1, CheckLeadsOn
      <4>. QED  BY <4>2 DEF holds
    <3>2. CASE ValidateUserUniqueness(c)
      <4> DEFINE same == IdentifyUser(arg[c].attr)
                 holds == UserType(c) \in SchemaNames /\ (arg[c].attr = None \/ same = {})
                 refusal == IF UserType(c) \notin SchemaNames THEN "refused"
                              ELSE IF Cardinality(same) = 1 THEN "conflict" ELSE "failed"
      <4>1. Check(c, holds, refusal, AfterUnique(c))
        BY <3>2 DEF ValidateUserUniqueness
      <4>2. refusal \in Answers
        BY DEF Answers
      <4> HIDE DEF holds, refusal
      <4>3. holds /\ local'[c] = local[c]
        BY <2>1, <4>1, <4>2, CheckLeadsOn
      <4>. QED  BY <4>3 DEF holds
    <3>. QED  BY <2>2, <3>1, <3>2
  <2>. QED  BY <1>2, <2>3, <2>4 DEF UserType, SchemaNames, PresentSchemas
<1>. QED  BY <1>1, <1>2

\* The call that signed a fact has ended.
LEMMA SignersEnded ==
    ASSUME Base, NEW f \in Facts, stamp[f] # None
    PROVE  stamp[f] \in Calls /\ pc[stamp[f]] # "idle" /\ Ended(stamp[f])
<1>1. stamp[f] \in Calls /\ Ended(stamp[f])
  BY DEF Base, TypeOK, HistoryOK
<1>. QED  BY <1>1 DEF Ended, Answers

\* NobodyGoneIsAdded: what a call writes, it has looked for.
LEMMA NobodyGoneStays ==
    ASSUME Base, NobodyGoneIsAdded, NEW c \in Calls, Moves(c),
           PrincipalsChecked(c), RoleOUChecked(c), TypeChecked(c)
    PROVE  NobodyGoneIsAdded'
<1> DEFINE There(p, writer) == \/ p[2] \in (IF p[1] = "user" THEN PresentUsers ELSE PresentGroups)
                               \/ writer = None
                               \/ stamp[<<p[1], p[2], "removed">>] \notin before[writer]
<1>0. /\ \A g \in Groups : <<"group", g, "members">> \in Facts
      /\ \A r \in Roles : <<"role", r, "ou">> \in Facts
      /\ \A r \in Roles : \A p \in Principals : <<"assigned", r, p>> \in Facts
      /\ \A u \in Users : <<"user", u, "type">> \in Facts
  <2>1. "type" \in UserFields \cup {"removed"}
    BY DEF UserFields
  <2>. QED  BY <2>1, FactsAre
<1>1. /\ \A g \in PresentGroups : groups[g].members \subseteq Principals
      /\ \A r \in PresentRoles : roles[r].assigned \subseteq Principals /\ roles[r].ou \in OUs
      /\ \A u \in PresentUsers : users[u].type \in Types
  BY RowsAre DEF Base
<1>2. ASSUME NEW f \in Facts, NEW p \in Principals, There(p, stamp[f]), stamp'[f] = stamp[f]
      PROVE  \/ (p[2] \in (IF p[1] = "user" THEN PresentUsers ELSE PresentGroups))'
             \/ Later(stamp[<<p[1], p[2], "removed">>], stamp[f])'
  <2>1. CASE stamp[f] = None
    BY <1>2, <2>1 DEF Later
  <2>2. CASE stamp[f] # None
    <3>1. stamp[f] \in Calls /\ pc[stamp[f]] # "idle"
      BY <2>2, SignersEnded
    <3>2. Known(p, stamp[f])
      BY <1>2, <2>2 DEF Known
    <3>3. ASSUME NEW w \in Calls, w = stamp[f] PROVE Known(p, w)'
      BY <3>1, <3>2, <3>3, KnownStays
    <3>. QED  BY <1>2, <3>1, <3>3 DEF Known, Later
  <2>. QED  BY <2>1, <2>2
<1>3. ASSUME NEW f \in Facts, NEW p \in Principals, stamp'[f] = c, Known(p, c), pc[c] # "idle"
      PROVE  \/ (p[2] \in (IF p[1] = "user" THEN PresentUsers ELSE PresentGroups))'
             \/ Later(stamp[<<p[1], p[2], "removed">>], stamp[f])'
  BY <1>3, KnownStays DEF Known, Later
<1>4. ASSUME NEW g \in PresentGroups', NEW p \in groups'[g].members
      PROVE  \/ (p[2] \in (IF p[1] = "user" THEN PresentUsers ELSE PresentGroups))'
             \/ Later(stamp[<<p[1], p[2], "removed">>], stamp[<<"group", g, "members">>])'
  <2>0. g \in Groups
    BY DEF PresentGroups
  <2>1. CASE /\ stamp'[<<"group", g, "members">>] = stamp[<<"group", g, "members">>]
             /\ g \in PresentGroups /\ groups'[g].members = groups[g].members
    <3>1. p \in groups[g].members /\ p \in Principals
      BY <1>1, <2>1
    <3>2. There(p, stamp[<<"group", g, "members">>])
      BY <2>1, <3>1 DEF NobodyGoneIsAdded, Later
    <3>. QED  BY <1>0, <1>2, <2>0, <2>1, <3>1, <3>2
  <2>2. CASE /\ stamp'[<<"group", g, "members">>] = c /\ WritesGroup(c, g)
             /\ groups'[g].members = arg[c].members
    <3>1. pc[c] \in {"insertGroup", "updateGroup"} /\ Course(c)
      BY <2>2 DEF WritesGroup, Base
    <3>2. arg[c].op \in {"updateGroup"} \cup CreatesGroup /\ arg[c] \in Requests /\ pc[c] # "idle"
      BY <3>1, SMT DEF Course
    <3>3. Named(c) = arg[c].members /\ Named(c) \subseteq Principals /\ arg[c] # None
      BY <3>2, NamedAre, NoneAssumption DEF Named, CreatesGroup
    <3>4. Known(p, c) /\ p \in Principals
      <4>1. p \in Named(c) /\ p \in Principals
        BY <2>2, <3>3
      <4>2. p[1] = "user" \/ p[1] = "group"
        BY <4>1 DEF Principals
      <4>. QED  BY <3>1, <3>2, <3>3, <4>1, <4>2 DEF PrincipalsChecked
    <3>. QED  BY <1>0, <1>3, <2>0, <2>2, <3>2, <3>4
  <2>. QED  BY <2>1, <2>2, GroupsMove
<1>5. ASSUME NEW r \in PresentRoles', NEW p \in roles'[r].assigned
      PROVE  \/ (p[2] \in (IF p[1] = "user" THEN PresentUsers ELSE PresentGroups))'
             \/ Later(stamp[<<p[1], p[2], "removed">>], stamp[<<"assigned", r, p>>])'
  <2>0. r \in Roles
    BY DEF PresentRoles
  <2>1. CASE /\ stamp'[<<"assigned", r, p>>] = stamp[<<"assigned", r, p>>]
             /\ r \in PresentRoles /\ p \in roles[r].assigned
    <3>1. p \in Principals
      BY <1>1, <2>1
    <3>2. There(p, stamp[<<"assigned", r, p>>])
      BY <2>1 DEF NobodyGoneIsAdded, Later
    <3>. QED  BY <1>0, <1>2, <2>0, <2>1, <3>1, <3>2
  <2>2. CASE /\ stamp'[<<"assigned", r, p>>] = c
             /\ pc[c] \in {"insertRole", "addAssignments"}
             /\ Ends(c) /\ p \in arg[c].assigned
    <3>1. Course(c)
      BY DEF Base
    <3>2. arg[c].op \in {"createRole", "addAssignments"} /\ arg[c] \in Requests /\ pc[c] # "idle"
      BY <2>2, <3>1, SMT DEF Course
    <3>3. Named(c) = arg[c].assigned /\ Named(c) \subseteq Principals /\ arg[c] # None
      <4>1. arg[c].op \notin {"createGroup", "createGroupByPath", "updateGroup"}
        BY <3>2, SMT
      <4>. QED  BY <3>2, <4>1, NamedAre, NoneAssumption DEF Named
    <3>4. Known(p, c) /\ p \in Principals
      <4>1. p \in Named(c) /\ p \in Principals
        BY <2>2, <3>3
      <4>2. p[1] = "user" \/ p[1] = "group"
        BY <4>1 DEF Principals
      <4>. QED  BY <2>2, <3>2, <3>3, <4>1, <4>2 DEF PrincipalsChecked
    <3>. QED  BY <1>0, <1>3, <2>0, <2>2, <3>2, <3>4
  <2>. QED  BY <2>1, <2>2, RolesMove
<1>6. ASSUME NEW r \in PresentRoles'
      PROVE  (roles[r].ou \in PresentOUs
              \/ Later(stamp[<<"ou", roles[r].ou, "removed">>], stamp[<<"role", r, "ou">>]))'
  <2>0. r \in Roles
    BY DEF PresentRoles
  <2>1. CASE /\ stamp'[<<"role", r, "ou">>] = stamp[<<"role", r, "ou">>]
             /\ r \in PresentRoles /\ roles'[r].ou = roles[r].ou
    <3>1. CASE stamp[<<"role", r, "ou">>] = None
      BY <2>1, <3>1 DEF Later
    <3>2. CASE stamp[<<"role", r, "ou">>] # None
      <4>1. stamp[<<"role", r, "ou">>] \in Calls /\ pc[stamp[<<"role", r, "ou">>]] # "idle"
        BY <1>0, <2>0, <3>2, SignersEnded
      <4>2. roles[r].ou \in OUs
            /\ (\/ roles[r].ou \in PresentOUs
                \/ stamp[<<"ou", roles[r].ou, "removed">>] \notin before[stamp[<<"role", r, "ou">>]])
        BY <1>1, <2>1, <3>2 DEF NobodyGoneIsAdded, Later
      <4>. QED  BY <2>1, <4>1, <4>2, GoneStays DEF Later
    <3>. QED  BY <3>1, <3>2
  <2>2. CASE /\ stamp'[<<"role", r, "ou">>] = c /\ pc[c] \in {"insertRole", "updateRole"}
             /\ Ends(c) /\ roles'[r].ou = arg[c].ou
    <3>1. local[c].ou = arg[c].ou /\ arg[c].ou \in OUs
      BY <2>2, RoleOUIs
    <3>. QED  BY <2>2, <3>1, GoneStays DEF Later, RoleOUChecked
  <2>. QED  BY <2>1, <2>2, RolesMove
<1>7. ASSUME NEW u \in PresentUsers'
      PROVE  (users[u].type \in SchemaNames
              \/ Later(stamp[<<"schema", users[u].type, "removed">>], stamp[<<"user", u, "type">>]))'
  <2>0. u \in Users /\ "type" \in UserFields
    BY DEF PresentUsers, UserFields
  <2>1. CASE /\ stamp'[<<"user", u, "type">>] = stamp[<<"user", u, "type">>]
             /\ u \in PresentUsers /\ users'[u]["type"] = users[u]["type"]
    <3>1. CASE stamp[<<"user", u, "type">>] = None
      BY <2>1, <3>1 DEF Later
    <3>2. CASE stamp[<<"user", u, "type">>] # None
      <4>1. stamp[<<"user", u, "type">>] \in Calls /\ pc[stamp[<<"user", u, "type">>]] # "idle"
        BY <1>0, <2>0, <3>2, SignersEnded
      <4>2. users[u].type \in Types
            /\ (\/ users[u].type \in SchemaNames
                \/ stamp[<<"schema", users[u].type, "removed">>] \notin before[stamp[<<"user", u, "type">>]])
        BY <1>1, <2>1, <3>2 DEF NobodyGoneIsAdded, Later
      <4>. QED  BY <2>1, <4>1, <4>2, GoneStays DEF Later
    <3>. QED  BY <3>1, <3>2
  <2>2. CASE /\ stamp'[<<"user", u, "type">>] = c /\ WritesUser(c, u)
             /\ users'[u]["type"] = NewUser(c, None)["type"]
    <3>1. pc[c] \in {"insertUser", "updateUser"}
      BY <2>2 DEF WritesUser
    <3>2. users'[u].type = UserType(c)
      BY <2>2 DEF NewUser
    <3>3. UserType(c) \in Types
      BY <3>1, UserTypeIs
    <3>. QED  BY <2>2, <3>1, <3>2, <3>3, GoneStays DEF Later, TypeChecked
  <2>. QED  BY <2>0, <2>1, <2>2, UsersMove
<1>. QED  BY <1>4, <1>5, <1>6, <1>7 DEF NobodyGoneIsAdded

-----------------------------------------------------------------------------
(* What is in an organization unit.                                        *)

\* Calls that run at the same time overlap.
LEMMA RunningOverlap ==
    ASSUME Base, NEW c \in Calls, Moves(c), pc[c] # "idle",
           NEW d \in Calls \ {c}, pc[d] # "idle", ~Ended(d)
    PROVE  Overlap(c, d)' /\ Overlap(d, c)'
<1>1. ~Ended(c) /\ before'[c] = before[c] /\ before'[d] = before[d]
  BY MovesAlone
<1>2. c \notin before'[d] /\ d \notin before'[c]
  BY <1>1 DEF Base, HistoryOK
<1>. QED  BY <1>2, NoneAssumption DEF Overlap

\* An update that overlaps another of the same row goes on to.
LEMMA OtherUpdateStays ==
    ASSUME Base, NEW c \in Calls, Moves(c), NEW d \in Calls, pc[d] # "idle"
    PROVE  /\ \A o : (\E e \in Calls : Overlap(d, e) /\ UpdatesOU(e, o))
                     => \E e \in Calls : Overlap(d, e)' /\ UpdatesOU(e, o)'
           /\ \A u : (\E e \in Calls : Overlap(d, e) /\ UpdatesUser(e, u))
                     => \E e \in Calls : Overlap(d, e)' /\ UpdatesUser(e, u)'
           /\ \A g : (\E e \in Calls : Overlap(d, e) /\ UpdatesGroup(e, g))
                     => \E e \in Calls : Overlap(d, e)' /\ UpdatesGroup(e, g)'
<1>1. ASSUME NEW e \in Calls, Overlap(d, e), arg[e] # None
      PROVE  Overlap(d, e)' /\ arg'[e] = arg[e]
  <2>1. arg'[e] = arg[e] /\ pc[e] # "idle"
    BY <1>1, RequestsStay
  <2>2. d # e /\ d \notin before'[e] /\ e \notin before'[d]
    BY <1>1, <2>1, OverlapsStay
  <2>. QED  BY <2>1, <2>2, NoneAssumption DEF Overlap
<1>2. ASSUME NEW o, NEW e \in Calls, Overlap(d, e), UpdatesOU(e, o)
      PROVE  Overlap(d, e)' /\ UpdatesOU(e, o)'
  BY <1>1, <1>2 DEF UpdatesOU
<1>3. ASSUME NEW u, NEW e \in Calls, Overlap(d, e), UpdatesUser(e, u)
      PROVE  Overlap(d, e)' /\ UpdatesUser(e, u)'
  BY <1>1, <1>3 DEF UpdatesUser
<1>4. ASSUME NEW g, NEW e \in Calls, Overlap(d, e), UpdatesGroup(e, g)
      PROVE  Overlap(d, e)' /\ UpdatesGroup(e, g)'
  BY <1>1, <1>4 DEF UpdatesGroup
<1>. QED  BY <1>2, <1>3, <1>4, Zenon

\* Whoever is in the organization unit to be deleted came since.
LEMMA ChildrenCountedStays ==
    ASSUME Base, NEW c \in Calls, Moves(c), NEW d \in Calls, ChildrenCounted(d)
    PROVE  ChildrenCounted(d)'
<1> SUFFICES ASSUME pc'[d] = "deleteOU"
             PROVE  /\ \A p \in PresentOUs' :
                          ous'[p].parent = local'[d].ou => Since(<<"ou", p, "parent">>, d)'
                    /\ \A u \in PresentUsers' :
                          users'[u].ou = local'[d].ou => Since(<<"user", u, "ou">>, d)'
                    /\ \A g \in PresentGroups' :
                          groups'[g].ou = local'[d].ou => Since(<<"group", g, "ou">>, d)'
  BY DEF ChildrenCounted
<1>1. CASE d = c
  <2>1. pc'[c] \in Steps /\ ~FirstStep(c) /\ pc'[c] \notin Answers
    BY <1>1, SMT DEF Steps, FirstStep, Answers
  <2>2. NoChildResources(c) /\ Looks(c)
    BY <1>1, <2>1, Arrives DEF ComesFrom
  <2> DEFINE holds == ~HasChildResources(local[c].ou)
  <2>3. Check(c, holds, "refused", "deleteOU") /\ "refused" \in Answers
    BY <2>2 DEF NoChildResources, Answers
  <2> HIDE DEF holds
  <2>4. holds /\ local'[c] = local[c]
    BY <2>1, <2>3, CheckLeadsOn
  <2>5. ous' = ous /\ users' = users /\ groups' = groups
    BY <2>2 DEF Looks, tables
  <2>. QED  BY <1>1, <2>4, <2>5 DEF holds, HasChildResources, PresentOUs, PresentUsers, PresentGroups
<1>2. CASE d # c
  <2>1. pc'[d] = pc[d] /\ local'[d] = local[d] /\ pc[d] # "idle"
    BY <1>2, MovesAlone
  <2>2. ASSUME NEW p \in PresentOUs', ous'[p].parent = local'[d].ou
        PROVE  Since(<<"ou", p, "parent">>, d)'
    <3>1. p \in OUs /\ "parent" \in OUFields /\ "parent" \in OUFields \cup {"removed"}
      BY DEF PresentOUs, OUFields
    <3>2. <<"ou", p, "parent">> \in Facts
      BY <3>1, FactsAre, Zenon
    <3>3. stamp'[<<"ou", p, "parent">>] = stamp[<<"ou", p, "parent">>]
          => p \in PresentOUs /\ ous'[p].parent = ous[p].parent
      BY <3>1, OUsMove
    <3>4. CASE stamp'[<<"ou", p, "parent">>] = stamp[<<"ou", p, "parent">>]
      <4>1. Since(<<"ou", p, "parent">>, d)
        BY <2>1, <2>2, <3>3, <3>4 DEF ChildrenCounted
      <4>. QED  BY <2>1, <3>2, <4>1, SinceStays
    <3>5. CASE stamp'[<<"ou", p, "parent">>] # stamp[<<"ou", p, "parent">>]
      BY <2>1, <3>2, <3>5, SinceStays
    <3>. QED  BY <3>4, <3>5
  <2>3. ASSUME NEW u \in PresentUsers', users'[u].ou = local'[d].ou
        PROVE  Since(<<"user", u, "ou">>, d)'
    <3>1. u \in Users /\ "ou" \in UserFields /\ "ou" \in UserFields \cup {"removed"}
      BY DEF PresentUsers, UserFields
    <3>2. <<"user", u, "ou">> \in Facts
      BY <3>1, FactsAre, Zenon
    <3>3. stamp'[<<"user", u, "ou">>] = stamp[<<"user", u, "ou">>]
          => u \in PresentUsers /\ users'[u].ou = users[u].ou
      BY <3>1, UsersMove
    <3>4. CASE stamp'[<<"user", u, "ou">>] = stamp[<<"user", u, "ou">>]
      <4>1. Since(<<"user", u, "ou">>, d)
        BY <2>1, <2>3, <3>3, <3>4 DEF ChildrenCounted
      <4>. QED  BY <2>1, <3>2, <4>1, SinceStays
    <3>5. CASE stamp'[<<"user", u, "ou">>] # stamp[<<"user", u, "ou">>]
      BY <2>1, <3>2, <3>5, SinceStays
    <3>. QED  BY <3>4, <3>5
  <2>4. ASSUME NEW g \in PresentGroups', groups'[g].ou = local'[d].ou
        PROVE  Since(<<"group", g, "ou">>, d)'
    <3>1. g \in Groups /\ "ou" \in GroupFields /\ "ou" \in GroupFields \cup {"members", "removed"}
      BY DEF PresentGroups, GroupFields
    <3>2. <<"group", g, "ou">> \in Facts
      BY <3>1, FactsAre, Zenon
    <3>3. stamp'[<<"group", g, "ou">>] = stamp[<<"group", g, "ou">>]
          => g \in PresentGroups /\ groups'[g].ou = groups[g].ou
      BY <3>1, GroupsMove
    <3>4. CASE stamp'[<<"group", g, "ou">>] = stamp[<<"group", g, "ou">>]
      <4>1. Since(<<"group", g, "ou">>, d)
        BY <2>1, <2>4, <3>3, <3>4 DEF ChildrenCounted
      <4>. QED  BY <2>1, <3>2, <4>1, SinceStays
    <3>5. CASE stamp'[<<"group", g, "ou">>] # stamp[<<"group", g, "ou">>]
      BY <2>1, <3>2, <3>5, SinceStays
    <3>. QED  BY <3>4, <3>5
  <2>. QED  BY <2>2, <2>3, <2>4
<1>. QED  BY <1>1, <1>2

\* An organization unit that was there for a call is, or went during it.
LEMMA ThereStays ==
    ASSUME Base, NEW c \in Calls, Moves(c), NEW d \in Calls, pc[d] # "idle", NEW o \in OUs,
           ThereOrGoneSince(o, d)
    PROVE  ThereOrGoneSince(o, d)'
<1>1. <<"ou", o, "removed">> \in Facts
  BY FactsAre, SMT
<1>2. CASE o \in PresentOUs
  BY <1>1, <1>2, OUsMove, SinceStays DEF ThereOrGoneSince
<1>3. CASE Since(<<"ou", o, "removed">>, d)
  BY <1>1, <1>3, SinceStays DEF ThereOrGoneSince
<1>. QED  BY <1>2, <1>3 DEF ThereOrGoneSince

\* The checks of a user, on the way to the write.
LEMMA UserStepsKeep ==
    ASSUME Base, NEW c \in Calls, Looks(c), ComesFrom(c),
           pc'[c] \in {"isParent", "validate", "unique", "insertUser", "updateUser"},
           ~GetUser(c)
    PROVE  /\ pc[c] \in {"schema", "isParent", "validate", "unique"}
           /\ local'[c].ou = local[c].ou
           /\ pc[c] \in {"validate", "unique"} => local'[c] = local[c]
           /\ pc'[c] = "validate" => pc[c] \in {"schema", "isParent"}
<1>1. DOMAIN pc = Calls /\ DOMAIN local = Calls /\ DOMAIN local[c] = {"ou", "path", "walk", "row"}
      /\ pc'[c] \notin Answers
  BY SMT DEF Base, TypeOK, Answers
<1>2. CASE SchemaOfType(c)
  <2>1. pc[c] = "schema"
    BY <1>2 DEF SchemaOfType
  <2>2. Answer(c, "refused") => pc'[c] = "refused"
    BY <1>1, SMT DEF Answer, Goto
  <2>3. PICK s \in PresentSchemas :
           Keep(c, [local[c] EXCEPT !.walk = local[c].ou, !.row = schemas[s].ou])
    BY <1>1, <1>2, <2>2 DEF SchemaOfType, Answers
  <2>4. local'[c] = [local[c] EXCEPT !.walk = local[c].ou, !.row = schemas[s].ou]
    BY <1>1, <2>3, SMT DEF Keep
  <2>. QED  BY <1>1, <2>1, <2>4, SMT
<1>3. CASE IsParent(c)
  <2>1. pc[c] = "isParent"
    BY <1>3 DEF IsParent
  <2>2. local'[c].ou = local[c].ou
    <3>1. CASE Keep(c, [local[c] EXCEPT !.walk = ous[local[c].walk].parent])
      <4>1. local'[c] = [local[c] EXCEPT !.walk = ous[local[c].walk].parent]
        BY <1>1, <3>1, SMT DEF Keep
      <4>. QED  BY <1>1, <4>1, SMT
    <3>2. CASE Check(c, local[c].walk = local[c].row, "refused", "validate")
      <4> DEFINE holds == local[c].walk = local[c].row
      <4>1. Check(c, holds, "refused", "validate") /\ "refused" \in Answers
        BY <3>2 DEF Answers
      <4> HIDE DEF holds
      <4>. QED  BY <1>1, <4>1, CheckLeadsOn
    <3>. QED  BY <1>3, <3>1, <3>2 DEF IsParent
  <2>. QED  BY <2>1, <2>2
<1>4. CASE ValidateUser(c)
  <2> DEFINE holds == UserType(c) \in SchemaNames
  <2>1. Check(c, holds, "refused", "unique") /\ "refused" \in Answers
    BY <1>4 DEF ValidateUser, Answers
  <2> HIDE DEF holds
  <2>2. local'[c] = local[c] /\ pc'[c] = "unique"
    BY <1>1, <2>1, CheckLeadsOn
  <2>3. pc[c] = "validate"
    BY <1>4 DEF ValidateUser
  <2>. QED  BY <2>2, <2>3
<1>5. CASE ValidateUserUniqueness(c)
  <2> DEFINE same == IdentifyUser(arg[c].attr)
             holds == UserType(c) \in SchemaNames /\ (arg[c].attr = None \/ same = {})
             refusal == IF UserType(c) \notin SchemaNames THEN "refused"
                          ELSE IF Cardinality(same) = 1 THEN "conflict" ELSE "failed"
  <2>1. Check(c, holds, refusal, AfterUnique(c)) /\ pc[c] = "unique"
    BY <1>5 DEF ValidateUserUniqueness
  <2>2. refusal \in Answers
    BY DEF Answers
  <2> HIDE DEF holds, refusal
  <2>3. local'[c] = local[c] /\ pc'[c] = AfterUnique(c)
    BY <1>1, <2>1, <2>2, CheckLeadsOn
  <2>. QED  BY <2>1, <2>3 DEF AfterUnique
<1>. QED  BY <1>2, <1>3, <1>4, <1>5, SMT DEF ComesFrom

\* The organization unit of a user was there during the call.
LEMMA UserOUCheckedStays ==
    ASSUME Base, NEW c \in Calls, Moves(c), NEW d \in Calls, UserOUChecked(d)
    PROVE  UserOUChecked(d)'
<1> DEFINE At == {"schema", "isParent", "validate", "unique", "insertUser", "updateUser"}
<1> SUFFICES ASSUME pc'[d] \in At, arg'[d].op # "updateUserAttributes"
             PROVE  \A o : o = local'[d].ou => ThereOrGoneSince(o, d)'
  BY DEF UserOUChecked, ThereOrGoneSince, Since
<1> TAKE o
<1> HAVE o = local'[d].ou
<1>0. pc[d] \in At => local[d].ou \in OUs
  BY SMT DEF Base, LocalOK
<1>1. CASE d # c
  <2>1. pc'[d] = pc[d] /\ local'[d] = local[d] /\ arg'[d] = arg[d] /\ pc[d] # "idle"
    BY <1>1, MovesAlone
  <2>2. o \in OUs /\ ThereOrGoneSince(o, d)
    BY <1>0, <2>1, SMT DEF UserOUChecked
  <2>. QED  BY <2>1, <2>2, ThereStays
<1>2. CASE d = c
  <2>1. pc'[c] \in Steps /\ ~FirstStep(c) /\ pc'[c] \notin Answers
    BY <1>2, SMT DEF Steps, FirstStep, Answers
  <2>2. Looks(c) /\ ComesFrom(c) /\ arg'[c] = arg[c] /\ pc[c] # "idle"
    <3>1. Looks(c) /\ ComesFrom(c)
      BY <1>2, <2>1, Arrives
    <3>. QED  BY <3>1, SMT DEF Looks, Steps
  <2>3. CASE pc'[c] = "schema"
    <3>1. OUExists(c)
      BY <2>2, <2>3 DEF ComesFrom
    <3> DEFINE holds == local[c].ou \in PresentOUs
               next == IF arg[c].op = "deleteOU" THEN "children" ELSE "schema"
    <3>2. Check(c, holds, "refused", next) /\ "refused" \in Answers
      BY <3>1 DEF OUExists, Answers
    <3> HIDE DEF holds, next
    <3>3. holds /\ local'[c] = local[c]
      BY <2>1, <3>2, CheckLeadsOn
    <3>4. ous' = ous
      BY <2>2 DEF Looks, tables
    <3>. QED  BY <1>2, <3>3, <3>4 DEF holds, ThereOrGoneSince, PresentOUs
  <2>4. CASE pc'[c] # "schema"
    <3>1. ~GetUser(c)
      <4>1. GetUser(c) => pc[c] = "getUser"
        BY DEF GetUser
      <4>. QED  BY <1>2, <2>2, <4>1 DEF Base, Course
    <3>2. pc[c] \in At /\ local'[c].ou = local[c].ou
      BY <1>2, <2>2, <2>4, <3>1, UserStepsKeep
    <3>3. o \in OUs /\ ThereOrGoneSince(o, c)
      BY <1>0, <1>2, <2>2, <3>2 DEF UserOUChecked
    <3>. QED  BY <1>2, <2>2, <3>3, ThereStays
  <2>. QED  BY <2>3, <2>4
<1>. QED  BY <1>1, <1>2

-----------------------------------------------------------------------------
(* What updates have read of the rows they write back.                     *)

\* A call that updates a row says so in its request.
LEMMA UpdatersAre ==
    ASSUME Base, NEW c \in Calls
    PROVE  /\ pc[c] = "updateUser" => UpdatesUser(c, arg[c].user)
           /\ pc[c] = "updateGroup" => UpdatesGroup(c, arg[c].group)
<1>1. Course(c) /\ None \notin Requests
  BY NoneAssumption DEF Base
<1>2. pc[c] \in {"updateUser", "updateGroup"} => arg[c] # None
  BY <1>1, SMT DEF Course
<1>. QED  BY <1>1, <1>2, SMT DEF Course, UpdatesUser, UpdatesGroup

\* The organization unit that UpdateUserAttributes has read is still that of the
\* user, unless another update of the user runs.
LEMMA UserRowReadStays ==
    ASSUME Base, NewRows, NEW c \in Calls, Moves(c), NEW d \in Calls, UserRowRead(d)
    PROVE  UserRowRead(d)'
<1> DEFINE At == {"validate", "unique", "updateUser"}
           Others(e, v) == \E x \in Calls : Overlap(e, x) /\ UpdatesUser(x, v)
<1> SUFFICES ASSUME pc'[d] \in At, arg'[d].op = "updateUserAttributes"
             PROVE  \A u : u = arg'[d].user =>
                        /\ u \in Calls => pc'[u] \in Answers
                        /\ u \in PresentUsers' =>
                              \/ users'[u].ou = local'[d].ou
                              \/ \E x \in Calls : Overlap(d, x)' /\ UpdatesUser(x, u)'
  BY DEF UserRowRead, Ended, UpdatesUser, Overlap
<1> TAKE u
<1> HAVE u = arg'[d].user
<1>0. \A e \in Calls : pc[e] \in Answers => pc'[e] \in Answers
  BY MovesAlone, Zenon DEF Ended
<1>1. CASE d # c
  <2>1. pc'[d] = pc[d] /\ local'[d] = local[d] /\ arg'[d] = arg[d] /\ pc[d] # "idle" /\ ~Ended(d)
    <3>1. pc'[d] = pc[d] /\ local'[d] = local[d] /\ arg'[d] = arg[d]
      BY <1>1, MovesAlone
    <3>. QED  BY <3>1, SMT DEF Ended, Answers
  <2>2. /\ u \in Calls => pc[u] \in Answers
        /\ u \in PresentUsers => users[u].ou = local[d].ou \/ Others(d, u)
    BY <2>1 DEF UserRowRead, Ended
  <2>3. ASSUME u \in PresentUsers'
        PROVE  users'[u].ou = local'[d].ou \/ \E x \in Calls : Overlap(d, x)' /\ UpdatesUser(x, u)'
    <3>1. (u \in PresentUsers /\ users'[u]["ou"] = users[u]["ou"]) \/ WritesUser(c, u)
      <4>1. "ou" \in UserFields
        BY DEF UserFields
      <4>2. \A v \in PresentUsers' :
              \/ v \in PresentUsers /\ users'[v]["ou"] = users[v]["ou"]
              \/ WritesUser(c, v)
        BY <4>1, UsersMove
      <4>. QED  BY <2>3, <4>2
    <3>2. CASE u \in PresentUsers /\ users'[u]["ou"] = users[u]["ou"]
      BY <2>1, <2>2, <3>2, OtherUpdateStays
    <3>3. CASE WritesUser(c, u)
      <4>1. ~(pc[c] = "insertUser" /\ u = c)
        <5>1. ~Ended(c)
          BY MovesAlone
        <5>. QED  BY <2>2, <5>1 DEF Ended
      <4>2. pc[c] = "updateUser" /\ u = arg[c].user /\ pc[c] # "idle"
        BY <3>3, <4>1 DEF WritesUser
      <4>3. UpdatesUser(c, u) /\ arg'[c] = arg[c]
        BY <4>2, UpdatersAre, MovesAlone
      <4>4. Overlap(d, c)'
        BY <1>1, <2>1, <4>2, RunningOverlap
      <4>. QED  BY <4>3, <4>4 DEF UpdatesUser
    <3>. QED  BY <3>1, <3>2, <3>3
  <2>. QED  BY <1>0, <2>1, <2>2, <2>3
<1>2. CASE d = c
  <2>1. pc'[c] \in Steps /\ ~FirstStep(c) /\ pc'[c] \notin Answers
    BY <1>2, SMT DEF Steps, FirstStep, Answers
  <2>2. Looks(c) /\ ComesFrom(c) /\ arg'[c] = arg[c] /\ pc[c] # "idle" /\ users' = users
    <3>1. Looks(c) /\ ComesFrom(c)
      BY <1>2, <2>1, Arrives
    <3>. QED  BY <3>1, SMT DEF Looks, Steps, tables
  <2>3. CASE GetUser(c)
    <3>1. DOMAIN pc = Calls /\ DOMAIN local = Calls /\ DOMAIN local[c] = {"ou", "path", "walk", "row"}
      BY DEF Base, TypeOK
    <3>2. Answer(c, "refused") => pc'[c] = "refused"
      BY <3>1, SMT DEF Answer, Goto
    <3>3. /\ arg[c].user \in PresentUsers
          /\ Keep(c, [local[c] EXCEPT !.ou = users[arg[c].user].ou, !.row = users[arg[c].user].type])
      BY <2>1, <2>3, <3>2 DEF GetUser, Answers
    <3>4. local'[c] = [local[c] EXCEPT !.ou = users[arg[c].user].ou, !.row = users[arg[c].user].type]
      BY <3>1, <3>3, SMT DEF Keep
    <3>5. local'[c].ou = users[arg[c].user].ou
      BY <3>1, <3>4, SMT
    <3>6. u = arg[c].user /\ u \in PresentUsers
      BY <1>2, <2>2, <3>3
    <3>7. u \in Calls => pc[u] \in Answers
      BY <3>6 DEF NewRows, PresentUsers, Ended
    <3>. QED  BY <1>0, <1>2, <2>2, <3>5, <3>6, <3>7
  <2>4. CASE ~GetUser(c)
    <3>1. pc[c] \in {"schema", "isParent", "validate", "unique"} /\ local'[c].ou = local[c].ou
      BY <1>2, <2>2, <2>4, UserStepsKeep
    <3>2. pc[c] \in At
      <4>1. pc[c] \notin {"schema", "isParent"}
        BY <1>2, <2>2, SMT DEF Base, Course, CreatesUser
      <4>. QED  BY <3>1, <4>1
    <3>3. u = arg[c].user
      BY <1>2, <2>2
    <3>4. /\ u \in Calls => pc[u] \in Answers
          /\ u \in PresentUsers => users[u].ou = local[c].ou \/ Others(c, u)
      BY <1>2, <2>2, <3>2, <3>3 DEF UserRowRead, Ended
    <3>5. u \in PresentUsers' => u \in PresentUsers /\ users'[u].ou = users[u].ou
      BY <2>2 DEF PresentUsers
    <3>. QED  BY <1>0, <1>2, <2>2, <3>1, <3>4, <3>5, OtherUpdateStays
  <2>. QED  BY <2>3, <2>4
<1>. QED  BY <1>1, <1>2

\* The steps of a group's call, between its reads and its write.
LEMMA GroupStepsKeep ==
    ASSUME Base, NEW c \in Calls, Looks(c), ComesFrom(c),
           pc'[c] \in {"groupOU", "userIDs", "groupIDs", "groupName", "insertGroup", "updateGroup"},
           arg[c].op \in {"updateGroup"} \cup CreatesGroup
    PROVE  \/ GetGroup(c) /\ arg[c].op = "updateGroup"
           \/ ResolveHandle(c) /\ pc'[c] = "groupOU" /\ arg[c].op = "createGroupByPath"
           \/ /\ pc[c] \in {"groupOU", "userIDs", "groupIDs", "groupName"} /\ local'[c] = local[c]
              /\ \/ pc[c] = "groupOU" /\ pc'[c] = "userIDs" /\ local[c].ou \in PresentOUs
                 \/ pc[c] = "userIDs" /\ pc'[c] = "groupIDs"
                 \/ pc[c] = "groupIDs" /\ pc'[c] = "groupName"
                 \/ pc[c] = "groupName" /\ pc'[c] \in {"insertGroup", "updateGroup"}
<1>1. pc'[c] \notin Answers /\ Course(c)
  BY SMT DEF Base, Answers
<1>2. CASE GetGroup(c)
  <2>1. pc[c] = "getGroup"
    BY <1>2 DEF GetGroup
  <2>. QED  BY <1>1, <1>2, <2>1, SMT DEF Course, CreatesGroup
<1>3. CASE ResolveHandle(c) /\ pc'[c] = "groupOU"
  <2>1. pc[c] = "path"
    BY <1>3 DEF ResolveHandle
  <2>. QED  BY <1>1, <1>3, <2>1, SMT DEF Course, CreatesGroup
<1>4. CASE GroupOUExists(c)
  <2> DEFINE holds == local[c].ou \in PresentOUs
  <2>1. Check(c, holds, "refused", "userIDs") /\ "refused" \in Answers
    BY <1>4 DEF GroupOUExists, Answers
  <2> HIDE DEF holds
  <2>2. holds /\ local'[c] = local[c] /\ pc'[c] = "userIDs"
    BY <1>1, <2>1, CheckLeadsOn
  <2>3. pc[c] = "groupOU"
    BY <1>4 DEF GroupOUExists
  <2>. QED  BY <2>2, <2>3 DEF holds
<1>5. CASE UserIDsValid(c)
  <2> DEFINE holds == UsersAmong(Named(c)) \subseteq PresentUsers
  <2>1. Check(c, holds, "refused", "groupIDs") /\ "refused" \in Answers
    BY <1>5 DEF UserIDsValid, Answers
  <2> HIDE DEF holds
  <2>2. local'[c] = local[c] /\ pc'[c] = "groupIDs"
    BY <1>1, <2>1, CheckLeadsOn
  <2>3. pc[c] = "userIDs"
    BY <1>5 DEF UserIDsValid
  <2>. QED  BY <2>2, <2>3
<1>6. CASE GroupIDsValid(c)
  <2> DEFINE holds == GroupsAmong(Named(c)) \subseteq PresentGroups
             next == CASE arg[c].op = "createRole" -> "roleOU"
                       [] arg[c].op = "addAssignments" -> "addAssignments"
                       [] OTHER -> "groupName"
  <2>1. Check(c, holds, "refused", next) /\ "refused" \in Answers
    BY <1>6 DEF GroupIDsValid, Answers
  <2>0. next = "groupName"
    BY SMT DEF CreatesGroup
  <2> HIDE DEF holds, next
  <2>2. local'[c] = local[c] /\ pc'[c] = next
    BY <1>1, <2>1, CheckLeadsOn
  <2>3. pc[c] = "groupIDs"
    BY <1>6 DEF GroupIDsValid
  <2>. QED  BY <2>0, <2>2, <2>3
<1>7. CASE GroupNameFree(c)
  <2> DEFINE others == IF arg[c].op = "updateGroup" THEN PresentGroups \ {arg[c].group}
                       ELSE PresentGroups
             holds == SameGroupName(c)
                      \/ \A g \in others : groups[g].ou # local[c].ou \/ groups[g].name # arg[c].name
             next == IF arg[c].op = "updateGroup" THEN "updateGroup" ELSE "insertGroup"
  <2>1. Check(c, holds, "conflict", next) /\ "conflict" \in Answers
    BY <1>7 DEF GroupNameFree, Answers
  <2> HIDE DEF holds, next
  <2>2. local'[c] = local[c] /\ pc'[c] = next
    BY <1>1, <2>1, CheckLeadsOn
  <2>3. pc[c] = "groupName"
    BY <1>7 DEF GroupNameFree
  <2>. QED  BY <2>2, <2>3 DEF next
<1>8. ~RoleExists(c)
  <2>1. RoleExists(c) => pc[c] = "roleExists"
    BY DEF RoleExists
  <2>. QED  BY <1>1, <2>1, SMT DEF Course, CreatesGroup
<1>. QED  BY <1>2, <1>3, <1>4, <1>5, <1>6, <1>7, <1>8, SMT DEF ComesFrom

\* What UpdateGroup has read of the group.
LEMMA GetGroupReads ==
    ASSUME Base, NEW c \in Calls, GetGroup(c), pc'[c] \notin Answers, arg[c].op = "updateGroup"
    PROVE  /\ arg[c].group \in PresentGroups
           /\ local'[c].row = [name |-> groups[arg[c].group].name, ou |-> groups[arg[c].group].ou]
           /\ local'[c].ou = local[c].ou /\ local[c].ou = arg[c].ou
           /\ pc'[c] = IF groups[arg[c].group].ou = arg[c].ou THEN "userIDs" ELSE "groupOU"
<1> DEFINE g == arg[c].group
           read == [name |-> groups[g].name, ou |-> groups[g].ou]
<1>1. DOMAIN pc = Calls /\ DOMAIN local = Calls /\ DOMAIN local[c] = {"ou", "path", "walk", "row"}
  BY DEF Base, TypeOK
<1>2. Answer(c, "refused") => pc'[c] = "refused"
  BY <1>1, SMT DEF Answer, Goto
<1>3. /\ g \in PresentGroups /\ Keep(c, [local[c] EXCEPT !.row = read])
      /\ Goto(c, IF groups[g].ou = arg[c].ou THEN "userIDs" ELSE "groupOU")
  BY <1>2, Zenon DEF GetGroup, Answers
<1> HIDE DEF read
<1>4. local'[c] = [local[c] EXCEPT !.row = read]
  BY <1>1, <1>3, SMT DEF Keep
<1>5. local'[c].row = read /\ local'[c].ou = local[c].ou
  BY <1>1, <1>4, SMT
<1>6. local[c].ou = arg[c].ou
  <2>1. pc[c] = "getGroup"
    BY DEF GetGroup
  <2>2. Running(c)
    BY <2>1, SMT DEF Running, Ended, Answers
  <2>. QED  BY <2>2 DEF Base, LocalOK
<1>7. pc'[c] = IF groups[g].ou = arg[c].ou THEN "userIDs" ELSE "groupOU"
  BY <1>1, <1>3, SMT DEF Goto
<1>. QED  BY <1>3, <1>5, <1>6, <1>7 DEF read

\* A group that no update writes keeps its name and organization unit.
LEMMA GroupRowsMove ==
    ASSUME Base, NEW c \in Calls, Moves(c), NEW g \in PresentGroups'
    PROVE  \/ g \in PresentGroups /\ groups'[g].name = groups[g].name /\ groups'[g].ou = groups[g].ou
           \/ WritesGroup(c, g)
<1>1. "name" \in GroupFields
  BY DEF GroupFields
<1>2. \A h \in PresentGroups' :
        \/ h \in PresentGroups /\ groups'[h].ou = groups[h].ou /\ groups'[h]["name"] = groups[h]["name"]
        \/ WritesGroup(c, h)
  BY <1>1, GroupsMove
<1>. QED  BY <1>2

\* What UpdateGroup has read of the group is still so, unless another update of
\* it runs.
LEMMA GroupRowReadStays ==
    ASSUME Base, NewRows, NEW c \in Calls, Moves(c), NEW d \in Calls, GroupRowRead(d)
    PROVE  GroupRowRead(d)'
<1> DEFINE At == {"groupOU", "userIDs", "groupIDs", "groupName", "updateGroup"}
           Others(e, h) == \E x \in Calls : Overlap(e, x) /\ UpdatesGroup(x, h)
<1> SUFFICES ASSUME pc'[d] \in At, arg'[d].op = "updateGroup"
             PROVE  \A g : g = arg'[d].group =>
                        /\ g \in Calls => pc'[g] \in Answers
                        /\ g \in PresentGroups' =>
                              \/ local'[d].row = [name |-> groups'[g].name, ou |-> groups'[g].ou]
                              \/ \E x \in Calls : Overlap(d, x)' /\ UpdatesGroup(x, g)'
  BY DEF GroupRowRead, Ended, UpdatesGroup, Overlap
<1> TAKE g
<1> HAVE g = arg'[d].group
<1>0. \A e \in Calls : pc[e] \in Answers => pc'[e] \in Answers
  BY MovesAlone, Zenon DEF Ended
<1>1. CASE d # c
  <2>1. pc'[d] = pc[d] /\ local'[d] = local[d] /\ arg'[d] = arg[d] /\ pc[d] # "idle" /\ ~Ended(d)
    <3>1. pc'[d] = pc[d] /\ local'[d] = local[d] /\ arg'[d] = arg[d]
      BY <1>1, MovesAlone
    <3>. QED  BY <3>1, SMT DEF Ended, Answers
  <2>2. /\ g \in Calls => pc[g] \in Answers
        /\ g \in PresentGroups =>
              local[d].row = [name |-> groups[g].name, ou |-> groups[g].ou] \/ Others(d, g)
    BY <2>1 DEF GroupRowRead, Ended
  <2>3. ASSUME g \in PresentGroups'
        PROVE  \/ local'[d].row = [name |-> groups'[g].name, ou |-> groups'[g].ou]
               \/ \E x \in Calls : Overlap(d, x)' /\ UpdatesGroup(x, g)'
    <3>1. CASE g \in PresentGroups /\ groups'[g].name = groups[g].name /\ groups'[g].ou = groups[g].ou
      BY <2>1, <2>2, <3>1, OtherUpdateStays
    <3>2. CASE WritesGroup(c, g)
      <4>1. ~(pc[c] = "insertGroup" /\ g = c)
        <5>1. ~Ended(c)
          BY MovesAlone
        <5>. QED  BY <2>2, <5>1 DEF Ended
      <4>2. pc[c] = "updateGroup" /\ g = arg[c].group /\ pc[c] # "idle"
        BY <3>2, <4>1 DEF WritesGroup
      <4>3. UpdatesGroup(c, g) /\ arg'[c] = arg[c]
        BY <4>2, UpdatersAre, MovesAlone
      <4>4. Overlap(d, c)'
        BY <1>1, <2>1, <4>2, RunningOverlap
      <4>. QED  BY <4>3, <4>4 DEF UpdatesGroup
    <3>. QED  BY <2>3, <3>1, <3>2, GroupRowsMove
  <2>. QED  BY <1>0, <2>1, <2>2, <2>3
<1>2. CASE d = c
  <2>1. pc'[c] \in Steps /\ ~FirstStep(c) /\ pc'[c] \notin Answers
    BY <1>2, SMT DEF Steps, FirstStep, Answers
  <2>2. Looks(c) /\ ComesFrom(c) /\ arg'[c] = arg[c] /\ pc[c] # "idle" /\ groups' = groups
    <3>1. Looks(c) /\ ComesFrom(c)
      BY <1>2, <2>1, Arrives
    <3>. QED  BY <3>1, SMT DEF Looks, Steps, tables
  <2>3. g = arg[c].group /\ arg[c].op = "updateGroup"
    BY <1>2, <2>2
  <2>4. CASE GetGroup(c)
    <3>1. g \in PresentGroups /\ local'[c].row = [name |-> groups[g].name, ou |-> groups[g].ou]
      BY <2>1, <2>3, <2>4, GetGroupReads
    <3>2. g \in Calls => pc[g] \in Answers
      BY <3>1 DEF NewRows, PresentGroups, Ended
    <3>. QED  BY <1>0, <1>2, <2>2, <3>1, <3>2
  <2>5. CASE pc[c] \in {"groupOU", "userIDs", "groupIDs", "groupName"} /\ local'[c] = local[c]
    <3>1. /\ g \in Calls => pc[g] \in Answers
          /\ g \in PresentGroups =>
                local[c].row = [name |-> groups[g].name, ou |-> groups[g].ou] \/ Others(c, g)
      BY <1>2, <2>3, <2>5 DEF GroupRowRead, Ended
    <3>2. g \in PresentGroups' => g \in PresentGroups /\ groups'[g] = groups[g]
      BY <2>2 DEF PresentGroups
    <3>. QED  BY <1>0, <1>2, <2>2, <2>5, <3>1, <3>2, OtherUpdateStays
  <2>. QED  BY <1>2, <2>2, <2>3, <2>4, <2>5, GroupStepsKeep
<1>. QED  BY <1>1, <1>2

\* The organization unit of a group was there during the call, or is the one
\* the group had.
LEMMA GroupOUCheckedStays ==
    ASSUME Base, NEW c \in Calls, Moves(c), NEW d \in Calls, GroupOUChecked(d)
    PROVE  GroupOUChecked(d)'
<1> DEFINE At == {"userIDs", "groupIDs", "groupName", "insertGroup", "updateGroup"}
           Asks(op) == op \in {"updateGroup"} \cup CreatesGroup
<1> SUFFICES ASSUME pc'[d] \in At, Asks(arg'[d].op)
             PROVE  \A o : o = local'[d].ou =>
                        \/ ThereOrGoneSince(o, d)'
                        \/ arg'[d].op = "updateGroup" /\ local'[d].row.ou = o
  BY DEF GroupOUChecked, ThereOrGoneSince, Since
<1> TAKE o
<1> HAVE o = local'[d].ou
<1>0. pc[d] \in At \cup {"groupOU"} /\ Asks(arg[d].op) => local[d].ou \in OUs
  BY SMT DEF Base, LocalOK, CreatesGroup
<1>1. CASE d # c
  <2>1. pc'[d] = pc[d] /\ local'[d] = local[d] /\ arg'[d] = arg[d] /\ pc[d] # "idle"
    BY <1>1, MovesAlone
  <2>2. o \in OUs /\ o = local[d].ou
    BY <1>0, <2>1
  <2>3. ThereOrGoneSince(o, d) \/ (arg[d].op = "updateGroup" /\ local[d].row.ou = o)
    BY <2>1, <2>2 DEF GroupOUChecked
  <2>. QED  BY <2>1, <2>2, <2>3, ThereStays
<1>2. CASE d = c
  <2>1. pc'[c] \in Steps /\ ~FirstStep(c) /\ pc'[c] \notin Answers
    <3>1. ~(pc'[c] = "userIDs" /\ arg'[c].op = "createRole")
      BY <1>2, SMT DEF CreatesGroup
    <3>. QED  BY <1>2, <3>1, SMT DEF Steps, FirstStep, Answers
  <2>2. Looks(c) /\ ComesFrom(c) /\ arg'[c] = arg[c] /\ pc[c] # "idle" /\ ous' = ous
    <3>1. Looks(c) /\ ComesFrom(c)
      BY <2>1, Arrives
    <3>. QED  BY <3>1, SMT DEF Looks, Steps, tables
  <2>3. Asks(arg[c].op)
    BY <1>2, <2>2
  <2>4. CASE GetGroup(c) /\ arg[c].op = "updateGroup"
    <3>1. /\ local'[c].row = [name |-> groups[arg[c].group].name, ou |-> groups[arg[c].group].ou]
          /\ local'[c].ou = arg[c].ou
          /\ pc'[c] = IF groups[arg[c].group].ou = arg[c].ou THEN "userIDs" ELSE "groupOU"
      BY <2>1, <2>4, GetGroupReads
    <3>. QED  BY <1>2, <2>2, <2>4, <3>1
  <2>5. CASE pc[c] = "groupOU" /\ local'[c] = local[c] /\ local[c].ou \in PresentOUs
    BY <1>2, <2>2, <2>5 DEF ThereOrGoneSince, PresentOUs
  <2>6. CASE pc[c] \in {"userIDs", "groupIDs", "groupName"} /\ local'[c] = local[c]
    <3>1. o \in OUs /\ o = local[c].ou
      BY <1>0, <1>2, <2>3, <2>6
    <3>2. ThereOrGoneSince(o, c) \/ (arg[c].op = "updateGroup" /\ local[c].row.ou = o)
      BY <1>2, <2>3, <2>6, <3>1 DEF GroupOUChecked
    <3>. QED  BY <1>2, <2>2, <2>6, <3>1, <3>2, ThereStays
  <2>7. \/ GetGroup(c) /\ arg[c].op = "updateGroup"
        \/ pc[c] \in {"groupOU", "userIDs", "groupIDs", "groupName"} /\ local'[c] = local[c]
           /\ (pc[c] = "groupOU" => local[c].ou \in PresentOUs)
    BY <1>2, <2>2, <2>3, GroupStepsKeep, SMT
  <2>. QED  BY <2>4, <2>5, <2>6, <2>7
<1>. QED  BY <1>1, <1>2

\* A group with the name that a call is going to write got it since.
LEMMA GroupNameCheckedStays ==
    ASSUME Base, NEW c \in Calls, Moves(c), NEW d \in Calls, GroupNameChecked(d)
    PROVE  GroupNameChecked(d)'
<1> SUFFICES ASSUME pc'[d] \in {"insertGroup", "updateGroup"}, ~SameGroupName(d)',
                    NEW h \in PresentGroups', pc'[d] = "updateGroup" => h # arg'[d].group,
                    groups'[h].ou = local'[d].ou, groups'[h].name = arg'[d].name
             PROVE  Since(<<"group", h, "name">>, d)'
  BY DEF GroupNameChecked
<1>0. h \in Groups /\ "name" \in GroupFields /\ <<"group", h, "name">> \in Facts
  <2>1. h \in Groups /\ "name" \in GroupFields /\ "name" \in GroupFields \cup {"members", "removed"}
    BY DEF PresentGroups, GroupFields
  <2>. QED  BY <2>1, FactsAre, Zenon
<1>1. CASE d # c
  <2>1. /\ pc'[d] = pc[d] /\ local'[d] = local[d] /\ arg'[d] = arg[d] /\ pc[d] # "idle"
        /\ ~SameGroupName(d)
    BY <1>1, MovesAlone DEF SameGroupName
  <2>2. CASE stamp'[<<"group", h, "name">>] = stamp[<<"group", h, "name">>]
    <3>1. \A g \in PresentGroups' :
            stamp'[<<"group", g, "name">>] = stamp[<<"group", g, "name">>]
            => g \in PresentGroups /\ groups'[g].ou = groups[g].ou /\ groups'[g]["name"] = groups[g]["name"]
      BY <1>0, GroupsMove
    <3>2. h \in PresentGroups /\ groups[h].ou = local[d].ou /\ groups[h].name = arg[d].name
      BY <2>1, <2>2, <3>1
    <3>3. Since(<<"group", h, "name">>, d)
      BY <2>1, <3>2 DEF GroupNameChecked
    <3>. QED  BY <1>0, <2>1, <3>3, SinceStays
  <2>3. CASE stamp'[<<"group", h, "name">>] # stamp[<<"group", h, "name">>]
    BY <1>0, <2>1, <2>3, SinceStays
  <2>. QED  BY <2>2, <2>3
<1>2. CASE d = c
  <2>1. pc'[c] \in Steps /\ ~FirstStep(c) /\ pc'[c] \notin Answers
    BY <1>2, SMT DEF Steps, FirstStep, Answers
  <2>2. Looks(c) /\ GroupNameFree(c)
    BY <1>2, <2>1, Arrives DEF ComesFrom
  <2>3. arg' = arg /\ groups' = groups
    BY <2>2 DEF Looks, tables
  <2> DEFINE others == IF arg[c].op = "updateGroup" THEN PresentGroups \ {arg[c].group}
                       ELSE PresentGroups
             holds == SameGroupName(c)
                      \/ \A g \in others : groups[g].ou # local[c].ou \/ groups[g].name # arg[c].name
             next == IF arg[c].op = "updateGroup" THEN "updateGroup" ELSE "insertGroup"
  <2>4. Check(c, holds, "conflict", next) /\ "conflict" \in Answers
    BY <2>2 DEF GroupNameFree, Answers
  <2> HIDE DEF holds, next
  <2>5. holds /\ pc'[c] = next /\ local'[c] = local[c]
    BY <2>1, <2>4, CheckLeadsOn
  <2>6. ~SameGroupName(c) /\ h \in PresentGroups /\ groups[h].ou = local[c].ou /\ groups[h].name = arg[c].name
    BY <1>2, <2>3, <2>5 DEF SameGroupName, PresentGroups
  <2>7. h \notin others
    BY <2>5, <2>6 DEF holds
  <2>. QED  BY <1>2, <2>3, <2>5, <2>6, <2>7 DEF next
<1>. QED  BY <1>1, <1>2

-----------------------------------------------------------------------------
(* Members of an organization unit that lose it.                           *)

\* Nothing more is written of an organization unit that is gone.
LEMMA GoneFactsStay ==
    ASSUME Base, NewRows, NEW c \in Calls, Moves(c), NEW o \in OUs,
           stamp[<<"ou", o, "removed">>] # None
    PROVE  /\ stamp'[<<"ou", o, "removed">>] = stamp[<<"ou", o, "removed">>]
           /\ \A f \in OUFields : stamp'[<<"ou", o, f>>] = stamp[<<"ou", o, f>>]
<1>1. o \notin PresentOUs /\ o # c
  <2>1. ~Ended(c)
    BY MovesAlone
  <2>. QED  BY <2>1 DEF NewRows, PresentOUs
<1>2. stamp'[<<"ou", o, "removed">>] = stamp[<<"ou", o, "removed">>]
  BY <1>1, OUsMove
<1>3. CASE OUsSame
  BY <1>2, <1>3 DEF OUsSame, OUFieldsSame
<1>4. CASE OUInserted(c)
  BY <1>1, <1>2, <1>4 DEF OUInserted
<1>5. CASE OUWritten(c)
  BY <1>1, <1>2, <1>5 DEF OUWritten
<1>6. CASE OURemoved(c)
  BY <1>2, <1>6 DEF OURemoved, OUFieldsSame
<1>. QED  BY <1>3, <1>4, <1>5, <1>6, MovesChange DEF OUsChange

\* An update that undoes another goes on to.
LEMMA RestoresStay ==
    ASSUME Base, NEW c \in Calls, Moves(c), NEW d \in Calls, pc[d] # "idle"
    PROVE  /\ \A o : RestoresOU(d, o) => RestoresOU(d, o)'
           /\ \A u : RestoresUser(d, u) => RestoresUser(d, u)'
           /\ \A g : RestoresGroup(d, g) => RestoresGroup(d, g)'
<1>1. arg[d] # None => arg'[d] = arg[d]
  BY RequestsStay
<1>2. \A o : UpdatesOU(d, o) => UpdatesOU(d, o)' /\ arg'[d] = arg[d]
  BY <1>1 DEF UpdatesOU
<1>3. \A u : UpdatesUser(d, u) => UpdatesUser(d, u)' /\ arg'[d] = arg[d]
  BY <1>1 DEF UpdatesUser
<1>4. \A g : UpdatesGroup(d, g) => UpdatesGroup(d, g)' /\ arg'[d] = arg[d]
  BY <1>1 DEF UpdatesGroup
<1>5. \A o : RestoresOU(d, o) => RestoresOU(d, o)'
  BY <1>2, OtherUpdateStays DEF RestoresOU
<1>6. \A u : RestoresUser(d, u) => RestoresUser(d, u)'
  BY <1>3, OtherUpdateStays DEF RestoresUser
<1>7. \A g : RestoresGroup(d, g) => RestoresGroup(d, g)'
  BY <1>4, OtherUpdateStays DEF RestoresGroup
<1>. QED  BY <1>5, <1>6, <1>7

\* An update signs the fields that it changes.
LEMMA UserRewritten ==
    ASSUME Base, NEW c \in Calls, Moves(c), pc[c] = "updateUser", NEW u \in Users, NEW f \in UserFields,
           stamp'[<<"user", u, f>>] = c
    PROVE  u = arg[c].user /\ u \in PresentUsers /\ users[u][f] # NewUser(c, None)[f]
<1>1. stamp[<<"user", u, f>>] # c
  BY NotSigned, FactsAre, Zenon
<1>2. ~UsersSame
  BY <1>1 DEF UsersSame, UserFieldsSame
<1>3. UserWritten(c)
  <2>1. ~UserInserted(c) /\ ~CredentialsWritten(c) /\ ~UserRemoved(c)
    BY DEF UserInserted, CredentialsWritten, UserRemoved
  <2>. QED  BY <1>2, <2>1, MovesChange DEF UsersChange
<1>. QED  BY <1>1, <1>3 DEF UserWritten

\* So does an update of a group, where the group moves or gets another name.
LEMMA GroupRewritten ==
    ASSUME Base, NEW c \in Calls, Moves(c), pc[c] = "updateGroup", NEW g \in Groups, NEW f \in GroupFields,
           stamp'[<<"group", g, f>>] = c
    PROVE  /\ g = arg[c].group /\ g \in PresentGroups
           /\ groups[g].ou # local[c].ou \/ groups[g][f] # NewGroup(c)[f]
<1>1. stamp[<<"group", g, f>>] # c
  <2>1. f \in GroupFields \cup {"members", "removed"}
    OBVIOUS
  <2>. QED  BY <2>1, NotSigned, FactsAre, Zenon
<1>2. ~GroupsSame
  <2>1. f \in GroupFields \cup {"members"}
    OBVIOUS
  <2>. QED  BY <1>1, <2>1 DEF GroupsSame, GroupFieldsSame
<1>3. GroupWritten(c)
  BY <1>2, MovesChange, SMT DEF GroupsChange, GroupInserted, GroupRemoved
<1>4. stamp'[<<"group", g, f>>] =
         IF g = arg[c].group /\ (groups[arg[c].group].ou # local[c].ou
                                \/ groups[arg[c].group][f] # NewGroup(c)[f])
         THEN c ELSE stamp[<<"group", g, f>>]
  BY <1>3, Zenon DEF GroupWritten
<1>5. arg[c].group \in PresentGroups
  BY <1>3 DEF GroupWritten
<1>. QED  BY <1>1, <1>4, <1>5

\* What goes with an organization unit is below one of its children.
LEMMA SubtreeHasChild ==
    ASSUME NEW r \in OUs, NEW o \in Subtree(r), o # r
    PROVE  \E q \in Subtree(r) : ous[q].parent = r
<1> SUFFICES ASSUME \A q \in Subtree(r) : ous[q].parent # r PROVE FALSE
  OBVIOUS
<1>1. \A q \in PresentOUs : ous[q].parent = r => q \in Subtree(r)
  BY DEF Subtree
<1>2. \A q \in PresentOUs : ous[q].parent \in {r} => q \in {r}
  BY <1>1
<1>3. o \in {r}
  BY <1>2 DEF Subtree
<1>. QED  BY <1>3

\* An organization unit that a call moved is gone with the one it was moved
\* below.
LEMMA MovedUnderStays ==
    ASSUME Base, NewRows, NEW c \in Calls, Moves(c), NEW d, MovedUnder(d)
    PROVE  MovedUnder(d)'
<1>1. PICK q \in OUs : stamp[<<"ou", q, "removed">>] = d /\ Overlap(stamp[<<"ou", q, "parent">>], d)
  BY DEF MovedUnder
<1> DEFINE f == <<"ou", q, "parent">>
           g == <<"ou", q, "removed">>
<1>2. f \in Facts /\ g \in Facts
  <2>1. "parent" \in OUFields \cup {"removed"} /\ "removed" \in OUFields \cup {"removed"}
    BY DEF OUFields
  <2>. QED  BY <2>1, FactsAre, Zenon
<1>3. stamp[g] = d /\ stamp[g] # None /\ Overlap(stamp[f], stamp[g])
  BY <1>1 DEF Overlap
<1>4. stamp'[f] = stamp[f] /\ stamp'[g] = stamp[g]
  BY <1>3, GoneFactsStay DEF OUFields
<1>5. Overlap(stamp[f], stamp[g])'
  BY <1>2, <1>3, <1>4, SignaturesOverlap
<1>6. Overlap(stamp[<<"ou", q, "parent">>], d)'
  BY <1>3, <1>4, <1>5 DEF Overlap
<1>. QED  BY <1>3, <1>4, <1>6 DEF MovedUnder

\* A deletion takes an organization unit and somebody who was there before only
\* with what was moved below it meanwhile.
LEMMA RemovedUnder ==
    ASSUME Base, NEW c \in Calls, Moves(c), ChildrenCounted(c), NEW o \in OUs,
           stamp'[<<"ou", o, "removed">>] # stamp[<<"ou", o, "removed">>], o # local[c].ou
    PROVE  MovedUnder(c)'
<1>1. Ends(c) /\ OURemoved(c) /\ o \in Subtree(local[c].ou) /\ pc[c] = "deleteOU" /\ local[c].ou \in OUs
  <2>1. Ends(c) /\ OURemoved(c) /\ o \in Subtree(local[c].ou)
    BY OUsMove
  <2>2. pc[c] = "deleteOU"
    BY <2>1 DEF OURemoved
  <2>. QED  BY <2>1, <2>2 DEF Base, LocalOK
<1>2. PICK q \in Subtree(local[c].ou) : ous[q].parent = local[c].ou
  BY <1>1, SubtreeHasChild
<1> DEFINE f == <<"ou", q, "parent">>
           g == <<"ou", q, "removed">>
<1>3. q \in OUs /\ q \in PresentOUs
  BY DEF Subtree, PresentOUs
<1>4. f \in Facts /\ g \in Facts
  <2>1. "parent" \in OUFields \cup {"removed"} /\ "removed" \in OUFields \cup {"removed"}
    BY DEF OUFields
  <2>. QED  BY <1>3, <2>1, FactsAre, Zenon
<1>5. stamp'[f] = stamp[f] /\ stamp'[g] = c
  <2>1. "parent" \in OUFields
    BY DEF OUFields
  <2>. QED  BY <1>1, <1>2, <1>3, <2>1 DEF OURemoved, OUFieldsSame
<1>6. Since(f, c)
  BY <1>1, <1>2, <1>3 DEF ChildrenCounted
<1>7. Overlap(stamp[f], stamp[g])'
  BY <1>1, <1>4, <1>5, <1>6, SignaturesOverlap
<1>8. Overlap(stamp[<<"ou", q, "parent">>], c)'
  BY <1>5, <1>7 DEF Overlap
<1>. QED  BY <1>3, <1>5, <1>8 DEF MovedUnder

\* Whoever lost an organization unit since, lost it to an overlapping deletion.
LEMMA LostIsLost ==
    ASSUME Base, NewRows, NEW c \in Calls, Moves(c), ChildrenCounted(c), NEW f \in Facts, NEW o \in OUs,
           stamp'[f] = stamp[f], o \notin PresentOUs',
           o \in PresentOUs => (o = local[c].ou /\ pc[c] = "deleteOU" => Since(f, c)),
           o \notin PresentOUs =>
               \/ Overlap(stamp[f], stamp[<<"ou", o, "removed">>])
               \/ MovedUnder(stamp[<<"ou", o, "removed">>])
    PROVE  \/ Overlap(stamp[f], stamp[<<"ou", o, "removed">>])'
           \/ \E d : d = stamp'[<<"ou", o, "removed">>] /\ MovedUnder(d)'
<1> DEFINE g == <<"ou", o, "removed">>
<1>1. g \in Facts
  BY FactsAre, SMT
<1>2. CASE o \in PresentOUs
  <2>1. stamp'[g] = c /\ stamp'[g] # stamp[g]
    BY <1>2, OUsMove
  <2>2. Ends(c) /\ pc[c] = "deleteOU"
    BY <2>1, OUsMove DEF OURemoved
  <2>3. CASE o = local[c].ou
    BY <1>1, <1>2, <2>1, <2>2, <2>3, SignaturesOverlap
  <2>4. CASE o # local[c].ou
    BY <2>1, <2>4, RemovedUnder
  <2>. QED  BY <2>3, <2>4
<1>3. CASE o \notin PresentOUs
  <2>1. stamp'[g] = stamp[g]
    BY <1>3, OUsMove
  <2>2. CASE Overlap(stamp[f], stamp[g])
    BY <1>1, <2>1, <2>2, SignaturesOverlap
  <2>3. CASE MovedUnder(stamp[g])
    <3>1. \E d : d = stamp[g] /\ MovedUnder(d)
      BY <2>3
    <3>. QED  BY <2>1, <3>1, MovedUnderStays
  <2>. QED  BY <1>3, <2>2, <2>3
<1>. QED  BY <1>2, <1>3

\* What was gone when a call wrote it went during the call.
LEMMA WrittenWhenGone ==
    ASSUME Base, NEW c \in Calls, Moves(c), Ends(c), pc[c] # "deleteOU", NEW f \in Facts, NEW o \in OUs,
           stamp'[f] = c, o \notin PresentOUs', ThereOrGoneSince(o, c)
    PROVE  Overlap(stamp[f], stamp[<<"ou", o, "removed">>])'
<1> DEFINE g == <<"ou", o, "removed">>
<1>1. g \in Facts
  BY FactsAre, SMT
<1>2. stamp'[g] = stamp[g]
  BY OUsMove DEF OURemoved
<1>3. o \notin PresentOUs
  BY <1>2, OUsMove
<1>4. Since(g, c)
  BY <1>3 DEF ThereOrGoneSince
<1>. QED  BY <1>1, <1>2, <1>4, SignaturesOverlap

\* ResidentsHoused: a deletion counts who is there, and a call looks for the
\* organization unit it writes.
LEMMA ResidentsHousedStays ==
    ASSUME Base, NewRows, ResidentsHoused, NEW c \in Calls, Moves(c),
           ChildrenCounted(c), UserOUChecked(c), UserRowRead(c), GroupRowRead(c), GroupOUChecked(c)
    PROVE  ResidentsHoused'
<1>1. ASSUME NEW u \in PresentUsers', NEW o, o = users'[u].ou, o \notin PresentOUs'
      PROVE  \/ Overlap(stamp[<<"user", u, "ou">>], stamp[<<"ou", o, "removed">>])'
             \/ \E d : d = stamp'[<<"ou", o, "removed">>] /\ MovedUnder(d)'
             \/ \E d : d = stamp'[<<"user", u, "ou">>] /\ RestoresUser(d, u)'
  <2> DEFINE f == <<"user", u, "ou">>
  <2>0. u \in Users /\ f \in Facts
    <3>1. u \in Users /\ "ou" \in UserFields \cup {"removed"}
      BY DEF PresentUsers, UserFields
    <3>. QED  BY <3>1, FactsAre, Zenon
  <2>1. \/ stamp'[f] = stamp[f] /\ u \in PresentUsers /\ users[u].ou = o
        \/ stamp'[f] = c /\ WritesUser(c, u) /\ local[c].ou = o
    <3>1. "ou" \in UserFields
      BY DEF UserFields
    <3>2. \A v \in PresentUsers' :
            \/ /\ stamp'[<<"user", v, "ou">>] = stamp[<<"user", v, "ou">>]
               /\ v \in PresentUsers /\ users'[v]["ou"] = users[v]["ou"]
            \/ /\ stamp'[<<"user", v, "ou">>] = c
               /\ WritesUser(c, v)
               /\ users'[v]["ou"] = NewUser(c, None)["ou"]
      BY <3>1, UsersMove
    <3>3. NewUser(c, None)["ou"] = local[c].ou
      BY DEF NewUser
    <3>. QED  BY <1>1, <3>2, <3>3
  <2>2. CASE stamp'[f] = stamp[f] /\ u \in PresentUsers /\ users[u].ou = o
    <3>1. o \in OUs
      BY <2>2, RowsAre DEF Base
    <3>2. o = local[c].ou /\ pc[c] = "deleteOU" => Since(f, c)
      BY <2>2 DEF ChildrenCounted
    <3>3. CASE RestoresUser(stamp[f], u)
      <4>1. stamp[f] \in Calls /\ pc[stamp[f]] # "idle"
        <5>1. stamp[f] # None
          BY <3>3 DEF RestoresUser
        <5>. QED  BY <2>0, <5>1, SignersEnded
      <4>2. \E d \in Calls : d = stamp[f] /\ pc[d] # "idle" /\ RestoresUser(d, u)
        BY <3>3, <4>1
      <4>. QED  BY <2>2, <4>2, RestoresStay
    <3>4. CASE ~RestoresUser(stamp[f], u)
      <4>1. o \notin PresentOUs =>
               \/ Overlap(stamp[f], stamp[<<"ou", o, "removed">>])
               \/ MovedUnder(stamp[<<"ou", o, "removed">>])
        BY <2>2, <3>4 DEF ResidentsHoused
      <4> HIDE DEF f
      <4>2. \/ Overlap(stamp[f], stamp[<<"ou", o, "removed">>])'
            \/ \E d : d = stamp'[<<"ou", o, "removed">>] /\ MovedUnder(d)'
        BY <1>1, <2>0, <2>2, <3>1, <3>2, <4>1, LostIsLost
      <4>. QED  BY <4>2 DEF f
    <3>. QED  BY <3>3, <3>4
  <2>3. CASE stamp'[f] = c /\ WritesUser(c, u) /\ local[c].ou = o
    <3>1. /\ Ends(c) /\ pc[c] \in {"insertUser", "updateUser"} /\ pc[c] # "idle"
          /\ Course(c) /\ o \in OUs
      <4>1. Ends(c) /\ pc[c] \in {"insertUser", "updateUser"}
        BY <2>3 DEF WritesUser
      <4>. QED  BY <2>3, <4>1, SMT DEF Base, LocalOK
    <3>2. CASE arg[c].op # "updateUserAttributes"
      <4>1. ThereOrGoneSince(o, c)
        BY <2>3, <3>1, <3>2 DEF UserOUChecked
      <4> HIDE DEF f
      <4>2. Overlap(stamp[f], stamp[<<"ou", o, "removed">>])'
        BY <1>1, <2>0, <2>3, <3>1, <4>1, WrittenWhenGone
      <4>. QED  BY <4>2 DEF f
    <3>3. CASE arg[c].op = "updateUserAttributes"
      <4>1. pc[c] = "updateUser"
        BY <3>1, <3>3, SMT DEF Course, CreatesUser
      <4>2. "ou" \in UserFields /\ NewUser(c, None)["ou"] = o
        BY <2>3 DEF UserFields, NewUser
      <4>3. u = arg[c].user /\ u \in PresentUsers /\ users[u]["ou"] # o
        BY <2>0, <2>3, <4>1, <4>2, UserRewritten
      <4>4. UpdatesUser(c, u) /\ \E d \in Calls : Overlap(c, d) /\ UpdatesUser(d, u)
        BY <2>3, <3>3, <4>1, <4>3, UpdatersAre DEF UserRowRead
      <4>5. RestoresUser(c, u)
        BY <3>3, <4>4, NoneAssumption DEF RestoresUser
      <4>6. RestoresUser(c, u)'
        BY <3>1, <4>5, RestoresStay
      <4>. QED  BY <2>3, <4>6
    <3>. QED  BY <3>2, <3>3
  <2>. QED  BY <2>1, <2>2, <2>3
<1>2. ASSUME NEW u \in PresentGroups', NEW o, o = groups'[u].ou, o \notin PresentOUs'
      PROVE  \/ Overlap(stamp[<<"group", u, "ou">>], stamp[<<"ou", o, "removed">>])'
             \/ \E d : d = stamp'[<<"ou", o, "removed">>] /\ MovedUnder(d)'
             \/ \E d : d = stamp'[<<"group", u, "ou">>] /\ RestoresGroup(d, u)'
  <2> DEFINE f == <<"group", u, "ou">>
  <2>0. u \in Groups /\ f \in Facts
    <3>1. u \in Groups /\ "ou" \in GroupFields \cup {"members", "removed"}
      BY DEF PresentGroups, GroupFields
    <3>. QED  BY <3>1, FactsAre, Zenon
  <2>1. \/ stamp'[f] = stamp[f] /\ u \in PresentGroups /\ groups[u].ou = o
        \/ stamp'[f] = c /\ WritesGroup(c, u) /\ local[c].ou = o
    <3>1. "ou" \in GroupFields
      BY DEF GroupFields
    <3>2. \A v \in PresentGroups' :
            \/ /\ stamp'[<<"group", v, "ou">>] = stamp[<<"group", v, "ou">>]
               /\ v \in PresentGroups /\ groups'[v].ou = groups[v].ou
            \/ /\ stamp'[<<"group", v, "ou">>] = c
               /\ WritesGroup(c, v)
               /\ groups'[v] = NewGroup(c)
      BY <3>1, GroupsMove
    <3>3. NewGroup(c).ou = local[c].ou
      BY DEF NewGroup
    <3>. QED  BY <1>2, <3>2, <3>3
  <2>2. CASE stamp'[f] = stamp[f] /\ u \in PresentGroups /\ groups[u].ou = o
    <3>1. o \in OUs
      BY <2>2, RowsAre DEF Base
    <3>2. o = local[c].ou /\ pc[c] = "deleteOU" => Since(f, c)
      BY <2>2 DEF ChildrenCounted
    <3>3. CASE RestoresGroup(stamp[f], u)
      <4>1. stamp[f] \in Calls /\ pc[stamp[f]] # "idle"
        <5>1. stamp[f] # None
          BY <3>3 DEF RestoresGroup
        <5>. QED  BY <2>0, <5>1, SignersEnded
      <4>2. \E d \in Calls : d = stamp[f] /\ pc[d] # "idle" /\ RestoresGroup(d, u)
        BY <3>3, <4>1
      <4>. QED  BY <2>2, <4>2, RestoresStay
    <3>4. CASE ~RestoresGroup(stamp[f], u)
      <4>1. o \notin PresentOUs =>
               \/ Overlap(stamp[f], stamp[<<"ou", o, "removed">>])
               \/ MovedUnder(stamp[<<"ou", o, "removed">>])
        BY <2>2, <3>4 DEF ResidentsHoused
      <4> HIDE DEF f
      <4>2. \/ Overlap(stamp[f], stamp[<<"ou", o, "removed">>])'
            \/ \E d : d = stamp'[<<"ou", o, "removed">>] /\ MovedUnder(d)'
        BY <1>2, <2>0, <2>2, <3>1, <3>2, <4>1, LostIsLost
      <4>. QED  BY <4>2 DEF f
    <3>. QED  BY <3>3, <3>4
  <2>3. CASE stamp'[f] = c /\ WritesGroup(c, u) /\ local[c].ou = o
    <3>1. /\ Ends(c) /\ pc[c] \in {"insertGroup", "updateGroup"} /\ pc[c] # "idle"
          /\ Course(c) /\ o \in OUs /\ arg[c].op \in {"updateGroup"} \cup CreatesGroup
      <4>1. Ends(c) /\ pc[c] \in {"insertGroup", "updateGroup"}
        BY <2>3 DEF WritesGroup
      <4>. QED  BY <2>3, <4>1, SMT DEF Base, LocalOK, Course
    <3>2. CASE ThereOrGoneSince(o, c)
      <4> HIDE DEF f
      <4>2. Overlap(stamp[f], stamp[<<"ou", o, "removed">>])'
        BY <1>2, <2>0, <2>3, <3>1, <3>2, WrittenWhenGone
      <4>. QED  BY <4>2 DEF f
    <3>3. CASE arg[c].op = "updateGroup" /\ local[c].row.ou = local[c].ou
      <4>1. pc[c] = "updateGroup"
        BY <3>1, <3>3, SMT DEF Course, CreatesGroup
      <4>2. "ou" \in GroupFields /\ NewGroup(c)["ou"] = local[c].ou
        BY DEF GroupFields, NewGroup
      <4>3. u = arg[c].group /\ u \in PresentGroups /\ groups[u].ou # local[c].ou
        BY <2>0, <2>3, <4>1, <4>2, GroupRewritten
      <4>4. local[c].row # [name |-> groups[u].name, ou |-> groups[u].ou]
        BY <3>3, <4>3
      <4>5. UpdatesGroup(c, u) /\ \E d \in Calls : Overlap(c, d) /\ UpdatesGroup(d, u)
        BY <3>3, <4>1, <4>3, <4>4, UpdatersAre DEF GroupRowRead
      <4>6. RestoresGroup(c, u)
        BY <4>5, NoneAssumption DEF RestoresGroup
      <4>7. RestoresGroup(c, u)'
        BY <3>1, <4>6, RestoresStay
      <4>. QED  BY <2>3, <4>7
    <3>. QED  BY <2>3, <3>1, <3>2, <3>3 DEF GroupOUChecked
  <2>. QED  BY <2>1, <2>2, <2>3
<1>3. ASSUME NEW u \in PresentUsers', users'[u].ou \notin PresentOUs'
      PROVE  \/ Overlap(stamp[<<"user", u, "ou">>], stamp[<<"ou", users[u].ou, "removed">>])'
             \/ MovedUnder(stamp[<<"ou", users[u].ou, "removed">>])'
             \/ RestoresUser(stamp[<<"user", u, "ou">>], u)'
  <2>1. PICK o : o = users'[u].ou
    OBVIOUS
  <2>2. \/ Overlap(stamp[<<"user", u, "ou">>], stamp[<<"ou", o, "removed">>])'
        \/ \E d : d = stamp'[<<"ou", o, "removed">>] /\ MovedUnder(d)'
        \/ \E d : d = stamp'[<<"user", u, "ou">>] /\ RestoresUser(d, u)'
    BY <1>1, <1>3, <2>1
  <2>3. CASE Overlap(stamp[<<"user", u, "ou">>], stamp[<<"ou", o, "removed">>])'
    BY <2>1, <2>3 DEF Overlap
  <2>4. ASSUME NEW d, d = stamp'[<<"ou", o, "removed">>], MovedUnder(d)'
        PROVE  MovedUnder(stamp[<<"ou", users[u].ou, "removed">>])'
    BY <2>1, <2>4 DEF MovedUnder, Overlap
  <2>5. ASSUME NEW d, d = stamp'[<<"user", u, "ou">>], RestoresUser(d, u)'
        PROVE  RestoresUser(stamp[<<"user", u, "ou">>], u)'
    BY <2>5 DEF RestoresUser, UpdatesUser, Overlap
  <2>. QED  BY <2>2, <2>3, <2>4, <2>5
<1>4. ASSUME NEW u \in PresentGroups', groups'[u].ou \notin PresentOUs'
      PROVE  \/ Overlap(stamp[<<"group", u, "ou">>], stamp[<<"ou", groups[u].ou, "removed">>])'
             \/ MovedUnder(stamp[<<"ou", groups[u].ou, "removed">>])'
             \/ RestoresGroup(stamp[<<"group", u, "ou">>], u)'
  <2>1. PICK o : o = groups'[u].ou
    OBVIOUS
  <2>2. \/ Overlap(stamp[<<"group", u, "ou">>], stamp[<<"ou", o, "removed">>])'
        \/ \E d : d = stamp'[<<"ou", o, "removed">>] /\ MovedUnder(d)'
        \/ \E d : d = stamp'[<<"group", u, "ou">>] /\ RestoresGroup(d, u)'
    BY <1>2, <1>4, <2>1
  <2>3. CASE Overlap(stamp[<<"group", u, "ou">>], stamp[<<"ou", o, "removed">>])'
    BY <2>1, <2>3 DEF Overlap
  <2>4. ASSUME NEW d, d = stamp'[<<"ou", o, "removed">>], MovedUnder(d)'
        PROVE  MovedUnder(stamp[<<"ou", groups[u].ou, "removed">>])'
    BY <2>1, <2>4 DEF MovedUnder, Overlap
  <2>5. ASSUME NEW d, d = stamp'[<<"group", u, "ou">>], RestoresGroup(d, u)'
        PROVE  RestoresGroup(stamp[<<"group", u, "ou">>], u)'
    BY <2>5 DEF RestoresGroup, UpdatesGroup, Overlap
  <2>. QED  BY <2>2, <2>3, <2>4, <2>5
<1>. QED  BY <1>3, <1>4 DEF ResidentsHoused

-----------------------------------------------------------------------------
(* Names and handles of organization units.                                *)

\* The checks of an organization unit, on the way to the write.
LEMMA OUStepsKeep ==
    ASSUME Base, NEW c \in Calls, Looks(c), ComesFrom(c),
           pc'[c] \in {"circular", "name", "handle", "insertOU", "updateOU"}
    PROVE  /\ local'[c].ou = local[c].ou /\ local'[c].row = local[c].row
           /\ \/ /\ pc[c] = "parent" /\ local'[c].walk = arg[c].parent
                 /\ pc'[c] = IF arg[c].op = "createOU" THEN "name" ELSE "circular"
              \/ /\ pc[c] = "circular" /\ pc'[c] = "circular"
                 /\ local[c].walk \in PresentOUs /\ local[c].walk # local[c].ou
                 /\ local'[c].walk = ous[local[c].walk].parent
              \/ /\ pc[c] = "circular" /\ pc'[c] = "name"
                 /\ local[c].walk \notin PresentOUs /\ local[c].walk # local[c].ou
              \/ /\ pc[c] = "name" /\ pc'[c] = "handle"
                 /\ \/ SameRoot(c) /\ local[c].row.name = arg[c].name
                    \/ \A o \in Siblings(c) : ous[o].name # arg[c].name
              \/ /\ pc[c] = "handle"
                 /\ pc'[c] = IF arg[c].op = "createOU" THEN "insertOU" ELSE "updateOU"
                 /\ \/ SameRoot(c) /\ local[c].row.handle = arg[c].handle
                    \/ \A o \in Siblings(c) : ous[o].handle # arg[c].handle
<1>1. DOMAIN pc = Calls /\ DOMAIN local = Calls /\ DOMAIN local[c] = {"ou", "path", "walk", "row"}
      /\ pc'[c] \notin Answers
  BY SMT DEF Base, TypeOK, Answers
<1>2. CASE ParentExists(c)
  <2>1. Answer(c, "refused") => pc'[c] = "refused"
    BY <1>1, SMT DEF Answer, Goto
  <2>2. /\ Goto(c, IF arg[c].op = "createOU" THEN "name" ELSE "circular")
        /\ Keep(c, [local[c] EXCEPT !.walk = arg[c].parent])
    BY <1>1, <1>2, <2>1 DEF ParentExists, Answers
  <2>3. local'[c] = [local[c] EXCEPT !.walk = arg[c].parent]
    BY <1>1, <2>2, SMT DEF Keep
  <2>4. local'[c].walk = arg[c].parent /\ local'[c].ou = local[c].ou /\ local'[c].row = local[c].row
    BY <1>1, <2>3, SMT
  <2>5. pc[c] = "parent" /\ pc'[c] = IF arg[c].op = "createOU" THEN "name" ELSE "circular"
    BY <1>1, <1>2, <2>2, SMT DEF ParentExists, Goto
  <2>. QED  BY <2>4, <2>5, Zenon
<1>3. CASE CircularDependency(c)
  <2>1. CASE local[c].walk \in PresentOUs /\ local[c].walk # local[c].ou
    <3>1. /\ Keep(c, [local[c] EXCEPT !.walk = ous[local[c].walk].parent])
          /\ pc' = pc /\ pc[c] = "circular"
      BY <1>3, <2>1 DEF CircularDependency
    <3>2. local'[c] = [local[c] EXCEPT !.walk = ous[local[c].walk].parent]
      BY <1>1, <3>1, SMT DEF Keep
    <3>3. /\ local'[c].walk = ous[local[c].walk].parent
          /\ local'[c].ou = local[c].ou /\ local'[c].row = local[c].row
      BY <1>1, <3>2, SMT
    <3>. QED  BY <2>1, <3>1, <3>3, Zenon
  <2>2. CASE ~(local[c].walk \in PresentOUs /\ local[c].walk # local[c].ou)
    <3> DEFINE holds == local[c].walk # local[c].ou
    <3>1. Check(c, holds, "refused", "name") /\ "refused" \in Answers
      BY <1>3, <2>2 DEF CircularDependency, Answers
    <3> HIDE DEF holds
    <3>2. holds /\ pc'[c] = "name" /\ local'[c] = local[c]
      BY <1>1, <3>1, CheckLeadsOn
    <3>3. pc[c] = "circular"
      BY <1>3 DEF CircularDependency
    <3>. QED  BY <2>2, <3>2, <3>3 DEF holds
  <2>. QED  BY <2>1, <2>2
<1>4. CASE OUNameFree(c)
  <2> DEFINE holds == \/ SameRoot(c) /\ local[c].row.name = arg[c].name
                      \/ \A o \in Siblings(c) : ous[o].name # arg[c].name
  <2>1. Check(c, holds, "conflict", "handle") /\ "conflict" \in Answers
    BY <1>4 DEF OUNameFree, Answers
  <2> HIDE DEF holds
  <2>2. holds /\ pc'[c] = "handle" /\ local'[c] = local[c]
    BY <1>1, <2>1, CheckLeadsOn
  <2>3. pc[c] = "name"
    BY <1>4 DEF OUNameFree
  <2>. QED  BY <2>2, <2>3 DEF holds
<1>5. CASE OUHandleFree(c)
  <2> DEFINE holds == \/ SameRoot(c) /\ local[c].row.handle = arg[c].handle
                      \/ \A o \in Siblings(c) : ous[o].handle # arg[c].handle
             next == IF arg[c].op = "createOU" THEN "insertOU" ELSE "updateOU"
  <2>1. Check(c, holds, "conflict", next) /\ "conflict" \in Answers
    BY <1>5 DEF OUHandleFree, Answers
  <2> HIDE DEF holds, next
  <2>2. holds /\ pc'[c] = next /\ local'[c] = local[c]
    BY <1>1, <2>1, CheckLeadsOn
  <2>3. pc[c] = "handle"
    BY <1>5 DEF OUHandleFree
  <2>. QED  BY <2>2, <2>3 DEF holds, next
<1>. QED  BY <1>2, <1>3, <1>4, <1>5, SMT DEF ComesFrom

\* The organization unit that an update has read.
LEMMA OURowFound ==
    ASSUME Base, NEW c \in Calls, Looks(c), pc'[c] = "parent", GetOU(c) \/ ResolveHandle(c),
           arg[c].op \in ChangesOU
    PROVE  /\ local'[c].ou \in PresentOUs /\ local'[c].row = ous[local'[c].ou]
           /\ UpdatesOU(c, local'[c].ou)
<1>1. DOMAIN pc = Calls /\ DOMAIN local = Calls /\ DOMAIN local[c] = {"ou", "path", "walk", "row"}
  BY DEF Base, TypeOK
<1>2. Answer(c, "refused") => pc'[c] = "refused"
  BY <1>1, SMT DEF Answer, Goto
<1>3. pc[c] # "idle" /\ ~Ended(c) /\ arg[c] # None
  <2>1. pc[c] # "idle" /\ ~Ended(c)
    BY SMT DEF Looks, Steps, Ended, Answers
  <2>. QED  BY <2>1, NoneAssumption DEF Base, Course
<1>4. CASE GetOU(c)
  <2>1. /\ local[c].ou \in PresentOUs /\ Keep(c, [local[c] EXCEPT !.row = ous[local[c].ou]])
        /\ pc[c] = "getOU"
    BY <1>2, <1>4 DEF GetOU
  <2>2. local'[c] = [local[c] EXCEPT !.row = ous[local[c].ou]]
    BY <1>1, <2>1, SMT DEF Keep
  <2>3. local'[c].ou = local[c].ou /\ local'[c].row = ous[local[c].ou]
    BY <1>1, <2>2, SMT
  <2>4. arg[c].op = "updateOU"
    BY <2>1 DEF Base, Course
  <2>5. local[c].ou = arg[c].ou
    BY <1>3, <2>4 DEF Base, LocalOK, Running
  <2>. QED  BY <1>3, <2>1, <2>3, <2>4, <2>5 DEF UpdatesOU
<1>5. CASE ResolveHandle(c)
  <2>1. /\ pc[c] = "path"
        /\ \E o \in PresentOUs : Keep(c, [local[c] EXCEPT !.ou = o, !.path = Tail(@), !.row = ous[o]])
    BY <1>2, <1>5 DEF ResolveHandle
  <2>2. PICK o \in PresentOUs : Keep(c, [local[c] EXCEPT !.ou = o, !.path = Tail(@), !.row = ous[o]])
    BY <2>1
  <2>3. local'[c] = [local[c] EXCEPT !.ou = o, !.path = Tail(@), !.row = ous[o]]
    BY <1>1, <2>2, SMT DEF Keep
  <2>4. local'[c].ou = o /\ local'[c].row = ous[o]
    BY <1>1, <2>3, SMT
  <2>5. arg[c].op = "updateOUByPath"
    BY <2>1, SMT DEF Base, Course, ChangesOU
  <2>. QED  BY <1>3, <2>4, <2>5 DEF UpdatesOU
<1>. QED  BY <1>4, <1>5

\* An organization unit that no call writes is as it was.
LEMMA OURowsMove ==
    ASSUME Base, NEW c \in Calls, Moves(c), NEW o \in PresentOUs'
    PROVE  \/ o \in PresentOUs /\ ous'[o] = ous[o]
           \/ WritesOU(c, o)
<1>1. ous \in [OUs -> OURows \cup {None}] /\ o \in OUs
  BY SMT DEF Base, TypeOK, Tables, PresentOUs
<1>2. CASE OUsSame
  BY <1>2 DEF OUsSame, PresentOUs
<1>3. CASE OUInserted(c) /\ Ends(c)
  BY <1>1, <1>3 DEF OUInserted, PresentOUs, WritesOU
<1>4. CASE OUWritten(c) /\ Ends(c)
  BY <1>1, <1>4 DEF OUWritten, PresentOUs, WritesOU
<1>5. CASE OURemoved(c) /\ Ends(c)
  BY <1>1, <1>5 DEF OURemoved, PresentOUs
<1>. QED  BY <1>2, <1>3, <1>4, <1>5, MovesChange DEF OUsChange

\* The row that UpdateOrganizationUnit has read is still so, unless another
\* update of it runs.
LEMMA OURowReadStays ==
    ASSUME Base, NewRows, NEW c \in Calls, Moves(c), OURowRead(c), NEW d \in Calls, OURowRead(d)
    PROVE  OURowRead(d)'
<1> DEFINE At == {"parent", "circular", "name", "handle", "updateOU"}
           Others(e, h) == \E x \in Calls : Overlap(e, x) /\ UpdatesOU(x, h)
<1> SUFFICES ASSUME pc'[d] \in At, arg'[d].op \in ChangesOU
             PROVE  \A o : o = local'[d].ou =>
                        /\ o \in Calls => pc'[o] \in Answers
                        /\ UpdatesOU(d, o)'
                        /\ o \in PresentOUs' =>
                              \/ ous'[o] = local'[d].row
                              \/ \E x \in Calls : Overlap(d, x)' /\ UpdatesOU(x, o)'
  BY DEF OURowRead, Ended, UpdatesOU, Overlap
<1> TAKE o
<1> HAVE o = local'[d].ou
<1>0. \A e \in Calls : pc[e] \in Answers => pc'[e] \in Answers
  BY MovesAlone, Zenon DEF Ended
<1>1. CASE d # c
  <2>1. pc'[d] = pc[d] /\ local'[d] = local[d] /\ arg'[d] = arg[d] /\ pc[d] # "idle" /\ ~Ended(d)
    <3>1. pc'[d] = pc[d] /\ local'[d] = local[d] /\ arg'[d] = arg[d]
      BY <1>1, MovesAlone
    <3>. QED  BY <3>1, SMT DEF Ended, Answers
  <2>2. /\ o \in Calls => pc[o] \in Answers
        /\ UpdatesOU(d, o)
        /\ o \in PresentOUs => ous[o] = local[d].row \/ Others(d, o)
    BY <2>1 DEF OURowRead, Ended
  <2>3. ASSUME o \in PresentOUs'
        PROVE  ous'[o] = local'[d].row \/ \E x \in Calls : Overlap(d, x)' /\ UpdatesOU(x, o)'
    <3>1. CASE o \in PresentOUs /\ ous'[o] = ous[o]
      BY <2>1, <2>2, <3>1, OtherUpdateStays
    <3>2. CASE WritesOU(c, o)
      <4>1. ~(pc[c] = "insertOU" /\ o = c)
        <5>1. ~Ended(c)
          BY MovesAlone
        <5>. QED  BY <2>2, <5>1 DEF Ended
      <4>2. pc[c] = "updateOU" /\ o = local[c].ou /\ pc[c] # "idle"
        BY <3>2, <4>1 DEF WritesOU
      <4>3. UpdatesOU(c, o) /\ arg'[c] = arg[c]
        <5>1. arg[c].op \in ChangesOU
          BY <4>2 DEF Base, Course
        <5>. QED  BY <4>2, <5>1, MovesAlone DEF OURowRead
      <4>4. Overlap(d, c)'
        BY <1>1, <2>1, <4>2, RunningOverlap
      <4>. QED  BY <4>3, <4>4 DEF UpdatesOU
    <3>. QED  BY <2>3, <3>1, <3>2, OURowsMove
  <2>4. UpdatesOU(d, o)'
    BY <2>1, <2>2 DEF UpdatesOU
  <2>. QED  BY <1>0, <2>1, <2>2, <2>3, <2>4
<1>2. CASE d = c
  <2>1. pc'[c] \in Steps /\ ~FirstStep(c) /\ pc'[c] \notin Answers
    <3>1. ~(pc'[c] = "parent" /\ arg'[c].op = "createOU")
      BY <1>2, SMT DEF ChangesOU
    <3>. QED  BY <1>2, <3>1, SMT DEF Steps, FirstStep, Answers
  <2>2. Looks(c) /\ ComesFrom(c) /\ arg'[c] = arg[c] /\ pc[c] # "idle" /\ ous' = ous
    <3>1. Looks(c) /\ ComesFrom(c)
      BY <1>2, <2>1, Arrives
    <3>. QED  BY <3>1, SMT DEF Looks, Steps, tables
  <2>3. arg[c].op \in ChangesOU
    BY <1>2, <2>2
  <2>4. CASE pc'[c] = "parent"
    <3>1. GetOU(c) \/ ResolveHandle(c)
      BY <2>2, <2>4 DEF ComesFrom
    <3>2. o \in PresentOUs /\ local'[c].row = ous[o] /\ UpdatesOU(c, o)
      BY <1>2, <2>2, <2>3, <2>4, <3>1, OURowFound
    <3>3. o \in Calls => pc[o] \in Answers
      BY <3>2 DEF NewRows, PresentOUs, Ended
    <3>4. UpdatesOU(c, o)'
      BY <2>2, <3>2 DEF UpdatesOU
    <3>. QED  BY <1>0, <1>2, <2>2, <3>2, <3>3, <3>4
  <2>5. CASE pc'[c] # "parent"
    <3>1. /\ local'[c].ou = local[c].ou /\ local'[c].row = local[c].row
          /\ pc[c] \in At
      BY <1>2, <2>2, <2>5, OUStepsKeep
    <3>2. /\ o \in Calls => pc[o] \in Answers
          /\ UpdatesOU(c, o)
          /\ o \in PresentOUs => ous[o] = local[c].row \/ Others(c, o)
      BY <1>2, <2>3, <3>1 DEF OURowRead, Ended
    <3>3. UpdatesOU(c, o)'
      BY <2>2, <3>2 DEF UpdatesOU
    <3>4. o \in PresentOUs' => o \in PresentOUs /\ ous'[o] = ous[o]
      BY <2>2 DEF PresentOUs
    <3>. QED  BY <1>0, <1>2, <2>2, <3>1, <3>2, <3>3, <3>4, OtherUpdateStays
  <2>. QED  BY <2>4, <2>5
<1>. QED  BY <1>1, <1>2

\* The facts of an organization unit, by their names.
LEMMA OUFactsMove ==
    ASSUME Base, NEW c \in Calls, Moves(c), NEW o \in PresentOUs', NEW f \in OUFields
    PROVE  /\ o \in OUs /\ <<"ou", o, f>> \in Facts
           /\ \/ /\ stamp'[<<"ou", o, f>>] = stamp[<<"ou", o, f>>]
                 /\ o \in PresentOUs
                 /\ ous'[o].parent = ous[o].parent /\ ous'[o][f] = ous[o][f]
              \/ /\ stamp'[<<"ou", o, f>>] = c /\ stamp[<<"ou", o, f>>] # c
                 /\ WritesOU(c, o) /\ ParentKey(c)
                 /\ ous'[o] = NewOU(c)
<1>1. o \in OUs /\ f \in OUFields \cup {"removed"}
  BY DEF PresentOUs
<1>2. <<"ou", o, f>> \in Facts
  BY <1>1, FactsAre, Zenon
<1>. QED  BY <1>1, <1>2, OUsMove

\* A sibling with the name that a call is going to write got it since.
LEMMA OUNameCheckedStays ==
    ASSUME Base, NEW c \in Calls, Moves(c), NEW d \in Calls, OUNameChecked(d)
    PROVE  OUNameChecked(d)'
<1> SUFFICES ASSUME pc'[d] \in {"handle", "insertOU", "updateOU"},
                    ~(SameRoot(d)' /\ local'[d].row.name = arg'[d].name),
                    NEW p \in PresentOUs', ous'[p].parent = arg'[d].parent, ous'[p].name = arg'[d].name
             PROVE  Since(<<"ou", p, "name">>, d)'
  BY DEF OUNameChecked, Siblings
<1>1. CASE d # c
  <2>1. /\ pc'[d] = pc[d] /\ local'[d] = local[d] /\ arg'[d] = arg[d] /\ pc[d] # "idle"
        /\ SameRoot(d)' = SameRoot(d)
    BY <1>1, MovesAlone DEF SameRoot
  <2>2. /\ <<"ou", p, "name">> \in Facts
        /\ stamp'[<<"ou", p, "name">>] = stamp[<<"ou", p, "name">>]
           => p \in PresentOUs /\ ous'[p].parent = ous[p].parent /\ ous'[p]["name"] = ous[p]["name"]
    <3>1. "name" \in OUFields
      BY DEF OUFields
    <3>. QED  BY <3>1, OUFactsMove
  <2>3. CASE stamp'[<<"ou", p, "name">>] = stamp[<<"ou", p, "name">>]
    <3>1. Since(<<"ou", p, "name">>, d)
      BY <2>1, <2>2, <2>3 DEF OUNameChecked, Siblings
    <3>. QED  BY <2>1, <2>2, <3>1, SinceStays
  <2>4. CASE stamp'[<<"ou", p, "name">>] # stamp[<<"ou", p, "name">>]
    BY <2>1, <2>2, <2>4, SinceStays
  <2>. QED  BY <2>3, <2>4
<1>2. CASE d = c
  <2>1. pc'[c] \in Steps /\ ~FirstStep(c) /\ pc'[c] \notin Answers
    BY <1>2, SMT DEF Steps, FirstStep, Answers
  <2>2. Looks(c) /\ ComesFrom(c) /\ arg'[c] = arg[c] /\ pc[c] # "idle" /\ ous' = ous
    <3>1. Looks(c) /\ ComesFrom(c)
      BY <1>2, <2>1, Arrives
    <3>. QED  BY <3>1, SMT DEF Looks, Steps, tables
  <2>3. /\ local'[c].row = local[c].row
        /\ \/ pc[c] = "name" /\ (\/ SameRoot(c) /\ local[c].row.name = arg[c].name
                                 \/ \A q \in Siblings(c) : ous[q].name # arg[c].name)
           \/ pc[c] = "handle"
    BY <1>2, <2>2, OUStepsKeep, SMT
  <2>4. /\ ~(SameRoot(c) /\ local[c].row.name = arg[c].name)
        /\ p \in Siblings(c) /\ ous[p].name = arg[c].name
    BY <1>2, <2>2, <2>3 DEF SameRoot, Siblings, PresentOUs
  <2>5. pc[c] = "handle"
    BY <2>3, <2>4
  <2>6. Since(<<"ou", p, "name">>, c)
    BY <1>2, <2>4, <2>5 DEF OUNameChecked
  <2>. QED  BY <1>2, <2>2, <2>6 DEF Looks, Since
<1>. QED  BY <1>1, <1>2

\* So did a sibling with the handle.
LEMMA OUHandleCheckedStays ==
    ASSUME Base, NEW c \in Calls, Moves(c), NEW d \in Calls, OUHandleChecked(d)
    PROVE  OUHandleChecked(d)'
<1> SUFFICES ASSUME pc'[d] \in {"insertOU", "updateOU"},
                    ~(SameRoot(d)' /\ local'[d].row.handle = arg'[d].handle),
                    NEW p \in PresentOUs', ous'[p].parent = arg'[d].parent, ous'[p].handle = arg'[d].handle
             PROVE  Since(<<"ou", p, "handle">>, d)'
  BY DEF OUHandleChecked, Siblings
<1>1. CASE d # c
  <2>1. /\ pc'[d] = pc[d] /\ local'[d] = local[d] /\ arg'[d] = arg[d] /\ pc[d] # "idle"
        /\ SameRoot(d)' = SameRoot(d)
    BY <1>1, MovesAlone DEF SameRoot
  <2>2. /\ <<"ou", p, "handle">> \in Facts
        /\ stamp'[<<"ou", p, "handle">>] = stamp[<<"ou", p, "handle">>]
           => p \in PresentOUs /\ ous'[p].parent = ous[p].parent /\ ous'[p]["handle"] = ous[p]["handle"]
    <3>1. "handle" \in OUFields
      BY DEF OUFields
    <3>. QED  BY <3>1, OUFactsMove
  <2>3. CASE stamp'[<<"ou", p, "handle">>] = stamp[<<"ou", p, "handle">>]
    <3>1. Since(<<"ou", p, "handle">>, d)
      BY <2>1, <2>2, <2>3 DEF OUHandleChecked, Siblings
    <3>. QED  BY <2>1, <2>2, <3>1, SinceStays
  <2>4. CASE stamp'[<<"ou", p, "handle">>] # stamp[<<"ou", p, "handle">>]
    BY <2>1, <2>2, <2>4, SinceStays
  <2>. QED  BY <2>3, <2>4
<1>2. CASE d = c
  <2>1. pc'[c] \in Steps /\ ~FirstStep(c) /\ pc'[c] \notin Answers
    BY <1>2, SMT DEF Steps, FirstStep, Answers
  <2>2. Looks(c) /\ ComesFrom(c) /\ arg'[c] = arg[c] /\ ous' = ous
    <3>1. Looks(c) /\ ComesFrom(c)
      BY <1>2, <2>1, Arrives
    <3>. QED  BY <3>1, SMT DEF Looks, Steps, tables
  <2>3. /\ local'[c].row = local[c].row
        /\ \/ SameRoot(c) /\ local[c].row.handle = arg[c].handle
           \/ \A q \in Siblings(c) : ous[q].handle # arg[c].handle
    BY <1>2, <2>2, OUStepsKeep, SMT
  <2>4. /\ ~(SameRoot(c) /\ local[c].row.handle = arg[c].handle)
        /\ p \in Siblings(c) /\ ous[p].handle = arg[c].handle
    BY <1>2, <2>2, <2>3 DEF SameRoot, Siblings, PresentOUs
  <2>. QED  BY <2>3, <2>4
<1>. QED  BY <1>1, <1>2

-----------------------------------------------------------------------------
(* Names that must differ.                                                 *)

\* Whoever updates an organization unit signs the fields that it changes.
LEMMA OURewritten ==
    ASSUME Base, NEW c \in Calls, Moves(c), pc[c] = "updateOU", NEW o \in OUs, NEW f \in OUFields,
           stamp'[<<"ou", o, f>>] = c
    PROVE  /\ o = local[c].ou /\ o \in PresentOUs
           /\ ous[o].parent # arg[c].parent \/ ous[o][f] # arg[c][f]
<1>1. stamp[<<"ou", o, f>>] # c
  <2>1. f \in OUFields \cup {"removed"}
    OBVIOUS
  <2>. QED  BY <2>1, NotSigned, FactsAre, Zenon
<1>2. ~OUsSame
  BY <1>1 DEF OUsSame, OUFieldsSame
<1>3. OUWritten(c)
  BY <1>2, MovesChange, SMT DEF OUsChange, OUInserted, OURemoved
<1>4. stamp'[<<"ou", o, f>>] =
         IF o = local[c].ou /\ (ous[local[c].ou].parent # arg[c].parent
                                \/ ous[local[c].ou][f] # arg[c][f])
         THEN c ELSE stamp[<<"ou", o, f>>]
  BY <1>3, Zenon DEF OUWritten
<1>5. local[c].ou \in PresentOUs
  BY <1>3 DEF OUWritten
<1>. QED  BY <1>1, <1>4, <1>5

\* A call that writes a name or handle which a sibling has did not see it
\* there, or it writes back a row that another update has changed.
LEMMA OUNameWritten ==
    ASSUME Base, NEW c \in Calls, Moves(c), OURowRead(c), OUNameChecked(c), OUHandleChecked(c),
           NEW f \in {"name", "handle"}, NEW o \in PresentOUs', NEW p \in PresentOUs, o # p,
           stamp'[<<"ou", o, f>>] = c, WritesOU(c, o), ous'[o] = NewOU(c),
           ous[p].parent = ous'[o].parent, ous[p][f] = ous'[o][f]
    PROVE  Since(<<"ou", p, f>>, c) \/ RestoresOU(c, o)'
<1>1. /\ Ends(c) /\ pc[c] \in {"insertOU", "updateOU"} /\ pc[c] # "idle" /\ ~Ended(c)
      /\ pc[c] = "insertOU" => o = c
      /\ pc[c] = "updateOU" => o = local[c].ou
  BY SMT DEF WritesOU, Ended, Answers
<1>2. p \in Siblings(c) /\ ous[p][f] = arg[c][f]
  <2>1. NewOU(c).parent = arg[c].parent /\ NewOU(c)[f] = arg[c][f]
    BY DEF NewOU
  <2>. QED  BY <2>1 DEF Siblings
<1>3. CASE ~(SameRoot(c) /\ local[c].row[f] = arg[c][f])
  <2>1. CASE f = "name"
    BY <1>1, <1>2, <1>3, <2>1 DEF OUNameChecked
  <2>2. CASE f = "handle"
    BY <1>1, <1>2, <1>3, <2>2 DEF OUHandleChecked
  <2>. QED  BY <2>1, <2>2
<1>4. CASE SameRoot(c) /\ local[c].row[f] = arg[c][f]
  <2>1. pc[c] = "updateOU" /\ arg[c].op \in ChangesOU
    <3>1. arg[c].op # "createOU" /\ Course(c)
      BY <1>4 DEF SameRoot, Base
    <3>. QED  BY <1>1, <3>1, SMT DEF Course
  <2>2. o \in OUs /\ f \in OUFields
    BY DEF PresentOUs, OUFields
  <2>3. o \in PresentOUs /\ (ous[o].parent # arg[c].parent \/ ous[o][f] # arg[c][f])
    BY <2>1, <2>2, OURewritten
  <2>4. ous[o] # local[c].row
    BY <1>4, <2>3 DEF SameRoot
  <2>5. UpdatesOU(c, o) /\ \E d \in Calls : Overlap(c, d) /\ UpdatesOU(d, o)
    BY <1>1, <2>1, <2>3, <2>4 DEF OURowRead
  <2>6. RestoresOU(c, o)
    BY <1>4, <2>5, NoneAssumption DEF RestoresOU, SameRoot
  <2>. QED  BY <1>1, <2>6, RestoresStay
<1>. QED  BY <1>3, <1>4

\* The same for the names of groups.
LEMMA GroupNameWritten ==
    ASSUME Base, NEW c \in Calls, Moves(c), GroupRowRead(c), GroupNameChecked(c),
           NEW g \in PresentGroups', NEW h \in PresentGroups, g # h,
           stamp'[<<"group", g, "name">>] = c, WritesGroup(c, g), groups'[g] = NewGroup(c),
           groups[h].ou = groups'[g].ou, groups[h].name = groups'[g].name
    PROVE  Since(<<"group", h, "name">>, c) \/ RestoresGroup(c, g)'
<1>1. /\ Ends(c) /\ pc[c] \in {"insertGroup", "updateGroup"} /\ pc[c] # "idle" /\ ~Ended(c)
      /\ pc[c] = "insertGroup" => g = c
      /\ pc[c] = "updateGroup" => g = arg[c].group
  BY SMT DEF WritesGroup, Ended, Answers
<1>2. groups[h].ou = local[c].ou /\ groups[h].name = arg[c].name
  BY DEF NewGroup
<1>3. CASE ~SameGroupName(c)
  BY <1>1, <1>2, <1>3 DEF GroupNameChecked
<1>4. CASE SameGroupName(c)
  <2>1. pc[c] = "updateGroup" /\ arg[c].op = "updateGroup"
    <3>1. arg[c].op = "updateGroup" /\ Course(c)
      BY <1>4 DEF SameGroupName, Base
    <3>. QED  BY <1>1, <3>1, SMT DEF Course, CreatesGroup
  <2>2. g \in Groups /\ "name" \in GroupFields
    BY DEF PresentGroups, GroupFields
  <2>3. g \in PresentGroups /\ (groups[g].ou # local[c].ou \/ groups[g]["name"] # NewGroup(c)["name"])
    BY <2>1, <2>2, GroupRewritten
  <2>4. local[c].ou = arg[c].ou
    <3>1. Running(c) /\ LocalOK(c)
      BY <1>1 DEF Running, Base
    <3>. QED  BY <2>1, <3>1 DEF LocalOK
  <2>5. local[c].row # [name |-> groups[g].name, ou |-> groups[g].ou]
    <3>1. local[c].row.name = arg[c].name /\ local[c].row.ou = arg[c].ou
      BY <1>4 DEF SameGroupName
    <3>2. NewGroup(c)["name"] = arg[c].name
      BY DEF NewGroup
    <3>. QED  BY <2>3, <2>4, <3>1, <3>2
  <2>6. UpdatesGroup(c, g) /\ \E d \in Calls : Overlap(c, d) /\ UpdatesGroup(d, g)
    BY <1>1, <2>1, <2>3, <2>5, UpdatersAre DEF GroupRowRead
  <2>7. RestoresGroup(c, g)
    BY <2>6, NoneAssumption DEF RestoresGroup
  <2>. QED  BY <1>1, <2>7, RestoresStay
<1>. QED  BY <1>3, <1>4

\* NamesUnique: the writer has asked for the name, or keeps what it has read.
LEMMA NamesUniqueStays ==
    ASSUME Base, NamesUnique, NEW c \in Calls, Moves(c),
           OURowRead(c), OUNameChecked(c), OUHandleChecked(c), GroupRowRead(c), GroupNameChecked(c)
    PROVE  NamesUnique'
<1>1. ASSUME NEW o \in PresentOUs', NEW p \in PresentOUs', NEW f \in {"name", "handle"},
             o # p, ous'[o].parent = ous'[p].parent, ous'[o][f] = ous'[p][f]
      PROVE  \/ Overlap(stamp[<<"ou", o, f>>], stamp[<<"ou", p, f>>])'
             \/ \E d : d = stamp'[<<"ou", o, f>>] /\ RestoresOU(d, o)'
             \/ \E d : d = stamp'[<<"ou", p, f>>] /\ RestoresOU(d, p)'
  <2> DEFINE x == <<"ou", o, f>>
             y == <<"ou", p, f>>
  <2>1. f \in OUFields
    BY DEF OUFields
  <2>2. /\ x \in Facts
        /\ \/ stamp'[x] = stamp[x] /\ o \in PresentOUs /\ ous'[o].parent = ous[o].parent /\ ous'[o][f] = ous[o][f]
           \/ stamp'[x] = c /\ stamp[x] # c /\ WritesOU(c, o) /\ ous'[o] = NewOU(c)
    BY <2>1, OUFactsMove
  <2>3. /\ y \in Facts
        /\ \/ stamp'[y] = stamp[y] /\ p \in PresentOUs /\ ous'[p].parent = ous[p].parent /\ ous'[p][f] = ous[p][f]
           \/ stamp'[y] = c /\ stamp[y] # c /\ WritesOU(c, p) /\ ous'[p] = NewOU(c)
    BY <2>1, OUFactsMove
  <2>4. CASE /\ stamp'[x] = stamp[x] /\ o \in PresentOUs /\ ous'[o].parent = ous[o].parent /\ ous'[o][f] = ous[o][f]
             /\ stamp'[y] = stamp[y] /\ p \in PresentOUs /\ ous'[p].parent = ous[p].parent /\ ous'[p][f] = ous[p][f]
    <3>1. Overlap(stamp[x], stamp[y]) \/ RestoresOU(stamp[x], o) \/ RestoresOU(stamp[y], p)
      BY <1>1, <2>4 DEF NamesUnique
    <3> HIDE DEF x, y
    <3>2. CASE Overlap(stamp[x], stamp[y])
      <4>1. Overlap(stamp[x], stamp[y])'
        BY <2>2, <2>3, <2>4, <3>2, SignaturesOverlap
      <4>. QED  BY <4>1 DEF x, y
    <3>3. CASE RestoresOU(stamp[x], o)
      <4>1. stamp[x] # None
        BY <3>3 DEF RestoresOU
      <4>2. stamp[x] \in Calls /\ pc[stamp[x]] # "idle"
        BY <2>2, <4>1, SignersEnded
      <4>3. \E d \in Calls : d = stamp[x] /\ pc[d] # "idle" /\ RestoresOU(d, o)
        BY <3>3, <4>2
      <4>4. \E d : d = stamp'[x] /\ RestoresOU(d, o)'
        BY <2>4, <4>3, RestoresStay
      <4>. QED  BY <4>4 DEF x
    <3>4. CASE RestoresOU(stamp[y], p)
      <4>1. stamp[y] # None
        BY <3>4 DEF RestoresOU
      <4>2. stamp[y] \in Calls /\ pc[stamp[y]] # "idle"
        BY <2>3, <4>1, SignersEnded
      <4>3. \E d \in Calls : d = stamp[y] /\ pc[d] # "idle" /\ RestoresOU(d, p)
        BY <3>4, <4>2
      <4>4. \E d : d = stamp'[y] /\ RestoresOU(d, p)'
        BY <2>4, <4>3, RestoresStay
      <4>. QED  BY <4>4 DEF y
    <3>. QED  BY <3>1, <3>2, <3>3, <3>4
  <2>5. ASSUME stamp'[x] = c, WritesOU(c, o), ous'[o] = NewOU(c),
               stamp'[y] = stamp[y], p \in PresentOUs, ous'[p].parent = ous[p].parent, ous'[p][f] = ous[p][f]
        PROVE  \/ Overlap(stamp[<<"ou", o, f>>], stamp[<<"ou", p, f>>])'
               \/ \E d : d = stamp'[<<"ou", o, f>>] /\ RestoresOU(d, o)'
    <3>1. Since(<<"ou", p, f>>, c) \/ RestoresOU(c, o)'
      BY <1>1, <2>5, OUNameWritten
    <3>2. Ends(c)
      BY <2>5 DEF WritesOU
    <3>3. CASE Since(<<"ou", p, f>>, c)
      <4> HIDE DEF x, y
      <4>0. Since(y, c)
        BY <3>3 DEF y
      <4>1. Overlap(stamp[x], stamp[y])'
        BY <2>2, <2>3, <2>5, <3>2, <4>0, SignaturesOverlap
      <4>. QED  BY <4>1 DEF x, y
    <3>. QED  BY <2>5, <3>1, <3>3
  <2>6. ASSUME stamp'[y] = c, WritesOU(c, p), ous'[p] = NewOU(c),
               stamp'[x] = stamp[x], o \in PresentOUs, ous'[o].parent = ous[o].parent, ous'[o][f] = ous[o][f]
        PROVE  \/ Overlap(stamp[<<"ou", o, f>>], stamp[<<"ou", p, f>>])'
               \/ \E d : d = stamp'[<<"ou", p, f>>] /\ RestoresOU(d, p)'
    <3>1. Since(<<"ou", o, f>>, c) \/ RestoresOU(c, p)'
      BY <1>1, <2>6, OUNameWritten
    <3>2. Ends(c)
      BY <2>6 DEF WritesOU
    <3>3. CASE Since(<<"ou", o, f>>, c)
      <4> HIDE DEF x, y
      <4>0. Since(x, c)
        BY <3>3 DEF x
      <4>1. Overlap(stamp[x], stamp[y])'
        BY <2>2, <2>3, <2>6, <3>2, <4>0, SignaturesOverlap
      <4>. QED  BY <4>1 DEF x, y
    <3>. QED  BY <2>6, <3>1, <3>3
  <2>7. ~(WritesOU(c, o) /\ WritesOU(c, p))
    BY <1>1 DEF WritesOU
  <2>. QED  BY <2>2, <2>3, <2>4, <2>5, <2>6, <2>7
<1>2. ASSUME NEW o \in PresentGroups', NEW p \in PresentGroups',
             o # p, groups'[o].ou = groups'[p].ou, groups'[o].name = groups'[p].name
      PROVE  \/ Overlap(stamp[<<"group", o, "name">>], stamp[<<"group", p, "name">>])'
             \/ \E d : d = stamp'[<<"group", o, "name">>] /\ RestoresGroup(d, o)'
             \/ \E d : d = stamp'[<<"group", p, "name">>] /\ RestoresGroup(d, p)'
  <2> DEFINE x == <<"group", o, "name">>
             y == <<"group", p, "name">>
  <2>1. "name" \in GroupFields /\ "name" \in GroupFields \cup {"members", "removed"}
        /\ o \in Groups /\ p \in Groups
    BY DEF GroupFields, PresentGroups
  <2>2. \A g \in PresentGroups' :
           \/ /\ stamp'[<<"group", g, "name">>] = stamp[<<"group", g, "name">>]
              /\ g \in PresentGroups
              /\ groups'[g].ou = groups[g].ou /\ groups'[g].name = groups[g].name
           \/ /\ stamp'[<<"group", g, "name">>] = c
              /\ WritesGroup(c, g)
              /\ groups'[g] = NewGroup(c)
    BY <2>1, GroupsMove
  <2>3. x \in Facts /\ y \in Facts
    BY <2>1, FactsAre, Zenon
  <2>4. CASE /\ stamp'[x] = stamp[x] /\ o \in PresentGroups /\ groups'[o].ou = groups[o].ou
             /\ groups'[o].name = groups[o].name
             /\ stamp'[y] = stamp[y] /\ p \in PresentGroups /\ groups'[p].ou = groups[p].ou
             /\ groups'[p].name = groups[p].name
    <3>1. Overlap(stamp[x], stamp[y]) \/ RestoresGroup(stamp[x], o) \/ RestoresGroup(stamp[y], p)
      BY <1>2, <2>4 DEF NamesUnique
    <3> HIDE DEF x, y
    <3>2. CASE Overlap(stamp[x], stamp[y])
      <4>1. Overlap(stamp[x], stamp[y])'
        BY <2>3, <2>4, <3>2, SignaturesOverlap
      <4>. QED  BY <4>1 DEF x, y
    <3>3. CASE RestoresGroup(stamp[x], o)
      <4>1. stamp[x] # None
        BY <3>3 DEF RestoresGroup
      <4>2. stamp[x] \in Calls /\ pc[stamp[x]] # "idle"
        BY <2>3, <4>1, SignersEnded
      <4>3. \E d \in Calls : d = stamp[x] /\ pc[d] # "idle" /\ RestoresGroup(d, o)
        BY <3>3, <4>2
      <4>4. \E d : d = stamp'[x] /\ RestoresGroup(d, o)'
        BY <2>4, <4>3, RestoresStay
      <4>. QED  BY <4>4 DEF x
    <3>4. CASE RestoresGroup(stamp[y], p)
      <4>1. stamp[y] # None
        BY <3>4 DEF RestoresGroup
      <4>2. stamp[y] \in Calls /\ pc[stamp[y]] # "idle"
        BY <2>3, <4>1, SignersEnded
      <4>3. \E d \in Calls : d = stamp[y] /\ pc[d] # "idle" /\ RestoresGroup(d, p)
        BY <3>4, <4>2
      <4>4. \E d : d = stamp'[y] /\ RestoresGroup(d, p)'
        BY <2>4, <4>3, RestoresStay
      <4>. QED  BY <4>4 DEF y
    <3>. QED  BY <3>1, <3>2, <3>3, <3>4
  <2>5. ASSUME stamp'[x] = c, WritesGroup(c, o), groups'[o] = NewGroup(c),
               stamp'[y] = stamp[y], p \in PresentGroups, groups'[p].ou = groups[p].ou,
               groups'[p].name = groups[p].name
        PROVE  \/ Overlap(stamp[<<"group", o, "name">>], stamp[<<"group", p, "name">>])'
               \/ \E d : d = stamp'[<<"group", o, "name">>] /\ RestoresGroup(d, o)'
    <3>1. Since(<<"group", p, "name">>, c) \/ RestoresGroup(c, o)'
      BY <1>2, <2>5, GroupNameWritten
    <3>2. Ends(c)
      BY <2>5 DEF WritesGroup
    <3>3. CASE Since(<<"group", p, "name">>, c)
      <4> HIDE DEF x, y
      <4>0. Since(y, c)
        BY <3>3 DEF y
      <4>1. Overlap(stamp[x], stamp[y])'
        BY <2>3, <2>5, <3>2, <4>0, SignaturesOverlap
      <4>. QED  BY <4>1 DEF x, y
    <3>. QED  BY <2>5, <3>1, <3>3
  <2>6. ASSUME stamp'[y] = c, WritesGroup(c, p), groups'[p] = NewGroup(c),
               stamp'[x] = stamp[x], o \in PresentGroups, groups'[o].ou = groups[o].ou,
               groups'[o].name = groups[o].name
        PROVE  \/ Overlap(stamp[<<"group", o, "name">>], stamp[<<"group", p, "name">>])'
               \/ \E d : d = stamp'[<<"group", p, "name">>] /\ RestoresGroup(d, p)'
    <3>1. Since(<<"group", o, "name">>, c) \/ RestoresGroup(c, p)'
      BY <1>2, <2>6, GroupNameWritten
    <3>2. Ends(c)
      BY <2>6 DEF WritesGroup
    <3>3. CASE Since(<<"group", o, "name">>, c)
      <4> HIDE DEF x, y
      <4>0. Since(x, c)
        BY <3>3 DEF x
      <4>1. Overlap(stamp[x], stamp[y])'
        BY <2>3, <2>6, <3>2, <4>0, SignaturesOverlap
      <4>. QED  BY <4>1 DEF x, y
    <3>. QED  BY <2>6, <3>1, <3>3
  <2>7. ~(WritesGroup(c, o) /\ WritesGroup(c, p))
    BY <1>2 DEF WritesGroup
  <2>. QED  BY <2>2, <2>4, <2>5, <2>6, <2>7
<1>3. ASSUME NEW o \in PresentOUs', NEW p \in PresentOUs', NEW f \in {"name", "handle"},
             o # p, ous'[o].parent = ous'[p].parent, ous'[o][f] = ous'[p][f]
      PROVE  \/ Overlap(stamp[<<"ou", o, f>>], stamp[<<"ou", p, f>>])'
             \/ RestoresOU(stamp[<<"ou", o, f>>], o)' \/ RestoresOU(stamp[<<"ou", p, f>>], p)'
  <2>1. ASSUME NEW q, NEW d, d = stamp'[<<"ou", q, f>>], RestoresOU(d, q)'
        PROVE  RestoresOU(stamp[<<"ou", q, f>>], q)'
    BY <2>1 DEF RestoresOU, UpdatesOU, Overlap
  <2>. QED  BY <1>1, <1>3, <2>1
<1>4. ASSUME NEW o \in PresentGroups', NEW p \in PresentGroups',
             o # p, groups'[o].ou = groups'[p].ou, groups'[o].name = groups'[p].name
      PROVE  \/ Overlap(stamp[<<"group", o, "name">>], stamp[<<"group", p, "name">>])'
             \/ RestoresGroup(stamp[<<"group", o, "name">>], o)'
             \/ RestoresGroup(stamp[<<"group", p, "name">>], p)'
  <2>1. ASSUME NEW q, NEW d, d = stamp'[<<"group", q, "name">>], RestoresGroup(d, q)'
        PROVE  RestoresGroup(stamp[<<"group", q, "name">>], q)'
    BY <2>1 DEF RestoresGroup, UpdatesGroup, Overlap
  <2>. QED  BY <1>2, <1>4, <2>1
<1>. QED  BY <1>3, <1>4 DEF NamesUnique

-----------------------------------------------------------------------------
(* Cycles.                                                                 *)

\* The parents of organization units, by the fact that signs them.
LEMMA ParentsMove ==
    ASSUME Base, NEW c \in Calls, Moves(c), NEW o \in PresentOUs'
    PROVE  /\ <<"ou", o, "parent">> \in Facts
           /\ \/ /\ stamp'[<<"ou", o, "parent">>] = stamp[<<"ou", o, "parent">>]
                 /\ o \in PresentOUs /\ ous'[o].parent = ous[o].parent
              \/ /\ stamp'[<<"ou", o, "parent">>] = c /\ stamp[<<"ou", o, "parent">>] # c
                 /\ WritesOU(c, o) /\ ParentKey(c)
                 /\ ous'[o] = NewOU(c)
<1>1. "parent" \in OUFields
  BY DEF OUFields
<1>. QED  BY <1>1, OUFactsMove

\* The walk of checkCircularDependency does not leave a set that is closed
\* upwards without reading a parent that was changed since.
LEMMA CycleCheckedStays ==
    ASSUME Base, NEW c \in Calls, Moves(c), NEW d \in Calls, CycleChecked(d)
    PROVE  CycleChecked(d)'
<1> SUFFICES ASSUME pc'[d] \in {"circular", "name", "handle", "updateOU"}, arg'[d].op \in ChangesOU,
                    NEW S \in SUBSET OUs, arg'[d].parent \in S,
                    \A q \in S \ {local'[d].ou} : q \in PresentOUs' /\ ous'[q].parent \in S
             PROVE  \/ \E q \in S \ {local'[d].ou} : Since(<<"ou", q, "parent">>, d)'
                    \/ pc'[d] = "circular" /\ local'[d].walk \in S
  BY Zenon DEF CycleChecked
<1>1. CASE d # c
  <2>1. /\ pc'[d] = pc[d] /\ local'[d] = local[d] /\ arg'[d] = arg[d] /\ pc[d] # "idle"
    BY <1>1, MovesAlone
  <2>2. CASE \E q \in S \ {local'[d].ou} : stamp'[<<"ou", q, "parent">>] # stamp[<<"ou", q, "parent">>]
    <3>1. PICK q \in S \ {local'[d].ou} : stamp'[<<"ou", q, "parent">>] # stamp[<<"ou", q, "parent">>]
      BY <2>2
    <3>2. <<"ou", q, "parent">> \in Facts
      BY ParentsMove
    <3>3. Since(<<"ou", q, "parent">>, d)'
      BY <2>1, <3>1, <3>2, SinceStays
    <3>. QED  BY <3>3
  <2>3. CASE \A q \in S \ {local'[d].ou} : stamp'[<<"ou", q, "parent">>] = stamp[<<"ou", q, "parent">>]
    <3>1. \A q \in S \ {local[d].ou} : /\ q \in PresentOUs /\ ous[q].parent \in S
                                       /\ <<"ou", q, "parent">> \in Facts
      <4>1. ASSUME NEW q \in S \ {local[d].ou}
            PROVE  q \in PresentOUs /\ ous[q].parent \in S /\ <<"ou", q, "parent">> \in Facts
        <5>1. q \in PresentOUs' /\ ous'[q].parent \in S /\ stamp'[<<"ou", q, "parent">>] = stamp[<<"ou", q, "parent">>]
          BY <2>1, <2>3
        <5>. QED  BY <5>1, ParentsMove
      <4>. QED  BY <4>1
    <3>2. \/ \E q \in S \ {local[d].ou} : Since(<<"ou", q, "parent">>, d)
          \/ pc[d] = "circular" /\ local[d].walk \in S
      BY <2>1, <3>1 DEF CycleChecked
    <3>3. ASSUME NEW q \in S \ {local[d].ou}, Since(<<"ou", q, "parent">>, d)
          PROVE  Since(<<"ou", q, "parent">>, d)'
      BY <2>1, <3>1, <3>3, SinceStays
    <3>. QED  BY <2>1, <3>2, <3>3
  <2>. QED  BY <2>2, <2>3
<1>2. CASE d = c
  <2>1. pc'[c] \in Steps /\ ~FirstStep(c) /\ pc'[c] \notin Answers
    BY <1>2, SMT DEF Steps, FirstStep, Answers
  <2>2. Looks(c) /\ ComesFrom(c) /\ arg'[c] = arg[c] /\ pc[c] # "idle" /\ ous' = ous
        /\ stamp' = stamp /\ before' = before
    <3>1. Looks(c) /\ ComesFrom(c)
      BY <1>2, <2>1, Arrives
    <3>. QED  BY <3>1, SMT DEF Looks, Steps, tables
  <2>3. PresentOUs' = PresentOUs /\ arg[c].op \in ChangesOU /\ arg[c].op # "createOU"
    BY <1>2, <2>2, SMT DEF PresentOUs, ChangesOU
  <2>4. /\ local'[c].ou = local[c].ou
        /\ \/ pc'[c] = "circular" /\ local'[c].walk = arg[c].parent
           \/ /\ pc[c] = "circular" /\ pc'[c] = "circular"
              /\ local[c].walk \in PresentOUs /\ local[c].walk # local[c].ou
              /\ local'[c].walk = ous[local[c].walk].parent
           \/ /\ pc[c] = "circular" /\ pc'[c] = "name"
              /\ local[c].walk \notin PresentOUs /\ local[c].walk # local[c].ou
           \/ pc[c] \in {"name", "handle"} /\ pc'[c] # "circular"
    BY <1>2, <2>2, <2>3, OUStepsKeep, SMT
  <2>5. CASE pc'[c] = "circular" /\ local'[c].walk = arg[c].parent
    BY <1>2, <2>2, <2>5
  <2>6. CASE pc[c] \in {"circular", "name", "handle"}
    <3>1. \/ \E q \in S \ {local[c].ou} : Since(<<"ou", q, "parent">>, c)
          \/ pc[c] = "circular" /\ local[c].walk \in S
      BY <1>2, <2>2, <2>3, <2>4, <2>6 DEF CycleChecked
    <3>2. CASE \E q \in S \ {local[c].ou} : Since(<<"ou", q, "parent">>, c)
      BY <1>2, <2>2, <2>4, <3>2 DEF Since
    <3>3. CASE pc[c] = "circular" /\ local[c].walk \in S
      BY <1>2, <2>2, <2>3, <2>4, <3>3
    <3>. QED  BY <3>1, <3>2, <3>3
  <2>. QED  BY <2>4, <2>5, <2>6
<1>. QED  BY <1>1, <1>2

\* NoCycleAlone: the call that closes a cycle has walked up from its end, and
\* others changed the way.
LEMMA NoCycleAloneStays ==
    ASSUME Base, NewRows, ParentsThere, NoCycleAlone, NEW c \in Calls, Moves(c), CycleChecked(c)
    PROVE  NoCycleAlone'
<1> SUFFICES ASSUME NEW S \in SUBSET PresentOUs', S # {}, \A o \in S : ous'[o].parent \in S
             PROVE  \E o, p \in S :
                       Overlap(stamp[<<"ou", o, "parent">>], stamp[<<"ou", p, "parent">>])'
  BY DEF NoCycleAlone
<1> DEFINE F(o) == <<"ou", o, "parent">>
<1>0. \A o \in S : F(o) \in Facts
  BY ParentsMove
<1>1. ASSUME NEW T \in SUBSET S, T # {}, \A o \in T : stamp'[F(o)] = stamp[F(o)],
             \A o \in T : o \in PresentOUs /\ ous[o].parent \in T
      PROVE  \E o, p \in S : Overlap(stamp[F(o)], stamp[F(p)])'
  <2>1. PICK o \in T, p \in T : Overlap(stamp[F(o)], stamp[F(p)])
    <3>1. T \in SUBSET PresentOUs
      BY <1>1
    <3>. QED  BY <1>1, <3>1 DEF NoCycleAlone
  <2>2. F(o) \in Facts /\ F(p) \in Facts /\ stamp'[F(o)] = stamp[F(o)] /\ stamp'[F(p)] = stamp[F(p)]
    BY <1>0, <1>1
  <2>3. \A x, y \in Facts : /\ stamp'[x] = stamp[x] /\ stamp'[y] = stamp[y]
                            /\ Overlap(stamp[x], stamp[y])
                            => Overlap(stamp[x], stamp[y])'
    BY SignaturesOverlap
  <2>4. Overlap(stamp[F(o)], stamp[F(p)])'
    <3> HIDE DEF F
    <3>. QED  BY <2>1, <2>2, <2>3
  <2>. QED  BY <2>4
<1>2. CASE \A o \in S : stamp'[F(o)] = stamp[F(o)]
  <2>1. \A o \in S : o \in PresentOUs /\ ous[o].parent \in S
    <3>1. ASSUME NEW o \in S PROVE o \in PresentOUs /\ ous[o].parent \in S
      <4>1. stamp'[F(o)] = stamp[F(o)] /\ ous'[o].parent \in S
        BY <1>2
      <4>. QED  BY <4>1, ParentsMove
    <3>. QED  BY <3>1
  <2>. QED  BY <1>1, <1>2, <2>1
<1>3. ASSUME NEW o \in S, stamp'[F(o)] # stamp[F(o)]
      PROVE  \E x, y \in S : Overlap(stamp[F(x)], stamp[F(y)])'
  <2>1. stamp'[F(o)] = c /\ WritesOU(c, o) /\ ParentKey(c) /\ ous'[o].parent = arg[c].parent
    <3>1. NewOU(c).parent = arg[c].parent
      BY DEF NewOU
    <3>. QED  BY <1>3, <3>1, ParentsMove
  <2>2. arg[c].parent \in S /\ arg[c].parent \in PresentOUs
    <3>1. None \notin PresentOUs'
      BY NoneAssumption DEF PresentOUs
    <3>2. arg[c].parent \in S
      BY <2>1
    <3>. QED  BY <2>1, <3>1, <3>2 DEF ParentKey
  <2>3. \A q \in S \ {o} :
           stamp'[F(q)] = stamp[F(q)] /\ q \in PresentOUs /\ ous[q].parent = ous'[q].parent
    <3>1. ASSUME NEW q \in S \ {o}
          PROVE  stamp'[F(q)] = stamp[F(q)] /\ q \in PresentOUs /\ ous[q].parent = ous'[q].parent
      <4>1. ~WritesOU(c, q)
        BY <2>1 DEF WritesOU
      <4>. QED  BY <4>1, ParentsMove
    <3>. QED  BY <3>1
  <2>4. CASE pc[c] = "insertOU"
    <3>1. o = c /\ c \notin PresentOUs
      <4>1. o = c
        BY <2>1, <2>4 DEF WritesOU
      <4>2. ~Ended(c)
        BY MovesAlone
      <4>. QED  BY <4>1, <4>2 DEF NewRows, PresentOUs
    <3>2. c # None
      BY NoneAssumption
    <3>3. \A q \in S \ {o} : q \in PresentOUs /\ ous[q].parent \in S \ {o}
      <4>1. ASSUME NEW q \in S \ {o} PROVE q \in PresentOUs /\ ous[q].parent \in S \ {o}
        <5>1. q \in PresentOUs /\ ous[q].parent \in S
          BY <2>3
        <5>2. ous[q].parent # c
          BY <3>1, <3>2, <5>1 DEF ParentsThere
        <5>. QED  BY <3>1, <5>1, <5>2
      <4>. QED  BY <4>1
    <3>4. arg[c].parent \in S \ {o}
      BY <2>2, <3>1
    <3> DEFINE T == S \ {o}
    <3>5. T \in SUBSET S /\ T # {} /\ \A q \in T : stamp'[F(q)] = stamp[F(q)]
      BY <2>3, <3>4
    <3>6. \A q \in T : q \in PresentOUs /\ ous[q].parent \in T
      BY <3>3
    <3> HIDE DEF T, F
    <3>. QED  BY <1>1, <3>5, <3>6
  <2>5. CASE pc[c] = "updateOU"
    <3>1. o = local[c].ou /\ Ends(c) /\ arg[c].op \in ChangesOU
      BY <2>1, <2>5 DEF WritesOU, Base, Course
    <3>2. S \in SUBSET OUs
      BY DEF PresentOUs
    <3>3. \A q \in S \ {local[c].ou} : q \in PresentOUs /\ ous[q].parent \in S
      BY <2>3, <3>1
    <3>4. PICK q \in S \ {local[c].ou} : Since(F(q), c)
      BY <2>2, <2>5, <3>1, <3>2, <3>3 DEF CycleChecked
    <3>5. F(o) \in Facts /\ F(q) \in Facts /\ stamp'[F(q)] = stamp[F(q)]
      BY <1>0, <2>3, <3>1, <3>4
    <3>6. \A x, y \in Facts : stamp'[x] = c /\ stamp'[y] = stamp[y] /\ Since(y, c)
                              => Overlap(stamp[x], stamp[y])'
      BY <3>1, SignaturesOverlap
    <3>7. Overlap(stamp[F(o)], stamp[F(q)])'
      <4> HIDE DEF F
      <4>. QED  BY <2>1, <3>4, <3>5, <3>6
    <3>. QED  BY <3>7
  <2>. QED  BY <2>1, <2>4, <2>5 DEF WritesOU
<1>. QED  BY <1>2, <1>3

-----------------------------------------------------------------------------
(* Assignments.                                                            *)

\* An assignment of a role that is going to be deleted was made since the
\* deletion asked for it.
LEMMA AssignmentsCountedStays ==
    ASSUME Base, NEW c \in Calls, Moves(c), NEW d \in Calls, AssignmentsCounted(d)
    PROVE  AssignmentsCounted(d)'
<1> SUFFICES ASSUME pc'[d] = "deleteRole",
                    NEW r \in PresentRoles', r = arg'[d].role, NEW p \in roles'[r].assigned
             PROVE  Since(<<"assigned", r, p>>, d)'
  <2>1. ASSUME pc'[d] = "deleteRole", arg'[d].role \in PresentRoles', NEW p \in roles'[arg'[d].role].assigned
        PROVE  stamp'[<<"assigned", arg'[d].role, p>>] # None
               /\ stamp'[<<"assigned", arg'[d].role, p>>] \notin before'[d]
    <3>1. PICK r \in PresentRoles' : r = arg'[d].role
      BY <2>1
    <3>2. Since(<<"assigned", r, p>>, d)'
      BY <2>1, <3>1
    <3>. QED  BY <3>1, <3>2 DEF Since
  <2>. QED  BY <2>1 DEF AssignmentsCounted, Since
<1>1. CASE d # c
  <2>1. /\ pc'[d] = pc[d] /\ arg'[d] = arg[d] /\ pc[d] # "idle"
    BY <1>1, MovesAlone
  <2>2. \/ /\ stamp'[<<"assigned", r, p>>] = stamp[<<"assigned", r, p>>]
           /\ r \in PresentRoles /\ p \in roles[r].assigned
        \/ stamp'[<<"assigned", r, p>>] = c /\ stamp[<<"assigned", r, p>>] # c
    BY RolesMove
  <2>3. <<"assigned", r, p>> \in Facts
    <3>1. TypeOK'
      BY BaseStays DEF Base
    <3>2. roles' \in [Roles -> RoleRows \cup {None}] /\ r \in Roles /\ roles'[r] # None
      BY <3>1, SMT DEF TypeOK, Tables, PresentRoles
    <3>3. p \in Principals
      BY <3>2, SMT DEF RoleRows
    <3>. QED  BY <3>2, <3>3, FactsAre
  <2>4. CASE stamp'[<<"assigned", r, p>>] = stamp[<<"assigned", r, p>>]
    <3>1. r \in PresentRoles /\ p \in roles[r].assigned
      BY <2>2, <2>4
    <3>2. Since(<<"assigned", r, p>>, d)
      BY <2>1, <3>1 DEF AssignmentsCounted
    <3>. QED  BY <2>1, <2>3, <3>2, SinceStays
  <2>5. CASE stamp'[<<"assigned", r, p>>] # stamp[<<"assigned", r, p>>]
    BY <2>1, <2>3, <2>5, SinceStays
  <2>. QED  BY <2>4, <2>5
<1>2. CASE d = c
  <2>1. pc'[c] \in Steps /\ ~FirstStep(c) /\ pc'[c] \notin Answers
    BY <1>2, SMT DEF Steps, FirstStep, Answers
  <2>2. Looks(c) /\ ComesFrom(c)
    BY <1>2, <2>1, Arrives
  <2>3. roles' = roles /\ arg' = arg /\ RoleUnassigned(c)
    BY <1>2, <2>2 DEF Looks, ComesFrom, tables
  <2> DEFINE holds == arg[c].role \in PresentRoles => roles[arg[c].role].assigned = {}
  <2>4. Check(c, holds, "refused", "deleteRole") /\ "refused" \in Answers
    BY <2>3 DEF RoleUnassigned, Answers
  <2> HIDE DEF holds
  <2>5. holds
    BY <2>1, <2>4, CheckLeadsOn
  <2>6. r \in PresentRoles => roles[r].assigned = {}
    BY <1>2, <2>3, <2>5 DEF holds
  <2>. QED  BY <2>3, <2>6 DEF PresentRoles
<1>. QED  BY <1>1, <1>2

-----------------------------------------------------------------------------
(* The organization unit of a user type.                                   *)

\* While no call changes the hierarchy or the types, they stay.
LEMMA NobodyChanges ==
    ASSUME Base, NEW c \in Calls, Moves(c), NEW d \in Calls, pc[d] # "idle", NoChange(d)'
    PROVE  NoChange(d) /\ ous' = ous /\ schemas' = schemas
<1>1. /\ before'[d] = before[d] /\ c \notin before[d] /\ pc'[c] # "idle"
      /\ \A x \in Calls : pc[x] # "idle" => pc'[x] # "idle" /\ arg'[x] = arg[x]
  <2>1. ~Ended(c) /\ pc'[c] # "idle"
    BY MovesAlone
  <2>2. c \notin before[d]
    BY <2>1 DEF Base, HistoryOK
  <2>3. \A x \in Calls : pc[x] # "idle" => pc'[x] # "idle" /\ arg'[x] = arg[x]
    BY <2>1, MovesAlone
  <2>4. before'[d] = before[d]
    BY MovesAlone
  <2>. QED  BY <2>1, <2>2, <2>3, <2>4
<1>2. \A x \in Calls \ before[d] : pc'[x] = "idle" \/ arg'[x].op \notin HierarchyChanges
  BY <1>1 DEF NoChange
<1>3. NoChange(d)
  BY <1>1, <1>2 DEF NoChange
<1>4. pc[c] # "idle" => arg[c].op \notin HierarchyChanges
  BY <1>1, <1>2
<1>5. pc[c] \notin {"insertOU", "updateOU", "deleteOU", "insertSchema", "updateSchema", "deleteSchema"}
  <2>1. Course(c)
    BY DEF Base
  <2>. QED  BY <1>4, <2>1, SMT DEF Course, ChangesOU, HierarchyChanges
<1>6. ous' = ous
  BY <1>5, MovesChange DEF OUsSame, OUsChange, OUInserted, OUWritten, OURemoved
<1>7. schemas' = schemas
  BY <1>5, MovesChange DEF SchemasSame, SchemasChange, SchemaWritten, SchemaRemoved
<1>. QED  BY <1>3, <1>6, <1>7

\* What SchemaOfType and IsParent lead to.
LEMMA TypeStepsAre ==
    ASSUME Base, NEW c \in Calls, Looks(c), ComesFrom(c), pc'[c] \in {"isParent", "validate"}, ~GetUser(c)
    PROVE  \/ /\ pc[c] = "schema" /\ local'[c].ou = local[c].ou /\ local'[c].walk = local[c].ou
              /\ \E s \in PresentSchemas :
                    /\ schemas[s].name = arg[c].type /\ local'[c].row = schemas[s].ou
                    /\ pc'[c] = "validate" => schemas[s].ou = local[c].ou
           \/ /\ pc[c] = "isParent" /\ pc'[c] = "isParent"
              /\ local'[c].ou = local[c].ou /\ local'[c].row = local[c].row
              /\ local[c].walk \in PresentOUs /\ local'[c].walk = ous[local[c].walk].parent
           \/ /\ pc[c] = "isParent" /\ pc'[c] = "validate" /\ local'[c] = local[c]
              /\ local[c].walk = local[c].row
<1>1. DOMAIN pc = Calls /\ DOMAIN local = Calls /\ DOMAIN local[c] = {"ou", "path", "walk", "row"}
      /\ pc'[c] \notin Answers
  BY SMT DEF Base, TypeOK, Answers
<1>2. CASE SchemaOfType(c)
  <2>1. pc[c] = "schema"
    BY <1>2 DEF SchemaOfType
  <2>2. Answer(c, "refused") => pc'[c] = "refused"
    BY <1>1, SMT DEF Answer, Goto
  <2>3. PICK s \in PresentSchemas :
           /\ schemas[s].name = arg[c].type
           /\ Goto(c, IF schemas[s].ou = local[c].ou THEN "validate" ELSE "isParent")
           /\ Keep(c, [local[c] EXCEPT !.walk = local[c].ou, !.row = schemas[s].ou])
    BY <1>1, <1>2, <2>2 DEF SchemaOfType, Answers
  <2>4. local'[c] = [local[c] EXCEPT !.walk = local[c].ou, !.row = schemas[s].ou]
    BY <1>1, <2>3, SMT DEF Keep
  <2>5. local'[c].ou = local[c].ou /\ local'[c].walk = local[c].ou /\ local'[c].row = schemas[s].ou
    BY <1>1, <2>4, SMT
  <2>6. pc'[c] = IF schemas[s].ou = local[c].ou THEN "validate" ELSE "isParent"
    BY <1>1, <2>3, SMT DEF Goto
  <2>. QED  BY <2>1, <2>3, <2>5, <2>6
<1>3. CASE IsParent(c)
  <2>1. pc[c] = "isParent"
    BY <1>3 DEF IsParent
  <2>2. CASE local[c].walk \in PresentOUs /\ local[c].walk # local[c].row
    <3>1. Keep(c, [local[c] EXCEPT !.walk = ous[local[c].walk].parent]) /\ pc' = pc
      BY <1>3, <2>2 DEF IsParent
    <3>2. local'[c] = [local[c] EXCEPT !.walk = ous[local[c].walk].parent]
      BY <1>1, <3>1, SMT DEF Keep
    <3>3. /\ local'[c].walk = ous[local[c].walk].parent
          /\ local'[c].ou = local[c].ou /\ local'[c].row = local[c].row
      BY <1>1, <3>2, SMT
    <3>. QED  BY <2>1, <2>2, <3>1, <3>3, Zenon
  <2>3. CASE ~(local[c].walk \in PresentOUs /\ local[c].walk # local[c].row)
    <3> DEFINE holds == local[c].walk = local[c].row
    <3>1. Check(c, holds, "refused", "validate") /\ "refused" \in Answers
      BY <1>3, <2>3 DEF IsParent, Answers
    <3> HIDE DEF holds
    <3>2. holds /\ pc'[c] = "validate" /\ local'[c] = local[c]
      BY <1>1, <3>1, CheckLeadsOn
    <3>. QED  BY <2>1, <3>2 DEF holds
  <2>. QED  BY <2>2, <2>3
<1>. QED  BY <1>2, <1>3 DEF ComesFrom

\* The organization unit of a user is below that of its type.
LEMMA HierarchyReadStays ==
    ASSUME Base, NEW c \in Calls, Moves(c), NEW d \in Calls, HierarchyRead(d)
    PROVE  HierarchyRead(d)'
<1> DEFINE At == {"schema", "isParent", "validate", "unique", "insertUser", "updateUser"}
           Below(e) == \E s \in PresentSchemas :
                          schemas[s].name = arg[e].type /\ local[e].ou \in Subtree(schemas[s].ou)
           Found(e) == \E s \in PresentSchemas :
                          schemas[s].name = arg[e].type /\ schemas[s].ou = local[e].row
           Climbs(e) == \A S \in SUBSET OUs :
                           /\ local[e].row \in S
                           /\ \A q \in PresentOUs : ous[q].parent \in S => q \in S
                           /\ local[e].walk \in S
                           => local[e].ou \in S
<1> SUFFICES ASSUME NoChange(d)', pc'[d] \in At
             PROVE  /\ arg'[d].op # "updateUserAttributes" => local'[d].ou \in PresentOUs'
                    /\ pc'[d] = "isParent" => Found(d)' /\ Climbs(d)'
                    /\ pc'[d] \in {"validate", "unique", "insertUser", "updateUser"}
                       /\ arg'[d].op # "updateUserAttributes" => Below(d)'
  BY SMT DEF HierarchyRead
<1>1. CASE d # c
  <2>1. pc'[d] = pc[d] /\ local'[d] = local[d] /\ arg'[d] = arg[d] /\ pc[d] # "idle"
    BY <1>1, MovesAlone
  <2>2. NoChange(d) /\ ous' = ous /\ schemas' = schemas
    BY <2>1, NobodyChanges
  <2>3. /\ arg[d].op # "updateUserAttributes" => local[d].ou \in PresentOUs
        /\ pc[d] = "isParent" => Found(d) /\ Climbs(d)
        /\ pc[d] \in {"validate", "unique", "insertUser", "updateUser"}
           /\ arg[d].op # "updateUserAttributes" => Below(d)
    BY <2>1, <2>2 DEF HierarchyRead
  <2>4. PresentOUs' = PresentOUs /\ PresentSchemas' = PresentSchemas
        /\ \A o : Subtree(o)' = Subtree(o)
    BY <2>2 DEF PresentOUs, PresentSchemas, Subtree
  <2>5. Found(d) => Found(d)'
    BY <2>1, <2>2, <2>4
  <2>6. Climbs(d) => Climbs(d)'
    BY <2>1, <2>2, <2>4
  <2>7. Below(d) => Below(d)'
    BY <2>1, <2>2 DEF PresentOUs, PresentSchemas, Subtree
  <2>. QED  BY <2>1, <2>3, <2>4, <2>5, <2>6, <2>7
<1>2. CASE d = c
  <2>1. pc'[c] \in Steps /\ ~FirstStep(c) /\ pc'[c] \notin Answers
    BY <1>2, SMT DEF Steps, FirstStep, Answers
  <2>2. Looks(c) /\ ComesFrom(c) /\ arg'[c] = arg[c] /\ pc[c] # "idle"
        /\ Course(c)' /\ Course(c) /\ arg[c].op = arg'[c].op
    <3>1. Looks(c) /\ ComesFrom(c)
      BY <1>2, <2>1, Arrives
    <3>2. Course(c)'
      BY BaseStays DEF Base
    <3>. QED  BY <3>1, <3>2, SMT DEF Looks, Steps, Base
  <2>3. NoChange(c) /\ ous' = ous /\ schemas' = schemas
    BY <1>2, <2>2, NobodyChanges
  <2>4. PresentOUs' = PresentOUs /\ PresentSchemas' = PresentSchemas
    BY <2>3 DEF PresentOUs, PresentSchemas
  <2>5. CASE GetUser(c)
    <3>1. arg[c].op = "updateUserAttributes" /\ pc[c] = "getUser"
      BY <2>2, <2>5 DEF Course, GetUser
    <3>2. pc'[c] # "isParent"
      BY <2>2, <3>1, SMT DEF Course, CreatesUser
    <3>. QED  BY <1>2, <2>2, <3>1, <3>2
  <2>6. CASE pc'[c] = "schema"
    <3>1. OUExists(c) /\ local[c].ou \in PresentOUs /\ local'[c] = local[c]
      <4>1. OUExists(c)
        BY <2>2, <2>6 DEF ComesFrom
      <4> DEFINE holds == local[c].ou \in PresentOUs
                 next == IF arg[c].op = "deleteOU" THEN "children" ELSE "schema"
      <4>2. Check(c, holds, "refused", next) /\ "refused" \in Answers
        BY <4>1 DEF OUExists, Answers
      <4> HIDE DEF holds, next
      <4>3. holds /\ local'[c] = local[c]
        BY <2>1, <4>2, CheckLeadsOn
      <4>. QED  BY <4>1, <4>3 DEF holds
    <3>. QED  BY <1>2, <2>4, <2>6, <3>1
  <2>7. CASE pc'[c] \in {"isParent", "validate"} /\ ~GetUser(c)
    <3>0. /\ arg[c].op # "updateUserAttributes"
          /\ pc[c] \in {"schema", "isParent"} /\ local'[c].ou = local[c].ou
      <4>1. pc[c] \in {"schema", "isParent"} /\ local'[c].ou = local[c].ou
        BY <2>2, <2>7, TypeStepsAre
      <4>2. arg[c].op \in {"updateUser"} \cup CreatesUser
        BY <2>2, <4>1, SMT DEF Course
      <4>. QED  BY <4>1, <4>2 DEF CreatesUser
    <3>1. local[c].ou \in PresentOUs /\ local'[c].ou \in PresentOUs'
      BY <1>2, <2>3, <2>4, <3>0 DEF HierarchyRead
    <3>2. CASE /\ pc[c] = "schema" /\ local'[c].ou = local[c].ou /\ local'[c].walk = local[c].ou
               /\ \E s \in PresentSchemas :
                     /\ schemas[s].name = arg[c].type /\ local'[c].row = schemas[s].ou
                     /\ pc'[c] = "validate" => schemas[s].ou = local[c].ou
      <4>1. PICK s \in PresentSchemas :
               /\ schemas[s].name = arg[c].type /\ local'[c].row = schemas[s].ou
               /\ pc'[c] = "validate" => schemas[s].ou = local[c].ou
        BY <3>2
      <4>2. Found(c)'
        BY <2>2, <2>3, <2>4, <4>1
      <4>3. Climbs(c)'
        BY <3>2
      <4>4. ASSUME pc'[c] = "validate" PROVE Below(c)'
        <5>1. schemas[s].ou = local[c].ou /\ local[c].ou \in OUs
          BY <3>1, <4>1, <4>4 DEF PresentOUs
        <5>2. local[c].ou \in Subtree(schemas[s].ou)
          BY <3>1, <5>1, SubtreeClosed
        <5>3. local'[c].ou = local[c].ou
          BY <3>0
        <5>. QED  BY <2>2, <2>3, <4>1, <5>2, <5>3 DEF PresentOUs, PresentSchemas, Subtree
      <4>. QED  BY <1>2, <2>7, <3>1, <4>2, <4>3, <4>4
    <3>3. CASE /\ pc[c] = "isParent" /\ pc'[c] = "isParent"
               /\ local'[c].ou = local[c].ou /\ local'[c].row = local[c].row
               /\ local[c].walk \in PresentOUs /\ local'[c].walk = ous[local[c].walk].parent
      <4>1. Found(c) /\ Climbs(c)
        BY <1>2, <2>3, <3>3 DEF HierarchyRead
      <4>2. Found(c)'
        BY <2>2, <2>3, <2>4, <3>3, <4>1
      <4>3. Climbs(c)'
        BY <2>3, <2>4, <3>3, <4>1
      <4>. QED  BY <1>2, <3>1, <3>3, <4>2, <4>3
    <3>4. CASE /\ pc[c] = "isParent" /\ pc'[c] = "validate" /\ local'[c] = local[c]
               /\ local[c].walk = local[c].row
      <4>1. Found(c) /\ Climbs(c)
        BY <1>2, <2>3, <3>4 DEF HierarchyRead
      <4>2. PICK s \in PresentSchemas : schemas[s].name = arg[c].type /\ schemas[s].ou = local[c].row
        BY <4>1
      <4>3. local[c].ou \in Subtree(schemas[s].ou)
        BY <3>1, <3>4, <4>1, <4>2 DEF Subtree
      <4>4. Below(c)'
        BY <2>2, <2>3, <3>4, <4>2, <4>3 DEF PresentOUs, PresentSchemas, Subtree
      <4>. QED  BY <1>2, <3>1, <3>4, <4>4
    <3>. QED  BY <2>2, <2>7, <3>2, <3>3, <3>4, TypeStepsAre
  <2>8. CASE pc'[c] \in {"unique", "insertUser", "updateUser"} /\ ~GetUser(c)
    <3>1. pc[c] \in {"validate", "unique"} /\ local'[c] = local[c]
      <4>1. /\ pc[c] \in {"schema", "isParent", "validate", "unique"}
            /\ pc[c] \in {"validate", "unique"} => local'[c] = local[c]
        BY <2>2, <2>8, UserStepsKeep
      <4>2. pc[c] \in {"validate", "unique"}
        BY <2>2, <2>8 DEF ComesFrom, ValidateUser, ValidateUserUniqueness
      <4>. QED  BY <4>1, <4>2
    <3>2. arg[c].op # "updateUserAttributes" => local[c].ou \in PresentOUs /\ Below(c)
      BY <1>2, <2>3, <3>1 DEF HierarchyRead
    <3>3. Below(c) => Below(c)'
      BY <2>2, <2>3, <3>1 DEF PresentOUs, PresentSchemas, Subtree
    <3>. QED  BY <1>2, <2>2, <2>4, <2>8, <3>1, <3>2, <3>3
  <2>. QED  BY <1>2, <2>5, <2>6, <2>7, <2>8
<1>. QED  BY <1>1, <1>2

-----------------------------------------------------------------------------
(* The inductive invariant.                                                *)

IInv ==
    /\ Base /\ NewRows /\ ParentsThere
    /\ \A c \in Calls : Rules(c)
    /\ NamesUnique /\ AttributesUnique /\ NoCycleAlone
    /\ ResidentsHoused /\ NobodyGoneIsAdded /\ CredentialsKept

\* The calls begin from tables of which all of it is true.
LEMMA InvariantInit == Init => IInv
<1> SUFFICES ASSUME Init PROVE IInv
  OBVIOUS
<1>1. PICK t \in InitialTables : /\ ous = t.ous /\ users = t.users /\ groups = t.groups
                                 /\ roles = t.roles /\ schemas = t.schemas
  BY DEF Init
<1>2. t \in Tables /\ Consistent(t) /\ UUIDsAreNew(t)
  BY TablesAssumption
<1>3. \A c \in Calls : pc[c] = "idle" /\ arg[c] = None /\ local[c] = NoLocal /\ before[c] = {}
  BY SMT DEF Init
<1>4. \A f \in Facts : stamp[f] = None
  BY SMT DEF Init
<1>5. /\ ous \in [OUs -> OURows \cup {None}] /\ users \in [Users -> UserRows \cup {None}]
      /\ groups \in [Groups -> GroupRows \cup {None}] /\ roles \in [Roles -> RoleRows \cup {None}]
      /\ schemas \in [Schemas -> SchemaRows \cup {None}]
  BY <1>1, <1>2, SMT DEF Tables
<1>6. Base
  <2>1. [ous |-> ous, users |-> users, groups |-> groups, roles |-> roles, schemas |-> schemas]
           \in Tables
    BY <1>5, SMT DEF Tables
  <2>2. DOMAIN local = Calls /\ \A c \in Calls : DOMAIN local[c] = {"ou", "path", "walk", "row"}
    BY <1>3, SMT DEF Init, NoLocal
  <2>3. /\ pc \in [Calls -> {"idle"} \cup Steps \cup Answers]
        /\ arg \in [Calls -> Requests \cup {None}]
        /\ before \in [Calls -> SUBSET Calls]
        /\ stamp \in [Facts -> Calls \cup {None}]
    BY SMT DEF Init
  <2>4. TypeOK
    BY <2>1, <2>2, <2>3 DEF TypeOK
  <2>5. ASSUME NEW c \in Calls PROVE Course(c) /\ LocalOK(c)
    <3>1. pc[c] = "idle" /\ arg[c] = None
      BY <1>3
    <3>2. Course(c)
      BY <3>1, SMT DEF Course
    <3>3. LocalOK(c)
      BY <2>2, <3>1, SMT DEF LocalOK, Running
    <3>. QED  BY <3>2, <3>3
  <2>6. HistoryOK
    BY <1>3, <1>4 DEF HistoryOK
  <2>. QED  BY <2>2, <2>4, <2>5, <2>6 DEF Base
<1>7. /\ PresentOUs = {i \in DOMAIN t.ous : t.ous[i] # None}
      /\ PresentUsers = {i \in DOMAIN t.users : t.users[i] # None}
      /\ PresentGroups = {i \in DOMAIN t.groups : t.groups[i] # None}
      /\ PresentRoles = {i \in DOMAIN t.roles : t.roles[i] # None}
      /\ PresentSchemas = {i \in DOMAIN t.schemas : t.schemas[i] # None}
  <2>1. DOMAIN ous = OUs /\ DOMAIN users = Users /\ DOMAIN groups = Groups
        /\ DOMAIN roles = Roles /\ DOMAIN schemas = Schemas
    BY <1>5
  <2>. QED  BY <1>1, <2>1 DEF PresentOUs, PresentUsers, PresentGroups, PresentRoles, PresentSchemas
<1>8. NewRows
  <2>1. \A o \in OUs : <<"ou", o, "removed">> \in Facts
    BY FactsAre, SMT
  <2>2. \A c \in Calls : c \in OUs
    BY DEF OUs
  <2>. QED  BY <1>1, <1>2, <1>4, <2>1, <2>2 DEF NewRows, UUIDsAreNew
<1>9. ParentsThere
  BY <1>1, <1>2, <1>7 DEF ParentsThere, Consistent
<1>10. ASSUME NEW c \in Calls PROVE Rules(c)
  <2>1. pc[c] = "idle" /\ arg[c] = None
    BY <1>3
  <2>2. /\ AttrChecked(c) /\ OURowRead(c) /\ OUNameChecked(c) /\ OUHandleChecked(c) /\ CycleChecked(c)
        /\ ChildrenCounted(c) /\ UserOUChecked(c)
    BY <2>1, Zenon DEF AttrChecked, OURowRead, OUNameChecked, OUHandleChecked, CycleChecked,
       ChildrenCounted, UserOUChecked
  <2>3. /\ UserRowRead(c) /\ GroupRowRead(c) /\ GroupOUChecked(c) /\ GroupNameChecked(c)
        /\ PrincipalsChecked(c) /\ RoleOUChecked(c) /\ TypeChecked(c)
    BY <2>1, Zenon DEF UserRowRead, GroupRowRead, GroupOUChecked, GroupNameChecked,
       PrincipalsChecked, RoleOUChecked, TypeChecked
  <2>4. AssignmentsCounted(c) /\ CredentialsRead(c) /\ CredentialHolder(c) /\ HierarchyRead(c)
    BY <2>1, Zenon DEF AssignmentsCounted, CredentialsRead, CredentialHolder, HierarchyRead
  <2>. QED  BY <2>2, <2>3, <2>4 DEF Rules
<1>11. NamesUnique
  BY <1>1, <1>2, <1>7 DEF NamesUnique, Consistent
<1>12. AttributesUnique
  BY <1>1, <1>2, <1>7 DEF AttributesUnique, Consistent
<1>13. NoCycleAlone
  BY <1>1, <1>2, <1>7 DEF NoCycleAlone, Consistent
<1>14. ResidentsHoused
  BY <1>1, <1>2, <1>7 DEF ResidentsHoused, Consistent
<1>15. NobodyGoneIsAdded
  <2>1. /\ \A g \in PresentGroups : \A p \in groups[g].members :
              p[2] \in (IF p[1] = "user" THEN PresentUsers ELSE PresentGroups)
        /\ \A r \in PresentRoles : \A p \in roles[r].assigned :
              p[2] \in (IF p[1] = "user" THEN PresentUsers ELSE PresentGroups)
    BY <1>1, <1>2, <1>7 DEF Consistent
  <2>2. \A r \in PresentRoles : roles[r].ou \in PresentOUs
    BY <1>1, <1>2, <1>7 DEF Consistent
  <2>3. \A u \in PresentUsers : users[u].type \in SchemaNames
    BY <1>1, <1>2, <1>7 DEF Consistent, SchemaNames
  <2>. QED  BY <2>1, <2>2, <2>3 DEF NobodyGoneIsAdded
<1>16. CredentialsKept
  BY <1>3 DEF CredentialsKept
<1>. QED  BY <1>6, <1>8, <1>9, <1>10, <1>11, <1>12, <1>13, <1>14, <1>15, <1>16 DEF IInv

\* What a call knows of its checks stays true whichever call moves.
LEMMA RulesStay ==
    ASSUME IInv, NEW c \in Calls, Moves(c), NEW d \in Calls
    PROVE  Rules(d)'
<1>1. Base /\ NewRows /\ CredentialsKept
  BY DEF IInv
<1>2. /\ AttrChecked(d) /\ OURowRead(d) /\ OURowRead(c) /\ OUNameChecked(d) /\ OUHandleChecked(d)
      /\ CycleChecked(d) /\ ChildrenCounted(d) /\ UserOUChecked(d) /\ UserRowRead(d)
      /\ GroupRowRead(d) /\ GroupOUChecked(d) /\ GroupNameChecked(d) /\ PrincipalsChecked(d)
      /\ RoleOUChecked(d) /\ TypeChecked(d) /\ AssignmentsCounted(d) /\ CredentialsRead(d)
      /\ CredentialHolder(d) /\ HierarchyRead(d)
  BY DEF IInv, Rules
<1>3. AttrChecked(d)' /\ OUNameChecked(d)' /\ OUHandleChecked(d)' /\ CycleChecked(d)'
  BY <1>1, <1>2, AttrCheckedStays, OUNameCheckedStays, OUHandleCheckedStays, CycleCheckedStays
<1>4. OURowRead(d)'
  BY <1>1, <1>2, OURowReadStays
<1>5. ChildrenCounted(d)' /\ UserOUChecked(d)' /\ UserRowRead(d)'
  BY <1>1, <1>2, ChildrenCountedStays, UserOUCheckedStays, UserRowReadStays
<1>6. GroupRowRead(d)' /\ GroupOUChecked(d)' /\ GroupNameChecked(d)'
  BY <1>1, <1>2, GroupRowReadStays, GroupOUCheckedStays, GroupNameCheckedStays
<1>7. PrincipalsChecked(d)' /\ RoleOUChecked(d)' /\ TypeChecked(d)' /\ AssignmentsCounted(d)'
  BY <1>1, <1>2, PrincipalsCheckedStays, RoleOUCheckedStays, TypeCheckedStays, AssignmentsCountedStays
<1>8. CredentialsRead(d)' /\ CredentialHolder(d)' /\ HierarchyRead(d)'
  BY <1>1, <1>2, CredentialsReadStays, CredentialHolderStays, HierarchyReadStays
<1>. QED  BY <1>3, <1>4, <1>5, <1>6, <1>7, <1>8 DEF Rules

\* No step of a call breaks the invariant.
LEMMA InvariantStep == IInv /\ Next => IInv'
<1> SUFFICES ASSUME IInv, Next PROVE IInv'
  OBVIOUS
<1>1. /\ Base /\ NewRows /\ ParentsThere /\ NamesUnique /\ AttributesUnique /\ NoCycleAlone
      /\ ResidentsHoused /\ NobodyGoneIsAdded /\ CredentialsKept
  BY DEF IInv
<1>2. PICK c \in Calls : Moves(c)
  BY <1>1, NextMoves
<1>3. /\ AttrChecked(c) /\ OURowRead(c) /\ OUNameChecked(c) /\ OUHandleChecked(c) /\ CycleChecked(c)
      /\ ChildrenCounted(c) /\ UserOUChecked(c) /\ UserRowRead(c) /\ GroupRowRead(c)
      /\ GroupOUChecked(c) /\ GroupNameChecked(c) /\ PrincipalsChecked(c) /\ RoleOUChecked(c)
      /\ TypeChecked(c) /\ CredentialsRead(c) /\ \A d \in Calls : CredentialHolder(d)
  BY DEF IInv, Rules
<1>4. Base' /\ NewRows' /\ ParentsThere'
  BY <1>1, <1>2, BaseStays, NewRowsStay, ParentsStay
<1>5. \A d \in Calls : Rules(d)'
  BY <1>2, RulesStay
<1>6. NamesUnique'
  BY <1>1, <1>2, <1>3, NamesUniqueStays
<1>7. AttributesUnique' /\ NoCycleAlone'
  BY <1>1, <1>2, <1>3, AttributesUniqueStays, NoCycleAloneStays
<1>8. ResidentsHoused'
  BY <1>1, <1>2, <1>3, ResidentsHousedStays
<1>9. NobodyGoneIsAdded' /\ CredentialsKept'
  BY <1>1, <1>2, <1>3, NobodyGoneStays, CredentialsKeptStays
<1>. QED  BY <1>4, <1>5, <1>6, <1>7, <1>8, <1>9 DEF IInv

\* Nor does a step that changes nothing.
LEMMA InvariantStutter == IInv /\ UNCHANGED directoryVars => IInv'
<1> SUFFICES ASSUME IInv, UNCHANGED directoryVars PROVE IInv'
  OBVIOUS
<1>1. /\ ous' = ous /\ users' = users /\ groups' = groups /\ roles' = roles /\ schemas' = schemas
      /\ pc' = pc /\ arg' = arg /\ local' = local /\ before' = before /\ stamp' = stamp
  BY DEF directoryVars, tables
<1>2. /\ PresentOUs' = PresentOUs /\ PresentUsers' = PresentUsers /\ PresentGroups' = PresentGroups
      /\ PresentRoles' = PresentRoles /\ PresentSchemas' = PresentSchemas
      /\ SchemaNames' = SchemaNames
  BY <1>1 DEF PresentOUs, PresentUsers, PresentGroups, PresentRoles, PresentSchemas, SchemaNames
<1>3. Base'
  <2>1. Base
    BY DEF IInv
  <2>. QED  BY <1>1, <2>1 DEF Base, TypeOK, Course, LocalOK, HistoryOK, Ended, Running
<1>4. NewRows' /\ ParentsThere'
  BY <1>1, <1>2 DEF IInv, NewRows, ParentsThere, Ended
<1>5. ASSUME NEW c \in Calls PROVE Rules(c)'
  <2>1. Rules(c)
    BY DEF IInv
  <2>2. AttrChecked(c)' /\ OUNameChecked(c)' /\ OUHandleChecked(c)' /\ ChildrenCounted(c)'
    BY <1>1, <1>2, <2>1 DEF Rules, AttrChecked, OUNameChecked, OUHandleChecked, ChildrenCounted,
       Since, SameRoot, Siblings
  <2>3. CycleChecked(c)'
    BY <1>1, <1>2, <2>1 DEF Rules, CycleChecked, Since
  <2>4. OURowRead(c)' /\ UserRowRead(c)' /\ GroupRowRead(c)'
    BY <1>1, <1>2, <2>1 DEF Rules, OURowRead, UserRowRead, GroupRowRead, Ended, UpdatesOU,
       UpdatesUser, UpdatesGroup, Overlap
  <2>5. UserOUChecked(c)' /\ GroupOUChecked(c)' /\ GroupNameChecked(c)'
    BY <1>1, <1>2, <2>1 DEF Rules, UserOUChecked, GroupOUChecked, GroupNameChecked, Since,
       ThereOrGoneSince, SameGroupName
  <2>6. PrincipalsChecked(c)' /\ RoleOUChecked(c)' /\ TypeChecked(c)' /\ AssignmentsCounted(c)'
    BY <1>1, <1>2, <2>1 DEF Rules, PrincipalsChecked, RoleOUChecked, TypeChecked, AssignmentsCounted,
       Since, Known, Named, UserType
  <2>7. CredentialsRead(c)' /\ CredentialHolder(c)'
    BY <1>1, <1>2, <2>1 DEF Rules, CredentialsRead, CredentialHolder, Reset, SetsCredential, Overlap,
       Ended
  <2>8. HierarchyRead(c)'
    BY <1>1, <1>2, <2>1 DEF Rules, HierarchyRead, NoChange, Subtree
  <2>. QED  BY <2>2, <2>3, <2>4, <2>5, <2>6, <2>7, <2>8 DEF Rules
<1>6. NamesUnique' /\ AttributesUnique' /\ NoCycleAlone'
  <2>1. NamesUnique /\ AttributesUnique /\ NoCycleAlone
    BY DEF IInv
  <2>2. NamesUnique'
    <3>1. ASSUME NEW o \in PresentOUs', NEW p \in PresentOUs', NEW f \in {"name", "handle"},
                 o # p, ous'[o].parent = ous'[p].parent, ous'[o][f] = ous'[p][f]
          PROVE  \/ Overlap(stamp[<<"ou", o, f>>], stamp[<<"ou", p, f>>])'
                 \/ RestoresOU(stamp[<<"ou", o, f>>], o)' \/ RestoresOU(stamp[<<"ou", p, f>>], p)'
      <4>1. \/ Overlap(stamp[<<"ou", o, f>>], stamp[<<"ou", p, f>>])
            \/ RestoresOU(stamp[<<"ou", o, f>>], o) \/ RestoresOU(stamp[<<"ou", p, f>>], p)
        BY <1>1, <1>2, <2>1, <3>1 DEF NamesUnique
      <4>. QED  BY <1>1, <4>1 DEF Overlap, RestoresOU, UpdatesOU
    <3>2. ASSUME NEW o \in PresentGroups', NEW p \in PresentGroups',
                 o # p, groups'[o].ou = groups'[p].ou, groups'[o].name = groups'[p].name
          PROVE  \/ Overlap(stamp[<<"group", o, "name">>], stamp[<<"group", p, "name">>])'
                 \/ RestoresGroup(stamp[<<"group", o, "name">>], o)'
                 \/ RestoresGroup(stamp[<<"group", p, "name">>], p)'
      <4>1. \/ Overlap(stamp[<<"group", o, "name">>], stamp[<<"group", p, "name">>])
            \/ RestoresGroup(stamp[<<"group", o, "name">>], o)
            \/ RestoresGroup(stamp[<<"group", p, "name">>], p)
        BY <1>1, <1>2, <2>1, <3>2 DEF NamesUnique
      <4>. QED  BY <1>1, <4>1 DEF Overlap, RestoresGroup, UpdatesGroup
    <3>. QED  BY <3>1, <3>2 DEF NamesUnique
  <2>3. AttributesUnique' /\ NoCycleAlone'
    BY <1>1, <1>2, <2>1 DEF AttributesUnique, NoCycleAlone, Overlap
  <2>. QED  BY <2>2, <2>3
<1>7. ResidentsHoused'
  <2>1. ResidentsHoused
    BY DEF IInv
  <2>2. ASSUME NEW u \in PresentUsers', users'[u].ou \notin PresentOUs'
        PROVE  \/ Overlap(stamp[<<"user", u, "ou">>], stamp[<<"ou", users[u].ou, "removed">>])'
               \/ MovedUnder(stamp[<<"ou", users[u].ou, "removed">>])'
               \/ RestoresUser(stamp[<<"user", u, "ou">>], u)'
    <3>1. \/ Overlap(stamp[<<"user", u, "ou">>], stamp[<<"ou", users[u].ou, "removed">>])
          \/ MovedUnder(stamp[<<"ou", users[u].ou, "removed">>])
          \/ RestoresUser(stamp[<<"user", u, "ou">>], u)
      BY <1>1, <1>2, <2>1, <2>2 DEF ResidentsHoused
    <3>. QED  BY <1>1, <3>1 DEF Overlap, MovedUnder, RestoresUser, UpdatesUser
  <2>3. ASSUME NEW g \in PresentGroups', groups'[g].ou \notin PresentOUs'
        PROVE  \/ Overlap(stamp[<<"group", g, "ou">>], stamp[<<"ou", groups[g].ou, "removed">>])'
               \/ MovedUnder(stamp[<<"ou", groups[g].ou, "removed">>])'
               \/ RestoresGroup(stamp[<<"group", g, "ou">>], g)'
    <3>1. \/ Overlap(stamp[<<"group", g, "ou">>], stamp[<<"ou", groups[g].ou, "removed">>])
          \/ MovedUnder(stamp[<<"ou", groups[g].ou, "removed">>])
          \/ RestoresGroup(stamp[<<"group", g, "ou">>], g)
      BY <1>1, <1>2, <2>1, <2>3 DEF ResidentsHoused
    <3>. QED  BY <1>1, <3>1 DEF Overlap, MovedUnder, RestoresGroup, UpdatesGroup
  <2>. QED  BY <2>2, <2>3 DEF ResidentsHoused
<1>8. NobodyGoneIsAdded' /\ CredentialsKept'
  BY <1>1, <1>2 DEF IInv, NobodyGoneIsAdded, Later, CredentialsKept, SetsCredential, Overlap
<1>. QED  BY <1>3, <1>4, <1>5, <1>6, <1>7, <1>8 DEF IInv

\* The invariant holds whatever the calls do.
THEOREM DirectoryInvariant == Spec => []IInv
BY InvariantInit, InvariantStep, InvariantStutter, PTL DEF Spec

-----------------------------------------------------------------------------
(* What the checks before the writes are for.                              *)

\* Every row is whole, and names, unique values and the absence of cycles are
\* lost to overlapping calls only, however many calls run.
THEOREM ChecksAlone == Spec => []ChecksHoldAlone
<1>1. IInv => ChecksHoldAlone
  BY DEF IInv, Base, ChecksHoldAlone
<1>. QED  BY <1>1, DirectoryInvariant, PTL

\* A reference without a foreign key loses what it refers to only to a call
\* that overlaps the one that wrote it.
THEOREM ReferencesHoldLoosely == Spec => []LooseReferencesHold
<1>1. IInv => LooseReferencesHold
  BY DEF IInv, LooseReferencesHold
<1>. QED  BY <1>1, DirectoryInvariant, PTL

\* A credential that was set stays until it is set again; only an overlapping
\* call can undo it.
THEOREM CredentialsStay == Spec => []CredentialsKept
<1>1. IInv => CredentialsKept
  BY DEF IInv
<1>. QED  BY <1>1, DirectoryInvariant, PTL

\* Who signed something since a running call began overlaps it.
LEMMA SinceOverlaps ==
    ASSUME Base, NEW c \in Calls, pc[c] \in Steps, NEW f \in Facts, Since(f, c)
    PROVE  Overlap(stamp[f], c)
<1>1. ~Ended(c) /\ c # None
  BY NoneAssumption, SMT DEF Ended, Steps, Answers
<1>2. stamp[f] \in Calls /\ Ended(stamp[f])
  BY SignersEnded DEF Since
<1>3. c \notin before[stamp[f]]
  BY <1>1, <1>2 DEF Base, HistoryOK
<1>. QED  BY <1>1, <1>2, <1>3 DEF Overlap, Since

\* A deletion takes only those organization units and assignments with it that
\* came after it had asked for them.
THEOREM OnlyTheLateAreSwept == Spec => NothingSweptAway
<1> DEFINE Sweeps ==
              \A c \in Calls :
                  /\ pc[c] = "deleteOU" /\ ous' # ous
                     => \A o \in PresentOUs :
                           ous[o].parent = local[c].ou => Overlap(stamp[<<"ou", o, "parent">>], c)
                  /\ pc[c] = "deleteRole" /\ arg[c].role \in PresentRoles /\ roles' # roles
                     => \A p \in roles[arg[c].role].assigned :
                           Overlap(stamp[<<"assigned", arg[c].role, p>>], c)
<1>1. IInv => Sweeps
  <2> SUFFICES ASSUME IInv, NEW c \in Calls
               PROVE  /\ pc[c] = "deleteOU"
                         => \A o \in PresentOUs :
                               ous[o].parent = local[c].ou
                               => Overlap(stamp[<<"ou", o, "parent">>], c)
                      /\ pc[c] = "deleteRole" /\ arg[c].role \in PresentRoles
                         => \A p \in roles[arg[c].role].assigned :
                               Overlap(stamp[<<"assigned", arg[c].role, p>>], c)
    OBVIOUS
  <2>1. Base /\ ChildrenCounted(c) /\ AssignmentsCounted(c)
    BY DEF IInv, Rules
  <2>2. ASSUME pc[c] = "deleteOU", NEW o \in PresentOUs, ous[o].parent = local[c].ou
        PROVE  Overlap(stamp[<<"ou", o, "parent">>], c)
    <3>1. o \in OUs /\ "parent" \in OUFields \cup {"removed"}
      BY DEF PresentOUs, OUFields
    <3>2. <<"ou", o, "parent">> \in Facts
      BY <3>1, FactsAre, Zenon
    <3>3. Since(<<"ou", o, "parent">>, c)
      BY <2>1, <2>2 DEF ChildrenCounted
    <3>4. pc[c] \in Steps
      BY <2>2 DEF Steps
    <3>. QED  BY <2>1, <3>2, <3>3, <3>4, SinceOverlaps
  <2>3. ASSUME pc[c] = "deleteRole", arg[c].role \in PresentRoles, NEW p \in roles[arg[c].role].assigned
        PROVE  Overlap(stamp[<<"assigned", arg[c].role, p>>], c)
    <3>1. arg[c].role \in Roles /\ p \in Principals
      <4>1. roles \in [Roles -> RoleRows \cup {None}] /\ arg[c].role \in Roles
            /\ roles[arg[c].role] # None
        BY <2>1, <2>3, SMT DEF Base, TypeOK, Tables, PresentRoles
      <4>. QED  BY <2>3, <4>1, SMT DEF RoleRows
    <3>2. <<"assigned", arg[c].role, p>> \in Facts
      BY <3>1, FactsAre, Zenon
    <3>3. Since(<<"assigned", arg[c].role, p>>, c)
      BY <2>1, <2>3 DEF AssignmentsCounted
    <3>4. pc[c] \in Steps
      BY <2>3 DEF Steps
    <3>. QED  BY <2>1, <3>2, <3>3, <3>4, SinceOverlaps
  <2>. QED  BY <2>2, <2>3
<1>2. IInv => [Sweeps]_directoryVars
  BY <1>1
<1>. QED  BY <1>2, DirectoryInvariant, PTL DEF NothingSweptAway

\* A user is placed under the organization unit of its type, unless a call that
\* changes either runs at the same time.
THEOREM UsersUnderTheirTypes == Spec => UserUnderItsType
<1> DEFINE Places ==
              \A c \in Calls :
                  /\ pc[c] = "insertUser" \/ (pc[c] = "updateUser" /\ arg[c].op = "updateUser")
                  /\ users' # users
                  /\ \A d \in Calls \ before[c] : pc[d] = "idle" \/ arg[d].op \notin HierarchyChanges
                  => \E s \in PresentSchemas :
                        schemas[s].name = arg[c].type /\ local[c].ou \in Subtree(schemas[s].ou)
<1>1. IInv => Places
  <2> SUFFICES ASSUME IInv, NEW c \in Calls,
                      pc[c] = "insertUser" \/ (pc[c] = "updateUser" /\ arg[c].op = "updateUser"),
                      \A d \in Calls \ before[c] : pc[d] = "idle" \/ arg[d].op \notin HierarchyChanges
               PROVE  \E s \in PresentSchemas :
                         schemas[s].name = arg[c].type /\ local[c].ou \in Subtree(schemas[s].ou)
    OBVIOUS
  <2>1. Course(c) /\ HierarchyRead(c) /\ NoChange(c)
    BY DEF IInv, Base, Rules, NoChange
  <2>2. arg[c].op # "updateUserAttributes"
    BY <2>1, SMT DEF Course, CreatesUser
  <2>. QED  BY <2>1, <2>2 DEF HierarchyRead
<1>2. IInv => [Places]_directoryVars
  BY <1>1
<1>. QED  BY <1>2, DirectoryInvariant, PTL DEF UserUnderItsType

\* Deletions and placements act on what the questions before them found.
THEOREM WritesFollowChecks == Spec => WritesRestOnChecks
BY OnlyTheLateAreSwept, UsersUnderTheirTypes DEF WritesRestOnChecks
=============================================================================
