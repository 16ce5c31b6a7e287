----------------------------- MODULE Directory -----------------------------
(***************************************************************************)
(* The directory as a whole: calls of the organization unit, user schema,  *)
(* user, group and role services on one set of tables, and what they keep  *)
(* true together.                                                          *)
(*                                                                         *)
(* No service locks what it has checked, so most of what the checks are    *)
(* for can be lost to a call that overlaps.  The properties say that it is *)
(* lost to nothing else: a broken rule names two calls neither of which    *)
(* had ended when the other began.                                         *)
(***************************************************************************)
EXTENDS Memberships

\* What the code keeps true of the tables by itself; the calls begin from
\* tables that satisfy all of it.
Consistent(t) ==
    LET at(table) == {i \in DOMAIN table : table[i] # None}
        isUserOrGroup(p) == p[2] \in (IF p[1] = "user" THEN at(t.users) ELSE at(t.groups))
    IN
    /\ \A o \in at(t.ous) : t.ous[o].parent \in at(t.ous) \cup {None}
    /\ \A o, p \in at(t.ous) :
          o # p /\ t.ous[o].parent = t.ous[p].parent
          => t.ous[o].name # t.ous[p].name /\ t.ous[o].handle # t.ous[p].handle
    /\ \A S \in SUBSET at(t.ous) :
          S # {} => \E o \in S : t.ous[o].parent \notin S
    /\ \A u, v \in at(t.users) : u # v /\ t.users[u].attr # None => t.users[u].attr # t.users[v].attr
    /\ \A u \in at(t.users) :
          /\ t.users[u].ou \in at(t.ous)
          /\ \E s \in at(t.schemas) : t.schemas[s].name = t.users[u].type
    /\ \A g \in at(t.groups) :
          /\ t.groups[g].ou \in at(t.ous)
          /\ \A p \in t.groups[g].members : isUserOrGroup(p)
          /\ \A h \in at(t.groups) \ {g} :
                t.groups[h].ou = t.groups[g].ou => t.groups[h].name # t.groups[g].name
    /\ \A r \in at(t.roles) :
          /\ t.roles[r].ou \in at(t.ous)
          /\ \A p \in t.roles[r].assigned : isUserOrGroup(p)
          /\ \A q \in at(t.roles) \ {r} :
                t.roles[q].ou = t.roles[r].ou => t.roles[q].name # t.roles[r].name
    /\ \A s \in at(t.schemas) :
          /\ t.schemas[s].ou \in at(t.ous)
          /\ \A q \in at(t.schemas) \ {s} : t.schemas[q].name # t.schemas[s].name

Tables ==
    [ous : [OUs -> OURows \cup {None}], users : [Users -> UserRows \cup {None}],
     groups : [Groups -> GroupRows \cup {None}], roles : [Roles -> RoleRows \cup {None}],
     schemas : [Schemas -> SchemaRows \cup {None}]]

\* No row has the UUID that a call is going to make.
UUIDsAreNew(t) ==
    \A c \in Calls :
        /\ t.ous[c] = None /\ t.users[c] = None /\ t.groups[c] = None
        /\ t.roles[c] = None /\ t.schemas[c] = None

ASSUME TablesAssumption ==
    \A t \in InitialTables : t \in Tables /\ Consistent(t) /\ UUIDsAreNew(t)

Init ==
    /\ \E t \in InitialTables :
          /\ ous = t.ous /\ users = t.users /\ groups = t.groups
          /\ roles = t.roles /\ schemas = t.schemas
    /\ pc = [c \in Calls |-> "idle"]
    /\ arg = [c \in Calls |-> None]
    /\ local = [c \in Calls |-> NoLocal]
    /\ before = [c \in Calls |-> {}]
    /\ stamp = [f \in Facts |-> None]

Next ==
    \E c \in Calls :
        \/ /\ pc[c] = "idle"
           /\ \E r \in Requests : BeginOU(c, r) \/ BeginUser(c, r) \/ BeginMembership(c, r)
        \/ StepOU(c)
        \/ StepUser(c)
        \/ StepMembership(c)
        \/ Fails(c)

Spec == Init /\ [][Next]_directoryVars

-----------------------------------------------------------------------------
Steps ==
    {"path", "getOU", "ouExists", "parent", "circular", "name", "handle", "insertOU", "updateOU",
     "children", "deleteOU", "isParent", "schemaOU", "getSchema", "schemaName", "insertSchema",
     "updateSchema", "deleteSchema", "schema", "getUser", "validate", "unique", "insertUser",
     "updateUser", "getCredentials", "updateCredentials", "deleteUser", "getGroup", "groupOU",
     "userIDs", "groupIDs", "groupName", "insertGroup", "updateGroup", "deleteGroup", "roleExists",
     "roleOU", "roleName", "insertRole", "updateRole", "assignments", "deleteRole",
     "addAssignments", "removeAssignments"}

\* The tables hold whole rows of their types, and every call is at a step of
\* an operation or has answered.
TypeOK ==
    /\ [ous |-> ous, users |-> users, groups |-> groups, roles |-> roles, schemas |-> schemas]
          \in Tables
    /\ pc \in [Calls -> {"idle"} \cup Steps \cup Answers]
    /\ arg \in [Calls -> Requests \cup {None}]
    /\ \A c \in Calls : DOMAIN local[c] = {"ou", "path", "walk", "row"}
    /\ before \in [Calls -> SUBSET Calls]
    /\ stamp \in [Facts -> Calls \cup {None}]

-----------------------------------------------------------------------------
(* Updates that write back what they read.                                 *)

UpdatesOU(c, o) ==
    /\ arg[c] # None
    /\ \/ arg[c].op = "updateOU" /\ arg[c].ou = o
       \/ arg[c].op = "updateOUByPath"
UpdatesUser(c, u) ==
    arg[c] # None /\ arg[c].op \in {"updateUser", "updateUserAttributes"} /\ arg[c].user = u
UpdatesGroup(c, g) ==
    arg[c] # None /\ arg[c].op = "updateGroup" /\ arg[c].group = g

\* What an update leaves as it is it does not check: an organization unit at
\* the root that keeps its name or handle, the organization unit of a user
\* whose attributes change, a group that keeps its name or organization unit.
\* It writes back what it has read of the row, and so undoes another update of
\* the row at the same time.
RestoresOU(c, o) ==
    /\ c # None /\ UpdatesOU(c, o) /\ arg[c].parent = None
    /\ \E d \in Calls : Overlap(c, d) /\ UpdatesOU(d, o)
RestoresUser(c, u) ==
    /\ c # None /\ UpdatesUser(c, u) /\ arg[c].op = "updateUserAttributes"
    /\ \E d \in Calls : Overlap(c, d) /\ UpdatesUser(d, u)
RestoresGroup(c, g) ==
    /\ c # None /\ UpdatesGroup(c, g)
    /\ \E d \in Calls : Overlap(c, d) /\ UpdatesGroup(d, g)

-----------------------------------------------------------------------------
(* Names and values that must differ.                                      *)

\* CheckOrganizationUnitNameConflict, its handle counterpart and the checks of
\* the group service: siblings with one name or one handle, and groups of one
\* organization unit with one name, come from overlapping calls only: two that
\* gave the name, or two that updated one of the rows.
NamesUnique ==
    /\ \A o, p \in PresentOUs : \A f \in {"name", "handle"} :
          o # p /\ ous[o].parent = ous[p].parent /\ ous[o][f] = ous[p][f]
          => \/ Overlap(stamp[<<"ou", o, f>>], stamp[<<"ou", p, f>>])
             \/ RestoresOU(stamp[<<"ou", o, f>>], o) \/ RestoresOU(stamp[<<"ou", p, f>>], p)
    /\ \A g, h \in PresentGroups :
          g # h /\ groups[g].ou = groups[h].ou /\ groups[g].name = groups[h].name
          => \/ Overlap(stamp[<<"group", g, "name">>], stamp[<<"group", h, "name">>])
             \/ RestoresGroup(stamp[<<"group", g, "name">>], g)
             \/ RestoresGroup(stamp[<<"group", h, "name">>], h)

\* ValidateUserUniqueness: users with one value of a unique attribute come from
\* overlapping calls only.
AttributesUnique ==
    \A u, v \in PresentUsers :
        u # v /\ users[u].attr # None /\ users[u].attr = users[v].attr
        => Overlap(stamp[<<"user", u, "attr">>], stamp[<<"user", v, "attr">>])

-----------------------------------------------------------------------------
(* The hierarchy.                                                          *)

\* checkCircularDependency reads the hierarchy row by row while it may change.
\* A cycle has two members that were moved by overlapping calls.
NoCycleAlone ==
    \A S \in SUBSET PresentOUs :
        S # {} /\ (\A o \in S : ous[o].parent \in S)
        => \E o, p \in S : Overlap(stamp[<<"ou", o, "parent">>], stamp[<<"ou", p, "parent">>])

\* An organization unit that c removed, or one above it, was moved there while
\* c ran.
MovedUnder(c) ==
    \E o \in OUs :
        /\ stamp[<<"ou", o, "removed">>] = c
        /\ Overlap(stamp[<<"ou", o, "parent">>], c)

\* CheckOrganizationUnitHasChildResources counts users and groups, which have
\* no foreign key: one of them loses its organization unit only if it was
\* placed there, or the organization unit moved, during the deletion, or if an
\* update put it back there.
ResidentsHoused ==
    LET lost(o, placed) ==
            LET c == stamp[<<"ou", o, "removed">>] IN Overlap(placed, c) \/ MovedUnder(c)
    IN
    /\ \A u \in PresentUsers :
          users[u].ou \notin PresentOUs
          => \/ lost(users[u].ou, stamp[<<"user", u, "ou">>])
             \/ RestoresUser(stamp[<<"user", u, "ou">>], u)
    /\ \A g \in PresentGroups :
          groups[g].ou \notin PresentOUs
          => \/ lost(groups[g].ou, stamp[<<"group", g, "ou">>])
             \/ RestoresGroup(stamp[<<"group", g, "ou">>], g)

\* The foreign keys of ORGANIZATION_UNIT and of ROLE_ASSIGNMENT cascade, and the
\* services ask for children and for assignments first: a deletion takes only
\* those with it that came after the question.
NothingSweptAway ==
    [][\A c \in Calls :
        /\ pc[c] = "deleteOU" /\ ous' # ous
           => \A o \in PresentOUs :
                 ous[o].parent = local[c].ou => Overlap(stamp[<<"ou", o, "parent">>], c)
        /\ pc[c] = "deleteRole" /\ arg[c].role \in PresentRoles /\ roles' # roles
           => \A p \in roles[arg[c].role].assigned :
                 Overlap(stamp[<<"assigned", arg[c].role, p>>], c)]_directoryVars

HierarchyChanges ==
    {"createOU", "updateOU", "updateOUByPath", "deleteOU", "deleteOUByPath",
     "createSchema", "updateSchema", "deleteSchema"}

\* validateOrganizationUnitForUserType: a user is placed under the organization
\* unit of its type unless a call that changes either runs at the same time.
UserUnderItsType ==
    [][\A c \in Calls :
        /\ pc[c] = "insertUser" \/ (pc[c] = "updateUser" /\ arg[c].op = "updateUser")
        /\ users' # users
        /\ \A d \in Calls \ before[c] : pc[d] = "idle" \/ arg[d].op \notin HierarchyChanges
        => \E s \in PresentSchemas :
              schemas[s].name = arg[c].type /\ local[c].ou \in Subtree(schemas[s].ou)]_directoryVars

\* Deletions and placements act on what the questions before them found: see
\* NothingSweptAway and UserUnderItsType.
WritesRestOnChecks == NothingSweptAway /\ UserUnderItsType

-----------------------------------------------------------------------------
(* References without a foreign key.                                       *)

\* The deletion by gone had not ended when the call that wrote the reference
\* began.
Later(gone, writer) == writer = None \/ gone \notin before[writer]

\* ValidateUserIDs, ValidateGroupIDs and the lookups of types and organization
\* units: nobody becomes a member or an assignee, and no type or organization
\* unit is used, once it is known to be gone.
NobodyGoneIsAdded ==
    LET removed(p) == stamp[<<p[1], p[2], "removed">>]
        present(p) == p[2] \in (IF p[1] = "user" THEN PresentUsers ELSE PresentGroups)
    IN
    /\ \A g \in PresentGroups : \A p \in groups[g].members :
          present(p) \/ Later(removed(p), stamp[<<"group", g, "members">>])
    /\ \A r \in PresentRoles : \A p \in roles[r].assigned :
          present(p) \/ Later(removed(p), stamp[<<"assigned", r, p>>])
    /\ \A r \in PresentRoles :
          roles[r].ou \in PresentOUs
          \/ Later(stamp[<<"ou", roles[r].ou, "removed">>], stamp[<<"role", r, "ou">>])
    /\ \A u \in PresentUsers :
          users[u].type \in SchemaNames
          \/ Later(stamp[<<"schema", users[u].type, "removed">>], stamp[<<"user", u, "type">>])

-----------------------------------------------------------------------------
(* Credentials.                                                            *)

SetsCredential(c, u) ==
    /\ arg[c] # None
    /\ arg[c].op = "updateUserCredentials"
    /\ arg[c].user = u

\* UpdateUserCredentials writes back all the credentials it has read.  One that
\* was set stays until it is set again; only an overlapping call can undo it.
CredentialsKept ==
    \A c \in Calls : \A u \in PresentUsers :
        pc[c] = "ok" /\ SetsCredential(c, u)
        => \/ users[u].creds[arg[c].cred] = c
           \/ \E d \in Calls \ {c} :
                 /\ SetsCredential(d, u)
                 /\ \/ c \in before[d] /\ arg[d].cred = arg[c].cred
                    \/ Overlap(c, d)

-----------------------------------------------------------------------------
(* What the checks before the writes are for, as the runs check it.        *)

\* Every row is whole; and names, unique values and the absence of cycles,
\* which the services check before they write and no constraint of the tables
\* protects, are lost to overlapping calls only (the conflict checks of ou/,
\* group/ and user/service.go, and checkCircularDependency).
ChecksHoldAlone == TypeOK /\ NamesUnique /\ AttributesUnique /\ NoCycleAlone

\* What users, groups, roles and assignments refer to without a foreign key is
\* there, or went while the reference was written (CheckOrganizationUnitHas-
\* ChildResources, ValidateUserIDs, ValidateGroupIDs and the lookups of types).
LooseReferencesHold == ResidentsHoused /\ NobodyGoneIsAdded
=============================================================================
