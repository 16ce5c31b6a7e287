---------------------------- MODULE Memberships ----------------------------
(***************************************************************************)
(* The group service (internal/group) and the role service (internal/role):*)
(* who is a member of which group, and to whom a role is assigned.         *)
(***************************************************************************)
EXTENDS UserStore

UsersAmong(principals) == {p[2] : p \in {q \in principals : q[1] = "user"}}
GroupsAmong(principals) == {p[2] : p \in {q \in principals : q[1] = "group"}}

-----------------------------------------------------------------------------
(* Groups.                                                                 *)

\* CreateGroup: groupOU, userIDs, groupIDs, groupName, insertGroup.
CreateGroup(c, r) ==
    /\ r.op = "createGroup"
    /\ Begin(c, r, "groupOU", [NoLocal EXCEPT !.ou = r.ou])

\* CreateGroupByPath: path, and on like CreateGroup.
CreateGroupByPath(c, r) ==
    /\ r.op = "createGroupByPath"
    /\ Begin(c, r, "path", [NoLocal EXCEPT !.path = r.path])

\* UpdateGroup: getGroup, groupOU, userIDs, groupIDs, groupName, updateGroup.
UpdateGroup(c, r) ==
    /\ r.op = "updateGroup"
    /\ Begin(c, r, "getGroup", [NoLocal EXCEPT !.ou = r.ou])

\* DeleteGroup: getGroup, deleteGroup.
DeleteGroup(c, r) ==
    /\ r.op = "deleteGroup"
    /\ Begin(c, r, "getGroup", NoLocal)

\* The organization unit is validated if it is a new one.
GetGroup(c) ==
    LET g == arg[c].group IN
    /\ pc[c] = "getGroup"
    /\ IF g \in PresentGroups
       THEN /\ Keep(c, [local[c] EXCEPT !.row = [name |-> groups[g].name, ou |-> groups[g].ou]])
            /\ Goto(c, IF arg[c].op = "deleteGroup" THEN "deleteGroup"
                       ELSE IF groups[g].ou = arg[c].ou THEN "userIDs" ELSE "groupOU")
       ELSE Answer(c, "refused")
    /\ UNCHANGED <<tables, arg, before, stamp>>

\* validateOU.
GroupOUExists(c) ==
    /\ pc[c] = "groupOU"
    /\ Check(c, local[c].ou \in PresentOUs, "refused", "userIDs")

\* The principals a request names.
Named(c) ==
    IF arg[c].op \in {"createGroup", "createGroupByPath", "updateGroup"}
    THEN arg[c].members ELSE arg[c].assigned

\* ValidateUserIDs, for members and for assignees.
UserIDsValid(c) ==
    /\ pc[c] = "userIDs"
    /\ Check(c, UsersAmong(Named(c)) \subseteq PresentUsers, "refused", "groupIDs")

\* ValidateGroupIDs, for members and for assignees.
GroupIDsValid(c) ==
    /\ pc[c] = "groupIDs"
    /\ Check(c, GroupsAmong(Named(c)) \subseteq PresentGroups, "refused",
             CASE arg[c].op = "createRole" -> "roleOU"
               [] arg[c].op = "addAssignments" -> "addAssignments"
               [] OTHER -> "groupName")

SameGroupName(c) ==
    arg[c].op = "updateGroup" /\ local[c].row = [name |-> arg[c].name, ou |-> arg[c].ou]

\* CheckGroupNameConflictForCreate and ForUpdate; the latter leaves out the
\* group itself.
GroupNameFree(c) ==
    LET others == IF arg[c].op = "updateGroup" THEN PresentGroups \ {arg[c].group} ELSE PresentGroups
    IN
    /\ pc[c] = "groupName"
    /\ Check(c, SameGroupName(c)
                \/ \A g \in others : groups[g].ou # local[c].ou \/ groups[g].name # arg[c].name,
             "conflict", IF arg[c].op = "updateGroup" THEN "updateGroup" ELSE "insertGroup")

NewGroup(c) == [name |-> arg[c].name, ou |-> local[c].ou, members |-> arg[c].members]

\* A name is one among the groups of the organization unit; the members are
\* all written anew.
GroupChanges(g, old, new) ==
    {<<"group", g, "members">>}
    \cup {<<"group", g, f>> : f \in {h \in {"ou", "name"} :
                                       old = None \/ old.ou # new.ou \/ old[h] # new[h]}}

InsertGroup(c) ==
    /\ pc[c] = "insertGroup"
    /\ groups' = [groups EXCEPT ![c] = NewGroup(c)]
    /\ Written(c, GroupChanges(c, None, NewGroup(c)))
    /\ UNCHANGED <<ous, users, roles, schemas>>

WriteGroup(c) ==
    LET g == arg[c].group IN
    /\ pc[c] = "updateGroup"
    /\ \/ /\ g \in PresentGroups
          /\ groups' = [groups EXCEPT ![g] = NewGroup(c)]
          /\ Written(c, GroupChanges(g, groups[g], NewGroup(c)))
          /\ UNCHANGED <<ous, users, roles, schemas>>
       \/ g \notin PresentGroups /\ NotWritten(c, "failed")

\* The group and its members; what names the group stays.
RemoveGroup(c) ==
    LET g == arg[c].group IN
    /\ pc[c] = "deleteGroup"
    /\ groups' = [groups EXCEPT ![g] = None]
    /\ Written(c, {<<"group", h, "removed">> : h \in PresentGroups \cap {g}})
    /\ UNCHANGED <<ous, users, roles, schemas>>

-----------------------------------------------------------------------------
(* Roles.                                                                  *)

\* CreateRole: userIDs, groupIDs, roleOU, roleName, insertRole.
CreateRole(c, r) ==
    /\ r.op = "createRole"
    /\ Begin(c, r, "userIDs", [NoLocal EXCEPT !.ou = r.ou])

\* UpdateRoleWithPermissions: roleExists, roleOU, roleName, updateRole.
UpdateRole(c, r) ==
    /\ r.op = "updateRole"
    /\ Begin(c, r, "roleExists", [NoLocal EXCEPT !.ou = r.ou])

\* DeleteRole: roleExists, assignments, deleteRole.
DeleteRole(c, r) ==
    /\ r.op = "deleteRole"
    /\ Begin(c, r, "roleExists", NoLocal)

\* AddAssignments: roleExists, userIDs, groupIDs, addAssignments.
AddAssignments(c, r) ==
    /\ r.op = "addAssignments"
    /\ Begin(c, r, "roleExists", NoLocal)

\* RemoveAssignments: roleExists, removeAssignments.
RemoveAssignments(c, r) ==
    /\ r.op = "removeAssignments"
    /\ Begin(c, r, "roleExists", NoLocal)

\* The deletion of a role that is not there is done.
RoleExists(c) ==
    /\ pc[c] = "roleExists"
    /\ Check(c, arg[c].role \in PresentRoles,
             IF arg[c].op = "deleteRole" THEN "ok" ELSE "refused",
             CASE arg[c].op = "updateRole" -> "roleOU"
               [] arg[c].op = "deleteRole" -> "assignments"
               [] arg[c].op = "addAssignments" -> "userIDs"
               [] arg[c].op = "removeAssignments" -> "removeAssignments")

RoleOUExists(c) ==
    /\ pc[c] = "roleOU"
    /\ Check(c, local[c].ou \in PresentOUs, "refused", "roleName")

\* The role an operation writes, and the others with its name in its
\* organization unit.
RoleOf(c) == IF arg[c].op = "createRole" THEN c ELSE arg[c].role

SameRoleName(c) ==
    {r \in PresentRoles \ {RoleOf(c)} : roles[r].ou = arg[c].ou /\ roles[r].name = arg[c].name}

\* CheckRoleNameExists and CheckRoleNameExistsExcludingID.
RoleNameFree(c) ==
    /\ pc[c] = "roleName"
    /\ Check(c, SameRoleName(c) = {}, "conflict",
             IF arg[c].op = "createRole" THEN "insertRole" ELSE "updateRole")

\* Both writes are subject to unique_role_ou_name.
InsertRole(c) ==
    /\ pc[c] = "insertRole"
    /\ \/ /\ SameRoleName(c) = {}
          /\ roles' = [roles EXCEPT ![c] = [name |-> arg[c].name, ou |-> arg[c].ou,
                                            assigned |-> arg[c].assigned]]
          /\ Written(c, {<<"role", c, "ou">>} \cup {<<"assigned", c, p>> : p \in arg[c].assigned})
          /\ UNCHANGED <<ous, users, groups, schemas>>
       \/ SameRoleName(c) # {} /\ NotWritten(c, "failed")

WriteRole(c) ==
    LET r == arg[c].role IN
    /\ pc[c] = "updateRole"
    /\ \/ /\ r \in PresentRoles /\ SameRoleName(c) = {}
          /\ roles' = [roles EXCEPT ![r].name = arg[c].name, ![r].ou = arg[c].ou]
          /\ Written(c, {<<"role", r, "ou">>})
          /\ UNCHANGED <<ous, users, groups, schemas>>
       \/ /\ r \notin PresentRoles \/ SameRoleName(c) # {}
          /\ NotWritten(c, "failed")

\* A role that is assigned is not deleted.
RoleUnassigned(c) ==
    LET r == arg[c].role IN
    /\ pc[c] = "assignments"
    /\ Check(c, r \in PresentRoles => roles[r].assigned = {}, "refused", "deleteRole")

\* The foreign key cascades to the assignments.
RemoveRole(c) ==
    /\ pc[c] = "deleteRole"
    /\ roles' = [roles EXCEPT ![arg[c].role] = None]
    /\ Written(c, {})
    /\ UNCHANGED <<ous, users, groups, schemas>>

\* The role must be there (foreign key) and none of the assignments
\* (unique_role_assignment).
InsertAssignments(c) ==
    LET r == arg[c].role
        fits == r \in PresentRoles /\ roles[r].assigned \cap arg[c].assigned = {}
    IN
    /\ pc[c] = "addAssignments"
    /\ \/ /\ fits
          /\ roles' = [roles EXCEPT ![r].assigned = @ \cup arg[c].assigned]
          /\ Written(c, {<<"assigned", r, p>> : p \in arg[c].assigned})
          /\ UNCHANGED <<ous, users, groups, schemas>>
       \/ ~fits /\ NotWritten(c, "failed")

DeleteAssignments(c) ==
    LET r == arg[c].role IN
    /\ pc[c] = "removeAssignments"
    /\ roles' = IF r \in PresentRoles
                THEN [roles EXCEPT ![r].assigned = @ \ arg[c].assigned] ELSE roles
    /\ Written(c, {})
    /\ UNCHANGED <<ous, users, groups, schemas>>

-----------------------------------------------------------------------------
BeginMembership(c, r) ==
    \/ CreateGroup(c, r) \/ CreateGroupByPath(c, r) \/ UpdateGroup(c, r) \/ DeleteGroup(c, r)
    \/ CreateRole(c, r) \/ UpdateRole(c, r) \/ DeleteRole(c, r)
    \/ AddAssignments(c, r) \/ RemoveAssignments(c, r)

StepMembership(c) ==
    \/ GetGroup(c) \/ GroupOUExists(c) \/ UserIDsValid(c) \/ GroupIDsValid(c) \/ GroupNameFree(c)
    \/ InsertGroup(c) \/ WriteGroup(c) \/ RemoveGroup(c)
    \/ RoleExists(c) \/ RoleOUExists(c) \/ RoleNameFree(c) \/ InsertRole(c) \/ WriteRole(c)
    \/ RoleUnassigned(c) \/ RemoveRole(c) \/ InsertAssignments(c) \/ DeleteAssignments(c)
=============================================================================
