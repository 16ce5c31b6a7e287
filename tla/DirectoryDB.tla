---------------------------- MODULE DirectoryDB ----------------------------
(***************************************************************************)
(* What the directory services share: the tables of organization units,    *)
(* users, groups (dbscripts/userdb), roles and user schemas                *)
(* (dbscripts/thunderdb), and the API calls that run on them.              *)
(*                                                                         *)
(* Every call has a goroutine of its own, and each query, statement or     *)
(* transaction it sends is one step: calls interleave between their checks *)
(* and their writes.  The tables' foreign keys and unique constraints are  *)
(* the only thing that is checked together with a write.                   *)
(***************************************************************************)
EXTENDS Naturals, Sequences, FiniteSets

CONSTANTS
    Calls,          \* API calls; the UUID of what a call creates is named after it
    SeedOUs, SeedUsers, SeedGroups, SeedRoles, SeedSchemas,   \* IDs of the initial rows
    Names, Handles, Types, Attrs, CredTypes,
    Requests,       \* what the calls may ask for, with the operation in field op
    InitialTables,  \* the tables the calls may find
    None

OUs == SeedOUs \cup Calls
Users == SeedUsers \cup Calls
Groups == SeedGroups \cup Calls
Roles == SeedRoles \cup Calls
Schemas == SeedSchemas \cup Calls

\* Members of groups and assignees of roles.
Principals == ({"user"} \X Users) \cup ({"group"} \X Groups)

OURows == [name : Names, handle : Handles, parent : OUs \cup {None}]
\* Attr is the value of an attribute that the user's schema declares as unique;
\* a credential is named after the call that set it.
UserRows == [type : Types, ou : OUs, attr : Attrs \cup {None},
             creds : [CredTypes -> Calls \cup {None}]]
GroupRows == [name : Names, ou : OUs, members : SUBSET Principals]
RoleRows == [name : Names, ou : OUs, assigned : SUBSET Principals]
SchemaRows == [name : Types, ou : OUs]

\* None is no ID, no value, no row and no request.
ASSUME NoneAssumption ==
    /\ None \notin OUs /\ None \notin Calls /\ None \notin Attrs
    /\ None \notin OURows /\ None \notin UserRows /\ None \notin GroupRows
    /\ None \notin RoleRows /\ None \notin SchemaRows /\ None \notin Requests

\* What the requests of the operations say.
ASSUME RequestsAssumption ==
    \A r \in Requests :
        /\ r.op \in {"createOU", "updateOU", "updateOUByPath"}
           => r.name \in Names /\ r.handle \in Handles /\ r.parent \in OUs \cup {None}
        /\ r.op \in {"updateOU", "deleteOU", "createSchema", "updateSchema", "createUser",
                     "updateUser", "createGroup", "updateGroup", "createRole", "updateRole"}
           => r.ou \in OUs
        /\ r.op \in {"updateOUByPath", "deleteOUByPath", "createUserByPath", "createGroupByPath"}
           => r.path \in Seq(Handles)
        /\ r.op \in {"createSchema", "updateSchema"} => r.name \in Types
        /\ r.op \in {"updateSchema", "deleteSchema"} => r.schema \in Schemas
        /\ r.op \in {"createUser", "createUserByPath", "updateUser"} => r.type \in Types
        /\ r.op \in {"createUser", "createUserByPath", "updateUser", "updateUserAttributes"}
           => r.attr \in Attrs \cup {None}
        /\ r.op \in {"createUser", "createUserByPath"} => r.creds \subseteq CredTypes
        /\ r.op \in {"updateUser", "updateUserAttributes", "updateUserCredentials", "deleteUser"}
           => r.user \in Users
        /\ r.op = "updateUserCredentials" => r.cred \in CredTypes
        /\ r.op \in {"createGroup", "createGroupByPath", "updateGroup", "createRole", "updateRole"}
           => r.name \in Names
        /\ r.op \in {"updateGroup", "deleteGroup"} => r.group \in Groups
        /\ r.op \in {"createGroup", "createGroupByPath", "updateGroup"}
           => r.members \subseteq Principals
        /\ r.op \in {"updateRole", "deleteRole", "addAssignments", "removeAssignments"}
           => r.role \in Roles
        /\ r.op \in {"createRole", "addAssignments", "removeAssignments"}
           => r.assigned \subseteq Principals

VARIABLES
    ous, users, groups, roles, schemas,     \* the tables, None where there is no row
    pc,         \* where each call is
    arg,        \* what it asks for
    local,      \* what it has read and resolved
    before,     \* history: the calls that had ended when it began
    stamp       \* history: the call that last changed a fact

tables == <<ous, users, groups, roles, schemas>>
directoryVars == <<tables, pc, arg, local, before, stamp>>

PresentOUs == {o \in OUs : ous[o] # None}
PresentUsers == {u \in Users : users[u] # None}
PresentGroups == {g \in Groups : groups[g] # None}
PresentRoles == {r \in Roles : roles[r] # None}
PresentSchemas == {s \in Schemas : schemas[s] # None}

\* The facts whose last change the properties ask for.
Facts ==
    ({"ou"} \X OUs \X {"parent", "name", "handle", "removed"})
    \cup ({"user"} \X Users \X {"type", "ou", "attr", "removed"})
    \cup ({"group"} \X Groups \X {"ou", "name", "members", "removed"})
    \cup ({"schema"} \X Types \X {"removed"})
    \cup ({"role"} \X Roles \X {"ou"})
    \cup ({"assigned"} \X Roles \X Principals)

-----------------------------------------------------------------------------
(* The course of a call.                                                   *)

Answers == {"ok", "conflict", "refused", "failed"}

Ended(c) == pc[c] \in Answers
Running(c) == pc[c] # "idle" /\ ~Ended(c)

\* Fields: ou, the organization unit the call is about; path, what is left to
\* resolve of its path; walk, where a walk up the hierarchy is; row, the row
\* that was read.
NoLocal == [ou |-> None, path |-> <<>>, walk |-> None, row |-> None]

Goto(c, step) == pc' = [pc EXCEPT ![c] = step]

Keep(c, fields) == local' = [local EXCEPT ![c] = fields]

\* Call c answers a; only what it asked for stays known.
Answer(c, a) ==
    /\ Goto(c, a)
    /\ Keep(c, NoLocal)

\* A query that decides whether c goes on.
Check(c, holds, refusal, next) ==
    /\ IF holds THEN Goto(c, next) /\ UNCHANGED local ELSE Answer(c, refusal)
    /\ UNCHANGED <<tables, arg, before, stamp>>

\* The operation of r begins at step first (c is idle: see Next).
Begin(c, r, first, fields) ==
    /\ Goto(c, first)
    /\ arg' = [arg EXCEPT ![c] = r]
    /\ Keep(c, fields)
    /\ before' = [before EXCEPT ![c] = {d \in Calls : Ended(d)}]
    /\ UNCHANGED <<tables, stamp>>

\* The write of c ends the call.  It may be applied and yet reported as failed.
Written(c, facts) ==
    /\ \E a \in {"ok", "failed"} : Answer(c, a)
    /\ stamp' = [f \in Facts |-> IF f \in facts THEN c ELSE stamp[f]]
    /\ UNCHANGED <<arg, before>>

\* The statement finds no row, or the database rejects it.
NotWritten(c, a) ==
    /\ Answer(c, a)
    /\ UNCHANGED <<tables, arg, before, stamp>>

\* A query or a statement fails, the request is not valid, or the server
\* stops: c ends where it is, and what it was about to do is not done.
Fails(c) ==
    /\ Running(c)
    /\ NotWritten(c, "failed")

\* Two calls neither of which had ended when the other began.
Overlap(c, d) ==
    /\ c # None /\ d # None /\ c # d
    /\ c \notin before[d]
    /\ d \notin before[c]

=============================================================================
