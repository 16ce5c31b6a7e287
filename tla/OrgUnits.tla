------------------------------ MODULE OrgUnits ------------------------------
(***************************************************************************)
(* The organization unit service (internal/ou): create, update and delete, *)
(* by ID or by the path of handles, and the walk up the hierarchy that the *)
(* user service asks for.                                                  *)
(***************************************************************************)
EXTENDS DirectoryDB

\* CreateOrganizationUnit: parent, name, handle, insertOU.
CreateOU(c, r) ==
    /\ r.op = "createOU"
    /\ Begin(c, r, "parent", [NoLocal EXCEPT !.ou = c])

\* UpdateOrganizationUnit: getOU, parent, circular, name, handle, updateOU.
UpdateOU(c, r) ==
    /\ r.op = "updateOU"
    /\ Begin(c, r, "getOU", [NoLocal EXCEPT !.ou = r.ou])

\* UpdateOrganizationUnitByPath: path, parent, and on like UpdateOU.
UpdateOUByPath(c, r) ==
    /\ r.op = "updateOUByPath"
    /\ Begin(c, r, "path", [NoLocal EXCEPT !.path = r.path])

\* DeleteOrganizationUnit: ouExists, children, deleteOU.
DeleteOU(c, r) ==
    /\ r.op = "deleteOU"
    /\ Begin(c, r, "ouExists", [NoLocal EXCEPT !.ou = r.ou])

\* DeleteOrganizationUnitByPath: path, children, deleteOU.
DeleteOUByPath(c, r) ==
    /\ r.op = "deleteOUByPath"
    /\ Begin(c, r, "path", [NoLocal EXCEPT !.path = r.path])

-----------------------------------------------------------------------------
(* Finding the organization unit.                                          *)

\* Where a call goes on once its path is resolved.
AfterPath(op) ==
    CASE op = "updateOUByPath" -> "parent"
      [] op = "deleteOUByPath" -> "children"
      [] op = "createUserByPath" -> "ouExists"
      [] op = "createGroupByPath" -> "groupOU"

\* GetOrganizationUnitByPath: one query for each handle, from the root down.
\* Where siblings share a handle the query has several results, and the first
\* is taken.
ResolveHandle(c) ==
    LET at == local[c]
        found == {o \in PresentOUs : ous[o].handle = Head(at.path) /\ ous[o].parent = at.ou}
    IN
    /\ pc[c] = "path"
    /\ IF found = {}
       THEN Answer(c, "refused")
       ELSE \E o \in found :
              /\ Keep(c, [at EXCEPT !.ou = o, !.path = Tail(@), !.row = ous[o]])
              /\ Goto(c, IF Len(at.path) = 1 THEN AfterPath(arg[c].op) ELSE "path")
    /\ UNCHANGED <<tables, arg, before, stamp>>

GetOU(c) ==
    LET o == local[c].ou IN
    /\ pc[c] = "getOU"
    /\ IF o \in PresentOUs
       THEN Goto(c, "parent") /\ Keep(c, [local[c] EXCEPT !.row = ous[o]])
       ELSE Answer(c, "refused")
    /\ UNCHANGED <<tables, arg, before, stamp>>

\* IsOrganizationUnitExists, for the deletion and for the user service.
OUExists(c) ==
    /\ pc[c] = "ouExists"
    /\ Check(c, local[c].ou \in PresentOUs, "refused",
             IF arg[c].op = "deleteOU" THEN "children" ELSE "schema")

-----------------------------------------------------------------------------
(* Create and update.                                                      *)

\* The parent exists, if there is to be one.  An update then walks up from it.
ParentExists(c) ==
    /\ pc[c] = "parent"
    /\ IF arg[c].parent \in PresentOUs \cup {None}
       THEN /\ Goto(c, IF arg[c].op = "createOU" THEN "name" ELSE "circular")
            /\ Keep(c, [local[c] EXCEPT !.walk = arg[c].parent])
       ELSE Answer(c, "refused")
    /\ UNCHANGED <<tables, arg, before, stamp>>

\* Fault: only the new parent itself is compared.
ParentIsNotSelf(c) ==
    /\ pc[c] = "circular"
    /\ Check(c, local[c].walk # local[c].ou, "refused", "name")

\* checkCircularDependency, one row of the hierarchy at a time.  A row that is
\* gone ends the walk like a root.
CircularDependency(c) ==
    LET o == local[c].walk IN
    /\ pc[c] = "circular"
    /\ IF o \in PresentOUs /\ o # local[c].ou
       THEN /\ Keep(c, [local[c] EXCEPT !.walk = ous[o].parent])
            /\ UNCHANGED <<tables, pc, arg, before, stamp>>
       ELSE Check(c, o # local[c].ou, "refused", "name")

\* updateOUInternal compares the parents as pointers: they are equal only if
\* there is none.
SameRoot(c) ==
    arg[c].op # "createOU" /\ local[c].row.parent = None /\ arg[c].parent = None

Siblings(c) == {o \in PresentOUs : ous[o].parent = arg[c].parent}

\* CheckOrganizationUnitNameConflict.  The organization unit itself counts.
OUNameFree(c) ==
    /\ pc[c] = "name"
    /\ Check(c, (SameRoot(c) /\ local[c].row.name = arg[c].name)
                \/ \A o \in Siblings(c) : ous[o].name # arg[c].name,
             "conflict", "handle")

\* CheckOrganizationUnitHandleConflict.
OUHandleFree(c) ==
    /\ pc[c] = "handle"
    /\ Check(c, (SameRoot(c) /\ local[c].row.handle = arg[c].handle)
                \/ \A o \in Siblings(c) : ous[o].handle # arg[c].handle,
             "conflict", IF arg[c].op = "createOU" THEN "insertOU" ELSE "updateOU")

\* The foreign key on PARENT_ID.
ParentKey(c) == arg[c].parent \in PresentOUs \cup {None}

NewOU(c) == [name |-> arg[c].name, handle |-> arg[c].handle, parent |-> arg[c].parent]

\* What the write of row new over row old changes: a name or a handle is one
\* among the siblings.
OUChanges(o, old, new) ==
    {<<"ou", o, f>> : f \in {g \in {"parent", "name", "handle"} :
                                old = None \/ old.parent # new.parent \/ old[g] # new[g]}}

InsertOU(c) ==
    /\ pc[c] = "insertOU"
    /\ \/ /\ ParentKey(c)
          /\ ous' = [ous EXCEPT ![c] = NewOU(c)]
          /\ Written(c, OUChanges(c, None, NewOU(c)))
          /\ UNCHANGED <<users, groups, roles, schemas>>
       \/ ~ParentKey(c) /\ NotWritten(c, "failed")

\* An UPDATE of a row that is gone changes nothing and reports no error.
WriteOU(c) ==
    LET o == local[c].ou IN
    /\ pc[c] = "updateOU"
    /\ \/ /\ o \in PresentOUs /\ ParentKey(c)
          /\ ous' = [ous EXCEPT ![o] = NewOU(c)]
          /\ Written(c, OUChanges(o, ous[o], NewOU(c)))
          /\ UNCHANGED <<users, groups, roles, schemas>>
       \/ o \in PresentOUs /\ ~ParentKey(c) /\ NotWritten(c, "failed")
       \/ o \notin PresentOUs /\ NotWritten(c, "ok")

-----------------------------------------------------------------------------
(* Delete.                                                                 *)

\* Fault: groups are not counted.
HasChildrenOrUsers(o) ==
    \/ \E p \in PresentOUs : ous[p].parent = o
    \/ \E u \in PresentUsers : users[u].ou = o

\* CheckOrganizationUnitHasChildResources, one query over three tables.
HasChildResources(o) ==
    \/ \E p \in PresentOUs : ous[p].parent = o
    \/ \E u \in PresentUsers : users[u].ou = o
    \/ \E g \in PresentGroups : groups[g].ou = o

NoChildResources(c) ==
    /\ pc[c] = "children"
    /\ Check(c, ~HasChildResources(local[c].ou), "refused", "deleteOU")

\* o and what is below it: the least set that holds o and the children of its
\* members.
Subtree(o) ==
    {p \in PresentOUs :
        \A S \in SUBSET OUs :
            o \in S /\ (\A q \in PresentOUs : ous[q].parent \in S => q \in S) => p \in S}

\* The foreign key cascades: what has been placed below o meanwhile goes too.
\* Users, groups, roles and schemas that name a removed organization unit stay.
RemoveOU(c) ==
    LET gone == Subtree(local[c].ou) IN
    /\ pc[c] = "deleteOU"
    /\ ous' = [o \in OUs |-> IF o \in gone THEN None ELSE ous[o]]
    /\ Written(c, {<<"ou", o, "removed">> : o \in gone})
    /\ UNCHANGED <<users, groups, roles, schemas>>

-----------------------------------------------------------------------------
\* IsParent: whether local row, an organization unit, is at or above another,
\* one row at a time.  A row that is gone is an error.
IsParent(c) ==
    LET o == local[c].walk IN
    /\ pc[c] = "isParent"
    /\ IF o \in PresentOUs /\ o # local[c].row
       THEN /\ Keep(c, [local[c] EXCEPT !.walk = ous[o].parent])
            /\ UNCHANGED <<tables, pc, arg, before, stamp>>
       ELSE Check(c, o = local[c].row, "refused", "validate")

BeginOU(c, r) ==
    \/ CreateOU(c, r) \/ UpdateOU(c, r) \/ UpdateOUByPath(c, r)
    \/ DeleteOU(c, r) \/ DeleteOUByPath(c, r)

StepOU(c) ==
    \/ ResolveHandle(c) \/ GetOU(c) \/ OUExists(c) \/ ParentExists(c)
    \/ CircularDependency(c) \/ OUNameFree(c) \/ OUHandleFree(c) \/ InsertOU(c) \/ WriteOU(c)
    \/ NoChildResources(c) \/ RemoveOU(c) \/ IsParent(c)
=============================================================================
