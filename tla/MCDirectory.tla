---------------------------- MODULE MCDirectory ----------------------------
(***************************************************************************)
(* A small directory: o1 with a child o2, o3 beside o1 or below o2, and in *)
(* them one user, group, role and user schema each.  The requests are      *)
(* chosen so that any two operations can meet over a row, a name or a      *)
(* value.                                                                  *)
(***************************************************************************)
EXTENDS Directory, TLC

CONSTANTS c1, c2, o1, o2, o3, u1, g1, r1, s1, n1, n2, h1, h2, t1, t2, a1, a2, pin, password

CallSymmetry == Permutations(Calls)

OURow(name, handle, parent) == [name |-> name, handle |-> handle, parent |-> parent]

NoRows(ids) == [i \in ids |-> None]

\* The role is assigned to the group, or to nobody.
MCTables ==
    {[ous |-> [NoRows(OUs) EXCEPT ![o1] = OURow(n1, h1, None), ![o2] = OURow(n1, h1, o1),
                                  ![o3] = OURow(n2, h2, above)],
      users |-> [NoRows(Users) EXCEPT
                    ![u1] = [type |-> t1, ou |-> o2, attr |-> a1, creds |-> NoRows(CredTypes)]],
      groups |-> [NoRows(Groups) EXCEPT ![g1] = [name |-> n1, ou |-> o1, members |-> {<<"user", u1>>}]],
      roles |-> [NoRows(Roles) EXCEPT ![r1] = [name |-> n1, ou |-> o1, assigned |-> assigned]],
      schemas |-> [NoRows(Schemas) EXCEPT ![s1] = [name |-> t1, ou |-> o1]]] :
        assigned \in {{}, {<<"group", g1>>}}, above \in {None, o2}}

OURequests ==
    {[op |-> "createOU", name |-> n2, handle |-> h1, parent |-> p] : p \in {o2, o3}}
    \cup {[op |-> "updateOU", ou |-> o1, name |-> n1, handle |-> h1, parent |-> o3],
          [op |-> "updateOU", ou |-> o3, name |-> n2, handle |-> h2, parent |-> o2],
          [op |-> "updateOU", ou |-> o3, name |-> n2, handle |-> h1, parent |-> o1],
          [op |-> "updateOU", ou |-> o2, name |-> n1, handle |-> h2, parent |-> o1],
          [op |-> "updateOUByPath", path |-> <<h1, h1>>, name |-> n2, handle |-> h2, parent |-> None]}
    \cup {[op |-> "deleteOU", ou |-> o] : o \in {o2, o3}}
    \cup {[op |-> "deleteOUByPath", path |-> <<h2>>]}

UserRequests ==
    {[op |-> "createUser", type |-> t, ou |-> o3, attr |-> a2, creds |-> {}] : t \in {t1, t2}}
    \cup {[op |-> "createUserByPath", type |-> t1, path |-> <<h1, h1>>, attr |-> a2, creds |-> {pin}],
          [op |-> "updateUser", user |-> u1, type |-> t1, ou |-> o1, attr |-> a2],
          [op |-> "updateUserAttributes", user |-> u1, attr |-> a2],
          [op |-> "updateUserAttributes", user |-> u1, attr |-> None],
          [op |-> "deleteUser", user |-> u1]}
    \cup {[op |-> "updateUserCredentials", user |-> u1, cred |-> t] : t \in CredTypes}
    \cup {[op |-> "createSchema", name |-> t2, ou |-> o3],
          [op |-> "updateSchema", schema |-> s1, name |-> t2, ou |-> o3],
          [op |-> "deleteSchema", schema |-> s1]}

MembershipRequests ==
    {[op |-> "createGroup", name |-> n2, ou |-> o1, members |-> {<<"user", u1>>}],
     [op |-> "createGroupByPath", name |-> n2, path |-> <<h2>>, members |-> {<<"group", g1>>}],
     [op |-> "updateGroup", group |-> g1, name |-> n2, ou |-> o3, members |-> {<<"user", u1>>}],
     [op |-> "deleteGroup", group |-> g1],
     [op |-> "createRole", name |-> n2, ou |-> o3, assigned |-> {<<"user", u1>>}],
     [op |-> "updateRole", role |-> r1, name |-> n2, ou |-> o3],
     [op |-> "deleteRole", role |-> r1],
     [op |-> "addAssignments", role |-> r1, assigned |-> {<<"user", u1>>}],
     [op |-> "removeAssignments", role |-> r1, assigned |-> {<<"group", g1>>}]}

MCRequests == OURequests \cup UserRequests \cup MembershipRequests
=============================================================================
