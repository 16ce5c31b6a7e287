--------------------------- MODULE MCApplications ---------------------------
(* One application to begin with, with or without a client and a           *)
(* certificate, and requests that meet over it, a name or a client ID.     *)
EXTENDS Applications, TLC

CONSTANTS c1, c2, c0, n1, n2, x, v1, v2

CallSymmetry == Permutations(Calls)

NoRow == [i \in Ids |-> None]

MCTables ==
    {[apps |-> [NoRow EXCEPT ![c0] = [name |-> n1, by |-> c0]],
      clients |-> t.clients, certs |-> [NoRow EXCEPT ![c0] = t.cert]] :
        t \in [clients : {{}, {[row |-> c0, app |-> c0, client |-> c0, by |-> c0]}},
               cert : {None, [id |-> c0, value |-> v1]}]}

Create(name, client, cert) == [op |-> "create", name |-> name, client |-> client, cert |-> cert]
Update(name, client, cert) ==
    [op |-> "update", app |-> c0, name |-> name, client |-> client, cert |-> cert]

MCRequests ==
    {Create(n1, None, v2), Create(n2, x, v2), Create(n2, "new", None)}
    \cup {Update(n2, x, None), Update(n2, "new", v2), Update(n1, c0, v2),
          Update(n1, x, v1), Update(n1, None, v2), Update(n1, None, None)}
    \cup {[op |-> o, app |-> c0] : o \in {"delete", "get"}}
    \cup {[op |-> "getClient", client |-> i] : i \in {c0, x}}
=============================================================================
