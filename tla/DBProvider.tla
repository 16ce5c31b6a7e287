----------------------------- MODULE DBProvider -----------------------------
(***************************************************************************)
(* The provider of database clients                                        *)
(* (internal/system/database/provider/dbprovider.go): a pointer to a       *)
(* client, which owns a pool of connections, and a lock per database.      *)
(***************************************************************************)
EXTENDS Naturals, FiniteSets

CONSTANTS
    Databases,  \* identity, runtime and user database
    Requests,   \* whose handlers ask for clients
    MaxPools,   \* bound: pools opened in a run
    None

ASSUME PoolsAssumption ==
    /\ MaxPools \in Nat
    /\ IsFiniteSet(Databases)
    /\ None \notin Nat \cup Databases

VARIABLES
    client,     \* of each database: the pool of its client, or None
    open,       \* pools that are open
    opened,     \* number of pools opened so far
    missed,     \* who has seen that there is no client, and of which database
    held        \* the pool of the client each request was given, or None

poolVars == <<client, open, opened, missed, held>>

\* Of every database initializeAllClients reaches, it opens a pool; the others are
\* left for later.
PoolsInit ==
    \E reached \in SUBSET Databases :
        /\ opened = Cardinality(reached)
        /\ open = 1..opened
        /\ client \in [Databases -> open \cup {None}]
        /\ \A d \in Databases : client[d] # None <=> d \in reached
        /\ \A c, d \in reached : c # d => client[c] # client[d]
        /\ missed = [r \in Requests |-> None]
        /\ held = [r \in Requests |-> None]

\* The first half of getOrInitClient, under the read lock.
GetClient(r, d) ==
    /\ missed[r] = None
    /\ IF client[d] # None
       THEN held' = [held EXCEPT ![r] = client[d]] /\ UNCHANGED missed
       ELSE missed' = [missed EXCEPT ![r] = d] /\ UNCHANGED held
    /\ UNCHANGED <<client, open, opened>>

\* sql.Open and Ping succeed, and the client becomes that of the database.
OpenPool(r, d) ==
    /\ opened < MaxPools
    /\ opened' = opened + 1
    /\ open' = open \cup {opened'}
    /\ client' = [client EXCEPT ![d] = opened']
    /\ held' = [held EXCEPT ![r] = opened']

\* Fault: the pointer is not looked at again under the write lock.
InitClientUnchecked(r, d) ==
    /\ missed[r] = d
    /\ OpenPool(r, d)
    /\ missed' = [missed EXCEPT ![r] = None]

\* The second half, under the write lock.
InitClient(r, d) ==
    /\ missed[r] = d
    /\ IF client[d] # None
       THEN held' = [held EXCEPT ![r] = client[d]] /\ UNCHANGED <<client, open, opened>>
       ELSE OpenPool(r, d)
    /\ missed' = [missed EXCEPT ![r] = None]

\* The database cannot be reached: the pool that was opened for it is closed again.
InitClientFails(r, d) ==
    /\ missed[r] = d /\ client[d] = None
    /\ missed' = [missed EXCEPT ![r] = None]
    /\ UNCHANGED <<client, open, opened, held>>

\* An error of the pool's Close leaves the pointer.
CloseClient(d) ==
    /\ IF client[d] = None
       THEN UNCHANGED client
       ELSE client' = [client EXCEPT ![d] = None] \/ UNCHANGED client
    /\ open' = open \ {client[d]}
    /\ UNCHANGED <<opened, missed, held>>
=============================================================================
