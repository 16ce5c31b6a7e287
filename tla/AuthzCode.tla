------------------------------ MODULE AuthzCode ------------------------------
(***************************************************************************)
(* OAuth 2.0 authorization codes (internal/oauth/oauth2/authz and the      *)
(* authorization code grant of internal/oauth/oauth2/granthandlers).       *)
(*                                                                         *)
(* A client opens an authorization request, which is stored.  When the     *)
(* user's authentication flow has ended, a completion loads the request,   *)
(* removes it and stores a code; a redemption reads the code, deactivates  *)
(* it and then checks what it has read.  Each of these is a database call  *)
(* of its own, outside any transaction: calls of other requests come in    *)
(* between, each call may fail, and the server may stop after each.        *)
(***************************************************************************)
EXTENDS Naturals, FiniteSets

CONSTANTS
    AuthIDs,        \* authorization requests (authId)
    Completions,    \* calls that complete one; a code is named after its call
    Redemptions,    \* token requests of the authorization code grant
    Clients, URIs,
    Keys,           \* PKCE keys: a challenge and the verifier that matches it
    Resources,
    Users,
    None,           \* not given, not stored
    RequestValidity, CodeValidity,
    MaxTime,        \* bound on the clock
    MaxUpdates,     \* bound on changes of the clients' registrations
    MaxRestarts     \* bound on server restarts

ASSUME TimeAssumption ==
    /\ RequestValidity \in Nat
    /\ CodeValidity \in Nat
    /\ MaxTime \in Nat
    /\ MaxUpdates \in Nat
    /\ MaxRestarts \in Nat

ASSUME NamesAssumption ==
    /\ None \notin AuthIDs \cup Keys \cup Resources
    /\ Completions \cap Redemptions = {}

Calls == Completions \cup Redemptions

Parameters ==
    [client : Clients, uri : URIs, key : Keys \cup {None}, resource : Resources \cup {None}]

\* authRequestContext with its EXPIRY_TIME.
AuthRequests == [params : Parameters, expires : Nat]

\* AuthorizationCode.
Codes == [params : Parameters, user : Users, active : BOOLEAN, expires : Nat]

TokenRequests == [code : Completions, params : Parameters, pkce : BOOLEAN]

ASSUME NoRowAssumption == None \notin AuthRequests \cup Codes \cup TokenRequests

VARIABLES
    apps,       \* what the clients are registered with
    authReqs,   \* AUTHORIZATION_REQUEST
    codes,      \* AUTHORIZATION_CODE
    pc,         \* where each completion and redemption is
    authID,     \* the request a completion has loaded
    loaded,     \* its copy of the request
    want,       \* what a token request that finds its code asks for
    read,       \* its copy of the code
    now,
    updates, restarts,
    asked,      \* history: the authorization requests as they were stored
    cleared,    \* history: completions whose removal of the request was applied
    before      \* history: calls of its kind that had ended when a call began

authzVars == <<apps, authReqs, codes, pc, authID, loaded, want, read, now,
               updates, restarts, asked, cleared, before>>

TypeOK ==
    /\ apps \in [Clients -> [uris : SUBSET URIs, pkce : BOOLEAN]]
    /\ authReqs \in [AuthIDs -> AuthRequests \cup {None}]
    /\ codes \in [Completions -> Codes \cup {None}]
    /\ pc \in [Calls -> {"idle", "loaded", "cleared", "read", "deactivated",
                         "refused", "failed", "code", "rejected", "unbuilt", "tokens"}]
    /\ authID \in [Completions -> AuthIDs \cup {None}]
    /\ loaded \in [Completions -> AuthRequests \cup {None}]
    /\ want \in [Redemptions -> TokenRequests \cup {None}]
    /\ read \in [Redemptions -> Codes \cup {None}]
    /\ now \in 0..MaxTime
    /\ updates \in 0..MaxUpdates
    /\ restarts \in 0..MaxRestarts
    /\ asked \in [AuthIDs -> AuthRequests \cup {None}]
    /\ cleared \in SUBSET Completions
    /\ before \in [Calls -> SUBSET Calls]

Init ==
    /\ apps \in [Clients -> [uris : (SUBSET URIs) \ {{}}, pkce : BOOLEAN]]
    /\ authReqs = [a \in AuthIDs |-> None]
    /\ codes = [c \in Completions |-> None]
    /\ pc = [x \in Calls |-> "idle"]
    /\ authID = [c \in Completions |-> None]
    /\ loaded = [c \in Completions |-> None]
    /\ want = [r \in Redemptions |-> None]
    /\ read = [r \in Redemptions |-> None]
    /\ now = 0
    /\ updates = 0
    /\ restarts = 0
    /\ asked = [a \in AuthIDs |-> None]
    /\ cleared = {}
    /\ before = [x \in Calls |-> {}]

Running(x) == pc[x] \in {"loaded", "cleared", "read", "deactivated"}
Ended(x) == pc[x] # "idle" /\ ~Running(x)

\* x begins and is at step s: note which calls of its kind had ended by then.
Begin(x, s, kind) ==
    /\ pc[x] = "idle"
    /\ pc' = [pc EXCEPT ![x] = s]
    /\ before' = [before EXCEPT ![x] = {y \in kind : Ended(y)}]

-----------------------------------------------------------------------------
(* The authorization request.                                              *)

\* validateInitialAuthorizationRequest.  A request without a redirect URI is
\* given the registered one, if there is only one.
ValidRequest(p) ==
    /\ p.uri \in apps[p.client].uris
    /\ apps[p.client].pkce => p.key # None

\* handleInitialAuthorizationRequest: AddRequest stores the request under a new
\* ID.  (When a check or a call fails, nobody learns an ID.)
Authorize(a, p) ==
    /\ asked[a] = None
    /\ ValidRequest(p)
    /\ LET request == [params |-> p, expires |-> now + RequestValidity] IN
       /\ authReqs' = [authReqs EXCEPT ![a] = request]
       /\ asked' = [asked EXCEPT ![a] = request]
    /\ UNCHANGED <<apps, codes, pc, authID, loaded, want, read, now, updates, restarts,
                   cleared, before>>

\* The client's registration is changed by an administrator.
UpdateApp(cl, registration) ==
    /\ updates < MaxUpdates
    /\ updates' = updates + 1
    /\ apps' = [apps EXCEPT ![cl] = registration]
    /\ UNCHANGED <<authReqs, codes, pc, authID, loaded, want, read, now, restarts,
                   asked, cleared, before>>

-----------------------------------------------------------------------------
(* handleAuthorizationResponseFromEngine.                                  *)

\* GetRequest finds the request, and it has not expired.
LoadRequest(c, a) ==
    /\ authReqs[a] # None
    /\ authReqs[a].expires > now
    /\ Begin(c, "loaded", Completions)
    /\ authID' = [authID EXCEPT ![c] = a]
    /\ loaded' = [loaded EXCEPT ![c] = authReqs[a]]
    /\ UNCHANGED <<apps, authReqs, codes, want, read, now, updates, restarts, asked, cleared>>

\* It finds none, or the query fails.
RequestRefused(c) ==
    /\ Begin(c, "refused", Completions)
    /\ UNCHANGED <<apps, authReqs, codes, authID, loaded, want, read, now, updates, restarts,
                   asked, cleared>>

\* ClearRequest; its failure is only logged.
ClearRequest(c) ==
    /\ pc[c] = "loaded"
    /\ pc' = [pc EXCEPT ![c] = "cleared"]
    /\ \/ /\ authReqs' = [authReqs EXCEPT ![authID[c]] = None]
          /\ cleared' = cleared \cup {c}
       \/ UNCHANGED <<authReqs, cleared>>
    /\ UNCHANGED <<apps, codes, authID, loaded, want, read, now, updates, restarts,
                   asked, before>>

\* createAuthorizationCode, for an assertion for user u issued at time iat: the
\* code's lifetime counts from there.
NewCode(c, u, iat) ==
    [params |-> loaded[c].params, user |-> u, active |-> TRUE, expires |-> iat + CodeValidity]

CreateCode(c, u, iat) ==
    /\ pc[c] = "cleared"
    /\ codes' = [codes EXCEPT ![c] = NewCode(c, u, iat)]
    /\ pc' = [pc EXCEPT ![c] = "code"]
    /\ UNCHANGED <<apps, authReqs, authID, loaded, want, read, now, updates, restarts,
                   asked, cleared, before>>

\* The assertion is missing or not valid, or the insert fails: the request is
\* gone nevertheless.
CompletionFails(c) ==
    /\ pc[c] = "cleared"
    /\ pc' = [pc EXCEPT ![c] = "failed"]
    /\ UNCHANGED <<apps, authReqs, codes, authID, loaded, want, read, now, updates, restarts,
                   asked, cleared, before>>

-----------------------------------------------------------------------------
(* The authorization code grant.                                           *)

\* What a token request asks for, with the client's registration as it is read
\* at the beginning of the request.
TokenRequest(code, p) == [code |-> code, params |-> p, pkce |-> apps[p.client].pkce]

\* GetAuthorizationCode: the query is by client and code.
ReadCode(r, code, p) ==
    /\ codes[code] # None
    /\ codes[code].params.client = p.client
    /\ Begin(r, "read", Redemptions)
    /\ want' = [want EXCEPT ![r] = TokenRequest(code, p)]
    /\ read' = [read EXCEPT ![r] = codes[code]]
    /\ UNCHANGED <<apps, authReqs, codes, authID, loaded, now, updates, restarts, asked, cleared>>

\* No such code, a failure, or a request that ValidateGrant or the client
\* authentication refuses: the code is not touched.
TokensRefused(r) ==
    /\ Begin(r, "refused", Redemptions)
    /\ UNCHANGED <<apps, authReqs, codes, authID, loaded, want, read, now, updates, restarts,
                   asked, cleared>>

\* Fault: the code is looked at again after it was deactivated.
DeactivateThenRead(r) ==
    /\ pc[r] = "read"
    /\ codes' = [codes EXCEPT ![want[r].code].active = FALSE]
    /\ read' = [read EXCEPT ![r].active = FALSE]
    /\ pc' = [pc EXCEPT ![r] = "deactivated"]
    /\ UNCHANGED <<apps, authReqs, authID, loaded, want, now, updates, restarts,
                   asked, cleared, before>>

\* DeactivateAuthorizationCode, whatever the state is by now.
Deactivate(r) ==
    /\ pc[r] = "read"
    /\ codes' = [codes EXCEPT ![want[r].code].active = FALSE]
    /\ pc' = [pc EXCEPT ![r] = "deactivated"]
    /\ UNCHANGED <<apps, authReqs, authID, loaded, want, read, now, updates, restarts,
                   asked, cleared, before>>

\* The update fails, or is applied and reported as failed.
DeactivateFails(r) ==
    /\ pc[r] = "read"
    /\ codes' \in {codes, [codes EXCEPT ![want[r].code].active = FALSE]}
    /\ pc' = [pc EXCEPT ![r] = "failed"]
    /\ UNCHANGED <<apps, authReqs, authID, loaded, want, read, now, updates, restarts,
                   asked, cleared, before>>

\* Fault: a key is asked for only from clients that must use one.
KeyProvedIfRequired(r) ==
    want[r].pkce =>
        want[r].params.key # None /\ want[r].params.key = read[r].params.key

\* PKCE, if the client or the authorization request used it.
KeyProved(r) ==
    want[r].pkce \/ read[r].params.key # None =>
        want[r].params.key # None /\ want[r].params.key = read[r].params.key

\* validateAuthorizationCode but for state and time.
Matches(r) ==
    /\ want[r].params.client = read[r].params.client
    /\ want[r].params.uri = read[r].params.uri
    /\ read[r].params.resource # None => want[r].params.resource = read[r].params.resource
    /\ KeyProved(r)

Valid(r) == Matches(r) /\ read[r].active /\ read[r].expires >= now

\* Tokens for the copy that was read, or none because fetching the user or
\* building a token fails.
IssueTokens(r) ==
    /\ pc[r] = "deactivated"
    /\ Valid(r)
    /\ \E answer \in {"tokens", "unbuilt"} : pc' = [pc EXCEPT ![r] = answer]
    /\ UNCHANGED <<apps, authReqs, codes, authID, loaded, want, read, now, updates, restarts,
                   asked, cleared, before>>

\* Fault: a code that is not redeemed is active again.
RejectAndRestore(r) ==
    /\ pc[r] = "deactivated"
    /\ ~Valid(r)
    /\ pc' = [pc EXCEPT ![r] = "rejected"]
    /\ codes' = [codes EXCEPT ![want[r].code] = read[r]]
    /\ UNCHANGED <<apps, authReqs, authID, loaded, want, read, now, updates, restarts,
                   asked, cleared, before>>

Reject(r) ==
    /\ pc[r] = "deactivated"
    /\ ~Valid(r)
    /\ pc' = [pc EXCEPT ![r] = "rejected"]
    /\ UNCHANGED <<apps, authReqs, codes, authID, loaded, want, read, now, updates, restarts,
                   asked, cleared, before>>

-----------------------------------------------------------------------------
Tick ==
    /\ now < MaxTime
    /\ now' = now + 1
    /\ UNCHANGED <<apps, authReqs, codes, pc, authID, loaded, want, read, updates, restarts,
                   asked, cleared, before>>

\* The server stops and starts again: calls in progress end
\* without an answer.
Restart ==
    /\ restarts < MaxRestarts
    /\ restarts' = restarts + 1
    /\ pc' = [x \in Calls |-> IF Running(x) THEN "failed" ELSE pc[x]]
    /\ UNCHANGED <<apps, authReqs, codes, authID, loaded, want, read, now, updates,
                   asked, cleared, before>>

Complete(c) ==
    \/ \E a \in AuthIDs : LoadRequest(c, a)
    \/ RequestRefused(c) \/ ClearRequest(c)
    \/ \E u \in Users, iat \in 0..now : CreateCode(c, u, iat)
    \/ CompletionFails(c)

Redeem(r) ==
    \/ \E code \in Completions, p \in Parameters : ReadCode(r, code, p)
    \/ TokensRefused(r) \/ Deactivate(r) \/ DeactivateFails(r) \/ IssueTokens(r) \/ Reject(r)

Next ==
    \/ \E a \in AuthIDs, p \in Parameters : Authorize(a, p)
    \/ \E cl \in Clients, registration \in [uris : SUBSET URIs, pkce : BOOLEAN] :
          UpdateApp(cl, registration)
    \/ \E c \in Completions : Complete(c)
    \/ \E r \in Redemptions : Redeem(r)
    \/ Tick \/ Restart

Spec == Init /\ [][Next]_authzVars

-----------------------------------------------------------------------------
(* Properties.                                                             *)

SameCode(r, q) == want[q] # None /\ want[q].code = want[r].code

\* r has deactivated the code it read, whatever became of it afterwards.
Spent(r) == pc[r] \in {"tokens", "rejected", "unbuilt"}

\* A code that a redemption has spent, with success or not, yields no tokens to
\* a redemption that begins later (GetAuthorizationCodeDetails deactivates the
\* code before it is checked).
SpentStaysSpent ==
    \A r \in Redemptions : \A q \in before[r] :
        pc[r] = "tokens" /\ SameCode(r, q) => ~Spent(q)

\* Tokens follow an authorization request of the same client with the same
\* redirect URI, for the key and the resource it named: what was asked passes
\* unchanged through two stores and two copies.
TokensAsAuthorized ==
    \A r \in Redemptions : pc[r] = "tokens" =>
        LET c == want[r].code
            p == asked[authID[c]].params
        IN /\ authID[c] # None /\ asked[authID[c]] # None
           /\ p.client = want[r].params.client
           /\ p.uri = want[r].params.uri
           /\ p.key # None => p.key = want[r].params.key
           /\ p.resource # None => p.resource = want[r].params.resource

\* The first redemption of a code is not refused for the redemption's own
\* deactivation: if the request matches, the code must have expired.
FirstRedemptionAccepted ==
    \A r \in Redemptions :
        pc[r] = "rejected" /\ Matches(r) /\ (\A q \in Redemptions \ {r} : ~SameCode(r, q)) =>
            codes[want[r].code].expires < now

\* An authorization request that was removed yields no code to a completion
\* that begins later.
ClearedStaysCleared ==
    \A c \in Completions : \A d \in before[c] \cap cleared :
        pc[c] = "code" => authID[d] # authID[c]

\* What may be used once stays used, the request that a user completes as well as the
\* code that a client redeems, whatever failed in between.
UsedStaysUsed == SpentStaysSpent /\ ClearedStaysCleared

=============================================================================
