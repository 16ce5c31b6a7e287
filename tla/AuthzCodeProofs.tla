-------------------------- MODULE AuthzCodeProofs --------------------------
(***************************************************************************)
(* Proofs about authorization codes, for any number of clients, requests,  *)
(* completions and redemptions and any interleaving, failure and restart.  *)
(***************************************************************************)
EXTENDS AuthzCode, TLAPS

-----------------------------------------------------------------------------
(* The inductive invariant.                                                *)

\* A call that has not begun has asked for nothing.
IdleFresh ==
    /\ \A r \in Redemptions : pc[r] = "idle" => want[r] = None
    /\ \A c \in Completions :
        pc[c] = "idle" => authID[c] = None /\ loaded[c] = None /\ c \notin cleared
    /\ \A r \in Redemptions : before[r] \subseteq Redemptions
    /\ \A x \in Calls : before[x] \subseteq {y \in Calls : Ended(y)}

\* The copies of an authorization request agree with what was asked, and a code
\* with the request it was made from.
RequestCopies ==
    /\ \A a \in AuthIDs : authReqs[a] # None => authReqs[a] = asked[a]
    /\ \A c \in Completions :
        /\ loaded[c] # None =>
              authID[c] \in AuthIDs /\ asked[authID[c]] # None /\ asked[authID[c]] = loaded[c]
        /\ pc[c] \in {"loaded", "cleared", "code"} => loaded[c] # None
        /\ codes[c] # None => pc[c] = "code" /\ codes[c].params = loaded[c].params

\* The copy of a code that a redemption has read agrees with the code, but for
\* its state.
CodeCopies ==
    \A r \in Redemptions :
        /\ read[r] # None =>
              /\ want[r] # None
              /\ codes[want[r].code] # None
              /\ read[r].params = codes[want[r].code].params
              /\ read[r].expires = codes[want[r].code].expires
        /\ pc[r] \in {"read", "deactivated", "rejected", "unbuilt", "tokens"} => read[r] # None

\* A code is inactive once a redemption has deactivated it, and only then.
Deactivated(r) == pc[r] = "deactivated" \/ Spent(r)

InactiveOnce ==
    /\ \A r \in Redemptions : Deactivated(r) => ~codes[want[r].code].active
    /\ \A c \in Completions : codes[c] # None /\ ~codes[c].active =>
          \E q \in Redemptions : want[q] # None /\ want[q].code = c
    /\ \A r \in Redemptions : read[r] # None /\ ~read[r].active =>
          \E q \in Redemptions \ {r} : SameCode(r, q)

\* Who reads a code after a redemption has spent it reads an inactive one.
ReadAfterSpent ==
    \A r \in Redemptions : \A q \in before[r] :
        read[r] # None /\ SameCode(r, q) /\ Spent(q) => ~read[r].active

\* What the answers say about the copy they were decided on.
Decided ==
    \A r \in Redemptions :
        /\ pc[r] = "tokens" => Matches(r) /\ read[r].active
        /\ pc[r] = "rejected" /\ Matches(r) /\ read[r].active => read[r].expires < now

\* A request that was removed is gone, and was not loaded by later calls.
ClearedGone ==
    /\ \A d \in cleared :
        pc[d] # "loaded" /\ authID[d] \in AuthIDs /\ asked[authID[d]] # None
                         /\ authReqs[authID[d]] = None
    /\ \A c \in Completions : \A d \in before[c] \cap cleared :
        loaded[c] # None => authID[d] # authID[c]

IInv ==
    /\ TypeOK
    /\ IdleFresh
    /\ RequestCopies
    /\ CodeCopies
    /\ InactiveOnce
    /\ ReadAfterSpent
    /\ Decided
    /\ ClearedGone

-----------------------------------------------------------------------------
(* The invariant is inductive: the authorization request.                  *)

\* What depends on the calls alone stays when neither they nor their copies change.
LEMMA AuthorizeStep ==
  ASSUME IInv, NEW a \in AuthIDs, NEW p \in Parameters, Authorize(a, p)
  PROVE  IInv'
<1> DEFINE request == [params |-> p, expires |-> now + RequestValidity]
<1>1. request \in AuthRequests /\ request # None
  BY TimeAssumption, NoRowAssumption DEF IInv, TypeOK, AuthRequests
<1>2. /\ asked[a] = None
      /\ authReqs' = [authReqs EXCEPT ![a] = request]
      /\ asked' = [asked EXCEPT ![a] = request]
      /\ UNCHANGED <<apps, codes, pc, authID, loaded, want, read, now, updates, restarts,
                     cleared, before>>
  BY DEF Authorize
<1> HIDE DEF request
<1>3. TypeOK'
  BY <1>1, <1>2 DEF IInv, TypeOK
<1>4. IdleFresh'
  BY <1>2 DEF IInv, IdleFresh, Ended, Running
<1>5. RequestCopies'
  BY <1>1, <1>2 DEF IInv, TypeOK, RequestCopies
<1>6. CodeCopies' /\ InactiveOnce' /\ ReadAfterSpent' /\ Decided'
  BY <1>2 DEF IInv, CodeCopies, InactiveOnce, ReadAfterSpent, Decided, Deactivated, Spent,
              SameCode, Matches, KeyProved
<1>7. ClearedGone'
  BY <1>2 DEF IInv, TypeOK, ClearedGone
<1> QED BY <1>3, <1>4, <1>5, <1>6, <1>7 DEF IInv

\* Registrations, the clock and restarts.
LEMMA EnvironmentStep ==
  ASSUME IInv,
         \/ \E cl \in Clients, registration \in [uris : SUBSET URIs, pkce : BOOLEAN] :
              UpdateApp(cl, registration)
         \/ Tick
         \/ Restart
  PROVE  IInv'
<1>1. /\ UNCHANGED <<authReqs, codes, authID, loaded, want, read, asked, cleared, before>>
      /\ now' \in Nat /\ now' >= now /\ now \in Nat
      /\ \A x \in Calls : pc'[x] = pc[x] \/ (Running(x) /\ pc'[x] = "failed")
  <2>1. now \in Nat
    BY TimeAssumption DEF IInv, TypeOK
  <2>2. CASE \E cl \in Clients, registration \in [uris : SUBSET URIs, pkce : BOOLEAN] :
               UpdateApp(cl, registration)
    <3>1. /\ UNCHANGED <<authReqs, codes, authID, loaded, want, read, asked, cleared, before>>
          /\ pc' = pc /\ now' = now
      BY <2>2 DEF UpdateApp
    <3> QED BY <2>1, <3>1 DEF Running
  <2>3. CASE Tick
    <3>1. /\ UNCHANGED <<authReqs, codes, authID, loaded, want, read, asked, cleared, before>>
          /\ pc' = pc /\ now' = now + 1
      BY <2>3 DEF Tick
    <3> QED BY <2>1, <3>1 DEF Running
  <2>4. CASE Restart
    <3>1. /\ UNCHANGED <<authReqs, codes, authID, loaded, want, read, asked, cleared, before>>
          /\ now' = now
          /\ pc' = [x \in Calls |-> IF Running(x) THEN "failed" ELSE pc[x]]
      BY <2>4 DEF Restart
    <3>2. \A x \in Calls : pc'[x] = pc[x] \/ (Running(x) /\ pc'[x] = "failed")
      BY <3>1 DEF Running
    <3> QED BY <2>1, <3>1, <3>2 DEF Running
  <2> QED BY <2>2, <2>3, <2>4
<1>2. TypeOK'
  <2>1. CASE \E cl \in Clients, registration \in [uris : SUBSET URIs, pkce : BOOLEAN] :
               UpdateApp(cl, registration)
    BY <2>1, TimeAssumption DEF UpdateApp, IInv, TypeOK
  <2>2. CASE Tick
    BY <2>2, TimeAssumption DEF Tick, IInv, TypeOK
  <2>3. CASE Restart
    BY <2>3, TimeAssumption DEF Restart, IInv, TypeOK
  <2> QED BY <2>1, <2>2, <2>3
<1>3. \A x \in Calls : /\ Ended(x) => pc'[x] = pc[x]
                       /\ pc'[x] = "idle" <=> pc[x] = "idle"
                       /\ pc'[x] # "failed" => pc'[x] = pc[x]
  BY <1>1 DEF Ended, Running
<1>4. Completions \subseteq Calls /\ Redemptions \subseteq Calls
  BY DEF Calls
<1>5. IdleFresh'
  BY <1>1, <1>3, <1>4 DEF IInv, IdleFresh, Ended, Running
<1>6. RequestCopies' /\ CodeCopies' /\ ClearedGone'
  BY <1>1, <1>3, <1>4 DEF IInv, TypeOK, RequestCopies, CodeCopies, ClearedGone, Running
<1>7. InactiveOnce' /\ ReadAfterSpent'
  <2>1. \A r \in Redemptions : \A q \in before[r] : q \in Calls
    BY <1>4 DEF IInv, TypeOK
  <2> QED BY <1>1, <1>3, <1>4, <2>1
          DEF IInv, InactiveOnce, ReadAfterSpent, Deactivated, Spent, SameCode
<1>8. Decided'
  <2>1. \A r \in Redemptions : Matches(r)' <=> Matches(r)
    BY <1>1 DEF Matches, KeyProved
  <2>2. \A r \in Redemptions : read[r] # None => read[r].expires \in Nat
    BY DEF IInv, TypeOK, Codes
  <2>3. \A r \in Redemptions : pc[r] = "rejected" => read[r] # None
    BY DEF IInv, CodeCopies
  <2> QED BY <1>1, <1>3, <1>4, <2>1, <2>2, <2>3 DEF IInv, Decided
<1> QED BY <1>2, <1>5, <1>6, <1>7, <1>8 DEF IInv

\* A call is refused at once: it ends without a copy of anything.
LEMMA RefusedStep ==
  ASSUME IInv, NEW x \in Calls, pc[x] = "idle", pc' = [pc EXCEPT ![x] = "refused"],
         NEW kind \in {Completions, Redemptions}, x \in kind,
         before' = [before EXCEPT ![x] = {y \in kind : Ended(y)}],
         UNCHANGED <<apps, authReqs, codes, authID, loaded, want, read, now, updates, restarts,
                     asked, cleared>>
  PROVE  IInv'
<1>1. /\ \A y \in Calls \ {x} : pc'[y] = pc[y] /\ before'[y] = before[y]
      /\ pc'[x] = "refused" /\ before'[x] = {y \in kind : Ended(y)}
  BY DEF IInv, TypeOK
<1>2. TypeOK'
  BY DEF IInv, TypeOK, Calls
<1>3. Completions \subseteq Calls /\ Redemptions \subseteq Calls
  BY DEF Calls
<1>4. \A y \in Calls : Ended(y) => y # x /\ pc'[y] = pc[y]
  BY <1>1 DEF Ended
<1>5. IdleFresh'
  <2>1. \A z \in Calls : before'[z] \subseteq {y \in Calls : pc'[y] = pc[y] /\ Ended(y)}
    BY <1>1, <1>3, <1>4 DEF IInv, IdleFresh
  <2>2. \A z \in Calls : before'[z] \subseteq {y \in Calls : Ended(y)'}
    BY <2>1 DEF Ended, Running
  <2>3. \A r \in Redemptions : before'[r] \subseteq Redemptions
    BY <1>1, <1>3, NamesAssumption DEF IInv, IdleFresh
  <2> QED BY <1>1, <1>3, <2>2, <2>3 DEF IInv, IdleFresh
<1>6. RequestCopies' /\ CodeCopies'
  BY <1>1, <1>3 DEF IInv, RequestCopies, CodeCopies
<1>7. /\ read[x] = None \/ x \in Completions
      /\ loaded[x] = None \/ x \in Redemptions
      /\ x \notin cleared
  BY NamesAssumption DEF IInv, TypeOK, IdleFresh, CodeCopies, Calls
<1>8. InactiveOnce' /\ Decided'
  BY <1>1, <1>3 DEF IInv, InactiveOnce, Decided, Deactivated, Spent, SameCode, Matches, KeyProved
<1>9. ReadAfterSpent'
  <2>1. \A r \in Redemptions \ {x} : before'[r] = before[r]
    BY <1>1, <1>3
  <2>2. \A q \in Redemptions : Spent(q)' => Spent(q)
    BY <1>1, <1>3 DEF Spent
  <2>3. \A r \in Redemptions \ {x} : \A q \in before[r] : q \in Redemptions
    BY DEF IInv, IdleFresh
  <2>4. x \in Redemptions => read[x] = None
    BY <1>7, NamesAssumption
  <2> QED BY <2>1, <2>2, <2>3, <2>4 DEF IInv, ReadAfterSpent, SameCode
<1>10. ClearedGone'
  <2>1. \A d \in cleared : d \in Calls /\ pc'[d] = pc[d]
    BY <1>1, <1>3, <1>7 DEF IInv, TypeOK
  <2>2. \A c \in Completions \ {x} : before'[c] = before[c]
    BY <1>1, <1>3
  <2>3. x \in Completions => loaded[x] = None
    BY <1>7, NamesAssumption
  <2> QED BY <2>1, <2>2, <2>3 DEF IInv, ClearedGone
<1> QED BY <1>2, <1>5, <1>6, <1>8, <1>9, <1>10 DEF IInv

-----------------------------------------------------------------------------
(* Completions.                                                            *)

\* A completion moves: redemptions are not concerned.
LEMMA CompletionMoves ==
  ASSUME IInv, NEW c \in Completions,
         \A x \in Calls \ {c} : pc'[x] = pc[x] /\ before'[x] = before[x],
         UNCHANGED <<want, read, now>>
  PROVE  /\ \A r \in Redemptions : pc'[r] = pc[r] /\ before'[r] = before[r]
         /\ \A r \in Redemptions : Matches(r)' <=> Matches(r)
         /\ \A r, q \in Redemptions : SameCode(r, q)' <=> SameCode(r, q)
         /\ Decided' /\ ReadAfterSpent'
<1>1. \A r \in Redemptions : pc'[r] = pc[r] /\ before'[r] = before[r]
  BY NamesAssumption DEF Calls
<1>2. \A r \in Redemptions : Matches(r)' <=> Matches(r)
  BY DEF Matches, KeyProved
<1>3. \A r, q \in Redemptions : SameCode(r, q)' <=> SameCode(r, q)
  BY DEF SameCode
<1>4. Decided'
  BY <1>1, <1>2 DEF IInv, Decided
<1>5. ReadAfterSpent'
  BY <1>1, <1>3 DEF IInv, IdleFresh, ReadAfterSpent, Spent
<1> QED BY <1>1, <1>2, <1>3, <1>4, <1>5

LEMMA LoadStep ==
  ASSUME IInv, NEW c \in Completions, NEW a \in AuthIDs, LoadRequest(c, a)
  PROVE  IInv'
<1>1. /\ pc[c] = "idle" /\ pc' = [pc EXCEPT ![c] = "loaded"]
      /\ before' = [before EXCEPT ![c] = {y \in Completions : Ended(y)}]
      /\ loaded' = [loaded EXCEPT ![c] = authReqs[a]] /\ authReqs[a] # None
      /\ authID' = [authID EXCEPT ![c] = a]
      /\ UNCHANGED <<apps, authReqs, codes, want, read, now, updates, restarts, asked, cleared>>
  BY DEF LoadRequest, Begin
<1>2. c \in Calls
  BY DEF Calls
<1>3. TypeOK'
  BY <1>1, <1>2 DEF IInv, TypeOK, Calls
<1>4. /\ \A x \in Calls \ {c} : pc'[x] = pc[x] /\ before'[x] = before[x]
      /\ pc'[c] = "loaded" /\ before'[c] = {y \in Completions : Ended(y)}
      /\ loaded[c] = None /\ authID[c] = None /\ c \notin cleared
  BY <1>1, <1>2 DEF IInv, TypeOK, IdleFresh
<1>5. \A x \in Calls : Ended(x) => x # c /\ pc'[x] = pc[x]
  BY <1>1, <1>4 DEF Ended
<1>6. Decided' /\ ReadAfterSpent'
  BY <1>1, <1>4, CompletionMoves
<1>7. \A r \in Redemptions : pc'[r] = pc[r]
  BY <1>1, <1>4, CompletionMoves
<1>8. IdleFresh'
  <2>1. \A x \in Calls : before'[x] \subseteq {y \in Calls : pc'[y] = pc[y] /\ Ended(y)}
    BY <1>4, <1>5 DEF IInv, IdleFresh, Calls
  <2>2. \A x \in Calls : before'[x] \subseteq {y \in Calls : Ended(y)'}
    BY <2>1 DEF Ended, Running
  <2>3. \A d \in Completions : pc'[d] = "idle" => authID'[d] = None /\ loaded'[d] = None /\ d \notin cleared
    BY <1>1, <1>4 DEF IInv, TypeOK, IdleFresh, Calls
  <2>4. \A r \in Redemptions : before'[r] = before[r]
    BY <1>4, NamesAssumption DEF Calls
  <2> QED BY <1>1, <1>7, <2>2, <2>3, <2>4 DEF IInv, IdleFresh
<1>9. RequestCopies'
  <2>1. codes[c] = None
    BY <1>1 DEF IInv, RequestCopies
  <2> QED BY <1>1, <1>2, <1>4, <2>1 DEF IInv, TypeOK, RequestCopies, Calls
<1>10. CodeCopies' /\ InactiveOnce'
  BY <1>1, <1>7 DEF IInv, CodeCopies, InactiveOnce, Deactivated, Spent, SameCode
<1>11. ClearedGone'
  <2>1. \A d \in cleared : d \in Calls /\ d # c /\ authID'[d] = authID[d] /\ pc'[d] = pc[d]
    BY <1>1, <1>4 DEF IInv, TypeOK, Calls
  <2>2. loaded'[c] # None => loaded'[c] = authReqs[a] /\ authReqs[a] # None /\ authID'[c] = a
    BY <1>1, <1>4 DEF IInv, TypeOK
  <2>3. \A d \in Completions \ {c} :
          loaded'[d] = loaded[d] /\ authID'[d] = authID[d] /\ before'[d] = before[d]
    BY <1>1, <1>4 DEF IInv, TypeOK, Calls
  <2> QED BY <1>1, <2>1, <2>2, <2>3 DEF IInv, ClearedGone
<1> QED BY <1>3, <1>6, <1>8, <1>9, <1>10, <1>11 DEF IInv

LEMMA ClearStep ==
  ASSUME IInv, NEW c \in Completions, ClearRequest(c)
  PROVE  IInv'
<1>1. /\ pc[c] = "loaded" /\ pc' = [pc EXCEPT ![c] = "cleared"]
      /\ \/ /\ authReqs' = [authReqs EXCEPT ![authID[c]] = None]
            /\ cleared' = cleared \cup {c}
         \/ UNCHANGED <<authReqs, cleared>>
      /\ UNCHANGED <<apps, codes, authID, loaded, want, read, now, updates, restarts,
                     asked, before>>
  BY DEF ClearRequest
<1>2. c \in Calls
  BY DEF Calls
<1>3. TypeOK'
  BY <1>1, <1>2 DEF IInv, TypeOK
<1>4. /\ \A x \in Calls \ {c} : pc'[x] = pc[x] /\ before'[x] = before[x]
      /\ pc'[c] = "cleared"
      /\ loaded[c] # None /\ authID[c] \in AuthIDs /\ asked[authID[c]] # None
  BY <1>1, <1>2 DEF IInv, TypeOK, RequestCopies
<1>5. \A x \in Calls : Ended(x) => x # c /\ pc'[x] = pc[x]
  BY <1>1, <1>4 DEF Ended, Running
<1>6. Decided' /\ ReadAfterSpent'
  BY <1>1, <1>4, CompletionMoves
<1>7. \A r \in Redemptions : pc'[r] = pc[r]
  BY <1>1, <1>4, CompletionMoves
<1>8. IdleFresh'
  <2>1. \A x \in Calls : before'[x] \subseteq {y \in Calls : Ended(y)'}
    BY <1>1, <1>5 DEF IInv, IdleFresh, Ended, Running
  <2>2. \A d \in Completions : pc'[d] = "idle" => authID'[d] = None /\ loaded'[d] = None /\ d \notin cleared'
    BY <1>1, <1>4 DEF IInv, IdleFresh, Calls
  <2> QED BY <1>1, <1>7, <2>1, <2>2 DEF IInv, IdleFresh
<1>9. RequestCopies'
  <2>1. codes[c] = None
    BY <1>1 DEF IInv, RequestCopies
  <2> QED BY <1>1, <1>2, <1>4, <2>1 DEF IInv, TypeOK, RequestCopies, Calls
<1>10. CodeCopies' /\ InactiveOnce'
  BY <1>1, <1>7 DEF IInv, CodeCopies, InactiveOnce, Deactivated, Spent, SameCode
<1>11. ClearedGone'
  <2>1. \A x \in Calls : c \notin before[x]
    BY <1>5 DEF IInv, IdleFresh
  <2>2. \A d \in cleared' : d \in Calls /\ pc'[d] # "loaded" /\ authID[d] \in AuthIDs
                             /\ asked[authID[d]] # None /\ authReqs'[authID[d]] = None
    BY <1>1, <1>4 DEF IInv, TypeOK, ClearedGone, Calls
  <2>3. \A d \in Completions : before[d] \cap cleared' = before[d] \cap cleared
    BY <1>1, <2>1 DEF Calls
  <2> QED BY <1>1, <2>2, <2>3 DEF IInv, ClearedGone
<1> QED BY <1>3, <1>6, <1>8, <1>9, <1>10, <1>11 DEF IInv

\* A completion ends, with a code or without.
LEMMA CompletionEnds ==
  ASSUME IInv, NEW c \in Completions,
         \/ CompletionFails(c)
         \/ \E u \in Users, iat \in 0..now : CreateCode(c, u, iat)
  PROVE  IInv'
<1>1. /\ pc[c] = "cleared"
      /\ \/ codes' = codes /\ pc' = [pc EXCEPT ![c] = "failed"]
         \/ \E u \in Users, iat \in 0..now :
              codes' = [codes EXCEPT ![c] = NewCode(c, u, iat)] /\ pc' = [pc EXCEPT ![c] = "code"]
      /\ UNCHANGED <<apps, authReqs, authID, loaded, want, read, now, updates, restarts,
                     asked, cleared, before>>
  BY DEF CompletionFails, CreateCode
<1>2. c \in Calls /\ codes[c] = None /\ loaded[c] \in AuthRequests
  BY <1>1 DEF Calls, IInv, TypeOK, RequestCopies
<1>3. \A u \in Users, iat \in 0..now :
        /\ NewCode(c, u, iat) \in Codes /\ NewCode(c, u, iat) # None
        /\ NewCode(c, u, iat).params = loaded[c].params /\ NewCode(c, u, iat).active = TRUE
  <2> SUFFICES ASSUME NEW u \in Users, NEW iat \in 0..now
               PROVE  /\ NewCode(c, u, iat) \in Codes /\ NewCode(c, u, iat) # None
                      /\ NewCode(c, u, iat).params = loaded[c].params
                      /\ NewCode(c, u, iat).active = TRUE
    OBVIOUS
  <2>1. iat + CodeValidity \in Nat
    BY TimeAssumption DEF IInv, TypeOK
  <2>2. loaded[c].params \in Parameters
    BY <1>2 DEF AuthRequests
  <2>3. NewCode(c, u, iat) \in Codes
    BY <2>1, <2>2 DEF NewCode, Codes
  <2> QED BY <2>3, NoRowAssumption DEF NewCode
<1>4. \/ codes' = codes /\ pc' = [pc EXCEPT ![c] = "failed"]
      \/ \E n \in Codes : /\ codes' = [codes EXCEPT ![c] = n] /\ pc' = [pc EXCEPT ![c] = "code"]
                          /\ n # None /\ n.params = loaded[c].params /\ n.active = TRUE
  BY <1>1, <1>3
<1>5. TypeOK'
  BY <1>1, <1>2, <1>4 DEF IInv, TypeOK
<1>6. /\ \A x \in Calls \ {c} : pc'[x] = pc[x] /\ before'[x] = before[x]
      /\ pc'[c] \in {"failed", "code"}
  BY <1>1, <1>2, <1>4 DEF IInv, TypeOK
<1>7. \A x \in Calls : Ended(x) => x # c /\ pc'[x] = pc[x]
  BY <1>1, <1>6 DEF Ended, Running
<1>8. Decided' /\ ReadAfterSpent'
  BY <1>1, <1>6, CompletionMoves
<1>9. \A r \in Redemptions : pc'[r] = pc[r]
  BY <1>1, <1>6, CompletionMoves
<1>10. IdleFresh'
  <2>1. \A x \in Calls : before'[x] \subseteq {y \in Calls : Ended(y)'}
    BY <1>1, <1>7 DEF IInv, IdleFresh, Ended, Running
  <2>2. \A d \in Completions : pc'[d] = "idle" => authID'[d] = None /\ loaded'[d] = None /\ d \notin cleared'
    BY <1>1, <1>6 DEF IInv, IdleFresh, Calls
  <2> QED BY <1>1, <1>9, <2>1, <2>2 DEF IInv, IdleFresh
<1>11. /\ codes'[c] # None => pc'[c] = "code" /\ codes'[c].params = loaded[c].params
                             /\ codes'[c].active = TRUE
       /\ \A d \in Completions \ {c} : codes'[d] = codes[d]
  BY <1>1, <1>2, <1>4 DEF IInv, TypeOK
<1>12. RequestCopies'
  BY <1>1, <1>2, <1>6, <1>11 DEF IInv, RequestCopies, Calls
\* Nobody has read the code before.
<1>13. \A r \in Redemptions : read[r] # None => want[r].code # c /\ want[r].code \in Completions
  BY <1>2 DEF IInv, TypeOK, CodeCopies, TokenRequests
<1>14. CodeCopies'
  BY <1>1, <1>9, <1>11, <1>13 DEF IInv, CodeCopies
<1>15. InactiveOnce'
  <2>1. \A r \in Redemptions : Deactivated(r)' <=> Deactivated(r)
    BY <1>9 DEF Deactivated, Spent
  <2>2. \A r \in Redemptions : Deactivated(r) => read[r] # None
    BY DEF IInv, CodeCopies, Deactivated, Spent
  <2> QED BY <1>1, <1>11, <1>13, <2>1, <2>2 DEF IInv, InactiveOnce, SameCode
<1>16. ClearedGone'
  BY <1>1, <1>6 DEF IInv, TypeOK, ClearedGone, Calls
<1> QED BY <1>5, <1>8, <1>10, <1>12, <1>14, <1>15, <1>16 DEF IInv

-----------------------------------------------------------------------------
(* Redemptions.                                                            *)

\* A redemption begins: it reads the code.
LEMMA AskStep ==
  ASSUME IInv, NEW r \in Redemptions, NEW code \in Completions, NEW p \in Parameters,
         ReadCode(r, code, p)
  PROVE  IInv'
<1> DEFINE request == [code |-> code, params |-> p, pkce |-> apps[p.client].pkce]
<1>1. /\ pc[r] = "idle"
      /\ pc' = [pc EXCEPT ![r] = "read"]
      /\ codes[code] # None
      /\ read' = [read EXCEPT ![r] = codes[code]]
      /\ want' = [want EXCEPT ![r] = request]
      /\ before' = [before EXCEPT ![r] = {y \in Redemptions : Ended(y)}]
      /\ UNCHANGED <<apps, authReqs, codes, authID, loaded, now, updates, restarts, asked, cleared>>
  BY DEF ReadCode, TokenRequest, Begin
<1>2. request \in TokenRequests /\ request # None /\ request.code = code
  BY NoRowAssumption DEF TokenRequests, IInv, TypeOK, Parameters
<1> HIDE DEF request
<1>3. r \in Calls /\ r \notin Completions /\ want[r] = None /\ read[r] = None
  BY <1>1, NamesAssumption DEF Calls, IInv, IdleFresh, CodeCopies
<1>4. TypeOK'
  BY <1>1, <1>2, <1>3 DEF IInv, TypeOK, Calls
<1>5. /\ \A x \in Calls \ {r} : pc'[x] = pc[x] /\ before'[x] = before[x]
      /\ pc'[r] = "read" /\ before'[r] = {y \in Redemptions : Ended(y)}
      /\ \A q \in Redemptions \ {r} : want'[q] = want[q] /\ read'[q] = read[q]
      /\ want'[r] = request /\ read'[r] = codes[code] /\ read'[r] # None
  BY <1>1, <1>3 DEF IInv, TypeOK
<1>6. \A x \in Calls : Ended(x) => x # r /\ pc'[x] = pc[x]
  BY <1>1, <1>5 DEF Ended
<1>7. /\ \A c \in Completions : pc'[c] = pc[c] /\ before'[c] = before[c]
      /\ \A q \in Redemptions \ {r} : pc'[q] = pc[q] /\ before'[q] = before[q]
  BY <1>3, <1>5 DEF Calls
<1>8. IdleFresh'
  <2>1. \A x \in Calls : before'[x] \subseteq {y \in Calls : pc'[y] = pc[y] /\ Ended(y)}
    BY <1>5, <1>6 DEF IInv, IdleFresh, Calls
  <2>2. \A x \in Calls : before'[x] \subseteq {y \in Calls : Ended(y)'}
    BY <2>1 DEF Ended, Running
  <2> QED BY <1>1, <1>5, <1>7, <2>2 DEF IInv, IdleFresh
<1>9. RequestCopies' /\ ClearedGone'
  <2>1. RequestCopies'
    BY <1>1, <1>7 DEF IInv, RequestCopies
  <2>2. \A c \in cleared : c \in Completions
    BY DEF IInv, TypeOK
  <2>3. ClearedGone'
    BY <1>1, <1>7, <2>2 DEF IInv, ClearedGone
  <2> QED BY <2>1, <2>3
<1>10. CodeCopies'
  BY <1>1, <1>2, <1>5, <1>7 DEF IInv, CodeCopies
<1>11. InactiveOnce'
  <2>1. \A q \in Redemptions : Deactivated(q)' => q # r /\ Deactivated(q)
    BY <1>5, <1>7 DEF Deactivated, Spent
  <2>2. (\A q \in Redemptions : Deactivated(q) => ~codes[want[q].code].active)'
    BY <1>1, <1>5, <2>1 DEF IInv, InactiveOnce
  <2>3. \A c \in Completions : codes[c] # None /\ ~codes[c].active =>
           \E q \in Redemptions \ {r} : want'[q] # None /\ want'[q].code = c
    BY <1>3, <1>5 DEF IInv, InactiveOnce
  <2>4. ASSUME NEW q \in Redemptions, read'[q] # None, ~read'[q].active
        PROVE  \E x \in Redemptions \ {q} : want'[x] # None /\ want'[x].code = want'[q].code
    <3>1. CASE q = r
      BY <1>2, <1>5, <2>3, <2>4, <3>1
    <3>2. CASE q # r
      BY <1>3, <1>5, <2>4, <3>2 DEF IInv, InactiveOnce, SameCode
    <3> QED BY <3>1, <3>2
  <2> QED BY <1>1, <2>2, <2>3, <2>4 DEF InactiveOnce, SameCode
<1>12. ReadAfterSpent'
  <2> SUFFICES ASSUME NEW x \in Redemptions, NEW q \in before'[x],
                      read'[x] # None, want'[q] # None, want'[q].code = want'[x].code, Spent(q)'
               PROVE  ~read'[x].active
    BY DEF ReadAfterSpent, SameCode
  <2>1. q \in Redemptions
    BY <1>5, <1>7 DEF IInv, IdleFresh
  <2>4. q # r /\ Spent(q) /\ want'[q] = want[q]
    BY <1>5, <1>7, <2>1 DEF Spent
  <2>2. CASE x = r
    BY <1>2, <1>5, <2>1, <2>2, <2>4 DEF IInv, InactiveOnce, Deactivated
  <2>3. CASE x # r
    BY <1>5, <1>7, <2>1, <2>3, <2>4 DEF IInv, ReadAfterSpent, SameCode
  <2> QED BY <2>2, <2>3
<1>13. Decided'
  BY <1>1, <1>5, <1>7 DEF IInv, Decided, Matches, KeyProved
<1> QED BY <1>4, <1>8, <1>9, <1>10, <1>11, <1>12, <1>13 DEF IInv

\* A redemption goes on with the copy it has: the code becomes inactive, or the
\* answer is decided.
LEMMA RedeemStep ==
  ASSUME IInv, NEW r \in Redemptions,
         Deactivate(r) \/ DeactivateFails(r) \/ IssueTokens(r) \/ Reject(r)
  PROVE  IInv'
<1> DEFINE code == want[r].code
<1>1. /\ pc[r] \in {"read", "deactivated"}
      /\ \E s \in {"deactivated", "failed", "tokens", "unbuilt", "rejected"} :
            /\ pc' = [pc EXCEPT ![r] = s]
            /\ s \in {"tokens", "unbuilt", "rejected"} => pc[r] = "deactivated"
            /\ s = "tokens" => Valid(r)
            /\ s = "rejected" => ~Valid(r)
            /\ s = "deactivated" => codes' = [codes EXCEPT ![code].active = FALSE]
      /\ codes' \in {codes, [codes EXCEPT ![code].active = FALSE]}
      /\ UNCHANGED <<apps, authReqs, authID, loaded, want, read, now, updates, restarts,
                     asked, cleared, before>>
  BY DEF Deactivate, DeactivateFails, IssueTokens, Reject
<1>2. /\ r \in Calls /\ r \notin Completions /\ read[r] # None /\ read[r] \in Codes
      /\ want[r] # None /\ code \in Completions /\ codes[code] # None /\ codes[code] \in Codes
      /\ read[r].expires = codes[code].expires
  BY <1>1, NamesAssumption DEF Calls, IInv, TypeOK, CodeCopies, TokenRequests
<1> HIDE DEF code
<1>3. [codes[code] EXCEPT !.active = FALSE] \in Codes
  BY <1>2 DEF Codes
<1>4. TypeOK'
  <2>1. codes' \in [Completions -> Codes \cup {None}]
    BY <1>1, <1>2, <1>3 DEF IInv, TypeOK
  <2>2. pc' \in [Calls -> {"idle", "loaded", "cleared", "read", "deactivated",
                         "refused", "failed", "code", "rejected", "unbuilt", "tokens"}]
    BY <1>1, <1>2 DEF IInv, TypeOK
  <2> QED BY <1>1, <2>1, <2>2 DEF IInv, TypeOK
<1>5. /\ \A x \in Calls \ {r} : pc'[x] = pc[x]
      /\ pc'[r] \in {"deactivated", "failed", "tokens", "unbuilt", "rejected"}
      /\ pc'[r] \in {"tokens", "unbuilt", "rejected"} => pc[r] = "deactivated"
      /\ pc'[r] = "tokens" => Valid(r)
      /\ pc'[r] = "rejected" => ~Valid(r)
      /\ pc'[r] = "deactivated" => codes' = [codes EXCEPT ![code].active = FALSE]
  BY <1>1, <1>2 DEF IInv, TypeOK
<1>6. \A x \in Calls : Ended(x) => x # r /\ pc'[x] = pc[x]
  BY <1>1, <1>5 DEF Ended, Running
<1>7. \A x \in Calls : r \notin before[x]
  BY <1>6 DEF IInv, IdleFresh
\* A code keeps everything but its state, and is never active again.
<1>8. \A c \in Completions : codes[c] # None =>
        /\ codes'[c] # None /\ codes'[c].params = codes[c].params
        /\ codes'[c].expires = codes[c].expires
        /\ ~codes[c].active => ~codes'[c].active
        /\ c # code => codes'[c] = codes[c]
  <2>1. codes'[code] \in {codes[code], [codes[code] EXCEPT !.active = FALSE]}
    BY <1>1, <1>2 DEF IInv, TypeOK
  <2>2. codes'[code] # None
    BY <1>2, <1>3, <2>1, NoRowAssumption
  <2>3. /\ codes'[code].params = codes[code].params
        /\ codes'[code].expires = codes[code].expires
        /\ ~codes[code].active => ~codes'[code].active
    BY <1>2, <2>1 DEF Codes
  <2>4. \A c \in Completions \ {code} : codes'[c] = codes[c]
    BY <1>1, <1>2 DEF IInv, TypeOK
  <2> QED BY <2>2, <2>3, <2>4
<1>9. \A c \in Completions : codes[c] = None => codes'[c] = None
  BY <1>1, <1>2 DEF IInv, TypeOK
<1>10. /\ \A c \in Completions : pc'[c] = pc[c]
       /\ \A q \in Redemptions \ {r} : pc'[q] = pc[q]
  BY <1>2, <1>5 DEF Calls
<1>11. IdleFresh'
  <2>1. \A x \in Calls : before'[x] \subseteq {y \in Calls : Ended(y)'}
    BY <1>1, <1>6 DEF IInv, IdleFresh, Ended, Running
  <2> QED BY <1>1, <1>5, <1>10, <2>1 DEF IInv, IdleFresh
<1>12. RequestCopies'
  BY <1>1, <1>8, <1>9, <1>10 DEF IInv, RequestCopies
<1>13. ClearedGone'
  BY <1>1, <1>10 DEF IInv, TypeOK, ClearedGone
<1>14. CodeCopies'
  <2>1. \A q \in Redemptions : read[q] # None => want[q].code \in Completions
    BY DEF IInv, TypeOK, CodeCopies, TokenRequests
  <2> QED BY <1>1, <1>2, <1>5, <1>8, <1>10, <2>1 DEF IInv, CodeCopies
<1>15. InactiveOnce'
  <2>1. ASSUME NEW q \in Redemptions, pc'[q] \in {"deactivated", "tokens", "rejected", "unbuilt"}
        PROVE  ~codes'[want[q].code].active
    <3>1. CASE q = r /\ pc'[r] = "deactivated"
      BY <1>2, <1>5, <3>1 DEF IInv, TypeOK, Codes, code
    <3>2. CASE q # r \/ pc'[r] # "deactivated"
      <4>1. Deactivated(q) /\ ~codes[want[q].code].active
        BY <1>5, <1>10, <2>1, <3>2 DEF IInv, InactiveOnce, Deactivated, Spent
      <4>2. want[q].code \in Completions /\ codes[want[q].code] # None
        BY <4>1 DEF IInv, TypeOK, CodeCopies, TokenRequests, Deactivated, Spent
      <4> QED BY <1>8, <4>1, <4>2
    <3> QED BY <3>1, <3>2
  <2>2. ASSUME NEW c \in Completions, codes'[c] # None, ~codes'[c].active
        PROVE  \E q \in Redemptions : want[q] # None /\ want[q].code = c
    <3>1. CASE c = code
      BY <1>2, <3>1 DEF code
    <3>2. CASE c # code
      BY <1>8, <1>9, <2>2, <3>2 DEF IInv, InactiveOnce
    <3> QED BY <3>1, <3>2
  <2> QED BY <1>1, <2>1, <2>2 DEF IInv, InactiveOnce, SameCode, Deactivated, Spent
<1>16. ReadAfterSpent'
  BY <1>1, <1>7, <1>10 DEF IInv, TypeOK, ReadAfterSpent, SameCode, Spent, Calls
<1>17. Decided'
  <2>1. \A q \in Redemptions : Matches(q)' <=> Matches(q)
    BY <1>1 DEF Matches, KeyProved
  <2>2. now \in Nat /\ read[r].expires \in Nat
    BY <1>2, TimeAssumption DEF IInv, TypeOK, Codes
  <2> QED BY <1>1, <1>5, <1>10, <2>1, <2>2 DEF IInv, Decided, Valid
<1> QED BY <1>4, <1>11, <1>12, <1>13, <1>14, <1>15, <1>16, <1>17 DEF IInv
-----------------------------------------------------------------------------
(* The invariance of IInv.                                                 *)

LEMMA InitInvariant == Init => IInv
<1> SUFFICES ASSUME Init PROVE IInv
  OBVIOUS
<1>1. TypeOK
  BY TimeAssumption DEF Init, TypeOK
<1>2. \A x \in Completions \cup Redemptions : x \in Calls
  BY DEF Calls
<1>3. IdleFresh
  BY <1>2 DEF Init, IdleFresh
<1>4. RequestCopies /\ CodeCopies
  BY <1>2 DEF Init, RequestCopies, CodeCopies
<1>5. InactiveOnce /\ ReadAfterSpent
  BY <1>2 DEF Init, InactiveOnce, ReadAfterSpent, Deactivated, Spent, SameCode
<1>6. Decided /\ ClearedGone
  BY <1>2 DEF Init, Decided, ClearedGone
<1> QED BY <1>1, <1>3, <1>4, <1>5, <1>6 DEF IInv

\* A step that leaves every variable alone.
LEMMA StutterStep ==
  ASSUME IInv, UNCHANGED authzVars
  PROVE  IInv'
<1>1. TypeOK'
  BY DEF authzVars, IInv, TypeOK
<1>2. IdleFresh' /\ RequestCopies' /\ CodeCopies' /\ ClearedGone'
  BY DEF authzVars, IInv, IdleFresh, RequestCopies, CodeCopies, ClearedGone, Ended, Running
<1>3. InactiveOnce' /\ ReadAfterSpent' /\ Decided'
  BY DEF authzVars, IInv, InactiveOnce, ReadAfterSpent, Decided, Deactivated, Spent, SameCode,
         Matches, KeyProved
<1> QED BY <1>1, <1>2, <1>3 DEF IInv

LEMMA StepInvariant == IInv /\ [Next]_authzVars => IInv'
<1> SUFFICES ASSUME IInv, [Next]_authzVars PROVE IInv'
  OBVIOUS
<1>1. CASE \E a \in AuthIDs, p \in Parameters : Authorize(a, p)
  BY <1>1, AuthorizeStep
<1>2. CASE \/ \E cl \in Clients, registration \in [uris : SUBSET URIs, pkce : BOOLEAN] :
               UpdateApp(cl, registration)
           \/ Tick
           \/ Restart
  BY <1>2, EnvironmentStep
<1>3. ASSUME NEW c \in Completions, Complete(c) PROVE IInv'
  <2>1. CASE \E a \in AuthIDs : LoadRequest(c, a)
    BY <2>1, LoadStep
  <2>4. CASE RequestRefused(c)
    BY <2>4, RefusedStep DEF RequestRefused, Begin, Calls
  <2>2. CASE ClearRequest(c)
    BY <2>2, ClearStep
  <2>3. CASE CompletionFails(c) \/ \E u \in Users, iat \in 0..now : CreateCode(c, u, iat)
    BY <2>3, CompletionEnds
  <2> QED BY <1>3, <2>1, <2>2, <2>3, <2>4 DEF Complete
<1>4. ASSUME NEW r \in Redemptions, Redeem(r) PROVE IInv'
  <2>1. CASE \E code \in Completions, p \in Parameters : ReadCode(r, code, p)
    BY <2>1, AskStep
  <2>3. CASE TokensRefused(r)
    BY <2>3, RefusedStep DEF TokensRefused, Begin, Calls
  <2>2. CASE Deactivate(r) \/ DeactivateFails(r) \/ IssueTokens(r) \/ Reject(r)
    BY <2>2, RedeemStep
  <2> QED BY <1>4, <2>1, <2>2, <2>3 DEF Redeem
<1>5. CASE UNCHANGED authzVars
  BY <1>5, StutterStep
<1> QED BY <1>1, <1>2, <1>3, <1>4, <1>5 DEF Next

LEMMA Invariance == Spec => []IInv
BY InitInvariant, StepInvariant, PTL DEF Spec

-----------------------------------------------------------------------------
(* What follows from it.                                                   *)

\* Every variable keeps its type, in any run of the grant.
THEOREM TypeCorrect == Spec => []TypeOK
<1>1. IInv => TypeOK
  BY DEF IInv
<1> QED BY <1>1, Invariance, PTL

\* A code that a redemption has spent yields no tokens to a later one: who
\* reads it after its deactivation reads an inactive copy, and tokens are
\* issued for active copies only.
THEOREM SpentStaysSpentCorrect == Spec => []SpentStaysSpent
<1>1. IInv => SpentStaysSpent
  <2> SUFFICES ASSUME IInv, NEW r \in Redemptions, NEW q \in before[r],
                      pc[r] = "tokens", SameCode(r, q), Spent(q)
               PROVE  FALSE
    BY DEF SpentStaysSpent
  <2>1. read[r] # None /\ read[r].active
    BY DEF IInv, CodeCopies, Decided
  <2> QED BY <2>1 DEF IInv, ReadAfterSpent
<1> QED BY <1>1, Invariance, PTL

\* Tokens answer to the authorization request their code was made from: client,
\* redirect URI, key and resource pass unchanged from the request through its
\* copy, the code and the copy of the code.
THEOREM TokensAsAuthorizedCorrect == Spec => []TokensAsAuthorized
<1>1. IInv => TokensAsAuthorized
  <2> SUFFICES ASSUME IInv, NEW r \in Redemptions, pc[r] = "tokens"
               PROVE  LET c == want[r].code
                          p == asked[authID[c]].params
                      IN /\ authID[c] # None /\ asked[authID[c]] # None
                         /\ p.client = want[r].params.client
                         /\ p.uri = want[r].params.uri
                         /\ p.key # None => p.key = want[r].params.key
                         /\ p.resource # None => p.resource = want[r].params.resource
    BY DEF TokensAsAuthorized
  <2> DEFINE c == want[r].code
  <2>1. /\ read[r] # None /\ want[r] # None /\ codes[c] # None
        /\ read[r].params = codes[c].params
    BY DEF IInv, CodeCopies
  <2>2. c \in Completions
    BY <2>1 DEF IInv, TypeOK, TokenRequests
  <2>3. pc[c] = "code" /\ codes[c].params = loaded[c].params /\ loaded[c] # None
    BY <2>1, <2>2 DEF IInv, RequestCopies
  <2>4. authID[c] \in AuthIDs /\ asked[authID[c]] # None /\ asked[authID[c]] = loaded[c]
    BY <2>2, <2>3 DEF IInv, RequestCopies
  <2>5. asked[authID[c]].params = read[r].params
    BY <2>1, <2>3, <2>4
  <2>6. Matches(r)
    BY DEF IInv, Decided
  <2>7. authID[c] # None
    BY <2>4, NamesAssumption
  <2> QED BY <2>4, <2>5, <2>6, <2>7 DEF Matches, KeyProved
<1> QED BY <1>1, Invariance, PTL

\* The only redemption of a code is not refused because it has deactivated the
\* code itself.
THEOREM FirstRedemptionAcceptedCorrect == Spec => []FirstRedemptionAccepted
<1>1. IInv => FirstRedemptionAccepted
  <2> SUFFICES ASSUME IInv, NEW r \in Redemptions, pc[r] = "rejected", Matches(r),
                      \A q \in Redemptions \ {r} : ~SameCode(r, q)
               PROVE  codes[want[r].code].expires < now
    BY DEF FirstRedemptionAccepted
  <2>1. read[r] # None /\ read[r].expires = codes[want[r].code].expires
    BY DEF IInv, CodeCopies
  <2>2. read[r].active
    BY <2>1 DEF IInv, InactiveOnce
  <2> QED BY <2>1, <2>2 DEF IInv, Decided
<1> QED BY <1>1, Invariance, PTL

\* A completion that begins after another has removed the request makes no
\* code from it.
THEOREM ClearedStaysClearedCorrect == Spec => []ClearedStaysCleared
<1>1. IInv => ClearedStaysCleared
  <2> SUFFICES ASSUME IInv, NEW c \in Completions, NEW d \in before[c] \cap cleared,
                      pc[c] = "code"
               PROVE  authID[d] # authID[c]
    BY DEF ClearedStaysCleared
  <2>1. loaded[c] # None
    BY DEF IInv, RequestCopies
  <2> QED BY <2>1 DEF IInv, ClearedGone
<1> QED BY <1>1, Invariance, PTL

\* Neither a request nor a code is used again by a call that begins after its use.
THEOREM UsedStaysUsedCorrect == Spec => []UsedStaysUsed
<1>1. SpentStaysSpent /\ ClearedStaysCleared => UsedStaysUsed
  BY DEF UsedStaysUsed
<1> QED BY <1>1, SpentStaysSpentCorrect, ClearedStaysClearedCorrect, PTL
=============================================================================
