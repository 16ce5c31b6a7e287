--------------------------- MODULE ExecutorsProofs ---------------------------
(***************************************************************************)
(* Proofs about the executors of a flow, for any graph without decisions,  *)
(* any users, providers and inputs: whom the flow takes for authenticated, *)
(* how often it sends one-time passwords, what it provisions, and what its *)
(* assertions tell.                                                        *)
(***************************************************************************)
EXTENDS Executors, FiniteSetTheorems, SequenceTheorems, TLAPS

-----------------------------------------------------------------------------
(* The inductive invariant.                                                *)

FlowFields == {"state", "at", "inputs", "runtime", "authn", "done", "assertion"}
UserFields == {"is", "user", "type", "ou", "attrs"}

FlowTypeOK ==
    /\ graph \in Graphs
    /\ DOMAIN flow = FlowFields
    /\ flow.at \in DOMAIN graph.steps
    /\ DOMAIN flow.authn = UserFields
    /\ DOMAIN users = People
    /\ \E S : sent \in Seq(S)

Proven(u, byCheck, made) == u \in made \/ \E p \in byCheck : p.who = u

\* The limit was not reached: from then on a refused send may set another user.
Below(rt) == Attempts(rt) < MaxAttempts

\* Attempts are counted in the runtime data, one for each password that was sent.
Counted(rt, passwords) ==
    Attempts(rt) = Len(passwords) /\ Len(passwords) <= MaxAttempts

\* A session leads to the user it was begun for: one who had the number then, or who had
\* been proved before.  A number was known then, and so none is looked for again, which
\* would set another user.
SessionKept(rt, passwords, byCheck, made) ==
    LET session == Get(rt, "otpSessionToken")
        u == Get(rt, "userID")
    IN  session # "" =>
            /\ "mobileNumber" \in Given(rt)
            /\ Below(rt) /\ ~IsRegistration =>
                  /\ u \in People
                  /\ \/ Proven(u, byCheck, made)
                     \/ \E i \in DOMAIN passwords : session = Session(i) /\ u \in passwords[i].owners

\* A user type in the runtime data is one that may register, with its unit.
TypeKept(rt) ==
    LET t == Get(rt, "userType")
    IN  t \in DOMAIN Schemas =>
            /\ Schemas[t].selfReg
            /\ graph.allowed # {} => t \in graph.allowed
            /\ Get(rt, "defaultOUID") = Schemas[t].ou

\* A unit in the runtime data is one that the flow created.
UnitKept(rt, all) ==
    /\ InitialUnits \subseteq all
    /\ Get(rt, "ouId") # "" => Get(rt, "ouId") \in all \ InitialUnits

RuntimeKept(rt, passwords, byCheck, made, all) ==
    /\ Counted(rt, passwords)
    /\ SessionKept(rt, passwords, byCheck, made)
    /\ TypeKept(rt)
    /\ UnitKept(rt, all)

UserKept(authn, rt, byCheck, made) ==
    authn.is /\ Below(rt) => authn.user \in People /\ Proven(authn.user, byCheck, made)

EInv ==
    /\ FlowTypeOK
    /\ RuntimeKept(flow.runtime, sent, proved, created, units)
    /\ UserKept(flow.authn, flow.runtime, proved, created)

-----------------------------------------------------------------------------
(* What an executor has to do for the engine to keep the invariant.        *)

\* The runtime data after the engine has merged those of the answer.
After(e) == Merge(e.resp.runtime, e.runtime)

Keeps(e) ==
    /\ DOMAIN e.resp.authn = UserFields
    /\ DOMAIN e.users = People
    /\ \E S : e.sent \in Seq(S)
    /\ RuntimeKept(After(e), e.sent, proved \cup e.proved, created \cup e.created, e.units)
    /\ Attempts(flow.runtime) <= Attempts(After(e))
    /\ UserKept(e.resp.authn, After(e), proved \cup e.proved, created \cup e.created)

\* Registration may be for type t.
MayRegister(t) == Schemas[t].selfReg /\ (graph.allowed # {} => t \in graph.allowed)

\* Most executors leave passwords, units and the user of the flow's runtime data alone: they
\* add a user type that may register, if anything, and answer with a user they have proved.
Harmless(e) ==
    LET rt == e.resp.runtime
    IN  /\ e.runtime = flow.runtime /\ e.sent = sent /\ e.units = units /\ e.created = {}
        /\ DOMAIN e.users = People
        /\ DOMAIN e.resp.authn = UserFields
        /\ {"userID", "otpSessionToken", "attemptCount", "ouId"} \cap DOMAIN rt = {}
        /\ \/ {"userType", "defaultOUID"} \cap DOMAIN rt = {}
           \/ /\ {"userType", "defaultOUID"} \subseteq DOMAIN rt
              /\ MayRegister(rt.userType) /\ rt.defaultOUID = Schemas[rt.userType].ou
        /\ e.resp.authn.is => e.resp.authn.user \in People /\ Proven(e.resp.authn.user, e.proved, {})

Provisions(e) ==
    \A u \in e.created :
        LET new == e.users[u]
        IN  /\ graph.allowed # {} => new.type \in graph.allowed
            /\ Schemas[new.type].selfReg
            /\ new.ou \in {Schemas[new.type].ou} \cup (units \ InitialUnits)


-----------------------------------------------------------------------------
(* Operators.                                                              *)

LEMMA MergeDomain ==
  ASSUME NEW f, NEW g
  PROVE  DOMAIN Merge(f, g) = DOMAIN f \cup DOMAIN g
  BY DEF Merge

LEMMA MergeGet ==
  ASSUME NEW f, NEW g, NEW n
  PROVE  Get(Merge(f, g), n) = IF n \in DOMAIN f THEN f[n] ELSE Get(g, n)
  BY DEF Merge, Get

LEMMA MergeAttempts ==
  ASSUME NEW f, NEW g
  PROVE  Attempts(Merge(f, g)) = IF "attemptCount" \in DOMAIN f THEN f.attemptCount ELSE Attempts(g)
  BY DEF Merge, Attempts

LEMMA EmptyDomain == DOMAIN <<>> = {}
  BY SMT

\* Whom IdentifyUser finds has the attributes.
LEMMA Identified ==
  ASSUME NEW filters, IdentifyUser(filters).found = "one"
  PROVE  IdentifyUser(filters).user \in Matching(Restrict(filters, DOMAIN filters \ NonSearchable))
<1> DEFINE f == Restrict(filters, DOMAIN filters \ NonSearchable)
<1> DEFINE one == [found |-> "one", user |-> CHOOSE u \in Matching(f) : TRUE]
<1>1. CASE DOMAIN f # {} /\ Matching(f) # {} /\ Cardinality(Matching(f)) = 1
  <2>1. IdentifyUser(filters) = one
    BY <1>1 DEF IdentifyUser
  <2> QED BY <1>1, <2>1
<1>2. CASE ~(DOMAIN f # {} /\ Matching(f) # {} /\ Cardinality(Matching(f)) = 1)
  <2>1. Cardinality(Matching(f)) = 1 => Matching(f) # {}
    BY FS_EmptySet
  <2>2. IdentifyUser(filters) \in {[found |-> "error"], [found |-> "nobody"]}
    BY <1>2, <2>1 DEF IdentifyUser
  <2> QED BY <2>2
<1> QED BY <1>1, <1>2

LEMMA IdentifiedIsThere ==
  ASSUME NEW filters, IdentifyUser(filters).found = "one"
  PROVE  IdentifyUser(filters).user \in People
  BY Identified DEF Matching

LEMMA IdentifiedByNumber ==
  ASSUME NEW n, IdentifyUser([mobileNumber |-> n]).found = "one"
  PROVE  IdentifyUser([mobileNumber |-> n]).user \in Matching([mobileNumber |-> n])
<1>1. Restrict([mobileNumber |-> n], DOMAIN [mobileNumber |-> n] \ NonSearchable) = [mobileNumber |-> n]
  BY DEF Restrict, NonSearchable
<1> QED BY <1>1, Identified

\* What is assumed of the graph, and of the step that the flow is at.
LEMMA GraphAssumed ==
  ASSUME NEW g \in Graphs
  PROVE  /\ Len(g.steps) \in Nat \ {0} /\ DOMAIN g.steps = 1..Len(g.steps)
         /\ DOMAIN g.runtime \cap ExecutorKeys = {}
         /\ \A i \in DOMAIN g.steps : DOMAIN g.steps[i].answer \cap ExecutorKeys = {}
  BY ExecutorsAssumption, MappingsAssumption, Zenon

LEMMA NamesAssumed == "" \notin People /\ "" \notin DOMAIN Schemas /\ DOMAIN InitialUsers = People
<1>1. "" \notin People \cup DOMAIN Schemas /\ DOMAIN InitialUsers = People
  BY ExecutorsAssumption, Zenon
<1> QED BY <1>1

-----------------------------------------------------------------------------
(* The engine: an executor that keeps the invariant keeps it for the flow. *)

\* What was proved or created stays so.
LEMMA ProvenGrows ==
  ASSUME NEW u, NEW p, NEW q, NEW c, NEW d, Proven(u, p, c)
  PROVE  Proven(u, p \cup q, c \cup d)
  BY DEF Proven

\* The engine sets the user of the runtime data only where there is none, hence in no
\* session that leads to a user.
LEMMA UserIsSetOnce ==
  ASSUME NEW rt, NEW authn, NEW passwords, NEW byCheck, NEW made, NEW all,
         RuntimeKept(rt, passwords, byCheck, made, all)
  PROVE  /\ RuntimeKept(NextRuntime(rt, authn), passwords, byCheck, made, all)
         /\ Attempts(NextRuntime(rt, authn)) = Attempts(rt)
<1> DEFINE next == Merge([userID |-> authn.user], rt)
<1>1. CASE NextRuntime(rt, authn) = rt
  BY <1>1
<1>2. CASE NextRuntime(rt, authn) = next /\ Get(rt, "userID") = ""
  <2>1. DOMAIN next = {"userID"} \cup DOMAIN rt
    BY DEF Merge
  <2>2. \A n : n # "userID" => Get(next, n) = Get(rt, n)
    BY MergeGet
  <2>3. Attempts(next) = Attempts(rt)
    BY MergeAttempts
  <2>4. Given(rt) \subseteq Given(next)
    BY <2>1 DEF Given
  <2>5. SessionKept(next, passwords, byCheck, made)
    BY <1>2, <2>2, <2>3, <2>4, NamesAssumed DEF RuntimeKept, SessionKept, Below
  <2>6. Counted(next, passwords) /\ TypeKept(next) /\ UnitKept(next, all)
    BY <2>2, <2>3 DEF RuntimeKept, Counted, TypeKept, UnitKept
  <2> QED BY <1>2, <2>3, <2>5, <2>6 DEF RuntimeKept
<1> QED BY <1>1, <1>2 DEF NextRuntime

\* The engine keeps the invariant if the executor does.
LEMMA EngineKeeps ==
  ASSUME EInv, NEW e, Keeps(e), Apply(e)
  PROVE  EInv'
<1> DEFINE rt == After(e)
           authn == NextUser(e.resp, rt)
           next == NextRuntime(rt, authn)
<1>1. /\ flow'.runtime = next /\ flow'.authn = authn /\ flow'.inputs = flow.inputs
      /\ DOMAIN flow' = FlowFields
      /\ flow'.at = IF e.resp.status = "COMPLETE" /\ flow.at < Len(graph.steps)
                    THEN flow.at + 1 ELSE flow.at
  BY DEF Apply, After, EInv, FlowTypeOK, FlowFields
<1>2. /\ graph' = graph /\ users' = e.users /\ units' = e.units /\ sent' = e.sent
      /\ proved' = proved \cup e.proved /\ created' = created \cup e.created
  BY DEF Apply
<1>3. flow'.at \in DOMAIN graph.steps
  BY <1>1, GraphAssumed DEF EInv, FlowTypeOK
<1>4. DOMAIN authn = UserFields
  BY DEF NextUser, Keeps, EInv, FlowTypeOK, UserFields
<1>5. FlowTypeOK'
  BY <1>1, <1>2, <1>3, <1>4 DEF FlowTypeOK, Keeps, EInv
<1>6. /\ RuntimeKept(next, sent', proved', created', units')
      /\ Attempts(next) = Attempts(rt)
  BY <1>2, UserIsSetOnce DEF Keeps
<1>7. RuntimeKept(flow.runtime, sent, proved, created, units)'
  BY <1>1, <1>2, <1>6
     DEF RuntimeKept, SessionKept, TypeKept, UnitKept, Counted, Below, Given, Inputs, IsRegistration
<1>8. UserKept(authn, next, proved', created')
  <2>1. UserKept(e.resp.authn, rt, proved', created')
    BY <1>2 DEF Keeps
  <2>2. UserKept(flow.authn, next, proved', created')
    <3>1. Attempts(flow.runtime) \in Nat /\ Attempts(next) \in Nat /\ Attempts(flow.runtime) <= Attempts(next)
      <4>1. Attempts(flow.runtime) \in Nat
        BY LenProperties DEF EInv, FlowTypeOK, RuntimeKept, Counted
      <4>2. Attempts(rt) \in Nat
        BY LenProperties DEF Keeps, RuntimeKept, Counted
      <4> QED BY <1>6, <4>1, <4>2 DEF Keeps
    <3>2. Below(next) => Below(flow.runtime)
      BY <3>1 DEF Below, MaxAttempts
    <3>3. ASSUME flow.authn.is, Below(next)
          PROVE  flow.authn.user \in People /\ Proven(flow.authn.user, proved', created')
      BY <1>2, <3>2, <3>3, ProvenGrows DEF EInv, UserKept
    <3> QED BY <3>3 DEF UserKept
  <2>3. Below(next) => Below(rt)
    BY <1>6 DEF Below
  <2>4. CASE UpdatesUser(rt)
    <3>1. authn.is = e.resp.authn.is /\ authn.user = e.resp.authn.user
      BY <2>4 DEF NextUser, Keeps, UserFields
    <3> QED BY <2>1, <2>3, <3>1 DEF UserKept
  <2>5. CASE ~UpdatesUser(rt)
    BY <2>2, <2>5 DEF NextUser
  <2> QED BY <2>4, <2>5
<1>9. UserKept(flow.authn, flow.runtime, proved, created)'
  BY <1>1, <1>8 DEF UserKept, Below, Proven
<1> QED BY <1>5, <1>7, <1>9 DEF EInv

-----------------------------------------------------------------------------
(* The executors one by one.                                               *)

LEMMA HarmlessKeeps ==
  ASSUME EInv, NEW e, Harmless(e)
  PROVE  Keeps(e) /\ Provisions(e)
<1> DEFINE rt == e.resp.runtime
           next == After(e)
<1>1. /\ DOMAIN next = DOMAIN rt \cup DOMAIN flow.runtime
      /\ \A n : Get(next, n) = IF n \in DOMAIN rt THEN rt[n] ELSE Get(flow.runtime, n)
      /\ Attempts(next) = Attempts(flow.runtime)
  <2>1. next = Merge(rt, flow.runtime) /\ "attemptCount" \notin DOMAIN rt
    BY DEF After, Harmless
  <2>2. DOMAIN next = DOMAIN rt \cup DOMAIN flow.runtime
    BY <2>1, MergeDomain
  <2>3. \A n : Get(next, n) = IF n \in DOMAIN rt THEN rt[n] ELSE Get(flow.runtime, n)
    BY <2>1, MergeGet
  <2>4. Attempts(next) = Attempts(flow.runtime)
    BY <2>1, MergeAttempts
  <2> QED BY <2>2, <2>3, <2>4
<1>2. Counted(next, e.sent)
  BY <1>1 DEF EInv, RuntimeKept, Counted, Harmless
<1>3. SessionKept(next, e.sent, proved \cup e.proved, created \cup e.created)
  <2>1. Get(next, "otpSessionToken") = Get(flow.runtime, "otpSessionToken")
        /\ Get(next, "userID") = Get(flow.runtime, "userID")
    BY <1>1 DEF Harmless
  <2>2. Given(flow.runtime) \subseteq Given(next) /\ (Below(next) => Below(flow.runtime))
    BY <1>1 DEF Given, Below
  <2> QED
    BY <2>1, <2>2, ProvenGrows DEF EInv, RuntimeKept, SessionKept, Harmless
<1>4. TypeKept(next)
  <2>1. CASE {"userType", "defaultOUID"} \cap DOMAIN rt = {}
    BY <1>1, <2>1 DEF EInv, RuntimeKept, TypeKept
  <2>2. CASE /\ {"userType", "defaultOUID"} \subseteq DOMAIN rt
             /\ MayRegister(rt.userType) /\ rt.defaultOUID = Schemas[rt.userType].ou
    BY <1>1, <2>2 DEF TypeKept, MayRegister
  <2> QED BY <2>1, <2>2 DEF Harmless
<1>5. UnitKept(next, e.units)
  BY <1>1 DEF EInv, RuntimeKept, UnitKept, Harmless
<1>6. UserKept(e.resp.authn, next, proved \cup e.proved, created \cup e.created)
  <2> SUFFICES ASSUME e.resp.authn.is
               PROVE  /\ e.resp.authn.user \in People
                      /\ Proven(e.resp.authn.user, proved \cup e.proved, created \cup e.created)
    BY DEF UserKept
  <2> QED BY DEF Proven, Harmless
<1>7. Attempts(flow.runtime) <= Attempts(next)
  <2>1. Attempts(flow.runtime) \in Nat
    BY LenProperties DEF EInv, FlowTypeOK, RuntimeKept, Counted
  <2> QED BY <1>1, <2>1
<1>8. DOMAIN e.resp.authn = UserFields /\ DOMAIN e.users = People /\ \E S : e.sent \in Seq(S)
  BY DEF Harmless, EInv, FlowTypeOK
<1>9. Provisions(e)
  BY DEF Provisions, Harmless
<1> QED BY <1>2, <1>3, <1>4, <1>5, <1>6, <1>7, <1>8, <1>9 DEF Keeps, RuntimeKept

\* An answer without a user, and with other runtime data than the executors' own.
LEMMA AnswerIsHarmless ==
  ASSUME EInv, NEW resp, resp.authn.is = FALSE, DOMAIN resp.authn = UserFields,
         DOMAIN resp.runtime \cap ExecutorKeys = {}
  PROVE  Harmless(Effect(resp))
  BY DEF Harmless, Effect, ExecutorKeys, EInv, FlowTypeOK

LEMMA StatusIsHarmless ==
  ASSUME EInv, NEW status
  PROVE  Harmless(Effect(Response(status)))
<1>1. /\ Response(status).authn.is = FALSE /\ DOMAIN Response(status).authn = UserFields
      /\ Response(status).runtime = <<>>
  BY DEF Response, NoUser, UserFields
<1>2. DOMAIN Response(status).runtime \cap ExecutorKeys = {}
  BY <1>1, EmptyDomain
<1> QED BY <1>1, <1>2, AnswerIsHarmless

LEMMA StatusesAreHarmless ==
  ASSUME EInv
  PROVE  Harmless(Effect(Failure)) /\ Harmless(Effect(NeedsInput)) /\ Harmless(Effect(Error))
  BY StatusIsHarmless DEF Failure, NeedsInput, Error

\* The answer is complete, without a user.
LEMMA CompleteIsHarmless ==
  ASSUME EInv, NEW attrs, NEW rt, DOMAIN rt \cap ExecutorKeys = {}
  PROVE  Harmless(Effect(Complete([NoUser EXCEPT !.attrs = attrs], rt)))
         /\ Harmless(Effect(Complete(NoUser, rt)))
<1> DEFINE some == [NoUser EXCEPT !.attrs = attrs]
<1>1. some.is = FALSE /\ DOMAIN some = UserFields /\ NoUser.is = FALSE /\ DOMAIN NoUser = UserFields
  BY DEF NoUser, UserFields
<1>2. ASSUME NEW a, a.is = FALSE, DOMAIN a = UserFields
      PROVE  Harmless(Effect(Complete(a, rt)))
  <2>1. Complete(a, rt).authn = a /\ Complete(a, rt).runtime = rt
    BY DEF Complete, Response
  <2> QED BY <1>2, <2>1, AnswerIsHarmless
<1> QED BY <1>1, <1>2

\* The answer is about a user whom the executor has proved, or about nobody.
LEMMA ProvingIsHarmless ==
  ASSUME EInv, NEW resp, NEW p, DOMAIN resp.authn = UserFields,
         {"userID", "otpSessionToken", "attemptCount", "ouId"} \cap DOMAIN resp.runtime = {},
         \/ {"userType", "defaultOUID"} \cap DOMAIN resp.runtime = {}
         \/ /\ {"userType", "defaultOUID"} \subseteq DOMAIN resp.runtime
            /\ MayRegister(resp.runtime.userType)
            /\ resp.runtime.defaultOUID = Schemas[resp.runtime.userType].ou,
         resp.authn.is => resp.authn.user \in People /\ \E q \in p : q.who = resp.authn.user
  PROVE  Harmless([Effect(resp) EXCEPT !.proved = p])
<1> DEFINE e == [Effect(resp) EXCEPT !.proved = p]
<1>1. /\ e.resp = resp /\ e.runtime = flow.runtime /\ e.sent = sent /\ e.units = units
      /\ e.created = {} /\ e.users = users /\ e.proved = p
  BY DEF Effect
<1>2. DOMAIN users = People
  BY DEF EInv, FlowTypeOK
<1> HIDE DEF e
<1>3. Harmless(e)
  BY <1>1, <1>2 DEF Harmless, Proven
<1> QED BY <1>3 DEF e

\* The same for a resolved user type.
LEMMA TypeIsHarmless ==
  ASSUME EInv, NEW t, MayRegister(t)
  PROVE  Harmless(Effect(Complete(NoUser, TypeData(t))))
<1> DEFINE resp == Complete(NoUser, TypeData(t))
           e == Effect(resp)
<1>1. /\ resp.authn = NoUser /\ resp.runtime = TypeData(t)
      /\ NoUser.is = FALSE /\ DOMAIN NoUser = UserFields
  BY DEF Complete, Response, NoUser, UserFields
<1>2. /\ DOMAIN TypeData(t) = {"userType", "defaultOUID"}
      /\ TypeData(t).userType = t /\ TypeData(t).defaultOUID = Schemas[t].ou
  BY DEF TypeData
<1>3. /\ e.resp = resp /\ e.runtime = flow.runtime /\ e.sent = sent /\ e.units = units
      /\ e.created = {} /\ e.users = users
  BY DEF Effect
<1>4. DOMAIN users = People
  BY DEF EInv, FlowTypeOK
<1> HIDE DEF e, resp
<1>5. Harmless(e)
  BY <1>1, <1>2, <1>3, <1>4 DEF Harmless
<1> QED BY <1>5 DEF e, resp

LEMMA BasicAuthKeeps ==
  ASSUME EInv
  PROVE  Harmless(BasicAuth)
<1> DEFINE required == GetRequiredData(BasicAuthInputs)
           given == Restrict(Inputs, required \cap DOMAIN Inputs)
           search == Restrict(given, DOMAIN given \ {"password"})
           u == CHOOSE x \in AuthenticateUser(given) : TRUE
           passed == {[by |-> "CredentialsAuthenticator", who |-> u]}
           resp == Complete(UserOf(u, users[u].attrs), <<>>)
<1>1. \/ BasicAuth \in {Effect(NeedsInput), Effect(Failure)}
      \/ BasicAuth = Effect(Complete([NoUser EXCEPT !.attrs = search], <<>>))
      \/ AuthenticateUser(given) # {} /\ BasicAuth = [Effect(resp) EXCEPT !.proved = passed]
  BY DEF BasicAuth
<1>2. Harmless(Effect(Complete([NoUser EXCEPT !.attrs = search], <<>>)))
  BY EmptyDomain, CompleteIsHarmless
<1>3. ASSUME AuthenticateUser(given) # {}
      PROVE  Harmless([Effect(resp) EXCEPT !.proved = passed])
  <2>1. u \in People
    BY <1>3, IdentifiedIsThere DEF AuthenticateUser
  <2>2. /\ resp.authn.user = u /\ DOMAIN resp.authn = UserFields /\ resp.runtime = <<>>
        /\ \E q \in passed : q.who = u
    BY DEF Complete, Response, UserOf, UserFields
  <2> HIDE DEF resp, passed, u
  <2> QED BY <2>1, <2>2, EmptyDomain, ProvingIsHarmless
<1> QED BY <1>1, <1>2, <1>3, StatusesAreHarmless

LEMMA UserTypeResolverKeeps ==
  ASSUME EInv
  PROVE  Harmless(UserTypeResolver)
<1> DEFINE given == Get(Inputs, "userType")
           types == SelfRegistered(graph.allowed)
           t == CHOOSE x \in types : TRUE
<1>1. CASE ~IsRegistration
  <2>1. UserTypeResolver = Effect(Complete(NoUser, <<>>))
    BY <1>1 DEF UserTypeResolver
  <2> QED BY <2>1, EmptyDomain, CompleteIsHarmless
<1>2. CASE IsRegistration /\ given # ""
  <2>1. \/ UserTypeResolver \in {Effect(Failure), Effect(Error)}
        \/ MayRegister(given) /\ UserTypeResolver = Effect(Complete(NoUser, TypeData(given)))
    BY <1>2 DEF UserTypeResolver, MayRegister
  <2> QED BY <2>1, StatusesAreHarmless, TypeIsHarmless
<1>3. CASE IsRegistration /\ given = ""
  <2>1. \/ UserTypeResolver \in {Effect(NeedsInput), Effect(Failure)}
        \/ types # {} /\ UserTypeResolver = Effect(Complete(NoUser, TypeData(t)))
    <3>1. Cardinality(types) = 1 => types # {}
      BY FS_EmptySet
    <3> QED BY <1>3, <3>1 DEF UserTypeResolver
  <2>2. types # {} => MayRegister(t)
    BY DEF SelfRegistered, MayRegister
  <2> QED BY <2>1, <2>2, StatusesAreHarmless, TypeIsHarmless
<1> QED BY <1>1, <1>2, <1>3

\* What a provider tells of a subject leads to at most the user who has the subject.
LEMMA ContextUserKeeps ==
  ASSUME EInv, NEW s, NEW attrs
  PROVE  LET resp == ContextUser(s, attrs)
             rt == resp.runtime
         IN  /\ DOMAIN resp.authn = UserFields
             /\ {"userID", "otpSessionToken", "attemptCount", "ouId"} \cap DOMAIN rt = {}
             /\ \/ {"userType", "defaultOUID"} \cap DOMAIN rt = {}
                \/ /\ {"userType", "defaultOUID"} \subseteq DOMAIN rt
                   /\ MayRegister(rt.userType) /\ rt.defaultOUID = Schemas[rt.userType].ou
             /\ resp.authn.is => GetInternalUser(s).found = "one" /\ resp.authn.user = GetInternalUser(s).user
<1> DEFINE resp == ContextUser(s, attrs)
           data == Restrict(attrs, {"email"} \cap DOMAIN attrs)
           id == GetInternalUser(s)
           unknown == [NoUser EXCEPT !.attrs = attrs]
           types == SelfRegistered(graph.allowed)
           t == CHOOSE x \in types : TRUE
           known == UserOf(id.user, attrs)
           skipped == Merge([skip |-> "true"], data)
           subject == Merge([sub |-> s], data)
           typed == Merge([sub |-> s, eligible |-> "true"], Merge(data, TypeData(t)))
<1>1. /\ known.user = id.user /\ DOMAIN known = UserFields
      /\ unknown.is = FALSE /\ DOMAIN unknown = UserFields
  BY DEF UserOf, NoUser, UserFields
<1>2. /\ Failure.authn.is = FALSE /\ DOMAIN Failure.authn = UserFields /\ Failure.runtime = <<>>
  BY DEF Failure, Response, NoUser, UserFields
<1>3. \A a, rt : Complete(a, rt).authn = a /\ Complete(a, rt).runtime = rt
  BY DEF Complete, Response
<1>4. DOMAIN data \subseteq {"email"}
  BY DEF Restrict
<1>5. DOMAIN skipped \subseteq {"skip", "email"}
  BY <1>4 DEF Merge
<1>6. DOMAIN subject \subseteq {"sub", "email"}
  BY <1>4 DEF Merge
<1>7. /\ DOMAIN typed \subseteq {"sub", "eligible", "email", "userType", "defaultOUID"}
      /\ {"userType", "defaultOUID"} \subseteq DOMAIN typed
      /\ typed.userType = t /\ typed.defaultOUID = Schemas[t].ou
  BY <1>4 DEF Merge, TypeData
<1>8. types # {} => MayRegister(t)
  BY DEF SelfRegistered, MayRegister
<1>9. Cardinality(types) = 1 => types # {}
  BY FS_EmptySet
<1>10. \/ resp = Failure
       \/ id.found = "one" /\ resp \in {Complete(known, data), Complete(known, skipped)}
       \/ resp = Complete(unknown, subject)
       \/ types # {} /\ resp = Complete(unknown, typed)
  BY <1>9 DEF ContextUser
<1> HIDE DEF resp, data, unknown, types, t, known, skipped, subject, typed
<1>11. CASE resp = Failure
  BY <1>2, <1>11, EmptyDomain DEF resp
<1>12. CASE id.found = "one" /\ resp \in {Complete(known, data), Complete(known, skipped)}
  BY <1>1, <1>3, <1>4, <1>5, <1>12 DEF resp
<1>13. CASE resp = Complete(unknown, subject)
  BY <1>1, <1>3, <1>6, <1>13 DEF resp
<1>14. CASE types # {} /\ resp = Complete(unknown, typed)
  BY <1>1, <1>3, <1>7, <1>8, <1>14 DEF resp
<1> QED BY <1>10, <1>11, <1>12, <1>13, <1>14

LEMMA VouchedKeeps ==
  ASSUME EInv, NEW s, NEW attrs
  PROVE  Harmless(Vouched(s, attrs))
<1> DEFINE id == GetInternalUser(s)
           passed == IF id.found # "one" THEN {} ELSE {[by |-> Step.executor, who |-> id.user]}
<1>1. Vouched(s, attrs) = [Effect(ContextUser(s, attrs)) EXCEPT !.proved = passed]
  BY DEF Vouched
<1>2. id.found = "one" => id.user \in People /\ \E q \in passed : q.who = id.user
  BY IdentifiedIsThere DEF GetInternalUser
<1> HIDE DEF passed
<1>3. Harmless([Effect(ContextUser(s, attrs)) EXCEPT !.proved = passed])
  BY <1>2, ContextUserKeeps, ProvingIsHarmless
<1> QED BY <1>1, <1>3

LEMMA ProvidersKeep ==
  ASSUME EInv
  PROVE  Harmless(OAuthAuth) /\ Harmless(OIDCAuth)
<1> DEFINE redirect == Effect(Response("EXTERNAL_REDIRECTION"))
           subject == Inputs.code.sub
<1>1. OAuthAuth \in {redirect, Vouched(subject, OAuthAttributes(Profiles[subject]))}
  BY DEF OAuthAuth
<1>2. OIDCAuth \in {redirect, Effect(Failure), Vouched(subject, OIDCAttributes(Profiles[subject]))}
  BY DEF OIDCAuth
<1> QED BY <1>1, <1>2, StatusIsHarmless, StatusesAreHarmless, VouchedKeeps

LEMMA CollectorKeeps ==
  ASSUME EInv
  PROVE  Harmless(AttributeCollector)
<1> DEFINE u == GetUserIDFromContext
           collected == InputAttributes
           resp == Complete(NoUser, <<>>)
           new == IF DOMAIN collected = {} THEN users ELSE [users EXCEPT ![u].attrs = Merged(u, collected)]
           e == [Effect(resp) EXCEPT !.users = new]
<1>1. AttributeCollector \in {Effect(resp), Effect(Failure), Effect(NeedsInput), e}
  BY DEF AttributeCollector
<1>2. Harmless(Effect(resp))
  BY EmptyDomain, CompleteIsHarmless
<1>3. DOMAIN new = People
  BY DEF EInv, FlowTypeOK
<1>4. /\ e.users = new /\ e.resp = Effect(resp).resp /\ e.runtime = Effect(resp).runtime
      /\ e.sent = Effect(resp).sent /\ e.units = Effect(resp).units
      /\ e.created = Effect(resp).created /\ e.proved = Effect(resp).proved
  BY DEF Effect
<1> HIDE DEF e, new, resp
<1>5. Harmless(e)
  BY <1>2, <1>3, <1>4 DEF Harmless
<1> QED BY <1>1, <1>2, <1>5, StatusesAreHarmless

LEMMA AuthorizationKeeps ==
  ASSUME EInv
  PROVE  Harmless(Authorization)
<1> DEFINE requested == IF "requested_permissions" \in DOMAIN flow.runtime
                        THEN flow.runtime.requested_permissions ELSE {}
           answer == GetAuthorizedPermissions(flow.authn.user, Groups, requested)
           rt == [authorized_permissions |-> answer.permits]
<1>1. Authorization \in {Effect(Failure), Effect(Complete(NoUser, <<>>)), Effect(Complete(NoUser, rt))}
  BY DEF Authorization
<1>2. DOMAIN rt \cap ExecutorKeys = {}
  BY DEF ExecutorKeys
<1> HIDE DEF rt
<1> QED BY <1>1, <1>2, EmptyDomain, CompleteIsHarmless, StatusesAreHarmless

LEMMA RequestsKeep ==
  ASSUME EInv, NEW e \in HTTPRequest
  PROVE  Harmless(e)
<1>1. e \in {Effect(Failure), Effect(Complete(NoUser, <<>>)), Effect(Complete(NoUser, Step.answer))}
  BY DEF HTTPRequest, RequestError, Answered
<1>2. DOMAIN Step.answer \cap ExecutorKeys = {}
  BY GraphAssumed DEF Step, EInv, FlowTypeOK
<1> QED BY <1>1, <1>2, EmptyDomain, CompleteIsHarmless, StatusesAreHarmless

LEMMA AssertKeeps ==
  ASSUME EInv
  PROVE  Harmless(AuthAssert)
<1> DEFINE assertion == [sub |-> flow.authn.user, authenticators |-> Authenticators,
                         permissions |-> IF "authorized_permissions" \in DOMAIN flow.runtime
                                         THEN flow.runtime.authorized_permissions ELSE {}]
           resp == [Response("COMPLETE") EXCEPT !.assertion = assertion]
<1>1. AuthAssert \in {Effect(Failure), Effect(Error), Effect(resp)}
  BY DEF AuthAssert
<1>2. resp.authn.is = FALSE /\ DOMAIN resp.authn = UserFields /\ resp.runtime = <<>>
  BY DEF Response, NoUser, UserFields
<1> HIDE DEF resp
<1> QED BY <1>1, <1>2, EmptyDomain, AnswerIsHarmless, StatusesAreHarmless

\* The handle of the unit was free.
LEMMA OUKeeps ==
  ASSUME EInv
  PROVE  Keeps(OUCreation) /\ Provisions(OUCreation)
<1> DEFINE handle == Inputs.ouHandle
           resp == Complete(NoUser, [ouId |-> handle])
           e == [Effect(resp) EXCEPT !.units = units \cup {handle}]
<1>1. \/ OUCreation \in {Effect(NeedsInput), Effect(Failure)}
      \/ handle \notin units \cup {""} /\ OUCreation = e
  BY DEF OUCreation, Get
<1>2. CASE OUCreation \in {Effect(NeedsInput), Effect(Failure)}
  BY <1>2, StatusesAreHarmless, HarmlessKeeps
<1>3. CASE handle \notin units \cup {""} /\ OUCreation = e
  <2>1. /\ e.resp = resp /\ e.runtime = flow.runtime /\ e.sent = sent /\ e.users = users
        /\ e.created = {} /\ e.proved = {} /\ e.units = units \cup {handle}
    BY DEF Effect
  <2>2. /\ resp.authn.is = FALSE /\ DOMAIN resp.authn = UserFields
        /\ DOMAIN resp.runtime = {"ouId"} /\ resp.runtime.ouId = handle
    BY DEF Complete, Response, NoUser, UserFields
  <2> DEFINE next == After(e)
  <2> HIDE DEF e, resp
  <2>3. /\ \A n : Get(next, n) = IF n = "ouId" THEN handle ELSE Get(flow.runtime, n)
        /\ DOMAIN flow.runtime \subseteq DOMAIN next
        /\ Attempts(next) = Attempts(flow.runtime)
    <3>1. next = Merge(resp.runtime, flow.runtime)
      BY <2>1 DEF After
    <3>2. \A n : Get(next, n) = IF n = "ouId" THEN handle ELSE Get(flow.runtime, n)
      BY <2>2, <3>1, MergeGet
    <3>3. Attempts(next) = Attempts(flow.runtime)
      BY <2>2, <3>1, MergeAttempts
    <3>4. DOMAIN flow.runtime \subseteq DOMAIN next
      BY <3>1 DEF Merge
    <3> QED BY <3>2, <3>3, <3>4
  <2>4. Counted(next, e.sent) /\ TypeKept(next)
    BY <2>1, <2>3 DEF EInv, RuntimeKept, Counted, TypeKept
  <2>5. SessionKept(next, e.sent, proved \cup e.proved, created \cup e.created)
    BY <2>1, <2>3 DEF EInv, RuntimeKept, SessionKept, Given, Below
  <2>6. UnitKept(next, e.units)
    BY <1>3, <2>1, <2>3 DEF EInv, RuntimeKept, UnitKept
  <2>7. UserKept(e.resp.authn, next, proved \cup e.proved, created \cup e.created)
    BY <2>1, <2>2 DEF UserKept
  <2>8. Attempts(flow.runtime) <= Attempts(next)
    <3>1. Attempts(flow.runtime) \in Nat
      BY LenProperties DEF EInv, FlowTypeOK, RuntimeKept, Counted
    <3> QED BY <2>3, <3>1
  <2>9. DOMAIN e.resp.authn = UserFields /\ DOMAIN e.users = People /\ \E S : e.sent \in Seq(S)
    BY <2>1, <2>2 DEF EInv, FlowTypeOK
  <2>10. Keeps(e)
    BY <2>4, <2>5, <2>6, <2>7, <2>8, <2>9 DEF Keeps, RuntimeKept
  <2>11. Provisions(e)
    BY <2>1 DEF Provisions
  <2> QED BY <1>3, <2>10, <2>11
<1> QED BY <1>1, <1>2, <1>3

-----------------------------------------------------------------------------
(* Provisioning.                                                           *)

\* An answer that sets the user of the runtime data, to one who is proved or was created:
\* a session that was begun before leads to this user from then on.
LEMMA UserIsSet ==
  ASSUME EInv, NEW rt, NEW made, NEW byCheck,
         "userID" \in DOMAIN rt,
         {"otpSessionToken", "attemptCount", "userType", "defaultOUID", "ouId"} \cap DOMAIN rt = {},
         IsRegistration \/ (rt.userID \in People /\ Proven(rt.userID, byCheck, made))
  PROVE  LET next == Merge(rt, flow.runtime)
         IN  /\ RuntimeKept(next, sent, proved \cup byCheck, created \cup made, units)
             /\ Attempts(next) = Attempts(flow.runtime)
<1> DEFINE next == Merge(rt, flow.runtime)
<1>1. \A n : Get(next, n) = IF n \in DOMAIN rt THEN rt[n] ELSE Get(flow.runtime, n)
  BY MergeGet
<1>2. Attempts(next) = Attempts(flow.runtime)
  BY MergeAttempts
<1>3. DOMAIN flow.runtime \subseteq DOMAIN next
  BY DEF Merge
<1> HIDE DEF next
<1>4. Counted(next, sent) /\ TypeKept(next) /\ UnitKept(next, units)
  BY <1>1, <1>2 DEF EInv, RuntimeKept, Counted, TypeKept, UnitKept
<1>5. SessionKept(next, sent, proved \cup byCheck, created \cup made)
  <2>1. Get(next, "otpSessionToken") = Get(flow.runtime, "otpSessionToken") /\ Get(next, "userID") = rt.userID
    BY <1>1
  <2>2. ~IsRegistration => /\ rt.userID \in People
                           /\ Proven(rt.userID, proved \cup byCheck, created \cup made)
    BY DEF Proven
  <2> QED BY <1>3, <2>1, <2>2 DEF EInv, RuntimeKept, SessionKept, Given
<1> QED BY <1>2, <1>4, <1>5 DEF RuntimeKept, next

LEMMA ProvisioningKeeps ==
  ASSUME EInv
  PROVE  Keeps(Provisioning) /\ Provisions(Provisioning)
<1> DEFINE attrs == AttributesForProvisioning
           id == IdentifyUser(attrs)
           free == {x \in People : users[x] = None}
           new == NewUser(attrs)
           u == CHOOSE x \in free : TRUE
           skip == Effect(Complete(NoUser, [userID |-> id.user]))
           who == [is |-> TRUE, user |-> u, type |-> new.type, ou |-> new.ou, attrs |-> new.attrs]
           rt == IF IsRegistration THEN [userID |-> u] ELSE [userID |-> u, provisioned |-> "true"]
           resp == Complete(who, rt)
           e == [Effect(resp) EXCEPT !.users = [users EXCEPT ![u] = new], !.created = {u}]
<1>1. \/ Provisioning \in {Effect(Complete(NoUser, <<>>)), Effect(NeedsInput), Effect(Failure)}
      \/ IsRegistration /\ Provisioning = skip
      \/ free # {} /\ new.type \in DOMAIN Schemas /\ new.ou \in units /\ Provisioning = e
  BY DEF Provisioning
<1>2. CASE Provisioning \in {Effect(Complete(NoUser, <<>>)), Effect(NeedsInput), Effect(Failure)}
  BY <1>2, EmptyDomain, CompleteIsHarmless, StatusesAreHarmless, HarmlessKeeps
<1>3. Attempts(flow.runtime) \in Nat
  BY LenProperties DEF EInv, FlowTypeOK, RuntimeKept, Counted
<1>4. CASE IsRegistration /\ Provisioning = skip
  <2> DEFINE one == [userID |-> id.user]
  <2>1. /\ skip.resp.authn = NoUser /\ skip.resp.runtime = one /\ skip.runtime = flow.runtime
        /\ skip.users = users /\ skip.sent = sent /\ skip.units = units
        /\ skip.proved = {} /\ skip.created = {}
    BY DEF Effect, Complete, Response
  <2>2. NoUser.is = FALSE /\ DOMAIN NoUser = UserFields
    BY DEF NoUser, UserFields
  <2>3. /\ RuntimeKept(Merge(one, flow.runtime), sent, proved \cup {}, created \cup {}, units)
        /\ Attempts(Merge(one, flow.runtime)) = Attempts(flow.runtime)
    BY <1>4, UserIsSet
  <2> HIDE DEF skip
  <2>4. DOMAIN users = People /\ \E S : sent \in Seq(S)
    BY DEF EInv, FlowTypeOK
  <2>5. Keeps(skip)
    BY <1>3, <2>1, <2>2, <2>3, <2>4 DEF Keeps, UserKept, After
  <2>6. Provisions(skip)
    BY <2>1 DEF Provisions
  <2> QED BY <1>4, <2>5, <2>6
<1>5. CASE free # {} /\ new.type \in DOMAIN Schemas /\ new.ou \in units /\ Provisioning = e
  <2>1. u \in People
    BY <1>5
  <2>2. /\ e.resp = resp /\ e.runtime = flow.runtime /\ e.sent = sent /\ e.units = units
        /\ e.proved = {} /\ e.created = {u} /\ e.users = [users EXCEPT ![u] = new]
    BY DEF Effect
  <2>3. /\ resp.authn.user = u /\ DOMAIN resp.authn = UserFields /\ resp.runtime = rt
    BY DEF Complete, Response, UserFields
  <2>4. /\ rt.userID = u /\ "userID" \in DOMAIN rt
        /\ {"otpSessionToken", "attemptCount", "userType", "defaultOUID", "ouId"} \cap DOMAIN rt = {}
    OBVIOUS
  <2>5. DOMAIN users = People /\ \E S : sent \in Seq(S)
    BY DEF EInv, FlowTypeOK
  <2>6. DOMAIN e.users = People /\ e.users[u] = new
    BY <2>1, <2>2, <2>5
  <2>7. /\ new.type = Get(flow.runtime, "userType")
        /\ new.ou = IF Get(flow.runtime, "ouId") # "" THEN Get(flow.runtime, "ouId")
                    ELSE Get(flow.runtime, "defaultOUID")
    BY DEF NewUser, ProvisionedType, ProvisionedUnit, Get
  <2> HIDE DEF e, resp, rt, u, new
  <2>8. Proven(u, {}, {u})
    BY DEF Proven
  <2>9. /\ RuntimeKept(Merge(rt, flow.runtime), sent, proved \cup {}, created \cup {u}, units)
        /\ Attempts(Merge(rt, flow.runtime)) = Attempts(flow.runtime)
    BY <2>1, <2>4, <2>8, UserIsSet
  <2>10. UserKept(resp.authn, Merge(rt, flow.runtime), proved \cup {}, created \cup {u})
    BY <2>1, <2>3 DEF UserKept, Proven
  <2>11. Keeps(e)
    BY <1>3, <2>2, <2>3, <2>5, <2>6, <2>9, <2>10 DEF Keeps, After
  <2>12. Provisions(e)
    <3>1. Schemas[new.type].selfReg /\ (graph.allowed # {} => new.type \in graph.allowed)
          /\ Get(flow.runtime, "defaultOUID") = Schemas[new.type].ou
      BY <1>5, <2>7 DEF EInv, RuntimeKept, TypeKept
    <3>2. new.ou \in {Schemas[new.type].ou} \cup (units \ InitialUnits)
      BY <2>7, <3>1 DEF EInv, RuntimeKept, UnitKept
    <3> QED BY <2>2, <2>6, <3>1, <3>2 DEF Provisions
  <2> QED BY <1>5, <2>11, <2>12
<1> QED BY <1>1, <1>2, <1>4, <1>5

-----------------------------------------------------------------------------
(* One-time passwords.                                                     *)

\* The runtime data with which the executor goes on, once a number is known.
Prepared(p) ==
    /\ RuntimeKept(p, sent, proved, created, units)
    /\ Attempts(p) = Attempts(flow.runtime)

\* An answer that only says how far the executor has come.
LEMMA StatusKeeps ==
  ASSUME EInv, NEW p, Prepared(p), NEW status
  PROVE  LET e == [Effect(Response(status)) EXCEPT !.runtime = p]
         IN  Keeps(e) /\ Provisions(e)
<1> DEFINE resp == Response(status)
           e == [Effect(resp) EXCEPT !.runtime = p]
           next == Merge(<<>>, p)
<1>1. /\ e.resp = resp /\ e.runtime = p /\ e.sent = sent /\ e.users = users
      /\ e.units = units /\ e.created = {} /\ e.proved = {}
  BY DEF Effect
<1>2. resp.authn = NoUser /\ resp.runtime = <<>> /\ NoUser.is = FALSE /\ DOMAIN NoUser = UserFields
  BY DEF Response, NoUser, UserFields
<1>3. \A n : Get(next, n) = Get(p, n)
  BY EmptyDomain, MergeGet
<1>4. Attempts(next) = Attempts(p)
  BY EmptyDomain, MergeAttempts
<1>5. DOMAIN p \subseteq DOMAIN next
  BY DEF Merge
<1> HIDE DEF next, resp, e
<1>6. Counted(next, sent) /\ TypeKept(next) /\ UnitKept(next, units)
  BY <1>3, <1>4 DEF Prepared, RuntimeKept, Counted, TypeKept, UnitKept
<1>7. SessionKept(next, sent, proved, created)
  BY <1>3, <1>4, <1>5 DEF Prepared, RuntimeKept, SessionKept, Given, Below
<1>8. Attempts(flow.runtime) <= Attempts(next)
  <2>1. Attempts(flow.runtime) \in Nat
    BY LenProperties DEF EInv, FlowTypeOK, RuntimeKept, Counted
  <2> QED BY <1>4, <2>1 DEF Prepared
<1>9. RuntimeKept(next, sent, proved \cup {}, created \cup {}, units)
  BY <1>6, <1>7 DEF RuntimeKept
<1>10. After(e) = next
  BY <1>1, <1>2 DEF After, next
<1>11. Keeps(e)
  BY <1>1, <1>2, <1>8, <1>9, <1>10 DEF Keeps, UserKept, EInv, FlowTypeOK
<1>12. Provisions(e)
  BY <1>1 DEF Provisions
<1> QED BY <1>11, <1>12 DEF e, resp

\* Outside of a session, the user and the number may be looked up.
LEMMA LookedUpIsPrepared ==
  ASSUME EInv, NEW p, Prepared(p), NEW new, Get(p, "otpSessionToken") = "",
         DOMAIN new \subseteq {"userID", "mobileNumber"}
  PROVE  Prepared(Merge(new, p)) /\ Get(Merge(new, p), "otpSessionToken") = ""
<1> DEFINE next == Merge(new, p)
<1>1. \A n : n \notin {"userID", "mobileNumber"} => Get(next, n) = Get(p, n)
  <2> SUFFICES ASSUME NEW n, n \notin {"userID", "mobileNumber"}
               PROVE  Get(next, n) = Get(p, n)
    OBVIOUS
  <2>1. Get(next, n) = IF n \in DOMAIN new THEN new[n] ELSE Get(p, n)
    BY DEF Merge, Get
  <2> QED BY <2>1
<1>2. Attempts(next) = Attempts(p)
  <2>1. "attemptCount" \notin DOMAIN new
    OBVIOUS
  <2> QED BY <2>1, MergeAttempts
<1> HIDE DEF next
<1>3. Counted(next, sent) /\ TypeKept(next) /\ UnitKept(next, units)
  BY <1>1, <1>2 DEF Prepared, RuntimeKept, Counted, TypeKept, UnitKept
<1>4. SessionKept(next, sent, proved, created)
  BY <1>1 DEF SessionKept
<1> QED BY <1>1, <1>2, <1>3, <1>4 DEF Prepared, RuntimeKept, next

\* Without a number there is no session, and with one the executor goes on.
LEMMA PrerequisitesKeep ==
  ASSUME EInv, ~ValidatePrerequisites(OTPInputs.prerequisites)
  PROVE  /\ Prepared(SatisfyPrerequisites.runtime)
         /\ SatisfyPrerequisites.status = "" => "mobileNumber" \in Given(SatisfyPrerequisites.runtime)
<1> DEFINE u == ResolveUserID
           one == [userID |-> u]
           rt == Merge(one, flow.runtime)
           mobile == UserMobileNumber(u)
           number == [mobileNumber |-> mobile.number]
           both == Merge(number, rt)
<1>1. Get(flow.runtime, "otpSessionToken") = ""
  BY DEF EInv, RuntimeKept, SessionKept, ValidatePrerequisites, OTPInputs
<1>2. Prepared(flow.runtime)
  BY DEF EInv, Prepared
<1>3. Prepared(rt) /\ Get(rt, "otpSessionToken") = ""
  <2>1. DOMAIN one \subseteq {"userID", "mobileNumber"}
    OBVIOUS
  <2> HIDE DEF one
  <2> QED BY <1>1, <1>2, <2>1, LookedUpIsPrepared
<1>4. Prepared(both)
  <2>1. DOMAIN number \subseteq {"userID", "mobileNumber"}
    OBVIOUS
  <2> HIDE DEF number, rt
  <2> QED BY <1>3, <2>1, LookedUpIsPrepared
<1>5. "mobileNumber" \in Given(both)
  BY DEF Given, Merge
<1>6. \/ SatisfyPrerequisites = [status |-> "FAILURE", runtime |-> flow.runtime]
      \/ mobile.status # "" /\ SatisfyPrerequisites = [status |-> mobile.status, runtime |-> rt]
      \/ SatisfyPrerequisites = [status |-> "", runtime |-> both]
  BY DEF SatisfyPrerequisites
<1> HIDE DEF rt, both, mobile, u
<1>7. CASE SatisfyPrerequisites = [status |-> "FAILURE", runtime |-> flow.runtime]
  BY <1>2, <1>7
<1>8. CASE mobile.status # "" /\ SatisfyPrerequisites = [status |-> mobile.status, runtime |-> rt]
  BY <1>3, <1>8
<1>9. CASE SatisfyPrerequisites = [status |-> "", runtime |-> both]
  BY <1>4, <1>5, <1>9
<1> QED BY <1>6, <1>7, <1>8, <1>9

\* A password is sent to one who has the number or has been proved before, within the limit.
LEMMA SendKeeps ==
  ASSUME EInv, NEW p, Prepared(p), NEW next, NEW n, Attempts(p) < MaxAttempts,
         "mobileNumber" \in Given(p), DOMAIN p \subseteq DOMAIN next, Attempts(next) = Attempts(p),
         \A k : k # "userID" => Get(next, k) = Get(p, k),
         ~IsRegistration => /\ Get(next, "userID") \in People
                            /\ \/ Get(next, "userID") \in Matching([mobileNumber |-> n])
                               \/ Proven(Get(next, "userID"), proved, created)
  PROVE  Keeps(Send(next, n)) /\ Provisions(Send(next, n))
<1> DEFINE e == Send(next, n)
           password == [to |-> n, owners |-> Matching([mobileNumber |-> n])]
           answer == [otpSessionToken |-> Session(Len(sent) + 1), attemptCount |-> Attempts(next) + 1]
           after == Merge(answer, next)
<1>1. /\ e.resp.authn = NoUser /\ e.resp.runtime = answer /\ e.runtime = next
      /\ e.sent = Append(sent, password) /\ e.users = users /\ e.units = units
      /\ e.created = {} /\ e.proved = {}
  BY DEF Send, Effect, NeedsInput, Response
<1>2. /\ DOMAIN answer = {"otpSessionToken", "attemptCount"}
      /\ answer.otpSessionToken = Session(Len(sent) + 1) /\ answer.attemptCount = Attempts(next) + 1
  OBVIOUS
<1>3. NoUser.is = FALSE /\ DOMAIN NoUser = UserFields
  BY DEF NoUser, UserFields
<1> HIDE DEF e, answer
<1>4. /\ \A k : Get(after, k) = IF k \in DOMAIN answer THEN answer[k] ELSE Get(next, k)
      /\ Attempts(after) = Attempts(next) + 1
      /\ DOMAIN next \subseteq DOMAIN after
  <2>1. \A k : Get(after, k) = IF k \in DOMAIN answer THEN answer[k] ELSE Get(next, k)
    BY MergeGet
  <2>2. Attempts(after) = Attempts(next) + 1
    BY <1>2, MergeAttempts
  <2>3. DOMAIN next \subseteq DOMAIN after
    BY DEF Merge
  <2> QED BY <2>1, <2>2, <2>3
<1>5. PICK S : sent \in Seq(S)
  BY DEF EInv, FlowTypeOK
<1>6. /\ e.sent \in Seq(S \cup {password}) /\ Len(e.sent) = Len(sent) + 1 /\ Len(sent) \in Nat
      /\ e.sent[Len(sent) + 1] = password
      /\ Len(sent) + 1 \in DOMAIN e.sent
  <2>1. sent \in Seq(S \cup {password})
    BY <1>5
  <2> QED BY <1>1, <2>1, AppendProperties, LenProperties
<1> HIDE DEF after
<1>7. Counted(after, e.sent)
  <2>1. Attempts(p) = Len(sent)
    BY DEF Prepared, RuntimeKept, Counted
  <2>2. Attempts(after) = Len(e.sent) /\ Len(e.sent) <= MaxAttempts
    BY <1>4, <1>6, <2>1 DEF MaxAttempts
  <2> QED BY <2>2 DEF Counted
<1>8. SessionKept(after, e.sent, proved, created)
  <2>1. "mobileNumber" \in Given(after)
    BY <1>4 DEF Given
  <2>2. Get(after, "otpSessionToken") = Session(Len(sent) + 1) /\ Get(after, "userID") = Get(next, "userID")
    BY <1>2, <1>4
  <2>3. password.owners = Matching([mobileNumber |-> n])
    OBVIOUS
  <2> HIDE DEF password
  <2> QED BY <1>6, <2>1, <2>2, <2>3 DEF SessionKept
<1>9. TypeKept(after) /\ UnitKept(after, units)
  <2>1. \A k \in {"userType", "defaultOUID", "ouId"} : Get(after, k) = Get(p, k)
    BY <1>2, <1>4
  <2> QED BY <2>1 DEF Prepared, RuntimeKept, TypeKept, UnitKept
<1>10. RuntimeKept(after, e.sent, proved \cup {}, created \cup {}, units)
  BY <1>7, <1>8, <1>9 DEF RuntimeKept
<1>11. Attempts(flow.runtime) <= Attempts(after)
  BY <1>4, <1>6 DEF Prepared, RuntimeKept, Counted
<1>12. Keeps(e)
  BY <1>1, <1>3, <1>6, <1>10, <1>11 DEF Keeps, UserKept, After, after, EInv, FlowTypeOK
<1>13. Provisions(e)
  BY <1>1 DEF Provisions
<1> QED BY <1>12, <1>13 DEF e

\* Who is sent one is known, or has the number; one that is refused may set any user, but
\* then the limit is reached.
LEMMA InitiateOTPKeeps ==
  ASSUME EInv, NEW p, Prepared(p), "mobileNumber" \in Given(p)
  PROVE  Keeps(InitiateOTP(p)) /\ Provisions(InitiateOTP(p))
<1> DEFINE n == Number(p)
           byNumber == [mobileNumber |-> n]
           id == IF flow.authn.is THEN [found |-> "one", user |-> GetUserIDFromContext]
                 ELSE IdentifyUser(byNumber)
           one == [userID |-> id.user]
           next == IF IsRegistration THEN p ELSE Merge(one, p)
<1>1. \/ InitiateOTP(p) = Effect(Error)
      \/ /\ Attempts(p) >= MaxAttempts
         /\ InitiateOTP(p) = [Effect(Response("FAILURE")) EXCEPT !.runtime = next]
      \/ /\ ~(Attempts(p) >= MaxAttempts) /\ InitiateOTP(p) = Send(next, n)
         /\ ~IsRegistration => id.found = "one"
      \/ InitiateOTP(p) = [Effect(Response("FAILURE")) EXCEPT !.runtime = p]
  BY DEF InitiateOTP, Failure
<1>2. /\ DOMAIN p \subseteq DOMAIN next
      /\ \A k : k # "userID" => Get(next, k) = Get(p, k)
      /\ Attempts(next) = Attempts(p)
      /\ ~IsRegistration => Get(next, "userID") = id.user
  <2>1. CASE IsRegistration
    BY <2>1
  <2>2. CASE ~IsRegistration
    <3>1. next = Merge(one, p) /\ DOMAIN one = {"userID"} /\ one.userID = id.user
      BY <2>2
    <3> HIDE DEF next, one, id
    <3>2. DOMAIN p \subseteq DOMAIN next
      BY <3>1 DEF Merge
    <3>3. \A k : Get(next, k) = IF k = "userID" THEN id.user ELSE Get(p, k)
      BY <3>1, MergeGet
    <3>4. Attempts(next) = Attempts(p)
      BY <3>1, MergeAttempts
    <3> QED BY <2>2, <3>2, <3>3, <3>4
  <2> QED BY <2>1, <2>2
<1>3. Attempts(p) \in Nat
  BY LenProperties DEF EInv, FlowTypeOK, Prepared, RuntimeKept, Counted
<1>4. CASE InitiateOTP(p) = Effect(Error)
  BY <1>4, StatusesAreHarmless, HarmlessKeeps
<1>5. CASE /\ Attempts(p) >= MaxAttempts
           /\ InitiateOTP(p) = [Effect(Response("FAILURE")) EXCEPT !.runtime = next]
  <2> HIDE DEF next
  <2>1. SessionKept(next, sent, proved, created)
    <3>1. ~Below(next)
      BY <1>2, <1>3, <1>5 DEF Below, MaxAttempts
    <3>2. "mobileNumber" \in Given(next)
      BY <1>2 DEF Given
    <3> QED BY <3>1, <3>2 DEF SessionKept
  <2>2. Prepared(next)
    BY <1>2, <2>1 DEF Prepared, RuntimeKept, Counted, TypeKept, UnitKept
  <2> QED BY <1>5, <2>2, StatusKeeps
<1>6. CASE /\ ~(Attempts(p) >= MaxAttempts) /\ InitiateOTP(p) = Send(next, n)
           /\ ~IsRegistration => id.found = "one"
  <2>1. Attempts(p) < MaxAttempts
    BY <1>3, <1>6 DEF MaxAttempts
  <2>2. ASSUME ~IsRegistration
        PROVE  id.user \in People /\ (id.user \in Matching(byNumber) \/ Proven(id.user, proved, created))
    <3>1. CASE flow.authn.is
      <4>1. Below(flow.runtime)
        BY <2>1 DEF Below, Prepared
      <4>2. flow.authn.user \in People /\ Proven(flow.authn.user, proved, created)
        BY <3>1, <4>1 DEF EInv, UserKept
      <4>3. id.user = flow.authn.user
        BY <3>1, <4>2, NamesAssumed DEF GetUserIDFromContext
      <4> QED BY <4>2, <4>3
    <3>2. CASE ~flow.authn.is
      BY <1>6, <2>2, <3>2, IdentifiedByNumber DEF Matching
    <3> QED BY <3>1, <3>2
  <2> HIDE DEF next, id
  <2>3. Keeps(Send(next, n)) /\ Provisions(Send(next, n))
    BY <1>2, <2>1, <2>2, SendKeeps
  <2> QED BY <1>6, <2>3
<1>7. CASE InitiateOTP(p) = [Effect(Response("FAILURE")) EXCEPT !.runtime = p]
  BY <1>7, StatusKeeps
<1> QED BY <1>1, <1>4, <1>5, <1>6, <1>7

\* The one who comes with the password of the session is the one the session leads to.
LEMMA ProcessOTPKeeps ==
  ASSUME EInv, NEW p, Prepared(p), "mobileNumber" \in Given(p)
  PROVE  Keeps(ProcessOTP(p)) /\ Provisions(ProcessOTP(p))
<1> DEFINE session == Get(p, "otpSessionToken")
           u == Get(p, "userID")
           over == [otpSessionToken |-> ""]
           owners == UNION {sent[i].owners : i \in {j \in DOMAIN sent : Session(j) = Inputs.otp}}
           passed == {[by |-> "SMSOTPAuthenticator", who |-> o] : o \in
                        IF owners = {} THEN {""} ELSE owners}
           nobody == [NoUser EXCEPT !.attrs = [mobileNumber |-> Number(p)]]
           somebody == UserOf(u, users[u].attrs)
           passes(a) == [Effect(Complete(a, over)) EXCEPT !.runtime = p, !.proved = passed]
<1>1. \/ ProcessOTP(p) \in {Effect(Failure), Effect(Error)}
      \/ ProcessOTP(p) = [Effect(Response("FAILURE")) EXCEPT !.runtime = p]
      \/ IsRegistration /\ ProcessOTP(p) = passes(nobody)
      \/ /\ ~IsRegistration /\ u \in People /\ session # "" /\ SessionMatches(p)
         /\ ProcessOTP(p) = passes(somebody)
  BY DEF ProcessOTP, Failure
<1>2. CASE ProcessOTP(p) \in {Effect(Failure), Effect(Error)}
  BY <1>2, StatusesAreHarmless, HarmlessKeeps
<1>3. CASE ProcessOTP(p) = [Effect(Response("FAILURE")) EXCEPT !.runtime = p]
  BY <1>3, StatusKeeps
<1>4. DOMAIN nobody = UserFields /\ nobody.is = FALSE /\ DOMAIN somebody = UserFields /\ somebody.user = u
  BY DEF NoUser, UserOf, UserFields
<1> DEFINE after == Merge(over, p)
<1>5. /\ \A k : Get(after, k) = IF k = "otpSessionToken" THEN "" ELSE Get(p, k)
      /\ Attempts(after) = Attempts(p)
  <2>1. DOMAIN over = {"otpSessionToken"} /\ over.otpSessionToken = ""
    OBVIOUS
  <2> HIDE DEF over
  <2>2. \A k : Get(after, k) = IF k = "otpSessionToken" THEN "" ELSE Get(p, k)
    BY <2>1, MergeGet
  <2>3. Attempts(after) = Attempts(p)
    BY <2>1, MergeAttempts
  <2> QED BY <2>2, <2>3
<1> HIDE DEF after
<1>6. RuntimeKept(after, sent, proved \cup passed, created \cup {}, units)
  <2>1. Counted(after, sent) /\ TypeKept(after) /\ UnitKept(after, units)
    BY <1>5 DEF Prepared, RuntimeKept, Counted, TypeKept, UnitKept
  <2>2. Get(after, "otpSessionToken") = ""
    BY <1>5
  <2>3. SessionKept(after, sent, proved \cup passed, created \cup {})
    BY <2>2 DEF SessionKept
  <2> QED BY <2>1, <2>3 DEF RuntimeKept
<1>7. Attempts(flow.runtime) <= Attempts(after)
  <2>1. Attempts(flow.runtime) \in Nat
    BY LenProperties DEF EInv, FlowTypeOK, RuntimeKept, Counted
  <2>2. Attempts(after) = Attempts(flow.runtime)
    BY <1>5 DEF Prepared
  <2> QED BY <2>1, <2>2
<1>8. ASSUME NEW a, DOMAIN a = UserFields,
             a.is /\ Below(p) => a.user \in People /\ Proven(a.user, proved \cup passed, created)
      PROVE  Keeps(passes(a)) /\ Provisions(passes(a))
  <2> DEFINE e == passes(a)
  <2>1. /\ e.resp.authn = a /\ e.resp.runtime = over /\ e.runtime = p /\ e.sent = sent
        /\ e.users = users /\ e.units = units /\ e.created = {} /\ e.proved = passed
    BY DEF Effect, Complete, Response
  <2> HIDE DEF e, passed, over
  <2>2. After(e) = after
    BY <2>1 DEF After, after
  <2>3. UserKept(a, after, proved \cup passed, created \cup {})
    BY <1>5, <1>8 DEF UserKept, Below
  <2>4. Keeps(e)
    BY <1>6, <1>7, <1>8, <2>1, <2>2, <2>3 DEF Keeps, EInv, FlowTypeOK
  <2>5. Provisions(e)
    BY <2>1 DEF Provisions
  <2> QED BY <2>4, <2>5 DEF e
<1>9. CASE IsRegistration /\ ProcessOTP(p) = passes(nobody)
  <2> HIDE DEF passed, nobody, over
  <2> QED BY <1>4, <1>8, <1>9
<1>10. CASE /\ ~IsRegistration /\ u \in People /\ session # "" /\ SessionMatches(p)
            /\ ProcessOTP(p) = passes(somebody)
  <2>1. ASSUME Below(p)
        PROVE  Proven(u, proved \cup passed, created)
    <3>1. CASE Proven(u, proved, created)
      BY <3>1 DEF Proven
    <3>2. CASE \E i \in DOMAIN sent : session = Session(i) /\ u \in sent[i].owners
      <4>1. Inputs.otp = session
        BY <1>10 DEF SessionMatches, Get
      <4>2. u \in owners
        BY <3>2, <4>1
      <4>3. [by |-> "SMSOTPAuthenticator", who |-> u] \in passed
        BY <4>2
      <4> HIDE DEF passed, u
      <4>4. \E q \in proved \cup passed : q.who = u
        BY <4>3
      <4> QED BY <4>4 DEF Proven
    <3>3. Proven(u, proved, created) \/ \E i \in DOMAIN sent : session = Session(i) /\ u \in sent[i].owners
      BY <1>10, <2>1 DEF Prepared, RuntimeKept, SessionKept
    <3> QED BY <3>1, <3>2, <3>3, Zenon
  <2> HIDE DEF passed, somebody, over, u
  <2>2. Keeps(passes(somebody)) /\ Provisions(passes(somebody))
    BY <1>4, <1>8, <1>10, <2>1 DEF somebody
  <2> QED BY <1>10, <2>2
<1> QED BY <1>1, <1>2, <1>3, <1>9, <1>10

LEMMA SMSAuthKeeps ==
  ASSUME EInv
  PROVE  Keeps(SMSAuth) /\ Provisions(SMSAuth)
<1> DEFINE has == ValidatePrerequisites(OTPInputs.prerequisites)
           pre == IF has THEN [status |-> "", runtime |-> flow.runtime] ELSE SatisfyPrerequisites
<1>1. Prepared(pre.runtime) /\ (pre.status = "" => "mobileNumber" \in Given(pre.runtime))
  <2>1. CASE has
    BY <2>1 DEF EInv, Prepared, ValidatePrerequisites, OTPInputs
  <2>2. CASE ~has
    BY <2>2, PrerequisitesKeep
  <2> QED BY <2>1, <2>2
<1>2. \/ SMSAuth = Effect(NeedsInput)
      \/ SMSAuth = [Effect(Response(pre.status)) EXCEPT !.runtime = pre.runtime]
      \/ pre.status = "" /\ SMSAuth \in {InitiateOTP(pre.runtime), ProcessOTP(pre.runtime)}
  BY DEF SMSAuth
<1> HIDE DEF pre
<1>3. CASE SMSAuth = Effect(NeedsInput)
  BY <1>3, StatusesAreHarmless, HarmlessKeeps
<1>4. CASE SMSAuth = [Effect(Response(pre.status)) EXCEPT !.runtime = pre.runtime]
  BY <1>1, <1>4, StatusKeeps
<1>5. CASE pre.status = "" /\ SMSAuth \in {InitiateOTP(pre.runtime), ProcessOTP(pre.runtime)}
  BY <1>1, <1>5, InitiateOTPKeeps, ProcessOTPKeeps
<1> QED BY <1>2, <1>3, <1>4, <1>5

-----------------------------------------------------------------------------
(* The invariant, step by step.                                            *)

\* It holds when a flow begins: the runtime data that it begins with have other names.
LEMMA EInvInit == Init => EInv
<1> SUFFICES ASSUME Init
             PROVE  EInv
  OBVIOUS
<1>1. /\ flow = [state |-> "new", at |-> 1, inputs |-> <<>>, runtime |-> graph.runtime,
                 authn |-> NoUser, done |-> {}, assertion |-> None]
      /\ graph \in Graphs /\ users = InitialUsers /\ units = InitialUnits
      /\ sent = <<>> /\ proved = {} /\ created = {}
  BY DEF Init
<1>2. FlowTypeOK
  <2>1. DOMAIN flow = FlowFields /\ flow.at = 1 /\ flow.authn = NoUser
    BY <1>1 DEF FlowFields
  <2>2. 1 \in DOMAIN graph.steps
    BY <1>1, GraphAssumed
  <2>3. DOMAIN NoUser = UserFields
    BY DEF NoUser, UserFields
  <2>4. sent \in Seq({})
    BY <1>1
  <2> QED BY <1>1, <2>1, <2>2, <2>3, <2>4, NamesAssumed DEF FlowTypeOK
<1>3. RuntimeKept(flow.runtime, sent, proved, created, units)
  <2>1. DOMAIN flow.runtime \cap ExecutorKeys = {}
    BY <1>1, GraphAssumed
  <2>2. /\ Attempts(flow.runtime) = 0
        /\ Get(flow.runtime, "otpSessionToken") = "" /\ Get(flow.runtime, "userType") = ""
        /\ Get(flow.runtime, "ouId") = ""
    BY <2>1 DEF Attempts, Get, ExecutorKeys
  <2>3. Len(sent) = 0
    BY <1>1
  <2>4. Counted(flow.runtime, sent)
    <3>1. 0 <= MaxAttempts
      BY DEF MaxAttempts
    <3>2. Attempts(flow.runtime) = 0
      BY <2>2
    <3> QED BY <2>3, <3>1, <3>2 DEF Counted
  <2>5. SessionKept(flow.runtime, sent, proved, created)
    BY <2>2 DEF SessionKept
  <2>6. TypeKept(flow.runtime) /\ UnitKept(flow.runtime, units)
    BY <1>1, <2>2, NamesAssumed DEF TypeKept, UnitKept
  <2> QED BY <2>4, <2>5, <2>6 DEF RuntimeKept
<1>4. UserKept(flow.authn, flow.runtime, proved, created)
  BY <1>1 DEF UserKept, NoUser
<1> QED BY <1>2, <1>3, <1>4 DEF EInv

\* Whichever executor runs keeps the invariant, and creates what may be provisioned.
LEMMA ExecutorsKeep ==
  ASSUME EInv,
         \/ ExecuteBasicAuth \/ ExecuteSMSAuth \/ ExecuteOAuth \/ ExecuteOIDC \/ ExecuteUserType
         \/ ExecuteOU \/ ExecuteProvisioning \/ ExecuteCollector \/ ExecuteAuthorization
         \/ ExecuteHTTP \/ ExecuteAssert \/ ServiceFails
  PROVE  \E e : Apply(e) /\ Keeps(e) /\ Provisions(e)
<1>1. CASE ExecuteBasicAuth
  BY <1>1, BasicAuthKeeps, HarmlessKeeps DEF ExecuteBasicAuth
<1>2. CASE ExecuteSMSAuth
  BY <1>2, SMSAuthKeeps DEF ExecuteSMSAuth
<1>3. CASE ExecuteOAuth
  BY <1>3, ProvidersKeep, HarmlessKeeps DEF ExecuteOAuth
<1>4. CASE ExecuteOIDC
  BY <1>4, ProvidersKeep, HarmlessKeeps DEF ExecuteOIDC
<1>5. CASE ExecuteUserType
  BY <1>5, UserTypeResolverKeeps, HarmlessKeeps DEF ExecuteUserType
<1>6. CASE ExecuteOU
  BY <1>6, OUKeeps DEF ExecuteOU
<1>7. CASE ExecuteProvisioning
  BY <1>7, ProvisioningKeeps DEF ExecuteProvisioning
<1>8. CASE ExecuteCollector
  BY <1>8, CollectorKeeps, HarmlessKeeps DEF ExecuteCollector
<1>9. CASE ExecuteAuthorization
  BY <1>9, AuthorizationKeeps, HarmlessKeeps DEF ExecuteAuthorization
<1>10. CASE ExecuteHTTP
  BY <1>10, RequestsKeep, HarmlessKeeps DEF ExecuteHTTP
<1>11. CASE ExecuteAssert
  BY <1>11, AssertKeeps, HarmlessKeeps DEF ExecuteAssert
<1>12. CASE ServiceFails
  BY <1>12, StatusesAreHarmless, HarmlessKeeps DEF ServiceFails
<1> QED BY <1>1, <1>2, <1>3, <1>4, <1>5, <1>6, <1>7, <1>8, <1>9, <1>10, <1>11, <1>12

\* Steps that leave alone what the invariant is about, but for the inputs, of which there
\* are more, and the users.
LEMMA OthersKeep ==
  ASSUME EInv, graph' = graph, sent' = sent, proved' = proved, created' = created, units' = units,
         DOMAIN users' = People, DOMAIN flow' = FlowFields, flow'.at \in DOMAIN graph.steps,
         flow'.runtime = flow.runtime, flow'.authn = flow.authn,
         DOMAIN flow.inputs \subseteq DOMAIN flow'.inputs
  PROVE  EInv'
<1>1. FlowTypeOK'
  BY DEF EInv, FlowTypeOK
<1>2. Given(flow.runtime) \subseteq (Given(flow.runtime))'
  BY DEF Given, Inputs
<1>3. SessionKept(flow.runtime, sent, proved, created)'
  BY <1>2 DEF EInv, RuntimeKept, SessionKept, Below, Proven, IsRegistration
<1>4. Counted(flow.runtime, sent)' /\ TypeKept(flow.runtime)' /\ UnitKept(flow.runtime, units)'
  BY DEF EInv, RuntimeKept, Counted, TypeKept, UnitKept
<1>5. UserKept(flow.authn, flow.runtime, proved, created)'
  BY DEF EInv, UserKept, Below, Proven
<1> QED BY <1>1, <1>3, <1>4, <1>5 DEF EInv, RuntimeKept

\* The client's posts, nodes that are passed over, and what others do.
LEMMA EInvNext == EInv /\ [Next]_vars => EInv'
<1> SUFFICES ASSUME EInv, [Next]_vars
             PROVE  EInv'
  OBVIOUS
<1>1. /\ DOMAIN users = People /\ DOMAIN flow = FlowFields /\ flow.at \in DOMAIN graph.steps
      /\ DOMAIN graph.steps = 1..Len(graph.steps) /\ Len(graph.steps) \in Nat
  BY GraphAssumed DEF EInv, FlowTypeOK
<1>2. ASSUME NEW inputs \in graph.posts, Continue(inputs)
      PROVE  EInv'
  <2>1. /\ flow' = [flow EXCEPT !.inputs = Merge(inputs, @), !.state = "running"]
        /\ UNCHANGED <<graph, users, units, sent, proved, created>>
    BY <1>2 DEF Continue
  <2>2. DOMAIN flow.inputs \subseteq DOMAIN Merge(inputs, flow.inputs)
    BY DEF Merge
  <2>3. /\ DOMAIN flow' = FlowFields /\ flow'.at = flow.at /\ flow'.runtime = flow.runtime
        /\ flow'.authn = flow.authn /\ flow'.inputs = Merge(inputs, flow.inputs)
    BY <1>1, <2>1 DEF FlowFields
  <2> QED BY <1>1, <2>1, <2>2, <2>3, OthersKeep
<1>3. ASSUME NEW u \in People, NEW new \in OtherChanges \cup {Gone}, ChangedByOthers(u, new)
      PROVE  EInv'
  <2>1. users' = [users EXCEPT ![u] = new] /\ UNCHANGED <<graph, flow, units, sent, proved, created>>
    BY <1>3 DEF ChangedByOthers
  <2> QED BY <1>1, <2>1, OthersKeep
<1>4. CASE SkipNode
  <2>1. /\ flow' = [flow EXCEPT !.at = IF @ < Len(graph.steps) THEN @ + 1 ELSE @,
                                !.state = IF flow.at < Len(graph.steps) THEN @ ELSE "over"]
        /\ UNCHANGED <<graph, users, units, sent, proved, created>>
    BY <1>4 DEF SkipNode
  <2>2. /\ DOMAIN flow' = FlowFields /\ flow'.runtime = flow.runtime
        /\ flow'.authn = flow.authn /\ flow'.inputs = flow.inputs
        /\ flow'.at = IF flow.at < Len(graph.steps) THEN flow.at + 1 ELSE flow.at
    BY <1>1, <2>1 DEF FlowFields
  <2>3. flow'.at \in DOMAIN graph.steps
    BY <1>1, <2>2
  <2> QED BY <1>1, <2>1, <2>2, <2>3, OthersKeep
<1>5. CASE \/ ExecuteBasicAuth \/ ExecuteSMSAuth \/ ExecuteOAuth \/ ExecuteOIDC \/ ExecuteUserType
           \/ ExecuteOU \/ ExecuteProvisioning \/ ExecuteCollector \/ ExecuteAuthorization
           \/ ExecuteHTTP \/ ExecuteAssert \/ ServiceFails
  BY <1>5, ExecutorsKeep, EngineKeeps
<1>6. CASE UNCHANGED vars
  BY <1>1, <1>6, OthersKeep DEF vars
<1> QED BY <1>2, <1>3, <1>4, <1>5, <1>6 DEF Next

\* The invariant holds throughout.
THEOREM ExecutorsInvariant == Spec => []EInv
<1> QED BY EInvInit, EInvNext, PTL DEF Spec

\* However often a flow fails, is sent again or passes the node in another round, it sends
\* no more one-time passwords than it is limited to: the count in the runtime data is that
\* of the passwords sent, whatever else is merged into these data.
THEOREM SendsLimited == Spec => []SendsAreLimited
<1>1. EInv => SendsAreLimited
  BY DEF EInv, RuntimeKept, Counted, SendsAreLimited
<1> QED BY <1>1, ExecutorsInvariant, PTL

\* Whoever a flow takes for authenticated has passed a check of this flow, or was created
\* by it, in any graph of these executors and whatever clients and other administrators do.
THEOREM ProvenOnly == Spec => []OnlyTheProven
<1>1. EInv => OnlyTheProven
  BY DEF EInv, UserKept, Below, Proven, OnlyTheProven, NoSendRefused
<1> QED BY <1>1, ExecutorsInvariant, PTL

\* A user whom a flow creates has a type that the application allows and users may register
\* for, and is in the unit of that type or in one that the flow created.
THEOREM ProvisionsAsAllowed == Spec => ProvisionedAsAllowed
<1> DEFINE Allowed ==
             \A u \in created' \ created :
                LET new == users'[u]
                IN  /\ graph.allowed # {} => new.type \in graph.allowed
                    /\ Schemas[new.type].selfReg
                    /\ new.ou \in {Schemas[new.type].ou} \cup (units \ InitialUnits)
<1>1. ASSUME EInv, [Next]_vars
      PROVE  [Allowed]_vars
  <2>1. CASE created' = created
    BY <2>1
  <2>2. ASSUME NEW e, Apply(e), Provisions(e)
        PROVE  Allowed
    <3>1. created' = created \cup e.created /\ users' = e.users
      BY <2>2 DEF Apply
    <3> QED BY <2>2, <3>1 DEF Provisions
  <2>3. CASE \/ ExecuteBasicAuth \/ ExecuteSMSAuth \/ ExecuteOAuth \/ ExecuteOIDC \/ ExecuteUserType
             \/ ExecuteOU \/ ExecuteProvisioning \/ ExecuteCollector \/ ExecuteAuthorization
             \/ ExecuteHTTP \/ ExecuteAssert \/ ServiceFails
    <3> HIDE DEF Allowed
    <3> QED BY <1>1, <2>2, <2>3, ExecutorsKeep
  <2> QED BY <1>1, <2>1, <2>3 DEF Next, Continue, ChangedByOthers, SkipNode, vars
<1>2. EInv /\ [Next]_vars => [Allowed]_vars
  BY <1>1
<1> QED BY <1>2, ExecutorsInvariant, PTL DEF Spec, ProvisionedAsAllowed

-----------------------------------------------------------------------------
(* What assertions tell, in graphs of the order that is needed for it.     *)

\* The nodes that the flow has passed.
Passed == {i \in DOMAIN graph.steps : i < flow.at \/ (flow.state = "over" /\ i = flow.at)}

\* What roles give to the user of the flow or to the groups in the user's attributes.
Permitted ==
    UNION {r.permits : r \in {x \in Roles : flow.authn.user \in x.users \/ Groups \cap x.groups # {}}}

\* Permissions were looked up by a node that was passed, for the user that the flow still has.
PermissionsKept ==
    "authorized_permissions" \in DOMAIN flow.runtime =>
        /\ \E i \in Passed : graph.steps[i].executor = "AuthorizationExecutor"
        /\ flow.runtime.authorized_permissions \subseteq Permitted

\* The executors that completed have made their checks; or a provider vouched for somebody
\* unknown, and then nobody is authenticated unless the flow creates a user.
DoneProved == \A x \in flow.done \cap AuthnExecutors : \E q \in proved : q.by = AuthenticatorOf(x)

NobodyKnown == ~flow.authn.is /\ \E i \in Passed : AllowsUnknown(graph.steps[i])

AuthenticatorsKept == ~IsRegistration /\ created = {} => DoneProved \/ NobodyKnown

AInv == PermissionsKept /\ AuthenticatorsKept /\ AssertionsTell

\* No other permissions than those in the runtime data.
SamePermissions(rt) ==
    "authorized_permissions" \in DOMAIN rt =>
        /\ "authorized_permissions" \in DOMAIN flow.runtime
        /\ rt.authorized_permissions = flow.runtime.authorized_permissions

\* What an executor has to do for the engine to keep that.
Tells(e) ==
    LET resp == e.resp
    IN  /\ \/ SamePermissions(After(e))
           \/ /\ Step.executor = "AuthorizationExecutor" /\ resp.status = "COMPLETE"
              /\ After(e).authorized_permissions \subseteq Permitted
        /\ ~IsRegistration /\ Step.executor \in AuthnExecutors /\ resp.status = "COMPLETE" =>
              \/ \E q \in e.proved : q.by = AuthenticatorOf(Step.executor)
              \/ AllowsUnknown(Step) /\ ~resp.authn.is
        /\ Step.executor \notin AuthnExecutors /\ e.created = {} => ~resp.authn.is
        /\ resp.assertion # None =>
              /\ Step.executor = "AuthAssertExecutor" /\ flow.authn.is
              /\ resp.assertion.sub = flow.authn.user
              /\ resp.assertion.authenticators = Authenticators
              /\ resp.assertion.permissions =
                    IF "authorized_permissions" \in DOMAIN flow.runtime
                    THEN flow.runtime.authorized_permissions ELSE {}

LEMMA OrderAssumed ==
  ASSUME EInv, TellingOrder(graph), NEW i \in DOMAIN graph.steps, i < flow.at
  PROVE  /\ graph.steps[i].executor = "AuthorizationExecutor" => Step.executor \notin SettingUser
         /\ ~IsRegistration /\ AllowsUnknown(graph.steps[i]) => Step.executor \notin AuthnExecutors
<1>1. /\ flow.at \in DOMAIN graph.steps /\ DOMAIN graph.steps = 1..Len(graph.steps)
      /\ Len(graph.steps) \in Nat
  BY GraphAssumed DEF EInv, FlowTypeOK
<1>2. i \in 1..(flow.at - 1)
  BY <1>1
<1>3. ~IsRegistration => graph.type = "AUTHENTICATION"
  <2>1. graph.type \in {"AUTHENTICATION", "REGISTRATION"}
    BY ExecutorsAssumption, Zenon DEF EInv, FlowTypeOK
  <2> QED BY <2>1 DEF IsRegistration
<1> QED BY <1>1, <1>2, <1>3 DEF TellingOrder, Step

\* The engine sets another user only at nodes that authenticate or provision.
LEMMA UserStays ==
  ASSUME NEW resp, NEW rt, Step.executor \notin SettingUser
  PROVE  NextUser(resp, rt) = flow.authn
  BY DEF NextUser, UpdatesUser, SettingUser

LEMMA EngineTells ==
  ASSUME EInv, AInv, TellingOrder(graph), flow.state = "running", NEW e, Keeps(e), Tells(e), Apply(e)
  PROVE  AInv'
<1> DEFINE rt == After(e)
           authn == NextUser(e.resp, rt)
           done == e.resp.status = "COMPLETE"
<1>1. /\ flow'.runtime = NextRuntime(rt, authn) /\ flow'.authn = authn
      /\ flow'.assertion = e.resp.assertion /\ flow'.state = NextState(e.resp.status)
      /\ flow'.done = IF done THEN flow.done \cup {Step.executor} ELSE flow.done
      /\ flow'.at = IF done /\ flow.at < Len(graph.steps) THEN flow.at + 1 ELSE flow.at
      /\ graph' = graph /\ proved' = proved \cup e.proved /\ created' = created \cup e.created
  BY DEF Apply, After, EInv, FlowTypeOK, FlowFields
<1>2. /\ flow.at \in DOMAIN graph.steps /\ DOMAIN graph.steps = 1..Len(graph.steps)
      /\ Len(graph.steps) \in Nat
  BY GraphAssumed DEF EInv, FlowTypeOK
<1>3. Passed = {i \in DOMAIN graph.steps : i < flow.at}
  BY DEF Passed
<1>4. Passed \subseteq Passed'
  BY <1>1, <1>2, <1>3 DEF Passed
<1>5. done => flow.at \in Passed'
  <2>1. ASSUME done
        PROVE  flow'.at = flow.at + 1 \/ (flow'.state = "over" /\ flow'.at = flow.at)
    <3>1. flow.at < Len(graph.steps) \/ flow.at = Len(graph.steps)
      BY <1>2
    <3>2. flow.at = Len(graph.steps) => flow'.state = "over"
      BY <1>1, <2>1 DEF NextState
    <3> QED BY <1>1, <1>2, <2>1, <3>1, <3>2
  <2> QED BY <1>1, <1>2, <2>1 DEF Passed
<1>6. Step.executor \notin SettingUser => flow'.authn = flow.authn /\ Permitted' = Permitted
  BY <1>1, UserStays DEF Permitted, Groups
<1>7. SamePermissions(flow'.runtime) \/ ~SamePermissions(rt)
  <2>1. CASE NextRuntime(rt, authn) = rt
    BY <1>1, <2>1
  <2>2. CASE NextRuntime(rt, authn) = Merge([userID |-> authn.user], rt)
    BY <1>1, <2>2 DEF Merge, SamePermissions
  <2> QED BY <2>1, <2>2 DEF NextRuntime
<1>8. "authorized_permissions" \in DOMAIN flow'.runtime =>
         flow'.runtime.authorized_permissions = rt.authorized_permissions
  <2>1. CASE NextRuntime(rt, authn) = rt
    BY <1>1, <2>1
  <2>2. CASE NextRuntime(rt, authn) = Merge([userID |-> authn.user], rt)
    BY <1>1, <2>2 DEF Merge
  <2> QED BY <2>1, <2>2 DEF NextRuntime
<1> HIDE DEF rt, authn
<1>9. PermissionsKept'
  <2> SUFFICES ASSUME "authorized_permissions" \in DOMAIN flow'.runtime
               PROVE  /\ \E i \in Passed' : graph.steps[i].executor = "AuthorizationExecutor"
                      /\ flow'.runtime.authorized_permissions \subseteq Permitted'
    BY <1>1 DEF PermissionsKept
  <2>1. CASE SamePermissions(rt)
    <3>1. /\ "authorized_permissions" \in DOMAIN flow.runtime
          /\ flow'.runtime.authorized_permissions = flow.runtime.authorized_permissions
      BY <1>7, <2>1 DEF SamePermissions
    <3>2. PICK i \in Passed : graph.steps[i].executor = "AuthorizationExecutor"
      BY <3>1 DEF AInv, PermissionsKept
    <3>3. Step.executor \notin SettingUser
      BY <1>3, <3>2, OrderAssumed
    <3> QED BY <1>4, <1>6, <3>1, <3>2, <3>3 DEF AInv, PermissionsKept
  <2>2. CASE /\ Step.executor = "AuthorizationExecutor" /\ done
             /\ rt.authorized_permissions \subseteq Permitted
    <3>1. Step.executor \notin SettingUser
      BY <2>2 DEF SettingUser, AuthnExecutors, OAuthExecutors, OIDCExecutors
    <3> QED BY <1>5, <1>6, <1>8, <2>2, <3>1 DEF Step
  <2> QED BY <2>1, <2>2 DEF Tells, rt
<1>10. AuthenticatorsKept'
  <2> SUFFICES ASSUME ~IsRegistration, created' = {}
               PROVE  DoneProved' \/ NobodyKnown'
    BY <1>1 DEF AuthenticatorsKept, IsRegistration
  <2>1. created = {} /\ e.created = {}
    BY <1>1
  <2>2. CASE DoneProved
    <3>1. CASE done /\ Step.executor \in AuthnExecutors
      <4>1. CASE \E q \in e.proved : q.by = AuthenticatorOf(Step.executor)
        BY <1>1, <2>2, <4>1 DEF DoneProved
      <4>2. CASE AllowsUnknown(Step) /\ ~e.resp.authn.is
        <5>1. UpdatesUser(rt)
          BY <3>1 DEF UpdatesUser
        <5>2. authn.is = e.resp.authn.is
          BY <5>1 DEF authn, NextUser, Keeps, UserFields
        <5> QED BY <1>1, <1>5, <3>1, <4>2, <5>2 DEF NobodyKnown, Step
      <4> QED BY <3>1, <4>1, <4>2 DEF Tells
    <3>2. CASE ~(done /\ Step.executor \in AuthnExecutors)
      BY <1>1, <2>2, <3>2 DEF DoneProved
    <3> QED BY <3>1, <3>2
  <2>3. CASE NobodyKnown
    <3>1. PICK i \in Passed : AllowsUnknown(graph.steps[i])
      BY <2>3 DEF NobodyKnown
    <3>2. Step.executor \notin AuthnExecutors
      BY <1>3, <3>1, OrderAssumed
    <3>3. ~e.resp.authn.is
      BY <2>1, <3>2 DEF Tells
    <3>4. authn.is \in {e.resp.authn.is, flow.authn.is}
      BY DEF authn, NextUser, Keeps, UserFields
    <3> QED BY <1>1, <1>4, <2>3, <3>1, <3>3, <3>4 DEF NobodyKnown
  <2> QED BY <2>1, <2>2, <2>3 DEF AInv, AuthenticatorsKept
<1>11. AssertionsTell'
  <2> DEFINE new == e.resp.assertion
  <2> SUFFICES ASSUME new # None
               PROVE  /\ graph.type = "AUTHENTICATION" /\ created' = {} =>
                            \A a \in new.authenticators : \E q \in proved' : q.by = a
                      /\ new.permissions \subseteq
                            UNION {r.permits : r \in
                               {x \in Roles : new.sub \in x.users \/ Groups' \cap x.groups # {}}}
    BY <1>1 DEF AssertionsTell
  <2>1. /\ Step.executor = "AuthAssertExecutor" /\ flow.authn.is
        /\ new.sub = flow.authn.user /\ new.authenticators = Authenticators
        /\ new.permissions = IF "authorized_permissions" \in DOMAIN flow.runtime
                             THEN flow.runtime.authorized_permissions ELSE {}
    BY DEF Tells
  <2> HIDE DEF new
  <2>2. Groups' = Groups
    <3>1. Step.executor \notin SettingUser
      BY <2>1 DEF SettingUser, AuthnExecutors, OAuthExecutors, OIDCExecutors
    <3> QED BY <1>6, <3>1 DEF Groups
  <2>3. new.permissions \subseteq Permitted
    BY <2>1 DEF AInv, PermissionsKept
  <2>4. ASSUME graph.type = "AUTHENTICATION", created' = {}, NEW a \in new.authenticators
        PROVE  \E q \in proved' : q.by = a
    <3>1. DoneProved
      BY <1>1, <2>1, <2>4 DEF AInv, AuthenticatorsKept, NobodyKnown, IsRegistration
    <3>2. PICK x \in flow.done \cap AuthnExecutors : a = AuthenticatorOf(x)
      BY <2>1, <2>4 DEF Authenticators
    <3> QED BY <1>1, <3>1, <3>2 DEF DoneProved
  <2> QED BY <2>1, <2>2, <2>3, <2>4 DEF Permitted
<1> QED BY <1>9, <1>10, <1>11 DEF AInv

\* An answer without a user, permissions and an assertion, to a node that need not have checked.
LEMMA QuietTells ==
  ASSUME NEW e, e.resp.authn.is = FALSE, e.resp.assertion = None, SamePermissions(After(e)),
         e.resp.status # "COMPLETE" \/ Step.executor \notin AuthnExecutors \/ IsRegistration
  PROVE  Tells(e)
  BY DEF Tells

LEMMA PermissionsMerged ==
  ASSUME NEW f, NEW rt, SamePermissions(rt), "authorized_permissions" \notin DOMAIN f
  PROVE  SamePermissions(Merge(f, rt))
  BY DEF SamePermissions, Merge

LEMMA RuntimeHasThem == SamePermissions(flow.runtime)
  BY DEF SamePermissions

\* An answer that only says how far the executor has come.
LEMMA StatusTells ==
  ASSUME NEW status, status # "COMPLETE", NEW p, SamePermissions(p)
  PROVE  Tells(Effect(Response(status))) /\ Tells([Effect(Response(status)) EXCEPT !.runtime = p])
<1> DEFINE plain == Effect(Response(status))
           e == [Effect(Response(status)) EXCEPT !.runtime = p]
<1>1. /\ plain.resp = Response(status) /\ plain.runtime = flow.runtime
      /\ e.resp = Response(status) /\ e.runtime = p
  BY DEF Effect
<1>2. /\ Response(status).authn.is = FALSE /\ Response(status).assertion = None
      /\ Response(status).status = status /\ Response(status).runtime = <<>>
  BY DEF Response, NoUser
<1> HIDE DEF plain, e
<1>3. SamePermissions(After(plain)) /\ SamePermissions(After(e))
  BY <1>1, <1>2, EmptyDomain, PermissionsMerged, RuntimeHasThem DEF After
<1>4. Tells(plain) /\ Tells(e)
  BY <1>1, <1>2, <1>3, QuietTells
<1> QED BY <1>4 DEF plain, e

LEMMA StatusesTell == Tells(Effect(Failure)) /\ Tells(Effect(NeedsInput)) /\ Tells(Effect(Error))
<1>1. \A status : status # "COMPLETE" => Tells(Effect(Response(status)))
  BY StatusTells, RuntimeHasThem
<1> QED BY <1>1 DEF Failure, NeedsInput, Error

\* Complete, without a user: a node that has nothing to check.
LEMMA CompleteTells ==
  ASSUME NEW rt, "authorized_permissions" \notin DOMAIN rt, Step.executor \notin AuthnExecutors
  PROVE  Tells(Effect(Complete(NoUser, rt)))
<1> DEFINE e == Effect(Complete(NoUser, rt))
<1>1. /\ e.resp.authn.is = FALSE /\ e.resp.assertion = None /\ e.resp.runtime = rt
      /\ e.runtime = flow.runtime
  BY DEF Effect, Complete, Response, NoUser
<1> HIDE DEF e
<1>2. SamePermissions(After(e))
  BY <1>1, PermissionsMerged, RuntimeHasThem DEF After
<1>3. Tells(e)
  BY <1>1, <1>2, QuietTells
<1> QED BY <1>3 DEF e

\* A check that was passed: of whom, the other proofs are about.
LEMMA CheckTells ==
  ASSUME NEW e, NEW authn, NEW rt, e.resp = Complete(authn, rt), SamePermissions(e.runtime),
         Step.executor \in AuthnExecutors, "authorized_permissions" \notin DOMAIN rt,
         ~IsRegistration => \/ \E q \in e.proved : q.by = AuthenticatorOf(Step.executor)
                            \/ AllowsUnknown(Step) /\ ~authn.is
  PROVE  Tells(e)
<1>1. e.resp.authn = authn /\ e.resp.assertion = None /\ e.resp.runtime = rt
  BY DEF Complete, Response
<1>2. SamePermissions(After(e))
  BY <1>1, PermissionsMerged DEF After
<1> QED BY <1>1, <1>2 DEF Tells

LEMMA BasicAuthTells ==
  ASSUME Step.executor = "BasicAuthExecutor"
  PROVE  Tells(BasicAuth)
<1> DEFINE required == GetRequiredData(BasicAuthInputs)
           given == Restrict(Inputs, required \cap DOMAIN Inputs)
           search == Restrict(given, DOMAIN given \ {"password"})
           u == CHOOSE x \in AuthenticateUser(given) : TRUE
           passed == {[by |-> "CredentialsAuthenticator", who |-> u]}
           nobody == [NoUser EXCEPT !.attrs = search]
           somebody == UserOf(u, users[u].attrs)
<1>1. \/ BasicAuth \in {Effect(NeedsInput), Effect(Failure)}
      \/ IsRegistration /\ BasicAuth = Effect(Complete(nobody, <<>>))
      \/ BasicAuth = [Effect(Complete(somebody, <<>>)) EXCEPT !.proved = passed]
  BY DEF BasicAuth
<1>2. Step.executor \in AuthnExecutors /\ AuthenticatorOf(Step.executor) = "CredentialsAuthenticator"
  BY DEF AuthnExecutors, AuthenticatorOf
<1> DEFINE registered == Effect(Complete(nobody, <<>>))
           checked == [Effect(Complete(somebody, <<>>)) EXCEPT !.proved = passed]
<1>3. /\ registered.resp = Complete(nobody, <<>>) /\ registered.runtime = flow.runtime
      /\ checked.resp = Complete(somebody, <<>>) /\ checked.runtime = flow.runtime
      /\ checked.proved = passed
  BY DEF Effect
<1>4. \E q \in passed : q.by = AuthenticatorOf(Step.executor)
  BY <1>2
<1> HIDE DEF passed, somebody, nobody, registered, checked
<1>5. IsRegistration => Tells(registered)
  BY <1>2, <1>3, EmptyDomain, CheckTells, RuntimeHasThem
<1>6. Tells(checked)
  BY <1>2, <1>3, <1>4, EmptyDomain, CheckTells, RuntimeHasThem
<1> QED BY <1>1, <1>5, <1>6, StatusesTell DEF registered, checked

\* A provider has vouched for the user who has the subject, or for somebody unknown where the
\* node allows that.
LEMMA VouchedTells ==
  ASSUME NEW s, NEW attrs, Step.executor \in OAuthExecutors \cup OIDCExecutors
  PROVE  Tells(Vouched(s, attrs))
<1> DEFINE data == Restrict(attrs, {"email"} \cap DOMAIN attrs)
           id == GetInternalUser(s)
           unknown == [NoUser EXCEPT !.attrs = attrs]
           types == SelfRegistered(graph.allowed)
           t == CHOOSE x \in types : TRUE
           known == UserOf(id.user, attrs)
           skipped == Merge([skip |-> "true"], data)
           subject == Merge([sub |-> s], data)
           typed == Merge([sub |-> s, eligible |-> "true"], Merge(data, TypeData(t)))
           passed == IF id.found # "one" THEN {} ELSE {[by |-> Step.executor, who |-> id.user]}
           checked(resp) == [Effect(resp) EXCEPT !.proved = passed]
<1>1. /\ Step.executor \in AuthnExecutors /\ AuthenticatorOf(Step.executor) = Step.executor
      /\ unknown.is = FALSE
  BY DEF AuthnExecutors, AuthenticatorOf, OAuthExecutors, OIDCExecutors, NoUser
<1>2. /\ "authorized_permissions" \notin DOMAIN data
      /\ "authorized_permissions" \notin DOMAIN skipped
      /\ "authorized_permissions" \notin DOMAIN subject
      /\ "authorized_permissions" \notin DOMAIN typed
  BY DEF Restrict, Merge, TypeData
<1>3. id.found = "one" => \E q \in passed : q.by = Step.executor
  OBVIOUS
<1>4. Vouched(s, attrs) = checked(ContextUser(s, attrs))
  BY DEF Vouched
<1>5. \/ ContextUser(s, attrs) = Failure
      \/ id.found = "one" /\ ContextUser(s, attrs) \in {Complete(known, data), Complete(known, skipped)}
      \/ IsRegistration /\ ContextUser(s, attrs) = Complete(unknown, subject)
      \/ Step.withoutLocal /\ ContextUser(s, attrs) = Complete(unknown, typed)
  BY DEF ContextUser
<1> HIDE DEF data, unknown, known, skipped, subject, typed, passed, id
<1>6. ASSUME NEW a, NEW rt, "authorized_permissions" \notin DOMAIN rt,
             IsRegistration \/ id.found = "one" \/ (Step.withoutLocal /\ ~a.is)
      PROVE  Tells(checked(Complete(a, rt)))
  <2> DEFINE e == checked(Complete(a, rt))
  <2>1. e.resp = Complete(a, rt) /\ e.runtime = flow.runtime /\ e.proved = passed
    BY DEF Effect
  <2> HIDE DEF e
  <2>2. Tells(e)
    BY <1>1, <1>3, <1>6, <2>1, CheckTells, RuntimeHasThem DEF AllowsUnknown
  <2> QED BY <2>2 DEF e
<1>7. Tells(checked(Failure))
  <2> DEFINE e == checked(Failure)
  <2>1. /\ e.resp.authn.is = FALSE /\ e.resp.assertion = None /\ e.resp.status = "FAILURE"
        /\ e.resp.runtime = <<>> /\ e.runtime = flow.runtime
    BY DEF Effect, Failure, Response, NoUser
  <2> HIDE DEF e
  <2>2. SamePermissions(After(e))
    BY <2>1, EmptyDomain, PermissionsMerged, RuntimeHasThem DEF After
  <2>3. Tells(e)
    BY <2>1, <2>2, QuietTells
  <2> QED BY <2>3 DEF e
<1> HIDE DEF checked
<1> QED BY <1>1, <1>2, <1>4, <1>5, <1>6, <1>7

LEMMA ProvidersTell ==
  ASSUME Step.executor \in OAuthExecutors \cup OIDCExecutors
  PROVE  Tells(OAuthAuth) /\ Tells(OIDCAuth)
<1> DEFINE redirect == Effect(Response("EXTERNAL_REDIRECTION"))
           subject == Inputs.code.sub
<1>1. OAuthAuth \in {redirect, Vouched(subject, OAuthAttributes(Profiles[subject]))}
  BY DEF OAuthAuth
<1>2. OIDCAuth \in {redirect, Effect(Failure), Vouched(subject, OIDCAttributes(Profiles[subject]))}
  BY DEF OIDCAuth
<1>3. Tells(redirect)
  BY StatusTells, RuntimeHasThem
<1> QED BY <1>1, <1>2, <1>3, StatusesTell, VouchedTells

LEMMA ProvisioningTells ==
  ASSUME Step.executor = "ProvisioningExecutor"
  PROVE  Tells(Provisioning)
<1> DEFINE attrs == AttributesForProvisioning
           id == IdentifyUser(attrs)
           free == {x \in People : users[x] = None}
           new == NewUser(attrs)
           u == CHOOSE x \in free : TRUE
           one == [userID |-> id.user]
           who == [is |-> TRUE, user |-> u, type |-> new.type, ou |-> new.ou, attrs |-> new.attrs]
           rt == IF IsRegistration THEN [userID |-> u] ELSE [userID |-> u, provisioned |-> "true"]
           e == [Effect(Complete(who, rt)) EXCEPT !.users = [users EXCEPT ![u] = new], !.created = {u}]
<1>1. Provisioning \in {Effect(Complete(NoUser, <<>>)), Effect(NeedsInput), Effect(Failure),
                        Effect(Complete(NoUser, one)), e}
  BY DEF Provisioning
<1>2. Step.executor \notin AuthnExecutors
  BY DEF AuthnExecutors, OAuthExecutors, OIDCExecutors
<1>3. "authorized_permissions" \notin DOMAIN one /\ "authorized_permissions" \notin DOMAIN rt
  OBVIOUS
<1>4. e.resp.assertion = None /\ e.resp.runtime = rt /\ e.runtime = flow.runtime /\ e.created = {u}
  BY DEF Effect, Complete, Response
<1> HIDE DEF e, one, rt
<1>5. SamePermissions(After(e))
  BY <1>3, <1>4, PermissionsMerged, RuntimeHasThem DEF After
<1>6. Tells(e)
  BY <1>2, <1>4, <1>5 DEF Tells
<1> QED BY <1>1, <1>2, <1>3, <1>6, EmptyDomain, CompleteTells, StatusesTell

\* One-time passwords change nothing of the permissions, however they are sent.
LEMMA PrerequisitesTell == SamePermissions(SatisfyPrerequisites.runtime)
<1> DEFINE one == [userID |-> ResolveUserID]
           rt == Merge(one, flow.runtime)
           mobile == UserMobileNumber(ResolveUserID)
           number == [mobileNumber |-> mobile.number]
<1>1. SatisfyPrerequisites.runtime \in {flow.runtime, rt, Merge(number, rt)}
  BY DEF SatisfyPrerequisites
<1>2. "authorized_permissions" \notin DOMAIN one /\ "authorized_permissions" \notin DOMAIN number
  OBVIOUS
<1> HIDE DEF one, number
<1>3. SamePermissions(rt)
  BY <1>2, PermissionsMerged, RuntimeHasThem
<1> HIDE DEF rt
<1> QED BY <1>1, <1>2, <1>3, PermissionsMerged, RuntimeHasThem

LEMMA InitiateOTPTells ==
  ASSUME NEW p, SamePermissions(p)
  PROVE  Tells(InitiateOTP(p))
<1> DEFINE n == Number(p)
           id == IF flow.authn.is THEN [found |-> "one", user |-> GetUserIDFromContext]
                 ELSE IdentifyUser([mobileNumber |-> n])
           one == [userID |-> id.user]
           next == IF IsRegistration THEN p ELSE Merge(one, p)
           status(rt) == [Effect(Response("FAILURE")) EXCEPT !.runtime = rt]
<1>1. InitiateOTP(p) \in {Effect(Error), status(next), Send(next, n), status(p)}
  BY DEF InitiateOTP, Failure
<1>2. SamePermissions(next)
  <2>1. "authorized_permissions" \notin DOMAIN one
    OBVIOUS
  <2> HIDE DEF one
  <2> QED BY <2>1, PermissionsMerged
<1> HIDE DEF next
<1>3. Tells(status(next)) /\ Tells(status(p))
  BY <1>2, StatusTells
<1>4. Tells(Send(next, n))
  <2> DEFINE e == Send(next, n)
             answer == [otpSessionToken |-> Session(Len(sent) + 1), attemptCount |-> Attempts(next) + 1]
  <2>1. /\ e.resp.authn.is = FALSE /\ e.resp.assertion = None /\ e.resp.runtime = answer
        /\ e.resp.status = "USER_INPUT_REQUIRED" /\ e.runtime = next
    BY DEF Send, Effect, NeedsInput, Response, NoUser
  <2>2. "authorized_permissions" \notin DOMAIN answer
    OBVIOUS
  <2> HIDE DEF e, answer
  <2>3. SamePermissions(After(e))
    BY <1>2, <2>1, <2>2, PermissionsMerged DEF After
  <2>4. Tells(e)
    BY <2>1, <2>3, QuietTells
  <2> QED BY <2>4 DEF e
<1> HIDE DEF status
<1> QED BY <1>1, <1>3, <1>4, StatusesTell

LEMMA ProcessOTPTells ==
  ASSUME NEW p, SamePermissions(p), Step.executor = "SMSOTPAuthExecutor"
  PROVE  Tells(ProcessOTP(p))
<1> DEFINE u == Get(p, "userID")
           over == [otpSessionToken |-> ""]
           owners == UNION {sent[i].owners : i \in {j \in DOMAIN sent : Session(j) = Inputs.otp}}
           whom == IF owners = {} THEN {""} ELSE owners
           passed == {[by |-> "SMSOTPAuthenticator", who |-> o] : o \in whom}
           nobody == [NoUser EXCEPT !.attrs = [mobileNumber |-> Number(p)]]
           somebody == UserOf(u, users[u].attrs)
           passes(a) == [Effect(Complete(a, over)) EXCEPT !.runtime = p, !.proved = passed]
           status == [Effect(Response("FAILURE")) EXCEPT !.runtime = p]
<1>1. ProcessOTP(p) \in {Effect(Failure), Effect(Error), status, passes(nobody), passes(somebody)}
  BY DEF ProcessOTP, Failure
<1>2. /\ Step.executor \in AuthnExecutors
      /\ AuthenticatorOf(Step.executor) = "SMSOTPAuthenticator"
  BY DEF AuthnExecutors, AuthenticatorOf
<1>3. PICK o \in whom : TRUE
  <2>1. CASE owners = {}
    BY <2>1
  <2>2. CASE owners # {}
    BY <2>2
  <2> QED BY <2>1, <2>2
<1>4. \E q \in passed : q.by = "SMSOTPAuthenticator"
  <2> HIDE DEF whom
  <2>1. [by |-> "SMSOTPAuthenticator", who |-> o] \in passed
    OBVIOUS
  <2> QED BY <2>1
<1>5. "authorized_permissions" \notin DOMAIN over
  OBVIOUS
<1> HIDE DEF passed, over
<1>6. ASSUME NEW a
      PROVE  Tells(passes(a))
  <2> DEFINE e == passes(a)
  <2>1. e.resp = Complete(a, over) /\ e.runtime = p /\ e.proved = passed
    BY DEF Effect
  <2> HIDE DEF e
  <2>2. Tells(e)
    BY <1>2, <1>4, <1>5, <2>1, CheckTells
  <2> QED BY <2>2 DEF e
<1>7. Tells(status)
  BY StatusTells
<1> HIDE DEF passes, status, nobody, somebody
<1> QED BY <1>1, <1>6, <1>7, StatusesTell

LEMMA SMSAuthTells ==
  ASSUME Step.executor = "SMSOTPAuthExecutor"
  PROVE  Tells(SMSAuth)
<1> DEFINE has == ValidatePrerequisites(OTPInputs.prerequisites)
           pre == IF has THEN [status |-> "", runtime |-> flow.runtime] ELSE SatisfyPrerequisites
           status == [Effect(Response(pre.status)) EXCEPT !.runtime = pre.runtime]
<1>1. SamePermissions(pre.runtime)
  BY PrerequisitesTell, RuntimeHasThem
<1>2. pre.status # "COMPLETE"
  BY DEF SatisfyPrerequisites, UserMobileNumber
<1>3. SMSAuth \in {Effect(NeedsInput), status, InitiateOTP(pre.runtime), ProcessOTP(pre.runtime)}
  BY DEF SMSAuth
<1> HIDE DEF pre
<1>4. Tells(status)
  BY <1>1, <1>2, StatusTells
<1> QED BY <1>1, <1>3, <1>4, StatusesTell, InitiateOTPTells, ProcessOTPTells

LEMMA UserTypeResolverTells ==
  ASSUME Step.executor = "UserTypeResolver"
  PROVE  Tells(UserTypeResolver)
<1> DEFINE given == Get(Inputs, "userType")
           t == CHOOSE x \in SelfRegistered(graph.allowed) : TRUE
           typed(x) == Effect(Complete(NoUser, TypeData(x)))
<1>1. UserTypeResolver \in {Effect(Failure), Effect(Error), Effect(NeedsInput),
                            Effect(Complete(NoUser, <<>>)), typed(given), typed(t)}
  BY DEF UserTypeResolver
<1>2. Step.executor \notin AuthnExecutors
  BY DEF AuthnExecutors, OAuthExecutors, OIDCExecutors
<1>3. \A x : "authorized_permissions" \notin DOMAIN TypeData(x)
  BY DEF TypeData
<1>4. Tells(typed(given)) /\ Tells(typed(t)) /\ Tells(Effect(Complete(NoUser, <<>>)))
  BY <1>2, <1>3, EmptyDomain, CompleteTells
<1> QED BY <1>1, <1>4, StatusesTell

\* Complete and without a user, whatever becomes of users and units.
LEMMA ChangesTell ==
  ASSUME NEW e, NEW rt, e.resp = Complete(NoUser, rt), e.runtime = flow.runtime,
         "authorized_permissions" \notin DOMAIN rt, Step.executor \notin AuthnExecutors
  PROVE  Tells(e)
<1>1. e.resp.authn = NoUser /\ e.resp.assertion = None /\ e.resp.runtime = rt
  BY DEF Complete, Response
<1>2. SamePermissions(After(e))
  BY <1>1, PermissionsMerged, RuntimeHasThem DEF After
<1>3. NoUser.is = FALSE
  BY DEF NoUser
<1> QED BY <1>1, <1>2, <1>3, QuietTells

LEMMA OUTells ==
  ASSUME Step.executor = "OUExecutor"
  PROVE  Tells(OUCreation)
<1> DEFINE rt == [ouId |-> Inputs.ouHandle]
           e == [Effect(Complete(NoUser, rt)) EXCEPT !.units = units \cup {Inputs.ouHandle}]
<1>1. OUCreation \in {Effect(NeedsInput), Effect(Failure), e}
  BY DEF OUCreation
<1>2. Step.executor \notin AuthnExecutors
  BY DEF AuthnExecutors, OAuthExecutors, OIDCExecutors
<1>3. "authorized_permissions" \notin DOMAIN rt /\ e.resp = Complete(NoUser, rt) /\ e.runtime = flow.runtime
  BY DEF Effect
<1> HIDE DEF e, rt
<1>4. Tells(e)
  BY <1>2, <1>3, ChangesTell
<1> QED BY <1>1, <1>4, StatusesTell

LEMMA CollectorTells ==
  ASSUME Step.executor = "AttributeCollector"
  PROVE  Tells(AttributeCollector)
<1> DEFINE u == GetUserIDFromContext
           collected == InputAttributes
           resp == Complete(NoUser, <<>>)
           new == IF DOMAIN collected = {} THEN users ELSE [users EXCEPT ![u].attrs = Merged(u, collected)]
           e == [Effect(resp) EXCEPT !.users = new]
<1>1. AttributeCollector \in {Effect(resp), Effect(Failure), Effect(NeedsInput), e}
  BY DEF AttributeCollector
<1>2. Step.executor \notin AuthnExecutors
  BY DEF AuthnExecutors, OAuthExecutors, OIDCExecutors
<1>3. e.resp = resp /\ e.runtime = flow.runtime
  BY DEF Effect
<1> HIDE DEF e
<1>4. Tells(e) /\ Tells(Effect(resp))
  BY <1>2, <1>3, EmptyDomain, ChangesTell, CompleteTells
<1> QED BY <1>1, <1>4, StatusesTell

LEMMA RequestsTell ==
  ASSUME NEW e \in HTTPRequest, Step.executor = "HTTPRequestExecutor",
         "authorized_permissions" \notin DOMAIN Step.answer
  PROVE  Tells(e)
<1>1. e \in {Effect(Failure), Effect(Complete(NoUser, <<>>)), Effect(Complete(NoUser, Step.answer))}
  BY DEF HTTPRequest, RequestError, Answered
<1>2. Step.executor \notin AuthnExecutors
  BY DEF AuthnExecutors, OAuthExecutors, OIDCExecutors
<1> QED BY <1>1, <1>2, EmptyDomain, CompleteTells, StatusesTell

\* The permissions are those of the flow's user and of the groups in the user's attributes.
LEMMA AuthorizationTells ==
  ASSUME Step.executor = "AuthorizationExecutor"
  PROVE  Tells(Authorization)
<1> DEFINE requested == IF "requested_permissions" \in DOMAIN flow.runtime
                        THEN flow.runtime.requested_permissions ELSE {}
           permits == PermissionsOf(flow.authn.user, Groups, requested)
           rt == [authorized_permissions |-> permits]
           e == Effect(Complete(NoUser, rt))
<1>1. Authorization \in {Effect(Failure), Effect(Complete(NoUser, <<>>)), e}
  BY DEF Authorization, GetAuthorizedPermissions
<1>2. Step.executor \notin AuthnExecutors
  BY DEF AuthnExecutors, OAuthExecutors, OIDCExecutors
<1>3. permits \subseteq Permitted
  BY DEF PermissionsOf, Permitted
<1>4. /\ e.resp.authn.is = FALSE /\ e.resp.assertion = None /\ e.resp.status = "COMPLETE"
      /\ e.resp.runtime = rt /\ e.runtime = flow.runtime
  BY DEF Effect, Complete, Response, NoUser
<1>5. Merge(rt, flow.runtime).authorized_permissions = permits
  BY DEF Merge
<1> HIDE DEF e, rt, permits
<1>6. Tells(e)
  BY <1>2, <1>3, <1>4, <1>5 DEF Tells, After
<1> QED BY <1>1, <1>2, <1>6, EmptyDomain, CompleteTells, StatusesTell

LEMMA AssertTells ==
  ASSUME Step.executor = "AuthAssertExecutor"
  PROVE  Tells(AuthAssert)
<1> DEFINE assertion == [sub |-> flow.authn.user, authenticators |-> Authenticators,
                         permissions |-> IF "authorized_permissions" \in DOMAIN flow.runtime
                                         THEN flow.runtime.authorized_permissions ELSE {}]
           e == Effect([Response("COMPLETE") EXCEPT !.assertion = assertion])
<1>1. AuthAssert \in {Effect(Failure), Effect(Error)} \/ (flow.authn.is /\ AuthAssert = e)
  BY DEF AuthAssert
<1>2. Step.executor \notin AuthnExecutors
  BY DEF AuthnExecutors, OAuthExecutors, OIDCExecutors
<1>3. /\ e.resp.authn.is = FALSE /\ e.resp.assertion = assertion
      /\ e.resp.runtime = <<>> /\ e.runtime = flow.runtime
  BY DEF Effect, Response, NoUser
<1>4. /\ assertion.sub = flow.authn.user /\ assertion.authenticators = Authenticators
      /\ assertion.permissions = IF "authorized_permissions" \in DOMAIN flow.runtime
                                 THEN flow.runtime.authorized_permissions ELSE {}
  OBVIOUS
<1> HIDE DEF e, assertion
<1>5. SamePermissions(After(e))
  BY <1>3, EmptyDomain, PermissionsMerged, RuntimeHasThem DEF After
<1>6. flow.authn.is => Tells(e)
  BY <1>2, <1>3, <1>4, <1>5 DEF Tells
<1> QED BY <1>1, <1>6, StatusesTell

\* Which executor runs, and that its node is one of the graph.
LEMMA ExecutorsTell ==
  ASSUME EInv, TellingOrder(graph),
         \/ ExecuteBasicAuth \/ ExecuteSMSAuth \/ ExecuteOAuth \/ ExecuteOIDC \/ ExecuteUserType
         \/ ExecuteOU \/ ExecuteProvisioning \/ ExecuteCollector \/ ExecuteAuthorization
         \/ ExecuteHTTP \/ ExecuteAssert \/ ServiceFails
  PROVE  flow.state = "running" /\ \E e : Apply(e) /\ Keeps(e) /\ Tells(e)
<1>1. CASE ExecuteBasicAuth
  BY <1>1, BasicAuthKeeps, HarmlessKeeps, BasicAuthTells DEF ExecuteBasicAuth, Runs
<1>2. CASE ExecuteSMSAuth
  BY <1>2, SMSAuthKeeps, SMSAuthTells DEF ExecuteSMSAuth, Runs
<1>3. CASE ExecuteOAuth
  BY <1>3, ProvidersKeep, HarmlessKeeps, ProvidersTell DEF ExecuteOAuth, Runs
<1>4. CASE ExecuteOIDC
  BY <1>4, ProvidersKeep, HarmlessKeeps, ProvidersTell DEF ExecuteOIDC, Runs
<1>5. CASE ExecuteUserType
  BY <1>5, UserTypeResolverKeeps, HarmlessKeeps, UserTypeResolverTells DEF ExecuteUserType, Runs
<1>6. CASE ExecuteOU
  BY <1>6, OUKeeps, OUTells DEF ExecuteOU, Runs
<1>7. CASE ExecuteProvisioning
  BY <1>7, ProvisioningKeeps, ProvisioningTells DEF ExecuteProvisioning, Runs
<1>8. CASE ExecuteCollector
  BY <1>8, CollectorKeeps, HarmlessKeeps, CollectorTells DEF ExecuteCollector, Runs
<1>9. CASE ExecuteAuthorization
  BY <1>9, AuthorizationKeeps, HarmlessKeeps, AuthorizationTells DEF ExecuteAuthorization, Runs
<1>10. CASE ExecuteHTTP
  <2>1. PICK e \in HTTPRequest : Apply(e)
    BY <1>10 DEF ExecuteHTTP
  <2>2. "authorized_permissions" \notin DOMAIN Step.answer
    BY DEF Step, TellingOrder, EInv, FlowTypeOK
  <2>3. flow.state = "running" /\ Step.executor = "HTTPRequestExecutor"
    BY <1>10 DEF ExecuteHTTP, Runs
  <2> QED BY <2>1, <2>2, <2>3, RequestsKeep, HarmlessKeeps, RequestsTell
<1>11. CASE ExecuteAssert
  BY <1>11, AssertKeeps, HarmlessKeeps, AssertTells DEF ExecuteAssert, Runs
<1>12. CASE ServiceFails
  BY <1>12, StatusesAreHarmless, HarmlessKeeps, StatusesTell DEF ServiceFails
<1> QED BY <1>1, <1>2, <1>3, <1>4, <1>5, <1>6, <1>7, <1>8, <1>9, <1>10, <1>11, <1>12

LEMMA AInvInit == Init /\ TellingOrder(graph) => AInv
<1> SUFFICES ASSUME Init, TellingOrder(graph)
             PROVE  AInv
  OBVIOUS
<1>1. /\ flow.runtime = graph.runtime /\ flow.done = {} /\ flow.assertion = None
      /\ "authorized_permissions" \notin DOMAIN graph.runtime
  BY DEF Init, TellingOrder
<1> QED BY <1>1 DEF AInv, PermissionsKept, AuthenticatorsKept, DoneProved, AssertionsTell

\* Steps after which the flow has its user, its data, what it proved and created as before, and
\* has passed no fewer nodes.
LEMMA OthersTell ==
  ASSUME AInv, graph' = graph, proved' = proved, created' = created, Passed \subseteq Passed',
         flow'.runtime = flow.runtime, flow'.authn = flow.authn, flow'.done = flow.done,
         flow'.assertion = flow.assertion
  PROVE  AInv'
<1>1. Groups' = Groups /\ Permitted' = Permitted
  BY DEF Groups, Permitted
<1>2. PermissionsKept'
  BY <1>1 DEF AInv, PermissionsKept
<1>3. AuthenticatorsKept'
  BY DEF AInv, AuthenticatorsKept, DoneProved, NobodyKnown, IsRegistration
<1>4. AssertionsTell'
  BY <1>1 DEF AInv, AssertionsTell
<1> QED BY <1>2, <1>3, <1>4 DEF AInv

LEMMA AInvNext == EInv /\ AInv /\ TellingOrder(graph) /\ [Next]_vars => AInv'
<1> SUFFICES ASSUME EInv, AInv, TellingOrder(graph), [Next]_vars
             PROVE  AInv'
  OBVIOUS
<1>1. /\ DOMAIN flow = FlowFields /\ flow.at \in DOMAIN graph.steps
      /\ DOMAIN graph.steps = 1..Len(graph.steps) /\ Len(graph.steps) \in Nat
  BY GraphAssumed DEF EInv, FlowTypeOK
<1>2. ASSUME NEW inputs \in graph.posts, Continue(inputs)
      PROVE  AInv'
  <2>1. /\ flow' = [flow EXCEPT !.inputs = Merge(inputs, @), !.state = "running"]
        /\ flow.state # "over" /\ UNCHANGED <<graph, proved, created>>
    BY <1>2 DEF Continue
  <2>2. /\ flow'.at = flow.at /\ flow'.runtime = flow.runtime /\ flow'.authn = flow.authn
        /\ flow'.done = flow.done /\ flow'.assertion = flow.assertion
    BY <1>1, <2>1 DEF FlowFields
  <2>3. Passed \subseteq Passed'
    BY <2>1, <2>2 DEF Passed
  <2> QED BY <2>1, <2>2, <2>3, OthersTell
<1>3. ASSUME NEW u \in People, NEW new \in OtherChanges \cup {Gone}, ChangedByOthers(u, new)
      PROVE  AInv'
  <2>1. UNCHANGED <<graph, flow, proved, created>>
    BY <1>3 DEF ChangedByOthers
  <2>2. Passed' = Passed
    BY <2>1 DEF Passed
  <2> QED BY <2>1, <2>2, OthersTell
<1>4. CASE SkipNode
  <2>1. /\ flow' = [flow EXCEPT !.at = IF @ < Len(graph.steps) THEN @ + 1 ELSE @,
                                !.state = IF flow.at < Len(graph.steps) THEN @ ELSE "over"]
        /\ flow.state = "running" /\ UNCHANGED <<graph, proved, created>>
    BY <1>4 DEF SkipNode
  <2>2. /\ flow'.runtime = flow.runtime /\ flow'.authn = flow.authn
        /\ flow'.done = flow.done /\ flow'.assertion = flow.assertion
        /\ flow'.at = IF flow.at < Len(graph.steps) THEN flow.at + 1 ELSE flow.at
    BY <1>1, <2>1 DEF FlowFields
  <2>3. Passed \subseteq Passed'
    BY <1>1, <2>1, <2>2 DEF Passed
  <2> QED BY <2>1, <2>2, <2>3, OthersTell
<1>5. CASE \/ ExecuteBasicAuth \/ ExecuteSMSAuth \/ ExecuteOAuth \/ ExecuteOIDC \/ ExecuteUserType
           \/ ExecuteOU \/ ExecuteProvisioning \/ ExecuteCollector \/ ExecuteAuthorization
           \/ ExecuteHTTP \/ ExecuteAssert \/ ServiceFails
  BY <1>5, ExecutorsTell, EngineTells
<1>6. CASE UNCHANGED vars
  <2>1. UNCHANGED <<graph, flow, proved, created>>
    BY <1>6 DEF vars
  <2>2. Passed' = Passed
    BY <2>1 DEF Passed
  <2> QED BY <2>1, <2>2, OthersTell
<1> QED BY <1>2, <1>3, <1>4, <1>5, <1>6 DEF Next

\* What an assertion says of authenticators was done in the flow, and what it permits is what
\* roles give to its subject or to the groups in its attributes: in any flow of any graphs in
\* which no node sets another user once permissions were looked up or a provider may have
\* vouched for somebody unknown (auth_assert_executor.go, authz_executor.go).
THEOREM AssertionsAlwaysTell ==
  ASSUME \A g \in Graphs : TellingOrder(g)
  PROVE  Spec => []AssertionsTell
<1>1. EInv => TellingOrder(graph)
  BY DEF EInv, FlowTypeOK
<1>2. Init => AInv
  BY <1>1, AInvInit, EInvInit
<1>3. EInv /\ AInv /\ [Next]_vars => AInv'
  BY <1>1, AInvNext
<1>4. AInv => AssertionsTell
  BY DEF AInv
<1> QED BY <1>2, <1>3, <1>4, ExecutorsInvariant, PTL DEF Spec

=============================================================================
