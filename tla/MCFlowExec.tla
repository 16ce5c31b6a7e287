----------------------------- MODULE MCFlowExec -----------------------------
(* Graphs of the shapes that ship with the server: choose how to log in,   *)
(* with a password (asked by a prompt) or with an external provider whose  *)
(* unknown users are provisioned, then authorization and the assertion.    *)
EXTENDS FlowExec, TLC

CONSTANTS choose, ask, basic, social, provision, authz, assert, password

AllNodes == {choose, ask, basic, social, provision, authz, assert}

MCNodeType ==
    (choose :> "DECISION") @@ (ask :> "PROMPT_ONLY")
    @@ [n \in AllNodes \ {choose, ask} |-> "TASK_EXECUTION"]

MCExecutor ==
    (basic :> "authn") @@ (social :> "authn") @@ (provision :> "provisioning")
    @@ (assert :> "assert") @@ [n \in {choose, ask, authz} |-> "other"]

MCRequired == [n \in AllNodes |-> IF n \in {ask, basic} THEN {password} ELSE {}]

AuthnGraph ==
    (choose :> <<ask, social>>) @@ (ask :> <<basic>>) @@ (basic :> <<authz>>)
    @@ (social :> <<provision>>) @@ (provision :> <<authz>>) @@ (authz :> <<assert>>)
    @@ (assert :> <<>>)

\* A short registration for three requests: initiate, continue, retry.
LinearGraph ==
    [n \in AllNodes \ {basic} |-> <<>>] @@ (basic :> <<provision>>)

OnePerson == [r \in Requests |-> "alice"]

RequestSymmetry == Permutations(Requests)
=============================================================================
