---------------------------------- MODULE Auth ----------------------------------
(***************************************************************************)
(* auth: what the Authenticator makes of a route's declared security       *)
(* requirements and a request's credentials.                               *)
(*                                                                         *)
(* A requirement maps the schemes that must all be satisfied to the scope  *)
(* asked of each; the empty one allows anonymous access.  A credential is  *)
(* "absent", "invalid", "plain" (valid without the scope "admin") or       *)
(* "admin".  A Go map is ranged over in any order, so what a requirement   *)
(* comes to is a set of outcomes.                                          *)
(***************************************************************************)
EXTENDS Sequences, FiniteSetsExt

CONSTANTS
  Schemes,    \* the schemes a requirement may name
  Verified    \* the schemes a verifier is registered for

ASSUME VerifiedAssumption == Verified \subseteq Schemes

Anonymous == << >>

\* What the verifier of scheme returns, or its absence amounts to.
Verdict(scheme, scope, credential) ==
  CASE scheme \notin Verified \/ credential = "invalid"           -> "unauthorized"
    [] scheme \in Verified /\ credential = "absent"               -> "absent"
    [] scheme \in Verified /\ credential = "plain" /\ scope = "admin" -> "forbidden"
    [] OTHER                                                      -> "satisfied"

\* Mutant: one scheme of a requirement is enough.
TrySatisfyAny(requirement, cred) ==
  {Verdict(s, requirement[s], cred[s]) : s \in DOMAIN requirement}

\* trySatisfy: the first scheme that fails, in the order of the map, decides.
TrySatisfy(requirement, cred) ==
  LET verdicts == {Verdict(s, requirement[s], cred[s]) : s \in DOMAIN requirement}
      failures == verdicts \ {"satisfied"}
  IN  IF failures = {} THEN {"satisfied"} ELSE failures

Pass(principals) == [pass |-> TRUE, principals |-> principals]
Problem(status, type) == [pass |-> FALSE, status |-> status, type |-> type]

\* What authorize returns when requirement i comes to outcome[i].
Decide(reqs, outcome) ==
  LET named   == {i \in DOMAIN reqs : reqs[i] # Anonymous}
      won     == {i \in named : outcome[i] = "satisfied"}
      came(o) == \E i \in named : outcome[i] = o
  IN  CASE won # {}                        -> Pass(DOMAIN reqs[Min(won)])
        [] won = {} /\ came("unauthorized") -> Problem(401, "invalid_credentials")
        [] won = {} /\ ~came("unauthorized") /\ named # DOMAIN reqs -> Pass({})
        [] won = {} /\ ~came("unauthorized") /\ named = DOMAIN reqs ->
             IF came("forbidden") THEN Problem(403, "forbidden")
             ELSE Problem(401, "unauthenticated")

\* Every result authorize may have.
Authorize(reqs, cred) ==
  {Decide(reqs, outcome) :
     outcome \in {f \in [DOMAIN reqs -> {"satisfied", "absent", "unauthorized", "forbidden"}] :
                    \A i \in DOMAIN reqs :
                      IF reqs[i] = Anonymous THEN f[i] = "satisfied"
                      ELSE f[i] \in TrySatisfy(reqs[i], cred)}}

\* What a hook that decides a problem does: there is none, it returns nil, it
\* changes the status of the problem it was given and returns nil, or it
\* returns a problem with a status of its choice.
Hook == [kind : {"none", "nil", "changes", "returns"}, status : Nat]

\* shape: the status written.  A hook that returns nil has the problem written
\* that it was given, as it left it; the status of one it returns is written
\* unless it is zero.
Shape(status, hook) ==
  CASE hook.kind = "changes"                     -> hook.status
    [] hook.kind = "returns" /\ hook.status # 0 -> hook.status
    [] OTHER                                     -> status

=============================================================================
