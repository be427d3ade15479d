---------------------------------- MODULE Cors ----------------------------------
(***************************************************************************)
(* cors: which origins the middleware allows and what it adds to a         *)
(* response.  An origin is a model value; an entry of AllowOrigins is the  *)
(* set of origins it covers: all of them for "*", one for an exact origin, *)
(* the subdomains for "*.example.com".  The CORS part of a header map is   *)
(* [origin, vary, credentials, preflight]: the values of                   *)
(* Access-Control-Allow-Origin and of Vary in the order they were added,   *)
(* and whether the credentials and the preflight headers are there.        *)
(***************************************************************************)
EXTENDS Sequences, FiniteSetsExt

CONSTANTS
  Origins,    \* what an Origin header may name
  NoOrigin,   \* the request has no Origin header
  Star        \* the header value "*"

ASSUME OriginsAssumption == NoOrigin \notin Origins /\ Star \notin Origins

\* Options: the entries in order, the function that overrides them (the set
\* it accepts), if there is one, and AllowCredentials.
NoHeaders == [origin |-> << >>, vary |-> << >>, credentials |-> FALSE, preflight |-> FALSE]

\* Mutant: the wildcard is echoed whatever the credentials.
MatchOriginStar(origin, opts) ==
  LET hits == {i \in DOMAIN opts.entries : origin \in opts.entries[i]} IN
  CASE opts.hasFunc  -> IF origin \in opts.func THEN <<origin>> ELSE << >>
    [] ~opts.hasFunc /\ hits = {} -> << >>
    [] ~opts.hasFunc /\ hits # {} ->
         IF opts.entries[Min(hits)] = Origins THEN <<Star>> ELSE <<origin>>

\* The value to allow origin with, as a sequence that is empty when it is not
\* allowed: the first entry that covers it decides.
MatchOrigin(origin, opts) ==
  LET hits == {i \in DOMAIN opts.entries : origin \in opts.entries[i]} IN
  CASE opts.hasFunc  -> IF origin \in opts.func THEN <<origin>> ELSE << >>
    [] ~opts.hasFunc /\ hits = {} -> << >>
    [] ~opts.hasFunc /\ hits # {} ->
         IF opts.entries[Min(hits)] = Origins /\ ~opts.credentials THEN <<Star>> ELSE <<origin>>

Allows(origin, opts) == origin # NoOrigin /\ MatchOrigin(origin, opts) # << >>

IsPreflight(r) == r.method = "OPTIONS" /\ r.asksMethod

\* The headers after the middleware has seen the request of origin: Set
\* replaces the allowed origin, Add extends Vary.
CorsHeaders(h, origin, opts) ==
  LET value == MatchOrigin(origin, opts)
  IN  [h EXCEPT !.origin = value, !.vary = Append(@, "Origin"),
                !.credentials = @ \/ (opts.credentials /\ value # <<Star>>)]

PreflightHeaders(h) ==
  [h EXCEPT !.vary = @ \o <<"Access-Control-Request-Method", "Access-Control-Request-Headers">>,
            !.preflight = TRUE]

=============================================================================
