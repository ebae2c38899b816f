---------------------------- MODULE MCRequests ----------------------------
(***************************************************************************)
(* The parts of the request path that share no state, one at a time: AI    *)
(* drafting with the relays, the rate limiter, the process with its        *)
(* listeners, the query engine, the trust anchor of many boxes, the        *)
(* surfaces a deployment advertises, and the context of an explanation.    *)
(***************************************************************************)
EXTENDS Assist, RateLimiter, Gateway, QueryEngine, BoxTrust, Surfaces, ErrorContext

VARIABLE focus    \* the part that runs; the others stay in their initial state

MCWarehouse == <<"s", "t", "u">>

\* One caller five times, two windows' worth and more, with another caller
\* before the last: the new window of that one evicts the first one's bucket
\* while its requests still wait with old readings.
MCArrivals == {<<"jane", "jane", "jane", "jane", "joe", "jane">>}

\* Up to two endpoints of up to two batches of up to two rows.
MCShapes == SeqOf(SeqOf(0..2, 2), 2)

\* Trees of depth two with up to two keys or list items in an object, and those
\* under one more key or in one more list; and what does not parse.
Grown(values, width) ==
  {Leaf} \cup {List(<<v>>) : v \in values}
    \cup UNION {{Object(f) : f \in [ks -> values]} : ks \in kSubset(width, {"url", "token", "primary_key"})}
MCConfigs == {Malformed} \cup Grown(Grown(Grown({Leaf}, 1) \cup Grown({Leaf}, 2), 2), 1)

vars == <<assistVars, limiterVars, gatewayVars, query, trustVars, surfaceVars, prompt, focus>>

Assisting == {"assist", "alert"}

Init ==
  /\ focus \in {"assist", "alert", "limiter", "gateway", "query", "trust", "surfaces", "context"}
  /\ AInit /\ LInit /\ GInit /\ QInit /\ TInit /\ SInit /\ EInit
  /\ focus # "trust" => vms = {}
  /\ focus \notin Assisting => provider = "none" /\ ~own

\* The two clients of the relays share no token: two requests run together, and
\* an alert beside one request.
Beside ==
  /\ focus = "assist" => \A c \in Alerts : call'[c].pc = "idle"
  /\ focus = "alert" => \A d \in Drafts : d > 1 => asked'[d].pc = "idle"

Next ==
  /\ UNCHANGED focus
  /\ \/ focus \in Assisting /\ ANext /\ Beside /\ UNCHANGED <<limiterVars, gatewayVars, query, trustVars, surfaceVars, prompt>>
     \/ focus = "limiter" /\ LNext /\ UNCHANGED <<assistVars, gatewayVars, query, trustVars, surfaceVars, prompt>>
     \/ focus = "gateway" /\ GNext /\ UNCHANGED <<assistVars, limiterVars, query, trustVars, surfaceVars, prompt>>
     \/ focus = "query" /\ QNext /\ UNCHANGED <<assistVars, limiterVars, gatewayVars, trustVars, surfaceVars, prompt>>
     \/ focus = "trust" /\ TNext /\ UNCHANGED <<assistVars, limiterVars, gatewayVars, query, surfaceVars, prompt>>
     \/ focus = "surfaces" /\ SNext /\ UNCHANGED <<assistVars, limiterVars, gatewayVars, query, trustVars, prompt>>
     \/ focus = "context" /\ ENext /\ UNCHANGED <<assistVars, limiterVars, gatewayVars, query, trustVars, surfaceVars>>

\* The other parts' fairness asks nothing of their initial state: no request of
\* theirs has arrived.
Spec ==
  /\ Init /\ [][Next]_vars
  /\ \A c \in Calls : WF_assistVars(focus \in Assisting /\ Goroutine(c))
  /\ WF_gatewayVars(focus = "gateway" /\ Process)
  /\ WF_gatewayVars(focus = "gateway" /\ TenSeconds)

=============================================================================
