---------------------------- MODULE RateLimiter ----------------------------
(***************************************************************************)
(* The per-caller budget on AI drafting: workspace.MemoryRateLimiter, one  *)
(* instance of which main.go hands to both assist services.  Allow reads   *)
(* the clock before it takes the mutex, so a reading may be old by the     *)
(* time it is used.                                                        *)
(***************************************************************************)
EXTENDS Naturals, FiniteSets

CONSTANTS Asks,      \* requests, numbered in the order they arrive
          Callers,
          Arrivals,  \* whose request each of them may be
          Budget,       \* requests per window (10)
          Window,    \* its length (one minute)
          MaxClock   \* bound on the clock

ASSUME LimiterAssumption ==
  /\ Asks \subseteq Nat /\ Arrivals \subseteq [Asks -> Callers]
  /\ Budget \in Nat \ {0} /\ Window \in Nat \ {0} /\ MaxClock \in Nat

VARIABLES clock,
          buckets,   \* key -> [windowStart, count], of the keys that have one
          ask,       \* request -> its progress
          granted    \* <<request, its reading, how it came>> of those let through

limiterVars == <<clock, buckets, ask, granted>>

\* The requests take turns between the two services.
Service(a) == IF a % 2 = 1 THEN "pipelineassist" ELSE "assist"

LInit ==
  /\ clock = 0 /\ buckets = <<>> /\ granted = {}
  /\ \E who \in Arrivals : ask = [a \in Asks |-> [pc |-> "idle", caller |-> who[a], now |-> 0]]

LTick == clock < MaxClock /\ clock' = clock + 1 /\ UNCHANGED <<buckets, ask, granted>>

\* Allow up to its mutex: the caller's own id is the key, whatever the service.
Ask(a) ==
  /\ ask[a].pc = "idle" /\ \A b \in Asks : b < a => ask[b].pc # "idle"
  /\ ask' = [ask EXCEPT ![a].pc = "lock", ![a].now = clock]
  /\ UNCHANGED <<clock, buckets, granted>>

\* Mutant: a limiter of its own for each service.
KeyPerService(a) == <<ask[a].caller, Service(a)>>

Key(a) == ask[a].caller

\* now.Sub(windowStart) >= window; a reading older than the window's start
\* gives a negative difference.
Over(b, now) == now >= b.windowStart + Window

\* The buckets that survive the eviction at the start of a new window.
Live(now) == {k \in DOMAIN buckets : ~Over(buckets[k], now)}

\* The key has no bucket, or its window is over.
Fresh(k, now) == k \in DOMAIN buckets => Over(buckets[k], now)

Full(k) == buckets[k].count >= Budget

\* For the property: with a reading of this tick or an old one, and whether
\* the old one opened a window.
Came(a) == IF ask[a].now = clock THEN "prompt" ELSE IF Fresh(Key(a), ask[a].now) THEN "opened" ELSE "late"

\* Allow under the mutex.
Allow(a) ==
  LET k == Key(a)
      now == ask[a].now IN
  /\ ask[a].pc = "lock"
  /\ \/ /\ Fresh(k, now)
        /\ buckets' = [x \in Live(now) \cup {k} |->
                         IF x = k THEN [windowStart |-> now, count |-> 1] ELSE buckets[x]]
        /\ ask' = [ask EXCEPT ![a].pc = "allowed"]
     \/ /\ ~Fresh(k, now) /\ ~Full(k)
        /\ buckets' = [buckets EXCEPT ![k].count = @ + 1]
        /\ ask' = [ask EXCEPT ![a].pc = "allowed"]
     \/ /\ ~Fresh(k, now) /\ Full(k)
        /\ ask' = [ask EXCEPT ![a].pc = "limited"]
        /\ UNCHANGED buckets
  /\ granted' = IF ask'[a].pc = "allowed" THEN granted \cup {<<a, ask[a].now, Came(a)>>} ELSE granted
  /\ UNCHANGED clock

LNext == LTick \/ \E a \in Asks : Ask(a) \/ Allow(a)

-----------------------------------------------------------------------------

GrantsOf(c) == {g \in granted : ask[g[1]].caller = c}
Spent(c, from) == Cardinality({g \in GrantsOf(c) : g[2] \in from..(from + Window - 1)})

\* The caller's requests that waited for the mutex past the tick they read.
Waited(c, how) == Cardinality({g \in GrantsOf(c) : g[3] = how})

\* However its requests interleave with each other and with other callers'
\* evictions, and over both assist services, a caller is let through fewer
\* than two windows' worth in the length of one, the promise of a fixed window.
\* A request that held an old reading may come on top, with a window of its
\* own when it found none (MemoryRateLimiter, "at most max events per window
\* per key").
Limited ==
  \A c \in Callers, t \in 0..MaxClock :
    Spent(c, t) < (2 + Waited(c, "opened")) * Budget + Waited(c, "late")

=============================================================================
