------------------------------- MODULE Relay -------------------------------
(***************************************************************************)
(* The workspace's two clients of the FairTier API's relays: the alert     *)
(* email for a failed run (relay.AlertClient) and AI drafting              *)
(* (llm.RemoteCaller).  Both present a client-credentials token that a     *)
(* TokenSource mints and caches, and both mint once more on a 401.         *)
(***************************************************************************)
EXTENDS Naturals

CONSTANTS Alerts,    \* calls of AlertPipelineFailure
          Drafts,    \* calls of RemoteCaller.Complete, numbered as they are made
          None,
          MaxEvents  \* bound: what the environment starts or breaks, together

VARIABLES cache,     \* client -> the cached token's number, 0 for none
          stale,     \* client -> the clock is within a minute of its expiry
          revoked,   \* tokens up to this number are refused by the relay
          minted,    \* tokens issued so far
          minting,   \* client -> the call that holds the TokenSource's mutex
          call,      \* call -> its progress
          handled,   \* call -> times the relay acted on it
          events

relayVars == <<cache, stale, revoked, minted, minting, call, handled>>

Calls == Alerts \cup Drafts
Clients == {"alert", "draft"}
Client(c) == IF c \in Alerts THEN "alert" ELSE "draft"

Tick == events < MaxEvents /\ events' = events + 1
Calm == UNCHANGED events

RelayInit ==
  /\ cache = [k \in Clients |-> 0] /\ stale = [k \in Clients |-> FALSE]
  /\ revoked = 0 /\ minted = 0
  /\ minting = [k \in Clients |-> None]
  /\ call = [c \in Calls |-> [pc |-> "idle", attempt |-> 0, token |-> 0, out |-> "none"]]
  /\ handled = [c \in Calls |-> 0]

Ends(c, out) == call' = [call EXCEPT ![c] = [pc |-> "done", attempt |-> 0, token |-> 0, out |-> out]]

\* The call starts: the payload is built.
Start(c) ==
  /\ call[c].pc = "idle"
  /\ call' = [call EXCEPT ![c].pc = "bearer"]
  /\ UNCHANGED <<cache, stale, revoked, minted, minting, handled>>

\* Bearer: a cached token a minute short of expiry, unless a 401 forces a new
\* one; else the token is minted with the mutex held.
Bearer(c) ==
  LET k == Client(c) IN
  /\ call[c].pc = "bearer" /\ minting[k] = None /\ Calm
  /\ \/ /\ call[c].attempt = 0 /\ cache[k] # 0 /\ ~stale[k]
        /\ call' = [call EXCEPT ![c].pc = "post", ![c].token = cache[k]]
        /\ UNCHANGED minting
     \/ /\ call[c].attempt > 0 \/ cache[k] = 0 \/ stale[k]
        /\ minting' = [minting EXCEPT ![k] = c]
        /\ call' = [call EXCEPT ![c].pc = "mint"]
  /\ UNCHANGED <<cache, stale, revoked, minted, handled>>

\* Mutant: the mutex stays locked.
MintKeepsLock(c) ==
  LET k == Client(c) IN
  /\ call[c].pc = "mint"
  /\ \/ /\ Calm
        /\ minted' = minted + 1
        /\ cache' = [cache EXCEPT ![k] = minted + 1]
        /\ stale' = [stale EXCEPT ![k] = FALSE]
        /\ call' = [call EXCEPT ![c].pc = "post", ![c].token = minted + 1]
     \/ Tick /\ Ends(c, "error") /\ UNCHANGED <<minted, cache, stale>>
  /\ UNCHANGED <<minting, revoked, handled>>

\* The token endpoint answers, or it does not and the cache stays as it was.
Mint(c) ==
  LET k == Client(c) IN
  /\ call[c].pc = "mint"
  /\ minting' = [minting EXCEPT ![k] = None]
  /\ \/ /\ Calm
        /\ minted' = minted + 1
        /\ cache' = [cache EXCEPT ![k] = minted + 1]
        /\ stale' = [stale EXCEPT ![k] = FALSE]
        /\ call' = [call EXCEPT ![c].pc = "post", ![c].token = minted + 1]
     \/ Tick /\ Ends(c, "error") /\ UNCHANGED <<minted, cache, stale>>
  /\ UNCHANGED <<revoked, handled>>

\* tokenExpiry: expires_in, the exp claim or five minutes have almost passed.
Expire(k) ==
  /\ Tick /\ cache[k] # 0 /\ ~stale[k]
  /\ stale' = [stale EXCEPT ![k] = TRUE]
  /\ UNCHANGED <<cache, revoked, minted, minting, call, handled>>

\* The relay stops accepting the tokens issued so far, whatever their expiry.
Revoke ==
  /\ Tick /\ revoked # minted
  /\ revoked' = minted
  /\ UNCHANGED <<cache, stale, minted, minting, call, handled>>

\* What the relay may answer when it acted on the call, and when it did not.
Acted(c) == IF c \in Alerts THEN {"sent"} ELSE {"drafted"}
Declined(c) == IF c \in Alerts THEN {"suppressed", "unconfigured"} ELSE {"unconfigured", "limited"}

\* Mutant: every failure is tried once more.
PostRetrying(c) ==
  /\ call[c].pc = "post"
  /\ \/ /\ call[c].token > revoked /\ Calm
        /\ \E out \in Acted(c) : Ends(c, out)
        /\ handled' = [handled EXCEPT ![c] = @ + 1]
     \/ /\ call[c].token > revoked /\ Tick
        /\ \E acted \in {0, 1} : handled' = [handled EXCEPT ![c] = @ + acted]
        /\ IF call[c].attempt = 0
           THEN call' = [call EXCEPT ![c].pc = "bearer", ![c].attempt = 1]
           ELSE Ends(c, "error")
     \/ /\ call[c].token <= revoked /\ Calm /\ UNCHANGED handled
        /\ IF call[c].attempt = 0
           THEN call' = [call EXCEPT ![c].pc = "bearer", ![c].attempt = 1]
           ELSE Ends(c, "refused")
  /\ UNCHANGED <<cache, stale, revoked, minted, minting>>

\* post, doPost: one POST.  The first 401 asks for a fresh token; any other
\* failure is final, also one that hides that the relay acted.
Post(c) ==
  /\ call[c].pc = "post"
  /\ \/ /\ call[c].token > revoked /\ Calm
        /\ \/ /\ \E out \in Acted(c) : Ends(c, out)
              /\ handled' = [handled EXCEPT ![c] = @ + 1]
           \/ (\E out \in Declined(c) : Ends(c, out)) /\ UNCHANGED handled
     \/ /\ Tick /\ Ends(c, "error")
        /\ \E acted \in {0, 1} :
             /\ acted = 1 => call[c].token > revoked
             /\ handled' = [handled EXCEPT ![c] = @ + acted]
     \/ /\ call[c].token <= revoked /\ Calm /\ UNCHANGED handled
        /\ IF call[c].attempt = 0
           THEN call' = [call EXCEPT ![c].pc = "bearer", ![c].attempt = 1]
           ELSE Ends(c, "refused")
  /\ UNCHANGED <<cache, stale, revoked, minted, minting>>

RelayStep(c) == Bearer(c) \/ Mint(c) \/ Post(c)
Outside == Revoke \/ \E k \in Clients : Expire(k)

-----------------------------------------------------------------------------

\* The relay acts at most once on a call: no second email for one failed run
\* and no second draft for one question, although a call may post twice
\* (AlertPipelineFailure, RemoteCaller.post).
HandledOnce == \A c \in Calls : handled[c] <= 1

=============================================================================
