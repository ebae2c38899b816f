--------------------------- MODULE Notifications ---------------------------
(***************************************************************************)
(* In-app notifications: producers persist a notification and publish it   *)
(* with pg_notify, the listener of every replica pumps it into that        *)
(* replica's broker, and the broker into the bounded channel of every      *)
(* Console whose stream is open there.  Replicas crash, listener           *)
(* connections and streams are cut, and a slow Console may stop reading.   *)
(*                                                                         *)
(* One workspace: every list, count and broadcast is scoped to it.         *)
(***************************************************************************)
EXTENDS Naturals, Sequences, FiniteSets, Functions

CONSTANTS MaxNotices,  \* bound: notifications raised; ids in creation order
          Replicas, Consoles,
          Slow,        \* consoles that may stop reading their stream
          ChanCap,     \* capacity of a subscriber's channel
          ListLimit,   \* defaultListLimit
          None,
          MaxEvents    \* bound: requests, cuts, crashes and faults together

ASSUME NotificationsAssumption ==
  /\ MaxNotices \in Nat /\ ChanCap \in Nat \ {0} /\ ListLimit \in Nat \ {0}
  /\ Slow \subseteq Consoles /\ None \notin Replicas \cup Consoles

VARIABLES notice,   \* table notifications: id -> "none", "unread" or "read"
          job,      \* id -> the producer raising it
          session,  \* replica -> state of its LISTEN connection
          wire,     \* replica -> NOTIFY payloads sent to that connection
          console,  \* console -> its stream and what it shows
          events

vars == <<notice, job, session, wire, console, events>>

Tick == events < MaxEvents /\ events' = events + 1
Calm == UNCHANGED events

Notices == 1..MaxNotices
Raised == {n \in Notices : notice[n] # "none"}
Subscribed(r) == {c \in Consoles : console[c].at = r}

Init ==
  /\ notice = [n \in Notices |-> "none"]
  /\ job = [n \in Notices |-> [pc |-> "idle", at |-> None]]
  /\ session = [r \in Replicas |-> "listening"]
  /\ wire = [r \in Replicas |-> <<>>]
  \* Streams are open, on any replica.
  /\ console \in [Consoles -> [at : Replicas, chan : {<<>>}, known : {{}}, missed : {{}}]]
  /\ events = 0

-----------------------------------------------------------------------------
(* The broker *)

\* A non-blocking send: a full channel drops the notification.
Offer(k, n) ==
  IF Len(k.chan) < ChanCap THEN [k EXCEPT !.chan = Append(@, n)]
  ELSE [k EXCEPT !.missed = @ \cup {n}]
Broadcast(ks, r, n) == [c \in Consoles |-> IF ks[c].at = r THEN Offer(ks[c], n) ELSE ks[c]]
\* Bookkeeping of the model: n will not reach the streams of the replicas R.
Miss(ks, R, S) == [c \in Consoles |-> IF ks[c].at \in R THEN [ks[c] EXCEPT !.missed = @ \cup S] ELSE ks[c]]

\* Subscribe registers before the handler's first heartbeat goes out.
Open(c, r) ==
  /\ Tick /\ console[c].at = None
  /\ console' = [console EXCEPT ![c].at = r,
                   ![c].missed = {n \in Raised : job[n].pc # "publish"} \ Range(wire[r])]
  /\ UNCHANGED <<notice, job, session, wire>>

\* The unsubscribe func: idempotent, under the broker's mutex.
Closed(k) == [k EXCEPT !.at = None, !.chan = <<>>, !.missed = {}]
\* The browser or a proxy ends the stream; the handler's deferred cancel runs.
Cut(c) ==
  /\ Tick /\ console[c].at # None
  /\ console' = [console EXCEPT ![c] = Closed(@)]
  /\ UNCHANGED <<notice, job, session, wire>>

\* pumpNotifications sends the next notification.
Pump(c) ==
  LET k == console[c] IN
  /\ k.chan # <<>> /\ Calm
  /\ console' = [console EXCEPT ![c] = [k EXCEPT !.chan = Tail(@), !.known = @ \cup {Head(k.chan)}]]
  /\ UNCHANGED <<notice, job, session, wire>>

Newest == {n \in Raised : Cardinality({m \in Raised : m >= n}) <= ListLimit}
\* ListNotifications: the newest ListLimit.
List(c) ==
  /\ ~(Newest \subseteq console[c].known) /\ Tick
  /\ console' = [console EXCEPT ![c].known = @ \cup Newest, ![c].missed = @ \ Newest]
  /\ UNCHANGED <<notice, job, session, wire>>

\* An unknown id is ErrNotificationNotFound.
MarkRead(n) ==
  /\ notice[n] = "unread" /\ Tick
  /\ notice' = [notice EXCEPT ![n] = "read"]
  /\ UNCHANGED <<job, session, wire, console>>

MarkAllRead ==
  /\ \E n \in Notices : notice[n] = "unread"
  /\ Tick
  /\ notice' = [n \in Notices |-> IF notice[n] = "unread" THEN "read" ELSE notice[n]]
  /\ UNCHANGED <<job, session, wire, console>>

-----------------------------------------------------------------------------
(* Notify *)

\* Mutant: published first, persisted never when the replica dies.
RaisePublishFirst(n, r) ==
  /\ Tick /\ job[n].pc = "idle" /\ \A m \in 1..(n - 1) : job[m].pc # "idle"
  /\ job' = [job EXCEPT ![n] = [pc |-> "publish", at |-> r]]
  /\ UNCHANGED <<notice, session, wire, console>>

\* CreateNotification.  When it fails the producer logs and nothing is left.
Raise(n, r) ==
  /\ Tick /\ job[n].pc = "idle" /\ \A m \in 1..(n - 1) : job[m].pc # "idle"
  /\ notice' = [notice EXCEPT ![n] = "unread"]
  /\ job' = [job EXCEPT ![n] = [pc |-> "publish", at |-> r]]
  /\ UNCHANGED <<session, wire, console>>

Listening == {r \in Replicas : session[r] = "listening"}
Sent(n) == [r \in Replicas |-> IF r \in Listening THEN Append(wire[r], n) ELSE wire[r]]

\* PublishNotification: pg_notify reaches the sessions that LISTEN now.
Publish(n) ==
  /\ job[n].pc = "publish" /\ Calm
  /\ wire' = Sent(n) /\ console' = Miss(console, Replicas \ Listening, {n})
  /\ job' = [job EXCEPT ![n].pc = "done"]
  /\ UNCHANGED <<notice, session>>

\* Mutant: no fallback.
PublishFailsSilently(n) ==
  /\ job[n].pc = "publish" /\ Tick
  /\ UNCHANGED <<wire, console>>
  /\ job' = [job EXCEPT ![n].pc = "done"]
  /\ UNCHANGED <<notice, session>>

\* The publish fails, before or after Postgres took it: a local broadcast.
PublishFails(n) ==
  LET r == job[n].at IN
  /\ job[n].pc = "publish" /\ Tick
  /\ \/ /\ UNCHANGED wire
        /\ console' = Broadcast(Miss(console, Replicas \ {r}, {n}), r, n)
     \/ /\ wire' = Sent(n)
        /\ console' = Broadcast(Miss(console, Replicas \ (Listening \cup {r}), {n}), r, n)
  /\ job' = [job EXCEPT ![n].pc = "done"]
  /\ UNCHANGED <<notice, session>>

-----------------------------------------------------------------------------
(* NotificationListener.Run *)

\* pgx.Connect, then LISTEN.
Connect(r) ==
  /\ session[r] # "listening" /\ Calm
  /\ session' = [session EXCEPT ![r] = IF @ = "down" THEN "connected" ELSE "listening"]
  /\ UNCHANGED <<notice, job, wire, console>>

\* Mutant: the broadcast waits for room in every channel.
ListenBlocking(r) ==
  /\ session[r] = "listening" /\ wire[r] # <<>> /\ Calm
  /\ \A c \in Subscribed(r) : Len(console[c].chan) < ChanCap
  /\ wire' = [wire EXCEPT ![r] = Tail(@)]
  /\ console' = Broadcast(console, r, Head(wire[r]))
  /\ UNCHANGED <<notice, job, session>>

\* WaitForNotification, and into the local broker.
Listen(r) ==
  /\ session[r] = "listening" /\ wire[r] # <<>> /\ Calm
  /\ wire' = [wire EXCEPT ![r] = Tail(@)]
  /\ console' = Broadcast(console, r, Head(wire[r]))
  /\ UNCHANGED <<notice, job, session>>

\* What Postgres queued for a lost connection is lost with it.
ConnectionLost(r) ==
  /\ session[r] # "down" /\ Tick
  /\ session' = [session EXCEPT ![r] = "down"]
  /\ wire' = [wire EXCEPT ![r] = <<>>]
  /\ console' = Miss(console, {r}, Range(wire[r]))
  /\ UNCHANGED <<notice, job>>

\* The replica restarts: its streams end, its producers stop where they are.
Crash(r) ==
  LET cut == {n \in Notices : job[n].at = r /\ job[n].pc = "publish"} IN
  /\ Tick
  /\ session' = [session EXCEPT ![r] = "down"]
  /\ wire' = [wire EXCEPT ![r] = <<>>]
  /\ console' = LET ks == Miss(console, Replicas \ {r}, cut)
                IN [c \in Consoles |-> IF ks[c].at = r THEN Closed(ks[c]) ELSE ks[c]]
  /\ job' = [n \in Notices |-> IF n \in cut THEN [job[n] EXCEPT !.pc = "done"] ELSE job[n]]
  /\ UNCHANGED notice

-----------------------------------------------------------------------------
Next ==
  \/ \E c \in Consoles, r \in Replicas : Open(c, r)
  \/ \E c \in Consoles : Cut(c) \/ Pump(c) \/ List(c)
  \/ \E n \in Notices, r \in Replicas : Raise(n, r)
  \/ \E n \in Notices : MarkRead(n) \/ Publish(n) \/ PublishFails(n)
  \/ MarkAllRead
  \/ \E r \in Replicas : Connect(r) \/ Listen(r) \/ ConnectionLost(r) \/ Crash(r)

Spec == Init /\ [][Next]_vars

\* Listeners and producers run on; so does every Console that is not slow.
\* Nobody is obliged to open a stream or to load the list.
Fairness ==
  /\ \A r \in Replicas : WF_vars(Connect(r)) /\ WF_vars(Listen(r))
  /\ \A n \in Notices : WF_vars(Publish(n))
  /\ \A c \in Consoles \ Slow : WF_vars(Pump(c))
FairSpec == Spec /\ Fairness

-----------------------------------------------------------------------------
(* Properties *)

OnTheWay(c, n) ==
  \/ n \in Range(console[c].chan) \cup Range(wire[console[c].at])
  \/ job[n].pc = "publish"

\* An open stream loses a notification only where the design accepts it: the
\* channel is full, the listener is not listening, the producer dies before
\* publishing or falls back to its own replica, or the stream opened later.
Accounted ==
  \A c \in Consoles, n \in Raised :
    console[c].at # None => n \in console[c].known \cup console[c].missed \/ OnTheWay(c, n)

\* Liveness: an open stream that is read shows every notification it did not
\* miss, whatever slow streams do beside it (Broadcast, listen).
Delivered ==
  \A c \in Consoles \ Slow, n \in Notices :
    console[c].at # None /\ n \in Raised ~>
      console[c].at = None \/ n \in console[c].known \cup console[c].missed

B == INSTANCE Bell WITH
       raised <- Raised, read <- {n \in Notices : notice[n] = "read"},
       seen <- [c \in Consoles |-> console[c].known]
\* The bus implements the bell: only persisted notifications are ever shown.
ImplementsBell == B!Spec

=============================================================================
