------------------------ MODULE NotificationsProofs ------------------------
(***************************************************************************)
(* The notification bus implements the bell, for any number of replicas,   *)
(* Consoles and notifications and any channel capacity.                    *)
(*                                                                         *)
(* What makes it true is an order: Notify persists before it publishes, so *)
(* whatever is on a wire or in a channel has a row in the table.           *)
(*                                                                         *)
(* Then the repo editor: a push mirror that was set replaces the ones      *)
(* before it, for any number of calls and remotes.                         *)
(***************************************************************************)
EXTENDS Notifications, RepoEditor, TLAPS

Streams(S) == [at : Replicas \cup {None}, chan : Seq(S), known : SUBSET Notices, missed : SUBSET Notices]

\* A notification is persisted as soon as its producer has begun, and only
\* persisted ones travel.
NInv ==
  /\ notice \in [Notices -> {"none", "unread", "read"}]
  /\ job \in [Notices -> [pc : {"idle", "publish", "done"}, at : Replicas \cup {None}]]
  /\ \A n \in Notices : job[n].pc = "idle" <=> notice[n] = "none"
  /\ wire \in [Replicas -> Seq(Raised)]
  /\ console \in [Consoles -> Streams(Raised)]

\* A step no Console sees.
Unseen == notice' = notice /\ \A c \in Consoles : console'[c].known = console[c].known

-----------------------------------------------------------------------------
(* Streams *)

LEMMA SeqElements ==
  ASSUME NEW S, NEW s \in Seq(S)
  PROVE  Range(s) \subseteq S
  BY DEF Range

LEMMA SeqWiden ==
  ASSUME NEW S, NEW T, S \subseteq T, NEW s \in Seq(S)
  PROVE  s \in Seq(T)
  OBVIOUS

LEMMA AtSet ==
  ASSUME NEW S, NEW k \in Streams(S), NEW x \in Replicas \cup {None}
  PROVE  [k EXCEPT !.at = x] \in Streams(S) /\ [k EXCEPT !.at = x].known = k.known
  BY DEF Streams

LEMMA ChanSet ==
  ASSUME NEW S, NEW k \in Streams(S), NEW x \in Seq(S)
  PROVE  [k EXCEPT !.chan = x] \in Streams(S) /\ [k EXCEPT !.chan = x].known = k.known
  BY DEF Streams

LEMMA MissedSet ==
  ASSUME NEW S, NEW k \in Streams(S), NEW x \in SUBSET Notices
  PROVE  [k EXCEPT !.missed = x] \in Streams(S) /\ [k EXCEPT !.missed = x].known = k.known
  BY DEF Streams

LEMMA KnownSet ==
  ASSUME NEW S, NEW k \in Streams(S), NEW x \in SUBSET Notices
  PROVE  [k EXCEPT !.known = x] \in Streams(S) /\ [k EXCEPT !.known = x].known = x
  BY DEF Streams

LEMMA BroadcastTyped ==
  ASSUME NEW S, NEW ks \in [Consoles -> Streams(S)], NEW r, NEW n \in S, S \subseteq Notices
  PROVE  /\ Broadcast(ks, r, n) \in [Consoles -> Streams(S)]
         /\ \A c \in Consoles : Broadcast(ks, r, n)[c].known = ks[c].known
<1>1. ASSUME NEW k \in Streams(S) PROVE Offer(k, n) \in Streams(S) /\ Offer(k, n).known = k.known
  <2>1. CASE Len(k.chan) < ChanCap
    <3>1. Offer(k, n) = [k EXCEPT !.chan = Append(k.chan, n)]
      BY <2>1 DEF Offer
    <3>2. k.chan \in Seq(S) /\ Append(k.chan, n) \in Seq(S)
      BY DEF Streams
    <3>. QED
      BY <3>1, <3>2, Zenon DEF Streams
  <2>2. CASE ~(Len(k.chan) < ChanCap)
    <3>1. Offer(k, n) = [k EXCEPT !.missed = k.missed \cup {n}]
      BY <2>2 DEF Offer
    <3>2. k.missed \cup {n} \in SUBSET Notices
      BY DEF Streams
    <3>. QED
      BY <3>1, <3>2, Zenon DEF Streams
  <2>. QED
    BY <2>1, <2>2
<1>. QED
  BY <1>1 DEF Broadcast

LEMMA MissTyped ==
  ASSUME NEW S, NEW ks \in [Consoles -> Streams(S)], NEW R, NEW M \in SUBSET Notices
  PROVE  /\ Miss(ks, R, M) \in [Consoles -> Streams(S)]
         /\ \A c \in Consoles : Miss(ks, R, M)[c].known = ks[c].known
  BY Zenon DEF Miss, Streams

LEMMA ClosedTyped ==
  ASSUME NEW S, NEW k \in Streams(S)
  PROVE  Closed(k) \in Streams(S) /\ Closed(k).known = k.known
<1>. DEFINE k1 == [k EXCEPT !.at = None]
            k2 == [k1 EXCEPT !.chan = <<>>]
            k3 == [k2 EXCEPT !.missed = {}]
<1>1. Closed(k) = k3
  BY DEF Closed
<1>2. <<>> \in Seq(S)
  OBVIOUS
<1>3. k1 \in Streams(S) /\ k1.known = k.known
  BY AtSet
<1>. HIDE DEF k1
<1>4. k2 \in Streams(S) /\ k2.known = k.known
  BY <1>2, <1>3, ChanSet, Zenon
<1>. HIDE DEF k2
<1>5. k3 \in Streams(S) /\ k3.known = k.known
  BY <1>4, MissedSet
<1>. QED
  BY <1>1, <1>5

LEMMA SentTyped ==
  ASSUME NEW S, wire \in [Replicas -> Seq(S)], NEW n \in S
  PROVE  Sent(n) \in [Replicas -> Seq(S)]
  BY DEF Sent

\* A step no Console sees is a stutter of the bell.
LEMMA UnseenStutters ==
  ASSUME Unseen
  PROVE  Raised' = Raised /\ UNCHANGED B!bellVars
<1>1. Raised' = Raised /\ {n \in Notices : notice[n] = "read"}' = {n \in Notices : notice[n] = "read"}
  BY DEF Unseen, Raised
<1>2. [c \in Consoles |-> console'[c].known] = [c \in Consoles |-> console[c].known]
  BY DEF Unseen
<1>. QED
  BY <1>1, <1>2 DEF B!bellVars

-----------------------------------------------------------------------------
(* Initial states and steps *)

LEMMA InitBell == Init => NInv /\ B!Init
<1>. SUFFICES ASSUME Init PROVE NInv /\ B!Init
  OBVIOUS
<1>1. <<>> \in Seq(Raised)
  OBVIOUS
<1>2. NInv
  BY <1>1, Zenon DEF Init, NInv, Streams
<1>3. B!Init
  BY DEF Init, B!Init, Raised
<1>. QED
  BY <1>2, <1>3

LEMMA NextBell == NInv /\ [Next]_vars => NInv' /\ [B!Next]_(B!bellVars)
<1>. SUFFICES ASSUME NInv, [Next]_vars PROVE NInv' /\ [B!Next]_(B!bellVars)
  OBVIOUS
<1>1. Raised \subseteq Notices /\ \A r \in Replicas : Range(wire[r]) \subseteq Notices
  BY SeqElements, Zenon DEF NInv, Raised
<1>w. wire \in [Replicas -> Seq(Raised)] /\ console \in [Consoles -> Streams(Raised)]
  BY DEF NInv
<1>s. \A n \in Notices : {n} \in SUBSET Notices
  OBVIOUS
<1>2. ASSUME Unseen, job' \in [Notices -> [pc : {"idle", "publish", "done"}, at : Replicas \cup {None}]],
             \A n \in Notices : job'[n].pc = "idle" <=> job[n].pc = "idle",
             wire' \in [Replicas -> Seq(Raised)], console' \in [Consoles -> Streams(Raised)]
      PROVE  NInv' /\ [B!Next]_(B!bellVars)
  <2>1. Raised' = Raised /\ UNCHANGED B!bellVars
    BY <1>2, UnseenStutters
  <2>2. NInv'
    BY <1>2, <2>1 DEF NInv, Unseen
  <2>. QED
    BY <2>1, <2>2
<1>3. ASSUME NEW c \in Consoles, NEW r \in Replicas, Open(c, r) PROVE NInv' /\ [B!Next]_(B!bellVars)
  <2>. DEFINE m == {n \in Raised : job[n].pc # "publish"} \ Range(wire[r])
  <2>1. console' = [console EXCEPT ![c].at = r, ![c].missed = m] /\ UNCHANGED <<notice, job, wire>>
    BY <1>3 DEF Open
  <2>2. m \in SUBSET Notices
    BY <1>1
  <2>. HIDE DEF m
  <2>. DEFINE k1 == [console[c] EXCEPT !.at = r]
              k2 == [k1 EXCEPT !.missed = m]
  <2>3. console' = [console EXCEPT ![c] = k2]
    BY <2>1, Zenon DEF NInv
  <2>4. k1 \in Streams(Raised) /\ k1.known = console[c].known
    BY AtSet DEF NInv
  <2>. HIDE DEF k1
  <2>5. k2 \in Streams(Raised) /\ k2.known = console[c].known
    BY <2>2, <2>4, MissedSet
  <2>. HIDE DEF k2
  <2>6. console' \in [Consoles -> Streams(Raised)]
    BY <1>w, <2>3, <2>5
  <2>7. \A d \in Consoles : console'[d].known = console[d].known
    BY <1>w, <2>3, <2>5
  <2>. QED
    BY <1>2, <2>1, <2>6, <2>7 DEF NInv, Unseen
<1>4. ASSUME NEW c \in Consoles, Cut(c) PROVE NInv' /\ [B!Next]_(B!bellVars)
  <2>1. console' = [console EXCEPT ![c] = Closed(console[c])] /\ UNCHANGED <<notice, job, wire>>
    BY <1>4 DEF Cut
  <2>2. console' \in [Consoles -> Streams(Raised)] /\ Unseen
    BY <2>1, ClosedTyped DEF NInv, Unseen
  <2>. QED
    BY <1>2, <2>1, <2>2 DEF NInv
<1>5. ASSUME NEW c \in Consoles, NEW S \in SUBSET Raised, NEW k \in Streams(Raised),
             k.known = console[c].known \cup S, console' = [console EXCEPT ![c] = k],
             UNCHANGED <<notice, job, wire>>
      PROVE  NInv' /\ [B!Next]_(B!bellVars)
  <2>1. Raised' = Raised
    BY <1>5 DEF Raised
  <2>2. NInv'
    BY <1>5, <2>1 DEF NInv
  <2>3. [d \in Consoles |-> console'[d].known]
        = [[d \in Consoles |-> console[d].known] EXCEPT ![c] = @ \cup S]
    BY <1>5, Zenon DEF NInv
  <2>4. {n \in Notices : notice[n] = "read"}' = {n \in Notices : notice[n] = "read"}
    BY <1>5
  <2>5. B!Show(c, S)
    BY <2>1, <2>3, <2>4 DEF B!Show
  <2>6. S \in SUBSET Notices
    BY <1>1
  <2>7. B!Next
    BY <2>5, <2>6 DEF B!Next
  <2>. QED
    BY <2>2, <2>7
<1>6. ASSUME NEW c \in Consoles, Pump(c) PROVE NInv' /\ [B!Next]_(B!bellVars)
  <2>. DEFINE h == Head(console[c].chan)
              k1 == [console[c] EXCEPT !.chan = Tail(console[c].chan)]
              k2 == [k1 EXCEPT !.known = console[c].known \cup {h}]
  <2>1. console[c].chan # <<>> /\ UNCHANGED <<notice, job, wire>>
    BY <1>6 DEF Pump
  <2>2. console[c] \in Streams(Raised) /\ console[c].chan \in Seq(Raised) /\ console[c].known \in SUBSET Notices
    BY DEF NInv, Streams
  <2>3. h \in Raised /\ Tail(console[c].chan) \in Seq(Raised)
    BY <2>1, <2>2
  <2>4. console' = [console EXCEPT ![c] = k2]
    BY <1>6, <2>2 DEF Pump, Streams
  <2>5. k1 \in Streams(Raised)
    BY <2>2, <2>3, ChanSet, Zenon
  <2>. HIDE DEF k1, h
  <2>6. k2 \in Streams(Raised) /\ k2.known = console[c].known \cup {h}
    <3>1. console[c].known \cup {h} \in SUBSET Notices
      BY <1>1, <2>2, <2>3
    <3>. QED
      BY <2>5, <3>1, KnownSet
  <2>. HIDE DEF k2
  <2>7. {h} \in SUBSET Raised
    BY <2>3
  <2>. QED
    BY <1>5, <2>1, <2>4, <2>6, <2>7, Zenon
<1>7. ASSUME NEW c \in Consoles, List(c) PROVE NInv' /\ [B!Next]_(B!bellVars)
  <2>. DEFINE k1 == [console[c] EXCEPT !.known = console[c].known \cup Newest]
              k2 == [k1 EXCEPT !.missed = console[c].missed \ Newest]
  <2>1. Newest \in SUBSET Raised
    BY DEF Newest
  <2>2. console[c] \in Streams(Raised) /\ console[c].known \in SUBSET Notices /\ console[c].missed \in SUBSET Notices
    BY DEF NInv, Streams
  <2>3. console' = [console EXCEPT ![c] = k2] /\ UNCHANGED <<notice, job, wire>>
    BY <1>7, <2>2, Zenon DEF List, NInv, Streams
  <2>4. k1 \in Streams(Raised) /\ k1.known = console[c].known \cup Newest
    <3>1. console[c].known \cup Newest \in SUBSET Notices
      BY <1>1, <2>1, <2>2
    <3>. QED
      BY <2>2, <3>1, KnownSet, ZenonT(30)
  <2>. HIDE DEF k1
  <2>5. k2 \in Streams(Raised) /\ k2.known = console[c].known \cup Newest
    <3>1. console[c].missed \ Newest \in SUBSET Notices
      BY <2>2
    <3>. QED
      BY <2>4, <3>1, MissedSet
  <2>. HIDE DEF k2
  <2>. QED
    BY <1>5, <2>1, <2>3, <2>5, Zenon
<1>8. ASSUME NEW S \in SUBSET Notices, \A n \in S : notice[n] = "unread",
             notice' = [n \in Notices |-> IF n \in S THEN "read" ELSE notice[n]],
             UNCHANGED <<job, wire, console>>
      PROVE  NInv' /\ [B!Next]_(B!bellVars)
  <2>1. Raised' = Raised /\ S \subseteq Raised
    BY <1>8 DEF Raised
  <2>2. NInv'
    BY <1>8, <2>1 DEF NInv
  <2>3. {n \in Notices : notice'[n] = "read"} = {n \in Notices : notice[n] = "read"} \cup S
    BY <1>8
  <2>4. [c \in Consoles |-> console'[c].known] = [c \in Consoles |-> console[c].known]
    BY <1>8
  <2>5. B!MarkRead(S)
    BY <2>1, <2>3, <2>4 DEF B!MarkRead
  <2>. QED
    BY <2>2, <2>5 DEF B!Next
<1>9. ASSUME NEW n \in Notices, MarkRead(n) PROVE NInv' /\ [B!Next]_(B!bellVars)
  <2>1. /\ \A m \in {n} : notice[m] = "unread"
        /\ notice' = [m \in Notices |-> IF m \in {n} THEN "read" ELSE notice[m]]
        /\ UNCHANGED <<job, wire, console>>
    BY <1>9, Zenon DEF MarkRead, NInv
  <2>2. {n} \in SUBSET Notices
    OBVIOUS
  <2>. QED
    BY <1>8, <2>1, <2>2, Zenon
<1>10. CASE MarkAllRead
  <2>. DEFINE S == {n \in Notices : notice[n] = "unread"}
  <2>1. /\ S \in SUBSET Notices /\ \A n \in S : notice[n] = "unread"
        /\ notice' = [n \in Notices |-> IF n \in S THEN "read" ELSE notice[n]]
        /\ UNCHANGED <<job, wire, console>>
    BY <1>10 DEF MarkAllRead
  <2>. HIDE DEF S
  <2>. QED
    BY <1>8, <2>1
<1>11. ASSUME NEW n \in Notices, NEW r \in Replicas, Raise(n, r) PROVE NInv' /\ [B!Next]_(B!bellVars)
  <2>1. /\ notice' = [notice EXCEPT ![n] = "unread"] /\ job[n].pc = "idle"
        /\ job' = [job EXCEPT ![n] = [pc |-> "publish", at |-> r]]
        /\ UNCHANGED <<wire, console>>
    BY <1>11 DEF Raise
  <2>2. notice[n] = "none" /\ Raised' = Raised \cup {n} /\ n \notin Raised
    BY <2>1 DEF NInv, Raised
  <2>3. wire' \in [Replicas -> Seq(Raised')]
    BY <2>1, <2>2, SeqWiden DEF NInv
  <2>4. console' \in [Consoles -> Streams(Raised')]
    <3>1. \A k \in Streams(Raised) : k \in Streams(Raised')
      BY <2>2, SeqWiden DEF Streams
    <3>. QED
      BY <2>1, <3>1 DEF NInv
  <2>5. NInv'
    BY <2>1, <2>3, <2>4 DEF NInv
  <2>6. {m \in Notices : notice'[m] = "read"} = {m \in Notices : notice[m] = "read"}
    BY <2>1, <2>2 DEF NInv
  <2>7. [c \in Consoles |-> console'[c].known] = [c \in Consoles |-> console[c].known]
    BY <2>1
  <2>8. B!Raise(n)
    BY <2>2, <2>6, <2>7 DEF B!Raise
  <2>. QED
    BY <2>5, <2>8 DEF B!Next
<1>12. ASSUME NEW n \in Notices, job[n].pc = "publish"
       PROVE  /\ n \in Raised
              /\ [job EXCEPT ![n].pc = "done"] \in
                   [Notices -> [pc : {"idle", "publish", "done"}, at : Replicas \cup {None}]]
              /\ \A m \in Notices : [job EXCEPT ![n].pc = "done"][m].pc = "idle" <=> job[m].pc = "idle"
  BY <1>12 DEF NInv, Raised
<1>13. ASSUME NEW n \in Notices, Publish(n) PROVE NInv' /\ [B!Next]_(B!bellVars)
  <2>1. /\ job[n].pc = "publish" /\ wire' = Sent(n) /\ console' = Miss(console, Replicas \ Listening, {n})
        /\ job' = [job EXCEPT ![n].pc = "done"] /\ UNCHANGED notice
    BY <1>13 DEF Publish
  <2>2. wire' \in [Replicas -> Seq(Raised)]
    BY <1>12, <2>1, SentTyped, Zenon DEF NInv
  <2>3. console' \in [Consoles -> Streams(Raised)] /\ \A c \in Consoles : console'[c].known = console[c].known
    <3>. DEFINE ks == Miss(console, Replicas \ Listening, {n})
    <3>1. ks \in [Consoles -> Streams(Raised)] /\ \A c \in Consoles : ks[c].known = console[c].known
      BY <1>w, <1>s, MissTyped
    <3>2. console' = ks
      BY <2>1
    <3>. HIDE DEF ks
    <3>. QED
      BY <3>1, <3>2
  <2>. QED
    BY <1>2, <1>12, <2>1, <2>2, <2>3, Zenon DEF Unseen
<1>14. ASSUME NEW n \in Notices, PublishFails(n) PROVE NInv' /\ [B!Next]_(B!bellVars)
  <2>1. PICK R \in SUBSET Replicas : console' = Broadcast(Miss(console, R, {n}), job[n].at, n)
    BY <1>14 DEF PublishFails
  <2>2. /\ job[n].pc = "publish" /\ wire' \in {wire, Sent(n)}
        /\ job' = [job EXCEPT ![n].pc = "done"] /\ UNCHANGED notice
    BY <1>14 DEF PublishFails
  <2>3. wire' \in [Replicas -> Seq(Raised)]
    <3>1. Sent(n) \in [Replicas -> Seq(Raised)]
      BY <1>w, <1>12, <2>2, SentTyped, Zenon
    <3>. QED
      BY <1>w, <2>2, <3>1
  <2>. DEFINE ks == Miss(console, R, {n})
  <2>4. ks \in [Consoles -> Streams(Raised)] /\ \A c \in Consoles : ks[c].known = console[c].known
    BY <1>w, <1>s, MissTyped
  <2>. HIDE DEF ks
  <2>5. console' = Broadcast(ks, job[n].at, n)
    BY <2>1 DEF ks
  <2>6. console' \in [Consoles -> Streams(Raised)] /\ \A c \in Consoles : console'[c].known = console[c].known
    <3>1. n \in Raised
      BY <1>12, <2>2, Zenon
    <3>. QED
      BY <1>1, <2>4, <2>5, <3>1, BroadcastTyped
  <2>. QED
    BY <1>2, <1>12, <2>2, <2>3, <2>6 DEF Unseen
<1>15. ASSUME NEW r \in Replicas, Connect(r) PROVE NInv' /\ [B!Next]_(B!bellVars)
  BY <1>2, <1>15 DEF Connect, NInv, Unseen
<1>16. ASSUME NEW r \in Replicas, Listen(r) PROVE NInv' /\ [B!Next]_(B!bellVars)
  <2>1. /\ wire[r] # <<>> /\ wire' = [wire EXCEPT ![r] = Tail(wire[r])]
        /\ console' = Broadcast(console, r, Head(wire[r])) /\ UNCHANGED <<notice, job>>
    BY <1>16 DEF Listen
  <2>2. wire[r] \in Seq(Raised)
    BY DEF NInv
  <2>3. Head(wire[r]) \in Raised /\ Tail(wire[r]) \in Seq(Raised)
    BY <2>1, <2>2
  <2>4. wire' \in [Replicas -> Seq(Raised)]
    BY <2>1, <2>3 DEF NInv
  <2>5. console' \in [Consoles -> Streams(Raised)] /\ \A c \in Consoles : console'[c].known = console[c].known
    <3>. DEFINE ks == Broadcast(console, r, Head(wire[r]))
    <3>1. ks \in [Consoles -> Streams(Raised)] /\ \A c \in Consoles : ks[c].known = console[c].known
      BY <1>1, <1>w, <2>3, BroadcastTyped
    <3>2. console' = ks
      BY <2>1
    <3>. HIDE DEF ks
    <3>. QED
      BY <3>1, <3>2
  <2>. QED
    BY <1>2, <2>1, <2>4, <2>5 DEF NInv, Unseen
<1>17. ASSUME NEW r \in Replicas, ConnectionLost(r) PROVE NInv' /\ [B!Next]_(B!bellVars)
  <2>1. /\ wire' = [wire EXCEPT ![r] = <<>>] /\ console' = Miss(console, {r}, Range(wire[r]))
        /\ UNCHANGED <<notice, job>>
    BY <1>17 DEF ConnectionLost
  <2>2. <<>> \in Seq(Raised)
    OBVIOUS
  <2>3. wire' \in [Replicas -> Seq(Raised)]
    BY <2>1, <2>2 DEF NInv
  <2>4. console' \in [Consoles -> Streams(Raised)] /\ \A c \in Consoles : console'[c].known = console[c].known
    <3>1. Range(wire[r]) \in SUBSET Notices
      BY <1>1
    <3>. QED
      BY <1>w, <2>1, <3>1, MissTyped
  <2>. QED
    BY <1>2, <2>1, <2>3, <2>4, Zenon DEF NInv, Unseen
<1>18. ASSUME NEW r \in Replicas, Crash(r) PROVE NInv' /\ [B!Next]_(B!bellVars)
  <2>. DEFINE cut == {n \in Notices : job[n].at = r /\ job[n].pc = "publish"}
              ks == Miss(console, Replicas \ {r}, cut)
  <2>1. /\ wire' = [wire EXCEPT ![r] = <<>>] /\ UNCHANGED notice
        /\ console' = [c \in Consoles |-> IF ks[c].at = r THEN Closed(ks[c]) ELSE ks[c]]
        /\ job' = [n \in Notices |-> IF n \in cut THEN [job[n] EXCEPT !.pc = "done"] ELSE job[n]]
    BY <1>18 DEF Crash
  <2>2. <<>> \in Seq(Raised)
    OBVIOUS
  <2>3. wire' \in [Replicas -> Seq(Raised)]
    BY <2>1, <2>2 DEF NInv
  <2>4. ks \in [Consoles -> Streams(Raised)] /\ \A c \in Consoles : ks[c].known = console[c].known
    <3>1. cut \in SUBSET Notices
      OBVIOUS
    <3>. HIDE DEF cut
    <3>. QED
      BY <1>w, <3>1, MissTyped
  <2>5. /\ job' \in [Notices -> [pc : {"idle", "publish", "done"}, at : Replicas \cup {None}]]
        /\ \A n \in Notices : job'[n].pc = "idle" <=> job[n].pc = "idle"
    BY <2>1, Zenon DEF NInv
  <2>. HIDE DEF ks, cut
  <2>6. console' \in [Consoles -> Streams(Raised)] /\ \A c \in Consoles : console'[c].known = console[c].known
    BY <2>1, <2>4, ClosedTyped
  <2>. QED
    BY <1>2, <2>1, <2>3, <2>5, <2>6 DEF Unseen
<1>19. CASE UNCHANGED vars
  BY <1>2, <1>19 DEF vars, NInv, Unseen
<1>. QED
  BY <1>3, <1>4, <1>6, <1>7, <1>9, <1>10, <1>11, <1>13, <1>14, <1>15, <1>16, <1>17, <1>18, <1>19 DEF Next

-----------------------------------------------------------------------------

\* The notification bus implements the bell: whatever replicas crash, streams
\* and listeners are cut and channels overflow, a Console only ever shows
\* persisted notifications and shows each for good (Notify, Broadcast, listen).
THEOREM BusImplementsBell == Spec => ImplementsBell
<1>1. Spec => []NInv
  BY InitBell, NextBell, PTL DEF Spec
<1>. QED
  BY InitBell, NextBell, <1>1, PTL DEF Spec, ImplementsBell, B!Spec

-----------------------------------------------------------------------------
(* What a stream has: shown, missed, or in its channel *)

Has(k) == k.known \cup k.missed \cup Range(k.chan)

Covered(c, n) ==
  n \in Has(console[c]) \/ n \in Range(wire[console[c].at]) \/ job[n].pc = "publish"

LEMMA AccountedCovered ==
  Accounted <=> \A c \in Consoles, n \in Raised : console[c].at # None => Covered(c, n)
  BY DEF Accounted, Covered, Has, OnTheWay

LEMMA AppendElements ==
  ASSUME NEW S, NEW s \in Seq(S), NEW x \in S
  PROVE  Range(Append(s, x)) = Range(s) \cup {x}
<1>1. DOMAIN Append(s, x) = 1..(Len(s) + 1) /\ DOMAIN s = 1..Len(s) /\ Len(s) \in Nat
  OBVIOUS
<1>2. \A k \in 1..Len(s) : Append(s, x)[k] = s[k]
  OBVIOUS
<1>3. Append(s, x)[Len(s) + 1] = x
  OBVIOUS
<1>4. 1..(Len(s) + 1) = 1..Len(s) \cup {Len(s) + 1}
  BY <1>1
<1>. QED
  BY <1>1, <1>2, <1>3, <1>4 DEF Range

LEMMA TailElements ==
  ASSUME NEW S, NEW s \in Seq(S), s # <<>>
  PROVE  Range(s) = {Head(s)} \cup Range(Tail(s))
<1>1. DOMAIN s = 1..Len(s) /\ Len(s) \in Nat \ {0} /\ DOMAIN Tail(s) = 1..(Len(s) - 1) /\ Head(s) = s[1]
  OBVIOUS
<1>2. \A k \in 1..(Len(s) - 1) : Tail(s)[k] = s[k + 1]
  OBVIOUS
<1>3. \A k \in 1..Len(s) : k = 1 \/ (k - 1 \in 1..(Len(s) - 1) /\ s[k] = Tail(s)[k - 1])
  BY <1>1, <1>2
<1>4. \A k \in 1..(Len(s) - 1) : k + 1 \in 1..Len(s)
  BY <1>1
<1>5. ASSUME NEW x \in Range(s) PROVE x \in {Head(s)} \cup Range(Tail(s))
  <2>1. PICK k \in 1..Len(s) : x = s[k]
    BY <1>1 DEF Range
  <2>. QED
    BY <1>1, <1>3, <2>1, Zenon DEF Range
<1>6. ASSUME NEW x \in Range(Tail(s)) PROVE x \in Range(s)
  <2>1. PICK k \in 1..(Len(s) - 1) : x = Tail(s)[k]
    BY <1>1 DEF Range
  <2>. QED
    BY <1>1, <1>2, <1>4, <2>1 DEF Range
<1>7. Head(s) \in Range(s)
  BY <1>1 DEF Range
<1>. QED
  BY <1>5, <1>6, <1>7

LEMMA MissHas ==
  ASSUME NEW S, NEW ks \in [Consoles -> Streams(S)], NEW R, NEW M \in SUBSET Notices, NEW c \in Consoles
  PROVE  /\ Miss(ks, R, M)[c].at = ks[c].at
         /\ Has(ks[c]) \subseteq Has(Miss(ks, R, M)[c])
         /\ ks[c].at \in R => M \subseteq Has(Miss(ks, R, M)[c])
<1>1. CASE ks[c].at \in R
  <2>1. Miss(ks, R, M)[c] = [ks[c] EXCEPT !.missed = ks[c].missed \cup M]
    BY <1>1 DEF Miss
  <2>. DEFINE k == [ks[c] EXCEPT !.missed = ks[c].missed \cup M]
  <2>2. k.at = ks[c].at /\ k.known = ks[c].known /\ k.chan = ks[c].chan /\ k.missed = ks[c].missed \cup M
    BY DEF Streams
  <2>. HIDE DEF k
  <2>3. Has(k) = Has(ks[c]) \cup M
    BY <2>2 DEF Has
  <2>. QED
    BY <1>1, <2>1, <2>2, <2>3 DEF k
<1>2. CASE ks[c].at \notin R
  BY <1>2 DEF Miss
<1>. QED
  BY <1>1, <1>2

LEMMA BroadcastHas ==
  ASSUME NEW S, NEW ks \in [Consoles -> Streams(S)], NEW r, NEW n \in S, NEW c \in Consoles
  PROVE  /\ Broadcast(ks, r, n)[c].at = ks[c].at
         /\ Has(ks[c]) \subseteq Has(Broadcast(ks, r, n)[c])
         /\ ks[c].at = r => n \in Has(Broadcast(ks, r, n)[c])
<1>. DEFINE k == ks[c]
<1>1. k \in Streams(S) /\ k.chan \in Seq(S)
  BY DEF Streams
<1>2. Offer(k, n).at = k.at /\ Has(Offer(k, n)) = Has(k) \cup {n}
  <2>1. CASE Len(k.chan) < ChanCap
    <3>. DEFINE o == [k EXCEPT !.chan = Append(k.chan, n)]
    <3>1. Offer(k, n) = o
      BY <2>1 DEF Offer
    <3>2. o.at = k.at /\ o.known = k.known /\ o.missed = k.missed /\ o.chan = Append(k.chan, n)
      BY <1>1 DEF Streams
    <3>3. Range(Append(k.chan, n)) = Range(k.chan) \cup {n}
      BY <1>1, AppendElements
    <3>. HIDE DEF o, k
    <3>4. Has(o) = Has(k) \cup {n}
      BY <3>2, <3>3 DEF Has
    <3>. QED
      BY <3>1, <3>2, <3>4
  <2>2. CASE ~(Len(k.chan) < ChanCap)
    <3>. DEFINE o == [k EXCEPT !.missed = k.missed \cup {n}]
    <3>1. Offer(k, n) = o
      BY <2>2 DEF Offer
    <3>2. o.at = k.at /\ o.known = k.known /\ o.missed = k.missed \cup {n} /\ o.chan = k.chan
      BY <1>1 DEF Streams
    <3>. HIDE DEF o, k
    <3>3. Has(o) = Has(k) \cup {n}
      BY <3>2 DEF Has
    <3>. QED
      BY <3>1, <3>2, <3>3
  <2>. QED
    BY <2>1, <2>2
<1>. QED
  BY <1>2 DEF Broadcast

LEMMA NextAccounted == NInv /\ Accounted /\ [Next]_vars => Accounted'
<1>. SUFFICES ASSUME NInv, Accounted, [Next]_vars,
                     NEW d \in Consoles, NEW m \in Raised', console'[d].at # None
              PROVE  Covered(d, m)'
  BY DEF Accounted, Covered, Has, OnTheWay
<1>1. m \in Notices /\ Raised \subseteq Notices
  BY DEF Raised
<1>2. console \in [Consoles -> Streams(Raised)] /\ wire \in [Replicas -> Seq(Raised)]
  BY DEF NInv
<1>3. m \in Raised /\ console[d].at # None => Covered(d, m)
  BY AccountedCovered
<1>4. ASSUME NEW k, console'[d] = k, k.at = console[d].at, Has(console[d]) \subseteq Has(k),
             m \in Raised, UNCHANGED <<job, wire>>
      PROVE  Covered(d, m)'
  BY <1>3, <1>4 DEF Covered
<1>5. ASSUME NEW c \in Consoles, NEW r \in Replicas, Open(c, r) PROVE Covered(d, m)'
  <2>. DEFINE M == {n \in Raised : job[n].pc # "publish"} \ Range(wire[r])
  <2>1. console' = [console EXCEPT ![c].at = r, ![c].missed = M] /\ UNCHANGED <<notice, job, wire>>
    BY <1>5 DEF Open
  <2>2. m \in Raised
    BY <2>1 DEF Raised
  <2>3. CASE d = c
    <3>1. console'[d].at = r /\ console'[d].missed = M
      BY <1>2, <2>1, <2>3 DEF Streams
    <3>2. m \in M \/ m \in Range(wire[r]) \/ job[m].pc = "publish"
      BY <2>2
    <3>. HIDE DEF M
    <3>. QED
      BY <2>1, <3>1, <3>2 DEF Covered, Has
  <2>4. CASE d # c
    BY <1>3, <2>1, <2>2, <2>4, <1>2 DEF Covered
  <2>. QED
    BY <2>3, <2>4
<1>6. ASSUME NEW c \in Consoles, Cut(c) PROVE Covered(d, m)'
  <2>1. console' = [console EXCEPT ![c] = Closed(console[c])] /\ UNCHANGED <<notice, job, wire>>
    BY <1>6 DEF Cut
  <2>2. m \in Raised
    BY <2>1 DEF Raised
  <2>3. d # c
    <3>1. Closed(console[c]).at = None
      BY <1>2 DEF Closed, Streams
    <3>. QED
      BY <1>2, <2>1, <3>1
  <2>. QED
    BY <1>2, <1>4, <2>1, <2>2, <2>3
<1>7. ASSUME NEW c \in Consoles, Pump(c) PROVE Covered(d, m)'
  <2>1. console[c].chan # <<>> /\ UNCHANGED <<notice, job, wire>>
    BY <1>7 DEF Pump
  <2>2. m \in Raised
    BY <2>1 DEF Raised
  <2>. DEFINE k == [console[c] EXCEPT !.chan = Tail(console[c].chan),
                                      !.known = console[c].known \cup {Head(console[c].chan)}]
  <2>3. console' = [console EXCEPT ![c] = k]
    BY <1>7 DEF Pump
  <2>4. /\ k.at = console[c].at /\ k.chan = Tail(console[c].chan) /\ k.missed = console[c].missed
        /\ k.known = console[c].known \cup {Head(console[c].chan)}
    BY <1>2 DEF Streams
  <2>5. console[c].chan \in Seq(Raised)
    BY <1>2 DEF Streams
  <2>. HIDE DEF k
  <2>6. Has(console[c]) \subseteq Has(k)
    BY <2>1, <2>4, <2>5, TailElements DEF Has
  <2>. QED
    BY <1>2, <1>4, <2>1, <2>2, <2>3, <2>4, <2>6
<1>8. ASSUME NEW c \in Consoles, List(c) PROVE Covered(d, m)'
  <2>1. UNCHANGED <<notice, job, wire>>
    BY <1>8 DEF List
  <2>2. m \in Raised
    BY <2>1 DEF Raised
  <2>. DEFINE k == [console[c] EXCEPT !.known = console[c].known \cup Newest,
                                      !.missed = console[c].missed \ Newest]
  <2>3. console' = [console EXCEPT ![c] = k]
    BY <1>2, <1>8, Zenon DEF List, Streams
  <2>4. /\ k.at = console[c].at /\ k.chan = console[c].chan
        /\ k.known = console[c].known \cup Newest /\ k.missed = console[c].missed \ Newest
    BY <1>2 DEF Streams
  <2>. HIDE DEF k
  <2>5. Has(console[c]) \subseteq Has(k)
    BY <2>4 DEF Has
  <2>. QED
    BY <1>2, <1>4, <2>1, <2>2, <2>3, <2>4, <2>5
<1>9. CASE MarkAllRead \/ \E n \in Notices : MarkRead(n)
  <2>1. UNCHANGED <<job, wire, console>>
    BY <1>9 DEF MarkAllRead, MarkRead
  <2>2. m \in Raised
    BY <1>1, <1>9 DEF MarkAllRead, MarkRead, NInv, Raised
  <2>. QED
    BY <1>4, <2>1, <2>2
<1>10. ASSUME NEW n \in Notices, NEW r \in Replicas, Raise(n, r) PROVE Covered(d, m)'
  <2>1. /\ notice' = [notice EXCEPT ![n] = "unread"] /\ UNCHANGED <<wire, console>>
        /\ job' = [job EXCEPT ![n] = [pc |-> "publish", at |-> r]]
    BY <1>10 DEF Raise
  <2>2. CASE m = n
    BY <2>1, <2>2 DEF Covered, NInv
  <2>3. CASE m # n
    BY <1>1, <1>3, <2>1, <2>3 DEF Covered, NInv, Raised
  <2>. QED
    BY <2>2, <2>3
<1>11. ASSUME NEW n \in Notices, job[n].pc = "publish", job' = [job EXCEPT ![n].pc = "done"], UNCHANGED notice
       PROVE  m \in Raised /\ n \in Raised /\ (m # n => job'[m] = job[m])
  BY <1>1, <1>11 DEF NInv, Raised
<1>12. ASSUME NEW n \in Raised
       PROVE  /\ \A r \in Replicas : Range(wire[r]) \subseteq Range(Sent(n)[r])
              /\ \A r \in Listening : n \in Range(Sent(n)[r])
  BY <1>2, AppendElements DEF Sent, Listening
<1>13. console[d].at \in Replicas \cup {None}
  BY <1>2 DEF Streams
<1>m. ASSUME NEW R, NEW M \in SUBSET Notices
      PROVE  /\ Miss(console, R, M)[d].at = console[d].at
             /\ Has(console[d]) \subseteq Has(Miss(console, R, M)[d])
             /\ console[d].at \in R => M \subseteq Has(Miss(console, R, M)[d])
  BY <1>2, MissHas, Zenon
<1>b. ASSUME NEW r, NEW n \in Raised
      PROVE  /\ Broadcast(console, r, n)[d].at = console[d].at
             /\ Has(console[d]) \subseteq Has(Broadcast(console, r, n)[d])
             /\ console[d].at = r => n \in Has(Broadcast(console, r, n)[d])
  BY <1>2, BroadcastHas, Zenon
<1>14. ASSUME NEW n \in Notices, Publish(n) PROVE Covered(d, m)'
  <2>1. /\ job[n].pc = "publish" /\ wire' = Sent(n) /\ console' = Miss(console, Replicas \ Listening, {n})
        /\ job' = [job EXCEPT ![n].pc = "done"] /\ UNCHANGED notice
    BY <1>14 DEF Publish
  <2>2. m \in Raised /\ n \in Raised /\ (m # n => job'[m] = job[m])
    BY <1>11, <2>1, Zenon
  <2>3. /\ console'[d].at = console[d].at
        /\ Has(console[d]) \subseteq Has(console'[d])
        /\ console[d].at \in Replicas \ Listening => {n} \subseteq Has(console'[d])
    <3>1. {n} \in SUBSET Notices
      OBVIOUS
    <3>. DEFINE ks == Miss(console, Replicas \ Listening, {n})
    <3>2. ks[d].at = console[d].at /\ Has(console[d]) \subseteq Has(ks[d]) /\ (console[d].at \in Replicas \ Listening => {n} \subseteq Has(ks[d]))
      BY <1>m, <3>1
    <3>3. console' = ks
      BY <2>1
    <3>. HIDE DEF ks
    <3>. QED
      BY <3>2, <3>3
  <2>4. console[d].at \in Replicas
    BY <1>13, <2>3
  <2>5. Range(wire[console[d].at]) \subseteq Range(wire'[console[d].at])
        /\ (console[d].at \in Listening => n \in Range(wire'[console[d].at]))
    BY <1>12, <2>1, <2>2, <2>4
  <2>. QED
    BY <1>3, <2>2, <2>3, <2>4, <2>5 DEF Covered
<1>15. ASSUME NEW n \in Notices, PublishFails(n) PROVE Covered(d, m)'
  <2>. DEFINE r == job[n].at
  <2>1. job[n].pc = "publish" /\ job' = [job EXCEPT ![n].pc = "done"] /\ UNCHANGED notice
    BY <1>15 DEF PublishFails
  <2>2. PICK R \in SUBSET Replicas :
          /\ console' = Broadcast(Miss(console, R, {n}), r, n)
          /\ \/ wire' = wire /\ R = Replicas \ {r}
             \/ wire' = Sent(n) /\ R = Replicas \ (Listening \cup {r})
    BY <1>15 DEF PublishFails
  <2>3. m \in Raised /\ n \in Raised /\ (m # n => job'[m] = job[m])
    BY <1>11, <2>1, Zenon
  <2>. DEFINE ks == Miss(console, R, {n})
  <2>4. {n} \in SUBSET Notices
    OBVIOUS
  <2>5. /\ ks[d].at = console[d].at
        /\ Has(console[d]) \subseteq Has(ks[d])
        /\ console[d].at \in R => {n} \subseteq Has(ks[d])
    BY <1>2, <2>4, MissHas, Zenon
  <2>6. ks \in [Consoles -> Streams(Raised)]
    BY <1>2, <2>4, MissTyped
  <2>7. console' = Broadcast(ks, r, n)
    BY <2>2
  <2>. HIDE DEF ks, r
  <2>8. /\ console'[d].at = ks[d].at
        /\ Has(ks[d]) \subseteq Has(console'[d])
        /\ ks[d].at = r => n \in Has(console'[d])
    BY <2>3, <2>6, <2>7, BroadcastHas
  <2>9. console[d].at \in Replicas /\ console'[d].at = console[d].at /\ Has(console[d]) \subseteq Has(console'[d])
    BY <1>13, <2>5, <2>8
  <2>10. Range(wire[console[d].at]) \subseteq Range(wire'[console[d].at])
    BY <1>12, <2>2, <2>3, <2>9
  <2>11. n \in Has(console'[d]) \/ n \in Range(wire'[console[d].at])
    BY <1>12, <2>2, <2>3, <2>5, <2>8, <2>9, Zenon
  <2>. QED
    BY <1>3, <2>3, <2>9, <2>10, <2>11 DEF Covered
<1>16. ASSUME NEW r \in Replicas, Listen(r) PROVE Covered(d, m)'
  <2>1. /\ wire[r] # <<>> /\ wire' = [wire EXCEPT ![r] = Tail(wire[r])]
        /\ console' = Broadcast(console, r, Head(wire[r])) /\ UNCHANGED <<notice, job>>
    BY <1>16 DEF Listen
  <2>2. m \in Raised /\ wire[r] \in Seq(Raised)
    BY <1>2, <2>1 DEF Raised
  <2>. DEFINE h == Head(wire[r])
  <2>3. h \in Raised /\ Range(wire[r]) = {h} \cup Range(Tail(wire[r]))
    BY <2>1, <2>2, TailElements
  <2>4. console' = Broadcast(console, r, h)
    BY <2>1
  <2>. HIDE DEF h
  <2>5. /\ console'[d].at = console[d].at
        /\ Has(console[d]) \subseteq Has(console'[d])
        /\ console[d].at = r => h \in Has(console'[d])
    <3>. DEFINE ks == Broadcast(console, r, h)
    <3>1. ks[d].at = console[d].at /\ Has(console[d]) \subseteq Has(ks[d]) /\ (console[d].at = r => h \in Has(ks[d]))
      BY <1>b, <2>3
    <3>2. console' = ks
      BY <2>4
    <3>. HIDE DEF ks
    <3>. QED
      BY <3>1, <3>2
  <2>6. Range(wire'[console[d].at]) = Range(IF console[d].at = r THEN Tail(wire[r]) ELSE wire[console[d].at])
    BY <1>2, <1>13, <2>1, <2>5
  <2>. QED
    BY <1>3, <2>1, <2>2, <2>3, <2>5, <2>6 DEF Covered
<1>17. ASSUME NEW r \in Replicas, ConnectionLost(r) PROVE Covered(d, m)'
  <2>1. /\ wire' = [wire EXCEPT ![r] = <<>>] /\ console' = Miss(console, {r}, Range(wire[r]))
        /\ UNCHANGED <<notice, job>>
    BY <1>17 DEF ConnectionLost
  <2>2. m \in Raised /\ Range(wire[r]) \in SUBSET Notices
    BY <1>1, <1>2, <2>1, SeqElements, Zenon DEF Raised
  <2>3. /\ console'[d].at = console[d].at
        /\ Has(console[d]) \subseteq Has(console'[d])
        /\ console[d].at \in {r} => Range(wire[r]) \subseteq Has(console'[d])
    <3>. DEFINE ks == Miss(console, {r}, Range(wire[r]))
    <3>1. ks[d].at = console[d].at /\ Has(console[d]) \subseteq Has(ks[d]) /\ (console[d].at \in {r} => Range(wire[r]) \subseteq Has(ks[d]))
      BY <1>m, <2>2
    <3>2. console' = ks
      BY <2>1
    <3>. HIDE DEF ks
    <3>. QED
      BY <3>1, <3>2
  <2>4. console[d].at # r => wire'[console[d].at] = wire[console[d].at]
    BY <1>2, <1>13, <2>1, <2>3
  <2>. QED
    BY <1>3, <2>1, <2>2, <2>3, <2>4, Zenon DEF Covered
<1>18. ASSUME NEW r \in Replicas, Crash(r) PROVE Covered(d, m)'
  <2>. DEFINE cut == {n \in Notices : job[n].at = r /\ job[n].pc = "publish"}
              ks == Miss(console, Replicas \ {r}, cut)
  <2>1. /\ wire' = [wire EXCEPT ![r] = <<>>] /\ UNCHANGED notice
        /\ console' = [c \in Consoles |-> IF ks[c].at = r THEN Closed(ks[c]) ELSE ks[c]]
        /\ job' = [n \in Notices |-> IF n \in cut THEN [job[n] EXCEPT !.pc = "done"] ELSE job[n]]
    BY <1>18 DEF Crash
  <2>2. m \in Raised /\ cut \in SUBSET Notices /\ (m \notin cut => job'[m] = job[m])
    BY <1>1, <2>1 DEF Raised
  <2>. HIDE DEF cut
  <2>3. /\ ks[d].at = console[d].at
        /\ Has(console[d]) \subseteq Has(ks[d])
        /\ console[d].at \in Replicas \ {r} => cut \subseteq Has(ks[d])
    BY <1>2, <2>2, MissHas, Zenon
  <2>4. ks \in [Consoles -> Streams(Raised)]
    BY <1>2, <2>2, MissTyped
  <2>. HIDE DEF ks
  <2>5. \A k \in Streams(Raised) : Closed(k).at = None
    BY DEF Closed, Streams
  <2>6. ks[d].at # r /\ console'[d] = ks[d]
    BY <2>1, <2>4, <2>5
  <2>7. console[d].at \in Replicas \ {r} /\ wire'[console[d].at] = wire[console[d].at]
    BY <1>2, <1>13, <2>1, <2>3, <2>6
  <2>. QED
    BY <1>3, <2>2, <2>3, <2>6, <2>7 DEF Covered
<1>19. CASE UNCHANGED vars \/ \E r \in Replicas : Connect(r)
  <2>1. UNCHANGED <<notice, job, wire, console>>
    BY <1>19 DEF vars, Connect
  <2>2. m \in Raised
    BY <2>1 DEF Raised
  <2>. QED
    BY <1>4, <2>1, <2>2
<1>. QED
  BY <1>5, <1>6, <1>7, <1>8, <1>9, <1>10, <1>14, <1>15, <1>16, <1>17, <1>18, <1>19 DEF Next

\* No notification goes astray: an open stream has shown it, has it in its
\* channel or still on the way, or lost it at one of the places the design
\* names (Broadcast's full channel, a listener that is down, a failed publish).
THEOREM NothingGoesAstray == Spec => []Accounted
<1>1. Init => Accounted
  BY DEF Init, Accounted, Raised
<1>2. Spec => []NInv
  BY InitBell, NextBell, PTL DEF Spec
<1>. QED
  BY <1>1, <1>2, NextAccounted, PTL DEF Spec

-----------------------------------------------------------------------------
(* Push mirrors: while nobody else sets or removes the mirror, the names   *)
(* that are left are those the request has still to drop.                  *)

MirrorOps == {"set", "unset"}
OtherOps == {"files", "read", "write", "erase", "history", "view", "status", "sync"}
MirrorSteps == {"list", "drop", "add"}
OtherSteps == {"tree", "get", "put", "erase", "commits", "at", "list", "push"}
EditorCodes == {"ok", "internal", "aborted", "unavailable"}
EditorCalls ==
  [pc : MirrorSteps \cup OtherSteps, op : MirrorOps \cup OtherOps, remote : Remotes \cup {"none"}, sha : Nat, text : Nat,
   todo : SUBSET Nat, mirror : Nat, attempt : Nat, alone : BOOLEAN]

\* What is left to do of a request that is alone.
LeftToDrop(r, ms) ==
  /\ r.pc = "drop" => \A m \in ms : m.name \in r.todo \cup {r.mirror}
  /\ r.pc = "add" => ms = {}

EditorTypes ==
  /\ blob \in Nat /\ log \subseteq Nat /\ names \in Nat
  /\ mirrors \subseteq [name : Nat, remote : Remotes \cup {"none"}]
  /\ base \in [Tabs -> Nat] /\ view \in [Tabs -> Nat]
  /\ call \in [Tabs -> EditorCalls \cup {Shut}]
  /\ reply \in [Tabs -> [code : EditorCodes]]

\* The calls a request makes, by what it is for.
CallsFit(r) ==
  /\ r.op \in MirrorOps => r.pc \in MirrorSteps
  /\ r.op \in OtherOps => r.pc \in OtherSteps
  /\ r.pc = "list" => r.op \in MirrorOps \cup {"status"}
  /\ r.pc = "add" => r.op = "set"

AloneInv(t) ==
  call[t].alone /\ Mirroring(t) =>
    /\ \A s \in Tabs \ {t} : ~Mirroring(s)
    /\ LeftToDrop(call[t], mirrors)

EditorInv ==
  /\ EditorTypes
  /\ \A t \in Tabs : call[t] # Shut => CallsFit(call[t])
  /\ \A t \in Tabs : AloneInv(t)

LEMMA ClosedFacts == Shut.pc = "idle" /\ Shut.op = "none" /\ Shut.alone = FALSE
  BY DEF Shut

LEMMA OpenCall == ASSUME NEW r \in EditorCalls PROVE r # Shut /\ r.pc # "idle"
  BY ClosedFacts DEF EditorCalls, MirrorSteps, OtherSteps

LEMMA CallOpen ==
  ASSUME EditorInv, NEW t \in Tabs, call[t].pc # "idle"
  PROVE  call[t] \in EditorCalls /\ call[t] # Shut /\ CallsFit(call[t])
  BY ClosedFacts DEF EditorInv, EditorTypes

LEMMA InitEditorInv == RInit => EditorInv
<1>. SUFFICES ASSUME RInit PROVE EditorInv
  OBVIOUS
<1>0. /\ blob = 1 /\ log = {1} /\ mirrors = {} /\ names = 1
      /\ base = [t \in Tabs |-> 0] /\ view = [t \in Tabs |-> 0] /\ call = [t \in Tabs |-> Shut]
      /\ reply = [t \in Tabs |-> NoReply]
  BY Zenon DEF RInit
<1>1. EditorTypes /\ \A t \in Tabs : call[t] = Shut
  BY <1>0 DEF EditorTypes, EditorCodes, NoReply
<1>. QED
  BY <1>1, ClosedFacts DEF EditorInv, AloneInv, Mirroring

\* A step of one request: another one that is alone sees the mirrors it left,
\* because only requests about mirrors change them.
LEMMA CallSet ==
  ASSUME EditorInv, NEW t \in Tabs, NEW r \in EditorCalls \cup {Shut}, call' = [call EXCEPT ![t] = r],
         r # Shut => CallsFit(r),
         r # Shut => r.op = call[t].op /\ r.alone = call[t].alone,
         r # Shut /\ r.op \in MirrorOps /\ r.alone => LeftToDrop(r, mirrors'),
         call[t].op \notin MirrorOps => UNCHANGED mirrors,
         blob' \in Nat, log' \subseteq Nat, names' \in Nat,
         mirrors' \subseteq [name : Nat, remote : Remotes \cup {"none"}],
         base' \in [Tabs -> Nat], view' \in [Tabs -> Nat], reply' \in [Tabs -> [code : EditorCodes]]
  PROVE  EditorInv'
<1>1. call' \in [Tabs -> EditorCalls \cup {Shut}] /\ call'[t] = r /\ \A s \in Tabs \ {t} : call'[s] = call[s]
  BY DEF EditorInv, EditorTypes
<1>2. EditorTypes'
  BY <1>1 DEF EditorTypes
<1>3. \A s \in Tabs : call'[s] # Shut => CallsFit(call'[s])
  BY <1>1 DEF EditorInv
<1>4. \A s \in Tabs : call'[s].op \in MirrorOps => call[s].op \in MirrorOps
  BY <1>1, ClosedFacts DEF MirrorOps
<1>5. ASSUME NEW s \in Tabs PROVE AloneInv(s)'
  <2>1. SUFFICES ASSUME call'[s].alone, call'[s].op \in MirrorOps
                 PROVE  (\A u \in Tabs \ {s} : call'[u].op \notin MirrorOps) /\ LeftToDrop(call'[s], mirrors')
    BY DEF AloneInv, Mirroring, MirrorOps
  <2>2. call[s].alone /\ call[s].op \in MirrorOps /\ call'[s] # Shut
    BY <1>1, <1>4, <2>1, ClosedFacts
  <2>3. (\A u \in Tabs \ {s} : call[u].op \notin MirrorOps) /\ LeftToDrop(call[s], mirrors)
    BY <2>2 DEF EditorInv, AloneInv, Mirroring, MirrorOps
  <2>4. \A u \in Tabs \ {s} : call'[u].op \notin MirrorOps
    BY <1>4, <2>3
  <2>5. LeftToDrop(call'[s], mirrors')
    <3>1. CASE s = t
      BY <1>1, <2>1, <2>2, <3>1
    <3>2. CASE s # t
      <4>1. call[t].op \notin MirrorOps /\ call'[s] = call[s]
        BY <1>1, <2>3, <3>2
      <4>. QED
        BY <2>3, <4>1
    <3>. QED
      BY <3>1, <3>2
  <2>. QED
    BY <2>4, <2>5
<1>. QED
  BY <1>2, <1>3, <1>5 DEF EditorInv

\* A new request: it is alone if no other is about mirrors, and ends the
\* solitude of those that are.
LEMMA RequestKeeps ==
  ASSUME EditorInv, NEW t \in Tabs, NEW kind \in MirrorOps \cup OtherOps, NEW pc, NEW ref \in Nat,
         pc \in OtherSteps, kind \in MirrorOps => pc = "list", pc = "list" => kind \in MirrorOps \cup {"status"},
         NEW remote \in Remotes \cup {"none"}, Request(t, kind, pc, ref, remote)
  PROVE  EditorInv'
<1>1. Opened(t, [pc |-> pc, op |-> kind, remote |-> remote, sha |-> Sha(t), text |-> ref, todo |-> {}, mirror |-> 0,
                 attempt |-> 1, alone |-> \A s \in Tabs : ~Mirroring(s)])
  BY Zenon DEF Request
<1>. DEFINE solo == \A s \in Tabs : ~Mirroring(s)
            r == [pc |-> pc, op |-> kind, remote |-> remote, sha |-> Sha(t), text |-> ref, todo |-> {}, mirror |-> 0,
                  attempt |-> 1, alone |-> solo]
<1>2. solo \in BOOLEAN /\ Sha(t) \in Nat
  BY DEF Sha, EditorInv, EditorTypes
<1>3. UNCHANGED <<blob, log, mirrors, names, base, view, reply>> /\ call[t].pc = "idle"
  BY DEF Request
<1>4. Opened(t, r)
  BY <1>1, Zenon
<1>. HIDE DEF solo
<1>5. r \in EditorCalls /\ r.op = kind /\ r.pc = pc /\ r.alone = solo /\ r.pc \notin {"drop", "add"}
  BY <1>2 DEF EditorCalls, OtherSteps
<1>. HIDE DEF r
<1>6. call[t] = Shut
  BY <1>3, OpenCall DEF EditorInv, EditorTypes
<1>7. call'[t] = r /\ call' \in [Tabs -> EditorCalls \cup {Shut}]
      /\ \A s \in Tabs \ {t} :
           /\ call[s].op \notin MirrorOps => call'[s] = call[s]
           /\ call[s].op \in MirrorOps => call'[s] = IF kind \in MirrorOps THEN [call[s] EXCEPT !.alone = FALSE] ELSE call[s]
  <2>1. \A s \in Tabs : call[s].op \in MirrorOps => call[s] \in EditorCalls
    BY ClosedFacts DEF EditorInv, EditorTypes, MirrorOps
  <2>2. \A s \in Tabs : call[s].op \in MirrorOps => [call[s] EXCEPT !.alone = FALSE] \in EditorCalls
    BY <2>1, Zenon DEF EditorCalls
  <2>3. call' = [s \in Tabs |-> IF s = t THEN r ELSE IF call[s].op \in MirrorOps /\ kind \in MirrorOps
                                               THEN [call[s] EXCEPT !.alone = FALSE] ELSE call[s]]
    BY <1>4, <1>5 DEF Opened, Mirroring, MirrorOps
  <2>. QED
    BY <1>5, <2>2, <2>3 DEF EditorInv, EditorTypes
<1>8. ASSUME NEW s \in Tabs \ {t}, call[s].op \in MirrorOps, kind \in MirrorOps
      PROVE  call'[s] \in EditorCalls /\ call'[s].alone = FALSE /\ call'[s].op = call[s].op
             /\ call'[s].pc = call[s].pc /\ call'[s].remote = call[s].remote
  <2>1. call[s] \in EditorCalls
    BY <1>8, ClosedFacts DEF EditorInv, EditorTypes, MirrorOps
  <2>2. call'[s] = [call[s] EXCEPT !.alone = FALSE]
    BY <1>7, <1>8
  <2>. QED
    BY <2>1, <2>2, Zenon DEF EditorCalls
<1>9. EditorTypes'
  BY <1>3, <1>7 DEF EditorInv, EditorTypes
<1>10. ASSUME NEW s \in Tabs, call'[s] # Shut PROVE CallsFit(call'[s])
  <2>1. CASE s = t
    BY <1>5, <1>7, <2>1 DEF CallsFit, MirrorOps, OtherOps, MirrorSteps, OtherSteps
  <2>2. CASE s # t /\ call'[s] = call[s]
    BY <1>10, <2>2 DEF EditorInv
  <2>3. CASE s # t /\ call[s].op \in MirrorOps /\ kind \in MirrorOps
    <3>1. CallsFit(call[s])
      BY <2>3, ClosedFacts DEF EditorInv, MirrorOps
    <3>. QED
      BY <1>8, <2>3, <3>1, Zenon DEF CallsFit
  <2>. QED
    BY <1>7, <2>1, <2>2, <2>3
<1>11. ASSUME NEW s \in Tabs PROVE AloneInv(s)'
  <2>1. SUFFICES ASSUME call'[s].alone, call'[s].op \in MirrorOps
                 PROVE  (\A u \in Tabs \ {s} : call'[u].op \notin MirrorOps) /\ LeftToDrop(call'[s], mirrors')
    BY DEF AloneInv, Mirroring, MirrorOps
  <2>2. CASE s = t
    <3>1. \A u \in Tabs : call[u].op \notin MirrorOps
      BY <1>5, <1>7, <2>1, <2>2, Zenon DEF solo, Mirroring, MirrorOps
    <3>2. \A u \in Tabs \ {s} : call'[u] = call[u]
      BY <1>7, <2>2, <3>1
    <3>. QED
      BY <1>5, <1>7, <2>2, <3>1, <3>2 DEF LeftToDrop
  <2>3. CASE s # t
    <3>1. kind \notin MirrorOps
      <4>1. SUFFICES ASSUME kind \in MirrorOps PROVE FALSE
        OBVIOUS
      <4>2. call[s].op \in MirrorOps
        BY <1>7, <2>1, <2>3
      <4>. QED
        BY <1>8, <2>1, <2>3, <4>1, <4>2, Zenon
    <3>2. call'[s] = call[s] /\ \A u \in Tabs \ {t} : call'[u] = call[u]
      BY <1>7, <2>3, <3>1
    <3>3. (\A u \in Tabs \ {s} : call[u].op \notin MirrorOps) /\ LeftToDrop(call[s], mirrors)
      BY <2>1, <3>2 DEF EditorInv, AloneInv, Mirroring, MirrorOps
    <3>4. call'[t].op \notin MirrorOps
      BY <1>5, <1>7, <3>1
    <3>. QED
      BY <1>3, <3>2, <3>3, <3>4
  <2>. QED
    BY <2>2, <2>3
<1>. QED
  BY <1>9, <1>10, <1>11 DEF EditorInv

\* What the box did with a call.
LEMMA ActsKeeps ==
  ASSUME EditorInv, NEW t \in Tabs, call[t].pc # "idle", Acts(call[t])
  PROVE  /\ blob' \in Nat /\ log' \subseteq Nat /\ names' \in Nat
         /\ mirrors' \subseteq [name : Nat, remote : Remotes \cup {"none"}]
         /\ call[t].pc \notin {"add", "drop"} => UNCHANGED mirrors
         /\ call[t].op \notin MirrorOps => UNCHANGED mirrors
         /\ call[t].pc = "add" => mirrors' = mirrors \cup {[name |-> names + 1, remote |-> call[t].remote]}
         /\ call[t].pc = "drop" => mirrors' = {m \in mirrors : m.name # call[t].mirror}
<1>1. call[t] \in EditorCalls /\ CallsFit(call[t])
  BY CallOpen
<1>2. call[t].text \in Nat /\ call[t].remote \in Remotes \cup {"none"} /\ call[t].op \in MirrorOps \cup OtherOps
  BY <1>1 DEF EditorCalls
<1>3. blob \in Nat /\ log \subseteq Nat /\ names \in Nat /\ mirrors \subseteq [name : Nat, remote : Remotes \cup {"none"}]
  BY DEF EditorInv, EditorTypes
<1>4. blob' \in Nat
  <2>1. blob' \in {names + 1, call[t].text, 0, blob}
    BY DEF Acts
  <2>. QED
    BY <1>2, <1>3, <2>1
<1>5. log' = log \cup ({blob'} \ {0}) /\ names' \in {names, names + 1}
  BY DEF Acts
<1>6. mirrors' = IF call[t].pc = "add" THEN mirrors \cup {[name |-> names + 1, remote |-> call[t].remote]}
                 ELSE IF call[t].pc = "drop" THEN {m \in mirrors : m.name # call[t].mirror} ELSE mirrors
  BY DEF Acts
<1>7. [name |-> names + 1, remote |-> call[t].remote] \in [name : Nat, remote : Remotes \cup {"none"}]
  BY <1>2, <1>3
<1>8. mirrors' \subseteq [name : Nat, remote : Remotes \cup {"none"}]
  BY <1>3, <1>6, <1>7
<1>9. call[t].op \notin MirrorOps => call[t].pc \notin {"add", "drop"}
  BY <1>1, <1>2 DEF CallsFit, OtherSteps
<1>. QED
  BY <1>3, <1>4, <1>5, <1>6, <1>8, <1>9

\* A request that ends well while it was alone: what MirrorReplaced says.
EndsReplaced(t) ==
  call[t].alone /\ call'[t] = Shut /\ reply'[t].code = "ok" =>
    /\ call[t].op = "set" => \E m \in mirrors' : mirrors' = {m} /\ m.remote = call[t].remote
    /\ call[t].op = "unset" => mirrors' = {}

LEMMA DoneKeeps ==
  ASSUME EditorInv, NEW t \in Tabs, call[t].pc # "idle", NEW r, NEW code \in EditorCodes, Done(t, r, code),
         call[t].op \notin MirrorOps => UNCHANGED mirrors,
         blob' \in Nat, log' \subseteq Nat, names' \in Nat,
         mirrors' \subseteq [name : Nat, remote : Remotes \cup {"none"}],
         base' \in [Tabs -> Nat], view' \in [Tabs -> Nat]
  PROVE  EditorInv'
<1>1. call' = [call EXCEPT ![t] = Shut] /\ reply' \in [Tabs -> [code : EditorCodes]]
  BY DEF Done, EditorInv, EditorTypes
<1>. QED
  BY <1>1, CallSet, Zenon

LEMMA GoesKeeps ==
  ASSUME EditorInv, NEW t \in Tabs, NEW r \in EditorCalls, Goes(t, r), CallsFit(r),
         r.op = call[t].op, r.alone = call[t].alone,
         r.op \in MirrorOps /\ r.alone => LeftToDrop(r, mirrors'),
         call[t].op \notin MirrorOps => UNCHANGED mirrors,
         blob' \in Nat, log' \subseteq Nat, names' \in Nat,
         mirrors' \subseteq [name : Nat, remote : Remotes \cup {"none"}],
         base' \in [Tabs -> Nat], view' \in [Tabs -> Nat]
  PROVE  EditorInv' /\ call'[t] # Shut
<1>1. call' = [call EXCEPT ![t] = r] /\ r # Shut /\ reply' \in [Tabs -> [code : EditorCodes]]
  BY OpenCall DEF Goes, EditorInv, EditorTypes
<1>2. call'[t] = r
  BY <1>1 DEF EditorInv, EditorTypes
<1>. QED
  BY <1>1, <1>2, CallSet, Zenon

\* The names that are left go on being the ones to drop.
LEMMA OnwardKeeps ==
  ASSUME EditorInv, NEW t \in Tabs, call[t] \in EditorCalls, CallsFit(call[t]), call[t].op \in MirrorOps,
         NEW todo \in SUBSET Nat, call[t].alone => \A m \in mirrors' : m.name \in todo, Onward(t, call[t], todo),
         blob' \in Nat, log' \subseteq Nat, names' \in Nat,
         mirrors' \subseteq [name : Nat, remote : Remotes \cup {"none"}],
         base' \in [Tabs -> Nat], view' \in [Tabs -> Nat]
  PROVE  EditorInv' /\ EndsReplaced(t)
<1>0. call[t].pc # "idle"
  BY OpenCall
<1>1. CASE todo # {}
  <2>. DEFINE m == CHOOSE m \in todo : TRUE
              r1 == [call[t] EXCEPT !.pc = "drop"]
              r2 == [r1 EXCEPT !.mirror = m]
              r3 == [r2 EXCEPT !.todo = todo \ {m}]
              r == [r3 EXCEPT !.attempt = 1]
  <2>1. m \in todo /\ m \in Nat
    BY <1>1, Zenon
  <2>. HIDE DEF m
  <2>2. r1 \in EditorCalls /\ r1.pc = "drop" /\ r1.op = call[t].op /\ r1.alone = call[t].alone
    BY DEF EditorCalls, MirrorSteps
  <2>. HIDE DEF r1
  <2>3. r2 \in EditorCalls /\ r2.pc = "drop" /\ r2.op = call[t].op /\ r2.alone = call[t].alone /\ r2.mirror = m
    BY <2>1, <2>2 DEF EditorCalls
  <2>. HIDE DEF r2
  <2>4. /\ r3 \in EditorCalls /\ r3.pc = "drop" /\ r3.op = call[t].op /\ r3.alone = call[t].alone /\ r3.mirror = m
        /\ r3.todo = todo \ {m}
    BY <2>3 DEF EditorCalls
  <2>. HIDE DEF r3
  <2>5. /\ r \in EditorCalls /\ r.pc = "drop" /\ r.op = call[t].op /\ r.alone = call[t].alone /\ r.mirror = m
        /\ r.todo = todo \ {m}
    BY <2>4 DEF EditorCalls
  <2>6. Goes(t, r)
    BY <1>1 DEF Onward, m, r1, r2, r3
  <2>. HIDE DEF r
  <2>7. CallsFit(r) /\ (r.alone => LeftToDrop(r, mirrors'))
    BY <2>1, <2>5 DEF CallsFit, LeftToDrop, MirrorOps, OtherOps, MirrorSteps
  <2>. QED
    BY <2>5, <2>6, <2>7, GoesKeeps, Zenon DEF EndsReplaced
<1>2. CASE todo = {} /\ call[t].op = "set"
  <2>. DEFINE r1 == [call[t] EXCEPT !.pc = "add"]
              r == [r1 EXCEPT !.attempt = 1]
  <2>1. r1 \in EditorCalls /\ r1.pc = "add" /\ r1.op = call[t].op /\ r1.alone = call[t].alone
    BY DEF EditorCalls, MirrorSteps
  <2>. HIDE DEF r1
  <2>2. r \in EditorCalls /\ r.pc = "add" /\ r.op = call[t].op /\ r.alone = call[t].alone
    BY <2>1 DEF EditorCalls
  <2>3. Goes(t, r)
    BY <1>2 DEF Onward, r1
  <2>. HIDE DEF r
  <2>4. r.alone => mirrors' = {}
    BY <1>2, <2>2
  <2>5. CallsFit(r) /\ (r.alone => LeftToDrop(r, mirrors'))
    BY <1>2, <2>2, <2>4 DEF CallsFit, LeftToDrop, MirrorOps, OtherOps, MirrorSteps
  <2>. QED
    BY <2>2, <2>3, <2>5, GoesKeeps DEF EndsReplaced
<1>3. CASE todo = {} /\ call[t].op = "unset"
  <2>1. Done(t, call[t], "ok") /\ (call[t].alone => mirrors' = {})
    BY <1>3 DEF Onward
  <2>2. EditorInv'
    BY <1>0, <2>1, DoneKeeps DEF EditorCodes
  <2>. QED
    BY <1>3, <2>1, <2>2 DEF EndsReplaced
<1>. QED
  BY <1>1, <1>2, <1>3 DEF MirrorOps

LEMMA DoneBadly ==
  ASSUME EditorInv, NEW t \in Tabs, NEW r, NEW code, code # "ok", Done(t, r, code)
  PROVE  EndsReplaced(t)
  BY DEF Done, EndsReplaced, EditorInv, EditorTypes

LEMMA AnsweredKeeps ==
  ASSUME EditorInv, NEW t \in Tabs, Answered(t) PROVE EditorInv' /\ EndsReplaced(t)
<1>. DEFINE r == call[t]
<1>0. r.pc # "idle" /\ Acts(r)
  BY Zenon DEF Answered
<1>1. r \in EditorCalls /\ CallsFit(r) /\ r.op \in MirrorOps \cup OtherOps
  BY <1>0, CallOpen DEF EditorCalls
<1>2. /\ blob' \in Nat /\ log' \subseteq Nat /\ names' \in Nat
      /\ mirrors' \subseteq [name : Nat, remote : Remotes \cup {"none"}]
      /\ r.pc \notin {"add", "drop"} => UNCHANGED mirrors
      /\ r.op \notin MirrorOps => UNCHANGED mirrors
      /\ r.pc = "add" => mirrors' = mirrors \cup {[name |-> names + 1, remote |-> r.remote]}
      /\ r.pc = "drop" => mirrors' = {m \in mirrors : m.name # r.mirror}
  BY <1>0, ActsKeeps
<1>3. base' \in [Tabs -> Nat] /\ view' \in [Tabs -> Nat]
  <2>1. base \in [Tabs -> Nat] /\ view \in [Tabs -> Nat] /\ blob \in Nat /\ r.text \in Nat
    BY <1>1 DEF EditorInv, EditorTypes, EditorCalls
  <2>2. UNCHANGED <<base, view>> \/ \E sha, was \in Nat : Shows(t, sha, was)
    BY <1>2, <2>1, Zenon DEF Answered
  <2>. QED
    BY <2>1, <2>2 DEF Shows
<1>4. CASE r.pc \in {"get", "at", "put", "erase", "tree", "commits", "push"}
  <2>1. \E code \in EditorCodes : Done(t, r, code)
    BY <1>4, Zenon DEF Answered, checkResponseStatus, EditorCodes
  <2>2. r.op \notin MirrorOps
    BY <1>1, <1>4 DEF CallsFit, MirrorSteps
  <2>3. EditorInv'
    BY <1>0, <1>2, <1>3, <2>1, DoneKeeps
  <2>. QED
    BY <2>2, <2>3 DEF EndsReplaced, MirrorOps
<1>5. CASE r.pc = "list"
  <2>1. Takes(r) /\ UNCHANGED mirrors
    BY <1>2, <1>5 DEF Takes
  <2>2. CASE r.op = "status"
    <3>1. Done(t, r, "ok")
      BY <1>5, <2>1, <2>2, Zenon DEF Answered
    <3>2. EditorInv'
      BY <1>0, <1>2, <1>3, <3>1, DoneKeeps, ZenonT(30) DEF EditorCodes
    <3>. QED
      BY <2>2, <3>2 DEF EndsReplaced
  <2>3. CASE r.op # "status"
    <3>1. Onward(t, r, ListPushMirrors)
      BY <1>5, <2>1, <2>3, Zenon DEF Answered
    <3>2. ListPushMirrors \in SUBSET Nat /\ \A m \in mirrors' : m.name \in ListPushMirrors
      BY <2>1 DEF ListPushMirrors, EditorInv, EditorTypes
    <3>3. r.op \in MirrorOps
      BY <1>1, <1>5, <2>3 DEF CallsFit
    <3>. QED
      BY <1>1, <1>2, <1>3, <3>1, <3>2, <3>3, OnwardKeeps
  <2>. QED
    BY <2>2, <2>3
<1>6. CASE r.pc = "drop"
  <2>0. r.op \in MirrorOps
    BY <1>1, <1>6 DEF CallsFit, OtherSteps
  <2>1. CASE ~Takes(r)
    <3>1. Done(t, r, checkResponseStatus(r)) /\ checkResponseStatus(r) \in EditorCodes \ {"ok"}
      BY <1>6, <2>1, Zenon DEF Answered, checkResponseStatus, EditorCodes
    <3>2. EditorInv'
      BY <1>0, <1>2, <1>3, <3>1, DoneKeeps, Zenon DEF EditorCodes
    <3>. QED
      BY <3>1, <3>2, DoneBadly
  <2>2. CASE Takes(r)
    <3>1. Onward(t, r, r.todo) /\ r.todo \in SUBSET Nat
      BY <1>1, <1>6, <2>2, Zenon DEF Answered, EditorCalls
    <3>2. ASSUME r.alone PROVE \A m \in mirrors' : m.name \in r.todo
      <4>1. \A m \in mirrors : m.name \in r.todo \cup {r.mirror}
        BY <1>6, <2>0, <3>2 DEF EditorInv, AloneInv, Mirroring, MirrorOps, LeftToDrop
      <4>. QED
        BY <1>2, <1>6, <4>1
    <3>. QED
      BY <1>1, <1>2, <1>3, <2>0, <3>1, <3>2, OnwardKeeps, Zenon
  <2>. QED
    BY <2>1, <2>2
<1>7. CASE r.pc = "add"
  <2>1. Takes(r) /\ r.op = "set"
    BY <1>1, <1>7 DEF Takes, CallsFit
  <2>2. Done(t, r, "ok")
    BY <1>7, <2>1, Zenon DEF Answered
  <2>3. EditorInv'
    BY <1>0, <1>2, <1>3, <2>2, DoneKeeps DEF EditorCodes
  <2>4. ASSUME r.alone PROVE \E m \in mirrors' : mirrors' = {m} /\ m.remote = r.remote
    <3>1. mirrors = {}
      BY <1>7, <2>1, <2>4 DEF EditorInv, AloneInv, Mirroring, LeftToDrop
    <3>2. mirrors' = {[name |-> names + 1, remote |-> r.remote]}
      BY <1>2, <1>7, <3>1
    <3>3. [name |-> names + 1, remote |-> r.remote].remote = r.remote
      OBVIOUS
    <3>. QED
      BY <3>2, <3>3
  <2>. QED
    BY <2>1, <2>3, <2>4, Zenon DEF EndsReplaced
<1>. QED
  BY <1>1, <1>4, <1>5, <1>6, <1>7 DEF EditorCalls, MirrorSteps, OtherSteps

LEMMA BrokenKeeps ==
  ASSUME EditorInv, NEW t \in Tabs, Broken(t) PROVE EditorInv' /\ EndsReplaced(t)
<1>. DEFINE r == call[t]
<1>0. r.pc # "idle" /\ (Acts(r) \/ Idles) /\ UNCHANGED <<base, view>>
  BY DEF Broken
<1>1. r \in EditorCalls /\ CallsFit(r)
  BY <1>0, CallOpen
<1>2. /\ blob' \in Nat /\ log' \subseteq Nat /\ names' \in Nat
      /\ mirrors' \subseteq [name : Nat, remote : Remotes \cup {"none"}]
      /\ r.pc \notin {"add", "drop"} => UNCHANGED mirrors
      /\ r.op \notin MirrorOps => UNCHANGED mirrors
  <2>1. CASE Acts(r)
    BY <1>0, <2>1, ActsKeeps
  <2>2. CASE Idles
    BY <2>2 DEF Idles, EditorInv, EditorTypes
  <2>. QED
    BY <1>0, <2>1, <2>2
<1>3. base' \in [Tabs -> Nat] /\ view' \in [Tabs -> Nat]
  BY <1>0 DEF EditorInv, EditorTypes
<1>e. PICK err \in Trouble :
        IF isRetryable(Method(r), err) /\ r.attempt < maxAttempts
        THEN Goes(t, [r EXCEPT !.attempt = @ + 1]) ELSE Done(t, r, classifyTransport(Method(r), err))
  BY Zenon DEF Broken
<1>4. CASE isRetryable(Method(r), err) /\ r.attempt < maxAttempts
  <2>. DEFINE n == r.attempt + 1
              q == [r EXCEPT !.attempt = n]
  <2>1. Goes(t, q)
    BY <1>1, <1>4, <1>e DEF EditorCalls
  <2>2. n \in Nat
    BY <1>1 DEF EditorCalls
  <2>. HIDE DEF n
  <2>3. q \in EditorCalls /\ q.pc = r.pc /\ q.op = r.op /\ q.alone = r.alone
    BY <1>1, <2>2 DEF EditorCalls
  <2>. HIDE DEF q
  <2>4. r.pc \notin {"add", "drop"}
    BY <1>4 DEF isRetryable, Method
  <2>5. CallsFit(q) /\ LeftToDrop(q, mirrors')
    BY <1>1, <2>3, <2>4 DEF CallsFit, LeftToDrop
  <2>. QED
    BY <1>2, <1>3, <2>1, <2>3, <2>5, GoesKeeps, Zenon DEF EndsReplaced
<1>5. CASE ~(isRetryable(Method(r), err) /\ r.attempt < maxAttempts)
  <2>1. Done(t, r, classifyTransport(Method(r), err))
    BY <1>5, <1>e
  <2>2. classifyTransport(Method(r), err) \in EditorCodes \ {"ok"}
    BY DEF classifyTransport, EditorCodes
  <2>. QED
    BY <1>0, <1>2, <1>3, <2>1, <2>2, DoneKeeps, DoneBadly, Zenon
<1>. QED
  BY <1>4, <1>5

\* No opening closes a request, and an answer or a break is of one request.
LEMMA OpenedNone ==
  ASSUME EditorInv, NEW t \in Tabs, NEW kind \in MirrorOps \cup OtherOps, NEW pc \in OtherSteps, NEW ref,
         NEW remote, Request(t, kind, pc, ref, remote), NEW s \in Tabs, call[s].alone
  PROVE  call'[s] # Shut
<1>1. Opened(t, [pc |-> pc, op |-> kind, remote |-> remote, sha |-> Sha(t), text |-> ref, todo |-> {}, mirror |-> 0,
                 attempt |-> 1, alone |-> \A u \in Tabs : ~Mirroring(u)])
  BY Zenon DEF Request
<1>2. call[s].pc # "idle" /\ call[t].pc = "idle"
  BY ClosedFacts, OpenCall DEF EditorInv, EditorTypes, Request
<1>3. call[s] \in EditorCalls
  BY <1>2, CallOpen
<1>4. call'[s] \in {call[s], [call[s] EXCEPT !.alone = FALSE]}
  BY <1>1, <1>2 DEF Opened
<1>5. [call[s] EXCEPT !.alone = FALSE] \in EditorCalls
  BY <1>3, Zenon DEF EditorCalls
<1>. QED
  BY <1>3, <1>4, <1>5, OpenCall, Zenon

LEMMA TouchesOne ==
  ASSUME EditorInv, NEW t \in Tabs, Answered(t) \/ Broken(t), NEW s \in Tabs \ {t} PROVE call'[s] = call[s]
<1>1. \E r : call' = [call EXCEPT ![t] = r]
  <2>1. CASE Answered(t)
    <3>1. \/ \E r, code : Done(t, r, code)
          \/ \E r : Goes(t, r)
      BY <2>1 DEF Answered, Onward
    <3>. QED
      BY <3>1 DEF Done, Goes
  <2>2. CASE Broken(t)
    BY <2>2 DEF Broken, Done, Goes
  <2>. QED
    BY <2>1, <2>2
<1>. QED
  BY <1>1 DEF EditorInv, EditorTypes

LEMMA NextEditor ==
  ASSUME EditorInv, RNext PROVE EditorInv' /\ \A t \in Tabs : EndsReplaced(t)
<1>1. PICK t \in Tabs :
        \/ \E kind \in MirrorOps \cup OtherOps, pc \in OtherSteps, ref \in Nat, remote \in Remotes \cup {"none"} :
             /\ kind \in MirrorOps => pc = "list"
             /\ pc = "list" => kind \in MirrorOps \cup {"status"}
             /\ Request(t, kind, pc, ref, remote)
        \/ Answered(t) \/ Broken(t)
  <2>1. PICK t \in Tabs :
          \/ ListFiles(t) \/ GetFile(t) \/ PutFile(t) \/ DeleteFile(t) \/ ListFileHistory(t) \/ GetFileAtRef(t)
          \/ SetPushMirror(t) \/ GetPushMirror(t) \/ DeletePushMirror(t) \/ SyncPushMirror(t)
          \/ Answered(t) \/ Broken(t)
    BY DEF RNext
  <2>2. \/ Request(t, "files", "tree", 0, "none") \/ Request(t, "read", "get", 0, "none")
        \/ Request(t, "write", "put", view[t], "none")
        \/ Request(t, "erase", "erase", 0, "none") \/ Request(t, "history", "commits", 0, "none")
        \/ (\E ref \in log : Request(t, "view", "at", ref, "none"))
        \/ (\E url \in Remotes : Request(t, "set", "list", 0, url))
        \/ Request(t, "status", "list", 0, "none") \/ Request(t, "unset", "list", 0, "none")
        \/ Request(t, "sync", "push", 0, "none") \/ Answered(t) \/ Broken(t)
    BY <2>1, Zenon DEF ListFiles, GetFile, PutFile, DeleteFile, ListFileHistory, GetFileAtRef, SetPushMirror,
       GetPushMirror, DeletePushMirror, SyncPushMirror, listFiles, getFile, putFile, listFileHistory, getFileAtRef,
       setPushMirror, getPushMirror, deletePushMirror, syncPushMirror
  <2>3. view[t] \in Nat /\ log \subseteq Nat
    BY DEF EditorInv, EditorTypes
  <2>. QED
    BY <2>2, <2>3 DEF MirrorOps, OtherOps, OtherSteps
<1>2. CASE \E kind \in MirrorOps \cup OtherOps, pc \in OtherSteps, ref \in Nat, remote \in Remotes \cup {"none"} :
             /\ kind \in MirrorOps => pc = "list"
             /\ pc = "list" => kind \in MirrorOps \cup {"status"}
             /\ Request(t, kind, pc, ref, remote)
  <2>1. PICK kind \in MirrorOps \cup OtherOps, pc \in OtherSteps, ref \in Nat, remote \in Remotes \cup {"none"} :
             /\ kind \in MirrorOps => pc = "list"
             /\ pc = "list" => kind \in MirrorOps \cup {"status"}
             /\ Request(t, kind, pc, ref, remote)
    BY <1>2
  <2>2. EditorInv'
    BY <2>1, RequestKeeps
  <2>3. \A s \in Tabs : EndsReplaced(s)
    BY <2>1, OpenedNone DEF EndsReplaced
  <2>. QED
    BY <2>2, <2>3
<1>3. CASE Answered(t) \/ Broken(t)
  <2>1. EditorInv' /\ EndsReplaced(t)
    BY <1>3, AnsweredKeeps, BrokenKeeps
  <2>2. ASSUME NEW s \in Tabs \ {t} PROVE EndsReplaced(s)
    <3>1. call'[s] = call[s]
      BY <1>3, TouchesOne
    <3>. QED
      BY <3>1, ClosedFacts DEF EndsReplaced
  <2>. QED
    BY <2>1, <2>2
<1>. QED
  BY <1>1, <1>2, <1>3

\* Setting a push mirror while nobody else sets or removes one leaves exactly
\* that one, whatever breaks on the way, and removing it leaves none
\* (setPushMirror, deletePushMirror), for every number of editor sessions,
\* remotes and requests.
THEOREM MirrorsReplaced == EditorSpec => MirrorReplaced
<1>1. EditorInv /\ UNCHANGED rvars => EditorInv'
  BY DEF EditorInv, EditorTypes, AloneInv, Mirroring, rvars
<1>2. EditorInv /\ [RNext]_rvars =>
        [\A t \in Tabs :
           call[t].alone /\ call'[t] = Shut /\ reply'[t].code = "ok" =>
             /\ call[t].op = "set" => \E m \in mirrors' : mirrors' = {m} /\ m.remote = call[t].remote
             /\ call[t].op = "unset" => mirrors' = {}]_rvars
  BY NextEditor DEF EndsReplaced
<1>. QED
  BY <1>1, <1>2, InitEditorInv, NextEditor, PTL DEF EditorSpec, MirrorReplaced

=============================================================================
