-------------------------------- MODULE Bell --------------------------------
(***************************************************************************)
(* What the notification bell promises, without replicas, channels or a    *)
(* message bus: a Console shows only notifications that have been raised,  *)
(* and what it shows and what is read only ever grows.                     *)
(***************************************************************************)
CONSTANTS Notices, Consoles

VARIABLES raised,  \* notifications the workspace has
          read,    \* those marked read
          seen     \* console -> what it shows

bellVars == <<raised, read, seen>>

Init == raised = {} /\ read = {} /\ seen = [c \in Consoles |-> {}]

Raise(n) ==
  /\ n \notin raised
  /\ raised' = raised \cup {n}
  /\ UNCHANGED <<read, seen>>

MarkRead(S) ==
  /\ S \subseteq raised
  /\ read' = read \cup S
  /\ UNCHANGED <<raised, seen>>

\* A Console shows more of what was raised.
Show(c, S) ==
  /\ S \subseteq raised
  /\ seen' = [seen EXCEPT ![c] = @ \cup S]
  /\ UNCHANGED <<raised, read>>

Next ==
  \/ \E n \in Notices : Raise(n)
  \/ \E S \in SUBSET Notices : MarkRead(S)
  \/ \E c \in Consoles, S \in SUBSET Notices : Show(c, S)

Spec == Init /\ [][Next]_bellVars

=============================================================================
