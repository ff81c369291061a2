--------------------------- MODULE CoauthChannel ----------------------------
(***************************************************************************)
(* What a co-authoring session promises the editor, without threads,       *)
(* requests or retries: a channel that is joined, may be lost and rejoined *)
(* or reported dropped, and is closed; and the local deltas it accepts,    *)
(* each of which it puts on the wire at most once, never before it is      *)
(* first joined and never after it is closed.                              *)
(***************************************************************************)
CONSTANT Deltas

VARIABLES
    phase,      \* "new", "joined", "lost", "dropped" or "closed"
    accepted,   \* the deltas the editor handed over
    posted      \* those put on the wire

channelVars == <<phase, accepted, posted>>

ChannelInit == phase = "new" /\ accepted = {} /\ posted = {}

Move(from, to) ==
    /\ phase \in from /\ phase' = to
    /\ UNCHANGED <<accepted, posted>>

Join   == Move({"new"}, "joined")
Lose   == Move({"joined"}, "lost")
Rejoin == Move({"lost"}, "joined")
Drop   == Move({"lost"}, "dropped")
Close  == Move({"new", "joined", "lost", "dropped"}, "closed")

Accept(d) ==
    /\ phase # "closed" /\ d \notin accepted
    /\ accepted' = accepted \cup {d}
    /\ UNCHANGED <<phase, posted>>

PutOnWire(d) ==
    /\ phase \in {"joined", "lost", "dropped"}
    /\ d \in accepted \ posted
    /\ posted' = posted \cup {d}
    /\ UNCHANGED <<phase, accepted>>

ChannelNext ==
    \/ Join \/ Lose \/ Rejoin \/ Drop \/ Close
    \/ \E d \in Deltas : Accept(d) \/ PutOnWire(d)

ChannelSpec == ChannelInit /\ [][ChannelNext]_channelVars

\* A lost session does not stay lost: it is rejoined, dropped or closed.
Resolved == phase = "lost" ~> phase # "lost"
=============================================================================
