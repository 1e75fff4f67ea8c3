------------------------- MODULE SubscriptionTable -------------------------
(***************************************************************************)
(* What the market data service promises a FIX session, without the        *)
(* handler's steps, the websocket's identifiers or the states of its       *)
(* subscriptions.  A symbol is owned by the one MDReqID that asked for it  *)
(* first, for good.  Its feeds are opened for the owner, at most one per   *)
(* channel; they may close again while the owner has not been granted      *)
(* them, never after.  Data of a feed is delivered under its owner.        *)
(***************************************************************************)
CONSTANTS Symbol, ReqID, None

VARIABLES
    owner,      \* symbol -> MDReqID
    feeds,      \* pairs of symbol and channel
    granted,    \* MDReqIDs that have both feeds of their symbol
    delivered   \* the MDReqID of the last data, None if another message followed

Channel == {"book", "trades"}

Init ==
    /\ owner = [s \in Symbol |-> None]
    /\ feeds = {}
    /\ granted = {}
    /\ delivered = None

\* Another message to the session.
Reply == delivered' = None
MayReply == Reply \/ UNCHANGED delivered

Claim(s, r) ==
    /\ owner[s] = None
    /\ \A t \in Symbol : owner[t] # r
    /\ owner' = [owner EXCEPT ![s] = r]
    /\ UNCHANGED <<feeds, granted, delivered>>

Open(s, c) ==
    /\ owner[s] \in ReqID \ granted
    /\ <<s, c>> \notin feeds
    /\ feeds' = feeds \cup {<<s, c>>}
    /\ MayReply
    /\ UNCHANGED <<owner, granted>>

Close(s, c) ==
    /\ owner[s] \notin granted
    /\ feeds' = feeds \ {<<s, c>>}
    /\ UNCHANGED <<owner, granted, delivered>>

Grant(s) ==
    /\ owner[s] \in ReqID
    /\ {s} \X Channel \subseteq feeds
    /\ granted' = granted \cup {owner[s]}
    /\ UNCHANGED <<owner, feeds, delivered>>

Deliver(s, c) ==
    /\ <<s, c>> \in feeds
    /\ delivered' = owner[s]
    /\ UNCHANGED <<owner, feeds, granted>>

Answer == Reply /\ UNCHANGED <<owner, feeds, granted>>

Next ==
    \/ \E s \in Symbol, r \in ReqID : Claim(s, r)
    \/ \E s \in Symbol, c \in Channel : Open(s, c) \/ Close(s, c) \/ Deliver(s, c)
    \/ \E s \in Symbol : Grant(s)
    \/ Answer

Spec == Init /\ [][Next]_<<owner, feeds, granted, delivered>>
=============================================================================
