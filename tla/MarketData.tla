----------------------------- MODULE MarketData -----------------------------
(***************************************************************************)
(* Market data requests of one FIX session: OnFIXMarketDataRequest on the  *)
(* FIX session's goroutine, the subscription maps of the peer's cache, and *)
(* the handlers of book, trade and error messages that Service.listen runs *)
(* concurrently.  Symbols are those after translation to Bitfinex's names. *)
(* Depth and precision select what is subscribed to, not whether.  The     *)
(* websocket client is modelled as far as the gateway depends on it: it    *)
(* tracks a subscription from before the request is sent, and after a lost *)
(* connection requests all of them again under new IDs.                    *)
(***************************************************************************)
EXTENDS Naturals, Sequences

CONSTANTS Symbol, ReqID,
          SymLists,     \* the symbol groups a request may carry
          MaxSubID,     \* bound on the subscription identifiers handed out
          None

ASSUME MarketDataAssumption ==
    /\ None \notin ReqID
    /\ SymLists \subseteq Seq(Symbol) \ {<<>>}
    /\ MaxSubID \in Nat

Snapshot == "SNAPSHOT"
Updates  == "SNAPSHOT_PLUS_UPDATES"
Disable  == "DISABLE_PREVIOUS"
Other    == "other"
RequestType == {Snapshot, Updates, Disable, Other}

VARIABLES
    symbolToReqID,  \* cache.symbolToReqID: symbol -> MDReqID
    mdReqIDs,       \* cache.mdReqIDs: MDReqID -> the websocket's two IDs
    subs,           \* subscriptions the websocket client knows
    nextID,         \* next subscription ID its nonce generator returns
    pc,             \* where OnFIXMarketDataRequest is
    cur,            \* the request in hand: MDReqID and type
    todo,           \* its symbols from the current one on
    book,           \* bookReqID
    trade,          \* tradeReqID
    out             \* the last FIX message sent to the session

cacheVars == <<symbolToReqID, mdReqIDs>>
reqVars   == <<pc, cur, todo, book, trade>>
vars == <<cacheVars, subs, nextID, reqVars, out>>

\* A subscription; req remembers the request it was made for.  "unsent": the
\* request could not be written to the socket; "ending": unsubscribed, and
\* not yet acknowledged.
Subscription == [id : Nat, chan : {"book", "trades"}, sym : Symbol, req : ReqID,
                 state : {"unsent", "pending", "active", "refused", "ending"}]

Init ==
    /\ symbolToReqID = [s \in Symbol |-> None]
    /\ mdReqIDs = [r \in ReqID |-> {}]
    /\ subs = {}
    /\ nextID = 0
    /\ pc = "idle"
    /\ cur = [id |-> None, type |-> Other]
    /\ todo = <<>>
    /\ book = 0
    /\ trade = 0
    /\ out = [kind |-> "none", id |-> None]
-----------------------------------------------------------------------------
\* Faulty variant: only an MDReqID with websocket IDs exists.
MDReqIDIsMapped(r) == mdReqIDs[r] # {}

MDReqIDExists(r) == \E s \in Symbol : symbolToReqID[s] = r

\* Faulty variant: the symbol is mapped to itself.
MapSymbolToSymbol(s, r) == symbolToReqID' = [symbolToReqID EXCEPT ![s] = s]

MapSymbolToReqID(s, r) == symbolToReqID' = [symbolToReqID EXCEPT ![s] = r]

\* Faulty variant: the SubID is not fresh.
SubscribeSameID(S, chan, st) ==
    /\ UNCHANGED nextID
    /\ subs' = S \cup {[id |-> nextID, chan |-> chan, sym |-> Head(todo),
                        req |-> cur.id, state |-> st]}

\* A subscription is tracked under a fresh SubID, then requested.
Subscribe(S, chan, st) ==
    /\ nextID < MaxSubID
    /\ nextID' = nextID + 1
    /\ subs' = S \cup {[id |-> nextID, chan |-> chan, sym |-> Head(todo),
                        req |-> cur.id, state |-> st]}

\* Ws.Unsubscribe names the channel of the subscription: one that is not
\* acknowledged yet has none, and stays.
Unsubscribed(S, ids) ==
    {x \in S : x.id \notin ids \/ x.state # "active"}
    \cup {[x EXCEPT !.state = "ending"] : x \in {y \in S : y.id \in ids /\ y.state = "active"}}

Send(kind, id) == out' = [kind |-> kind, id |-> id]

\* FIXMarketDataFullRefreshFromBookSnapshot: the answer to a SNAPSHOT request.
FullRefresh(r) == Send("snapshot", r)

\* The refreshes made from the messages of a subscription (a book's first one
\* is a full refresh too; the two are not told apart).
IncrementalRefresh(r) == Send("data", r)

\* The MDReqIDs a websocket's ID stands for.
ReverseLookupAPIReqIDs(id) == {r \in ReqID : id \in mdReqIDs[r]}

\* The handler returns, or goes on with the next symbol of the group.
Return == pc' = "idle" /\ todo' = <<>>

Continue ==
    /\ todo' = Tail(todo)
    /\ pc' = IF Tail(todo) = <<>> THEN "idle" ELSE "next"
-----------------------------------------------------------------------------
\* A request that fails validation (no peer, no symbol, a missing field, bad
\* depth or precision) is rejected before the cache is looked at.
Invalid ==
    /\ pc = "idle"
    /\ Send("sessionReject", None)
    /\ UNCHANGED <<cacheVars, subs, nextID, reqVars>>

Receive(r, type, syms) ==
    /\ pc = "idle"
    /\ pc' = "next"
    /\ cur' = [id |-> r, type |-> type]
    /\ todo' = syms
    /\ UNCHANGED <<cacheVars, subs, nextID, book, trade, out>>

DuplicateRequest ==
    /\ pc = "next"
    /\ MDReqIDExists(cur.id)
    /\ Send("duplicateMDReqID", cur.id)
    /\ Return
    /\ UNCHANGED <<cacheVars, subs, nextID, cur, book, trade>>

DuplicateSymbol ==
    /\ pc = "next"
    /\ ~MDReqIDExists(cur.id)
    /\ symbolToReqID[Head(todo)] # None
    /\ Send("duplicateSymbol", cur.id)
    /\ Return
    /\ UNCHANGED <<cacheVars, subs, nextID, cur, book, trade>>

\* Faulty variants: the symbol is not tested; an unsubscription is let
\* through.
AcceptedAnySymbol(type) ==
    /\ pc = "next"
    /\ ~MDReqIDExists(cur.id)
    /\ cur.type = type
AcceptedDisable(type) ==
    /\ pc = "next"
    /\ type = Disable \/ (~MDReqIDExists(cur.id) /\ symbolToReqID[Head(todo)] = None)
    /\ cur.type = type

\* The tests of lines 391-402 passed for the current symbol.
Accepted(type) ==
    /\ pc = "next"
    /\ ~MDReqIDExists(cur.id)
    /\ symbolToReqID[Head(todo)] = None
    /\ cur.type = type

UnsupportedType ==
    /\ Accepted(Other)
    /\ Send("unsupportedType", cur.id)
    /\ Continue
    /\ UNCHANGED <<cacheVars, subs, nextID, cur, book, trade>>

\* SNAPSHOT and SNAPSHOT_PLUS_UPDATES record the symbol before anything is
\* asked of Bitfinex.
MapSymbol ==
    /\ \/ Accepted(Snapshot) /\ pc' = "rest"
       \/ Accepted(Updates) /\ pc' = "book"
    /\ MapSymbolToReqID(Head(todo), cur.id)
    /\ UNCHANGED <<mdReqIDs, subs, nextID, cur, todo, book, trade, out>>

\* An unsubscription: LookupAPIReqIDs, then Unsubscribe of both IDs.
DisablePrevious ==
    LET ids == mdReqIDs[cur.id] IN
    /\ Accepted(Disable)
    /\ IF ids # {}
         THEN /\ subs' = Unsubscribed(subs, ids)
              /\ Return
              /\ UNCHANGED out \/ Send("sessionReject", None)
         ELSE Send("unknownSubscription", cur.id) /\ Continue /\ UNCHANGED subs
    /\ UNCHANGED <<cacheVars, nextID, cur, book, trade>>

\* Rest.Book.All
RestAnswers ==
    /\ pc = "rest"
    /\ \/ FullRefresh(cur.id) /\ Continue
       \/ Send("unknownSymbol", cur.id) /\ Return
    /\ UNCHANGED <<cacheVars, subs, nextID, cur, book, trade>>

SubscribeBook ==
    /\ pc = "book"
    /\ Subscribe(subs, "book", "pending")
    /\ book' = nextID
    /\ pc' = "trades"
    /\ UNCHANGED <<cacheVars, cur, todo, trade, out>>

\* Faulty variant: the symbol is forgotten, the client's subscription is not.
SubscribeBookFailsUnmaps ==
    /\ pc = "book"
    /\ UNCHANGED <<subs, nextID>> \/ Subscribe(subs, "book", "unsent")
    /\ Send("unknownSymbol", cur.id)
    /\ Return
    /\ symbolToReqID' = [symbolToReqID EXCEPT ![Head(todo)] = None]
    /\ UNCHANGED <<mdReqIDs, cur, book, trade>>

\* No socket to be had, or the request cannot be written to it: the client
\* keeps track of the subscription all the same.
SubscribeBookFails ==
    /\ pc = "book"
    /\ UNCHANGED <<subs, nextID>> \/ Subscribe(subs, "book", "unsent")
    /\ Send("unknownSymbol", cur.id)
    /\ Return
    /\ UNCHANGED <<cacheVars, cur, book, trade>>

SubscribeTrades ==
    /\ pc = "trades"
    /\ Subscribe(subs, "trades", "pending")
    /\ trade' = nextID
    /\ pc' = "map"
    /\ UNCHANGED <<cacheVars, cur, todo, book, out>>

\* The book is unsubscribed again and the request rejected.
SubscribeTradesFails ==
    /\ pc = "trades"
    /\ LET S == Unsubscribed(subs, {book}) IN
       \/ subs' = S /\ UNCHANGED nextID
       \/ Subscribe(S, "trades", "unsent")
    /\ Send("unknownSymbol", cur.id)
    /\ Return
    /\ UNCHANGED <<cacheVars, cur, book, trade>>

\* MapMDReqIDs, once both subscription requests are on their way.
MapMDReqIDs ==
    /\ pc = "map"
    /\ mdReqIDs' = [mdReqIDs EXCEPT ![cur.id] = {book, trade}]
    /\ Continue
    /\ UNCHANGED <<symbolToReqID, subs, nextID, cur, book, trade, out>>
-----------------------------------------------------------------------------
(***************************************************************************)
(* Messages of the websocket, handled by Service.listen's goroutine.       *)
(***************************************************************************)

SetState(x, st) == subs' = (subs \ {x}) \cup {[x EXCEPT !.state = st]}

Ack(x) ==
    /\ x.state = "pending"
    /\ SetState(x, "active")
    /\ UNCHANGED <<cacheVars, nextID, reqVars, out>>

\* LookupMDReqID: the MDReqID is looked up by symbol; data of an unmapped
\* symbol is dropped.
Data(x) ==
    /\ x.state \in {"active", "ending"}
    /\ IF symbolToReqID[x.sym] # None THEN IncrementalRefresh(symbolToReqID[x.sym])
                                      ELSE UNCHANGED out
    /\ UNCHANGED <<cacheVars, subs, nextID, reqVars>>

\* Faulty variant: the book goes out under the MDReqID of the last request.
BookUpdateOfLastRequest(x) ==
    /\ x.chan = "book"
    /\ x.state \in {"active", "ending"}
    /\ IncrementalRefresh(cur.id)
    /\ UNCHANGED <<cacheVars, subs, nextID, reqVars>>

\* FIXBookSnapshot and FIXBookUpdate.
FIXBookUpdate(x) == x.chan = "book" /\ Data(x)

FIXTradeHandler(x) == x.chan = "trades" /\ Data(x)

\* The ErrorEvent of a refused subscription: ReverseLookupAPIReqIDs by its
\* SubID, or else a BusinessMessageReject.
ErrorEvent(x) ==
    /\ x.state = "pending"
    /\ SetState(x, "refused")
    /\ \/ \E r \in ReverseLookupAPIReqIDs(x.id) : Send("mdReject", r)
       \/ ReverseLookupAPIReqIDs(x.id) = {} /\ Send("businessReject", None)
    /\ UNCHANGED <<cacheVars, nextID, reqVars>>

\* "unsubscribed": the client forgets the subscription.
UnsubscribeAck(x) ==
    /\ x.state = "ending"
    /\ subs' = subs \ {x}
    /\ UNCHANGED <<cacheVars, nextID, reqVars, out>>

\* The connection was lost and is open again: the client requests what it
\* tracks, in the old order, under new IDs.  Only their order matters.
Reconnect ==
    /\ subs # {}
    /\ 2 * nextID <= MaxSubID
    /\ nextID' = 2 * nextID
    /\ subs' = {[x EXCEPT !.id = nextID + x.id, !.state = "pending"] : x \in subs}
    /\ UNCHANGED <<cacheVars, reqVars, out>>

Next ==
    \/ Invalid
    \/ \E r \in ReqID, type \in RequestType, syms \in SymLists : Receive(r, type, syms)
    \/ DuplicateRequest
    \/ DuplicateSymbol
    \/ UnsupportedType
    \/ MapSymbol
    \/ DisablePrevious
    \/ RestAnswers
    \/ SubscribeBook
    \/ SubscribeBookFails
    \/ SubscribeTrades
    \/ SubscribeTradesFails
    \/ MapMDReqIDs
    \/ \E x \in subs : \/ Ack(x)
                      \/ FIXBookUpdate(x) \/ FIXTradeHandler(x)
                      \/ ErrorEvent(x)
                      \/ UnsubscribeAck(x)
    \/ Reconnect

Spec == Init /\ [][Next]_vars
-----------------------------------------------------------------------------
\* The types of the cache, the client's subscriptions and the handler's locals.
TypeOK ==
    /\ symbolToReqID \in [Symbol -> ReqID \cup {None}]
    /\ mdReqIDs \in [ReqID -> SUBSET Nat]
    /\ subs \subseteq Subscription
    /\ nextID \in Nat
    /\ pc \in {"idle", "next", "rest", "book", "trades", "map"}
    /\ cur \in [id : ReqID \cup {None}, type : RequestType]
    /\ todo \in Seq(Symbol)
    /\ book \in Nat
    /\ trade \in Nat
    /\ out \in [kind : {"none", "sessionReject", "duplicateMDReqID", "duplicateSymbol",
                        "unsupportedType", "unknownSubscription", "snapshot",
                        "unknownSymbol", "data", "mdReject", "businessReject"},
                id : ReqID \cup {None}]

\* An MDReqID stands for one symbol of the session: MDReqIDExists is asked
\* for every symbol of a group, so a group is served up to its first symbol.
ReqIDNamesOneSymbol ==
    \A s, t \in Symbol :
        symbolToReqID[s] # None /\ symbolToReqID[s] = symbolToReqID[t] => s = t

\* "one subscription per symbol allowed": the client never tracks two book
\* or two trade subscriptions of a symbol, whatever fails, is retried or is
\* requested again after a reconnection.
OneSubscriptionPerSymbol ==
    \A x, y \in subs : x.chan = y.chan /\ x.sym = y.sym => x = y

\* Data is delivered under the MDReqID that asked for it: it may arrive from
\* the moment of the subscription, before the handler has returned, after
\* the request was rejected and after a reconnection.
DataIsRouted == \A x \in subs : symbolToReqID[x.sym] = x.req

\* The unsubscription branch is dead: an MDReqID with websocket IDs is the
\* MDReqID of a symbol, so that MDReqIDExists rejects the request that wants
\* to end it.  Nothing a client sends ends a subscription it was granted.
GrantedForEver ==
    \A r \in ReqID : mdReqIDs[r] # {} =>
        /\ MDReqIDExists(r)
        /\ \A c \in {"book", "trades"} :
              \E x \in subs : x.chan = c /\ x.req = r /\ x.state # "ending"

\* The reverse lookup of a refused subscription's ID names the request that
\* made it or none: the IDs the cache keeps of before a reconnection are
\* never handed out again.
RefusalNamesItsRequest ==
    \A x \in subs, r \in ReqID : x.id \in mdReqIDs[r] => x.req = r
-----------------------------------------------------------------------------
\* The feeds of SubscriptionTable are what the client tracks, whatever its
\* state; an MDReqID with websocket IDs has been granted its symbol.
Feeds == {<<x.sym, x.chan>> : x \in subs}
Granted == {r \in ReqID : mdReqIDs[r] # {}}
Delivered == IF out.kind = "data" THEN out.id ELSE None

Table == INSTANCE SubscriptionTable
             WITH owner <- symbolToReqID, feeds <- Feeds, granted <- Granted,
                  delivered <- Delivered

\* The handler, the cache and the websocket client together keep the table's
\* promises: every step is a step of SubscriptionTable or changes nothing of
\* it, also when a subscription fails half-way, is refused, or is requested
\* again after a reconnection.
ImplementsTable == Table!Spec
=============================================================================
