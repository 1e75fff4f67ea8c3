-------------------------- MODULE MarketDataProofs --------------------------
(***************************************************************************)
(* Safety of MarketData for any symbols, MDReqIDs and symbol groups.       *)
(***************************************************************************)
EXTENDS MarketData, TLAPS

Serving == {"rest", "book", "trades", "map"}

\* The handler works for a request that named a symbol; past the duplicate
\* tests, that symbol is the one its MDReqID stands for, and the MDReqID has
\* no websocket IDs yet.
HandlerInv ==
    /\ pc # "idle" => todo # <<>> /\ cur.id \in ReqID
    /\ pc \in Serving => /\ symbolToReqID[Head(todo)] = cur.id
                         /\ mdReqIDs[cur.id] = {}

\* IDs of subscriptions were handed out once.
FreshIDs ==
    /\ \A x \in subs : x.id < nextID
    /\ \A x, y \in subs : x.id = y.id => x = y
    /\ \A r \in ReqID : \A i \in mdReqIDs[r] : i < nextID

\* The subscription the handler made for channel c is there, and the ID it
\* remembers is that one's or, after a reconnection, nobody's.
Made(c, i) ==
    /\ i < nextID
    /\ \E x \in subs : x.chan = c /\ x.req = cur.id /\ x.state # "ending"
    /\ \A x \in subs : x.id = i => x.req = cur.id

\* What is subscribed to while the handler is between its subscriptions.
Between ==
    /\ pc = "book" => \A x \in subs : x.sym # Head(todo)
    /\ pc = "trades" => \A x \in subs : x.sym = Head(todo) => x.chan = "book"
    /\ pc \in {"trades", "map"} => Made("book", book)
    /\ pc = "map" => Made("trades", trade)

IInv ==
    /\ TypeOK
    /\ HandlerInv
    /\ FreshIDs
    /\ Between
    /\ ReqIDNamesOneSymbol
    /\ OneSubscriptionPerSymbol
    /\ DataIsRouted
    /\ GrantedForEver
    /\ RefusalNamesItsRequest
-----------------------------------------------------------------------------
\* Nothing is mapped, subscribed to or in hand at the start.
LEMMA InitInv == Init => IInv
BY MarketDataAssumption
   DEF Init, IInv, TypeOK, HandlerInv, FreshIDs, Between, ReqIDNamesOneSymbol,
       OneSubscriptionPerSymbol, DataIsRouted, GrantedForEver, MDReqIDExists,
       RefusalNamesItsRequest, Serving, RequestType, Snapshot, Updates, Disable, Other

USE DEF cacheVars, reqVars

\* The rest of a symbol group is a symbol group.
LEMMA GroupTail ==
    ASSUME todo \in Seq(Symbol), todo # <<>>
    PROVE  Head(todo) \in Symbol /\ Tail(todo) \in Seq(Symbol)
OBVIOUS

\* The parts of IInv that speak only of the maps and the subscriptions.
LEMMA FrameInv ==
    ASSUME IInv, UNCHANGED <<cacheVars, subs, nextID>>
    PROVE  FreshIDs' /\ ReqIDNamesOneSymbol' /\ OneSubscriptionPerSymbol'
           /\ DataIsRouted' /\ GrantedForEver' /\ RefusalNamesItsRequest'
<1>1. FreshIDs' /\ RefusalNamesItsRequest'
  BY DEF IInv, FreshIDs, RefusalNamesItsRequest
<1>2. ReqIDNamesOneSymbol' /\ DataIsRouted'
  BY DEF IInv, ReqIDNamesOneSymbol, DataIsRouted
<1>3. OneSubscriptionPerSymbol'
  BY DEF IInv, OneSubscriptionPerSymbol
<1>4. GrantedForEver'
  BY DEF IInv, GrantedForEver, MDReqIDExists
<1> QED BY <1>1, <1>2, <1>3, <1>4

\* A handler that returns, or goes on to the next symbol, has nothing in
\* hand that the invariant speaks of.
LEMMA DoneInv ==
    ASSUME IInv, Return \/ Continue, pc # "idle", UNCHANGED <<cur, symbolToReqID>>
    PROVE  /\ todo' \in Seq(Symbol)
           /\ pc' \in {"idle", "next"}
           /\ HandlerInv'
           /\ Between'
<1>1. todo \in Seq(Symbol) /\ todo # <<>> /\ cur.id \in ReqID
  BY DEF IInv, TypeOK, HandlerInv
<1>2. todo' \in Seq(Symbol) /\ pc' \in {"idle", "next"} /\ (pc' = "next" => todo' # <<>>)
  <2>1. CASE Return
    BY <2>1 DEF Return
  <2>2. CASE Continue
    BY <1>1, <2>2, GroupTail DEF Continue
  <2> QED BY <2>1, <2>2
<1>3. HandlerInv'
  BY <1>1, <1>2 DEF HandlerInv, Serving
<1>4. Between'
  BY <1>2 DEF Between
<1> QED BY <1>2, <1>3, <1>4

\* Requests that change neither the maps nor the subscriptions.
LEMMA RejectInv ==
    ASSUME IInv, DuplicateRequest \/ DuplicateSymbol \/ UnsupportedType \/ RestAnswers
    PROVE  IInv'
<1>1. /\ pc # "idle"
      /\ Return \/ Continue
      /\ UNCHANGED <<cacheVars, subs, nextID, cur, book, trade>>
      /\ \E kind \in {"duplicateMDReqID", "duplicateSymbol", "unsupportedType",
                      "snapshot", "unknownSymbol"} : Send(kind, cur.id)
  BY DEF DuplicateRequest, DuplicateSymbol, UnsupportedType, RestAnswers, FullRefresh, Accepted
<1>2. /\ todo' \in Seq(Symbol)
      /\ pc' \in {"idle", "next"}
      /\ HandlerInv' /\ Between'
  BY <1>1, DoneInv
<1>3. TypeOK'
  BY <1>1, <1>2 DEF IInv, TypeOK, Send
<1> QED BY <1>1, <1>2, <1>3, FrameInv DEF IInv

\* The start of a request, and one that fails validation.
LEMMA ReceiveInv ==
    ASSUME IInv,
           Invalid \/ \E r \in ReqID, type \in RequestType, syms \in SymLists :
                          Receive(r, type, syms)
    PROVE  IInv'
<1>1. CASE Invalid
  <2>1. HandlerInv' /\ Between'
    BY <1>1 DEF Invalid, IInv, HandlerInv, Between, Made
  <2>2. TypeOK'
    BY <1>1 DEF Invalid, IInv, TypeOK, Send
  <2> QED BY <1>1, <2>1, <2>2, FrameInv DEF IInv, Invalid
<1>2. ASSUME NEW r \in ReqID, NEW type \in RequestType, NEW syms \in SymLists,
             Receive(r, type, syms)
      PROVE  IInv'
  <2>1. TypeOK' /\ HandlerInv' /\ Between'
    BY <1>2, MarketDataAssumption
       DEF Receive, IInv, TypeOK, HandlerInv, Between, Serving
  <2> QED BY <1>2, <2>1, FrameInv DEF IInv, Receive
<1> QED BY <1>1, <1>2

\* The symbol is mapped before the first subscription: by the tests of the
\* duplicates neither the symbol nor the MDReqID was in use.
LEMMA MapSymbolInv ==
    ASSUME IInv, MapSymbol
    PROVE  IInv'
<1>1. /\ pc = "next" /\ pc' \in {"rest", "book"}
      /\ ~MDReqIDExists(cur.id)
      /\ symbolToReqID[Head(todo)] = None
      /\ symbolToReqID' = [symbolToReqID EXCEPT ![Head(todo)] = cur.id]
      /\ UNCHANGED <<mdReqIDs, subs, nextID, cur, todo, book, trade, out>>
  BY DEF MapSymbol, Accepted, MapSymbolToReqID
<1>2. todo \in Seq(Symbol) /\ todo # <<>> /\ Head(todo) \in Symbol /\ cur.id \in ReqID
  BY <1>1, GroupTail DEF IInv, TypeOK, HandlerInv
<1>3. /\ symbolToReqID'[Head(todo)] = cur.id
      /\ \A s \in Symbol \ {Head(todo)} : symbolToReqID'[s] = symbolToReqID[s]
  BY <1>1, <1>2 DEF IInv, TypeOK
<1>4. \A x \in subs : x.sym \in Symbol /\ x.req \in ReqID /\ x.sym # Head(todo)
  BY <1>1, MarketDataAssumption DEF IInv, TypeOK, Subscription, DataIsRouted
<1>5. TypeOK'
  BY <1>1, <1>2 DEF IInv, TypeOK
<1>6. HandlerInv'
  BY <1>1, <1>2, <1>3 DEF IInv, HandlerInv, GrantedForEver
<1>7. Between'
  BY <1>1, <1>4 DEF Between
<1>8. FreshIDs' /\ OneSubscriptionPerSymbol' /\ RefusalNamesItsRequest'
  BY <1>1 DEF IInv, FreshIDs, OneSubscriptionPerSymbol, RefusalNamesItsRequest
<1>9. ReqIDNamesOneSymbol'
  BY <1>1, <1>2, <1>3 DEF IInv, ReqIDNamesOneSymbol, MDReqIDExists
<1>10. DataIsRouted'
  BY <1>1, <1>3, <1>4 DEF IInv, DataIsRouted
<1>11. GrantedForEver'
  <2>1. \A r \in ReqID : MDReqIDExists(r) => MDReqIDExists(r)'
    BY <1>1, <1>3, MarketDataAssumption DEF MDReqIDExists
  <2> QED BY <1>1, <2>1 DEF IInv, GrantedForEver
<1> QED BY <1>5, <1>6, <1>7, <1>8, <1>9, <1>10, <1>11 DEF IInv

\* A granted subscription's MDReqID is in use, so that the branch that would
\* end it is not reached.
LEMMA DisablePreviousInv ==
    ASSUME IInv, DisablePrevious
    PROVE  IInv'
<1>1. pc = "next" /\ cur.id \in ReqID /\ mdReqIDs[cur.id] = {}
  BY DEF DisablePrevious, Accepted, IInv, HandlerInv, GrantedForEver
<1>2. /\ Send("unknownSubscription", cur.id)
      /\ Continue
      /\ UNCHANGED <<cacheVars, subs, nextID, cur, book, trade>>
  BY <1>1 DEF DisablePrevious
<1>3. /\ todo' \in Seq(Symbol)
      /\ pc' \in {"idle", "next"}
      /\ HandlerInv' /\ Between'
  BY <1>1, <1>2, DoneInv
<1>4. TypeOK'
  BY <1>2, <1>3 DEF IInv, TypeOK, Send
<1> QED BY <1>2, <1>3, <1>4, FrameInv DEF IInv
\* What a change of the subscriptions keeps when it changes their states and
\* gives them new IDs or keeps the old: their channels, symbols and requests
\* are as before.
LEMMA RelabelInv ==
    ASSUME IInv, UNCHANGED cacheVars, nextID' \in Nat, nextID <= nextID',
           subs' \subseteq Subscription,
           \A x \in subs' : \E y \in subs :
               /\ x.chan = y.chan /\ x.sym = y.sym /\ x.req = y.req
               /\ x.id < nextID'
               /\ x.id = y.id \/ x.id >= nextID,
           \A x, y \in subs' : x.id = y.id => x = y,
           \A x, y \in subs' : x.chan = y.chan /\ x.sym = y.sym => x = y
    PROVE  /\ FreshIDs' /\ ReqIDNamesOneSymbol' /\ OneSubscriptionPerSymbol'
           /\ DataIsRouted' /\ RefusalNamesItsRequest'
<1>1. mdReqIDs \in [ReqID -> SUBSET Nat] /\ nextID \in Nat
      /\ \A r \in ReqID : \A i \in mdReqIDs[r] : i \in Nat /\ i < nextID
  BY DEF IInv, TypeOK, FreshIDs
<1>2. \A x \in subs \cup subs' : x.id \in Nat
  BY DEF IInv, TypeOK, Subscription
<1>3. FreshIDs'
  BY <1>1, <1>2 DEF FreshIDs
<1>4. ReqIDNamesOneSymbol' /\ DataIsRouted'
  BY DEF IInv, ReqIDNamesOneSymbol, DataIsRouted
<1>5. OneSubscriptionPerSymbol'
  BY DEF OneSubscriptionPerSymbol
<1>6. RefusalNamesItsRequest'
  BY <1>1, <1>2 DEF IInv, RefusalNamesItsRequest
<1> QED BY <1>3, <1>4, <1>5, <1>6

\* What the client tracks after Ws.Unsubscribe.
LEMMA UnsubscribedKeeps ==
    ASSUME IInv, NEW ids
    PROVE  LET S == Unsubscribed(subs, ids) IN
           /\ S \subseteq Subscription
           /\ \A x \in S : \E y \in subs : /\ x.id = y.id /\ x.chan = y.chan
                                          /\ x.sym = y.sym /\ x.req = y.req
           /\ \A x, y \in S : x.id = y.id => x = y
           /\ \A x, y \in S : x.chan = y.chan /\ x.sym = y.sym => x = y
           /\ \A y \in subs : y.id \notin ids => y \in S
<1> DEFINE S == Unsubscribed(subs, ids)
<1> DEFINE E(y) == [y EXCEPT !.state = "ending"]
<1>1. subs \subseteq Subscription
  BY DEF IInv, TypeOK
<1>2. \A y \in subs : /\ E(y) \in Subscription /\ E(y).id = y.id /\ E(y).chan = y.chan
                      /\ E(y).sym = y.sym /\ E(y).req = y.req
  BY <1>1 DEF Subscription
<1>3. \A x \in S : \/ x \in subs /\ (x.id \notin ids \/ x.state # "active")
                   \/ \E y \in subs : x = E(y) /\ y.id \in ids /\ y.state = "active"
  BY DEF Unsubscribed
<1>4. \A y \in subs : y.id \notin ids => y \in S
  BY DEF Unsubscribed
<1> HIDE DEF E
<1>5. /\ \A x, y \in subs : x.id = y.id => x = y
      /\ \A x, y \in subs : x.chan = y.chan /\ x.sym = y.sym => x = y
  BY DEF IInv, FreshIDs, OneSubscriptionPerSymbol
<1>6. \A x, y \in S : x.id = y.id => x = y
  BY <1>2, <1>3, <1>5
<1>7. \A x, y \in S : x.chan = y.chan /\ x.sym = y.sym => x = y
  BY <1>2, <1>3, <1>5
<1> QED BY <1>1, <1>2, <1>3, <1>4, <1>6, <1>7

\* The subscription the handler adds: its ID is fresh, its symbol the current
\* one and its request the one in hand.  S is what the client tracks besides.
LEMMA SubscribeInv ==
    ASSUME IInv, NEW S, NEW chan \in {"book", "trades"}, NEW st \in {"pending", "unsent"},
           Subscribe(S, chan, st), pc \in {"book", "trades"}, UNCHANGED cacheVars,
           S \subseteq Subscription,
           \A x \in S : \E y \in subs : /\ x.id = y.id /\ x.chan = y.chan
                                       /\ x.sym = y.sym /\ x.req = y.req,
           \A x, y \in S : x.id = y.id => x = y,
           \A x, y \in S : x.chan = y.chan /\ x.sym = y.sym => x = y,
           \A x \in S : x.sym = Head(todo) => x.chan # chan
    PROVE  /\ subs' \subseteq Subscription /\ nextID' \in Nat /\ nextID < nextID'
           /\ S \subseteq subs'
           /\ \E x \in subs' : x.chan = chan /\ x.req = cur.id /\ x.state = st
           /\ \A x \in subs' : x \in S \/ (x.chan = chan /\ x.id = nextID /\ x.req = cur.id)
           /\ FreshIDs' /\ ReqIDNamesOneSymbol' /\ OneSubscriptionPerSymbol'
           /\ DataIsRouted' /\ RefusalNamesItsRequest'
<1> DEFINE n == [id |-> nextID, chan |-> chan, sym |-> Head(todo),
                 req |-> cur.id, state |-> st]
<1>1. todo \in Seq(Symbol) /\ todo # <<>> /\ Head(todo) \in Symbol /\ cur.id \in ReqID
  BY GroupTail DEF IInv, TypeOK, HandlerInv
<1>2. subs' = S \cup {n} /\ nextID' = nextID + 1 /\ nextID \in Nat
  BY DEF Subscribe, IInv, TypeOK
<1>3. n \in Subscription /\ n.id = nextID /\ n.req = cur.id
      /\ n.chan = chan /\ n.sym = Head(todo) /\ n.state = st
  BY <1>1, <1>2 DEF Subscription
<1> HIDE DEF n
<1>4. \A x \in S : x.id \in Nat /\ x.id < nextID
  BY DEF IInv, FreshIDs, Subscription
<1>5. mdReqIDs \in [ReqID -> SUBSET Nat]
      /\ \A r \in ReqID : \A i \in mdReqIDs[r] : i \in Nat /\ i < nextID
  BY DEF IInv, TypeOK, FreshIDs
<1>6. FreshIDs'
  BY <1>2, <1>3, <1>4, <1>5 DEF FreshIDs
<1>7. OneSubscriptionPerSymbol'
  BY <1>2, <1>3 DEF OneSubscriptionPerSymbol
<1>8. DataIsRouted' /\ ReqIDNamesOneSymbol'
  BY <1>2, <1>3 DEF IInv, DataIsRouted, ReqIDNamesOneSymbol, HandlerInv, Serving
<1>9. RefusalNamesItsRequest'
  BY <1>2, <1>3, <1>5 DEF IInv, RefusalNamesItsRequest
<1> QED BY <1>2, <1>3, <1>6, <1>7, <1>8, <1>9

\* The two subscriptions of a symbol.
LEMMA SubscriptionsInv ==
    ASSUME IInv, SubscribeBook \/ SubscribeTrades
    PROVE  IInv'
<1>1. /\ subs \subseteq Subscription /\ nextID \in Nat /\ book \in Nat
      /\ \A x, y \in subs : x.id = y.id => x = y
      /\ \A x, y \in subs : x.chan = y.chan /\ x.sym = y.sym => x = y
  BY DEF IInv, TypeOK, FreshIDs, OneSubscriptionPerSymbol
<1>2. PICK chan \in {"book", "trades"} :
        /\ Subscribe(subs, chan, "pending")
        /\ pc \in {"book", "trades"}
        /\ pc = chan
        /\ UNCHANGED <<cacheVars, cur, todo, out>>
        /\ chan = "book" => pc' = "trades" /\ book' = nextID /\ UNCHANGED trade
        /\ chan = "trades" => pc' = "map" /\ trade' = nextID /\ UNCHANGED book
  BY DEF SubscribeBook, SubscribeTrades
<1>3. \A x \in subs : x.sym = Head(todo) => x.chan # chan
  BY <1>2 DEF IInv, Between
<1>4. /\ subs' \subseteq Subscription /\ nextID' \in Nat /\ nextID < nextID'
      /\ subs \subseteq subs'
      /\ \E x \in subs' : x.chan = chan /\ x.req = cur.id /\ x.state = "pending"
      /\ \A x \in subs' : x \in subs \/ (x.chan = chan /\ x.id = nextID /\ x.req = cur.id)
      /\ FreshIDs' /\ ReqIDNamesOneSymbol' /\ OneSubscriptionPerSymbol'
      /\ DataIsRouted' /\ RefusalNamesItsRequest'
  BY <1>1, <1>2, <1>3, SubscribeInv
<1>5. TypeOK'
  BY <1>1, <1>2, <1>4 DEF IInv, TypeOK
<1>6. HandlerInv'
  BY <1>2 DEF IInv, HandlerInv, Serving
<1>7. GrantedForEver'
  BY <1>2, <1>4 DEF IInv, GrantedForEver, MDReqIDExists
<1>8. \A x \in subs : x.id \in Nat /\ x.id < nextID
  BY DEF IInv, TypeOK, Subscription, FreshIDs
<1>9. Between'
  <2>1. CASE chan = "book"
    BY <1>1, <1>2, <1>4, <1>8, <2>1 DEF IInv, Between, Made
  <2>2. CASE chan = "trades"
    BY <1>1, <1>2, <1>4, <1>8, <2>2 DEF IInv, Between, Made
  <2> QED BY <2>1, <2>2
<1> QED BY <1>4, <1>5, <1>6, <1>7, <1>9 DEF IInv

\* A failed request: the book is given up again, or nothing was had, and the
\* client may be left with a subscription it could not request.  No granted
\* subscription is touched: the book's ID belongs to the request in hand,
\* which has been granted nothing.
LEMMA SubscribeFailsInv ==
    ASSUME IInv, SubscribeBookFails \/ SubscribeTradesFails
    PROVE  IInv'
<1> DEFINE S == IF pc = "book" THEN subs ELSE Unsubscribed(subs, {book})
<1>1. /\ pc \in {"book", "trades"}
      /\ (subs' = S /\ UNCHANGED nextID) \/ Subscribe(S, pc, "unsent")
      /\ Send("unknownSymbol", cur.id) /\ Return
      /\ UNCHANGED <<cacheVars, cur, book, trade>>
  <2>1. CASE SubscribeBookFails
    BY <2>1 DEF SubscribeBookFails
  <2>2. CASE SubscribeTradesFails
    BY <2>2 DEF SubscribeTradesFails
  <2> QED BY <2>1, <2>2
<1>2. /\ todo' \in Seq(Symbol)
      /\ pc' \in {"idle", "next"}
      /\ HandlerInv' /\ Between'
  BY <1>1, DoneInv
<1>3. /\ S \subseteq Subscription
      /\ \A x \in S : \E y \in subs : /\ x.id = y.id /\ x.chan = y.chan
                                     /\ x.sym = y.sym /\ x.req = y.req
      /\ \A x, y \in S : x.id = y.id => x = y
      /\ \A x, y \in S : x.chan = y.chan /\ x.sym = y.sym => x = y
      /\ \A y \in subs : (pc = "book" \/ y.id # book) => y \in S
  <2>1. CASE pc = "book"
    BY <2>1 DEF IInv, TypeOK, FreshIDs, OneSubscriptionPerSymbol
  <2>2. CASE pc # "book"
    <3>1. S = Unsubscribed(subs, {book})
      BY <2>2
    <3> HIDE DEF S
    <3>2. /\ S \subseteq Subscription
          /\ \A x \in S : \E y \in subs : /\ x.id = y.id /\ x.chan = y.chan
                                         /\ x.sym = y.sym /\ x.req = y.req
          /\ \A x, y \in S : x.id = y.id => x = y
          /\ \A x, y \in S : x.chan = y.chan /\ x.sym = y.sym => x = y
          /\ \A y \in subs : y.id \notin {book} => y \in S
      BY <3>1, UnsubscribedKeeps
    <3> QED BY <2>2, <3>2
  <2> QED BY <2>1, <2>2
<1> HIDE DEF S
<1>4. \A x \in S : x.sym = Head(todo) => x.chan # pc
  BY <1>1, <1>3 DEF IInv, Between
<1>5. /\ subs' \subseteq Subscription /\ nextID' \in Nat /\ S \subseteq subs'
      /\ FreshIDs' /\ ReqIDNamesOneSymbol' /\ OneSubscriptionPerSymbol'
      /\ DataIsRouted' /\ RefusalNamesItsRequest'
  <2>1. CASE subs' = S /\ UNCHANGED nextID
    <3>1. nextID \in Nat /\ \A x \in subs : x.id < nextID
      BY DEF IInv, TypeOK, FreshIDs
    <3>2. \A x \in subs' : \E y \in subs :
            /\ x.chan = y.chan /\ x.sym = y.sym /\ x.req = y.req
            /\ x.id < nextID'
            /\ x.id = y.id \/ x.id >= nextID
      BY <1>3, <2>1, <3>1
    <3> QED BY <1>1, <1>3, <2>1, <3>1, <3>2, RelabelInv
  <2>2. CASE Subscribe(S, pc, "unsent")
    BY <1>1, <1>3, <1>4, <2>2, SubscribeInv
  <2> QED BY <1>1, <2>1, <2>2
<1>6. TypeOK'
  BY <1>1, <1>2, <1>5 DEF IInv, TypeOK, Send
<1>7. GrantedForEver'
  <2>1. mdReqIDs[cur.id] = {}
    BY <1>1 DEF IInv, HandlerInv, Serving
  <2>2. \A r \in ReqID : mdReqIDs[r] # {} => MDReqIDExists(r)'
    BY <1>1 DEF IInv, GrantedForEver, MDReqIDExists
  <2>3. \A y \in subs : y.req # cur.id => y \in subs'
    BY <1>1, <1>3, <1>5 DEF IInv, Between, Made
  <2>4. \A r \in ReqID : mdReqIDs[r] # {} => \A c \in {"book", "trades"} :
          \E x \in subs' : x.chan = c /\ x.req = r /\ x.state # "ending"
    BY <2>1, <2>3 DEF IInv, GrantedForEver
  <2> QED BY <1>1, <2>2, <2>4 DEF GrantedForEver
<1> QED BY <1>2, <1>5, <1>6, <1>7 DEF IInv

\* The request is granted.
LEMMA MapMDReqIDsInv ==
    ASSUME IInv, MapMDReqIDs
    PROVE  IInv'
<1>1. /\ pc = "map" /\ Continue
      /\ mdReqIDs' = [mdReqIDs EXCEPT ![cur.id] = {book, trade}]
      /\ UNCHANGED <<symbolToReqID, subs, nextID, cur, book, trade, out>>
  BY DEF MapMDReqIDs
<1>2. /\ todo' \in Seq(Symbol)
      /\ pc' \in {"idle", "next"}
      /\ HandlerInv' /\ Between'
  BY <1>1, DoneInv
<1>3. /\ cur.id \in ReqID /\ book \in Nat /\ trade \in Nat
      /\ mdReqIDs \in [ReqID -> SUBSET Nat]
      /\ Made("book", book) /\ Made("trades", trade)
  BY <1>1 DEF IInv, TypeOK, HandlerInv, Between
<1>4. mdReqIDs' \in [ReqID -> SUBSET Nat]
      /\ \A r \in ReqID : mdReqIDs'[r] = IF r = cur.id THEN {book, trade} ELSE mdReqIDs[r]
  BY <1>1, <1>3
<1>5. TypeOK'
  BY <1>1, <1>2, <1>4 DEF IInv, TypeOK
<1>6. OneSubscriptionPerSymbol' /\ DataIsRouted' /\ ReqIDNamesOneSymbol'
  BY <1>1 DEF IInv, OneSubscriptionPerSymbol, DataIsRouted, ReqIDNamesOneSymbol
<1>7. FreshIDs' /\ RefusalNamesItsRequest'
  BY <1>1, <1>3, <1>4 DEF IInv, FreshIDs, RefusalNamesItsRequest, Made
<1>8. GrantedForEver'
  <2>1. Head(todo) \in Symbol /\ symbolToReqID[Head(todo)] = cur.id
    BY <1>1, GroupTail DEF IInv, TypeOK, HandlerInv, Serving
  <2> QED BY <1>1, <1>3, <1>4, <2>1 DEF IInv, GrantedForEver, MDReqIDExists, Made
<1> QED BY <1>2, <1>5, <1>6, <1>7, <1>8 DEF IInv

\* An acknowledgement, a refusal or the end of an unsubscription changes the
\* state of a subscription and neither its ID, channel, symbol nor request.
LEMMA SetStateInv ==
    ASSUME IInv, NEW x \in subs, NEW st \in {"active", "refused"}, SetState(x, st),
           UNCHANGED <<cacheVars, nextID, reqVars>>
    PROVE  /\ subs' \subseteq Subscription
           /\ HandlerInv' /\ FreshIDs' /\ Between' /\ ReqIDNamesOneSymbol'
           /\ OneSubscriptionPerSymbol' /\ DataIsRouted' /\ GrantedForEver'
           /\ RefusalNamesItsRequest'
<1> DEFINE y == [x EXCEPT !.state = st]
<1>1. subs \subseteq Subscription /\ subs' = (subs \ {x}) \cup {y} /\ nextID \in Nat
  BY DEF SetState, IInv, TypeOK
<1>2. y \in Subscription /\ y.id = x.id /\ y.chan = x.chan /\ y.sym = x.sym
      /\ y.req = x.req /\ y.state # "ending"
  BY <1>1 DEF Subscription
<1> HIDE DEF y
<1>3. HandlerInv'
  BY DEF IInv, HandlerInv
<1>4. /\ FreshIDs' /\ ReqIDNamesOneSymbol' /\ OneSubscriptionPerSymbol'
      /\ DataIsRouted' /\ RefusalNamesItsRequest'
  <2>1. /\ \A z, w \in subs' : z.id = w.id => z = w
        /\ \A z, w \in subs' : z.chan = w.chan /\ z.sym = w.sym => z = w
    BY <1>1, <1>2 DEF IInv, FreshIDs, OneSubscriptionPerSymbol
  <2>2. \A z \in subs' : \E w \in subs :
          /\ z.chan = w.chan /\ z.sym = w.sym /\ z.req = w.req
          /\ z.id < nextID'
          /\ z.id = w.id \/ z.id >= nextID
    BY <1>1, <1>2 DEF IInv, FreshIDs
  <2>3. subs' \subseteq Subscription /\ nextID' \in Nat /\ nextID <= nextID'
    BY <1>1, <1>2
  <2> QED BY <2>1, <2>2, <2>3, RelabelInv
<1>5. \A c \in {"book", "trades"}, r \in ReqID :
        (\E z \in subs : z.chan = c /\ z.req = r /\ z.state # "ending")
        => \E z \in subs' : z.chan = c /\ z.req = r /\ z.state # "ending"
  BY <1>1, <1>2
<1>6. GrantedForEver'
  <2>1. \A r \in ReqID : mdReqIDs[r] # {} => MDReqIDExists(r)'
    BY DEF IInv, GrantedForEver, MDReqIDExists
  <2> QED BY <1>5, <2>1 DEF IInv, GrantedForEver
<1>7. Between'
  <2>1. \A z \in subs' : \E w \in subs : /\ z.sym = w.sym /\ z.chan = w.chan
                                         /\ z.req = w.req /\ z.id = w.id
    BY <1>1, <1>2
  <2>2. pc # "idle" => cur.id \in ReqID
    BY DEF IInv, HandlerInv
  <2>3. pc = "book" => \A z \in subs' : z.sym # Head(todo)
    BY <2>1 DEF IInv, Between
  <2>4. pc = "trades" => \A z \in subs' : z.sym = Head(todo) => z.chan = "book"
    BY <2>1 DEF IInv, Between
  <2>5. pc \in {"trades", "map"} => Made("book", book)'
    BY <1>5, <2>1, <2>2 DEF IInv, Between, Made
  <2>6. pc = "map" => Made("trades", trade)'
    BY <1>5, <2>1, <2>2 DEF IInv, Between, Made
  <2> QED BY <2>3, <2>4, <2>5, <2>6 DEF Between
<1> QED BY <1>1, <1>2, <1>3, <1>4, <1>6, <1>7

\* The client forgets a subscription that was ended: not one of a granted
\* request, nor of the one in hand.
LEMMA UnsubscribeAckInv ==
    ASSUME IInv, NEW x \in subs, UnsubscribeAck(x)
    PROVE  IInv'
<1>1. x.state = "ending" /\ subs' = subs \ {x}
      /\ UNCHANGED <<cacheVars, nextID, reqVars, out>>
  BY DEF UnsubscribeAck
<1>2. TypeOK' /\ HandlerInv'
  BY <1>1 DEF IInv, TypeOK, HandlerInv
<1>3. FreshIDs' /\ OneSubscriptionPerSymbol' /\ DataIsRouted' /\ ReqIDNamesOneSymbol'
      /\ RefusalNamesItsRequest'
  BY <1>1 DEF IInv, FreshIDs, OneSubscriptionPerSymbol, DataIsRouted,
              ReqIDNamesOneSymbol, RefusalNamesItsRequest
<1>4. \A z \in subs : z.state # "ending" => z \in subs'
  BY <1>1
<1>5. GrantedForEver'
  <2>1. \A r \in ReqID : mdReqIDs[r] # {} => MDReqIDExists(r)'
    BY <1>1 DEF IInv, GrantedForEver, MDReqIDExists
  <2> QED BY <1>1, <1>4, <2>1 DEF IInv, GrantedForEver
<1>6. Between'
  BY <1>1, <1>4 DEF IInv, Between, Made
<1> QED BY <1>2, <1>3, <1>5, <1>6 DEF IInv

\* New IDs for all subscriptions: above every ID the cache or the handler
\* remembers.
LEMMA ReconnectInv ==
    ASSUME IInv, Reconnect
    PROVE  IInv'
<1> DEFINE R(x) == [x EXCEPT !.id = nextID + x.id, !.state = "pending"]
<1>1. /\ subs \subseteq Subscription /\ nextID \in Nat /\ nextID' = 2 * nextID
      /\ subs' = {R(x) : x \in subs}
      /\ UNCHANGED <<cacheVars, reqVars, out>>
  BY DEF Reconnect, IInv, TypeOK
<1>2. \A x \in subs : x.id \in Nat /\ x.id < nextID
  BY <1>1 DEF IInv, FreshIDs, Subscription
<1>3. \A x \in subs : /\ R(x) \in Subscription /\ R(x).id = nextID + x.id
                      /\ R(x).chan = x.chan /\ R(x).sym = x.sym
                      /\ R(x).req = x.req /\ R(x).state = "pending"
  <2> SUFFICES ASSUME NEW x \in subs
               PROVE  /\ R(x) \in Subscription /\ R(x).id = nextID + x.id
                      /\ R(x).chan = x.chan /\ R(x).sym = x.sym
                      /\ R(x).req = x.req /\ R(x).state = "pending"
    OBVIOUS
  <2>1. x \in Subscription /\ nextID + x.id \in Nat
    <3>1. subs \subseteq Subscription /\ nextID \in Nat
      BY <1>1
    <3>2. x.id \in Nat
      BY <1>2
    <3> QED BY <3>1, <3>2
  <2> DEFINE y == [x EXCEPT !.id = nextID + x.id]
  <2>2. y \in Subscription /\ y.id = nextID + x.id /\ y.chan = x.chan
        /\ y.sym = x.sym /\ y.req = x.req
    BY <2>1 DEF Subscription
  <2>3. R(x) = [y EXCEPT !.state = "pending"]
    BY <2>1 DEF Subscription
  <2> HIDE DEF y, R
  <2> QED BY <2>2, <2>3 DEF Subscription
<1>4. subs' \subseteq Subscription /\ (\A x \in subs : R(x) \in subs')
      /\ \A z \in subs' : \E x \in subs : z = R(x)
  BY <1>1, <1>3
<1> HIDE DEF R
<1>5. TypeOK' /\ HandlerInv'
  BY <1>1, <1>4 DEF IInv, TypeOK, HandlerInv
<1>6. /\ FreshIDs' /\ ReqIDNamesOneSymbol' /\ OneSubscriptionPerSymbol'
      /\ DataIsRouted' /\ RefusalNamesItsRequest'
  <2>1. \A z \in subs' : \E w \in subs :
          /\ z.chan = w.chan /\ z.sym = w.sym /\ z.req = w.req
          /\ z.id < nextID'
          /\ z.id = w.id \/ z.id >= nextID
    BY <1>1, <1>2, <1>3, <1>4
  <2>2. \A z, w \in subs' : z.id = w.id => z = w
    BY <1>1, <1>2, <1>3, <1>4 DEF IInv, FreshIDs
  <2>3. \A z, w \in subs' : z.chan = w.chan /\ z.sym = w.sym => z = w
    BY <1>3, <1>4 DEF IInv, OneSubscriptionPerSymbol
  <2>4. nextID' \in Nat /\ nextID <= nextID'
    BY <1>1
  <2> QED BY <1>1, <1>4, <2>1, <2>2, <2>3, <2>4, RelabelInv
<1>7. GrantedForEver'
  <2>1. \A r \in ReqID : mdReqIDs[r] # {} => MDReqIDExists(r)'
    BY <1>1 DEF IInv, GrantedForEver, MDReqIDExists
  <2> QED BY <1>1, <1>3, <1>4, <2>1 DEF IInv, GrantedForEver
<1>8. Between'
  <2>1. book \in Nat /\ trade \in Nat /\ \A z \in subs' : z.id \in Nat /\ z.id >= nextID
    BY <1>1, <1>2, <1>3, <1>4 DEF IInv, TypeOK
  <2>2. \A c \in {"book", "trades"}, i \in Nat : Made(c, i) => Made(c, i)'
    BY <1>1, <1>3, <1>4, <2>1 DEF Made
  <2>3. \A z \in subs' : \E w \in subs : z.sym = w.sym /\ z.chan = w.chan
    BY <1>3, <1>4
  <2> QED BY <1>1, <2>1, <2>2, <2>3 DEF IInv, Between
<1> QED BY <1>5, <1>6, <1>7, <1>8 DEF IInv

\* The messages of the websocket.
LEMMA WebsocketInv ==
    ASSUME IInv, NEW x \in subs, Ack(x) \/ Data(x) \/ ErrorEvent(x)
    PROVE  IInv'
<1>1. CASE Ack(x)
  <2>1. TypeOK'
    BY <1>1, SetStateInv DEF Ack, IInv, TypeOK
  <2> QED BY <1>1, <2>1, SetStateInv DEF Ack, IInv
<1>2. CASE Data(x)
  <2>1. TypeOK'
    BY <1>2 DEF Data, IncrementalRefresh, Send, IInv, TypeOK, Subscription
  <2>2. HandlerInv' /\ Between'
    BY <1>2 DEF Data, IInv, HandlerInv, Between, Made
  <2> QED BY <1>2, <2>1, <2>2, FrameInv DEF Data, IInv
<1>3. CASE ErrorEvent(x)
  <2>1. out' \in [kind : {"mdReject", "businessReject"}, id : ReqID \cup {None}]
    BY <1>3 DEF ErrorEvent, ReverseLookupAPIReqIDs, Send
  <2>2. TypeOK'
    BY <1>3, <2>1, SetStateInv DEF ErrorEvent, IInv, TypeOK
  <2> QED BY <1>3, <2>2, SetStateInv DEF ErrorEvent, IInv
<1> QED BY <1>1, <1>2, <1>3

\* A step that changes nothing.
LEMMA StutterInv ==
    ASSUME IInv, UNCHANGED vars
    PROVE  IInv'
<1>1. TypeOK' /\ HandlerInv' /\ Between'
  BY DEF vars, IInv, TypeOK, HandlerInv, Between, Made
<1> QED BY <1>1, FrameInv DEF vars, IInv

\* Every step keeps the invariant.
LEMMA NextInv == IInv /\ [Next]_vars => IInv'
BY ReceiveInv, RejectInv, MapSymbolInv, DisablePreviousInv, SubscriptionsInv,
   SubscribeFailsInv, MapMDReqIDsInv, WebsocketInv, UnsubscribeAckInv, ReconnectInv,
   StutterInv DEF Next, FIXBookUpdate, FIXTradeHandler

\* The inductive invariant holds in every reachable state.
THEOREM Safety == Spec => []IInv
BY InitInv, NextInv, PTL DEF Spec
-----------------------------------------------------------------------------
\* Type correctness, for any symbols, MDReqIDs and groups.
THEOREM TypeCorrect == Spec => []TypeOK
<1>1. IInv => TypeOK
  BY DEF IInv
<1> QED BY Safety, <1>1, PTL

\* MDReqIDExists and LookupMDReqID together keep the map injective.
THEOREM OneSymbolPerReqID == Spec => []ReqIDNamesOneSymbol
<1>1. IInv => ReqIDNamesOneSymbol
  BY DEF IInv
<1> QED BY Safety, <1>1, PTL

\* No symbol is subscribed to twice, failed and refused requests included.
THEOREM SymbolSubscribedOnce == Spec => []OneSubscriptionPerSymbol
<1>1. IInv => OneSubscriptionPerSymbol
  BY DEF IInv
<1> QED BY Safety, <1>1, PTL

\* Market data carries the MDReqID of the request that subscribed to it.
THEOREM DataRouting == Spec => []DataIsRouted
<1>1. IInv => DataIsRouted
  BY DEF IInv
<1> QED BY Safety, <1>1, PTL

\* No request of the client ends a granted subscription.
THEOREM NothingUnsubscribes == Spec => []GrantedForEver
<1>1. IInv => GrantedForEver
  BY DEF IInv
<1> QED BY Safety, <1>1, PTL

\* ReverseLookupAPIReqIDs blames no other request.
THEOREM ReverseLookup == Spec => []RefusalNamesItsRequest
<1>1. IInv => RefusalNamesItsRequest
  BY DEF IInv
<1> QED BY Safety, <1>1, PTL
-----------------------------------------------------------------------------
(***************************************************************************)
(* MarketData implements SubscriptionTable.                                *)
(***************************************************************************)

tableVars == <<symbolToReqID, Feeds, Granted, Delivered>>

\* The table is empty at the start.
LEMMA TableInit == Init => Table!Init
BY DEF Init, Table!Init, Feeds, Granted, Delivered

\* A step that leaves the table alone and sends no data.
LEMMA AnswerStep ==
    ASSUME UNCHANGED <<symbolToReqID, Feeds, Granted>>,
           UNCHANGED out \/ out'.kind # "data"
    PROVE  [Table!Next]_tableVars
<1>1. Delivered' = None \/ UNCHANGED Delivered
  BY DEF Delivered
<1> QED BY <1>1 DEF Table!Next, Table!Answer, Table!Reply, tableVars

\* The feeds do not depend on the IDs and states of the subscriptions.
LEMMA SameFeeds ==
    ASSUME NEW S, NEW T,
           \A x \in S : \E y \in T : x.sym = y.sym /\ x.chan = y.chan,
           \A y \in T : \E x \in S : x.sym = y.sym /\ x.chan = y.chan
    PROVE  {<<x.sym, x.chan>> : x \in S} = {<<y.sym, y.chan>> : y \in T}
OBVIOUS

\* Steps of the handler that only answer, or read.
LEMMA TableHandler ==
    ASSUME IInv,
           \/ Invalid
           \/ \E r \in ReqID, type \in RequestType, syms \in SymLists : Receive(r, type, syms)
           \/ DuplicateRequest \/ DuplicateSymbol \/ UnsupportedType \/ RestAnswers
           \/ DisablePrevious
    PROVE  [Table!Next]_tableVars
<1>1. DisablePrevious => UNCHANGED subs
  BY DEF DisablePrevious, Accepted, IInv, HandlerInv, GrantedForEver
<1>2. UNCHANGED <<symbolToReqID, mdReqIDs, subs>>
  BY <1>1 DEF Invalid, Receive, DuplicateRequest, DuplicateSymbol, UnsupportedType,
              RestAnswers, DisablePrevious
<1>3. UNCHANGED out \/ out'.kind # "data"
  BY DEF Invalid, Receive, DuplicateRequest, DuplicateSymbol, UnsupportedType,
         RestAnswers, DisablePrevious, FullRefresh, Send
<1> QED BY <1>2, <1>3, AnswerStep DEF Feeds, Granted

\* The first request for a symbol claims it.
LEMMA TableClaim ==
    ASSUME IInv, MapSymbol
    PROVE  [Table!Next]_tableVars
<1>1. Head(todo) \in Symbol /\ cur.id \in ReqID
  BY GroupTail DEF MapSymbol, Accepted, IInv, TypeOK, HandlerInv
<1>2. UNCHANGED <<Feeds, Granted, Delivered>>
  BY DEF MapSymbol, Feeds, Granted, Delivered
<1>3. Table!Claim(Head(todo), cur.id)
  BY <1>1, <1>2 DEF MapSymbol, Accepted, MapSymbolToReqID, MDReqIDExists, Table!Claim
<1> QED BY <1>1, <1>3 DEF Table!Next

\* A subscription that the client tracks is a feed of the request in hand,
\* which has been granted nothing yet.
LEMMA TableOpen ==
    ASSUME IInv, NEW S, NEW chan \in {"book", "trades"}, NEW st, pc = chan,
           {<<x.sym, x.chan>> : x \in S} = Feeds, Subscribe(S, chan, st),
           UNCHANGED cacheVars, UNCHANGED out \/ out'.kind # "data"
    PROVE  [Table!Next]_tableVars
<1> DEFINE n == [id |-> nextID, chan |-> chan, sym |-> Head(todo),
                 req |-> cur.id, state |-> st]
<1>1. /\ Head(todo) \in Symbol /\ cur.id \in ReqID
      /\ symbolToReqID[Head(todo)] = cur.id /\ mdReqIDs[cur.id] = {}
  BY GroupTail DEF IInv, TypeOK, HandlerInv, Serving
<1>2. <<Head(todo), chan>> \notin Feeds
  BY DEF IInv, Between, Feeds
<1>3. Feeds' = Feeds \cup {<<Head(todo), chan>>}
  <2>1. subs' = S \cup {n} /\ n.sym = Head(todo) /\ n.chan = chan
    BY DEF Subscribe
  <2> HIDE DEF n
  <2>2. Feeds' = {<<x.sym, x.chan>> : x \in S} \cup {<<n.sym, n.chan>>}
    BY <2>1 DEF Feeds
  <2> QED BY <2>1, <2>2
<1>4. Delivered' = None \/ UNCHANGED Delivered
  BY DEF Delivered
<1>5. UNCHANGED <<symbolToReqID, Granted>> /\ symbolToReqID[Head(todo)] \in ReqID \ Granted
  BY <1>1 DEF Granted
<1>6. Table!Open(Head(todo), chan)
  BY <1>2, <1>3, <1>4, <1>5 DEF Table!Open, Table!MayReply, Table!Reply
<1> QED BY <1>1, <1>6 DEF Table!Next, Table!Channel

\* The subscriptions of a request, made, failed half-way or not had at all.
LEMMA TableSubscribe ==
    ASSUME IInv, SubscribeBook \/ SubscribeTrades \/ SubscribeBookFails \/ SubscribeTradesFails
    PROVE  [Table!Next]_tableVars
<1>1. CASE SubscribeBook
  BY <1>1, TableOpen DEF SubscribeBook, Feeds
<1>2. CASE SubscribeTrades
  BY <1>2, TableOpen DEF SubscribeTrades, Feeds
<1>3. CASE SubscribeBookFails
  <2>1. out'.kind # "data" /\ UNCHANGED cacheVars /\ pc = "book"
    BY <1>3 DEF SubscribeBookFails, Send
  <2>2. CASE UNCHANGED <<subs, nextID>>
    BY <2>1, <2>2, AnswerStep DEF Feeds, Granted
  <2>3. CASE Subscribe(subs, "book", "unsent")
    BY <2>1, <2>3, TableOpen DEF Feeds
  <2> QED BY <1>3, <2>2, <2>3 DEF SubscribeBookFails
<1>4. CASE SubscribeTradesFails
  <2> DEFINE S == Unsubscribed(subs, {book})
  <2>1. out'.kind # "data" /\ UNCHANGED cacheVars /\ pc = "trades"
    BY <1>4 DEF SubscribeTradesFails, Send
  <2>2. \A x \in S : \E y \in subs : x.sym = y.sym /\ x.chan = y.chan
    BY UnsubscribedKeeps
  <2>3. \A y \in subs : \E x \in S : x.sym = y.sym /\ x.chan = y.chan
    <3> SUFFICES ASSUME NEW y \in subs
                 PROVE  \E x \in S : x.sym = y.sym /\ x.chan = y.chan
      OBVIOUS
    <3>1. CASE y.id \notin {book} \/ y.state # "active"
      BY <3>1 DEF Unsubscribed
    <3>2. CASE y.id \in {book} /\ y.state = "active"
      <4> DEFINE e == [y EXCEPT !.state = "ending"]
      <4>1. e \in S
        BY <3>2 DEF Unsubscribed
      <4>2. e.sym = y.sym /\ e.chan = y.chan
        BY DEF IInv, TypeOK, Subscription
      <4> QED BY <4>1, <4>2
    <3> QED BY <3>1, <3>2
  <2> HIDE DEF S
  <2>4. {<<x.sym, x.chan>> : x \in S} = Feeds
    BY <2>2, <2>3, SameFeeds DEF Feeds
  <2>5. CASE subs' = S
    <3>1. Feeds' = Feeds
      BY <2>4, <2>5 DEF Feeds
    <3> QED BY <2>1, <3>1, AnswerStep DEF Granted
  <2>6. CASE Subscribe(S, "trades", "unsent")
    BY <2>1, <2>4, <2>6, TableOpen
  <2> QED BY <1>4, <2>5, <2>6 DEF SubscribeTradesFails, S
<1> QED BY <1>1, <1>2, <1>3, <1>4

\* The request is granted when both of its feeds are open: they are those of
\* its one symbol.
LEMMA TableGrant ==
    ASSUME IInv, MapMDReqIDs
    PROVE  [Table!Next]_tableVars
<1>1. /\ pc = "map" /\ Head(todo) \in Symbol /\ cur.id \in ReqID
      /\ symbolToReqID[Head(todo)] = cur.id
  BY GroupTail DEF MapMDReqIDs, IInv, TypeOK, HandlerInv, Serving
<1>2. \A c \in {"book", "trades"} : <<Head(todo), c>> \in Feeds
  <2> SUFFICES ASSUME NEW c \in {"book", "trades"}
               PROVE  <<Head(todo), c>> \in Feeds
    OBVIOUS
  <2>1. PICK x \in subs : x.chan = c /\ x.req = cur.id
    BY <1>1 DEF IInv, Between, Made
  <2>2. x.sym \in Symbol /\ symbolToReqID[x.sym] = cur.id
    BY <2>1 DEF IInv, TypeOK, Subscription, DataIsRouted
  <2>3. x.sym = Head(todo)
    BY <1>1, <2>2, MarketDataAssumption DEF IInv, ReqIDNamesOneSymbol
  <2> QED BY <2>1, <2>3 DEF Feeds
<1>3. Granted' = Granted \cup {cur.id}
  <2>1. mdReqIDs' = [mdReqIDs EXCEPT ![cur.id] = {book, trade}]
    BY DEF MapMDReqIDs
  <2>2. mdReqIDs \in [ReqID -> SUBSET Nat]
    BY DEF IInv, TypeOK
  <2>3. \A r \in ReqID : mdReqIDs'[r] = IF r = cur.id THEN {book, trade} ELSE mdReqIDs[r]
    BY <1>1, <2>1, <2>2
  <2> QED BY <1>1, <2>3 DEF Granted
<1>4. UNCHANGED <<symbolToReqID, Feeds, Delivered>>
  BY DEF MapMDReqIDs, Feeds, Delivered
<1>5. Table!Grant(Head(todo))
  BY <1>1, <1>2, <1>3, <1>4 DEF Table!Grant, Table!Channel
<1> QED BY <1>1, <1>5 DEF Table!Next

\* Messages of the websocket: data goes to the owner of the symbol, and what
\* is forgotten was granted to nobody.
LEMMA TableWebsocket ==
    ASSUME IInv, NEW x \in subs, Ack(x) \/ Data(x) \/ ErrorEvent(x) \/ UnsubscribeAck(x)
    PROVE  [Table!Next]_tableVars
<1>1. /\ x \in Subscription /\ x.sym \in Symbol /\ x.chan \in {"book", "trades"}
      /\ x.req \in ReqID /\ symbolToReqID[x.sym] = x.req /\ x.req # None
      /\ <<x.sym, x.chan>> \in Feeds
  BY MarketDataAssumption DEF IInv, TypeOK, Subscription, DataIsRouted, Feeds
<1>2. ASSUME NEW st \in {"active", "refused"}, SetState(x, st)
      PROVE  Feeds' = Feeds
  <2> DEFINE y == [x EXCEPT !.state = st]
  <2>1. subs' = (subs \ {x}) \cup {y} /\ y.sym = x.sym /\ y.chan = x.chan
    BY <1>1, <1>2 DEF SetState, Subscription
  <2> HIDE DEF y
  <2>2. \A z \in subs' : \E w \in subs : z.sym = w.sym /\ z.chan = w.chan
    BY <2>1
  <2>3. \A w \in subs : \E z \in subs' : z.sym = w.sym /\ z.chan = w.chan
    BY <2>1
  <2> QED BY <2>2, <2>3, SameFeeds DEF Feeds
<1>3. CASE Ack(x)
  BY <1>2, <1>3, AnswerStep DEF Ack, Granted
<1>4. CASE ErrorEvent(x)
  <2>1. out'.kind # "data" /\ UNCHANGED cacheVars /\ SetState(x, "refused")
    BY <1>4 DEF ErrorEvent, Send
  <2> QED BY <1>2, <2>1, AnswerStep DEF Granted
<1>5. CASE Data(x)
  <2>1. UNCHANGED <<symbolToReqID, mdReqIDs, subs>> /\ out' = [kind |-> "data", id |-> x.req]
    BY <1>1, <1>5 DEF Data, IncrementalRefresh, Send
  <2>2. Delivered' = symbolToReqID[x.sym] /\ UNCHANGED <<Feeds, Granted>>
    BY <1>1, <2>1 DEF Delivered, Feeds, Granted
  <2>3. Table!Deliver(x.sym, x.chan)
    BY <1>1, <2>1, <2>2 DEF Table!Deliver
  <2> QED BY <1>1, <2>3 DEF Table!Next, Table!Channel
<1>6. CASE UnsubscribeAck(x)
  <2>1. x.state = "ending" /\ subs' = subs \ {x} /\ UNCHANGED <<cacheVars, out>>
    BY <1>6 DEF UnsubscribeAck
  <2>2. \A y \in subs : y.sym = x.sym /\ y.chan = x.chan => y = x
    BY DEF IInv, OneSubscriptionPerSymbol
  <2>3. x.req \notin Granted
    <3> SUFFICES ASSUME mdReqIDs[x.req] # {} PROVE FALSE
      BY DEF Granted
    <3>1. PICK y \in subs : y.chan = x.chan /\ y.req = x.req /\ y.state # "ending"
      BY <1>1 DEF IInv, GrantedForEver
    <3>2. y.sym \in Symbol /\ symbolToReqID[y.sym] = x.req
      BY <3>1 DEF IInv, TypeOK, Subscription, DataIsRouted
    <3>3. y.sym = x.sym
      BY <1>1, <3>2 DEF IInv, ReqIDNamesOneSymbol
    <3> QED BY <2>1, <2>2, <3>1, <3>3
  <2>4. Feeds' = Feeds \ {<<x.sym, x.chan>>}
    BY <2>1, <2>2 DEF Feeds
  <2>5. UNCHANGED <<symbolToReqID, Granted, Delivered>>
    BY <2>1 DEF Granted, Delivered
  <2>6. Table!Close(x.sym, x.chan)
    BY <1>1, <2>3, <2>4, <2>5 DEF Table!Close
  <2> QED BY <1>1, <2>6 DEF Table!Next, Table!Channel
<1> QED BY <1>3, <1>4, <1>5, <1>6

\* A reconnection changes no feed.
LEMMA TableReconnect ==
    ASSUME IInv, Reconnect
    PROVE  [Table!Next]_tableVars
<1> DEFINE R(x) == [x EXCEPT !.id = nextID + x.id, !.state = "pending"]
<1>1. subs' = {R(x) : x \in subs} /\ UNCHANGED <<cacheVars, out>>
  BY DEF Reconnect
<1>2. \A x \in subs : R(x).chan = x.chan /\ R(x).sym = x.sym
  BY DEF IInv, TypeOK, Subscription
<1> HIDE DEF R
<1>3. /\ \A z \in subs' : \E x \in subs : z.sym = x.sym /\ z.chan = x.chan
      /\ \A x \in subs : \E z \in subs' : z.sym = x.sym /\ z.chan = x.chan
  BY <1>1, <1>2
<1>4. Feeds' = Feeds
  BY <1>3, SameFeeds DEF Feeds
<1> QED BY <1>1, <1>4, AnswerStep DEF Granted

\* Every step of MarketData is a step of the table or leaves it alone.
LEMMA TableStep == IInv /\ [Next]_vars => [Table!Next]_tableVars
<1>1. ASSUME UNCHANGED vars PROVE [Table!Next]_tableVars
  BY <1>1, AnswerStep DEF vars, Feeds, Granted
<1> QED BY <1>1, TableHandler, TableClaim, TableSubscribe, TableGrant, TableWebsocket,
           TableReconnect DEF Next, FIXBookUpdate, FIXTradeHandler

\* MarketData implements SubscriptionTable, for any symbols, MDReqIDs and
\* groups: the refinement that the market_data run checks.
THEOREM Refinement == Spec => ImplementsTable
<1>1. Spec => Table!Init /\ [][Table!Next]_tableVars
  BY TableInit, TableStep, Safety, PTL DEF Spec
<1> QED BY <1>1 DEF ImplementsTable, Table!Spec, tableVars
=============================================================================
