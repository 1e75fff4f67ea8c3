------------------------ MODULE OrderRoutingProofs ------------------------
(***************************************************************************)
(* Safety of OrderRouting for any ClOrdIDs and any bounds.                 *)
(***************************************************************************)
EXTENDS OrderRouting, FiniteSetTheorems, FunctionTheorems, TLAPS

Source == {"fix", "replace", "status", "ack", "rest", "snapshot"}
Entry == [oid : OrderID \cup {NoOrder}, qty : Nat, execs : Seq(OrderID), src : Source]

ExOrder == [cid : Key \ Text, qty : Nat, filled : Nat, open : BOOLEAN, sent : Nat, got : Nat]

Request == [kind : {"new"}, cid : ClOrd \cup {Zero}, qty : Qty]
           \cup [kind : {"update"}, oid : OrderID, qty : Qty]
           \cup [kind : {"cancel"}, oid : OrderID \cup {NoOrder}, cid : Key \cup {None}]

Listed == [oid : OrderID, qty : Nat]

Word == {"ACTIVE", "CANCELED", "PARTIALLY FILLED", "EXECUTED"}

WireMessage == [kind : {"ack", "tu"}, oid : OrderID]
               \cup [kind : {"nack"}, cid : Key, qty : Qty]
               \cup [kind : {"cancelled", "notCancelled"}, cid : Key]
               \cup [kind : {"ou", "oc"}, oid : OrderID, st : SUBSET Word, qty : Nat]
               \cup [kind : {"os"}, list : Seq(Listed)]

\* TypeOK, with the types of requests and messages, and all that is ever
\* between the trades of an order and its quantity.
CacheType == DOMAIN orders \subseteq Key /\ \A c \in DOMAIN orders : orders[c] \in Entry

ExType ==
    /\ ex \in Seq(ExOrder)
    /\ Len(ex) <= MaxOrders
    /\ \A o \in DOMAIN ex :
         /\ ex[o].sent <= ex[o].filled /\ ex[o].filled <= ex[o].qty /\ ex[o].qty <= MaxQty
         /\ ex[o].open => ex[o].filled < ex[o].qty

WireType ==
    /\ wire \in Seq(WireMessage)
    /\ Len(wire) <= MaxWire

\* Every order a message, a goroutine or a request names is one of Bitfinex's.
NamedInv ==
    /\ \A i \in DOMAIN wire :
         /\ wire[i].kind \in {"ack", "tu", "ou", "oc"} => wire[i].oid \in DOMAIN ex
         /\ wire[i].kind = "os" => \A j \in DOMAIN wire[i].list : wire[i].list[j].oid \in DOMAIN ex
    /\ \A r \in reqs : r.kind = "update" => r.oid \in DOMAIN ex

\* A ClOrdID stands for one order, and not before the client has used it.
OneOrderPerCID ==
    /\ used \subseteq ClOrd \cup Text
    /\ \A o \in DOMAIN ex : ex[o].cid \in ClOrd => ex[o].cid \in used
    /\ \A o, p \in DOMAIN ex : ex[o].cid = ex[p].cid /\ ex[o].cid # Zero => o = p
    /\ \A c \in DOMAIN orders : c \in ClOrd \cup Text => c \in used

\* Requests: a new order is cached and not yet known to Bitfinex; an order
\* that is to be amended has its second entry.
RequestInv ==
    /\ reqs \subseteq Request
    /\ \A r \in reqs :
         /\ r.kind = "new" /\ r.cid # Zero =>
              /\ r.cid \in DOMAIN orders
              /\ orders[r.cid].src = "fix" /\ orders[r.cid].qty = r.qty
              /\ \A o \in DOMAIN ex : ex[o].cid # r.cid
         /\ r.kind = "update" => Replaced(r.oid)

\* An entry has the OrderID of the order its ClOrdID stands for, unless it is
\* that of a replace request, whose ClOrdID stands for no order.
EntryInv ==
    \A c \in DOMAIN orders :
        /\ orders[c].oid # NoOrder =>
             /\ orders[c].oid \in DOMAIN ex
             /\ c = ex[orders[c].oid].cid \/ orders[c].src = "replace"
        /\ orders[c].src = "replace" =>
             /\ c \in ClOrd
             /\ \A o \in DOMAIN ex : ex[o].cid # c
        /\ orders[c].src = "fix" => c \in ClOrd \cup Text
        /\ orders[c].src = "fix" /\ c # Zero =>
             \A o \in DOMAIN ex : ex[o].cid = c => Replaced(o) \/ orders[c].qty = ex[o].qty

\* Where the FIX goroutine is.
FInv ==
    /\ f.pc \in {"idle", "replace", "status", "unknown"}
    /\ f.pc = "replace" =>
         /\ f \in [pc : {"replace"}, cl : ClOrd, oid : OrderID, qty : Qty]
         /\ f.oid \in DOMAIN ex
         /\ f.cl \in DOMAIN orders
         /\ orders[f.cl].src = "replace" /\ orders[f.cl].oid = NoOrder
    /\ f.pc \in {"status", "unknown"} =>
         /\ f \in [pc : {"status", "unknown"}, oid : OrderID, qty : Nat]
         /\ f.oid \in DOMAIN ex

\* Where Service.listen is, and what it found in the cache.  While it has an
\* order of a snapshot in hand the order's entry is without OrderID.
HInv ==
    /\ h.pc \in {"idle", "ack", "rest", "exec", "snapshot", "trades", "restore"}
    /\ h.pc = "ack" =>
         /\ h.oid \in DOMAIN ex /\ h.qty \in Nat
         /\ ex[h.oid].cid \in DOMAIN orders
    /\ h.pc = "rest" =>
         /\ h.oid \in DOMAIN ex
         /\ \A c \in WithOrderID(h.oid) : orders[c].src = "replace"
    /\ h.pc = "exec" =>
         /\ h.oid \in DOMAIN ex /\ h.qty \in Nat
         /\ h.cl \in DOMAIN orders
         /\ orders[h.cl].src # "status" => orders[h.cl].oid = h.oid /\ orders[h.cl].qty = h.qty
    /\ h.pc \in {"snapshot", "trades"} =>
         /\ h.list \in Seq(Listed) /\ h.list # <<>>
         /\ \A j \in DOMAIN h.list : h.list[j].oid \in DOMAIN ex
    /\ h.pc = "trades" =>
         /\ ex[Head(h.list).oid].cid \in DOMAIN orders
         /\ orders[ex[Head(h.list).oid].cid].oid = NoOrder
    /\ h.pc = "restore" =>
         /\ h \in [pc : {"restore"}, oid : OrderID, qty : Nat, n : Nat, left : Nat]
         /\ h.oid \in DOMAIN ex
         /\ ex[h.oid].cid \in DOMAIN orders
         /\ orders[ex[h.oid].cid].oid = NoOrder

\* Service.listen has a trade of order o in hand.
InHand(o) == h.pc \in {"rest", "exec"} /\ h.oid = o

\* Trades of an order are handled after its acknowledgement, if that comes.
AckFirst ==
    \A i \in DOMAIN wire : wire[i].kind = "ack" =>
        /\ ex[wire[i].oid].got = 0
        /\ ~InHand(wire[i].oid)
        /\ \A j \in 1..(i - 1) : ~(wire[j].kind = "tu" /\ wire[j].oid = wire[i].oid)

\* The trades of order o on the wire.
Trades(w, o) == {i \in DOMAIN w : w[i].kind = "tu" /\ w[i].oid = o}

\* Trades are handled once: what is on its way or in hand was not counted.
TradesOnce ==
    \A o \in DOMAIN ex :
        ex[o].got + Cardinality(Trades(wire, o)) + (IF InHand(o) THEN 1 ELSE 0) <= ex[o].sent

IInv ==
    /\ CacheType /\ ExType /\ WireType
    /\ NamedInv /\ OneOrderPerCID /\ RequestInv /\ EntryInv
    /\ FInv /\ HInv /\ AckFirst /\ TradesOnce
    /\ OwnExecutions /\ AckGivesOrderID /\ CumQtyExact /\ NeverOverfilled
-----------------------------------------------------------------------------
(***************************************************************************)
(* The operations of the cache.                                            *)
(***************************************************************************)

\* The ClOrdIDs are apart from each other and from "0".
LEMMA Keys ==
    /\ ClOrd \subseteq Key /\ Ext \subseteq Key /\ Zero \in Key
    /\ \A c \in ClOrd : c \notin Text /\ c \notin Ext /\ c # Zero
    /\ \A c \in Ext : c \notin Text /\ c # Zero
    /\ Zero \notin Text
BY OrderAssumption DEF Key

\* What AddOrder does to the map.
LEMMA AddFacts ==
    ASSUME NEW c, NEW q, NEW o, NEW src, AddOrder(c, q, o, src)
    PROVE  /\ DOMAIN orders' = DOMAIN orders \cup {c}
           /\ orders'[c] = [oid |-> o, qty |-> q, execs |-> <<>>, src |-> src]
           /\ \A k \in DOMAIN orders : k # c => orders'[k] = orders[k]
BY DEF AddOrder

\* What UpdateOrder does to the map.
LEMMA UpdateFacts ==
    ASSUME CacheType, NEW c \in DOMAIN orders, NEW o \in OrderID, UpdateOrder(c, o)
    PROVE  /\ DOMAIN orders' = DOMAIN orders
           /\ orders'[c] \in Entry
           /\ orders'[c].oid = o
           /\ orders'[c].qty = orders[c].qty
           /\ orders'[c].execs = orders[c].execs
           /\ orders'[c].src = orders[c].src
           /\ \A k \in DOMAIN orders : k # c => orders'[k] = orders[k]
BY DEF UpdateOrder, CacheType, Entry

\* What AddExecution does to the map.
LEMMA ExecutionFacts ==
    ASSUME CacheType, NEW c \in DOMAIN orders, NEW o \in OrderID, AddExecution(c, o)
    PROVE  /\ DOMAIN orders' = DOMAIN orders
           /\ orders'[c] \in Entry
           /\ orders'[c].oid = orders[c].oid
           /\ orders'[c].qty = orders[c].qty
           /\ orders'[c].execs = Append(orders[c].execs, o)
           /\ orders'[c].src = orders[c].src
           /\ \A k \in DOMAIN orders : k # c => orders'[k] = orders[k]
<1>1. orders[c] \in Entry /\ Append(orders[c].execs, o) \in Seq(OrderID)
  BY DEF CacheType, Entry
<1>2. /\ DOMAIN orders' = DOMAIN orders
      /\ orders'[c] = [orders[c] EXCEPT !.execs = Append(orders[c].execs, o)]
      /\ \A k \in DOMAIN orders : k # c => orders'[k] = orders[k]
  BY DEF AddExecution
<1> QED BY <1>1, <1>2 DEF Entry

\* An order of Bitfinex has an OrderID and its types.
LEMMA OrderFacts ==
    ASSUME ExType, NEW o \in DOMAIN ex
    PROVE  /\ o \in OrderID /\ o # NoOrder
           /\ ex[o] \in ExOrder
           /\ ex[o].cid \in Key \ Text /\ ex[o].qty \in Nat /\ ex[o].filled \in Nat
           /\ ex[o].open \in BOOLEAN /\ ex[o].sent \in Nat /\ ex[o].got \in Nat
<1>1. ex \in Seq(ExOrder) /\ Len(ex) \in Nat /\ DOMAIN ex = 1..Len(ex) /\ Len(ex) <= MaxOrders
  BY DEF ExType
<1>2. o \in 1..MaxOrders /\ o # 0
  BY <1>1, OrderAssumption
<1>3. ex[o] \in ExOrder
  BY <1>1
<1> QED BY <1>2, <1>3 DEF ExOrder, OrderID, NoOrder

\* The second entry of a replaced order stays.
LEMMA ReplacedStays ==
    ASSUME \A k \in DOMAIN orders : orders[k].src = "replace" /\ orders[k].oid # NoOrder =>
               k \in DOMAIN orders' /\ orders'[k].src = "replace" /\ orders'[k].oid = orders[k].oid,
           NEW o, o # NoOrder, Replaced(o)
    PROVE  Replaced(o)'
BY DEF Replaced

\* Lookups by OrderID of an order that is not replaced give the entry of its
\* CID.
LEMMA OwnEntry ==
    ASSUME EntryInv, NEW o, o # NoOrder, ~Replaced(o), NEW c \in WithOrderID(o)
    PROVE  o \in DOMAIN ex /\ c = ex[o].cid /\ orders[c].src # "replace"
BY DEF EntryInv, Replaced, WithOrderID

\* The invariants of the entries.
CacheInv == CacheType /\ EntryInv /\ OwnExecutions /\ CumQtyExact /\ NeverOverfilled

\* A new entry names no order or that of its ClOrdID, and takes the place of
\* no replace request.
LEMMA AddInv ==
    ASSUME IInv, NEW c \in Key, NEW q \in Nat, NEW o \in OrderID \cup {NoOrder},
           NEW src \in Source, AddOrder(c, q, o, src), UNCHANGED ex,
           c \in DOMAIN orders => orders[c].src # "replace",
           o # NoOrder => o \in DOMAIN ex /\ c = ex[o].cid /\ src # "fix",
           src = "replace" => c \in ClOrd, src = "fix" => c \in ClOrd \cup Text,
           src \in {"fix", "replace"} => \A p \in DOMAIN ex : ex[p].cid # c
    PROVE  /\ CacheInv'
           /\ \A p : p # NoOrder /\ Replaced(p) => Replaced(p)'
<1>0. /\ DOMAIN orders' = DOMAIN orders \cup {c}
      /\ orders'[c] = [oid |-> o, qty |-> q, execs |-> <<>>, src |-> src]
      /\ \A k \in DOMAIN orders : k # c => orders'[k] = orders[k]
  BY AddFacts
<1>1. \A p : p # NoOrder /\ Replaced(p) => Replaced(p)'
  BY <1>0 DEF Replaced
<1>2. CacheType'
  <2>1. <<>> \in Seq(OrderID)
    OBVIOUS
  <2>2. orders'[c] \in Entry
    BY <1>0, <2>1 DEF Entry
  <2> QED BY <1>0, <2>2 DEF IInv, CacheType
<1>3. EntryInv'
  BY <1>0, <1>1 DEF IInv, EntryInv, ExType, NoOrder
<1>4. OwnExecutions'
  BY <1>0 DEF IInv, OwnExecutions
<1>5. CumQtyExact'
  BY <1>0, <1>1, <1>2 DEF IInv, CumQtyExact, FilledQty, NoOrder
<1>6. NeverOverfilled'
  <2>1. o # NoOrder => ex[o].got \in Nat
    BY OrderFacts DEF IInv
  <2>2. Len(orders'[c].execs) = 0 /\ orders'[c].oid = o
    BY <1>0
  <2>3. o # NoOrder => Len(orders'[c].execs) <= ex[o].got
    BY <2>1, <2>2
  <2> QED BY <1>0, <1>1, <2>2, <2>3 DEF IInv, NeverOverfilled, FilledQty, EntryInv
<1> QED BY <1>1, <1>2, <1>3, <1>4, <1>5, <1>6 DEF CacheInv

\* An entry is given the OrderID of the order its ClOrdID stands for, or, for
\* a replace request, of the order to be replaced; an order of the session
\* gets it before the first trade is counted.
LEMMA UpdateInv ==
    ASSUME IInv, NEW c \in DOMAIN orders, NEW o \in DOMAIN ex, UpdateOrder(c, o), UNCHANGED ex,
           \/ c = ex[o].cid
           \/ orders[c].src = "replace" /\ orders[c].oid = NoOrder,
           orders[c].src = "fix" => orders[c].oid = o \/ ex[o].got = 0
    PROVE  /\ CacheInv'
           /\ \A p : p # NoOrder /\ Replaced(p) => Replaced(p)'
<1>a. o \in OrderID /\ o # NoOrder /\ ex[o] \in ExOrder
  BY OrderFacts DEF IInv
<1>0. /\ DOMAIN orders' = DOMAIN orders
      /\ orders'[c] \in Entry
      /\ orders'[c].oid = o
      /\ orders'[c].qty = orders[c].qty
      /\ orders'[c].execs = orders[c].execs
      /\ orders'[c].src = orders[c].src
      /\ \A k \in DOMAIN orders : k # c => orders'[k] = orders[k]
  BY <1>a, UpdateFacts DEF IInv
<1>b. c # ex[o].cid \/ orders[c].src # "replace"
  BY DEF IInv, EntryInv
<1>1. \A p : p # NoOrder /\ Replaced(p) => Replaced(p)'
  BY <1>0, <1>b DEF Replaced
<1>2. CacheType'
  BY <1>0 DEF IInv, CacheType
<1>3. EntryInv'
  BY <1>0, <1>1, <1>a DEF IInv, EntryInv, ExType, NoOrder
<1>c. c # Zero => orders[c].oid = o \/ (orders[c].oid = NoOrder /\ orders[c].execs = <<>>)
  <2> SUFFICES ASSUME c # Zero, orders[c].oid # o
               PROVE  orders[c].oid = NoOrder /\ orders[c].execs = <<>>
    OBVIOUS
  <2>1. orders[c].oid = NoOrder
    BY DEF IInv, EntryInv, OneOrderPerCID
  <2>2. orders[c].execs \in Seq(OrderID) /\ \A i \in DOMAIN orders[c].execs : orders[c].execs[i] = NoOrder
    BY <2>1 DEF IInv, OwnExecutions, CacheType, Entry
  <2>3. orders[c].execs = <<>>
    <3> SUFFICES ASSUME orders[c].execs # <<>> PROVE FALSE
      OBVIOUS
    <3>1. 1 \in DOMAIN orders[c].execs /\ orders[c].execs[1] \in OrderID
      BY <2>2
    <3> QED BY <2>2, <3>1 DEF OrderID, NoOrder
  <2> QED BY <2>1, <2>3
<1>4. OwnExecutions'
  BY <1>0, <1>c DEF IInv, OwnExecutions
<1>5. CumQtyExact'
  BY <1>0, <1>1, <1>c DEF IInv, CumQtyExact, FilledQty, EntryInv
<1>6. NeverOverfilled'
  <2>1. c # Zero /\ orders[c].execs = <<>> => Len(orders'[c].execs) <= ex[o].got
    BY <1>0, <1>a DEF ExOrder
  <2>2. c # Zero /\ orders[c].oid = o /\ ~Replaced(o) => Len(orders'[c].execs) <= ex[o].got
    BY <1>0, <1>a DEF IInv, NeverOverfilled, FilledQty
  <2> QED BY <1>0, <1>1, <1>c, <1>a, <2>1, <2>2 DEF IInv, NeverOverfilled, FilledQty, EntryInv
<1> QED BY <1>1, <1>2, <1>3, <1>4, <1>5, <1>6 DEF CacheInv

\* An execution is added to an entry that has the order's OrderID.
LEMMA ExecutionInv ==
    ASSUME IInv, NEW o \in DOMAIN ex, NEW c \in WithOrderID(o), AddExecution(c, o)
    PROVE  /\ CacheType' /\ OwnExecutions'
           /\ \A p : Replaced(p) <=> Replaced(p)'
<1>a. o \in OrderID /\ c \in DOMAIN orders /\ orders[c].oid = o
  BY OrderFacts DEF IInv, WithOrderID
<1>0. /\ DOMAIN orders' = DOMAIN orders
      /\ orders'[c] \in Entry
      /\ orders'[c].oid = orders[c].oid
      /\ orders'[c].qty = orders[c].qty
      /\ orders'[c].execs = Append(orders[c].execs, o)
      /\ orders'[c].src = orders[c].src
      /\ \A k \in DOMAIN orders : k # c => orders'[k] = orders[k]
  BY <1>a, ExecutionFacts DEF IInv
<1>1. \A p : Replaced(p) <=> Replaced(p)'
  BY <1>0, <1>a DEF Replaced
<1>2. CacheType'
  BY <1>0 DEF IInv, CacheType
<1>3. orders[c].execs \in Seq(OrderID)
  BY <1>a DEF IInv, CacheType, Entry
<1>4. OwnExecutions'
  BY <1>0, <1>a, <1>3 DEF IInv, OwnExecutions
<1> QED BY <1>1, <1>2, <1>4

-----------------------------------------------------------------------------
(***************************************************************************)
(* The websocket.                                                          *)
(***************************************************************************)

\* The trades on the wire can be counted.
LEMMA TradesFinite ==
    ASSUME NEW w \in Seq(WireMessage), NEW o
    PROVE  IsFiniteSet(Trades(w, o)) /\ Cardinality(Trades(w, o)) \in Nat
<1>1. Trades(w, o) \in SUBSET (1..Len(w)) /\ Len(w) \in Nat
  BY DEF Trades
<1>2. IsFiniteSet(1..Len(w))
  BY <1>1, FS_Interval
<1>3. IsFiniteSet(Trades(w, o))
  BY <1>1, <1>2, FS_Subset
<1> QED BY <1>3, FS_CardinalityType

\* One trade less is on the wire after it was received.
LEMMA TailTrades ==
    ASSUME NEW w \in Seq(WireMessage), w # <<>>, NEW o
    PROVE  Cardinality(Trades(w, o)) =
               Cardinality(Trades(Tail(w), o))
               + (IF Head(w).kind = "tu" /\ Head(w).oid = o THEN 1 ELSE 0)
<1> DEFINE A == Trades(Tail(w), o)
           B == Trades(w, o) \ {1}
           g == [i \in A |-> i + 1]
<1>1. /\ Len(w) \in Nat \ {0} /\ DOMAIN w = 1..Len(w) /\ Head(w) = w[1]
      /\ Tail(w) \in Seq(WireMessage) /\ Len(Tail(w)) = Len(w) - 1
      /\ DOMAIN Tail(w) = 1..(Len(w) - 1)
      /\ \A i \in 1..(Len(w) - 1) : Tail(w)[i] = w[i + 1]
  OBVIOUS
<1>2. \A i \in A : i \in Nat /\ i + 1 \in B
  BY <1>1 DEF Trades
<1>3. \A j \in B : j - 1 \in A /\ j = (j - 1) + 1
  <2> SUFFICES ASSUME NEW j \in B PROVE j - 1 \in A /\ j = (j - 1) + 1
    OBVIOUS
  <2>1. j \in 2..Len(w) /\ w[j].kind = "tu" /\ w[j].oid = o
    BY <1>1 DEF Trades
  <2>2. j - 1 \in 1..(Len(w) - 1) /\ (j - 1) + 1 = j
    BY <1>1, <2>1
  <2>3. Tail(w)[j - 1] = w[j]
    BY <1>1, <2>2
  <2> QED BY <1>1, <2>1, <2>2, <2>3 DEF Trades
<1>4. g \in Bijection(A, B)
  <2>1. g \in [A -> B]
    BY <1>2
  <2>2. \A a, b \in A : g[a] = g[b] => a = b
    BY <1>2
  <2>3. \A j \in B : \E a \in A : g[a] = j
    BY <1>3
  <2> QED BY <2>1, <2>2, <2>3, Fun_IsBij
<1>5. IsFiniteSet(A) /\ IsFiniteSet(Trades(w, o)) /\ Cardinality(Trades(w, o)) \in Nat
  BY <1>1, TradesFinite
<1>6. Cardinality(B) = Cardinality(A)
  <2>1. ExistsBijection(A, B)
    BY <1>4 DEF ExistsBijection
  <2> QED BY <1>5, <2>1, FS_Bijection
<1>7. Cardinality(B) = IF 1 \in Trades(w, o) THEN Cardinality(Trades(w, o)) - 1
                       ELSE Cardinality(Trades(w, o))
  BY <1>5, FS_RemoveElement
<1>8. 1 \in Trades(w, o) <=> Head(w).kind = "tu" /\ Head(w).oid = o
  BY <1>1 DEF Trades
<1> QED BY <1>5, <1>6, <1>7, <1>8

\* Messages that are not trades leave the trades on the wire.
LEMMA OtherTrades ==
    ASSUME NEW w \in Seq(WireMessage), NEW s \in Seq(WireMessage), NEW o,
           \A i \in DOMAIN s : ~(s[i].kind = "tu" /\ s[i].oid = o)
    PROVE  Trades(w \o s, o) = Trades(w, o)
<1>1. /\ Len(w) \in Nat /\ Len(s) \in Nat
      /\ DOMAIN w = 1..Len(w) /\ DOMAIN s = 1..Len(s) /\ DOMAIN (w \o s) = 1..(Len(w) + Len(s))
      /\ \A i \in 1..Len(w) : (w \o s)[i] = w[i]
      /\ \A i \in (Len(w) + 1)..(Len(w) + Len(s)) :
            i - Len(w) \in 1..Len(s) /\ (w \o s)[i] = s[i - Len(w)]
  OBVIOUS
<1> QED BY <1>1 DEF Trades

\* A message is received: the order of acknowledgement and trades stays, and
\* a trade that leaves the wire is in hand or not.
LEMMA ReceiveWire ==
    ASSUME IInv, h = Idle, wire # <<>>, wire' = Tail(wire), UNCHANGED <<ex, reqs>>,
           h'.pc \in {"rest", "exec"} => Head(wire).kind = "tu" /\ h'.oid = Head(wire).oid
    PROVE  ExType' /\ WireType' /\ NamedInv' /\ AckFirst' /\ TradesOnce'
<1>1. /\ wire \in Seq(WireMessage) /\ Len(wire) \in Nat \ {0} /\ DOMAIN wire = 1..Len(wire)
      /\ Head(wire) = wire[1]
      /\ wire' \in Seq(WireMessage) /\ Len(wire') = Len(wire) - 1
      /\ DOMAIN wire' = 1..(Len(wire) - 1)
      /\ \A i \in 1..(Len(wire) - 1) : i + 1 \in DOMAIN wire /\ wire'[i] = wire[i + 1]
  BY DEF IInv, WireType
<1>2. ExType' /\ WireType'
  BY <1>1, OrderAssumption DEF IInv, ExType, WireType
<1>3. NamedInv'
  BY <1>1 DEF IInv, NamedInv
<1>5. AckFirst'
  <2> SUFFICES ASSUME NEW i \in DOMAIN wire', wire'[i].kind = "ack"
               PROVE  /\ ex[wire'[i].oid].got = 0
                      /\ ~(h'.pc \in {"rest", "exec"} /\ h'.oid = wire'[i].oid)
                      /\ \A j \in 1..(i - 1) : ~(wire'[j].kind = "tu" /\ wire'[j].oid = wire'[i].oid)
    BY DEF AckFirst, InHand
  <2>1. /\ ex[wire[i + 1].oid].got = 0
        /\ \A j \in 1..i : ~(wire[j].kind = "tu" /\ wire[j].oid = wire[i + 1].oid)
    BY <1>1 DEF IInv, AckFirst
  <2>2. \A j \in 1..(i - 1) : j + 1 \in 1..i /\ wire'[j] = wire[j + 1]
    BY <1>1
  <2>3. 1 \in 1..i
    BY <1>1
  <2> QED BY <1>1, <2>1, <2>2, <2>3
<1>6. TradesOnce'
  <2> SUFFICES ASSUME NEW o \in DOMAIN ex
               PROVE  ex[o].got + Cardinality(Trades(wire', o))
                        + (IF InHand(o)' THEN 1 ELSE 0) <= ex[o].sent
    BY DEF TradesOnce
  <2>1. ex[o].got + Cardinality(Trades(wire, o)) <= ex[o].sent
    <3>1. ~InHand(o)
      BY DEF InHand, Idle
    <3>2. ex[o].got \in Nat /\ Cardinality(Trades(wire, o)) \in Nat
      BY <1>1, TradesFinite, OrderFacts DEF IInv
    <3> QED BY <3>1, <3>2 DEF IInv, TradesOnce
  <2>2. Cardinality(Trades(wire, o)) = Cardinality(Trades(wire', o))
               + (IF Head(wire).kind = "tu" /\ Head(wire).oid = o THEN 1 ELSE 0)
    BY <1>1, TailTrades
  <2>3. Cardinality(Trades(wire', o)) \in Nat /\ ex[o].got \in Nat /\ ex[o].sent \in Nat
    BY <1>1, TradesFinite, OrderFacts DEF IInv
  <2>4. InHand(o)' => Head(wire).kind = "tu" /\ Head(wire).oid = o
    BY DEF InHand
  <2> QED BY <2>1, <2>2, <2>3, <2>4
<1> QED BY <1>2, <1>3, <1>5, <1>6

\* Service.listen goes on without a message and without counting a trade.
LEMMA HandWire ==
    ASSUME IInv, UNCHANGED <<wire, ex, reqs>>,
           h'.pc \in {"rest", "exec"} => h.pc \in {"rest", "exec"} /\ h'.oid = h.oid
    PROVE  ExType' /\ WireType' /\ NamedInv' /\ AckFirst' /\ TradesOnce'
<1>1. ExType' /\ WireType' /\ NamedInv'
  BY DEF IInv, ExType, WireType, NamedInv
<1>2. \A o : InHand(o)' => InHand(o)
  BY DEF InHand
<1>3. AckFirst'
  BY <1>2 DEF IInv, AckFirst
<1>4. TradesOnce'
  <2> SUFFICES ASSUME NEW o \in DOMAIN ex
               PROVE  ex[o].got + Cardinality(Trades(wire, o))
                        + (IF InHand(o)' THEN 1 ELSE 0) <= ex[o].sent
    BY DEF TradesOnce
  <2>1. ex[o].got \in Nat /\ ex[o].sent \in Nat /\ Cardinality(Trades(wire, o)) \in Nat
    BY TradesFinite, OrderFacts DEF IInv, WireType
  <2> QED BY <1>2, <2>1 DEF IInv, TradesOnce
<1> QED BY <1>1, <1>3, <1>4

\* The trade in hand is counted.
LEMMA CountTrade ==
    ASSUME IInv, UNCHANGED <<wire, reqs>>, h.pc \in {"rest", "exec"}, h' = Idle,
           ex' = [ex EXCEPT ![h.oid].got = @ + 1]
    PROVE  /\ ExType' /\ WireType' /\ NamedInv' /\ AckFirst' /\ TradesOnce'
           /\ h.oid \in DOMAIN ex
           /\ DOMAIN ex' = DOMAIN ex
           /\ ex'[h.oid].got = ex[h.oid].got + 1
           /\ \A o \in DOMAIN ex : /\ ex'[o].cid = ex[o].cid /\ ex'[o].qty = ex[o].qty
                                   /\ o # h.oid => ex'[o] = ex[o]
<1>1. h.oid \in DOMAIN ex /\ ex \in Seq(ExOrder)
  BY DEF IInv, HInv, ExType
<1>2. /\ ex[h.oid] \in ExOrder /\ ex[h.oid].got \in Nat /\ ex[h.oid].got + 1 \in Nat
  BY <1>1, OrderFacts DEF IInv
<1>3. [ex[h.oid] EXCEPT !.got = ex[h.oid].got + 1] \in ExOrder
  BY <1>2 DEF ExOrder
<1>4. /\ ex' \in Seq(ExOrder) /\ DOMAIN ex' = DOMAIN ex /\ Len(ex') = Len(ex)
      /\ ex'[h.oid] = [ex[h.oid] EXCEPT !.got = ex[h.oid].got + 1]
      /\ \A o \in DOMAIN ex : o # h.oid => ex'[o] = ex[o]
  BY <1>1, <1>3
<1>5. /\ ex'[h.oid].got = ex[h.oid].got + 1
      /\ ex'[h.oid].cid = ex[h.oid].cid /\ ex'[h.oid].qty = ex[h.oid].qty
      /\ ex'[h.oid].filled = ex[h.oid].filled /\ ex'[h.oid].sent = ex[h.oid].sent
      /\ ex'[h.oid].open = ex[h.oid].open
  BY <1>2, <1>4 DEF ExOrder
<1>6. ExType'
  BY <1>4, <1>5 DEF IInv, ExType
<1>7. WireType' /\ NamedInv'
  BY <1>4 DEF IInv, WireType, NamedInv
<1>8. \A o : ~InHand(o)'
  BY DEF InHand, Idle
<1>9. InHand(h.oid)
  BY DEF InHand
<1>10. AckFirst'
  BY <1>4, <1>8, <1>9 DEF IInv, AckFirst, NamedInv
<1>11. TradesOnce'
  <2> SUFFICES ASSUME NEW o \in DOMAIN ex
               PROVE  ex'[o].got + Cardinality(Trades(wire, o)) + 0 <= ex'[o].sent
    BY <1>4, <1>8 DEF TradesOnce
  <2>1. ex[o].got \in Nat /\ ex[o].sent \in Nat /\ Cardinality(Trades(wire, o)) \in Nat
    BY TradesFinite, OrderFacts DEF IInv, WireType
  <2>2. ex[o].got + Cardinality(Trades(wire, o)) + (IF InHand(o) THEN 1 ELSE 0) <= ex[o].sent
    BY DEF IInv, TradesOnce
  <2>3. CASE o = h.oid
    BY <1>5, <1>9, <2>1, <2>2, <2>3
  <2>4. CASE o # h.oid
    BY <1>4, <2>1, <2>2, <2>4
  <2> QED BY <2>3, <2>4
<1> QED BY <1>1, <1>4, <1>5, <1>6, <1>7, <1>10, <1>11
-----------------------------------------------------------------------------
(***************************************************************************)
(* Messages of the websocket.                                              *)
(***************************************************************************)

\* Nothing happens to the cache.
LEMMA SameCache ==
    ASSUME IInv, UNCHANGED <<orders, used, reqs, ex, f>>
    PROVE  CacheInv' /\ OneOrderPerCID' /\ RequestInv' /\ FInv'
<1>1. CacheType' /\ OneOrderPerCID' /\ OwnExecutions'
  BY DEF IInv, CacheType, OneOrderPerCID, OwnExecutions
<1>2. \A o : Replaced(o)' <=> Replaced(o)
  BY DEF Replaced
<1>3. RequestInv' /\ EntryInv' /\ FInv'
  BY <1>2 DEF IInv, RequestInv, EntryInv, FInv
<1>4. CumQtyExact' /\ NeverOverfilled'
  BY <1>2 DEF IInv, CumQtyExact, NeverOverfilled, FilledQty
<1> QED BY <1>1, <1>3, <1>4 DEF CacheInv

\* Messages that are only reported.
LEMMA ReportInv ==
    ASSUME IInv, OrderRejected \/ CancelAck \/ CancelRejected
                 \/ FIXOrderUpdateHandler \/ FIXOrderCancelHandler
    PROVE  IInv'
<1>1. /\ h = Idle /\ wire # <<>> /\ wire' = Tail(wire)
      /\ UNCHANGED <<orders, used, reqs, ex, f, h>>
  BY DEF OrderRejected, CancelAck, CancelRejected, FIXOrderUpdateHandler,
         FIXOrderCancelHandler, Receive
<1>2. h.pc = "idle" /\ h'.pc = "idle"
  BY <1>1 DEF Idle
<1>3. ExType' /\ WireType' /\ NamedInv' /\ AckFirst' /\ TradesOnce'
  BY <1>1, <1>2, ReceiveWire
<1>4. CacheInv' /\ OneOrderPerCID' /\ RequestInv' /\ FInv'
  BY <1>1, SameCache
<1>5. HInv'
  BY <1>2 DEF HInv
<1>6. AckGivesOrderID'
  BY <1>1 DEF IInv, AckGivesOrderID
<1> QED BY <1>3, <1>4, <1>5, <1>6 DEF IInv, CacheInv

\* A trade is taken in hand with the entry the lookup found.
LEMMA TradeLookupInv ==
    ASSUME IInv, TradeLookup
    PROVE  IInv'
<1>1. /\ h = Idle /\ wire # <<>> /\ wire' = Tail(wire) /\ Head(wire).kind = "tu"
      /\ UNCHANGED <<orders, used, reqs, ex, f>>
  BY DEF TradeLookup, Receive
<1>2. h.pc = "idle"
  BY <1>1 DEF Idle
<1>3. Head(wire).oid \in DOMAIN ex
  <2>1. 1 \in DOMAIN wire /\ Head(wire) = wire[1]
    BY <1>1 DEF IInv, WireType
  <2> QED BY <1>1, <2>1 DEF IInv, NamedInv
<1>4. \/ \E c \in WithOrderID(Head(wire).oid) :
           h' = [pc |-> "exec", oid |-> Head(wire).oid, cl |-> c, qty |-> orders[c].qty]
      \/ /\ WithOrderID(Head(wire).oid) = {}
         /\ h' = [pc |-> "rest", oid |-> Head(wire).oid]
  BY DEF TradeLookup
<1>5. h'.pc \in {"rest", "exec"} /\ h'.oid = Head(wire).oid
  BY <1>4
<1>6. ExType' /\ WireType' /\ NamedInv' /\ AckFirst' /\ TradesOnce'
  BY <1>1, <1>5, ReceiveWire
<1>7. CacheInv' /\ OneOrderPerCID' /\ RequestInv' /\ FInv'
  BY <1>1, SameCache
<1>8. HInv'
  <2>1. CASE WithOrderID(Head(wire).oid) = {} /\ h' = [pc |-> "rest", oid |-> Head(wire).oid]
    BY <1>1, <1>3, <2>1 DEF HInv, WithOrderID
  <2>2. ASSUME NEW c \in WithOrderID(Head(wire).oid),
               h' = [pc |-> "exec", oid |-> Head(wire).oid, cl |-> c, qty |-> orders[c].qty]
        PROVE  HInv'
    <3>1. c \in DOMAIN orders /\ orders[c].oid = Head(wire).oid /\ orders[c].qty \in Nat
      BY DEF WithOrderID, IInv, CacheType, Entry
    <3> QED BY <1>1, <1>3, <2>2, <3>1 DEF HInv
  <2> QED BY <1>4, <2>1, <2>2
<1>9. AckGivesOrderID'
  BY <1>1, <1>2 DEF IInv, AckGivesOrderID
<1> QED BY <1>6, <1>7, <1>8, <1>9 DEF IInv, CacheInv

\* The working orders of a snapshot are taken in hand.
LEMMA OrderSnapshotInv ==
    ASSUME IInv, OrderSnapshot
    PROVE  IInv'
<1>1. /\ h = Idle /\ wire # <<>> /\ wire' = Tail(wire) /\ Head(wire).kind = "os"
      /\ UNCHANGED <<orders, used, reqs, ex, f>>
      /\ h' = IF Head(wire).list = <<>> THEN Idle
              ELSE [pc |-> "snapshot", list |-> Head(wire).list]
  BY DEF OrderSnapshot, Receive
<1>2. h.pc = "idle" /\ h'.pc \in {"idle", "snapshot"}
  BY <1>1 DEF Idle
<1>3. /\ Head(wire).list \in Seq(Listed)
      /\ \A j \in DOMAIN Head(wire).list : Head(wire).list[j].oid \in DOMAIN ex
  <2>1. 1 \in DOMAIN wire /\ Head(wire) = wire[1] /\ Head(wire) \in WireMessage
    BY <1>1 DEF IInv, WireType
  <2>2. Head(wire).list \in Seq(Listed)
    BY <1>1, <2>1 DEF WireMessage
  <2> QED BY <1>1, <2>1, <2>2 DEF IInv, NamedInv
<1>4. ExType' /\ WireType' /\ NamedInv' /\ AckFirst' /\ TradesOnce'
  BY <1>1, <1>2, ReceiveWire
<1>5. CacheInv' /\ OneOrderPerCID' /\ RequestInv' /\ FInv'
  BY <1>1, SameCache
<1>6. HInv'
  BY <1>1, <1>3 DEF HInv, Idle
<1>7. AckGivesOrderID'
  BY <1>1, <1>2 DEF IInv, AckGivesOrderID
<1> QED BY <1>4, <1>5, <1>6, <1>7 DEF IInv, CacheInv

\* The trades of an order are asked for, or the next order is taken.
LEMMA SnapshotTradesInv ==
    ASSUME IInv, SnapshotTrades
    PROVE  IInv'
<1>1. /\ h.pc = "trades" /\ UNCHANGED <<orders, used, reqs, ex, wire, f>>
      /\ h.list \in Seq(Listed) /\ h.list # <<>>
      /\ \A j \in DOMAIN h.list : h.list[j].oid \in DOMAIN ex
  BY DEF SnapshotTrades, IInv, HInv
<1>2. /\ Head(h.list) \in Listed /\ Head(h.list).oid \in DOMAIN ex
      /\ Tail(h.list) \in Seq(Listed)
      /\ \A j \in DOMAIN Tail(h.list) : Tail(h.list)[j].oid \in DOMAIN ex
  BY <1>1
<1>3. \/ h' = Idle
      \/ /\ Tail(h.list) # <<>>
         /\ h' = [pc |-> "snapshot", list |-> Tail(h.list)]
      \/ \E n \in Nat :
           h' = [pc |-> "restore", oid |-> Head(h.list).oid, qty |-> Head(h.list).qty,
                 n |-> n, left |-> n]
  <2>1. ex[Head(h.list).oid].filled \in Nat
    BY <1>2, OrderFacts DEF IInv
  <2> QED BY <2>1 DEF SnapshotTrades
<1>4. h'.pc \in {"idle", "snapshot", "restore"}
  BY <1>3 DEF Idle
<1>5. HInv'
  <2>1. CASE h' = Idle
    BY <2>1 DEF HInv, Idle
  <2>2. CASE Tail(h.list) # <<>> /\ h' = [pc |-> "snapshot", list |-> Tail(h.list)]
    BY <1>1, <1>2, <2>2 DEF HInv
  <2>3. ASSUME NEW n \in Nat,
               h' = [pc |-> "restore", oid |-> Head(h.list).oid, qty |-> Head(h.list).qty,
                     n |-> n, left |-> n]
        PROVE  HInv'
    <3>1. /\ h' \in [pc : {"restore"}, oid : OrderID, qty : Nat, n : Nat, left : Nat]
          /\ h'.pc = "restore" /\ h'.oid = Head(h.list).oid
      BY <1>2, <2>3 DEF Listed
    <3>2. /\ ex[Head(h.list).oid].cid \in DOMAIN orders
          /\ orders[ex[Head(h.list).oid].cid].oid = NoOrder
      BY <1>1 DEF IInv, HInv
    <3> QED BY <1>1, <1>2, <3>1, <3>2 DEF HInv
  <2> QED BY <1>3, <2>1, <2>2, <2>3
<1>6. ExType' /\ WireType' /\ NamedInv' /\ AckFirst' /\ TradesOnce'
  BY <1>1, <1>4, HandWire
<1>7. CacheInv' /\ OneOrderPerCID' /\ RequestInv' /\ FInv'
  BY <1>1, SameCache
<1>8. AckGivesOrderID'
  BY <1>1 DEF IInv, AckGivesOrderID
<1> QED BY <1>5, <1>6, <1>7, <1>8 DEF IInv, CacheInv

\* What a step with the entry of an order's CID leaves alone: ClOrdIDs, the
\* entries of requests and the entry the FIX goroutine has in hand.
LEMMA ListenFrame ==
    ASSUME IInv, UNCHANGED <<used, reqs>>, f' = f \/ f' = Idle,
           DOMAIN ex' = DOMAIN ex, \A o \in DOMAIN ex : ex'[o].cid = ex[o].cid,
           NEW c \in Key, DOMAIN orders' = DOMAIN orders \cup {c},
           \A k \in DOMAIN orders : k # c => orders'[k] = orders[k],
           \/ \E o \in DOMAIN ex : c = ex[o].cid
           \/ c \in DOMAIN orders /\ /\ orders[c].oid # NoOrder
                                     /\ orders'[c].oid = orders[c].oid
                                     /\ orders'[c].src = orders[c].src
                                     /\ orders'[c].qty = orders[c].qty,
           \A p : p # NoOrder /\ Replaced(p) => Replaced(p)'
    PROVE  OneOrderPerCID' /\ RequestInv' /\ FInv'
<1>1. OneOrderPerCID'
  BY OrderFacts DEF IInv, OneOrderPerCID
<1>2. RequestInv'
  <2> SUFFICES ASSUME NEW r \in reqs
               PROVE  /\ r.kind = "new" /\ r.cid # Zero =>
                           /\ r.cid \in DOMAIN orders'
                           /\ orders'[r.cid].src = "fix" /\ orders'[r.cid].qty = r.qty
                           /\ \A o \in DOMAIN ex : ex[o].cid # r.cid
                      /\ r.kind = "update" => Replaced(r.oid)'
    BY DEF IInv, RequestInv
  <2>1. r.kind = "new" /\ r.cid # Zero =>
             /\ r.cid \in DOMAIN orders'
             /\ orders'[r.cid].src = "fix" /\ orders'[r.cid].qty = r.qty
             /\ \A o \in DOMAIN ex : ex[o].cid # r.cid
    BY DEF IInv, RequestInv
  <2>2. r.kind = "update" => Replaced(r.oid)'
    BY OrderFacts DEF IInv, RequestInv, NamedInv
  <2> QED BY <2>1, <2>2
<1>3. FInv'
  BY DEF IInv, FInv, EntryInv, Idle
<1> QED BY <1>1, <1>2, <1>3

\* The entry of an order's CID is never that of a replace request.
LEMMA CIDEntry ==
    ASSUME IInv, NEW o \in DOMAIN ex
    PROVE  /\ ex[o].cid \in Key
           /\ ex[o].cid \in DOMAIN orders => orders[ex[o].cid].src # "replace"
BY OrderFacts DEF IInv, EntryInv

\* An acknowledgement gives the order's entry its OrderID, or makes one.
LEMMA OrderAckInv ==
    ASSUME IInv, OrderAck
    PROVE  IInv'
<1> DEFINE o == Head(wire).oid
           c == ex[o].cid
<1>1. /\ h = Idle /\ wire # <<>> /\ wire' = Tail(wire) /\ Head(wire).kind = "ack"
      /\ UNCHANGED <<used, reqs, ex, f>>
  BY DEF OrderAck, Receive
<1>2. h.pc = "idle"
  BY <1>1 DEF Idle
<1>3. o \in DOMAIN ex /\ ex[o].got = 0
  <2>1. 1 \in DOMAIN wire /\ Head(wire) = wire[1]
    BY <1>1 DEF IInv, WireType
  <2> QED BY <1>1, <2>1 DEF IInv, NamedInv, AckFirst
<1>4. /\ c \in Key /\ (c \in DOMAIN orders => orders[c].src # "replace")
      /\ ex[o].qty \in Nat /\ o \in OrderID /\ o # NoOrder
  BY <1>3, CIDEntry, OrderFacts DEF IInv
<1>5. CASE c \in DOMAIN orders
  <2>1. UpdateOrder(c, o) /\ UNCHANGED h
    BY <1>5 DEF OrderAck
  <2>2. CacheInv' /\ \A p : p # NoOrder /\ Replaced(p) => Replaced(p)'
    BY <1>1, <1>3, <1>5, <2>1, UpdateInv
  <2>3. /\ DOMAIN orders' = DOMAIN orders /\ orders'[c].oid = o
        /\ \A k \in DOMAIN orders : k # c => orders'[k] = orders[k]
    BY <1>4, <1>5, <2>1, UpdateFacts DEF IInv
  <2>4. OneOrderPerCID' /\ RequestInv' /\ FInv'
    BY <1>1, <1>3, <1>4, <1>5, <2>2, <2>3, ListenFrame
  <2>5. ExType' /\ WireType' /\ NamedInv' /\ AckFirst' /\ TradesOnce'
    BY <1>1, <1>2, <2>1, ReceiveWire
  <2>6. HInv'
    BY <1>2, <2>1 DEF HInv
  <2>7. AckGivesOrderID'
    BY <1>2, <1>4, <2>3 DEF IInv, AckGivesOrderID
  <2> QED BY <2>2, <2>4, <2>5, <2>6, <2>7 DEF IInv, CacheInv
<1>6. CASE c \notin DOMAIN orders
  <2>1. AddOrder(c, ex[o].qty, NoOrder, "ack") /\ h' = [pc |-> "ack", oid |-> o, qty |-> ex[o].qty]
    BY <1>6 DEF OrderAck
  <2>2. CacheInv' /\ \A p : p # NoOrder /\ Replaced(p) => Replaced(p)'
    BY <1>1, <1>4, <1>6, <2>1, AddInv DEF Source
  <2>3. /\ DOMAIN orders' = DOMAIN orders \cup {c}
        /\ \A k \in DOMAIN orders : k # c => orders'[k] = orders[k]
    BY <2>1, AddFacts
  <2>4. OneOrderPerCID' /\ RequestInv' /\ FInv'
    BY <1>1, <1>3, <1>4, <2>2, <2>3, ListenFrame
  <2>5. ExType' /\ WireType' /\ NamedInv' /\ AckFirst' /\ TradesOnce'
    BY <1>1, <1>2, <2>1, ReceiveWire
  <2>6. HInv'
    BY <1>1, <1>3, <1>4, <2>1, <2>3 DEF HInv
  <2>7. AckGivesOrderID'
    BY <1>1, <1>2, <2>1, <2>3 DEF IInv, AckGivesOrderID
  <2> QED BY <2>2, <2>4, <2>5, <2>6, <2>7 DEF IInv, CacheInv
<1> QED BY <1>5, <1>6

\* The OrderID goes to the entry the acknowledgement made, if it is there.
LEMMA OrderAckOutsideInv ==
    ASSUME IInv, OrderAckOutside
    PROVE  IInv'
<1> DEFINE o == h.oid
           c == ex[o].cid
<1>1. h.pc = "ack" /\ h' = Idle /\ UNCHANGED <<used, reqs, ex, wire, f>>
  BY DEF OrderAckOutside
<1>2. o \in DOMAIN ex /\ c \in DOMAIN orders /\ o \in OrderID /\ o # NoOrder /\ c \in Key
  BY <1>1, OrderFacts, CIDEntry DEF IInv, HInv
<1>3. h'.pc = "idle"
  BY <1>1 DEF Idle
<1>4. ExType' /\ WireType' /\ NamedInv' /\ AckFirst' /\ TradesOnce'
  BY <1>1, <1>3, HandWire
<1>5. HInv'
  BY <1>3 DEF HInv
<1>6. CASE orders[c].src = "ack"
  <2>1. UpdateOrder(c, o)
    BY <1>6 DEF OrderAckOutside
  <2>2. CacheInv' /\ \A p : p # NoOrder /\ Replaced(p) => Replaced(p)'
    BY <1>1, <1>2, <1>6, <2>1, UpdateInv
  <2>3. /\ DOMAIN orders' = DOMAIN orders /\ orders'[c].oid = o
        /\ \A k \in DOMAIN orders : k # c => orders'[k] = orders[k]
    BY <1>2, <2>1, UpdateFacts DEF IInv
  <2>4. OneOrderPerCID' /\ RequestInv' /\ FInv'
    BY <1>1, <1>2, <2>2, <2>3, ListenFrame
  <2>5. AckGivesOrderID'
    BY <1>2, <2>3 DEF IInv, AckGivesOrderID
  <2> QED BY <1>4, <1>5, <2>2, <2>4, <2>5 DEF IInv, CacheInv
<1>7. CASE orders[c].src # "ack"
  <2>1. UNCHANGED orders
    BY <1>7 DEF OrderAckOutside
  <2>2. CacheInv' /\ OneOrderPerCID' /\ RequestInv' /\ FInv'
    BY <1>1, <2>1, SameCache
  <2>3. AckGivesOrderID'
    BY <1>7, <2>1 DEF IInv, AckGivesOrderID
  <2> QED BY <1>4, <1>5, <2>2, <2>3 DEF IInv, CacheInv
<1> QED BY <1>6, <1>7

\* A trade of an order that is not cached: the order is fetched, or the trade
\* is dropped, which only a replaced order's entries can tell.
LEMMA TradeFallbackInv ==
    ASSUME IInv, TradeFallback
    PROVE  IInv'
<1> DEFINE o == h.oid
           c == ex[o].cid
<1>1. h.pc = "rest" /\ UNCHANGED <<used, reqs, wire, f>>
  BY DEF TradeFallback
<1>2. /\ o \in DOMAIN ex /\ o \in OrderID /\ o # NoOrder
      /\ \A k \in WithOrderID(o) : orders[k].src = "replace"
  BY <1>1, OrderFacts DEF IInv, HInv
<1>3. /\ c \in Key /\ (c \in DOMAIN orders => orders[c].src # "replace")
      /\ Remaining(o) \in Nat
  <2>1. ex[o].qty \in Nat /\ ex[o].filled \in Nat /\ ex[o].filled <= ex[o].qty
    BY <1>2, OrderFacts DEF IInv, ExType
  <2> QED BY <1>2, <2>1, CIDEntry DEF Remaining
<1>4. CASE /\ AddOrder(c, Remaining(o), o, "rest") /\ UNCHANGED ex
           /\ h' = [pc |-> "exec", oid |-> o, cl |-> c, qty |-> Remaining(o)]
  <2>1. CacheInv' /\ \A p : p # NoOrder /\ Replaced(p) => Replaced(p)'
    BY <1>2, <1>3, <1>4, AddInv DEF Source
  <2>2. /\ DOMAIN orders' = DOMAIN orders \cup {c}
        /\ orders'[c] = [oid |-> o, qty |-> Remaining(o), execs |-> <<>>, src |-> "rest"]
        /\ \A k \in DOMAIN orders : k # c => orders'[k] = orders[k]
    BY <1>4, AddFacts
  <2>3. OneOrderPerCID' /\ RequestInv' /\ FInv'
    BY <1>1, <1>2, <1>3, <1>4, <2>1, <2>2, ListenFrame
  <2>4. ExType' /\ WireType' /\ NamedInv' /\ AckFirst' /\ TradesOnce'
    BY <1>1, <1>4, HandWire
  <2>5. HInv'
    BY <1>2, <1>3, <1>4, <2>2 DEF HInv
  <2>6. AckGivesOrderID'
    BY <1>1, <2>2 DEF IInv, AckGivesOrderID
  <2> QED BY <2>1, <2>3, <2>4, <2>5, <2>6 DEF IInv, CacheInv
<1>5. CASE h' = Idle /\ ex' = [ex EXCEPT ![o].got = @ + 1] /\ UNCHANGED orders
  <2>1. /\ ExType' /\ WireType' /\ NamedInv' /\ AckFirst' /\ TradesOnce'
        /\ DOMAIN ex' = DOMAIN ex
        /\ \A p \in DOMAIN ex : /\ ex'[p].cid = ex[p].cid /\ ex'[p].qty = ex[p].qty
                                /\ p # o => ex'[p] = ex[p]
    BY <1>1, <1>5, CountTrade
  <2>2. \A p : Replaced(p)' <=> Replaced(p)
    BY <1>5 DEF Replaced
  <2>3. CacheType' /\ OneOrderPerCID' /\ OwnExecutions'
    BY <1>1, <1>5, <2>1 DEF IInv, CacheType, OneOrderPerCID, OwnExecutions
  <2>4. RequestInv' /\ EntryInv' /\ FInv'
    BY <1>1, <1>5, <2>1, <2>2 DEF IInv, RequestInv, EntryInv, FInv
  <2>5. \A k \in DOMAIN orders : orders[k].oid # NoOrder /\ ~Replaced(orders[k].oid) =>
             orders[k].oid # o /\ ex'[orders[k].oid] = ex[orders[k].oid]
    BY <1>2, <2>1 DEF Replaced, WithOrderID, IInv, EntryInv
  <2>6. CumQtyExact' /\ NeverOverfilled'
    BY <1>5, <2>2, <2>5 DEF IInv, CumQtyExact, NeverOverfilled, FilledQty
  <2>7. HInv'
    BY <1>5 DEF HInv, Idle
  <2>8. AckGivesOrderID'
    BY <1>1, <1>5 DEF IInv, AckGivesOrderID
  <2> QED BY <2>1, <2>3, <2>4, <2>6, <2>7, <2>8 DEF IInv
<1> QED BY <1>4, <1>5 DEF TradeFallback

\* What a trade that is counted in the entries with its OrderID, of which
\* there is one unless the order was replaced, does to the cache.
LEMMA TradeReportInv ==
    ASSUME IInv, TradeReport
    PROVE  IInv'
<1> DEFINE o == h.oid
<1>1. /\ h.pc = "exec" /\ h' = Idle /\ UNCHANGED <<used, reqs, wire, f>>
      /\ ex' = [ex EXCEPT ![o].got = @ + 1]
  BY DEF TradeReport
<1>2. /\ ExType' /\ WireType' /\ NamedInv' /\ AckFirst' /\ TradesOnce'
      /\ o \in DOMAIN ex
      /\ DOMAIN ex' = DOMAIN ex
      /\ ex'[o].got = ex[o].got + 1
      /\ \A p \in DOMAIN ex : /\ ex'[p].cid = ex[p].cid /\ ex'[p].qty = ex[p].qty
                              /\ p # o => ex'[p] = ex[p]
  BY <1>1, CountTrade
<1>3. o \in OrderID /\ o # NoOrder
  BY <1>2, OrderFacts DEF IInv
<1>4. HInv'
  BY <1>1 DEF HInv, Idle
<1>5. ASSUME NEW c \in WithOrderID(o), AddExecution(c, o)
      PROVE  IInv'
  <2>1. CacheType' /\ OwnExecutions' /\ \A p : Replaced(p) <=> Replaced(p)'
    BY <1>2, <1>5, ExecutionInv
  <2>2. c \in DOMAIN orders /\ orders[c].oid = o /\ c \in Key /\ orders[c].execs \in Seq(OrderID)
    BY DEF WithOrderID, IInv, CacheType, Entry
  <2>3. /\ DOMAIN orders' = DOMAIN orders
        /\ orders'[c].oid = orders[c].oid
        /\ orders'[c].qty = orders[c].qty
        /\ orders'[c].execs = Append(orders[c].execs, o)
        /\ orders'[c].src = orders[c].src
        /\ \A k \in DOMAIN orders : k # c => orders'[k] = orders[k]
    BY <1>3, <1>5, <2>2, ExecutionFacts DEF IInv
  <2>4. OneOrderPerCID' /\ RequestInv' /\ FInv'
    <3>1. DOMAIN orders' = DOMAIN orders \cup {c}
      BY <2>2, <2>3
    <3> QED BY <1>1, <1>2, <1>3, <2>1, <2>2, <2>3, <3>1, ListenFrame
  <2>5. EntryInv'
    BY <1>2, <2>1, <2>3 DEF IInv, EntryInv
  <2>6. Len(orders'[c].execs) = Len(orders[c].execs) + 1
    BY <2>2, <2>3
  <2>7. \A k \in DOMAIN orders : orders[k].oid = o /\ ~Replaced(o) => k = c
    BY <1>3, OwnEntry DEF IInv, WithOrderID
  <2>8. CumQtyExact'
    BY <1>2, <2>1, <2>2, <2>3, <2>6, <2>7 DEF IInv, CumQtyExact, FilledQty, EntryInv
  <2>9. NeverOverfilled'
    <3>1. Len(orders[c].execs) \in Nat /\ ex[o].got \in Nat
      BY <1>2, <2>2, OrderFacts DEF IInv
    <3> QED BY <1>2, <2>1, <2>2, <2>3, <2>6, <2>7, <3>1 DEF IInv, NeverOverfilled, FilledQty, EntryInv
  <2>10. AckGivesOrderID'
    BY <1>1, <2>3 DEF IInv, AckGivesOrderID
  <2> QED BY <1>2, <1>4, <2>1, <2>4, <2>5, <2>8, <2>9, <2>10 DEF IInv
<1>6. CASE WithOrderID(o) = {} /\ UNCHANGED orders
  <2>1. \A p : Replaced(p)' <=> Replaced(p)
    BY <1>6 DEF Replaced
  <2>2. CacheType' /\ OneOrderPerCID' /\ OwnExecutions'
    BY <1>1, <1>2, <1>6 DEF IInv, CacheType, OneOrderPerCID, OwnExecutions
  <2>3. RequestInv' /\ EntryInv' /\ FInv'
    BY <1>1, <1>2, <1>6, <2>1 DEF IInv, RequestInv, EntryInv, FInv
  <2>4. \A k \in DOMAIN orders : orders[k].oid # NoOrder =>
             orders[k].oid # o /\ ex'[orders[k].oid] = ex[orders[k].oid]
    BY <1>2, <1>6 DEF WithOrderID, IInv, EntryInv
  <2>5. CumQtyExact' /\ NeverOverfilled'
    BY <1>6, <2>1, <2>4 DEF IInv, CumQtyExact, NeverOverfilled, FilledQty
  <2>6. AckGivesOrderID'
    BY <1>1, <1>6 DEF IInv, AckGivesOrderID
  <2> QED BY <1>2, <1>4, <2>2, <2>3, <2>5, <2>6 DEF IInv
<1> QED BY <1>5, <1>6 DEF TradeReport

\* The snapshot makes a new entry, which has no OrderID.
LEMMA SnapshotAddOrderInv ==
    ASSUME IInv, SnapshotAddOrder
    PROVE  IInv'
<1> DEFINE x == Head(h.list)
           c == ex[x.oid].cid
<1>1. /\ h.pc = "snapshot" /\ AddOrder(c, x.qty, NoOrder, "snapshot")
      /\ h' = [pc |-> "trades", list |-> h.list]
      /\ UNCHANGED <<used, reqs, ex, wire, f>>
  BY DEF SnapshotAddOrder
<1>2. /\ h.list \in Seq(Listed) /\ h.list # <<>>
      /\ \A j \in DOMAIN h.list : h.list[j].oid \in DOMAIN ex
  BY <1>1 DEF IInv, HInv
<1>3. x \in Listed /\ x.oid \in DOMAIN ex
  BY <1>2
<1>4. c \in Key /\ (c \in DOMAIN orders => orders[c].src # "replace") /\ x.qty \in Nat
  BY <1>3, CIDEntry DEF Listed
<1>5. CacheInv' /\ \A p : p # NoOrder /\ Replaced(p) => Replaced(p)'
  BY <1>1, <1>4, AddInv DEF Source
<1>6. /\ DOMAIN orders' = DOMAIN orders \cup {c}
      /\ orders'[c] = [oid |-> NoOrder, qty |-> x.qty, execs |-> <<>>, src |-> "snapshot"]
      /\ \A k \in DOMAIN orders : k # c => orders'[k] = orders[k]
  BY <1>1, AddFacts
<1>7. OneOrderPerCID' /\ RequestInv' /\ FInv'
  BY <1>1, <1>3, <1>4, <1>5, <1>6, ListenFrame
<1>8. ExType' /\ WireType' /\ NamedInv' /\ AckFirst' /\ TradesOnce'
  BY <1>1, HandWire
<1>9. HInv'
  <2>1. c \in DOMAIN orders' /\ orders'[c].oid = NoOrder
    BY <1>6
  <2>2. h'.pc = "trades" /\ h'.list = h.list /\ ex' = ex
    BY <1>1
  <2> QED BY <1>2, <2>1, <2>2 DEF HInv
<1>10. AckGivesOrderID'
  BY <1>1, <1>6 DEF IInv, AckGivesOrderID
<1> QED BY <1>5, <1>7, <1>8, <1>9, <1>10 DEF IInv, CacheInv

\* An execution of a snapshot finds only the entry of a replace request: that
\* of the order has no OrderID yet.
LEMMA SnapshotExecutionInv ==
    ASSUME IInv, SnapshotExecution
    PROVE  IInv'
<1> DEFINE o == h.oid
<1>1. h.pc = "restore" /\ h.left > 0 /\ UNCHANGED <<used, reqs, ex, wire, f>>
  BY DEF SnapshotExecution
<1>2. /\ h \in [pc : {"restore"}, oid : OrderID, qty : Nat, n : Nat, left : Nat]
      /\ o \in DOMAIN ex /\ ex[o].cid \in DOMAIN orders /\ orders[ex[o].cid].oid = NoOrder
      /\ o \in OrderID /\ o # NoOrder
  BY <1>1, OrderFacts DEF IInv, HInv
<1>3. ASSUME NEW c \in WithOrderID(o), AddExecution(c, o), h' = [h EXCEPT !.left = @ - 1]
      PROVE  IInv'
  <2>1. CacheType' /\ OwnExecutions' /\ \A p : Replaced(p) <=> Replaced(p)'
    BY <1>2, <1>3, ExecutionInv
  <2>2. c \in DOMAIN orders /\ orders[c].oid = o /\ c \in Key /\ orders[c].execs \in Seq(OrderID)
    BY DEF WithOrderID, IInv, CacheType, Entry
  <2>3. /\ DOMAIN orders' = DOMAIN orders
        /\ orders'[c].oid = orders[c].oid
        /\ orders'[c].qty = orders[c].qty
        /\ orders'[c].src = orders[c].src
        /\ \A k \in DOMAIN orders : k # c => orders'[k] = orders[k]
    BY <1>2, <1>3, <2>2, ExecutionFacts DEF IInv
  <2>4. Replaced(o)
    BY <1>2, <2>2 DEF IInv, EntryInv, Replaced
  <2>5. OneOrderPerCID' /\ RequestInv' /\ FInv'
    <3>1. DOMAIN orders' = DOMAIN orders \cup {c}
      BY <2>2, <2>3
    <3> QED BY <1>1, <1>2, <2>1, <2>2, <2>3, <3>1, ListenFrame
  <2>6. EntryInv'
    BY <1>1, <2>1, <2>3 DEF IInv, EntryInv
  <2>7. CumQtyExact' /\ NeverOverfilled'
    BY <1>1, <2>1, <2>2, <2>3, <2>4 DEF IInv, CumQtyExact, NeverOverfilled, FilledQty
  <2>8. ExType' /\ WireType' /\ NamedInv' /\ AckFirst' /\ TradesOnce'
    <3>1. h'.pc = "restore"
      BY <1>1, <1>2, <1>3
    <3> QED BY <1>1, <3>1, HandWire
  <2>9. HInv'
    <3>1. h' \in [pc : {"restore"}, oid : OrderID, qty : Nat, n : Nat, left : Nat] /\ h'.oid = o
          /\ h'.pc = "restore"
      BY <1>1, <1>2, <1>3
    <3> QED BY <1>1, <1>2, <2>2, <2>3, <3>1 DEF HInv
  <2>10. AckGivesOrderID'
    BY <1>1, <2>3 DEF IInv, AckGivesOrderID
  <2> QED BY <2>1, <2>5, <2>6, <2>7, <2>8, <2>9, <2>10 DEF IInv
<1>4. CASE h' = Idle /\ UNCHANGED orders
  <2>1. CacheInv' /\ OneOrderPerCID' /\ RequestInv' /\ FInv'
    BY <1>1, <1>4, SameCache
  <2>2. h'.pc = "idle"
    BY <1>4 DEF Idle
  <2>3. ExType' /\ WireType' /\ NamedInv' /\ AckFirst' /\ TradesOnce'
    BY <1>1, <2>2, HandWire
  <2>4. HInv'
    BY <2>2 DEF HInv
  <2>5. AckGivesOrderID'
    BY <1>1, <1>4 DEF IInv, AckGivesOrderID
  <2> QED BY <2>1, <2>3, <2>4, <2>5 DEF IInv, CacheInv
<1> QED BY <1>3, <1>4 DEF SnapshotExecution

\* The order in hand gets its OrderID, unless a status request has made
\* another entry since.
LEMMA SnapshotReportInv ==
    ASSUME IInv, SnapshotReport
    PROVE  IInv'
<1> DEFINE o == h.oid
           c == ex[o].cid
<1>1. h.pc = "restore" /\ h' = Idle /\ UNCHANGED <<used, reqs, ex, wire, f>>
  BY DEF SnapshotReport
<1>2. o \in DOMAIN ex /\ c \in DOMAIN orders /\ o \in OrderID /\ o # NoOrder /\ c \in Key
  BY <1>1, OrderFacts, CIDEntry DEF IInv, HInv
<1>3. h'.pc = "idle"
  BY <1>1 DEF Idle
<1>4. ExType' /\ WireType' /\ NamedInv' /\ AckFirst' /\ TradesOnce'
  BY <1>1, <1>3, HandWire
<1>5. HInv'
  BY <1>3 DEF HInv
<1>6. CASE orders[c].src = "snapshot"
  <2>1. UpdateOrder(c, o)
    BY <1>6 DEF SnapshotReport
  <2>2. CacheInv' /\ \A p : p # NoOrder /\ Replaced(p) => Replaced(p)'
    BY <1>1, <1>2, <1>6, <2>1, UpdateInv
  <2>3. /\ DOMAIN orders' = DOMAIN orders /\ orders'[c].oid = o
        /\ \A k \in DOMAIN orders : k # c => orders'[k] = orders[k]
    BY <1>2, <2>1, UpdateFacts DEF IInv
  <2>4. OneOrderPerCID' /\ RequestInv' /\ FInv'
    BY <1>1, <1>2, <2>2, <2>3, ListenFrame
  <2>5. AckGivesOrderID'
    BY <1>1, <1>2, <2>3 DEF IInv, AckGivesOrderID
  <2> QED BY <1>4, <1>5, <2>2, <2>4, <2>5 DEF IInv, CacheInv
<1>7. CASE orders[c].src # "snapshot"
  <2>1. UNCHANGED orders
    BY <1>7 DEF SnapshotReport
  <2>2. CacheInv' /\ OneOrderPerCID' /\ RequestInv' /\ FInv'
    BY <1>1, <2>1, SameCache
  <2>3. AckGivesOrderID'
    BY <1>1, <2>1 DEF IInv, AckGivesOrderID
  <2> QED BY <1>4, <1>5, <2>2, <2>3 DEF IInv, CacheInv
<1> QED BY <1>6, <1>7
-----------------------------------------------------------------------------
(***************************************************************************)
(* FIX messages.                                                           *)
(***************************************************************************)

\* What the FIX goroutine leaves alone of Bitfinex and the websocket.
LEMMA FIXWire ==
    ASSUME IInv, UNCHANGED <<ex, wire, h>>,
           \A r \in reqs' : r.kind = "update" => r.oid \in DOMAIN ex
    PROVE  ExType' /\ WireType' /\ NamedInv' /\ AckFirst' /\ TradesOnce'
<1>1. ExType' /\ WireType' /\ NamedInv'
  BY DEF IInv, ExType, WireType, NamedInv
<1>2. \A o : InHand(o)' <=> InHand(o)
  BY DEF InHand
<1>3. AckFirst' /\ TradesOnce'
  BY <1>2 DEF IInv, AckFirst, TradesOnce
<1> QED BY <1>1, <1>3

\* An entry the FIX goroutine adds has no OrderID, and replaces another only
\* when a status request does it, so that Service.listen still has what it
\* found.
LEMMA FIXAdd ==
    ASSUME IInv, UNCHANGED <<ex, h>>, NEW c, NEW q, NEW src,
           AddOrder(c, q, NoOrder, src), src # "ack", src = "status" \/ c \notin DOMAIN orders
    PROVE  HInv' /\ AckGivesOrderID'
<1>1. /\ DOMAIN orders' = DOMAIN orders \cup {c}
      /\ orders'[c].oid = NoOrder /\ orders'[c].src = src
      /\ \A k \in DOMAIN orders : k # c => orders'[k] = orders[k]
  <2>1. /\ DOMAIN orders' = DOMAIN orders \cup {c}
        /\ orders'[c] = [oid |-> NoOrder, qty |-> q, execs |-> <<>>, src |-> src]
        /\ \A k \in DOMAIN orders : k # c => orders'[k] = orders[k]
    BY AddFacts
  <2> QED BY <2>1
<1>2. AckGivesOrderID'
  BY <1>1 DEF IInv, AckGivesOrderID
<1>3. h.pc = "rest" => \A k \in WithOrderID(h.oid)' : orders'[k].src = "replace"
  BY <1>1, OrderFacts DEF IInv, HInv, WithOrderID
<1>4. h.pc = "exec" =>
         /\ h.cl \in DOMAIN orders'
         /\ orders'[h.cl].src # "status" => orders'[h.cl].oid = h.oid /\ orders'[h.cl].qty = h.qty
  BY <1>1 DEF IInv, HInv
<1>5. \A k \in DOMAIN orders : orders[k].oid = NoOrder => orders'[k].oid = NoOrder
  BY <1>1
<1>6. HInv'
  BY <1>1, <1>3, <1>4, <1>5 DEF IInv, HInv
<1> QED BY <1>2, <1>6

\* A ClOrdID the client has not used is in no entry and stands for no order.
LEMMA Unused ==
    ASSUME IInv, NEW c \in ClOrd \cup Text, c \notin used
    PROVE  /\ c \in Key /\ c \notin DOMAIN orders
           /\ \A o \in DOMAIN ex : ex[o].cid # c
<1>1. c \in Key /\ c \notin DOMAIN orders
  BY DEF IInv, OneOrderPerCID, Key
<1>2. \A o \in DOMAIN ex : ex[o].cid # c
  BY OrderFacts DEF IInv, OneOrderPerCID
<1> QED BY <1>1, <1>2

\* The invariants of a message the FIX goroutine rejects.
LEMMA UsedOnly ==
    ASSUME IInv, UNCHANGED <<orders, reqs, ex, f>>, used \subseteq used', used' \subseteq ClOrd \cup Text
    PROVE  CacheInv' /\ OneOrderPerCID' /\ RequestInv' /\ FInv'
<1>1. CacheType' /\ OneOrderPerCID' /\ OwnExecutions'
  BY DEF IInv, CacheType, OneOrderPerCID, OwnExecutions
<1>2. \A o : Replaced(o)' <=> Replaced(o)
  BY DEF Replaced
<1>3. RequestInv' /\ EntryInv' /\ FInv'
  BY <1>2 DEF IInv, RequestInv, EntryInv, FInv
<1>4. CumQtyExact' /\ NeverOverfilled'
  BY <1>2 DEF IInv, CumQtyExact, NeverOverfilled, FilledQty
<1> QED BY <1>1, <1>3, <1>4 DEF CacheInv

\* A new order is cached under an unused ClOrdID, and then requested.
LEMMA OnFIXNewOrderSingleInv ==
    ASSUME IInv, NEW c \in ClOrd \cup Text, NEW q \in Qty, OnFIXNewOrderSingle(c, q)
    PROVE  IInv'
<1> DEFINE r0 == [kind |-> "new", cid |-> CID(c), qty |-> q]
<1>1. /\ c \notin used /\ used' = used \cup {c} /\ AddOrder(c, q, NoOrder, "fix")
      /\ reqs' = reqs \cup {r0} \/ reqs' = reqs
      /\ UNCHANGED <<ex, wire, f, h>> /\ f = Idle
  BY DEF OnFIXNewOrderSingle, Submit
<1>2. c \in Key /\ c \notin DOMAIN orders /\ \A o \in DOMAIN ex : ex[o].cid # c
  BY <1>1, Unused
<1>3. q \in Nat
  BY DEF Qty
<1>4. CacheInv' /\ \A p : p # NoOrder /\ Replaced(p) => Replaced(p)'
  BY <1>1, <1>2, <1>3, AddInv DEF Source
<1>5. HInv' /\ AckGivesOrderID'
  BY <1>1, <1>2, FIXAdd
<1>6. /\ DOMAIN orders' = DOMAIN orders \cup {c}
      /\ orders'[c] = [oid |-> NoOrder, qty |-> q, execs |-> <<>>, src |-> "fix"]
      /\ \A k \in DOMAIN orders : k # c => orders'[k] = orders[k]
  BY <1>1, AddFacts
<1>7. OneOrderPerCID'
  BY <1>1, <1>6 DEF IInv, OneOrderPerCID
<1>8. r0 \in Request /\ (r0.cid # Zero => r0.cid = c) /\ r0.kind = "new" /\ r0.qty = q
  BY DEF CID, Request
<1>9. RequestInv'
  <2>1. reqs' \subseteq Request
    BY <1>1, <1>8 DEF IInv, RequestInv
  <2>2. ASSUME NEW r \in reqs'
        PROVE  /\ r.kind = "new" /\ r.cid # Zero =>
                    /\ r.cid \in DOMAIN orders'
                    /\ orders'[r.cid].src = "fix" /\ orders'[r.cid].qty = r.qty
                    /\ \A o \in DOMAIN ex' : ex'[o].cid # r.cid
               /\ r.kind = "update" => Replaced(r.oid)'
    <3>1. CASE r = r0
      BY <1>1, <1>2, <1>6, <1>8, <3>1
    <3>2. CASE r \in reqs
      <4>1. r.kind = "new" /\ r.cid # Zero =>
                    /\ r.cid \in DOMAIN orders'
                    /\ orders'[r.cid].src = "fix" /\ orders'[r.cid].qty = r.qty
                    /\ \A o \in DOMAIN ex' : ex'[o].cid # r.cid
        BY <1>1, <1>2, <1>6, <3>2 DEF IInv, RequestInv
      <4>2. r.kind = "update" => Replaced(r.oid)'
        BY <1>4, <3>2, OrderFacts DEF IInv, RequestInv, NamedInv
      <4> QED BY <4>1, <4>2
    <3> QED BY <1>1, <3>1, <3>2
  <2> QED BY <2>1, <2>2 DEF RequestInv
<1>10. FInv'
  BY <1>1 DEF FInv, Idle
<1>11. ExType' /\ WireType' /\ NamedInv' /\ AckFirst' /\ TradesOnce'
  BY <1>1, <1>8, FIXWire DEF IInv, NamedInv
<1> QED BY <1>4, <1>5, <1>7, <1>9, <1>10, <1>11 DEF IInv, CacheInv

\* A replace request is cached under an unused ClOrdID, which stands for no
\* order of Bitfinex.
LEMMA OnFIXOrderCancelReplaceRequestInv ==
    ASSUME IInv, NEW oc \in Key, NEW c \in ClOrd \cup Text, NEW q \in Qty,
           OnFIXOrderCancelReplaceRequest(oc, c, q)
    PROVE  IInv'
<1>1. /\ c \notin used /\ used' = used \cup {c} /\ f = Idle
      /\ UNCHANGED <<reqs, ex, wire, h>>
  BY DEF OnFIXOrderCancelReplaceRequest
<1>2. c \in Key /\ c \notin DOMAIN orders /\ \A o \in DOMAIN ex : ex[o].cid # c
  BY <1>1, Unused
<1>3. ExType' /\ WireType' /\ NamedInv' /\ AckFirst' /\ TradesOnce'
  BY <1>1, FIXWire DEF IInv, NamedInv
<1>4. CASE Replaceable(oc, c)
  <2>1. /\ AddOrder(c, q, NoOrder, "replace")
        /\ f' = [pc |-> "replace", cl |-> c, oid |-> orders[oc].oid, qty |-> q]
        /\ c \in ClOrd /\ oc \in DOMAIN orders /\ orders[oc].oid # NoOrder
    BY <1>4 DEF OnFIXOrderCancelReplaceRequest, Replaceable
  <2>2. q \in Nat
    BY DEF Qty
  <2>3. CacheInv' /\ \A p : p # NoOrder /\ Replaced(p) => Replaced(p)'
    BY <1>1, <1>2, <2>1, <2>2, AddInv DEF Source
  <2>4. HInv' /\ AckGivesOrderID'
    BY <1>1, <1>2, <2>1, FIXAdd
  <2>5. /\ DOMAIN orders' = DOMAIN orders \cup {c}
        /\ orders'[c] = [oid |-> NoOrder, qty |-> q, execs |-> <<>>, src |-> "replace"]
        /\ \A k \in DOMAIN orders : k # c => orders'[k] = orders[k]
    BY <2>1, AddFacts
  <2>6. OneOrderPerCID'
    BY <1>1, <2>5 DEF IInv, OneOrderPerCID
  <2>7. RequestInv'
    <3>1. \A r \in reqs : r.kind = "new" /\ r.cid # Zero =>
                    /\ r.cid \in DOMAIN orders'
                    /\ orders'[r.cid].src = "fix" /\ orders'[r.cid].qty = r.qty
                    /\ \A o \in DOMAIN ex' : ex'[o].cid # r.cid
      BY <1>1, <1>2, <2>5 DEF IInv, RequestInv
    <3>2. \A r \in reqs : r.kind = "update" => Replaced(r.oid)'
      BY <2>3, OrderFacts DEF IInv, RequestInv, NamedInv
    <3> QED BY <1>1, <3>1, <3>2 DEF IInv, RequestInv
  <2>8. FInv'
    <3>1. orders[oc].oid \in DOMAIN ex /\ orders[oc].oid \in OrderID
      BY <2>1, OrderFacts DEF IInv, EntryInv
    <3> QED BY <1>1, <2>1, <2>5, <3>1 DEF FInv
  <2> QED BY <1>3, <2>3, <2>4, <2>6, <2>7, <2>8 DEF IInv, CacheInv
<1>5. CASE ~Replaceable(oc, c)
  <2>1. UNCHANGED <<orders, f>>
    BY <1>5 DEF OnFIXOrderCancelReplaceRequest
  <2>2. CacheInv' /\ OneOrderPerCID' /\ RequestInv' /\ FInv'
    BY <1>1, <2>1, UsedOnly DEF IInv, OneOrderPerCID
  <2>3. HInv' /\ AckGivesOrderID'
    BY <1>1, <2>1 DEF IInv, HInv, AckGivesOrderID, WithOrderID
  <2> QED BY <1>3, <2>2, <2>3 DEF IInv, CacheInv
<1> QED BY <1>4, <1>5

\* The entry of a replace request gets the OrderID of the order it replaces.
LEMMA SubmitUpdateOrderInv ==
    ASSUME IInv, SubmitUpdateOrder
    PROVE  IInv'
<1> SUFFICES ASSUME NEW c, c = f.cl, NEW o, o = f.oid, NEW q, q = f.qty
             PROVE  IInv'
  OBVIOUS
<1> DEFINE r0 == [kind |-> "update", oid |-> o, qty |-> q]
<1>1. /\ f.pc = "replace" /\ f' = Idle /\ UpdateOrder(c, o)
      /\ reqs' = reqs \cup {r0} \/ reqs' = reqs
      /\ UNCHANGED <<used, ex, wire, h>>
  BY DEF SubmitUpdateOrder, Submit
<1>2. /\ c \in ClOrd /\ o \in OrderID /\ q \in Qty /\ o \in DOMAIN ex /\ o # NoOrder
      /\ c \in DOMAIN orders /\ orders[c].src = "replace" /\ orders[c].oid = NoOrder
  BY <1>1, OrderFacts DEF IInv, FInv
<1>3. CacheInv' /\ \A p : p # NoOrder /\ Replaced(p) => Replaced(p)'
  BY <1>1, <1>2, UpdateInv
<1>4. /\ DOMAIN orders' = DOMAIN orders
      /\ orders'[c].oid = o /\ orders'[c].src = "replace" /\ orders'[c].qty = orders[c].qty
      /\ \A k \in DOMAIN orders : k # c => orders'[k] = orders[k]
  BY <1>1, <1>2, UpdateFacts DEF IInv
<1>5. OneOrderPerCID'
  BY <1>1, <1>4 DEF IInv, OneOrderPerCID
<1>6. Replaced(o)'
  BY <1>2, <1>4 DEF Replaced
<1>7. r0 \in Request /\ r0.kind = "update" /\ r0.oid = o
  BY <1>2 DEF Request
<1>8. RequestInv'
  <2>1. reqs' \subseteq Request
    BY <1>1, <1>7 DEF IInv, RequestInv
  <2>2. ASSUME NEW r \in reqs'
        PROVE  /\ r.kind = "new" /\ r.cid # Zero =>
                    /\ r.cid \in DOMAIN orders'
                    /\ orders'[r.cid].src = "fix" /\ orders'[r.cid].qty = r.qty
                    /\ \A p \in DOMAIN ex' : ex'[p].cid # r.cid
               /\ r.kind = "update" => Replaced(r.oid)'
    <3>1. CASE r = r0
      BY <1>6, <1>7, <3>1
    <3>2. CASE r \in reqs
      <4>1. r.kind = "new" /\ r.cid # Zero =>
                    /\ r.cid \in DOMAIN orders'
                    /\ orders'[r.cid].src = "fix" /\ orders'[r.cid].qty = r.qty
                    /\ \A p \in DOMAIN ex' : ex'[p].cid # r.cid
        BY <1>1, <1>2, <1>4, <3>2 DEF IInv, RequestInv
      <4>2. r.kind = "update" => Replaced(r.oid)'
        BY <1>3, <3>2, OrderFacts DEF IInv, RequestInv, NamedInv
      <4> QED BY <4>1, <4>2
    <3> QED BY <1>1, <3>1, <3>2
  <2> QED BY <2>1, <2>2 DEF RequestInv
<1>9. FInv'
  BY <1>1 DEF FInv, Idle
<1>10. ExType' /\ WireType' /\ NamedInv' /\ AckFirst' /\ TradesOnce'
  BY <1>1, <1>2, <1>7, FIXWire DEF IInv, NamedInv
<1>11. AckGivesOrderID'
  BY <1>1, <1>2, <1>4 DEF IInv, AckGivesOrderID
<1>12. HInv'
  <2>1. h.pc = "rest" => \A k \in WithOrderID(h.oid)' : orders'[k].src = "replace"
    BY <1>1, <1>4 DEF IInv, HInv, WithOrderID
  <2>2. h.pc = "exec" =>
           /\ h.cl \in DOMAIN orders'
           /\ orders'[h.cl].src # "status" => orders'[h.cl].oid = h.oid /\ orders'[h.cl].qty = h.qty
    BY <1>2, <1>4, OrderFacts DEF IInv, HInv
  <2>3. \A p \in DOMAIN ex : ex[p].cid \in DOMAIN orders => orders'[ex[p].cid] = orders[ex[p].cid]
    BY <1>2, <1>4, CIDEntry
  <2>4. h.pc = "trades" => Head(h.list).oid \in DOMAIN ex
    <3>1. h.pc = "trades" => /\ h.list \in Seq(Listed) /\ h.list # <<>>
                             /\ \A j \in DOMAIN h.list : h.list[j].oid \in DOMAIN ex
      BY DEF IInv, HInv
    <3> QED BY <3>1
  <2> QED BY <1>1, <1>4, <2>1, <2>2, <2>3, <2>4 DEF IInv, HInv
<1> QED BY <1>3, <1>5, <1>8, <1>9, <1>10, <1>11, <1>12 DEF IInv, CacheInv

\* A cancel request is not cached.
LEMMA OnFIXOrderCancelRequestInv ==
    ASSUME IInv, NEW oc \in Key, NEW c \in ClOrd \cup Text, OnFIXOrderCancelRequest(oc, c)
    PROVE  IInv'
<1>1. used' = used \cup {c} /\ UNCHANGED <<orders, ex, wire, f, h>>
  BY DEF OnFIXOrderCancelRequest
<1>2. \/ reqs' = reqs
      \/ \E o \in OrderID \cup {NoOrder}, k \in Key \cup {None} :
           reqs' = reqs \cup {[kind |-> "cancel", oid |-> o, cid |-> k]}
  BY DEF OnFIXOrderCancelRequest, Submit
<1>3. reqs' \subseteq Request /\ \A r \in reqs' : r \in reqs \/ r.kind = "cancel"
  <2>1. \A o \in OrderID \cup {NoOrder}, k \in Key \cup {None} :
           [kind |-> "cancel", oid |-> o, cid |-> k] \in Request
    BY DEF Request
  <2> QED BY <1>2, <2>1 DEF IInv, RequestInv
<1>4. CacheType' /\ OneOrderPerCID' /\ OwnExecutions'
  BY <1>1 DEF IInv, CacheType, OneOrderPerCID, OwnExecutions
<1>5. \A o : Replaced(o)' <=> Replaced(o)
  BY <1>1 DEF Replaced
<1>6. RequestInv' /\ EntryInv' /\ FInv'
  BY <1>1, <1>3, <1>5 DEF IInv, RequestInv, EntryInv, FInv
<1>7. CumQtyExact' /\ NeverOverfilled'
  BY <1>1, <1>5 DEF IInv, CumQtyExact, NeverOverfilled, FilledQty
<1>8. ExType' /\ WireType' /\ NamedInv' /\ AckFirst' /\ TradesOnce'
  BY <1>1, <1>3, FIXWire DEF IInv, NamedInv
<1>9. HInv' /\ AckGivesOrderID'
  BY <1>1 DEF IInv, HInv, AckGivesOrderID, WithOrderID
<1> QED BY <1>4, <1>6, <1>7, <1>8, <1>9 DEF IInv

\* A status request looks the order up, at Bitfinex and in the cache.
LEMMA StatusInv ==
    ASSUME IInv, (\E o \in OrderID : OnFIXOrderStatusRequest(o)) \/ StatusLookup
    PROVE  IInv'
<1>1. UNCHANGED <<orders, used, reqs, ex, wire, h>>
  BY DEF OnFIXOrderStatusRequest, StatusLookup
<1>2. FInv'
  <2>1. ASSUME NEW o \in OrderID, OnFIXOrderStatusRequest(o)
        PROVE  FInv'
    <3>1. CASE o \in DOMAIN ex /\ f' = [pc |-> "status", oid |-> o, qty |-> Remaining(o)]
      <4>1. ex[o].qty \in Nat /\ ex[o].filled \in Nat /\ ex[o].filled <= ex[o].qty
        BY <3>1, OrderFacts DEF IInv, ExType
      <4>2. Remaining(o) \in Nat
        BY <4>1 DEF Remaining
      <4> QED BY <1>1, <3>1, <4>2 DEF FInv
    <3>2. CASE UNCHANGED f
      BY <1>1, <3>2 DEF IInv, FInv
    <3> QED BY <2>1, <3>1, <3>2 DEF OnFIXOrderStatusRequest
  <2>2. CASE StatusLookup
    <3>1. f.pc = "status" /\ (f' = Idle \/ f' = [f EXCEPT !.pc = "unknown"])
      BY <2>2 DEF StatusLookup
    <3>2. f \in [pc : {"status", "unknown"}, oid : OrderID, qty : Nat] /\ f.oid \in DOMAIN ex
      BY <3>1 DEF IInv, FInv
    <3>3. CASE f' = Idle
      BY <3>3 DEF FInv, Idle
    <3>4. CASE f' = [f EXCEPT !.pc = "unknown"]
      <4>1. f' \in [pc : {"status", "unknown"}, oid : OrderID, qty : Nat] /\ f'.oid = f.oid
            /\ f'.pc = "unknown"
        BY <3>2, <3>4
      <4> QED BY <1>1, <3>2, <4>1 DEF FInv
    <3> QED BY <3>1, <3>3, <3>4
  <2> QED BY <2>1, <2>2
<1>3. CacheType' /\ OneOrderPerCID' /\ OwnExecutions'
  BY <1>1 DEF IInv, CacheType, OneOrderPerCID, OwnExecutions
<1>4. \A o : Replaced(o)' <=> Replaced(o)
  BY <1>1 DEF Replaced
<1>5. RequestInv' /\ EntryInv'
  BY <1>1, <1>4 DEF IInv, RequestInv, EntryInv
<1>6. CumQtyExact' /\ NeverOverfilled'
  BY <1>1, <1>4 DEF IInv, CumQtyExact, NeverOverfilled, FilledQty
<1>7. ExType' /\ WireType' /\ NamedInv' /\ AckFirst' /\ TradesOnce'
  BY <1>1, FIXWire DEF IInv, NamedInv
<1>8. HInv' /\ AckGivesOrderID'
  BY <1>1 DEF IInv, HInv, AckGivesOrderID, WithOrderID
<1> QED BY <1>2, <1>3, <1>5, <1>6, <1>7, <1>8 DEF IInv

\* The order of a status request that was not cached gets an entry.
LEMMA StatusAddOrderInv ==
    ASSUME IInv, StatusAddOrder
    PROVE  IInv'
<1> DEFINE o == f.oid
           c == ex[o].cid
<1>1. /\ f.pc = "unknown" /\ f' = Idle /\ AddOrder(c, f.qty, NoOrder, "status")
      /\ UNCHANGED <<used, reqs, ex, wire, h>>
  BY DEF StatusAddOrder
<1>2. o \in DOMAIN ex /\ f.qty \in Nat
  BY <1>1 DEF IInv, FInv
<1>3. c \in Key /\ (c \in DOMAIN orders => orders[c].src # "replace")
  BY <1>2, CIDEntry
<1>4. CacheInv' /\ \A p : p # NoOrder /\ Replaced(p) => Replaced(p)'
  BY <1>1, <1>2, <1>3, AddInv DEF Source
<1>5. HInv' /\ AckGivesOrderID'
  BY <1>1, FIXAdd
<1>6. /\ DOMAIN orders' = DOMAIN orders \cup {c}
      /\ \A k \in DOMAIN orders : k # c => orders'[k] = orders[k]
  BY <1>1, AddFacts
<1>7. OneOrderPerCID' /\ RequestInv' /\ FInv'
  BY <1>1, <1>2, <1>3, <1>4, <1>6, ListenFrame
<1>8. ExType' /\ WireType' /\ NamedInv' /\ AckFirst' /\ TradesOnce'
  BY <1>1, FIXWire DEF IInv, NamedInv
<1> QED BY <1>4, <1>5, <1>7, <1>8 DEF IInv, CacheInv
-----------------------------------------------------------------------------
(***************************************************************************)
(* Bitfinex.                                                               *)
(***************************************************************************)

\* What Bitfinex leaves alone of the gateway.
LEMMA BitfinexFrame ==
    ASSUME IInv, UNCHANGED <<orders, used, f, h>>, DOMAIN ex \subseteq DOMAIN ex',
           \A o \in DOMAIN ex : ex'[o].cid = ex[o].cid /\ ex'[o].got = ex[o].got
    PROVE  /\ CacheType' /\ FInv' /\ HInv' /\ OwnExecutions' /\ AckGivesOrderID'
           /\ CumQtyExact' /\ NeverOverfilled'
           /\ \A o : Replaced(o)' <=> Replaced(o)
<1>1. \A o : Replaced(o)' <=> Replaced(o)
  BY DEF Replaced
<1>2. CacheType' /\ OwnExecutions' /\ FInv'
  BY DEF IInv, CacheType, OwnExecutions, FInv
<1>3. CumQtyExact' /\ NeverOverfilled'
  BY <1>1 DEF IInv, CumQtyExact, NeverOverfilled, FilledQty, EntryInv
<1>4. AckGivesOrderID'
  BY DEF IInv, AckGivesOrderID, HInv
<1>5. HInv'
  <2>1. h.pc \in {"snapshot", "trades"} => Head(h.list).oid \in DOMAIN ex
    <3>1. h.pc \in {"snapshot", "trades"} =>
             /\ h.list \in Seq(Listed) /\ h.list # <<>>
             /\ \A j \in DOMAIN h.list : h.list[j].oid \in DOMAIN ex
      BY DEF IInv, HInv
    <3> QED BY <3>1
  <2> QED BY <2>1 DEF IInv, HInv, WithOrderID
<1> QED BY <1>1, <1>2, <1>3, <1>4, <1>5

\* Messages that are not trades are published.  Only a new order, of which no
\* message is on the wire yet, is acknowledged.
LEMMA PublishOther ==
    ASSUME IInv, UNCHANGED h, NEW s \in Seq(WireMessage), wire' = wire \o s,
           Len(wire) + Len(s) <= MaxWire,
           DOMAIN ex \subseteq DOMAIN ex',
           \A o \in DOMAIN ex : ex'[o].got = ex[o].got /\ ex'[o].sent = ex[o].sent,
           \A o \in DOMAIN ex' : o \in DOMAIN ex \/ (ex'[o].got = 0 /\ ex'[o].sent = 0),
           \A i \in DOMAIN s : /\ s[i].kind \in {"ack", "nack", "cancelled", "notCancelled", "ou", "oc"}
                               /\ s[i].kind \in {"ack", "ou", "oc"} => s[i].oid \in DOMAIN ex'
                               /\ s[i].kind = "ack" => s[i].oid \notin DOMAIN ex,
           \A r \in reqs' : r \in reqs
    PROVE  WireType' /\ NamedInv' /\ AckFirst' /\ TradesOnce'
<1>1. /\ wire \in Seq(WireMessage) /\ Len(wire) \in Nat /\ Len(s) \in Nat
      /\ wire' \in Seq(WireMessage) /\ Len(wire') = Len(wire) + Len(s)
      /\ DOMAIN wire = 1..Len(wire) /\ DOMAIN s = 1..Len(s)
      /\ DOMAIN wire' = 1..(Len(wire) + Len(s))
      /\ \A i \in 1..Len(wire) : wire'[i] = wire[i]
      /\ \A i \in (Len(wire) + 1)..(Len(wire) + Len(s)) :
            i - Len(wire) \in 1..Len(s) /\ wire'[i] = s[i - Len(wire)]
  BY DEF IInv, WireType
<1>2. \A i \in DOMAIN wire' : \/ i \in DOMAIN wire /\ wire'[i] = wire[i]
                              \/ i \notin DOMAIN wire /\ \E j \in DOMAIN s : wire'[i] = s[j]
  <2> SUFFICES ASSUME NEW i \in DOMAIN wire'
               PROVE  \/ i \in DOMAIN wire /\ wire'[i] = wire[i]
                      \/ i \notin DOMAIN wire /\ \E j \in DOMAIN s : wire'[i] = s[j]
    OBVIOUS
  <2>1. CASE i \in 1..Len(wire)
    BY <1>1, <2>1
  <2>2. CASE i \notin 1..Len(wire)
    <3>1. i \in (Len(wire) + 1)..(Len(wire) + Len(s))
      BY <1>1, <2>2
    <3> QED BY <1>1, <2>2, <3>1
  <2> QED BY <2>1, <2>2
<1>3. WireType'
  BY <1>1 DEF WireType
<1>4. NamedInv'
  <2> SUFFICES ASSUME NEW i \in DOMAIN wire'
               PROVE  /\ wire'[i].kind \in {"ack", "tu", "ou", "oc"} => wire'[i].oid \in DOMAIN ex'
                      /\ wire'[i].kind = "os" =>
                           \A j \in DOMAIN wire'[i].list : wire'[i].list[j].oid \in DOMAIN ex'
    BY DEF IInv, NamedInv
  <2>1. CASE i \in DOMAIN wire /\ wire'[i] = wire[i]
    BY <2>1 DEF IInv, NamedInv
  <2>2. ASSUME NEW j \in DOMAIN s, wire'[i] = s[j]
        PROVE  wire'[i].kind # "os" /\ wire'[i].kind # "tu"
               /\ (wire'[i].kind \in {"ack", "ou", "oc"} => wire'[i].oid \in DOMAIN ex')
    BY <2>2
  <2> QED BY <1>2, <2>1, <2>2
<1>5. \A o : InHand(o)' <=> InHand(o)
  BY DEF InHand
<1>6. \A o : InHand(o) => o \in DOMAIN ex
  BY DEF InHand, IInv, HInv
<1>7. AckFirst'
  <2> SUFFICES ASSUME NEW i \in DOMAIN wire', wire'[i].kind = "ack"
               PROVE  /\ ex'[wire'[i].oid].got = 0
                      /\ ~(h.pc \in {"rest", "exec"} /\ h.oid = wire'[i].oid)
                      /\ \A j \in 1..(i - 1) : ~(wire'[j].kind = "tu" /\ wire'[j].oid = wire'[i].oid)
    BY DEF AckFirst, InHand
  <2>1. \A j \in 1..(i - 1) : j \in DOMAIN wire' /\ (i \in DOMAIN wire => j \in DOMAIN wire)
    BY <1>1
  <2>2. CASE i \in DOMAIN wire
    <3>1. /\ wire'[i] = wire[i] /\ wire[i].oid \in DOMAIN ex
          /\ \A j \in 1..(i - 1) : wire'[j] = wire[j]
      BY <1>1, <2>1, <2>2 DEF IInv, NamedInv
    <3>2. /\ ex[wire[i].oid].got = 0
          /\ ~InHand(wire[i].oid)
          /\ \A j \in 1..(i - 1) : ~(wire[j].kind = "tu" /\ wire[j].oid = wire[i].oid)
      BY <2>2, <3>1 DEF IInv, AckFirst
    <3>3. ex'[wire'[i].oid].got = 0
      BY <3>1, <3>2
    <3>4. ~(h.pc \in {"rest", "exec"} /\ h.oid = wire'[i].oid)
      BY <3>1, <3>2 DEF InHand
    <3> QED BY <3>1, <3>2, <3>3, <3>4
  <2>3. CASE i \notin DOMAIN wire
    <3>1. wire'[i].oid \in DOMAIN ex' /\ wire'[i].oid \notin DOMAIN ex
      BY <1>2, <2>3
    <3>2. ex'[wire'[i].oid].got = 0
      BY <3>1
    <3>3. ~(h.pc \in {"rest", "exec"} /\ h.oid = wire'[i].oid)
      BY <1>6, <3>1 DEF InHand
    <3>4. \A j \in DOMAIN wire' : ~(wire'[j].kind = "tu" /\ wire'[j].oid = wire'[i].oid)
      <4> SUFFICES ASSUME NEW j \in DOMAIN wire', wire'[j].kind = "tu", wire'[j].oid = wire'[i].oid
                   PROVE  FALSE
        OBVIOUS
      <4>1. j \in DOMAIN wire /\ wire'[j] = wire[j]
        BY <1>2
      <4> QED BY <3>1, <4>1 DEF IInv, NamedInv
    <3> QED BY <2>1, <3>2, <3>3, <3>4
  <2> QED BY <2>2, <2>3
<1>8. TradesOnce'
  <2> SUFFICES ASSUME NEW o \in DOMAIN ex'
               PROVE  ex'[o].got + Cardinality(Trades(wire', o))
                        + (IF InHand(o)' THEN 1 ELSE 0) <= ex'[o].sent
    BY DEF TradesOnce
  <2>1. Trades(wire', o) = Trades(wire, o)
    BY <1>1, OtherTrades
  <2>2. CASE o \in DOMAIN ex
    BY <1>5, <2>1, <2>2 DEF IInv, TradesOnce
  <2>3. CASE o \notin DOMAIN ex
    <3>1. Trades(wire, o) = {}
      BY <2>3 DEF Trades, IInv, NamedInv
    <3>2. Cardinality(Trades(wire, o)) = 0
      BY <3>1, FS_EmptySet
    <3>3. ~InHand(o)'
      BY <1>5, <1>6, <2>3
    <3> QED BY <2>1, <2>3, <3>2, <3>3
  <2> QED BY <2>2, <2>3
<1> QED BY <1>3, <1>4, <1>7, <1>8

\* An order is entered.
LEMMA EnterFacts ==
    ASSUME ExType, NEW cid \in Key \ Text, NEW q \in Qty, Enter(cid, q)
    PROVE  /\ ExType'
           /\ DOMAIN ex' = DOMAIN ex \cup {Len(ex) + 1} /\ Len(ex) + 1 \notin DOMAIN ex
           /\ Len(ex) + 1 \in OrderID
           /\ ex'[Len(ex) + 1] = [cid |-> cid, qty |-> q, filled |-> 0, open |-> TRUE,
                                  sent |-> 0, got |-> 0]
           /\ \A o \in DOMAIN ex : ex'[o] = ex[o]
<1> DEFINE x == [cid |-> cid, qty |-> q, filled |-> 0, open |-> TRUE, sent |-> 0, got |-> 0]
<1>1. q \in Nat /\ 0 < q /\ q <= MaxQty
  BY OrderAssumption DEF Qty
<1>2. x \in ExOrder
  BY <1>1 DEF ExOrder
<1>3. ex \in Seq(ExOrder) /\ Len(ex) \in Nat /\ DOMAIN ex = 1..Len(ex) /\ Len(ex) < MaxOrders
      /\ ex' = Append(ex, x)
  BY DEF ExType, Enter
<1>4. /\ ex' \in Seq(ExOrder) /\ Len(ex') = Len(ex) + 1 /\ DOMAIN ex' = 1..(Len(ex) + 1)
      /\ ex'[Len(ex) + 1] = x /\ \A o \in DOMAIN ex : ex'[o] = ex[o]
  BY <1>2, <1>3
<1>5. DOMAIN ex' = DOMAIN ex \cup {Len(ex) + 1} /\ Len(ex) + 1 \notin DOMAIN ex /\ Len(ex) + 1 \in OrderID
  BY <1>3, <1>4, OrderAssumption DEF OrderID
<1>6. Len(ex') <= MaxOrders
  BY <1>3, <1>4, OrderAssumption
<1>7. ExType'
  <2> SUFFICES ASSUME NEW o \in DOMAIN ex'
               PROVE  /\ ex'[o].sent <= ex'[o].filled /\ ex'[o].filled <= ex'[o].qty /\ ex'[o].qty <= MaxQty
                      /\ ex'[o].open => ex'[o].filled < ex'[o].qty
    BY <1>4, <1>6 DEF ExType
  <2>1. CASE o \in DOMAIN ex
    BY <1>4, <2>1 DEF ExType
  <2>2. CASE o = Len(ex) + 1
    BY <1>1, <1>4, <2>2
  <2> QED BY <1>5, <2>1, <2>2
<1> QED BY <1>4, <1>5, <1>7

\* An order is entered with a CID that stood for none, and if it is of the
\* session its entry has the order's quantity.
LEMMA EnterInv ==
    ASSUME IInv, UNCHANGED <<orders, used, f, h>>,
           NEW cid \in Key \ Text, NEW q \in Qty, Enter(cid, q),
           cid # Zero => \A o \in DOMAIN ex : ex[o].cid # cid,
           cid \in ClOrd => cid \in used,
           cid \in DOMAIN orders => /\ orders[cid].src # "replace"
                                    /\ orders[cid].src = "fix" /\ cid # Zero => orders[cid].qty = q,
           reqs' \subseteq reqs,
           \A r \in reqs' : r.kind = "new" /\ r.cid # Zero => r.cid # cid,
           NEW s \in Seq(WireMessage), wire' = wire \o s, Len(wire) + Len(s) <= MaxWire,
           \A i \in DOMAIN s : s[i] = [kind |-> "ack", oid |-> Len(ex) + 1]
    PROVE  IInv'
<1>1. /\ ExType'
      /\ DOMAIN ex' = DOMAIN ex \cup {Len(ex) + 1} /\ Len(ex) + 1 \notin DOMAIN ex
      /\ ex'[Len(ex) + 1].cid = cid /\ ex'[Len(ex) + 1].qty = q
      /\ ex'[Len(ex) + 1].got = 0 /\ ex'[Len(ex) + 1].sent = 0
      /\ \A o \in DOMAIN ex : ex'[o] = ex[o]
  <2>1. /\ ExType'
        /\ DOMAIN ex' = DOMAIN ex \cup {Len(ex) + 1} /\ Len(ex) + 1 \notin DOMAIN ex
        /\ ex'[Len(ex) + 1] = [cid |-> cid, qty |-> q, filled |-> 0, open |-> TRUE,
                               sent |-> 0, got |-> 0]
        /\ \A o \in DOMAIN ex : ex'[o] = ex[o]
    BY EnterFacts DEF IInv
  <2> QED BY <2>1
<1>2. /\ CacheType' /\ FInv' /\ HInv' /\ OwnExecutions' /\ AckGivesOrderID'
      /\ CumQtyExact' /\ NeverOverfilled'
      /\ \A o : Replaced(o)' <=> Replaced(o)
  BY <1>1, BitfinexFrame
<1>3. WireType' /\ NamedInv' /\ AckFirst' /\ TradesOnce'
  BY <1>1, PublishOther
<1>4. OneOrderPerCID'
  BY <1>1 DEF IInv, OneOrderPerCID
<1>5. RequestInv'
  BY <1>1, <1>2 DEF IInv, RequestInv
<1>6. EntryInv'
  BY <1>1, <1>2 DEF IInv, EntryInv
<1> QED BY <1>1, <1>2, <1>3, <1>4, <1>5, <1>6 DEF IInv

\* An order changes, its quantity only if it was replaced, and messages that
\* are neither acknowledgements nor trades are published.
LEMMA ChangeInv ==
    ASSUME IInv, UNCHANGED <<orders, used, f, h>>, ExType', DOMAIN ex' = DOMAIN ex,
           \A o \in DOMAIN ex : /\ ex'[o].cid = ex[o].cid
                                /\ ex'[o].got = ex[o].got /\ ex'[o].sent = ex[o].sent
                                /\ ex'[o].qty = ex[o].qty \/ Replaced(o),
           reqs' \subseteq reqs,
           NEW s \in Seq(WireMessage), wire' = wire \o s, Len(wire) + Len(s) <= MaxWire,
           \A i \in DOMAIN s : /\ s[i].kind \in {"nack", "cancelled", "notCancelled", "ou", "oc"}
                               /\ s[i].kind \in {"ou", "oc"} => s[i].oid \in DOMAIN ex
    PROVE  IInv'
<1>1. /\ CacheType' /\ FInv' /\ HInv' /\ OwnExecutions' /\ AckGivesOrderID'
      /\ CumQtyExact' /\ NeverOverfilled'
      /\ \A o : Replaced(o)' <=> Replaced(o)
  BY BitfinexFrame
<1>2. WireType' /\ NamedInv' /\ AckFirst' /\ TradesOnce'
  BY PublishOther
<1>3. OneOrderPerCID'
  BY DEF IInv, OneOrderPerCID
<1>4. RequestInv'
  BY <1>1 DEF IInv, RequestInv
<1>5. EntryInv'
  BY <1>1 DEF IInv, EntryInv
<1> QED BY <1>1, <1>2, <1>3, <1>4, <1>5 DEF IInv

\* A message by itself.
LEMMA OneMessage ==
    ASSUME NEW m \in WireMessage
    PROVE  <<m>> \in Seq(WireMessage) /\ Len(<<m>>) = 1 /\ \A i \in DOMAIN <<m>> : <<m>>[i] = m
OBVIOUS

\* Two messages.
LEMMA TwoMessages ==
    ASSUME NEW m \in WireMessage, NEW n \in WireMessage
    PROVE  <<m, n>> \in Seq(WireMessage) /\ \A i \in DOMAIN <<m, n>> : <<m, n>>[i] \in {m, n}
<1>1. <<m, n>> \in Seq(WireMessage)
  OBVIOUS
<1>2. DOMAIN <<m, n>> = 1..2 /\ <<m, n>>[1] = m /\ <<m, n>>[2] = n
  OBVIOUS
<1>3. \A i \in 1..2 : i = 1 \/ i = 2
  OBVIOUS
<1> QED BY <1>1, <1>2, <1>3

\* One order of Bitfinex changes.
LEMMA SetOrder ==
    ASSUME ExType, NEW o \in DOMAIN ex, NEW x \in ExOrder, ex' = [ex EXCEPT ![o] = x]
    PROVE  /\ ex' \in Seq(ExOrder) /\ DOMAIN ex' = DOMAIN ex /\ Len(ex') = Len(ex)
           /\ ex'[o] = x
           /\ \A p \in DOMAIN ex : p # o => ex'[p] = ex[p]
BY DEF ExType

\* A new order is accepted, which no other request is about, or refused.
LEMMA AcceptInv ==
    ASSUME IInv, NEW r \in reqs, Accept(r)
    PROVE  IInv'
<1>1. r.kind = "new" /\ reqs' = reqs \ {r} /\ reqs' \subseteq reqs /\ UNCHANGED <<orders, used, f, h>>
  BY DEF Accept
<1>2. /\ r \in [kind : {"new"}, cid : ClOrd \cup {Zero}, qty : Qty]
      /\ r.cid \in Key \ Text /\ r.qty \in Qty
  <2>1. r \in [kind : {"new"}, cid : ClOrd \cup {Zero}, qty : Qty]
    BY <1>1 DEF IInv, RequestInv, Request
  <2> QED BY <2>1, Keys
<1>3. CASE Enter(r.cid, r.qty) /\ Publish(<<[kind |-> "ack", oid |-> Len(ex) + 1]>>)
  <2>1. Len(ex) + 1 \in OrderID
    BY <1>2, <1>3, EnterFacts DEF IInv
  <2>2. [kind |-> "ack", oid |-> Len(ex) + 1] \in WireMessage
    BY <2>1 DEF WireMessage
  <2>3. PICK s \in Seq(WireMessage) :
           /\ wire' = wire \o s /\ Len(wire) + Len(s) <= MaxWire
           /\ \A i \in DOMAIN s : s[i] = [kind |-> "ack", oid |-> Len(ex) + 1]
    BY <1>3, <2>2, OneMessage DEF Publish
  <2>4. r.cid # Zero => /\ \A o \in DOMAIN ex : ex[o].cid # r.cid
                        /\ r.cid \in DOMAIN orders /\ orders[r.cid].src = "fix"
                        /\ orders[r.cid].qty = r.qty
    BY <1>1 DEF IInv, RequestInv
  <2>5. r.cid \in ClOrd => r.cid \in used
    BY <2>4, Keys DEF IInv, OneOrderPerCID
  <2>6. Zero \in DOMAIN orders => orders[Zero].src # "replace"
    BY Keys DEF IInv, EntryInv
  <2>7. \A x \in reqs' : x.kind = "new" /\ x.cid # Zero => x.cid # r.cid
    <3> SUFFICES ASSUME NEW x \in reqs', x.kind = "new", x.cid # Zero, x.cid = r.cid
                 PROVE  x = r
      BY <1>1
    <3>1. x \in [kind : {"new"}, cid : ClOrd \cup {Zero}, qty : Qty]
      BY <1>1 DEF IInv, RequestInv, Request
    <3>2. x.qty = orders[x.cid].qty /\ r.qty = orders[r.cid].qty
      BY <1>1, <2>4 DEF IInv, RequestInv
    <3> QED BY <1>2, <3>1, <3>2
  <2>8. r.cid \in DOMAIN orders => /\ orders[r.cid].src # "replace"
                                   /\ orders[r.cid].src = "fix" /\ r.cid # Zero => orders[r.cid].qty = r.qty
    BY <2>4, <2>6
  <2> QED BY <1>1, <1>2, <1>3, <2>3, <2>4, <2>5, <2>7, <2>8, EnterInv
<1>4. CASE /\ Publish(<<[kind |-> "nack", cid |-> r.cid, qty |-> r.qty]>>)
           /\ UNCHANGED ex
  <2> DEFINE m == [kind |-> "nack", cid |-> r.cid, qty |-> r.qty]
  <2>1. m \in WireMessage /\ m.kind = "nack"
    BY <1>2 DEF WireMessage
  <2>2. PICK s \in Seq(WireMessage) :
           /\ wire' = wire \o s /\ Len(wire) + Len(s) <= MaxWire
           /\ \A i \in DOMAIN s : s[i] = m
    BY <1>4, <2>1, OneMessage DEF Publish
  <2> HIDE DEF m
  <2>3. ExType'
    BY <1>4 DEF IInv, ExType
  <2>4. \A i \in DOMAIN s : s[i].kind = "nack"
    BY <2>1, <2>2
  <2> QED BY <1>1, <1>4, <2>2, <2>3, <2>4, ChangeInv
<1> QED BY <1>3, <1>4 DEF Accept

\* An order is entered outside the session, with a CID that is not of it.
LEMMA EnterOutsideInv ==
    ASSUME IInv, NEW k \in Ext, NEW q \in Qty, EnterOutside(k, q)
    PROVE  IInv'
<1>1. /\ Enter(k, q) /\ UNCHANGED <<orders, used, reqs, f, h>>
      /\ \A o \in DOMAIN ex : ex[o].cid # k
  BY DEF EnterOutside
<1>2. k \in Key \ Text /\ k # Zero /\ k \notin ClOrd
  BY Keys
<1>3. k \in DOMAIN orders => orders[k].src # "replace" /\ orders[k].src # "fix"
  BY <1>2 DEF IInv, EntryInv
<1>4. \A r \in reqs : r.kind = "new" => r.cid # k
  <2>1. \A r \in reqs : r.kind = "new" => r.cid \in ClOrd \cup {Zero}
    BY DEF IInv, RequestInv, Request
  <2> QED BY <1>2, <2>1
<1>5. \E s \in Seq(WireMessage) :
         /\ wire' = wire \o s /\ Len(wire) + Len(s) <= MaxWire
         /\ \A i \in DOMAIN s : s[i] = [kind |-> "ack", oid |-> Len(ex) + 1]
  <2>1. CASE Publish(<<[kind |-> "ack", oid |-> Len(ex) + 1]>>)
    <3>1. Len(ex) + 1 \in OrderID
      BY <1>1, <1>2, EnterFacts DEF IInv
    <3>2. [kind |-> "ack", oid |-> Len(ex) + 1] \in WireMessage
      BY <3>1 DEF WireMessage
    <3> QED BY <2>1, <3>2, OneMessage DEF Publish
  <2>2. CASE UNCHANGED wire
    <3>1. wire \in Seq(WireMessage) /\ Len(wire) <= MaxWire
      BY DEF IInv, WireType
    <3>2. <<>> \in Seq(WireMessage) /\ wire' = wire \o <<>> /\ Len(wire) + Len(<<>>) <= MaxWire
          /\ DOMAIN <<>> = {}
      BY <2>2, <3>1
    <3> QED BY <3>2
  <2> QED BY <2>1, <2>2 DEF EnterOutside
<1> QED BY <1>1, <1>2, <1>3, <1>4, <1>5, EnterInv

\* Only an order that has its second entry is amended.
LEMMA AmendInv ==
    ASSUME IInv, NEW r \in reqs, Amend(r)
    PROVE  IInv'
<1>1. r.kind = "update" /\ reqs' = reqs \ {r} /\ UNCHANGED <<orders, used, f, h>>
  BY DEF Amend
<1>2. r \in [kind : {"update"}, oid : OrderID, qty : Qty] /\ Replaced(r.oid) /\ r.oid \in DOMAIN ex
  BY <1>1 DEF IInv, RequestInv, NamedInv, Request
<1>3. /\ r.qty \in Nat /\ r.qty <= MaxQty
      /\ ex[r.oid] \in ExOrder /\ ex[r.oid].filled \in Nat /\ ex \in Seq(ExOrder)
  BY <1>2, OrderFacts, OrderAssumption DEF IInv, ExType, Qty
<1>4. CASE /\ r.qty > ex[r.oid].filled
           /\ ex' = [ex EXCEPT ![r.oid].qty = r.qty]
           /\ Publish(<<[kind |-> "ou", oid |-> r.oid, st |-> {"ACTIVE"},
                         qty |-> r.qty - ex[r.oid].filled]>>)
  <2>1. [ex[r.oid] EXCEPT !.qty = r.qty] \in ExOrder
    BY <1>3 DEF ExOrder
  <2>2. /\ ex' \in Seq(ExOrder) /\ DOMAIN ex' = DOMAIN ex /\ Len(ex') = Len(ex)
        /\ ex'[r.oid] = [ex[r.oid] EXCEPT !.qty = r.qty]
        /\ \A o \in DOMAIN ex : o # r.oid => ex'[o] = ex[o]
    BY <1>2, <1>3, <1>4, <2>1
  <2>3. /\ ex'[r.oid].cid = ex[r.oid].cid /\ ex'[r.oid].qty = r.qty
        /\ ex'[r.oid].filled = ex[r.oid].filled /\ ex'[r.oid].open = ex[r.oid].open
        /\ ex'[r.oid].sent = ex[r.oid].sent /\ ex'[r.oid].got = ex[r.oid].got
    BY <1>3, <2>2 DEF ExOrder
  <2>4. ExType'
    <3> SUFFICES ASSUME NEW o \in DOMAIN ex
                 PROVE  /\ ex'[o].sent <= ex'[o].filled /\ ex'[o].filled <= ex'[o].qty /\ ex'[o].qty <= MaxQty
                        /\ ex'[o].open => ex'[o].filled < ex'[o].qty
      BY <2>2 DEF IInv, ExType
    <3>1. CASE o = r.oid
      BY <1>3, <1>4, <2>3, <3>1 DEF IInv, ExType
    <3>2. CASE o # r.oid
      BY <2>2, <3>2 DEF IInv, ExType
    <3> QED BY <3>1, <3>2
  <2> DEFINE m == [kind |-> "ou", oid |-> r.oid, st |-> {"ACTIVE"}, qty |-> r.qty - ex[r.oid].filled]
  <2>5. m \in WireMessage /\ m.kind = "ou" /\ m.oid = r.oid
    BY <1>2, <1>3, <1>4 DEF WireMessage, Word
  <2>6. PICK s \in Seq(WireMessage) :
           /\ wire' = wire \o s /\ Len(wire) + Len(s) <= MaxWire
           /\ \A i \in DOMAIN s : s[i] = m
    BY <1>4, <2>5, OneMessage DEF Publish
  <2> HIDE DEF m
  <2>7. \A i \in DOMAIN s : s[i].kind = "ou" /\ s[i].oid \in DOMAIN ex
    BY <1>2, <2>5, <2>6
  <2>8. \A o \in DOMAIN ex : /\ ex'[o].cid = ex[o].cid
                             /\ ex'[o].got = ex[o].got /\ ex'[o].sent = ex[o].sent
                             /\ ex'[o].qty = ex[o].qty \/ Replaced(o)
    BY <1>2, <2>2, <2>3
  <2>9. reqs' \subseteq reqs
    BY <1>1
  <2> QED BY <1>1, <2>2, <2>4, <2>6, <2>7, <2>8, <2>9, ChangeInv
<1>5. CASE UNCHANGED <<ex, wire>>
  <2>1. PICK s \in Seq(WireMessage) :
           wire' = wire \o s /\ Len(wire) + Len(s) <= MaxWire /\ DOMAIN s = {}
    <3>1. wire \in Seq(WireMessage) /\ Len(wire) <= MaxWire
      BY DEF IInv, WireType
    <3>2. <<>> \in Seq(WireMessage) /\ wire' = wire \o <<>> /\ Len(wire) + Len(<<>>) <= MaxWire
          /\ DOMAIN <<>> = {}
      BY <1>5, <3>1
    <3> QED BY <3>2
  <2>2. ExType' /\ reqs' \subseteq reqs
    BY <1>1, <1>5 DEF IInv, ExType
  <2> QED BY <1>1, <1>5, <2>1, <2>2, ChangeInv
<1> QED BY <1>4, <1>5 DEF Amend

\* An order is closed, and the request and the order's end are announced.
Close(o, was, cid) ==
    /\ ex' = [ex EXCEPT ![o].open = FALSE]
    /\ Publish(<<[kind |-> "cancelled", cid |-> cid],
                 [kind |-> "oc", oid |-> o, st |-> {"CANCELED"} \cup was, qty |-> Remaining(o)]>>)

\* An order that is closed keeps what was traded of it.
LEMMA CloseFacts ==
    ASSUME IInv, NEW o \in DOMAIN ex, NEW was \in SUBSET Word, NEW cid \in Key,
           Close(o, was, cid)
    PROVE  /\ ExType' /\ DOMAIN ex' = DOMAIN ex
           /\ \A p \in DOMAIN ex : /\ ex'[p].cid = ex[p].cid /\ ex'[p].qty = ex[p].qty
                                   /\ ex'[p].got = ex[p].got /\ ex'[p].sent = ex[p].sent
           /\ \E s \in Seq(WireMessage) :
                /\ wire' = wire \o s /\ Len(wire) + Len(s) <= MaxWire
                /\ \A i \in DOMAIN s : /\ s[i].kind \in {"cancelled", "oc"}
                                       /\ s[i].kind = "oc" => s[i].oid \in DOMAIN ex
<1>1. /\ o \in OrderID /\ ex[o] \in ExOrder /\ ex[o].qty \in Nat /\ ex[o].filled \in Nat
      /\ ex[o].filled <= ex[o].qty
  BY OrderFacts DEF IInv, ExType
<1>2. [ex[o] EXCEPT !.open = FALSE] \in ExOrder
  BY <1>1 DEF ExOrder
<1>3. ex' = [ex EXCEPT ![o] = [ex[o] EXCEPT !.open = FALSE]]
  BY DEF Close
<1>4. /\ ex' \in Seq(ExOrder) /\ DOMAIN ex' = DOMAIN ex /\ Len(ex') = Len(ex)
      /\ ex'[o] = [ex[o] EXCEPT !.open = FALSE]
      /\ \A p \in DOMAIN ex : p # o => ex'[p] = ex[p]
  BY <1>2, <1>3, SetOrder DEF IInv
<1>5. /\ ex'[o].cid = ex[o].cid /\ ex'[o].qty = ex[o].qty
      /\ ex'[o].filled = ex[o].filled /\ ex'[o].open = FALSE
      /\ ex'[o].sent = ex[o].sent /\ ex'[o].got = ex[o].got
  BY <1>1, <1>4 DEF ExOrder
<1>6. ExType'
  BY <1>4, <1>5 DEF IInv, ExType
<1> DEFINE m == [kind |-> "cancelled", cid |-> cid]
           n == [kind |-> "oc", oid |-> o, st |-> {"CANCELED"} \cup was, qty |-> Remaining(o)]
<1>7. m \in WireMessage /\ m.kind = "cancelled"
  BY DEF WireMessage
<1>8. n \in WireMessage /\ n.kind = "oc" /\ n.oid = o
  <2>1. Remaining(o) \in Nat
    BY <1>1 DEF Remaining
  <2>2. ({"CANCELED"} \cup was) \in SUBSET Word
    BY DEF Word
  <2> QED BY <1>1, <2>1, <2>2 DEF WireMessage
<1>9. Publish(<<m, n>>)
  BY DEF Close
<1> HIDE DEF m, n
<1>10. PICK s \in Seq(WireMessage) :
          /\ wire' = wire \o s /\ Len(wire) + Len(s) <= MaxWire
          /\ \A i \in DOMAIN s : s[i] \in {m, n}
  BY <1>7, <1>8, <1>9, TwoMessages DEF Publish
<1>11. \A i \in DOMAIN s : /\ s[i].kind \in {"cancelled", "oc"}
                           /\ s[i].kind = "oc" => s[i].oid \in DOMAIN ex
  BY <1>7, <1>8, <1>10
<1>12. \A p \in DOMAIN ex : /\ ex'[p].cid = ex[p].cid /\ ex'[p].qty = ex[p].qty
                            /\ ex'[p].got = ex[p].got /\ ex'[p].sent = ex[p].sent
  BY <1>4, <1>5
<1> QED BY <1>4, <1>6, <1>10, <1>11, <1>12

\* A working order is cancelled, or the request is refused.
LEMMA CancelInv ==
    ASSUME IInv, NEW r \in reqs, Cancel(r)
    PROVE  IInv'
<1> DEFINE hit == {o \in DOMAIN ex : ex[o].open /\ (r.oid = o \/ r.cid = ex[o].cid)}
<1>1. r.kind = "cancel" /\ reqs' = reqs \ {r} /\ reqs' \subseteq reqs /\ UNCHANGED <<orders, used, f, h>>
  BY DEF Cancel
<1>2. r.cid \in Key \cup {None}
  BY <1>1 DEF IInv, RequestInv, Request
<1>3. ASSUME NEW o \in hit, NEW was \in {{}, {"PARTIALLY FILLED"}}, NEW cid \in {ex[o].cid, Zero},
             Close(o, was, cid)
      PROVE  IInv'
  <2>1. o \in DOMAIN ex /\ was \in SUBSET Word
    BY DEF Word
  <2>2. cid \in Key
    BY <2>1, Keys, CIDEntry
  <2>3. /\ ExType' /\ DOMAIN ex' = DOMAIN ex
        /\ \A p \in DOMAIN ex : /\ ex'[p].cid = ex[p].cid /\ ex'[p].qty = ex[p].qty
                                /\ ex'[p].got = ex[p].got /\ ex'[p].sent = ex[p].sent
        /\ \E s \in Seq(WireMessage) :
             /\ wire' = wire \o s /\ Len(wire) + Len(s) <= MaxWire
             /\ \A i \in DOMAIN s : /\ s[i].kind \in {"cancelled", "oc"}
                                    /\ s[i].kind = "oc" => s[i].oid \in DOMAIN ex
    BY <1>3, <2>1, <2>2, CloseFacts
  <2> QED BY <1>1, <2>3, ChangeInv
<1>4. CASE /\ Publish(<<[kind |-> "notCancelled", cid |-> IF r.cid = None THEN Zero ELSE r.cid]>>)
           /\ UNCHANGED ex
  <2> DEFINE m == [kind |-> "notCancelled", cid |-> IF r.cid = None THEN Zero ELSE r.cid]
  <2>1. m \in WireMessage /\ m.kind = "notCancelled"
    <3>1. (IF r.cid = None THEN Zero ELSE r.cid) \in Key
      BY <1>2, Keys
    <3> QED BY <3>1 DEF WireMessage
  <2>2. PICK s \in Seq(WireMessage) :
           /\ wire' = wire \o s /\ Len(wire) + Len(s) <= MaxWire
           /\ \A i \in DOMAIN s : s[i] = m
    BY <1>4, <2>1, OneMessage DEF Publish
  <2> HIDE DEF m
  <2>3. ExType'
    BY <1>4 DEF IInv, ExType
  <2>4. \A i \in DOMAIN s : s[i].kind = "notCancelled"
    BY <2>1, <2>2
  <2> QED BY <1>1, <1>4, <2>2, <2>3, <2>4, ChangeInv
<1> QED
  <2>1. \/ \E o \in hit, was \in {{}, {"PARTIALLY FILLED"}} : \E cid \in {ex[o].cid, Zero} :
             Close(o, was, cid)
        \/ /\ Publish(<<[kind |-> "notCancelled", cid |-> IF r.cid = None THEN Zero ELSE r.cid]>>)
           /\ UNCHANGED ex
    BY DEF Cancel, Close
  <2> QED BY <1>3, <1>4, <2>1

\* An order is filled by one lot, which closes it at its quantity.
LEMMA FillInv ==
    ASSUME IInv, NEW o \in DOMAIN ex, Fill(o)
    PROVE  IInv'
<1> SUFFICES ASSUME NEW n, n = ex[o].filled + 1
             PROVE  IInv'
  OBVIOUS
<1>0. (n < ex[o].qty) \in BOOLEAN
  OBVIOUS
<1> SUFFICES ASSUME NEW b \in BOOLEAN, b = (n < ex[o].qty)
             PROVE  IInv'
  BY <1>0, Zenon
<1> DEFINE partly == IF n > 1 \/ n < ex[o].qty THEN {"PARTIALLY FILLED"} ELSE {}
           m == IF n < ex[o].qty
                  THEN [kind |-> "ou", oid |-> o, st |-> partly, qty |-> ex[o].qty - n]
                  ELSE [kind |-> "oc", oid |-> o, st |-> partly \cup {"EXECUTED"}, qty |-> 0]
           x == [ex[o] EXCEPT !.filled = n, !.open = b]
<1>1. /\ ex[o].open /\ UNCHANGED <<orders, used, reqs, f, h>>
      /\ ex' = [ex EXCEPT ![o] = x] /\ Publish(<<m>>)
  <2>1. n < ex[o].qty <=> b
    OBVIOUS
  <2> QED BY <2>1 DEF Fill
<1>2. /\ o \in OrderID /\ ex[o] \in ExOrder /\ ex[o].qty \in Nat /\ ex[o].filled \in Nat
      /\ ex[o].sent \in Nat
      /\ ex[o].sent <= ex[o].filled /\ ex[o].filled < ex[o].qty /\ ex[o].qty <= MaxQty
      /\ n \in Nat /\ n <= ex[o].qty /\ ex[o].sent <= n
  <2>1. /\ o \in OrderID /\ ex[o] \in ExOrder /\ ex[o].qty \in Nat /\ ex[o].filled \in Nat
        /\ ex[o].sent \in Nat
        /\ ex[o].sent <= ex[o].filled /\ ex[o].filled < ex[o].qty /\ ex[o].qty <= MaxQty
    BY <1>1, OrderFacts DEF IInv, ExType
  <2> QED BY <2>1
<1>3. x \in ExOrder /\ x.cid = ex[o].cid /\ x.qty = ex[o].qty /\ x.filled = n
      /\ x.open = b /\ x.sent = ex[o].sent /\ x.got = ex[o].got
  BY <1>2 DEF ExOrder
<1>4. m \in WireMessage /\ m.kind \in {"ou", "oc"} /\ m.oid = o
  <2>1. partly \in SUBSET Word /\ partly \cup {"EXECUTED"} \in SUBSET Word
    BY DEF Word
  <2>2. n < ex[o].qty => ex[o].qty - n \in Nat
    BY <1>2
  <2> HIDE DEF partly
  <2> QED BY <1>2, <2>1, <2>2 DEF WireMessage
<1> HIDE DEF m, x
<1>5. /\ ex' \in Seq(ExOrder) /\ DOMAIN ex' = DOMAIN ex /\ Len(ex') = Len(ex)
      /\ ex'[o] = x /\ \A p \in DOMAIN ex : p # o => ex'[p] = ex[p]
  BY <1>1, <1>3, SetOrder DEF IInv
<1>6. ExType'
  <2> SUFFICES ASSUME NEW p \in DOMAIN ex
               PROVE  /\ ex'[p].sent <= ex'[p].filled /\ ex'[p].filled <= ex'[p].qty /\ ex'[p].qty <= MaxQty
                      /\ ex'[p].open => ex'[p].filled < ex'[p].qty
    BY <1>5 DEF IInv, ExType
  <2>1. CASE p = o
    BY <1>2, <1>3, <1>5, <2>1
  <2>2. CASE p # o
    BY <1>5, <2>2 DEF IInv, ExType
  <2> QED BY <2>1, <2>2
<1>7. PICK s \in Seq(WireMessage) :
         /\ wire' = wire \o s /\ Len(wire) + Len(s) <= MaxWire
         /\ \A i \in DOMAIN s : s[i] = m
  BY <1>1, <1>4, OneMessage DEF Publish
<1>8. \A i \in DOMAIN s : s[i].kind \in {"ou", "oc"} /\ s[i].oid \in DOMAIN ex
  BY <1>4, <1>7
<1>9. \A p \in DOMAIN ex : /\ ex'[p].cid = ex[p].cid
                           /\ ex'[p].got = ex[p].got /\ ex'[p].sent = ex[p].sent
                           /\ ex'[p].qty = ex[p].qty \/ Replaced(p)
  BY <1>3, <1>5
<1>10. reqs' \subseteq reqs
  BY <1>1
<1> QED BY <1>1, <1>5, <1>6, <1>7, <1>8, <1>9, <1>10, ChangeInv

\* One trade more is on the wire after it was published.
LEMMA MoreTrades ==
    ASSUME NEW w \in Seq(WireMessage), NEW o, NEW m \in WireMessage, m.kind = "tu", m.oid = o
    PROVE  Cardinality(Trades(Append(w, m), o)) = Cardinality(Trades(w, o)) + 1
<1>1. /\ Len(w) \in Nat /\ DOMAIN w = 1..Len(w) /\ DOMAIN Append(w, m) = 1..(Len(w) + 1)
      /\ \A i \in 1..Len(w) : Append(w, m)[i] = w[i]
      /\ Append(w, m)[Len(w) + 1] = m
  OBVIOUS
<1>2. 1..(Len(w) + 1) = 1..Len(w) \cup {Len(w) + 1} /\ Len(w) + 1 \notin 1..Len(w)
  BY <1>1
<1>3. Trades(Append(w, m), o) = Trades(w, o) \cup {Len(w) + 1} /\ Len(w) + 1 \notin Trades(w, o)
  BY <1>1, <1>2 DEF Trades
<1>4. IsFiniteSet(Trades(w, o))
  BY TradesFinite
<1> QED BY <1>3, <1>4, FS_AddElement

\* A trade is published after the acknowledgement of its order, and once.
LEMMA PublishTradeInv ==
    ASSUME IInv, NEW o \in DOMAIN ex, PublishTrade(o)
    PROVE  IInv'
<1> DEFINE m == [kind |-> "tu", oid |-> o]
           x == [ex[o] EXCEPT !.sent = ex[o].sent + 1]
<1>1. /\ ex[o].sent < ex[o].filled /\ UNCHANGED <<orders, used, reqs, f, h>>
      /\ ex' = [ex EXCEPT ![o] = x] /\ Publish(<<m>>)
  BY DEF PublishTrade
<1>2. /\ o \in OrderID /\ ex[o] \in ExOrder /\ ex[o].qty \in Nat /\ ex[o].filled \in Nat
      /\ ex[o].sent \in Nat /\ ex[o].sent + 1 \in Nat /\ ex[o].sent + 1 <= ex[o].filled
  <2>1. /\ o \in OrderID /\ ex[o] \in ExOrder /\ ex[o].qty \in Nat /\ ex[o].filled \in Nat
        /\ ex[o].sent \in Nat
    BY OrderFacts DEF IInv
  <2> QED BY <1>1, <2>1
<1>3. x \in ExOrder /\ x.cid = ex[o].cid /\ x.qty = ex[o].qty /\ x.filled = ex[o].filled
      /\ x.open = ex[o].open /\ x.sent = ex[o].sent + 1 /\ x.got = ex[o].got
  BY <1>2 DEF ExOrder
<1>4. m \in WireMessage /\ m.kind = "tu" /\ m.oid = o
  BY <1>2 DEF WireMessage
<1> HIDE DEF m, x
<1>5. /\ ex' \in Seq(ExOrder) /\ DOMAIN ex' = DOMAIN ex /\ Len(ex') = Len(ex)
      /\ ex'[o] = x /\ \A p \in DOMAIN ex : p # o => ex'[p] = ex[p]
  BY <1>1, <1>3, SetOrder DEF IInv
<1>6. ExType'
  <2> SUFFICES ASSUME NEW p \in DOMAIN ex
               PROVE  /\ ex'[p].sent <= ex'[p].filled /\ ex'[p].filled <= ex'[p].qty /\ ex'[p].qty <= MaxQty
                      /\ ex'[p].open => ex'[p].filled < ex'[p].qty
    BY <1>5 DEF IInv, ExType
  <2>1. CASE p = o
    BY <1>2, <1>3, <1>5, <2>1 DEF IInv, ExType
  <2>2. CASE p # o
    BY <1>5, <2>2 DEF IInv, ExType
  <2> QED BY <2>1, <2>2
<1>7. \A p \in DOMAIN ex : /\ ex'[p].cid = ex[p].cid /\ ex'[p].qty = ex[p].qty
                           /\ ex'[p].got = ex[p].got
  BY <1>3, <1>5
<1>8. /\ CacheType' /\ FInv' /\ HInv' /\ OwnExecutions' /\ AckGivesOrderID'
      /\ CumQtyExact' /\ NeverOverfilled'
      /\ \A p : Replaced(p)' <=> Replaced(p)
  BY <1>1, <1>5, <1>7, BitfinexFrame
<1>9. OneOrderPerCID' /\ RequestInv' /\ EntryInv'
  BY <1>1, <1>5, <1>7, <1>8 DEF IInv, OneOrderPerCID, RequestInv, EntryInv
<1>10. /\ wire \in Seq(WireMessage) /\ Len(wire) \in Nat
       /\ wire' = Append(wire, m) /\ Len(wire) + 1 <= MaxWire
       /\ wire' \in Seq(WireMessage) /\ Len(wire') = Len(wire) + 1
       /\ DOMAIN wire = 1..Len(wire) /\ DOMAIN wire' = 1..(Len(wire) + 1)
       /\ wire'[Len(wire) + 1] = m
       /\ \A i \in 1..Len(wire) : wire'[i] = wire[i]
  <2>1. wire \in Seq(WireMessage) /\ wire' = wire \o <<m>> /\ Len(wire) + Len(<<m>>) <= MaxWire
    BY <1>1 DEF IInv, WireType, Publish
  <2> QED BY <1>4, <2>1
<1>11. WireType'
  BY <1>10 DEF WireType
<1>12. \A i \in DOMAIN wire' : wire'[i].kind # "tu" \/ wire'[i] # m =>
           i \in DOMAIN wire /\ wire'[i] = wire[i]
  BY <1>4, <1>10
<1>13. NamedInv'
  <2>1. \A i \in DOMAIN wire' : wire'[i] = m \/ (i \in DOMAIN wire /\ wire'[i] = wire[i])
    BY <1>12
  <2> QED BY <1>1, <1>4, <1>5, <2>1 DEF IInv, NamedInv
<1>14. AckFirst'
  <2> SUFFICES ASSUME NEW i \in DOMAIN wire', wire'[i].kind = "ack"
               PROVE  /\ ex'[wire'[i].oid].got = 0
                      /\ ~(h'.pc \in {"rest", "exec"} /\ h'.oid = wire'[i].oid)
                      /\ \A j \in 1..(i - 1) : ~(wire'[j].kind = "tu" /\ wire'[j].oid = wire'[i].oid)
    BY DEF AckFirst, InHand
  <2>1. i \in DOMAIN wire /\ wire'[i] = wire[i]
    BY <1>12
  <2>2. \A j \in 1..(i - 1) : j \in DOMAIN wire /\ wire'[j] = wire[j]
    BY <1>10, <2>1
  <2>3. wire[i].oid \in DOMAIN ex
    BY <2>1 DEF IInv, NamedInv
  <2>4. /\ ex[wire[i].oid].got = 0
        /\ ~(h.pc \in {"rest", "exec"} /\ h.oid = wire[i].oid)
        /\ \A j \in 1..(i - 1) : ~(wire[j].kind = "tu" /\ wire[j].oid = wire[i].oid)
    BY <2>1 DEF IInv, AckFirst, InHand
  <2> QED BY <1>1, <1>7, <2>1, <2>2, <2>3, <2>4
<1>15. TradesOnce'
  <2> SUFFICES ASSUME NEW p \in DOMAIN ex
               PROVE  ex'[p].got + Cardinality(Trades(wire', p))
                        + (IF InHand(p)' THEN 1 ELSE 0) <= ex'[p].sent
    BY <1>5 DEF TradesOnce
  <2>1. InHand(p)' <=> InHand(p)
    BY <1>1 DEF InHand
  <2>2. ex[p].got \in Nat /\ ex[p].sent \in Nat /\ Cardinality(Trades(wire, p)) \in Nat
    BY <1>10, TradesFinite, OrderFacts DEF IInv
  <2>3. ex[p].got + Cardinality(Trades(wire, p)) + (IF InHand(p) THEN 1 ELSE 0) <= ex[p].sent
    BY DEF IInv, TradesOnce
  <2>4. CASE p = o
    <3>1. Cardinality(Trades(wire', p)) = Cardinality(Trades(wire, p)) + 1
      BY <1>4, <1>10, <2>4, MoreTrades
    <3> QED BY <1>3, <1>5, <2>1, <2>2, <2>3, <2>4, <3>1
  <2>5. CASE p # o
    <3>1. Trades(wire', p) = Trades(wire, p)
      BY <1>4, <1>10, <2>5 DEF Trades
    <3> QED BY <1>5, <2>1, <2>3, <2>5, <3>1
  <2> QED BY <2>4, <2>5
<1> QED BY <1>6, <1>8, <1>9, <1>11, <1>13, <1>14, <1>15 DEF IInv

\* The order of a list of a finite set.
LEMMA Listing ==
    ASSUME NEW S, IsFiniteSet(S), NEW l \in SequenceSets!SetToSeqs(S)
    PROVE  l \in Seq(S)
<1>0. SequenceSets!Cardinality(S) = Cardinality(S)
  BY DEF SequenceSets!Cardinality, Cardinality
<1>1. l \in [1..Cardinality(S) -> S]
  BY <1>0 DEF SequenceSets!SetToSeqs
<1>2. Cardinality(S) \in Nat
  BY FS_CardinalityType
<1> QED BY <1>1, <1>2

\* What was on its way is lost; the working orders are listed.
LEMMA ReconnectInv ==
    ASSUME IInv, Reconnect
    PROVE  IInv'
<1> DEFINE working == {o \in DOMAIN ex : ex[o].open}
<1>1. reqs' = {} /\ UNCHANGED <<orders, used, ex, f, h>>
  BY DEF Reconnect
<1>2. PICK l \in SequenceSets!SetToSeqs(working) :
         wire' = <<[kind |-> "os",
                    list |-> [i \in DOMAIN l |-> [oid |-> l[i], qty |-> Remaining(l[i])]]]>>
  BY DEF Reconnect
<1>3. IsFiniteSet(working)
  <2>1. ex \in Seq(ExOrder)
    BY DEF IInv, ExType
  <2>2. Len(ex) \in Nat /\ working \in SUBSET (1..Len(ex))
    BY <2>1
  <2> QED BY <2>2, FS_Interval, FS_Subset
<1>4. l \in Seq(working)
  BY <1>3, Listing
<1>5. \A i \in DOMAIN l : l[i] \in DOMAIN ex
  BY <1>4
<1> HIDE DEF working
<1> DEFINE list == [i \in DOMAIN l |-> [oid |-> l[i], qty |-> Remaining(l[i])]]
           m == [kind |-> "os", list |-> list]
<1>6. \A o \in DOMAIN ex : Remaining(o) \in Nat /\ o \in OrderID
  <2> SUFFICES ASSUME NEW o \in DOMAIN ex PROVE Remaining(o) \in Nat /\ o \in OrderID
    OBVIOUS
  <2>1. ex[o].qty \in Nat /\ ex[o].filled \in Nat /\ ex[o].filled <= ex[o].qty /\ o \in OrderID
    BY OrderFacts DEF IInv, ExType
  <2> QED BY <2>1 DEF Remaining
<1>7. /\ list \in Seq(Listed)
      /\ \A j \in DOMAIN list : list[j].oid \in DOMAIN ex
  <2>1. Len(l) \in Nat /\ DOMAIN l = 1..Len(l)
    BY <1>4
  <2>2. \A i \in DOMAIN l : [oid |-> l[i], qty |-> Remaining(l[i])] \in Listed
    BY <1>5, <1>6 DEF Listed
  <2>3. list \in [1..Len(l) -> Listed]
    BY <2>1, <2>2
  <2> QED BY <1>5, <2>1, <2>3
<1> HIDE DEF list
<1>8. m \in WireMessage /\ m.kind = "os" /\ m.list = list
  BY <1>7 DEF WireMessage
<1>9. wire' = <<m>>
  BY <1>2 DEF list
<1> HIDE DEF m
<1>10. wire' \in Seq(WireMessage) /\ Len(wire') = 1 /\ \A i \in DOMAIN wire' : wire'[i] = m
  BY <1>8, <1>9, OneMessage
<1>11. WireType'
  BY <1>10, OrderAssumption DEF WireType
<1>12. ExType'
  BY <1>1 DEF IInv, ExType
<1>13. NamedInv'
  BY <1>1, <1>7, <1>8, <1>10 DEF NamedInv
<1>14. AckFirst'
  BY <1>8, <1>10 DEF AckFirst
<1>15. TradesOnce'
  <2> SUFFICES ASSUME NEW o \in DOMAIN ex
               PROVE  ex[o].got + Cardinality(Trades(wire', o))
                        + (IF InHand(o)' THEN 1 ELSE 0) <= ex[o].sent
    BY <1>1 DEF TradesOnce
  <2>1. Trades(wire', o) = {}
    BY <1>8, <1>10 DEF Trades
  <2>2. Cardinality(Trades(wire', o)) = 0
    BY <2>1, FS_EmptySet
  <2>3. InHand(o)' <=> InHand(o)
    BY <1>1 DEF InHand
  <2>4. ex[o].got \in Nat /\ ex[o].sent \in Nat /\ Cardinality(Trades(wire, o)) \in Nat
    BY TradesFinite, OrderFacts DEF IInv, WireType
  <2> QED BY <2>2, <2>3, <2>4 DEF IInv, TradesOnce
<1>16. /\ CacheType' /\ FInv' /\ HInv' /\ OwnExecutions' /\ AckGivesOrderID'
       /\ CumQtyExact' /\ NeverOverfilled'
       /\ \A p : Replaced(p)' <=> Replaced(p)
  BY <1>1, BitfinexFrame
<1>17. OneOrderPerCID' /\ RequestInv' /\ EntryInv'
  BY <1>1, <1>16 DEF IInv, OneOrderPerCID, RequestInv, EntryInv
<1> QED BY <1>11, <1>12, <1>13, <1>14, <1>15, <1>16, <1>17 DEF IInv
-----------------------------------------------------------------------------
(***************************************************************************)
(* The invariant, and what follows from it.                                *)
(***************************************************************************)

\* The invariant holds with an empty cache and no orders.
LEMMA InitInv ==
    ASSUME Init
    PROVE  IInv
<1>1. DOMAIN orders = {} /\ ex = <<>> /\ wire = <<>> /\ DOMAIN ex = {} /\ DOMAIN wire = {}
  BY DEF Init
<1>2. ex \in Seq(ExOrder) /\ Len(ex) = 0 /\ wire \in Seq(WireMessage) /\ Len(wire) = 0
  BY <1>1
<1>3. CacheType /\ ExType /\ WireType
  BY <1>1, <1>2, OrderAssumption DEF CacheType, ExType, WireType
<1>4. NamedInv /\ OneOrderPerCID /\ RequestInv /\ EntryInv
  BY <1>1 DEF Init, NamedInv, OneOrderPerCID, RequestInv, EntryInv
<1>5. FInv /\ HInv
  BY DEF Init, Idle, FInv, HInv
<1>6. AckFirst /\ TradesOnce
  BY <1>1 DEF AckFirst, TradesOnce
<1>7. OwnExecutions /\ AckGivesOrderID /\ CumQtyExact /\ NeverOverfilled
  BY <1>1 DEF OwnExecutions, AckGivesOrderID, CumQtyExact, NeverOverfilled
<1> QED BY <1>3, <1>4, <1>5, <1>6, <1>7 DEF IInv

\* Every step of the FIX goroutine, of Bitfinex and of Service.listen keeps
\* the invariant.
LEMMA NextInv ==
    ASSUME IInv, Next
    PROVE  IInv'
<1>1. CASE FIXStep
  BY <1>1, OnFIXNewOrderSingleInv, OnFIXOrderCancelReplaceRequestInv, SubmitUpdateOrderInv,
     OnFIXOrderCancelRequestInv, StatusInv, StatusAddOrderInv DEF FIXStep
<1>2. CASE BitfinexStep
  BY <1>2, AcceptInv, AmendInv, CancelInv, EnterOutsideInv, FillInv, PublishTradeInv,
     ReconnectInv DEF BitfinexStep
<1>3. CASE ListenStep
  BY <1>3, OrderAckInv, OrderAckOutsideInv, ReportInv, TradeLookupInv, TradeFallbackInv,
     TradeReportInv, OrderSnapshotInv, SnapshotAddOrderInv, SnapshotTradesInv,
     SnapshotExecutionInv, SnapshotReportInv DEF ListenStep
<1> QED BY <1>1, <1>2, <1>3 DEF Next

\* Nothing happens.
LEMMA StutterInv ==
    ASSUME IInv, UNCHANGED vars
    PROVE  IInv'
<1>1. UNCHANGED <<orders, used, reqs, ex, wire, f, h>>
  BY DEF vars
<1>2. CacheInv' /\ OneOrderPerCID' /\ RequestInv' /\ FInv'
  BY <1>1, SameCache
<1>3. ExType' /\ WireType' /\ NamedInv' /\ AckFirst' /\ TradesOnce'
  BY <1>1, FIXWire DEF IInv, NamedInv
<1>4. HInv' /\ AckGivesOrderID'
  BY <1>1 DEF IInv, HInv, AckGivesOrderID, WithOrderID
<1> QED BY <1>2, <1>3, <1>4 DEF IInv, CacheInv

\* The inductive invariant holds in every state.
THEOREM RoutingInvariant == Spec => []IInv
<1>1. Init => IInv
  BY InitInv
<1>2. IInv /\ [Next]_vars => IInv'
  BY NextInv, StutterInv
<1> QED BY <1>1, <1>2, PTL DEF Spec

\* TypeOK: the cache and Bitfinex's orders keep their types, and an order's
\* trades are handled after they were published and published after they
\* were made.
THEOREM RoutingTypes == Spec => []TypeOK
<1>1. IInv => TypeOK
  <2> SUFFICES ASSUME IInv PROVE TypeOK
    OBVIOUS
  <2>1. \A o \in DOMAIN ex : ex[o].got <= ex[o].sent
    <3> SUFFICES ASSUME NEW o \in DOMAIN ex PROVE ex[o].got <= ex[o].sent
      OBVIOUS
    <3>1. ex[o].got \in Nat /\ ex[o].sent \in Nat /\ Cardinality(Trades(wire, o)) \in Nat
      BY TradesFinite, OrderFacts DEF IInv, WireType
    <3> QED BY <3>1 DEF IInv, TradesOnce
  <2>2. \A o \in DOMAIN ex : ex[o].cid \in Key \ Text
    BY OrderFacts DEF IInv
  <2>3. /\ DOMAIN orders \subseteq Key
        /\ \A c \in DOMAIN orders :
             orders[c] \in [oid : OrderID \cup {NoOrder}, qty : Nat, execs : Seq(OrderID),
                           src : {"fix", "replace", "status", "ack", "rest", "snapshot"}]
    BY DEF IInv, CacheType, Entry, Source
  <2>4. /\ Len(ex) <= MaxOrders /\ Len(wire) <= MaxWire /\ used \subseteq ClOrd \cup Text
        /\ \A o \in DOMAIN ex : ex[o].sent <= ex[o].filled /\ ex[o].filled <= ex[o].qty
                                /\ ex[o].qty <= MaxQty
    BY DEF IInv, ExType, WireType, OneOrderPerCID
  <2>5. /\ f.pc \in {"idle", "replace", "status", "unknown"}
        /\ h.pc \in {"idle", "ack", "rest", "exec", "snapshot", "trades", "restore"}
    BY DEF IInv, FInv, HInv
  <2> QED BY <2>1, <2>2, <2>3, <2>4, <2>5 DEF TypeOK
<1> QED BY <1>1, RoutingInvariant, PTL

\* OneEntryPerOrder: unless an order was replaced, the entry with its OrderID
\* is that of its CID, so that LookupByOrderID and AddExecution, which range
\* over a map, find the same entry every time.
THEOREM LookupsAgree == Spec => []OneEntryPerOrder
<1>1. IInv => OneEntryPerOrder
  BY DEF IInv, EntryInv, OneEntryPerOrder, Replaced
<1> QED BY <1>1, RoutingInvariant, PTL

\* OwnExecutions: AddExecution never puts an execution in another order's
\* entry.
THEOREM ExecutionsAreOwn == Spec => []OwnExecutions
<1>1. IInv => OwnExecutions
  BY DEF IInv
<1> QED BY <1>1, RoutingInvariant, PTL

\* AckGivesOrderID: the entry an acknowledgement added is without OrderID
\* only while the acknowledgement is being handled.
THEOREM AckedHasOrderID == Spec => []AckGivesOrderID
<1>1. IInv => AckGivesOrderID
  BY DEF IInv
<1> QED BY <1>1, RoutingInvariant, PTL

\* CumQtyExact: CumQty of an order of the session is that of the trade
\* updates handled, whatever the FIX goroutine and Service.listen did in
\* between, unless the order was replaced or listed in a snapshot.
THEOREM CumQtyIsExact == Spec => []CumQtyExact
<1>1. IInv => CumQtyExact
  BY DEF IInv
<1> QED BY <1>1, RoutingInvariant, PTL

\* NeverOverfilled: unless an order was replaced, CumQty is at most what was
\* traded, also after reconnections.
THEOREM CumQtyIsBounded == Spec => []NeverOverfilled
<1>1. IInv => NeverOverfilled
  BY DEF IInv
<1> QED BY <1>1, RoutingInvariant, PTL

\* The entry of an order's CID has no other order's OrderID.
LEMMA OIDOfCID ==
    ASSUME IInv, NEW o \in DOMAIN ex, ex[o].cid \in DOMAIN orders, ex[o].cid # Zero,
           orders[ex[o].cid].oid # NoOrder
    PROVE  orders[ex[o].cid].oid = o
BY DEF IInv, EntryInv, OneOrderPerCID

\* AddOrder takes the OrderID of the entry it replaces.
LEMMA AddOID ==
    ASSUME NEW c, NEW q, NEW o, NEW src, AddOrder(c, q, o, src), NEW k \in DOMAIN orders,
           orders'[k].oid # orders[k].oid
    PROVE  k = c
BY DEF AddOrder

\* UpdateOrder and AddExecution leave the OrderIDs of other entries.
LEMMA UpdateOID ==
    ASSUME NEW c, NEW o, UpdateOrder(c, o) \/ AddExecution(c, o), NEW k \in DOMAIN orders,
           orders'[k].oid # orders[k].oid
    PROVE  k = c
BY DEF UpdateOrder, AddExecution

\* OrderIDLostByCause: no handler takes from an entry the OrderID it has, but
\* the snapshot's and a status request's AddOrder: acknowledgements and REST
\* fallbacks give the entry of a CID the OrderID it has already.
THEOREM OrderIDsStay == Spec => OrderIDLostByCause
<1>1. ASSUME IInv, Next, NEW c \in DOMAIN orders,
             orders[c].oid # NoOrder, orders'[c].oid # orders[c].oid
      PROVE  SnapshotAddOrder \/ StatusAddOrder \/ c = Zero
  <2> SUFFICES ASSUME ~SnapshotAddOrder, ~StatusAddOrder, c # Zero PROVE FALSE
    OBVIOUS
  <2>1. orders' # orders
    BY <1>1
  <2>2. ASSUME NEW o \in DOMAIN ex, c = ex[o].cid PROVE orders[c].oid = o
    BY <1>1, <2>2, OIDOfCID
  <2>3. ASSUME NEW o \in DOMAIN ex, UpdateOrder(ex[o].cid, o) PROVE FALSE
    <3>1. c = ex[o].cid
      BY <1>1, <2>3, UpdateOID
    <3>2. orders[c].oid = o /\ orders'[c].oid = o
      BY <1>1, <2>2, <2>3, <3>1, OrderFacts, UpdateFacts DEF IInv
    <3> QED BY <1>1, <3>2
  <2>4. ASSUME NEW o, NEW k \in WithOrderID(o), AddExecution(k, o) PROVE FALSE
    <3>1. c = k
      BY <1>1, <2>4, UpdateOID
    <3>2. orders'[c].oid = orders[c].oid
      <4>1. orders[c] \in Entry
        BY <1>1 DEF IInv, CacheType
      <4>2. orders'[c] = [orders[c] EXCEPT !.execs = Append(orders[c].execs, o)]
        BY <1>1, <2>4, <3>1 DEF AddExecution
      <4> QED BY <4>1, <4>2 DEF Entry
    <3> QED BY <1>1, <3>2
  <2>5. CASE FIXStep
    <3>1. ASSUME NEW k \in ClOrd \cup Text, NEW q \in Qty, OnFIXNewOrderSingle(k, q) PROVE FALSE
      <4>1. k \notin DOMAIN orders /\ AddOrder(k, q, NoOrder, "fix")
        BY <1>1, <3>1, Unused DEF OnFIXNewOrderSingle
      <4> QED BY <1>1, <4>1, AddOID
    <3>2. ASSUME NEW oc \in Key, NEW k \in ClOrd \cup Text, NEW q \in Qty,
                 OnFIXOrderCancelReplaceRequest(oc, k, q) PROVE FALSE
      <4>1. k \notin DOMAIN orders /\ AddOrder(k, q, NoOrder, "replace")
        BY <1>1, <2>1, <3>2, Unused DEF OnFIXOrderCancelReplaceRequest
      <4> QED BY <1>1, <4>1, AddOID
    <3>3. CASE SubmitUpdateOrder
      <4>1. UpdateOrder(f.cl, f.oid) /\ orders[f.cl].oid = NoOrder
        BY <1>1, <3>3 DEF SubmitUpdateOrder, IInv, FInv
      <4> QED BY <1>1, <4>1, UpdateOID
    <3> QED BY <2>1, <2>5, <3>1, <3>2, <3>3
        DEF FIXStep, OnFIXOrderCancelRequest, OnFIXOrderStatusRequest, StatusLookup
  <2>6. CASE BitfinexStep
    BY <2>1, <2>6 DEF BitfinexStep, Accept, Amend, Cancel, EnterOutside, Fill, PublishTrade, Reconnect
  <2>7. CASE ListenStep
    <3>1. CASE OrderAck
      <4>1. Head(wire).oid \in DOMAIN ex
        <5>1. wire # <<>> /\ Head(wire).kind = "ack"
          BY <3>1 DEF OrderAck, Receive
        <5>2. 1 \in DOMAIN wire /\ Head(wire) = wire[1]
          BY <1>1, <5>1 DEF IInv, WireType
        <5> QED BY <1>1, <5>1, <5>2 DEF IInv, NamedInv
      <4>2. CASE UpdateOrder(ex[Head(wire).oid].cid, Head(wire).oid)
        BY <2>3, <4>1, <4>2
      <4>3. CASE /\ ex[Head(wire).oid].cid \notin DOMAIN orders
                 /\ AddOrder(ex[Head(wire).oid].cid, ex[Head(wire).oid].qty, NoOrder, "ack")
        BY <1>1, <4>3, AddOID
      <4> QED BY <3>1, <4>2, <4>3 DEF OrderAck
    <3>2. CASE OrderAckOutside
      <4>1. h.oid \in DOMAIN ex
        BY <1>1, <3>2 DEF OrderAckOutside, IInv, HInv
      <4> QED BY <2>1, <2>3, <3>2, <4>1 DEF OrderAckOutside
    <3>3. CASE TradeFallback
      <4>1. /\ h.oid \in DOMAIN ex /\ \A k \in WithOrderID(h.oid) : orders[k].src = "replace"
            /\ AddOrder(ex[h.oid].cid, Remaining(h.oid), h.oid, "rest")
        BY <1>1, <2>1, <3>3 DEF TradeFallback, IInv, HInv
      <4>2. c = ex[h.oid].cid
        BY <1>1, <4>1, AddOID
      <4>3. c \in WithOrderID(h.oid)
        BY <1>1, <2>2, <4>1, <4>2 DEF WithOrderID
      <4> QED BY <1>1, <4>1, <4>2, <4>3, CIDEntry
    <3>4. CASE TradeReport \/ SnapshotExecution
      BY <2>1, <2>4, <3>4 DEF TradeReport, SnapshotExecution
    <3>5. CASE SnapshotReport
      <4>1. h.oid \in DOMAIN ex
        BY <1>1, <3>5 DEF SnapshotReport, IInv, HInv
      <4> QED BY <2>1, <2>3, <3>5, <4>1 DEF SnapshotReport
    <3> QED BY <2>1, <2>7, <3>1, <3>2, <3>3, <3>4, <3>5
        DEF ListenStep, OrderRejected, CancelAck, CancelRejected, FIXOrderUpdateHandler,
            FIXOrderCancelHandler, TradeLookup, OrderSnapshot, SnapshotTrades
  <2> QED BY <1>1, <2>5, <2>6, <2>7 DEF Next
<1>2. IInv /\ [Next]_vars =>
        [\A c \in DOMAIN orders :
           orders[c].oid # NoOrder /\ orders'[c].oid # orders[c].oid =>
              SnapshotAddOrder \/ StatusAddOrder \/ c = Zero]_vars
  BY <1>1
<1> QED BY <1>2, RoutingInvariant, PTL DEF Spec, OrderIDLostByCause

\* What is known of an order of the session that was not replaced.
LEMMA SessionOrder ==
    ASSUME IInv, NEW o \in DOMAIN ex, NEW c \in DOMAIN orders, c # Zero,
           orders[c].src = "fix", orders[c].oid = o, ~Replaced(o)
    PROVE  /\ c = ex[o].cid /\ WithOrderID(o) = {c}
           /\ FilledQty(c) = ex[o].got /\ orders[c].qty = ex[o].qty
           /\ ex[o].got \in Nat /\ ex[o].qty \in Nat
           /\ InHand(o) => ex[o].got + 1 <= ex[o].qty
<1>1. o # NoOrder /\ ex[o].got \in Nat /\ ex[o].qty \in Nat /\ ex[o].sent \in Nat /\ ex[o].filled \in Nat
  BY OrderFacts DEF IInv
<1>2. c \in WithOrderID(o) /\ \A k \in WithOrderID(o) : k = ex[o].cid
  BY <1>1, OwnEntry DEF WithOrderID, IInv
<1>3. c = ex[o].cid /\ WithOrderID(o) = {c}
  BY <1>2
<1>4. FilledQty(c) = ex[o].got
  BY <1>1 DEF IInv, CumQtyExact
<1>5. orders[c].qty = ex[o].qty
  BY <1>3 DEF IInv, EntryInv
<1>6. InHand(o) => ex[o].got + 1 <= ex[o].qty
  <2>1. Cardinality(Trades(wire, o)) \in Nat
    BY TradesFinite DEF IInv, WireType
  <2> QED BY <1>1, <2>1 DEF IInv, TradesOnce, ExType
<1> QED BY <1>1, <1>3, <1>4, <1>5, <1>6

\* The report of a trade of such an order.
LEMMA SessionTrade ==
    ASSUME IInv, TradeReport, NEW c \in DOMAIN orders \ {Zero}, h.cl = c,
           orders[c].src = "fix", ~Replaced(h.oid)
    PROVE  /\ h.oid \in DOMAIN ex /\ orders[c].oid = h.oid
           /\ ex'[h.oid].got = ex[h.oid].got + 1
           /\ er' = [status |-> IF ex'[h.oid].got = ex[h.oid].qty THEN "FILLED" ELSE "PARTIALLY_FILLED",
                     cl |-> c, qty |-> ex[h.oid].qty, cum |-> ex'[h.oid].got]
<1> SUFFICES ASSUME NEW o, o = h.oid
             PROVE  /\ o \in DOMAIN ex /\ orders[c].oid = o
                    /\ ex'[o].got = ex[o].got + 1
                    /\ er' = [status |-> IF ex'[o].got = ex[o].qty THEN "FILLED" ELSE "PARTIALLY_FILLED",
                              cl |-> c, qty |-> ex[o].qty, cum |-> ex'[o].got]
  OBVIOUS
<1>1. h.pc = "exec" /\ h' = Idle /\ UNCHANGED <<reqs, wire>> /\ ex' = [ex EXCEPT ![o].got = @ + 1]
  BY DEF TradeReport
<1>2. o \in DOMAIN ex /\ orders[c].oid = o /\ orders[c].qty = h.qty
  BY <1>1 DEF IInv, HInv
<1>3. ex'[o].got = ex[o].got + 1
  BY <1>1, CountTrade
<1>4. /\ WithOrderID(o) = {c} /\ FilledQty(c) = ex[o].got /\ orders[c].qty = ex[o].qty
      /\ ex[o].got \in Nat /\ ex[o].qty \in Nat /\ ex[o].got + 1 <= ex[o].qty
  BY <1>1, <1>2, SessionOrder DEF InHand
<1>5. er' = [status |-> TradeStatus(FilledQty(c) + 1, h.qty), cl |-> c, qty |-> h.qty,
             cum |-> FilledQty(c) + 1]
  BY <1>4 DEF TradeReport, Report
<1>6. TradeStatus(FilledQty(c) + 1, h.qty) =
        IF ex'[o].got = ex[o].qty THEN "FILLED" ELSE "PARTIALLY_FILLED"
  BY <1>2, <1>3, <1>4 DEF TradeStatus
<1> QED BY <1>2, <1>3, <1>4, <1>5, <1>6

\* FilledAtLastTrade: TradeReport says FILLED of an order of the session at
\* its last trade and at no other.
THEOREM FilledAtLast == Spec => FilledAtLastTrade
<1>1. ASSUME IInv, NEW c \in DOMAIN orders \ {Zero}, TradeReport, h.cl = c,
             orders[c].src = "fix", ~Replaced(h.oid)
      PROVE  er'.status = "FILLED" <=> ex'[h.oid].got = ex[h.oid].qty
  <2>1. er' = [status |-> IF ex'[h.oid].got = ex[h.oid].qty THEN "FILLED" ELSE "PARTIALLY_FILLED",
               cl |-> c, qty |-> ex[h.oid].qty, cum |-> ex'[h.oid].got]
    BY <1>1, SessionTrade
  <2> QED BY <2>1
<1>2. IInv =>
        [\A c \in DOMAIN orders \ {Zero} :
           /\ TradeReport /\ h.cl = c
           /\ orders[c].src = "fix" /\ ~Replaced(h.oid)
           => (er'.status = "FILLED" <=> ex'[h.oid].got = ex[h.oid].qty)]_vars
  BY <1>1
<1> QED BY <1>2, RoutingInvariant, PTL DEF FilledAtLastTrade

\* QuantitiesReported: the four handlers that report CumQty of an order of
\* the session report that of the trades handled, and those that report what
\* is left of it agree with it.
THEOREM QuantitiesAgree == Spec => QuantitiesReported
<1>1. ASSUME IInv, NEW o \in DOMAIN ex, er' # NoReport, er'.cl = ex[o].cid, ex[o].cid \in ClOrd,
             ex[o].cid \in DOMAIN orders, orders[ex[o].cid].src = "fix",
             orders[ex[o].cid].oid = o, ~Replaced(o)
      PROVE  /\ TradeReport \/ CancelAck \/ FIXOrderCancelHandler \/ StatusLookup =>
                  er'.cum = ex'[o].got
             /\ TradeReport \/ CancelAck => LeavesQty(er') = ex[o].qty - ex'[o].got
  <2> SUFFICES ASSUME NEW c, c = ex[o].cid
               PROVE  /\ TradeReport \/ CancelAck \/ FIXOrderCancelHandler \/ StatusLookup =>
                           er'.cum = ex'[o].got
                      /\ TradeReport \/ CancelAck => LeavesQty(er') = ex[o].qty - ex'[o].got
    OBVIOUS
  <2>1. c # Zero /\ c \in DOMAIN orders
    BY <1>1, Keys
  <2>2. /\ WithOrderID(o) = {c} /\ FilledQty(c) = ex[o].got /\ orders[c].qty = ex[o].qty
        /\ ex[o].got \in Nat /\ ex[o].qty \in Nat
    BY <1>1, <2>1, SessionOrder
  <2>3. \A p \in DOMAIN ex : ex[p].cid = c => p = o
    BY <1>1, <2>1 DEF IInv, OneOrderPerCID
  <2>4. CASE TradeReport
    <3>1. h.cl = c
      BY <1>1, <2>4 DEF TradeReport, Report, Silent
    <3>2. h.oid = o
      BY <1>1, <2>4, <3>1 DEF TradeReport, IInv, HInv
    <3>3. er' = [status |-> IF ex'[h.oid].got = ex[h.oid].qty THEN "FILLED" ELSE "PARTIALLY_FILLED",
                 cl |-> c, qty |-> ex[h.oid].qty, cum |-> ex'[h.oid].got]
      BY <1>1, <2>1, <2>4, <3>1, <3>2, SessionTrade
    <3> QED BY <3>2, <3>3 DEF LeavesQty
  <2>5. CASE CancelAck
    <3>1. er' = [status |-> "PENDING_CANCEL", cl |-> Head(wire).cid, qty |-> orders[Head(wire).cid].qty,
                 cum |-> FilledQty(Head(wire).cid)] /\ ex' = ex
      BY <1>1, <2>5 DEF CancelAck, Report, Silent
    <3>2. Head(wire).cid = c
      BY <1>1, <3>1
    <3>3. er'.cum = ex'[o].got /\ er'.qty = ex[o].qty /\ er'.status # "CANCELED"
      BY <2>2, <3>1, <3>2
    <3> QED BY <2>2, <3>3 DEF LeavesQty
  <2>6. CASE FIXOrderCancelHandler
    <3>1. wire # <<>> /\ Head(wire).kind = "oc" /\ ex' = ex
      BY <2>6 DEF FIXOrderCancelHandler, Receive
    <3>2. Head(wire).oid \in DOMAIN ex
      <4>1. 1 \in DOMAIN wire /\ Head(wire) = wire[1]
        BY <1>1, <3>1 DEF IInv, WireType
      <4> QED BY <1>1, <3>1, <4>1 DEF IInv, NamedInv
    <3>3. \E k \in WithOrderID(Head(wire).oid) :
             er' = [status |-> OrdStatusToFIX(Head(wire).st), cl |-> ex[Head(wire).oid].cid,
                    qty |-> Head(wire).qty, cum |-> FilledQty(k)]
      BY <1>1, <2>6 DEF FIXOrderCancelHandler, Report, Silent
    <3>4. Head(wire).oid = o
      BY <1>1, <2>3, <3>2, <3>3
    <3>5. er'.cum = ex'[o].got
      BY <2>2, <3>1, <3>3, <3>4
    <3> QED BY <2>4, <2>5, <3>5
  <2>7. CASE StatusLookup
    <3>1. f.oid \in DOMAIN ex /\ ex' = ex /\ f.pc = "status"
      BY <1>1, <2>7 DEF StatusLookup, IInv, FInv
    <3>2. \E k \in WithOrderID(f.oid) :
             er' = [status |-> "STATUS", cl |-> ex[f.oid].cid, qty |-> f.qty, cum |-> FilledQty(k)]
      BY <1>1, <2>7 DEF StatusLookup, Report, Silent
    <3>3. f.oid = o
      BY <1>1, <2>3, <3>1, <3>2
    <3>4. er'.cum = ex'[o].got
      BY <2>2, <3>1, <3>2, <3>3
    <3> QED BY <2>4, <2>5, <3>4
  <2> QED BY <2>4, <2>5, <2>6, <2>7
<1>2. IInv =>
        [\A o \in DOMAIN ex :
         /\ er' # NoReport /\ er'.cl = ex[o].cid /\ ex[o].cid \in ClOrd
         /\ ex[o].cid \in DOMAIN orders /\ orders[ex[o].cid].src = "fix" /\ orders[ex[o].cid].oid = o
         /\ ~Replaced(o)
         => /\ TradeReport \/ CancelAck \/ FIXOrderCancelHandler \/ StatusLookup =>
                 er'.cum = ex'[o].got
            /\ TradeReport \/ CancelAck => LeavesQty(er') = ex[o].qty - ex'[o].got]_vars
  BY <1>1
<1> QED BY <1>2, RoutingInvariant, PTL DEF QuantitiesReported
=============================================================================
