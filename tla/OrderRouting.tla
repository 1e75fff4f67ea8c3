---------------------------- MODULE OrderRouting ----------------------------
(***************************************************************************)
(* Orders of one FIX session: the handlers of order messages on the FIX    *)
(* session's goroutine, the handlers of websocket messages that            *)
(* Service.listen runs concurrently, and the order cache both work on.     *)
(* Bitfinex is external: it accepts, fills and cancels orders, publishes   *)
(* what it did on the websocket and answers REST requests.  Trades are of  *)
(* one lot, so that quantities are counts; prices, sides, types and flags  *)
(* are copied through and left out.  An accepted FIX message is complete:  *)
(* one with a missing field is rejected and changes nothing.               *)
(***************************************************************************)
EXTENDS Naturals, Sequences, FiniteSets

SequenceSets == INSTANCE SequencesExt

CONSTANTS ClOrd,      \* ClOrdIDs of the client that are integers
          Text,       \* ClOrdIDs of the client that are not
          Ext,        \* CIDs of orders entered outside the session
          Zero,       \* the ClOrdID "0"
          None,
          MaxReqs,      \* bound on the requests on their way
          MaxReconnects,
          MaxOrders, MaxQty, MaxWire    \* bounds on Bitfinex

ASSUME OrderAssumption ==
    /\ MaxOrders \in Nat /\ MaxQty \in Nat /\ MaxWire \in Nat \ {0} /\ MaxReqs \in Nat /\ MaxReconnects \in Nat
    /\ ClOrd \cap Text = {} /\ ClOrd \cap Ext = {} /\ Text \cap Ext = {}
    /\ Zero \notin ClOrd \cup Text \cup Ext
    /\ None \notin ClOrd \cup Text \cup Ext \cup {Zero}

VARIABLES
    orders,     \* cache.orders: ClOrdID -> CachedOrder
    used,       \* ClOrdIDs the client has used: it uses each one once
    reqs,       \* requests on their way to Bitfinex
    ex,         \* Bitfinex's orders; an OrderID is a position
    wire,       \* messages of the websocket, in order
    f,          \* the FIX goroutine between two uses of the cache
    h,          \* Service.listen between two uses of the cache
    reconnects, \* reconnections so far
    er          \* the ExecutionReport or reject this step sent

vars == <<orders, used, reqs, ex, wire, f, h, reconnects, er>>

Key      == ClOrd \cup Text \cup Ext \cup {Zero}
OrderID  == 1..MaxOrders
Qty      == 1..MaxQty
NoOrder  == 0           \* CachedOrder.OrderID not yet known

Idle == [pc |-> "idle"]
NoReport == [status |-> "none", cl |-> None, qty |-> 0, cum |-> 0]

Init ==
    /\ orders = [c \in {} |-> None]
    /\ used = {}
    /\ reqs = {}
    /\ ex = <<>>
    /\ wire = <<>>
    /\ f = Idle
    /\ h = Idle
    /\ reconnects = 0
    /\ er = NoReport
-----------------------------------------------------------------------------
(***************************************************************************)
(* The cache.  src remembers which caller of AddOrder made the entry;      *)
(* Executions is reduced to the OrderIDs the executions belong to.         *)
(***************************************************************************)

AddOrder(c, q, o, src) ==
    orders' = [k \in DOMAIN orders \cup {c} |->
                 IF k = c THEN [oid |-> o, qty |-> q, execs |-> <<>>, src |-> src]
                          ELSE orders[k]]

\* Faulty variants of UpdateOrder: the ClOrdID is stored for the OrderID, any
\* entry without an OrderID is updated, the OrderID moves from entry to entry.
UpdateOrderSwapped(c, o) == orders' = [orders EXCEPT ![c].oid = c]
UpdateOrderUnkeyed(c, o) ==
    \E k \in DOMAIN orders : /\ k = c \/ orders[k].oid = NoOrder
                             /\ orders' = [orders EXCEPT ![k].oid = o]
UpdateOrderMoves(c, o) ==
    orders' = [k \in DOMAIN orders |->
                 IF k = c THEN [orders[k] EXCEPT !.oid = o]
                 ELSE [orders[k] EXCEPT !.oid = IF @ = o THEN NoOrder ELSE @]]

UpdateOrder(c, o) == orders' = [orders EXCEPT ![c].oid = o]

\* Faulty variant: the OrderIDs are not compared.
WithAnyOrderID(o) == DOMAIN orders

\* LookupByOrderID and AddExecution take the first match in map order: any.
WithOrderID(o) == {c \in DOMAIN orders : orders[c].oid = o}

AddExecution(c, o) == orders' = [orders EXCEPT ![c].execs = Append(@, o)]

FilledQty(c) == Len(orders[c].execs)

\* OrderNewFromFIXNewOrderSingle: a ClOrdID that is no integer becomes 0.
CID(c) == IF c \in Text THEN Zero ELSE c

\* OrdStatusToFIX: st is the set of status words the text contains.
OrdStatusToFIX(st) ==
    IF "EXECUTED" \in st THEN "FILLED"
    ELSE IF "PARTIALLY FILLED" \in st THEN "PARTIALLY_FILLED"
    ELSE IF "CANCELED" \in st THEN "CANCELED" ELSE "NEW"

\* Ws.SubmitOrder, SubmitUpdateOrder and Send.
Submit(r) ==
    /\ Cardinality(reqs) < MaxReqs
    /\ reqs' = reqs \cup {r}

\* FIXExecutionReport: qty is OrderQty, cum CumQty.
Report(status, cl, qty, cum) == er' = [status |-> status, cl |-> cl, qty |-> qty, cum |-> cum]
Silent == er' = NoReport

\* FIXOrderCancelReject.
CancelReject(cl) == Report("cancelReject", cl, 0, 0)

\* Faulty variant: an order filled to its quantity is not yet filled.
TradeStatusOffByOne(cum, qty) == IF cum > qty THEN "FILLED" ELSE "PARTIALLY_FILLED"

\* FIXExecutionReportFromTradeExecutionUpdate.
TradeStatus(cum, qty) == IF cum >= qty THEN "FILLED" ELSE "PARTIALLY_FILLED"

Remaining(o) == ex[o].qty - ex[o].filled
-----------------------------------------------------------------------------
(***************************************************************************)
(* FIX messages.                                                           *)
(***************************************************************************)

\* The order is cached, then submitted; a failure to submit is reported.
OnFIXNewOrderSingle(c, q) ==
    /\ f = Idle
    /\ c \notin used
    /\ used' = used \cup {c}
    /\ AddOrder(c, q, NoOrder, "fix")
    /\ \/ Submit([kind |-> "new", cid |-> CID(c), qty |-> q]) /\ Silent
       \/ Report("REJECTED", CID(c), q, 0) /\ UNCHANGED reqs
    /\ UNCHANGED <<ex, wire, f, h, reconnects>>

\* The original order must be cached with an OrderID, both IDs be integers.
Replaceable(oc, c) ==
    c \in ClOrd /\ oc \in DOMAIN orders \ Text /\ orders[oc].oid # NoOrder

OnFIXOrderCancelReplaceRequest(oc, c, q) ==
    /\ f = Idle
    /\ c \notin used
    /\ used' = used \cup {c}
    /\ IF Replaceable(oc, c)
         THEN /\ AddOrder(c, q, NoOrder, "replace")
              /\ f' = [pc |-> "replace", cl |-> c, oid |-> orders[oc].oid, qty |-> q]
              /\ Silent
         ELSE CancelReject(c) /\ UNCHANGED <<orders, f>>
    /\ UNCHANGED <<reqs, ex, wire, h, reconnects>>

\* UpdateOrder with the OrderID of the original, then SubmitUpdateOrder.
SubmitUpdateOrder ==
    /\ f.pc = "replace"
    /\ UpdateOrder(f.cl, f.oid)
    /\ \/ Submit([kind |-> "update", oid |-> f.oid, qty |-> f.qty]) /\ Silent
       \/ Report("REJECTED", f.cl, f.qty, 0) /\ UNCHANGED reqs
    /\ f' = Idle
    /\ UNCHANGED <<used, ex, wire, h, reconnects>>

\* By OrderID or by ClOrdID; nothing is cached (AddCancel has no caller).
OnFIXOrderCancelRequest(oc, c) ==
    /\ f = Idle
    /\ c \notin used
    /\ used' = used \cup {c}
    /\ \/ \E o \in OrderID :
            Submit([kind |-> "cancel", oid |-> o, cid |-> None])
          /\ Silent
       \/ /\ oc \notin Text
          /\ Submit([kind |-> "cancel", oid |-> NoOrder, cid |-> oc])
          /\ Silent
       \/ CancelReject(c) /\ UNCHANGED reqs
    /\ UNCHANGED <<orders, ex, wire, f, h, reconnects>>

\* The order is fetched over REST, which knows working orders only.  Its
\* amount is what remains of it.
OnFIXOrderStatusRequest(o) ==
    /\ f = Idle
    /\ \/ /\ o \in DOMAIN ex /\ ex[o].open
          /\ f' = [pc |-> "status", oid |-> o, qty |-> Remaining(o)]
          /\ Silent
       \/ Report("reject", None, 0, 0) /\ UNCHANGED f
    /\ UNCHANGED <<orders, used, reqs, ex, wire, h, reconnects>>

StatusLookup ==
    LET o == f.oid IN
    /\ f.pc = "status"
    /\ \/ /\ \E c \in WithOrderID(o) : Report("STATUS", ex[o].cid, f.qty, FilledQty(c))
          /\ f' = Idle
       \/ /\ WithOrderID(o) = {}
          /\ f' = [f EXCEPT !.pc = "unknown"]
          /\ Silent
    /\ UNCHANGED <<orders, used, reqs, ex, wire, h, reconnects>>

\* An order that is not cached is added, without its OrderID.
StatusAddOrder ==
    LET c == ex[f.oid].cid IN
    /\ f.pc = "unknown"
    /\ AddOrder(c, f.qty, NoOrder, "status")
    /\ Report("STATUS", c, f.qty, 0)
    /\ f' = Idle
    /\ UNCHANGED <<used, reqs, ex, wire, h, reconnects>>
-----------------------------------------------------------------------------
(***************************************************************************)
(* Bitfinex.                                                               *)
(***************************************************************************)

Publish(msgs) == Len(wire) + Len(msgs) <= MaxWire /\ wire' = wire \o msgs

Enter(cid, q) ==
    /\ Len(ex) < MaxOrders
    /\ ex' = Append(ex, [cid |-> cid, qty |-> q, filled |-> 0, open |-> TRUE,
                         sent |-> 0, got |-> 0])

Accept(r) ==
    /\ r.kind = "new"
    /\ \/ /\ Enter(r.cid, r.qty)
          /\ Publish(<<[kind |-> "ack", oid |-> Len(ex) + 1]>>)
       \/ Publish(<<[kind |-> "nack", cid |-> r.cid, qty |-> r.qty]>>) /\ UNCHANGED ex
    /\ reqs' = reqs \ {r}
    /\ Silent
    /\ UNCHANGED <<orders, used, f, h, reconnects>>

\* Entered elsewhere with the same API key, before or during the session.
EnterOutside(k, q) ==
    /\ \A o \in DOMAIN ex : ex[o].cid # k
    /\ Enter(k, q)
    /\ Publish(<<[kind |-> "ack", oid |-> Len(ex) + 1]>>) \/ UNCHANGED wire
    /\ Silent
    /\ UNCHANGED <<orders, used, reqs, f, h, reconnects>>

\* A refused update is answered with an ou-req notification, which the
\* gateway does not handle: it is left out.
Amend(r) ==
    /\ r.kind = "update"
    /\ \/ /\ ex[r.oid].open /\ r.qty > ex[r.oid].filled
          /\ ex' = [ex EXCEPT ![r.oid].qty = r.qty]
          /\ Publish(<<[kind |-> "ou", oid |-> r.oid, st |-> {"ACTIVE"},
                        qty |-> r.qty - ex[r.oid].filled]>>)
       \/ UNCHANGED <<ex, wire>>
    /\ reqs' = reqs \ {r}
    /\ Silent
    /\ UNCHANGED <<orders, used, f, h, reconnects>>

\* The answer to a cancel request names the order's CID, or none (0), and the
\* status text may mention an earlier partial fill.
Cancel(r) ==
    LET hit == {o \in DOMAIN ex : ex[o].open /\ (r.oid = o \/ r.cid = ex[o].cid)} IN
    /\ r.kind = "cancel"
    /\ \/ \E o \in hit, was \in {{}, {"PARTIALLY FILLED"}} : \E cid \in {ex[o].cid, Zero} :
            /\ was # {} => ex[o].filled > 0
            /\ ex' = [ex EXCEPT ![o].open = FALSE]
            /\ Publish(<<[kind |-> "cancelled", cid |-> cid],
                         [kind |-> "oc", oid |-> o, st |-> {"CANCELED"} \cup was,
                          qty |-> Remaining(o)]>>)
       \/ /\ hit = {}
          /\ Publish(<<[kind |-> "notCancelled",
                         cid |-> IF r.cid = None THEN Zero ELSE r.cid]>>)
          /\ UNCHANGED ex
    /\ reqs' = reqs \ {r}
    /\ Silent
    /\ UNCHANGED <<orders, used, f, h, reconnects>>

Fill(o) ==
    LET n == ex[o].filled + 1
        partly == IF n > 1 \/ n < ex[o].qty THEN {"PARTIALLY FILLED"} ELSE {} IN
    /\ ex[o].open
    /\ ex' = [ex EXCEPT ![o].filled = n, ![o].open = n < ex[o].qty]
    /\ Publish(<<IF n < ex[o].qty
                   THEN [kind |-> "ou", oid |-> o, st |-> partly, qty |-> ex[o].qty - n]
                   ELSE [kind |-> "oc", oid |-> o, st |-> partly \cup {"EXECUTED"},
                         qty |-> 0]>>)
    /\ Silent
    /\ UNCHANGED <<orders, used, reqs, f, h, reconnects>>

\* The tu of a trade is published at any time after it.
PublishTrade(o) ==
    /\ ex[o].sent < ex[o].filled
    /\ ex' = [ex EXCEPT ![o].sent = @ + 1]
    /\ Publish(<<[kind |-> "tu", oid |-> o]>>)
    /\ Silent
    /\ UNCHANGED <<orders, used, reqs, f, h, reconnects>>

\* The connection is lost with what was on its way.  After the automatic
\* reconnection the working orders are listed in a snapshot.
Reconnect ==
    LET working == {o \in DOMAIN ex : ex[o].open} IN
    /\ reconnects < MaxReconnects
    /\ reconnects' = reconnects + 1
    /\ \E list \in SequenceSets!SetToSeqs(working) :
         wire' = <<[kind |-> "os",
                    list |-> [i \in DOMAIN list |->
                                [oid |-> list[i], qty |-> Remaining(list[i])]]]>>
    /\ reqs' = {}
    /\ Silent
    /\ UNCHANGED <<orders, used, ex, f, h>>
-----------------------------------------------------------------------------
(***************************************************************************)
(* Messages of the websocket, handled one at a time by Service.listen.     *)
(***************************************************************************)

Receive(kind) ==
    /\ h = Idle
    /\ wire # <<>>
    /\ Head(wire).kind = kind
    /\ wire' = Tail(wire)

\* on-req, accepted: an order that is not cached was entered elsewhere.
OrderAck ==
    LET o == Head(wire).oid
        c == ex[o].cid IN
    /\ Receive("ack")
    /\ \/ /\ c \in DOMAIN orders
          /\ UpdateOrder(c, o)
          /\ Report("NEW", c, ex[o].qty, 0)
          /\ UNCHANGED h
       \/ /\ c \notin DOMAIN orders
          /\ AddOrder(c, ex[o].qty, NoOrder, "ack")
          /\ h' = [pc |-> "ack", oid |-> o, qty |-> ex[o].qty]
          /\ Silent
    /\ UNCHANGED <<used, reqs, ex, f, reconnects>>

\* Faulty variant: the OrderID is not set.
OrderAckForgets ==
    /\ h.pc = "ack"
    /\ Report("NEW", ex[h.oid].cid, h.qty, 0)
    /\ h' = Idle
    /\ UNCHANGED <<orders, used, reqs, ex, wire, f, reconnects>>

\* The OrderID is set in the entry AddOrder returned, without the lock; a
\* status request may have replaced the entry since.
OrderAckOutside ==
    LET c == ex[h.oid].cid IN
    /\ h.pc = "ack"
    /\ IF orders[c].src = "ack" THEN UpdateOrder(c, h.oid) ELSE UNCHANGED orders
    /\ Report("NEW", c, h.qty, 0)
    /\ h' = Idle
    /\ UNCHANGED <<used, reqs, ex, wire, f, reconnects>>

OrderRejected ==
    /\ Receive("nack")
    /\ Report("REJECTED", Head(wire).cid, Head(wire).qty, 0)
    /\ UNCHANGED <<orders, used, reqs, ex, f, h, reconnects>>

\* oc-req: the cancel's own ClOrdID is not in the cache.
CancelAck ==
    LET c == Head(wire).cid IN
    /\ Receive("cancelled")
    /\ IF c \in DOMAIN orders
         THEN Report("PENDING_CANCEL", c, orders[c].qty, FilledQty(c))
         ELSE Silent
    /\ UNCHANGED <<orders, used, reqs, ex, f, h, reconnects>>

CancelRejected ==
    /\ Receive("notCancelled")
    /\ CancelReject(Head(wire).cid)
    /\ UNCHANGED <<orders, used, reqs, ex, f, h, reconnects>>

FIXOrderUpdateHandler ==
    LET m == Head(wire) IN
    /\ Receive("ou")
    /\ Report(OrdStatusToFIX(m.st), ex[m.oid].cid, m.qty, 0)
    /\ UNCHANGED <<orders, used, reqs, ex, f, h, reconnects>>

\* Faulty variant: CumQty is 0, as in the report of an update.
CancelWithoutCumQty ==
    LET m == Head(wire)
        status == OrdStatusToFIX(m.st) IN
    /\ Receive("oc")
    /\ \/ /\ WithOrderID(m.oid) = {} \/ status \in {"FILLED", "PARTIALLY_FILLED"}
          /\ Silent
       \/ /\ status \notin {"FILLED", "PARTIALLY_FILLED"}
          /\ WithOrderID(m.oid) # {}
          /\ Report(status, ex[m.oid].cid, m.qty, 0)
    /\ UNCHANGED <<orders, used, reqs, ex, f, h, reconnects>>

FIXOrderCancelHandler ==
    LET m == Head(wire)
        status == OrdStatusToFIX(m.st) IN
    /\ Receive("oc")
    /\ \/ /\ WithOrderID(m.oid) = {} \/ status \in {"FILLED", "PARTIALLY_FILLED"}
          /\ Silent
       \/ /\ status \notin {"FILLED", "PARTIALLY_FILLED"}
          /\ \E c \in WithOrderID(m.oid) :
               Report(status, ex[m.oid].cid, m.qty, FilledQty(c))
    /\ UNCHANGED <<orders, used, reqs, ex, f, h, reconnects>>

\* tu: the order is looked up and its ClOrdID and quantity read.
TradeLookup ==
    LET o == Head(wire).oid IN
    /\ Receive("tu")
    /\ \/ \E c \in WithOrderID(o) :
            h' = [pc |-> "exec", oid |-> o, cl |-> c, qty |-> orders[c].qty]
       \/ WithOrderID(o) = {} /\ h' = [pc |-> "rest", oid |-> o]
    /\ Silent
    /\ UNCHANGED <<orders, used, reqs, ex, f, reconnects>>

\* tu of an order that is not cached: REST knows it while it is working.
TradeFallback ==
    LET o == h.oid IN
    /\ h.pc = "rest"
    /\ \/ /\ ex[o].open
          /\ AddOrder(ex[o].cid, Remaining(o), o, "rest")
          /\ h' = [pc |-> "exec", oid |-> o, cl |-> ex[o].cid, qty |-> Remaining(o)]
          /\ UNCHANGED ex
       \/ /\ h' = Idle
          /\ ex' = [ex EXCEPT ![o].got = @ + 1]
          /\ UNCHANGED orders
    /\ Silent
    /\ UNCHANGED <<used, reqs, wire, f, reconnects>>

\* tu: AddExecution looks the order up again and returns its total.
TradeReport ==
    LET o == h.oid IN
    /\ h.pc = "exec"
    /\ \/ \E c \in WithOrderID(o) :
            /\ AddExecution(c, o)
            /\ Report(TradeStatus(FilledQty(c) + 1, h.qty), h.cl, h.qty, FilledQty(c) + 1)
       \/ WithOrderID(o) = {} /\ Silent /\ UNCHANGED orders
    /\ ex' = [ex EXCEPT ![o].got = @ + 1]
    /\ h' = Idle
    /\ UNCHANGED <<used, reqs, wire, f, reconnects>>

\* Order snapshot: for each order AddOrder, then its trades over REST.
OrderSnapshot ==
    LET m == Head(wire) IN
    /\ Receive("os")
    /\ h' = IF m.list = <<>> THEN Idle ELSE [pc |-> "snapshot", list |-> m.list]
    /\ Silent
    /\ UNCHANGED <<orders, used, reqs, ex, f, reconnects>>

\* Faulty variant: an order that is cached already is not added again.
SnapshotAddUnknown ==
    LET x == Head(h.list) IN
    /\ h.pc = "snapshot"
    /\ IF ex[x.oid].cid \in DOMAIN orders
         THEN UNCHANGED orders
         ELSE AddOrder(ex[x.oid].cid, x.qty, NoOrder, "snapshot")
    /\ h' = [pc |-> "trades", list |-> h.list]
    /\ Silent
    /\ UNCHANGED <<used, reqs, ex, wire, f, reconnects>>

SnapshotAddOrder ==
    LET x == Head(h.list) IN
    /\ h.pc = "snapshot"
    /\ AddOrder(ex[x.oid].cid, x.qty, NoOrder, "snapshot")
    /\ h' = [pc |-> "trades", list |-> h.list]
    /\ Silent
    /\ UNCHANGED <<used, reqs, ex, wire, f, reconnects>>

\* OrderTrades fails (next order), or returns the trades or an empty set.
SnapshotTrades ==
    /\ h.pc = "trades"
    /\ \/ h' = IF Tail(h.list) = <<>> THEN Idle
               ELSE [pc |-> "snapshot", list |-> Tail(h.list)]
       \/ \E n \in {0, ex[Head(h.list).oid].filled} :
            h' = [pc |-> "restore", oid |-> Head(h.list).oid, qty |-> Head(h.list).qty,
                  n |-> n, left |-> n]
    /\ Silent
    /\ UNCHANGED <<orders, used, reqs, ex, wire, f, reconnects>>

\* AddExecution of one of the trades; the handler returns if it fails.
SnapshotExecution ==
    /\ h.pc = "restore" /\ h.left > 0
    /\ \/ \E c \in WithOrderID(h.oid) :
            AddExecution(c, h.oid) /\ h' = [h EXCEPT !.left = @ - 1]
       \/ WithOrderID(h.oid) = {} /\ h' = Idle /\ UNCHANGED orders
    /\ Silent
    /\ UNCHANGED <<used, reqs, ex, wire, f, reconnects>>

\* The OrderID is set in the entry AddOrder returned, which a status request
\* may have replaced; the handler returns with the first order it reports.
SnapshotReport ==
    LET c == ex[h.oid].cid IN
    /\ h.pc = "restore" /\ h.left = 0
    /\ \/ /\ orders[c].src = "snapshot"
          /\ UpdateOrder(c, h.oid)
          /\ Report("NEW", c, h.qty, FilledQty(c))
       \/ /\ orders[c].src # "snapshot"
          /\ Report("NEW", c, h.qty, 0)
          /\ UNCHANGED orders
    /\ h' = Idle
    /\ UNCHANGED <<used, reqs, ex, wire, f, reconnects>>
-----------------------------------------------------------------------------
FIXStep ==
    \/ \E c \in ClOrd \cup Text, q \in Qty : OnFIXNewOrderSingle(c, q)
    \/ \E oc \in Key, c \in ClOrd \cup Text, q \in Qty :
         OnFIXOrderCancelReplaceRequest(oc, c, q)
    \/ SubmitUpdateOrder
    \/ \E oc \in Key, c \in ClOrd \cup Text : OnFIXOrderCancelRequest(oc, c)
    \/ \E o \in OrderID : OnFIXOrderStatusRequest(o)
    \/ StatusLookup \/ StatusAddOrder

BitfinexStep ==
    \/ \E r \in reqs : Accept(r) \/ Amend(r) \/ Cancel(r)
    \/ \E k \in Ext, q \in Qty : EnterOutside(k, q)
    \/ \E o \in DOMAIN ex : Fill(o) \/ PublishTrade(o)
    \/ Reconnect

ListenStep ==
    \/ OrderAck \/ OrderAckOutside \/ OrderRejected \/ CancelAck \/ CancelRejected
    \/ FIXOrderUpdateHandler \/ FIXOrderCancelHandler
    \/ TradeLookup \/ TradeFallback \/ TradeReport
    \/ OrderSnapshot \/ SnapshotAddOrder \/ SnapshotTrades
    \/ SnapshotExecution \/ SnapshotReport

Next == FIXStep \/ BitfinexStep \/ ListenStep

Spec == Init /\ [][Next]_vars
-----------------------------------------------------------------------------
\* The types of the cache and of Bitfinex's state: an order's trades are
\* handled after they are published and published after they are made.
TypeOK ==
    /\ DOMAIN orders \subseteq Key
    /\ \A c \in DOMAIN orders :
         orders[c] \in [oid : OrderID \cup {NoOrder}, qty : Nat, execs : Seq(OrderID),
                       src : {"fix", "replace", "status", "ack", "rest", "snapshot"}]
    /\ used \subseteq ClOrd \cup Text
    /\ Len(ex) <= MaxOrders
    /\ \A o \in DOMAIN ex :
         /\ ex[o].cid \in Key \ Text
         /\ ex[o].got <= ex[o].sent /\ ex[o].sent <= ex[o].filled
         /\ ex[o].filled <= ex[o].qty /\ ex[o].qty <= MaxQty
    /\ Len(wire) <= MaxWire
    /\ f.pc \in {"idle", "replace", "status", "unknown"}
    /\ h.pc \in {"idle", "ack", "rest", "exec", "snapshot", "trades", "restore"}

\* A cancel/replace has given the order a second entry in the cache.
Replaced(o) == \E c \in DOMAIN orders : orders[c].src = "replace" /\ orders[c].oid = o

\* As long as an order is not replaced, the one entry that carries its
\* OrderID is that of its CID, so that lookups by OrderID, which take the
\* first match in the map's random order, have one answer.
OneEntryPerOrder ==
    \A c \in DOMAIN orders :
        orders[c].oid # NoOrder /\ ~Replaced(orders[c].oid) => c = ex[orders[c].oid].cid

\* CumQty of an order of the session that was neither replaced nor listed in
\* a snapshot is exact: every tu handled since is in its entry, once,
\* whatever was lost, fetched over REST or asked by status requests.
CumQtyExact ==
    \A c \in DOMAIN orders \ {Zero} :
        orders[c].src = "fix" /\ orders[c].oid # NoOrder /\ ~Replaced(orders[c].oid) =>
            FilledQty(c) = ex[orders[c].oid].got

\* CumQty never exceeds what was traded unless the order was replaced, also
\* where the executions of working orders are fetched a second time.
NeverOverfilled ==
    \A c \in DOMAIN orders \ {Zero} :
        orders[c].oid # NoOrder /\ ~Replaced(orders[c].oid) =>
            FilledQty(c) <= ex[orders[c].oid].got

\* The executions of an entry are those of the order it names, if its
\* ClOrdID is an integer.
OwnExecutions ==
    \A c \in DOMAIN orders \ {Zero} : \A i \in DOMAIN orders[c].execs :
        orders[c].execs[i] = orders[c].oid

\* A FILLED report of such an order is sent at its last trade: not before,
\* and no trade after it.
FilledAtLastTrade ==
    [][\A c \in DOMAIN orders \ {Zero} :
         /\ TradeReport /\ h.cl = c
         /\ orders[c].src = "fix" /\ ~Replaced(h.oid)
         => (er'.status = "FILLED" <=> ex'[h.oid].got = ex[h.oid].qty)]_vars

\* LeavesQty (FIXExecutionReport): 0 of an order that is cancelled.
LeavesQty(r) == IF r.status = "CANCELED" THEN 0 ELSE r.qty - r.cum

\* The reports of trades, of a pending cancel, of a cancellation and of a
\* status request agree on CumQty: it is that of the trades handled so far.
\* Those of trades and of a pending cancel leave the rest of the order.  This
\* is of orders of the session that were neither replaced nor in a snapshot;
\* the report of an update says 0.
QuantitiesReported ==
    [][\A o \in DOMAIN ex :
         /\ er' # NoReport /\ er'.cl = ex[o].cid /\ ex[o].cid \in ClOrd
         /\ ex[o].cid \in DOMAIN orders /\ orders[ex[o].cid].src = "fix" /\ orders[ex[o].cid].oid = o
         /\ ~Replaced(o)
         => /\ TradeReport \/ CancelAck \/ FIXOrderCancelHandler \/ StatusLookup =>
                 er'.cum = ex'[o].got
            /\ TradeReport \/ CancelAck => LeavesQty(er') = ex[o].qty - ex'[o].got]_vars

\* The entry of an order that its acknowledgement added has the OrderID, once
\* the acknowledgement is handled, whatever other handlers did meanwhile.
AckGivesOrderID ==
    \A c \in DOMAIN orders :
        orders[c].src = "ack" /\ orders[c].oid = NoOrder => h.pc = "ack" /\ ex[h.oid].cid = c

\* An entry loses the OrderID it was given only to a snapshot, or to a status
\* request that looked the order up before the OrderID came.
OrderIDLostByCause ==
    [][\A c \in DOMAIN orders :
         orders[c].oid # NoOrder /\ orders'[c].oid # orders[c].oid =>
            SnapshotAddOrder \/ StatusAddOrder \/ c = Zero]_vars
-----------------------------------------------------------------------------
(***************************************************************************)
(* What the README and comments say that does not hold.                    *)
(***************************************************************************)

\* README.md: a TradeUpdate that "would fully fill the order" is published
\* "with an OrdStatus of FILLED"; here of an order of the session, on one
\* connection.
LastTradeFills ==
    [][/\ TradeReport /\ reconnects = 0 /\ er' # NoReport
       /\ \A c \in WithOrderID(h.oid) : orders[c].src \in {"fix", "replace"}
       /\ ex'[h.oid].got = ex[h.oid].qty
       => er'.status = "FILLED"]_vars

\* README.md: the gateway goes "out-of-band [...] to fetch execution details
\* for working orders": the trades REST returned are in the order's entry.
SnapshotRestores ==
    [][h.pc = "restore" /\ h' = Idle =>
         Len(orders'[ex[h.oid].cid].execs) = h.n]_vars

\* README.md: only orders "placed outside of the FIX trading session may
\* sometimes have incorrect" CumQty and LeavesQty.  Here the status of an order
\* of the session, whose trades are all in the cache, on one connection.
StatusLeaves ==
    [][/\ StatusLookup /\ er'.status = "STATUS" /\ reconnects = 0
       /\ \A c \in WithOrderID(f.oid) : orders[c].src = "fix"
       /\ ex[f.oid].got = ex[f.oid].filled
       => LeavesQty(er') = Remaining(f.oid)]_vars
=============================================================================
