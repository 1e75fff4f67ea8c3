-------------------------- MODULE OrderConversion --------------------------
(***************************************************************************)
(* What becomes of the terms of one order: a NewOrderSingle or a           *)
(* cancel/replace is converted into a Bitfinex order, and each report on   *)
(* it is converted back from a Bitfinex message, from the order cache, or  *)
(* from both.  Side, type, time in force, prices, flags and symbol are     *)
(* kept; quantities are OrderRouting's.  Bitfinex is external.             *)
(***************************************************************************)
EXTENDS Integers, FiniteSets, Symbology

CONSTANTS Messages,       \* the NewOrderSingles the client may send
          Replacements,   \* the terms of its cancel/replace requests
          Files,          \* the symbol master files
          CounterParty,   \* the session's TargetCompID
          Alias,          \* symbol -> the name Bitfinex answers with
          TrailPrice,     \* where Bitfinex places a trailing stop
          None            \* a field that is not set

OrdType == {"MARKET", "LIMIT", "STOP", "STOP_LIMIT", "OTHER"}
TIF     == {None, "FOK", "IOC", "GTD"}     \* None: unset, or any other value
Inst    == {"AON", "PEG", "PDI"}           \* the characters of ExecInst
Side    == {"BUY", "SELL", "SELL_SHORT"}

\* id: the ClOrdID is an integer or a text.  Prices are numbers, times
\* milliseconds; no order expires in the first second of 1970.
Message == [id : {"int", "text"}, ordType : OrdType, tif : TIF, inst : SUBSET Inst,
            margin : BOOLEAN, side : Side, symbol : STRING, hidden : BOOLEAN,
            oco : BOOLEAN, price : Nat \cup {None}, stopPx : Nat \cup {None},
            peg : Nat \cup {None}, expire : (Nat \ 0..999) \cup {None}]

\* What the symbol master files, or the lack of one, come to.
Tables == {NewFileSymbology(file) : file \in Files} \cup {NewPassthroughSymbology(CounterParty)}

\* Error is not a symbol: neither the client nor a file can name it.
ASSUME ConversionAssumption ==
    /\ TrailPrice \in Nat \ {0}
    /\ None \notin Nat
    /\ \A s \in DOMAIN Alias : Alias[s] \in STRING
    /\ Messages \subseteq Message /\ Replacements \subseteq Message
    /\ Error \notin STRING
    /\ \A table \in Tables : \A cp \in DOMAIN table : Error \notin DOMAIN table[cp].symbols

VARIABLES
    sets,       \* FileSymbology.counterparties
    m,          \* the NewOrderSingle, from the start on its way
    bo,         \* the order as sent to Bitfinex, then as Bitfinex has it
    phase,      \* "start", "sent", "working", "replacing", "closed" or "over"
    orders,     \* cache.orders: ClOrdID -> CachedOrder
    er          \* the ExecutionReport or reject this step sent

vars == <<sets, m, bo, phase, orders, er>>

\* The ClOrdIDs: the order's, that of the replace request, and "0".
ClOrdID == {"own", "new", "0"}

\* The CID Bitfinex knows the order by.
CID == IF m.id = "text" THEN "0" ELSE "own"

NoReport == [kind |-> "none"]

Init ==
    /\ sets \in Tables
    /\ m \in Messages
    /\ bo = None
    /\ phase = "start"
    /\ orders = [c \in {} |-> None]
    /\ er = NoReport
-----------------------------------------------------------------------------
(***************************************************************************)
(* From FIX (convert/websocket_order.go).                                  *)
(***************************************************************************)

\* The type is a kind and the prefix MARGIN or EXCHANGE.
OrderNewTypeFromFIX(msg) ==
    LET kind == IF msg.tif \in {"FOK", "IOC"} THEN "FOK"
                ELSE CASE msg.ordType = "MARKET" -> "MARKET"
                       [] msg.ordType = "LIMIT"  -> "LIMIT"
                       [] msg.ordType = "STOP"   ->
                            IF "PEG" \in msg.inst THEN "TRAILING STOP" ELSE "STOP"
                       [] msg.ordType = "STOP_LIMIT" -> "STOP LIMIT"
                       [] OTHER -> "" IN
    [kind |-> kind, margin |-> msg.margin /\ kind # ""]

\* All-or-none on its own is refused; with another instruction it is ignored.
TypeRefused(msg) == msg.inst = {"AON"}

\* GetTimeInForceFromFIX and genMTSTif: the date is formatted to the second.
GetTimeInForceFromFIX(msg) ==
    IF msg.tif = "GTD" THEN (msg.expire \div 1000) * 1000 ELSE 0

TifRefused(msg) == msg.tif = "GTD" /\ msg.expire = None

\* The sign of the amount.
GetAmountFromQtyAndSide(side) == IF side = "SELL" THEN -1 ELSE 1

\* Faulty variant: the two prices of a stop limit are swapped.
PricesSwapped(msg) ==
    CASE msg.ordType = "LIMIT" -> [px |-> msg.price, aux |-> 0, trail |-> 0,
                                   oco |-> IF msg.oco THEN msg.stopPx ELSE 0]
      [] msg.ordType = "STOP"  ->
           [px |-> msg.stopPx, aux |-> 0,
            trail |-> IF "PEG" \in msg.inst THEN msg.peg ELSE 0, oco |-> 0]
      [] msg.ordType = "STOP_LIMIT" ->
           [px |-> msg.stopPx, aux |-> msg.price, trail |-> 0, oco |-> 0]
      [] OTHER -> [px |-> 0, aux |-> 0, trail |-> 0, oco |-> 0]

\* Price, PriceAuxLimit, PriceTrailing and PriceOcoStop.
GetPricesFromOrdType(msg) ==
    CASE msg.ordType = "LIMIT" -> [px |-> msg.price, aux |-> 0, trail |-> 0,
                                   oco |-> IF msg.oco THEN msg.stopPx ELSE 0]
      [] msg.ordType = "STOP"  ->
           [px |-> msg.stopPx, aux |-> 0,
            trail |-> IF "PEG" \in msg.inst THEN msg.peg ELSE 0, oco |-> 0]
      [] msg.ordType = "STOP_LIMIT" ->
           [px |-> msg.price, aux |-> msg.stopPx, trail |-> 0, oco |-> 0]
      [] OTHER -> [px |-> 0, aux |-> 0, trail |-> 0, oco |-> 0]

\* Faulty variant: a trailing stop needs no peg.
PricesRefusedWithoutPeg(msg) ==
    \/ msg.ordType = "LIMIT" /\ (msg.price = None \/ (msg.oco /\ msg.stopPx = None))
    \/ msg.ordType = "STOP" /\ msg.stopPx = None
    \/ msg.ordType = "STOP_LIMIT" /\ (msg.price = None \/ msg.stopPx = None)

PricesRefused(msg) ==
    \/ msg.ordType = "LIMIT" /\ (msg.price = None \/ (msg.oco /\ msg.stopPx = None))
    \/ msg.ordType = "STOP" /\ (msg.stopPx = None \/ ("PEG" \in msg.inst /\ msg.peg = None))
    \/ msg.ordType = "STOP_LIMIT" /\ (msg.price = None \/ msg.stopPx = None)

\* GetFlagsFromFIX and genFlags.
GetFlagsFromFIX(msg) == (IF msg.hidden THEN {"hidden"} ELSE {})
                        \cup (IF "PDI" \in msg.inst THEN {"postOnly"} ELSE {})

Refused(msg) == TypeRefused(msg) \/ PricesRefused(msg) \/ TifRefused(msg)

\* OrderNewFromFIXNewOrderSingle and requestToOrder.  oco is the stop price of
\* the order that cancels the other, 0 if it has none; it is only sent.
requestToOrder(msg, sym) ==
    LET t == OrderNewTypeFromFIX(msg)
        p == GetPricesFromOrdType(msg) IN
    [kind |-> t.kind, margin |-> t.margin, symbol |-> sym,
     amount |-> GetAmountFromQtyAndSide(msg.side), px |-> p.px, aux |-> p.aux,
     trail |-> p.trail, oco |-> IF msg.oco THEN p.oco ELSE None,
     flags |-> GetFlagsFromFIX(msg), mtstif |-> GetTimeInForceFromFIX(msg)]
-----------------------------------------------------------------------------
(***************************************************************************)
(* To FIX (convert/fix.go and convert/fix_msg.go).                         *)
(***************************************************************************)

SideToFIX(amount) == IF amount > 0 THEN "BUY" ELSE IF amount < 0 THEN "SELL" ELSE "UNDISCLOSED"

\* The prefix MARGIN is read as EXCHANGE; EXCHANGE STOP LIMIT is not a case.
OrdTypeToFIX(kind) ==
    CASE kind \in {"LIMIT", "FOK"}          -> "LIMIT"
      [] kind \in {"STOP", "TRAILING STOP"} -> "STOP"
      [] OTHER                              -> "MARKET"

\* Faulty variant: the type is looked at before the expiry.
TimeInForceTypeFirst(o) ==
    IF o.kind = "FOK" THEN "FOK" ELSE IF o.mtstif > 0 THEN "GTD" ELSE "GTC"

\* MARGIN FOK is not a case.
TimeInForceToFIX(o) ==
    IF o.mtstif > 0 THEN "GTD"
    ELSE IF o.kind = "FOK" /\ ~o.margin THEN "FOK" ELSE "GTC"

\* Faulty variant: a price of 0 is a price.
FIXExecutionReportZeroPrice(kind, sym, side, px, stop, trail, ot, margin, tif, exp, flags) ==
    [kind |-> kind, symbol |-> Outbound(sets, sym, CounterParty), side |-> side,
     ordType |-> ot, margin |-> margin, tif |-> tif, flags |-> flags,
     price  |-> IF ot # "MARKET" THEN px ELSE None,
     stopPx |-> IF stop # 0 /\ ot \in {"STOP", "STOP_LIMIT"} THEN stop ELSE None,
     peg    |-> IF trail # 0 THEN trail ELSE None,
     expire |-> IF tif = "GTD" THEN exp ELSE None]

\* ExecInst is PRIMARY_PEG where peg is set and follows flags otherwise.
FIXExecutionReport(kind, sym, side, px, stop, trail, ot, margin, tif, exp, flags) ==
    [kind |-> kind, symbol |-> Outbound(sets, sym, CounterParty), side |-> side,
     ordType |-> ot, margin |-> margin, tif |-> tif, flags |-> flags,
     price  |-> IF px # 0 /\ ot \in {"LIMIT", "STOP_LIMIT"} THEN px ELSE None,
     stopPx |-> IF stop # 0 /\ ot \in {"STOP", "STOP_LIMIT"} THEN stop ELSE None,
     peg    |-> IF trail # 0 THEN trail ELSE None,
     expire |-> IF tif = "GTD" THEN exp ELSE None]

FIXExecutionReportFromOrder(kind, o, flags, stop, peg) ==
    FIXExecutionReport(kind, o.symbol, SideToFIX(o.amount), o.px, stop, peg,
                       OrdTypeToFIX(o.kind), o.margin, TimeInForceToFIX(o), o.mtstif, flags)
-----------------------------------------------------------------------------
(***************************************************************************)
(* The cache.                                                              *)
(***************************************************************************)

AddOrder(c, e) == orders' = [k \in DOMAIN orders \cup {c} |-> IF k = c THEN e ELSE orders[k]]

\* AddOrder with what Bitfinex says of an order: its side, type and time in
\* force are converted first.
EntryOf(o, known) ==
    [px |-> o.px, stop |-> o.aux, trail |-> o.trail, symbol |-> o.symbol,
     side |-> SideToFIX(o.amount), ordType |-> OrdTypeToFIX(o.kind), margin |-> o.margin,
     tif |-> TimeInForceToFIX(o), exp |-> o.mtstif, flags |-> o.flags, oid |-> known]

WithOrderID == {c \in DOMAIN orders : orders[c].oid}

Send(r) == er' = r
-----------------------------------------------------------------------------
(***************************************************************************)
(* FIX messages.                                                           *)
(***************************************************************************)

\* The entry has the client's side and type; its time in force is GTC, with
\* the expiry beside it.  The submission may fail.
OnFIXNewOrderSingle ==
    /\ phase = "start"
    /\ \/ /\ Refused(m)
          /\ phase' = "over"
          /\ Send([kind |-> "refused"])
          /\ UNCHANGED <<bo, orders>>
       \/ /\ ~Refused(m)
          /\ \E sym \in Inbound(sets, m.symbol, CounterParty) :
               LET o == requestToOrder(m, sym) IN
               /\ bo' = o
               /\ AddOrder("own",
                    [px |-> o.px, stop |-> o.aux, trail |-> o.trail, symbol |-> o.symbol,
                     side |-> m.side, ordType |-> m.ordType, margin |-> o.margin,
                     tif |-> "GTC", exp |-> o.mtstif, flags |-> o.flags, oid |-> FALSE])
               /\ \/ phase' = "sent" /\ Send(NoReport)
                  \/ /\ phase' = "over"
                     /\ Send(FIXExecutionReportFromOrder("failed", o, o.flags, o.aux, o.trail))
    /\ UNCHANGED <<sets, m>>

\* The side of the request is not read.
CachedSide(msg) == orders[CID].side

\* The original is named by its ClOrdID, an integer, and has an OrderID.
\* Side, symbol and margin are the original's, all else is the request's; the
\* type is not part of what Bitfinex is sent.
OnFIXOrderCancelReplaceRequest(msg) ==
    LET p   == GetPricesFromOrdType(msg)
        old == orders[CID]
        e   == [px |-> p.px, stop |-> p.aux, trail |-> p.trail, symbol |-> old.symbol,
                side |-> CachedSide(msg), ordType |-> msg.ordType, margin |-> old.margin,
                tif |-> "GTC", exp |-> GetTimeInForceFromFIX(msg),
                flags |-> GetFlagsFromFIX(msg), oid |-> TRUE]
        o   == [requestToOrder(msg, old.symbol)
                  EXCEPT !.amount = GetAmountFromQtyAndSide(CachedSide(msg))] IN
    /\ phase = "working"
    /\ "new" \notin DOMAIN orders
    /\ \/ /\ CID \notin WithOrderID
          /\ Send([kind |-> "cancelReject"])
          /\ UNCHANGED <<phase, orders>>
       \/ /\ CID \in WithOrderID
          /\ Refused(msg)
          /\ Send([kind |-> "refused"])
          /\ UNCHANGED <<phase, orders>>
       \/ /\ CID \in WithOrderID
          /\ ~Refused(msg)
          /\ AddOrder("new", e)
          /\ \/ phase' = "replacing" /\ Send(NoReport)
             \/ /\ Send(FIXExecutionReportFromOrder("failed", o, o.flags, o.aux, o.trail))
                /\ UNCHANGED phase
    /\ UNCHANGED <<sets, m, bo>>

\* The order as REST returns it, flags and prices of the cached entry.
OnFIXOrderStatusRequest ==
    /\ phase = "working"
    /\ \/ \E c \in WithOrderID :
            Send(FIXExecutionReportFromOrder("status", bo, orders[c].flags, orders[c].stop,
                                             orders[c].trail))
          /\ UNCHANGED orders
       \/ /\ WithOrderID = {}
          /\ AddOrder(CID, EntryOf(bo, FALSE))
          /\ Send(FIXExecutionReportFromOrder("status", bo, bo.flags, bo.aux, bo.trail))
    /\ UNCHANGED <<sets, m, bo, phase>>
-----------------------------------------------------------------------------
(***************************************************************************)
(* Messages of the websocket.                                              *)
(***************************************************************************)

\* Bitfinex answers with its own name of the symbol, tBTCUSD for BTCUSD.
BitfinexName(sym) == IF sym \in DOMAIN Alias THEN Alias[sym] ELSE sym

\* The order as Bitfinex takes it.
Accepted(o) == [o EXCEPT !.symbol = BitfinexName(@)]

\* "order new acks don't include order flags", nor the peg of a trailing stop
\* but its current price.
AckOf(o) == [o EXCEPT !.flags = {}, !.trail = 0,
                      !.px = IF o.kind = "TRAILING STOP" THEN TrailPrice ELSE @]

\* Faulty variant: flags and peg are those of the notification.
AckReportUncached(kind, a, cache) == FIXExecutionReportFromOrder(kind, a, a.flags, a.aux, a.trail)

AckReport(kind, a, cache) ==
    LET known    == CID \in DOMAIN cache
        trailing == a.kind = "TRAILING STOP" IN
    FIXExecutionReportFromOrder(kind, a,
        IF known THEN cache[CID].flags ELSE a.flags,
        IF trailing THEN a.px ELSE a.aux,
        IF trailing /\ known THEN cache[CID].trail ELSE 0)

\* on-req.  An order the cache does not know by its CID is added.
OrderAck ==
    LET o == Accepted(bo)
        a == AckOf(o)
        cache == IF CID \in DOMAIN orders THEN [orders EXCEPT ![CID].oid = TRUE]
                 ELSE [k \in DOMAIN orders \cup {CID} |->
                         IF k = CID THEN EntryOf(a, TRUE) ELSE orders[k]] IN
    /\ phase = "sent"
    /\ bo.kind # ""
    /\ phase' = "working"
    /\ bo' = o
    /\ orders' = cache
    /\ Send(AckReport("ack", a, cache))
    /\ UNCHANGED <<sets, m>>

\* The connection is lost before the notification comes.
AckLost ==
    /\ phase = "sent"
    /\ bo.kind # ""
    /\ phase' = "working"
    /\ bo' = Accepted(bo)
    /\ Send(NoReport)
    /\ UNCHANGED <<sets, m, orders>>

\* on-req with status ERROR: the order under either name.
OrderRejected ==
    /\ phase = "sent"
    /\ phase' = "over"
    /\ \E o \in {bo, Accepted(bo)} : Send(AckReport("rejected", AckOf(o), orders))
    /\ UNCHANGED <<sets, m, bo, orders>>

\* The peg of an update, or the cached one if the update has none.
UpdatePeg(u) == IF u.kind = "TRAILING STOP" /\ u.trail = 0 /\ CID \in DOMAIN orders
                  THEN orders[CID].trail ELSE u.trail

\* An update request leaves out what is zero: Bitfinex keeps what it has.
Amended(o, r) ==
    LET Keep(new, old) == IF new = 0 THEN old ELSE new IN
    [o EXCEPT !.amount = GetAmountFromQtyAndSide(r.side), !.px = Keep(r.px, @),
              !.aux = Keep(r.stop, @), !.trail = Keep(r.trail, @),
              !.flags = IF r.flags = {} THEN @ ELSE r.flags, !.mtstif = Keep(r.exp, @)]

\* ou, of the order or of its replacement, with or without the peg.
OrderUpdate ==
    LET o == IF phase = "working" THEN bo ELSE Amended(bo, orders["new"]) IN
    /\ phase \in {"working", "replacing"}
    /\ phase' = "working"
    /\ bo' = o
    /\ \E t \in {0, o.trail} : LET u == [o EXCEPT !.trail = t] IN
         Send(FIXExecutionReportFromOrder("ou", u, u.flags, u.aux, UpdatePeg(u)))
    /\ UNCHANGED <<sets, m, orders>>

\* A replace that Bitfinex refuses is not reported.
ReplaceRefused ==
    /\ phase = "replacing"
    /\ phase' = "working"
    /\ Send(NoReport)
    /\ UNCHANGED <<sets, m, bo, orders>>

\* FIXExecutionReportFromTradeExecutionUpdate with the cached entry e.
TradeReport(e) ==
    FIXExecutionReport("tu", bo.symbol, SideToFIX(bo.amount), e.px, e.stop, e.trail,
                       OrdTypeToFIX(bo.kind), bo.margin,
                       TimeInForceToFIX([bo EXCEPT !.mtstif = e.exp]), e.exp, e.flags)

\* tu: all but the type, the side and the symbol is the cached entry's.  An
\* order that is not cached is fetched over REST, which knows working orders.
TradeUpdate ==
    LET cache == IF WithOrderID # {} THEN orders
                 ELSE [k \in DOMAIN orders \cup {CID} |->
                         IF k = CID THEN EntryOf(bo, TRUE) ELSE orders[k]] IN
    /\ phase \in {"working", "closed"}
    /\ \/ /\ WithOrderID # {} \/ phase = "working"
          /\ orders' = cache
          /\ \E c \in {k \in DOMAIN cache : cache[k].oid} : Send(TradeReport(cache[c]))
       \/ WithOrderID = {} /\ Send(NoReport) /\ UNCHANGED orders
    /\ UNCHANGED <<sets, m, bo, phase>>

\* oc-req, accepted: the report is made of the cached entry, its price set
\* whatever the type.
CancelAck ==
    /\ phase = "working"
    /\ phase' = "closed"
    /\ IF CID \notin DOMAIN orders THEN Send(NoReport)
       ELSE LET e == orders[CID]
                r == FIXExecutionReport("pendingCancel", e.symbol, e.side, e.px, e.stop, e.trail,
                                        e.ordType, e.margin, e.tif, e.exp, e.flags) IN
            Send(IF e.px > 0 THEN [r EXCEPT !.price = e.px] ELSE r)
    /\ UNCHANGED <<sets, m, bo, orders>>

\* oc: flags and peg are the cached ones, no stop price.  Nothing is sent for
\* an order that is not cached, nor if the status says FILLED or PARTIALLY
\* FILLED.
OrderCancel ==
    /\ phase \in {"working", "closed"}
    /\ phase' = "over"
    /\ \/ Send(NoReport)
       \/ \E c \in WithOrderID :
            Send(FIXExecutionReportFromOrder("oc", bo, orders[c].flags, 0, orders[c].trail))
    /\ UNCHANGED <<sets, m, bo, orders>>

\* os, after a reconnection: the entry is made again from Bitfinex's order.
\* If its trades cannot be fetched it is left without OrderID and report.
OrderSnapshot ==
    /\ phase = "working"
    /\ \/ /\ AddOrder(CID, EntryOf(bo, TRUE))
          /\ Send(FIXExecutionReportFromOrder("os", bo, bo.flags, bo.aux, bo.trail))
       \/ AddOrder(CID, EntryOf(bo, FALSE)) /\ Send(NoReport)
    /\ UNCHANGED <<sets, m, bo, phase>>
-----------------------------------------------------------------------------
Next ==
    \/ OnFIXNewOrderSingle
    \/ \E msg \in Replacements : OnFIXOrderCancelReplaceRequest(msg)
    \/ OnFIXOrderStatusRequest
    \/ OrderAck \/ AckLost \/ OrderRejected \/ OrderUpdate \/ ReplaceRefused
    \/ TradeUpdate \/ CancelAck \/ OrderCancel \/ OrderSnapshot

Spec == Init /\ [][Next]_vars
-----------------------------------------------------------------------------
\* The types of the cached entries and of Bitfinex's order.
TypeOK ==
    /\ m \in Message
    /\ phase \in {"start", "sent", "working", "replacing", "closed", "over"}
    /\ DOMAIN orders \subseteq ClOrdID
    /\ \A c \in DOMAIN orders :
         /\ orders[c].px \in Nat /\ orders[c].stop \in Nat /\ orders[c].trail \in Nat
         /\ orders[c].ordType \in OrdType /\ orders[c].side \in Side
         /\ orders[c].tif \in {"GTC", "GTD", "FOK"} /\ orders[c].exp \in Nat
    /\ bo # None => bo.px \in Nat /\ bo.aux \in Nat /\ bo.trail \in Nat /\ bo.mtstif \in Nat

Immediate(msg) == msg.tif \in {"FOK", "IOC"}

\* What a FIX order asks for: its direction, how it is triggered, its limit,
\* whether it is to be filled at once and as a whole, the stop it cancels, its
\* flags, its account and its life.
FIXMeaning(msg) ==
    LET stop == msg.ordType \in {"STOP", "STOP_LIMIT"} IN
    [sells     |-> msg.side # "BUY",
     trailing  |-> stop /\ "PEG" \in msg.inst,
     trigger   |-> IF ~stop THEN None ELSE IF "PEG" \in msg.inst THEN msg.peg ELSE msg.stopPx,
     limit     |-> IF msg.ordType \in {"LIMIT", "STOP_LIMIT"} THEN msg.price ELSE None,
     immediate |-> Immediate(msg),
     whole     |-> msg.tif = "FOK" \/ "AON" \in msg.inst,
     oco       |-> IF ~msg.oco THEN None ELSE IF msg.ordType = "LIMIT" THEN msg.stopPx ELSE 0,
     hidden    |-> msg.hidden,
     postOnly  |-> "PDI" \in msg.inst,
     margin    |-> msg.margin,
     expires   |-> IF msg.tif = "GTD" THEN msg.expire \div 1000 ELSE 0]

\* What a Bitfinex order does.
BitfinexMeaning(o) ==
    [sells     |-> o.amount < 0,
     trailing  |-> o.kind = "TRAILING STOP",
     trigger   |-> CASE o.kind = "STOP"          -> o.px
                     [] o.kind = "STOP LIMIT"    -> o.aux
                     [] o.kind = "TRAILING STOP" -> o.trail
                     [] OTHER                    -> None,
     limit     |-> IF o.kind \in {"LIMIT", "FOK", "STOP LIMIT"} THEN o.px ELSE None,
     immediate |-> o.kind = "FOK",
     whole     |-> o.kind = "FOK",
     oco       |-> o.oco,
     hidden    |-> "hidden" \in o.flags,
     postOnly  |-> "postOnly" \in o.flags,
     margin    |-> o.margin,
     expires   |-> o.mtstif \div 1000]

\* The orders that the conversion changes: immediate-or-cancel ones, which
\* become fill-or-kill (README.md, "Immediate or Cancel collapses into Fill or
\* Kill"); immediate ones that are no limit orders, which become fill-or-kill
\* at the stop price or at 0; all-or-none ones that are not immediate, whose
\* instruction is dropped where another one is beside it; a stop limit with a
\* peg, which does not trail (against README.md, see StopLimitReported); and
\* the sides that sell and are not SELL.
Changed(msg) ==
    \/ msg.tif = "IOC" /\ "AON" \notin msg.inst
    \/ Immediate(msg) /\ msg.ordType # "LIMIT"
    \/ "AON" \in msg.inst /\ ~Immediate(msg)
    \/ msg.ordType = "STOP_LIMIT" /\ "PEG" \in msg.inst
    \/ msg.side \notin {"BUY", "SELL"}

\* OnFIXNewOrderSingle: the order sent to Bitfinex does what the client asked
\* for, but in exactly the cases of Changed: whatever the combination of type,
\* time in force, instructions and set fields, nothing else of FIXMeaning is
\* made up or dropped.
ConvertedFaithfully ==
    phase = "sent" /\ m.ordType # "OTHER" =>
        (BitfinexMeaning(bo) = FIXMeaning(m) <=> ~Changed(m))

\* A report on the order of the client, as it was sent: not replaced, and
\* known to Bitfinex by its own ClOrdID.
ReportKinds == {"failed", "ack", "rejected", "ou", "tu", "pendingCancel", "oc", "status", "os"}
Original == er.kind \in ReportKinds /\ m.id = "int" /\ "new" \notin DOMAIN orders

\* Type and time in force as reports have them: the client's, but for what is
\* immediate and for stop limits.
ReportedType == IF Immediate(m) THEN "LIMIT"
                ELSE IF m.ordType = "STOP_LIMIT" THEN "MARKET" ELSE m.ordType
ReportedTif  == IF m.tif = "GTD" THEN "GTD"
                ELSE IF Immediate(m) /\ ~m.margin THEN "FOK" ELSE "GTC"

\* The reports agree on type and time in force, from whichever source they are
\* made.  Only the pending cancel may disagree: it has the cached ones, which
\* are the client's type and GTC until the entry is made again.  What is
\* reported departs from README.md for stop limits (StopLimitReported) and for
\* immediate margin orders (ImmediateReported).  A good-till-date order's
\* reports carry its expiry, to the second.
TypeReported ==
    Original =>
        /\ m.ordType # "OTHER" =>
             \/ er.ordType = ReportedType /\ er.tif = ReportedTif
             \/ er.kind = "pendingCancel" /\ er.ordType = m.ordType /\ er.tif = "GTC"
        /\ er.tif = "GTD" => er.expire = m.expire - (m.expire % 1000)

\* Every report says whether the order is hidden and post-only, and carries the
\* peg of a trailing stop, although the notification that accepts the order
\* has neither and updates may be without the peg.
FlagsAndPegReported ==
    Original =>
        /\ er.flags = {fl \in {"hidden", "postOnly"} :
                         IF fl = "hidden" THEN m.hidden ELSE "PDI" \in m.inst}
        /\ bo.kind = "TRAILING STOP" => er.peg = IF m.peg = 0 THEN None ELSE m.peg

\* A limit order's price is in all its reports; the price in a report is the
\* client's limit, but for immediate orders and the pending cancel of a stop,
\* which give the stop price.
LimitReported ==
    Original =>
        /\ m.ordType = "LIMIT" => er.price = IF m.price = 0 THEN None ELSE m.price
        /\ er.price # None => \/ er.price = m.price /\ m.ordType \in {"LIMIT", "STOP_LIMIT"}
                              \/ er.price = m.stopPx /\ m.ordType = "STOP"
                                 /\ (Immediate(m) \/ er.kind = "pendingCancel")

\* The reports made of the request or of its entry, not of Bitfinex's order.
FromRequest == {"failed", "rejected", "pendingCancel"}

\* All reports, also of a replaced order and whatever side the replacement
\* names, carry the side of the order.  Their symbol is the client's name of
\* what Bitfinex calls the symbol, or, in those made of the request, of what it
\* was sent as: they differ for a client that is passed through and names
\* BTCUSD.  It is the client's own name where the symbol master file maps that
\* name to symbols as Bitfinex calls them.
SideAndSymbolReported ==
    er.kind \in ReportKinds =>
        /\ m.side \in {"BUY", "SELL"} => er.side = m.side
        /\ \E sym \in Inbound(sets, m.symbol, CounterParty) :
             \/ er.symbol = Outbound(sets, BitfinexName(sym), CounterParty)
             \/ er.kind \in FromRequest /\ er.symbol = Outbound(sets, sym, CounterParty)
        /\ Error \notin ToBitfinex(sets, m.symbol, CounterParty)
             /\ ToBitfinex(sets, m.symbol, CounterParty) \cap DOMAIN Alias = {}
           => er.symbol = m.symbol
-----------------------------------------------------------------------------
(***************************************************************************)
(* What the README says that does not hold.                                *)
(***************************************************************************)

\* README.md lists Stop Limit among the supported order types: the reports of
\* a working one say that it is one.  With a peg it is documented as a trailing
\* stop: Bitfinex has one, and its reports carry the peg.
StopLimitReported ==
    Original /\ phase = "working" /\ m.ordType = "STOP_LIMIT" /\ ~Immediate(m) =>
        IF "PEG" \in m.inst
        THEN bo.kind = "TRAILING STOP" /\ er.ordType \in {"STOP", "STOP_LIMIT"} /\ er.peg = m.peg
        ELSE er.ordType = "STOP_LIMIT"

\* README.md, of an immediate-or-cancel order: its "execution reports will
\* indicate the order was placed as a fill or kill limit".
ImmediateReported ==
    Original /\ phase = "working" /\ m.tif = "IOC" => er.ordType = "LIMIT" /\ er.tif = "FOK"
=============================================================================
