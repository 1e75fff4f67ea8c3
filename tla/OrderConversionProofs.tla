----------------------- MODULE OrderConversionProofs -----------------------
(***************************************************************************)
(* What OrderConversion says of the order sent and of its reports, for any *)
(* messages, replacements, prices, dates and symbol master files.          *)
(***************************************************************************)
EXTENDS OrderConversion, TLAPS

\* The symbol as it is sent and as Bitfinex knows it, and how the client's side
\* may be cached.
Sent  == Inbound(sets, m.symbol, CounterParty)
Known == {BitfinexName(sym) : sym \in Sent}
Names == Sent \cup Known
Amount == GetAmountFromQtyAndSide(m.side)
CacheSide == {m.side, SideToFIX(Amount)}

\* The types Bitfinex has and the flags it knows.
BitfinexKind == {"FOK", "MARKET", "LIMIT", "STOP", "TRAILING STOP", "STOP LIMIT", ""}
Flag == {"hidden", "postOnly"}

\* Bitfinex's order, and an entry of the cache: of the client's side and
\* symbol whatever else is replaced.
BitfinexOrder ==
    [kind : BitfinexKind, margin : BOOLEAN, symbol : Names, amount : {Amount}, px : Nat,
     aux : Nat, trail : Nat, oco : Nat \cup {None}, flags : SUBSET Flag, mtstif : Nat]

CachedOrder ==
    [px : Nat, stop : Nat, trail : Nat, symbol : Names, side : CacheSide, ordType : OrdType,
     margin : BOOLEAN, tif : {"GTC", "GTD", "FOK"}, exp : Nat, flags : SUBSET Flag,
     oid : BOOLEAN]

\* The entry OnFIXNewOrderSingle makes of order o.
FIXEntry(o, known) ==
    [px |-> o.px, stop |-> o.aux, trail |-> o.trail, symbol |-> o.symbol, side |-> m.side,
     ordType |-> m.ordType, margin |-> o.margin, tif |-> "GTC", exp |-> o.mtstif,
     flags |-> o.flags, oid |-> known]

\* What an entry of order o says of it, however it was made: its type and
\* time in force are the client's and GTC, or Bitfinex's.
OwnTerms(e, o) ==
    /\ e.px = o.px /\ e.trail = o.trail /\ e.exp = o.mtstif /\ e.flags = o.flags
    /\ \/ e.ordType = m.ordType /\ e.tif = "GTC"
       \/ e.ordType = OrdTypeToFIX(o.kind) /\ e.tif = TimeInForceToFIX(o)

\* What is known in each phase.
PhaseInv ==
    /\ m \in Message /\ sets \in Tables
    /\ phase \in {"start", "sent", "working", "replacing", "closed", "over"}
    /\ DOMAIN orders \subseteq {"own", "new", CID}
    /\ phase = "start" => DOMAIN orders = {} /\ er = NoReport
    /\ bo = None \/ bo \in BitfinexOrder
    /\ phase \in {"sent", "working", "replacing", "closed"} => "own" \in DOMAIN orders
    /\ DOMAIN orders # {} => "own" \in DOMAIN orders /\ ~Refused(m) /\ bo \in BitfinexOrder
    /\ phase = "sent" => "new" \notin DOMAIN orders /\ bo.symbol \in Sent
    /\ phase = "replacing" => "new" \in DOMAIN orders
    /\ phase \in {"working", "replacing", "closed"} => bo.symbol \in Known

CacheInv == \A c \in DOMAIN orders : orders[c] \in CachedOrder

\* Until it is replaced Bitfinex's order is the client's, and the entry of its
\* ClOrdID is as the client or as Bitfinex would have it.
OriginalInv ==
    "own" \in DOMAIN orders /\ "new" \notin DOMAIN orders =>
        /\ \E sym \in Names : bo = requestToOrder(m, sym)
        /\ m.id = "int" => OwnTerms(orders["own"], bo)

StateInv == PhaseInv /\ CacheInv /\ OriginalInv

\* What the properties say of a report r.
TypeTerms(r) ==
    /\ m.ordType # "OTHER" =>
         \/ r.ordType = ReportedType /\ r.tif = ReportedTif
         \/ r.kind = "pendingCancel" /\ r.ordType = m.ordType /\ r.tif = "GTC"
    /\ r.tif = "GTD" => r.expire = m.expire - (m.expire % 1000)

FlagTerms(r, kind) ==
    /\ r.flags = {fl \in Flag : IF fl = "hidden" THEN m.hidden ELSE "PDI" \in m.inst}
    /\ kind = "TRAILING STOP" => r.peg = IF m.peg = 0 THEN None ELSE m.peg

LimitTerms(r) ==
    /\ m.ordType = "LIMIT" => r.price = IF m.price = 0 THEN None ELSE m.price
    /\ r.price # None => \/ r.price = m.price /\ m.ordType \in {"LIMIT", "STOP_LIMIT"}
                         \/ r.price = m.stopPx /\ m.ordType = "STOP"
                            /\ (Immediate(m) \/ r.kind = "pendingCancel")

\* The client's name stands for symbols as Bitfinex calls them.
OwnName ==
    /\ Error \notin ToBitfinex(sets, m.symbol, CounterParty)
    /\ ToBitfinex(sets, m.symbol, CounterParty) \cap DOMAIN Alias = {}

SideTerms(r) ==
    /\ m.side \in {"BUY", "SELL"} => r.side = m.side
    /\ \E sym \in Sent :
         \/ r.symbol = Outbound(sets, BitfinexName(sym), CounterParty)
         \/ r.kind \in FromRequest /\ r.symbol = Outbound(sets, sym, CounterParty)
    /\ OwnName => r.symbol = m.symbol

\* The terms of a report on the client's order as it was sent.
Terms(r, kind) == TypeTerms(r) /\ FlagTerms(r, kind) /\ LimitTerms(r)

ReportInv ==
    er.kind \in ReportKinds =>
        /\ SideTerms(er)
        /\ Original => Terms(er, bo.kind)

IInv == StateInv /\ ReportInv
-----------------------------------------------------------------------------
(***************************************************************************)
(* The converters.                                                         *)
(***************************************************************************)

\* The times FIX messages name survive genMTSTif to the second.
LEMMA ToTheSecond ==
    ASSUME NEW t \in Nat, t >= 1000
    PROVE  /\ (t \div 1000) * 1000 \in Nat
           /\ (t \div 1000) * 1000 > 0
           /\ (t \div 1000) * 1000 = t - (t % 1000)
           /\ ((t \div 1000) * 1000) \div 1000 = t \div 1000
OBVIOUS

\* A message that is not refused has the fields its conversion reads.
LEMMA Complete ==
    ASSUME NEW msg \in Message, ~Refused(msg)
    PROVE  /\ GetPricesFromOrdType(msg) \in [px : Nat, aux : Nat, trail : Nat, oco : Nat]
           /\ GetTimeInForceFromFIX(msg) \in Nat
           /\ GetFlagsFromFIX(msg) \in SUBSET Flag
           /\ msg.tif = "GTD" => msg.expire \in Nat /\ msg.expire >= 1000
<1>1. msg.tif = "GTD" => msg.expire \in Nat /\ msg.expire >= 1000
  BY DEF Message, Refused, TifRefused
<1>2. GetTimeInForceFromFIX(msg) \in Nat
  BY <1>1, ToTheSecond DEF GetTimeInForceFromFIX
<1>3. GetFlagsFromFIX(msg) \in SUBSET Flag
  BY DEF GetFlagsFromFIX, Flag
<1>4. GetPricesFromOrdType(msg) \in [px : Nat, aux : Nat, trail : Nat, oco : Nat]
  BY DEF Message, Refused, PricesRefused, GetPricesFromOrdType, OrdType
<1> QED
  BY <1>1, <1>2, <1>3, <1>4

LEMMA NewOrder ==
    ASSUME NEW msg \in Message, ~Refused(msg), NEW sym
    PROVE  /\ requestToOrder(msg, sym) \in
                [kind : BitfinexKind, margin : BOOLEAN, symbol : {sym},
                 amount : {GetAmountFromQtyAndSide(msg.side)}, px : Nat, aux : Nat,
                 trail : Nat, oco : Nat \cup {None}, flags : SUBSET Flag, mtstif : Nat]
<1>1. OrderNewTypeFromFIX(msg) \in [kind : BitfinexKind, margin : BOOLEAN]
  BY DEF OrderNewTypeFromFIX, BitfinexKind, Message, OrdType
<1> QED
  BY <1>1, Complete DEF requestToOrder

\* What a replacement changes is still an order of the client's side and
\* symbol.
LEMMA AmendedOrder ==
    ASSUME m \in Message, NEW o \in BitfinexOrder, NEW r \in CachedOrder
    PROVE  Amended(o, r) \in BitfinexOrder /\ Amended(o, r).symbol = o.symbol
<1>1. GetAmountFromQtyAndSide(r.side) = Amount
  BY DEF CachedOrder, CacheSide, Amount, GetAmountFromQtyAndSide, SideToFIX
<1>2. /\ r.px \in Nat /\ r.stop \in Nat /\ r.trail \in Nat /\ r.exp \in Nat
      /\ r.flags \in SUBSET Flag
  BY DEF CachedOrder
<1> DEFINE Keep(new, old) == IF new = 0 THEN old ELSE new
<1>3. /\ Keep(r.px, o.px) \in Nat /\ Keep(r.stop, o.aux) \in Nat
      /\ Keep(r.trail, o.trail) \in Nat /\ Keep(r.exp, o.mtstif) \in Nat
      /\ (IF r.flags = {} THEN o.flags ELSE r.flags) \in SUBSET Flag
  BY <1>2 DEF BitfinexOrder
<1> HIDE DEF Keep
<1>4. ASSUME NEW p \in BitfinexOrder, NEW n \in Nat, NEW flags \in SUBSET Flag
      PROVE  /\ [p EXCEPT !.amount = Amount] \in BitfinexOrder
             /\ [p EXCEPT !.px = n] \in BitfinexOrder /\ [p EXCEPT !.aux = n] \in BitfinexOrder
             /\ [p EXCEPT !.trail = n] \in BitfinexOrder
             /\ [p EXCEPT !.flags = flags] \in BitfinexOrder
             /\ [p EXCEPT !.mtstif = n] \in BitfinexOrder
  BY DEF BitfinexOrder
<1> DEFINE o1 == [o EXCEPT !.amount = Amount]
           o2 == [o1 EXCEPT !.px = Keep(r.px, o.px)]
           o3 == [o2 EXCEPT !.aux = Keep(r.stop, o.aux)]
           o4 == [o3 EXCEPT !.trail = Keep(r.trail, o.trail)]
           o5 == [o4 EXCEPT !.flags = IF r.flags = {} THEN o.flags ELSE r.flags]
           o6 == [o5 EXCEPT !.mtstif = Keep(r.exp, o.mtstif)]
<1>5. Amended(o, r) = o6
  BY <1>1, Zenon DEF Amended, Keep
<1>6. o1 \in BitfinexOrder /\ o1.symbol = o.symbol
  BY <1>4 DEF BitfinexOrder
<1>7. o2 \in BitfinexOrder /\ o2.symbol = o.symbol
  <2> HIDE DEF o1
  <2> QED  BY <1>3, <1>4, <1>6 DEF BitfinexOrder
<1>8. o3 \in BitfinexOrder /\ o3.symbol = o.symbol
  <2> HIDE DEF o2
  <2> QED  BY <1>3, <1>4, <1>7 DEF BitfinexOrder
<1>9. o4 \in BitfinexOrder /\ o4.symbol = o.symbol
  <2> HIDE DEF o3
  <2> QED  BY <1>3, <1>4, <1>8 DEF BitfinexOrder
<1>10. o5 \in BitfinexOrder /\ o5.symbol = o.symbol
  <2> HIDE DEF o4
  <2> QED  BY <1>3, <1>4, <1>9 DEF BitfinexOrder
<1>11. o6 \in BitfinexOrder /\ o6.symbol = o.symbol
  <2> HIDE DEF o5
  <2> QED  BY <1>3, <1>4, <1>10 DEF BitfinexOrder
<1> HIDE DEF o6
<1> QED
  BY <1>5, <1>11

\* Bitfinex's name of the symbol is all that acceptance changes.
LEMMA AcceptedOrder ==
    ASSUME NEW o \in BitfinexOrder, o.symbol \in Sent
    PROVE  /\ Accepted(o) \in BitfinexOrder /\ Accepted(o).symbol \in Known
           /\ Accepted(o).kind = o.kind /\ Accepted(o).margin = o.margin
           /\ Accepted(o).px = o.px /\ Accepted(o).aux = o.aux /\ Accepted(o).trail = o.trail
           /\ Accepted(o).flags = o.flags /\ Accepted(o).mtstif = o.mtstif
           /\ \A sym \in Names : o = requestToOrder(m, sym) =>
                \E name \in Names : Accepted(o) = requestToOrder(m, name)
<1>1. BitfinexName(o.symbol) \in Known
  BY DEF Known
<1>2. ASSUME NEW sym \in Names, o = requestToOrder(m, sym)
      PROVE  Accepted(o) = requestToOrder(m, BitfinexName(o.symbol))
  BY <1>2 DEF Accepted, requestToOrder
<1>3. /\ Accepted(o) \in BitfinexOrder /\ Accepted(o).symbol \in Known
      /\ Accepted(o).kind = o.kind /\ Accepted(o).margin = o.margin
      /\ Accepted(o).px = o.px /\ Accepted(o).aux = o.aux /\ Accepted(o).trail = o.trail
      /\ Accepted(o).flags = o.flags /\ Accepted(o).mtstif = o.mtstif
  BY <1>1 DEF Accepted, BitfinexOrder, Names
<1> QED
  BY <1>1, <1>2, <1>3 DEF Names

\* The order as notifications have it, and its entries.
LEMMA AckOrder ==
    ASSUME NEW o \in BitfinexOrder
    PROVE  /\ AckOf(o) \in BitfinexOrder
           /\ AckOf(o).kind = o.kind /\ AckOf(o).margin = o.margin
           /\ AckOf(o).symbol = o.symbol /\ AckOf(o).amount = o.amount
           /\ AckOf(o).mtstif = o.mtstif /\ AckOf(o).aux = o.aux
           /\ o.kind # "TRAILING STOP" => AckOf(o).px = o.px
BY ConversionAssumption DEF AckOf, BitfinexOrder

LEMMA CachedEntry ==
    ASSUME m \in Message, NEW o \in BitfinexOrder, NEW known \in BOOLEAN
    PROVE  /\ EntryOf(o, known) \in CachedOrder /\ FIXEntry(o, known) \in CachedOrder
           /\ OwnTerms(EntryOf(o, known), o) /\ OwnTerms(FIXEntry(o, known), o)
<1>1. SideToFIX(o.amount) \in CacheSide /\ m.side \in CacheSide
  BY DEF BitfinexOrder, CacheSide
<1>2. OrdTypeToFIX(o.kind) \in OrdType /\ m.ordType \in OrdType
  BY DEF OrdTypeToFIX, OrdType, Message
<1>3. TimeInForceToFIX(o) \in {"GTC", "GTD", "FOK"}
  BY DEF TimeInForceToFIX
<1>4. OwnTerms(EntryOf(o, known), o) /\ OwnTerms(FIXEntry(o, known), o)
  BY DEF EntryOf, FIXEntry, OwnTerms
<1> QED
  BY <1>1, <1>2, <1>3, <1>4 DEF EntryOf, FIXEntry, CachedOrder, BitfinexOrder
-----------------------------------------------------------------------------
(***************************************************************************)
(* The reports.                                                            *)
(***************************************************************************)

\* A symbol that the client's name was translated to is translated back to it.
LEMMA ThereAndBack ==
    ASSUME m \in Message, sets \in Tables, OwnName, NEW name \in Names
    PROVE  Outbound(sets, name, CounterParty) = m.symbol
<1>1. m.symbol # Error
  BY ConversionAssumption DEF Message
<1>2. Sent = ToBitfinex(sets, m.symbol, CounterParty)
  BY DEF Sent, Inbound, OwnName
<1>3. name \in ToBitfinex(sets, m.symbol, CounterParty) /\ name # Error
  <2>1. \A sym \in Sent : BitfinexName(sym) = sym
    BY <1>2 DEF OwnName, BitfinexName
  <2> QED
    BY <1>2, <2>1 DEF Names, Known, OwnName
<1>4. CounterParty \in DOMAIN sets
  BY DEF OwnName, ToBitfinex
<1>5. CASE sets[CounterParty].passthrough
  BY <1>1, <1>3, <1>4, <1>5 DEF ToBitfinex, FromBitfinex, Outbound
<1>6. CASE ~sets[CounterParty].passthrough
  <2>1. /\ name \in DOMAIN sets[CounterParty].symbols
        /\ sets[CounterParty].symbols[name] = m.symbol
    BY <1>3, <1>4, <1>6 DEF ToBitfinex
  <2> QED
    BY <1>1, <1>4, <1>6, <2>1 DEF FromBitfinex, Outbound
<1> QED
  BY <1>5, <1>6

\* A report with the side and symbol of Bitfinex's order or of the entry.
LEMMA SideReport ==
    ASSUME m \in Message, sets \in Tables, NEW name \in Names, NEW side \in CacheSide,
           NEW kind, name \in Known \/ kind \in FromRequest,
           NEW px, NEW stop, NEW trail, NEW ot, NEW margin, NEW tif, NEW exp, NEW flags
    PROVE  SideTerms(FIXExecutionReport(kind, name, side, px, stop, trail, ot, margin, tif,
                                        exp, flags))
<1> DEFINE r == FIXExecutionReport(kind, name, side, px, stop, trail, ot, margin, tif, exp, flags)
<1>1. m.side \in {"BUY", "SELL"} => side = m.side
  BY DEF CacheSide, Amount, SideToFIX, GetAmountFromQtyAndSide
<1>2. r.kind = kind /\ r.side = side /\ r.symbol = Outbound(sets, name, CounterParty)
  BY DEF FIXExecutionReport
<1> HIDE DEF r
<1>3. OwnName => r.symbol = m.symbol
  BY <1>2, ThereAndBack
<1>4. \E sym \in Sent :
         \/ r.symbol = Outbound(sets, BitfinexName(sym), CounterParty)
         \/ r.kind \in FromRequest /\ r.symbol = Outbound(sets, sym, CounterParty)
  BY <1>2 DEF Names, Known
<1>5. SideTerms(r)
  BY <1>1, <1>2, <1>3, <1>4 DEF SideTerms
<1> QED
  BY <1>5 DEF r

\* What the client's order has in its fields: its expiry to the second,
\* what reports make of its type, its price, its flags and its peg.
ExpireField(o) == m.tif = "GTD" => o.mtstif = m.expire - (m.expire % 1000)

ClientFields(o) ==
    /\ o.flags = {fl \in Flag : IF fl = "hidden" THEN m.hidden ELSE "PDI" \in m.inst}
    /\ o.kind = "TRAILING STOP" => o.trail = m.peg
    /\ m.ordType # "OTHER" =>
         OrdTypeToFIX(o.kind) = ReportedType /\ TimeInForceToFIX(o) = ReportedTif
    /\ TimeInForceToFIX(o) = "GTD" => m.tif = "GTD"
    /\ m.ordType = "LIMIT" => o.px = m.price /\ OrdTypeToFIX(o.kind) = "LIMIT"
    /\ m.ordType = "STOP_LIMIT" => o.px = m.price
    /\ m.ordType = "STOP" => o.px = m.stopPx
    /\ m.ordType = "STOP" /\ ~Immediate(m) => OrdTypeToFIX(o.kind) = "STOP"
    /\ m.ordType \notin {"LIMIT", "STOP_LIMIT", "STOP"} => o.px = 0
    /\ o.px \in Nat

LEMMA ClientOrder ==
    ASSUME m \in Message, ~Refused(m), NEW sym, NEW o, o = requestToOrder(m, sym)
    PROVE  ClientFields(o) /\ ExpireField(o)
<1>1. o.flags = {fl \in Flag : IF fl = "hidden" THEN m.hidden ELSE "PDI" \in m.inst}
  BY DEF requestToOrder, GetFlagsFromFIX, Flag
<1>2. /\ o.kind = OrderNewTypeFromFIX(m).kind /\ o.margin = OrderNewTypeFromFIX(m).margin
      /\ o.px = GetPricesFromOrdType(m).px /\ o.trail = GetPricesFromOrdType(m).trail
      /\ o.mtstif = GetTimeInForceFromFIX(m)
  BY DEF requestToOrder
<1>3. /\ m.ordType \in OrdType /\ m.tif \in TIF /\ m.inst \in SUBSET Inst /\ m.margin \in BOOLEAN
  BY DEF Message
<1>4. o.kind = "TRAILING STOP" => o.trail = m.peg
  BY <1>2, <1>3 DEF OrderNewTypeFromFIX, GetPricesFromOrdType, OrdType
<1>5. m.ordType # "OTHER" =>
        OrdTypeToFIX(o.kind) = ReportedType
  BY <1>2, <1>3 DEF OrderNewTypeFromFIX, OrdType, OrdTypeToFIX, Immediate, ReportedType
<1>6. /\ m.tif = "GTD" => o.mtstif = m.expire - (m.expire % 1000) /\ o.mtstif > 0
      /\ m.tif # "GTD" => o.mtstif = 0
  BY <1>2, Complete, ToTheSecond DEF GetTimeInForceFromFIX
<1>7. m.ordType # "OTHER" => /\ o.kind = "FOK" <=> Immediate(m)
                             /\ o.kind = "FOK" => o.margin = m.margin
  BY <1>2, <1>3 DEF OrderNewTypeFromFIX, OrdType, Immediate
<1>8. /\ m.ordType # "OTHER" => TimeInForceToFIX(o) = ReportedTif
      /\ TimeInForceToFIX(o) = "GTD" => m.tif = "GTD"
  BY <1>6, <1>7 DEF TimeInForceToFIX, ReportedTif
<1>9. /\ m.ordType = "LIMIT" => o.px = m.price /\ OrdTypeToFIX(o.kind) = "LIMIT"
      /\ m.ordType = "STOP_LIMIT" => o.px = m.price
      /\ m.ordType = "STOP" => o.px = m.stopPx
      /\ m.ordType = "STOP" /\ ~Immediate(m) => OrdTypeToFIX(o.kind) = "STOP"
      /\ m.ordType \notin {"LIMIT", "STOP_LIMIT", "STOP"} => o.px = 0
  BY <1>2, <1>3, <1>5 DEF GetPricesFromOrdType, OrdType, Immediate, ReportedType
<1>10. o.px \in Nat
  BY <1>2, Complete
<1> QED
  BY <1>1, <1>4, <1>5, <1>6, <1>8, <1>9, <1>10 DEF ClientFields, ExpireField

\* Every report but that of a pending cancel, whatever it takes from the
\* message and whatever from the entry: its price may be another one only for
\* a trailing stop.
LEMMA OrderReport ==
    ASSUME m \in Message, ~Refused(m), NEW sym, NEW o, o = requestToOrder(m, sym),
           NEW kind \in ReportKinds \ {"pendingCancel"}, NEW name, NEW side, NEW px, NEW stop,
           NEW peg, o.kind # "TRAILING STOP" => px = o.px,
           o.kind = "TRAILING STOP" => peg = o.trail
    PROVE  Terms(FIXExecutionReport(kind, name, side, px, stop, peg, OrdTypeToFIX(o.kind),
                                    o.margin, TimeInForceToFIX(o), o.mtstif, o.flags), o.kind)
<1> DEFINE r == FIXExecutionReport(kind, name, side, px, stop, peg, OrdTypeToFIX(o.kind),
                                   o.margin, TimeInForceToFIX(o), o.mtstif, o.flags)
<1>1. /\ r.kind = kind /\ r.ordType = OrdTypeToFIX(o.kind) /\ r.tif = TimeInForceToFIX(o)
      /\ r.flags = o.flags
      /\ r.price = IF px # 0 /\ OrdTypeToFIX(o.kind) \in {"LIMIT", "STOP_LIMIT"} THEN px ELSE None
      /\ r.peg = IF peg # 0 THEN peg ELSE None
      /\ r.expire = IF TimeInForceToFIX(o) = "GTD" THEN o.mtstif ELSE None
  BY DEF FIXExecutionReport
<1> HIDE DEF r
<1>0. ClientFields(o) /\ ExpireField(o)
  BY ClientOrder
<1>2. TypeTerms(r)
  <2>1. m.ordType # "OTHER" => r.ordType = ReportedType /\ r.tif = ReportedTif
    BY <1>0, <1>1 DEF ClientFields
  <2>2. r.tif = "GTD" => m.tif = "GTD" /\ r.expire = o.mtstif
    BY <1>0, <1>1 DEF ClientFields
  <2>3. r.tif = "GTD" => r.expire = m.expire - (m.expire % 1000)
    BY <1>0, <2>2 DEF ExpireField
  <2> QED
    BY <2>1, <2>3 DEF TypeTerms
<1>3. FlagTerms(r, o.kind)
  BY <1>0, <1>1 DEF FlagTerms, ClientFields
<1>4. LimitTerms(r)
  <2>1. o.kind = "TRAILING STOP" => r.price = None /\ m.ordType = "STOP"
    <3>1. o.kind = OrderNewTypeFromFIX(m).kind /\ m.ordType \in OrdType
      BY DEF requestToOrder, Message
    <3>2. o.kind = "TRAILING STOP" => m.ordType = "STOP"
      BY <3>1 DEF OrderNewTypeFromFIX, OrdType
    <3> QED
      BY <1>1, <3>2 DEF OrdTypeToFIX
  <2>2. CASE o.kind = "TRAILING STOP"
    BY <2>1, <2>2 DEF LimitTerms
  <2>3. CASE o.kind # "TRAILING STOP"
    BY <1>0, <1>1, <2>3, ConversionAssumption DEF LimitTerms, ClientFields
  <2> QED
    BY <2>2, <2>3
<1> QED
  BY <1>2, <1>3, <1>4 DEF Terms, r

\* The report of a pending cancel, which is the entry's.
LEMMA PendingCancelReport ==
    ASSUME m \in Message, ~Refused(m), NEW sym, NEW o, o = requestToOrder(m, sym),
           NEW e, OwnTerms(e, o), NEW r,
           r = FIXExecutionReport("pendingCancel", e.symbol, e.side, e.px, e.stop, e.trail,
                                  e.ordType, e.margin, e.tif, e.exp, e.flags)
    PROVE  Terms(IF e.px > 0 THEN [r EXCEPT !.price = e.px] ELSE r, o.kind)
<1> DEFINE s == IF e.px > 0 THEN [r EXCEPT !.price = e.px] ELSE r
<1>1. /\ e.px = o.px /\ e.trail = o.trail /\ e.exp = o.mtstif /\ e.flags = o.flags
      /\ \/ e.ordType = m.ordType /\ e.tif = "GTC"
         \/ e.ordType = OrdTypeToFIX(o.kind) /\ e.tif = TimeInForceToFIX(o)
  BY DEF OwnTerms
<1>2. /\ s.kind = "pendingCancel" /\ s.tif = e.tif /\ s.flags = e.flags /\ s.ordType = e.ordType
      /\ s.price = IF e.px > 0 THEN e.px
                   ELSE IF e.px # 0 /\ e.ordType \in {"LIMIT", "STOP_LIMIT"} THEN e.px ELSE None
      /\ s.peg = IF e.trail # 0 THEN e.trail ELSE None
      /\ s.expire = IF e.tif = "GTD" THEN e.exp ELSE None
  BY DEF FIXExecutionReport
<1> HIDE DEF s
<1>0. ClientFields(o) /\ ExpireField(o)
  BY ClientOrder
<1>3. TypeTerms(s)
  <2>1. s.tif = "GTD" => m.tif = "GTD" /\ s.expire = o.mtstif
    BY <1>0, <1>1, <1>2 DEF ClientFields
  <2>2. s.tif = "GTD" => s.expire = m.expire - (m.expire % 1000)
    BY <1>0, <2>1 DEF ExpireField
  <2>3. m.ordType # "OTHER" =>
           \/ s.ordType = ReportedType /\ s.tif = ReportedTif
           \/ s.ordType = m.ordType /\ s.tif = "GTC"
    BY <1>0, <1>1, <1>2 DEF ClientFields
  <2> QED
    BY <1>2, <2>2, <2>3 DEF TypeTerms
<1>4. FlagTerms(s, o.kind)
  BY <1>0, <1>1, <1>2 DEF FlagTerms, ClientFields
<1>5. LimitTerms(s)
  <2>0. o.px \in Nat /\ e.px = o.px
    BY <1>0, <1>1 DEF ClientFields
  <2>1. s.price = IF o.px = 0 THEN None ELSE o.px
    <3>1. CASE o.px = 0
      BY <1>2, <2>0, <3>1
    <3>2. CASE o.px # 0
      BY <1>2, <2>0, <3>2
    <3> QED
      BY <3>1, <3>2
  <2> QED
    BY <1>0, <1>2, <2>1 DEF LimitTerms, ClientFields
<1> QED
  BY <1>3, <1>4, <1>5 DEF Terms, s

LEMMA FromOrderSide ==
    ASSUME m \in Message, sets \in Tables, NEW o \in BitfinexOrder,
           NEW kind, o.symbol \in Known \/ kind \in FromRequest,
           NEW flags, NEW stop, NEW peg
    PROVE  /\ SideTerms(FIXExecutionReportFromOrder(kind, o, flags, stop, peg))
           /\ FIXExecutionReportFromOrder(kind, o, flags, stop, peg).kind = kind
<1>1. o.symbol \in Names /\ SideToFIX(o.amount) \in CacheSide
  BY DEF BitfinexOrder, CacheSide
<1>2. FIXExecutionReportFromOrder(kind, o, flags, stop, peg).kind = kind
  BY DEF FIXExecutionReportFromOrder, FIXExecutionReport
<1> QED
  BY <1>1, <1>2, SideReport DEF FIXExecutionReportFromOrder

\* The client's order is still as it was sent.
Untouched == m.id = "int" /\ "own" \in DOMAIN orders /\ "new" \notin DOMAIN orders

\* Then Bitfinex's order with the flags and the peg of the entry is reported
\* right, whatever the message in hand leaves out.
LEMMA FromOrderTerms ==
    ASSUME StateInv, Untouched, NEW o, o.kind = bo.kind, o.margin = bo.margin,
           o.mtstif = bo.mtstif, bo.kind # "TRAILING STOP" => o.px = bo.px,
           NEW kind \in ReportKinds \ {"pendingCancel"}, NEW stop, NEW peg,
           bo.kind = "TRAILING STOP" => peg = bo.trail
    PROVE  Terms(FIXExecutionReportFromOrder(kind, o, bo.flags, stop, peg), bo.kind)
<1>1. /\ m \in Message /\ ~Refused(m)
      /\ \E sym \in Names : bo = requestToOrder(m, sym)
  BY DEF StateInv, PhaseInv, OriginalInv, Untouched
<1>2. TimeInForceToFIX(o) = TimeInForceToFIX(bo)
  BY DEF TimeInForceToFIX
<1>3. Terms(FIXExecutionReport(kind, o.symbol, SideToFIX(o.amount), o.px, stop, peg,
               OrdTypeToFIX(bo.kind), bo.margin, TimeInForceToFIX(bo), bo.mtstif, bo.flags), bo.kind)
  BY <1>1, OrderReport
<1> QED
  BY <1>2, <1>3 DEF FIXExecutionReportFromOrder

\* Its one entry has the terms that reports take from it.
LEMMA UntouchedEntry ==
    ASSUME StateInv, Untouched
    PROVE  /\ DOMAIN orders = {"own"} /\ CID = "own"
           /\ orders["own"].flags = bo.flags /\ orders["own"].trail = bo.trail
           /\ orders["own"].px = bo.px /\ orders["own"].exp = bo.mtstif
<1>1. DOMAIN orders = {"own"} /\ CID = "own"
  BY DEF StateInv, PhaseInv, Untouched, CID
<1>2. OwnTerms(orders["own"], bo)
  BY DEF StateInv, OriginalInv, Untouched
<1> QED
  BY <1>1, <1>2 DEF OwnTerms
-----------------------------------------------------------------------------
(***************************************************************************)
(* The steps.                                                              *)
(***************************************************************************)

\* The message and the tables stay, and with them what was said of both.
LEMMA Same ==
    ASSUME UNCHANGED <<sets, m>>
    PROVE  /\ CID' = CID /\ Names' = Names /\ Sent' = Sent /\ Known' = Known
           /\ BitfinexOrder' = BitfinexOrder /\ CachedOrder' = CachedOrder
           /\ SideTerms(er)' = SideTerms(er')
           /\ Terms(er, bo.kind)' = Terms(er', bo'.kind)
           /\ Refused(m)' = Refused(m)
<1>1. CID' = CID /\ Names' = Names /\ Sent' = Sent /\ Known' = Known
  BY DEF CID, Names, Sent, Known
<1>2. Amount' = Amount /\ CacheSide' = CacheSide
  BY DEF Amount, CacheSide
<1>3. BitfinexOrder' = BitfinexOrder /\ CachedOrder' = CachedOrder
  BY <1>1, <1>2 DEF BitfinexOrder, CachedOrder
<1>4. SideTerms(er)' = SideTerms(er')
  BY <1>1 DEF SideTerms, OwnName
<1>5. Terms(er, bo.kind)' = Terms(er', bo'.kind)
  BY DEF Terms, TypeTerms, FlagTerms, LimitTerms, ReportedType, ReportedTif
<1> QED
  BY <1>1, <1>3, <1>4, <1>5

\* What a step after the order was sent has to keep.
LEMMA Later ==
    ASSUME StateInv, UNCHANGED <<sets, m>>,
           phase \in {"sent", "working", "replacing", "closed"},
           phase' \in {"working", "replacing", "closed", "over"},
           DOMAIN orders \subseteq DOMAIN orders', DOMAIN orders' \subseteq {"own", "new", CID},
           \A c \in DOMAIN orders' : orders'[c] \in CachedOrder,
           bo' \in BitfinexOrder, phase' # "over" => bo'.symbol \in Known,
           phase' = "replacing" => "new" \in DOMAIN orders',
           "new" \notin DOMAIN orders' =>
             /\ bo' = bo \/ (phase = "sent" /\ bo' = Accepted(bo))
             /\ m.id = "int" => OwnTerms(orders'["own"], bo),
           er'.kind \in ReportKinds =>
             /\ SideTerms(er')
             /\ Untouched /\ "new" \notin DOMAIN orders' => Terms(er', bo.kind)
    PROVE  IInv'
<1>1. "own" \in DOMAIN orders /\ ~Refused(m) /\ m \in Message /\ sets \in Tables
  BY DEF StateInv, PhaseInv
<1>0. "new" \notin DOMAIN orders' =>
        /\ bo'.kind = bo.kind /\ bo'.margin = bo.margin /\ bo'.px = bo.px
        /\ bo'.trail = bo.trail /\ bo'.flags = bo.flags /\ bo'.mtstif = bo.mtstif
        /\ \A sym \in Names : bo = requestToOrder(m, sym) =>
             \E name \in Names : bo' = requestToOrder(m, name)
  <2>1. CASE bo' = bo
    BY <2>1
  <2>2. CASE phase = "sent" /\ bo' = Accepted(bo)
    <3>1. bo \in BitfinexOrder /\ bo.symbol \in Sent
      BY <2>2 DEF StateInv, PhaseInv
    <3> QED
      BY <2>2, <3>1, AcceptedOrder
  <2> QED
    BY <2>1, <2>2
<1>2. PhaseInv' /\ CacheInv'
  BY <1>1, Same DEF PhaseInv, CacheInv
<1>3. OriginalInv'
  <2> SUFFICES ASSUME "new" \notin DOMAIN orders'
               PROVE  /\ \E sym \in Names' : bo' = requestToOrder(m', sym)
                      /\ m'.id = "int" => OwnTerms(orders["own"], bo)'
    BY DEF OriginalInv
  <2>1. "new" \notin DOMAIN orders
    OBVIOUS
  <2>2. \E sym \in Names : bo = requestToOrder(m, sym)
    BY <1>1, <2>1 DEF StateInv, OriginalInv
  <2>3. m.id = "int" => OwnTerms(orders["own"], bo)'
    BY <1>0 DEF OwnTerms, TimeInForceToFIX
  <2> QED
    BY <1>0, <2>2, <2>3, Same
<1>4. ReportInv'
  <2>1. SideTerms(er)' = SideTerms(er') /\ Terms(er, bo.kind)' = Terms(er', bo'.kind)
    BY Same
  <2> QED
    BY <1>0, <1>1, <2>1 DEF ReportInv, Original, Untouched
<1> QED
  BY <1>2, <1>3, <1>4 DEF IInv, StateInv

\* The state in which all but the first step are taken.
LEMMA InHand ==
    ASSUME StateInv, phase \in {"sent", "working", "replacing", "closed"}
    PROVE  /\ m \in Message /\ sets \in Tables /\ ~Refused(m)
           /\ "own" \in DOMAIN orders /\ DOMAIN orders \subseteq {"own", "new", CID}
           /\ bo \in BitfinexOrder
           /\ \A c \in DOMAIN orders : orders[c] \in CachedOrder
           /\ "new" \notin DOMAIN orders /\ m.id = "int" => OwnTerms(orders["own"], bo)
           /\ phase = "sent" => "new" \notin DOMAIN orders /\ bo.symbol \in Sent
           /\ phase = "replacing" => "new" \in DOMAIN orders
           /\ phase # "sent" => bo.symbol \in Known
BY DEF StateInv, PhaseInv, CacheInv, OriginalInv

LEMMA OnFIXNewOrderSingleInv ==
    ASSUME IInv, OnFIXNewOrderSingle
    PROVE  IInv'
<1>1. /\ UNCHANGED <<sets, m>> /\ m \in Message /\ sets \in Tables
      /\ DOMAIN orders = {} /\ (bo = None \/ bo \in BitfinexOrder)
  BY DEF IInv, StateInv, PhaseInv, OnFIXNewOrderSingle
<1>2. CASE Refused(m)
  <2>1. /\ phase' = "over" /\ er'.kind = "refused" /\ UNCHANGED <<bo, orders>>
    BY <1>2 DEF OnFIXNewOrderSingle, Send
  <2>2. PhaseInv' /\ CacheInv' /\ OriginalInv'
    BY <1>1, <2>1, Same DEF PhaseInv, CacheInv, OriginalInv
  <2>3. ReportInv'
    BY <2>1 DEF ReportInv, ReportKinds
  <2> QED
    BY <2>2, <2>3 DEF IInv, StateInv
<1>3. CASE ~Refused(m)
  <2>1. PICK sym \in Sent :
          LET o == requestToOrder(m, sym) IN
          /\ bo' = o
          /\ AddOrder("own", FIXEntry(o, FALSE))
          /\ \/ phase' = "sent" /\ er' = NoReport
             \/ /\ phase' = "over"
                /\ er' = FIXExecutionReportFromOrder("failed", o, o.flags, o.aux, o.trail)
    BY <1>3 DEF OnFIXNewOrderSingle, Sent, FIXEntry, Send
  <2> DEFINE o == requestToOrder(m, sym)
  <2>2. o \in BitfinexOrder /\ o.symbol = sym
    BY <1>1, <1>3, NewOrder DEF BitfinexOrder, Amount, Names
  <2>3. DOMAIN orders' = {"own"} /\ orders'["own"] = FIXEntry(o, FALSE)
    BY <1>1, <2>1 DEF AddOrder
  <2>4. PhaseInv'
    BY <1>1, <1>3, <2>1, <2>2, <2>3, Same DEF PhaseInv
  <2>5. CacheInv'
    BY <1>1, <2>2, <2>3, Same, CachedEntry DEF CacheInv
  <2>6. OriginalInv'
    <3>1. OwnTerms(orders["own"], bo)'
      <4>1. OwnTerms(orders'["own"], bo')
        BY <1>1, <2>1, <2>2, <2>3, CachedEntry
      <4> QED
        BY <1>1, <4>1 DEF OwnTerms, TimeInForceToFIX
    <3>2. bo' = requestToOrder(m', sym) /\ sym \in Names'
      BY <1>1, <2>1, Same DEF Names
    <3> QED
      BY <2>3, <3>1, <3>2 DEF OriginalInv
  <2>7. ReportInv'
    <3> SUFFICES ASSUME er'.kind \in ReportKinds
                 PROVE  SideTerms(er') /\ Terms(er', bo'.kind)
      BY <1>1, Same DEF ReportInv
    <3>1. er' = FIXExecutionReportFromOrder("failed", o, o.flags, o.aux, o.trail)
      BY <2>1 DEF NoReport, ReportKinds
    <3>2. SideTerms(er')
      BY <1>1, <2>2, <3>1, FromOrderSide DEF FromRequest
    <3>3. Terms(er', o.kind)
      BY <1>1, <1>3, <3>1, OrderReport DEF FIXExecutionReportFromOrder, ReportKinds
    <3> QED
      BY <2>1, <3>2, <3>3
  <2> QED
    BY <2>4, <2>5, <2>6, <2>7 DEF IInv, StateInv
<1> QED
  BY <1>2, <1>3

LEMMA OnFIXOrderCancelReplaceRequestInv ==
    ASSUME IInv, NEW msg \in Replacements, OnFIXOrderCancelReplaceRequest(msg)
    PROVE  IInv'
<1> USE DEF IInv
<1>1. /\ UNCHANGED <<sets, m, bo>> /\ phase = "working" /\ "new" \notin DOMAIN orders
      /\ msg \in Message
  BY ConversionAssumption DEF OnFIXOrderCancelReplaceRequest
<1>2. CASE /\ er'.kind \in {"cancelReject", "refused"}
           /\ UNCHANGED <<phase, orders>>
  BY <1>1, <1>2, InHand, Later DEF ReportKinds
<1>3. CASE CID \in WithOrderID /\ ~Refused(msg)
  <2> DEFINE p == GetPricesFromOrdType(msg)
             old == orders[CID]
             e == [px |-> p.px, stop |-> p.aux, trail |-> p.trail, symbol |-> old.symbol,
                   side |-> CachedSide(msg), ordType |-> msg.ordType, margin |-> old.margin,
                   tif |-> "GTC", exp |-> GetTimeInForceFromFIX(msg),
                   flags |-> GetFlagsFromFIX(msg), oid |-> TRUE]
             o == [requestToOrder(msg, old.symbol)
                     EXCEPT !.amount = GetAmountFromQtyAndSide(CachedSide(msg))]
  <2>1. old \in CachedOrder
    BY <1>1, <1>3, InHand DEF WithOrderID
  <2>2. e \in CachedOrder
    <3>1. msg.ordType \in OrdType
      BY <1>1 DEF Message
    <3>2. p \in [px : Nat, aux : Nat, trail : Nat, oco : Nat] /\ GetTimeInForceFromFIX(msg) \in Nat
          /\ GetFlagsFromFIX(msg) \in SUBSET Flag
      BY <1>1, <1>3, Complete
    <3> QED
      BY <2>1, <3>1, <3>2 DEF CachedOrder, CachedSide
  <2>3. o \in BitfinexOrder
    <3>1. GetAmountFromQtyAndSide(CachedSide(msg)) = Amount
      BY <2>1 DEF CachedOrder, CachedSide, CacheSide, Amount, GetAmountFromQtyAndSide, SideToFIX
    <3>2. old.symbol \in Names
      BY <2>1 DEF CachedOrder
    <3>3. requestToOrder(msg, old.symbol) \in
                [kind : BitfinexKind, margin : BOOLEAN, symbol : {old.symbol},
                 amount : {GetAmountFromQtyAndSide(msg.side)}, px : Nat, aux : Nat,
                 trail : Nat, oco : Nat \cup {None}, flags : SUBSET Flag, mtstif : Nat]
      BY <1>1, <1>3, NewOrder
    <3> HIDE DEF old
    <3> QED
      BY <3>1, <3>2, <3>3 DEF BitfinexOrder
  <2>4. /\ AddOrder("new", e)
        /\ \/ phase' = "replacing" /\ er' = NoReport
           \/ /\ er' = FIXExecutionReportFromOrder("failed", o, o.flags, o.aux, o.trail)
              /\ phase' = phase
    BY <1>1, <1>3 DEF OnFIXOrderCancelReplaceRequest, Send
  <2>5. /\ DOMAIN orders' = DOMAIN orders \cup {"new"}
        /\ \A c \in DOMAIN orders' : orders'[c] \in CachedOrder
    <3> HIDE DEF e
    <3> QED
      BY <1>1, <2>2, <2>4, InHand DEF AddOrder
  <2>6. er'.kind \in ReportKinds => SideTerms(er')
    <3> HIDE DEF o
    <3> QED
      BY <1>1, <2>3, <2>4, InHand, FromOrderSide DEF NoReport, ReportKinds, FromRequest
  <2>7. phase' \in {"replacing", "working"}
    BY <1>1, <2>4
  <2> HIDE DEF o, e
  <2> QED
    BY <1>1, <2>5, <2>6, <2>7, InHand, Later
<1> QED
  BY <1>1, <1>2, <1>3 DEF OnFIXOrderCancelReplaceRequest, Send

\* AddOrder with Bitfinex's own idea of its order.
LEMMA AddEntry ==
    ASSUME StateInv, phase \in {"sent", "working", "replacing", "closed"},
           NEW o \in BitfinexOrder, NEW known \in BOOLEAN, CID = "own" => o = bo,
           orders' = [k \in DOMAIN orders \cup {CID} |->
                        IF k = CID THEN EntryOf(o, known) ELSE orders[k]]
    PROVE  /\ DOMAIN orders' = DOMAIN orders \cup {CID}
           /\ \A c \in DOMAIN orders' : orders'[c] \in CachedOrder
           /\ m.id = "int" => CID = "own"
           /\ CID \in {"own", "0"}
           /\ m.id = "int" => OwnTerms(orders'["own"], bo)
<1>1. CID \in {"own", "0"} /\ (m.id = "int" => CID = "own")
  BY DEF CID
<1> QED
  BY <1>1, InHand, CachedEntry

LEMMA OnFIXOrderStatusRequestInv ==
    ASSUME IInv, OnFIXOrderStatusRequest
    PROVE  IInv'
<1> USE DEF IInv
<1>1. UNCHANGED <<sets, m, bo, phase>> /\ phase = "working"
  BY DEF OnFIXOrderStatusRequest
<1>2. bo \in BitfinexOrder /\ m \in Message /\ sets \in Tables /\ bo.symbol \in Known
  BY <1>1, InHand
<1>3. ASSUME NEW c \in WithOrderID, UNCHANGED orders,
             er' = FIXExecutionReportFromOrder("status", bo, orders[c].flags, orders[c].stop,
                                               orders[c].trail)
      PROVE  IInv'
  <2>1. SideTerms(er')
    BY <1>2, <1>3, FromOrderSide
  <2>2. Untouched => Terms(er', bo.kind)
    <3> SUFFICES ASSUME Untouched PROVE Terms(er', bo.kind)
      OBVIOUS
    <3>1. c = "own" /\ orders[c].flags = bo.flags /\ orders[c].trail = bo.trail
      BY UntouchedEntry DEF WithOrderID
    <3> QED
      BY <1>3, <3>1, FromOrderTerms DEF ReportKinds
  <2> QED
    BY <1>1, <1>3, <2>1, <2>2, InHand, Later
<1>4. CASE /\ AddOrder(CID, EntryOf(bo, FALSE))
           /\ er' = FIXExecutionReportFromOrder("status", bo, bo.flags, bo.aux, bo.trail)
  <2>1. SideTerms(er')
    BY <1>2, <1>4, FromOrderSide
  <2>2. Untouched => Terms(er', bo.kind)
    BY <1>4, FromOrderTerms DEF ReportKinds
  <2>3. /\ DOMAIN orders' = DOMAIN orders \cup {CID}
        /\ \A c \in DOMAIN orders' : orders'[c] \in CachedOrder
        /\ m.id = "int" => OwnTerms(orders'["own"], bo)
    BY <1>1, <1>2, <1>4, AddEntry DEF AddOrder
  <2> QED
    BY <1>1, <1>2, <2>1, <2>2, <2>3, InHand, Later
<1> QED
  BY <1>3, <1>4 DEF OnFIXOrderStatusRequest, Send

\* The notification on the order as it was sent or as Bitfinex takes it, with
\* the flags and the peg of its entry.
LEMMA NotificationTerms ==
    ASSUME StateInv, Untouched, phase = "sent", NEW o \in {bo, Accepted(bo)}, NEW cache,
           CID \in DOMAIN cache, cache[CID].flags = bo.flags, cache[CID].trail = bo.trail,
           NEW kind \in ReportKinds \ {"pendingCancel"}
    PROVE  Terms(AckReport(kind, AckOf(o), cache), bo.kind)
<1> DEFINE a == AckOf(o)
<1>1. bo \in BitfinexOrder /\ bo.symbol \in Sent
  BY InHand
<1>2. /\ a.kind = bo.kind /\ a.margin = bo.margin /\ a.mtstif = bo.mtstif
      /\ bo.kind # "TRAILING STOP" => a.px = bo.px
  <2>1. /\ o \in BitfinexOrder /\ o.kind = bo.kind /\ o.margin = bo.margin
        /\ o.mtstif = bo.mtstif /\ o.px = bo.px
    BY <1>1, AcceptedOrder
  <2> QED
    BY <2>1, AckOrder
<1> HIDE DEF a
<1>3. AckReport(kind, a, cache) =
        FIXExecutionReportFromOrder(kind, a, bo.flags,
           IF bo.kind = "TRAILING STOP" THEN a.px ELSE a.aux,
           IF bo.kind = "TRAILING STOP" THEN bo.trail ELSE 0)
  BY <1>2 DEF AckReport
<1>4. Terms(AckReport(kind, a, cache), bo.kind)
  BY <1>2, <1>3, FromOrderTerms
<1> QED
  BY <1>4 DEF a

LEMMA OrderAckInv ==
    ASSUME IInv, OrderAck
    PROVE  IInv'
<1> USE DEF IInv
<1> DEFINE a == AckOf(Accepted(bo))
<1>1. /\ UNCHANGED <<sets, m>> /\ phase = "sent" /\ phase' = "working" /\ bo' = Accepted(bo)
  BY DEF OrderAck
<1>0. bo \in BitfinexOrder /\ bo.symbol \in Sent /\ m \in Message /\ sets \in Tables
  BY <1>1, InHand
<1>2. /\ bo' \in BitfinexOrder /\ bo'.symbol \in Known
      /\ a \in BitfinexOrder /\ a.symbol \in Known
  BY <1>0, <1>1, AcceptedOrder, AckOrder
<1>3. er' = AckReport("ack", a, orders')
  BY DEF OrderAck, Send
<1>4. SideTerms(er')
  <2> HIDE DEF a
  <2> QED
    BY <1>0, <1>2, <1>3, FromOrderSide DEF AckReport
<1>5. CASE CID \in DOMAIN orders
  <2>1. orders' = [orders EXCEPT ![CID].oid = TRUE]
    BY <1>5 DEF OrderAck
  <2>2. DOMAIN orders' = DOMAIN orders
    BY <2>1
  <2>3. \A c \in DOMAIN orders' : orders'[c] \in CachedOrder
    <3>1. orders[CID] \in CachedOrder
      BY <1>1, <1>5, InHand
    <3>2. [orders[CID] EXCEPT !.oid = TRUE] \in CachedOrder
      BY <3>1 DEF CachedOrder
    <3> QED
      BY <1>1, <1>5, <2>1, <2>2, <3>2, InHand
  <2>4. m.id = "int" => OwnTerms(orders'["own"], bo)
    <3> SUFFICES ASSUME m.id = "int" PROVE OwnTerms(orders'["own"], bo)
      OBVIOUS
    <3>1. CID = "own" /\ orders'["own"] = [orders["own"] EXCEPT !.oid = TRUE]
      BY <1>5, <2>1 DEF CID
    <3>2. orders["own"] \in CachedOrder /\ OwnTerms(orders["own"], bo)
      BY <1>1, InHand
    <3> QED
      BY <3>1, <3>2 DEF OwnTerms, CachedOrder
  <2>5. Untouched => Terms(er', bo.kind)
    <3> SUFFICES ASSUME Untouched PROVE Terms(er', bo.kind)
      OBVIOUS
    <3>1. /\ CID \in DOMAIN orders'
          /\ orders'[CID].flags = bo.flags /\ orders'[CID].trail = bo.trail
      <4>1. /\ CID = "own"
            /\ orders["own"].flags = bo.flags /\ orders["own"].trail = bo.trail
        BY UntouchedEntry
      <4>2. orders["own"] \in CachedOrder
        BY <1>1, InHand
      <4> QED
        BY <4>1, <4>2, <1>5, <2>1 DEF CachedOrder
    <3> QED
      BY <1>1, <1>3, <3>1, NotificationTerms DEF ReportKinds
  <2> QED
    BY <1>0, <1>1, <1>2, <1>4, <2>2, <2>3, <2>4, <2>5, InHand, Later
<1>6. CASE CID \notin DOMAIN orders
  <2>1. orders' = [k \in DOMAIN orders \cup {CID} |-> IF k = CID THEN EntryOf(a, TRUE) ELSE orders[k]]
    BY <1>6 DEF OrderAck
  <2>2. m.id # "int" /\ CID # "own"
    BY <1>1, <1>6, InHand DEF CID
  <2>3. /\ DOMAIN orders' = DOMAIN orders \cup {CID}
        /\ \A c \in DOMAIN orders' : orders'[c] \in CachedOrder
    <3> HIDE DEF a
    <3> QED
      BY <1>1, <1>2, <2>1, <2>2, AddEntry
  <2> QED
    BY <1>0, <1>1, <1>2, <1>4, <2>2, <2>3, InHand, Later DEF Untouched
<1> QED
  BY <1>5, <1>6

LEMMA OrderRejectedInv ==
    ASSUME IInv, OrderRejected
    PROVE  IInv'
<1> USE DEF IInv
<1>1. UNCHANGED <<sets, m, bo, orders>> /\ phase = "sent" /\ phase' = "over"
  BY DEF OrderRejected
<1>2. bo \in BitfinexOrder /\ bo.symbol \in Sent /\ m \in Message /\ sets \in Tables
  BY <1>1, InHand
<1>3. PICK o \in {bo, Accepted(bo)} : er' = AckReport("rejected", AckOf(o), orders)
  BY DEF OrderRejected, Send
<1>4. SideTerms(er')
  <2>1. AckOf(o) \in BitfinexOrder
    BY <1>2, AcceptedOrder, AckOrder
  <2> QED
    BY <1>2, <1>3, <2>1, FromOrderSide DEF AckReport, FromRequest
<1>5. Untouched => Terms(er', bo.kind)
  BY <1>1, <1>3, UntouchedEntry, NotificationTerms DEF ReportKinds
<1> QED
  BY <1>1, <1>2, <1>4, <1>5, InHand, Later

\* Steps that report nothing.
LEMMA QuietInv ==
    ASSUME IInv, AckLost \/ ReplaceRefused
    PROVE  IInv'
<1>1. /\ UNCHANGED <<sets, m, orders>> /\ phase' = "working" /\ er' = NoReport
      /\ \/ phase = "sent" /\ bo' = Accepted(bo)
         \/ phase = "replacing" /\ bo' = bo
  BY DEF AckLost, ReplaceRefused, Send
<1>2. bo' \in BitfinexOrder /\ bo'.symbol \in Known
  BY <1>1, InHand, AcceptedOrder DEF IInv
<1> QED
  BY <1>1, <1>2, InHand, Later DEF IInv, NoReport, ReportKinds

LEMMA OrderUpdateInv ==
    ASSUME IInv, OrderUpdate
    PROVE  IInv'
<1> USE DEF IInv
<1>1. /\ UNCHANGED <<sets, m, orders>> /\ phase \in {"working", "replacing"} /\ phase' = "working"
  BY DEF OrderUpdate
<1>2. bo \in BitfinexOrder /\ m \in Message /\ sets \in Tables /\ bo.symbol \in Known
  BY <1>1, InHand
<1>3. bo' = IF phase = "working" THEN bo ELSE Amended(bo, orders["new"])
  BY DEF OrderUpdate
<1>4. bo' \in BitfinexOrder /\ bo'.symbol \in Known
  <2>1. CASE phase = "working"
    BY <1>2, <1>3, <2>1
  <2>2. CASE phase = "replacing"
    BY <1>1, <1>2, <1>3, <2>2, InHand, AmendedOrder
  <2> QED
    BY <1>1, <2>1, <2>2
<1>5. PICK t \in {0, bo'.trail} :
        er' = FIXExecutionReportFromOrder("ou", [bo' EXCEPT !.trail = t], [bo' EXCEPT !.trail = t].flags,
                 [bo' EXCEPT !.trail = t].aux, UpdatePeg([bo' EXCEPT !.trail = t]))
  BY <1>3 DEF OrderUpdate, Send
<1> DEFINE u == [bo' EXCEPT !.trail = t]
<1>6. u \in BitfinexOrder /\ u.flags = bo'.flags /\ u.trail = t /\ u.symbol = bo'.symbol
      /\ u.kind = bo'.kind /\ u.margin = bo'.margin /\ u.mtstif = bo'.mtstif /\ u.px = bo'.px
  BY <1>4 DEF BitfinexOrder
<1> HIDE DEF u
<1>7. SideTerms(er')
  BY <1>2, <1>4, <1>5, <1>6, FromOrderSide DEF u
<1>8. Untouched => bo' = bo /\ Terms(er', bo.kind)
  <2> SUFFICES ASSUME Untouched PROVE bo' = bo /\ Terms(er', bo.kind)
    OBVIOUS
  <2>1. bo' = bo
    BY <1>1, <1>3, InHand DEF Untouched
  <2>2. /\ CID \in DOMAIN orders /\ orders[CID].trail = bo.trail
    BY UntouchedEntry
  <2>3. bo.kind = "TRAILING STOP" => UpdatePeg(u) = bo.trail
    BY <1>5, <1>6, <2>1, <2>2 DEF UpdatePeg
  <2>4. er' = FIXExecutionReportFromOrder("ou", u, bo.flags, u.aux, UpdatePeg(u))
    BY <1>5, <1>6, <2>1 DEF u
  <2> QED
    BY <1>6, <2>1, <2>3, <2>4, FromOrderTerms DEF ReportKinds
<1>9. "new" \notin DOMAIN orders => bo' = bo
  BY <1>1, <1>3, InHand
<1> QED
  BY <1>1, <1>2, <1>4, <1>7, <1>8, <1>9, InHand, Later

\* The report of a trade with an entry of the client's order.
LEMMA TradeTerms ==
    ASSUME StateInv, Untouched, NEW e, e.px = bo.px, e.trail = bo.trail, e.exp = bo.mtstif,
           e.flags = bo.flags
    PROVE  Terms(TradeReport(e), bo.kind)
<1>1. /\ m \in Message /\ ~Refused(m)
      /\ \E sym \in Names : bo = requestToOrder(m, sym)
  BY DEF StateInv, PhaseInv, OriginalInv, Untouched
<1>2. bo \in BitfinexOrder
  BY DEF StateInv, PhaseInv, Untouched
<1>3. TimeInForceToFIX([bo EXCEPT !.mtstif = e.exp]) = TimeInForceToFIX(bo)
  BY <1>2 DEF TimeInForceToFIX, BitfinexOrder
<1>4. Terms(FIXExecutionReport("tu", bo.symbol, SideToFIX(bo.amount), bo.px, e.stop, bo.trail,
               OrdTypeToFIX(bo.kind), bo.margin, TimeInForceToFIX(bo), bo.mtstif, bo.flags), bo.kind)
  BY <1>1, OrderReport DEF ReportKinds
<1> QED
  BY <1>3, <1>4 DEF TradeReport

LEMMA TradeUpdateInv ==
    ASSUME IInv, TradeUpdate
    PROVE  IInv'
<1> USE DEF IInv
<1>1. /\ UNCHANGED <<sets, m, bo, phase>> /\ phase \in {"working", "closed"}
  BY DEF TradeUpdate
<1>2. bo \in BitfinexOrder /\ m \in Message /\ sets \in Tables /\ bo.symbol \in Known
  BY <1>1, InHand
<1>3. CASE er' = NoReport /\ UNCHANGED orders
  BY <1>1, <1>2, <1>3, InHand, Later DEF NoReport, ReportKinds
<1>4. ASSUME NEW c \in DOMAIN orders', er' = TradeReport(orders'[c])
      PROVE  SideTerms(er') /\ er'.kind = "tu"
  <2>1. bo.symbol \in Names /\ SideToFIX(bo.amount) \in CacheSide
    BY <1>2 DEF BitfinexOrder, CacheSide
  <2> QED
    <3>1. SideTerms(TradeReport(orders'[c]))
      BY <1>2, <2>1, SideReport DEF TradeReport
    <3>2. TradeReport(orders'[c]).kind = "tu"
      BY DEF TradeReport, FIXExecutionReport
    <3> QED
      BY <1>4, <3>1, <3>2
<1>5. ASSUME UNCHANGED orders, NEW c \in DOMAIN orders', er' = TradeReport(orders'[c])
      PROVE  IInv'
  <2>1. Untouched => Terms(er', bo.kind)
    BY <1>5, UntouchedEntry, TradeTerms
  <2> QED
    BY <1>1, <1>2, <1>4, <1>5, <2>1, InHand, Later
<1>6. ASSUME orders' = [k \in DOMAIN orders \cup {CID} |->
                          IF k = CID THEN EntryOf(bo, TRUE) ELSE orders[k]],
             NEW c \in DOMAIN orders', er' = TradeReport(orders'[c])
      PROVE  IInv'
  <2>1. /\ DOMAIN orders' = DOMAIN orders \cup {CID}
        /\ \A k \in DOMAIN orders' : orders'[k] \in CachedOrder
        /\ m.id = "int" => OwnTerms(orders'["own"], bo)
    BY <1>1, <1>2, <1>6, AddEntry
  <2>2. Untouched => Terms(er', bo.kind)
    <3> SUFFICES ASSUME Untouched PROVE Terms(er', bo.kind)
      OBVIOUS
    <3>1. c = CID
      BY <2>1, UntouchedEntry
    <3>2. orders'[c] = EntryOf(bo, TRUE)
      BY <1>6, <3>1
    <3>3. /\ EntryOf(bo, TRUE).px = bo.px /\ EntryOf(bo, TRUE).trail = bo.trail
          /\ EntryOf(bo, TRUE).exp = bo.mtstif /\ EntryOf(bo, TRUE).flags = bo.flags
      BY DEF EntryOf
    <3> QED
      BY <1>6, <3>2, <3>3, TradeTerms
  <2> QED
    BY <1>1, <1>2, <1>4, <1>6, <2>1, <2>2, InHand, Later
<1> QED
  BY <1>3, <1>5, <1>6 DEF TradeUpdate, Send

LEMMA CancelAckInv ==
    ASSUME IInv, CancelAck
    PROVE  IInv'
<1> USE DEF IInv
<1>1. /\ UNCHANGED <<sets, m, bo, orders>> /\ phase = "working" /\ phase' = "closed"
  BY DEF CancelAck
<1>2. bo \in BitfinexOrder /\ m \in Message /\ sets \in Tables /\ bo.symbol \in Known
  BY <1>1, InHand
<1>3. CASE CID \notin DOMAIN orders
  <2>1. er' = NoReport
    BY <1>3 DEF CancelAck, Send
  <2> QED
    BY <1>1, <1>2, <2>1, InHand, Later DEF NoReport, ReportKinds
<1>4. CASE CID \in DOMAIN orders
  <2>1. PICK e : e = orders[CID]
    OBVIOUS
  <2>2. PICK r : r = FIXExecutionReport("pendingCancel", e.symbol, e.side, e.px, e.stop, e.trail,
                                  e.ordType, e.margin, e.tif, e.exp, e.flags)
    OBVIOUS
  <2>3. er' = IF e.px > 0 THEN [r EXCEPT !.price = e.px] ELSE r
    BY <1>4, <2>1, <2>2 DEF CancelAck, Send
  <2>4. SideTerms(er')
    <3>1. e \in CachedOrder
      BY <1>1, <1>4, <2>1, InHand
    <3>2. SideTerms(r)
      BY <1>2, <2>2, <3>1, SideReport DEF CachedOrder, FromRequest
    <3>3. er'.side = r.side /\ er'.symbol = r.symbol /\ er'.kind = r.kind
      BY <2>2, <2>3 DEF FIXExecutionReport
    <3> QED
      BY <3>2, <3>3 DEF SideTerms
  <2>5. Untouched => Terms(er', bo.kind)
    <3> SUFFICES ASSUME Untouched PROVE Terms(er', bo.kind)
      OBVIOUS
    <3>1. OwnTerms(e, bo)
      BY <1>1, <2>1, InHand, UntouchedEntry DEF Untouched
    <3>2. /\ ~Refused(m) /\ \E sym \in Names : bo = requestToOrder(m, sym)
      BY DEF StateInv, PhaseInv, OriginalInv, Untouched
    <3> QED
      BY <1>2, <2>2, <2>3, <3>1, <3>2, PendingCancelReport
  <2> QED
    BY <1>1, <1>2, <2>4, <2>5, InHand, Later
<1> QED
  BY <1>3, <1>4

LEMMA OrderCancelInv ==
    ASSUME IInv, OrderCancel
    PROVE  IInv'
<1> USE DEF IInv
<1>1. /\ UNCHANGED <<sets, m, bo, orders>> /\ phase \in {"working", "closed"} /\ phase' = "over"
  BY DEF OrderCancel
<1>2. bo \in BitfinexOrder /\ m \in Message /\ sets \in Tables /\ bo.symbol \in Known
  BY <1>1, InHand
<1>3. CASE er' = NoReport
  BY <1>1, <1>2, <1>3, InHand, Later DEF NoReport, ReportKinds
<1>4. ASSUME NEW c \in WithOrderID,
             er' = FIXExecutionReportFromOrder("oc", bo, orders[c].flags, 0, orders[c].trail)
      PROVE  IInv'
  <2>1. SideTerms(er')
    BY <1>2, <1>4, FromOrderSide
  <2>2. Untouched => Terms(er', bo.kind)
    <3> SUFFICES ASSUME Untouched PROVE Terms(er', bo.kind)
      OBVIOUS
    <3>1. c = "own" /\ orders[c].flags = bo.flags /\ orders[c].trail = bo.trail
      BY UntouchedEntry DEF WithOrderID
    <3> QED
      BY <1>4, <3>1, FromOrderTerms DEF ReportKinds
  <2> QED
    BY <1>1, <1>2, <2>1, <2>2, InHand, Later
<1> QED
  BY <1>3, <1>4 DEF OrderCancel, Send

LEMMA OrderSnapshotInv ==
    ASSUME IInv, OrderSnapshot
    PROVE  IInv'
<1> USE DEF IInv
<1>1. /\ UNCHANGED <<sets, m, bo, phase>> /\ phase = "working"
  BY DEF OrderSnapshot
<1>2. bo \in BitfinexOrder /\ m \in Message /\ sets \in Tables /\ bo.symbol \in Known
  BY <1>1, InHand
<1>3. \E known \in BOOLEAN : AddOrder(CID, EntryOf(bo, known))
  BY DEF OrderSnapshot
<1>4. /\ DOMAIN orders' = DOMAIN orders \cup {CID}
      /\ \A c \in DOMAIN orders' : orders'[c] \in CachedOrder
      /\ m.id = "int" => OwnTerms(orders'["own"], bo)
  BY <1>1, <1>2, <1>3, AddEntry DEF AddOrder
<1>5. CASE er' = NoReport
  BY <1>1, <1>2, <1>4, <1>5, InHand, Later DEF NoReport, ReportKinds
<1>6. CASE er' = FIXExecutionReportFromOrder("os", bo, bo.flags, bo.aux, bo.trail)
  <2>1. SideTerms(er')
    BY <1>2, <1>6, FromOrderSide
  <2>2. Untouched => Terms(er', bo.kind)
    BY <1>6, FromOrderTerms DEF ReportKinds
  <2> QED
    BY <1>1, <1>2, <1>4, <2>1, <2>2, InHand, Later
<1> QED
  BY <1>5, <1>6 DEF OrderSnapshot, Send
-----------------------------------------------------------------------------
LEMMA InitInv == Init => IInv
<1> SUFFICES ASSUME Init PROVE IInv
  OBVIOUS
<1>1. m \in Message /\ sets \in Tables /\ DOMAIN orders = {}
  BY ConversionAssumption DEF Init
<1> QED
  BY <1>1 DEF Init, IInv, StateInv, PhaseInv, CacheInv, OriginalInv, ReportInv, NoReport, ReportKinds

LEMMA StepInv == IInv /\ [Next]_vars => IInv'
<1> SUFFICES ASSUME IInv, [Next]_vars PROVE IInv'
  OBVIOUS
<1>1. CASE Next
  BY <1>1, OnFIXNewOrderSingleInv, OnFIXOrderCancelReplaceRequestInv, OnFIXOrderStatusRequestInv,
     OrderAckInv, QuietInv, OrderRejectedInv, OrderUpdateInv, TradeUpdateInv, CancelAckInv,
     OrderCancelInv, OrderSnapshotInv DEF Next
<1>2. CASE UNCHANGED vars
  <2>1. UNCHANGED <<sets, m, bo, phase, orders, er>>
    BY <1>2 DEF vars
  <2>2. PhaseInv' /\ CacheInv'
    BY <2>1, Same DEF IInv, StateInv, PhaseInv, CacheInv
  <2>3. OriginalInv'
    BY <2>1, Same DEF IInv, StateInv, OriginalInv, OwnTerms, TimeInForceToFIX
  <2>4. ReportInv'
    BY <2>1, Same DEF IInv, ReportInv, Original
  <2> QED
    BY <2>2, <2>3, <2>4 DEF IInv, StateInv
<1> QED
  BY <1>1, <1>2

\* The inductive invariant: Bitfinex's order and every entry of the cache have
\* the client's side and symbol; until a replace request is cached, all they
\* say comes from the client's message.
THEOREM ConversionInvariant == Spec => []IInv
BY InitInv, StepInv, PTL DEF Spec

\* Type correctness (TypeOK): of the cache and of Bitfinex's order.
THEOREM ConversionTypes == Spec => []TypeOK
<1>1. IInv => TypeOK
  <2> SUFFICES ASSUME IInv PROVE TypeOK
    OBVIOUS
  <2>1. m \in Message /\ DOMAIN orders \subseteq ClOrdID
    BY DEF IInv, StateInv, PhaseInv, ClOrdID, CID
  <2>2. \A c \in DOMAIN orders :
         /\ orders[c].px \in Nat /\ orders[c].stop \in Nat /\ orders[c].trail \in Nat
         /\ orders[c].ordType \in OrdType /\ orders[c].side \in Side
         /\ orders[c].tif \in {"GTC", "GTD", "FOK"} /\ orders[c].exp \in Nat
    <3>1. CacheSide \subseteq Side
      BY <2>1 DEF CacheSide, Amount, GetAmountFromQtyAndSide, SideToFIX, Side, Message
    <3> QED
      BY <3>1 DEF IInv, StateInv, CacheInv, CachedOrder
  <2>3. bo # None => bo.px \in Nat /\ bo.aux \in Nat /\ bo.trail \in Nat /\ bo.mtstif \in Nat
    BY DEF IInv, StateInv, PhaseInv, BitfinexOrder
  <2> QED
    BY <2>1, <2>2, <2>3 DEF TypeOK, IInv, StateInv, PhaseInv
<1> QED
  BY <1>1, ConversionInvariant, PTL

\* TypeReported: whichever handler makes a report and from whichever source,
\* type and time in force are ReportedType and ReportedTif, functions of the
\* client's message; only the pending cancel may have the client's type with
\* GTC instead.  A good-till-date report has the client's expiry.
THEOREM TypesAgree == Spec => []TypeReported
<1>1. IInv => TypeReported
  BY DEF IInv, ReportInv, TypeReported, Original, Terms, TypeTerms
<1> QED
  BY <1>1, ConversionInvariant, PTL

\* FlagsAndPegReported: no report loses the flags or the peg, though the
\* notification that accepts the order has neither.
THEOREM FlagsAndPegKept == Spec => []FlagsAndPegReported
<1>1. IInv => FlagsAndPegReported
  BY DEF IInv, ReportInv, FlagsAndPegReported, Original, Terms, FlagTerms, Flag
<1> QED
  BY <1>1, ConversionInvariant, PTL

\* LimitReported: a price in a report is the client's limit, but for the cases
\* the property names.
THEOREM LimitKept == Spec => []LimitReported
<1>1. IInv => LimitReported
  BY DEF IInv, ReportInv, LimitReported, Original, Terms, LimitTerms
<1> QED
  BY <1>1, ConversionInvariant, PTL

\* SideAndSymbolReported: whatever name Bitfinex gives the symbol, all reports,
\* also after a replacement, carry the client's name of it or of what was sent,
\* and the client's own name where the file maps it to Bitfinex's.
THEOREM SideAndSymbolKept == Spec => []SideAndSymbolReported
<1>1. IInv => SideAndSymbolReported
  BY DEF IInv, ReportInv, SideAndSymbolReported, SideTerms, Sent, OwnName
<1> QED
  BY <1>1, ConversionInvariant, PTL

\* ConvertedFaithfully: the order that is sent to Bitfinex does what the
\* client asked for in exactly the cases that Changed does not name, whatever
\* prices, dates, instructions and combinations of fields are set.
THEOREM OrdersConverted == Spec => []ConvertedFaithfully
<1>1. IInv => ConvertedFaithfully
  <2> SUFFICES ASSUME IInv, phase = "sent", m.ordType # "OTHER"
               PROVE  BitfinexMeaning(bo) = FIXMeaning(m) <=> ~Changed(m)
    BY DEF ConvertedFaithfully
  <2>1. m \in Message /\ ~Refused(m)
    BY DEF IInv, StateInv, PhaseInv
  <2>2. PICK sym \in Names : bo = requestToOrder(m, sym)
    BY DEF IInv, StateInv, PhaseInv, OriginalInv
  <2>3. /\ bo.kind = OrderNewTypeFromFIX(m).kind /\ bo.margin = OrderNewTypeFromFIX(m).margin
        /\ bo.px = GetPricesFromOrdType(m).px /\ bo.aux = GetPricesFromOrdType(m).aux
        /\ bo.trail = GetPricesFromOrdType(m).trail
        /\ bo.amount = GetAmountFromQtyAndSide(m.side) /\ bo.mtstif = GetTimeInForceFromFIX(m)
        /\ bo.flags = GetFlagsFromFIX(m)
        /\ bo.oco = IF m.oco THEN GetPricesFromOrdType(m).oco ELSE None
    BY <2>2 DEF requestToOrder
  <2>4. /\ m.ordType \in OrdType /\ m.tif \in TIF /\ m.inst \in SUBSET Inst
        /\ m.margin \in BOOLEAN /\ m.side \in Side /\ m.oco \in BOOLEAN /\ m.hidden \in BOOLEAN
    BY <2>1 DEF Message
  <2> DEFINE b == BitfinexMeaning(bo)
             f == FIXMeaning(m)
  <2>5. b.sells = f.sells <=> m.side \in {"BUY", "SELL"}
    BY <2>3, <2>4 DEF BitfinexMeaning, FIXMeaning, GetAmountFromQtyAndSide, Side
  <2>k. /\ Immediate(m) => bo.kind = "FOK"
        /\ ~Immediate(m) =>
             /\ m.ordType = "MARKET" => bo.kind = "MARKET"
             /\ m.ordType = "LIMIT" => bo.kind = "LIMIT"
             /\ m.ordType = "STOP" /\ "PEG" \in m.inst => bo.kind = "TRAILING STOP"
             /\ m.ordType = "STOP" /\ "PEG" \notin m.inst => bo.kind = "STOP"
             /\ m.ordType = "STOP_LIMIT" => bo.kind = "STOP LIMIT"
    BY <2>3, <2>4 DEF OrderNewTypeFromFIX, OrdType, Immediate
  <2>6. b.margin = f.margin /\ b.immediate = f.immediate
    <3>1. bo.kind # "" /\ (bo.kind = "FOK" <=> Immediate(m))
      BY <2>4, <2>k DEF OrdType
    <3>2. bo.margin = (m.margin /\ bo.kind # "")
      BY <2>3 DEF OrderNewTypeFromFIX
    <3>3. bo.margin = m.margin
      BY <2>4, <3>1, <3>2
    <3>4. b.margin = bo.margin /\ f.margin = m.margin
      BY DEF BitfinexMeaning, FIXMeaning
    <3>5. /\ Immediate(m) => b.immediate = TRUE /\ f.immediate = TRUE
          /\ ~Immediate(m) => b.immediate = FALSE /\ f.immediate = FALSE
      <4>1. b.immediate = (bo.kind = "FOK")
        BY DEF BitfinexMeaning
      <4>2. f.immediate = Immediate(m)
        BY DEF FIXMeaning
      <4>3. Immediate(m) \in BOOLEAN
        BY DEF Immediate
      <4> HIDE DEF b, f
      <4> QED
        BY <3>1, <4>1, <4>2, <4>3
    <3> HIDE DEF b, f
    <3> QED
      BY <3>3, <3>4, <3>5
  <2>7. b.expires = f.expires
    <3>1. m.tif = "GTD" => m.expire \in Nat /\ m.expire >= 1000
      BY <2>1, Complete
    <3>2. b.expires = bo.mtstif \div 1000
          /\ f.expires = IF m.tif = "GTD" THEN m.expire \div 1000 ELSE 0
      BY DEF BitfinexMeaning, FIXMeaning
    <3>3. bo.mtstif = IF m.tif = "GTD" THEN (m.expire \div 1000) * 1000 ELSE 0
      BY <2>3 DEF GetTimeInForceFromFIX
    <3> QED
      BY <3>1, <3>2, <3>3, ToTheSecond
  <2>8. ASSUME m.ordType = "MARKET"
        PROVE  /\ b.trailing = f.trailing /\ b.trigger = f.trigger
               /\ b.limit = f.limit <=> ~Immediate(m)
    BY <2>3, <2>4, <2>8, ConversionAssumption
       DEF BitfinexMeaning, FIXMeaning, OrderNewTypeFromFIX, GetPricesFromOrdType, Immediate
  <2>9. ASSUME m.ordType = "LIMIT"
        PROVE  b.trailing = f.trailing /\ b.trigger = f.trigger /\ b.limit = f.limit
    BY <2>3, <2>4, <2>9
       DEF BitfinexMeaning, FIXMeaning, OrderNewTypeFromFIX, GetPricesFromOrdType, Immediate
  <2>10. ASSUME m.ordType = "STOP"
         PROVE  /\ ~Immediate(m) => b.trailing = f.trailing /\ b.trigger = f.trigger /\ b.limit = f.limit
                /\ Immediate(m) => b.limit # f.limit
    <3>1. m.stopPx \in Nat
      BY <2>1, <2>10 DEF Message, Refused, PricesRefused
    <3>2. /\ bo.px = m.stopPx
          /\ "PEG" \in m.inst => bo.trail = m.peg
      BY <2>3, <2>10 DEF GetPricesFromOrdType
    <3>3. /\ "PEG" \in m.inst => f.trailing = TRUE
          /\ "PEG" \notin m.inst => f.trailing = FALSE
          /\ f.limit = None
          /\ f.trigger = IF "PEG" \in m.inst THEN m.peg ELSE m.stopPx
      BY <2>10 DEF FIXMeaning
    <3>4. CASE Immediate(m)
      <4>1. b.limit = bo.px
        BY <2>k, <3>4 DEF BitfinexMeaning
      <4> QED
        BY <3>1, <3>2, <3>3, <3>4, <4>1, ConversionAssumption
    <3>5. CASE ~Immediate(m) /\ "PEG" \in m.inst
      <4>1. b.trailing = TRUE /\ b.limit = None /\ b.trigger = bo.trail
        BY <2>10, <2>k, <3>5 DEF BitfinexMeaning
      <4> QED
        BY <3>2, <3>3, <3>5, <4>1
    <3>6. CASE ~Immediate(m) /\ "PEG" \notin m.inst
      <4>1. b.trailing = FALSE /\ b.limit = None /\ b.trigger = bo.px
        BY <2>10, <2>k, <3>6 DEF BitfinexMeaning
      <4> QED
        BY <3>2, <3>3, <3>6, <4>1
    <3> QED
      BY <3>4, <3>5, <3>6
  <2>11. ASSUME m.ordType = "STOP_LIMIT"
         PROVE  /\ b.trailing = f.trailing <=> "PEG" \notin m.inst
                /\ ~Immediate(m) /\ "PEG" \notin m.inst => b.trigger = f.trigger /\ b.limit = f.limit
                /\ Immediate(m) /\ "PEG" \notin m.inst => b.trigger # f.trigger
    <3>1. m.stopPx \in Nat
      BY <2>1, <2>11 DEF Message, Refused, PricesRefused
    <3>2. bo.px = m.price /\ bo.aux = m.stopPx
      BY <2>3, <2>11 DEF GetPricesFromOrdType
    <3>3. /\ "PEG" \in m.inst => f.trailing = TRUE
          /\ "PEG" \notin m.inst => f.trailing = FALSE
          /\ f.limit = m.price
          /\ "PEG" \notin m.inst => f.trigger = m.stopPx
      BY <2>11 DEF FIXMeaning
    <3>4. b.trailing = FALSE
      BY <2>11, <2>k DEF BitfinexMeaning
    <3>5. Immediate(m) => b.trigger = None
      BY <2>k DEF BitfinexMeaning
    <3>6. ~Immediate(m) => b.trigger = bo.aux /\ b.limit = bo.px
      BY <2>11, <2>k DEF BitfinexMeaning
    <3> HIDE DEF b, f
    <3> QED
      BY <3>1, <3>2, <3>3, <3>4, <3>5, <3>6, ConversionAssumption
  <2>w. b.whole = f.whole <=> (m.tif = "FOK" \/ (m.tif = "IOC" /\ "AON" \in m.inst)
                                  \/ (~Immediate(m) /\ "AON" \notin m.inst))
    <3>1. /\ Immediate(m) => b.whole = TRUE
          /\ ~Immediate(m) => b.whole = FALSE
      <4>1. b.whole = (bo.kind = "FOK")
        BY DEF BitfinexMeaning
      <4> HIDE DEF b
      <4> QED
        BY <2>4, <2>k, <4>1 DEF OrdType
    <3>2. f.whole = (m.tif = "FOK" \/ "AON" \in m.inst)
      BY DEF FIXMeaning
    <3>3. m.tif = "FOK" \/ "AON" \in m.inst => f.whole = TRUE
      BY <3>2
    <3>4. ~(m.tif = "FOK" \/ "AON" \in m.inst) => f.whole = FALSE
      BY <3>2
    <3> HIDE DEF b, f
    <3> QED
      BY <3>1, <3>3, <3>4 DEF Immediate
  <2>f. b.hidden = f.hidden /\ b.postOnly = f.postOnly
    <3>1. /\ b.hidden = ("hidden" \in bo.flags) /\ f.hidden = m.hidden
          /\ b.postOnly = ("postOnly" \in bo.flags) /\ f.postOnly = ("PDI" \in m.inst)
      BY DEF BitfinexMeaning, FIXMeaning
    <3>2. /\ "hidden" \in bo.flags <=> m.hidden
          /\ "postOnly" \in bo.flags <=> "PDI" \in m.inst
      BY <2>3 DEF GetFlagsFromFIX
    <3> HIDE DEF b, f
    <3> QED
      BY <2>4, <3>1, <3>2
  <2>o. b.oco = f.oco
    BY <2>3, <2>4 DEF BitfinexMeaning, FIXMeaning, GetPricesFromOrdType, OrdType
  <2>12. b = f <=> /\ b.sells = f.sells /\ b.trailing = f.trailing /\ b.trigger = f.trigger
                   /\ b.limit = f.limit /\ b.immediate = f.immediate /\ b.whole = f.whole
                   /\ b.oco = f.oco /\ b.hidden = f.hidden /\ b.postOnly = f.postOnly
                   /\ b.margin = f.margin /\ b.expires = f.expires
    <3>1. /\ b = [sells |-> b.sells, trailing |-> b.trailing, trigger |-> b.trigger,
                  limit |-> b.limit, immediate |-> b.immediate, whole |-> b.whole,
                  oco |-> b.oco, hidden |-> b.hidden, postOnly |-> b.postOnly,
                  margin |-> b.margin, expires |-> b.expires]
          /\ f = [sells |-> f.sells, trailing |-> f.trailing, trigger |-> f.trigger,
                  limit |-> f.limit, immediate |-> f.immediate, whole |-> f.whole,
                  oco |-> f.oco, hidden |-> f.hidden, postOnly |-> f.postOnly,
                  margin |-> f.margin, expires |-> f.expires]
      BY DEF BitfinexMeaning, FIXMeaning
    <3> HIDE DEF b, f
    <3> QED
      BY <3>1
  <2> HIDE DEF b, f
  <2>13. b = f <=> ~Changed(m)
    <3>1. m.tif = "FOK" => Immediate(m)
      BY DEF Immediate
    <3>2. m.tif = "IOC" => Immediate(m)
      BY DEF Immediate
    <3>3. Immediate(m) => m.tif = "FOK" \/ m.tif = "IOC"
      BY DEF Immediate
    <3> QED
      BY <2>4, <2>5, <2>6, <2>7, <2>8, <2>9, <2>10, <2>11, <2>12, <2>w, <2>f, <2>o,
         <3>1, <3>2, <3>3 DEF Changed, OrdType
  <2> QED
    BY <2>13 DEF b, f
<1> QED
  BY <1>1, ConversionInvariant, PTL
=============================================================================
