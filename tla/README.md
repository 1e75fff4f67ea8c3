# A TLA+ model of bfxfixgw

bfxfixgw is a FIX gateway in front of the Bitfinex websocket and REST APIs. A
FIX client logs on to the gateway; the gateway opens a websocket for that
session and translates messages both ways. This directory holds a model of the
gateway's own code: `gateway.go`, `service/` and `convert/`. Paths below are
relative to the repository.

## The system

One process runs one or two `Service`s (market data, order routing), each with a
quickfix acceptor. They share the nonce generator and the symbology, nothing else.

| part | state | operations | talks to |
|---|---|---|---|
| `service/service.go` Service | `peers` map, `lock`, `inbound` channel | AddPeer, FindPeer, RemovePeer, Stop, listen | quickfix callbacks, every Peer |
| `service/peer/peer.go` Peer | `started`, `disconnect`, `exit`, the websocket client | New, Logon, listen, Close | Service through `toParent`, FromAdmin through `disconnect` |
| `service/fix/fix.go` FIX | `lastMsgType` | FromAdmin, OnLogout, FromApp, Up, Down | Service (as `Peers`), quickfix |
| `service/fix/fix_msg.go` | none of its own | the handlers of NewOrderSingle, CancelReplace, Cancel, Status and MarketDataRequest | the peer's cache, websocket and REST clients |
| `service/websocket/fix_msg.go` | none of its own | the handlers of notifications, order updates, trades, snapshots, books | the peer's cache, the FIX session |
| `service/peer/cache.go` cache | orders, cancels, symbol and MDReqID maps | AddOrder, UpdateOrder, AddExecution, Map..., lookups | called from both sides, under its lock |
| `service/peer/nonce.go` | `ts`, `nonce` | GetNonce, init | every websocket and REST client |
| `convert/` | none | FIX to Bitfinex and back | both handler files |
| `service/symbol/` | tables per counterparty, read once | parsing, ToBitfinex, FromBitfinex | converters |
| `service/fix/nostore.go` | sequence numbers | quickfix message store of market data sessions | quickfix |
| `gateway.go` | the services | New, Start, Stop, main | Services, symbology, nonces |

Goroutines: one per FIX session (quickfix calls FromAdmin, FromApp and OnLogout
on it, one at a time), one `Service.listen` per service, two per peer
(`Peer.listen` and the watcher spawned by FromAdmin), the main goroutine.

What is hard here:

* the life of a peer: unbuffered channels, a lock held over a wait, a field read
  without synchronisation, a map entry replaced while its goroutines run;
* market data requests: several calls in a row that can each fail, while the
  answers to the first are already being handled;
* orders: two goroutines on one cache, messages in any order, lost connections,
  entries found by an ID that several may carry, and REST as a second source;
* the terms of an order: each report is made of fields from the message, the
  cache, REST or constants, and another combination for each kind of report;
* sequence numbers: a store that keeps no messages, resets on both sides of a
  callback that may send, crashes between routing a message and counting it;
* nonces: a counter that starts again every second and after every restart.

The full list, with the lines, is `hazards` in `PROJECT.json`.

## Modules

| module | models | state and actions |
|---|---|---|
| `PeerLifecycle` | Service, Peer, FromAdmin on Logon, OnLogout, Stop | the map, the lock, the channels, and a program counter per goroutine; an action is the code between two operations another goroutine can see |
| `PeerLifecycleProofs` | its safety, for any sessions and peers | |
| `MarketData` | OnFIXMarketDataRequest, the subscription maps, the book, trade and error handlers of `Service.listen` | the two maps of the cache, the client's subscriptions, the handler's position and locals |
| `MCMarketData` | the groups of symbols TLC tries, symmetry | |
| `SubscriptionTable` | what market data requests promise a session | owners of symbols, feeds, grants, the last data delivered |
| `MarketDataProofs` | its safety and that it implements the table, for any symbols, MDReqIDs and groups | |
| `Nonce` | MultikeyNonceGenerator | ts, nonce, the clock, the last nonce Bitfinex has seen |
| `NonceProofs` | that nonces grow, for any scale | |
| `OrderRouting` | the order handlers of both sides and the order cache; Bitfinex as environment | the cache, the requests and messages on their way, Bitfinex's orders, where each of the two goroutines is between two uses of the cache |
| `MCOrderRouting` | symmetry of the ClOrdIDs; the state without the last report, as the view; the two scenarios of the run, as its constraint | |
| `OrderRoutingProofs` | its safety, for any ClOrdIDs and bounds | |
| `Symbology` | `service/symbol/`: parsing of the symbol master, both lookups, passthrough | operators on the tables |
| `OrderConversion` | `convert/` for orders, with the handlers and cache fields that feed it; Bitfinex as environment | the tables, the client's message, Bitfinex's order, the cached entries, the last report |
| `MCOrderConversion` | the messages, replacements and files TLC tries | |
| `OrderConversionProofs` | the order sent and its reports, for any messages, prices, dates and files | |
| `Acceptor` | `gateway.go`, the message stores, FromApp and routing; quickfix's session layer and a FIX client as environment | the process, the store, quickfix's session, both directions of the connection, the client's memory |
| `AcceptorProofs` | its safety, for any bound on the sequence numbers | |

`OrderConversion` extends `Symbology`, `MarketData` is shown to implement
`SubscriptionTable`. The other modules are parts of one system cut where they
share little: `PeerLifecycle` says when a session has a peer, `OrderRouting` and
`MarketData` what happens within the life of one, `OrderConversion` follows the
fields of one order that `OrderRouting` leaves out, `Acceptor` says which of the
client's messages the handlers get to see.

### PeerLifecycle

`AddPeer` is FromAdmin up to the spawn of the watcher (with `peer.New` and
`Service.AddPeer`). FromAdmin then ends in one of three ways: `LogonRejected` (a
credential tag is missing), `LogonWithoutWebsocket` (a tag is there and empty, so
that the nil `err` is returned, or `Ws.Connect` failed) and `LogonConnected`.
What quickfix makes of it is taken from the vendored code: OnLogout is called
only for a session that was logged on; an initial logon that is rejected leaves
its peer in the map; a Logon received while logged on runs FromAdmin again; a
logout queued inside FromAdmin is dropped when the logon is answered.

`RemovePeer`, `CloseExited` and `PeerRemoved` are RemovePeer with the Close inside
it, under the lock. `Down`, `SessionStopped`, `StopLock`, `StopClose`, `StopClosed`
and `StopEnd` are Stop. `ListenStart` is the first statement of `Peer.listen`,
which sets `started`: Close reads it without synchronisation. `Forward` is the
rendezvous of listen's send with `Service.listen`'s receive; `Handle` is the
FindPeer of the handler, which needs the lock. `ReportDisconnect` is the
rendezvous of the deferred send with the watcher; `WatchLogout` and `WatchQuiet`
are the watcher's two ends. A panic ends the process: `panic` is set and no
action is enabled. `WsFlip` is the client's loss of connection and reconnection.

### MarketData

One FIX session, one handler at a time, one action per call that others can see:
`MapSymbol`, `SubscribeBook`, `SubscribeTrades`, `MapMDReqIDs`, and a `...Fails`
action for the error path of each. Between any two of them the websocket's
messages are handled: `Ack`, `FIXBookUpdate`, `FIXTradeHandler`, `ErrorEvent`. The
client is modelled as the vendored one behaves: it tracks a subscription before
it writes the request, keeps it when that fails or is refused, and after a
reconnection asks for all it tracks under new IDs. Validation is one action,
`Invalid`: every early return before line 374 rejects and changes nothing.
A failure of quickfix to send a reply ends the handler early and is left out:
SendToTarget fails for unknown sessions only.

`SubscriptionTable` is what this comes to for the client. A symbol is owned by
the first MDReqID that asked for it (`Claim`); feeds open for the owner, at most
one per channel (`Open`), may close until both are granted (`Close`, `Grant`), and
data goes out under the owner (`Deliver`). The mapping (`Table` at the end of
`MarketData`) takes the owner from the cache's map by symbol, the feeds from what
the client tracks, and the data from the last message sent; subscription IDs,
acknowledgements, the handler's position and reconnections are invisible in it.

### OrderRouting

One FIX session of the order routing service. Cache operations are atomic, as
they are under the cache's lock; a handler that uses the cache twice is two
actions, with the locals it keeps in `f` (FIX side) or `h` (`Service.listen`).
`WithOrderID` is the set of entries a lookup by OrderID may return: the code
ranges over a Go map and takes the first. Where AddOrder is followed at once by
UpdateOrder in the handler of a trade, the pair is one action: what another goroutine can do in between leaves the cache as it would
when done before or after.

Bitfinex is external and free: it accepts or refuses, fills one lot at a time,
publishes `tu` at any time after the trade, cancels, forgets nothing, and lists
the working orders in a snapshot after a reconnection, which loses what was on
its way. REST knows working orders only (`GetByOrderId` of the vendored client)
and may fail or return no trades. Prices, sides, types, time in force and flags
are the subject of OrderConversion and left out; AddOrder and AddExecution take the
absolute value of quantities, so that these are counts here. The `src` field of an
entry records which caller of AddOrder made it and is not in the code.

A report carries OrderQty and CumQty as its caller passes them (LeavesQty is
their difference). The order status request is two actions, `StatusLookup` and
`StatusAddOrder`. The acknowledgement of an order entered elsewhere adds an
entry and then writes OrderID to it without the cache's lock: that write is an
action of its own (`OrderAckOutside`), lost if a status request has replaced the
entry in between.

### OrderConversion and Symbology

The terms of one order from the NewOrderSingle to its last report. Each converter
is an operator with the name it has in the code: `OrderNewTypeFromFIX`,
`GetPricesFromOrdType`, `GetTimeInForceFromFIX` (to the second: genMTSTif formats
the date), `GetFlagsFromFIX` one way, `OrdTypeToFIX`, `TimeInForceToFIX`, `SideToFIX`
and `FIXExecutionReport` the other. The actions are the handlers, each with the
sources it takes the fields of its report from: the notification (which has
neither flags nor peg), the cached entry, REST, or constants. A price is a number
or not set; amounts are signs; a Bitfinex type is a kind and the prefix EXCHANGE
or MARGIN. `Symbology` parses a file into a pair of tables per counterparty; a
symbol mapped from twice gives a set of results, since the code inverts the map
by ranging over it. `Message` has no expiry in the first second of 1970, which the
code could not tell from none once it is cut to the second. `Inbound` and `Outbound` add what callers do when a lookup
fails: they use the symbol as it is.

Bitfinex is external: it takes the order, and answers under its own name of the
symbol (`BitfinexName`, from `Alias`). The tests send `BTCUSD` and expect `tBTCUSD` in the
reports (`order_test.go:44` and `57`), so from its acceptance on Bitfinex's order carries that
name (`Accepted`), while the entry keeps the name that was sent. Whether a
rejection uses the one name or the other is left open. The notification of a new
order has no flags and, of a trailing stop, no peg (`AckOf`).

What the order sent is to do is compared with what was asked for as two records,
`FIXMeaning` and `BitfinexMeaning`: direction, trigger, limit, whether it fills at once or as
a whole, the stop it cancels (OCO), flags, account and life. `Changed` lists the
orders for which they differ: immediate-or-cancel becomes fill-or-kill;
an immediate order that is no limit order gets the stop price, or none, as its
limit; all-or-none is dropped beside another instruction (alone it is refused);
a stop limit with a peg does not trail; SELL_SHORT and the like buy.
`ConvertedFaithfully` says that these are all. The first is documented; the
stop limit with a peg is documented otherwise and is a finding of
`conversion_stop_limit`.

`ReportedType` and `ReportedTif` are what the reports say of type and time in force, whichever
handler makes them; only a pending cancel may, instead, have the client's own
type with GTC, as cached. Where that departs from the repository's README it is a
finding: stop limits are reported as MARKET orders, immediate margin orders as good till
cancel. `SideAndSymbolReported` has two names for the symbol for the same reason: the
reports made of the request or of its entry (`FromRequest`) may name it as it was sent,
all others as Bitfinex does, each translated back.

### Acceptor

One session of either service, in the process that `main` starts and that may
end at any point (`Exit`): a panic, a signal, or log.Fatal when order routing
cannot be started while market data sessions are up already. `UsesNoStore`
and `Create` are the choice of store in fix.New and what each store has after a
restart: `noStore` nothing, the file store all. quickfix is taken from the
vendored code: what is sent is numbered and stored whether or not the session is
logged on (`Queue`); the store is reset before FromAdmin and again before the Logon is
answered, when what was queued in between is dropped (`LogonReply`); a message is
routed first and counted after (`FromApp`, `Route`, `AppCounted`, `Count`); a resend request
is answered with what the store has.

What comes early is lost (`TooHigh`): the resend state that is entered at a Logon has
no stash, and the one `processReject` makes is dropped with its copy of the state
(`resend_state.go:44`). In session this is the only case of an early message, since
the gateway has asked for everything from the missing number on, and the client sends
the early ones again after it; `NeverRefused` is the proof of that. The client
keeps to the protocol. `ResetOnLogon` is as in the configuration of the
market data service, and not set for order routing. The end of the session
each week, where both sides reset, is left out.

`lastMsgType`, which the error branch of `Service.listen` reads (`service.go:254`), is left
out. The code calls it a guess: any later message of any session of the service,
this one included, changes it, so that no property relates it to the request that
failed. What is sent there is a `SendToTarget` step.

### Nonce

`GetNonce` holds the mutex from the clock to the result, hence one action. `Tick`
lets the clock jump ahead by any number of seconds. `Scale` stands for the 1000 of
the code and `OpsPerTick` for the 999 of its comment.

## Runs

Passing:

| run | instance | shows |
|---|---|---|
| `peer_lifecycle` | 2 sessions, 2 peers, fairness; 468 thousand states | type correctness; `LoggedOnHasPeer`, `NoDoubleClose`, `CloseWaitsForListen`, `ReporterIsHeard`, `UntrackedPeerHasCause`, `PanicNeedsOpenWebsocket`, `RemovedPeerIsClosed`; and the liveness properties `ReportCompletes` and `CloseStallsOnlyOnService` |
| `market_data` | 2 symbols, 2 MDReqIDs, groups of 1 and 2 symbols, 8 subscription IDs; 1.1 million states | type correctness; `ReqIDNamesOneSymbol`, `OneSubscriptionPerSymbol`, `DataIsRouted`, `GrantedForEver`, `RefusalNamesItsRequest`; and the refinement `ImplementsTable` |
| `nonce` | scale 6, 5 calls a second, 4 seconds | `NonceGrows` |
| `order_routing` | 2 ClOrdIDs; 1 order of up to 3 lots with 2 reconnections, or 1 of the session and 1 from elsewhere with 3 lots and reconnections together; 1.4 million states up to renaming of ClOrdIDs | type correctness; `OneEntryPerOrder`, `CumQtyExact`, `NeverOverfilled`, `OwnExecutions`, `FilledAtLastTrade`, `OrderIDLostByCause`; what the unlocked write of OrderID leaves (`AckGivesOrderID`), and that reports agree on quantities (`QuantitiesReported`) |
| `order_conversion` | every type, time in force, instruction and combination of set fields, both sides, prices of 0, text ClOrdIDs, mapped, unmapped and doubly mapped symbols and ones that Bitfinex calls otherwise, 3 replacements; 1.5 million states | type correctness; `ConvertedFaithfully`: the order sent does what was asked, but in exactly the cases of `Changed`; `TypeReported`, `FlagsAndPegReported`, `LimitReported`, `SideAndSymbolReported`: what its reports say, from whichever source, exceptions included |
| `acceptor` | either service, sequence numbers up to 6 on each side; 887 thousand states | type correctness; `EveryMessageArrives`, `StrictlyTracked`, `NeverRefused`, `HandledOnce`, `CountedIsHandled` |

Violated, each by a statement of the repository that the code does not keep
(`findings` in `PROJECT.json` quotes them):

| run | statement | what happens |
|---|---|---|
| `peer_deadlock` | RemovePeer removes the session | RemovePeer waits for listen, listen for `Service.listen`, `Service.listen` for the lock |
| `order_replaced_fill` | the trade that fills an order is reported FILLED | a replace that failed to be submitted has left a second entry with the OrderID and another quantity |
| `order_snapshot` | executions of working orders are fetched | they are added by an OrderID that is set only afterwards; the handler returns |
| `order_status_leaves` | quantities are uncertain for orders from outside the session only | the status of the session's own order subtracts CumQty from what remains |
| `conversion_stop_limit` | stop limit orders are supported, and trail with a peg | their reports say MARKET, without a price; with a peg they are sent as stop limits and the peg is dropped |
| `conversion_immediate` | an immediate order is reported as fill or kill | on margin it is reported as good till cancel |

Bounds. Two peers are the least with which a session has a present and a former
one, and two sessions the least that compete for the lock and `Service.listen`;
the theorems below remove this bound, and those of the other modules, for the
safety properties. Two MDReqIDs let one
request compete with another for a symbol, or ask for a second one; eight
subscription IDs are two pairs and one reconnection, or one pair and two. One
order of three lots has a first, a middle and a last trade; two orders are the
least whose executions can be mixed up. `MaxWire = 2` lets a message overtake a
handler that is between two uses of the cache, and is the most one action
publishes. `MaxReqs = 1`: requests of one session are served in order.
`Scenarios` cuts `order_routing` down to two cases that are feasible: one order
alone with a cancel or a replace, and one beside an order entered elsewhere, with
one request of the session. The second is where executions could be
mixed up.
`Text`, the ClOrdIDs that are no integers, is empty in the order runs, which would
be too large with it; `order_conversion` has both kinds, one order at a time.
Sequence numbers up to six leave room for a Logon, three messages and a resend
request after a lost connection and a second Logon, on each side. The messages of
`order_conversion` are the full product of the fields that the converters look
at together, and smaller products for those that they look at alone.

Deadlock is checked in `market_data`, `order_routing` and
`acceptor` (a session at its bounds can still be disconnected and the process
restarted). It is not in the peer runs, where after Stop or a panic nothing
is left to do, nor in `nonce`, where the clock stops at its bound, nor in
`order_conversion`, where the order ends.

Each property of a passing run has a faulty variant of some action or helper
in its module, defined just before it and named in `mutants`, under which TLC finds
the property violated.

### Fairness

`FairSpec` of PeerLifecycle assumes that the Go scheduler runs a goroutine that can
run (weak fairness of each goroutine's steps, `Stop`'s once it has begun) and that
senders on `inbound` are served in order, as Go channels do (strong fairness of
each `Forward`). Of FIX clients, the websocket and the operator nothing is assumed:
no logon, logout, message or reconnection need ever happen. For
steps that acquire the lock weak fairness is less than a Go mutex gives, which
is handed to a waiter it has starved.

## Proofs

`tlapm` checks all of these; no step is left out.

* `PeerLifecycleProofs`: the safety properties of the `peer_lifecycle` run, for any
  sets of sessions and peers, from `IdAssumption` (the identifiers differ). The
  inductive invariant adds to `TypeOK` what the properties alone do not say:
  nothing refers to a peer that was not made yet (`FreshPeers`); an entry of the
  map belongs to its session (`PeersOwned`); who holds the lock, and that the peer
  it is closing is in the map, open, and not one Stop still has to visit
  (`LockInv`); that Stop begins when no session can log on (`SessionInv`); which
  channels are still open (`OpenChannels`); how `started`, the websocket and listen
  go together (`ListenInv`); and that a watcher is used up only by its own peer's
  report or Close (`WatchInv`). `NoDoubleClose` alone, for one, is not inductive: the
  step that closes a channel needs `LockInv` to find it open, and the steps that
  enter Close need `OpenChannels` and `PeersOwned` to establish that.
* `MarketDataProofs`: the safety properties of the `market_data` run, for any
  symbols, MDReqIDs, groups and bound, from `MarketDataAssumption`. The invariant
  ties the handler's position to what it has done so far (`HandlerInv`: which of the
  symbol, the book and the trades exist for the request in hand) and subscription
  IDs to the counter that made them; without the first, `SubscribeTrades` might be
  a second subscription of the symbol.
* `MarketDataProofs` also proves `Refinement`, `Spec => ImplementsTable`: the initial
  states map to an initial table, and every step to one step of it or to
  none. `TableHandler`, `TableClaim`, `TableOpen`, `TableSubscribe`, `TableGrant`,
  `TableWebsocket` and `TableReconnect` do this for one group of actions each, under
  the invariant above: that `SubscribeTrades` opens a feed the owner does not have
  yet is `OneSubscriptionPerSymbol` and `HandlerInv`, that `MapMDReqIDs` grants what is
  open is `HandlerInv`, and that data is delivered to the owner is `DataIsRouted`. A
  reconnection gives every subscription a new ID and leaves the feeds as they
  were (`SameFeeds`).
* `NonceProofs`: `NonceGrows` for any `Scale` above `OpsPerTick`. The invariant bounds
  the counter of a second by the calls made in it, one more in the second the
  process started in (the counter starts at 1 and is advanced before use), and
  the last nonce by the end of its second; two seconds' ranges are then apart.

* `OrderRoutingProofs`: the safety properties of the `order_routing` run, for any ClOrdIDs, orders, quantities and bounds, from
  `OrderAssumption` (the identifiers differ, the websocket holds at least one message).
  The invariant says that messages and requests name orders of Bitfinex's
  (`NamedInv`), that a ClOrdID other than "0" stands for one of them (`OneOrderPerCID`),
  what is cached while a request is on its way (`RequestInv`), which order an entry's
  OrderID stands for (`EntryInv`), and what the locals of the two goroutines still have
  to do with the cache when they are used (`FInv`, `HInv`). Two parts are about order in
  time: the trades of an order are handled after its acknowledgement, if that comes
  (`AckFirst`), without which a trade could miss the entry and `CumQtyExact` fail; and a
  trade that is on its way or in hand was not counted yet (`TradesOnce`), which keeps
  `NeverOverfilled` through AddExecution.
  `FilledAtLastTrade`, `OrderIDLostByCause` and `QuantitiesReported` are action
  properties and follow step by step from the invariant.
* `OrderConversionProofs`: the properties of `order_conversion`, for any messages,
  replacements, prices, dates and tables, from `ConversionAssumption`. Parsing a
  symbol master is a fold, about which the prover can say nothing; that no table holds
  the marker of a failed lookup is therefore assumed, and TLC evaluates it on the
  files of the run. The invariant ties the position of the order to who has it
  (`PhaseInv`); Bitfinex's order and every entry keep the client's side, and a symbol
  that the client's was translated to, or Bitfinex's name of it; until a
  replacement is cached, Bitfinex's order is the conversion of the client's
  message and its entry has the terms of it (`OriginalInv`, `OwnTerms`). `ReportInv`
  is what the properties say of the last report. The converters have lemmas of their
  own: what the way to Bitfinex and back makes of a symbol
  (`ThereAndBack`), and what is left of a time that was cut to the second
  (`ToTheSecond`).
* `AcceptorProofs`: the properties of the `acceptor` run for any bound on the sequence
  numbers, from `AcceptorAssumption`. The invariant has a part for each thing two ends
  of a FIX session know of one another: how far the connection is (`LinkInv`), what
  the client remembers having sent (`SentInv`), a reset that is not answered yet
  (`ResetInv`, `ConnectingInv`), what is in the store (`StoreInv`), the resend requests of each side (`ResendInv`, `AskingInv`), what is in
  the pipe (`PipeInv`), what was routed and what was counted (`HandledInv`). The two
  that matter most are complements: while the gateway waits for what it asked for, new
  messages come too early, and are lost, and the client resumes at the number asked
  for (`AskedInv`);
  otherwise the next message on the wire has the number that is expected
  (`InStepInv`). `NeverRefused` is both of them; `HandledOnce` needs `HandledInv`, by
  which a message that is not counted was not routed, unless the process died in
  between; `EveryMessageArrives` needs `PipeInv`, by which nothing is missing in the
  pipe of a market data session. `GetMessagesAll` (the file store gives back what was
  stored from a number on, in order) and `CoversSome` (a gap fill has an end) are about
  the operators.

Model-checked only: the two liveness properties `ReportCompletes` and
`CloseStallsOnlyOnService` (the prover has no fairness or ENABLED), what parsing
makes of a symbol master file (a fold over its lines), and the refutations. Every
other property of a passing run has a theorem.

## Observations without a run

Read from the code while modelling, true of the models where they have the
part, and not the subject of a run.

Peers: a second Logon replaces the peer and leaves the first websocket connected
(`fix.go:90`; the repository's README has one websocket per session); a Close
right after the logon may find `started` unset and leave the websocket, and
with it what cancel-on-disconnect was to cancel (`peer.go`); the watcher of a
replaced peer logs out a session whose websocket is up (`fix.go:93`); a message of a
replaced peer is applied to its successor's cache (`service.go:236`); a logout
that is queued during FromAdmin is numbered, and dropped at the reply to
the Logon.

Market data: a symbol stays mapped after a snapshot request or a failed
subscription, so that it cannot be subscribed to later (`fix_msg.go:415`, `428`); when
the subscription to trades fails, that to the book is not acknowledged yet
and cannot be removed (`fix_msg.go:447`); a refusal that arrives before MapMDReqIDs
becomes a BusinessMessageReject (`service.go:240`); noStore answers a resend request
with nothing, so market data sessions depend on ResetOnLogon.

Orders: the last trade of an order that is not cached is dropped
(`websocket/fix_msg.go:115`); an order update reports CumQty 0 (`:329`); AddCancel has
no caller, so a cancel's reject names the order (`:191`); a terminal message whose
status mentions a partial fill is not reported (`:351`); ClOrdIDs that are no
integers share the entry "0" once Bitfinex answers; a ClOrdID used twice replaces the
entry of a working order (`cache.go:190`); a message that was routed and not
counted when the process died is routed again when the client resends it, so
that its order is submitted twice.

Terms: IOC is sent as fill-or-kill, and either replaces the type, so that a
stop becomes an immediate order at its stop price; every side but SELL buys;
all-or-none beside another instruction is dropped;
a pending cancel names the symbol as it was sent, BTCUSD where all other reports say
tBTCUSD; a replace cannot set a field to zero and does not send the type; a pending cancel
carries GTC and, for a stop, the stop price as Price; a STOP's reports carry no
StopPx. FIXTradeSnapshotHandler has no caller.

Process: nonces repeat when the clock is set back or the process restarts within
a second; a port that order routing cannot have ends the process while market
data sessions are logged on (`gateway.go:77`).

## Not modelled

Average prices, commissions and leverage (floating point arithmetic that
decides nothing); the layout of market data entries; the contents of wallet, position,
balance and authentication messages, which are forwarded without state (that they
are sent and numbered is in `Acceptor`); converters without a caller; the end of the
session each week; reuse of a ClOrdID by the client; a torn write of `OrderID`
(the interleaving of the write is modelled, half of it is not); flags and
configuration files other than as parameters; logging, test doubles; the
vendored libraries other than as the environment described above.

## Plan

Done: all modules and runs above; the safety theorems of all six, and the refinement
of the subscription table.

Next, in this order:

1. An abstract order book of the session (orders with a traded quantity, one
   report per trade) that OrderRouting implements for orders that are neither
   replaced nor restored from a snapshot.
2. The composition of PeerLifecycle with the cache: what a second logon does to
   orders in flight.
