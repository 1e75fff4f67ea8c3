------------------------------ MODULE Acceptor ------------------------------
(***************************************************************************)
(* One FIX session of the gateway and the process it lives in: main and    *)
(* Gateway.Start, the message store fix.New gives the session's service    *)
(* (noStore for market data, a file store for order routing), FromApp, and *)
(* the messages the handlers hand to quickfix.  The process may die at any *)
(* point (the watcher FromAdmin starts for any session of the service      *)
(* panics on purpose to "let the gateway come back online") and is then    *)
(* started again.                                                          *)
(*                                                                         *)
(* quickfix's session layer is modelled as far as sequence numbers go, and *)
(* so is a FIX client that keeps to the protocol: it remembers its own     *)
(* numbers, asks for what it missed, sends again what it is asked for, and *)
(* hangs up on a number that is too low.  The weekly end of the session    *)
(* (StartTime, EndTime), at which both sides reset, is left out.           *)
(***************************************************************************)
EXTENDS Integers, Sequences, FiniteSets

CONSTANTS MaxSeq,   \* bound on the sequence numbers of each side
          None

MarketDataService   == "MarketDataService"
OrderRoutingService == "OrderRoutingService"
ServiceType == {MarketDataService, OrderRoutingService}

\* MarketDataRequest, and NewOrderSingle for the four order messages.
MsgType == {"V", "D"}

VARIABLES
    serviceType, \* the service of the session, fixed by its configuration
    main,        \* where the gateway's main function is
    store,       \* the session's MessageStore
    state,       \* quickfix's session state, and the step of a handler
    rangeEnd,    \* resendRangeEnd, 0 when nothing was asked for
    pipe,        \* the gateway's messages queued or sent, not yet received
    wire,        \* the client's message on its way or in hand
    client,      \* what the client remembers
    handled,     \* number -> how often FromApp routed the message
    interrupted  \* numbers of messages routed, not counted, when the process died

processVars == <<serviceType, main>>
gatewayVars == <<store, state, rangeEnd>>
networkVars == <<pipe, wire>>
countVars   == <<handled, interrupted>>
vars == <<processVars, gatewayVars, networkVars, client, countVars>>

Number == 1..MaxSeq
GatewayMessage == [n : Number, kind : {"logon", "msg", "resend"},
                   begin : 0..MaxSeq, possDup : BOOLEAN]
ClientMessage == [n : Number, last : Number, kind : {"logon", "admin", "resend"} \cup MsgType,
                  begin : 0..MaxSeq, reset : BOOLEAN, possDup : BOOLEAN]

ASSUME AcceptorAssumption ==
    /\ MaxSeq \in Nat \ {0}
    /\ None \notin ClientMessage

EmptyStore == [sender |-> 0, target |-> 0, msgs |-> {}]

\* next: the number of its next message; cursor: that of the one it puts on
\* the wire, lower while it sends again; sent: the types of its messages;
\* gap: the last number it waits for; reset: its ResetSeqNumFlag is not
\* answered yet.
NewClient == [link |-> "off", next |-> 1, cursor |-> 1, sent |-> <<>>,
              expect |-> 1, gap |-> 0, reset |-> FALSE]

Init ==
    /\ serviceType \in ServiceType
    /\ main = "off"
    /\ store = EmptyStore
    /\ state = "latent"
    /\ rangeEnd = 0
    /\ pipe = <<>>
    /\ wire = None
    /\ client = NewClient
    /\ handled = [n \in Number |-> 0]
    /\ interrupted = {}
-----------------------------------------------------------------------------
(***************************************************************************)
(* The message stores.                                                     *)
(***************************************************************************)

\* Faulty variant: fix.New gives both services the noStore.
UsesNoStoreAlways == TRUE

\* The storeFactory of fix.New.
UsesNoStore == serviceType = MarketDataService

\* SaveMessage and IncrNextSenderMsgSeqNum.  Dying between the two leaves a
\* message in the file that was not sent, and whose number is used again.
Saved(st) ==
    [st EXCEPT !.sender = @ + 1,
               !.msgs = IF UsesNoStore THEN @ ELSE @ \cup {st.sender + 1}]

IncrNextTargetMsgSeqNum(st) == [st EXCEPT !.target = @ + 1]

\* The messages from a number on that the store has.
GetMessages(begin) ==
    LET kept == {n \in begin..store.sender : n \in store.msgs} IN
    [i \in 1..Cardinality(kept) |-> CHOOSE n \in kept : Cardinality({k \in kept : k <= n}) = i]

\* Faulty variant: the counters start one too low.
CreateAtMinusOne ==
    IF UsesNoStore THEN [sender |-> -1, target |-> -1, msgs |-> {}] ELSE store

\* A new noStore is reset, a file store reads its files.
Create == IF UsesNoStore THEN EmptyStore ELSE store
-----------------------------------------------------------------------------
(***************************************************************************)
(* The process: main, New and Gateway.Start.                               *)
(***************************************************************************)

Running == main = "serving" \/ (main = "starting" /\ serviceType = MarketDataService)

\* New creates both services, Start starts market data first.  The process
\* ends here if its port cannot be had.
GatewayNew ==
    /\ main = "off"
    /\ main' = "starting"
    /\ store' = Create
    /\ UNCHANGED <<serviceType, state, rangeEnd, networkVars, client, countVars>>

StartOrderRouting ==
    /\ main = "starting"
    /\ main' = "serving"
    /\ UNCHANGED <<serviceType, gatewayVars, networkVars, client, countVars>>

\* Nothing of the connection is left on either side.
Unlink ==
    /\ state' = "latent"
    /\ rangeEnd' = 0
    /\ pipe' = <<>>
    /\ wire' = None
    /\ client' = [client EXCEPT !.link = "off", !.gap = 0, !.cursor = client.next]

\* A panic, a kill, or log.Fatal when order routing cannot be started: a
\* market data session may be logged on by then.
Exit ==
    /\ main # "off"
    /\ main' = "off"
    /\ Unlink
    /\ interrupted' = IF state = "routed" THEN interrupted \cup {wire.n} ELSE interrupted
    /\ UNCHANGED <<serviceType, store, handled>>
-----------------------------------------------------------------------------
(***************************************************************************)
(* Sending.                                                                *)
(***************************************************************************)

Message(n, kind, begin) == [n |-> n, kind |-> kind, begin |-> begin, possDup |-> FALSE]

\* queueForSend: the message is numbered and stored whether the session is
\* logged on or not.
Queue(kind, begin) ==
    /\ store.sender < MaxSeq
    /\ store' = Saved(store)
    /\ pipe' = Append(pipe, Message(store.sender + 1, kind, begin))

\* SendToTarget by a handler of FIX or websocket messages, or by logout.
SendToTarget ==
    /\ state # "latent"
    /\ Queue("msg", 0)
    /\ UNCHANGED <<processVars, state, rangeEnd, wire, client, countVars>>

\* The session's connection goes down, and OnLogout removes its peer.  (What
\* a handler sends after that is numbered, stored and dropped: no different
\* from a message queued just before.)
HangUp(st) ==
    /\ Unlink
    /\ store' = st
    /\ UNCHANGED <<processVars, countVars>>

Disconnect ==
    /\ client.link # "off"
    /\ state \in {"latent", "inSession"}
    /\ HangUp(store)
-----------------------------------------------------------------------------
(***************************************************************************)
(* Logon.                                                                  *)
(***************************************************************************)

\* ResetOnLogon of the market data configuration, or the client's flag.
ResetStore == serviceType = MarketDataService \/ wire.reset

LogonStore == IF ResetStore THEN EmptyStore ELSE store

Logon == Running /\ state = "latent" /\ wire # None

\* The number is too low, or FromAdmin refuses the credentials.
LogonRefused ==
    /\ Logon
    /\ HangUp(LogonStore)

\* FromAdmin: from here on the websocket is up, and what comes from it may
\* be sent before the Logon is answered.
FromAdmin ==
    /\ Logon
    /\ wire.n > LogonStore.target
    /\ store' = LogonStore
    /\ state' = "logon"
    /\ UNCHANGED <<processVars, rangeEnd, networkVars, client, countVars>>

\* Faulty variant: the store is reset before FromAdmin only.
LogonReplyResetOnce ==
    LET st == Saved(store) IN
    /\ state = "logon"
    /\ st.sender <= MaxSeq
    /\ state' = "inSession"
    /\ wire' = None
    /\ wire.n = store.target + 1
    /\ store' = IncrNextTargetMsgSeqNum(st)
    /\ pipe' = <<Message(st.sender, "logon", 0)>>
    /\ UNCHANGED <<processVars, rangeEnd, client, countVars>>

\* sendLogonInReplyTo: resets once more, drops what was queued, and answers.
\* What is missing before the Logon is asked for.
LogonReply ==
    LET st == Saved(LogonStore)
        answer == <<Message(st.sender, "logon", 0)>>
        expected == st.target + 1
    IN
    /\ state = "logon"
    /\ st.sender <= MaxSeq
    /\ state' = "inSession"
    /\ wire' = None
    /\ \/ /\ wire.n = expected
          /\ store' = IncrNextTargetMsgSeqNum(st)
          /\ pipe' = answer
          /\ UNCHANGED rangeEnd
       \/ /\ wire.n > expected
          /\ st.sender < MaxSeq
          /\ store' = Saved(st)
          /\ pipe' = Append(answer, Message(st.sender + 1, "resend", expected))
          /\ rangeEnd' = wire.n - 1
    /\ UNCHANGED <<processVars, client, countVars>>
-----------------------------------------------------------------------------
(***************************************************************************)
(* Messages of the client in session.                                      *)
(***************************************************************************)

Arrived == state = "inSession" /\ wire # None
InOrder == wire.n = store.target + 1

\* IncrNextTargetMsgSeqNum, or SetNextTargetMsgSeqNum for a gap fill; after
\* the last message that was asked for the session leaves the resend state.
Count ==
    /\ store' = [store EXCEPT !.target = wire.last]
    /\ rangeEnd' = IF rangeEnd > wire.last THEN rangeEnd ELSE 0
    /\ wire' = None

\* FromApp is called for a message in order.
FromApp ==
    /\ Arrived
    /\ wire.kind \in MsgType
    /\ InOrder
    /\ state' = "app"
    /\ UNCHANGED <<processVars, store, rangeEnd, networkVars, client, countVars>>

\* The routes fix.New adds for the service.
IsRouted(type) == type = (IF serviceType = MarketDataService THEN "V" ELSE "D")

\* Route: a handler, or UnsupportedMessageType and quickfix's reject.
Route ==
    /\ state = "app"
    /\ state' = "routed"
    /\ handled' = [handled EXCEPT ![wire.n] = @ + 1]
    /\ IF IsRouted(wire.kind) THEN UNCHANGED <<store, pipe>> ELSE Queue("msg", 0)
    /\ UNCHANGED <<processVars, rangeEnd, wire, client, interrupted>>

\* Faulty variant: a rejected message is counted with its reject, and again.
AppCountedTwice ==
    /\ state = "routed"
    /\ store' = [store EXCEPT !.target = wire.last + (IF IsRouted(wire.kind) THEN 0 ELSE 1)]
    /\ wire' = None
    /\ state' = "inSession"
    /\ UNCHANGED <<processVars, rangeEnd, pipe, client, countVars>>

\* Faulty variant: a message that is sent again is not counted.
AppCountedOriginals ==
    /\ state = "routed"
    /\ IF wire.possDup THEN wire' = None /\ UNCHANGED <<store, rangeEnd>> ELSE Count
    /\ state' = "inSession"
    /\ UNCHANGED <<processVars, pipe, client, countVars>>

\* Only then is the message counted.
AppCounted ==
    /\ state = "routed"
    /\ Count
    /\ state' = "inSession"
    /\ UNCHANGED <<processVars, pipe, client, countVars>>

\* Faulty variant: the number of a gap fill is not looked at.
AdminCountedAnyNumber ==
    /\ Arrived
    /\ wire.kind = "admin"
    /\ wire.n > store.target
    /\ Count
    /\ UNCHANGED <<processVars, state, pipe, client, countVars>>

\* A heartbeat, or a gap fill.
AdminCounted ==
    /\ Arrived
    /\ wire.kind = "admin"
    /\ InOrder
    /\ Count
    /\ UNCHANGED <<processVars, state, pipe, client, countVars>>

\* handleResendRequest, whatever its number: the stored messages, or a gap
\* fill for those that are not sent twice, or nothing if there are none.
ResendRequest ==
    LET again == GetMessages(wire.begin) IN
    /\ Arrived
    /\ wire.kind = "resend"
    /\ pipe' = pipe \o [i \in 1..Len(again) |->
                   [Message(again[i], "msg", 0) EXCEPT !.possDup = TRUE]]
    /\ store' = IF InOrder THEN IncrNextTargetMsgSeqNum(store) ELSE store
    /\ wire' = None
    /\ UNCHANGED <<processVars, state, rangeEnd, client, countVars>>

\* A message that comes before what the gateway asked for is lost: the resend
\* state entered at a Logon has no stash, and the one processReject makes is
\* dropped with its copy of the state.  The client sends it again, for it was
\* asked for everything from a number on.  (In any other state the gateway
\* would ask now, and a number that is too low would end the session: see
\* NeverRefused.)
TooHigh ==
    /\ Arrived
    /\ wire.kind # "resend"
    /\ wire.n > store.target + 1
    /\ wire' = None
    /\ UNCHANGED <<processVars, gatewayVars, pipe, client, countVars>>
-----------------------------------------------------------------------------
(***************************************************************************)
(* The client.                                                             *)
(***************************************************************************)

\* A new message: it takes a number, and the client keeps it.
Transmit(c, kind, begin) ==
    /\ c.next <= MaxSeq
    /\ wire = None
    /\ wire' = [n |-> c.next, last |-> c.next, kind |-> kind, begin |-> begin,
                reset |-> c.reset, possDup |-> FALSE]
    /\ client' = [c EXCEPT !.next = @ + 1, !.cursor = @ + 1,
                           !.sent = Append(@, IF kind \in MsgType THEN kind ELSE "admin")]

ClientLogon ==
    /\ Running
    /\ client.link = "off"
    /\ ~client.reset
    /\ Transmit([client EXCEPT !.link = "connecting"], "logon", 0)
    /\ UNCHANGED <<processVars, gatewayVars, pipe, countVars>>

\* ResetSeqNumFlag=Y: the client forgets its numbers, and asks for a reset
\* until it is answered.
ClientReset ==
    /\ Running
    /\ client.link = "off"
    /\ Transmit([NewClient EXCEPT !.link = "connecting", !.reset = TRUE], "logon", 0)
    /\ handled' = [n \in Number |-> 0]
    /\ interrupted' = {}
    /\ UNCHANGED <<processVars, gatewayVars, pipe>>

ClientSend(kind) ==
    /\ client.link = "on"
    /\ client.cursor = client.next
    /\ Transmit(client, kind, 0)
    /\ UNCHANGED <<processVars, gatewayVars, pipe, countVars>>

\* What the gateway asked for is sent again: a message as a possible
\* duplicate, one gap fill for the numbers up to the next message.
ClientSendAgain ==
    LET c == client
        n == c.cursor
        type == c.sent[n]
        last == CHOOSE m \in n..(c.next - 1) :
                    /\ m = n \/ type = "admin"
                    /\ \A k \in (n + 1)..m : c.sent[k] = "admin"
                    /\ m + 1 = c.next \/ type # "admin" \/ c.sent[m + 1] # "admin"
    IN
    /\ c.link = "on"
    /\ n < c.next
    /\ wire = None
    /\ wire' = [n |-> n, last |-> last, kind |-> type, begin |-> 0, reset |-> FALSE, possDup |-> TRUE]
    /\ client' = [c EXCEPT !.cursor = last + 1]
    /\ UNCHANGED <<processVars, gatewayVars, pipe, countVars>>

\* The gateway's next message reaches the client: in order, after a gap that
\* the client asks for, or with a number that it has had.
ClientReceive ==
    LET m == Head(pipe)
        c == [client EXCEPT !.link = "on", !.reset = FALSE,
                            !.cursor = IF m.kind = "resend" THEN m.begin ELSE @]
    IN
    /\ client.link # "off"
    /\ state \notin {"latent", "logon"}
    /\ pipe # <<>>
    /\ \/ /\ m.n = c.expect
          /\ client' = [c EXCEPT !.expect = @ + 1]
          /\ pipe' = Tail(pipe)
          /\ UNCHANGED <<processVars, gatewayVars, wire, countVars>>
       \/ /\ m.n > c.expect
          /\ c.expect <= c.gap
          /\ client' = c
          /\ pipe' = Tail(pipe)
          /\ UNCHANGED <<processVars, gatewayVars, wire, countVars>>
       \/ /\ m.n > c.expect
          /\ c.expect > c.gap
          /\ Transmit([c EXCEPT !.gap = m.n - 1], "resend", c.expect)
          /\ pipe' = Tail(pipe)
          /\ UNCHANGED <<processVars, gatewayVars, countVars>>
       \/ /\ m.n < c.expect
          /\ state = "inSession"
          /\ HangUp(store)

Next ==
    \/ GatewayNew \/ StartOrderRouting \/ Exit
    \/ SendToTarget \/ Disconnect
    \/ LogonRefused \/ FromAdmin \/ LogonReply
    \/ FromApp \/ Route \/ AppCounted \/ AdminCounted
    \/ ResendRequest \/ TooHigh
    \/ ClientLogon \/ ClientReset \/ ClientSendAgain \/ ClientReceive
    \/ \E kind \in MsgType \cup {"admin"} : ClientSend(kind)

Spec == Init /\ [][Next]_vars
-----------------------------------------------------------------------------
\* The types of the process, the session and the client's memory.
TypeOK ==
    /\ serviceType \in ServiceType
    /\ main \in {"off", "starting", "serving"}
    /\ store \in [sender : 0..MaxSeq, target : 0..MaxSeq, msgs : SUBSET Number]
    /\ state \in {"latent", "logon", "inSession", "app", "routed"}
    /\ rangeEnd \in 0..MaxSeq
    /\ pipe \in Seq(GatewayMessage)
    /\ wire \in ClientMessage \cup {None}
    /\ client \in [link : {"off", "connecting", "on"}, next : 1..(MaxSeq + 1),
                   cursor : 1..(MaxSeq + 1), sent : Seq(MsgType \cup {"admin"}),
                   expect : 1..(MaxSeq + 1), gap : 0..MaxSeq, reset : BOOLEAN]
    /\ handled \in [Number -> Nat]
    /\ interrupted \subseteq Number

\* Nothing is lost to a client that is logged on: what it has not received is
\* on its way in order, or is stored for its resend request.  noStore keeps
\* nothing, so a market data client must never see a gap.
EveryMessageArrives ==
    client.link = "on" =>
        \/ client.expect..store.sender \subseteq store.msgs
        \/ /\ Len(pipe) = store.sender + 1 - client.expect
           /\ \A i \in 1..Len(pipe) : pipe[i].n = client.expect + i - 1

\* "strictly tracks sequence numbers": an order routing client never has to
\* reset; whatever dies or is lost, neither side falls behind the number the
\* other one expects.
StrictlyTracked ==
    serviceType = OrderRoutingService /\ ~client.reset =>
        /\ client.expect <= store.sender + 1
        /\ store.target < client.next

\* A client that is logged on is never logged out for a number, whatever was
\* lost, resent or crashed before: none that was counted comes again, and one
\* that comes early was asked for already, when the session was logged on.
NeverRefused ==
    Arrived =>
        /\ wire.n > store.target
        /\ wire.n > store.target + 1 => rangeEnd # 0

\* A message is routed once, however often it is sent; twice only if the
\* process died after routing it and before counting it.
HandledOnce == \A n \in Number : handled[n] > 1 => n \in interrupted

\* What was counted was routed: nothing the client sent is skipped.
CountedIsHandled ==
    ~client.reset =>
        \A n \in DOMAIN client.sent :
            n <= store.target /\ client.sent[n] \in MsgType => handled[n] > 0
=============================================================================
