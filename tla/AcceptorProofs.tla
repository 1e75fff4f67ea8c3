--------------------------- MODULE AcceptorProofs ---------------------------
(***************************************************************************)
(* Safety of Acceptor for any bound on the sequence numbers.               *)
(***************************************************************************)
EXTENDS Acceptor, FiniteSetTheorems, WellFoundedInduction, TLAPS

\* The service whose store keeps the messages.
Tracking == serviceType = OrderRoutingService
InSession == state \in {"inSession", "app", "routed"}

\* The client's message is sent for the first time, or again.
New   == wire # None /\ ~wire.possDup
Again == wire # None /\ wire.possDup

\* The gateway's resend request is on its way.
Asking == \E i \in DOMAIN pipe : pipe[i].kind = "resend"

\* A message is what the client remembers under its numbers.
Matches(w) ==
    /\ w.n <= w.last /\ w.last < client.next
    /\ w.kind \in MsgType => w.last = w.n /\ client.sent[w.n] = w.kind
    /\ w.kind \notin MsgType => \A k \in w.n..w.last : client.sent[k] = "admin"

\* How far the connection is.
LinkInv ==
    /\ main = "off" => client.link = "off"
    /\ client.link = "off" => state = "latent" /\ wire = None
    /\ state = "latent" => pipe = <<>>
    /\ ~InSession => client.link # "on" /\ rangeEnd = 0
    /\ ~InSession /\ client.link # "off" =>
         /\ wire # None /\ wire.kind = "logon" /\ wire.n = client.next - 1
         /\ wire.reset = client.reset
    /\ client.link # "on" => client.gap = 0 /\ client.cursor = client.next
    /\ InSession /\ client.link = "connecting" => state = "inSession" /\ wire = None
    /\ InSession => client.link # "off"
    /\ client.link = "on" => ~client.reset
    /\ state \in {"app", "routed"} => wire # None /\ wire.kind \in MsgType /\ InOrder

\* The client's memory, and its messages.
SentInv ==
    /\ Len(client.sent) = client.next - 1
    /\ wire # None => Matches(wire)

\* A reset that is not answered.
ResetInv ==
    client.reset => /\ client.expect = 1 /\ client.next = 2 /\ interrupted = {}
                    /\ \A n \in Number : handled[n] = 0

\* What is stored, and that neither side falls behind what the other expects.
StoreInv ==
    /\ store.msgs = IF Tracking THEN 1..store.sender ELSE {}
    /\ InSession \/ (Tracking /\ ~client.reset) => store.target < client.next
    /\ Tracking /\ (InSession \/ ~client.reset) => client.expect <= store.sender + 1

\* Only the logon is a Logon.
LogonInv == InSession /\ wire # None => wire.kind # "logon"

\* As long as the gateway waits for what it asked for, new messages come too
\* early.  The client goes on from where the gateway is once it was asked.
AskedInv ==
    InSession /\ rangeEnd # 0 =>
        /\ rangeEnd > store.target /\ rangeEnd <= client.next - 2
        /\ New => wire.n > rangeEnd + 1 /\ wire.n = client.next - 1
        /\ Asking => ~Again /\ client.cursor = client.next
        /\ ~Asking /\ Again => wire.n = store.target + 1 /\ client.cursor = wire.last + 1
        /\ ~Asking /\ ~Again => client.cursor = store.target + 1

\* Otherwise messages come in order, those that are sent again too.
InStepInv ==
    InSession /\ rangeEnd = 0 =>
        /\ ~Asking
        /\ wire = None => client.cursor = store.target + 1
        /\ wire # None => InOrder /\ client.cursor = wire.last + 1

\* The client's resend request.
ResendInv ==
    InSession /\ wire # None /\ wire.kind = "resend" =>
        /\ Tracking /\ ~wire.possDup /\ wire.last = wire.n
        /\ client.expect <= client.gap /\ wire.begin = client.expect

\* The gateway's resend request follows its answer to the Logon.
AskingInv ==
    InSession => \A i \in DOMAIN pipe : pipe[i].kind = "resend" =>
        /\ i = IF client.link = "connecting" THEN 2 ELSE 1
        /\ pipe[i].begin = store.target + 1

\* The gateway's messages on their way: from the answer to the Logon on; then
\* from what the client expects on; or those that are too early, and after
\* them, once the client's request is answered, all that it expects.
ConnectingInv ==
    InSession /\ client.link = "connecting" =>
        /\ pipe # <<>> /\ pipe[1].kind = "logon"
        /\ \A i \in DOMAIN pipe : pipe[i].n = store.sender - Len(pipe) + i
        /\ IF Tracking THEN client.expect <= pipe[1].n ELSE pipe[1].n = 1

Missing == store.sender + 1 - client.expect
Requested == wire # None /\ wire.kind = "resend"

PipeInv ==
    client.link = "on" =>
        /\ ~Tracking => client.gap = 0 /\ client.expect > 1
        /\ client.expect > client.gap =>
             /\ Len(pipe) = Missing
             /\ \A i \in DOMAIN pipe : pipe[i].n = client.expect + i - 1
        /\ client.expect <= client.gap =>
             /\ client.gap <= store.sender
             /\ Requested => \A i \in DOMAIN pipe : pipe[i].n > client.gap
             /\ ~Requested =>
                  /\ Len(pipe) >= Missing
                  /\ \A i \in DOMAIN pipe :
                       IF i <= Len(pipe) - Missing
                         THEN pipe[i].n > client.gap
                         ELSE pipe[i].n = store.sender - Len(pipe) + i

\* What was not counted was not routed, but before the process died or just
\* now; what was counted was routed.
HandledInv ==
    /\ ~Tracking /\ client.expect = 1 => \A n \in Number : handled[n] = 0
    /\ Tracking \/ client.link = "on" =>
         \A n \in Number : n > store.target =>
            handled[n] = 0 \/ n \in interrupted \/ (state = "routed" /\ wire.n = n)
    /\ state = "routed" => handled[wire.n] > 0
    /\ InSession \/ ~client.reset =>
         \A n \in DOMAIN client.sent :
            n <= store.target /\ client.sent[n] \in MsgType => handled[n] > 0

IInv ==
    /\ TypeOK /\ LinkInv /\ SentInv /\ ResetInv /\ StoreInv
    /\ LogonInv /\ AskedInv /\ InStepInv /\ ResendInv
    /\ AskingInv /\ ConnectingInv /\ PipeInv
    /\ HandledInv /\ HandledOnce
-----------------------------------------------------------------------------
(***************************************************************************)
(* The process, and steps that touch nothing of the session.               *)
(***************************************************************************)

LEMMA StoreType ==
    ASSUME TypeOK
    PROVE  /\ store.sender \in 0..MaxSeq /\ store.target \in 0..MaxSeq /\ store.msgs \subseteq Number
           /\ EmptyStore \in [sender : 0..MaxSeq, target : 0..MaxSeq, msgs : SUBSET Number]
BY AcceptorAssumption DEF TypeOK, EmptyStore

ClientState ==
    [link : {"off", "connecting", "on"}, next : 1..(MaxSeq + 1), cursor : 1..(MaxSeq + 1),
     sent : Seq(MsgType \cup {"admin"}), expect : 1..(MaxSeq + 1), gap : 0..MaxSeq, reset : BOOLEAN]

LEMMA ClientType ==
    ASSUME TypeOK
    PROVE  /\ client \in ClientState
           /\ client.link \in {"off", "connecting", "on"} /\ client.next \in 1..(MaxSeq + 1)
           /\ client.cursor \in 1..(MaxSeq + 1) /\ client.sent \in Seq(MsgType \cup {"admin"})
           /\ client.expect \in 1..(MaxSeq + 1) /\ client.gap \in 0..MaxSeq
           /\ client.reset \in BOOLEAN
BY DEF TypeOK, ClientState

LEMMA GatewayNewInv ==
    ASSUME IInv, GatewayNew
    PROVE  IInv'
<1> USE DEF IInv
<1>1. /\ client.link = "off" /\ state = "latent" /\ wire = None /\ pipe = <<>>
      /\ client.link = "off" /\ ~InSession /\ rangeEnd = 0
  BY DEF GatewayNew, LinkInv, InSession
<1>2. /\ UNCHANGED <<serviceType, state, rangeEnd, pipe, wire, client, handled, interrupted>>
      /\ main' = "starting"
  BY DEF GatewayNew, networkVars, countVars
<1>3. store' = IF Tracking THEN store ELSE EmptyStore
  BY DEF GatewayNew, Create, UsesNoStore, Tracking, TypeOK, ServiceType, MarketDataService,
         OrderRoutingService
<1>4. TypeOK'
  BY <1>2, <1>3, StoreType DEF TypeOK
<1>5. LinkInv' /\ SentInv' /\ ResetInv'
  BY <1>1, <1>2 DEF LinkInv, SentInv, ResetInv, InSession, Matches
<1>6. StoreInv'
  BY <1>1, <1>2, <1>3 DEF StoreInv, Tracking, InSession, EmptyStore
<1>7. LogonInv' /\ AskedInv' /\ InStepInv' /\ ResendInv' /\ AskingInv' /\ ConnectingInv' /\ PipeInv'
  BY <1>1, <1>2 DEF LogonInv, AskedInv, InStepInv, ResendInv, AskingInv, ConnectingInv, PipeInv, InSession
<1>8. HandledInv' /\ HandledOnce'
  BY <1>1, <1>2, <1>3 DEF HandledInv, HandledOnce, Tracking, InSession, EmptyStore, SentInv, TypeOK
<1> QED
  BY <1>4, <1>5, <1>6, <1>7, <1>8

\* What a step keeps that leaves the session alone.
LEMMA SessionFrame ==
    ASSUME IInv, UNCHANGED <<serviceType, gatewayVars, networkVars, client, countVars>>
    PROVE  /\ SentInv' /\ ResetInv' /\ StoreInv' /\ LogonInv' /\ AskedInv' /\ InStepInv'
           /\ ResendInv' /\ AskingInv' /\ ConnectingInv' /\ PipeInv' /\ HandledInv' /\ HandledOnce'
<1> USE DEF IInv, gatewayVars, networkVars, countVars
<1>1. /\ InSession' = InSession /\ Tracking' = Tracking /\ New' = New /\ Again' = Again
      /\ Asking' = Asking /\ Missing' = Missing /\ Requested' = Requested
      /\ InOrder' = InOrder
  BY DEF InSession, Tracking, New, Again, Asking, Missing, Requested, InOrder
<1>2. SentInv' /\ ResetInv' /\ StoreInv' /\ LogonInv'
  BY <1>1 DEF SentInv, ResetInv, StoreInv, LogonInv, Matches
<1>3. AskedInv' /\ InStepInv' /\ ResendInv'
  BY <1>1 DEF AskedInv, InStepInv, ResendInv
<1>4. AskingInv' /\ ConnectingInv' /\ PipeInv'
  BY <1>1 DEF AskingInv, ConnectingInv, PipeInv
<1>5. HandledInv' /\ HandledOnce'
  BY <1>1 DEF HandledInv, HandledOnce
<1> QED
  BY <1>2, <1>3, <1>4, <1>5

LEMMA StartOrderRoutingInv ==
    ASSUME IInv, StartOrderRouting
    PROVE  IInv'
<1> USE DEF IInv
<1>1. /\ UNCHANGED <<serviceType, gatewayVars, networkVars, client, countVars>>
      /\ main # "off" /\ main' = "serving"
  BY DEF StartOrderRouting
<1>2. TypeOK' /\ LinkInv'
  BY <1>1 DEF TypeOK, LinkInv, InSession, InOrder, gatewayVars, networkVars, countVars
<1> QED
  BY <1>1, <1>2, SessionFrame

LEMMA StutterInv ==
    ASSUME IInv, UNCHANGED vars
    PROVE  IInv'
<1> USE DEF IInv
<1>1. UNCHANGED <<serviceType, main, gatewayVars, networkVars, client, countVars>>
  BY DEF vars, processVars
<1>2. TypeOK' /\ LinkInv'
  BY <1>1 DEF TypeOK, LinkInv, InSession, InOrder, gatewayVars, networkVars, countVars
<1> QED
  BY <1>1, <1>2, SessionFrame
-----------------------------------------------------------------------------
(***************************************************************************)
(* The connection goes down.                                               *)
(***************************************************************************)

LEMMA UnlinkInv ==
    ASSUME IInv, Unlink, UNCHANGED <<serviceType, handled>>,
           main' \in {"off", main},
           store' = store \/ (store' = EmptyStore /\ (~Tracking \/ client.reset)),
           interrupted' = IF state = "routed" THEN interrupted \cup {wire.n} ELSE interrupted
    PROVE  IInv'
<1> USE DEF IInv
<1>1. /\ state' = "latent" /\ rangeEnd' = 0 /\ pipe' = <<>> /\ wire' = None
      /\ ~InSession' /\ Tracking' = Tracking
  BY DEF Unlink, InSession, Tracking
<1>2. /\ client'.link = "off" /\ client'.gap = 0 /\ client'.cursor = client'.next
      /\ client'.next = client.next /\ client'.sent = client.sent
      /\ client'.expect = client.expect /\ client'.reset = client.reset
      /\ client' \in ClientState
  <2>1. client' = [client EXCEPT !.link = "off", !.gap = 0, !.cursor = client.next]
    BY DEF Unlink
  <2>2. PICK c \in ClientState : c = client
    BY ClientType
  <2>3. 0 \in 0..MaxSeq
    BY AcceptorAssumption
  <2>4. [c EXCEPT !.link = "off", !.gap = 0, !.cursor = c.next] \in ClientState
    BY <2>3 DEF ClientState
  <2> QED
    BY <2>1, <2>2, <2>4 DEF ClientState
<1>3. state = "routed" => wire \in ClientMessage /\ wire.n \in Number /\ ~client.reset
  BY DEF LinkInv, TypeOK, ClientMessage, InSession
<1>4. TypeOK'
  <2>2. store' \in [sender : 0..MaxSeq, target : 0..MaxSeq, msgs : SUBSET Number]
    BY StoreType DEF TypeOK
  <2>3. interrupted' \subseteq Number
    BY <1>3 DEF TypeOK
  <2> QED
    BY <1>1, <1>2, <2>2, <2>3 DEF TypeOK, ClientState
<1>5. LinkInv'
  BY <1>1, <1>2 DEF LinkInv, InSession
<1>6. SentInv' /\ ResetInv'
  BY <1>1, <1>2, <1>3 DEF SentInv, ResetInv
<1>7. StoreInv'
  <2>1. CASE store' = store
    BY <1>1, <1>2, <2>1 DEF StoreInv
  <2>2. CASE store' = EmptyStore /\ (~Tracking \/ client.reset)
    BY <1>1, <1>2, <2>2, AcceptorAssumption DEF StoreInv, EmptyStore
  <2> QED
    BY <2>1, <2>2
<1>8. LogonInv' /\ AskedInv' /\ InStepInv' /\ ResendInv' /\ AskingInv' /\ ConnectingInv' /\ PipeInv'
  BY <1>1, <1>2 DEF LogonInv, AskedInv, InStepInv, ResendInv, AskingInv, ConnectingInv, PipeInv
<1>9. HandledOnce'
  BY DEF HandledOnce
<1>10. HandledInv'
  <2>2. CASE store' = store
    BY <1>1, <1>2, <2>2 DEF HandledInv, SentInv
  <2>3. CASE store' = EmptyStore /\ (~Tracking \/ client.reset)
    <3>1. \A n \in DOMAIN client.sent : ~(n <= EmptyStore.target)
      BY DEF EmptyStore, TypeOK
    <3> QED
      BY <1>1, <1>2, <2>3, <3>1 DEF HandledInv, ResetInv
  <2> QED
    BY <2>2, <2>3
<1> QED
  BY <1>4, <1>5, <1>6, <1>7, <1>8, <1>9, <1>10

LEMMA ExitInv ==
    ASSUME IInv, Exit
    PROVE  IInv'
BY UnlinkInv DEF Exit

LEMMA HangUpInv ==
    ASSUME IInv, state # "routed", HangUp(store)
    PROVE  IInv'
BY UnlinkInv DEF HangUp, processVars, countVars

LEMMA LogonRefusedInv ==
    ASSUME IInv, LogonRefused
    PROVE  IInv'
<1>1. LogonStore = store \/ (LogonStore = EmptyStore /\ (~Tracking \/ client.reset))
  BY DEF IInv, LogonRefused, Logon, LogonStore, ResetStore, LinkInv, InSession, Tracking,
         MarketDataService, OrderRoutingService
<1> QED
  BY <1>1, UnlinkInv DEF LogonRefused, Logon, HangUp, processVars, countVars
-----------------------------------------------------------------------------
(***************************************************************************)
(* Sending.                                                                *)
(***************************************************************************)

LEMMA PipeType ==
    ASSUME TypeOK
    PROVE  /\ pipe \in Seq(GatewayMessage) /\ Len(pipe) \in Nat /\ DOMAIN pipe = 1..Len(pipe)
           /\ \A i \in DOMAIN pipe : pipe[i] \in GatewayMessage /\ pipe[i].n \in Number
           /\ \A i \in DOMAIN pipe : pipe[i].n \in Nat /\ pipe[i].begin \in Nat
<1>1. pipe \in Seq(GatewayMessage) /\ Len(pipe) \in Nat /\ DOMAIN pipe = 1..Len(pipe)
  BY DEF TypeOK
<1>2. \A i \in DOMAIN pipe : pipe[i] \in GatewayMessage
  BY <1>1
<1>3. \A m \in GatewayMessage : m.n \in Number /\ m.n \in Nat /\ m.begin \in Nat
  BY AcceptorAssumption DEF GatewayMessage, Number
<1> QED
  BY <1>1, <1>2, <1>3

LEMMA MessageType ==
    ASSUME NEW n \in Number, NEW kind \in {"logon", "msg", "resend"}, NEW begin \in 0..MaxSeq
    PROVE  /\ Message(n, kind, begin) \in GatewayMessage /\ Message(n, kind, begin).n = n
           /\ Message(n, kind, begin).kind = kind /\ Message(n, kind, begin).begin = begin
BY DEF Message, GatewayMessage

LEMMA SavedStore ==
    ASSUME TypeOK, NEW st \in [sender : 0..MaxSeq, target : 0..MaxSeq, msgs : SUBSET Number],
           st.sender < MaxSeq
    PROVE  /\ Saved(st) \in [sender : 0..MaxSeq, target : 0..MaxSeq, msgs : SUBSET Number]
           /\ Saved(st).sender = st.sender + 1 /\ Saved(st).target = st.target
           /\ Saved(st).msgs = IF Tracking THEN st.msgs \cup {st.sender + 1} ELSE st.msgs
<1>1. UsesNoStore = ~Tracking
  BY DEF UsesNoStore, Tracking, TypeOK, ServiceType, MarketDataService, OrderRoutingService
<1>2. st.sender + 1 \in 0..MaxSeq /\ st.sender + 1 \in Number
  BY AcceptorAssumption DEF Number
<1> QED
  BY <1>1, <1>2 DEF Saved

\* A message of a handler is queued: the conjuncts that do not look at what
\* was routed or remembered.
LEMMA QueueInv ==
    ASSUME IInv, Queue("msg", 0), InSession' = InSession,
           state # "latent",
           UNCHANGED <<serviceType, rangeEnd, wire, client>>
    PROVE  /\ SentInv' /\ StoreInv' /\ LogonInv' /\ AskedInv' /\ InStepInv'
           /\ ResendInv' /\ AskingInv' /\ ConnectingInv' /\ PipeInv'
           /\ store' \in [sender : 0..MaxSeq, target : 0..MaxSeq, msgs : SUBSET Number]
           /\ store'.target = store.target /\ pipe' \in Seq(GatewayMessage)
<1> USE DEF IInv
<1>1. /\ store' = Saved(store) /\ store.sender < MaxSeq
      /\ pipe' = Append(pipe, Message(store.sender + 1, "msg", 0))
  BY DEF Queue
<1>2. /\ store' \in [sender : 0..MaxSeq, target : 0..MaxSeq, msgs : SUBSET Number]
      /\ store'.sender = store.sender + 1 /\ store'.target = store.target
      /\ store'.msgs = IF Tracking THEN store.msgs \cup {store.sender + 1} ELSE store.msgs
  BY <1>1, SavedStore DEF TypeOK
<1>3. /\ Message(store.sender + 1, "msg", 0) \in GatewayMessage
      /\ Message(store.sender + 1, "msg", 0).n = store.sender + 1
      /\ Message(store.sender + 1, "msg", 0).kind = "msg"
  <2>1. store.sender + 1 \in Number /\ 0 \in 0..MaxSeq
    BY <1>1, StoreType, AcceptorAssumption DEF Number
  <2> QED
    BY <2>1, MessageType
<1> DEFINE m == Message(store.sender + 1, "msg", 0)
<1> HIDE DEF m
<1>4. /\ pipe' \in Seq(GatewayMessage) /\ Len(pipe') = Len(pipe) + 1
      /\ DOMAIN pipe' = 1..(Len(pipe) + 1) /\ \A i \in 1..Len(pipe) : pipe'[i] = pipe[i]
      /\ pipe'[Len(pipe) + 1] = m /\ m.n = store.sender + 1 /\ m.kind # "resend"
  BY <1>1, <1>3, PipeType DEF m, MsgType
<1>5. /\ DOMAIN pipe = 1..Len(pipe) /\ Len(pipe) \in Nat /\ store.sender \in Nat
      /\ client.expect \in Nat /\ client.gap \in Nat
      /\ \A i \in DOMAIN pipe : pipe[i].n \in Nat
  BY PipeType, StoreType, ClientType
<1>6. /\ Tracking' = Tracking /\ New' = New /\ Again' = Again
      /\ Requested' = Requested /\ InOrder' = InOrder /\ Missing' = Missing + 1
  BY <1>2, <1>5 DEF Tracking, New, Again, Requested, InOrder, Missing
<1>7. Asking' = Asking
  BY <1>4, <1>5 DEF Asking
<1>8. SentInv' /\ LogonInv' /\ ResendInv'
  BY <1>6 DEF SentInv, LogonInv, ResendInv, Matches
<1>9. StoreInv'
  <2>1. 1..(store.sender + 1) = (1..store.sender) \cup {store.sender + 1}
    BY <1>5
  <2>2. store'.msgs = IF Tracking THEN 1..store'.sender ELSE {}
    BY <2>1, <1>2 DEF StoreInv
  <2>3. /\ InSession \/ (Tracking /\ ~client.reset) => store.target < client.next
        /\ Tracking /\ (InSession \/ ~client.reset) => client.expect <= store.sender + 1 + 1
    BY <1>5 DEF StoreInv
  <2> QED
    BY <2>2, <2>3, <1>2, <1>6 DEF StoreInv
<1>10. AskedInv' /\ InStepInv'
  BY <1>2, <1>6, <1>7 DEF AskedInv, InStepInv
<1>11. AskingInv'
  BY <1>2, <1>4, <1>5 DEF AskingInv
<1>12. ConnectingInv'
  <2> SUFFICES ASSUME InSession, client.link = "connecting"
               PROVE  ConnectingInv'
    BY DEF ConnectingInv
  <2>1. /\ Len(pipe) >= 1 /\ 1 \in DOMAIN pipe /\ pipe'[1] = pipe[1] /\ pipe' # <<>>
        /\ pipe[1].kind = "logon"
    BY <1>4, <1>5 DEF ConnectingInv
  <2>2. \A i \in DOMAIN pipe' : pipe'[i].n = store'.sender - Len(pipe') + i
    <3> TAKE i \in DOMAIN pipe'
    <3>1. CASE i \in DOMAIN pipe
      BY <3>1, <1>2, <1>4, <1>5 DEF ConnectingInv
    <3>2. CASE i = Len(pipe) + 1
      BY <3>2, <1>2, <1>4, <1>5
    <3> QED
      BY <3>1, <3>2, <1>4, <1>5
  <2> QED
    BY <2>1, <2>2, <1>6 DEF ConnectingInv
<1>13. PipeInv'
  <2> SUFFICES ASSUME client.link = "on"
               PROVE  PipeInv'
    BY DEF PipeInv
  <2>1. ~Tracking => client.gap = 0 /\ client.expect > 1
    BY DEF PipeInv
  <2>2. CASE client.expect > client.gap
    <3>1. \A i \in DOMAIN pipe' : pipe'[i].n = client.expect + i - 1
      <4> TAKE i \in DOMAIN pipe'
      <4>1. CASE i \in DOMAIN pipe
        BY <4>1, <2>2, <1>4, <1>5 DEF PipeInv
      <4>2. CASE i = Len(pipe) + 1
        BY <4>2, <2>2, <1>4, <1>5 DEF PipeInv, Missing
      <4> QED
        BY <4>1, <4>2, <1>4, <1>5
    <3>2. Len(pipe') = Missing'
      BY <2>2, <1>4, <1>6 DEF PipeInv
    <3> QED
      BY <2>1, <2>2, <3>1, <3>2, <1>5, <1>6 DEF PipeInv
  <2>3. CASE client.expect <= client.gap /\ Requested
    <3>1. \A i \in DOMAIN pipe' : pipe'[i].n > client.gap
      BY <2>3, <1>4, <1>5 DEF PipeInv
    <3> QED
      BY <2>1, <2>3, <3>1, <1>2, <1>5, <1>6 DEF PipeInv
  <2>4. CASE client.expect <= client.gap /\ ~Requested
    <3>1. Missing \in Nat /\ Len(pipe) >= Missing /\ client.gap <= store.sender
      BY <2>4, <1>5 DEF PipeInv, Missing
    <3>2. \A i \in DOMAIN pipe' : IF i <= Len(pipe') - Missing'
                                    THEN pipe'[i].n > client.gap
                                    ELSE pipe'[i].n = store'.sender - Len(pipe') + i
      <4> TAKE i \in DOMAIN pipe'
      <4>1. CASE i \in DOMAIN pipe
        <5>1. IF i <= Len(pipe) - Missing THEN pipe[i].n > client.gap
                                          ELSE pipe[i].n = store.sender - Len(pipe) + i
          BY <4>1, <2>4 DEF PipeInv
        <5>2. i \in Int /\ i \in 1..Len(pipe)
          BY <4>1, <1>5
        <5>3. pipe'[i] = pipe[i]
          BY <5>2, <1>4
        <5>4. /\ (Len(pipe) + 1) - (Missing + 1) = Len(pipe) - Missing
              /\ (store.sender + 1) - (Len(pipe) + 1) + i = store.sender - Len(pipe) + i
          BY <5>2, <3>1, <1>5
        <5> QED
          BY <5>1, <5>3, <5>4, <1>2, <1>4, <1>6
      <4>2. CASE i = Len(pipe) + 1
        BY <4>2, <3>1, <1>2, <1>4, <1>5, <1>6
      <4> QED
        BY <4>1, <4>2, <1>4, <1>5
    <3>3. client.gap <= store'.sender /\ Len(pipe') >= Missing' /\ ~(client.expect > client.gap)
      BY <2>4, <3>1, <1>2, <1>4, <1>5, <1>6
    <3> QED
      BY <2>1, <2>4, <3>2, <3>3, <1>6 DEF PipeInv
  <2> QED
    BY <2>2, <2>3, <2>4, <1>5
<1> QED
  BY <1>2, <1>4, <1>8, <1>9, <1>10, <1>11, <1>12, <1>13

LEMMA SendToTargetInv ==
    ASSUME IInv, SendToTarget
    PROVE  IInv'
<1> USE DEF IInv
<1>1. /\ state # "latent" /\ Queue("msg", 0)
      /\ UNCHANGED <<serviceType, main, state, rangeEnd, wire,
                     client, handled, interrupted>>
      /\ InSession' = InSession
  BY DEF SendToTarget, processVars, countVars, InSession
<1>2. /\ SentInv' /\ StoreInv' /\ LogonInv' /\ AskedInv' /\ InStepInv'
      /\ ResendInv' /\ AskingInv' /\ ConnectingInv' /\ PipeInv'
      /\ store' \in [sender : 0..MaxSeq, target : 0..MaxSeq, msgs : SUBSET Number]
      /\ store'.target = store.target /\ pipe' \in Seq(GatewayMessage)
  BY <1>1, QueueInv
<1>3. TypeOK' /\ LinkInv' /\ ResetInv' /\ HandledOnce'
  BY <1>1, <1>2 DEF TypeOK, LinkInv, ResetInv, HandledOnce, InOrder
<1>4. HandledInv'
  BY <1>1, <1>2 DEF HandledInv, Tracking
<1> QED
  BY <1>2, <1>3, <1>4

Store == [sender : 0..MaxSeq, target : 0..MaxSeq, msgs : SUBSET Number]

LEMMA LogonStoreType ==
    ASSUME IInv, ~InSession, wire # None
    PROVE  /\ LogonStore \in Store /\ LogonStore.sender \in Nat /\ LogonStore.target \in Nat
           /\ LogonStore.msgs = IF Tracking THEN 1..LogonStore.sender ELSE {}
           /\ Tracking /\ ~client.reset => LogonStore = store
           /\ ~Tracking \/ client.reset => LogonStore = EmptyStore
           /\ client.link = "connecting" /\ client.cursor = client.next /\ rangeEnd = 0
           /\ wire \in ClientMessage /\ wire.n \in Number /\ wire.n = client.next - 1 /\ wire.kind = "logon"
<1> USE DEF IInv
<1>1. /\ client.link = "connecting" /\ wire.kind = "logon" /\ wire.n = client.next - 1
      /\ wire.reset = client.reset /\ rangeEnd = 0 /\ client.cursor = client.next
  BY ClientType DEF LinkInv
<1>2. wire \in ClientMessage /\ wire.n \in Number
  BY DEF TypeOK, ClientMessage
<1>3. ResetStore = (~Tracking \/ client.reset)
  BY <1>1, ClientType DEF ResetStore, Tracking, TypeOK, ServiceType, MarketDataService, OrderRoutingService
<1>4. /\ Tracking /\ ~client.reset => LogonStore = store
      /\ ~Tracking \/ client.reset => LogonStore = EmptyStore
  BY <1>3, ClientType DEF LogonStore
<1>5. store \in Store /\ EmptyStore \in Store /\ EmptyStore.sender = 0 /\ EmptyStore.msgs = {}
  BY StoreType DEF TypeOK, Store, EmptyStore
<1>6. LogonStore \in Store
  BY <1>4, <1>5, ClientType
<1>7. LogonStore.sender \in Nat /\ LogonStore.target \in Nat
  BY <1>6, AcceptorAssumption DEF Store
<1>8. LogonStore.msgs = IF Tracking THEN 1..LogonStore.sender ELSE {}
  <2>1. CASE Tracking /\ ~client.reset
    BY <2>1, <1>4 DEF StoreInv
  <2>2. CASE ~Tracking \/ client.reset
    <3>1. 1..0 = {}
      OBVIOUS
    <3> QED
      BY <2>2, <3>1, <1>4, <1>5
  <2> QED
    BY <2>1, <2>2, ClientType
<1> QED
  BY <1>1, <1>2, <1>4, <1>6, <1>7, <1>8

LEMMA FromAdminInv ==
    ASSUME IInv, FromAdmin
    PROVE  IInv'
<1> USE DEF IInv
<1>1. /\ state = "latent" /\ wire # None /\ state' = "logon" /\ store' = LogonStore
      /\ UNCHANGED <<serviceType, main, rangeEnd, pipe, wire,
                     client, handled, interrupted>>
      /\ ~InSession /\ ~InSession' /\ Tracking' = Tracking
  BY DEF FromAdmin, Logon, processVars, networkVars, countVars, InSession, Tracking
<1>2. /\ LogonStore \in Store
      /\ LogonStore.msgs = IF Tracking THEN 1..LogonStore.sender ELSE {}
      /\ Tracking /\ ~client.reset => LogonStore = store
      /\ ~Tracking \/ client.reset => LogonStore = EmptyStore
      /\ client.link = "connecting"
  BY <1>1, LogonStoreType
<1>3. TypeOK'
  BY <1>1, <1>2 DEF TypeOK, Store
<1>4. LinkInv' /\ SentInv' /\ ResetInv'
  BY <1>1, <1>2 DEF LinkInv, SentInv, ResetInv, Matches
<1>5. StoreInv'
  BY <1>1, <1>2 DEF StoreInv
<1>6. LogonInv' /\ AskedInv' /\ InStepInv' /\ ResendInv' /\ AskingInv' /\ ConnectingInv' /\ PipeInv'
  BY <1>1, <1>2 DEF LogonInv, AskedInv, InStepInv, ResendInv, AskingInv, ConnectingInv, PipeInv
<1>7. HandledInv' /\ HandledOnce'
  <2>1. CASE Tracking /\ ~client.reset
    BY <2>1, <1>1, <1>2 DEF HandledInv, HandledOnce
  <2>2. CASE ~Tracking \/ client.reset
    <3>1. \A n \in DOMAIN client.sent : ~(n <= EmptyStore.target)
      BY DEF EmptyStore, TypeOK
    <3> QED
      BY <2>2, <3>1, <1>1, <1>2 DEF HandledInv, HandledOnce, ResetInv
  <2> QED
    BY <2>1, <2>2, ClientType
<1> QED
  BY <1>3, <1>4, <1>5, <1>6, <1>7

LEMMA LogonReplyInv ==
    ASSUME IInv, LogonReply
    PROVE  IInv'
<1> USE DEF IInv
<1> DEFINE st == Saved(LogonStore)
           answer == Message(st.sender, "logon", 0)
<1>1. /\ state = "logon" /\ state' = "inSession" /\ wire' = None
      /\ UNCHANGED <<serviceType, main, client, handled, interrupted>>
      /\ ~InSession /\ InSession' /\ Tracking' = Tracking
  BY DEF LogonReply, processVars, countVars, InSession, Tracking
<1>2. /\ st.sender <= MaxSeq
      /\ \/ /\ wire.n = st.target + 1 /\ store' = IncrNextTargetMsgSeqNum(st)
            /\ pipe' = <<answer>> /\ rangeEnd' = rangeEnd
         \/ /\ wire.n > st.target + 1 /\ st.sender < MaxSeq /\ store' = Saved(st)
            /\ pipe' = Append(<<answer>>, Message(st.sender + 1, "resend", st.target + 1))
            /\ rangeEnd' = wire.n - 1
  BY DEF LogonReply
<1>3. wire # None
  BY <1>1, ClientType DEF LinkInv
<1>4. /\ LogonStore \in Store /\ LogonStore.sender \in Nat /\ LogonStore.target \in Nat
      /\ LogonStore.msgs = IF Tracking THEN 1..LogonStore.sender ELSE {}
      /\ Tracking /\ ~client.reset => LogonStore = store
      /\ ~Tracking \/ client.reset => LogonStore = EmptyStore
      /\ client.link = "connecting" /\ client.cursor = client.next /\ rangeEnd = 0
      /\ wire \in ClientMessage /\ wire.n \in Number /\ wire.n = client.next - 1 /\ wire.kind = "logon"
  BY <1>1, <1>3, LogonStoreType
<1>5. LogonStore.sender < MaxSeq
  <2>1. st.sender = LogonStore.sender + 1
    BY <1>4 DEF Saved, Store
  <2> QED
    BY <2>1, <1>2, <1>4, AcceptorAssumption
<1>6. /\ st \in Store /\ st.sender = LogonStore.sender + 1 /\ st.target = LogonStore.target
      /\ st.msgs = IF Tracking THEN 1..(LogonStore.sender + 1) ELSE {}
  <2>1. (1..LogonStore.sender) \cup {LogonStore.sender + 1} = 1..(LogonStore.sender + 1)
    BY <1>4
  <2> QED
    BY <1>4, <1>5, <2>1, SavedStore DEF Store
<1>7. answer \in GatewayMessage /\ answer.n = LogonStore.sender + 1 /\ answer.kind = "logon"
  <2>1. st.sender \in Number /\ 0 \in 0..MaxSeq
    BY <1>4, <1>6, <1>2, AcceptorAssumption DEF Number
  <2> HIDE DEF st
  <2>2. answer \in GatewayMessage /\ answer.n = st.sender /\ answer.kind = "logon"
    BY <2>1, MessageType
  <2> HIDE DEF answer
  <2> QED
    BY <1>6, <2>2
<1> HIDE DEF st, answer
\* The gateway has counted the Logon, or it asks for what comes before it.
<1>8. \/ /\ store' \in Store /\ store'.sender = LogonStore.sender + 1 /\ store'.target = client.next - 1
         /\ LogonStore.target = client.next - 2 /\ store'.msgs = st.msgs
         /\ pipe' = <<answer>> /\ rangeEnd' = 0
      \/ /\ store' \in Store /\ store'.sender = LogonStore.sender + 2 /\ store'.target = LogonStore.target
         /\ store'.msgs = IF Tracking THEN 1..(LogonStore.sender + 2) ELSE {}
         /\ client.next > LogonStore.target + 2 /\ rangeEnd' = client.next - 2
         /\ rangeEnd' \in 0..MaxSeq
         /\ pipe' \in Seq(GatewayMessage) /\ Len(pipe') = 2 /\ pipe'[1] = answer
         /\ pipe'[2].n = LogonStore.sender + 2 /\ pipe'[2].kind = "resend"
         /\ pipe'[2].begin = store'.target + 1
  <2>0. client.next \in Int /\ wire.n \in 1..MaxSeq
    BY <1>4, ClientType DEF Number
  <2>1. CASE wire.n = st.target + 1 /\ store' = IncrNextTargetMsgSeqNum(st)
             /\ pipe' = <<answer>> /\ rangeEnd' = rangeEnd
    <3>1. st.target + 1 \in 0..MaxSeq
      BY <2>0, <2>1
    <3>2. /\ store' \in Store /\ store'.sender = st.sender /\ store'.target = st.target + 1
          /\ store'.msgs = st.msgs
      BY <2>1, <3>1, <1>6 DEF IncrNextTargetMsgSeqNum, Store
    <3> QED
      BY <2>0, <2>1, <3>2, <1>4, <1>6
  <2>2. CASE wire.n > st.target + 1 /\ st.sender < MaxSeq /\ store' = Saved(st)
             /\ pipe' = Append(<<answer>>, Message(st.sender + 1, "resend", st.target + 1))
             /\ rangeEnd' = wire.n - 1
    <3>0. st.sender \in Nat /\ st.target \in Nat /\ wire.n \in Nat /\ MaxSeq \in Nat /\ wire.n <= MaxSeq
      BY <2>0, <1>4, <1>6, AcceptorAssumption
    <3>1. /\ st.sender + 1 \in Number /\ st.target + 1 \in 0..MaxSeq
          /\ wire.n - 1 \in 0..MaxSeq
      BY <2>2, <3>0 DEF Number
    <3>2. /\ store' \in Store /\ store'.sender = st.sender + 1 /\ store'.target = st.target
          /\ store'.msgs = IF Tracking THEN st.msgs \cup {st.sender + 1} ELSE st.msgs
      BY <2>2, <1>6, SavedStore DEF Store
    <3>3. store'.msgs = IF Tracking THEN 1..(LogonStore.sender + 2) ELSE {}
      <4>1. (1..(LogonStore.sender + 1)) \cup {LogonStore.sender + 2} = 1..(LogonStore.sender + 2)
        BY <1>4
      <4>2. st.sender + 1 = LogonStore.sender + 2
        BY <1>4, <1>6
      <4> QED
        BY <3>2, <4>1, <4>2, <1>6
    <3> DEFINE m == Message(st.sender + 1, "resend", st.target + 1)
    <3>4. m \in GatewayMessage /\ m.n = st.sender + 1 /\ m.kind = "resend" /\ m.begin = st.target + 1
      BY <3>1, MessageType
    <3> HIDE DEF m
    <3>5. /\ pipe' \in Seq(GatewayMessage) /\ Len(pipe') = 2
          /\ pipe'[1] = answer /\ pipe'[2] = m
      <4>1. pipe' = Append(<<answer>>, m)
        BY <2>2 DEF m
      <4>2. <<answer>> \in Seq(GatewayMessage) /\ Len(<<answer>>) = 1 /\ <<answer>>[1] = answer
        BY <1>7
      <4> QED
        BY <3>4, <4>1, <4>2
    <3>6. pipe'[2].n = LogonStore.sender + 2 /\ pipe'[2].kind = "resend" /\ pipe'[2].begin = store'.target + 1
      BY <3>2, <3>4, <3>5, <1>4, <1>6
    <3>7. /\ store'.sender = LogonStore.sender + 2 /\ store'.target = LogonStore.target
          /\ client.next > LogonStore.target + 2 /\ rangeEnd' = client.next - 2
      <4>1. wire.n > st.target + 1 /\ rangeEnd' = wire.n - 1
        BY <2>2
      <4>2. /\ wire.n = client.next - 1 /\ LogonStore.sender \in Nat
            /\ st.sender = LogonStore.sender + 1 /\ st.target = LogonStore.target
        BY <1>4, <1>6
      <4> QED
        BY <2>0, <3>0, <3>2, <4>1, <4>2
    <3> QED
      BY <2>2, <3>1, <3>2, <3>3, <3>5, <3>6, <3>7
  <2> QED
    BY <2>1, <2>2, <1>2
<1>9. /\ store' \in Store /\ pipe' \in Seq(GatewayMessage) /\ rangeEnd' \in 0..MaxSeq
      /\ store'.sender >= LogonStore.sender + 1 /\ store'.sender \in Nat /\ store'.target \in Nat
      /\ store'.target >= LogonStore.target /\ store'.target < client.next
      /\ store'.msgs = IF Tracking THEN 1..store'.sender ELSE {}
  <2>1. store' \in Store /\ store'.msgs = IF Tracking THEN 1..store'.sender ELSE {}
    BY <1>6, <1>8
  <2>2. pipe' \in Seq(GatewayMessage) /\ rangeEnd' \in 0..MaxSeq
    <3>1. <<answer>> \in Seq(GatewayMessage) /\ 0 \in 0..MaxSeq
      BY <1>7, AcceptorAssumption
    <3> QED
      BY <3>1, <1>8
  <2>3. client.next \in Int /\ LogonStore.sender \in Nat /\ LogonStore.target \in Nat
    BY <1>4, ClientType
  <2>4. \/ /\ store'.sender = LogonStore.sender + 1 /\ store'.target = client.next - 1
           /\ LogonStore.target = client.next - 2
        \/ /\ store'.sender = LogonStore.sender + 2 /\ store'.target = LogonStore.target
           /\ client.next > LogonStore.target + 2
    BY <1>8
  <2>5. /\ store'.sender >= LogonStore.sender + 1 /\ store'.sender \in Nat /\ store'.target \in Nat
        /\ store'.target >= LogonStore.target /\ store'.target < client.next
    BY <2>3, <2>4
  <2> QED
    BY <2>1, <2>2, <2>5
<1>10. TypeOK'
  BY <1>1, <1>9 DEF TypeOK, Store
<1>11. LinkInv' /\ SentInv' /\ ResetInv' /\ HandledOnce'
  BY <1>1, <1>4 DEF LinkInv, SentInv, ResetInv, HandledOnce, InSession
<1>12. StoreInv' /\ (Tracking => client.expect <= LogonStore.sender + 1)
  <2>1. Tracking => client.expect <= LogonStore.sender + 1
    BY <1>4, ClientType DEF StoreInv, ResetInv
  <2>2. Tracking => client.expect <= store'.sender + 1
    BY <2>1, <1>4, <1>9, ClientType
  <2> QED
    BY <2>1, <2>2, <1>1, <1>9 DEF StoreInv
<1>13. LogonInv' /\ ResendInv' /\ PipeInv' /\ ~New' /\ ~Again' /\ client' = client
  BY <1>1, <1>4 DEF LogonInv, ResendInv, PipeInv, New, Again
<1>14. HandledInv'
  <2>1. \A n \in DOMAIN client.sent :
           n <= store'.target /\ client.sent[n] \in MsgType => handled[n] > 0
    <3> SUFFICES ASSUME NEW n \in DOMAIN client.sent, n <= store'.target, client.sent[n] \in MsgType
                 PROVE  handled[n] > 0
      OBVIOUS
    <3>0. n \in Nat /\ n >= 1 /\ client.next \in Int
      BY ClientType
    <3>1. client.sent[wire.n] = "admin"
      <4>1. Matches(wire) /\ wire.kind \notin MsgType /\ wire.n \in wire.n..wire.last
        BY <1>3, <1>4 DEF SentInv, Matches, MsgType, ClientMessage, Number
      <4> QED
        BY <4>1 DEF Matches
    <3>2. n <= LogonStore.target
      BY <3>0, <3>1, <1>4, <1>8 DEF MsgType
    <3>3. Tracking /\ ~client.reset /\ LogonStore = store
      BY <3>0, <3>2, <1>4, ClientType DEF EmptyStore
    <3> QED
      BY <3>2, <3>3 DEF HandledInv
  <2>2. \A n \in Number : Tracking /\ n > store'.target => handled[n] = 0 \/ n \in interrupted
    <3> SUFFICES ASSUME NEW n \in Number, Tracking, n > store'.target
                 PROVE  handled[n] = 0 \/ n \in interrupted
      OBVIOUS
    <3>1. CASE client.reset
      BY <3>1 DEF ResetInv
    <3>2. CASE ~client.reset
      <4>1. n > store.target
        BY <3>2, <1>4, <1>9 DEF Number
      <4> QED
        BY <4>1, <1>1 DEF HandledInv
    <3> QED
      BY <3>1, <3>2
  <2> QED
    BY <2>1, <2>2, <1>1, <1>4 DEF HandledInv
<1>15. ConnectingInv' /\ AskingInv' /\ AskedInv' /\ InStepInv'
  <2>1. CASE pipe' = <<answer>> /\ rangeEnd' = 0 /\ store'.sender = LogonStore.sender + 1
             /\ store'.target = client.next - 1
    <3>1. Len(pipe') = 1 /\ DOMAIN pipe' = {1} /\ pipe'[1] = answer /\ pipe' # <<>>
      BY <2>1
    <3>2. ConnectingInv'
      BY <2>1, <3>1, <1>1, <1>4, <1>7, <1>12 DEF ConnectingInv, EmptyStore
    <3>3. ~Asking'
      BY <3>1, <1>7 DEF Asking
    <3>4. AskingInv'
      BY <3>1, <1>7 DEF AskingInv
    <3>5. AskedInv' /\ InStepInv'
      BY <2>1, <3>3, <1>1, <1>4, <1>13, ClientType DEF AskedInv, InStepInv
    <3> QED
      BY <3>2, <3>4, <3>5
  <2>2. CASE /\ store'.sender = LogonStore.sender + 2
             /\ client.next > store'.target + 2 /\ rangeEnd' = client.next - 2
             /\ pipe' \in Seq(GatewayMessage) /\ Len(pipe') = 2 /\ pipe'[1] = answer
             /\ pipe'[2].n = LogonStore.sender + 2 /\ pipe'[2].kind = "resend"
             /\ pipe'[2].begin = store'.target + 1
    <3>1. DOMAIN pipe' = {1, 2} /\ pipe' # <<>>
      <4>1. pipe' \in Seq(GatewayMessage) /\ Len(pipe') = 2
        BY <2>2
      <4>2. DOMAIN pipe' = 1..2
        BY <4>1
      <4> QED
        BY <4>1, <4>2
    <3>2. ConnectingInv'
      BY <2>2, <3>1, <1>1, <1>4, <1>7, <1>12 DEF ConnectingInv, EmptyStore
    <3>3. Asking'
      BY <2>2, <3>1 DEF Asking
    <3>4. AskingInv'
      BY <2>2, <3>1, <1>1, <1>4, <1>7 DEF AskingInv
    <3>5. AskedInv' /\ InStepInv'
      <4>1. rangeEnd' # 0 /\ rangeEnd' > store'.target /\ rangeEnd' <= client.next - 2
        BY <2>2, <1>9, ClientType
      <4> QED
        BY <4>1, <3>3, <1>1, <1>4, <1>13 DEF AskedInv, InStepInv
    <3> QED
      BY <3>2, <3>4, <3>5
  <2> QED
    BY <2>1, <2>2, <1>8
<1> QED
  BY <1>10, <1>11, <1>12, <1>13, <1>14, <1>15
-----------------------------------------------------------------------------
(***************************************************************************)
(* A message of the client is handled.                                     *)
(***************************************************************************)

\* What a step keeps that goes on with the message in hand.
LEMMA HandlerFrame ==
    ASSUME IInv, InSession' = InSession,
           UNCHANGED <<serviceType, store, rangeEnd, pipe, wire, client>>
    PROVE  /\ SentInv' /\ StoreInv' /\ LogonInv' /\ AskedInv' /\ InStepInv'
           /\ ResendInv' /\ AskingInv' /\ ConnectingInv' /\ PipeInv'
<1> USE DEF IInv
<1>1. /\ Tracking' = Tracking /\ New' = New /\ Again' = Again
      /\ Asking' = Asking /\ Missing' = Missing /\ Requested' = Requested
      /\ InOrder' = InOrder
  BY DEF Tracking, New, Again, Asking, Missing, Requested, InOrder
<1>2. SentInv' /\ StoreInv' /\ LogonInv'
  BY <1>1 DEF SentInv, StoreInv, LogonInv, Matches
<1>3. AskedInv' /\ InStepInv' /\ ResendInv'
  BY <1>1 DEF AskedInv, InStepInv, ResendInv
<1>4. AskingInv' /\ ConnectingInv' /\ PipeInv'
  BY <1>1 DEF AskingInv, ConnectingInv, PipeInv
<1> QED
  BY <1>2, <1>3, <1>4

LEMMA FromAppInv ==
    ASSUME IInv, FromApp
    PROVE  IInv'
<1> USE DEF IInv
<1>1. /\ state = "inSession" /\ wire # None /\ wire.kind \in MsgType /\ InOrder
      /\ state' = "app"
      /\ UNCHANGED <<serviceType, main, store, rangeEnd, pipe, wire, client, handled, interrupted>>
      /\ InSession /\ InSession'
  BY DEF FromApp, Arrived, processVars, networkVars, countVars, InSession
<1>2. /\ SentInv' /\ StoreInv' /\ LogonInv' /\ AskedInv' /\ InStepInv'
      /\ ResendInv' /\ AskingInv' /\ ConnectingInv' /\ PipeInv'
  BY <1>1, HandlerFrame
<1>3. TypeOK'
  BY <1>1 DEF TypeOK
<1>4. LinkInv' /\ ResetInv' /\ HandledOnce'
  BY <1>1, ClientType DEF LinkInv, ResetInv, HandledOnce, InOrder
<1>5. HandledInv'
  BY <1>1 DEF HandledInv, Tracking
<1> QED
  BY <1>2, <1>3, <1>4, <1>5

LEMMA RouteInv ==
    ASSUME IInv, Route
    PROVE  IInv'
<1> USE DEF IInv
<1>1. /\ state = "app" /\ state' = "routed" /\ handled' = [handled EXCEPT ![wire.n] = @ + 1]
      /\ UNCHANGED <<serviceType, main, rangeEnd, wire, client, interrupted>>
      /\ InSession /\ InSession' /\ Tracking' = Tracking
  BY DEF Route, processVars, InSession, Tracking
<1>2. /\ wire \in ClientMessage /\ wire # None /\ wire.kind \in MsgType /\ InOrder
      /\ wire.n \in Number /\ client.link = "on" /\ ~client.reset
  BY <1>1, ClientType DEF LinkInv, TypeOK, ClientMessage
<1>3. /\ handled' \in [Number -> Nat] /\ handled'[wire.n] = handled[wire.n] + 1
      /\ \A n \in Number : n # wire.n => handled'[n] = handled[n]
      /\ \A n \in Number : handled[n] \in Nat /\ handled'[n] \in Nat
  BY <1>1, <1>2 DEF TypeOK
<1>4. UNCHANGED <<store, pipe>> \/ Queue("msg", 0)
  BY DEF Route
<1>5. /\ SentInv' /\ StoreInv' /\ LogonInv' /\ AskedInv' /\ InStepInv'
      /\ ResendInv' /\ AskingInv' /\ ConnectingInv' /\ PipeInv'
      /\ store' \in Store /\ store'.target = store.target /\ pipe' \in Seq(GatewayMessage)
  <2>1. CASE UNCHANGED <<store, pipe>>
    BY <2>1, <1>1, HandlerFrame DEF TypeOK, Store
  <2>2. CASE Queue("msg", 0)
    BY <2>2, <1>1, QueueInv DEF Store
  <2> QED
    BY <2>1, <2>2, <1>4
<1>6. TypeOK'
  BY <1>1, <1>2, <1>3, <1>4, <1>5 DEF TypeOK, Store
<1>7. LinkInv' /\ ResetInv'
  BY <1>1, <1>2, <1>5 DEF LinkInv, ResetInv, InOrder
<1>8. wire.n > store.target
  BY <1>2, StoreType DEF InOrder
<1>9. HandledOnce'
  <2>1. handled[wire.n] = 0 \/ wire.n \in interrupted
    BY <1>1, <1>2, <1>8 DEF HandledInv
  <2> QED
    BY <2>1, <1>1, <1>2, <1>3 DEF HandledOnce
<1>10. HandledInv'
  <2>1. Tracking \/ client.expect > 1
    BY <1>2 DEF PipeInv
  <2>2. \A n \in Number : n > store.target =>
            handled'[n] = 0 \/ n \in interrupted \/ wire.n = n
    BY <1>1, <1>2, <1>3 DEF HandledInv
  <2>3. handled'[wire.n] > 0
    BY <1>2, <1>3
  <2>4. \A n \in DOMAIN client.sent :
            n <= store.target /\ client.sent[n] \in MsgType => handled'[n] > 0
    <3> SUFFICES ASSUME NEW n \in DOMAIN client.sent, n <= store.target, client.sent[n] \in MsgType
                 PROVE  handled'[n] > 0
      OBVIOUS
    <3>1. n \in Number
      BY ClientType, StoreType, AcceptorAssumption DEF Number
    <3>2. handled[n] > 0
      BY <1>1 DEF HandledInv
    <3> QED
      BY <3>1, <3>2, <1>2, <1>3
  <2> QED
    BY <2>1, <2>2, <2>3, <2>4, <1>1, <1>5, ClientType DEF HandledInv
<1> QED
  BY <1>5, <1>6, <1>7, <1>9, <1>10

LEMMA WireType ==
    ASSUME TypeOK, NEW w \in ClientMessage
    PROVE  /\ w # None /\ w.n \in Nat /\ w.last \in Nat /\ w.n \in Number /\ w.last \in Number
           /\ w.begin \in Nat /\ w.possDup \in BOOLEAN /\ w.reset \in BOOLEAN
BY AcceptorAssumption DEF ClientMessage, Number

\* A message that is in order is counted.
LEMMA CountInv ==
    ASSUME IInv, Count, wire # None, InOrder, InSession, state' = "inSession",
           \/ state = "routed" /\ wire.kind \in MsgType
           \/ state = "inSession" /\ wire.kind = "admin",
           UNCHANGED <<serviceType, main, pipe, client,
                       handled, interrupted>>
    PROVE  IInv'
<1> USE DEF IInv
<1>1. /\ store' = [store EXCEPT !.target = wire.last]
      /\ rangeEnd' = IF rangeEnd > wire.last THEN rangeEnd ELSE 0
      /\ wire' = None
  BY DEF Count
<1>2. /\ wire \in ClientMessage /\ wire.n \in Nat /\ wire.last \in Nat /\ wire.last \in Number
      /\ client.link = "on" /\ ~client.reset /\ wire.kind # "resend" /\ wire.kind # "logon"
      /\ wire.n <= wire.last /\ wire.last < client.next /\ Matches(wire)
      /\ wire.n = store.target + 1
  <2>1. wire \in ClientMessage /\ wire.n \in Nat /\ wire.last \in Nat /\ wire.last \in Number
    BY WireType DEF TypeOK
  <2>2. client.link = "on" /\ ~client.reset /\ wire.kind # "resend" /\ wire.kind # "logon"
    BY ClientType DEF LinkInv, MsgType
  <2> QED
    BY <2>1, <2>2 DEF SentInv, Matches, InOrder
<1>3. /\ store' \in Store /\ store'.target = wire.last /\ store'.sender = store.sender
      /\ store'.msgs = store.msgs
  <2>1. store \in Store /\ wire.last \in 0..MaxSeq
    BY <1>2 DEF TypeOK, Store, Number
  <2>2. store' = [store EXCEPT !.target = wire.last]
    BY <1>1
  <2> QED
    BY <2>1, <2>2 DEF Store
<1>4. /\ rangeEnd \in Nat /\ store.target \in Nat /\ client.next \in Nat /\ client.cursor \in Nat
      /\ InSession' /\ Tracking' = Tracking
  BY StoreType, ClientType, AcceptorAssumption DEF TypeOK, InSession, Tracking
<1>5. rangeEnd' \in 0..MaxSeq
  BY <1>1, AcceptorAssumption DEF TypeOK
<1>6. ~New' /\ ~Again'
  BY <1>1 DEF New, Again
<1>7. /\ ~Asking /\ ~Asking' /\ (rangeEnd # 0 => Again)
      /\ (New \/ Again) /\ ~(New /\ Again)
  <2>1. (New \/ Again) /\ ~(New /\ Again)
    BY <1>2, WireType DEF New, Again
  <2>2. rangeEnd # 0 => Again /\ ~Asking
    BY <2>1, <1>2, <1>4 DEF AskedInv
  <2>3. rangeEnd = 0 => ~Asking
    BY DEF InStepInv
  <2>4. Asking' = Asking
    BY DEF Asking
  <2> QED
    BY <2>1, <2>2, <2>3, <2>4
<1>8. TypeOK'
  BY <1>1, <1>3, <1>5 DEF TypeOK, Store
<1>9. LinkInv' /\ ResetInv' /\ HandledOnce'
  BY <1>2, <1>4 DEF LinkInv, ResetInv, HandledOnce
<1>10. SentInv'
  BY <1>1 DEF SentInv
<1>11. StoreInv'
  BY <1>2, <1>3, <1>4 DEF StoreInv
<1>12. LogonInv' /\ ResendInv' /\ ~Requested /\ ~Requested'
  BY <1>1, <1>2 DEF LogonInv, ResendInv, Requested
<1>13. AskingInv' /\ ConnectingInv'
  BY <1>2, <1>7 DEF AskingInv, ConnectingInv, Asking
<1>14. PipeInv'
  BY <1>3, <1>4, <1>12 DEF PipeInv, Missing
<1>15. HandledInv'
  <2>1. \A n \in Number : n > wire.last => handled[n] = 0 \/ n \in interrupted
    BY <1>2, <1>4 DEF HandledInv, Number
  <2>2. \A n \in DOMAIN client.sent :
           n <= wire.last /\ client.sent[n] \in MsgType => handled[n] > 0
    <3> SUFFICES ASSUME NEW n \in DOMAIN client.sent, n <= wire.last, client.sent[n] \in MsgType
                 PROVE  handled[n] > 0
      OBVIOUS
    <3>0. n \in Nat
      BY ClientType
    <3>1. CASE n <= store.target
      BY <3>1 DEF HandledInv
    <3>2. CASE n > store.target
      <4>1. n \in wire.n..wire.last
        BY <3>0, <3>2, <1>2, <1>4
      <4>2. wire.kind \in MsgType
        BY <4>1, <1>2 DEF Matches, MsgType
      <4>3. n = wire.n /\ state = "routed"
        BY <4>1, <4>2, <1>2 DEF Matches, MsgType
      <4> QED
        BY <4>3 DEF HandledInv
    <3> QED
      BY <3>0, <3>1, <3>2, <1>4
  <2> QED
    BY <2>1, <2>2, <1>2, <1>3, <1>4 DEF HandledInv
<1>16. AskedInv' /\ InStepInv'
  <2>1. client.cursor = wire.last + 1
    BY <1>7 DEF AskedInv, InStepInv
  <2>2. CASE rangeEnd > wire.last
    <3>1. rangeEnd' = rangeEnd /\ rangeEnd # 0 /\ rangeEnd <= client.next - 2
      BY <2>2, <1>1, <1>2, <1>4 DEF AskedInv
    <3> QED
      BY <2>1, <2>2, <3>1, <1>3, <1>6, <1>7 DEF AskedInv, InStepInv
  <2>3. CASE ~(rangeEnd > wire.last)
    BY <2>1, <2>3, <1>1, <1>3, <1>7 DEF AskedInv, InStepInv
  <2> QED
    BY <2>2, <2>3
<1> QED
  BY <1>8, <1>9, <1>10, <1>11, <1>12, <1>13, <1>14, <1>15, <1>16

LEMMA AppCountedInv ==
    ASSUME IInv, AppCounted
    PROVE  IInv'
<1>1. wire # None /\ wire.kind \in MsgType /\ InOrder /\ InSession
  BY DEF IInv, AppCounted, LinkInv, InSession
<1> QED
  BY <1>1, CountInv DEF AppCounted, processVars, countVars

LEMMA AdminCountedInv ==
    ASSUME IInv, AdminCounted
    PROVE  IInv'
BY CountInv DEF AdminCounted, Arrived, InSession, processVars, countVars

LEMMA TooHighInv ==
    ASSUME IInv, TooHigh
    PROVE  IInv'
<1> USE DEF IInv
<1>1. /\ state = "inSession" /\ wire # None /\ wire.kind # "resend" /\ wire.n > store.target + 1
      /\ wire' = None
      /\ UNCHANGED <<serviceType, main, store, state, rangeEnd, pipe, client, handled, interrupted>>
      /\ InSession /\ InSession' /\ Tracking' = Tracking
  BY DEF TooHigh, Arrived, processVars, gatewayVars, countVars, InSession, Tracking
<1>2. /\ wire \in ClientMessage /\ wire.n \in Nat /\ wire.last \in Nat /\ client.link = "on"
      /\ store.target \in Nat /\ client.next \in Nat /\ client.cursor \in Nat /\ rangeEnd \in Nat
      /\ (New \/ Again) /\ ~(New /\ Again) /\ ~New' /\ ~Again' /\ Asking' = Asking
      /\ ~Requested /\ ~Requested' /\ Matches(wire)
  <2>1. wire \in ClientMessage /\ client.link = "on" /\ Matches(wire)
    BY <1>1, ClientType DEF TypeOK, LinkInv, SentInv
  <2>2. wire.n \in Nat /\ wire.last \in Nat
    BY <2>1, WireType
  <2>3. store.target \in Nat /\ client.next \in Nat /\ client.cursor \in Nat /\ rangeEnd \in Nat
    BY ClientType, StoreType, AcceptorAssumption DEF TypeOK
  <2>4. /\ (New \/ Again) /\ ~(New /\ Again) /\ ~New' /\ ~Again' /\ Asking' = Asking
        /\ ~Requested /\ ~Requested'
    BY <1>1 DEF New, Again, Asking, Requested
  <2> QED
    BY <2>1, <2>2, <2>3, <2>4
\* The gateway has asked for what is missing, and the message is new.
<1>3. rangeEnd # 0 /\ New /\ ~Again /\ wire.n = client.next - 1 /\ wire.n > rangeEnd + 1
  <2>1. rangeEnd # 0
    BY <1>1, <1>2 DEF InStepInv, InOrder
  <2>2. ~Again
    BY <2>1, <1>1, <1>2 DEF AskedInv
  <2> QED
    BY <2>1, <2>2, <1>1, <1>2 DEF AskedInv
<1>4. TypeOK' /\ LinkInv' /\ ResetInv' /\ StoreInv'
  BY <1>1, <1>2 DEF TypeOK, LinkInv, ResetInv, StoreInv
<1>5. SentInv'
  BY <1>1, <1>2 DEF SentInv, Matches
<1>6. LogonInv' /\ ResendInv' /\ AskingInv' /\ ConnectingInv' /\ InStepInv'
  BY <1>1, <1>2, <1>3 DEF LogonInv, ResendInv, AskingInv, ConnectingInv, InStepInv, New
<1>7. AskedInv'
  BY <1>1, <1>2, <1>3 DEF AskedInv
<1>8. PipeInv'
  BY <1>1, <1>2 DEF PipeInv, Missing
<1>9. HandledInv' /\ HandledOnce'
  BY <1>1 DEF HandledInv, HandledOnce
<1> QED
  BY <1>4, <1>5, <1>6, <1>7, <1>8, <1>9

\* A file store gives back every message from a number on.
LEMMA GetMessagesAll ==
    ASSUME TypeOK, Tracking, store.msgs = 1..store.sender, NEW begin \in Number, begin <= store.sender
    PROVE  /\ GetMessages(begin) \in Seq(Number) /\ Len(GetMessages(begin)) = store.sender + 1 - begin
           /\ \A i \in 1..(store.sender + 1 - begin) : GetMessages(begin)[i] = begin + i - 1
<1> DEFINE kept == {n \in begin..store.sender : n \in store.msgs}
           len == store.sender + 1 - begin
<1>1. begin \in Nat /\ begin >= 1 /\ store.sender \in Nat /\ store.sender <= MaxSeq
  BY StoreType DEF Number
<1>2. kept = begin..store.sender
  BY <1>1
<1>3. Cardinality(kept) = len /\ len \in Nat
  <2>1. len \in Nat /\ ~(begin > store.sender) /\ store.sender - begin + 1 = len
    BY <1>1
  <2>2. Cardinality(begin..store.sender) = IF begin > store.sender THEN 0 ELSE store.sender - begin + 1
    BY <1>1, FS_Interval
  <2> QED
    BY <2>1, <2>2, <1>2
<1>4. \A n \in kept : Cardinality({k \in kept : k <= n}) = n - begin + 1
  <2> SUFFICES ASSUME NEW n \in kept
               PROVE  Cardinality({k \in kept : k <= n}) = n - begin + 1
    OBVIOUS
  <2>1. {k \in kept : k <= n} = begin..n
    BY <1>1, <1>2
  <2>2. Cardinality(begin..n) = n - begin + 1
    BY <1>1, <1>2, FS_Interval
  <2> QED
    BY <2>1, <2>2
<1>5. GetMessages(begin) =
        [i \in 1..len |-> CHOOSE n \in kept : Cardinality({k \in kept : k <= n}) = i]
  BY <1>3 DEF GetMessages
<1>6. \A i \in 1..len : (CHOOSE n \in kept : Cardinality({k \in kept : k <= n}) = i) = begin + i - 1
  <2> SUFFICES ASSUME NEW i \in 1..len
               PROVE  (CHOOSE n \in kept : Cardinality({k \in kept : k <= n}) = i) = begin + i - 1
    OBVIOUS
  <2>1. begin + i - 1 \in kept /\ (begin + i - 1) - begin + 1 = i
    BY <1>1, <1>2, <1>3
  <2>2. Cardinality({k \in kept : k <= begin + i - 1}) = i
    BY <2>1, <1>4
  <2>3. \A n \in kept : Cardinality({k \in kept : k <= n}) = i => n = begin + i - 1
    BY <1>1, <1>2, <1>4
  <2> HIDE DEF kept
  <2> QED
    BY <2>1, <2>2, <2>3
<1> HIDE DEF kept
<1>7. \A i \in 1..len : GetMessages(begin)[i] = begin + i - 1
  BY <1>5, <1>6
<1>8. \A i \in 1..len : begin + i - 1 \in Number
  BY <1>1, <1>3, AcceptorAssumption DEF Number
<1>9. GetMessages(begin) = [i \in 1..len |-> begin + i - 1]
  BY <1>5, <1>6
<1>10. GetMessages(begin) \in Seq(Number) /\ Len(GetMessages(begin)) = len
  BY <1>3, <1>8, <1>9
<1> QED
  BY <1>7, <1>10

LEMMA ResendRequestInv ==
    ASSUME IInv, ResendRequest
    PROVE  IInv'
<1> USE DEF IInv
<1> DEFINE again == GetMessages(wire.begin)
           Copy(n) == [Message(n, "msg", 0) EXCEPT !.possDup = TRUE]
           repeat == [i \in 1..Len(again) |-> Copy(again[i])]
<1>1. /\ state = "inSession" /\ wire # None /\ wire.kind = "resend" /\ wire' = None
      /\ pipe' = pipe \o repeat
      /\ store' = IF InOrder THEN IncrNextTargetMsgSeqNum(store) ELSE store
      /\ UNCHANGED <<serviceType, main, state, rangeEnd, client, handled, interrupted>>
      /\ InSession /\ InSession' /\ Tracking' = Tracking
  BY DEF ResendRequest, Arrived, processVars, countVars, InSession, Tracking
<1>2. /\ wire \in ClientMessage /\ client.link = "on" /\ Matches(wire) /\ Tracking
      /\ client.expect <= client.gap /\ wire.begin = client.expect /\ New /\ ~Again
      /\ client.gap <= store.sender /\ \A i \in DOMAIN pipe : pipe[i].n > client.gap
      /\ store.msgs = 1..store.sender /\ Requested /\ ~Requested' /\ ~New' /\ ~Again'
  BY <1>1, ClientType DEF TypeOK, LinkInv, SentInv, ResendInv, New, Again, PipeInv, Requested, StoreInv
<1>3. /\ wire.n \in Number /\ wire.n \in Nat /\ wire.last \in Nat /\ wire.last < client.next
      /\ wire.n < client.next
  BY <1>2, WireType, ClientType DEF Matches
<1>4. /\ store.target \in Nat /\ store.sender \in Nat /\ client.next \in Nat /\ client.cursor \in Nat
      /\ client.expect \in Nat /\ client.gap \in Nat /\ rangeEnd \in Nat /\ Len(pipe) \in Nat
      /\ DOMAIN pipe = 1..Len(pipe) /\ pipe \in Seq(GatewayMessage) /\ client.expect \in Number
      /\ Missing \in Nat
  <2>1. /\ store.target \in Nat /\ store.sender \in Nat /\ client.next \in Nat /\ client.cursor \in Nat
        /\ client.expect \in Nat /\ client.gap \in Nat /\ rangeEnd \in Nat
    BY ClientType, StoreType, AcceptorAssumption DEF TypeOK
  <2>2. client.expect \in Number /\ Missing \in Nat
    BY <2>1, <1>2, ClientType, StoreType, AcceptorAssumption DEF Number, Missing
  <2> QED
    BY <2>1, <2>2, PipeType
<1>5. /\ again \in Seq(Number) /\ Len(again) = Missing
      /\ \A i \in 1..Missing : again[i] = client.expect + i - 1
  <2>1. client.expect <= store.sender
    BY <1>2, <1>4
  <2> QED
    BY <2>1, <1>2, <1>4, GetMessagesAll DEF Missing
<1>6. /\ repeat \in Seq(GatewayMessage) /\ Len(repeat) = Missing
      /\ \A i \in 1..Missing : repeat[i].n = client.expect + i - 1 /\ repeat[i].kind = "msg"
  <2>1. \A i \in 1..Missing : again[i] \in Number
    BY <1>4, <1>5
  <2>2. \A n \in Number : Copy(n) \in GatewayMessage /\ Copy(n).n = n /\ Copy(n).kind = "msg"
    <3> TAKE n \in Number
    <3>1. 0 \in 0..MaxSeq
      BY AcceptorAssumption
    <3>2. /\ Message(n, "msg", 0) \in GatewayMessage
          /\ Message(n, "msg", 0).n = n /\ Message(n, "msg", 0).kind = "msg"
      BY <3>1, MessageType
    <3>3. \A m \in GatewayMessage :
             LET c == [m EXCEPT !.possDup = TRUE] IN c \in GatewayMessage /\ c.n = m.n /\ c.kind = m.kind
      BY DEF GatewayMessage
    <3> QED
      BY <3>2, <3>3
  <2> HIDE DEF Copy, again
  <2>3. \A i \in 1..Missing : /\ repeat[i] \in GatewayMessage /\ repeat[i].n = again[i]
                              /\ repeat[i].kind = "msg"
    BY <2>1, <2>2, <1>5
  <2>4. repeat \in Seq(GatewayMessage) /\ Len(repeat) = Missing
    BY <2>3, <1>4, <1>5
  <2> QED
    BY <2>3, <2>4, <1>5
<1> HIDE DEF again, repeat
<1>7. /\ pipe' \in Seq(GatewayMessage) /\ Len(pipe') = Len(pipe) + Missing
      /\ DOMAIN pipe' = 1..(Len(pipe) + Missing)
      /\ \A i \in 1..Len(pipe) : pipe'[i] = pipe[i]
      /\ \A i \in 1..(Len(pipe) + Missing) : i > Len(pipe) =>
            pipe'[i].n = client.expect + (i - Len(pipe)) - 1 /\ pipe'[i].kind = "msg"
  <2>0. pipe' = pipe \o repeat /\ pipe \in Seq(GatewayMessage) /\ repeat \in Seq(GatewayMessage)
    BY <1>1, <1>4, <1>6
  <2>1. /\ pipe' \in Seq(GatewayMessage) /\ Len(pipe') = Len(pipe) + Missing
        /\ \A i \in 1..(Len(pipe) + Missing) :
              pipe'[i] = IF i <= Len(pipe) THEN pipe[i] ELSE repeat[i - Len(pipe)]
    <3>1. pipe' \in Seq(GatewayMessage)
      BY <2>0
    <3>2. Len(pipe') = Len(pipe) + Len(repeat)
      BY <2>0
    <3>3. \A i \in 1..(Len(pipe) + Len(repeat)) :
             pipe'[i] = IF i <= Len(pipe) THEN pipe[i] ELSE repeat[i - Len(pipe)]
      BY <2>0
    <3> QED
      BY <3>1, <3>2, <3>3, <1>6
  <2>2. \A i \in 1..(Len(pipe) + Missing) : i > Len(pipe) =>
            i - Len(pipe) \in 1..Missing /\ ~(i <= Len(pipe))
    BY <1>4
  <2>3. \A i \in 1..Len(pipe) : i \in 1..(Len(pipe) + Missing) /\ i <= Len(pipe)
    BY <1>4
  <2>4. DOMAIN pipe' = 1..(Len(pipe) + Missing)
    BY <2>1
  <2>5. \A i \in 1..Len(pipe) : pipe'[i] = pipe[i]
    BY <2>1, <2>3
  <2>6. \A i \in 1..(Len(pipe) + Missing) : i > Len(pipe) =>
            pipe'[i].n = client.expect + (i - Len(pipe)) - 1 /\ pipe'[i].kind = "msg"
    <3> SUFFICES ASSUME NEW i \in 1..(Len(pipe) + Missing), i > Len(pipe)
                 PROVE  pipe'[i].n = client.expect + (i - Len(pipe)) - 1 /\ pipe'[i].kind = "msg"
      OBVIOUS
    <3>1. i - Len(pipe) \in 1..Missing /\ pipe'[i] = repeat[i - Len(pipe)]
      BY <2>1, <2>2
    <3> QED
      BY <3>1, <1>6
  <2> QED
    BY <2>1, <2>4, <2>5, <2>6
<1>8. /\ \A i \in DOMAIN pipe' : pipe'[i].kind = "resend" => i \in DOMAIN pipe /\ pipe'[i] = pipe[i]
      /\ Asking' = Asking
  <2>1. \A i \in DOMAIN pipe' : pipe'[i].kind = "resend" => i \in DOMAIN pipe /\ pipe'[i] = pipe[i]
    <3> SUFFICES ASSUME NEW i \in DOMAIN pipe', pipe'[i].kind = "resend"
                 PROVE  i \in DOMAIN pipe /\ pipe'[i] = pipe[i]
      OBVIOUS
    <3>1. i \in 1..(Len(pipe) + Missing) /\ i \in Nat
      BY <1>4, <1>7
    <3>2. i <= Len(pipe)
      BY <3>1, <1>4, <1>7
    <3> QED
      BY <3>1, <3>2, <1>4, <1>7
  <2>2. \A i \in DOMAIN pipe : i \in DOMAIN pipe' /\ pipe'[i] = pipe[i]
    BY <1>4, <1>7
  <2> QED
    BY <2>1, <2>2 DEF Asking
\* The request is in order unless the gateway waits for messages itself.
<1>9. \/ rangeEnd # 0 /\ store' = store
      \/ /\ rangeEnd = 0 /\ store' \in Store /\ store'.target = wire.n
         /\ store'.sender = store.sender /\ store'.msgs = store.msgs
         /\ wire.n = store.target + 1 /\ client.cursor = wire.n + 1 /\ ~Asking
  <2>1. CASE rangeEnd # 0
    <3>1. ~InOrder
      BY <2>1, <1>1, <1>2, <1>3, <1>4 DEF AskedInv, InOrder
    <3> QED
      BY <2>1, <3>1, <1>1
  <2>2. CASE rangeEnd = 0
    <3>1. InOrder /\ client.cursor = wire.n + 1 /\ ~Asking
      BY <2>2, <1>1 DEF InStepInv, ResendInv
    <3>3. store \in Store /\ store.target + 1 \in 0..MaxSeq /\ store.target + 1 = wire.n
      BY <3>1, <1>3, <1>4 DEF InOrder, TypeOK, Store, Number
    <3>4. store' = [store EXCEPT !.target = store.target + 1]
      BY <3>1, <1>1 DEF IncrNextTargetMsgSeqNum
    <3>5. /\ store' \in Store /\ store'.target = wire.n
          /\ store'.sender = store.sender /\ store'.msgs = store.msgs
      BY <3>3, <3>4 DEF Store
    <3> QED
      BY <2>2, <3>1, <3>3, <3>5
  <2> QED
    BY <2>1, <2>2
<1>10. /\ store' \in Store /\ store'.sender = store.sender /\ store'.msgs = store.msgs
       /\ store'.target >= store.target /\ store'.target < client.next /\ store'.target \in Nat
  <2>1. store \in Store /\ store.target < client.next
    BY <1>1 DEF TypeOK, Store, StoreInv
  <2> QED
    BY <2>1, <1>3, <1>4, <1>9
<1>11. TypeOK'
  BY <1>1, <1>7, <1>10 DEF TypeOK, Store
<1>12. LinkInv' /\ SentInv' /\ ResetInv' /\ HandledOnce'
  BY <1>1, <1>2 DEF LinkInv, SentInv, ResetInv, HandledOnce, Matches
<1>13. StoreInv' /\ LogonInv' /\ ResendInv' /\ ConnectingInv'
  BY <1>1, <1>2, <1>10 DEF StoreInv, LogonInv, ResendInv, ConnectingInv
<1>14. AskedInv' /\ InStepInv'
  BY <1>1, <1>2, <1>8, <1>9 DEF AskedInv, InStepInv
<1>15. AskingInv'
  BY <1>1, <1>8, <1>9 DEF AskingInv, Asking
<1>16. PipeInv'
  <2>1. Missing' = Missing
    BY <1>1, <1>10 DEF Missing
  <2>2. \A i \in DOMAIN pipe' : IF i <= Len(pipe') - Missing
                                  THEN pipe'[i].n > client.gap
                                  ELSE pipe'[i].n = store.sender - Len(pipe') + i
    <3> TAKE i \in DOMAIN pipe'
    <3>1. i \in Nat /\ Len(pipe') - Missing = Len(pipe)
      BY <1>4, <1>7
    <3>2. CASE i <= Len(pipe)
      BY <3>1, <3>2, <1>2, <1>4, <1>7
    <3>3. CASE i > Len(pipe)
      <4>1. pipe'[i].n = client.expect + (i - Len(pipe)) - 1
        BY <3>3, <1>7
      <4>2. store.sender - (Len(pipe) + Missing) + i = client.expect + (i - Len(pipe)) - 1
        <5>1. store.sender = Missing + client.expect - 1
          <6>1. store.sender \in Nat /\ client.expect \in Nat
            BY <1>4
          <6> QED
            BY <6>1 DEF Missing
        <5> QED
          BY <3>1, <5>1, <1>4
      <4> QED
        BY <3>1, <3>3, <4>1, <4>2, <1>7, <1>4
    <3> QED
      BY <3>1, <3>2, <3>3, <1>4
  <2>3. Len(pipe') >= Missing
    BY <1>4, <1>7
  <2>4. ~(client.expect > client.gap)
    BY <1>2, <1>4
  <2> QED
    BY <2>1, <2>2, <2>3, <2>4, <1>1, <1>2, <1>10 DEF PipeInv
<1>17. HandledInv'
  <2>1. \A n \in Number : n > store'.target => handled[n] = 0 \/ n \in interrupted
    BY <1>1, <1>2, <1>4, <1>10 DEF HandledInv, Number
  <2>2. client.sent[wire.n] = "admin"
    <3>1. wire.kind \notin MsgType /\ wire.n \in wire.n..wire.last
      BY <1>1, <1>2, <1>3 DEF Matches, MsgType
    <3> QED
      BY <3>1, <1>2 DEF Matches
  <2>3. \A n \in DOMAIN client.sent :
           n <= store'.target /\ client.sent[n] \in MsgType => handled[n] > 0
    <3> SUFFICES ASSUME NEW n \in DOMAIN client.sent, n <= store'.target, client.sent[n] \in MsgType
                 PROVE  handled[n] > 0
      OBVIOUS
    <3>1. n \in Nat /\ n # wire.n
      BY <2>2, ClientType DEF MsgType
    <3>2. n <= store.target
      BY <3>1, <1>3, <1>4, <1>9
    <3> QED
      BY <3>2, <1>1 DEF HandledInv
  <2> QED
    BY <2>1, <2>3, <1>1, <1>2 DEF HandledInv
<1> QED
  BY <1>11, <1>12, <1>13, <1>14, <1>15, <1>16, <1>17
-----------------------------------------------------------------------------
(***************************************************************************)
(* The client sends.                                                       *)
(***************************************************************************)

\* What Transmit puts on the wire, and what the client remembers of it.
Transmits(c, kind, begin) ==
    /\ wire = None /\ c.next \in Number
    /\ wire' \in ClientMessage /\ wire' # None /\ wire'.n = c.next /\ wire'.last = c.next
    /\ wire'.kind = kind /\ wire'.begin = begin /\ wire'.reset = c.reset /\ wire'.possDup = FALSE
    /\ client' \in ClientState /\ client'.link = c.link /\ client'.expect = c.expect
    /\ client'.gap = c.gap /\ client'.reset = c.reset
    /\ client'.next = c.next + 1 /\ client'.cursor = client'.next
    /\ Len(client'.sent) = c.next /\ DOMAIN client'.sent = 1..c.next
    /\ \A k \in 1..(c.next - 1) : client'.sent[k] = c.sent[k]
    /\ client'.sent[c.next] = IF kind \in MsgType THEN kind ELSE "admin"

LEMMA Transmitted ==
    ASSUME TypeOK, NEW c \in ClientState, NEW kind \in {"logon", "admin", "resend"} \cup MsgType,
           NEW begin \in 0..MaxSeq, Transmit(c, kind, begin), Len(c.sent) = c.next - 1, c.cursor = c.next
    PROVE  Transmits(c, kind, begin)
<1> DEFINE type == IF kind \in MsgType THEN kind ELSE "admin"
           sent == Append(c.sent, type)
<1>1. /\ wire = None /\ c.next <= MaxSeq
      /\ wire' = [n |-> c.next, last |-> c.next, kind |-> kind, begin |-> begin,
                  reset |-> c.reset, possDup |-> FALSE]
      /\ client' = [c EXCEPT !.next = @ + 1, !.cursor = @ + 1, !.sent = sent]
  BY DEF Transmit, ClientState
<1>2. /\ c.next \in Number /\ c.next + 1 \in 1..(MaxSeq + 1) /\ c.reset \in BOOLEAN /\ c.next \in Nat
      /\ c.sent \in Seq(MsgType \cup {"admin"})
  BY <1>1, AcceptorAssumption DEF ClientState, Number
<1>3. type \in MsgType \cup {"admin"}
  OBVIOUS
<1> HIDE DEF type
<1>4. /\ sent \in Seq(MsgType \cup {"admin"}) /\ Len(sent) = c.next /\ DOMAIN sent = 1..c.next
      /\ \A k \in 1..(c.next - 1) : sent[k] = c.sent[k]
      /\ sent[c.next] = type
  BY <1>2, <1>3
<1> HIDE DEF sent
<1>5. /\ wire' \in ClientMessage /\ wire'.n = c.next /\ wire'.last = c.next
      /\ wire'.kind = kind /\ wire'.begin = begin /\ wire'.reset = c.reset /\ wire'.possDup = FALSE
  BY <1>1, <1>2 DEF ClientMessage
<1>6. client' = [c EXCEPT !.next = c.next + 1, !.cursor = c.next + 1, !.sent = sent]
  BY <1>1
<1>7. [c EXCEPT !.next = c.next + 1, !.cursor = c.next + 1, !.sent = sent] \in ClientState
  BY <1>2, <1>4 DEF ClientState
<1>8. /\ client' \in ClientState /\ client'.link = c.link /\ client'.expect = c.expect
      /\ client'.gap = c.gap /\ client'.reset = c.reset
      /\ client'.next = c.next + 1 /\ client'.cursor = client'.next /\ client'.sent = sent
  BY <1>6, <1>7 DEF ClientState
<1> QED
  BY <1>1, <1>2, <1>4, <1>5, <1>8, AcceptorAssumption DEF type, Transmits

\* The new message is what the client remembers.
LEMMA TransmittedMatches ==
    ASSUME wire'.n \in Nat, wire'.last = wire'.n, client'.next = wire'.n + 1,
           client'.sent[wire'.n] = IF wire'.kind \in MsgType THEN wire'.kind ELSE "admin"
    PROVE  Matches(wire)'
BY DEF Matches

LEMMA ClientLogonInv ==
    ASSUME IInv, ClientLogon
    PROVE  IInv'
<1> USE DEF IInv
<1>1. /\ Running /\ client.link = "off" /\ ~client.reset
      /\ Transmit([client EXCEPT !.link = "connecting"], "logon", 0)
      /\ UNCHANGED <<serviceType, main, store, state, rangeEnd, pipe, handled, interrupted>>
  BY DEF ClientLogon, processVars, gatewayVars, countVars
<1>2. /\ state = "latent" /\ ~InSession /\ ~InSession' /\ Tracking' = Tracking
      /\ client.cursor = client.next /\ client.gap = 0 /\ main # "off" /\ rangeEnd = 0 /\ pipe = <<>>
     
  BY <1>1 DEF LinkInv, InSession, Tracking, Running
<1> DEFINE c == [client EXCEPT !.link = "connecting"]
<1>3. /\ c \in ClientState /\ c.link = "connecting" /\ c.next = client.next /\ c.cursor = client.cursor
      /\ c.sent = client.sent /\ c.expect = client.expect /\ c.gap = client.gap /\ c.reset = client.reset
  BY ClientType DEF ClientState
<1>4. client.next \in Nat /\ Len(client.sent) = client.next - 1 /\ 0 \in 0..MaxSeq
      /\ DOMAIN client.sent = 1..(client.next - 1)
  BY ClientType, AcceptorAssumption DEF SentInv
<1> HIDE DEF c
<1>5. /\ client.next \in Number
      /\ wire' \in ClientMessage /\ wire' # None /\ wire'.n = client.next /\ wire'.last = client.next
      /\ wire'.kind = "logon" /\ wire'.reset = client.reset
      /\ client' \in ClientState /\ client'.link = "connecting" /\ client'.expect = client.expect
      /\ client'.gap = 0 /\ client'.reset = client.reset
      /\ client'.next = client.next + 1 /\ client'.cursor = client'.next
      /\ Len(client'.sent) = client.next /\ DOMAIN client'.sent = 1..client.next
      /\ \A k \in 1..(client.next - 1) : client'.sent[k] = client.sent[k]
      /\ client'.sent[client.next] = "admin"
  <2>1. Transmit(c, "logon", 0)
    BY <1>1 DEF c
  <2>2. Transmits(c, "logon", 0)
    BY <2>1, <1>2, <1>3, <1>4, Transmitted
  <2> QED
    BY <2>2, <1>2, <1>3 DEF Transmits, MsgType
<1>6. TypeOK'
  BY <1>1, <1>5 DEF TypeOK, ClientState
<1>7. LinkInv'
  <2>1. wire'.n = client'.next - 1
    BY <1>4, <1>5
  <2> QED
    BY <2>1, <1>1, <1>2, <1>5 DEF LinkInv, InSession
<1>8. SentInv' /\ ResetInv'
  <2>1. Matches(wire)'
    BY <1>4, <1>5, TransmittedMatches DEF MsgType
  <2>2. Len(client'.sent) = client'.next - 1
    BY <1>4, <1>5
  <2> QED
    BY <2>1, <2>2, <1>1, <1>2, <1>5 DEF SentInv, ResetInv
<1>9. StoreInv'
  BY <1>1, <1>2, <1>4, <1>5, StoreType DEF StoreInv
<1>10. LogonInv' /\ AskedInv' /\ InStepInv' /\ ResendInv' /\ AskingInv' /\ ConnectingInv' /\ PipeInv'
  BY <1>2, <1>5 DEF LogonInv, AskedInv, InStepInv, ResendInv, AskingInv, ConnectingInv, PipeInv
<1>11. HandledInv' /\ HandledOnce'
  <2>1. \A n \in DOMAIN client'.sent :
            n <= store.target /\ client'.sent[n] \in MsgType => handled[n] > 0
    <3> SUFFICES ASSUME NEW n \in 1..client.next, n <= store.target, client'.sent[n] \in MsgType
                 PROVE  handled[n] > 0
      BY <1>5
    <3>1. n # client.next
      BY <1>5 DEF MsgType
    <3>2. n \in DOMAIN client.sent /\ client'.sent[n] = client.sent[n]
      BY <3>1, <1>4, <1>5
    <3> QED
      BY <3>2, <1>1 DEF HandledInv
  <2>2. HandledInv'
    BY <2>1, <1>1, <1>2, <1>5 DEF HandledInv
  <2> QED
    BY <2>2, <1>1, <1>2 DEF HandledOnce
<1> QED
  BY <1>6, <1>7, <1>8, <1>9, <1>10, <1>11

LEMMA ClientResetInv ==
    ASSUME IInv, ClientReset
    PROVE  IInv'
<1> USE DEF IInv
<1> DEFINE c == [NewClient EXCEPT !.link = "connecting", !.reset = TRUE]
<1>1. /\ Running /\ client.link = "off" /\ Transmit(c, "logon", 0)
      /\ handled' = [n \in Number |-> 0] /\ interrupted' = {}
      /\ UNCHANGED <<serviceType, main, store, state, rangeEnd, pipe>>
  BY DEF ClientReset, processVars, gatewayVars
<1>2. /\ state = "latent" /\ ~InSession /\ ~InSession' /\ Tracking' = Tracking
      /\ main # "off" /\ rangeEnd = 0 /\ pipe = <<>>
  BY <1>1 DEF LinkInv, InSession, Tracking, Running
<1>3. /\ c \in ClientState /\ c.link = "connecting" /\ c.next = 1 /\ c.cursor = 1 /\ Len(c.sent) = 0
      /\ c.expect = 1 /\ c.gap = 0 /\ c.reset = TRUE /\ 0 \in 0..MaxSeq
  <2>1. <<>> \in Seq(MsgType \cup {"admin"}) /\ Len(<<>>) = 0
    OBVIOUS
  <2>2. 1 \in 1..(MaxSeq + 1) /\ 0 \in 0..MaxSeq
    BY AcceptorAssumption
  <2>3. /\ NewClient \in ClientState /\ NewClient.next = 1 /\ NewClient.cursor = 1
        /\ NewClient.sent = <<>> /\ NewClient.expect = 1 /\ NewClient.gap = 0
    BY <2>1, <2>2 DEF ClientState, NewClient
  <2>4. PICK r \in ClientState : r = NewClient
    BY <2>3
  <2>5. /\ [r EXCEPT !.link = "connecting", !.reset = TRUE] \in ClientState
        /\ c = [r EXCEPT !.link = "connecting", !.reset = TRUE]
    BY <2>4 DEF ClientState
  <2> QED
    BY <2>1, <2>2, <2>3, <2>4, <2>5 DEF ClientState
<1> HIDE DEF c
<1>4. /\ wire' \in ClientMessage /\ wire' # None /\ wire'.n = 1 /\ wire'.last = 1
      /\ wire'.kind = "logon" /\ wire'.reset = TRUE
      /\ client' \in ClientState /\ client'.link = "connecting" /\ client'.expect = 1
      /\ client'.gap = 0 /\ client'.reset = TRUE /\ client'.next = 2 /\ client'.cursor = 2
      /\ Len(client'.sent) = 1 /\ client'.sent[1] = "admin"
  <2>1. Transmits(c, "logon", 0)
    BY <1>1, <1>3, Transmitted
  <2> QED
    BY <2>1, <1>3 DEF Transmits, MsgType
<1>5. handled' \in [Number -> Nat] /\ \A n \in Number : handled'[n] = 0
  BY <1>1
<1>6. TypeOK'
  BY <1>1, <1>4, <1>5 DEF TypeOK, ClientState
<1>7. LinkInv'
  <2>0. wire'.reset = TRUE /\ client'.reset = TRUE
    BY <1>4
  <2>1. wire'.n = client'.next - 1 /\ client'.cursor = client'.next
    BY <1>4
  <2>2. /\ wire'.reset = client'.reset
    BY <2>0, Zenon
  <2>3. /\ wire' # None /\ wire'.kind = "logon" /\ client'.link = "connecting" /\ client'.gap = 0
    BY <1>4
  <2> QED
    BY <2>1, <2>2, <2>3, <1>1, <1>2 DEF LinkInv
<1>8. SentInv' /\ ResetInv'
  <2>1. Matches(wire)'
    BY <1>4, TransmittedMatches DEF MsgType
  <2> QED
    BY <2>1, <1>1, <1>2, <1>4, <1>5 DEF SentInv, ResetInv
<1>9. StoreInv'
  BY <1>1, <1>2, <1>4 DEF StoreInv
<1>10. LogonInv' /\ AskedInv' /\ InStepInv' /\ ResendInv' /\ AskingInv' /\ ConnectingInv' /\ PipeInv'
  BY <1>2, <1>4 DEF LogonInv, AskedInv, InStepInv, ResendInv, AskingInv, ConnectingInv, PipeInv
<1>11. HandledInv' /\ HandledOnce'
  BY <1>1, <1>2, <1>4, <1>5 DEF HandledInv, HandledOnce
<1> QED
  BY <1>6, <1>7, <1>8, <1>9, <1>10, <1>11

LEMMA ClientSendInv ==
    ASSUME IInv, NEW kind \in MsgType \cup {"admin"}, ClientSend(kind)
    PROVE  IInv'
<1> USE DEF IInv
<1>1. /\ client.link = "on" /\ client.cursor = client.next /\ Transmit(client, kind, 0)
      /\ UNCHANGED <<serviceType, main, store, state, rangeEnd, pipe, handled, interrupted>>
  BY DEF ClientSend, processVars, gatewayVars, countVars
<1>2. /\ InSession /\ InSession' /\ Tracking' = Tracking /\ client.reset = FALSE /\ Asking' = Asking
  <2>1. client.reset = FALSE
    BY <1>1, ClientType DEF LinkInv
  <2> QED
    BY <2>1, <1>1 DEF LinkInv, InSession, Tracking, Asking
<1>3. /\ client.next \in Nat /\ Len(client.sent) = client.next - 1 /\ 0 \in 0..MaxSeq
      /\ DOMAIN client.sent = 1..(client.next - 1) /\ client \in ClientState
      /\ store.target \in Nat /\ rangeEnd \in Nat /\ store.target < client.next
  <2>1. /\ client.next \in Nat /\ Len(client.sent) = client.next - 1 /\ 0 \in 0..MaxSeq
        /\ DOMAIN client.sent = 1..(client.next - 1) /\ client \in ClientState
    BY ClientType, AcceptorAssumption DEF SentInv
  <2>2. store.target \in Nat /\ rangeEnd \in Nat /\ store.target < client.next
    BY <1>2, StoreType, AcceptorAssumption DEF StoreInv, TypeOK
  <2> QED
    BY <2>1, <2>2
<1>4. Transmits(client, kind, 0)
  BY <1>1, <1>3, Transmitted
<1>5. /\ wire = None /\ ~New /\ ~Again /\ ~Requested
      /\ wire' \in ClientMessage /\ wire' # None /\ wire'.n = client.next /\ wire'.last = client.next
      /\ wire'.kind = kind /\ wire'.possDup = FALSE
      /\ client' \in ClientState /\ client'.link = "on" /\ client'.expect = client.expect
      /\ client'.gap = client.gap /\ client'.reset = FALSE
      /\ client'.next = client.next + 1 /\ client'.cursor = client.next + 1
      /\ Len(client'.sent) = client.next /\ DOMAIN client'.sent = 1..client.next
      /\ \A k \in 1..(client.next - 1) : client'.sent[k] = client.sent[k]
  BY <1>1, <1>2, <1>4 DEF Transmits, New, Again, Requested
<1>6. New' /\ ~Again' /\ ~Requested' /\ wire'.kind # "logon" /\ wire'.kind # "resend"
  BY <1>5 DEF New, Again, Requested, MsgType
<1>7. TypeOK'
  BY <1>1, <1>5 DEF TypeOK, ClientState
<1>8. state \notin {"app", "routed"}
  BY <1>5 DEF LinkInv
<1>9. LinkInv' /\ ResetInv'
  BY <1>1, <1>2, <1>5, <1>8 DEF LinkInv, ResetInv
<1>10. SentInv'
  <2>1. Matches(wire)'
    BY <1>3, <1>4, TransmittedMatches DEF Transmits
  <2>2. Len(client'.sent) = client'.next - 1
    BY <1>3, <1>5
  <2> QED
    BY <2>1, <2>2 DEF SentInv
<1>11. StoreInv' /\ LogonInv' /\ ResendInv' /\ AskingInv' /\ ConnectingInv'
  <2>1. StoreInv'
    BY <1>1, <1>2, <1>3, <1>5 DEF StoreInv
  <2> QED
    BY <2>1, <1>1, <1>2, <1>5, <1>6 DEF LogonInv, ResendInv, AskingInv, ConnectingInv
<1>12. AskedInv'
  <2> SUFFICES ASSUME rangeEnd # 0
               PROVE  AskedInv'
    BY <1>1 DEF AskedInv
  <2>1. /\ rangeEnd > store.target /\ rangeEnd <= client.next - 2
        /\ ~Asking => client.cursor = store.target + 1
    BY <1>2, <1>5 DEF AskedInv
  <2>2. Asking
    BY <2>1, <1>1, <1>3
  <2>4. /\ rangeEnd <= client'.next - 2 /\ wire'.n > rangeEnd + 1 /\ wire'.n = client'.next - 1
        /\ client'.cursor = client'.next
    BY <2>1, <1>3, <1>5
  <2> QED
    BY <2>1, <2>2, <2>4, <1>1, <1>2, <1>6 DEF AskedInv
<1>13. InStepInv'
  <2> SUFFICES ASSUME rangeEnd = 0
               PROVE  InStepInv'
    BY <1>1 DEF InStepInv
  <2>1. ~Asking /\ store.target = client.next - 1
    BY <1>1, <1>2, <1>3, <1>5 DEF InStepInv
  <2>2. InOrder' /\ client'.cursor = wire'.last + 1
    BY <2>1, <1>1, <1>3, <1>5 DEF InOrder
  <2> QED
    BY <2>1, <2>2, <1>2, <1>5 DEF InStepInv
<1>14. PipeInv'
  BY <1>1, <1>2, <1>5, <1>6 DEF PipeInv, Missing
<1>15. HandledInv'
  <2>1. \A n \in DOMAIN client'.sent :
            n <= store.target /\ client'.sent[n] \in MsgType => handled[n] > 0
    <3> SUFFICES ASSUME NEW n \in 1..client.next, n <= store.target, client'.sent[n] \in MsgType
                 PROVE  handled[n] > 0
      BY <1>5
    <3>1. n \in DOMAIN client.sent /\ client'.sent[n] = client.sent[n]
      BY <1>3, <1>5
    <3> QED
      BY <3>1, <1>2 DEF HandledInv
  <2> QED
    BY <2>1, <1>1, <1>2, <1>5, <1>8 DEF HandledInv
<1>16. HandledOnce'
  BY <1>1, <1>8 DEF HandledOnce
<1> QED
  BY <1>7, <1>9, <1>10, <1>11, <1>12, <1>13, <1>14, <1>15, <1>16

\* The numbers that one message sent again stands for.
Covers(m) ==
    LET n == client.cursor
        type == client.sent[n]
    IN  /\ m = n \/ type = "admin"
        /\ \A k \in (n + 1)..m : client.sent[k] = "admin"
        /\ m + 1 = client.next \/ type # "admin" \/ client.sent[m + 1] # "admin"

\* A gap fill ends before the next message, or with the last number.
LEMMA CoversSome ==
    ASSUME TypeOK, client.cursor < client.next
    PROVE  \E m \in client.cursor..(client.next - 1) : Covers(m)
<1> DEFINE n == client.cursor
           T == {m \in n..(client.next - 1) : m + 1 = client.next \/ client.sent[m + 1] # "admin"}
<1>1. n \in Nat /\ client.next \in Nat /\ n <= client.next - 1
  BY ClientType, AcceptorAssumption
<1>2. CASE client.sent[n] # "admin"
  <2>1. n \in n..(client.next - 1) /\ (n + 1)..n = {}
    BY <1>1
  <2>2. Covers(n)
    BY <1>2, <2>1 DEF Covers
  <2> QED
    BY <2>1, <2>2
<1>3. CASE client.sent[n] = "admin"
  <2>1. client.next - 1 \in T /\ T \subseteq Nat
    BY <1>1
  <2>2. PICK m \in T : \A y \in T : ~(<<y, m>> \in OpToRel(<, Nat))
    BY <2>1, WFMin, NatLessThanWellFounded
  <2>3. \A y \in T : ~(y < m)
    BY <2>1, <2>2 DEF OpToRel
  <2>4. \A k \in (n + 1)..m : client.sent[k] = "admin"
    <3> SUFFICES ASSUME NEW k \in (n + 1)..m
                 PROVE  client.sent[k] = "admin"
      OBVIOUS
    <3>1. k - 1 \in n..(client.next - 1) /\ k - 1 < m /\ (k - 1) + 1 = k
      BY <1>1
    <3>2. k - 1 \notin T
      BY <2>3, <3>1
    <3> QED
      BY <3>1, <3>2
  <2>5. m \in n..(client.next - 1) /\ (m + 1 = client.next \/ client.sent[m + 1] # "admin")
    OBVIOUS
  <2> HIDE DEF T
  <2>6. Covers(m)
    BY <1>3, <2>4, <2>5 DEF Covers
  <2> QED
    BY <2>5, <2>6
<1> QED
  BY <1>2, <1>3

LEMMA ClientSendAgainInv ==
    ASSUME IInv, ClientSendAgain
    PROVE  IInv'
<1> USE DEF IInv
<1> DEFINE n == client.cursor
           last == CHOOSE m \in n..(client.next - 1) : Covers(m)
<1>1. /\ client.link = "on" /\ n < client.next /\ wire = None
      /\ wire' = [n |-> n, last |-> last, kind |-> client.sent[n], begin |-> 0,
                  reset |-> FALSE, possDup |-> TRUE]
      /\ client' = [client EXCEPT !.cursor = last + 1]
      /\ UNCHANGED <<serviceType, main, store, state, rangeEnd, pipe, handled, interrupted>>
  BY DEF ClientSendAgain, Covers, processVars, gatewayVars, countVars
<1>2. last \in n..(client.next - 1) /\ Covers(last)
  BY <1>1, CoversSome
<1> HIDE DEF last
<1>3. /\ client.next \in Nat /\ client.next <= MaxSeq + 1 /\ n \in Nat /\ n >= 1 /\ last \in Nat
      /\ Len(client.sent) = client.next - 1 /\ client.sent \in Seq(MsgType \cup {"admin"})
      /\ n <= last /\ last < client.next /\ n \in Number /\ last \in Number
      /\ last + 1 \in 1..(MaxSeq + 1) /\ 0 \in 0..MaxSeq
  <2>1. client.next \in Nat /\ client.next <= MaxSeq + 1 /\ n \in Nat /\ n >= 1 /\ MaxSeq \in Nat
    BY ClientType, AcceptorAssumption
  <2>2. last \in Nat /\ n <= last /\ last < client.next
    BY <2>1, <1>2
  <2>3. n \in Number /\ last \in Number /\ last + 1 \in 1..(MaxSeq + 1) /\ 0 \in 0..MaxSeq
    BY <2>1, <2>2 DEF Number
  <2> QED
    BY <2>1, <2>2, <2>3, ClientType DEF SentInv
<1>4. client.sent[n] \in MsgType \cup {"admin"}
  BY <1>1, <1>3
<1>5. /\ wire' \in ClientMessage /\ wire' # None /\ wire'.n = n /\ wire'.last = last
      /\ wire'.kind = client.sent[n] /\ wire'.possDup = TRUE
      /\ wire'.kind # "resend" /\ wire'.kind # "logon"
  <2>1. /\ wire' \in ClientMessage /\ wire'.n = n /\ wire'.last = last
        /\ wire'.kind = client.sent[n] /\ wire'.possDup = TRUE
    BY <1>1, <1>3, <1>4 DEF ClientMessage
  <2> QED
    BY <2>1, <1>4, AcceptorAssumption DEF MsgType
<1>6. /\ client' \in ClientState /\ client'.link = "on" /\ client'.next = client.next
      /\ client'.cursor = last + 1 /\ client'.sent = client.sent /\ client'.expect = client.expect
      /\ client'.gap = client.gap /\ client'.reset = client.reset
  <2>1. client' = [client EXCEPT !.cursor = last + 1] /\ client.link = "on"
    BY <1>1
  <2>2. client \in ClientState
    BY ClientType
  <2>3. [client EXCEPT !.cursor = last + 1] \in ClientState
    BY <2>2, <1>3 DEF ClientState
  <2> QED
    BY <2>1, <2>2, <2>3 DEF ClientState
<1>7. /\ InSession /\ InSession' /\ Tracking' = Tracking /\ Asking' = Asking
      /\ ~New /\ ~Again /\ ~Requested /\ ~New' /\ Again' /\ ~Requested' /\ state \notin {"app", "routed"}
      /\ ~client.reset
  BY <1>1, <1>5 DEF LinkInv, InSession, Tracking, Asking, New, Again, Requested
<1>8. store.target \in Nat /\ rangeEnd \in Nat
  BY StoreType, AcceptorAssumption DEF TypeOK
<1>9. TypeOK'
  BY <1>1, <1>5, <1>6 DEF TypeOK, ClientState
<1>10. LinkInv' /\ ResetInv'
  BY <1>1, <1>6, <1>7 DEF LinkInv, ResetInv
<1>11. SentInv'
  <2>1. Matches(wire)'
    <3>1. wire'.kind \in MsgType => last = n
      BY <1>2, <1>5 DEF Covers, MsgType
    <3>2. wire'.kind \notin MsgType => \A k \in n..last : client.sent[k] = "admin"
      BY <1>2, <1>3, <1>4, <1>5 DEF Covers
    <3> QED
      BY <3>1, <3>2, <1>3, <1>5, <1>6 DEF Matches
  <2> QED
    BY <2>1, <1>6 DEF SentInv
<1>12. StoreInv' /\ LogonInv' /\ ResendInv' /\ AskingInv' /\ ConnectingInv'
  BY <1>1, <1>5, <1>6, <1>7 DEF StoreInv, LogonInv, ResendInv, AskingInv, ConnectingInv
<1>13. AskedInv'
  <2> SUFFICES ASSUME rangeEnd # 0
               PROVE  AskedInv'
    BY <1>1 DEF AskedInv
  <2>1. /\ rangeEnd > store.target /\ rangeEnd <= client.next - 2
        /\ ~Asking /\ n = store.target + 1
    BY <1>1, <1>3, <1>7 DEF AskedInv
  <2> QED
    BY <2>1, <1>1, <1>5, <1>6, <1>7 DEF AskedInv
<1>14. InStepInv'
  <2> SUFFICES ASSUME rangeEnd = 0
               PROVE  InStepInv'
    BY <1>1 DEF InStepInv
  <2>1. ~Asking /\ n = store.target + 1
    BY <1>1, <1>7 DEF InStepInv
  <2> QED
    BY <2>1, <1>1, <1>5, <1>6, <1>7 DEF InStepInv, InOrder
<1>15. PipeInv'
  BY <1>1, <1>6, <1>7 DEF PipeInv, Missing
<1>16. HandledInv' /\ HandledOnce'
  BY <1>1, <1>6, <1>7 DEF HandledInv, HandledOnce
<1> QED
  BY <1>9, <1>10, <1>11, <1>12, <1>13, <1>14, <1>15, <1>16
-----------------------------------------------------------------------------
(***************************************************************************)
(* The client receives.                                                    *)
(***************************************************************************)

\* The first message leaves the pipe.
Moves ==
    /\ Len(pipe) \in Nat /\ Len(pipe) >= 1 /\ DOMAIN pipe = 1..Len(pipe) /\ Head(pipe) = pipe[1]
    /\ pipe[1] \in GatewayMessage /\ \A i \in DOMAIN pipe : pipe[i].n \in Nat
    /\ pipe' \in Seq(GatewayMessage) /\ Len(pipe') = Len(pipe) - 1 /\ DOMAIN pipe' = 1..(Len(pipe) - 1)
    /\ \A i \in DOMAIN pipe' : i \in Nat /\ i >= 1 /\ i + 1 \in DOMAIN pipe /\ pipe'[i] = pipe[i + 1]

LEMMA PipeMoves ==
    ASSUME TypeOK, pipe # <<>>, pipe' = Tail(pipe)
    PROVE  Moves
<1>1. /\ pipe \in Seq(GatewayMessage) /\ Len(pipe) \in Nat /\ DOMAIN pipe = 1..Len(pipe)
      /\ \A i \in DOMAIN pipe : pipe[i] \in GatewayMessage /\ pipe[i].n \in Nat
  BY PipeType
<1>2. Len(pipe) >= 1 /\ 1 \in DOMAIN pipe
  BY <1>1
<1>3. /\ Head(pipe) = pipe[1] /\ pipe' \in Seq(GatewayMessage) /\ Len(pipe') = Len(pipe) - 1
      /\ \A i \in 1..(Len(pipe) - 1) : pipe'[i] = pipe[i + 1]
  BY <1>1, <1>2
<1>4. DOMAIN pipe' = 1..(Len(pipe) - 1)
  BY <1>3
<1>5. \A i \in 1..(Len(pipe) - 1) : i \in Nat /\ i >= 1 /\ i + 1 \in 1..Len(pipe)
  BY <1>1
<1> QED
  BY <1>1, <1>2, <1>3, <1>4, <1>5 DEF Moves

\* The gateway's resend request, if there is one, comes next after the Logon.
LEMMA MovesAsking ==
    ASSUME IInv, InSession, Moves
    PROVE  /\ \A i \in DOMAIN pipe' : pipe'[i].kind = "resend" =>
                 client.link = "connecting" /\ i = 1 /\ pipe'[i].begin = store.target + 1
           /\ client.link = "connecting" => Asking' = Asking
           /\ client.link = "on" => ~Asking' /\ (Asking = (pipe[1].kind = "resend"))
           /\ client.link = "on" /\ pipe[1].kind = "resend" => pipe[1].begin = store.target + 1
<1> USE DEF IInv
<1>1. 1 \in DOMAIN pipe /\ client.link \in {"connecting", "on"}
  BY ClientType DEF Moves, LinkInv
<1>2. \A i \in DOMAIN pipe' : pipe'[i].kind = "resend" =>
          client.link = "connecting" /\ i = 1 /\ pipe'[i].begin = store.target + 1
  <2> SUFFICES ASSUME NEW i \in DOMAIN pipe', pipe'[i].kind = "resend"
               PROVE  client.link = "connecting" /\ i = 1 /\ pipe'[i].begin = store.target + 1
    OBVIOUS
  <2>1. i \in Nat /\ i >= 1 /\ i + 1 \in DOMAIN pipe /\ pipe'[i] = pipe[i + 1]
    BY DEF Moves
  <2>2. /\ i + 1 = IF client.link = "connecting" THEN 2 ELSE 1
        /\ pipe[i + 1].begin = store.target + 1
    BY <2>1 DEF AskingInv
  <2> QED
    BY <2>1, <2>2
<1>3. CASE client.link = "connecting"
  <2>1. pipe[1].kind # "resend"
    BY <1>3 DEF ConnectingInv
  <2>2. \A i \in DOMAIN pipe : i # 1 => i - 1 \in DOMAIN pipe' /\ pipe'[i - 1] = pipe[i]
    <3> SUFFICES ASSUME NEW i \in DOMAIN pipe, i # 1
                 PROVE  i - 1 \in DOMAIN pipe' /\ pipe'[i - 1] = pipe[i]
      OBVIOUS
    <3>1. i - 1 \in DOMAIN pipe' /\ (i - 1) + 1 = i
      BY DEF Moves
    <3> QED
      BY <3>1 DEF Moves
  <2>3. \A i \in DOMAIN pipe' : i + 1 \in DOMAIN pipe /\ pipe'[i] = pipe[i + 1]
    BY DEF Moves
  <2>4. Asking' = Asking
    BY <2>1, <2>2, <2>3 DEF Asking
  <2> QED
    BY <2>4, <1>2, <1>3
<1>4. CASE client.link = "on"
  <2>1. ~Asking'
    BY <1>2, <1>4 DEF Asking
  <2>2. \A i \in DOMAIN pipe : pipe[i].kind = "resend" => i = 1
    BY <1>4 DEF AskingInv
  <2>3. Asking = (pipe[1].kind = "resend")
    BY <2>2, <1>1 DEF Asking
  <2>4. pipe[1].kind = "resend" => pipe[1].begin = store.target + 1
    BY <1>1 DEF AskingInv
  <2> QED
    BY <2>1, <2>3, <2>4, <1>2, <1>4
<1> QED
  BY <1>1, <1>3, <1>4

\* A client that is logged on takes a message that is in order, or waits for
\* the answer to its request.
LEMMA ReceiveOnInv ==
    ASSUME IInv, client.link = "on", Moves, client' \in ClientState, client'.link = "on",
           client'.next = client.next, client'.sent = client.sent, client'.gap = client.gap,
           client'.reset = FALSE,
           client'.cursor = IF pipe[1].kind = "resend" THEN pipe[1].begin ELSE client.cursor,
           \/ pipe[1].n = client.expect /\ client'.expect = client.expect + 1
           \/ /\ pipe[1].n > client.expect /\ client.expect <= client.gap
              /\ client'.expect = client.expect,
           UNCHANGED <<serviceType, main, store, state, rangeEnd, wire, handled, interrupted>>
    PROVE  IInv'
<1> USE DEF IInv
<1>1. /\ InSession /\ InSession' /\ Tracking' = Tracking /\ New' = New /\ Again' = Again
      /\ Requested' = Requested /\ InOrder' = InOrder /\ ~client.reset
  BY DEF LinkInv, InSession, Tracking, New, Again, Requested, InOrder
<1>2. /\ ~Asking' /\ (Asking = (pipe[1].kind = "resend"))
      /\ pipe[1].kind = "resend" => pipe[1].begin = store.target + 1
      /\ \A i \in DOMAIN pipe' : pipe'[i].kind # "resend"
  BY <1>1, MovesAsking
<1>3. /\ client.expect \in Nat /\ client.expect >= 1 /\ client.gap \in Nat /\ store.sender \in Nat
      /\ client'.expect \in Nat /\ store.target \in Nat
  BY ClientType, StoreType
<1>4. TypeOK'
  BY DEF TypeOK, ClientState, Moves
<1>5. LinkInv' /\ ResetInv'
  <2>1. ~client'.reset
    OBVIOUS
  <2>2. LinkInv'
    <3>1. state # "latent"
      BY <1>1 DEF InSession
    <3> QED
      BY <2>1, <3>1, <1>1 DEF LinkInv
  <2> QED
    BY <2>1, <2>2 DEF ResetInv
<1>6. SentInv' /\ LogonInv' /\ ConnectingInv'
  <2>1. \A w : Matches(w)' = Matches(w)
    BY DEF Matches
  <2>2. Matches(wire)' = Matches(wire)
    BY DEF Matches
  <2>3. SentInv'
    BY <2>1, <2>2 DEF SentInv
  <2> QED
    BY <2>3, <1>1 DEF LogonInv, ConnectingInv
<1>7. AskingInv'
  BY <1>2 DEF AskingInv
<1>8. AskedInv'
  <2> SUFFICES ASSUME rangeEnd # 0
               PROVE  AskedInv'
    BY DEF AskedInv
  <2>1. CASE Asking
    <3>1. ~Again /\ client'.cursor = store.target + 1
      BY <2>1, <1>1, <1>2 DEF AskedInv
    <3> QED
      BY <3>1, <1>1, <1>2 DEF AskedInv
  <2>2. CASE ~Asking
    <3>1. client'.cursor = client.cursor
      BY <2>2, <1>2
    <3> QED
      BY <2>2, <3>1, <1>1, <1>2 DEF AskedInv
  <2> QED
    BY <2>1, <2>2
<1>9. InStepInv'
  <2> SUFFICES ASSUME rangeEnd = 0
               PROVE  InStepInv'
    BY DEF InStepInv
  <2>1. ~Asking
    BY <1>1 DEF InStepInv
  <2>2. client'.cursor = client.cursor
    BY <2>1, <1>2
  <2> QED
    BY <2>2, <1>1, <1>2 DEF InStepInv
<1>10. pipe[1].n \in Nat /\ 1 \in DOMAIN pipe /\ Len(pipe) \in Nat /\ Len(pipe) >= 1
  BY DEF Moves
\* In order, the pipe holds all that the client expects, and nothing else.
<1>11. CASE pipe[1].n = client.expect /\ client'.expect = client.expect + 1
  <2>3. /\ Len(pipe) = Missing /\ ~Requested
        /\ \A i \in DOMAIN pipe : pipe[i].n = client.expect + i - 1
    <3>1. CASE client.expect > client.gap
      <4>1. Len(pipe) = Missing /\ \A i \in DOMAIN pipe : pipe[i].n = client.expect + i - 1
        BY <3>1 DEF PipeInv
      <4>2. ~Requested
        BY <3>1, <1>1, <1>3 DEF ResendInv, Requested
      <4> QED
        BY <4>1, <4>2
    <3>2. CASE client.expect <= client.gap
      <4>1. ~Requested
        BY <3>2, <1>3, <1>10, <1>11 DEF PipeInv
      <4>2. /\ Len(pipe) >= Missing
            /\ IF 1 <= Len(pipe) - Missing THEN pipe[1].n > client.gap
                                           ELSE pipe[1].n = store.sender - Len(pipe) + 1
        BY <3>2, <4>1, <1>10 DEF PipeInv
      <4>3. Missing \in Int
        BY <1>3 DEF Missing
      <4>4. Len(pipe) = Missing
        BY <3>2, <4>2, <4>3, <1>3, <1>10, <1>11
      <4>5. \A i \in DOMAIN pipe : pipe[i].n = client.expect + i - 1
        <5> SUFFICES ASSUME NEW i \in DOMAIN pipe
                     PROVE  pipe[i].n = client.expect + i - 1
          OBVIOUS
        <5>1. i \in Nat /\ i >= 1
          BY DEF Moves
        <5>2. ~(i <= Len(pipe) - Missing)
          BY <4>3, <4>4, <5>1
        <5>3. pipe[i].n = store.sender - Len(pipe) + i
          BY <3>2, <4>1, <5>2 DEF PipeInv
        <5>4. store.sender - Missing + i = client.expect + i - 1
          BY <5>1, <1>3 DEF Missing
        <5> QED
          BY <4>4, <5>3, <5>4
      <4> QED
        BY <4>1, <4>4, <4>5
    <3> QED
      BY <3>1, <3>2, <1>3
  <2>4. /\ Missing' = Missing - 1 /\ Missing \in Nat /\ store.sender = Missing + client.expect - 1
    <3>1. Missing' = Missing - 1 /\ store.sender = Missing + client.expect - 1
      BY <1>3, <1>11 DEF Missing
    <3> QED
      BY <2>3, <3>1, <1>10
  <2>5. Len(pipe') = Missing'
    BY <2>3, <2>4 DEF Moves
  <2>6. \A i \in DOMAIN pipe' : pipe'[i].n = client'.expect + i - 1 /\ i \in Nat /\ i >= 1
    <3> SUFFICES ASSUME NEW i \in DOMAIN pipe'
                 PROVE  pipe'[i].n = client'.expect + i - 1 /\ i \in Nat /\ i >= 1
      OBVIOUS
    <3>1. i \in Nat /\ i >= 1 /\ i + 1 \in DOMAIN pipe /\ pipe'[i] = pipe[i + 1]
      BY DEF Moves
    <3> QED
      BY <2>3, <3>1, <1>3, <1>11
  <2>7. PipeInv'
    <3>1. ~Tracking => client.gap = 0 /\ client'.expect > 1
      BY <1>3, <1>11 DEF PipeInv
    <3>2. CASE client'.expect > client.gap
      BY <2>5, <2>6, <3>1, <3>2, <1>1, <1>3 DEF PipeInv
    <3>3. CASE client'.expect <= client.gap
      <4>1. client.expect <= client.gap
        BY <3>3, <1>3, <1>11
      <4>2. client.gap <= store.sender /\ ~(client'.expect > client.gap)
        BY <3>3, <4>1, <1>3 DEF PipeInv
      <4>3. \A i \in DOMAIN pipe' : /\ ~(i <= Len(pipe') - Missing')
                                    /\ pipe'[i].n = store.sender - Len(pipe') + i
        <5> SUFFICES ASSUME NEW i \in DOMAIN pipe'
                     PROVE  ~(i <= Len(pipe') - Missing') /\ pipe'[i].n = store.sender - Len(pipe') + i
          OBVIOUS
        <5>1. pipe'[i].n = client'.expect + i - 1 /\ i \in Nat /\ i >= 1
          BY <2>6
        <5>2. store.sender - (Missing - 1) + i = client.expect + 1 + i - 1
          BY <2>4, <5>1, <1>3
        <5> QED
          BY <2>4, <2>5, <5>1, <5>2, <1>11
      <4>4. Len(pipe') >= Missing'
        BY <2>4, <2>5
      <4> QED
        BY <2>3, <3>1, <4>2, <4>3, <4>4, <1>1 DEF PipeInv
    <3> QED
      BY <3>2, <3>3, <1>3
  <2>8. StoreInv'
    <3>1. client'.expect <= store.sender + 1
      BY <2>3, <2>4, <1>3, <1>10, <1>11
    <3> QED
      BY <3>1, <1>1 DEF StoreInv
  <2>9. ResendInv'
    BY <2>3, <1>1 DEF ResendInv, Requested
  <2> QED
    BY <2>7, <2>8, <2>9, <1>1, <1>3, <1>4, <1>5, <1>6, <1>7, <1>8, <1>9, <1>11
       DEF HandledInv, HandledOnce
<1>12. CASE /\ pipe[1].n > client.expect /\ client.expect <= client.gap
            /\ client'.expect = client.expect
  <2>1. StoreInv' /\ ResendInv' /\ Missing' = Missing
    BY <1>1, <1>12 DEF StoreInv, ResendInv, Missing
  <2>2. CASE Requested
    <3>1. \A i \in DOMAIN pipe' : pipe'[i].n > client.gap
      BY <2>2, <1>12 DEF PipeInv, Moves
    <3> QED
      BY <2>1, <2>2, <3>1, <1>1, <1>3, <1>4, <1>5, <1>6, <1>7, <1>8, <1>9, <1>12
         DEF PipeInv, HandledInv, HandledOnce
  <2>3. CASE ~Requested
    <3>1. /\ Len(pipe) >= Missing /\ client.gap <= store.sender
          /\ \A i \in DOMAIN pipe : IF i <= Len(pipe) - Missing
                                      THEN pipe[i].n > client.gap
                                      ELSE pipe[i].n = store.sender - Len(pipe) + i
      BY <2>3, <1>12 DEF PipeInv
    <3>2. Missing \in Int /\ store.sender - Missing + 1 = client.expect
      BY <1>3 DEF Missing
    <3>3. Len(pipe) # Missing
      BY <3>1, <3>2, <1>10, <1>12
    <3>4. Len(pipe') >= Missing' /\ Len(pipe') = Len(pipe) - 1
      <4>1. Len(pipe') = Len(pipe) - 1
        BY DEF Moves
      <4> QED
        BY <2>1, <3>1, <3>2, <3>3, <4>1, <1>10
    <3>5. \A i \in DOMAIN pipe' : IF i <= Len(pipe') - Missing'
                                    THEN pipe'[i].n > client.gap
                                    ELSE pipe'[i].n = store.sender - Len(pipe') + i
      <4> SUFFICES ASSUME NEW i \in DOMAIN pipe'
                   PROVE  IF i <= Len(pipe') - Missing'
                            THEN pipe'[i].n > client.gap
                            ELSE pipe'[i].n = store.sender - Len(pipe') + i
        OBVIOUS
      <4>1. i \in Nat /\ i + 1 \in DOMAIN pipe /\ pipe'[i] = pipe[i + 1]
        BY DEF Moves
      <4>2. IF i + 1 <= Len(pipe) - Missing THEN pipe[i + 1].n > client.gap
                                            ELSE pipe[i + 1].n = store.sender - Len(pipe) + (i + 1)
        BY <3>1, <4>1
      <4>3. /\ i + 1 <= Len(pipe) - Missing <=> i <= Len(pipe) - 1 - Missing
            /\ store.sender - (Len(pipe) - 1) + i = store.sender - Len(pipe) + (i + 1)
        <5>1. Len(pipe) \in Int /\ Missing \in Int /\ store.sender \in Int /\ i \in Int
          BY <3>2, <4>1, <1>3, <1>10
        <5> QED
          BY <5>1
      <4> QED
        BY <2>1, <3>4, <4>1, <4>2, <4>3
    <3>6. PipeInv'
      <4>1. ~(client.expect > client.gap)
        BY <1>3, <1>12
      <4> QED
        BY <2>3, <3>1, <3>4, <3>5, <4>1, <1>1, <1>12 DEF PipeInv
    <3> QED
      BY <2>1, <3>6, <1>1, <1>4, <1>5, <1>6, <1>7, <1>8, <1>9, <1>12
         DEF HandledInv, HandledOnce
  <2> QED
    BY <2>2, <2>3
<1> QED
  BY <1>11, <1>12

\* The client after the first message, but for what it expects.
Received == [client EXCEPT !.link = "on", !.reset = FALSE,
                           !.cursor = IF pipe[1].kind = "resend" THEN pipe[1].begin ELSE @]

LEMMA ReceivedType ==
    ASSUME IInv, InSession, Moves
    PROVE  /\ Received \in ClientState /\ Received.link = "on" /\ Received.reset = FALSE
           /\ Received.cursor = IF pipe[1].kind = "resend" THEN pipe[1].begin ELSE client.cursor
           /\ Received.next = client.next /\ Received.sent = client.sent
           /\ Received.expect = client.expect /\ Received.gap = client.gap
<1> USE DEF IInv
<1> DEFINE cursor == IF pipe[1].kind = "resend" THEN pipe[1].begin ELSE client.cursor
<1>1. cursor \in 1..(MaxSeq + 1)
  <2>1. 1 \in DOMAIN pipe
    BY DEF Moves
  <2>2. pipe[1].kind = "resend" => pipe[1].begin = store.target + 1
    BY <2>1 DEF AskingInv
  <2>3. store.target + 1 \in 1..(MaxSeq + 1)
    BY StoreType, AcceptorAssumption
  <2> QED
    BY <2>2, <2>3, ClientType
<1>2. Received = [client EXCEPT !.link = "on", !.reset = FALSE, !.cursor = cursor]
  BY ClientType DEF Received, ClientState
<1> HIDE DEF cursor
<1>3. client \in ClientState
  BY ClientType
<1>4. [client EXCEPT !.link = "on", !.reset = FALSE, !.cursor = cursor] \in ClientState
  BY <1>1, <1>3 DEF ClientState
<1>5. /\ Received \in ClientState /\ Received.link = "on" /\ Received.reset = FALSE
      /\ Received.cursor = cursor /\ Received.next = client.next /\ Received.sent = client.sent
      /\ Received.expect = client.expect /\ Received.gap = client.gap
  BY <1>2, <1>3, <1>4 DEF ClientState
<1> QED
  BY <1>5 DEF cursor

\* The answer to the Logon is the message that the client expects.
LEMMA ReceiveLogonInv ==
    ASSUME IInv, InSession, client.link = "connecting", Moves, client' \in ClientState, client'.link = "on",
           client'.next = client.next, client'.sent = client.sent, client'.gap = client.gap,
           client'.reset = FALSE,
           client'.cursor = IF pipe[1].kind = "resend" THEN pipe[1].begin ELSE client.cursor,
           pipe[1].n = client.expect, client'.expect = client.expect + 1,
           UNCHANGED <<serviceType, main, store, state, rangeEnd, wire, handled, interrupted>>
    PROVE  IInv'
<1> USE DEF IInv
<1>1. /\ state = "inSession" /\ wire = None /\ client.gap = 0 /\ client.cursor = client.next
      /\ main # "off"
  BY DEF LinkInv
<1>2. /\ pipe[1].kind = "logon" /\ client'.cursor = client.cursor
      /\ \A i \in DOMAIN pipe : pipe[i].n = store.sender - Len(pipe) + i
      /\ ~Tracking => pipe[1].n = 1
  BY DEF ConnectingInv
<1>3. /\ InSession' /\ Tracking' = Tracking /\ ~New /\ ~Again /\ ~New' /\ ~Again'
      /\ ~Requested /\ ~Requested'
  BY <1>1 DEF InSession, Tracking, New, Again, Requested
<1>4. /\ Asking' = Asking
      /\ \A i \in DOMAIN pipe' : pipe'[i].kind = "resend" => i = 1 /\ pipe'[i].begin = store.target + 1
  BY MovesAsking
<1>5. /\ client.expect \in Nat /\ client.expect >= 1 /\ store.sender \in Nat /\ Len(pipe) \in Nat
      /\ Len(pipe) >= 1 /\ client'.expect \in Nat /\ 1 \in DOMAIN pipe
  BY ClientType, StoreType DEF Moves
<1>6. store.sender = client.expect + Len(pipe) - 1
  <2>1. pipe[1].n = store.sender - Len(pipe) + 1
    BY <1>2, <1>5
  <2>2. client.expect = store.sender - Len(pipe) + 1
    BY <2>1
  <2> QED
    BY <2>2, <1>5
<1>7. TypeOK'
  BY DEF TypeOK, ClientState, Moves
<1>8. LinkInv' /\ ResetInv'
  <2>1. ~client'.reset
    OBVIOUS
  <2>2. LinkInv'
    BY <2>1, <1>1, <1>3 DEF LinkInv
  <2> QED
    BY <2>1, <2>2 DEF ResetInv
<1>9. SentInv' /\ LogonInv' /\ ConnectingInv' /\ ResendInv'
  BY <1>1, <1>3 DEF SentInv, LogonInv, ConnectingInv, ResendInv
<1>10. StoreInv'
  BY <1>3, <1>5, <1>6 DEF StoreInv
<1>11. AskingInv'
  BY <1>4 DEF AskingInv
<1>12. AskedInv' /\ InStepInv'
  BY <1>1, <1>2, <1>3, <1>4 DEF AskedInv, InStepInv
<1>13. PipeInv'
  <2>1. Len(pipe') = Missing'
    <3>1. Missing' = store.sender + 1 - (client.expect + 1)
      BY DEF Missing
    <3>2. Len(pipe') = Len(pipe) - 1
      BY DEF Moves
    <3> QED
      BY <3>1, <3>2, <1>5, <1>6
  <2>2. \A i \in DOMAIN pipe' : pipe'[i].n = client'.expect + i - 1
    <3> SUFFICES ASSUME NEW i \in DOMAIN pipe'
                 PROVE  pipe'[i].n = client'.expect + i - 1
      OBVIOUS
    <3>1. i \in Nat /\ i + 1 \in DOMAIN pipe /\ pipe'[i] = pipe[i + 1]
      BY DEF Moves
    <3>2. pipe'[i].n = store.sender - Len(pipe) + (i + 1)
      BY <3>1, <1>2
    <3>3. store.sender - Len(pipe) + (i + 1) = (client.expect + 1) + i - 1
      <4>1. \A e, l, j \in Int : (e + l - 1) - l + (j + 1) = (e + 1) + j - 1
        OBVIOUS
      <4>2. i \in Int /\ client.expect \in Int /\ Len(pipe) \in Int
        BY <3>1, <1>5
      <4> QED
        BY <4>1, <4>2, <1>6
    <3> QED
      BY <3>2, <3>3
  <2>3. /\ client'.expect > client'.gap /\ client'.gap = 0 /\ client'.expect > 1
        /\ ~(client'.expect <= client'.gap)
    <3>1. client'.gap = 0 /\ client'.expect = client.expect + 1
      BY <1>1
    <3> QED
      BY <3>1, <1>5
  <2> QED
    BY <2>1, <2>2, <2>3 DEF PipeInv
<1>14. HandledInv'
  <2>1. ~Tracking => \A n \in Number : handled[n] = 0
    BY <1>2 DEF HandledInv
  <2>2. client'.expect # 1
    BY <1>5
  <2> QED
    BY <2>1, <2>2, <1>1, <1>3 DEF HandledInv
<1>15. HandledOnce'
  BY DEF HandledOnce
<1> QED
  BY <1>7, <1>8, <1>9, <1>10, <1>11, <1>12, <1>13, <1>14, <1>15

\* The answer to the Logon comes after a gap, which the client asks for.
LEMMA ReceiveGapInv ==
    ASSUME IInv, InSession, client.link = "connecting", Moves, pipe[1].n > client.expect,
           Transmit([Received EXCEPT !.gap = pipe[1].n - 1], "resend", client.expect),
           UNCHANGED <<serviceType, main, store, state, rangeEnd, handled, interrupted>>
    PROVE  IInv'
<1> USE DEF IInv
<1>1. /\ state = "inSession" /\ wire = None /\ client.gap = 0 /\ client.cursor = client.next
      /\ main # "off"
  BY DEF LinkInv
<1>2. /\ pipe[1].kind = "logon" /\ 1 \in DOMAIN pipe
      /\ \A i \in DOMAIN pipe : pipe[i].n = store.sender - Len(pipe) + i
      /\ ~Tracking => pipe[1].n = 1
  BY DEF ConnectingInv, Moves
<1>3. /\ client.expect \in Nat /\ client.expect >= 1 /\ store.sender \in Nat /\ Len(pipe) \in Nat
      /\ Len(pipe) >= 1 /\ pipe[1].n \in Nat /\ pipe[1].n <= MaxSeq /\ MaxSeq \in Nat
      /\ client.next \in Nat /\ store.target \in Nat /\ rangeEnd \in Nat
  <2>1. client.expect \in Nat /\ client.expect >= 1 /\ client.next \in Nat
    BY ClientType
  <2>2. store.sender \in Nat /\ store.target \in Nat /\ rangeEnd \in Nat /\ MaxSeq \in Nat
    BY StoreType, AcceptorAssumption DEF TypeOK
  <2>3. Len(pipe) \in Nat /\ Len(pipe) >= 1 /\ pipe[1].n \in Nat
    BY <1>2 DEF Moves
  <2>4. pipe[1].n <= MaxSeq
    BY DEF Moves, GatewayMessage, Number
  <2> QED
    BY <2>1, <2>2, <2>3, <2>4
<1>4. /\ Tracking /\ pipe[1].n = store.sender - Len(pipe) + 1 /\ pipe[1].n <= store.sender
      /\ pipe[1].n - 1 \in 0..MaxSeq /\ client.expect \in 0..MaxSeq /\ client.expect <= pipe[1].n - 1
  <2>1. pipe[1].n > client.expect
    OBVIOUS
  <2>2. pipe[1].n = store.sender - Len(pipe) + 1
    BY <1>2
  <2>3. pipe[1].n # 1 /\ client.expect <= pipe[1].n - 1 /\ pipe[1].n - 1 \in 0..MaxSeq
    BY <2>1, <1>3
  <2>4. client.expect \in 0..MaxSeq /\ pipe[1].n <= store.sender
    BY <2>1, <2>2, <1>3
  <2> QED
    BY <2>2, <2>3, <2>4, <1>2
<1> DEFINE c == [Received EXCEPT !.gap = pipe[1].n - 1]
<1>5. /\ c \in ClientState /\ c.link = "on" /\ c.reset = FALSE /\ c.cursor = client.next
      /\ c.next = client.next /\ c.sent = client.sent /\ c.expect = client.expect
      /\ c.gap = pipe[1].n - 1
  <2>1. /\ Received \in ClientState /\ Received.link = "on" /\ Received.reset = FALSE
        /\ Received.cursor = client.next /\ Received.next = client.next /\ Received.sent = client.sent
        /\ Received.expect = client.expect
    BY <1>1, <1>2, ReceivedType
  <2>2. PICK r \in ClientState : r = Received
    BY <2>1
  <2>3. [r EXCEPT !.gap = pipe[1].n - 1] \in ClientState
    BY <1>4 DEF ClientState
  <2> QED
    BY <2>1, <2>2, <2>3 DEF ClientState
<1>6. Transmit(c, "resend", client.expect)
  OBVIOUS
<1> HIDE DEF c
<1>7. Len(client.sent) = client.next - 1 /\ DOMAIN client.sent = 1..(client.next - 1)
  BY ClientType DEF SentInv
<1>8. Transmits(c, "resend", client.expect)
  BY <1>4, <1>5, <1>6, <1>7, Transmitted
<1>9. /\ wire' \in ClientMessage /\ wire' # None /\ wire'.n = client.next /\ wire'.last = client.next
      /\ wire'.kind = "resend" /\ wire'.begin = client.expect /\ wire'.possDup = FALSE
      /\ client' \in ClientState /\ client'.link = "on" /\ client'.expect = client.expect
      /\ client'.gap = pipe[1].n - 1 /\ client'.reset = FALSE
      /\ client'.next = client.next + 1 /\ client'.cursor = client.next + 1
      /\ Len(client'.sent) = client.next /\ DOMAIN client'.sent = 1..client.next
      /\ \A k \in 1..(client.next - 1) : client'.sent[k] = client.sent[k]
  BY <1>5, <1>8 DEF Transmits
<1>10. /\ InSession' /\ Tracking' = Tracking /\ ~New /\ ~Again /\ New' /\ ~Again'
       /\ Requested'
  BY <1>1, <1>9 DEF InSession, Tracking, New, Again, Requested
<1>11. /\ Asking' = Asking
       /\ \A i \in DOMAIN pipe' : pipe'[i].kind = "resend" => i = 1 /\ pipe'[i].begin = store.target + 1
  BY MovesAsking
<1>12. TypeOK'
  BY <1>9 DEF TypeOK, ClientState, Moves
<1>13. LinkInv' /\ ResetInv'
  <2>1. ~client'.reset
    BY <1>9
  <2>2. LinkInv'
    BY <2>1, <1>1, <1>9, <1>10 DEF LinkInv
  <2> QED
    BY <2>1, <2>2 DEF ResetInv
<1>14. SentInv'
  <2>1. Matches(wire)'
    <3>1. client'.sent[client.next] = "admin"
      BY <1>5, <1>8 DEF Transmits, MsgType
    <3> QED
      BY <3>1, <1>3, <1>9, TransmittedMatches DEF MsgType
  <2>2. Len(client'.sent) = client'.next - 1
    BY <1>3, <1>9
  <2> QED
    BY <2>1, <2>2, <1>1 DEF SentInv
<1>15. LogonInv' /\ ConnectingInv' /\ ResendInv'
  BY <1>1, <1>4, <1>9, <1>10 DEF LogonInv, ConnectingInv, ResendInv
<1>16. StoreInv'
  <2>1. /\ store.target < client.next /\ client.expect <= store.sender + 1
        /\ store.msgs = IF Tracking THEN 1..store.sender ELSE {}
    BY <1>4 DEF StoreInv
  <2>2. store.target < client'.next /\ client'.expect <= store.sender + 1
    BY <2>1, <1>3, <1>9
  <2> QED
    BY <2>1, <2>2, <1>10 DEF StoreInv
<1>17. AskingInv'
  BY <1>9, <1>11 DEF AskingInv
<1>18. AskedInv'
  <2> SUFFICES ASSUME rangeEnd # 0
               PROVE  AskedInv'
    BY DEF AskedInv
  <2>1. /\ rangeEnd > store.target /\ rangeEnd <= client.next - 2
        /\ ~Asking => client.cursor = store.target + 1
    BY <1>10 DEF AskedInv
  <2>2. Asking
    BY <2>1, <1>1, <1>3
  <2>3. /\ rangeEnd <= client'.next - 2 /\ wire'.n > rangeEnd + 1 /\ wire'.n = client'.next - 1
        /\ client'.cursor = client'.next
    <3>1. wire'.n = client.next /\ client'.next = client.next + 1 /\ client'.cursor = client.next + 1
      BY <1>9
    <3> QED
      BY <2>1, <3>1, <1>3
  <2> QED
    BY <2>1, <2>2, <2>3, <1>1, <1>10, <1>11 DEF AskedInv
<1>19. InStepInv'
  <2> SUFFICES ASSUME rangeEnd = 0
               PROVE  InStepInv'
    BY DEF InStepInv
  <2>1. ~Asking /\ store.target = client.next - 1
    BY <1>1, <1>3 DEF InStepInv
  <2>2. InOrder' /\ client'.cursor <= wire'.n + 1
    BY <2>1, <1>3, <1>9 DEF InOrder
  <2>3. (wire'.n + 1)..(client'.next - 1) = {}
    BY <1>3, <1>9
  <2> QED
    BY <2>1, <2>2, <2>3, <1>1, <1>9, <1>10, <1>11 DEF InStepInv
<1>20. PipeInv'
  <2>1. \A i \in DOMAIN pipe' : pipe'[i].n > pipe[1].n - 1
    <3> SUFFICES ASSUME NEW i \in DOMAIN pipe'
                 PROVE  pipe'[i].n > pipe[1].n - 1
      OBVIOUS
    <3>1. i \in Nat /\ i + 1 \in DOMAIN pipe /\ pipe'[i] = pipe[i + 1]
      BY DEF Moves
    <3>2. pipe[i + 1].n = store.sender - Len(pipe) + (i + 1)
      BY <3>1, <1>2
    <3> QED
      BY <3>1, <3>2, <1>3, <1>4
  <2>2. ~(client'.expect > client'.gap) /\ client'.gap <= store.sender
    <3>1. client'.expect = client.expect /\ client'.gap = pipe[1].n - 1
      BY <1>9
    <3>2. pipe[1].n <= store.sender /\ client.expect <= pipe[1].n - 1
      BY <1>4
    <3> QED
      BY <3>1, <3>2, <1>3
  <2> QED
    BY <2>1, <2>2, <1>4, <1>9, <1>10 DEF PipeInv
<1>21. HandledInv'
  <2>1. \A n \in DOMAIN client'.sent :
            n <= store.target /\ client'.sent[n] \in MsgType => handled[n] > 0
    <3> SUFFICES ASSUME NEW n \in 1..client.next, n <= store.target, client'.sent[n] \in MsgType
                 PROVE  handled[n] > 0
      BY <1>9
    <3>0. store.target < client.next
      BY DEF StoreInv
    <3>1. n \in 1..(client.next - 1)
      BY <3>0, <1>3
    <3>2. n \in DOMAIN client.sent /\ client'.sent[n] = client.sent[n]
      BY <3>1, <1>7, <1>9
    <3> QED
      BY <3>2 DEF HandledInv
  <2> QED
    BY <2>1, <1>1, <1>4, <1>9, <1>10 DEF HandledInv
<1>22. HandledOnce'
  BY <1>1 DEF HandledOnce
<1> QED
  BY <1>12, <1>13, <1>14, <1>15, <1>16, <1>17, <1>18, <1>19, <1>20, <1>21, <1>22

LEMMA ClientReceiveInv ==
    ASSUME IInv, ClientReceive
    PROVE  IInv'
<1> USE DEF IInv
<1> DEFINE c == [client EXCEPT !.link = "on", !.reset = FALSE,
                               !.cursor = IF Head(pipe).kind = "resend" THEN Head(pipe).begin ELSE @]
<1>1. client.link # "off" /\ state \notin {"latent", "logon"} /\ pipe # <<>>
  BY DEF ClientReceive
<1>2. InSession /\ client.link \in {"connecting", "on"}
  BY <1>1, ClientType DEF InSession, TypeOK
<1>3. c.expect = client.expect /\ c.gap = client.gap
  BY ClientType DEF ClientState
<1>4. CASE Head(pipe).n = c.expect /\ client' = [c EXCEPT !.expect = @ + 1] /\ pipe' = Tail(pipe)
           /\ UNCHANGED <<processVars, gatewayVars, wire, countVars>>
  <2>1. Moves
    BY <1>1, <1>4, PipeMoves
  <2>2. /\ Received \in ClientState /\ Received.link = "on" /\ Received.reset = FALSE
        /\ Received.cursor = IF pipe[1].kind = "resend" THEN pipe[1].begin ELSE client.cursor
        /\ Received.next = client.next /\ Received.sent = client.sent
        /\ Received.expect = client.expect /\ Received.gap = client.gap
    BY <2>1, <1>2, ReceivedType
  <2>3. c = Received /\ pipe[1].n = client.expect
    BY <2>1, <1>3, <1>4 DEF Moves, Received
  <2>4. client' = [Received EXCEPT !.expect = Received.expect + 1]
    BY <2>2, <2>3, <1>4 DEF ClientState
  <2>5. client.expect + 1 \in 1..(MaxSeq + 1)
    BY <2>1, <2>3, AcceptorAssumption DEF Moves, GatewayMessage, Number
  <2>6. [Received EXCEPT !.expect = Received.expect + 1] \in ClientState
    BY <2>2, <2>5 DEF ClientState
  <2>7. /\ client' \in ClientState /\ client'.link = "on" /\ client'.reset = FALSE
        /\ client'.cursor = Received.cursor /\ client'.next = client.next /\ client'.sent = client.sent
        /\ client'.expect = client.expect + 1 /\ client'.gap = client.gap
    BY <2>2, <2>4, <2>6 DEF ClientState
  <2> HIDE DEF c
  <2>8. UNCHANGED <<serviceType, main, store, state, rangeEnd, wire, handled, interrupted>>
    BY <1>4 DEF processVars, gatewayVars, countVars
  <2>9. CASE client.link = "on"
    BY <2>1, <2>2, <2>3, <2>7, <2>8, <2>9, ReceiveOnInv
  <2>10. CASE client.link = "connecting"
    BY <2>1, <2>2, <2>3, <2>7, <2>8, <2>10, <1>2, ReceiveLogonInv
  <2> QED
    BY <2>9, <2>10, <1>2
<1>5. CASE Head(pipe).n > c.expect /\ c.expect <= c.gap /\ client' = c /\ pipe' = Tail(pipe)
           /\ UNCHANGED <<processVars, gatewayVars, wire, countVars>>
  <2>1. Moves
    BY <1>1, <1>5, PipeMoves
  <2>2. /\ Received \in ClientState /\ Received.link = "on" /\ Received.reset = FALSE
        /\ Received.cursor = IF pipe[1].kind = "resend" THEN pipe[1].begin ELSE client.cursor
        /\ Received.next = client.next /\ Received.sent = client.sent
        /\ Received.expect = client.expect /\ Received.gap = client.gap
    BY <2>1, <1>2, ReceivedType
  <2>3. client' = Received /\ pipe[1].n > client.expect /\ client.expect <= client.gap
    BY <2>1, <1>3, <1>5 DEF Moves, Received
  <2>4. client.link = "on"
    <3>1. client.expect >= 1 /\ client.gap \in Nat /\ client.expect \in Nat
      BY ClientType
    <3> QED
      BY <2>3, <3>1 DEF LinkInv
  <2>5. UNCHANGED <<serviceType, main, store, state, rangeEnd, wire, handled, interrupted>>
    BY <1>5 DEF processVars, gatewayVars, countVars
  <2> HIDE DEF c
  <2> QED
    BY <2>1, <2>2, <2>3, <2>4, <2>5, ReceiveOnInv
<1>6. CASE Head(pipe).n > c.expect /\ c.expect > c.gap /\ pipe' = Tail(pipe)
           /\ Transmit([c EXCEPT !.gap = Head(pipe).n - 1], "resend", c.expect)
           /\ UNCHANGED <<processVars, gatewayVars, countVars>>
  <2>1. Moves
    BY <1>1, <1>6, PipeMoves
  <2>2. c = Received /\ Head(pipe) = pipe[1] /\ 1 \in DOMAIN pipe /\ pipe[1].n \in Nat
    BY <2>1 DEF Moves, Received
  <2>3. client.expect \in Nat
    BY ClientType
  <2>4. client.link = "connecting"
    <3>1. client.link = "on" => pipe[1].n = client.expect + 1 - 1
      BY <2>2, <1>3, <1>6 DEF PipeInv
    <3> QED
      BY <2>2, <2>3, <3>1, <1>2, <1>3, <1>6
  <2>5. /\ Transmit([Received EXCEPT !.gap = pipe[1].n - 1], "resend", client.expect)
        /\ pipe[1].n > client.expect
    BY <2>2, <1>3, <1>6
  <2>6. UNCHANGED <<serviceType, main, store, state, rangeEnd, handled, interrupted>>
    BY <1>6 DEF processVars, gatewayVars, countVars
  <2> HIDE DEF c
  <2> QED
    BY <2>1, <2>4, <2>5, <2>6, <1>2, ReceiveGapInv
<1>7. CASE state = "inSession" /\ HangUp(store)
  BY <1>7, HangUpInv
<1> QED
  BY <1>4, <1>5, <1>6, <1>7 DEF ClientReceive
-----------------------------------------------------------------------------
(***************************************************************************)
(* The theorems.                                                           *)
(***************************************************************************)

LEMMA InitInv == Init => IInv
<1> SUFFICES ASSUME Init
             PROVE  IInv
  OBVIOUS
<1> USE DEF Init
<1>1. 0 \in 0..MaxSeq /\ 1 \in 1..(MaxSeq + 1) /\ 1..0 = {}
  BY AcceptorAssumption
<1>2. <<>> \in Seq(MsgType \cup {"admin"}) /\ Len(<<>>) = 0 /\ <<>> \in Seq(GatewayMessage)
  OBVIOUS
<1>3. /\ client \in ClientState /\ client.link = "off" /\ client.next = 1 /\ client.cursor = 1
      /\ client.sent = <<>> /\ client.expect = 1 /\ client.gap = 0 /\ client.reset = FALSE
  BY <1>1, <1>2 DEF NewClient, ClientState
<1>4. /\ store \in [sender : 0..MaxSeq, target : 0..MaxSeq, msgs : SUBSET Number]
      /\ store.sender = 0 /\ store.target = 0 /\ store.msgs = {}
  BY <1>1 DEF EmptyStore
<1>5. handled \in [Number -> Nat] /\ \A n \in Number : handled[n] = 0
  OBVIOUS
<1>6. ~InSession /\ pipe = <<>> /\ wire = None /\ rangeEnd = 0
      /\ state = "latent"
  BY DEF InSession
<1>7. TypeOK
  <2>1. pipe \in Seq(GatewayMessage) /\ rangeEnd \in 0..MaxSeq
    BY <1>1, <1>2
  <2>2. client \in [link : {"off", "connecting", "on"}, next : 1..(MaxSeq + 1),
                    cursor : 1..(MaxSeq + 1), sent : Seq(MsgType \cup {"admin"}),
                    expect : 1..(MaxSeq + 1), gap : 0..MaxSeq, reset : BOOLEAN]
    BY <1>3 DEF ClientState
  <2> QED
    BY <2>1, <2>2, <1>4, <1>5 DEF TypeOK
<1>8. LinkInv /\ SentInv /\ ResetInv
  BY <1>2, <1>3, <1>6 DEF LinkInv, SentInv, ResetInv
<1>9. StoreInv
  BY <1>1, <1>3, <1>4, <1>6 DEF StoreInv
<1>10. LogonInv /\ AskedInv /\ InStepInv /\ ResendInv /\ AskingInv /\ ConnectingInv /\ PipeInv
  BY <1>3, <1>6 DEF LogonInv, AskedInv, InStepInv, ResendInv, AskingInv, ConnectingInv, PipeInv
<1>11. HandledInv
  <2>1. DOMAIN client.sent = {}
    BY <1>3
  <2> QED
    BY <2>1, <1>5, <1>6 DEF HandledInv
<1>12. HandledOnce
  BY <1>5, <1>6 DEF HandledOnce
<1> QED
  BY <1>7, <1>8, <1>9, <1>10, <1>11, <1>12 DEF IInv

LEMMA NextInv == IInv /\ [Next]_vars => IInv'
<1> SUFFICES ASSUME IInv, [Next]_vars
             PROVE  IInv'
  OBVIOUS
<1>1. CASE GatewayNew
  BY <1>1, GatewayNewInv
<1>2. CASE StartOrderRouting
  BY <1>2, StartOrderRoutingInv
<1>3. CASE Exit
  BY <1>3, ExitInv
<1>4. CASE SendToTarget
  BY <1>4, SendToTargetInv
<1>5. CASE Disconnect
  BY <1>5, HangUpInv DEF Disconnect
<1>6. CASE LogonRefused
  BY <1>6, LogonRefusedInv
<1>7. CASE FromAdmin
  BY <1>7, FromAdminInv
<1>8. CASE LogonReply
  BY <1>8, LogonReplyInv
<1>9. CASE FromApp
  BY <1>9, FromAppInv
<1>10. CASE Route
  BY <1>10, RouteInv
<1>11. CASE AppCounted
  BY <1>11, AppCountedInv
<1>12. CASE AdminCounted
  BY <1>12, AdminCountedInv
<1>13. CASE ResendRequest
  BY <1>13, ResendRequestInv
<1>14. CASE TooHigh
  BY <1>14, TooHighInv
<1>15. CASE ClientLogon
  BY <1>15, ClientLogonInv
<1>16. CASE ClientReset
  BY <1>16, ClientResetInv
<1>17. CASE ClientSendAgain
  BY <1>17, ClientSendAgainInv
<1>18. CASE ClientReceive
  BY <1>18, ClientReceiveInv
<1>19. CASE \E kind \in MsgType \cup {"admin"} : ClientSend(kind)
  BY <1>19, ClientSendInv
<1>20. CASE UNCHANGED vars
  BY <1>20, StutterInv
<1> QED
  BY <1>1, <1>2, <1>3, <1>4, <1>5, <1>6, <1>7, <1>8, <1>9, <1>10, <1>11, <1>12, <1>13, <1>14,
     <1>15, <1>16, <1>17, <1>18, <1>19, <1>20 DEF Next

\* The invariant of a session: what each side remembers, what is on its way
\* and what is stored fit together in every state of fix.New's acceptors.
THEOREM SessionInvariant == Spec => []IInv
<1>1. Init => IInv
  BY InitInv
<1>2. IInv /\ [Next]_vars => IInv'
  BY NextInv
<1> QED
  BY <1>1, <1>2, PTL DEF Spec

\* The variables of main, the session and the client keep their types: no
\* number leaves its bound.
THEOREM SessionTypes == Spec => []TypeOK
<1>1. IInv => TypeOK
  BY DEF IInv
<1> QED
  BY <1>1, SessionInvariant, PTL

\* What a client that is logged on has not received is on its way or in the
\* message store, so noStore never has to answer a resend request.
THEOREM MessagesArrive == Spec => []EveryMessageArrives
<1>1. IInv => EveryMessageArrives
  <2> SUFFICES ASSUME IInv, client.link = "on"
               PROVE  \/ client.expect..store.sender \subseteq store.msgs
                      \/ /\ Len(pipe) = store.sender + 1 - client.expect
                         /\ \A i \in 1..Len(pipe) : pipe[i].n = client.expect + i - 1
    BY DEF EveryMessageArrives
  <2> USE DEF IInv
  <2>1. client.expect \in Nat /\ client.expect >= 1 /\ client.gap \in Nat
    BY ClientType
  <2>2. CASE Tracking
    <3>1. store.msgs = 1..store.sender
      BY <2>2 DEF StoreInv
    <3>2. client.expect..store.sender \subseteq 1..store.sender
      BY <2>1, StoreType
    <3> QED
      BY <3>1, <3>2
  <2>3. CASE ~Tracking
    <3>1. client.expect > client.gap
      BY <2>1, <2>3 DEF PipeInv
    <3> QED
      BY <3>1, PipeType DEF PipeInv, Missing
  <2> QED
    BY <2>2, <2>3
<1> QED
  BY <1>1, SessionInvariant, PTL

\* Whatever dies or is lost, neither side of an order routing session falls
\* behind the number that the other one expects.
THEOREM NumbersTracked == Spec => []StrictlyTracked
<1>1. IInv => StrictlyTracked
  BY DEF IInv, StoreInv, StrictlyTracked, Tracking
<1> QED
  BY <1>1, SessionInvariant, PTL

\* In session, verifySelect refuses no message of the client: no number is
\* too low, and one that is too high was asked for.
THEOREM NoneRefused == Spec => []NeverRefused
<1>1. IInv => NeverRefused
  <2> SUFFICES ASSUME IInv, Arrived
               PROVE  /\ wire.n > store.target
                      /\ wire.n > store.target + 1 => rangeEnd # 0
    BY DEF NeverRefused
  <2> USE DEF IInv
  <2>1. InSession /\ wire # None
    BY DEF Arrived, InSession
  <2>2. wire.n \in Nat /\ store.target \in Nat /\ rangeEnd \in Nat
    BY <2>1, WireType, StoreType, AcceptorAssumption DEF TypeOK
  <2>3. CASE rangeEnd = 0
    BY <2>1, <2>2, <2>3 DEF InStepInv, InOrder
  <2>4. CASE rangeEnd # 0
    <3>1. CASE Again
      BY <2>1, <2>2, <2>4, <3>1 DEF AskedInv
    <3>2. CASE ~Again
      <4>1. New
        BY <2>1, <3>2 DEF New, Again
      <4> QED
        BY <2>1, <2>2, <2>4, <4>1 DEF AskedInv
    <3> QED
      BY <3>1, <3>2
  <2> QED
    BY <2>3, <2>4
<1> QED
  BY <1>1, SessionInvariant, PTL

\* FromApp routes a message once, and twice only if the process died between
\* routing it and counting it.
THEOREM RoutedOnce == Spec => []HandledOnce
<1>1. IInv => HandledOnce
  BY DEF IInv
<1> QED
  BY <1>1, SessionInvariant, PTL

\* No message of the client is counted that FromApp did not route.
THEOREM NoneSkipped == Spec => []CountedIsHandled
<1>1. IInv => CountedIsHandled
  BY DEF IInv, HandledInv, CountedIsHandled
<1> QED
  BY <1>1, SessionInvariant, PTL
=============================================================================
