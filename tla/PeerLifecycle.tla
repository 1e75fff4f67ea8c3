--------------------------- MODULE PeerLifecycle ---------------------------
(***************************************************************************)
(* The life of a Peer: a FIX session's logon creates it, its websocket is  *)
(* pumped by Peer.listen into Service.listen, its loss is reported by the  *)
(* goroutine FromAdmin spawned, and OnLogout or Service.Stop closes it.    *)
(*                                                                         *)
(* Goroutines: one per FIX session (quickfix calls FromAdmin and OnLogout  *)
(* on it, one at a time), Service.listen, the main goroutine (Stop), and   *)
(* two per Peer: Peer.listen and the disconnect watcher.  They share       *)
(* Service.lock, the unbuffered channels inbound (toParent), disconnect    *)
(* and exit, and the unsynchronised field Peer.started.                    *)
(***************************************************************************)
CONSTANTS Session,      \* FIX session identifiers
          Peer,         \* Peer objects that may be allocated: bounds the logons
          NoSession, NoPeer,
          Main, Free    \* lock holders besides a session: Stop, nobody

ASSUME IdAssumption ==
    /\ NoSession \notin Session
    /\ NoPeer \notin Peer
    /\ Main \notin Session
    /\ Free \notin Session \cup {Main}

VARIABLES
    peers,      \* Service.peers
    lock,       \* Service.lock: its holder
    svc,        \* the peer whose message Service.listen is handling
    inbound,    \* Service.inbound: "open" or "closed"
    main,       \* where Service.Stop is
    toClose,    \* sessions Stop's loop over peers still has to visit
    sess,       \* quickfix's view of a FIX session
    pc,         \* the session goroutine: "idle" or inside FromAdmin ("logon")
    closing,    \* the peer the lock holder is running Close on
    closePc,    \* where that Close is: "none", "wait" (<-exit), "end"
    owner,      \* Peer.sessionID; NoSession: not allocated yet
    started,    \* Peer.started
    ws,         \* the websocket client of a peer
    listen,     \* where the goroutine Peer.listen is
    disconnect, \* Peer.disconnect: "open" or "closed"
    watch,      \* the goroutine waiting on Peer.disconnect
    panic       \* the run-time panic that ended the process, or "none"

sharedVars == <<peers, lock, svc, inbound>>
stopVars   == <<main, toClose>>
sessVars   == <<sess, pc>>
closeVars  == <<closing, closePc>>
peerVars   == <<owner, started, ws, listen, disconnect, watch>>
vars == <<sharedVars, stopVars, sessVars, closeVars, peerVars, panic>>

Init ==
    /\ peers = [s \in Session |-> NoPeer]
    /\ lock = Free
    /\ svc = NoPeer
    /\ inbound = "open"
    /\ main = "running"
    /\ toClose = {}
    /\ sess = [s \in Session |-> "latent"]
    /\ pc = [s \in Session |-> "idle"]
    /\ closing = NoPeer
    /\ closePc = "none"
    /\ owner = [p \in Peer |-> NoSession]
    /\ started = [p \in Peer |-> FALSE]
    /\ ws = [p \in Peer |-> "new"]
    /\ listen = [p \in Peer |-> "none"]
    /\ disconnect = [p \in Peer |-> "open"]
    /\ watch = [p \in Peer |-> "none"]
    /\ panic = "none"
-----------------------------------------------------------------------------
(***************************************************************************)
(* FromAdmin on a Logon message, run by the session goroutine.  quickfix   *)
(* also calls it for a Logon received while the session is logged on.      *)
(***************************************************************************)

\* peer.New: a Peer for the session, with its two channels open.
New(s, p) ==
    /\ owner[p] = NoSession
    /\ owner' = [owner EXCEPT ![p] = s]

\* Faulty variant: the disconnect watcher is not spawned.
AddPeerUnwatched(s, p) ==
    /\ panic = "none"
    /\ pc[s] = "idle"
    /\ sess[s] # "stopped"
    /\ lock = Free
    /\ New(s, p)
    /\ peers' = [peers EXCEPT ![s] = p]
    /\ pc' = [pc EXCEPT ![s] = "logon"]
    /\ UNCHANGED <<lock, svc, inbound, stopVars, sess, closeVars,
                   started, ws, listen, disconnect, watch, panic>>

\* peer.New, Service.AddPeer and the spawn of the disconnect watcher.
AddPeer(s, p) ==
    /\ panic = "none"
    /\ pc[s] = "idle"
    /\ sess[s] # "stopped"
    /\ lock = Free
    /\ New(s, p)
    /\ peers' = [peers EXCEPT ![s] = p]
    /\ watch' = [watch EXCEPT ![p] = "wait"]
    /\ pc' = [pc EXCEPT ![s] = "logon"]
    /\ UNCHANGED <<lock, svc, inbound, stopVars, sess, closeVars,
                   started, ws, listen, disconnect, panic>>

\* Faulty variant: the rejected logon's peer is dropped from the map.
LogonRejectedForgets(s) ==
    /\ panic = "none"
    /\ pc[s] = "logon"
    /\ pc' = [pc EXCEPT ![s] = "idle"]
    /\ peers' = [peers EXCEPT ![s] = NoPeer]
    /\ UNCHANGED <<lock, svc, inbound, stopVars, sess, closeVars, peerVars, panic>>

\* A credential tag is missing: FromAdmin returns an error.  quickfix drops
\* the connection of a session that was not logged on without calling
\* OnLogout, and starts a logout of one that was.
LogonRejected(s) ==
    /\ panic = "none"
    /\ pc[s] = "logon"
    /\ pc' = [pc EXCEPT ![s] = "idle"]
    /\ UNCHANGED <<sharedVars, stopVars, sess, closeVars, peerVars, panic>>

\* A credential tag is present and empty (FromAdmin returns the nil err), or
\* Ws.Connect fails (the logout it queues is dropped by quickfix when it
\* answers the logon): the session is logged on without a websocket.
LogonWithoutWebsocket(s) ==
    /\ panic = "none"
    /\ pc[s] = "logon"
    /\ pc' = [pc EXCEPT ![s] = "idle"]
    /\ sess' = [sess EXCEPT ![s] = "loggedOn"]
    /\ UNCHANGED <<sharedVars, stopVars, closeVars, peerVars, panic>>

\* FindPeer and Peer.Logon: the websocket connects and listen is spawned.
\* The session is logged on unless quickfix fails to store its reply.
LogonConnected(s) ==
    LET p == peers[s] IN
    /\ panic = "none"
    /\ pc[s] = "logon"
    /\ lock = Free
    /\ p # NoPeer
    /\ ws' = [ws EXCEPT ![p] = "up"]
    /\ listen' = [listen EXCEPT ![p] = "spawned"]
    /\ pc' = [pc EXCEPT ![s] = "idle"]
    /\ \/ sess' = [sess EXCEPT ![s] = "loggedOn"]
       \/ UNCHANGED sess
    /\ UNCHANGED <<sharedVars, stopVars, closeVars, owner, started,
                   disconnect, watch, panic>>
-----------------------------------------------------------------------------
(***************************************************************************)
(* Peer.Close, run with Service.lock held by RemovePeer or Stop.           *)
(***************************************************************************)

\* Faulty variant: Close does not wait for listen.
CloseEnterNoWait(p) ==
    /\ closing' = p
    /\ closePc' = "end"
    /\ ws' = [ws EXCEPT ![p] = IF started[p] THEN "closed" ELSE @]

\* The test of started, and Ws.Close when it is set.
CloseEnter(p) ==
    /\ closing' = p
    /\ closePc' = IF started[p] THEN "wait" ELSE "end"
    /\ ws' = [ws EXCEPT ![p] = IF started[p] THEN "closed" ELSE @]

\* <-p.exit: listen has closed it.
CloseExited ==
    /\ panic = "none"
    /\ closePc = "wait"
    /\ listen[closing] = "done"
    /\ closePc' = "end"
    /\ UNCHANGED <<sharedVars, stopVars, sessVars, closing, peerVars, panic>>

\* Faulty variant: the disconnect channel is left open.
CloseEndLeavesOpen ==
    /\ closePc = "end"
    /\ closing' = NoPeer
    /\ closePc' = "none"
    /\ UNCHANGED <<disconnect, panic>>

\* close(p.disconnect): closing a closed channel panics.
CloseEnd ==
    /\ closePc = "end"
    /\ closing' = NoPeer
    /\ closePc' = "none"
    /\ disconnect' = [disconnect EXCEPT ![closing] = "closed"]
    /\ panic' = IF disconnect[closing] = "closed" THEN "close of closed disconnect"
                                                  ELSE panic

\* Faulty variant: the entry is deleted before the peer is closed.
RemovePeerDeletesFirst(s) ==
    /\ panic = "none"
    /\ pc[s] = "idle"
    /\ sess[s] = "loggedOn"
    /\ lock = Free
    /\ peers[s] # NoPeer
    /\ lock' = s
    /\ CloseEnter(peers[s])
    /\ peers' = [peers EXCEPT ![s] = NoPeer]
    /\ UNCHANGED <<svc, inbound, stopVars, sessVars, owner, started,
                   listen, disconnect, watch, panic>>

\* OnLogout calls RemovePeer, which takes the lock and enters Close.
RemovePeer(s) ==
    /\ panic = "none"
    /\ pc[s] = "idle"
    /\ sess[s] = "loggedOn"
    /\ lock = Free
    /\ peers[s] # NoPeer
    /\ lock' = s
    /\ CloseEnter(peers[s])
    /\ UNCHANGED <<peers, svc, inbound, stopVars, sessVars, owner, started,
                   listen, disconnect, watch, panic>>

\* Faulty variant: the closed peer stays in the map.
PeerRemovedKeepsEntry(s) ==
    /\ panic = "none"
    /\ lock = s
    /\ CloseEnd
    /\ lock' = Free
    /\ sess' = [sess EXCEPT ![s] = "latent"]
    /\ UNCHANGED <<peers, svc, inbound, stopVars, pc, owner, started, ws, listen, watch>>

\* Close returns, the entry is deleted and the lock released.
PeerRemoved(s) ==
    /\ panic = "none"
    /\ lock = s
    /\ CloseEnd
    /\ lock' = Free
    /\ peers' = [peers EXCEPT ![s] = NoPeer]
    /\ sess' = [sess EXCEPT ![s] = "latent"]
    /\ UNCHANGED <<svc, inbound, stopVars, pc, owner, started, ws, listen, watch>>
-----------------------------------------------------------------------------
(***************************************************************************)
(* Service.Stop, called once by the main goroutine.                        *)
(***************************************************************************)

\* FIX.Down asks every session to log out and waits for all of them.
Down ==
    /\ panic = "none"
    /\ main = "running"
    /\ main' = "down"
    /\ UNCHANGED <<sharedVars, toClose, sessVars, closeVars, peerVars, panic>>

\* A session that is asked to stop ends once it is logged out.
SessionStopped(s) ==
    /\ panic = "none"
    /\ main = "down"
    /\ pc[s] = "idle"
    /\ sess[s] = "latent"
    /\ sess' = [sess EXCEPT ![s] = "stopped"]
    /\ UNCHANGED <<sharedVars, stopVars, pc, closeVars, peerVars, panic>>

StopLock ==
    /\ panic = "none"
    /\ main = "down"
    /\ \A s \in Session : sess[s] = "stopped"
    /\ lock = Free
    /\ lock' = Main
    /\ main' = "closing"
    /\ toClose' = {s \in Session : peers[s] # NoPeer}
    /\ UNCHANGED <<peers, svc, inbound, sessVars, closeVars, peerVars, panic>>

StopClose(s) ==
    /\ panic = "none"
    /\ main = "closing"
    /\ closePc = "none"
    /\ s \in toClose
    /\ toClose' = toClose \ {s}
    /\ CloseEnter(peers[s])
    /\ UNCHANGED <<sharedVars, main, sessVars, owner, started, listen,
                   disconnect, watch, panic>>

StopClosed ==
    /\ panic = "none"
    /\ lock = Main
    /\ CloseEnd
    /\ UNCHANGED <<sharedVars, stopVars, sessVars, owner, started, ws, listen, watch>>

\* close(s.inbound) and the release of the lock.
StopEnd ==
    /\ panic = "none"
    /\ main = "closing"
    /\ closePc = "none"
    /\ toClose = {}
    /\ inbound' = "closed"
    /\ lock' = Free
    /\ main' = "stopped"
    /\ UNCHANGED <<peers, svc, toClose, sessVars, closeVars, peerVars, panic>>
-----------------------------------------------------------------------------
(***************************************************************************)
(* Peer.listen.                                                            *)
(***************************************************************************)

\* Faulty variant: the wrong field is set.
ListenStartWrongField(p) ==
    /\ panic = "none"
    /\ listen[p] = "spawned"
    /\ ws' = [ws EXCEPT ![p] = "started"]
    /\ listen' = [listen EXCEPT ![p] = "select"]
    /\ UNCHANGED <<sharedVars, stopVars, sessVars, closeVars, owner, started,
                   disconnect, watch, panic>>

\* The first statement of the goroutine.
ListenStart(p) ==
    /\ panic = "none"
    /\ listen[p] = "spawned"
    /\ started' = [started EXCEPT ![p] = TRUE]
    /\ listen' = [listen EXCEPT ![p] = "select"]
    /\ UNCHANGED <<sharedVars, stopVars, sessVars, closeVars, owner, ws,
                   disconnect, watch, panic>>

\* case msg := <-p.Ws.Listen(): a message.
ListenMessage(p) ==
    /\ panic = "none"
    /\ listen[p] = "select"
    /\ ws[p] \in {"up", "down"}
    /\ listen' = [listen EXCEPT ![p] = "send"]
    /\ UNCHANGED <<sharedVars, stopVars, sessVars, closeVars, owner, started,
                   ws, disconnect, watch, panic>>

\* Faulty variant: the nil message of a closed client is skipped.
ListenReturnOnLoss(p) ==
    /\ panic = "none"
    /\ listen[p] = "select"
    /\ ws[p] = "down"
    /\ listen' = [listen EXCEPT ![p] = "exit"]
    /\ UNCHANGED <<sharedVars, stopVars, sessVars, closeVars, owner, started,
                   ws, disconnect, watch, panic>>

\* The channel of a closed client yields nil; the timer sees a lost
\* connection.  Either way listen returns and its deferred function runs.
ListenReturn(p) ==
    /\ panic = "none"
    /\ listen[p] = "select"
    /\ ws[p] \in {"down", "closed"}
    /\ listen' = [listen EXCEPT ![p] = "exit"]
    /\ UNCHANGED <<sharedVars, stopVars, sessVars, closeVars, owner, started,
                   ws, disconnect, watch, panic>>

\* p.toParent <- msg meets Service.listen's receive.  A message of no
\* interest to this service type is skipped at once (svc' = NoPeer); any
\* other is handed to a handler, which looks a peer up.
Forward(p) ==
    /\ panic = "none"
    /\ listen[p] = "send"
    /\ inbound = "open"
    /\ svc = NoPeer
    /\ svc' \in {p, NoPeer}
    /\ listen' = [listen EXCEPT ![p] = "select"]
    /\ UNCHANGED <<peers, lock, inbound, stopVars, sessVars, closeVars, owner,
                   started, ws, disconnect, watch, panic>>

\* The deferred p.disconnect <- true meets the watcher; then close(p.exit).
ReportDisconnect(p) ==
    /\ panic = "none"
    /\ listen[p] = "exit"
    /\ disconnect[p] = "open"
    /\ watch[p] = "wait"
    /\ listen' = [listen EXCEPT ![p] = "done"]
    /\ watch' = [watch EXCEPT ![p] = "lost"]
    /\ UNCHANGED <<sharedVars, stopVars, sessVars, closeVars, owner, started,
                   ws, disconnect, panic>>

\* A send on a closed channel panics.
SendOnClosed(p) ==
    /\ panic = "none"
    /\ \/ /\ listen[p] = "send"
          /\ inbound = "closed"
          /\ panic' = "send on closed inbound"
       \/ /\ listen[p] = "exit"
          /\ disconnect[p] = "closed"
          /\ panic' = "send on closed disconnect"
    /\ UNCHANGED <<sharedVars, stopVars, sessVars, closeVars, peerVars>>
-----------------------------------------------------------------------------
(***************************************************************************)
(* The watcher: dc := <-disconnect, then FindPeer, then perhaps logout.    *)
(***************************************************************************)

\* Receiving from the channel Close closed yields false.
WatchClosed(p) ==
    /\ panic = "none"
    /\ watch[p] = "wait"
    /\ disconnect[p] = "closed"
    /\ watch' = [watch EXCEPT ![p] = "closed"]
    /\ UNCHANGED <<sharedVars, stopVars, sessVars, closeVars, owner, started,
                   ws, listen, disconnect, panic>>

\* dc && ok: the session is sent a "downstream disconnect" logout; the
\* goroutine panics if the message cannot be queued.
WatchLogout(p) ==
    /\ panic = "none"
    /\ watch[p] = "lost"
    /\ lock = Free
    /\ peers[owner[p]] # NoPeer
    /\ watch' = [watch EXCEPT ![p] = "done"]
    /\ panic' \in {panic, "logout failed"}
    /\ UNCHANGED <<sharedVars, stopVars, sessVars, closeVars, owner, started,
                   ws, listen, disconnect>>

\* FindPeer found no peer, or the channel was closed: nothing to report.
WatchQuiet(p) ==
    /\ panic = "none"
    /\ watch[p] \in {"lost", "closed"}
    /\ lock = Free
    /\ watch[p] = "closed" \/ peers[owner[p]] = NoPeer
    /\ watch' = [watch EXCEPT ![p] = "done"]
    /\ UNCHANGED <<sharedVars, stopVars, sessVars, closeVars, owner, started,
                   ws, listen, disconnect, panic>>
-----------------------------------------------------------------------------
(***************************************************************************)
(* Service.listen and the websocket.                                       *)
(***************************************************************************)

\* A handler of service/websocket: FindPeer by the message's session, then
\* work on the peer it found (none: the handler returns an error).
Handle(p) ==
    /\ panic = "none"
    /\ svc = p
    /\ lock = Free
    /\ svc' = NoPeer
    /\ UNCHANGED <<peers, lock, inbound, stopVars, sessVars, closeVars, peerVars, panic>>

\* The client's connection is lost, and its automatic reconnection succeeds.
WsFlip(p) ==
    /\ panic = "none"
    /\ \/ ws[p] = "up" /\ ws' = [ws EXCEPT ![p] = "down"]
       \/ ws[p] = "down" /\ ws' = [ws EXCEPT ![p] = "up"]
    /\ UNCHANGED <<sharedVars, stopVars, sessVars, closeVars, owner, started,
                   listen, disconnect, watch, panic>>
-----------------------------------------------------------------------------
SessionStep(s) ==
    \/ \E p \in Peer : AddPeer(s, p)
    \/ LogonRejected(s)
    \/ LogonWithoutWebsocket(s)
    \/ LogonConnected(s)
    \/ RemovePeer(s)
    \/ PeerRemoved(s)
    \/ SessionStopped(s)

StopStep == Down \/ StopLock \/ StopClosed \/ StopEnd \/ \E s \in Session : StopClose(s)

ListenStep(p) ==
    \/ ListenStart(p)
    \/ ListenMessage(p)
    \/ ListenReturn(p)
    \/ Forward(p)
    \/ ReportDisconnect(p)
    \/ SendOnClosed(p)

WatchStep(p) == WatchClosed(p) \/ WatchLogout(p) \/ WatchQuiet(p)

Next ==
    \/ \E s \in Session : SessionStep(s)
    \/ StopStep
    \/ CloseExited
    \/ \E p \in Peer : ListenStep(p) \/ WatchStep(p) \/ Handle(p) \/ WsFlip(p)

Spec == Init /\ [][Next]_vars

\* The Go scheduler runs every goroutine that can run, and a channel serves
\* its senders in order, hence strong fairness of the competing Forwards.
\* Nothing is assumed of FIX clients (logons, logouts), of the websocket, nor
\* of the operator (Down).
Fairness ==
    /\ \A s \in Session : WF_vars(PeerRemoved(s))
    /\ WF_vars(CloseExited)
    /\ WF_vars(main # "running" /\ StopStep)
    /\ \A p \in Peer :
         /\ WF_vars(\/ ListenStart(p) \/ ListenReturn(p)
                    \/ ReportDisconnect(p) \/ SendOnClosed(p))
         /\ SF_vars(Forward(p))
         /\ WF_vars(WatchStep(p))
         /\ WF_vars(Handle(p))

FairSpec == Spec /\ Fairness
-----------------------------------------------------------------------------
\* The types of the shared state, the goroutines' positions and the channels.
TypeOK ==
    /\ peers \in [Session -> Peer \cup {NoPeer}]
    /\ lock \in Session \cup {Main, Free}
    /\ svc \in Peer \cup {NoPeer}
    /\ inbound \in {"open", "closed"}
    /\ main \in {"running", "down", "closing", "stopped"}
    /\ toClose \in SUBSET Session
    /\ sess \in [Session -> {"latent", "loggedOn", "stopped"}]
    /\ pc \in [Session -> {"idle", "logon"}]
    /\ closing \in Peer \cup {NoPeer}
    /\ closePc \in {"none", "wait", "end"}
    /\ owner \in [Peer -> Session \cup {NoSession}]
    /\ started \in [Peer -> BOOLEAN]
    /\ ws \in [Peer -> {"new", "up", "down", "closed"}]
    /\ listen \in [Peer -> {"none", "spawned", "select", "send", "exit", "done"}]
    /\ disconnect \in [Peer -> {"open", "closed"}]
    /\ watch \in [Peer -> {"none", "wait", "lost", "closed", "done"}]
    /\ panic \in {"none", "close of closed disconnect", "send on closed disconnect",
                  "send on closed inbound", "logout failed"}
-----------------------------------------------------------------------------
(***************************************************************************)
(* Properties that hold.                                                   *)
(***************************************************************************)

\* A session quickfix considers logged on has an entry in Service.peers, and
\* the FindPeer of FromAdmin finds the peer its own AddPeer put there, not
\* one whose websocket is already running: RemovePeer's "return false" and
\* FromAdmin's "could not find peer" are never reached.
LoggedOnHasPeer ==
    \A s \in Session :
        /\ sess[s] = "loggedOn" => peers[s] # NoPeer
        /\ pc[s] = "logon" => peers[s] # NoPeer /\ listen[peers[s]] = "none"

\* No disconnect channel is closed twice: OnLogout and Stop never both run
\* Close on one Peer, though Stop closes peers it does not delete.
NoDoubleClose == panic # "close of closed disconnect"

\* When Close has taken its started branch, listen has returned by the time
\* the disconnect channel is closed, so that listen never sends on it.
CloseWaitsForListen ==
    \A p \in Peer :
        ws[p] = "closed" /\ disconnect[p] = "closed" => listen[p] = "done"

\* A listen goroutine about to send on an open disconnect channel has a
\* receiver waiting there: whatever replaced or removed its peer, the
\* watcher of a peer is not used up by anything else.
ReporterIsHeard ==
    \A p \in Peer :
        listen[p] = "exit" /\ disconnect[p] = "open" => watch[p] = "wait"

\* Where a running websocket can be lost track of: a live listen belongs to
\* the peer Service.peers holds, unless the session has logged on again or
\* Close ran before listen had set started.
UntrackedPeerHasCause ==
    \A p \in Peer :
        listen[p] \in {"spawned", "select", "send", "exit"} =>
            \/ peers[owner[p]] = p
            \/ disconnect[p] = "closed"
            \/ \E q \in Peer \ {p} : owner[q] = owner[p]

\* The process never panics in listen on account of a peer that was closed
\* in order: the goroutine that panics runs a websocket nobody closed.
PanicNeedsOpenWebsocket ==
    panic \in {"send on closed inbound", "send on closed disconnect"} =>
        \E p \in Peer : listen[p] \in {"send", "exit"} /\ ws[p] \in {"up", "down"}

\* A peer leaves Service.peers only with its disconnect channel closed or
\* for a new peer of the same session, and a watcher that was not told of a
\* loss therefore ends.
RemovedPeerIsClosed ==
    [][\A s \in Session : peers'[s] # peers[s] /\ peers[s] # NoPeer =>
          \/ peers'[s] = NoPeer /\ disconnect'[peers[s]] = "closed"
          \/ /\ peers'[s] # NoPeer
             /\ owner[peers'[s]] = NoSession /\ owner'[peers'[s]] = s]_vars

\* A lost or closed websocket is reported whatever the session does
\* meanwhile: listen never stays in its deferred send, unless the process
\* ends in a panic.
ReportCompletes ==
    \A p \in Peer : []<>(listen[p] # "exit" \/ panic # "none")

\* The one way for Close to wait for ever: listen is blocked sending to
\* Service.listen, which is handling a message and needs the lock that the
\* caller of Close holds.  Every other Close returns.
CloseStallsOnlyOnService ==
    \/ []<>(closePc # "wait" \/ panic # "none")
    \/ <>[](closePc = "wait" /\ listen[closing] = "send" /\ svc # NoPeer)
-----------------------------------------------------------------------------
(***************************************************************************)
(* What the documentation and comments say that does not hold.             *)
(***************************************************************************)

\* service.go: "RemovePeer removes a FIX session from the current peer cache".
RemovePeerReturns ==
    \A s \in Session : lock = s ~> (lock # s \/ panic # "none")
=============================================================================
