------------------------ MODULE PeerLifecycleProofs ------------------------
(***************************************************************************)
(* Safety of PeerLifecycle for any number of sessions and peers.           *)
(***************************************************************************)
EXTENDS PeerLifecycle, TLAPS

Started == {"select", "send", "exit", "done"}

\* A peer that New has not made yet is referenced by nothing.
FreshPeers ==
    \A p \in Peer : owner[p] = NoSession =>
        /\ listen[p] = "none"
        /\ disconnect[p] = "open"
        /\ watch[p] = "none"
        /\ \A s \in Session : peers[s] # p

\* An entry of Service.peers belongs to its session.
PeersOwned == \A s \in Session : peers[s] # NoPeer => owner[peers[s]] = s

\* Who holds the lock, and what Close is doing on its behalf.
LockInv ==
    /\ lock = Free => closePc = "none"
    /\ main = "closing" <=> lock = Main
    /\ lock \in Session => /\ closePc # "none"
                           /\ closing = peers[lock]
                           /\ sess[lock] = "loggedOn"
                           /\ pc[lock] = "idle"
    /\ closePc # "none" => /\ closing \in Peer
                           /\ owner[closing] \in Session
                           /\ peers[owner[closing]] = closing
                           /\ owner[closing] \notin toClose
                           /\ disconnect[closing] = "open"

SessionInv ==
    /\ LoggedOnHasPeer
    /\ \A s \in Session : sess[s] = "stopped" => pc[s] = "idle"
    /\ inbound = "closed" => main = "stopped"
    /\ main # "closing" => toClose = {}
    /\ main \in {"closing", "stopped"} => \A s \in Session : sess[s] = "stopped"

\* The channels that are still open: those of the peers in the map before
\* Stop runs, and those Stop has not reached.
OpenChannels ==
    /\ main \in {"running", "down"} =>
          \A s \in Session : peers[s] # NoPeer => disconnect[peers[s]] = "open"
    /\ main = "closing" =>
          \A s \in toClose : peers[s] # NoPeer /\ disconnect[peers[s]] = "open"

ListenInv ==
    \A p \in Peer :
        /\ started[p] => listen[p] \in Started
        /\ listen[p] \in Started => started[p]
        /\ ws[p] = "closed" => \/ listen[p] = "done"
                               \/ listen[p] \in Started /\ closing = p /\ closePc = "wait"
        /\ closing = p /\ closePc = "wait" => ws[p] = "closed"
        /\ ws[p] = "new" <=> listen[p] = "none"

WatchInv ==
    \A p \in Peer :
        owner[p] # NoSession =>
            watch[p] = "wait" \/ listen[p] = "done" \/ disconnect[p] = "closed"

IInv ==
    /\ TypeOK
    /\ FreshPeers
    /\ PeersOwned
    /\ LockInv
    /\ SessionInv
    /\ OpenChannels
    /\ ListenInv
    /\ WatchInv
    /\ NoDoubleClose
    /\ UntrackedPeerHasCause
    /\ PanicNeedsOpenWebsocket
-----------------------------------------------------------------------------
\* The invariant holds before any peer exists.
LEMMA InitInv == Init => IInv
BY IdAssumption
   DEF Init, IInv, TypeOK, FreshPeers, PeersOwned, LockInv, SessionInv,
       OpenChannels, ListenInv, WatchInv, NoDoubleClose, UntrackedPeerHasCause,
       PanicNeedsOpenWebsocket, LoggedOnHasPeer, Started

USE DEF sharedVars, stopVars, sessVars, closeVars, peerVars

\* Steps of a session goroutine: FromAdmin, then OnLogout's RemovePeer.  That
\* AddPeer hands out a fresh peer keeps the entries of Service.peers apart, so
\* that Close and listen disturb no other session's peer.
LEMMA SessionStepInv ==
    ASSUME IInv, NEW s \in Session, SessionStep(s)
    PROVE  IInv'
<1> USE IdAssumption
    DEF IInv, TypeOK, FreshPeers, PeersOwned, LockInv, SessionInv, OpenChannels,
        ListenInv, WatchInv, NoDoubleClose, UntrackedPeerHasCause,
        PanicNeedsOpenWebsocket, LoggedOnHasPeer, Started, CloseEnter, CloseEnd
<1>1. ASSUME NEW p \in Peer, AddPeer(s, p) PROVE IInv'
  BY <1>1 DEF AddPeer, New
<1>2. CASE LogonRejected(s)
  BY <1>2 DEF LogonRejected
<1>3. CASE LogonWithoutWebsocket(s)
  BY <1>3 DEF LogonWithoutWebsocket
<1>4. CASE LogonConnected(s)
  BY <1>4 DEF LogonConnected
<1>5. CASE RemovePeer(s)
  BY <1>5 DEF RemovePeer
<1>6. CASE PeerRemoved(s)
  BY <1>6 DEF PeerRemoved
<1>7. CASE SessionStopped(s)
  BY <1>7 DEF SessionStopped
<1> QED
  BY <1>1, <1>2, <1>3, <1>4, <1>5, <1>6, <1>7 DEF SessionStep

\* Steps of Stop and the wait inside Close.  Stop closes what the sessions
\* left in the map, each peer once: toClose holds the sessions whose channel
\* is still open.
LEMMA StopStepInv ==
    ASSUME IInv, StopStep \/ CloseExited
    PROVE  IInv'
<1> USE IdAssumption
    DEF IInv, TypeOK, FreshPeers, PeersOwned, LockInv, SessionInv, OpenChannels,
        ListenInv, WatchInv, NoDoubleClose, UntrackedPeerHasCause,
        PanicNeedsOpenWebsocket, LoggedOnHasPeer, Started, CloseEnter, CloseEnd
<1>1. CASE Down
  BY <1>1 DEF Down
<1>2. CASE StopLock
  BY <1>2 DEF StopLock
<1>3. ASSUME NEW s \in Session, StopClose(s) PROVE IInv'
  BY <1>3 DEF StopClose
<1>4. CASE StopClosed
  BY <1>4 DEF StopClosed
<1>5. CASE StopEnd
  BY <1>5 DEF StopEnd
<1>6. CASE CloseExited
  BY <1>6 DEF CloseExited
<1> QED
  BY <1>1, <1>2, <1>3, <1>4, <1>5, <1>6 DEF StopStep

\* The parts of IInv that speak neither of watch nor of panic.
LEMMA FrameInv ==
    ASSUME IInv, UNCHANGED <<sharedVars, stopVars, sessVars, closeVars, owner,
                             started, ws, listen, disconnect>>
    PROVE  PeersOwned' /\ LockInv' /\ SessionInv' /\ OpenChannels' /\ ListenInv'
           /\ UntrackedPeerHasCause'
<1>1. PeersOwned'
  BY DEF IInv, PeersOwned
<1>2. LockInv'
  BY DEF IInv, LockInv
<1>3. SessionInv'
  BY DEF IInv, SessionInv, LoggedOnHasPeer
<1>4. OpenChannels'
  BY DEF IInv, OpenChannels
<1>5. ListenInv'
  BY DEF IInv, ListenInv, Started
<1>6. UntrackedPeerHasCause'
  BY DEF IInv, UntrackedPeerHasCause
<1> QED BY <1>1, <1>2, <1>3, <1>4, <1>5, <1>6

\* The panics of listen.  Once inbound is closed no Close is running, and a
\* disconnect channel is closed after Close's wait: the websocket of p was
\* never closed.
LEMMA SendOnClosedInv ==
    ASSUME IInv, NEW p \in Peer, SendOnClosed(p)
    PROVE  IInv'
<1>1. UNCHANGED <<sharedVars, stopVars, sessVars, closeVars, peerVars>>
  BY DEF SendOnClosed
<1>2. panic' \in {"send on closed inbound", "send on closed disconnect"}
  BY DEF SendOnClosed
<1>3. listen[p] \in {"send", "exit"} /\ ws[p] \in {"up", "down"}
  BY IdAssumption
     DEF SendOnClosed, IInv, TypeOK, LockInv, SessionInv, ListenInv, Started
<1>4. TypeOK' /\ NoDoubleClose'
  BY <1>1, <1>2 DEF IInv, TypeOK, NoDoubleClose
<1>5. FreshPeers'
  BY <1>1 DEF IInv, FreshPeers
<1>6. WatchInv'
  BY <1>1 DEF IInv, WatchInv
<1>7. PanicNeedsOpenWebsocket'
  BY <1>1, <1>3 DEF PanicNeedsOpenWebsocket
<1> QED BY <1>1, <1>4, <1>5, <1>6, <1>7, FrameInv DEF IInv

\* The watcher ends after its peer's listen has.
LEMMA WatchLogoutInv ==
    ASSUME IInv, NEW p \in Peer, WatchLogout(p)
    PROVE  IInv'
<1>1. /\ watch[p] = "lost"
      /\ watch' = [watch EXCEPT ![p] = "done"]
      /\ UNCHANGED <<sharedVars, stopVars, sessVars, closeVars, owner,
                     started, ws, listen, disconnect>>
  BY DEF WatchLogout
<1>2. panic' \in {"none", "logout failed"}
  BY DEF WatchLogout
<1>3. TypeOK' /\ NoDoubleClose' /\ PanicNeedsOpenWebsocket'
  BY <1>1, <1>2 DEF IInv, TypeOK, NoDoubleClose, PanicNeedsOpenWebsocket
<1>4. FreshPeers'
  <2>1. \A q \in Peer : owner[q] = NoSession => q # p
    BY <1>1 DEF IInv, FreshPeers
  <2>2. \A q \in Peer : q # p => watch'[q] = watch[q]
    BY <1>1 DEF IInv, TypeOK
  <2> QED BY <1>1, <2>1, <2>2 DEF IInv, FreshPeers
<1>5. WatchInv'
  BY <1>1 DEF IInv, TypeOK, WatchInv
<1> QED BY <1>1, <1>3, <1>4, <1>5, FrameInv DEF IInv

\* Steps of listen, of the watcher, of Service.listen and of the websocket.
LEMMA PeerStepInv ==
    ASSUME IInv, NEW p \in Peer,
           ListenStep(p) \/ WatchStep(p) \/ Handle(p) \/ WsFlip(p)
    PROVE  IInv'
<1> USE IdAssumption
    DEF IInv, TypeOK, FreshPeers, PeersOwned, LockInv, SessionInv, OpenChannels,
        ListenInv, WatchInv, NoDoubleClose, UntrackedPeerHasCause,
        PanicNeedsOpenWebsocket, LoggedOnHasPeer, Started
<1>1. CASE ListenStart(p)
  BY <1>1 DEF ListenStart
<1>2. CASE ListenMessage(p)
  BY <1>2 DEF ListenMessage
<1>3. CASE ListenReturn(p)
  BY <1>3 DEF ListenReturn
<1>4. CASE Forward(p)
  BY <1>4 DEF Forward
<1>5. CASE ReportDisconnect(p)
  BY <1>5 DEF ReportDisconnect
<1>6. CASE SendOnClosed(p)
  BY <1>6, SendOnClosedInv
<1>7. CASE WatchClosed(p)
  BY <1>7 DEF WatchClosed
<1>8. CASE WatchLogout(p)
  BY <1>8, WatchLogoutInv
<1>9. CASE WatchQuiet(p)
  BY <1>9 DEF WatchQuiet
<1>10. CASE Handle(p)
  BY <1>10 DEF Handle
<1>11. CASE WsFlip(p)
  BY <1>11 DEF WsFlip
<1> QED
  BY <1>1, <1>2, <1>3, <1>4, <1>5, <1>6, <1>7, <1>8, <1>9, <1>10, <1>11
     DEF ListenStep, WatchStep

\* A step that changes nothing keeps it.
LEMMA StutterInv ==
    ASSUME IInv, UNCHANGED vars
    PROVE  IInv'
<1>1. UNCHANGED <<sharedVars, stopVars, sessVars, closeVars, owner,
                  started, ws, listen, disconnect, watch, panic>>
  BY DEF vars
<1>2. TypeOK' /\ NoDoubleClose'
  BY <1>1 DEF IInv, TypeOK, NoDoubleClose
<1>3. FreshPeers'
  BY <1>1 DEF IInv, FreshPeers
<1>4. WatchInv'
  BY <1>1 DEF IInv, WatchInv
<1>5. PanicNeedsOpenWebsocket'
  BY <1>1 DEF IInv, PanicNeedsOpenWebsocket
<1> QED BY <1>1, <1>2, <1>3, <1>4, <1>5, FrameInv DEF IInv

\* Every step keeps the invariant.
LEMMA NextInv == IInv /\ [Next]_vars => IInv'
BY SessionStepInv, StopStepInv, PeerStepInv, StutterInv DEF Next

\* The inductive invariant holds in every reachable state.
THEOREM Safety == Spec => []IInv
BY InitInv, NextInv, PTL DEF Spec
-----------------------------------------------------------------------------
\* Type correctness, for any number of sessions and peers.
THEOREM TypeCorrect == Spec => []TypeOK
<1>1. IInv => TypeOK
  BY DEF IInv
<1> QED BY Safety, <1>1, PTL

\* A logged-on session has its peer, and FromAdmin finds the one it added.
THEOREM LoggedOnSessionHasPeer == Spec => []LoggedOnHasPeer
<1>1. IInv => LoggedOnHasPeer
  BY DEF IInv, SessionInv
<1> QED BY Safety, <1>1, PTL

\* No peer's disconnect channel is closed twice.
THEOREM ChannelClosedOnce == Spec => []NoDoubleClose
<1>1. IInv => NoDoubleClose
  BY DEF IInv
<1> QED BY Safety, <1>1, PTL

\* A Close that closed the websocket closes the channel after listen's end.
THEOREM CloseIsOrderly == Spec => []CloseWaitsForListen
<1>1. IInv => CloseWaitsForListen
  BY DEF IInv, ListenInv, LockInv, CloseWaitsForListen
<1> QED BY Safety, <1>1, PTL

\* The deferred send of listen on an open channel finds its receiver.
THEOREM DisconnectIsHeard == Spec => []ReporterIsHeard
<1>1. IInv => ReporterIsHeard
  BY DEF IInv, TypeOK, FreshPeers, WatchInv, ReporterIsHeard
<1> QED BY Safety, <1>1, PTL

\* An untracked running peer was replaced by a logon or closed too early.
THEOREM UntrackedHasCause == Spec => []UntrackedPeerHasCause
<1>1. IInv => UntrackedPeerHasCause
  BY DEF IInv
<1> QED BY Safety, <1>1, PTL

\* A panic of listen is due to a websocket that was left open.
THEOREM PanicHasCause == Spec => []PanicNeedsOpenWebsocket
<1>1. IInv => PanicNeedsOpenWebsocket
  BY DEF IInv
<1> QED BY Safety, <1>1, PTL

\* Service.peers loses an entry only to a finished Close or to a new logon of
\* the same session.
THEOREM RemovalIsClosed == Spec => RemovedPeerIsClosed
<1> DEFINE Step ==
      \A s \in Session : peers'[s] # peers[s] /\ peers[s] # NoPeer =>
          \/ peers'[s] = NoPeer /\ disconnect'[peers[s]] = "closed"
          \/ /\ peers'[s] # NoPeer
             /\ owner[peers'[s]] = NoSession /\ owner'[peers'[s]] = s
<1>1. ASSUME IInv, [Next]_vars PROVE [Step]_vars
  <2>1. ASSUME NEW s \in Session, NEW p \in Peer, AddPeer(s, p) PROVE Step
    BY <1>1, <2>1, IdAssumption DEF IInv, TypeOK, AddPeer, New
  <2>2. ASSUME NEW s \in Session, PeerRemoved(s) PROVE Step
    BY <1>1, <2>2, IdAssumption DEF IInv, TypeOK, LockInv, PeerRemoved, CloseEnd
  <2>3. CASE UNCHANGED peers
    BY <2>3
  <2>4. CASE UNCHANGED vars
    BY <2>4
  <2> QED
    BY <1>1, <2>1, <2>2, <2>3, <2>4
       DEF Next, SessionStep, StopStep, ListenStep, WatchStep, LogonRejected,
           LogonWithoutWebsocket, LogonConnected, RemovePeer, SessionStopped,
           Down, StopLock, StopClose, StopClosed, StopEnd, CloseExited,
           ListenStart, ListenMessage, ListenReturn, Forward, ReportDisconnect,
           SendOnClosed, WatchClosed, WatchLogout, WatchQuiet, Handle, WsFlip
<1>2. IInv /\ [Next]_vars => [Step]_vars
  BY <1>1
<1> QED BY <1>2, Safety, PTL DEF Spec, RemovedPeerIsClosed
=============================================================================
