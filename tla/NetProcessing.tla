---------------------------- MODULE NetProcessing ----------------------------
(***************************************************************************)
(* The life of a connection and the threads that share it.                 *)
(*                                                                         *)
(* The socket thread accepts and closes connections, queues what peers     *)
(* send, removes a node whose fDisconnect is set from vNodes, and deletes  *)
(* it (FinalizeNode) once nobody holds a reference.  The message handler   *)
(* thread takes references to all of vNodes, and for each node in turn     *)
(* handles one message and then runs SendMessages.  Other threads ask for  *)
(* disconnection and bring blocks of their own.  cs_main makes FinalizeNode,*)
(* SendMessages and all the handlers but BLOCK atomic; BLOCK takes and     *)
(* releases it three times.                                                *)
(***************************************************************************)
EXTENDS TxRelay

CONSTANTS
  Worlds,       \* what may happen: the peers, what they send, the index at start
  MaxInbox      \* the messages a peer may have waiting

Message ==
  [type : {"version", "verack"}, of : {None}] \cup
  [type : {"inv", "block"}, of : Blocks] \cup [type : {"invtx", "tx"}, of : Txs]

(* The index a node starts with holds the genesis block, and with a block  *)
(* the one before it.                                                      *)
ASSUME NetAssumption ==
  /\ IsFiniteSet(Peers)
  /\ \A w \in Worlds :
       /\ w.up \subseteq Peers /\ w.verdicts \subseteq Verdicts
       /\ w.start \in [Index -> Statuses] /\ w.start[Genesis] = "data"
       /\ \A b \in Blocks : w.start[b] # "none" => w.start[Prev[b]] # "none"
       /\ \A p \in Peers : \A h \in 0..2 : w.sends[p][h] \subseteq Message

VARIABLES
  world,
  node,             \* "new", "linked" (in vNodes), "removed" (vNodesDisconnected) or "gone"
  socket,           \* the peers whose hSocket is valid
  fDisconnect,
  handshake,        \* 0, 1 after VERSION, 2 after VERACK (fSuccessfullyConnected)
  inbox,            \* vProcessMsg
  fSyncStarted, nSyncStarted,
  nPreferredDownload,
  enforced,         \* ActiveProtocol() has risen above the version of world.old
  m                 \* the message handler: where it is, and the references it holds

connVars == <<node, socket, fDisconnect, handshake, inbox>>
syncVars == <<fSyncStarted, nSyncStarted, nPreferredDownload>>
vars == <<downloadVars, relayVars, world, connVars, syncVars, enforced, m>>

TypeOK ==
  /\ DownloadTypeOK /\ RelayTypeOK
  /\ world \in Worlds
  /\ node \in [Peers -> {"new", "linked", "removed", "gone"}]
  /\ socket \subseteq Peers /\ fDisconnect \subseteq Peers /\ handshake \in [Peers -> 0..2]
  /\ inbox \in [Peers -> Seq(Message)]
  /\ fSyncStarted \subseteq Peers /\ nSyncStarted \in Int /\ nPreferredDownload \in Int
  /\ enforced \in BOOLEAN
  /\ m \in [pc : {"idle", "round", "block", "accepted", "orphans", "send"},
            refs : SUBSET Peers, left : SUBSET Peers, cur : Peers \cup {None},
            blk : Blocks \cup {None}, dos : 0..BanScore]

vNodes == {p \in Peers : node[p] = "linked"}
Idle == [pc |-> "idle", refs |-> {}, left |-> {}, cur |-> None, blk |-> None, dos |-> 0]

(* cs_main is free: the TX handler keeps it while it works on the orphans. *)
cs_main == m.pc # "orphans"

Preferred(p) == p \notin world.inbound /\ handshake[p] > 0

-----------------------------------------------------------------------------
(* The socket thread, and the peers at the other end. *)

(* AcceptConnection or ConnectNode, and InitializeNode. *)
InitializeNode(p) ==
  /\ node[p] = "new" /\ p \in world.peers /\ cs_main
  /\ node' = [node EXCEPT ![p] = "linked"]
  /\ socket' = socket \cup {p}
  /\ present' = present \cup {p}
  /\ UNCHANGED <<chainVars, peerBlocks, flight, score, relayVars, world, fDisconnect, handshake, inbox,
                 syncVars, enforced, m>>

(* A message is received.  The world says what a peer sends at which stage *)
(* of the handshake; some peers answer getdata.                            *)
Answers(p) == IF p \in world.answering THEN [type : {"tx"}, of : asked[p]] ELSE {}
Sends(p) == world.sends[p][handshake[p]] \cup Answers(p)

Receive(p, msg) ==
  /\ p \in socket /\ node[p] = "linked" /\ Len(inbox[p]) < MaxInbox
  /\ msg \in Sends(p)
  /\ inbox' = [inbox EXCEPT ![p] = Append(@, msg)]
  /\ UNCHANGED <<downloadVars, relayVars, world, node, socket, fDisconnect, handshake, syncVars, enforced, m>>

(* The connection breaks: CloseSocketDisconnect. *)
SocketClosed(p) ==
  /\ p \in socket /\ node[p] = "linked" /\ p \in world.closing
  /\ socket' = socket \ {p} /\ fDisconnect' = fDisconnect \cup {p}
  /\ UNCHANGED <<downloadVars, relayVars, world, node, handshake, inbox, syncVars, enforced, m>>

(* The inactivity checks, or an RPC. *)
DisconnectNode(p) ==
  /\ p \in socket /\ node[p] = "linked" /\ p \in world.closing \ fDisconnect
  /\ fDisconnect' = fDisconnect \cup {p}
  /\ UNCHANGED <<downloadVars, relayVars, world, node, socket, handshake, inbox, syncVars, enforced, m>>

(* "Disconnect unused nodes" *)
RemoveNode(p) ==
  /\ node[p] = "linked" /\ p \in fDisconnect
  /\ node' = [node EXCEPT ![p] = "removed"]
  /\ socket' = socket \ {p}
  /\ UNCHANGED <<downloadVars, relayVars, world, fDisconnect, handshake, inbox, syncVars, enforced, m>>

(* "Delete disconnected nodes": DeleteNode, and FinalizeNode under cs_main. *)
FinalizeNode(p) ==
  /\ node[p] = "removed" /\ p \notin m.refs /\ cs_main
  /\ node' = [node EXCEPT ![p] = "gone"]
  /\ nSyncStarted' = IF p \in fSyncStarted THEN nSyncStarted - 1 ELSE nSyncStarted
  /\ fSyncStarted' = fSyncStarted \ {p}
  /\ nPreferredDownload' = IF Preferred(p) THEN nPreferredDownload - 1 ELSE nPreferredDownload
  /\ ForgetPeer(p)
  /\ EraseOrphans({t \in Txs : mapOrphanTransactions[t] = p})
  /\ mapAskFor' = [mapAskFor EXCEPT ![p] = << >>] /\ asked' = [asked EXCEPT ![p] = {}]
  /\ inbox' = [inbox EXCEPT ![p] = << >>] /\ handshake' = [handshake EXCEPT ![p] = 0]
  /\ fDisconnect' = fDisconnect \ {p}
  /\ UNCHANGED <<pool, mapAlreadyAskedFor, rejectVars, loop, world, socket, enforced, m>>

-----------------------------------------------------------------------------
(* ThreadMessageHandler *)

StartRound ==
  /\ m.pc = "idle" /\ vNodes # {}
  /\ m' = [m EXCEPT !.pc = "round", !.refs = vNodes, !.left = vNodes]
  /\ UNCHANGED <<downloadVars, relayVars, world, connVars, syncVars, enforced>>

(* A node that is being disconnected is passed over. *)
SkipNode(p) ==
  /\ m.pc = "round" /\ p \in m.left \cap fDisconnect
  /\ m' = [m EXCEPT !.left = @ \ {p}]
  /\ UNCHANGED <<downloadVars, relayVars, world, connVars, syncVars, enforced>>

EndRound ==
  /\ m.pc = "round" /\ m.left = {}
  /\ m' = Idle
  /\ UNCHANGED <<downloadVars, relayVars, world, connVars, syncVars, enforced>>

(* ProcessMessages takes one message of the node and goes on to pc.        *)
TakeBlock(p, type, pc, blk) ==
  /\ m.pc = "round" /\ p \in m.left \ fDisconnect
  /\ inbox[p] # << >> /\ Head(inbox[p]).type = type
  /\ inbox' = [inbox EXCEPT ![p] = Tail(@)]
  /\ m' = [m EXCEPT !.pc = pc, !.cur = p, !.left = @ \ {p}, !.blk = blk]
  /\ UNCHANGED <<world, node, socket, enforced>>
Take(p, type, pc) == TakeBlock(p, type, pc, None)
Of(p) == Head(inbox[p]).of

(* A message other than VERSION before VERSION. *)
TooEarly(p) ==
  /\ handshake[p] = 0
  /\ \E type \in {"verack", "inv", "block", "invtx", "tx"} : Take(p, type, "send")
  /\ Misbehaving({p}, 1)
  /\ UNCHANGED <<chainVars, peerBlocks, flight, present, relayVars, fDisconnect, handshake, syncVars>>

(* DisconnectOldProtocol: fDisconnect afterwards. *)
DisconnectOldProtocol(p) ==
  IF p \in world.old /\ enforced THEN fDisconnect \cup {p} ELSE fDisconnect \ {p}

(* Mutant: a second VERSION is taken as the first. *)
OnVersionAgain(p) ==
  /\ Take(p, "version", "send")
  /\ fDisconnect' = DisconnectOldProtocol(p)
  /\ IF p \in fDisconnect' THEN UNCHANGED <<handshake, nPreferredDownload>>
     ELSE /\ handshake' = [handshake EXCEPT ![p] = 1]
          /\ nPreferredDownload' = IF p \in world.inbound THEN nPreferredDownload ELSE nPreferredDownload + 1
  /\ UNCHANGED <<downloadVars, relayVars, fSyncStarted, nSyncStarted>>

OnVersion(p) ==
  /\ Take(p, "version", "send")
  /\ IF handshake[p] # 0
     THEN /\ Misbehaving({p}, 1)
          /\ UNCHANGED <<fDisconnect, handshake, nPreferredDownload>>
     ELSE /\ fDisconnect' = DisconnectOldProtocol(p)
          /\ IF p \in fDisconnect' THEN UNCHANGED <<handshake, nPreferredDownload>>
             ELSE /\ handshake' = [handshake EXCEPT ![p] = 1]
                  /\ nPreferredDownload' = IF p \in world.inbound THEN nPreferredDownload ELSE nPreferredDownload + 1
          /\ UNCHANGED score
  /\ UNCHANGED <<chainVars, peerBlocks, flight, present, relayVars, fSyncStarted, nSyncStarted>>

OnVerack(p) ==
  /\ handshake[p] > 0 /\ Take(p, "verack", "send")
  /\ handshake' = [handshake EXCEPT ![p] = 2]
  /\ UNCHANGED <<downloadVars, relayVars, fDisconnect, syncVars>>

OnInv(p) ==
  /\ handshake[p] > 0 /\ Take(p, "inv", "send")
  /\ UpdateBlockAvailability(p, Of(p))
  /\ UNCHANGED <<chainVars, flight, present, score, relayVars, fDisconnect, handshake, syncVars>>

OnInvTx(p) ==
  /\ handshake[p] > 0 /\ Take(p, "invtx", "send")
  /\ TxAnnounced(p, Of(p))
  /\ UNCHANGED <<downloadVars, pool, orphanVars, loop, fDisconnect, handshake, syncVars>>

OnTx(p) ==
  /\ handshake[p] > 0
  /\ Take(p, "tx", IF Acceptable(Of(p)) THEN "orphans" ELSE "send")
  /\ TxArrives(p, Of(p))
  /\ UNCHANGED <<chainVars, peerBlocks, flight, present, fDisconnect, handshake, syncVars>>

(* The loop over the orphans. *)
OrphanWork ==
  /\ m.pc = "orphans"
  /\ \/ NextWork /\ UNCHANGED m
     \/ (\E o \in Txs : TryOrphan(o)) /\ UNCHANGED m
     \/ EndOfWork /\ m' = [m EXCEPT !.pc = "send"]
  /\ UNCHANGED <<chainVars, peerBlocks, flight, present, world, connVars, syncVars, enforced>>

(* BLOCK.  A block that does not attach, or whose header is in the index,  *)
(* is dropped.                                                             *)
OnBlock(p) ==
  /\ handshake[p] > 0
  /\ \/ /\ Take(p, "block", "send")
        /\ ~Known(Prev[Of(p)]) \/ Known(Of(p))
        /\ UNCHANGED flight
     \/ /\ TakeBlock(p, "block", "block", Of(p))
        /\ Known(Prev[Of(p)]) /\ ~Known(Of(p))
        /\ MarkBlockAsReceived(Of(p))
  /\ UNCHANGED <<chainVars, peerBlocks, present, score, relayVars, fDisconnect, handshake, syncVars>>

OnBlockProcess ==
  /\ m.pc = "block"
  /\ \E v \in world.verdicts :
       /\ ProcessNewBlock(m.blk, v)
       /\ \E dos \in IF Stored(m.blk, v)[m.blk] = "data" THEN {0} ELSE {0, BanScore} :
            m' = [m EXCEPT !.pc = "accepted", !.dos = dos]
  /\ TipMoves
  /\ UNCHANGED <<peerBlocks, flight, present, asking, orphanVars, rejectVars, loop, world, connVars, syncVars,
                 enforced>>

(* The sender is remembered; Misbehaving only if TRY_LOCK gets cs_main.    *)
OnBlockEnd ==
  /\ m.pc = "accepted"
  /\ mapBlockSource' = [mapBlockSource EXCEPT ![m.blk] = IF @ = None THEN m.cur ELSE @]
  /\ \E lockMain \in BOOLEAN : Misbehaving(IF lockMain THEN {m.cur} ELSE {}, m.dos)
  /\ fDisconnect' = DisconnectOldProtocol(m.cur)
  /\ m' = [m EXCEPT !.pc = "send", !.blk = None, !.dos = 0]
  /\ UNCHANGED <<status, tip, peerBlocks, flight, present, relayVars, world, node, socket, handshake, inbox,
                 syncVars, enforced>>

-----------------------------------------------------------------------------
(* SendMessages *)

(* After a message, or when there is none.  The send buffer has room.      *)
Sending(p) ==
  \/ m.pc = "send" /\ m.cur = p
  \/ m.pc = "round" /\ p \in m.left \ fDisconnect /\ inbox[p] = << >>
Sent(p) == m' = [m EXCEPT !.pc = "round", !.left = @ \ {p}, !.cur = None]

(* Early returns: no handshake yet, fDisconnect, or cs_main is taken.      *)
SendNothing(p) ==
  /\ Sending(p) /\ Sent(p)
  /\ UNCHANGED <<downloadVars, relayVars, world, connVars, syncVars, enforced>>

fFetch(p) == Preferred(p) \/ nPreferredDownload = 0

SendMessages(p) ==
  /\ Sending(p) /\ handshake[p] = 2 /\ p \notin fDisconnect
  /\ Sent(p)
  /\ fShouldBan' = fShouldBan \ {p}
  /\ \/ /\ p \in fShouldBan
        /\ fDisconnect' = fDisconnect \cup {p}
        /\ UNCHANGED <<syncVars, peerBlocks, flight, asking, rejectVars>>
     \/ /\ p \notin fShouldBan
        /\ \E near \in BOOLEAN :    \* pindexBestHeader is recent
             LET start == p \notin fSyncStarted /\ (near \/ (nSyncStarted = 0 /\ fFetch(p))) IN
             /\ fSyncStarted' = IF start THEN fSyncStarted \cup {p} ELSE fSyncStarted
             /\ nSyncStarted' = IF start THEN nSyncStarted + 1 ELSE nSyncStarted
        /\ UNCHANGED nPreferredDownload
        /\ \/ /\ Stalled(p) \/ TimedOut(p)
              /\ fDisconnect' = fDisconnect \cup {p}
              /\ UNCHANGED <<peerBlocks, flight, asking, rejectVars>>
           \/ /\ ~(Stalled(p) \/ TimedOut(p))
              /\ IF fFetch(p) /\ nBlocksInFlight[p] < MaxInTransit THEN RequestBlocks(p)
                 ELSE UNCHANGED <<peerBlocks, flight>>
              /\ RequestTxs(p)
              /\ UNCHANGED fDisconnect
  /\ UNCHANGED <<chainVars, present, nMisbehavior, pool, orphanVars, loop, world, node, socket, handshake, inbox,
                 enforced>>

-----------------------------------------------------------------------------
(* A block of our own, or from an RPC or a file. *)
LocalBlock(b) ==
  /\ b \in world.local /\ cs_main /\ Known(Prev[b]) /\ ~HaveChain(status, b)
  /\ \E v \in world.verdicts : ProcessNewBlock(b, v)
  /\ TipMoves
  /\ UNCHANGED <<peerBlocks, flight, present, asking, orphanVars, rejectVars, loop, world, connVars, syncVars,
                 enforced, m>>

(* A spork raises ActiveProtocol(). *)
EnforceProtocol ==
  /\ ~enforced /\ world.old # {}
  /\ enforced' = TRUE
  /\ UNCHANGED <<downloadVars, relayVars, world, connVars, syncVars, m>>

(* The clock ticks between two rounds. *)
Tick ==
  /\ m.pc = "idle"
  /\ Age /\ CountDown
  /\ UNCHANGED <<chainVars, peerBlocks, present, score, pool, orphanVars, rejectVars, loop, world, connVars,
                 syncVars, enforced, m>>

Init ==
  /\ world \in Worlds
  /\ DownloadInit(world.start) /\ RelayInit
  /\ node = [p \in Peers |-> IF p \in world.up THEN "linked" ELSE "new"]
  /\ present = world.up /\ socket = world.up /\ fDisconnect = {}
  /\ handshake = [p \in Peers |-> IF p \in world.up THEN 2 ELSE 0] /\ inbox = [p \in Peers |-> << >>]
  /\ fSyncStarted = {} /\ nSyncStarted = 0 /\ nPreferredDownload = Cardinality(world.up \ world.inbound)
  /\ enforced = FALSE /\ m = Idle

Handle(p) ==
  TooEarly(p) \/ OnVersion(p) \/ OnVerack(p) \/ OnInv(p) \/ OnInvTx(p) \/ OnTx(p) \/ OnBlock(p)

Handler ==
  \/ StartRound \/ EndRound \/ OrphanWork \/ OnBlockProcess \/ OnBlockEnd
  \/ \E p \in Peers : SkipNode(p) \/ Handle(p) \/ SendNothing(p) \/ SendMessages(p)

Next ==
  \/ \E p \in Peers : InitializeNode(p) \/ SocketClosed(p) \/ DisconnectNode(p) \/ RemoveNode(p) \/ FinalizeNode(p)
  \/ \E p \in Peers : \E msg \in Sends(p) : Receive(p, msg)
  \/ Handler
  \/ \E b \in Blocks : LocalBlock(b)
  \/ EnforceProtocol
  \/ Tick

(* The two threads run, the clock goes on, and the peer that world.watch   *)
(* names finds cs_main free again and again and answers what it is asked.  *)
watch == world.watch
SocketThread == \E p \in Peers : RemoveNode(p) \/ FinalizeNode(p)
Answer == \E msg \in Answers(watch.peer) : msg.of = watch.tx /\ Receive(watch.peer, msg)

Fairness ==
  /\ WF_vars(Handler) /\ WF_vars(SocketThread) /\ SF_vars(Tick)
  /\ SF_vars(SendMessages(watch.peer)) /\ SF_vars(Answer)

Spec == Init /\ [][Next]_vars /\ Fairness

-----------------------------------------------------------------------------
(* The counts that decide whether a sync may start and whom to download    *)
(* from are those of the peers that exist (SendMessages, FinalizeNode,     *)
(* UpdatePreferredDownload).                                               *)
CountsExact ==
  /\ fSyncStarted \subseteq present /\ nSyncStarted = Cardinality(fSyncStarted)
  /\ nPreferredDownload = Cardinality({p \in present : Preferred(p)})

(* The index by previous transaction is that of the orphans, each came     *)
(* from a peer that exists, and there are no more than -maxorphantx        *)
(* (AddOrphanTx, EraseOrphanTx, EraseOrphansFor, LimitOrphanTxSize).       *)
OrphansExact ==
  /\ \A x \in Txs : mapOrphanTransactionsByPrev[x] = {t \in Orphans : x \in Parents[t]}
  /\ \A t \in Orphans : mapOrphanTransactions[t] \in present
  /\ Cardinality(Orphans) <= MaxOrphans

(* A block that is asked of a peer does not stay in flight for ever: it    *)
(* comes, or the peer is dropped for stalling or by the timeout, even if   *)
(* fDisconnect is cleared under it (SendMessages, FinalizeNode).           *)
RequestsEnd == mapBlocksInFlight[watch.block] = watch.peer ~> mapBlocksInFlight[watch.block] # watch.peer

(* A transaction a peer announced is asked of it in the end and, as it     *)
(* answers, comes, unless it came from elsewhere or the peer left          *)
(* (CNode::AskFor, the end of SendMessages, the TX handler).               *)
TxFetched ==
  (watch.peer \in world.answering /\ \E i \in DOMAIN mapAskFor[watch.peer] : mapAskFor[watch.peer][i].tx = watch.tx)
    ~> (AlreadyHave(watch.tx) \/ mapAlreadyAskedFor[watch.tx] = None \/ watch.peer \notin vNodes)

(* "Blocks that are in flight, and that are in the queue to be             *)
(* downloaded": a block that comes from the peer it was asked of is not in *)
(* flight from it any more.  BLOCK drops a block whose header is in the    *)
(* index before MarkBlockAsReceived, and every block in flight is in the   *)
(* index, so this does not hold.                                           *)
DeliveredLeavesFlight ==
  [][\A p \in Peers : OnBlock(p) => mapBlocksInFlight'[Of(p)] # p]_vars
=============================================================================
