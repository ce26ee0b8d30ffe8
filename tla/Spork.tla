------------------------------- MODULE Spork -------------------------------
(***************************************************************************)
(* The spork managers (src/src/spork.cpp) of nodes that talk to each other *)
(* over connections that keep their order and end when either node stops.  *)
(* A spork is a value signed with a time by a holder of the network's key; *)
(* every node keeps the one signed last, passes it on, and writes it to a  *)
(* database it reads when it starts.                                       *)
(*                                                                         *)
(* The ids of sporks do not meet except when they are loaded, so there is  *)
(* one here: SPORK_15, whose value is not loaded when it is stale.  Every  *)
(* message is from a node, so signatures, ids and versions are good.  The  *)
(* verack and the delay of a second request are left to NetProcessing.     *)
(***************************************************************************)
EXTENDS Integers, Sequences

CONSTANTS
  Nodes, None,
  Links,        \* <<n, m>>: n opens connections to m
  Signers,      \* the nodes started with -sporkkey
  Values,
  Skew,         \* Skew[n]: how far the clock of n is ahead
  Future,       \* the two hours of ProcessSporkMsg
  Stale,        \* the last time LoadSporksFromDB finds too old
  Starts,       \* what the databases may hold at first
  Watched,      \* [from, to, time]: what liveness is stated of
  MaxTime, MaxUpdates, MaxRestarts

Sporks == [nValue : Values, nTimeSigned : Nat]

ASSUME SporkAssumption ==
  /\ Links \subseteq Nodes \X Nodes
  /\ \A l \in Links : l[1] # l[2] /\ <<l[2], l[1]>> \notin Links
  /\ Signers \subseteq Nodes
  /\ Skew \in [Nodes -> Nat]
  /\ Future \in Nat /\ Stale \in Nat
  /\ None \notin Sporks
  /\ Starts \subseteq [Nodes -> Sporks \cup {None}]
  /\ Watched \subseteq [from : Nodes, to : Nodes, time : Nat]
  /\ MaxTime \in Nat /\ MaxUpdates \in Nat /\ MaxRestarts \in Nat

VARIABLES
  now, updates, restarts,
  mapSporksActive,          \* the spork in force, or None
  mapSporks,                \* the sporks a node can be asked for
  pSporkDB,                 \* the spork on disk, or None
  fRequestedSporksIDB,
  handler,                  \* where the message thread is in ProcessSporkMsg
  rpc,                      \* the spork UpdateSpork has relayed and not stored
  linked, versioned,        \* connections, and those whose VERSION has come
  banned,
  wire,                     \* wire[n][m]: what n has sent and m has not read
  vInventoryTierTwoToSend, mapAskFor,
  watch                     \* one of Watched: never changes

manager == <<mapSporksActive, mapSporks, pSporkDB, fRequestedSporksIDB, handler, rpc>>
net == <<linked, versioned, banned, wire, vInventoryTierTwoToSend, mapAskFor>>
world == <<now, updates, restarts, watch>>
sporkVars == <<manager, net, world>>

-----------------------------------------------------------------------------
Idle == [pc |-> "idle", spork |-> None]
Message(type, sporks) == [type |-> type, sporks |-> sporks]
Messages ==
  [type : {"version", "getsporks", "inv", "getdata", "spork"}, sporks : SUBSET Sporks]
Time(s) == IF s = None THEN -1 ELSE s.nTimeSigned

SporkTypeOK ==
  /\ now \in Nat /\ updates \in Nat /\ restarts \in Nat
  /\ mapSporksActive \in [Nodes -> Sporks \cup {None}]
  /\ mapSporks \in [Nodes -> SUBSET Sporks]
  /\ pSporkDB \in [Nodes -> Sporks \cup {None}]
  /\ fRequestedSporksIDB \in [Nodes -> BOOLEAN]
  /\ handler \in [Nodes -> [pc : {"idle", "store", "write"}, spork : Sporks \cup {None}]]
  /\ rpc \in [Nodes -> Sporks \cup {None}]
  /\ linked \in [Nodes -> SUBSET Nodes] /\ versioned \in [Nodes -> SUBSET Nodes]
  /\ banned \in SUBSET (Nodes \X Nodes)
  /\ wire \in [Nodes -> [Nodes -> Seq(Messages)]]
  /\ vInventoryTierTwoToSend \in [Nodes -> [Nodes -> SUBSET Sporks]]
  /\ mapAskFor \in [Nodes -> [Nodes -> SUBSET Sporks]]

-----------------------------------------------------------------------------
(* LoadSporksFromDB leaves a stale spork out of memory.                    *)
LoadSporksFromDB(n) ==
  IF Time(pSporkDB[n]) <= Stale THEN None ELSE pSporkDB[n]

(* RelayInv: to every node whose version is known.                         *)
RelayInv(n, s) ==
  vInventoryTierTwoToSend' = [vInventoryTierTwoToSend EXCEPT ![n] =
    [m \in Nodes |-> IF m \in versioned[n] THEN @[m] \cup {s} ELSE @[m]]]

(* m takes the first message that n sent it and n is sent the answers.     *)
Exchange(m, n, answers) ==
  wire' = [[wire EXCEPT ![n][m] = Tail(@)] EXCEPT ![m][n] = @ \o answers]

(* The connection of n and m is gone, with all that was on its way.        *)
Without(f, S, default) ==
  [n \in Nodes |-> [m \in Nodes |-> IF {n, m} \in S THEN default ELSE f[n][m]]]
Close(S) ==
  /\ linked' = [n \in Nodes |-> {m \in linked[n] : {n, m} \notin S}]
  /\ versioned' = [n \in Nodes |-> {m \in versioned[n] : {n, m} \notin S}]
  /\ wire' = Without(wire, S, << >>)
  /\ vInventoryTierTwoToSend' = Without(vInventoryTierTwoToSend, S, {})
  /\ mapAskFor' = Without(mapAskFor, S, {})

-----------------------------------------------------------------------------
Connect(n, m) ==
  /\ <<n, m>> \in Links
  /\ m \notin linked[n]
  /\ <<n, m>> \notin banned /\ <<m, n>> \notin banned
  /\ linked' = [linked EXCEPT ![n] = @ \cup {m}, ![m] = @ \cup {n}]
  /\ wire' = [wire EXCEPT ![n][m] = <<Message("version", {})>>]
  /\ UNCHANGED <<versioned, banned, vInventoryTierTwoToSend, mapAskFor, manager, world>>

(* The node stops between two steps of any of its threads and starts anew. *)
Restart(n) ==
  /\ restarts < MaxRestarts
  /\ restarts' = restarts + 1
  /\ mapSporksActive' = [mapSporksActive EXCEPT ![n] = LoadSporksFromDB(n)]
  /\ mapSporks' = [mapSporks EXCEPT ![n] = {LoadSporksFromDB(n)} \ {None}]
  /\ fRequestedSporksIDB' = [fRequestedSporksIDB EXCEPT ![n] = FALSE]
  /\ handler' = [handler EXCEPT ![n] = Idle]
  /\ rpc' = [rpc EXCEPT ![n] = None]
  /\ Close({{n, m} : m \in Nodes})
  /\ UNCHANGED <<pSporkDB, banned, now, updates, watch>>

(* The message thread of m is free and finds a message from n.             *)
Takes(m, n, type) ==
  /\ handler[m] = Idle
  /\ wire[n][m] # << >>
  /\ Head(wire[n][m]).type = type

(* The accepting side answers with its own version, and a node asks for    *)
(* sporks if its database lacks one or it has not asked since it started.  *)
OnVersion(m, n) ==
  /\ Takes(m, n, "version")
  /\ versioned' = [versioned EXCEPT ![m] = @ \cup {n}]
  /\ LET fMissingSporks == pSporkDB[m] = None
         fAsk == fMissingSporks \/ ~fRequestedSporksIDB[m]
     IN /\ Exchange(m, n,
             (IF <<n, m>> \in Links THEN <<Message("version", {})>> ELSE << >>)
               \o (IF fAsk THEN <<Message("getsporks", {})>> ELSE << >>))
        /\ fRequestedSporksIDB' = [fRequestedSporksIDB EXCEPT ![m] = @ \/ fAsk]
  /\ UNCHANGED <<linked, banned, vInventoryTierTwoToSend, mapAskFor, mapSporksActive,
                 mapSporks, pSporkDB, handler, rpc, world>>

ProcessGetSporks(m, n) ==
  /\ Takes(m, n, "getsporks")
  /\ Exchange(m, n, IF mapSporksActive[m] = None THEN << >>
                    ELSE <<Message("spork", {mapSporksActive[m]})>>)
  /\ UNCHANGED <<linked, versioned, banned, vInventoryTierTwoToSend, mapAskFor, manager, world>>

OnInv(m, n) ==
  /\ Takes(m, n, "inv")
  /\ mapAskFor' = [mapAskFor EXCEPT ![m][n] = @ \cup (Head(wire[n][m]).sporks \ mapSporks[m])]
  /\ Exchange(m, n, << >>)
  /\ UNCHANGED <<linked, versioned, banned, vInventoryTierTwoToSend, manager, world>>

(* ProcessGetData: a spork that is not in mapSporks is answered with a     *)
(* NOTFOUND, which the asking node does nothing about.                     *)
OnGetData(m, n) ==
  /\ Takes(m, n, "getdata")
  /\ Exchange(m, n, IF Head(wire[n][m]).sporks \subseteq mapSporks[m]
                    THEN <<Message("spork", Head(wire[n][m]).sporks)>> ELSE << >>)
  /\ UNCHANGED <<linked, versioned, banned, vInventoryTierTwoToSend, mapAskFor, manager, world>>

(* ProcessSporkMsg up to the end of its first lock: a spork signed too far *)
(* ahead of the clock has its sender banned, one that is not newer than    *)
(* the one in force is dropped, and the thread goes on with the others.    *)
ProcessSporkMsg(m, n) ==
  /\ Takes(m, n, "spork")
  /\ \E spork \in Head(wire[n][m]).sporks :
       \/ /\ spork.nTimeSigned > now + Skew[m] + Future
          /\ banned' = banned \cup {<<m, n>>}
          /\ Close({{m, n}})
          /\ UNCHANGED manager
       \/ /\ spork.nTimeSigned <= now + Skew[m] + Future
          /\ Exchange(m, n, << >>)
          /\ IF Time(mapSporksActive[m]) >= spork.nTimeSigned
             THEN UNCHANGED handler
             ELSE handler' = [handler EXCEPT ![m] = [pc |-> "store", spork |-> spork]]
          /\ UNCHANGED <<linked, versioned, banned, vInventoryTierTwoToSend, mapAskFor,
                         mapSporksActive, mapSporks, pSporkDB, fRequestedSporksIDB, rpc>>
  /\ UNCHANGED world

StoreSporkActiveOnly(m) ==
  /\ handler[m].pc = "store"
  /\ mapSporksActive' = [mapSporksActive EXCEPT ![m] = handler[m].spork]
  /\ RelayInv(m, handler[m].spork)
  /\ handler' = [handler EXCEPT ![m].pc = "write"]
  /\ UNCHANGED <<mapSporks, pSporkDB, fRequestedSporksIDB, rpc, linked, versioned, banned,
                 wire, mapAskFor, world>>

(* Its second lock, and Relay: the spork in force is not looked at again.  *)
StoreSpork(m) ==
  /\ handler[m].pc = "store"
  /\ mapSporks' = [mapSporks EXCEPT ![m] = @ \cup {handler[m].spork}]
  /\ mapSporksActive' = [mapSporksActive EXCEPT ![m] = handler[m].spork]
  /\ RelayInv(m, handler[m].spork)
  /\ handler' = [handler EXCEPT ![m].pc = "write"]
  /\ UNCHANGED <<pSporkDB, fRequestedSporksIDB, rpc, linked, versioned, banned, wire,
                 mapAskFor, world>>

WriteSporkForgotten(m) ==
  /\ handler[m].pc = "write"
  /\ handler' = [handler EXCEPT ![m] = Idle]
  /\ UNCHANGED <<mapSporksActive, mapSporks, pSporkDB, fRequestedSporksIDB, rpc, net, world>>

WriteSpork(m) ==
  /\ handler[m].pc = "write"
  /\ pSporkDB' = [pSporkDB EXCEPT ![m] = handler[m].spork]
  /\ handler' = [handler EXCEPT ![m] = Idle]
  /\ UNCHANGED <<mapSporksActive, mapSporks, fRequestedSporksIDB, rpc, net, world>>

(* The inventory, and the request that is due, if any, when it is still    *)
(* wanted: each has a time of its own.                                     *)
SendMessages(m, n, due) ==
  /\ handler[m] = Idle
  /\ n \in versioned[m]
  /\ vInventoryTierTwoToSend[m][n] # {} \/ due # {}
  /\ LET inv == vInventoryTierTwoToSend[m][n]
         ask == due \ mapSporks[m]
     IN wire' = [wire EXCEPT ![m][n] = @
          \o (IF inv = {} THEN << >> ELSE <<Message("inv", inv)>>)
          \o (IF ask = {} THEN << >> ELSE <<Message("getdata", ask)>>)]
  /\ vInventoryTierTwoToSend' = [vInventoryTierTwoToSend EXCEPT ![m][n] = {}]
  /\ mapAskFor' = [mapAskFor EXCEPT ![m][n] = @ \ due]
  /\ UNCHANGED <<linked, versioned, banned, manager, world>>

-----------------------------------------------------------------------------
(* The RPC thread of a signer: the spork is relayed, and then stored.  It  *)
(* is neither compared with the one in force nor written to the database.  *)
UpdateSpork(n, nValue) ==
  /\ n \in Signers /\ rpc[n] = None
  /\ updates < MaxUpdates
  /\ updates' = updates + 1
  /\ LET spork == [nValue |-> nValue, nTimeSigned |-> now + Skew[n]]
     IN /\ RelayInv(n, spork)
        /\ rpc' = [rpc EXCEPT ![n] = spork]
  /\ UNCHANGED <<mapSporksActive, mapSporks, pSporkDB, fRequestedSporksIDB, handler,
                 linked, versioned, banned, wire, mapAskFor, now, restarts, watch>>

UpdateSporkStore(n) ==
  /\ rpc[n] # None
  /\ mapSporks' = [mapSporks EXCEPT ![n] = @ \cup {rpc[n]}]
  /\ mapSporksActive' = [mapSporksActive EXCEPT ![n] = rpc[n]]
  /\ rpc' = [rpc EXCEPT ![n] = None]
  /\ UNCHANGED <<pSporkDB, fRequestedSporksIDB, handler, net, world>>

Tick ==
  /\ now < MaxTime
  /\ now' = now + 1
  /\ UNCHANGED <<manager, net, updates, restarts, watch>>

-----------------------------------------------------------------------------
SporkInit ==
  /\ now = 0 /\ updates = 0 /\ restarts = 0
  /\ pSporkDB \in Starts
  /\ mapSporksActive = [n \in Nodes |-> LoadSporksFromDB(n)]
  /\ mapSporks = [n \in Nodes |-> {LoadSporksFromDB(n)} \ {None}]
  /\ fRequestedSporksIDB = [n \in Nodes |-> FALSE]
  /\ handler = [n \in Nodes |-> Idle]
  /\ rpc = [n \in Nodes |-> None]
  /\ linked = [n \in Nodes |-> {}] /\ versioned = [n \in Nodes |-> {}]
  /\ banned = {}
  /\ wire = [n \in Nodes |-> [m \in Nodes |-> << >>]]
  /\ vInventoryTierTwoToSend = [n \in Nodes |-> [m \in Nodes |-> {}]]
  /\ mapAskFor = [n \in Nodes |-> [m \in Nodes |-> {}]]
  /\ watch \in Watched

Receive(m, n) ==
  \/ OnVersion(m, n)
  \/ ProcessGetSporks(m, n)
  \/ OnInv(m, n)
  \/ OnGetData(m, n)
  \/ ProcessSporkMsg(m, n)

Send(m, n) == \E due \in {{}} \cup {{s} : s \in mapAskFor[m][n]} : SendMessages(m, n, due)

FinishSpork(m) == StoreSpork(m) \/ WriteSpork(m)

SporkNext ==
  \/ \E n, m \in Nodes : Connect(n, m) \/ Receive(m, n) \/ Send(m, n)
  \/ \E n \in Nodes : FinishSpork(n) \/ UpdateSporkStore(n) \/ Restart(n)
  \/ \E n \in Nodes, v \in Values : UpdateSpork(n, v)
  \/ Tick

(* A message thread goes round its nodes without end, and finishes what it *)
(* has begun.                                                              *)
Fairness ==
  /\ WF_sporkVars(FinishSpork(watch.from)) /\ WF_sporkVars(FinishSpork(watch.to))
  /\ SF_sporkVars(Receive(watch.to, watch.from)) /\ SF_sporkVars(Send(watch.from, watch.to))
  /\ SF_sporkVars(Receive(watch.from, watch.to)) /\ SF_sporkVars(Send(watch.to, watch.from))

SporkSpec == SporkInit /\ [][SporkNext]_sporkVars /\ Fairness

-----------------------------------------------------------------------------
(* A node that does not sign never goes back to an older spork, over its   *)
(* restarts too: not by the check and the store of ProcessSporkMsg being   *)
(* under two locks, and not by what is on disk when it stops.  Only a stop *)
(* between the store and WriteSpork loses the spork, and a stale spork is  *)
(* not loaded.                                                             *)
NeverOlder ==
  [][\A n \in Nodes \ Signers :
       \/ Time(mapSporksActive'[n]) >= Time(mapSporksActive[n])
       \/ Restart(n) /\ (handler[n].pc = "write" \/ Time(mapSporksActive[n]) <= Stale)]_sporkVars

(* A spork that ProcessSporkMsg stores reaches every node that the node    *)
(* has the version of, or a newer one does, unless the connection ends     *)
(* first: mapSporks holds it before the inventory goes out, so the request *)
(* for it is answered.  Of UpdateSpork, which relays first, it is not true.*)
RelayReaches ==
  /\ handler[watch.from].pc = "write" /\ handler[watch.from].spork.nTimeSigned = watch.time
  /\ watch.to \in versioned[watch.from]
  ~> Time(mapSporksActive[watch.to]) >= watch.time \/ watch.to \notin linked[watch.from]
=============================================================================
