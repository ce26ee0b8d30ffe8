--------------------------- MODULE DatabaseProofs ---------------------------
(***************************************************************************)
(* Proofs about the two databases a node comes back from when it restarts. *)
(*                                                                         *)
(* Spork: no node that does not sign goes back to an older spork, for any  *)
(* number of nodes, connections, restarts and sporks.                      *)
(*                                                                         *)
(* CoinsDB: for every block tree, every set of outpoints and every way the *)
(* batches, crashes and write errors may fall.                             *)
(***************************************************************************)
EXTENDS Spork, CoinsDB, TLAPS

-----------------------------------------------------------------------------
(* Spork *)

SporkDataOK ==
  /\ now \in Nat
  /\ mapSporksActive \in [Nodes -> Sporks \cup {None}]
  /\ pSporkDB \in [Nodes -> Sporks \cup {None}]
  /\ handler \in [Nodes -> [pc : {"idle", "store", "write"}, spork : Sporks \cup {None}]]
  /\ \A n \in Nodes : handler[n].pc # "idle" => handler[n].spork \in Sporks
  /\ rpc \in [Nodes -> Sporks \cup {None}]
  /\ wire \in [Nodes -> [Nodes -> Seq(Messages)]]
  /\ vInventoryTierTwoToSend \in [Nodes -> [Nodes -> SUBSET Sporks]]
  /\ mapAskFor \in [Nodes -> [Nodes -> SUBSET Sporks]]

(* What a node that does not sign has in memory is what it has on disk,    *)
(* unless ProcessSporkMsg is at its write, or the spork on disk is stale   *)
(* and was left out; and what ProcessSporkMsg is about to store is newer.  *)
OnDisk(n) ==
  \/ pSporkDB[n] = mapSporksActive[n]
  \/ mapSporksActive[n] = None /\ Time(pSporkDB[n]) <= Stale
Follows(n) ==
  /\ rpc[n] = None
  /\ handler[n].pc # "write" => OnDisk(n)
  /\ handler[n].pc = "store" => ~(Time(mapSporksActive[n]) >= Time(handler[n].spork))
  /\ handler[n].pc = "write" => mapSporksActive[n] = handler[n].spork
FollowInv == \A n \in Nodes \ Signers : Follows(n)

SporkInv == SporkDataOK /\ FollowInv

-----------------------------------------------------------------------------
LEMMA SporkFacts ==
  /\ None \notin Sporks
  /\ \A s \in Sporks : s # None /\ s.nTimeSigned \in Nat /\ Time(s) = s.nTimeSigned
  /\ Time(None) = -1
BY Zenon, SporkAssumption DEF Sporks, Time

LEMMA WireExchange ==
  ASSUME SporkDataOK, NEW m \in Nodes, NEW n \in Nodes, NEW answers \in Seq(Messages),
         wire[n][m] # << >>, Exchange(m, n, answers)
  PROVE  wire' \in [Nodes -> [Nodes -> Seq(Messages)]]
<1> DEFINE w == [wire EXCEPT ![n][m] = Tail(@)]
<1>1. wire[n][m] \in Seq(Messages)
  BY Zenon DEF SporkDataOK
<1>2. Tail(wire[n][m]) \in Seq(Messages)
  BY <1>1
<1>3. w \in [Nodes -> [Nodes -> Seq(Messages)]]
  BY Zenon, <1>2 DEF SporkDataOK
<1>4. w[m][n] \o answers \in Seq(Messages)
  BY <1>3
<1>5. wire' = [w EXCEPT ![m][n] = @ \o answers]
  BY Zenon DEF Exchange
<1> HIDE DEF w
<1> QED
  BY Zenon, <1>3, <1>4, <1>5

LEMMA HeadIsMessage ==
  ASSUME SporkDataOK, NEW m \in Nodes, NEW n \in Nodes, wire[n][m] # << >>
  PROVE  Head(wire[n][m]) \in Messages /\ Head(wire[n][m]).sporks \in SUBSET Sporks
<1>1. wire[n][m] \in Seq(Messages)
  BY Zenon DEF SporkDataOK
<1>2. Head(wire[n][m]) \in Messages
  BY <1>1
<1> QED
  BY Zenon, <1>2 DEF Messages

LEMMA CloseData ==
  ASSUME SporkDataOK, NEW S, Close(S)
  PROVE  /\ wire' \in [Nodes -> [Nodes -> Seq(Messages)]]
         /\ vInventoryTierTwoToSend' \in [Nodes -> [Nodes -> SUBSET Sporks]]
         /\ mapAskFor' \in [Nodes -> [Nodes -> SUBSET Sporks]]
<1>1. << >> \in Seq(Messages)
  OBVIOUS
<1>2. wire' \in [Nodes -> [Nodes -> Seq(Messages)]]
  BY Zenon, <1>1 DEF SporkDataOK, Close, Without
<1>3. vInventoryTierTwoToSend' \in [Nodes -> [Nodes -> SUBSET Sporks]]
  BY Zenon DEF SporkDataOK, Close, Without
<1>4. mapAskFor' \in [Nodes -> [Nodes -> SUBSET Sporks]]
  BY Zenon DEF SporkDataOK, Close, Without
<1> QED
  BY Zenon, <1>2, <1>3, <1>4

LEMMA RelayData ==
  ASSUME SporkDataOK, NEW n \in Nodes, NEW s \in Sporks, RelayInv(n, s)
  PROVE  vInventoryTierTwoToSend' \in [Nodes -> [Nodes -> SUBSET Sporks]]
BY DEF SporkDataOK, RelayInv

LEMMA LoadData ==
  ASSUME SporkDataOK, NEW n \in Nodes
  PROVE  LoadSporksFromDB(n) \in Sporks \cup {None}
BY Zenon DEF SporkDataOK, LoadSporksFromDB

LEMMA MessageType ==
  ASSUME NEW type \in {"version", "getsporks", "inv", "getdata", "spork"}, NEW S \in SUBSET Sporks
  PROVE  <<Message(type, S)>> \in Seq(Messages) /\ << >> \in Seq(Messages)
BY DEF Message, Messages
-----------------------------------------------------------------------------
LEMMA ReceiveData ==
  ASSUME SporkInv, NEW m \in Nodes, NEW n \in Nodes, Receive(m, n)
  PROVE  SporkDataOK'
<1>1. SporkDataOK
  BY Zenon DEF SporkInv
<1>2. CASE OnVersion(m, n)
  <2> DEFINE reply == IF <<n, m>> \in Links THEN <<Message("version", {})>> ELSE << >>
             ask == IF pSporkDB[m] = None \/ ~fRequestedSporksIDB[m]
                    THEN <<Message("getsporks", {})>> ELSE << >>
  <2>1. reply \in Seq(Messages) /\ ask \in Seq(Messages)
    BY Zenon, MessageType
  <2>2. reply \o ask \in Seq(Messages)
    BY <2>1
  <2>3. wire[n][m] # << >> /\ Exchange(m, n, reply \o ask)
    BY Zenon, <1>2 DEF OnVersion, Takes
  <2> HIDE DEF reply, ask
  <2>4. wire' \in [Nodes -> [Nodes -> Seq(Messages)]]
    BY Zenon, <1>1, <2>2, <2>3, WireExchange
  <2> QED
    BY Zenon, <1>1, <1>2, <2>4 DEF SporkDataOK, OnVersion, world
<1>3. CASE ProcessGetSporks(m, n)
  <2> DEFINE answer == IF mapSporksActive[m] = None THEN << >>
                       ELSE <<Message("spork", {mapSporksActive[m]})>>
  <2>1. mapSporksActive[m] \in Sporks \cup {None}
    BY Zenon, <1>1 DEF SporkDataOK
  <2>2. answer \in Seq(Messages)
    BY Zenon, <2>1, MessageType
  <2>3. wire[n][m] # << >> /\ Exchange(m, n, answer)
    BY Zenon, <1>3 DEF ProcessGetSporks, Takes
  <2> HIDE DEF answer
  <2>4. wire' \in [Nodes -> [Nodes -> Seq(Messages)]]
    BY Zenon, <1>1, <2>2, <2>3, WireExchange
  <2> QED
    BY Zenon, <1>1, <1>3, <2>4 DEF SporkDataOK, ProcessGetSporks, world, manager
<1>4. CASE OnInv(m, n)
  <2>1. wire[n][m] # << >> /\ Exchange(m, n, << >>)
    BY Zenon, <1>4 DEF OnInv, Takes
  <2>2. wire' \in [Nodes -> [Nodes -> Seq(Messages)]]
    BY Zenon, <1>1, <2>1, WireExchange, MessageType
  <2>3. Head(wire[n][m]).sporks \in SUBSET Sporks
    BY Zenon, <1>1, <2>1, HeadIsMessage
  <2>4. mapAskFor' \in [Nodes -> [Nodes -> SUBSET Sporks]]
    BY Zenon, <1>1, <1>4, <2>3 DEF SporkDataOK, OnInv
  <2> QED
    BY Zenon, <1>1, <1>4, <2>2, <2>4 DEF SporkDataOK, OnInv, world, manager
<1>5. CASE OnGetData(m, n)
  <2> DEFINE answer == IF Head(wire[n][m]).sporks \subseteq mapSporks[m]
                       THEN <<Message("spork", Head(wire[n][m]).sporks)>> ELSE << >>
  <2>1. wire[n][m] # << >> /\ Exchange(m, n, answer)
    BY Zenon, <1>5 DEF OnGetData, Takes
  <2>2. Head(wire[n][m]).sporks \in SUBSET Sporks
    BY Zenon, <1>1, <2>1, HeadIsMessage
  <2>3. answer \in Seq(Messages)
    BY Zenon, <2>2, MessageType
  <2> HIDE DEF answer
  <2>4. wire' \in [Nodes -> [Nodes -> Seq(Messages)]]
    BY Zenon, <1>1, <2>1, <2>3, WireExchange
  <2> QED
    BY Zenon, <1>1, <1>5, <2>4 DEF SporkDataOK, OnGetData, world, manager
<1>6. CASE ProcessSporkMsg(m, n)
  <2>1. wire[n][m] # << >>
    BY Zenon, <1>6 DEF ProcessSporkMsg, Takes
  <2>2. PICK spork \in Head(wire[n][m]).sporks :
          \/ Close({{m, n}}) /\ UNCHANGED manager
          \/ /\ Exchange(m, n, << >>)
             /\ \/ UNCHANGED handler
                \/ handler' = [handler EXCEPT ![m] = [pc |-> "store", spork |-> spork]]
             /\ UNCHANGED <<vInventoryTierTwoToSend, mapAskFor, mapSporksActive, pSporkDB, rpc>>
    BY Zenon, <1>6 DEF ProcessSporkMsg
  <2>3. now' = now
    BY Zenon, <1>6 DEF ProcessSporkMsg, world
  <2>4. spork \in Sporks
    BY Zenon, <1>1, <2>1, HeadIsMessage
  <2>5. CASE Close({{m, n}}) /\ UNCHANGED manager
    <3>1. /\ wire' \in [Nodes -> [Nodes -> Seq(Messages)]]
          /\ vInventoryTierTwoToSend' \in [Nodes -> [Nodes -> SUBSET Sporks]]
          /\ mapAskFor' \in [Nodes -> [Nodes -> SUBSET Sporks]]
      BY Zenon, <1>1, <2>5, CloseData
    <3> QED
      BY Zenon, <1>1, <2>3, <2>5, <3>1 DEF SporkDataOK, manager
  <2>6. CASE /\ Exchange(m, n, << >>)
             /\ \/ UNCHANGED handler
                \/ handler' = [handler EXCEPT ![m] = [pc |-> "store", spork |-> spork]]
             /\ UNCHANGED <<vInventoryTierTwoToSend, mapAskFor, mapSporksActive, pSporkDB, rpc>>
    <3>1. wire' \in [Nodes -> [Nodes -> Seq(Messages)]]
      BY Zenon, <1>1, <2>1, <2>6, WireExchange, MessageType
    <3>2. handler' \in [Nodes -> [pc : {"idle", "store", "write"}, spork : Sporks \cup {None}]]
      <4>1. CASE UNCHANGED handler
        BY Zenon, <1>1, <4>1 DEF SporkDataOK
      <4>2. CASE handler' = [handler EXCEPT ![m] = [pc |-> "store", spork |-> spork]]
        BY Zenon, <1>1, <2>4, <4>2 DEF SporkDataOK
      <4> QED
        BY Zenon, <2>6, <4>1, <4>2
    <3>3. \A x \in Nodes : handler'[x].pc # "idle" => handler'[x].spork \in Sporks
      <4>1. CASE UNCHANGED handler
        BY Zenon, <1>1, <4>1 DEF SporkDataOK
      <4>2. CASE handler' = [handler EXCEPT ![m] = [pc |-> "store", spork |-> spork]]
        BY Zenon, <1>1, <2>4, <4>2 DEF SporkDataOK
      <4> QED
        BY Zenon, <2>6, <4>1, <4>2
    <3> QED
      BY Zenon, <1>1, <2>3, <2>6, <3>1, <3>2, <3>3 DEF SporkDataOK
  <2> QED
    BY Zenon, <2>2, <2>5, <2>6
<1> QED
  BY Zenon, <1>2, <1>3, <1>4, <1>5, <1>6 DEF Receive

LEMMA SendData ==
  ASSUME SporkInv, NEW m \in Nodes, NEW n \in Nodes, Send(m, n)
  PROVE  SporkDataOK'
<1>1. SporkDataOK
  BY Zenon DEF SporkInv
<1>2. PICK due \in {{}} \cup {{s} : s \in mapAskFor[m][n]} : SendMessages(m, n, due)
  BY Zenon DEF Send
<1> DEFINE inv == vInventoryTierTwoToSend[m][n]
           ask == due \ mapSporks[m]
           invs == IF inv = {} THEN << >> ELSE <<Message("inv", inv)>>
           asks == IF ask = {} THEN << >> ELSE <<Message("getdata", ask)>>
<1>3. mapAskFor[m][n] \in SUBSET Sporks /\ inv \in SUBSET Sporks
  BY <1>1 DEF SporkDataOK
<1>4. ask \in SUBSET Sporks
  BY Zenon, <1>3
<1>5. invs \in Seq(Messages) /\ asks \in Seq(Messages)
  BY Zenon, <1>3, <1>4, MessageType
<1>6. wire' = [wire EXCEPT ![m][n] = @ \o invs \o asks]
  BY Zenon, <1>2 DEF SendMessages
<1> HIDE DEF invs, asks
<1>7. wire[m][n] \o invs \o asks \in Seq(Messages)
  BY <1>1, <1>5 DEF SporkDataOK
<1>8. wire' \in [Nodes -> [Nodes -> Seq(Messages)]]
  BY Zenon, <1>1, <1>6, <1>7 DEF SporkDataOK
<1>9. vInventoryTierTwoToSend' \in [Nodes -> [Nodes -> SUBSET Sporks]]
  BY Zenon, <1>1, <1>2 DEF SporkDataOK, SendMessages
<1>10. mapAskFor' \in [Nodes -> [Nodes -> SUBSET Sporks]]
  BY Zenon, <1>1, <1>2 DEF SporkDataOK, SendMessages
<1> QED
  BY Zenon, <1>1, <1>2, <1>8, <1>9, <1>10 DEF SporkDataOK, SendMessages, manager, world
LEMMA FinishData ==
  ASSUME SporkDataOK, NEW n \in Nodes, FinishSpork(n)
  PROVE  SporkDataOK'
<1>1. CASE StoreSpork(n)
  <2>1. handler[n].spork \in Sporks /\ RelayInv(n, handler[n].spork)
    BY Zenon, <1>1 DEF SporkDataOK, StoreSpork
  <2>2. vInventoryTierTwoToSend' \in [Nodes -> [Nodes -> SUBSET Sporks]]
    BY Zenon, <2>1, RelayData
  <2>3. handler' = [handler EXCEPT ![n].pc = "write"]
    BY Zenon, <1>1 DEF StoreSpork
  <2>4. /\ handler' \in [Nodes -> [pc : {"idle", "store", "write"}, spork : Sporks \cup {None}]]
        /\ \A x \in Nodes : handler'[x].pc # "idle" => handler'[x].spork \in Sporks
    <3>1. handler \in [Nodes -> [pc : {"idle", "store", "write"}, spork : Sporks \cup {None}]]
      BY Zenon DEF SporkDataOK
    <3>2. handler' \in [Nodes -> [pc : {"idle", "store", "write"}, spork : Sporks \cup {None}]]
      BY Zenon, <2>3, <3>1
    <3>3. ASSUME NEW x \in Nodes, handler'[x].pc # "idle"
          PROVE  handler'[x].spork \in Sporks
      <4>1. CASE x = n
        BY Zenon, <2>1, <2>3, <3>1, <4>1
      <4>2. CASE x # n
        <5>1. handler'[x] = handler[x]
          BY Zenon, <2>3, <3>1, <4>2
        <5> QED
          BY Zenon, <3>3, <5>1 DEF SporkDataOK
      <4> QED
        BY Zenon, <4>1, <4>2
    <3> QED
      BY Zenon, <3>2, <3>3
  <2>5. mapSporksActive' \in [Nodes -> Sporks \cup {None}]
    BY Zenon, <1>1, <2>1 DEF SporkDataOK, StoreSpork
  <2> QED
    BY Zenon, <1>1, <2>2, <2>4, <2>5 DEF SporkDataOK, StoreSpork, world
<1>2. CASE WriteSpork(n)
  <2>1. handler[n].spork \in Sporks
    BY Zenon, <1>2 DEF SporkDataOK, WriteSpork
  <2>2. handler' = [handler EXCEPT ![n] = [pc |-> "idle", spork |-> None]]
    BY Zenon, <1>2 DEF WriteSpork, Idle
  <2>3. /\ handler' \in [Nodes -> [pc : {"idle", "store", "write"}, spork : Sporks \cup {None}]]
        /\ \A x \in Nodes : handler'[x].pc # "idle" => handler'[x].spork \in Sporks
    BY Zenon, <2>2 DEF SporkDataOK
  <2>4. pSporkDB' \in [Nodes -> Sporks \cup {None}]
    BY Zenon, <1>2, <2>1 DEF SporkDataOK, WriteSpork
  <2> QED
    BY Zenon, <1>2, <2>3, <2>4 DEF SporkDataOK, WriteSpork, net, world
<1> QED
  BY Zenon, <1>1, <1>2 DEF FinishSpork

LEMMA RestartData ==
  ASSUME SporkDataOK, NEW n \in Nodes, Restart(n)
  PROVE  SporkDataOK'
<1>1. mapSporksActive' \in [Nodes -> Sporks \cup {None}]
  BY Zenon, LoadData DEF SporkDataOK, Restart
<1>2. handler' = [handler EXCEPT ![n] = [pc |-> "idle", spork |-> None]]
  BY Zenon DEF Restart, Idle
<1>3. /\ handler' \in [Nodes -> [pc : {"idle", "store", "write"}, spork : Sporks \cup {None}]]
      /\ \A x \in Nodes : handler'[x].pc # "idle" => handler'[x].spork \in Sporks
  BY Zenon, <1>2 DEF SporkDataOK
<1>4. Close({{n, m} : m \in Nodes})
  BY Zenon DEF Restart
<1>5. /\ wire' \in [Nodes -> [Nodes -> Seq(Messages)]]
      /\ vInventoryTierTwoToSend' \in [Nodes -> [Nodes -> SUBSET Sporks]]
      /\ mapAskFor' \in [Nodes -> [Nodes -> SUBSET Sporks]]
  BY Zenon, <1>4, CloseData
<1>6. rpc' \in [Nodes -> Sporks \cup {None}]
  BY Zenon DEF SporkDataOK, Restart
<1> QED
  BY Zenon, <1>1, <1>3, <1>5, <1>6 DEF SporkDataOK, Restart

LEMMA UpdateData ==
  ASSUME SporkDataOK, NEW n \in Nodes, NEW v \in Values, UpdateSpork(n, v)
  PROVE  SporkDataOK'
<1> DEFINE spork == [nValue |-> v, nTimeSigned |-> now + Skew[n]]
<1>1. spork \in Sporks
  BY SporkAssumption DEF SporkDataOK, Sporks
<1>2. RelayInv(n, spork) /\ rpc' = [rpc EXCEPT ![n] = spork]
  BY Zenon DEF UpdateSpork
<1> HIDE DEF spork
<1>3. vInventoryTierTwoToSend' \in [Nodes -> [Nodes -> SUBSET Sporks]]
  BY Zenon, <1>1, <1>2, RelayData
<1>4. rpc' \in [Nodes -> Sporks \cup {None}]
  BY Zenon, <1>1, <1>2 DEF SporkDataOK
<1> QED
  BY Zenon, <1>3, <1>4 DEF SporkDataOK, UpdateSpork

LEMMA StepData ==
  ASSUME SporkInv, [SporkNext]_sporkVars
  PROVE  SporkDataOK'
<1>1. SporkDataOK
  BY Zenon DEF SporkInv
<1>2. ASSUME NEW n \in Nodes, NEW m \in Nodes, Connect(n, m)
      PROVE  SporkDataOK'
  <2>1. <<Message("version", {})>> \in Seq(Messages)
    BY Zenon, MessageType
  <2>2. wire' \in [Nodes -> [Nodes -> Seq(Messages)]]
    BY Zenon, <1>1, <1>2, <2>1 DEF SporkDataOK, Connect
  <2> QED
    BY Zenon, <1>1, <1>2, <2>2 DEF SporkDataOK, Connect, manager, world
<1>3. ASSUME NEW n \in Nodes, UpdateSporkStore(n)
      PROVE  SporkDataOK'
  <2>1. rpc[n] \in Sporks
    BY Zenon, <1>1, <1>3 DEF SporkDataOK, UpdateSporkStore
  <2>2. /\ mapSporksActive' \in [Nodes -> Sporks \cup {None}]
        /\ rpc' \in [Nodes -> Sporks \cup {None}]
    BY Zenon, <1>1, <1>3, <2>1 DEF SporkDataOK, UpdateSporkStore
  <2> QED
    BY Zenon, <1>1, <1>3, <2>2 DEF SporkDataOK, UpdateSporkStore, net, world
<1>4. CASE Tick
  BY <1>1, <1>4 DEF SporkDataOK, Tick, manager, net
<1>5. CASE UNCHANGED sporkVars
  BY Zenon, <1>1, <1>5 DEF SporkDataOK, sporkVars, manager, net, world
<1> QED
  BY Zenon, <1>1, <1>2, <1>3, <1>4, <1>5, ReceiveData, SendData, FinishData, RestartData, UpdateData
     DEF SporkNext
-----------------------------------------------------------------------------
(* What a step does to the manager of a node that does not sign.           *)
Kept(n) ==
  /\ mapSporksActive'[n] = mapSporksActive[n]
  /\ pSporkDB'[n] = pSporkDB[n]
  /\ handler'[n] = handler[n]
  /\ rpc'[n] = rpc[n]

NotOlder(n) ==
  \/ Time(mapSporksActive'[n]) >= Time(mapSporksActive[n])
  \/ Restart(n) /\ (handler[n].pc = "write" \/ Time(mapSporksActive[n]) <= Stale)

LEMMA TimeType ==
  ASSUME SporkDataOK, NEW n \in Nodes
  PROVE  /\ Time(mapSporksActive[n]) \in Int
         /\ Time(pSporkDB[n]) \in Int
         /\ handler[n].pc # "idle" => Time(handler[n].spork) \in Int
<1>1. /\ mapSporksActive[n] \in Sporks \cup {None}
      /\ pSporkDB[n] \in Sporks \cup {None}
      /\ handler[n].pc # "idle" => handler[n].spork \in Sporks
  BY Zenon DEF SporkDataOK
<1> QED
  BY <1>1, SporkFacts

LEMMA KeptFollows ==
  ASSUME SporkInv, NEW n \in Nodes \ Signers, Kept(n)
  PROVE  Follows(n)' /\ NotOlder(n)
<1>1. Follows(n)
  BY Zenon DEF SporkInv, FollowInv
<1>2. Time(mapSporksActive'[n]) = Time(mapSporksActive[n])
  BY Zenon DEF Kept
<1>3. Time(mapSporksActive[n]) \in Int
  BY Zenon, TimeType DEF SporkInv
<1>4. NotOlder(n)
  BY <1>2, <1>3 DEF NotOlder
<1>5. Follows(n)'
  BY Zenon, <1>1 DEF Kept, Follows, OnDisk, Time
<1> QED
  BY Zenon, <1>4, <1>5

LEMMA ReceiveFollows ==
  ASSUME SporkInv, NEW x \in Nodes \ Signers, NEW m \in Nodes, NEW n \in Nodes, Receive(m, n)
  PROVE  Follows(x)' /\ NotOlder(x)
<1>1. CASE OnVersion(m, n)
  <2>1. Kept(x)
    BY Zenon, <1>1 DEF OnVersion, Kept
  <2> QED
    BY Zenon, <2>1, KeptFollows
<1>2. CASE ProcessGetSporks(m, n) \/ OnInv(m, n) \/ OnGetData(m, n)
  <2>1. Kept(x)
    BY Zenon, <1>2 DEF ProcessGetSporks, OnInv, OnGetData, manager, Kept
  <2> QED
    BY Zenon, <2>1, KeptFollows
<1>3. CASE ProcessSporkMsg(m, n)
  <2>1. wire[n][m] # << >> /\ handler[m] = Idle
    BY Zenon, <1>3 DEF ProcessSporkMsg, Takes
  <2>2. PICK spork \in Head(wire[n][m]).sporks :
          \/ UNCHANGED manager
          \/ UNCHANGED <<handler, mapSporksActive, pSporkDB, rpc>>
          \/ /\ ~(Time(mapSporksActive[m]) >= spork.nTimeSigned)
             /\ handler' = [handler EXCEPT ![m] = [pc |-> "store", spork |-> spork]]
             /\ UNCHANGED <<mapSporksActive, pSporkDB, rpc>>
    BY Zenon, <1>3 DEF ProcessSporkMsg
  <2>3. CASE UNCHANGED manager \/ UNCHANGED <<handler, mapSporksActive, pSporkDB, rpc>>
    <3>1. Kept(x)
      BY Zenon, <2>3 DEF manager, Kept
    <3> QED
      BY Zenon, <3>1, KeptFollows
  <2>4. CASE /\ ~(Time(mapSporksActive[m]) >= spork.nTimeSigned)
             /\ handler' = [handler EXCEPT ![m] = [pc |-> "store", spork |-> spork]]
             /\ UNCHANGED <<mapSporksActive, pSporkDB, rpc>>
    <3>1. CASE x # m
      <4>1. Kept(x)
        BY Zenon, <2>4, <3>1 DEF Kept, SporkInv, SporkDataOK
      <4> QED
        BY Zenon, <4>1, KeptFollows
    <3>2. CASE x = m
      <4>1. spork \in Sporks
        BY Zenon, <2>1, HeadIsMessage DEF SporkInv
      <4>2. Time(mapSporksActive[x]) \in Int /\ Time(spork) \in Int /\ Time(spork) = spork.nTimeSigned
        BY <4>1, TimeType, SporkFacts DEF SporkInv
      <4>3. ~(Time(mapSporksActive[x]) >= Time(spork))
        BY Zenon, <2>4, <3>2, <4>2
      <4>4. Follows(x) /\ handler[x].pc = "idle"
        BY <2>1, <3>2 DEF SporkInv, FollowInv, Idle
      <4>5. handler'[x] = [pc |-> "store", spork |-> spork]
        BY Zenon, <2>4, <3>2 DEF SporkInv, SporkDataOK
      <4>6. ~(Time(mapSporksActive[x])' >= Time(handler[x].spork)')
        <5>1. handler'[x].spork = spork /\ mapSporksActive'[x] = mapSporksActive[x]
          BY <2>4, <4>5
        <5>2. Time(handler[x].spork)' = Time(spork) /\ Time(mapSporksActive[x])' = Time(mapSporksActive[x])
          BY Zenon, <5>1 DEF Time
        <5> QED
          BY Zenon, <4>3, <5>2
      <4>7. OnDisk(x)' /\ rpc'[x] = None
        BY Zenon, <2>4, <4>4 DEF Follows, OnDisk, Time
      <4>8. Follows(x)'
        BY <4>5, <4>6, <4>7 DEF Follows
      <4>9. NotOlder(x)
        BY <2>4, <4>2 DEF NotOlder
      <4> QED
        BY Zenon, <4>8, <4>9
    <3> QED
      BY Zenon, <3>1, <3>2
  <2> QED
    BY Zenon, <2>2, <2>3, <2>4
<1> QED
  BY Zenon, <1>1, <1>2, <1>3 DEF Receive

LEMMA FinishFollows ==
  ASSUME SporkInv, NEW x \in Nodes \ Signers, NEW m \in Nodes, FinishSpork(m)
  PROVE  Follows(x)' /\ NotOlder(x)
<1>1. CASE x # m
  <2>1. Kept(x)
    BY Zenon, <1>1 DEF FinishSpork, StoreSpork, WriteSpork, Kept, SporkInv, SporkDataOK
  <2> QED
    BY Zenon, <2>1, KeptFollows
<1>2. CASE x = m /\ StoreSpork(m)
  <2>1. Follows(x) /\ handler[x].pc = "store"
    BY Zenon, <1>2 DEF StoreSpork, SporkInv, FollowInv
  <2>2. /\ mapSporksActive'[x] = handler[x].spork
        /\ handler'[x].pc = "write" /\ handler'[x].spork = handler[x].spork
        /\ rpc'[x] = rpc[x]
    BY Zenon, <1>2 DEF StoreSpork, SporkInv, SporkDataOK
  <2>3. ~(Time(mapSporksActive[x]) >= Time(handler[x].spork))
    BY Zenon, <2>1 DEF Follows
  <2>4. Time(mapSporksActive[x]) \in Int /\ Time(handler[x].spork) \in Int
    BY Zenon, <2>1, TimeType DEF SporkInv
  <2>5. NotOlder(x)
    BY <2>2, <2>3, <2>4 DEF NotOlder
  <2>6. Follows(x)'
    BY Zenon, <2>1, <2>2 DEF Follows
  <2> QED
    BY Zenon, <2>5, <2>6
<1>3. CASE x = m /\ WriteSpork(m)
  <2>1. Follows(x) /\ handler[x].pc = "write"
    BY Zenon, <1>3 DEF WriteSpork, SporkInv, FollowInv
  <2>2. /\ mapSporksActive'[x] = mapSporksActive[x]
        /\ pSporkDB'[x] = handler[x].spork
        /\ handler'[x].pc = "idle"
        /\ rpc'[x] = rpc[x]
    BY Zenon, <1>3 DEF WriteSpork, Idle, SporkInv, SporkDataOK
  <2>3. Time(mapSporksActive[x]) \in Int
    BY Zenon, TimeType DEF SporkInv
  <2>4. NotOlder(x)
    BY <2>2, <2>3 DEF NotOlder
  <2>5. Follows(x)'
    BY Zenon, <2>1, <2>2 DEF Follows, OnDisk
  <2> QED
    BY Zenon, <2>4, <2>5
<1> QED
  BY Zenon, <1>1, <1>2, <1>3 DEF FinishSpork

LEMMA RestartFollows ==
  ASSUME SporkInv, NEW x \in Nodes \ Signers, NEW m \in Nodes, Restart(m)
  PROVE  Follows(x)' /\ NotOlder(x)
<1>1. CASE x # m
  <2>1. Kept(x)
    BY Zenon, <1>1 DEF Restart, Kept, SporkInv, SporkDataOK
  <2> QED
    BY Zenon, <2>1, KeptFollows
<1>2. CASE x = m
  <2>1. Follows(x)
    BY Zenon DEF SporkInv, FollowInv
  <2>2. /\ mapSporksActive'[x] = LoadSporksFromDB(x)
        /\ pSporkDB'[x] = pSporkDB[x]
        /\ handler'[x].pc = "idle"
        /\ rpc'[x] = None
    BY Zenon, <1>2 DEF Restart, Idle, SporkInv, SporkDataOK
  <2>3. /\ Time(pSporkDB[x]) \in Int /\ Time(mapSporksActive[x]) \in Int
        /\ Time(None) = -1 /\ Stale \in Nat
    BY Zenon, TimeType, SporkFacts, SporkAssumption DEF SporkInv
  <2>4. CASE ~(Time(pSporkDB[x]) <= Stale)
    <3>1. mapSporksActive'[x] = pSporkDB[x]
      BY Zenon, <2>2, <2>4 DEF LoadSporksFromDB
    <3>2. Follows(x)'
      BY Zenon, <2>2, <3>1 DEF Follows, OnDisk
    <3>3. handler[x].pc # "write" => pSporkDB[x] = mapSporksActive[x]
      BY Zenon, <2>1, <2>4 DEF Follows, OnDisk
    <3>4. NotOlder(x)
      BY <1>2, <2>3, <3>1, <3>3 DEF NotOlder
    <3> QED
      BY Zenon, <3>2, <3>4
  <2>5. CASE Time(pSporkDB[x]) <= Stale
    <3>1. mapSporksActive'[x] = None
      BY Zenon, <2>2, <2>5 DEF LoadSporksFromDB
    <3>2. OnDisk(x)'
      BY Zenon, <2>2, <2>5, <3>1 DEF OnDisk, Time
    <3>3. Follows(x)'
      BY Zenon, <2>2, <3>2 DEF Follows
    <3>4. Time(None) <= Stale
      BY <2>3
    <3>5. handler[x].pc # "write" => Time(mapSporksActive[x]) <= Stale
      BY Zenon, <2>1, <2>5, <3>4 DEF Follows, OnDisk
    <3>6. NotOlder(x)
      BY Zenon, <1>2, <3>5 DEF NotOlder
    <3> QED
      BY Zenon, <3>3, <3>6
  <2> QED
    BY Zenon, <2>4, <2>5
<1> QED
  BY Zenon, <1>1, <1>2

LEMMA StepFollows ==
  ASSUME SporkInv, [SporkNext]_sporkVars, NEW x \in Nodes \ Signers
  PROVE  Follows(x)' /\ NotOlder(x)
<1>1. ASSUME NEW n \in Nodes, NEW m \in Nodes, Connect(n, m) \/ Send(m, n)
      PROVE  Kept(x)
  BY Zenon, <1>1 DEF Connect, Send, SendMessages, manager, Kept
<1>2. ASSUME NEW n \in Nodes, UpdateSporkStore(n)
      PROVE  Kept(x)
  <2>1. rpc[x] = None
    BY Zenon DEF SporkInv, FollowInv, Follows
  <2>2. x # n
    BY Zenon, <1>2, <2>1 DEF UpdateSporkStore
  <2> QED
    BY Zenon, <1>2, <2>2 DEF UpdateSporkStore, Kept, SporkInv, SporkDataOK
<1>3. ASSUME NEW n \in Nodes, NEW v \in Values, UpdateSpork(n, v)
      PROVE  Kept(x)
  <2>1. x # n
    BY Zenon, <1>3 DEF UpdateSpork
  <2> QED
    BY Zenon, <1>3, <2>1 DEF UpdateSpork, Kept, SporkInv, SporkDataOK
<1>4. CASE Tick \/ UNCHANGED sporkVars
  <2>1. Kept(x)
    BY Zenon, <1>4 DEF Tick, sporkVars, manager, Kept
  <2> QED
    BY Zenon, <2>1, KeptFollows
<1> QED
  BY Zenon, <1>1, <1>2, <1>3, <1>4, KeptFollows, ReceiveFollows, FinishFollows, RestartFollows DEF SporkNext

LEMMA SporkInitInv == ASSUME SporkInit PROVE SporkInv
<1>1. pSporkDB \in [Nodes -> Sporks \cup {None}]
  BY Zenon, SporkAssumption DEF SporkInit
<1>2. \A n \in Nodes : LoadSporksFromDB(n) \in Sporks \cup {None}
  BY Zenon, <1>1 DEF LoadSporksFromDB
<1>3. << >> \in Seq(Messages)
  OBVIOUS
<1>4. SporkDataOK
  BY Zenon, <1>1, <1>2, <1>3 DEF SporkInit, SporkDataOK, Idle
<1>5. ASSUME NEW n \in Nodes \ Signers
      PROVE  Follows(n)
  <2>1. Time(pSporkDB[n]) \in Int /\ Time(None) = -1 /\ Stale \in Nat
    BY Zenon, <1>4, TimeType, SporkFacts, SporkAssumption
  <2>2. mapSporksActive[n] = LoadSporksFromDB(n) /\ rpc[n] = None /\ handler[n].pc = "idle"
    BY Zenon DEF SporkInit, Idle
  <2>3. OnDisk(n)
    BY Zenon, <2>1, <2>2 DEF OnDisk, LoadSporksFromDB
  <2> QED
    BY Zenon, <2>2, <2>3 DEF Follows
<1> QED
  BY Zenon, <1>4, <1>5 DEF SporkInv, FollowInv

(* A node that does not sign keeps on disk what it has in memory, except   *)
(* between the two stores of ProcessSporkMsg, and a spork it is about to   *)
(* store is newer than the one it has: for any nodes, connections, clocks, *)
(* restarts and number of sporks.                                          *)
THEOREM DiskFollowsMemory == SporkSpec => []SporkInv
<1>1. ASSUME SporkInv, [SporkNext]_sporkVars
      PROVE  SporkInv'
  BY Zenon, <1>1, StepData, StepFollows DEF SporkInv, FollowInv
<1> QED
  BY <1>1, SporkInitInv, PTL DEF SporkSpec

(* No node that does not sign goes back to an older spork, be it by the    *)
(* order of messages or by a restart.                                      *)
THEOREM NeverGoesBack == SporkSpec => NeverOlder
<1>1. ASSUME SporkInv, [SporkNext]_sporkVars
      PROVE  \A n \in Nodes \ Signers : NotOlder(n)
  BY Zenon, <1>1, StepFollows
<1>2. SporkInv /\ [SporkNext]_sporkVars => [\A n \in Nodes \ Signers :
        \/ Time(mapSporksActive'[n]) >= Time(mapSporksActive[n])
        \/ Restart(n) /\ (handler[n].pc = "write" \/ Time(mapSporksActive[n]) <= Stale)]_sporkVars
  BY Zenon, <1>1 DEF NotOlder
<1> QED
  BY <1>2, DiskFollowsMemory, PTL DEF SporkSpec, NeverOlder

-----------------------------------------------------------------------------
(* CoinsDB *)

\* Connecting a block changes the coins it touches and no other.
LEMMA ConnectLemma ==
  ASSUME NEW b \in Block \ {Genesis}, NEW o \in Outpoint
  PROVE  /\ Parent[b] \in Block
         /\ UtxoAt[b][o] \in Coins
         /\ UtxoAt[b][o] = IF o \in Spends[b] THEN Spent
                           ELSE IF o \in Creates[b] THEN b ELSE UtxoAt[Parent[b]][o]
BY TreeAssumption, StateAssumption DEF TreeAssumption, StateAssumption, ConnectCoins, Coins

\* Both ways, the entries a block writes do not depend on what was there before:
\* the operations are idempotent.
LEMMA WrittenLemma ==
  ASSUME NEW b \in Block \ {Genesis}, NEW o \in Touched(b), NEW u
  PROVE  /\ ConnectCoins(u, b)[o] = UtxoAt[b][o]
         /\ DisconnectCoins(u, b)[o] = UtxoAt[Parent[b]][o]
BY TreeAssumption, StateAssumption, ConnectLemma
   DEF TreeAssumption, StateAssumption, ConnectCoins, DisconnectCoins, Touched

\* A coin a block does not touch is the same before and after it.
LEMMA UntouchedLemma ==
  ASSUME NEW b \in Block \ {Genesis}, NEW o \in Outpoint \ Touched(b)
  PROVE  UtxoAt[b][o] = UtxoAt[Parent[b]][o]
BY Zenon, ConnectLemma DEF Touched

LEMMA UtxoType ==
  ASSUME NEW b \in Block
  PROVE  UtxoAt[b] \in [Outpoint -> Coins]
BY Zenon, StateAssumption DEF StateAssumption, Coins

\* Disconnecting a block leaves the coins its parent had in what it touches.
LEMMA DisconnectLemma ==
  ASSUME NEW b \in Block \ {Genesis}, NEW o \in Outpoint, o \in Touched(b), NEW u
  PROVE  /\ DisconnectCoins(u, b)[o] = UtxoAt[Parent[b]][o]
         /\ UtxoAt[Parent[b]][o] \in Coins
BY WrittenLemma, ConnectLemma, UtxoType

-----------------------------------------------------------------------------
\* The type invariant, with what BatchWrite has pending, is inductive.
THEOREM TypeCorrect == Spec => [](TypeOK /\ PendingInv)
<1>1. Init => TypeOK /\ PendingInv
  BY TreeAssumption, UtxoType DEF TreeAssumption, Init, TypeOK, PendingInv, Dirty, NoCache, Coins
<1>2. TypeOK /\ PendingInv /\ [Next]_vars => TypeOK' /\ PendingInv'
  <2> SUFFICES ASSUME TypeOK, PendingInv, [Next]_vars PROVE TypeOK' /\ PendingInv'
    BY Zenon
  <2> USE DEF TypeOK, PendingInv, Dirty
  <2>w. ASSUME NEW b \in Block \ {Genesis}, NEW u
        PROVE  /\ Written(ConnectCoins(u, b), b) \in [Outpoint -> Coins \cup {Absent}]
               /\ Written(DisconnectCoins(u, b), b) \in [Outpoint -> Coins \cup {Absent}]
    BY <2>w, WrittenLemma, ConnectLemma, UtxoType DEF Written
  <2>1. ASSUME NEW b \in Block \ {Genesis}, AcceptBlock(b) PROVE TypeOK' /\ PendingInv'
    BY Zenon, <2>1 DEF AcceptBlock, disk, db
  <2>2. ASSUME NEW b \in Block \ {Genesis}, ConnectTip(b) PROVE TypeOK' /\ PendingInv'
    BY Zenon, <2>2, <2>w, TreeAssumption DEF TreeAssumption, ConnectTip, disk, db
  <2>3. ASSUME NEW b \in Block \ {Genesis}, ReplayForward(b) PROVE TypeOK' /\ PendingInv'
    BY Zenon, <2>3, <2>w DEF ReplayForward, RollforwardCoins, disk, db
  <2>4. CASE DisconnectTip
    BY <2>4, <2>w, ConnectLemma, TreeAssumption DEF TreeAssumption, DisconnectTip, disk, db
  <2>5. CASE PeriodicWrite
    BY Zenon, <2>5 DEF PeriodicWrite, mem, db
  <2>6. CASE StartShutdown
    BY <2>6 DEF StartShutdown, mem, disk, db
  <2>7. CASE FlushStateToDisk
    BY <2>7 DEF FlushStateToDisk, BeginBatchWrite, mem, db
  <2>8. CASE FlushDirectly
    BY Zenon, <2>8 DEF FlushDirectly, BeginBatchWrite, mem, disk, db
  <2>9. ASSUME NEW S \in SUBSET pending, WritePartial(S) PROVE TypeOK' /\ PendingInv'
    BY Zenon, <2>9 DEF WritePartial, WriteCoins, OldTip, mem, disk
  <2>10. ASSUME NEW S \in SUBSET pending, WriteFails(S) PROVE TypeOK' /\ PendingInv'
    BY <2>10 DEF WriteFails, AfterFlush, disk, db
  <2>11. CASE WriteFinal
    BY Zenon, <2>11 DEF WriteFinal, WriteCoins, NoCache, AfterFlush, disk
  <2>12. CASE Crash
    BY Zenon, <2>12 DEF Crash, NoCache, disk, db
  <2>13. CASE Start
    BY Zenon, <2>13, TreeAssumption DEF TreeAssumption, Start, NoCache, disk, db
  <2>14. CASE StartReplay
    BY Zenon, <2>14, TreeAssumption DEF TreeAssumption, StartReplay, NoCache, disk, db
  <2>15. CASE ReplayBack
    BY <2>15, <2>w, TreeAssumption DEF TreeAssumption, ReplayBack, disk, db
  <2>16. CASE ReplayDone
    BY Zenon, <2>16 DEF ReplayDone, BeginBatchWrite, mem, disk, db
  <2>17. CASE UNCHANGED vars
    BY Zenon, <2>17 DEF vars
  <2> QED
    BY Zenon, <2>1, <2>2, <2>3, <2>4, <2>5, <2>6, <2>7, <2>8, <2>9, <2>10, <2>11, <2>12, <2>13,
       <2>14, <2>15, <2>16, <2>17 DEF Next
<1> QED
  BY <1>1, <1>2, PTL DEF Spec
-----------------------------------------------------------------------------
\* What the cache answers when its dirty entries are block b's coins and b's block
\* is connected, or disconnected, on top of them.
LEMMA ViewAfterWritten ==
  ASSUME TypeOK, TypeOK', NEW b \in Block \ {Genesis}, NEW coins,
         cache' = Written(coins, b), dbCoins' = dbCoins, NEW o \in Outpoint,
         o \in Touched(b) => coins[o] \in Coins
  PROVE  /\ o \in Touched(b) => o \in Dirty' /\ cache'[o] = coins[o] /\ View'[o] = coins[o]
         /\ o \notin Touched(b) => /\ (o \in Dirty') <=> (o \in Dirty)
                                   /\ cache'[o] = cache[o]
                                   /\ View'[o] = View[o]
BY Zenon, TreeAssumption DEF TreeAssumption, TypeOK, Written, Dirty, View, Coins

\* Connecting block b writes b's coins for the outputs it touches and leaves the others.
LEMMA AfterConnect ==
  ASSUME TypeOK, TypeOK', NEW b \in Block \ {Genesis},
         cache' = Written(ConnectCoins(View, b), b), dbCoins' = dbCoins, NEW o \in Outpoint
  PROVE  /\ o \in Touched(b) => o \in Dirty' /\ cache'[o] = UtxoAt[b][o] /\ View'[o] = UtxoAt[b][o]
         /\ o \notin Touched(b) => /\ (o \in Dirty') <=> (o \in Dirty)
                                   /\ cache'[o] = cache[o]
                                   /\ View'[o] = View[o]
                                   /\ UtxoAt[b][o] = UtxoAt[Parent[b]][o]
<1> DEFINE coins == ConnectCoins(View, b)
<1>1. o \in Touched(b) => coins[o] = UtxoAt[b][o] /\ UtxoAt[b][o] \in Coins
  BY WrittenLemma, ConnectLemma
<1>2. o \notin Touched(b) => UtxoAt[b][o] = UtxoAt[Parent[b]][o]
  BY Zenon, UntouchedLemma
<1>3. cache' = Written(coins, b)
  BY Zenon
<1> HIDE DEF coins
<1>4. o \in Touched(b) => coins[o] \in Coins
  BY Zenon, <1>1
<1>5. /\ o \in Touched(b) => o \in Dirty' /\ cache'[o] = coins[o] /\ View'[o] = coins[o]
      /\ o \notin Touched(b) => /\ (o \in Dirty') <=> (o \in Dirty)
                                /\ cache'[o] = cache[o]
                                /\ View'[o] = View[o]
  BY Zenon, <1>3, <1>4, ViewAfterWritten
<1> QED
  BY Zenon, <1>1, <1>2, <1>5

\* Disconnecting block b writes the coins of its parent for the outputs it touches and leaves
\* the others.
LEMMA AfterDisconnect ==
  ASSUME TypeOK, TypeOK', NEW b \in Block \ {Genesis},
         cache' = Written(DisconnectCoins(View, b), b), dbCoins' = dbCoins, NEW o \in Outpoint
  PROVE  /\ o \in Touched(b) => /\ o \in Dirty'
                                /\ cache'[o] = UtxoAt[Parent[b]][o]
                                /\ View'[o] = UtxoAt[Parent[b]][o]
         /\ o \notin Touched(b) => /\ (o \in Dirty') <=> (o \in Dirty)
                                   /\ cache'[o] = cache[o]
                                   /\ View'[o] = View[o]
                                   /\ UtxoAt[b][o] = UtxoAt[Parent[b]][o]
<1> DEFINE coins == DisconnectCoins(View, b)
<1>1. o \in Touched(b) => coins[o] = UtxoAt[Parent[b]][o] /\ UtxoAt[Parent[b]][o] \in Coins
  BY Zenon, DisconnectLemma
<1>2. o \notin Touched(b) => UtxoAt[b][o] = UtxoAt[Parent[b]][o]
  BY Zenon, UntouchedLemma
<1>3. cache' = Written(coins, b)
  BY Zenon
<1> HIDE DEF coins
<1>4. o \in Touched(b) => coins[o] \in Coins
  BY Zenon, <1>1
<1>5. /\ o \in Touched(b) => o \in Dirty' /\ cache'[o] = coins[o] /\ View'[o] = coins[o]
      /\ o \notin Touched(b) => /\ (o \in Dirty') <=> (o \in Dirty)
                                /\ cache'[o] = cache[o]
                                /\ View'[o] = View[o]
  BY Zenon, <1>3, <1>4, ViewAfterWritten
<1> QED
  BY Zenon, <1>1, <1>2, <1>5

\* Every step keeps the inductive invariant.
LEMMA CoinsStep ==
  ASSUME TypeOK, TypeOK', PendingInv, PendingInv', CoinsInv, [Next]_vars
  PROVE  CoinsInv'
<1> SUFFICES ASSUME loss' # "committed" PROVE CoinsInv'
  BY Zenon DEF CoinsInv
<1> USE DEF CoinsInv, BestBlockNamesCoins, TransitionIsMixture
<1>a. UNCHANGED <<dbCoins, dbBest, dbHeads, loss>> /\ loss # "committed" =>
        /\ BestBlockNamesCoins'
        /\ TransitionIsMixture'
        /\ dbBest' = Null /\ dbHeads' = <<>> => dbCoins' = UtxoAt[Genesis]
  BY Zenon
<1>1. ASSUME NEW b \in Block \ {Genesis}, AcceptBlock(b) PROVE CoinsInv'
  BY Zenon, <1>1 DEF AcceptBlock, disk, db, Dirty, View
<1>2. ASSUME NEW b \in Block \ {Genesis}, ConnectTip(b) PROVE CoinsInv'
  <2> HIDE DEF CoinsInv, BestBlockNamesCoins, TransitionIsMixture
  <2>1. /\ mode = "run" /\ mode' = "run" /\ tip \in Block /\ tip = Parent[b] /\ tip' = b
        /\ cache' = Written(ConnectCoins(View, b), b)
        /\ UNCHANGED <<dbCoins, dbBest, dbHeads, loss>>
    BY Zenon, <1>2 DEF ConnectTip, disk, db, TypeOK
  <2>2. ASSUME NEW o \in Outpoint
        PROVE  /\ o \in Touched(b) => o \in Dirty' /\ cache'[o] = UtxoAt[b][o]
               /\ o \notin Touched(b) => /\ (o \in Dirty') <=> (o \in Dirty)
                                         /\ cache'[o] = cache[o]
                                         /\ UtxoAt[b][o] = UtxoAt[tip][o]
    BY Zenon, <2>1, AfterConnect
  <2>3. Dirty \subseteq Outpoint /\ Dirty' \subseteq Outpoint
    BY Zenon DEF Dirty
  <2> QED
    BY Zenon, <1>a, <2>1, <2>2, <2>3 DEF CoinsInv
<1>3. ASSUME NEW b \in Block \ {Genesis}, ReplayForward(b) PROVE CoinsInv'
  <2> HIDE DEF CoinsInv, BestBlockNamesCoins, TransitionIsMixture
  <2>1. /\ mode = "replay" /\ mode' = "replay" /\ tip = Parent[b] /\ tip' = b
        /\ cache' = Written(ConnectCoins(View, b), b)
        /\ UNCHANGED <<dbCoins, dbBest, dbHeads, loss>>
    BY Zenon, <1>3 DEF ReplayForward, RollforwardCoins, db
  <2>2. ASSUME NEW o \in Outpoint
        PROVE  \/ View'[o] = UtxoAt[tip'][o]
               \/ View'[o] = View[o] /\ UtxoAt[tip'][o] = UtxoAt[tip][o]
    BY Zenon, <2>1, AfterConnect
  <2>3. ASSUME NEW o \in Outpoint
        PROVE  View'[o] \in {UtxoAt[tip'][o], UtxoAt[dbHeads'[1]][o]}
    <3>1. View[o] \in {UtxoAt[tip][o], UtxoAt[dbHeads[1]][o]}
      BY Zenon, <2>1 DEF CoinsInv
    <3> QED
      BY Zenon, <2>1, <2>2, <3>1
  <2> QED
    BY Zenon, <1>a, <2>1, <2>3 DEF CoinsInv
<1>4. CASE DisconnectTip
  <2> HIDE DEF CoinsInv, BestBlockNamesCoins, TransitionIsMixture
  <2>1. /\ mode = "run" /\ mode' = "run" /\ tip \in Block \ {Genesis} /\ tip' = Parent[tip]
        /\ cache' = Written(DisconnectCoins(View, tip), tip)
        /\ UNCHANGED <<dbCoins, dbBest, dbHeads, loss>>
    BY Zenon, <1>4 DEF DisconnectTip, disk, db, TypeOK
  <2>2. ASSUME NEW o \in Outpoint
        PROVE  /\ o \in Touched(tip) => o \in Dirty' /\ cache'[o] = UtxoAt[tip'][o]
               /\ o \notin Touched(tip) => /\ (o \in Dirty') <=> (o \in Dirty)
                                           /\ cache'[o] = cache[o]
                                           /\ UtxoAt[tip'][o] = UtxoAt[tip][o]
    BY Zenon, <2>1, AfterDisconnect
  <2>3. Dirty \subseteq Outpoint /\ Dirty' \subseteq Outpoint
    BY Zenon DEF Dirty
  <2> QED
    BY Zenon, <1>a, <2>1, <2>2, <2>3 DEF CoinsInv
<1>5. CASE PeriodicWrite
  BY Zenon, <1>5 DEF PeriodicWrite, mem, db, Dirty, View
<1>6. CASE StartShutdown
  BY Zenon, <1>6 DEF StartShutdown, mem, disk, db, Dirty, View
<1>7. CASE FlushStateToDisk
  BY Zenon, <1>7 DEF FlushStateToDisk, BeginBatchWrite, Dirty, mem, db
<1>8. CASE FlushDirectly
  BY Zenon, <1>8 DEF FlushDirectly, BeginBatchWrite, Dirty, mem, disk, db
<1>9. ASSUME NEW S \in SUBSET pending, WritePartial(S) PROVE CoinsInv'
  BY Zenon, <1>9 DEF WritePartial, WriteCoins, OldTip, SameTransition, mem, disk, Dirty, TypeOK, PendingInv
<1>10. ASSUME NEW S \in SUBSET pending, WriteFails(S) PROVE CoinsInv'
  BY Zenon, <1>10 DEF WriteFails, AfterFlush, disk, db, Dirty, TypeOK
<1>11. CASE WriteFinal
  <2>1. loss = "none" /\ loss' = "none" /\ mode = "flush" /\ tip \in Block /\ tip' = tip
    BY Zenon, <1>11 DEF WriteFinal, TypeOK
  <2>2. dbCoins' \in [Outpoint -> Coins] /\ \A o \in Outpoint : dbCoins'[o] = UtxoAt[tip][o]
    BY Zenon, <1>11, <2>1 DEF WriteFinal, WriteCoins, Dirty, PendingInv, TypeOK
  <2>3. dbCoins' = UtxoAt[tip]
    BY <2>1, <2>2, UtxoType
  <2>4. Dirty' = {} /\ dbBest' = tip /\ dbHeads' = <<>> /\ mode' \in {"run", "stop", "down"}
    BY Zenon, <1>11 DEF WriteFinal, NoCache, Dirty, AfterFlush
  <2> QED
    BY Zenon, <2>1, <2>2, <2>3, <2>4, TreeAssumption DEF TreeAssumption
<1>12. CASE Crash
  BY Zenon, <1>12 DEF Crash, NoCache, disk, db
<1>13. CASE Start
  BY Zenon, <1>13 DEF Start, NoCache, disk, db, Dirty
<1>14. CASE StartReplay
  BY Zenon, <1>14 DEF StartReplay, NoCache, disk, db, Dirty, View
<1>15. CASE ReplayBack
  <2> HIDE DEF CoinsInv, BestBlockNamesCoins, TransitionIsMixture
  <2>1. UNCHANGED <<dbCoins, dbBest, dbHeads, loss>> /\ mode' \in {"replay", "failed"}
    BY Zenon, <1>15 DEF ReplayBack, db
  <2>2. CASE mode' = "failed"
    <3>1. mode = "replay"
      BY Zenon, <1>15 DEF ReplayBack
    <3> QED
      BY Zenon, <1>a, <2>1, <2>2, <3>1 DEF CoinsInv
  <2>3. CASE mode' = "replay"
    <3>1. /\ mode = "replay" /\ tip \in Block \ {Genesis} /\ tip' = Parent[tip]
          /\ cache' = Written(DisconnectCoins(View, tip), tip)
      BY Zenon, <1>15, <2>3 DEF ReplayBack, TypeOK
    <3>2. ASSUME NEW o \in Outpoint
          PROVE  \/ View'[o] = UtxoAt[tip'][o]
                 \/ View'[o] = View[o] /\ UtxoAt[tip'][o] = UtxoAt[tip][o]
      BY Zenon, <2>1, <3>1, AfterDisconnect
    <3>3. ASSUME NEW o \in Outpoint
          PROVE  View'[o] \in {UtxoAt[tip'][o], UtxoAt[dbHeads'[1]][o]}
      <4>1. View[o] \in {UtxoAt[tip][o], UtxoAt[dbHeads[1]][o]}
        BY Zenon, <2>1, <3>1 DEF CoinsInv
      <4> QED
        BY Zenon, <2>1, <3>2, <4>1
    <3> QED
      BY Zenon, <1>a, <2>1, <2>3, <3>1, <3>3 DEF CoinsInv
  <2> QED
    BY Zenon, <2>1, <2>2, <2>3
<1>16. CASE ReplayDone
  BY Zenon, <1>16 DEF ReplayDone, BeginBatchWrite, Dirty, mem, disk, db, View
<1>17. CASE UNCHANGED vars
  BY Zenon, <1>17 DEF vars, Dirty, View
<1> QED
  BY Zenon, <1>1, <1>2, <1>3, <1>4, <1>5, <1>6, <1>7, <1>8, <1>9, <1>10, <1>11, <1>12, <1>13,
     <1>14, <1>15, <1>16, <1>17 DEF Next

\* A failed write by itself damages nothing, and a crash at any point of a flush or
\* of a replay leaves a database that the next start repairs.
THEOREM FailedWriteRecoverable == Spec => []FailedWriteIsRecoverable
<1>1. Init => CoinsInv
  BY Zenon, TreeAssumption, UtxoType
     DEF TreeAssumption, Init, CoinsInv, BestBlockNamesCoins, TransitionIsMixture
<1>2. CoinsInv => FailedWriteIsRecoverable
  BY Zenon DEF CoinsInv, FailedWriteIsRecoverable
<1> QED
  BY <1>1, <1>2, TypeCorrect, CoinsStep, PTL DEF Spec

\* The running node's caches answer the coins unspent after its tip, in the middle of a
\* flush too, until a write fails.
THEOREM ViewIsTipsCoins == Spec => []ViewIsTip
<1>1. Init => CoinsInv
  BY Zenon, TreeAssumption, UtxoType
     DEF TreeAssumption, Init, CoinsInv, BestBlockNamesCoins, TransitionIsMixture
<1>2. ASSUME TypeOK, CoinsInv PROVE ViewIsTip
  <2> SUFFICES ASSUME mode \in {"run", "flush"}, loss = "none" PROVE View = UtxoAt[tip]
    BY Zenon DEF ViewIsTip
  <2>1. /\ \A o \in Dirty : cache[o] = UtxoAt[tip][o]
        /\ \A o \in Outpoint \ Dirty : dbCoins[o] = UtxoAt[tip][o]
    BY Zenon, <1>2 DEF CoinsInv
  <2>2. UtxoAt[tip] \in [Outpoint -> Coins]
    BY Zenon, <1>2, UtxoType DEF TypeOK
  <2>3. ASSUME NEW o \in Outpoint PROVE View[o] = UtxoAt[tip][o]
    BY Zenon, <2>1 DEF View
  <2> QED
    BY Zenon, <2>2, <2>3 DEF View
<1> QED
  BY <1>1, <1>2, TypeCorrect, CoinsStep, PTL DEF Spec

\* Without write errors nothing is ever lost.
LEMMA NothingLost == ~WriteErrors => (Spec => [](loss = "none"))
<1> SUFFICES ASSUME ~WriteErrors PROVE Spec => [](loss = "none")
  BY Zenon
<1>1. Init => loss = "none"
  BY Zenon DEF Init
<1>2. loss = "none" /\ [Next]_vars => (loss = "none")'
  BY Zenon DEF Next, vars, AcceptBlock, ConnectTip, ReplayForward, DisconnectTip, PeriodicWrite,
     StartShutdown, FlushStateToDisk, FlushDirectly, BeginBatchWrite, WritePartial, WriteFails,
     WriteFinal, Crash, Start, StartReplay, ReplayBack, ReplayDone
<1> QED
  BY <1>1, <1>2, PTL DEF Spec

\* With a disk that does not fail, a database that names a best block holds exactly
\* the coins unspent after it, wherever crashes fall.
THEOREM CrashConsistent == ~WriteErrors => (Spec => []BestBlockNamesCoins)
<1> SUFFICES ASSUME ~WriteErrors PROVE Spec => []BestBlockNamesCoins
  BY Zenon
<1>1. loss = "none" /\ FailedWriteIsRecoverable => BestBlockNamesCoins
  BY Zenon DEF FailedWriteIsRecoverable
<1> QED
  BY <1>1, NothingLost, FailedWriteRecoverable, PTL
-----------------------------------------------------------------------------
\* The heads of a transition are a block and a block or null.
LEMMA HeadsLemma ==
  ASSUME TypeOK
  PROVE  /\ dbHeads # <<>> => DOMAIN dbHeads = {1, 2} /\ dbHeads[1] \in Block
         /\ DOMAIN <<tip, OldTip>> = {1, 2}
         /\ dbHeads = <<>> => DOMAIN dbHeads = {}
<1>1. ASSUME dbHeads # <<>> PROVE DOMAIN dbHeads = {1, 2} /\ dbHeads[1] \in Block
  <2>1. PICK b \in Block, c \in Block \cup {Null} : dbHeads = <<b, c>>
    BY <1>1 DEF TypeOK
  <2> QED
    BY <2>1
<1> QED
  BY <1>1

\* All blocks the chainstate names are in S, without reference to the sequence.
NamedIn(S) ==
  /\ dbBest \in S
  /\ dbHeads # <<>> => dbHeads[1] \in S /\ dbHeads[2] \in S

\* The conjuncts of IndexInv that do not use Named.
IndexesClosed ==
  /\ \A b \in index : b # Genesis => Parent[b] \in index \cup {Genesis}
  /\ \A b \in diskIndex : b # Genesis => Parent[b] \in diskIndex \cup {Genesis}
  /\ mode \in {"run", "flush", "stop", "replay"} => diskIndex \subseteq index
  /\ mode \in {"run", "flush", "stop"} => tip \in index \cup {Genesis}
  /\ mode = "replay" \/ (mode = "flush" /\ caller # "gui")
       => index \subseteq diskIndex \cup {Genesis}
  /\ dbHeads # <<>> => dbBest = Null

\* IndexInv taken apart.
LEMMA NamesLemma ==
  ASSUME TypeOK
  PROVE  IndexInv <=>
           /\ caller # "gui" => NamedIn(diskIndex \cup {Genesis, Null})
           /\ mode \in {"run", "flush", "stop", "replay"} =>
                NamedIn(index \cup {Genesis, Null})
           /\ IndexesClosed
<1>1. ASSUME NEW S PROVE Named \subseteq S <=> NamedIn(S)
  BY Zenon, HeadsLemma DEF Named, NamedIn
<1>2. /\ Named \subseteq diskIndex \cup {Genesis, Null} <=> NamedIn(diskIndex \cup {Genesis, Null})
      /\ Named \subseteq index \cup {Genesis, Null} <=> NamedIn(index \cup {Genesis, Null})
  BY Zenon, <1>1
<1> HIDE DEF NamedIn, Named
<1> QED
  BY Zenon, <1>2 DEF IndexInv, ChainstateRefersToIndex, IndexesClosed

\* The invariant on the block indexes is inductive.
LEMMA IndexCorrect == Spec => []IndexInv
<1> DEFINE Parts ==
             /\ caller # "gui" => NamedIn(diskIndex \cup {Genesis, Null})
             /\ mode \in {"run", "flush", "stop", "replay"} =>
                  NamedIn(index \cup {Genesis, Null})
             /\ IndexesClosed
<1>1. Init => IndexInv
  BY TreeAssumption DEF TreeAssumption, Init, IndexInv, ChainstateRefersToIndex, Named
<1>2. ASSUME TypeOK, TypeOK', PendingInv, IndexInv, [Next]_vars PROVE IndexInv'
  <2>n. Parts
    BY Zenon, <1>2, NamesLemma
  <2>m. TypeOK' => (IndexInv' <=> Parts')
    BY NamesLemma, PTL
  <2> SUFFICES Parts'
    BY Zenon, <1>2, <2>m
  <2> USE <1>2, <2>n, TreeAssumption DEF TreeAssumption, NamedIn, IndexesClosed
  <2>1. ASSUME NEW b \in Block \ {Genesis}, AcceptBlock(b) PROVE Parts'
    BY Zenon, <2>1 DEF AcceptBlock, disk, db, TypeOK
  <2>2. ASSUME NEW b \in Block \ {Genesis}, ConnectTip(b) PROVE Parts'
    BY Zenon, <2>2 DEF ConnectTip, disk, db
  <2>3. ASSUME NEW b \in Block \ {Genesis}, ReplayForward(b) PROVE Parts'
    BY Zenon, <2>3 DEF ReplayForward, disk, db
  <2>4. CASE DisconnectTip
    BY Zenon, <2>4 DEF DisconnectTip, disk, db
  <2>5. CASE PeriodicWrite
    BY Zenon, <2>5 DEF PeriodicWrite, mem, db
  <2>6. CASE StartShutdown
    BY Zenon, <2>6 DEF StartShutdown, mem, disk, db
  <2>7. CASE FlushStateToDisk
    BY Zenon, <2>7 DEF FlushStateToDisk, BeginBatchWrite, mem, db
  <2>8. CASE FlushDirectly
    BY Zenon, <2>8 DEF FlushDirectly, BeginBatchWrite, mem, disk, db
  <2>9. ASSUME NEW S \in SUBSET pending, WritePartial(S) PROVE Parts'
    BY Zenon, <2>9 DEF WritePartial, OldTip, mem, disk, TypeOK
  <2>10. ASSUME NEW S \in SUBSET pending, WriteFails(S) PROVE Parts'
    BY Zenon, <2>10 DEF WriteFails, AfterFlush, disk, db
  <2>11. CASE WriteFinal
    BY Zenon, <2>11 DEF WriteFinal, AfterFlush, disk
  <2>12. CASE Crash
    BY Zenon, <2>12 DEF Crash, disk, db
  <2>13. CASE Start
    BY Zenon, <2>13 DEF Start, disk, db
  <2>14. CASE StartReplay
    <3>1. /\ dbHeads # <<>> /\ UNCHANGED <<diskIndex, dbBest, dbHeads, caller>>
          /\ index' = diskIndex \cup {Genesis}
          /\ mode' \in {"replay", "failed"}
          /\ mode' = "replay" => dbHeads[1] \in index' /\ dbHeads[2] \in index' \cup {Null}
      BY Zenon, <2>14 DEF StartReplay, disk, db
    <3> QED
      BY Zenon, <3>1
  <2>15. CASE ReplayBack
    BY Zenon, <2>15 DEF ReplayBack, disk, db
  <2>16. CASE ReplayDone
    BY Zenon, <2>16, HeadsLemma DEF ReplayDone, BeginBatchWrite, mem, disk, db, PendingInv
  <2>17. CASE UNCHANGED vars
    BY Zenon, <2>17 DEF vars
  <2> QED
    BY Zenon, <2>1, <2>2, <2>3, <2>4, <2>5, <2>6, <2>7, <2>8, <2>9, <2>10, <2>11, <2>12, <2>13,
       <2>14, <2>15, <2>16, <2>17 DEF Next
<1> QED
  BY <1>1, <1>2, TypeCorrect, PTL DEF Spec

\* Every block the chainstate names is in the block index on disk, so that a restart
\* can find it, unless the last flush bypassed FlushStateToDisk.
THEOREM ChainstateInIndex == Spec => []ChainstateRefersToIndex
<1>1. IndexInv => ChainstateRefersToIndex
  BY Zenon DEF IndexInv
<1> QED
  BY <1>1, IndexCorrect, PTL
-----------------------------------------------------------------------------
\* A chain holds its block and, with a block, the block's parent; it is the block and
\* the chain of the parent.
LEMMA ChainLemma ==
  ASSUME NEW b \in Block
  PROVE  /\ Chain[b] \subseteq Block
         /\ b \in Chain[b]
         /\ \A a \in Chain[b] \ {Genesis} : Parent[a] \in Chain[b]
         /\ b # Genesis => Chain[b] \subseteq {b} \cup Chain[Parent[b]]
         /\ b # Genesis => Chain[Parent[b]] \subseteq Chain[b]
<1> DEFINE Closed(S) == \A x \in S \ {Genesis} : Parent[x] \in S
<1>p. \A x \in Block \ {Genesis} : Parent[x] \in Block
  BY Zenon, TreeAssumption DEF TreeAssumption
<1>1. \A c \in Block : Chain[c] = {a \in Block : \A S \in SUBSET Block : c \in S /\ Closed(S) => a \in S}
  BY Zenon DEF Chain
<1> HIDE DEF Closed
<1>2. \A c \in Block : Chain[c] \subseteq Block /\ c \in Chain[c]
  BY Zenon, <1>1
<1>3. ASSUME NEW c \in Block, NEW S \in SUBSET Block, c \in S, Closed(S) PROVE Chain[c] \subseteq S
  BY Zenon, <1>1, <1>3
<1>4. ASSUME NEW c \in Block, NEW a \in Chain[c], a # Genesis PROVE Parent[a] \in Chain[c]
  <2>1. a \in Block /\ Parent[a] \in Block
    BY Zenon, <1>2, <1>4, <1>p
  <2>2. ASSUME NEW S \in SUBSET Block, c \in S, Closed(S) PROVE Parent[a] \in S
    <3>1. a \in S
      BY Zenon, <1>3, <2>2
    <3> QED
      BY Zenon, <3>1, <2>2, <1>4 DEF Closed
  <2> QED
    BY Zenon, <2>1, <2>2, <1>1
<1>5. \A c \in Block : Closed(Chain[c])
  BY Zenon, <1>4 DEF Closed
<1>6. ASSUME b # Genesis PROVE Chain[Parent[b]] \subseteq Chain[b]
  <2>1. Parent[b] \in Block /\ Parent[b] \in Chain[b]
    BY Zenon, <1>6, <1>p, <1>2, <1>4
  <2> QED
    BY Zenon, <2>1, <1>2, <1>3, <1>5
<1>7. ASSUME b # Genesis PROVE Chain[b] \subseteq {b} \cup Chain[Parent[b]]
  <2> DEFINE S == {b} \cup Chain[Parent[b]]
  <2>1. Parent[b] \in Block
    BY Zenon, <1>7, <1>p
  <2>2. S \in SUBSET Block /\ b \in S
    BY Zenon, <2>1, <1>2
  <2>3. Closed(S)
    BY Zenon, <2>1, <1>2, <1>5 DEF Closed
  <2> QED
    BY Zenon, <2>2, <2>3, <1>3
<1> QED
  BY Zenon, <1>2, <1>4, <1>6, <1>7

\* One step of the node, of a flush, of a crash or of a start keeps UndoInv.
LEMMA UndoStep ==
  ASSUME TypeOK, TypeOK', PendingInv, IndexInv, UndoInv, [Next]_vars
  PROVE  UndoInv'
<1> USE DEF StartupSucceeds
<1>n. /\ caller # "gui" => NamedIn(diskIndex \cup {Genesis, Null})
      /\ dbHeads # <<>> => dbBest = Null
      /\ mode = "replay" => dbHeads # <<>>
  BY Zenon, NamesLemma DEF IndexesClosed, PendingInv
<1>t. /\ tip \in Block
      /\ dbHeads # <<>> => dbHeads[1] \in Block /\ dbHeads[2] \in Block
  BY Zenon, HeadsLemma DEF TypeOK, UndoInv
<1>o. OldTip \in Block
  BY Zenon, <1>t DEF OldTip, TypeOK, UndoInv
<1>1. ASSUME NEW b \in Block \ {Genesis}, AcceptBlock(b) PROVE UndoInv'
  BY Zenon, <1>1 DEF AcceptBlock, UndoInv, OldTip, disk, db
<1>2. ASSUME NEW b \in Block \ {Genesis}, ConnectTip(b) PROVE UndoInv'
  <2>1. Chain[tip] \subseteq Chain[b]
    BY Zenon, <1>2, ChainLemma DEF ConnectTip
  <2>2. /\ mode = "run" /\ mode' = "run" /\ tip' = b /\ undo' = undo \cup {b}
        /\ UNCHANGED <<diskUndo, dbBest, dbHeads, caller>>
    BY Zenon, <1>2 DEF ConnectTip, disk, db
  <2> QED
    BY Zenon, <2>1, <2>2 DEF UndoInv, OldTip
<1>3. ASSUME NEW b \in Block \ {Genesis}, ReplayForward(b) PROVE UndoInv'
  <2>1. Chain[tip] \subseteq Chain[b]
    BY Zenon, <1>3, ChainLemma DEF ReplayForward
  <2>2. /\ mode = "replay" /\ mode' = "replay" /\ tip' = b /\ b \in Chain[dbHeads[1]]
        /\ UNCHANGED <<undo, diskUndo, dbBest, dbHeads, caller>>
    BY Zenon, <1>3 DEF ReplayForward, disk, db
  <2> QED
    BY Zenon, <2>1, <2>2 DEF UndoInv, OldTip
<1>4. CASE DisconnectTip
  <2>1. Chain[tip] \subseteq {tip} \cup Chain[Parent[tip]]
    BY Zenon, <1>4, <1>t, ChainLemma DEF DisconnectTip
  <2>2. /\ mode = "run" /\ mode' = "run" /\ tip' = Parent[tip] /\ tip \in undo
        /\ UNCHANGED <<undo, diskUndo, dbBest, dbHeads, caller>>
    BY Zenon, <1>4 DEF DisconnectTip, disk, db
  <2> QED
    BY Zenon, <2>1, <2>2 DEF UndoInv, OldTip
<1>5. CASE PeriodicWrite
  BY Zenon, <1>5 DEF PeriodicWrite, UndoInv, OldTip, mem, db
<1>6. CASE StartShutdown
  BY Zenon, <1>6 DEF StartShutdown, UndoInv, OldTip, mem, disk, db
<1>7. CASE FlushStateToDisk
  BY Zenon, <1>7, <1>n DEF FlushStateToDisk, BeginBatchWrite, UndoInv, OldTip, mem, db
<1>8. CASE FlushDirectly
  BY Zenon, <1>8 DEF FlushDirectly, BeginBatchWrite, UndoInv, OldTip, mem, disk, db
<1>9. ASSUME NEW S \in SUBSET pending, WritePartial(S) PROVE UndoInv'
  <2>1. /\ mode = "flush" /\ mode' = "flush"
        /\ dbBest' = Null /\ dbHeads' # <<>> /\ dbHeads'[1] = tip /\ dbHeads'[2] = OldTip
        /\ UNCHANGED <<undo, diskUndo, tip, caller>>
    BY Zenon, <1>9 DEF WritePartial, mem, disk
  <2>2. OldTip' = OldTip
    BY Zenon, <2>1 DEF OldTip
  <2>3. OldTip # Null
    BY Zenon, <1>o, TreeAssumption DEF TreeAssumption
  <2> QED
    BY Zenon, <2>1, <2>2, <2>3 DEF UndoInv
<1>10. ASSUME NEW S \in SUBSET pending, WriteFails(S) PROVE UndoInv'
  BY Zenon, <1>10 DEF WriteFails, AfterFlush, UndoInv, OldTip, disk, db
<1>11. CASE WriteFinal
  <2>1. /\ mode = "flush" /\ mode' \in {"run", "stop", "down"}
        /\ dbBest' = tip /\ dbHeads' = <<>>
        /\ UNCHANGED <<undo, diskUndo, tip, caller>>
    BY Zenon, <1>11 DEF WriteFinal, AfterFlush, disk
  <2>2. OldTip' = tip /\ tip # Null
    BY Zenon, <2>1, <1>t, TreeAssumption DEF OldTip, TreeAssumption
  <2> QED
    BY Zenon, <2>1, <2>2 DEF UndoInv
<1>12. CASE Crash
  BY Zenon, <1>12 DEF Crash, UndoInv, disk, db
<1>13. CASE Start
  <2>1. /\ mode' \in {"run", "failed"} /\ dbHeads = <<>> /\ tip' = dbBest
        /\ mode' = "failed" => dbBest \notin diskIndex \cup {Genesis}
        /\ UNCHANGED <<diskUndo, dbBest, dbHeads, caller>>
    BY Zenon, <1>13 DEF Start, UndoInv, disk, db
  <2>2. mode' = "failed" => caller = "gui"
    BY Zenon, <2>1, <1>n DEF NamedIn, UndoInv
  <2>3. OldTip' = tip'
    BY Zenon, <2>1 DEF OldTip
  <2> QED
    BY Zenon, <2>1, <2>2, <2>3 DEF UndoInv
<1>14. CASE StartReplay
  <2>1. /\ mode' \in {"replay", "failed"} /\ dbHeads # <<>> /\ tip' = dbHeads[2]
        /\ mode' = "failed" =>
             dbHeads[1] \notin diskIndex \cup {Genesis} \/ dbHeads[2] \notin diskIndex \cup {Genesis}
        /\ undo' = diskUndo
        /\ UNCHANGED <<diskUndo, dbBest, dbHeads, caller>>
    BY Zenon, <1>14 DEF StartReplay, UndoInv, disk, db
  <2>2. mode' = "failed" => caller = "gui"
    BY Zenon, <2>1, <1>n, <1>t, TreeAssumption DEF NamedIn, TreeAssumption
  <2>3. dbHeads[2] \in Chain[dbHeads[2]]
    BY Zenon, <2>1, <1>t, ChainLemma
  <2> QED
    BY Zenon, <2>1, <2>2, <2>3 DEF UndoInv
<1>15. CASE ReplayBack
  <2>1. /\ mode = "replay" /\ tip # Genesis /\ tip \notin Chain[dbHeads[1]]
        /\ UNCHANGED <<undo, diskUndo, dbBest, dbHeads, caller>>
    BY Zenon, <1>15 DEF ReplayBack, disk, db
  <2>2. tip \in Chain[dbHeads[2]] /\ dbHeads # <<>>
    BY Zenon, <2>1, <1>n DEF UndoInv
  <2>3. CASE tip \in undo
    <3>1. mode' = "replay" /\ tip' = Parent[tip]
      BY Zenon, <1>15, <2>3 DEF ReplayBack
    <3>2. Parent[tip] \in Chain[dbHeads[2]]
      BY Zenon, <2>1, <2>2, <1>t, ChainLemma
    <3>3. Chain[tip] \subseteq {tip} \cup Chain[Parent[tip]]
      BY Zenon, <2>1, <1>t, ChainLemma
    <3> QED
      BY Zenon, <2>1, <2>3, <3>1, <3>2, <3>3 DEF UndoInv
  <2>4. CASE tip \notin undo
    <3>1. mode' = "failed"
      BY Zenon, <1>15, <2>4 DEF ReplayBack
    <3>2. caller = "gui"
      BY Zenon, <2>1, <2>2, <2>4 DEF UndoInv
    <3> QED
      BY Zenon, <2>1, <3>1, <3>2 DEF UndoInv
  <2> QED
    BY Zenon, <2>3, <2>4
<1>16. CASE ReplayDone
  <2>1. /\ mode = "replay" /\ mode' = "flush" /\ caller' = "replay" /\ tip = dbHeads[1]
        /\ UNCHANGED <<undo, diskUndo, tip, dbBest, dbHeads>>
    BY Zenon, <1>16 DEF ReplayDone, BeginBatchWrite, mem, disk, db
  <2>2. OldTip' = dbHeads[2] /\ dbHeads # <<>>
    BY Zenon, <2>1, <1>n DEF OldTip
  <2> QED
    BY Zenon, <2>1, <2>2 DEF UndoInv
<1>17. CASE UNCHANGED vars
  BY Zenon, <1>17 DEF vars, UndoInv, OldTip
<1> QED
  BY Zenon, <1>1, <1>2, <1>3, <1>4, <1>5, <1>6, <1>7, <1>8, <1>9, <1>10, <1>11, <1>12, <1>13,
     <1>14, <1>15, <1>16, <1>17 DEF Next

\* A node whose database was once initialised comes up again after any crash, at any
\* point of a flush, of a replay or of a reorganization, and after any failed write:
\* ReplayBlocks finds both heads and the undo data it needs.  Only the flushes that
\* bypass FlushStateToDisk are excepted.
THEOREM RestartSucceeds == ~FreshDatabase => (Spec => []StartupSucceeds)
<1> SUFFICES ASSUME ~FreshDatabase PROVE Spec => []StartupSucceeds
  BY Zenon
<1>1. Init => UndoInv
  BY Zenon, TreeAssumption DEF TreeAssumption, Init, UndoInv, StartupSucceeds
<1>2. UndoInv => StartupSucceeds
  BY Zenon DEF UndoInv
<1> QED
  BY <1>1, <1>2, UndoStep, TypeCorrect, IndexCorrect, PTL DEF Spec
=============================================================================
