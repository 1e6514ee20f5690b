--------------------------- MODULE Channels_proofs ---------------------------
(***************************************************************************)
(* Theorems about Channels, for any peers, coins and number of channels:   *)
(* the types; that connects go forward, and that disconnectpeer takes no   *)
(* channel the node is opening; that no coin of the wallet is spent for a  *)
(* channel whose peer has not signed, and that the coins follow CoinUse.   *)
(***************************************************************************)
EXTENDS Channels, SequenceTheorems, TLAPS

(* The CLI tries one address.                                              *)
OneAddress == Len(dial["cli"].addrs) <= 1

(* What the handler holds while it waits for the wallet.                   *)
HandlerOK ==
  /\ handler.pc \in {"fund", "sign", "give"} => handler.channel \in Channels
  /\ handler.pc \in {"sign", "give"} => handler.coin \in Coins

(* A channel that is being funded has a transaction, and keeps it once the *)
(* peer has signed; only then is it broadcast.                             *)
TxOK ==
  /\ \A i \in Channels : chan[i].state = "created" => tx[i] \in Coins
  /\ \A i \in signed : tx[i] \in Coins /\ chan[i].state \in Funded \cup {"gone"}
  /\ broadcasts \subseteq signed

NetInv == NetType /\ Busy /\ OneAddress

DialState == {"idle", "checking", "dialing", "handshake", "up", "closed"}
Dials == [state : DialState, peer : Peers \cup {None}, addrs : Seq(Addresses)]

-----------------------------------------------------------------------------
(* Connections and commands.                                               *)

(* The wait of a task ends: it goes on with the next address, or not.      *)
LEMMA EndedDial ==
  ASSUME NetInv, NEW t \in Tasks, dial[t].state # "idle", NEW ok \in BOOLEAN, Ended(t, ok)
  PROVE  /\ Tail(dial[t].addrs) \in Seq(Addresses)
         /\ Len(dial[t].addrs) \in Nat
         /\ Len(Tail(dial[t].addrs)) = Len(dial[t].addrs) - 1
         /\ \E d \in Dials :
              /\ dial' = [dial EXCEPT ![t] = d]
              /\ \/ d = Idle
                 \/ /\ d.state \in {"checking", "dialing"}
                    /\ d.addrs = Tail(dial[t].addrs)
                    /\ d.addrs # <<>>
                    /\ d.peer = dial[t].peer
<1> DEFINE left == Tail(dial[t].addrs)
<1>1. dial \in [Tasks -> Dials] /\ dial[t].addrs \in Seq(Addresses) /\ dial[t].addrs # <<>>
  BY DEF NetInv, NetType, Busy, Dials, DialState
<1>2. left \in Seq(Addresses) /\ Len(left) = Len(dial[t].addrs) - 1 /\ Len(dial[t].addrs) \in Nat
  BY <1>1, HeadTailProperties, LenProperties
<1>3. Idle \in Dials
  BY EmptySeq DEF Idle, Dials, DialState
<1>4. CASE left = <<>> \/ (t = "needed" /\ ok)
  BY <1>2, <1>3, <1>4 DEF Ended
<1>5. CASE ~(left = <<>> \/ (t = "needed" /\ ok))
  <2> DEFINE s == IF t = "reconnect" THEN "dialing" ELSE "checking"
             d == [dial[t] EXCEPT !.state = s, !.addrs = left]
  <2>1. dial' = [dial EXCEPT ![t] = d]
    BY <1>5 DEF Ended
  <2>2. dial[t] \in Dials
    BY <1>1
  <2>3. d \in Dials /\ d.state \in {"checking", "dialing"} /\ d.addrs = left /\ d.peer = dial[t].peer
    BY <1>2, <2>2 DEF Dials, DialState
  <2> HIDE DEF d, left
  <2>4. left # <<>>
    BY <1>5
  <2>5. \E e \in Dials :
          /\ dial' = [dial EXCEPT ![t] = e]
          /\ e.state \in {"checking", "dialing"} /\ e.addrs = left
          /\ e.addrs # <<>> /\ e.peer = dial[t].peer
    BY <2>1, <2>3, <2>4
  <2> QED  BY <1>2, <2>5 DEF left
<1> QED  BY <1>4, <1>5

(* Whether a wait goes on with the next address or not, the task is well   *)
(* typed afterwards, and the CLI is ready again.                           *)
LEMMA EndedNet ==
  ASSUME NetInv, NEW t \in Tasks, dial[t].state # "idle", NEW ok \in BOOLEAN, Ended(t, ok)
  PROVE  /\ dial' \in [Tasks -> Dials]
         /\ cli' \in [cmd : {"none", "connectpeer", "openchannel", "create", "disconnect"},
                      peer : Peers \cup {None}]
         /\ Busy' /\ OneAddress'
<1> DEFINE left == Tail(dial[t].addrs)
<1>1. /\ dial \in [Tasks -> Dials] /\ dial[t].addrs \in Seq(Addresses) /\ dial[t].addrs # <<>>
      /\ dial[t].peer \in Peers
  BY DEF NetInv, NetType, Busy, Dials, DialState
<1>2. left \in Seq(Addresses) /\ Len(left) = Len(dial[t].addrs) - 1
  BY EndedDial
<1>3. Idle \in Dials /\ Idle.addrs = <<>> /\ Len(Idle.addrs) = 0 /\ Idle.state = "idle"
  BY EmptySeq DEF Idle, Dials, DialState
<1>4. PICK d \in Dials :
        /\ dial' = [dial EXCEPT ![t] = d]
        /\ \/ d = Idle
           \/ d.state # "idle" /\ d.addrs = left /\ left # <<>> /\ d.peer = dial[t].peer
  BY EndedDial
<1>5. dial' \in [Tasks -> Dials] /\ dial'[t] = d /\ \A u \in Tasks \ {t} : dial'[u] = dial[u]
  BY <1>1, <1>4
<1>6. "cli" \in Tasks
  BY DEF Tasks
<1>7. CASE t = "cli"
  <2>1. Len(dial["cli"].addrs) \in Nat /\ Len(dial["cli"].addrs) <= 1
    BY <1>1, <1>7, LenProperties DEF NetInv, OneAddress
  <2>2. left = <<>>
    BY <1>2, <1>7, <2>1, EmptySeq
  <2>3. d = Idle
    BY <1>4, <2>2
  <2>4. (cli' = [cli EXCEPT !.cmd = "create"] /\ cli.cmd = "openchannel") \/ cli' = NoCommand
    BY <1>7 DEF Ended
  <2>5. /\ cli' \in [cmd : {"none", "connectpeer", "openchannel", "create", "disconnect"},
                     peer : Peers \cup {None}]
        /\ cli'.cmd \notin {"connectpeer", "openchannel"}
        /\ cli'.cmd # "none" => cli'.peer \in Peers
    BY <2>4 DEF NetInv, NetType, Busy, NoCommand
  <2> QED  BY <1>3, <1>5, <1>7, <2>3, <2>5 DEF Busy, OneAddress, NetInv
<1>8. CASE t # "cli"
  <2>1. cli' = cli
    BY <1>8 DEF Ended
  <2>2. dial'["cli"] = dial["cli"]
    BY <1>5, <1>6, <1>8
  <2>3. d.state # "idle" => d.addrs # <<>> /\ d.peer \in Peers
    BY <1>1, <1>3, <1>4
  <2>4. \A u \in Tasks : dial'[u].state # "idle" => dial'[u].addrs # <<>> /\ dial'[u].peer \in Peers
    BY <1>5, <2>3 DEF NetInv, Busy
  <2> QED  BY <1>5, <2>1, <2>2, <2>4 DEF Busy, OneAddress, NetInv, NetType
<1> QED  BY <1>7, <1>8

(* A task that starts to connect, or whose connection changes state.       *)
LEMMA DialNet ==
  ASSUME NetInv, NEW t \in Tasks, NEW d \in Dials, d.state # "idle",
         d.addrs # <<>>, d.peer \in Peers, dial' = [dial EXCEPT ![t] = d],
         t = "cli" => /\ Len(d.addrs) <= 1
                      /\ cli'.cmd \in {"connectpeer", "openchannel"}
                      /\ cli' \in [cmd : {"connectpeer", "openchannel"}, peer : Peers],
         t # "cli" => cli' = cli
  PROVE  /\ dial' \in [Tasks -> Dials]
         /\ cli' \in [cmd : {"none", "connectpeer", "openchannel", "create", "disconnect"},
                      peer : Peers \cup {None}]
         /\ Busy' /\ OneAddress'
<1>1. dial \in [Tasks -> Dials] /\ "cli" \in Tasks
  BY DEF NetInv, NetType, Dials, DialState, Tasks
<1>2. dial' \in [Tasks -> Dials] /\ dial'[t] = d /\ \A u \in Tasks \ {t} : dial'[u] = dial[u]
  BY <1>1
<1>3. \A u \in Tasks : dial'[u].state # "idle" => dial'[u].addrs # <<>> /\ dial'[u].peer \in Peers
  BY <1>2 DEF NetInv, Busy
<1> QED  BY <1>1, <1>2, <1>3 DEF NetInv, NetType, Busy, OneAddress

(* A dropped connection leaves every task with its peer and addresses.     *)
LEMMA DroppedNet ==
  ASSUME NetInv, NEW p \in Peers, Dropped(p)
  PROVE  /\ connected' \subseteq Peers
         /\ dial' \in [Tasks -> Dials]
         /\ \A t \in Tasks : /\ dial'[t].peer = dial[t].peer /\ dial'[t].addrs = dial[t].addrs
                             /\ dial'[t].state = "idle" <=> dial[t].state = "idle"
<1>1. dial \in [Tasks -> Dials]
  BY DEF NetInv, NetType, Dials, DialState
<1>2. \A t \in Tasks : [dial[t] EXCEPT !.state = "closed"] \in Dials
  BY <1>1 DEF Dials, DialState
<1>3. dial' \in [Tasks -> Dials]
  BY <1>1, <1>2 DEF Dropped
<1>4. \A t \in Tasks : /\ dial'[t].peer = dial[t].peer /\ dial'[t].addrs = dial[t].addrs
                       /\ dial'[t].state = "idle" <=> dial[t].state = "idle"
  BY <1>1 DEF Dropped, Dials, DialState
<1> QED  BY <1>3, <1>4 DEF Dropped, NetInv, NetType

(* Only the state of a task's connection changes.                          *)
LEMMA DialStateNet ==
  ASSUME NetInv, NEW t \in Tasks, NEW st \in DialState \ {"idle"}, dial[t].state # "idle",
         dial' = [dial EXCEPT ![t].state = st], UNCHANGED cli
  PROVE  dial' \in [Tasks -> Dials] /\ Busy' /\ OneAddress'
<1>1. dial \in [Tasks -> Dials]
  BY DEF NetInv, NetType, Dials, DialState
<1> DEFINE d == [dial[t] EXCEPT !.state = st]
<1>2. /\ d \in Dials /\ d.state # "idle" /\ d.peer = dial[t].peer
      /\ d.addrs = dial[t].addrs /\ dial' = [dial EXCEPT ![t] = d]
  BY <1>1 DEF Dials
<1> HIDE DEF d
<1>3. d.addrs # <<>> /\ d.peer \in Peers
  BY <1>2 DEF NetInv, Busy
<1>4. t = "cli" => /\ Len(d.addrs) <= 1
                   /\ cli'.cmd \in {"connectpeer", "openchannel"}
                   /\ cli' \in [cmd : {"connectpeer", "openchannel"}, peer : Peers]
  BY <1>2 DEF NetInv, NetType, Busy, OneAddress
<1> QED  BY <1>2, <1>3, <1>4, DialNet

LEMMA NetNext == NetInv /\ [Next]_vars => NetInv'
<1> SUFFICES ASSUME NetInv, [Next]_vars PROVE NetInv'
  OBVIOUS
<1>0. /\ NetType /\ Busy /\ OneAddress /\ "cli" \in Tasks
      /\ dial \in [Tasks -> Dials]
      /\ cli \in [cmd : {"none", "connectpeer", "openchannel", "create", "disconnect"},
                  peer : Peers \cup {None}]
      /\ NoCommand \in [cmd : {"none"}, peer : {None}]
  BY DEF NetInv, NetType, Dials, DialState, NoCommand, Tasks
<1>1. CASE UNCHANGED net
  BY <1>1 DEF net, NetInv, NetType, Busy, OneAddress
<1>2. ASSUME NEW p \in Peers, ComeOnline(p) \/ GoOffline(p) PROVE NetInv'
  BY <1>2 DEF ComeOnline, GoOffline, NetInv, NetType, Busy, OneAddress
<1>3. ASSUME NEW p \in Peers, Disconnected(p) PROVE NetInv'
  BY <1>0, <1>3, DroppedNet DEF Disconnected, NetInv, NetType, Busy, OneAddress, Dials, DialState
<1>4. ASSUME NEW p \in Peers, setup_inbound(p) PROVE NetInv'
  BY <1>4 DEF setup_inbound, NetInv, NetType, Busy, OneAddress
<1>5. ASSUME NEW t \in Tasks, CheckPeer(t) PROVE NetInv'
  <2>1. CASE Ended(t, TRUE)
    BY <1>0, <1>5, <2>1, EndedNet DEF CheckPeer, NetInv, NetType, Dials, DialState
  <2>2. CASE dial' = [dial EXCEPT ![t].state = "dialing"] /\ UNCHANGED cli
    BY <1>0, <1>5, <2>2, DialStateNet DEF CheckPeer, NetInv, NetType, Dials, DialState
  <2> QED  BY <1>5, <2>1, <2>2 DEF CheckPeer
<1>6. ASSUME NEW t \in Tasks, connect_outbound(t) PROVE NetInv'
  <2>1. CASE Ended(t, FALSE)
    BY <1>0, <1>6, <2>1, EndedNet DEF connect_outbound, NetInv, NetType, Dials, DialState
  <2>2. CASE dial' = [dial EXCEPT ![t].state = "handshake"] /\ UNCHANGED cli
    BY <1>0, <1>6, <2>2, DialStateNet DEF connect_outbound, NetInv, NetType, Dials, DialState
  <2> QED  BY <1>6, <2>1, <2>2 DEF connect_outbound
<1>7. ASSUME NEW t \in Tasks, HandshakeEnds(t) PROVE NetInv'
  <2>1. PICK st \in {"up", "closed"} : dial' = [dial EXCEPT ![t].state = st]
    BY <1>7 DEF HandshakeEnds
  <2>2. connected' \subseteq Peers
    BY <1>0, <1>7 DEF HandshakeEnds, NetType, Busy
  <2> QED  BY <1>0, <1>7, <2>1, <2>2, DialStateNet
         DEF HandshakeEnds, NetInv, NetType, Dials, DialState
<1>8. ASSUME NEW t \in Tasks, Wait(t) PROVE NetInv'
  <2>1. PICK ok \in BOOLEAN : Ended(t, ok)
    BY <1>8 DEF Wait, SeePeer
  <2>2. dial[t].state # "idle"
    BY <1>8 DEF Wait, SeePeer
  <2> QED  BY <1>0, <1>8, <2>1, <2>2, EndedNet DEF Wait, NetInv, NetType, Dials, DialState
<1>9. CASE Tick
  BY <1>9 DEF Tick, NetInv, NetType, Busy, OneAddress
<1>10. CASE Reconnect
  <2>1. PICK p \in todo :
          /\ todo' = todo \ {p}
          /\ dial' = IF p \in connected \/ Announced[p] = <<>> THEN dial
                     ELSE [dial EXCEPT !["reconnect"] = Dialing(p, Announced[p])]
    BY <1>10 DEF Reconnect
  <2>2. UNCHANGED <<online, connected, cli>> /\ p \in Peers /\ todo' \subseteq Peers
    BY <1>0, <1>10, <2>1 DEF Reconnect, NetType
  <2>3. CASE dial' = dial
    BY <1>0, <2>2, <2>3 DEF NetInv, NetType, Busy, OneAddress
  <2>4. CASE p \notin connected /\ Announced[p] # <<>>
    <3> DEFINE d == Dialing(p, Announced[p])
    <3>1. Announced[p] \in Seq(Addresses)
      BY <2>2, AnnouncedAssumption
    <3>2. /\ d \in Dials /\ d.state # "idle" /\ d.peer = p /\ d.addrs # <<>>
          /\ dial' = [dial EXCEPT !["reconnect"] = d] /\ "reconnect" \in Tasks
      BY <2>1, <2>2, <2>4, <3>1 DEF Dialing, Dials, DialState, Tasks
    <3> HIDE DEF d
    <3> QED  BY <2>2, <3>2, DialNet DEF NetInv, NetType, Dials, DialState
  <2> QED  BY <2>1, <2>3, <2>4
<1>11. ASSUME NEW p \in Peers, NEW a \in Addresses,
              NEW c \in {"connectpeer", "openchannel"},
              cli' = [cmd |-> c, peer |-> p],
              dial' = [dial EXCEPT !["cli"] = Checking(p, <<a>>)],
              UNCHANGED <<online, connected, todo>>
       PROVE  NetInv'
  <2> DEFINE d == Checking(p, <<a>>)
  <2>1. d \in Dials /\ d.state # "idle" /\ d.peer = p /\ d.addrs # <<>> /\ Len(d.addrs) <= 1
    BY DEF Checking, Dials, DialState
  <2>2. cli' \in [cmd : {"connectpeer", "openchannel"}, peer : Peers] /\ cli'.cmd = c
    BY <1>11
  <2> HIDE DEF d
  <2> QED  BY <1>0, <1>11, <2>1, <2>2, DialNet DEF d, NetInv, NetType, Dials, DialState
<1>12. ASSUME NEW p \in Peers, NEW a \in Addresses, connectpeer(p, a) PROVE NetInv'
  BY <1>11, <1>12 DEF connectpeer
<1>13. ASSUME NEW p \in Peers, NEW a \in Addresses \cup {None}, openchannel(p, a) PROVE NetInv'
  <2>1. CASE a = None
    BY <1>0, <1>13, <2>1 DEF openchannel, Prompt, NetInv, NetType, Busy, OneAddress, NoCommand
  <2>2. CASE a # None
    BY <1>11, <1>13, <2>2 DEF openchannel
  <2> QED  BY <2>1, <2>2
<1>14. CASE open_channel
  BY <1>0, <1>14 DEF open_channel, NetInv, NetType, Busy, OneAddress, NoCommand
<1>15. ASSUME NEW p \in Peers, disconnectpeer(p) PROVE NetInv'
  BY <1>0, <1>15 DEF disconnectpeer, Prompt, NetInv, NetType, Busy, OneAddress, NoCommand
<1>16. CASE disconnect_by_node_id
  <2>1. cli.cmd = "disconnect" /\ cli' = NoCommand /\ cli.peer \in Peers /\ UNCHANGED <<online, todo>>
    BY <1>0, <1>16 DEF disconnect_by_node_id, Busy
  <2>2. CASE Dropped(cli.peer)
    BY <1>0, <2>1, <2>2, DroppedNet DEF NetInv, NetType, Busy, OneAddress, NoCommand, Dials, DialState
  <2>3. CASE UNCHANGED <<connected, dial>>
    BY <1>0, <2>1, <2>3 DEF NetInv, NetType, Busy, OneAddress, NoCommand
  <2> QED  BY <1>16, <2>2, <2>3 DEF disconnect_by_node_id
<1>17. ASSUME NEW p \in Peers, NEW a \in Addresses, ConnectionNeeded(p, <<a, "good">>) PROVE NetInv'
  <2> DEFINE d == Checking(p, <<a, "good">>)
  <2>1. d \in Dials /\ d.state # "idle" /\ d.peer = p /\ d.addrs # <<>>
    BY DEF Checking, Dials, DialState, Addresses
  <2>2. dial' = [dial EXCEPT !["needed"] = d] /\ "needed" \in Tasks
    BY <1>17 DEF ConnectionNeeded, Tasks
  <2> HIDE DEF d
  <2> QED  BY <1>0, <1>17, <2>1, <2>2, DialNet
         DEF ConnectionNeeded, NetInv, NetType, Dials, DialState
<1>18. CASE Peer
  BY <1>2, <1>3, <1>4, <1>18 DEF Peer
<1>19. CASE Connecting
  BY <1>5, <1>6, <1>7, <1>8, <1>9, <1>10, <1>19 DEF Connecting
<1>20. CASE Command
  BY <1>1, <1>12, <1>13, <1>14, <1>15, <1>16, <1>20 DEF Command, closechannel, forceclosechannel
<1>21. CASE Ldk
  BY <1>1, <1>21 DEF Ldk, AcceptChannel, OfferChannel, FundingSigned, ChannelReady, ChannelEnds
<1>22. CASE Handler
  BY <1>1, <1>17, <1>22 DEF Handler, FundingGenerationReady, OpenChannelRequest,
     fund_raw_transaction, sign_raw_transaction_with_wallet, funding_transaction_generated,
     broadcast_transactions, WalletSpends
<1>23. CASE UNCHANGED vars
  BY <1>1, <1>23 DEF vars, net
<1> QED  BY <1>18, <1>19, <1>20, <1>21, <1>22, <1>23 DEF Next

-----------------------------------------------------------------------------
(* Funding.                                                                *)

FundInv == FundingType /\ HandlerOK /\ TxOK /\ FundsAreSafe

(* Channels change state, and none the peer has signed for goes back.      *)
LEMMA ChanChange ==
  ASSUME FundInv, UNCHANGED funding,
         chan' \in [Channels -> [state : {"none", "gone"} \cup InHandshake \cup Funded,
                                peer : Peers \cup {None}]],
         \A i \in Channels :
           /\ chan'[i].state = "created" => chan[i].state = "created"
           /\ chan[i].state \in Funded \cup {"gone"} => chan'[i].state \in Funded \cup {"gone"}
  PROVE  FundInv'
<1>1. FundingType' /\ HandlerOK' /\ FundsAreSafe'
  BY DEF FundInv, FundingType, HandlerOK, FundsAreSafe, funding
<1>2. TxOK'
  BY DEF FundInv, FundingType, TxOK, funding
<1> QED  BY <1>1, <1>2 DEF FundInv

(* One channel changes state.                                              *)
LEMMA StateChange ==
  ASSUME FundInv, UNCHANGED funding, NEW i \in Channels,
         NEW st \in ({"gone"} \cup InHandshake \cup Funded) \ {"created"}, SetState(i, st),
         chan[i].state \in Funded \cup {"gone"} => st \in Funded \cup {"gone"}
  PROVE  FundInv'
<1>1. chan \in [Channels -> [state : {"none", "gone"} \cup InHandshake \cup Funded,
                            peer : Peers \cup {None}]]
  BY DEF FundInv, FundingType
<1>2. chan' \in [Channels -> [state : {"none", "gone"} \cup InHandshake \cup Funded,
                             peer : Peers \cup {None}]]
  BY <1>1 DEF SetState
<1>3. chan'[i].state = st /\ \A j \in Channels \ {i} : chan'[j] = chan[j]
  BY <1>1 DEF SetState
<1> QED  BY <1>2, <1>3, ChanChange

(* A new channel.                                                          *)
LEMMA NewChannel ==
  ASSUME FundInv, NEW i \in Channels, NEW p \in Peers, NEW st \in {"asked", "offered"},
         chan[i].state = "none", chan' = [chan EXCEPT ![i] = [state |-> st, peer |-> p]]
  PROVE  /\ chan' \in [Channels -> [state : {"none", "gone"} \cup InHandshake \cup Funded,
                                    peer : Peers \cup {None}]]
         /\ \A j \in Channels :
              /\ chan'[j].state = "created" => chan[j].state = "created"
              /\ chan[j].state \in Funded \cup {"gone"} => chan'[j].state \in Funded \cup {"gone"}
  BY DEF FundInv, FundingType, InHandshake, Funded

LEMMA DroppedChan ==
  ASSUME FundInv, UNCHANGED funding, NEW p \in Peers, Dropped(p)
  PROVE  FundInv'
<1>1. chan' \in [Channels -> [state : {"none", "gone"} \cup InHandshake \cup Funded,
                             peer : Peers \cup {None}]]
  BY DEF Dropped, FundInv, FundingType
<1>2. \A i \in Channels :
        /\ chan'[i].state = "created" => chan[i].state = "created"
        /\ chan[i].state \in Funded \cup {"gone"} => chan'[i].state \in Funded \cup {"gone"}
  BY DEF Dropped, FundInv, FundingType
<1> QED  BY <1>1, <1>2, ChanChange

LEMMA FundNext == NetInv /\ FundInv /\ [Next]_vars => FundInv'
<1> SUFFICES ASSUME NetInv, FundInv, [Next]_vars PROVE FundInv'
  OBVIOUS
<1> DEFINE Type == [state : {"none", "gone"} \cup InHandshake \cup Funded, peer : Peers \cup {None}]
           Event == [type : {"FundingGenerationReady", "OpenChannelRequest"}, channel : Channels]
<1>0. /\ FundingType /\ HandlerOK /\ TxOK /\ FundsAreSafe
      /\ chan \in [Channels -> Type] /\ events \in Seq(Event)
      /\ NoEvent.pc = "idle"
      /\ NoEvent \in [pc : {"idle"}, channel : Channels \cup {None}, coin : Coins \cup {None}]
  BY DEF FundInv, FundingType, NoEvent
<1>1. CASE UNCHANGED <<chan, funding>>
  BY <1>1 DEF funding, FundInv, FundingType, HandlerOK, TxOK, FundsAreSafe
<1>2. ASSUME NEW p \in Peers, Disconnected(p) PROVE FundInv'
  BY <1>2, DroppedChan DEF Disconnected
<1>3. CASE open_channel
  <2>1. CASE UNCHANGED chan
    BY <1>1, <1>3, <2>1 DEF open_channel
  <2>2. CASE chan' # chan
    <3>1. PICK i \in Channels :
            chan[i].state = "none" /\ chan' = [chan EXCEPT ![i] = [state |-> "asked", peer |-> cli.peer]]
      BY <1>3, <2>2 DEF open_channel, Fresh
    <3>2. cli.peer \in Peers /\ UNCHANGED funding
      BY <1>3 DEF open_channel, NetInv, Busy
    <3> QED  BY <3>1, <3>2, NewChannel, ChanChange
  <2> QED  BY <2>1, <2>2
<1>4. CASE disconnect_by_node_id
  <2>1. cli.peer \in Peers /\ UNCHANGED funding
    BY <1>4 DEF disconnect_by_node_id, NetInv, Busy
  <2> QED  BY <1>1, <1>4, <2>1, DroppedChan DEF disconnect_by_node_id
<1>5. ASSUME NEW i \in Channels, closechannel(i) \/ forceclosechannel(i) PROVE FundInv'
  <2>1. PICK st \in {"closing", "gone"} : SetState(i, st)
    BY <1>5 DEF closechannel, forceclosechannel
  <2> QED  BY <1>5, <2>1, StateChange DEF closechannel, forceclosechannel, Funded
<1>6. ASSUME NEW i \in Channels, ChannelReady(i) \/ ChannelEnds(i) PROVE FundInv'
  <2>1. PICK st \in {"ready", "gone"} : SetState(i, st)
    BY <1>6 DEF ChannelReady, ChannelEnds
  <2> QED  BY <1>6, <2>1, StateChange DEF ChannelReady, ChannelEnds, Funded
<1>7. ASSUME NEW i \in Channels, AcceptChannel(i) PROVE FundInv'
  <2>1. /\ chan[i].state = "asked" /\ chan' = [chan EXCEPT ![i].state = "accepted"]
        /\ UNCHANGED <<handler, tx, signed, broadcasts, spender>>
        /\ events' = Append(events, [type |-> "FundingGenerationReady", channel |-> i])
    BY <1>7 DEF AcceptChannel, SetState
  <2>2. events' \in Seq(Event)
    BY <1>0, <2>1, AppendProperties
  <2>3. chan' \in [Channels -> Type]
    BY <1>0, <2>1 DEF InHandshake
  <2> QED  BY <1>0, <2>1, <2>2, <2>3
         DEF FundInv, FundingType, HandlerOK, TxOK, FundsAreSafe, InHandshake, Funded
<1>8. ASSUME NEW i \in Channels, NEW p \in Peers, OfferChannel(i, p) PROVE FundInv'
  <2>1. /\ chan[i].state = "none" /\ chan' = [chan EXCEPT ![i] = [state |-> "offered", peer |-> p]]
        /\ UNCHANGED <<handler, tx, signed, broadcasts, spender>>
        /\ events' = Append(events, [type |-> "OpenChannelRequest", channel |-> i])
    BY <1>8 DEF OfferChannel, Fresh
  <2>2. events' \in Seq(Event)
    BY <1>0, <2>1, AppendProperties
  <2>3. chan' \in [Channels -> Type]
    BY <2>1, NewChannel
  <2> QED  BY <1>0, <2>1, <2>2, <2>3
         DEF FundInv, FundingType, HandlerOK, TxOK, FundsAreSafe, InHandshake, Funded
<1>9. ASSUME NEW i \in Channels, FundingSigned(i) PROVE FundInv'
  <2>1. /\ chan[i].state = "created" /\ chan' = [chan EXCEPT ![i].state = "pending"]
        /\ signed' = signed \cup {i} /\ broadcasts' = broadcasts \cup {i}
        /\ UNCHANGED <<events, handler, tx, spender>>
    BY <1>9 DEF FundingSigned, SetState
  <2>2. chan' \in [Channels -> Type]
    BY <1>0, <2>1 DEF Funded
  <2> QED  BY <1>0, <2>1, <2>2
         DEF FundInv, FundingType, HandlerOK, TxOK, FundsAreSafe, InHandshake, Funded
<1>10. CASE FundingGenerationReady
  <2>1. /\ handler' = [pc |-> "fund", channel |-> Head(events).channel, coin |-> None]
        /\ events # <<>> /\ events' = Tail(events)
        /\ UNCHANGED <<chan, tx, signed, broadcasts, spender>>
    BY <1>10 DEF FundingGenerationReady
  <2>2. Head(events) \in Event /\ events' \in Seq(Event)
    BY <1>0, <2>1, HeadTailProperties
  <2> HIDE DEF Event
  <2>3. Head(events).channel \in Channels
    BY <2>2 DEF Event
  <2> QED  BY <1>0, <2>1, <2>2, <2>3 DEF FundInv, FundingType, HandlerOK, TxOK, FundsAreSafe, Event
<1>11. CASE OpenChannelRequest
  <2>1. events # <<>> /\ events' = Tail(events) /\ UNCHANGED <<handler, tx, signed, broadcasts, spender>>
    BY <1>11 DEF OpenChannelRequest
  <2>2. Head(events) \in Event /\ events' \in Seq(Event)
    BY <1>0, <2>1, HeadTailProperties
  <2> DEFINE i == Head(events).channel
  <2>3. i \in Channels
    BY <2>2
  <2>4. \/ chan[i].state = "offered" /\ chan' = [chan EXCEPT ![i].state = "theirs"]
        \/ chan' = chan
    BY <1>11 DEF OpenChannelRequest, SetState
  <2> HIDE DEF i
  <2>5. chan' \in [Channels -> Type]
    BY <1>0, <2>3, <2>4 DEF InHandshake
  <2>6. \A j \in Channels :
          /\ chan'[j].state = "created" => chan[j].state = "created"
          /\ chan[j].state \in Funded \cup {"gone"} => chan'[j].state = chan[j].state
    BY <1>0, <2>3, <2>4 DEF Funded
  <2>7. FundingType' /\ HandlerOK' /\ FundsAreSafe'
    BY <1>0, <2>1, <2>2, <2>5 DEF FundingType, HandlerOK, FundsAreSafe
  <2>8. TxOK'
    BY <1>0, <2>1, <2>6 DEF TxOK, FundingType
  <2> QED  BY <2>7, <2>8 DEF FundInv
<1>12. CASE fund_raw_transaction
  BY <1>0, <1>12 DEF fund_raw_transaction, FundInv, FundingType, HandlerOK, TxOK, FundsAreSafe
<1>13. CASE sign_raw_transaction_with_wallet
  BY <1>0, <1>13 DEF sign_raw_transaction_with_wallet, FundInv, FundingType, HandlerOK, TxOK, FundsAreSafe
<1>14. CASE funding_transaction_generated
  <2> DEFINE i == handler.channel
  <2>1. i \in Channels /\ handler.coin \in Coins /\ handler' = NoEvent
    BY <1>0, <1>14 DEF funding_transaction_generated, HandlerOK
  <2>2. UNCHANGED <<events, signed, broadcasts, spender>>
    BY <1>14 DEF funding_transaction_generated
  <2>3. CASE UNCHANGED <<chan, tx>>
    BY <1>0, <2>1, <2>2, <2>3 DEF FundInv, FundingType, HandlerOK, TxOK, FundsAreSafe
  <2>4. CASE /\ chan[i].state = "accepted" /\ chan' = [chan EXCEPT ![i].state = "created"]
             /\ tx' = [tx EXCEPT ![i] = handler.coin]
    <3>1. i \notin signed
      BY <1>0, <2>4 DEF TxOK, Funded
    <3>2. chan' \in [Channels -> Type] /\ tx' \in [Channels -> Coins \cup {None}]
      BY <1>0, <2>1, <2>4 DEF InHandshake, FundingType
    <3>3. chan'[i].state = "created" /\ \A j \in Channels \ {i} : chan'[j] = chan[j] /\ tx'[j] = tx[j]
      BY <1>0, <2>1, <2>4 DEF FundingType
    <3>4. tx'[i] \in Coins
      BY <1>0, <2>1, <2>4 DEF FundingType
    <3>5. FundingType' /\ HandlerOK'
      BY <1>0, <2>1, <2>2, <3>2 DEF FundingType, HandlerOK
    <3>6. TxOK'
      BY <1>0, <2>1, <2>2, <3>1, <3>3, <3>4 DEF TxOK, FundingType
    <3>7. FundsAreSafe'
      BY <1>0, <2>2, <3>1, <3>3 DEF FundsAreSafe, FundingType
    <3> QED  BY <3>5, <3>6, <3>7 DEF FundInv
  <2> QED  BY <1>14, <2>3, <2>4 DEF funding_transaction_generated, SetState
<1>15. ASSUME NEW i \in Channels, broadcast_transactions(i) PROVE FundInv'
  <2>1. i \in signed /\ tx[i] \in Coins
    BY <1>0, <1>15 DEF broadcast_transactions, TxOK
  <2> QED  BY <1>0, <1>15, <2>1
         DEF broadcast_transactions, FundInv, FundingType, HandlerOK, TxOK, FundsAreSafe
<1>16. ASSUME NEW c \in Coins, WalletSpends(c) PROVE FundInv'
  BY <1>0, <1>16, NoneAssumption
     DEF WalletSpends, FundInv, FundingType, HandlerOK, TxOK, FundsAreSafe
<1>17. CASE Peer
  BY <1>1, <1>2, <1>17 DEF Peer, ComeOnline, GoOffline, setup_inbound
<1>18. CASE Connecting
  BY <1>1, <1>18 DEF Connecting, CheckPeer, connect_outbound, HandshakeEnds, Wait, Tick, Reconnect
<1>19. CASE Command
  BY <1>1, <1>3, <1>4, <1>5, <1>19 DEF Command, connectpeer, openchannel, disconnectpeer
<1>20. CASE Ldk
  BY <1>6, <1>7, <1>8, <1>9, <1>20 DEF Ldk
<1>21. CASE Handler
  BY <1>1, <1>10, <1>11, <1>12, <1>13, <1>14, <1>15, <1>16, <1>21 DEF Handler, ConnectionNeeded
<1>22. CASE UNCHANGED vars
  BY <1>1, <1>22 DEF vars, funding
<1> QED  BY <1>17, <1>18, <1>19, <1>20, <1>21, <1>22 DEF Next

-----------------------------------------------------------------------------
LEMMA InitInv == Init => NetInv /\ FundInv
<1> SUFFICES ASSUME Init PROVE NetInv /\ FundInv
  OBVIOUS
<1>1. <<>> \in Seq(Addresses) /\ Len(<<>>) = 0
  BY EmptySeq
<1>2. <<>> \in Seq([type : {"FundingGenerationReady", "OpenChannelRequest"}, channel : Channels])
  BY EmptySeq
<1>3. NetInv
  BY <1>1 DEF Init, NetInv, NetType, Busy, OneAddress, Idle, NoCommand, Tasks
<1>4. FundInv
  BY <1>2, NoneAssumption DEF Init, FundInv, FundingType, HandlerOK, TxOK, FundsAreSafe, NoEvent,
     InHandshake, Funded
<1> QED  BY <1>3, <1>4

(* What is inductive: connections and commands, and then the funding.      *)
THEOREM Inductive == Spec => [](NetInv /\ FundInv)
  BY InitInv, NetNext, FundNext, PTL DEF Spec

(* Every variable holds a value the program can put there, a connecting    *)
(* task has a peer and an address to try, and the CLI takes no command     *)
(* while it connects (cli.rs:424-446, 735-767).                            *)
THEOREM TypeCorrect == Spec => []TypeOK
<1>1. NetInv /\ FundInv => TypeOK
  BY DEF NetInv, FundInv, TypeOK
<1> QED  BY <1>1, Inductive, PTL

(* No coin of the wallet is spent for a channel before its peer has signed *)
(* the commitment that gives it back, however many channels are being      *)
(* funded and whatever coins they were given (main.rs:214-270, 549-552).   *)
THEOREM FundsStaySafe == Spec => []FundsAreSafe
<1>1. FundInv => FundsAreSafe
  BY DEF FundInv
<1> QED  BY <1>1, Inductive, PTL

-----------------------------------------------------------------------------
(* The connects: what a step does to the connections and to the tasks.     *)

(* How a connect under way may change.                                     *)
Onward(old, new) ==
  \/ new.state = "idle"
  \/ new.peer = old.peer /\ Len(new.addrs) < Len(old.addrs)
  \/ new.peer = old.peer /\ new.addrs = old.addrs /\ DialRank(new.state) > DialRank(old.state)

(* One task changes, and nobody's connection with it.                      *)
OneDials ==
  /\ UNCHANGED connected
  /\ \E t \in Tasks : \E d \in Dials :
       /\ dial' = [dial EXCEPT ![t] = d]
       /\ d.state # "up"
       /\ dial[t].state # "idle" => Onward(dial[t], d)

DialStep ==
  \/ UNCHANGED dial /\ connected \subseteq connected'
  \/ OneDials
  \/ \E p \in Peers : Dropped(p)
  \/ \E t \in Tasks : HandshakeEnds(t)

LEMMA DialRankIs ==
  /\ DialRank("idle") = 0 /\ DialRank("checking") = 1 /\ DialRank("dialing") = 2
  /\ DialRank("handshake") = 3 /\ DialRank("up") = 4 /\ DialRank("closed") = 5
  BY DEF DialRank

LEMMA EndedOneDials ==
  ASSUME NetInv, NEW t \in Tasks, dial[t].state # "idle", NEW ok \in BOOLEAN, Ended(t, ok),
         UNCHANGED connected
  PROVE  OneDials
<1>1. PICK d \in Dials :
        /\ dial' = [dial EXCEPT ![t] = d]
        /\ \/ d = Idle
           \/ /\ d.state \in {"checking", "dialing"}
              /\ d.addrs = Tail(dial[t].addrs)
              /\ d.peer = dial[t].peer
  BY EndedDial
<1>2. Len(Tail(dial[t].addrs)) < Len(dial[t].addrs)
  BY EndedDial
<1>3. CASE d = Idle
  BY <1>1, <1>3 DEF OneDials, Onward, Idle
<1>4. CASE d.state \in {"checking", "dialing"} /\ d.addrs = Tail(dial[t].addrs) /\ d.peer = dial[t].peer
  <2>1. d.state # "up" /\ Len(d.addrs) < Len(dial[t].addrs)
    BY <1>2, <1>4
  <2>2. Onward(dial[t], d)
    BY <1>4, <2>1, Zenon DEF Onward
  <2> QED  BY <1>1, <2>1, <2>2 DEF OneDials
<1> QED  BY <1>1, <1>3, <1>4

(* The task goes on with its address.                                      *)
LEMMA FurtherOneDials ==
  ASSUME NetInv, NEW t \in Tasks, NEW st \in {"dialing", "handshake"},
         DialRank(st) > DialRank(dial[t].state),
         dial' = [dial EXCEPT ![t].state = st], UNCHANGED connected
  PROVE  OneDials
<1> DEFINE d == [dial[t] EXCEPT !.state = st]
<1>1. dial[t] \in Dials
  BY DEF NetInv, NetType, Dials, DialState
<1>2. /\ d \in Dials /\ d.state = st /\ d.peer = dial[t].peer
      /\ d.addrs = dial[t].addrs /\ dial' = [dial EXCEPT ![t] = d]
  BY <1>1 DEF Dials, DialState
<1> HIDE DEF d
<1>3. d.state # "up" /\ Onward(dial[t], d)
  BY <1>2 DEF Onward
<1> QED  BY <1>2, <1>3 DEF OneDials

(* A task that was idle begins.                                            *)
LEMMA BeginOneDials ==
  ASSUME NetInv, NEW t \in Tasks, dial[t].state = "idle", NEW d \in Dials, d.state # "up",
         dial' = [dial EXCEPT ![t] = d], UNCHANGED connected
  PROVE  OneDials
  BY DEF OneDials

LEMMA DialSteps == NetInv /\ [Next]_vars => DialStep
<1> SUFFICES ASSUME NetInv, [Next]_vars PROVE DialStep
  OBVIOUS
<1> DEFINE Begins(t, d) ==
      UNCHANGED connected /\ dial[t].state = "idle" /\ dial' = [dial EXCEPT ![t] = d]
<1>0. /\ Idle.state = "idle" /\ {"cli", "reconnect", "needed"} = Tasks
      /\ cli = NoCommand => dial["cli"].state = "idle"
      /\ \A p \in Peers, addrs \in Seq(Addresses) :
           /\ Checking(p, addrs) \in Dials /\ Checking(p, addrs).state = "checking"
           /\ Dialing(p, addrs) \in Dials /\ Dialing(p, addrs).state = "dialing"
  BY DEF Idle, Tasks, NetInv, Busy, NoCommand, Checking, Dialing, Dials, DialState
<1>1. CASE UNCHANGED <<connected, dial>>
  BY <1>1 DEF DialStep
<1>2. ASSUME NEW t \in Tasks, CheckPeer(t) PROVE DialStep
  <2>1. CASE Ended(t, TRUE)
    BY <1>2, <2>1, EndedOneDials DEF CheckPeer, DialStep
  <2>2. CASE dial' = [dial EXCEPT ![t].state = "dialing"]
    <3>1. UNCHANGED connected /\ DialRank("dialing") > DialRank(dial[t].state)
      BY <1>2, DialRankIs DEF CheckPeer
    <3> QED  BY <2>2, <3>1, FurtherOneDials DEF DialStep
  <2> QED  BY <1>2, <2>1, <2>2 DEF CheckPeer
<1>3. ASSUME NEW t \in Tasks, connect_outbound(t) PROVE DialStep
  <2>1. CASE Ended(t, FALSE)
    BY <1>3, <2>1, EndedOneDials DEF connect_outbound, DialStep
  <2>2. CASE dial' = [dial EXCEPT ![t].state = "handshake"]
    <3>1. UNCHANGED connected /\ DialRank("handshake") > DialRank(dial[t].state)
      BY <1>3, DialRankIs DEF connect_outbound
    <3> QED  BY <2>2, <3>1, FurtherOneDials DEF DialStep
  <2> QED  BY <1>3, <2>1, <2>2 DEF connect_outbound
<1>4. ASSUME NEW t \in Tasks, Wait(t) PROVE DialStep
  <2>1. PICK ok \in BOOLEAN : Ended(t, ok)
    BY <1>4 DEF Wait, SeePeer
  <2>2. dial[t].state # "idle" /\ UNCHANGED connected
    BY <1>4 DEF Wait, SeePeer
  <2> QED  BY <2>1, <2>2, EndedOneDials DEF DialStep
<1>5. CASE Reconnect
  <2>1. PICK p \in todo :
          dial' = IF p \in connected \/ Announced[p] = <<>> THEN dial
                  ELSE [dial EXCEPT !["reconnect"] = Dialing(p, Announced[p])]
    BY <1>5 DEF Reconnect
  <2>2. UNCHANGED connected /\ p \in Peers /\ dial["reconnect"] = Idle
    BY <1>5, <2>1 DEF Reconnect, NetInv, NetType
  <2>3. Announced[p] \in Seq(Addresses)
    BY <2>2, AnnouncedAssumption
  <2> QED  BY <1>0, <1>1, <2>1, <2>2, <2>3, BeginOneDials DEF DialStep
<1>6. ASSUME NEW p \in Peers, NEW a \in Addresses, Begins("cli", Checking(p, <<a>>)) PROVE DialStep
  <2>1. <<a>> \in Seq(Addresses)
    OBVIOUS
  <2>2. Checking(p, <<a>>) \in Dials /\ Checking(p, <<a>>).state # "up" /\ "cli" \in Tasks
    BY <1>0, <2>1
  <2> QED  BY <1>6, <2>2, BeginOneDials DEF DialStep
<1>7. ASSUME NEW p \in Peers, NEW a \in Addresses \cup {None}, openchannel(p, a) PROVE DialStep
  <2>1. CASE a = None
    BY <1>1, <1>7, <2>1 DEF openchannel
  <2>2. CASE a # None
    BY <1>0, <1>6, <1>7, <2>2 DEF openchannel, Prompt
  <2> QED  BY <2>1, <2>2
<1>8. ASSUME NEW p \in Peers, NEW a \in Addresses, connectpeer(p, a) PROVE DialStep
  BY <1>0, <1>6, <1>8 DEF connectpeer, Prompt
<1>9. ASSUME NEW p \in Peers, NEW a \in Addresses, ConnectionNeeded(p, <<a, "good">>) PROVE DialStep
  <2>1. <<a, "good">> \in Seq(Addresses)
    BY DEF Addresses
  <2> QED  BY <1>0, <1>9, <2>1, BeginOneDials DEF ConnectionNeeded, DialStep
<1>10. CASE disconnect_by_node_id
  BY <1>1, <1>10 DEF disconnect_by_node_id, DialStep, NetInv, Busy
<1>11. CASE Peer
  <2>1. PICK p \in Peers : ComeOnline(p) \/ GoOffline(p) \/ Disconnected(p) \/ setup_inbound(p)
    BY <1>11 DEF Peer
  <2> QED  BY <2>1 DEF ComeOnline, GoOffline, Disconnected, setup_inbound, DialStep
<1>12. CASE Connecting
  BY <1>1, <1>2, <1>3, <1>4, <1>5, <1>12 DEF Connecting, Tick, DialStep
<1>13. CASE Command
  BY <1>1, <1>7, <1>8, <1>10, <1>13
     DEF Command, open_channel, disconnectpeer, closechannel, forceclosechannel, net
<1>14. CASE Ldk
  BY <1>1, <1>14 DEF Ldk, AcceptChannel, OfferChannel, FundingSigned, ChannelReady, ChannelEnds, net
<1>15. CASE Handler
  BY <1>1, <1>9, <1>15 DEF Handler, FundingGenerationReady, OpenChannelRequest,
     fund_raw_transaction, sign_raw_transaction_with_wallet, funding_transaction_generated,
     broadcast_transactions, WalletSpends, net
<1>16. CASE UNCHANGED vars
  BY <1>1, <1>16 DEF vars
<1> QED  BY <1>11, <1>12, <1>13, <1>14, <1>15, <1>16 DEF Next

LEMMA GoesOnward ==
  ASSUME NetInv, [Next]_vars, NEW t \in Tasks, dial[t].state # "idle", dial'[t] # dial[t]
  PROVE  Onward(dial[t], dial'[t])
<1>0. DialStep /\ dial \in [Tasks -> Dials]
  BY DialSteps DEF NetInv, NetType, Dials, DialState
<1>1. CASE OneDials
  BY <1>0, <1>1 DEF OneDials
<1>2. ASSUME NEW p \in Peers, Dropped(p) PROVE Onward(dial[t], dial'[t])
  <2>1. /\ dial[t].state = "up" /\ dial'[t].state = "closed"
        /\ dial'[t].peer = dial[t].peer /\ dial'[t].addrs = dial[t].addrs
    BY <1>0, <1>2 DEF Dropped, Dials, DialState
  <2> QED  BY <2>1, DialRankIs DEF Onward
<1>3. ASSUME NEW u \in Tasks, HandshakeEnds(u) PROVE Onward(dial[t], dial'[t])
  <2>1. u = t
    BY <1>0, <1>3 DEF HandshakeEnds
  <2>2. /\ dial[t].state = "handshake" /\ dial'[t].state \in {"up", "closed"}
        /\ dial'[t].peer = dial[t].peer /\ dial'[t].addrs = dial[t].addrs
    BY <1>0, <1>3, <2>1 DEF HandshakeEnds, Dials, DialState
  <2> QED  BY <2>2, DialRankIs DEF Onward
<1> QED  BY <1>0, <1>1, <1>2, <1>3 DEF DialStep

(* A connect under way ends, or goes on with fewer addresses, or is        *)
(* further with the same, whatever happens meanwhile (cli.rs:735-767).     *)
THEOREM ConnectsGoForwardCorrect == Spec => ConnectsGoForward
<1>1. NetInv /\ FundInv /\ [Next]_vars =>
        [\A t \in Tasks : dial[t].state # "idle" /\ dial'[t] # dial[t] => Forward(t)]_vars
  BY GoesOnward DEF Onward, Forward
<1> QED  BY <1>1, Inductive, PTL DEF Spec, ConnectsGoForward

-----------------------------------------------------------------------------
(* disconnectpeer and the channels the node is opening.                    *)

(* The check of disconnectpeer stays true until it disconnects, for only   *)
(* the CLI asks for a channel.                                             *)
NoneOpening ==
  cli.cmd = "disconnect" => \A i \in Channels : Opening(i) => chan[i].peer # cli.peer

(* A channel that is being opened was so before, unless the CLI has just   *)
(* asked for it.                                                           *)
LEMMA OpeningNext ==
  ASSUME FundInv, [Next]_vars, ~open_channel, NEW i \in Channels, Opening(i)'
  PROVE  Opening(i) /\ chan'[i].peer = chan[i].peer
<1> DEFINE Was == Opening(i) /\ chan'[i].peer = chan[i].peer
<1> SUFFICES Was
  OBVIOUS
<1>0. chan \in [Channels -> [state : {"none", "gone"} \cup InHandshake \cup Funded,
                            peer : Peers \cup {None}]]
  BY DEF FundInv, FundingType
<1>1. CASE UNCHANGED chan
  BY <1>1 DEF Opening
<1>2. ASSUME NEW p, Dropped(p) PROVE Was
  BY <1>0, <1>2 DEF Dropped, Opening
<1>3. ASSUME NEW j, NEW st, SetState(j, st), st # "asked",
             st \in {"accepted", "created"} => chan[j].state \in {"asked", "accepted"}
      PROVE  Was
  <2>1. CASE i = j
    <3>1. chan'[i].state = st /\ chan'[i].peer = chan[i].peer
      BY <1>0, <1>3, <2>1 DEF SetState
    <3> QED  BY <1>3, <2>1, <3>1 DEF Opening
  <2>2. CASE i # j
    BY <1>0, <1>3, <2>2 DEF SetState, Opening
  <2> QED  BY <2>1, <2>2
<1>4. ASSUME NEW j \in Channels, AcceptChannel(j) PROVE Was
  BY <1>3, <1>4 DEF AcceptChannel
<1>5. ASSUME NEW j \in Channels, NEW p \in Peers, OfferChannel(j, p) PROVE Was
  BY <1>0, <1>5 DEF OfferChannel, Opening
<1>6. CASE OpenChannelRequest
  BY <1>1, <1>3, <1>6 DEF OpenChannelRequest
<1>7. CASE funding_transaction_generated
  BY <1>1, <1>3, <1>7 DEF funding_transaction_generated
<1>8. ASSUME NEW j \in Channels,
             FundingSigned(j) \/ ChannelReady(j) \/ ChannelEnds(j)
               \/ closechannel(j) \/ forceclosechannel(j)
      PROVE  Was
  <2>1. PICK st \in {"pending", "ready", "closing", "gone"} : SetState(j, st)
    BY <1>8 DEF FundingSigned, ChannelReady, ChannelEnds, closechannel, forceclosechannel
  <2> QED  BY <1>3, <2>1
<1>9. CASE Peer
  BY <1>1, <1>2, <1>9 DEF Peer, ComeOnline, GoOffline, setup_inbound, Disconnected
<1>10. CASE Connecting
  BY <1>1, <1>10 DEF Connecting, CheckPeer, connect_outbound, HandshakeEnds, Wait, Tick, Reconnect
<1>11. CASE Command
  BY <1>1, <1>2, <1>8, <1>11
     DEF Command, connectpeer, openchannel, disconnectpeer, disconnect_by_node_id
<1>12. CASE Ldk
  BY <1>4, <1>5, <1>8, <1>12 DEF Ldk
<1>13. CASE Handler
  BY <1>1, <1>6, <1>7, <1>13 DEF Handler, FundingGenerationReady, fund_raw_transaction,
     sign_raw_transaction_with_wallet, broadcast_transactions, WalletSpends, ConnectionNeeded
<1>14. CASE UNCHANGED vars
  BY <1>1, <1>14 DEF vars
<1> QED  BY <1>9, <1>10, <1>11, <1>12, <1>13, <1>14 DEF Next

(* Only the command itself gets the CLI between its two halves.            *)
LEMMA DisconnectBegins ==
  ASSUME NetInv, [Next]_vars, cli'.cmd = "disconnect"
  PROVE  UNCHANGED cli \/ \E p \in Peers : disconnectpeer(p)
<1>0. cli \in [cmd : {"none", "connectpeer", "openchannel", "create", "disconnect"},
              peer : Peers \cup {None}]
  BY DEF NetInv, NetType
<1>1. ASSUME NEW t, NEW ok, Ended(t, ok) PROVE UNCHANGED cli
  BY <1>0, <1>1 DEF Ended, NoCommand
<1>2. CASE Peer
  BY <1>2 DEF Peer, ComeOnline, GoOffline, setup_inbound, Disconnected
<1>3. CASE Connecting
  BY <1>1, <1>3 DEF Connecting, CheckPeer, connect_outbound, HandshakeEnds, Wait, SeePeer, Tick, Reconnect
<1>4. CASE Command
  <2>1. ASSUME NEW p \in Peers, NEW a, connectpeer(p, a) \/ openchannel(p, a) PROVE FALSE
    BY <2>1 DEF connectpeer, openchannel
  <2>2. CASE open_channel \/ disconnect_by_node_id
    BY <2>2 DEF open_channel, disconnect_by_node_id, NoCommand
  <2>3. ASSUME NEW i \in Channels, closechannel(i) \/ forceclosechannel(i) PROVE UNCHANGED cli
    BY <2>3 DEF closechannel, forceclosechannel, net
  <2> QED  BY <1>4, <2>1, <2>2, <2>3 DEF Command
<1>5. CASE Ldk
  BY <1>5 DEF Ldk, AcceptChannel, OfferChannel, FundingSigned, ChannelReady, ChannelEnds, net
<1>6. CASE Handler
  BY <1>6 DEF Handler, FundingGenerationReady, OpenChannelRequest,
     fund_raw_transaction, sign_raw_transaction_with_wallet, funding_transaction_generated,
     broadcast_transactions, WalletSpends, ConnectionNeeded, net
<1>7. CASE UNCHANGED vars
  BY <1>7 DEF vars
<1> QED  BY <1>2, <1>3, <1>4, <1>5, <1>6, <1>7 DEF Next

LEMMA NoneOpeningNext == NetInv /\ FundInv /\ NoneOpening /\ [Next]_vars => NoneOpening'
<1> SUFFICES ASSUME NetInv, FundInv, NoneOpening, [Next]_vars, cli'.cmd = "disconnect",
                    NEW i \in Channels, Opening(i)'
             PROVE  chan'[i].peer # cli'.peer
  BY DEF NoneOpening
<1>1. ~open_channel
  BY DEF open_channel, NoCommand
<1>2. Opening(i) /\ chan'[i].peer = chan[i].peer
  BY <1>1, OpeningNext
<1>3. CASE UNCHANGED cli
  BY <1>2, <1>3 DEF NoneOpening
<1>4. ASSUME NEW p \in Peers, disconnectpeer(p) PROVE chan'[i].peer # cli'.peer
  <2>1. Listed(i) /\ ~HasChannel(p) /\ cli'.peer = p
    BY <1>2, <1>4 DEF Opening, Listed, InHandshake, disconnectpeer
  <2> QED  BY <1>2, <2>1 DEF HasChannel
<1> QED  BY <1>3, <1>4, DisconnectBegins

(* disconnectpeer disconnects later than it looked for channels, but never *)
(* takes one the node is opening, whatever the peers and the handler do in *)
(* between (cli.rs:769-789).                                               *)
THEOREM DisconnectSparesOpeningCorrect == Spec => DisconnectSparesOpening
<1>1. Init => NoneOpening
  BY DEF Init, NoneOpening, NoCommand
<1>2. NetInv /\ FundInv /\ NoneOpening /\ [Next]_vars =>
        [disconnect_by_node_id => \A i \in Channels : Opening(i) => chan'[i] = chan[i]]_vars
  <2> SUFFICES ASSUME FundInv, NoneOpening, disconnect_by_node_id,
                      NEW i \in Channels, Opening(i)
               PROVE  chan'[i] = chan[i]
    OBVIOUS
  <2>1. chan[i].peer # cli.peer
    BY DEF NoneOpening, disconnect_by_node_id
  <2> QED  BY <2>1 DEF disconnect_by_node_id, Dropped, FundInv, FundingType
<1> QED  BY <1>1, <1>2, Inductive, NoneOpeningNext, PTL DEF Spec, DisconnectSparesOpening

-----------------------------------------------------------------------------
(* The coins: the refinement of CoinUse.                                   *)

Early == {"none", "asked", "accepted"}

(* A channel that has not been given a transaction has none, and has no    *)
(* way back to where it would be given another.                            *)
Unfunded == \A i \in Channels : chan[i].state \in Early => tx[i] = None

LEMMA EarlyNext ==
  ASSUME FundInv, [Next]_vars, NEW i \in Channels, chan'[i].state \in Early
  PROVE  chan[i].state \in Early
<1>0. chan \in [Channels -> [state : {"none", "gone"} \cup InHandshake \cup Funded,
                            peer : Peers \cup {None}]]
  BY DEF FundInv, FundingType
<1>1. CASE UNCHANGED chan
  BY <1>1
<1>2. ASSUME NEW p, Dropped(p) PROVE chan[i].state \in Early
  BY <1>0, <1>2 DEF Dropped, Early
<1>3. ASSUME NEW j \in Channels, NEW st, st \notin Early, SetState(j, st)
      PROVE  chan[i].state \in Early
  BY <1>0, <1>3 DEF SetState
<1>4. CASE open_channel
  BY <1>0, <1>4 DEF open_channel, Fresh, Early
<1>5. ASSUME NEW j \in Channels, AcceptChannel(j) PROVE chan[i].state \in Early
  BY <1>0, <1>5 DEF AcceptChannel, SetState, Early
<1>6. ASSUME NEW j \in Channels, NEW p \in Peers, OfferChannel(j, p) PROVE chan[i].state \in Early
  BY <1>0, <1>6 DEF OfferChannel, Early
<1>7. CASE OpenChannelRequest
  BY <1>0, <1>7 DEF OpenChannelRequest, SetState, Early
<1>8. CASE funding_transaction_generated
  BY <1>0, <1>8 DEF funding_transaction_generated, SetState, Early
<1>9. ASSUME NEW j \in Channels,
             FundingSigned(j) \/ ChannelReady(j) \/ ChannelEnds(j)
               \/ closechannel(j) \/ forceclosechannel(j)
      PROVE  chan[i].state \in Early
  <2>1. PICK st \in {"pending", "ready", "closing", "gone"} : SetState(j, st)
    BY <1>9 DEF FundingSigned, ChannelReady, ChannelEnds, closechannel, forceclosechannel
  <2>2. st \notin Early
    BY DEF Early
  <2> QED  BY <1>3, <2>1, <2>2
<1>10. CASE Peer
  BY <1>1, <1>2, <1>10 DEF Peer, ComeOnline, GoOffline, setup_inbound, Disconnected
<1>11. CASE Connecting
  BY <1>1, <1>11 DEF Connecting, CheckPeer, connect_outbound, HandshakeEnds, Wait, Tick, Reconnect
<1>12. CASE Command
  BY <1>1, <1>2, <1>4, <1>9, <1>12
     DEF Command, connectpeer, openchannel, disconnectpeer, disconnect_by_node_id
<1>13. CASE Ldk
  BY <1>5, <1>6, <1>9, <1>13 DEF Ldk
<1>14. CASE Handler
  BY <1>1, <1>7, <1>8, <1>14 DEF Handler, FundingGenerationReady, fund_raw_transaction,
     sign_raw_transaction_with_wallet, broadcast_transactions, WalletSpends, ConnectionNeeded
<1>15. CASE UNCHANGED vars
  BY <1>1, <1>15 DEF vars
<1> QED  BY <1>10, <1>11, <1>12, <1>13, <1>14, <1>15 DEF Next

(* A step is one of the wallet, of the signatures, or of neither.          *)
CoinStep ==
  \/ UNCHANGED <<tx, signed, spender>>
  \/ funding_transaction_generated
  \/ \E i \in Channels : FundingSigned(i) \/ broadcast_transactions(i)
  \/ \E c \in Coins : WalletSpends(c)

LEMMA CoinSteps == [Next]_vars => CoinStep
<1> SUFFICES ASSUME [Next]_vars PROVE CoinStep
  OBVIOUS
<1> USE DEF CoinStep
<1>1. CASE UNCHANGED funding
  BY <1>1 DEF funding
<1>2. CASE Peer
  BY <1>1, <1>2 DEF Peer, ComeOnline, GoOffline, setup_inbound, Disconnected
<1>3. CASE Connecting
  BY <1>1, <1>3 DEF Connecting, CheckPeer, connect_outbound, HandshakeEnds, Wait, Tick, Reconnect
<1>4. CASE Command
  BY <1>1, <1>4 DEF Command, connectpeer, openchannel, disconnectpeer, open_channel,
     disconnect_by_node_id, closechannel, forceclosechannel
<1>5. CASE Ldk
  BY <1>1, <1>5 DEF Ldk, AcceptChannel, OfferChannel, ChannelReady, ChannelEnds
<1>6. CASE Handler
  BY <1>1, <1>6 DEF Handler, FundingGenerationReady, OpenChannelRequest, fund_raw_transaction,
     sign_raw_transaction_with_wallet, ConnectionNeeded
<1>7. CASE UNCHANGED vars
  BY <1>1, <1>7 DEF vars, funding
<1> QED  BY <1>2, <1>3, <1>4, <1>5, <1>6, <1>7 DEF Next

LEMMA UnfundedNext == FundInv /\ Unfunded /\ [Next]_vars => Unfunded'
<1> SUFFICES ASSUME FundInv, Unfunded, [Next]_vars, NEW i \in Channels, chan'[i].state \in Early
             PROVE  tx'[i] = None
  BY DEF Unfunded
<1>1. chan[i].state \in Early /\ tx[i] = None
  BY EarlyNext DEF Unfunded
<1>2. CASE UNCHANGED tx
  BY <1>1, <1>2
<1>3. CASE funding_transaction_generated
  <2>1. i # handler.channel \/ chan[i].state # "accepted"
    BY <1>3 DEF funding_transaction_generated, SetState, FundInv, FundingType, Early
  <2>2. tx'[i] = tx[i]
    BY <1>3, <2>1 DEF funding_transaction_generated, FundInv, FundingType
  <2> QED  BY <1>1, <2>2
<1> QED  BY <1>2, <1>3, CoinSteps DEF CoinStep, FundingSigned, broadcast_transactions, WalletSpends

LEMMA CoinUseStep ==
  ASSUME FundInv, Unfunded, [Next]_vars
  PROVE  Wallet!Next \/ UNCHANGED <<tx, signed, spender>>
<1>1. CASE funding_transaction_generated
  <2> DEFINE i == handler.channel
  <2>1. i \in Channels /\ handler.coin \in Coins /\ UNCHANGED <<signed, spender>>
    BY <1>1 DEF funding_transaction_generated, FundInv, HandlerOK
  <2>2. CASE chan[i].state = "accepted"
    <3>1. tx[i] = None /\ tx' = [tx EXCEPT ![i] = handler.coin]
      BY <1>1, <2>1, <2>2 DEF funding_transaction_generated, Unfunded, Early
    <3> QED  BY <2>1, <3>1 DEF Wallet!Next, Wallet!Make
  <2>3. CASE chan[i].state # "accepted"
    BY <1>1, <2>1, <2>3 DEF funding_transaction_generated
  <2> QED  BY <2>2, <2>3
<1>2. ASSUME NEW i \in Channels, FundingSigned(i) PROVE Wallet!Next
  <2>1. tx[i] \in Coins /\ i \notin signed
    BY <1>2 DEF FundingSigned, FundInv, TxOK, Funded
  <2>2. Wallet!Sign(i)
    BY <1>2, <2>1, NoneAssumption DEF FundingSigned, Wallet!Sign
  <2> QED  BY <2>2 DEF Wallet!Next
<1>3. ASSUME NEW i \in Channels, broadcast_transactions(i)
      PROVE  Wallet!Next \/ UNCHANGED <<tx, signed, spender>>
  <2>1. i \in signed /\ tx[i] \in Coins
    BY <1>3 DEF broadcast_transactions, FundInv, TxOK
  <2>2. CASE spender[tx[i]] = None
    <3>1. Wallet!Spend(tx[i], i)
      BY <1>3, <2>1, <2>2 DEF broadcast_transactions, Wallet!Spend
    <3> QED  BY <2>1, <3>1 DEF Wallet!Next
  <2>3. CASE spender[tx[i]] # None
    BY <1>3, <2>3 DEF broadcast_transactions
  <2> QED  BY <2>2, <2>3
<1>4. ASSUME NEW c \in Coins, WalletSpends(c) PROVE Wallet!Next
  <2>1. Wallet!Spend(c, Other)
    BY <1>4 DEF WalletSpends, Wallet!Spend
  <2> QED  BY <2>1 DEF Wallet!Next
<1> QED  BY <1>1, <1>2, <1>3, <1>4, CoinSteps DEF CoinStep

(* The node does with the coins of the wallet what CoinUse promises, for   *)
(* any number of channels that are funded at the same time                 *)
(* (main.rs:222-270, 549-552).                                             *)
THEOREM ImplementsCoinUseCorrect == Spec => ImplementsCoinUse
<1>1. Init => Unfunded /\ Wallet!Init
  BY DEF Init, Unfunded, Wallet!Init
<1>2. NetInv /\ FundInv /\ Unfunded /\ [Next]_vars => [Wallet!Next]_(Wallet!coinVars)
  BY CoinUseStep DEF Wallet!coinVars
<1> QED  BY <1>1, <1>2, Inductive, UnfundedNext, PTL DEF Spec, ImplementsCoinUse, Wallet!Spec
=============================================================================
