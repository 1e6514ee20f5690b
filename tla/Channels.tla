------------------------------- MODULE Channels -------------------------------
(***************************************************************************)
(* The node's peers and its channels: who is connected, and how a channel  *)
(* is opened, funded from bitcoind's wallet, and closed.                   *)
(*                                                                         *)
(* Three tasks connect to peers, each waiting for one connection at a time *)
(*   "cli"        connectpeer and openchannel,                             *)
(*   "reconnect"  to the peers the node has channels with, each second     *)
(*                (main.rs:1081-1126),                                     *)
(*   "needed"     spawned for Event::ConnectionNeeded (main.rs:563-575).   *)
(* LDK has one connection with a peer: a second one it closes.  The event  *)
(* handler takes one event at a time.  The flag that stops the tasks at    *)
(* the end is in Shutdown; what a crash does is in Startup.                *)
(***************************************************************************)
EXTENDS Naturals, Sequences

CONSTANTS
  Peers,
  Coins,       \* the outputs of bitcoind's wallet, each enough for a channel
  Announced,   \* of each peer: its addresses in the network graph
  Channels,    \* bound: the channels ever asked for
  None, Other

(* An address is where a peer listens ("good"), or where it does not.      *)
Addresses == {"good", "bad"}

ASSUME AnnouncedAssumption == Announced \in [Peers -> Seq(Addresses)]
ASSUME NoneAssumption ==
  /\ None \notin Peers \cup Coins \cup Channels \cup {Other}
  /\ Other \notin Channels

Tasks == {"cli", "reconnect", "needed"}

VARIABLES
  online,      \* external: the peers that answer
  connected,   \* peer_by_node_id
  dial,        \* what each task does: the state of its connection, the peer,
               \* and the addresses to try, the current one first
  todo,        \* the peers this round of "reconnect" has still to look at
  cli,         \* the command under way, and its peer
  chan,        \* LDK's channels
  events,      \* the events the handler has not seen
  handler,     \* the event under way, and the coin the wallet chose for it
  tx,          \* the coin of the funding transaction LDK has for a channel
  signed,      \* the channels whose peer signed the first commitment
  broadcasts,  \* tasks spawned by broadcast_transactions: funding transactions
  spender      \* external: the channel whose funding transaction spends a coin,
               \* or Other, who uses bitcoind's wallet too

vars == <<online, connected, dial, todo, cli, chan, events, handler, tx, signed, broadcasts, spender>>
net == <<online, connected, dial, todo, cli>>
funding == <<events, handler, tx, signed, broadcasts, spender>>

Idle == [state |-> "idle", peer |-> None, addrs |-> <<>>]
NoCommand == [cmd |-> "none", peer |-> None]
NoEvent == [pc |-> "idle", channel |-> None, coin |-> None]

Init ==
  /\ online \in SUBSET Peers
  /\ connected = {}
  /\ dial = [t \in Tasks |-> Idle]
  /\ todo = {}
  /\ cli = NoCommand
  /\ chan = [i \in Channels |-> [state |-> "none", peer |-> None]]
  /\ events = <<>>
  /\ handler = NoEvent
  /\ tx = [i \in Channels |-> None]
  /\ signed = {}
  /\ broadcasts = {}
  /\ spender = [c \in Coins |-> None]

Alive == handler.pc # "aborted"

(* Waiting for the peer's accept_channel, for the handler, for the peer's  *)
(* funding_signed, for its funding, for the chain; shutting down.          *)
InHandshake == {"asked", "accepted", "created", "offered", "theirs"}
Funded == {"pending", "ready", "closing"}

(* list_channels: a channel the handler has not accepted is not in it.     *)
Listed(i) == chan[i].state \in (InHandshake \ {"offered"}) \cup Funded
HasChannel(p) == \E i \in Channels : Listed(i) /\ chan[i].peer = p

(* Bound: one channel with a peer at a time.                               *)
Fresh(i, p) ==
  /\ chan[i].state = "none"
  /\ \A j \in Channels : chan[j].peer = p => chan[j].state = "gone"

SetState(i, s) == chan' = [chan EXCEPT ![i].state = s]
Online(i) == chan[i].peer \in online \cap connected

-----------------------------------------------------------------------------
(* External: the peers.                                                    *)
ComeOnline(p) ==
  /\ p \notin online
  /\ online' = online \cup {p}
  /\ UNCHANGED <<connected, dial, todo, cli, chan, funding>>

GoOffline(p) ==
  /\ p \in online
  /\ online' = online \ {p}
  /\ UNCHANGED <<connected, dial, todo, cli, chan, funding>>

(* LDK drops a connection: a task that waits for it sees it closed, and    *)
(* channels that are not funded are forgotten.                             *)
Dropped(p) ==
  /\ connected' = connected \ {p}
  /\ dial' = [t \in Tasks |->
       IF dial[t].state = "up" /\ dial[t].peer = p THEN [dial[t] EXCEPT !.state = "closed"] ELSE dial[t]]
  /\ chan' = [i \in Channels |->
       IF chan[i].peer = p /\ chan[i].state \in InHandshake
       THEN [chan[i] EXCEPT !.state = "gone"] ELSE chan[i]]

Disconnected(p) ==
  /\ Alive
  /\ p \in connected
  /\ Dropped(p)
  /\ UNCHANGED <<online, todo, cli, funding>>

(* The peer connects to the listener (main.rs:941-959).                    *)
setup_inbound(p) ==
  /\ Alive
  /\ p \in online \ connected
  /\ connected' = connected \cup {p}
  /\ UNCHANGED <<online, dial, todo, cli, chan, funding>>

-----------------------------------------------------------------------------
(* connect_peer_if_necessary and do_connect_peer (cli.rs:735-767).         *)

Checking(p, addrs) == [state |-> "checking", peer |-> p, addrs |-> addrs]
Dialing(p, addrs) == [state |-> "dialing", peer |-> p, addrs |-> addrs]

(* Faulty variant: after a failure the CLI does not take the next command. *)
EndedForGood(t, ok) ==
  /\ LET left == Tail(dial[t].addrs) IN
       dial' = [dial EXCEPT ![t] =
         IF left = <<>> \/ (t = "needed" /\ ok) THEN Idle
         ELSE [@ EXCEPT !.state = IF t = "reconnect" THEN "dialing" ELSE "checking", !.addrs = left]]
  /\ cli' = IF t = "cli" /\ ok
            THEN IF cli.cmd = "openchannel" THEN [cli EXCEPT !.cmd = "create"] ELSE NoCommand ELSE cli

(* Faulty variant: an address that fails is tried again.                   *)
EndedToRetry(t, ok) ==
  /\ LET left == IF ok THEN Tail(dial[t].addrs) ELSE dial[t].addrs IN
       dial' = [dial EXCEPT ![t] =
         IF left = <<>> \/ (t = "needed" /\ ok) THEN Idle
         ELSE [@ EXCEPT !.state = IF t = "reconnect" THEN "dialing" ELSE "checking", !.addrs = left]]
  /\ cli' = IF t # "cli" THEN cli
            ELSE IF ok /\ cli.cmd = "openchannel" THEN [cli EXCEPT !.cmd = "create"] ELSE NoCommand

(* The wait of a task ends.  "needed" stops at the first success,          *)
(* "reconnect" goes through all the addresses; openchannel goes on if the  *)
(* peer is connected.                                                      *)
Ended(t, ok) ==
  /\ LET left == Tail(dial[t].addrs) IN
       dial' = [dial EXCEPT ![t] =
         IF left = <<>> \/ (t = "needed" /\ ok) THEN Idle
         ELSE [@ EXCEPT !.state = IF t = "reconnect" THEN "dialing" ELSE "checking", !.addrs = left]]
  /\ cli' = IF t # "cli" THEN cli
            ELSE IF ok /\ cli.cmd = "openchannel" THEN [cli EXCEPT !.cmd = "create"] ELSE NoCommand

CheckPeer(t) ==
  /\ Alive
  /\ dial[t].state = "checking"
  /\ IF dial[t].peer \in connected
     THEN Ended(t, TRUE)
     ELSE dial' = [dial EXCEPT ![t].state = "dialing"] /\ UNCHANGED cli
  /\ UNCHANGED <<online, connected, todo, chan, funding>>

(* connect_outbound: no TCP connection, or LDK's handshake is begun.       *)
connect_outbound(t) ==
  /\ Alive
  /\ dial[t].state = "dialing"
  /\ IF dial[t].peer \in online /\ Head(dial[t].addrs) = "good"
     THEN dial' = [dial EXCEPT ![t].state = "handshake"] /\ UNCHANGED cli
     ELSE Ended(t, FALSE)
  /\ UNCHANGED <<online, connected, todo, chan, funding>>

(* External: it succeeds, unless the peer is gone or already connected.    *)
HandshakeEnds(t) ==
  /\ Alive
  /\ dial[t].state = "handshake"
  /\ LET p == dial[t].peer IN
       IF p \in online \ connected
       THEN dial' = [dial EXCEPT ![t].state = "up"] /\ connected' = connected \cup {p}
       ELSE dial' = [dial EXCEPT ![t].state = "closed"] /\ UNCHANGED connected
  /\ UNCHANGED <<online, todo, cli, chan, funding>>

(* The loop, every 10 ms: the connection is closed, or the peer is there,  *)
(* be it through this connection or another; if both, either is seen.      *)
SeePeer(t) ==
  /\ dial[t].state \in {"handshake", "up", "closed"}
  /\ dial[t].peer \in connected
  /\ Ended(t, TRUE)

(* Faulty variant: the loop looks for the peer only.                       *)
WaitForPeer(t) ==
  /\ Alive
  /\ SeePeer(t)
  /\ UNCHANGED <<online, connected, todo, chan, funding>>

Wait(t) ==
  /\ Alive
  /\ \/ SeePeer(t)
     \/ dial[t].state = "closed" /\ Ended(t, FALSE)
  /\ UNCHANGED <<online, connected, todo, chan, funding>>

-----------------------------------------------------------------------------
(* The reconnection of channel peers.                                      *)

(* list_channels, each second.                                             *)
Tick ==
  /\ Alive
  /\ dial["reconnect"] = Idle
  /\ todo = {}
  /\ todo' = {p \in Peers : HasChannel(p)}
  /\ UNCHANGED <<online, connected, dial, cli, chan, funding>>

(* Faulty variant: the first address of a node is the only one tried.      *)
ReconnectToFirst ==
  /\ Alive
  /\ dial["reconnect"] = Idle
  /\ \E p \in todo :
       /\ todo' = todo \ {p}
       /\ dial' = IF p \in connected \/ Announced[p] = <<>> THEN dial
                  ELSE [dial EXCEPT !["reconnect"] = Dialing(p, <<Head(Announced[p])>>)]
  /\ UNCHANGED <<online, connected, cli, chan, funding>>

(* The filter is evaluated when the loop reaches a peer, not at the tick.  *)
Reconnect ==
  /\ Alive
  /\ dial["reconnect"] = Idle
  /\ \E p \in todo :
       /\ todo' = todo \ {p}
       /\ dial' = IF p \in connected \/ Announced[p] = <<>> THEN dial
                  ELSE [dial EXCEPT !["reconnect"] = Dialing(p, Announced[p])]
  /\ UNCHANGED <<online, connected, cli, chan, funding>>

-----------------------------------------------------------------------------
(* The CLI, one command at a time.                                         *)

Prompt == Alive /\ cli = NoCommand

connectpeer(p, addr) ==
  /\ Prompt
  /\ cli' = [cmd |-> "connectpeer", peer |-> p]
  /\ dial' = [dial EXCEPT !["cli"] = Checking(p, <<addr>>)]
  /\ UNCHANGED <<online, connected, todo, chan, funding>>

(* With an address as connectpeer, without one only to a connected peer.   *)
openchannel(p, addr) ==
  /\ Prompt
  /\ IF addr = None
     THEN p \in connected /\ cli' = [cmd |-> "create", peer |-> p] /\ UNCHANGED dial
     ELSE /\ cli' = [cmd |-> "openchannel", peer |-> p]
          /\ dial' = [dial EXCEPT !["cli"] = Checking(p, <<addr>>)]
  /\ UNCHANGED <<online, connected, todo, chan, funding>>

(* create_channel, which LDK refuses if the peer has gone meanwhile, or    *)
(* for reasons of its own.                                                 *)
open_channel ==
  /\ Alive
  /\ cli.cmd = "create"
  /\ cli' = NoCommand
  /\ \/ UNCHANGED chan
     \/ /\ cli.peer \in connected
        /\ \E i \in Channels :
             /\ Fresh(i, cli.peer)
             /\ chan' = [chan EXCEPT ![i] = [state |-> "asked", peer |-> cli.peer]]
  /\ UNCHANGED <<online, connected, dial, todo, funding>>

(* Faulty variant: it does not look.                                       *)
disconnect_unchecked(p) ==
  /\ Prompt
  /\ cli' = [cmd |-> "disconnect", peer |-> p]
  /\ UNCHANGED <<online, connected, dial, todo, chan, funding>>

(* do_disconnect_peer looks for channels with the peer,                    *)
disconnectpeer(p) ==
  /\ Prompt
  /\ ~HasChannel(p)
  /\ cli' = [cmd |-> "disconnect", peer |-> p]
  /\ UNCHANGED <<online, connected, dial, todo, chan, funding>>

(* and then, if it is connected, disconnects it.                           *)
disconnect_by_node_id ==
  /\ Alive
  /\ cli.cmd = "disconnect"
  /\ cli' = NoCommand
  /\ IF cli.peer \in connected THEN Dropped(cli.peer) ELSE UNCHANGED <<connected, dial, chan>>
  /\ UNCHANGED <<online, todo, funding>>

(* An unfunded channel is closed at once.                                  *)
closechannel(i) ==
  /\ Prompt
  /\ Listed(i)
  /\ SetState(i, IF chan[i].state \in Funded THEN "closing" ELSE "gone")
  /\ UNCHANGED <<net, funding>>

forceclosechannel(i) ==
  /\ Prompt
  /\ Listed(i)
  /\ SetState(i, "gone")
  /\ UNCHANGED <<net, funding>>

-----------------------------------------------------------------------------
(* External: LDK and the peer.                                             *)

AcceptChannel(i) ==
  /\ Alive
  /\ chan[i].state = "asked"
  /\ Online(i)
  /\ SetState(i, "accepted")
  /\ events' = Append(events, [type |-> "FundingGenerationReady", channel |-> i])
  /\ UNCHANGED <<net, handler, tx, signed, broadcasts, spender>>

OfferChannel(i, p) ==
  /\ Alive
  /\ Fresh(i, p)
  /\ p \in online \cap connected
  /\ chan' = [chan EXCEPT ![i] = [state |-> "offered", peer |-> p]]
  /\ events' = Append(events, [type |-> "OpenChannelRequest", channel |-> i])
  /\ UNCHANGED <<net, handler, tx, signed, broadcasts, spender>>

(* LDK has the funding transaction broadcast once the commitment that      *)
(* takes the money back is signed.                                         *)
FundingSigned(i) ==
  /\ Alive
  /\ chan[i].state = "created"
  /\ Online(i)
  /\ SetState(i, "pending")
  /\ signed' = signed \cup {i}
  /\ broadcasts' = broadcasts \cup {i}
  /\ UNCHANGED <<net, events, handler, tx, spender>>

(* The funding is confirmed, the node's own or the peer's.                 *)
ChannelReady(i) ==
  /\ Alive
  /\ \/ chan[i].state = "pending" /\ spender[tx[i]] = i
     \/ chan[i].state = "theirs" /\ Online(i)
  /\ SetState(i, "ready")
  /\ UNCHANGED <<net, funding>>

(* Refused or closed by the peer, or a closing that is complete.           *)
ChannelEnds(i) ==
  /\ Alive
  /\ chan[i].state \in InHandshake \cup Funded
  /\ Online(i)
  /\ SetState(i, "gone")
  /\ UNCHANGED <<net, funding>>

-----------------------------------------------------------------------------
(* handle_ldk_events.                                                      *)

(* The next event, and for FundingGenerationReady createrawtransaction.    *)
FundingGenerationReady ==
  /\ handler.pc = "idle"
  /\ events # <<>>
  /\ Head(events).type = "FundingGenerationReady"
  /\ handler' = [pc |-> "fund", channel |-> Head(events).channel, coin |-> None]
  /\ events' = Tail(events)
  /\ UNCHANGED <<net, chan, tx, signed, broadcasts, spender>>

(* accept_inbound_channel, an error if the channel is gone.                *)
OpenChannelRequest ==
  /\ handler.pc = "idle"
  /\ events # <<>>
  /\ Head(events).type = "OpenChannelRequest"
  /\ LET i == Head(events).channel IN
       IF chan[i].state = "offered" THEN SetState(i, "theirs") ELSE UNCHANGED chan
  /\ events' = Tail(events)
  /\ UNCHANGED <<net, handler, tx, signed, broadcasts, spender>>

(* fundrawtransaction: any coin that nothing in the mempool spends, also   *)
(* one that was chosen before for a channel not broadcast yet.  Without    *)
(* one the unwrap ends the process.                                        *)
fund_raw_transaction ==
  /\ handler.pc = "fund"
  /\ LET free == {c \in Coins : spender[c] = None} IN
       \/ \E c \in free : handler' = [handler EXCEPT !.pc = "sign", !.coin = c]
       \/ free = {} /\ handler' = [handler EXCEPT !.pc = "aborted"]
  /\ UNCHANGED <<net, chan, events, tx, signed, broadcasts, spender>>

(* signrawtransactionwithwallet is not complete if the coin was spent.     *)
sign_raw_transaction_with_wallet ==
  /\ handler.pc = "sign"
  /\ \/ handler' = [handler EXCEPT !.pc = "give"]
     \/ spender[handler.coin] # None /\ handler' = [handler EXCEPT !.pc = "aborted"]
  /\ UNCHANGED <<net, chan, events, tx, signed, broadcasts, spender>>

(* Faulty variant: the handler has the transaction broadcast itself.       *)
GiveAndBroadcast ==
  /\ handler.pc = "give"
  /\ LET i == handler.channel IN
       /\ broadcasts' = broadcasts \cup {i}
       /\ tx' = [tx EXCEPT ![i] = handler.coin]
       /\ IF chan[i].state = "accepted" THEN SetState(i, "created") ELSE UNCHANGED chan
  /\ handler' = NoEvent
  /\ UNCHANGED <<net, events, signed, spender>>

(* An error if the channel went away meanwhile.                            *)
funding_transaction_generated ==
  /\ handler.pc = "give"
  /\ LET i == handler.channel IN
       IF chan[i].state = "accepted"
       THEN SetState(i, "created") /\ tx' = [tx EXCEPT ![i] = handler.coin]
       ELSE UNCHANGED <<chan, tx>>
  /\ handler' = NoEvent
  /\ UNCHANGED <<net, events, signed, broadcasts, spender>>

(* Faulty variant: a transaction replaces another that spends its coin.    *)
BroadcastOver(i) ==
  /\ Alive
  /\ i \in broadcasts
  /\ broadcasts' = broadcasts \ {i}
  /\ spender' = [spender EXCEPT ![tx[i]] = i]
  /\ UNCHANGED <<net, chan, events, handler, tx, signed>>

(* The task spawned by broadcast_transactions: bitcoind refuses a          *)
(* transaction whose coin is spent, and the error is logged.               *)
broadcast_transactions(i) ==
  /\ Alive
  /\ i \in broadcasts
  /\ broadcasts' = broadcasts \ {i}
  /\ spender' = IF spender[tx[i]] = None THEN [spender EXCEPT ![tx[i]] = i] ELSE spender
  /\ UNCHANGED <<net, chan, events, handler, tx, signed>>

(* External: the operator spends from the wallet.                          *)
WalletSpends(c) ==
  /\ spender[c] = None
  /\ spender' = [spender EXCEPT ![c] = Other]
  /\ UNCHANGED <<net, chan, events, handler, tx, signed, broadcasts>>

(* A task is spawned; the bound is one at a time.                          *)
ConnectionNeeded(p, addrs) ==
  /\ handler.pc = "idle"
  /\ dial["needed"] = Idle
  /\ dial' = [dial EXCEPT !["needed"] = Checking(p, addrs)]
  /\ UNCHANGED <<online, connected, todo, cli, chan, funding>>

-----------------------------------------------------------------------------
Peer ==
  \E p \in Peers : ComeOnline(p) \/ GoOffline(p) \/ Disconnected(p) \/ setup_inbound(p)

Connecting ==
  \/ \E t \in Tasks : CheckPeer(t) \/ connect_outbound(t) \/ HandshakeEnds(t) \/ Wait(t)
  \/ Tick
  \/ Reconnect

Command ==
  \/ \E p \in Peers :
       \/ \E a \in Addresses : connectpeer(p, a)
       \/ \E a \in Addresses \cup {None} : openchannel(p, a)
       \/ disconnectpeer(p)
  \/ open_channel
  \/ disconnect_by_node_id
  \/ \E i \in Channels : closechannel(i) \/ forceclosechannel(i)

Ldk ==
  \E i \in Channels :
    \/ AcceptChannel(i) \/ FundingSigned(i) \/ ChannelReady(i) \/ ChannelEnds(i)
    \/ \E p \in Peers : OfferChannel(i, p)

Handler ==
  \/ FundingGenerationReady
  \/ fund_raw_transaction
  \/ sign_raw_transaction_with_wallet
  \/ funding_transaction_generated
  \/ OpenChannelRequest
  \/ \E i \in Channels : broadcast_transactions(i)
  \/ \E c \in Coins : WalletSpends(c)
  \/ \E p \in Peers, a \in Addresses : ConnectionNeeded(p, <<a, "good">>)

Next == Peer \/ Connecting \/ Command \/ Ldk \/ Handler

Spec == Init /\ [][Next]_vars

(* Every task goes on, and a handshake ends: LDK closes one that does not. *)
FairSpec ==
  /\ Spec
  /\ \A t \in Tasks :
       /\ WF_vars(CheckPeer(t))
       /\ WF_vars(connect_outbound(t))
       /\ WF_vars(HandshakeEnds(t))
       /\ WF_vars(Wait(t))
  /\ WF_vars(Tick)
  /\ WF_vars(Reconnect)

-----------------------------------------------------------------------------
NetType ==
  /\ online \subseteq Peers
  /\ connected \subseteq Peers
  /\ dial \in [Tasks -> [state : {"idle", "checking", "dialing", "handshake", "up", "closed"},
                         peer : Peers \cup {None}, addrs : Seq(Addresses)]]
  /\ todo \subseteq Peers
  /\ cli \in [cmd : {"none", "connectpeer", "openchannel", "create", "disconnect"},
              peer : Peers \cup {None}]

FundingType ==
  /\ chan \in [Channels -> [state : {"none", "gone"} \cup InHandshake \cup Funded,
                            peer : Peers \cup {None}]]
  /\ events \in Seq([type : {"FundingGenerationReady", "OpenChannelRequest"}, channel : Channels])
  /\ handler \in [pc : {"idle", "fund", "sign", "give", "aborted"},
                  channel : Channels \cup {None}, coin : Coins \cup {None}]
  /\ tx \in [Channels -> Coins \cup {None}]
  /\ signed \subseteq Channels
  /\ broadcasts \subseteq Channels
  /\ spender \in [Coins -> Channels \cup {None, Other}]

(* A task has a peer and addresses to try while it connects, and the CLI   *)
(* reads no command while it does.                                         *)
Busy ==
  /\ \A t \in Tasks : dial[t].state # "idle" => dial[t].addrs # <<>> /\ dial[t].peer \in Peers
  /\ dial["cli"].state # "idle" <=> cli.cmd \in {"connectpeer", "openchannel"}
  /\ cli.cmd # "none" => cli.peer \in Peers

TypeOK == NetType /\ FundingType /\ Busy

(* A coin of the wallet is spent only by the funding transaction LDK has   *)
(* for a channel, and not before the peer signed the commitment that gives *)
(* it back, whatever becomes of the channel while the handler waits for    *)
(* the wallet (main.rs:222-270) and whatever other channel was given the   *)
(* same coin, for none is locked (main.rs:549-552).                        *)
FundsAreSafe ==
  \A c \in Coins : spender[c] \in Channels => spender[c] \in signed /\ tx[spender[c]] = c

(* Seen from the wallet: a channel gets one funding transaction, whatever  *)
(* commands, peers and events overlap; it is never replaced, and a coin    *)
(* that is spent stays spent by the same transaction, also when two        *)
(* channels were given the same coin (main.rs:222-270, 549-552).           *)
Wallet == INSTANCE CoinUse

ImplementsCoinUse == Wallet!Spec

(* What a task does at an address, in the order of the code.               *)
DialRank(state) ==
  CASE state = "idle"      -> 0
    [] state = "checking"  -> 1
    [] state = "dialing"   -> 2
    [] state = "handshake" -> 3
    [] state = "up"        -> 4
    [] state = "closed"    -> 5

(* A connect that is under way only goes forward: it ends, or goes on with *)
(* fewer addresses of the same peer, or is further with the same address,  *)
(* whatever the other tasks, the commands and the peers do to it           *)
(* (cli.rs:735-767, main.rs:1090-1126).                                    *)
Forward(t) ==
  \/ dial'[t].state = "idle"
  \/ /\ dial'[t].peer = dial[t].peer
     /\ Len(dial'[t].addrs) < Len(dial[t].addrs)
  \/ /\ dial'[t].peer = dial[t].peer
     /\ dial'[t].addrs = dial[t].addrs
     /\ DialRank(dial'[t].state) > DialRank(dial[t].state)

ConnectsGoForward ==
  [][\A t \in Tasks : dial[t].state # "idle" /\ dial'[t] # dial[t] => Forward(t)]_vars

Opening(i) == chan[i].state \in {"asked", "accepted", "created"}

(* disconnectpeer looks for channels with the peer and disconnects it      *)
(* later, and LDK forgets the channels that are not funded.  What the peer *)
(* offered in between may go, but never a channel the node itself is       *)
(* opening, with the coin the handler may be asking the wallet for at that *)
(* moment (cli.rs:769-789, main.rs:222-270).                               *)
DisconnectSparesOpening ==
  [][disconnect_by_node_id => \A i \in Channels : Opening(i) => chan'[i] = chan[i]]_vars

(* A connect ends with an answer, also when the connection is closed, the  *)
(* peer leaves, or another task connects to it (cli.rs:748-767).           *)
ConnectAnswers ==
  \A t \in Tasks : dial[t].state # "idle" ~> dial[t].state = "idle" \/ ~Alive

(* A peer that announced an address where it listens, that answers from    *)
(* some time on, and with which the node has a funded channel, is          *)
(* connected again and again, whatever the commands, the peer and the      *)
(* other connects do meanwhile: disconnectpeer may disconnect it in spite  *)
(* of the channel (cli.rs:774), and the other addresses and peers of the   *)
(* round come first (main.rs:1081-1126).                                   *)
ChannelPeersReturn ==
  \A p \in Peers : "good" \in {Announced[p][k] : k \in DOMAIN Announced[p]} =>
    (<>[](Alive /\ p \in online /\ \E i \in Channels : chan[i].state \in Funded /\ chan[i].peer = p)
       => []<>(p \in connected))
=============================================================================
