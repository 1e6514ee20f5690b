# ldk-sample in TLA+

`ldk-sample` is a Lightning node built on LDK: `src/src/` wires LDK's objects to a bitcoind, to files
and to a command line. LDK itself does the protocol. What is this program's own is the order in which
it reads and writes its files, what its tasks do to the state they share, and how it starts and stops;
that is what is modelled here. LDK, the `FilesystemStore` and bitcoind are libraries and services: they
appear as the contract the code in `src/` relies on, and are marked *external* in the modules.

Paths below are relative to the repository: `main.rs` is `src/main.rs`, and so on.

## 1. The system

One tokio runtime; `panic = "abort"` in both profiles of `Cargo.toml`, so a failed `unwrap`, `expect`
or assertion in any task ends the process. The tasks, all started by `start_ldk`:

| task | code | what it does |
| --- | --- | --- |
| main | `main.rs:582-1219, 1221-1248` | starts everything, waits for quit or for the end of the background processor, shuts down; the runtime is dropped when it returns |
| background processor | `main.rs:1054-1078` | LDK: calls the event handler with one event at a time, persists the channel manager |
| CLI | `cli.rs:50-570`, `main.rs:1161-1175` | one command at a time, each run to its end |
| listener, reconnection, `ConnectionNeeded` tasks | `main.rs:943-959, 1081-1127, 563-575` | connect to peers |
| chain poll | `main.rs:967-977` | new blocks to the listeners, every second |
| fee poll | `bitcoind_client.rs:122-230` | eight fee estimates, every minute |
| sweep migration | `sweep.rs`, `main.rs:1153-1159` | once at each start |
| announcements | `main.rs:1129-1151` | hourly |

### Inventory

| component | state | operations | interacts with | hard behaviour | what makes it correct | module |
| --- | --- | --- | --- | --- | --- | --- |
| outbound payments | mutex-protected map, file `outbound_payments` | `sendpayment` (invoice, offer, name), `keysend`; `PaymentSent`, `PaymentFailed`; the loop at a start | CLI, event handler, main, LDK | two tasks encode one map and write one file; crashes between insertion, payment, event and write; a start that guesses outcomes | LDK never works on a payment the file does not have; an outcome that was handled is in the file and stays; a failed payment is dead; nothing is pending for ever | `OutboundPayments` |
| inbound payments | mutex-protected map, file `inbound_payments` | `getinvoice`; `PaymentClaimable`, `PaymentClaimed` | CLI, event handler, LDK, payers | an invoice is payable before its entry exists or is durable; replayed events | the file lists exactly the money that was claimed | `InboundPayments` |
| start | `keys_seed`, manager, sweeper, monitors, their best blocks | Steps 4 to 19 of `start_ldk`, the poll | bitcoind, LDK, disk | each file is at a block of its own after a crash; blocks arrive meanwhile; the seed is made in two steps | one seed for ever; every monitor watched; all listeners where the poll goes on | `Startup` |
| shutdown | `stop_listen_connect`, `bp_exit`, the tasks' ends | `select!`, disconnect, signal, wait, the drop of the runtime | CLI, background processor, chain poll, connecting tasks | check then act on the flag; who ends first; the signal while nobody listens; a read of stdin nobody ends; a poll that goes on | the node ends, with every change of peers, commands and events on disk | `Shutdown` |
| sweep migration | three directories, the sweeper | one function, a step per filesystem call | disk, `OutputSweeper` | interrupted anywhere and run again | no output is lost; a migration that ends is complete; it ends | `SweepMigration` |
| peer connections | LDK's peer set, the connections under way | `connectpeer`, `disconnectpeer`, listener, reconnection, `ConnectionNeeded` | LDK, CLI, event handler | three tasks connect to the same peers, which come, go and move; check, then disconnect | a connect ends with an answer; the peers of channels come back | `Channels` (`Shutdown` has the same tasks racing the end) |
| funding, closing | the event under way, the broadcasts spawned | `openchannel`, `FundingGenerationReady`, `OpenChannelRequest`, broadcast, closing commands | LDK, bitcoind's wallet | three awaits between the event and its answer; the channel or the coin may be gone; two fundings from one coin | no coin is spent before the peer has signed it back | `Channels` |
| fee estimates | eight atomics | poll, read | bitcoind, LDK | five answers, eight stores, read in between; `- 250`; an RPC that fails aborts | nothing below the floor; the eight agree in the end | `FeeEstimates` |
| the rest of the RPC client, conversions, arguments, hexadecimal, logger, scorer and graph files, announcements, listings | none, or a cache | pure functions or single calls | | | | not modelled |

`PROJECT.json` lists every component with its status, and every hazard with its line and the properties
that would catch it.

## 2. The modules

### KVStore and EventQueue: the two contracts

`KVStore` is one key of the `FilesystemStore`. `write(..)` takes its place in the order of the writes
when it is *called*; the future it returns does the work later. That is the contract the callers need:
they call `write` with the mutex of the map still held and await the future after its release
(`cli.rs:847-860`, `main.rs:345-369`). `IssueWrite` is the call, `FinishWrite` the end of the future,
which either replaces the file (`CommitWrite`) or finds a later write already there (`SkipWrite`). A
crash loses what was called and not finished (`LoseWrites`), so every outcome of a write interrupted
by a crash is there.

`EventQueue` is what LDK promises the handler: one event at a time, oldest first, dropped only when the
channel manager is persisted without it (`DropHandled`), hence replayed after a crash.

### PaymentLedger: what a ledger file promises

A record for each payment, and what really becomes of it (`fate`). A record is opened once and closed once,
with the truth; a payment the node itself makes is tried only while it is recorded as pending, hence never
before it is recorded and never again after it was recorded as failed. A write may change any number of
records, for the file is replaced whole. Both ledgers are shown to implement it (`Ledger`,
`ImplementsLedger`): the record is the file, `stored`, and the fate is LDK's `recent` or `htlc`; the map in
memory, the lock, the writes under way, the events and the crashes are what is hidden. Payments by offer
and by name are left out of the mapping, for they do not implement it: that is `stale_offer`.

`Truth` and `Finality` are what a reader of such a file may conclude: both follow from the promise itself
and so hold of whatever implements it.

### Custody, ChainView, CoinUse: three more promises

Each is what one component promises when its places, files, tasks and crashes are hidden.

* `Custody`: handing things over, if they are not with the new owner from the beginning. It takes all of
  them at once, only then does the old one let its copies go, and they never come back. `SweepMigration`
  implements it: held is what the three directories have between them, taken what the sweeper has made
  durable.
* `ChainView`: a node that is started and stopped. It comes up at a block that is not behind anything it
  stored, with exactly the stored channels watched, follows the chain, and stores nothing but the block
  where it is. `Startup` implements it: the node is at `tip` while `pc = "running"`, and 0 before that.
* `CoinUse`: the wallet's coins. A channel is given one funding transaction, for good; its commitment is
  signed for that transaction; only then may it spend its coin; a coin is spent once. `Channels`
  implements it (`Wallet`).

### OutboundPayments

| model | code |
| --- | --- |
| `payments`, `stored`, `writes` | the map, the file, the calls of `write` under way |
| `Start`, `FailUnknown`, `StartDone` | `main.rs:979-1009` |
| `SendPayment`, `Keysend` (insert and call `write` under the lock), `AwaitWrite`, `PayOk`, `PayErr`, `MarkFailed`, `AwaitFailedWrite` | `cli.rs:821-936` |
| `PayOffer`, `PayName` (insert), `EncodeOffer`, `WriteOffer` (each without the lock of the others) | `cli.rs:150-301` |
| `PaymentSent`, `PaymentFailed` (change and call `write` under the lock), `EventHandled` | `main.rs:338-370, 407-442` |
| `SendHtlc`, `Settle`, `GiveUp`, `Forget`, `PersistManager`, `Crash` | external: LDK, the end of the process |

An entry is its status; the preimage is written exactly when the status becomes `Succeeded`. `recent` is
what LDK knows of a payment: `registered` lives in the channel manager only, and a crash may lose it;
`inflight` and `fulfilled` are in the monitors too, and survive. `node = "starting"` is the part of
`start_ldk` in which LDK runs already and the ledger is not ready.

### InboundPayments

`CreateInvoice` and `InsertInvoice` are the two halves of `getinvoice`, with the map locked in between
(`MapIsFree`); `AwaitInvoice` is the end of its write. `PaymentClaimable` asks LDK to claim,
`PaymentClaimed` records, with an entry or without, and `ClaimHandled` awaits the write
(`main.rs:274-337`). `Pay`, `Expire` and `ClaimDone` are the payer's and LDK's side. `published` is what
was printed: from that moment anybody may pay, so an invoice whose entry a crash has lost can still be
paid.

### Startup

One action for each thing `start_ldk` reads or makes from the seed on (`main.rs:646-880`), then the
poll (`main.rs:967-977`). A block is its height. `disk` and `best` are the block of each listener on
disk and in memory; `PollAborts` is LDK's assertion that a block is connected to its parent. `NewBlock`
may come between any two steps.

### Shutdown

`Select`, `Disconnect`, `CheckClosed`, `SendExit` and `AwaitProcessor` are `main.rs:1177-1219` in order;
`DropRuntime` and `Exit` are the end of `#[tokio::main]` after it (`main.rs:1221-1222, 1247-1248`): tasks
are dropped where they await something, but the drop waits for threads, and tokio reads stdin on a thread
of its own. `cli` is therefore `"reading"` (the `next_line` of `cli.rs:66`), `"command"` or `"quit"`;
`ReadCommand`, `EndCommand` and `Quit` go between them. `StopProcessing` and `Persist` are the background
processor, which may fail at every write (`WriteManager`). A connecting task looks at
`stop_listen_connect` (`Check`) and connects later (`Connect`, `ConnectFails`), or returns (`Return`);
`late` remembers a peer that connected after `disconnect_all_peers`.

The channel manager is changed by peers, commands and events (`UpdateChannel`; `version` in memory,
`persisted` on disk) and by blocks (`ConnectBlock`; `height` and `stored`). The chain poll
(`main.rs:968-977`) watches no flag, so blocks are connected after the last write too.

### SweepMigration

`pc` walks through `migrate_deprecated_spendable_outputs`; `dirs` are the directories that exist, `files`
the outputs stored in each, `torn` a temporary file with half a descriptor, `sweeper` what the
`OutputSweeper` has made durable. `RemoveAll` is `fs::remove_dir_all`, one step for each output and one
for the directory, and an abort if there is none. `Init` is what older versions can have left, those that
died in the middle of a write or a move included: any outputs in any of the directories, any directory
empty or with nothing but a temporary file, half a descriptor in `spendable_outputs`; only that they made
the pending directory first and never removed it is assumed. Of these, `Manageable` are the ones the code
can deal with.

### Channels

Who is connected, and what that does to channels.

| model | code |
| --- | --- |
| `CheckPeer`, `connect_outbound`, `Wait`, `Ended` | `connect_peer_if_necessary` and the loop of `do_connect_peer`, for each task that connects (`cli.rs:735-767`) |
| `Tick`, `Reconnect` | the reconnection (`main.rs:1081-1126`): the channels are listed once a round, each peer is looked at when its turn comes |
| `ConnectionNeeded`, `setup_inbound` | the spawned task (`main.rs:563-576`), the listener (`main.rs:941-959`) |
| `connectpeer`, `openchannel` and `open_channel`, `disconnectpeer` and `disconnect_by_node_id`, `closechannel`, `forceclosechannel` | the commands; those that await are in two steps (`cli.rs:80-148, 423-546, 769-789`) |
| `FundingGenerationReady`, `fund_raw_transaction`, `sign_raw_transaction_with_wallet`, `funding_transaction_generated` | the handler through its awaits (`main.rs:222-270`) |
| `OpenChannelRequest`, `broadcast_transactions` | `main.rs:371-402`, the spawned task of `bitcoind_client.rs:325-362` |
| `HandshakeEnds`, `Dropped`, `AcceptChannel`, `OfferChannel`, `FundingSigned`, `ChannelReady`, `ChannelEnds`, `WalletSpends`, `ComeOnline`, `GoOffline` | external: LDK, the peers, the operator |

`dial[t]` is what task `t` waits for: a check, a TCP connection, LDK's handshake, an open or a closed
connection, with the addresses still to try. `chan[i].state` is as much of LDK's channel as decides what
the node may do with it. `spender` is what spends a coin of the wallet; a coin that was chosen is not
locked, as in the code. `handler.pc = "aborted"` is an `unwrap` that failed.

### FeeEstimates

`Ask` is one of the five questions of `poll_for_fee_estimates`, with the conversion and the floor
(`Estimate`, `SatPerKw` from `convert.rs`); `Store` one of the eight stores; `AskFails` an `unwrap`;
`Restart` a node that is started again with the defaults of `new`. `market` is what bitcoind would
answer, and may change between any two questions. Estimates are u32 (`Width`), and the subtraction wraps.

## 3. What the runs check

| run | question | bounds |
| --- | --- | --- |
| `locked_payments` | do payments by invoice and keysend keep every promise: `SentIsDurable`, `FailedIsDead`, `PendingIsTracked`, `FileCatchesUp`, `PaymentsResolve`; do they implement `PaymentLedger` (`ImplementsLedger`) | two invoices, one of them sent again, a keysend; three commands; two crashes |
| `offer_payments` | do the unlocked branches still write ahead (`WriteAhead`), and does the file never lose an entry (`EntriesStay`) | an invoice, two offers, a name; three commands; a crash |
| `stale_offer` (violation) | `SentIsDurable` with an offer | an invoice and an offer, no crash |
| `inbound_payments` | `ClaimIsDurable`, `HeldIsTracked`, `ReceivedIsFinal`, `HeldIsRecorded`; does the file implement `PaymentLedger` (`ImplementsLedger`) | two invoices, a keysend; a crash |
| `startup` | `SeedIsDurable`, `InStep`, `NoMonitorLeftOut`, `KeepsUp`; does the node implement `ChainView` (`ImplementsChainView`) | two channels, three blocks, two crashes |
| `shutdown` | `QuitPersists`, `NodeEnds` | three changes by peers, commands and events; a block |
| `late_connection` (violation) | `NoUpdateAfterStop` | one change, a block |
| `last_ditch` (violation) | `FailureIsLastDitch` | one change, a block |
| `migration` | `NothingLost`, `GoesForward`, `UninterruptedEnds`; does it implement `Custody` (`ImplementsCustody`) | three outputs, two crashes |
| `migration_crash` (violation) | `MigrationEnds` | one output, a crash |
| `channels` | `FundsAreSafe`, `ConnectsGoForward`, `DisconnectSparesOpening`, `ConnectAnswers`, `ChannelPeersReturn`; do the coins follow `CoinUse` (`ImplementsCoinUse`) | one peer that has moved, so that its first address is dead; one channel; one coin, which the operator may spend too |
| `fees` | `AboveFloor`, `CalmPollFollows`, `Follows` | three mempools: empty and without estimates, at the border of the floor, full; `Width` is 2^20 |

**Why the bounds are enough.** The payments interact through one map and one file: a stale write needs
one writer and one payment it overwrites, so two payments and a third that is sent again show every
pair of tasks (the CLI is one task and the handler another: never are more than two writes from them
under way). A second crash is what tests a start that was itself interrupted. In `Startup` two monitors
can be at different blocks, and three blocks make a file two behind, one behind or not behind. Three
outputs let each directory of the migration hold one, and two crashes interrupt the migration and its
repetition. In `Shutdown` a change before, during and after the last persistence is three, and the block comes
before or after it. In `Channels` three tasks
can connect to the one peer, while it leaves, returns or connects itself, and a command, its
disconnection and the handler meet in one channel; two channels that are given the same coin are a
matter of `FundsAreSafe` and `ImplementsCoinUse` only, which are proved for any number of them. The answers in `fees` are one
sat/kvB apart where rounding meets the floor; no answer reaches 2^20, the theorems are about any `Width`,
2^32 among them, and any answers. What is proved (section 5) does not depend on any of these numbers.

**Deadlock** is checked in `fees`, whose task never ends. Elsewhere it is not: the environment stops at its
bounds, an aborted node stops, and `Shutdown` is about stopping. That nothing gets stuck is said by the
liveness properties instead.

**Faulty variants.** Beside some actions stands a second form with the comment "Faulty variant": the
lock released too early, a write not awaited, a listener forgotten. No specification uses it; put in the
place of the action, it makes the property named in `PROJECT.json` fail, which shows that the property
speaks about that line of the code.

### Disagreements found

* `stale_offer` (`cli.rs:219`, and 285 for names): the map is encoded and written without the lock. A
  payment reported as sent is put back to pending in the file, and a start after LDK has forgotten it
  lists it as failed.
* `migration_crash` (`sweep.rs:96`): a crash between the last two removals, or in the middle of the
  write, makes every later start abort.
* `late_connection` (`main.rs:948`): a peer can connect after all peers were disconnected, and change a
  channel after the last persistence, which lines 1187-1188 mean to exclude. `QuitPersists` says how far
  it goes: with a disk that works, no other change of peers, commands or events is left off it. Blocks
  are: the chain poll is never stopped (`main.rs:968`), and what it connects after the last write is
  connected again by the next start (`InStep` in `Startup`). `NoUpdateAfterStop` leaves blocks out, so that
  the run shows the connection.
* `last_ditch` (`main.rs:1192`): the "last-ditch" persistence is not reached when the background
  processor fails to write, which is the case it is meant for.

Two more are not runs of their own; a property of a passing run says exactly where they are:

* The migration aborts at every start, without any crash, when older versions left a pending directory
  with no output in it (empty, or with only the temporary file of `sweep.rs:44-46`) and no
  `spendable_outputs` (`sweep.rs:96`), or half a descriptor (`sweep.rs:88`); an empty processing directory
  beside a pending one without outputs does the same at the second start. `UninterruptedEnds` says
  that an undisturbed migration ends if what it finds is `Manageable`, and never ends otherwise.
* "Exit if either CLI polling exits or the background processor exits" (`main.rs:1177-1178`): when the
  background processor ends first, `start_ldk` returns, but the CLI is usually reading stdin
  (`cli.rs:66`), and the drop of the runtime waits for that read. The process stays, with all its tasks
  gone, until the user presses Enter. `NodeEnds` says that it waits for nothing else (`AwaitsEnter`), and that
  a node that was told to quit always ends.

A crash between the creation and the writing of `keys_seed` (`main.rs:655`) leaves a short file, and
every later start fails the assertion of line 648. It is in `Startup`: `KeepsUp` promises that the node
comes up only when the seed is whole, and `SeedIsDurable` that nothing was stored under another one.

## 4. Fairness

* The runtime schedules every task: `WF` of the CLI's, the handler's, the start's and the shutdown's
  steps. Weak fairness is enough, for each step stays enabled until it is taken; only
  `PaymentClaimed` can be disabled again, by `getinvoice` taking the lock, and commands are finite in number.
* A supervisor starts the node again after it died: `WF` of `Start`. Without it nothing can be promised
  after a crash, and crashes are bounded.
* LDK resolves every payment it knows (`Settle` or `GiveUp`): HTLCs time out on chain, and requests for
  an invoice expire. Nothing is assumed of the user, of payers or of new blocks. LDK finishes a claim it
  has begun (`ClaimDone`).
* The tasks that connect are scheduled, the timer of the reconnection ticks (`WF` of `Tick`, `Reconnect`), and LDK
  ends every handshake: it closes one that takes too long (`WF` of `HandshakeEnds`). Nothing is assumed of
  peers: `ChannelPeersReturn` is about one that answers from some time on.
* The fee poll goes on (`WF` of `Ask`, which may fail, and of `Store`, `Sleep` and `Wake`). Nobody is
  obliged to start an aborted node again: `Follows` is about a node that stays up.
* The background processor is woken by its exit signal (`WF` of `StopProcessing`); that it *sees* it is
  in the model (`ExitSignalled`), not assumed. Nothing is assumed of the user: a line of input may never
  come, and then the read of stdin never ends.

## 5. What is proved

The theorems hold for every value of the constants under the assumptions the modules name
(`ConstantsAssumption`); there is no other assumption. All are safety properties of `Spec`, without fairness: invariants, properties of
steps, and the refinement of the four abstract specifications (`PaymentLedger` twice).

**`KVStore_proofs`** holds what both ledgers need of the store, whatever the map means. `Ordered(R, ..)`:
if each change of the map goes on from the one before in the sense of `R`, then so do the file, the
writes under way in the order of their calls, and the map, and this survives any write that ends, in
whatever order they end. `Carried(Good, .., w)`: a good value is in the file or in every write of task
`w` under way; it is in the file when `w` has awaited its write, though that write itself may have been
overtaken. `AtMostOne`: a task that awaits its writes has one at a time. `UpToDate`: the last write is
the map.

**`OutboundPayments_proofs`**, first part: `TypeCorrect`, and `WriteAheadCorrect`: LDK never works on a payment, nor
has an event to report about one, that a restart would not find in the file. `WriteAhead` is not inductive.
The invariant `WriteAheadInv` adds that the file, the writes and the map only gain entries (`EntriesKept`),
that no task runs in a node that is not up, that the CLI has at most one
write under way (`OneCliWrite`), and, for the command under way (`CommandEntry`), that its payment is
in the map, then in the write, and in the file by the time LDK is asked to pay. It covers the branches that
encode without the lock, and so shows that `stale_offer` loses outcomes but never payments; so does
`EntriesStayCorrect`, from the same invariant: no write and no restart takes an entry out of the file.

Second part, under `UnlockedIds = {}` (no offers and no names are paid; with them the claims are false):
`SentIsDurableCorrect`, `FailedIsDeadCorrect`, `PendingIsTrackedCorrect`, `FileCatchesUpCorrect`, and
`Implements`, the refinement of `PaymentLedger`. None of these is inductive alone, and they need one
another: a start fails what LDK does not know, which is right because what LDK has forgotten is in the
file; it is in the file because the handler awaited a write that carries it (`Recording`), and because
no later write was encoded from an older map (`Order`: an outcome is final); it is final because LDK
never reports the opposite of what is recorded (`Truth`) nor is asked again (`Command`, from
`WriteAhead`). `OutcomeInv` is their conjunction. `LedgerIsTrue` is what the refinement hands down: a
`PaymentLedger` has `Truth` and `Finality` (proved of the abstract specification alone), hence so has the
file. It tells what became of each payment, and no outcome in it is ever revised.

**`InboundPayments_proofs`**: `TypeCorrect`, `ClaimsAreDurable` (`ClaimIsDurable`), `ReceivedStays`
(`ReceivedIsFinal`) and `Implements` (`ImplementsLedger`). The invariant `ClaimInv` has the same parts: the order of the
writes, the truth of what is recorded, the write of the handler that carries its claim, and that
`getinvoice` cannot meet its own invoice received, for the map is locked meanwhile (`Locked`).
`HeldIsTrackedCorrect` stands on it: an HTLC is held only while its `PaymentClaimable` is still to be
handled, because a handler that returns has had the claim (`PaymentClaimable`) or had another event before
it (`Recording`), and a node that is down has handled nothing (`Down`). It is the safety half of
`HeldIsRecorded`. `LedgerIsTrue` hands `Truth` and `Finality` down to this file too.

**`Channels_proofs`**: `TypeCorrect`; `ConnectsGoForwardCorrect`; `DisconnectSparesOpeningCorrect`;
`FundsStaySafe`; `ImplementsCoinUseCorrect`. `NetInv` is the types with what the CLI awaits, and is enough for the tasks that
connect: `DialSteps` goes through every action once and lists what it can do to the task of each connect
(it begins one, goes on with its own, or closes it with the peer); that connects go forward follows from
that list. `NoneOpening` is what `disconnectpeer` has seen and what stays true until it disconnects: the
node has no channel half open with that peer, for only the CLI asks for one (`OpeningNext`), and it is busy
(`DisconnectBegins`).
`FundInv` adds to `FundsAreSafe` which transaction LDK has at each state of a channel (`TxOK`: only signed
channels are broadcast, and `tx` is set once) and where the handler is (`HandlerOK`). For `CoinUse` a
transaction must also be final: `Unfunded` says that a channel that could still be given one has none, and
that no step leads back there (`EarlyNext`).

**`FeeEstimates_proofs`**: `TypeCorrect` and `FloorHolds` (`AboveFloor`), for any answers of bitcoind and any width:
every estimate of a poll is at least 253 (`EstimateIsRate`), hence 250 can be taken away (`NoWrap`).
`CalmPollFollowsCorrect`: a poll in which bitcoind's answers stay the same leaves all eight estimates right,
and so does every later one while they still do. Its invariant `Calm` is about one mempool `m`: what was
asked is what `m` answers, what was stored so far follows from it, and a task that sleeps has stored all
eight. It holds from any beginning of a poll, hence after errors and mixed polls as well; `InOrder` says
that nothing of an earlier poll is in the one under way.

**`SweepMigration_proofs`**: `TypeCorrect` and `NothingLostCorrect`. A directory is removed
because an earlier step has copied what it holds, so the invariant (`Safe`) is `NothingLost` output by
output with `Handover`, which says at each place of the task which copy covers which.
`ImplementsCustodyCorrect` needs `AllAtOnce` besides: what is tracked is everything there is, so the
sweeper has nothing or everything, whatever crash divides the migration. `GoesForwardCorrect` is about a
migration without a crash, from anything older versions can have left: `Unhindered` lists, for each place,
the directories that the places ahead will remove and that therefore have to exist, so that no `unwrap`
fails but the two of `GivesUp`. With a crash it is false, which is `migration_crash`; and since places are
finite and files run out, it is also why an uninterrupted migration that does not give up ends (the step
from there to `UninterruptedEnds` is fairness, and TLC's).

**`Startup_proofs`**: `TypeCorrect`, `SeedIsDurableCorrect`, `NoMonitorLeftOutCorrect` and `InStepCorrect`. `SeedIsDurable` is inductive;
the others need `Loaded` (what is in memory is what was stored, and `restarting` means that there is a
manager) and `AtTip` (where the listeners are from the synchronisation on). `ImplementsChainViewCorrect`
needs `NotBehind`: from the first answer of bitcoind on, no file is ahead of the node, and the one listener
that the synchronisation leaves out, the sweeper of a node without a manager, is at the tip or where it is
stored.

**`Shutdown_proofs`**: `TypeCorrect` and `QuitPersistsCorrect`. The background processor is stopped only after the
peers were disconnected and the signal was sent, which happens only when the CLI has quit, and has
persisted by then (`Stopped`); no command or event can follow, so a later change needs a later peer or is
a block.

**Only model-checked.** Liveness (`PaymentsResolve`, `HeldIsRecorded`, `KeepsUp`, `UninterruptedEnds`,
`NodeEnds`, `ConnectAnswers`, `ChannelPeersReturn`, `Follows`) is beyond the prover: fairness needs `ENABLED`. The violations are
counterexamples, for TLC. Every other property of a passing run is a theorem.

## 6. What is not modelled, and why

* Reorganisations, fee bumping, routing, gossip and the channel protocol: LDK's. The contracts above say
  what is taken from it.
* A damaged file. `disk.rs:67-83` takes an unreadable ledger for an empty one; the store replaces files
  whole, so a crash does not make one.
* An RPC that fails is unwrapped and aborts the process. In the fee poll and in the funding of a channel
  this is an action (`AskFails`, `handler.pc = "aborted"`); elsewhere it is a `Crash` at that point. The
  other RPC methods are single calls that change nothing here.
* `args.rs`, the parsing of a command line and `hex_utils.rs` are pure functions without state; the
  listings, `signmessage` and `help` only read.
* In `Channels`: more than one channel with a peer at a time, and more than one task of `ConnectionNeeded`
  (`main.rs:563` spawns one for each event); a crash (that LDK broadcasts again after a start is its
  contract); the flag that stops the tasks, which is in `Shutdown`. `DiscardFunding` does nothing in the
  code, and `BumpTransaction` hands everything to LDK. A channel whose coin another channel has spent stays
  pending until it is closed by force: the code knows it (`main.rs:549-552`), so no property denies it. A
  peer that announced no address is not dialled again.
* Amounts, preimages and secrets of an entry: written with the status, read by listings only.
* That LDK writes the manager before the first monitor (`OpenChannel` in `Startup`): a start that finds
  monitors without a manager is not in the model.
* `Shutdown` has one connection under way for each kind of task; the errors of `poll_best_tip`, which
  abort the process like any other failed `unwrap`; and monitors, which LDK writes by itself, are left out.
* A payment sent again after it was paid overwrites its own entry (`cli.rs:849`), and if LDK still knows it
  and refuses, the entry becomes failed although it was paid. The model has it (`Resendable`); the outcome
  properties are about the payments that are not sent again (`Fresh`).
* Offers and names that LDK refuses stay pending until the next start (`cli.rs:232, 300`); the properties
  about pending entries are about invoices and keysends.

## 7. Plan

In this order:

1. *Done.* The outbound ledger, the two contracts, the first theorems.
2. *Done.* The inbound ledger; the migration; the start; the shutdown.
3. *Done.* The migration, the start and the shutdown proved.
4. *Done.* `PaymentLedger` and the two refinements, model-checked.
5. *Done.* `FeeEstimates`: the poll, its floor and its subtraction, what LDK can read between two stores.
6. *Done.* `Channels`: connecting, disconnecting and reconnecting, opening, funding and closing.
7. *Done.* The outcomes of both ledgers and their refinements proved; the floor and the safety of the
   wallet's coins proved.
8. *Done.* `Custody`, `ChainView` and `CoinUse`, with the three refinements proved; connects and migrations
   that only go forward; the poll in a calm mempool; money that is held has its event; what `PaymentLedger`
   hands down to both files.
9. *Done.* The end of the runtime and the chain poll in `Shutdown`; every start that older versions can leave
   in `SweepMigration`; `DisconnectSparesOpening`.
10. Left: reorganisations, as far as `poll_best_tip` hands them to the listeners; two peers in `Channels` for
    the liveness properties; for the prover, what a payment that is sent again may still rely on
    (`Resendable`), and the outcomes of invoices and keysends in a session without a `PayOffer` or `PayName`
    when such ids exist.
