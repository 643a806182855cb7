# The L1 bridge clearing system, in TLA+

The repository is a Go process that watches an OP-Stack L2 (Base), and for each
withdrawal that starts there proves and finalizes it on L1, together with two
Solidity contracts: a registry of who clears which withdrawal and a paymaster that
sponsors those calls. This directory holds TLA+ models of its core, TLC
configurations that check them on small instances, and proofs for TLAPS that hold for
every instance.

    tlc -workers 2 -config clearing_races.cfg MCClearing
    tlapm ClearingUseCaseProofs.tla

`PROJECT.json` lists components, runs, mutants, the map from definitions to lines of
source, hazards, findings and theorems.

## 1. The system

| part | state | operations | model |
|---|---|---|---|
| clearing use case (`internal/usecase/clearing.go`) | none of its own | `IngestEvent`, `RecheckPendingEvents`, `ProcessPending`, `advance`, `createIntent`, `markFailed` | `ClearingUseCase` |
| stores (`internal/repo/memory/store.go`) | two maps, each under a mutex | `Save`, `UpdateStatus`, `GetPending`, `GetByStatus` | `ClearingUseCase` (`events`, `intents`) |
| listener, orchestrator (`internal/listener`, `internal/clearing`) | a goroutine each | run the handler per event; `ProcessPending` per tick | `ClearingUseCase` (`lis`, `wrk`) |
| finality checker (`internal/finality`) | none | `IsSafe` | `ClearingUseCase` (`IsSafe`) |
| Base adapter (`internal/bridge/base/adapter.go`) | none | `ProveWithdrawal`, `FinalizeWithdrawal`, `IsProven`, `IsFinalized`, `IsSettled`, `findSuitableGame` | `BaseAdapter` |
| L1 and L2 (outside the repository) | portal records, dispute games, mempool, heads | include, lose, resolve, elapse, reorg | `Chains` |
| registry (`contracts/src/L1ClearingHouse.sol`) | intents, owner, chains | register, mark proven, clear, mark failed, administration | `L1ClearingHouse` |
| paymaster (`contracts/src/ClearingPaymaster.sol`) | clearers, allowances, owner, ETH | `sponsorCall`, administration | `ClearingPaymaster` |
| chain client (`internal/chain/base/client.go`) | poll cursor, subscription | `SubscribeLogs`: poll loop, WebSocket loop | `BaseClient`, promising `LogFeed` |
| event parsing (`internal/chain/base/events.go`) | none | log to `BridgeEvent` | `EventParsing` |
| rebuilding of withdrawals (`adapter.go`) | none | `buildWithdrawalTx`, `nonceFromReceipt` | `WithdrawalTx` |
| the process (`cmd/bridge/main.go`) | goroutines | start, stop | `Bridge`: client, listener, use case, orchestrator |
| paymaster service, Optimism and Arbitrum clients and adapters | none | stubs that are not wired or never called | not modelled |
| configuration, logging, deployment script | none | start-up, formatting | not modelled |

How they interact. The chain client delivers the logs of the L2, in sequence, to the
listener's goroutine, which runs `IngestEvent`: the event is saved as Pending, its
block checked for finality, and, if safe, the event marked Safe and an intent stored.
The orchestrator's goroutine calls `ProcessPending` at every tick: it rechecks the
pending events, takes a snapshot of the intents that have not ended, and advances each
along `Safe -> Proving -> Proven -> Finalizable -> Finalizing -> Finalized` by one
call of the adapter and one store call. The adapter sends the signer's transactions to
L1 and asks the portal about them. The two goroutines share only the stores. Nothing
is persisted. The contracts stand beside this: the Go code does not call them,
although `contracts/README.md:127-128` says so.

What is hard. The two goroutines meet in `createIntent`, which makes two store calls
and looks at nothing it overwrites. `advance` decides from a copy, makes network calls,
and then writes either the whole copy (`Save`) or the status of whatever is stored by
then (`UpdateStatus`). The chain client remembers a height and no block: the head it
reads may move back, and forward with other blocks, between any two of its calls, a
fetch may fail, a subscription may end, and a log that was handed over may be removed. A delivery may come late, or twice after a reorg, and
with another block, and the head a finality check compares with moves back too. The process may stop between any two calls and start empty, while its
transactions live on. A transaction may be lost, revert, or be accepted although the
send returned an error. L1 may drop a proof, and games are created, lost and won
meanwhile. On L1, several accounts compete for one registration and one account, the paymaster, acts
for many operators.

What makes each part correct:

* use case, stores, goroutines: no status claims more than L1 granted; no intent for
  a block that was not deep enough when it was checked; no event is forgotten; every event gets its intent and every
  intent comes to an end; the lifecycle is followed, with one prove and one finalize call.
* adapter: a proof targets a game that is respected, won and covers the block.
* registry: a record is marked only for its own prover's accepted proof, and a slot is never
  taken over or reopened; cleared means finalized.
* paymaster: what the view promises is what is granted; all that was done in its name is
  charged to someone.
* chain client: no log behind the cursor is skipped, and none is handed over twice or
  after a later one, whatever the head does.
* the process: every log of the feed is kept by someone at every moment, and ends as an intent.
* parsing and rebuilding: an event carries its own withdrawal's payload and hash, and what is
  proved on L1 is what is polled there.

## 2. Modules and the code

    Chains <- BaseAdapter <- ClearingUseCase <- ClearingProperties <- MCClearing
                                                      |        \
                              INSTANCE WithdrawalLifecycle      ClearingUseCaseProofs <- PromptDeliveryProofs
    BaseClient <- Bridge <- MCBridge          LogFeed: INSTANCE in BaseClient
                    |                         ClearingUseCase: INSTANCE in Bridge
                    \--- BridgeProofs <- BridgeStoreProofs (INSTANCE ClearingUseCaseProofs)
    EventParsing <- WithdrawalTx <- MCParsing
                         \--------- ParsingProofs  (and DataInduction)
    L1ClearingHouse <- ClearingPaymaster <- MCHouse
                               \--------- ClearingHouseProofs <- PaymasterProofs (and DataInduction)

**Chains** is external: the head of the L2 and how many blocks reorgs took off it (`dropped`), the dispute games, the signer's row of
`provenWithdrawals`, and its mempool. Time is the age of each proof, growing to
`FinalizationPeriod`, since that comparison is all the code makes. A transaction at the head
of the mempool is included if the portal accepts it, and may be lost in any case. `accepted`
and `matured` are history variables.

**BaseAdapter**: the adapter keeps no state, and a call is one step. What its queries read
moves one way while the call runs (a game resolves once, a proof ages), with one
exception, a reorg that takes a proof back between two queries of one call; a poll then
gives the answer of its first query of the portal. `Answers` gives what a poll may say.
Every poll goes through `queryProvenWithdrawal`, which asserts the portal's answer to be of a struct type declared inside the
function (`adapter.go:643-650`). `abi.Unpack` never builds that type, so with an L1 client every poll is an
error, and an intent fails at the first poll after its proof was sent. The constant `Decodes` says
whether the assertion can hold: FALSE is the code as it is, and with it the model answers `error` only; with TRUE a poll says yes
or no as L1 is, or errs if a query fails. The runs whose trace is a finding have `Decodes = FALSE`. The passing runs of the
use case have `Decodes = TRUE` and `Faulty = TRUE`: there every poll may err and every poll may answer, so their behaviours
include all those of the code as it is, and also those of the code with the assertion mended, where the
statuses from Proven on are reached. What they show of these statuses is thus about `advance`, the stores and the races as
written, but of states that this build of the adapter does not let an intent reach. The theorems hold for either value.
`findSuitableGame` skips games whose queries fail and takes the
newest of those left; the comment at `adapter.go:418` says earliest. Without a signer
key (`Wired = FALSE`) polls say no and calls fail; the runs of `MCClearing` are wired, those of `MCBridge` are not.

**ClearingUseCase**: one step per store call, so that everything between two of them
interleaves. `IngestEvent` is `Deliver` (Save Pending), `IngestUnsafe` or `IngestSafe`
(the finality check, UpdateStatus) and `IngestSave` (the intent). `ProcessPending` is
`Tick` (GetByStatus), `RecheckSkip` / `RecheckPromote` / `RecheckSave` for each pending
event, `GetPending`, then for each intent one `Advance...` (the adapter's call and the
decision, from the snapshot) and `Write` (the store call that ends it, `Written` telling
what Save and UpdateStatus leave), and `EndTick`. Go's map order makes the order of
events and intents arbitrary; so is it here. `AdvanceHead` and `DropHead` move the head the finality check reads, which may so
be lower at a later check than at an earlier one. `Restart` empties the stores and the goroutines.
An intent keeps its status, the block of its copy of the event, and whether its two
transaction hashes are set; ProveSubmittedAt is set with the first.

**WithdrawalLifecycle** is the abstract specification: the states and arrows of
`clearing.go:15-17`, one call of each kind, and L1's grants. `ClearingProperties`
instantiates it and states the properties.

**BaseClient** is `SubscribeLogs` and the L2 under it. `pc` is where its goroutine stands: at
`start`, in the poll loop (`wait` for the ticker, `fetch` after the head was read, `handle`
in the loop over the answer), in the loop of the subscription (`listen`), or `ended`. The
L2 mines blocks and drops its newest one; a block is told from another of its height by the number of
reorgs before it. `inbox` is the answer being gone through, or the channel of the subscription, into which
the node pushes new logs and notices of removed ones. Every read of the node is its own
step and sees the chain of that moment: `Tick` reads the head (a head below the cursor, or a read
that fails, changes nothing, so it is no step), `Fetch` the logs. `Ignored` is the check for
removed logs and for those `parseLog` rejects. `mined`, `handed`, `served`, `from` and `missed` are history
variables. One node answers all calls; the logs within a block come in any order.

**LogFeed** is what the client promises: logs that were mined, each once, no later one first.

**Bridge** is the process as `main.go` wires it without a signer key. `IngestEvent` runs inside the client's
goroutine, so `Ingest` is the client's `Handle` together with the use case's
`SaveEvent`, and the client takes no further step until the listener is idle again. The
use case's `head` is the client's `tip`, and its `dropped` the client's count of reorgs: one L2. Its L1 stands still, since nothing is sent
to it; `ClearingUseCase` alone has the signer, with deliveries left free.

**EventParsing** is the decoder at a reduced width: words of `W` bytes below `Base`, a uint64 below `U`, an int
being the same bits in two's complement. Offsets, sums and comparisons wrap where
the Go code's do; a slice beyond the data is a panic. It also has the two ways a `MessagePassed` log may be laid out: with
the hash after the payload, as the parser and `events_test.go:230` have it, and as the ABI
encodes the event declared at `events.go:181-191`.

**WithdrawalTx** takes one log of a transaction, whole or cut short, through `parseLog` and
`buildWithdrawalTx`. A transaction is one withdrawal made directly, or one made through the bridge (two logs)
with a direct one after it. Hashing is abstracted: a rebuilt withdrawal has the recorded hash
exactly if every field agrees.

**L1ClearingHouse** has one action per transaction that succeeds, with its `msg.sender`, and
the portal with a row per prover. **ClearingPaymaster** composes it with the paymaster:
`sponsorCall` performs any call of the registry, the portal or another contract in the name
of the account `Paymaster` and charges the operator, all in one transaction. Left out: an
outside contract that calls the paymaster back, and EIP-7702 delegation.

## 3. Runs

| run | question | result |
|---|---|---|
| `clearing_races` | What holds whatever races, is redelivered, fails or restarts? | `ProvenIsReal`, `FinalizeAfterWindow`, `IntentIsSafe`, `NoLostEvent` |
| `clearing_prompt` | Does the bridge implement the lifecycle when every event comes once, and prove against the right games? | `LifecycleSpec` (refinement), `RecordMatchesStatus`, `ProofCoversWithdrawal`, `ProofsTargetWonGames` |
| `clearing_liveness` | Does every event become an intent and every intent end? | `EventPromoted`, `IntentProgress` |
| `house` | Do registry and paymaster keep their promises together? | `ProvenWasAccepted`, `SlotIsPermanent`, `AllowanceIsHonoured`, `SponsoredWorkIsPaid` |
| `bridge` | Does every log of the L2 reach the use case, once, stay with it, and become an intent? | `NothingSkipped`, `EveryLogKept`, `FeedSpec` (refinement), `EveryLogServed` (liveness) |
| `parsing` | What is decoded from a log, and which withdrawal is proved and polled? | `DecodedAsSent`, `NothingForeign`, `SameWithdrawal`, `ReadWithinLog` |
| `failed_recoverable`, `proved_twice`, `terminal_reopened`, `cleared_unfinalized`, `removed_promoted`, `parser_panics` | What do comments say that the code does not do? | violated, section 5 |

**Bounds.** `clearing_races` has one event, since events share nothing but the
chains, but two deliveries of it (the least for a redelivery to meet a running
intent), in block 1 or 2 each, so that a redelivery may move the event to a block that is not deep yet; one orchestrator, one
restart, one block dropped from a chain of three (a head that passed a check may then be too low for the next), one reorg of L1, one
game, a log whose block is or is not final
at delivery (`MaxLag = SafeConfirmations = 1`), and faults everywhere. `clearing_prompt` has two
events and two withdrawals, one never recorded by the L2 (an event of the standard bridge
rebuilds a transaction whose hash the message passer never saw), two games, both within the search depth, and a reorg of L1.
Its one delivery, no restart and `MaxLag = 0 < SafeConfirmations` are the premises of
the lifecycle: without them it is false, as `proved_twice` and `terminal_reopened` show.
`clearing_liveness` has one game, faults, a second delivery and a reorg of either chain. `house` has two
withdrawals and two provers (an operator and the paymaster), a limit of two units with
calls of one or two, and one reorg.
`bridge` has two logs, one of which does not decode, in the same block or in two, three
blocks, one dropped block, which may be replaced while a poll is under way, one restart, after which the client may change
from polling to a subscription or back, and failing calls. `removed_promoted` has a block safe at a depth of two and a reorg of one.
`parsing` has words of two bytes, so that payloads of zero to five bytes are and are not multiples of a
word, every place to cut a log, and hashes whose low parts lie on both sides of
the point where int turns negative, up to the wrap of the sums.
The bounds are named constants and sit in guards: `MaxBlock`, `MaxHead`, `MaxLag`, `MaxDeliveries`,
`MaxRestarts`, `MaxL2Reorgs`, `MaxPayload`, `MaxGames`, `MaxReorgs`, `MaxDrops`, `MaxLimit`, `MaxBalance`. `calls` counts to 2,
one more than any property needs. The mempool needs no bound: each call adds one transaction
and the number of calls is bounded by deliveries.

The deadlock check is on wherever the orchestrator runs, for it ticks for ever; it is off in `parsing`, where a log
is parsed and rebuilt once, and on in `house`.

**Fairness** (`FairSpec`). Weak, for the listener's steps, the orchestrator's steps, blocks
of the L2, L1 time and the processing of the mempool: both goroutines are runnable whenever
they are not in a call (the ticker fires again, the listener's handler has no lock to wait
for), chains go on, and a call of an RPC node is taken to return, with an answer or an error; the
Go code sets no deadline of its own, so a node that never answers is outside this assumption.
Strong, for `RecheckPromote`:
the finality check is asked at every tick and an RPC that fails every single time is not assumed.
Nothing is assumed of delivery, of new games, of who wins them, or of a transaction's fate
except that it leaves the mempool. `clearing_liveness` has no restart: a restart empties the stores,
so the intent it was about is no longer there to progress.

In `bridge`, weak for the client's steps, for the call of the handler, the listener, the orchestrator and new blocks, on
the same grounds, and strong for `Fetch` as for `RecheckPromote`: both are asked again at every tick. Restarts,
reorgs, failures and the end of the subscription are never assumed. `EveryLogServed` speaks of a log as long as it
is on the feed: a restart, a reorg that takes it or its cursor, or an ended subscription excuses it.

`IntentProgress` admits one way for an intent not to end: L1 lost its proof. The
bridge then polls for ever, because `Deadline` and `ProveSubmittedAt` are stored and never
compared with the time.

## 4. Proofs

`ClearingUseCaseProofs` proves, for every set of events, withdrawals and workers and all
bounds, from the named ASSUMEs on the constants only:

* `TypeCorrect`: `Spec => []TypeOK`.
* `ProvenIsAlwaysReal`, `FinalizeAlwaysAfterWindow`. Neither property is inductive: a
  worker writes a status it decided earlier, from a copy taken earlier still. `BackedInv` adds
  that the copy and the decision of every worker are backed by what L1 granted (`WorkersBacked`),
  and that L1's grants are only ever extended and agree with the portal (`ChainHistory`). A reorg takes the proof
  away but not the grant.
* `NoEventEverLost`. An intent, once stored, stays, because a status is only ever written over one that exists:
  `KeptInv` adds that a snapshot holds intents that exist and a decision is about one of them (`SnapshotsReal`). The head is
  not mentioned, so the invariant also holds of a use case whose head moves back, as in `Bridge`.
* `IntentAlwaysSafe`. The head moves both ways, so an intent's block may be fewer than `SafeConfirmations` below it
  again. What stays is a lower bound on how deep a check found it: the head and all that was ever dropped from it reach
  `SafeConfirmations` beyond the block (`Deep`). A passed check gives it (`SafeIsDeep`) and no step takes it away, a dropped
  block being counted (`DeepStays`). `SafeInv` adds to `KeptInv` that it holds of the block a goroutine is about to
  store an intent for (`CreatorsSafe`) and of whatever intent a snapshot
  holds (`SnapshotsSafe`). Without a reorg it says that every intent lies `SafeConfirmations` below the head; with reorgs of n blocks
  in all, at least `SafeConfirmations - n`. That such an intent is not taken back is what the code gives up (`removed_promoted`).
  Both rest on two lemmas about what a step of an orchestrator does to the stores and to the one goroutine that
  takes it (`AdvanceEffect`, `WorkerEffect`): it passes, promotes, creates, snaps, decides or writes.
* `ProofsAlwaysTargetWonGames`. `ProofsInv` is the property with the types: the adapter sends only
  against a game it found won, and a won game stays won, since games are only added and resolve once.

`PromptDeliveryProofs` proves what needs premises on the constants. `PromptDelivery` states them: one
delivery per event, no restart, one orchestrator, `MaxLag < SafeConfirmations`, and no two events of one withdrawal;
`clearing_prompt` is an instance, and its three properties are the theorems, for any number of events, blocks,
games and reorgs. Each theorem is `PromptDelivery => (Spec => ...)`.

* `RecordAlwaysMatches`. The property is inductive only if a copy is never stale. `PromptInv` says why it is not: the
  listener finds every block unsafe and never stores an intent (`ListenerWaits`); an event is stored once
  and has an intent, with its block, only once it is Safe (`StoredOnce`); what the recheck still holds is pending and has no
  intent (`RecheckFresh`); and the snapshot is what is stored, a decision following an arrow from it (`SnapshotFresh`).
* `BridgeImplementsLifecycle`: the refinement of `WithdrawalLifecycle`. `CallsMade` ties the calls to the status: a Safe or Finalizable
  intent has had its call just when the result is about to be written. `MempoolAsked` says that a proof on its way was
  asked for, and `BackedInv` that a decided status is backed by L1. Each write is then the arrow it was
  decided along, each call the first of its kind, and each step of L1 a grant to an intent that asked.
* `ProofsAlwaysCover`. `CoverInv` says of every proof that its withdrawal's event was observed and lies within the game's L2 block;
  the event keeps its block, not being delivered again, and the game its own.

`ClearingHouseProofs` proves of the registry alone that types, `ProvenWasAccepted` and
`SlotIsPermanent` hold when every account may call anything (`AcceptedInv` adds that the portal's
proofs were accepted), then that the composition implements the registry (`PaymasterImplementsHouse`: a
sponsored call is at most one call more of one account), which carries them over, and
`AllowanceIsHonoured` from the paymaster's types.

`BridgeProofs` proves of the client alone, and then of the composed process, that types hold, that
`NothingSkipped` is an invariant and that `FeedSpec` is implemented, for all sets of logs, all chain
lengths and any number of reorgs. `ClientInv` strengthens `NothingSkipped`: `ChainInv` says that
what is on the chain was mined and that forks grow with height, so that a newly mined log is later than all before it;
`FeedInv` that what waits was mined, is not handed over yet and is not earlier than anything that is;
`CursorInv` that while polling all that was handed over or waits lies below the frontier, on forks no later than those of
the blocks at or above it, and that before the first reorg the frontier is at most one past the tip. `BridgeImplementsClient` carries the three over: a step of the composed process is one of the
client or leaves it alone.

`BridgeStoreProofs` proves of the composed process that all types hold (`BridgeTypesAlways`) and that no log is lost on the
way from the chain to the stores (`EveryLogAlwaysKept`), for any number of logs, orchestrators, reorgs and restarts.
`ProcessInv` joins the client's invariant and the use case's `KeptInv`, and adds what ties the two, that every log handed over
is in the store (`HandedStored`): `IngestEvent` saves before it does anything that may fail, and only a restart, which starts a new
feed, empties the store. So a log of the feed is not skipped (`NothingSkipped`), is then stored, and, if its event is no longer
pending, has an intent or a goroutine about to store one. The invariant of the use case is not proved again: its proofs
are instantiated with the constants and variables of the process (`UCP`), whose assumptions follow from those of the client and
`BridgeAssumption`.

`PaymasterProofs` proves `SponsoredWorkIsPaid` (`SponsoredWorkAlwaysPaid`): at most one record is made or marked in the paymaster's name
by a sponsored call (`Registering`, `Marking`), nothing else acts in that name, and the sum of the charges grows by at
least one (`ChargeRaisesSum`). `PaymasterAssumption` says that addresses and hashes are finite in number, as twenty
and thirty-two bytes are; the sum is a fold, which says nothing of an infinite set.

`ParsingProofs` proves the four properties of `parsing` for every width of a word, size of a byte, range of int, length of payload and set of
hashes. `ParsingInv` says that the logs are those of withdrawals with a nonce and a hash of their own
and that the event is what `parseLog` makes of the current one. The lemmas under it go from bytes to logs: a number that fits into
a word is the value of its bytes (`WordRead`); the parts of a log's data are where the layout puts them, also when the
data is cut behind them (`Parts`, `HeldCut`); below half the range of a uint64 the bounds checks mean what they say
(`BoundsChecked`), and from there on they pass and the slice panics (`BoundsMissed`); so the parser panics exactly there (`PanicsExactly`), of which `ReadWithinLogAlways` is one half; a log in the layout of the test gives its own fields
or nothing (`HashLastRead`), and one in the ABI's layout a panic or an event without payload and hash (`AbiRead`). The assumptions are those the runs
evaluate: a log is shorter than half the range of a uint64, a hash fits into a word, the low 64 bits of a hash exceed the
length of any log, and there are two hashes at least.

`DataInduction` serves both. The library's induction theorems take an operator, which no installed prover can instantiate, so induction is
stated over sets: a set of numbers that has zero and the successor of each member has them all (`SetInduction`, from the well-foundedness of
the naturals). From it come the values of functions defined by recursion (`IterationExists`), the partial sums of a function
over a finite domain, and that a sum grows by what one value grows (`SumRaised`).

Model-checked only: liveness (`EventPromoted`, `IntentProgress`, `EveryLogServed`), which, like ENABLED, is beyond the prover. All
invariants and action properties of the passing runs and both refinements are theorems.

## 5. Where comments and code part

Shown by a run each:

* `failed_recoverable`: any error fails an intent for good (`clearing.go:118`), among them "no suitable
  game", the usual case when a block has just become safe, which is the run's trace. The first poll after a proof was sent is
  another (`Decodes = FALSE`, below): the intent fails although its proof may be on the portal. `types.go:44`.
* `proved_twice`: listener and recheck both create the intent of one event, and `ProveWithdrawal` is called twice for it. The run shows
  the calls, not two proofs on L1. `interfaces.go:35`.
* `terminal_reopened`: a second delivery replaces an ended intent. `clearing.go:231`.
* `cleared_unfinalized`: `clearIntent` (`L1ClearingHouse.sol:192`) checks the proof, not the finalization.
  `L1ClearingHouse.sol:24-28`.
* `removed_promoted`: the event of a removed log stays pending and is promoted, since the finality check compares
  heights only. `client.go:152-153`.
* `parser_panics`: a log in the layout of the event the parser declares makes it panic for about half of all
  hashes (below), where `events.go:54-56` has an error for whatever cannot be decoded.

Seen while reading, not shown by a run of its own:

* `interfaces.go:38-39` says `IsProven` "returns true once the prove tx has been included and the portal has accepted the proof". The
  type asserted of the portal's answer (`adapter.go:643-650`) is never what the library builds: with an L1 client every poll is an error,
  and the intent fails. `Answers` has it so when `Decodes` is FALSE.
* `IsSettled` (`adapter.go:243-256`) returns `IsFinalized`, which was already asked before the finalize call, where
  `interfaces.go:50` and `types.go:33` speak of the transaction's inclusion. With the code as it is no intent comes that far, for
  the assertion in `queryProvenWithdrawal` fails first; with that mended, an intent would become Finalized one tick after
  the send, whatever became of the transaction.
* `L1ClearingHouse.sol:61` says the owner may "recover failed intents". No function does: `markFailed` is the owner's only call on an
  intent, and `registerIntent` refuses a hash that has a record. `SlotIsPermanent` has the code's side: a Failed record stays Failed, and its
  withdrawal can never be registered again.
* `RecheckPendingEvents` marks as Safe the event stored by then (`clearing.go:240`), though it checked the block of the copy it
  read before. After a redelivery in between, the event store has a Safe event in a block nobody checked; the intent is for the block
  that was (`IntentIsSafe`), and the stored event is not read again.
* `fetchOutputRootProof` (`adapter.go:526-533`) sizes a slice by storage keys and
  indexes it by trie nodes: a proof with two or more nodes panics. The model has it as `Restart`.
* `parseMessagePassed` (`events.go:218-235`) reads the hash after the variable data, as its test lays it out
  (`events_test.go:230`), while the event it declares (`events.go:181-190`) has it in the head, where the parser looks for
  the length. `PanicsExactly` tells which such logs panic (about half of all hashes), `ReadWithinLog` that no other
  log does, and `NothingForeign` what becomes
  of the others: events with no payload and no hash, whose withdrawal is rebuilt without its payload.
* An event of the StandardBridge never rebuilds the recorded withdrawal: its sender, recipient and data are the user's, those recorded are
  the messengers' (`adapter.go:341-342` asks for byte-for-byte identity). The transaction's `MessagePassed` log makes a second
  event, so one withdrawal has two intents. In `WithdrawalTx`, `ProvedAs` is empty for the former.
* `nonceFromReceipt` (`adapter.go:394`) takes the first `MessagePassed` log of the transaction, which need not be the event's.
* `computeWithdrawalHashFromTx` packs the payload itself, as the message passer does; its comment (`adapter.go:771`) has the payload's hash.
* "Safe to wait" (`client.go:197`): a log mined again below the cursor after a reorg is never returned; these are `missed`.
* The branch `toBlock == fromBlock-1` (`client.go:200`) is never reached: the test before it covers it.
* `eventID` (`events.go:257-260`) keeps 8 hex digits and is called collision-free.
* Without a signer every intent ends Failed at its first call, where `main.go:109` speaks of observing.
* The WebSocket subscription ends at its first error and nothing subscribes again, where
  `client.go:99` says it blocks until the context is cancelled.
* `ClearingPaymaster` pays no gas: it counts it. "clearIntent() calls are always sponsored"
  (`ClearingPaymaster.sol:27`) holds only within the allowance and the minimum balance.

## 6. Not modelled, and what could follow

* The paymaster service and the clients and adapters of the other chains: stubs, not wired or without effect.
* Configuration, logging and the deployment script: start-up in a straight line and formatting.
* `eventID`: the models identify an ID with its log; a collision would be a second delivery under one ID with another
  withdrawal.
* Logs of other signatures or with too few topics, which the node's filter excludes.
* The decoding of `eth_getProof` and the packing of ABI arguments: success, failure or a restart.
* In the contracts, a call back into the paymaster from an outside contract, and EIP-7702 delegation.

What could follow: `Bridge` with a signer, so that the second deliveries and removed logs of the client meet intents
under way. The two halves are checked apart here: `bridge` delivers as the client does and ends every intent at its first
call, and `clearing_races` has the signer and takes a second delivery at any time.
