# farm-server: verification project

TLA+ models of the game backend in `src/server`, the TLC configurations that
check them on small instances, and proofs checked by TLAPS. Every definition is
translated from the Go source; `PROJECT.json` ("map") gives the lines of each.

## 1. The system

A gateway (`gatesvr`) terminates WebSocket and HTTP. A command on a farm is
routed by farm bucket to one `farmsvr`, whose *Farm Actor* serialises the farm's
commands and keeps a hot snapshot. The actor calls `gamesvr`, which applies the
command in one MySQL transaction, together with its outbox event. `workersvr`
relays outbox rows to Kafka, consumes them (cross-shard steals, mail, tasks,
friendships) and scans pet schedules. etcd holds instances, routes and epochs,
Redis holds sessions. MySQL is sharded by user; a farm lives on its owner's
shard.

### Components

| Component (source) | State | Operations | Correct when |
|---|---|---|---|
| Farm write path: `farm/actor/rpc_execution.go`, `application/routed_commit.go`, `infrastructure/committer_mysql.go`, `pkg/mysqlretry` | `farm_snapshots` (version, route_epoch, pet schedule), `cmd_receipts`, hot snapshots, running transactions | cold load (advance fence, read), commit, replay, retry, timeout | each command takes effect at most once, on the version its issuer saw, under the newest owner; an answer names a durable effect |
| Farm actor runtime: `farm/actor/runtime.go` | inboxes, per-farm actors and queues, ready and completed channels, workers, actor counter | Submit, accept, dispatch, execute, complete, evict, stop | one task of a farm at a time, in order; every task answered; nothing blocks for ever; the actor limit is exact |
| Routing control plane: `farm/routing/etcd.go` | route and epoch keys, instance leases, watch caches | claim, activate, resolve, sync, watch | an epoch belongs to one instance; epochs only grow; caches converge |
| Outbox and relay: `infrastructure/outbox_relay.go`, `event_publisher.go` | `outbox_events` rows with leases and retries, the topic | insert, reclaim, claim, publish, mark, retry, DEAD | no event lost; one relay holds a row |
| Consumers: `event_consumer.go`, `consumer_failure_store.go`, projectors | group offset, `consumed_events`, parked messages | fetch, process once, retry, park, commit | an offset never passes an unsettled message; an effect happens once |
| Farm rules: `farm/domain`, `applyCmd`, crops | plots | plant, water, help, steal, harvest, pet harvest | crops are neither created nor lost; growth stages watered once |
| Economy: `commitEconomicTx`, asset service | wallet, inventory, ledger rows | purchase, sell, replay | balances never negative, always what the committed requests come to |
| Pet auto-harvest: `worker/pet_scanner.go`, `mysql_pet_service.go` | schedule, lease token, pet | claim, renew, push, buy, switch | one harvest per schedule; a switched-off pet stops |
| Friendship saga: `social/infrastructure/friend_edge_*.go` | an edge per side, the outbox rows | begin, apply remote, confirm, compensate | both sides end in agreement |
| Mail: `mail/infrastructure`, triggers of `202608110001_mailbox_state`, `mail/realtime/bus.go` | mail rows, `mailbox_states` (count, version), `ws:conn` | send, read, read all, notify, push | the count is exact; a badge shows the newest summary whatever order they came in |
| Tasks, catalog: `task/infrastructure`, projectors | progress, status, rewards, unlocks | project, retry, park, claim | every effect of a consumed event has happened; rewards are paid once |
| Gateway hub and event bus: `gateway/ws/hub.go`, `farm/realtime/bus.go` | viewer sets, references, timers, channels | subscribe, switch, leave, reconnect, publish, broadcast | what is watched is listened to, what is not is let go |
| Sessions, tokens: `redisstore/refresh_store.go`, `conn_store.go`, `session_store.go`, `gateway/ws/handler.go` | session records, refresh keys, owner epochs, connection record, listeners | create, rotate, migrate, delete, upgrade, kick, hand off | a token is used once; a replaced connection closes |
| Gateway reads: `http/read_cache.go`, `read_singleflight.go` | cached entries, generations, shared calls | load, join, fill, invalidate, serve stale | nothing older than an invalidation is stored after it |
| Economy coalescer: `http/economy_coalescer.go` | buckets, timer, once, lock | submit, overflow, flush | a command stands for its keys, once each |
| Admission: `pkg/admission` | token buckets, gate slots | allow, clean up, acquire, release | rates and slots are not exceeded |
| RPC: `transport/*rpc`, `pkg/rpcgrpc`, `pkg/errcode` | a call on its way | screen, send, fall back, run, answer | run once; the answer tells the truth about the effect |
| Accounts and IDs: `account/infrastructure`, `pkg/shard` | accounts per shard, generators, sessions | register, log in, allocate | one account per identity, on the shard its ID names |
| Invites: `redisstore/invite_store.go`, `mysql_social_service.go` | code keys, friendships, outbox | create, accept | befriended once, announced once |
| Tools: `cmd/shardbackfill` | source, two targets, a job | check, copy, count, audit | a run that passes has copied what it counted |
| Retention, discovery, wiring, configuration, observability, load fixtures | | | see "Not modelled" |

### How they interact

    client --ws/http--> gateway --route (etcd cache)--> farmsvr actor --rpc--> gamesvr
                                                                                  |
       farm row, receipt, wallet, outbox row in one MySQL transaction <-----------+
                      |
           outbox relays --> Kafka topic --> consumer group --> other shards
    pet scanner (workersvr) --command with the schedule it read--> farmsvr actor

### What is hard here

* Requests, answers and route updates are delayed, lost and resent. An actor's
  timeout ends its wait, not the transaction it started.
* Ownership moves while the old owner still holds commands, hot snapshots and
  transactions. Two instances believe they own a farm for as long as the caches
  disagree; only the fence in the farm row decides.
* The receipt is read before the row is locked; two transactions of one
  `cmd_id` run side by side until a unique key stops the second.
* Schedulers and workers exchange work over bounded channels in both directions.
* A relay may die between publishing and marking, a consumer between crediting
  and recording, a member between processing and committing its offset.

`PROJECT.json` ("hazards") lists these one by one, at the line where each bites,
with the properties that watch it.

## 2. Modules

| Module | Models | Used by |
|---|---|---|
| `FarmLedger` | what the write path promises: a growing history of commands, an advancing fence, truthful answers | refined by `FarmCommit` |
| `FarmCommit` | gateway routing, Farm Actor and gamesvr transaction for one farm | `MCFarmCommit`, `FarmCommitProofs` |
| `FarmCommitProofs` | its theorems | |
| `FarmField` | the plots of one farm and the rules of its crops, which `FarmCommit` leaves out | extended by `PetHarvest` |
| `PetHarvest` | the pet's schedule and lease, scanners, late commands, owner and friends on such a farm | `MCPetHarvest`, `PetHarvestProofs` |
| `PetHarvestProofs` | its types, the crops and the pace of the pet | |
| `FriendEdge` | a friendship between two shards: both edges, the outbox rows, compensation | `Services` |
| `AssetTransactions` | one player's wallet, inventory and claims under concurrent transactions with row locks | `MCAssetTransactions`, `AssetTransactionsProofs` |
| `AssetTransactionsProofs` | its theorems | |
| `Tallies` | what the values of a function add up to | `FarmField`, `AssetTransactions`, `Projections`, `EconomyCoalescer`, `ViewerHub` |
| `TallyProofs` | how a tally changes with one value | the proof modules of these |
| `ActorRuntime` | schedulers, actors, channels, workers | `MCActorRuntime`, `ActorRuntimeProofs` |
| `ActorRuntimeProofs` | its safety theorems | |
| `OutboxRelay`, `EventConsumer` | relays; consumer group with deduplication and parking | composed by `EventDelivery` |
| `EventDelivery` | outbox row to credit: both components share the topic `log` | `MCEventDelivery`, `EventDeliveryProofs` |
| `EventDeliveryProofs` | its safety theorems | |
| `ViewerHub` | viewers of farms on one gateway, the Pub/Sub subscriber, broadcasts | `Gateway` |
| `Mailbox` | one user's mails, the triggers' count, summaries and the badge | `Gateway` |
| `ReadCache` | cached reads, shared calls, fills and invalidations of one key | `Gateway` |
| `EconomyCoalescer` | buckets of merged purchases | `Gateway` |
| `Admission` | token bucket of a key and the gate | `Gateway` |
| `Sessions` | refresh tokens, connections, kicks and hand-over of one user | `Gateway` |
| `ServiceCalls` | one call, public handler to service and back, over gRPC or HTTP | `Gateway` |
| `Gateway` | the seven parts of a gatesvr | `MCGateway`, `GatewayProofs` |
| `GatewayProofs` | the safety theorems of its parts | |
| `Invites` | invite codes and friendships of one shard | `Services` |
| `Accounts` | registration, login, IDs and placement on shards | `Services` |
| `Projections` | projectors of tasks, mails and catalog; the reward | `Services` |
| `RouteControl` | leases, controllers, routes and a gateway's resolver for one bucket | `Services` |
| `Backfill` | the copy of one database into two shards | `Services` |
| `Services` | these five and `FriendEdge` | `MCServices`, `ServicesProofs` |
| `ServicesProofs` | the safety theorems of its parts | |

`MC*` modules give instances to TLC. `Gateway` and `Services` put parts together that
share no table, key, lock or variable in the code, so no step of one can enable,
disable or change a step of another: an interleaving of two of them is two behaviours
side by side. Each behaviour therefore moves one part, `focus`, and the composition costs
the sum and not the product of the parts. Where parts do touch each other they are one
module (hub and bus; mail rows and badge; cache and shared call; tokens and
connections) or composed on a shared variable (`EventDelivery`).

### FarmCommit

State and code:

| Variable | In the code |
|---|---|
| `log` | the row's version (its length) and, as history, what produced each version |
| `fence` | `farm_snapshots.route_epoch` |
| `petTurn` | which `next_pet_action_at` is current |
| `receipt` | `cmd_receipts`: key to `result_version` |
| `owners` | etcd's epoch keys: the instance published with each epoch |
| `requests` | commands between gateway and actor, unordered |
| `actor`, `hot` | `executionState` and `HotSnapshot` of the farm's actor on each instance |
| `tx` | gamesvr transactions: before the receipt lookup, before the row lock, holding it, answered |
| `base`, `acked` | what clients know |

One action is one step that other parties can observe: `Take` (an execution
starts), `AdvanceRouteEpoch` and `LoadSnapshot` (the two statements of a cold
load), `CheckReceipt`, `LockRow` (`SELECT ... FOR UPDATE` and the checks after
it), `Commit`. The failures are `ColdLoadFails`, `Timeout`, `Crash`, `Refuse`,
`TransientError`. Command kinds follow `requiresCommandReceipt`: `receipt`
commands keep one, `plain` commands rest on `base_version`, `pet` commands on the
schedule. The gRPC client's HTTP fallback needs `Unimplemented`, by which the
server promises that nothing ran, so a call is one attempt.

The module takes the queues in front of the actor to be an unordered set, which
allows every order `ActorRuntime` allows. Requests are bounded by `MaxInFlight`;
with 1 nothing is lost, because a submission can be put off until just before
the actor takes it.

### FarmField and PetHarvest

| Variable | In the code |
|---|---|
| `plots` | `Snapshot.Plots`; `elapsed` and `total` are now and `MatureAt` counted from `PlantedAt` |
| `owed` | history: the yield planted and credited to nobody yet |
| `pet` | `player_pets`: none, or its `auto_harvest_enabled` |
| `due`, `lease` | `next_pet_action_at`, `pet_scan_lease_owner` and `pet_scan_lease_until`, relative to now |
| `scan` | what a scanner read with its claim: the instant and the snapshot |
| `commands` | `PET_AUTO_HARVEST` commands that have been sent |
| `since` | history: time since the pet's last harvest |

A command is one step: `FarmCommit` shows what makes it one. The rules of
`applyCmd` are `Plant`, `Water` (owner or friend), `Harvest`, `Steal`; `Stage` and
`Watered` are `GrowthStage` and `waterByGrowthStage`. `ClaimDue`, `GiveUp`,
`SubmitCommand` and `PushNext` are the paths through `claimDue` and
`processClaimedFarm`; a lease expires by `Tick` alone, so an idle lease that a
failed command left behind has to be waited out, as in the code. An instant is
never scheduled twice: whatever sets one adds at least the interval to a later
clock. So whether a claim or command is for the row's instant is one bit,
`current`, cleared wherever the row's instant changes. All crops are of one
configured kind.

### AssetTransactions

The rows of one player: farm, wallet, SEED and CROP inventory, and a row of its
own for each claim (task, mail attachment, stolen event). An attachment is of coins, seeds or
crops, and goes to the wallet or to one of the inventory rows. A transaction takes its locks one
by one in the order of its code (`LockOrder`) and keeps them until it commits or
rolls back; what the code checks after locking a row is `Accepts`. `CheckKey` is the
unlocked look at the ledger or the receipt, and a duplicate found at `Commit`
starts the attempt over. `times[o]` is the durable mark of request `o`: its ledger
row, receipt, claimed flag or pet. Purchases and sales write the balance they
read with the lock; rewards, attachments and the pet's price are added by the
`UPDATE` (`CoinsAfter`). Only purchases and sales write
`economy_transactions`, so that table is not the sum of the wallet, and
`Accounted` compares the wallet with the requests instead. Gap locks and the rows
of other players are not modelled, nor is the mail's own row, which a claim locks with the
attachment (`mysql_mail_service.go:213`): it comes before every shared row, and whoever else locks
it (`MarkRead`, `MarkAllRead`) locks none of these, so it can make claims wait but closes no circle.

### FriendEdge

| Variable | In the code |
|---|---|
| `edge` | `friendship_edges` of each user on its own shard: `state` and `source_event_id` |
| `outbox` | status of the rows of the two possible requests and the two possible acknowledgements |
| `topic`, `settled`, `parked` | messages published; those the consumer group has committed; of these the parked ones |
| `accepted` | `friend_accepted` events each shard has written |

`Begin`, `ApplyRemote`, `ConfirmSource` and `Compensate` are the transactions of the saga
and its compensator. Each locks one edge, so it is one step. The channel between
them is not `OutboxRelay` with `EventConsumer` again but what those leave open: a row is
published once or more, in any order, or not at all; a row may go DEAD before or
after it was published (`GiveUp`, `PublishUnmarked`); a relay that lost its claim may
later set a published or dead row back, or declare it dead (`MarkLate`, for
`markRetryOrDead` names the row and not the claim); a message is handled any number of
times, also after its offset is committed, or parked. `ConfirmSource` of an edge that
is `FAILED` is an error in the code and has no step here: only `Park` ends it.

### ActorRuntime

Channels are bounded sequences; a scheduler that blocks on the full `ready`
channel is in `parked`, which the next receive empties in order, as Go's runtime
does. Callers of `Submit` get one of three results: busy (to be retried), an
answer, or an error once the runtime has stopped; `result` keeps the first,
as `deliver` does. A snapshot is the number of the execution that loaded or
patched it. `accepted`, `ran` and `left` are history. Merged into one step:
`failAll` of one scheduler, the short-lived count between `tryActorAdd` and a
refused `tryDispatch`, and eviction of one idle actor at a time. A caller that
gives up changes no state of the runtime.

### EventDelivery

`OutboxRelay`: an outbox row with its status, lease, retry count and backoff;
`ReclaimStale`, `ClaimBatch`, `PublishBatch` (all, none or part of a batch,
reported truthfully or not), `MarkPublished`, `MarkRetryOrDead`, `Crash`. Event
`n` has `outbox_id` `n`. `EventConsumer`: one partition, the members' fetched
position, the steps of `ProcessOnce` and of the retry and parking that follow,
the committed offset, rebalances and restarts. `Poison` events fail validation.
A topic is one partition here because events of one farm share one and
partitions do not interact.

### ViewerHub

The hub's maps (`watching`), the version a connection has installed (`cursor`), the calls
to `onFirst` and `onLast` that a connection's goroutine makes after it has released the
hub's lock (`hooks`), the subscriber's `refs`, `timers` and Pub/Sub connection. A
timer that has fired but not yet taken the lock can no longer be stopped (`late`). What
is published to a channel nobody listens to, or while the connection is down, is gone;
on reconnection the client library subscribes again to the same channels. `LookAt`
reads a viewer's farm and `Deliver` its version, so that a switch can come in between: a
patch of the old farm then sets the cursor of the new one, and the viewer drops patches
of its new farm up to that version. The client repairs this when it next finds a gap; no
property forbids it.

### Sessions

Every Redis script is one step. `Check` is `handleUpgrade`'s only look at the session
record; `Claim`, `ListenKick`, `Register` and the deferred clean-up follow in their order.
Kicks are a set: late, in any order, and without effect on a connection that has not
entered its listener yet. A connection that is told to close before it has registered (`told`)
registers all the same and then closes; a registration may fail, and then the connection stays
open without being in `ws:conn`. `refresh` is the set of tokens with a key: the key names the user
only, so the migration, which asks for no more than a missing record and a key, takes any live token
with any session ID that has no record, and a session ID whose record has run out stands for one
that was never used. `login` is history: the
login each token descends from. `doomed` is history: connections that were replaced or whose user
logged out while they were the registered ones. What the code leaves open, and the model
shows: a connection between `Check` and `Register` during a logout stays open, although
`session_auth.go:19` speaks of every connection of the session; a kick meant for an older
connection closes the newest one if it arrives late. The connection record's own expiry
and `lastSeq` are left out.

### Mailbox, Projections, Accounts, Invites

Transactions take row and index locks in the order of their statements; a reader sees what
is committed (READ COMMITTED) and waits at a unique key another transaction has inserted.
`Mailbox` has one user: a summary is read inside the transaction that changed the mailbox,
its notice is sent after the commit and reaches the gateway named by `ws:conn` then or
not at all. A connection is open to its client (`OpenLink`) before it is in `ws:conn`
(`RegisterLink`), or is never registered; the client may fetch a summary at any time after it opened,
but only a fetch after the registration closes the gap (`missed`).
`Projections` gives a projector's calls one at a time, so that a crash, a failed call or a second member comes between any two of them; `Handled` lists which projectors
are given which events. `Accounts` reads the clock when a call starts and uses the reading
when it allocates; `Imported` is what the backfill copied, names and devices alike, each to the shard
its ID leads to. In `Invites` each Redis command and each statement is a step.

### RouteControl

One bucket. Rendezvous hashing is `Score`, a strict order of the instances. A controller
reads the instances, then the routes, then route and epoch again before its transaction,
which compares what it read; its lease can run out at any point, also while it lives
(`LivingLeaseExpires`), and etcd then refuses it and takes its keys away. A gateway's
watch brings changes in order, at most `MaxLag` behind; when it breaks, the resolver reads the
route anew or, if that fails, watches on from the revision it had. That an epoch has one
owner is what `FarmCommit` assumes of routing, and `EpochHasOneOwner` says it here.

### ReadCache, EconomyCoalescer, Admission

`ReadCache` is one key (a farm's snapshot; a player's assets run the same code) and one
shared call in flight. An entry carries, as history, whether its reader led the call
(`led`). Redis may fail at each command, and the code then answers from gamesvr.
`EconomyCoalescer` has one user and crop; a bucket's `once` is entered by its timer or
by a call that overflows it. `Admission` takes the gate's slot first, as `gatesvr` wraps the handlers
(what comes over a WebSocket needs none), and reads the clock before the bucket's lock, so
readings reach a bucket out of order by up to `MaxDelay`; a bucket is forgotten after
`IdleTTL`, which has to be long enough to refill it (`AdmissionAssumption`; ten minutes in
the code).

### ServiceCalls

Every public route and RPC with what its handlers demand of a request, both transports,
and the classes of error codes a client can tell apart. `Screen` is the public handler,
`Send` the client's choice of transport, `NotServed` the answer of an instance without
the method, `Rejected` the internal handler's validation, `Refused` the admission gate; answers may get
lost after the service has run. Field conversions are identities on what the model keeps:
which fields are there, and the error's class.

### Backfill

A SELECT sees the source as it was when it began, rows are copied in batches of one
transaction each, and other users write the source meanwhile. `audited` and `deletedFrom` are
history: counts cannot tell a row that was deleted from one never written.

## 3. Runs

| Run | Instance | Shows |
|---|---|---|
| `farm_commit` | two instances, two transactions, two epochs. Either one `cmd_id` used by two commands, the second with the fresher base version, both resent at will, with one retry, or a command without a receipt beside the pet scanner's with one rescheduling | all safety properties, where receipts, the unique key, the retry loop, versions and fences have to work together, and that `FarmCommit` implements `FarmLedger` |
| `actor_one_shard` | three farms, one worker, all capacities 1 | with a single scheduler every task is answered and a stop ends |
| `actor_two_shards` | two schedulers, two workers, three farms, all capacities 1, two actors | one task of a farm at a time and in order, snapshots handed on, exact books, no rejected task runs |
| `actor_handoff_stuck` | two schedulers, one worker | expected violation, see "Findings" |
| `event_delivery` | either one event, two relays and one restarting member, or two events (one poisonous, parked at once when its envelope is malformed and after the retries when its payload is), leases that run out early, and two members that fail and retry | no event is lost: it takes effect, is parked, or is DEAD; relays never share a row; offsets never pass an unsettled message; effects happen once |
| `event_order` | two events of one farm, two relays | expected violation, see "Findings" |
| `asset_transactions` | one request of each kind of effect (the mail attachment is of seeds), two for the pet, three transactions at a time, coins and seeds short | balances are never negative and always what the effects come to; each request takes effect once; no circle of lock waits |
| `pet_harvest` | two plots, two scanners, two faults, an owner who plays and then leaves, friends | crops are conserved; the pet never harvests while off or twice within its interval; once the owner has left it on, every ripe crop is harvested |
| `gateway` | each part in turn: two connections and two farms, an owner and a guest place; three mail calls and two connections that open, register and close; two readers and two commits; four purchases of three keys; three requests; two sessions, one of an older release, and three tokens, or two sockets and two tokens; every RPC | watched farms are heard and unwatched ones let go; the badge settles; fills of a reader that led its call are current; merged commands and rates add up; a token is used once, a logout leaves none of its login, and a replaced connection closes; a call runs once and its answer is true |
| `read_cache_refill` | the same, reads only | expected violation, see "Findings" |
| `services` | each part in turn: two users who accept each other; five invite calls; four logins on two shards, with a name and a device copied off their homes; five events over three projectors and two members, with two faults, one retry and the parking after it; two farmsvrs, one of which starts twice; two tables and two friendships | friends stay friends, are announced once and agree in the end; one account per identity, overlooked ones apart; effects and rewards once; one owner per epoch and gateways that come to know the last; a backfill that passes is whole |
| `account_ids` | three new devices at one instance | expected violation, see "Findings" |

The two scenarios of `farm_commit` and of `event_delivery` are initial states of
one run: `MCFarmCommit` and `MCEventDelivery` say in `MCNext` what each scenario leaves out.
The other `MC` modules with a specification of their own leave out steps that only multiply
states (a second call of a kind before the first, a retry where resending does the same);
none leaves out an action.

Bounds. `MaxEpoch` 2: an old and a new owner is where fencing matters, and no
action reads an epoch other than to compare two. Commands of `farm_commit` are issued
against versions 0 and 1: no scenario commits more than two versions, so a later base
would only be refused, as 0 is after a commit. `MaxTurn` 1: one move of the
schedule between the scanner's reading and its command. `MaxAttempts` is 3 in
the code and 1 or 2 here; the theorems cover every value. Channel and queue
capacities of 1 make "full" one step away; order inside a queue of two or more
farms' tasks is therefore not exercised. `MaxFaults` 1 bounds crashes, failed
updates and early lease expiries, `MaxMoves` 1 rebalances and restarts,
`MaxRetry` and `MaxTries` the configured retries: one fault at any point of a
two-relay run already yields duplicates, reclaims and late marks.
`pet_harvest` has two faults, because a stale command meets a second claim only
after a delay and a crash or loss. Its time unit is the minute a watering takes
off; `Duration` 3 is wheat, and with `Interval` 2 and `LeaseTTL` 1 a lease runs out
before the schedule moves, as with 15 and 30 seconds. `Yield` 3 of which a thief takes
a third stands for 5 and a fifth: both allow stealing until one crop is left. Only one plot is watered; the order in which
the plots ripen is open without a second.
`asset_transactions` needs three transactions because a circle through farm, crop
row and wallet has three members; a balance of 2 with a pet that costs 2
makes the pet compete with the shop. Requests are resent without a bound.
`FriendEdge` needs no bound: an edge, a row and a message have finitely many states, and
repeated deliveries change nothing.

In `gateway`, `MaxMoves` 3 lets a connection subscribe, switch and leave, or lose
the Pub/Sub connection in between, and one patch suffices to be missed; `MaxGuests` 1 puts
"full" one guest away (the code's limit is a constant); `MaxWrites` 2 and
`MaxCacheFaults` 1 let a fill of the first version meet the invalidation of the second and
either of them fail; `MaxQuantity` 2 makes the third key overflow; `Burst`, `Rate` 1
and `MaxClock` 5 refill and forget the bucket once; three tokens make two rotations
of one login or one of each of two logins; while connections are about, two tokens do, one exchange or two
logins, because connections look at the record only. A link that `ws:conn` does not name fetches once.
In `services`, `MaxMs` 2 and two sequence numbers let a
sequence run out and a reading come late; `MaxStarts` 2 restarts the preferred instance, with
`MaxLag` 1 and one broken watch or lost lease at any point; `MaxProjFaults` 2 with
`MaxTries` 1 are a crash or a retry anywhere, and the parking or a crash in that retry;
`MaxInviteFaults` 1 puts one failure anywhere and duplicates come from redelivery without
it, `MaxAccepts` 2 stands for three attempts; `MaxBackfills` 2 is a dry run before a real one or a run after a failed
one, with `MaxSourceWrites` 1 anywhere in it.

Deadlock is checked wherever the system never stops. In the `Actor` runs it is
off because `Stop` ends every goroutine. In `event_delivery` the second scenario ends when both
events have. In `gateway` and `services` parts come to rest: calls are answered, tokens
run out, a request whose row is DEAD leaves nothing to do.

Fairness. A scheduler and a worker are goroutines and each takes its enabled
steps (weak fairness each); nothing obliges callers to submit, operators to
stop, or eviction to run. Relays scan on a ticker and members loop in
`KafkaConsumer.Run` (weak fairness); backoffs and leases end because time
passes. In `PetHarvest` scanners run on the timer of `runPetLoop`, a command that
is not lost is executed, and time passes; a scanner or a command that outlasts a
unit of time is a fault, because the lease is chosen longer than either takes.
Owner and friends do as they like: `PetGetsRound` speaks of an owner who has
left, since one who races the pet for every crop can keep it from the others. In
`FriendEdge` a PENDING row is published or given up, a published message is handled or
parked, and the compensation runs on the ticker of `runFriendEdgeCompensationLoop`;
nobody has to accept an invitation. In `RouteControl` controllers reconcile on their
ticker, dead leases expire, and the resolver's loop reads events and opens its watch again.
In `ViewerHub` timers fire and goroutines make the calls they owe; in `Sessions` a
published kick arrives and a connection told to close runs its clean-up. Crashes, faults,
rebalances and broken connections are never obliged to happen.

## 4. Proofs

`FarmCommitProofs` holds for any numbers of commands, keys, instances,
transactions, attempts, epochs and turns, from `CommandAssumption` and
`BoundAssumption`.

The properties are not inductive. `IInv` adds: every request, actor, transaction
and hot snapshot carries an epoch that was published with that instance
(`RouteInv`); at most one transaction holds the row, and what it saw when it
locked still holds (`LockInv`: this is what turns the check of `LockRow` into a
fact at `Commit`); receipts and the history name each other (`HistoryInv`);
an answer on its way is already true (`AnswerInv`); a waiting actor has
exactly its own transaction (`WaitInv`); and a hot snapshot is never ahead of the
row, with the fence at least its epoch (`HotInv`). `Invariance` proves it with one
step per action; the others follow:

| Theorem | Says |
|---|---|
| `TypeCorrect` | `TypeOK`, no transaction tries more often than `MaxAttempts` |
| `AtMostOnce` | `AppliedAtMostOnce`: across resends, orphaned transactions and owners |
| `AnswersTruthful` | `AckedIsApplied` |
| `NoLostUpdate` | `AppliedToSeenVersion` |
| `OwnersInOrder` | `EpochsInOrder` |
| `SingleWriter` | `WritersFenced`: a transaction runs only under an epoch published with its instance and reached by the durable fence |
| `HotMonotonic` | `HotNeverRewinds` |
| `Refinement` | `FarmCommit` implements `FarmLedger` |

`PetHarvestProofs` holds for any farm, crop, interval, jitter, lease, number of
scanners and of faults, from `FieldAssumption` and `PetAssumption`. `PetTypes` proves `TypeOK`,
whose `PlotOK` is the part that matters: growth lost equals waterings counted, and
thieves leave something. It is inductive because a second watering counts only after the
first and `Steal` asks for more than a share. `PetKeepsPace` proves `PetPaced` from
`PaceInv`: an instant is never nearer than what is left of the interval since
the last harvest (`due + since >= Interval`), so a command that finds its own instant
come finds the interval over.

`ActorRuntimeProofs` holds for any number of farms, tasks, shards, workers, channel and queue
capacities, and any limit of actors. `IInv` says where things are. A task lies in one place
of any line at most once (`Lines`), and a farm has one item in all the lines together: a
worker, `ready`, a parked scheduler or `completed` (`Apart`). Until a stop, `running` is set
exactly while the farm has such an item (`Marked`). Each item names the actor that exists
(`Alive`) and, if it is on its way to a worker, the snapshot that farm's last execution left
(`Current`). What has been accepted is what ran, then what is on its way, then the queue
(`Ordered`). `Asked` keeps tasks that were answered busy out of every line, and `Counted` is
`activeActors`. `SerialPerFarm`, `NoStaleSnapshot`, `RejectionIsFinal` and `BooksBalance`
follow. None of it needs the channels' capacities, so the stuck hand-over of
section 5 costs progress and never order.

`EventDeliveryProofs` holds for any events, keys, poison, relays, batches, members, retries,
faults and rebalances. For `RelaysInStep` the row has to name its holder: while there is no
fault, a relay that has a row in hand is the one written in it, and a row in hand is
PUBLISHING with a lease that has not run out. An event a relay is about to
tick off is in the topic; `InOrderIsOnto` is the lemma that a published batch
contains each of its events. For `CommittedIsSettled` everything before the message a
member is at, as far as the member fetched it, has to be settled; for `CreditedOnce` the
unique ledger key decides, and a member that is past the credit has seen it.

`AssetTransactionsProofs` holds for any requests, slots, attempts and prices. Row locks are exclusive,
and `ChecksStand` is the core of it: what a transaction was told about a row when it locked it
stays true for as long as it holds the lock, because everything that changes the row needs
that lock. So a balance is still right when it is written (`NeverNegative`,
`NothingLost`), a claim that was open still is (`EffectsOnce`), and a purchase or sale
rests on its unique key. `Conserved` counts units one by one (`Tallies`), so that the sum over all
requests changes by one effect at each commit. For `NoCircularWait`: who waits for a
lock that another has holds one lock and wants a later one (the order farm or claim,
wallet, inventory), so the third of a chain of waits wants an inventory row, which nobody
holds while waiting.

`CropsAddUp` of `PetHarvestProofs` is the same counting for the yields of the plots.

`ServicesProofs` holds for any instances, restarts, calls, codes, events, members, tables, rows and
shards, part by part, each with an invariant of its own:

* `FriendEdge` (`AnnouncedAtMostOnce`, `FriendTypes`, `FriendsForGood`). A message in the topic
  has an outbox row, and an acknowledgement exists only once the edge that answers is
  ACTIVE. So when `ConfirmSource` announces, the other edge is ACTIVE already and cannot be
  confirmed a second time.
* `RouteControl` (`EpochsHaveOneOwner`, `ResolvesForward`). The epoch key is never below an
  epoch that was claimed, and a claim takes the next one, so two claims differ whatever lease
  expired between them. The gateway's copy, the changes on their way to it and the published
  route are in the order of their epochs (`Trail`); only a route deleted by its lease
  breaks the trail, and then there is nothing to go back to.
* `Invites` (`InvitedOnceHolds`). Whoever has inserted a friendship and not committed it holds its
  unique key: no other call has, and no committed row (`HoldsKey`). A code leads to the one who
  created it (`OwnCodes`).
* `Accounts` (`OneAccountHolds`). An ID's remainder is its shard (`GlobalIdOfShard`), so
  two rows that share a key, name or ID, are on one shard and meet at its unique index; a call
  that searches has passed only shards without an account of the device (`Sound`). That
  generators repeat IDs (section 5) does no harm. Nothing is assumed of where names were
  copied to: an account copied under a name off the name's home is `Overlooked`, and of the others the
  property speaks. Devices need no such exception, because they are searched for.
* `Projections` (`ProjectedOnceHolds`). What is done for good of an event is its record or the effects
  that a member at work is past. A task's progress is never behind the events that count for it
  so, and coins are the tally of the rewards claimed (`Tallies`).
* `Backfill` (`BackfillIsWhole`). A target holds only rows of the source, unless some were deleted
  meanwhile; a subset with as many members is the whole set, which makes the final comparison of counts
  enough (`AuditStep`).

`ServicesTyped` puts the six invariants together. Assumptions
are those on the constants in the modules: what was imported has unique keys and lies where its
ID leads, tables are listed, sets of events and rows are finite, bounds are numbers.

`GatewayProofs` holds for any sessions, sockets, tokens, readers, connections, farms, mails,
calls, rates and quantities, part by part in the same way:

* `Sessions` (`TokensOnce`). A token that was exchanged has no key and gets none (`Spent`): what is
  handed out next is new to every key, and a rotation or migration takes away the key it uses. So of
  a login one token at most has a key, and an exchange passes it on (`OneAlive`). It takes nothing for granted of
  which session a token is presented with. A logout deletes the key of the record's token, which is the
  login's only one.
* `ReadCache` (`LedFillsHold`). What a reader holds that has made the call itself: under the
  generation it read, if that is still the generation, the value is no older than the last
  invalidation (`Current`). No reader's generation is ahead of the cache's
  (`Honest`), so an invalidation makes what all of them hold old at once. `Generations` bounds the counter.
* `ViewerHub` (`WatchedFarmsHeard`). Goroutines make their calls to the subscriber late and in any
  order, so what holds in between is a sum: references, and calls still owed that add one, are the
  calls owed that take one and 1 if the farm is watched (`AddsUp`). It needs that
  only one connection is the first on a farm (`Hooked`).
* `Mailbox` (`BadgeIsRight`). A row belongs to the one open call that wrote it, so a commit changes the
  count by what it wrote (`RowsHeld`). No summary is newer than the mailbox, and the
  newest is shown, on its way to the connection, or missed (`WillShow`). A registration counts
  as a miss, whatever was fetched before it, so nothing needs to be known of the time between
  the opening and the registration.
* `Admission`. What any span of time has let through and what the bucket still holds, refilled to
  one time, are together at most `Burst` (`SpanPaid`); a bucket that is forgotten would have been
  full, because `IdleTTL` is long enough even for a call that read the clock `MaxDelay` earlier
  (the last part of `AdmissionAssumption`). A late call takes the clock of the bucket back, but never by more than its
  debt (`DebtBounded`).
* `EconomyCoalescer` (with `Admission`: `LimitsAreKept`). A bucket's total is what its distinct keys
  ask for (`Sums`), and nobody joins a bucket that its flush has taken out of the map (`Grows`), so the
  command stands for all who wait. `BuyAssumption` is what the handlers check of a quantity.

* `ServiceCalls` (`CallsTellTruth`). A call goes out over HTTP only after an answer that the
  service gave without running it, so it runs once; neither translation of errors makes a
  final answer of one that is not (`WritesCode`). The tables of fields are compared service by
  service, and a public handler demands all that the internal one does.

`GatewayTypes` puts their types together. Two bounds need an argument of their own: a farm's
references are at most the connections, because whoever still owes the end of one has left the farm
(`HooksShort`), and the mailbox's version is the unread mails plus twice the read ones
(`AddedUp`), because a mail is read once.

Only model-checked: liveness, and the four divergences of section 5.
Liveness needs ENABLED under fairness and stays with TLC.

## 5. Findings

* `actor_handoff_stuck`. `completed` of each shard is bounded by the number of
  workers and `ready` is shared. With two shards, both schedulers can block on
  a full `ready` while the only worker blocks on the full `completed` of one of
  them: no farm makes progress until the runtime stops. With one shard
  (`actor_one_shard`) it cannot happen: to have something to dispatch the
  scheduler has just emptied a place.
* `event_order`. A publisher comment promises one farm's events in order. Two
  relays, or one failed row and its backoff, publish a later event first.
* `read_cache_refill`. The cache wraps the client that shares calls. A request that
  reads the generation after an invalidation can join a call that began before the commit,
  and its fill stores the old value under the new generation. The entry is served until
  it runs out or the next write. `LedFillsAreCurrent` holds: only joining does it.
* `account_ids`. `Next` starts the sequence over whenever the millisecond differs, an
  earlier one included, and Register reads the clock before it hashes the password. Late
  readings, without any step of the clock, give an ID twice. The primary key refuses the
  second row (`OneAccountEach` holds), and the user is told that the name exists.

Seen while modelling, each in the model and none a run of its own:

* A task of target 1 is inserted ACTIVE with its progress full and becomes
  claimable only with a second event (`mysql_task_service.go:87`), while the domain's
  comment says it becomes COMPLETED at its target. `ProjectedOnce` states what holds.
* Two mutual acceptances activate both edges through `ApplyRemote`, and then
  neither `ConfirmSource` writes the `friend_accepted` event its comment promises. A
  request that goes DEAD after it was published leaves FAILED on one side and
  ACTIVE on the other.
* `Submit` of the coalescer holds its lock when an overflow enters the bucket's `once`; if
  the timer is inside that `once`, its `flush` waits for the lock, and every purchase of
  the process waits with it (`economy_coalescer.go:108`, `:130`, despite the comment at
  `:60`). A retry of a key in the next window is sent under a new `cmd_id` and buys
  again. No process constructs the coalescer.
* `MarkRead` and `MarkAllRead` are not retried when they lose a deadlock, unlike the other
  transactions; `MailClient.MarkAllRead` goes over HTTP in every mode.
* Accounts registered before the split lie on the shard of their ID and are looked up on that
  of their name (`sharded_account_service.go:23`): only guests are searched for everywhere. So
  "the same username therefore always reaches the same shard" (`:21`) holds of what is looked up and not of
  where the backfill put it, and Register makes a second account for such a name. The instance of
  `services` has one, and `OneAccountEach` excepts it by name (`Overlooked`).
* A live refresh token is accepted with any session ID that has no record (`refresh_store.go:91`), whether
  or not it was handed out for that session. The record of its own session stays and names a token
  that has no key, and logging out of it then finds nothing to delete; several logins can,
  one after the other, come to name one session. `TokensUsedOnce` holds all the same.
* A client sees its connection open at the upgrade (`handler.go:287`), and the gateway registers it in a
  goroutine of its own (`:321`), where a failure is only logged. A badge fetched in between may miss the next
  change, and shows the old count until another change or fetch; `BadgeSettles` speaks of clients that
  have fetched since they were registered.
* The backfill's counts miss a row deleted and another written meanwhile, and friendships
  are not counted again at the end.

## 6. Not modelled, and why

* Retention: it deletes terminal rows of the outbox, receipts, dedup records and mails of a
  configured age in batches. The models hold within that age, which has to exceed Kafka's
  retention (a message redelivered after its dedup record is gone is new) and the time in
  which a client may resend a `cmd_id`.
* Farm write path: `checkFriendship`, a read, and the contents of outbox payloads.
* Publishing row by row without a batch publisher, and the in-memory loop of
  `workersvr`: development modes.
* Discovery of gamesvr endpoints, readiness, signals and shutdown order: client plumbing
  and process life without protocol state of their own; what a stop of a farmsvr does to
  its keys is in `RouteControl`, what that of a gateway does to its sessions in `Sessions`.
* Configuration, logging, metrics and tracing.
* Generated protobuf code; load tests and load fixtures, which are clients.
* List reads with cursors (mails, friends, catalog, assets) and field conversions.

## 7. Plan

The components of section 1 are modelled. What is left is proof and depth.

1. Refinements: `RouteControl` implements the `Claim` of `FarmCommit`; an abstract friendship
   implemented by `FriendEdge`.
2. The coalescer's lock as a step of its own, should a process come to use it; retention
   against redelivery in `EventDelivery`.
