# dataset-service in TLA+

Specifications of the dataset service, TLC configurations that check them on
small instances, and TLAPS proofs of the theorems that matter most. Every
definition is translated from the Go sources under `src/`; `PROJECT.json` maps
each one to the lines it stands for and lists the runs, the mutations every
property was tried against, the hazards and the theorems.

## 1. The system

Two ways lead to the same database.

* **Synchronous**: browser → nginx → one of three API processes (`cmd/api`) →
  services → repositories → PostgreSQL, with files in an S3 bucket. nginx sends
  every POST/PUT/PATCH/DELETE to one process and spreads GETs over all three. The
  API has two versions; version 1 knows no actor.
* **Asynchronous**: HTTP → `cmd/gateway` → `cmd/core` → `cmd/data` → PostgreSQL,
  and back, over four durable RabbitMQ queues. Each of the three can be scaled.

| Component | State | Operations | Talks to | What is hard | What makes it correct |
|---|---|---|---|---|---|
| gateway (`cmd/gateway`) | map of wait channels, by correlation id | ~30 HTTP handlers, all through `rpc`; reply listener; files of versions go to S3 before the request | bus, S3 (the bucket of the API, keys of the same form) | timeouts racing answers, replies eaten by another replica, lost broker connection, a file whose request is refused, lost or late | an answer is final, and true; a stray file has a reason |
| core (`cmd/core`) | wait channels, ids of processed messages | check actor/role/owner (with look-ups), forward, answer | bus | one delivery at a time, waits inside the handler; redelivery; checks older than the effect | only permitted requests run; refused ones do not |
| data (`cmd/data`) | ids of processed messages | 29 message handlers against the database, reply | bus, PostgreSQL | commit, reply and ack are separate steps; duplicates | a request runs again only because something failed |
| message bus (`internal/messaging`) | four queues, unacked deliveries | publish, consume, ack, reject, requeue | RabbitMQ | no reconnect | nothing is lost or doubled without a failure |
| dataset service | – (rows and objects) | create dataset, add version, delete, download URLs, update | PostgreSQL, S3 | two stores without a transaction, best-effort cleanup with the request's context, read-compute-write of version numbers | a reported version downloads as its file; a failure leaves nothing |
| two-factor service | challenges, lockouts (memory) | start, verify, debug code | e-mail, users | several challenges per user, expiry, restart | attempts are limited, a code logs in once, a lockout holds |
| token service | revocations (memory) | issue, check, revoke | – | seconds against instants; several processes | a token lives its TTL; a revoked one is refused |
| nginx | – | routing, cache | API processes | memory of one process is not that of the others | – |
| users | rows | register, change (PATCH completes from an earlier read; PUT), delete | PostgreSQL | look-up before insert, two reads before one write, cascades and restrictions of a deletion | unique e-mail; a conflict is real; only an overlap loses a change |
| categories | rows | create, change, delete (restricted by datasets) | PostgreSQL | deletion racing a dataset that moves in | unique name; no dataset without its category |
| datasets as rows | rows | list, view, PATCH, DELETE, digest (summary, fun fact) | PostgreSQL, cat facts, OpenAI | checks and reads are separate calls | what is shown was open to its reader |
| reviews | rows | create, change, delete, list (per dataset, one query each) | PostgreSQL | visibility read once for many queries | as above |
| access requests | rows | request, approve, deny | PostgreSQL | find-then-insert, unconditional status update | an approval is not undone by a stale request |
| subscriptions | pairs | subscribe, unsubscribe | PostgreSQL | find-then-insert, find-then-delete, two ids packed in 64 bits | an operation takes effect once, at one moment; ids unpack |
| notifications | rows, read flag | fan-out to the subscribers, the actor's own, mark read | PostgreSQL | one insert each without a transaction, stops at the first error | a fan-out that ends well reached everybody |
| CLI, GUI, web pages, frontend, tooling, wiring | – | clients of the above | – | – | – |

## 2. Modules

| Module | Models |
|---|---|
| `AsyncRpc` | gateway, core, data service and the bus between them, any number of replicas, with crashes, restarts and lost connections |
| `RpcContract` | what the asynchronous path promises: an atomic service as clients and the database see it |
| `AsyncRpcProofs`, `AsyncOrderProofs` | TLAPS proofs about `AsyncRpc`, for all values of the constants; the second, which extends the first, is about the time before anything fails |
| `DatasetUpload` | creating a dataset, adding a version through the API or the gateway, deleting a version or a dataset, over database and bucket |
| `DatasetUploadProofs` | TLAPS proofs about `DatasetUpload` |
| `Authentication` | passwords, two-factor challenges, lockouts, tokens, revocations |
| `AuthenticationProofs` | TLAPS proofs about `Authentication`, for all values of the constants |
| `AccessRequests` | asking for access to a private dataset, approving and denying |
| `AccessRequestsProofs` | TLAPS proofs about `AccessRequests`, for all values of the constants |
| `Database` | the tables of the synchronous API and the repositories' statements on them, with cascades, restrictions and unique keys |
| `Requests` | a request of either version of the API: authentication, checks, reads, writes, failing calls, histories |
| `Users`, `Categories`, `Datasets`, `Reviews`, `Subscriptions`, `Notifications` | the handlers and services of one resource each |
| `Community` | all of them composed on one database, with the properties |
| `SubscriptionContract` | what subscribing and unsubscribing promise: atomic operations on a set of pairs |
| `CommunityProofs`, `SubscriptionProofs`, `HistoryProofs` | TLAPS proofs about `Community`, each extending the one before: tables and requests; subscriptions and what is shown; changes and fan-out |
| `MC*` | instances of these for TLC |

### AsyncRpc

*State.* `client` is what each HTTP client has seen, `pending` the wait channels
of each gateway, `core`/`data` the delivery each replica works on, the two
`…Processed` variables the duplicate maps, `rows`/`executed` the database, and
`toCore`, `toData`, `fromData`, `toGateway` the queues `gateway.core.cmd`,
`core.data.cmd`, `data.core.evt`, `core.gateway.evt`. `status` is a replica that
is up, that has lost its broker connection (`Bus.consumeLoop` returns and nothing
reopens it, so it answers HTTP and consumes nothing), or that is down.

*Actions.* `Submit` is the publishing half of `gatewayApp.rpc`, `GatewayReply`
and `GatewayDropReply` the reply listener, `GatewayTimeout` the end of the
handler's context. `CoreReceive`, `CoreLookupReply`, `CoreForwardReply`,
`CoreTimeout` and `CoreAck` cut `handleGatewayMessage` at every point where it
waits; `CoreDropReply` is the reply of somebody else's call. `DataReceive`,
`DataExecute`/`DataReject`, `DataReply` and `DataAck` cut `handleCoreMessage`
between delivery, commit, publish and ack, since a failure may fall between any
two of them. `Crash`, `Disconnect` and `Restart` are the failures.

*Abstractions.*
- A queue is a set. With a prefetch and competing consumers deliveries overtake
  each other, and no two published messages are equal.
- The count of failures stands for fresh uuids: a message is published again only
  after a failure, so (request, step, failures) names it.
- The request types fall into classes by what `enforceAccess` demands and what
  the data handler needs and deletes. For subscriptions the rule is that the
  payload's user is the actor, which the gateway fills in itself: they are of the
  class where an actor is enough. Health messages and unknown types cannot be sent
  through the gateway and are left out.
- A publish fails exactly when the connection is lost; then the Nack fails as well
  and the broker requeues. Bodies that do not decode, and with them the dead-letter
  queue, cannot occur between these services.
- SIGTERM cancels the contexts and then exits: a `CoreTimeout` or `DataReject`
  followed by a `Crash`. A client that goes away is a `GatewayTimeout`.
- Deadlines carry no clock: the core's and the gateway's may fire in any order.
- A database error after the commit (an ambiguous result) is not modelled.

### RpcContract

Per request: submitted once, answered once, executed only if permitted, and never
answered `ok` before it took effect; a deleted dataset takes its versions along.
`AsyncRpc!ImplementsContract` is the refinement: the same `client`, `rows` and
`executed`, everything else hidden.

### DatasetUpload

An operation is one HTTP request; its steps are its calls to repositories and
bucket, in the order of the code: `InsertDataset` | `FindDataset`,
`ListVersions`; then `Upload`, `Stamp`, `InsertVersion`, `PersistMetadata`, and
on failure `CleanObject`, `CleanVersion`, `CleanDataset` (`cleanupDataset`, whose
errors are ignored). Every call may fail; `Disconnect` cancels the context of the
request, after which every call of it fails, the cleanup included; `Crash` stops
all requests of the API process, or all of the gateway. Rows are named after the
operation that inserts them. "Reported" is what the service reports; the read for
the answer, which changes nothing, comes after it.

The gateway uses the same bucket and the same form of key. `StoreFile` uploads the
file under a number of the client's choice before anybody has looked at the
dataset, `Publish` sends the request, `VersionAdded` is the insert by the data
service, which comes at any time afterwards or never (`queued`), and `AddAnswered`
is the answer, an error whenever the request was refused, lost, late or its client
gone. `DeleteVersion` removes a row and leaves the object. Which requests the core
lets through, and that a failure may repeat one, is the matter of `AsyncRpc`; here
a request takes effect at most once, since a repeated insert adds a row with the
number and the file of the first.

`crowded` is a history variable: the datasets that two uploads were under way to at
the same time. Properties that need a single writer say so through it, instead of
the model keeping writers apart; for the same reason they exclude datasets that
another upload came to through the gateway (`Relayed`), whose number may be the
one that the API gives next. Upload dates are distinct and increase (`clock`); ties
are not modelled. Operations end, so the runs do not check deadlock (nor do those
of the other modules, whose requests and time end).

### Authentication

`StartChallenge`, `WrongCode`, `RightCode`, `ExpireChallenge` are `twoFAService`
as the login handlers call it, `PasswordLogin` the login without a second factor,
`UseToken` the bearer check on a GET by any instance, `RevokeToken` the POST that
nginx sends to the writing instance. `Unix`, `Exp` and `PastExp` keep the two
comparisons of the token service apart: `GetToken` compares whole seconds,
`isRevoked` points in time. `Restart` empties the memory of an instance. Time is
in ticks, two to the second. Passwords are right and codes right or wrong;
signatures are sound; users are not deleted; the lag of a read replica of the
database is not modelled. Both settings of `DISABLE_2FA` are covered, since both
login paths are enabled side by side.

### AccessRequests

An operation is a POST or a PATCH of `/api/v2/access-requests`; its steps are its
calls to the database. `FindDataset`, `FindRequest` and then `InsertRequest` or
`ResetRequest` are `accessService.Request`; `CheckDecision` and `WriteDecision`
the PATCH handler with `Approve` or `Deny`; `Show` the read both handlers answer
with. `SetPublic` and `DeleteDataset` are other people's requests. Because of the
unique constraint the pair of dataset and user names a row. The reads before a
decision are one step: owners never change, and a row that is gone stays gone, so
the outcome depends on the last of them (a row missing for the first read is an
internal error, for a later one "not found"; both are possible). Every call may
fail (`MaxFaults`); a failed write writes nothing. `overtaken` is a history
variable: the asks that were about to reset a row when it was approved. Rows go
with the dataset only; users are not deleted.

### Database, Requests and Community

*State.* `db` holds the tables users, categories, datasets, reviews, subscriptions
and notifications; a free row is `NoRow`. For each request `pc` is the step it is
at or its answer, `seen` the row its handler has read and `loaded` the row its
service has read, which for a PATCH are two reads; `todo` what a loop has left;
`shown` the datasets whose data is in the answer; `admins` the requests whose actor
was an administrator when its token was checked.

*Actions.* `Receive` is `BearerAuth` with the checks before the first call. Each
further action is one call to a repository, or one call outside, with the branch the
code takes on its result: `ReadRow` and `ReloadRow` for the two reads, `Write…`,
`Delete…`, `Insert…` for statements, `ShowRow` for the read that the answer is made
of, `Collect`/`Notify`/`NotifyActor` for the fan-out, `ListDatasets`/`Rate`,
`ListReviewed`/`ListReviews` for the lists. No transaction spans two calls, so
other requests come between any two. `CallFails` is a call that fails; the table
`Failure` says what each service makes of it (two take it for a missing row, the
list of reviews goes on without).

`Database` gives each statement the result the repository makes of PostgreSQL's:
`ok`, no row, a constraint it knows, or another error. `DELETE` of a user cascades to
reviews, subscriptions and notifications and is refused for the owner of a dataset;
`DELETE` of a category is refused as long as a dataset is in it.

*Histories.* `wrote` (requests whose write was committed), `stale` (columns of its
row that others changed since a request read it), `public` (datasets that were
public at some time since it came), `loyal` (subscribers of its dataset who have
been so since it came). They restrict nothing; the properties read them.

*Abstractions.* `Text` stands for every column that no rule reads. What a decoder
rejects never reaches a service, so `WellFormed` describes what is let through.
Ids come from a sequence: a request that inserts has its id in `on`, and no other
has (`FreshIds`). The arithmetic of ratings, pagination, the filters on category,
text and rating, and what the services outside answer are left out. Versions and
access requests have modules of their own, with the deletion of their dataset as an
action.

*SubscriptionContract.* `Community!SubscriptionsKeepContract` is the refinement: the
same set of pairs; a subscription operation is "done" once it wrote, "refused" if
it ended with a conflict or not found, "failed" otherwise.

## 3. What is checked

| Run | Instance | Shows |
|---|---|---|
| `async_scaled` | 2 gateways, 2 cores, 2 data, two deletes that meet | answers are final; the system implements `RpcContract` |
| `async_access` | 1 gateway, 2 cores, 2 data, stranger and owner | only permitted requests run; refused ones leave no trace; a waiting client's request is in flight |
| `async_failures` | 1 + 2 + 2 replicas, one failure of a core or a data replica, fair, an owner-checked insert | `ok` is true; redelivered requests are not swallowed; failures pay for repeats; every queue drains, every client gets an answer |
| `async_single` | one replica each, three failures of gateway and core | a waiting core's message or reply is in flight until the first failure; a steady data replica executes once |
| `async_scaled_replies` | 2 gateways, 2 cores, no failure | **violated**: replies are consumed by replicas that do not wait for them |
| `upload_failures` | a new dataset and a seeded one, two uploads to it through the API and two through the gateway, its deletion and that of a version, in four mixes of three or four; three faults | table consistency, files of reported versions, numbering, cleanup, stray files |
| `upload_same_file` | two uploads of a file of the same name, no fault | **violated**: a reported version downloads as another file |
| `auth_sessions` | writer and reader, one user, two challenges, two tokens, a restart | see the properties below |
| `auth_last_second` | one instance, one token | **violated**: a revoked token is accepted again in its last second |
| `access_decisions` | three asks of one user, an approval and a denial by the owner, an approval by an administrator, two faults | rows respect the foreign key; only the owner decides; an approval stands against later asks |
| `access_twice` | two asks of one user, no fault | **violated**: the second of two concurrent asks gets an internal error, not a conflict |
| `community` | an administrator, an owner and a user on two datasets, 24 mixes of three to six of 61 requests, one failing call | tables, subscriptions against their contract, lost updates, conflicts, fan-out, what is shown |

The four violations are disagreements between the code and what the repository
says of it; `findings` quotes both. `AsyncRpc` and `DatasetUpload` state the
property that does hold next to each (`WaitingRequestIsInFlight` with one gateway,
`LoneSuccessKeepsFile`, `RevocationHoldsHere`). That a revoked token stays valid
on the other processes of the read pool follows from the same model (take two
instances in `AuthLastSecond.cfg`).

Notable properties:
- `ImplementsContract`: owner look-ups are several messages older than the
  execution they allow; still, seen from outside, the service is atomic.
- `OkMeansExecuted`: a reply is believed on its correlation id alone; look-ups
  and forwarded requests share one reply queue.
- `FailuresPayForRepeats`: delivery is at least once, the duplicate maps are per
  process and filled late. Repeats do happen: one per failure.
- `SteadyReplicasExecuteOnce`: what the duplicate map of the data service does
  achieve. The one of the core achieves nothing: `RedeliveredRequestIsNew` shows
  that no request it has processed ever comes back to it.
- `FilelessVersionWasCleaned`, `StrayFileHasAReason`, `FailureLeavesNothing`: what
  the best-effort cleanup guarantees, with its exceptions (a failed cleanup call; an
  added version whose upload failed, which has no cleanup at all; a key that two
  uploads share), and that the gateway, which has no cleanup, leaves files without
  rows but never rows without files. `LoneSuccessKeepsFile` and `NumbersFollowDates`
  hold for datasets whose uploads did not cross and did not come through the
  gateway: a number chosen by a client can be the one the API gives next, and the
  two versions then share a key if their files have one name.
- `WrongCodesArePaidFor`: open attempts and wrong codes of a user never exceed
  what its challenges allow; `LockoutHolds`: a lockout from one challenge also
  holds for the others; `BlockedOnlyByOldChallenge`: the only way around a block;
  `TokenLivesItsTTL`: cutting `exp` to a second never shortens a token's life.
- `ApprovalsStand`: the status is written without a condition on the old one, so
  an ask that found the request denied may reset an approval that came in
  between. This is the only way; an ask that comes after the approval never does,
  whatever fails (an error of the look-up leads to the insert, which the unique
  constraint refuses).

- `SubscriptionsKeepContract`: both operations look first and write later, and a
  deletion may cut in; still each takes effect at one moment, and a refusal was
  true at one.
- `OverwrittenOnlyByOverlap`: PATCH writes whole rows completed from an earlier
  read. It does undo concurrent changes of other columns; it undoes nothing that was
  committed before it read. For users the password is the exception the code makes.
- `FanOutReachesSubscribers`, `FanOutBreaksForACause`: everybody subscribed all along
  is notified if the fan-out ends well, and without failing calls it ends badly
  only over a row that was deleted, never over the notifications of an earlier try.
- `ShownWasReadable`: lists and digests read data after they checked access; what
  they show was open to the reader at some time since the request came. Reviews
  asked for by their dataset or author are open to everybody in the code, whatever
  the dataset, so the property leaves them out.
- `ConflictIsReal`, `DuplicateRegistrationIsConflict`: the answers of the two races
  for an e-mail. A third one is not answered this way: two *changes* to one free
  e-mail race, and the loser's unique violation is an internal error
  (`user_repo.go:170` maps only the insert's; `docs/openapi.yaml:1870` names 409).

### Bounds, and why they are enough

- `MaxFailures`, `MaxFaults`, `MaxRestarts` limit failures. One failure of the
  asynchronous path already opens every window between two steps of every
  replica; `async_single` takes three, because the effect of the duplicate map
  shows only when the same request is published several times. Three faults in
  `upload_failures` are a failing call, a failing cleanup call and a lost client or
  crash of somebody else. One failing call in `community` reaches every entry of
  `Failure` at every step; requests do not repair each other, so a second one adds
  no new meeting.
- Two requests (`r1`, `r2`) of one dataset with one version are the smallest
  instance where requests meet: the request that is looked up and the one that
  deletes what was looked up. Every scenario of `MCAsyncRpc` is one such meeting.
- Two replicas of a service are the smallest number where a reply can go to the
  wrong one. Replicas are interchangeable except for `Fallible`: the runs with
  symmetry let all or none of a service fail.
- `MaxTime`, `MaxChallenges`, `MaxTokens`: six ticks are three seconds, more than
  the life of a challenge, a lockout and a token each (2–3 ticks); two challenges
  are needed for a lockout to matter to another one, two tokens for a token to
  revoke another.
- The mixes of `upload_failures` are the meetings of uploads there are: of the API with
  each other and with a deletion, with one of the gateway whose number is taken, with
  two of the gateway (one number taken, one free), and with the deletion of a version.
- The mixes of `community` put together requests that share a row or a loop: each pair
  of look-up and write with its rivals, each read-modify-write with two others, each
  loop with the deletions that hit it. Two datasets, one public and one not, three users
  and two who register, two categories and two to be created are what these requests
  can tell apart. `IdWidth` is 6 where the code has 2^32; what matters is that ids are
  below it, which `DecodeEncode` proves enough for any width.
- Three asks in `access_decisions` are the one that creates the row, one that
  overtakes a decision and one that comes later; one approval, one denial and one
  stranger's decision exhaust the kinds of decision.

### Fairness

Only `EventuallyDrained` needs it, in `async_failures`, which checks `FairSpec`; the
requests of the synchronous API are answered by whoever runs them or die with it, and
their properties are all about safety. `Fairness` has weak fairness of each goroutine
that loops or waits: the two consumers of a core, the consumer of a data replica,
the listener of a gateway, and the context deadlines. It is weak because each of
these, once enabled, stays enabled or is disabled by its own step or by a failure.
Nothing promises that a request comes, that a failure happens or that anybody
restarts a replica; `Fallible` leaves one core and one data replica alone.

## 4. What is proved

`AsyncRpcProofs` proves, with TLAPS, for any sets of replicas and requests, any
assignment of owners and any number of failures of any replicas:

| Theorem | States |
|---|---|
| `TypeCorrect` | `Spec => []TypeOK` |
| `OkTruth` | `Spec => []OkMeansExecuted` |
| `Authorisation` | `Spec => []OnlyPermittedExecuted` |
| `Finality` | `Spec => AnswersAreFinal` |
| `Refinement` | `Spec => ImplementsContract` |
| `Redelivery` | `Spec => []RedeliveredRequestIsNew` |
| `OneGatewayLosesNothing` | `OneGateway` implies `Spec => []WaitingRequestIsInFlight` |
| `FailuresPay` | `Spec => []FailuresPayForRepeats` |
| `SteadyReplicas` | `Spec => []SteadyReplicasExecuteOnce` |
| `RefusalsAreTruthful` | `Spec => []RefusedMeansUntouched` (in `AsyncOrderProofs`) |
| `OneCoreLosesNothing` | `OneCore` implies `Spec => []CoreWaitIsInFlight` (in `AsyncOrderProofs`) |

from `ReplicasAssumption` (the three services have different replicas, those of the
data service are finitely many, so that they can be counted),
`RowsAssumption` (every dataset has an owner, every version a dataset),
`ShapeAssumption` (a request names a row of its own table) and
`NoMessageAssumption`, all four evaluated by TLC in every run of `MCAsyncRpc`.

None of the safety properties is inductive: `client[r] = "ok"` says nothing of
where the answer came from. The invariant `IInv` adds

- `OkIsBacked`: every `ok` that is still somewhere (in a data replica after its
  commit, in `fromData`, in `toGateway`) for a forwarded request is about a
  request that was executed;
- `ChecksPassed`: every message a core waits on, in `toData` or in a data replica
  is `Cleared`: a forward only for a request whose owner was checked, a look-up only
  for one that is admissible. It carries the ownership check, made in one step, to
  the execution several steps later, across requeues;
- `Accepted`: whatever travels belongs to a request that was submitted;
- `PendingWaits`: a registered wait channel belongs to a client that waits, and
  only one gateway has it, which gives `Finality`.

There is one lemma per action, and under it one step per conjunct the action can
disturb; `Refinement` maps each action to an action of `RpcContract` or a stutter
with the same lemmas.

The two hypotheses are the property's own limits. `OneGateway` (there are no two) is
needed because replies go to whichever replica takes them: `async_scaled_replies` shows
`WaitingRequestIsInFlight` violated with two gateways and no failure, and the run that
checks it, `async_access`, has one. `OneCore` is the same for the replies of the data
service; `async_single` checks `CoreWaitIsInFlight` with one core.

The counting theorems need invariants of their own, all proved over `IInv`:

- `Delivery`: a request is in the queue of the core or with one core, never both
  (`OnePlace`); a core that is up remembers only requests whose answer was published
  (`Remembered`), which gives `Redelivery`; a client waits only while a handler of some
  gateway does (`Handled`). With one gateway, the waiting client's request or its answer
  follows, through every failure.
- `Paid`: what can still make a request run (`Chances`) is the request itself before its
  forward, each copy of the forward in `toData`, and each replica that has received one.
  Executions and chances together never exceed one more than the failures: a step moves
  one to another or drops it, and only a failure, which requeues, adds one.
- `Deduplicated`: a data replica runs only what its map does not hold (`Noted`), so with
  steady replicas (`SteadyUp`) the executions of a request are at most the replicas that
  have run it (`Counted`), however many copies the failing cores publish.
- `Calm`, until the first failure: there are no repeated messages (`First`), the steps of
  a request come in order (`InOrder`), the data service sees a message once (`SeenOnce`),
  hence a refusal either comes from a check, before any forward, or is the result of the
  only execution there can be (`Truthful`); either way the request can no longer run
  (`Dead`).

`AuthenticationProofs` proves, for any users and instances, any length of a second, of a
challenge, a lockout and a token, and any numbers of attempts and restarts, from
`AuthenticationAssumption` (the lengths are positive, as `normalizeTwoFACfg` makes them,
and the writer is an instance):

| Theorem | States |
|---|---|
| `TypeCorrect` | `Spec => []TypeOK`, with an attempt left in each open challenge |
| `CodesAreUsedOnce` | `Spec => []CodeLogsInOnce` |
| `BlockStopsNewLogins` | `Spec => []BlockedOnlyByOldChallenge` |
| `TokensLive` | `Spec => []TokenLivesItsTTL` |
| `RevocationsHold` | `Spec => []RevocationHoldsHere` |
| `LockoutsHold` | `Spec => LockoutHolds` |
| `WrongCodesPaid` | `Spec => []WrongCodesArePaidFor` |

Its `IInv`, which TLC found invariant on both authentication instances first, adds that
nothing is dated later than now and every token has its challenge (`Dated`), that what a
blocked user still has is older than the block (`OlderThanBlock`), that the writer
forgets a revocation only when the token is past its end (`RevocationsKept`), and that a
lockout's end is not moved while it lasts (`LockoutsKept`). `TokensLive` is arithmetic:
rounding `exp` down to a second and comparing whole seconds cancel out to less than a
second in the token's favour.

`WrongCodesPaid` is about a sum over the challenges, computed by a recursive function.
The library's induction theorems cannot be used here, so the section on sums derives from
the well-foundedness of the naturals that what goes from each number to the next has no
least counterexample (`UpTo`). With it, a table of partial sums exists (`SumExists`), the
recursive function of `OpenAttempts` is one (`SumsAreComputed`,
`OpenAttemptsAreTheSum`), and smaller summands have smaller sums (`SumsShrink`,
`SumsDrop`). Then the step that uses up an attempt makes the sum drop by at least one,
which pays for the wrong code it counts.

`AccessRequestsProofs` proves, for any datasets, users, operations and number of
failing calls, from `OperationsAssumption` (asks and decisions are different, every
dataset has an owner, an ask is about the row of its own user):

| Theorem | States |
|---|---|
| `TypeCorrect` | `Spec => []TypeOK`, with the foreign key and "never the owner's own row" |
| `OwnerDecides` | `Spec => []DecidedByOwner` |
| `ApprovalHolds` | `Spec => ApprovalsStand` |

Its `IInv` adds `Cleared`, which carries the checks of an operation from the step
that makes them to the write several steps later, and `ResetsAreOvertaken`: an ask
about to reset an approved request was so when it was approved. Both are needed:
neither the status of a row nor the step of an operation says alone what was
checked on the way.

`DatasetUploadProofs` proves, for any datasets, files, operations and mixes of them
and any number of failures, from `OperationsAssumption` (the kinds of operations are
disjoint, an upload aims at a dataset):

| Theorem | States |
|---|---|
| `TypeCorrect` | `Spec => []TypeOK`, with the foreign keys |
| `FilesGoByCleanup` | `Spec => []FilelessVersionWasCleaned` |
| `StraysAreExplained` | `Spec => []StrayFileHasAReason` |
| `FailuresLeaveNothing` | `Spec => []FailureLeavesNothing` |
| `NumbersAreOrdered` | `Spec => []NumbersFollowDates` |
| `SuccessIsKept` | `Spec => []LoneSuccessKeepsFile` |

The first four follow from `IInv`: which steps an operation of each kind goes through
(`Steps`), who knows of which row and date at which step (`Rows`), where an object
lies (`Keyed`), that an upload has its file from the upload on, before there is a row
(`AllFiled`), that a dataset an upload found has been created (`Founded`), that an
acknowledged row stays until somebody asks for its deletion (`AllListed`), and what
each step of the cleanup has left (`Leftovers`). The last two need `OrderInv` on top:
two uploads under way to one dataset have crowded it (`OneAtATime`), dates are distinct
(`Dates`), an upload that has its number is ahead of the versions that are there
(`Ahead`) and, once stamped, newer than they are (`Newest`), hence numbers follow dates
(`Ordered`); an upload keeps its file from the moment it stored it (`Secured`), because
whoever may overwrite or delete it has the same number, which `Ahead` and `OneAtATime`
exclude. `NextIsAhead` is the step that needs `FirstListed` to exist; `LatestExists`
derives that from the well-foundedness of the naturals.

`CommunityProofs` proves first that each statement of `Database` keeps types, `References`
and `UniqueKeys`. On it rest the theorems about `Community`, for any users, rows, requests, mixes and
number of failing calls, from `RequestsAssumption` (requests are well-formed, ids are
drawn once), `IdsAssumption` (ids fit into half a subscription id), `SeedAssumption` (the
tables are consistent at the start) and `FaultsAssumption`, which TLC evaluates in the
run `community`:

| Theorem | Module | States |
|---|---|---|
| `TypesAndTables` | `CommunityProofs` | `Spec => []TypeOK`, with foreign and unique keys |
| `DecodeEncode` | `CommunityProofs` | a subscription id leads back to its user and dataset |
| `SubscriptionRefinement` | `SubscriptionProofs` | `Spec => SubscriptionsKeepContract` |
| `NoDisclosure` | `SubscriptionProofs` | `Spec => []ShownWasReadable` |
| `LostUpdatesNeedOverlap` | `HistoryProofs` | `Spec => OverwrittenOnlyByOverlap` |
| `ConflictsAreReal` | `HistoryProofs` | `Spec => ConflictIsReal` |
| `DuplicatesAreConflicts` | `HistoryProofs` | `Spec => []DuplicateRegistrationIsConflict` |
| `FanOutIsComplete` | `HistoryProofs` | `Spec => []FanOutReachesSubscribers` |
| `FanOutIsRobust` | `HistoryProofs` | `Spec => []FanOutBreaksForACause` |

`IInv` of `CommunityProofs` adds to `TypeOK` what a request has read by the step it is at
(`Ready`, `Reading`); without it a write could use a row that was never there. `Unwritten`
says that a subscription operation which is still open has not written: a step either
leaves the tables alone or executes one statement, and other statements end
subscriptions only by a cascade. `AllDiscreet` is what a reader holds at each step
between the check and the answer. `AllFresh` says that a row is not there before the
request that creates it has written, so what is gone stays gone; `AllTracked` that a row
read earlier differs from the current one in `stale` columns only; `AllFanOut` that
everybody loyal is either notified or still to do.

Only model-checked: `EventuallyDrained`, since liveness under fairness is out of this
prover's reach. Every other property of a passing run has a theorem. Of the properties
of the violated runs only `WaitingRequestIsInFlight` has one, for the one gateway that
`async_scaled_replies` does not have.

## 5. What is not modelled

- The web interface (`internal/delivery/web`): server-rendered pages with sessions of
  their own over the same services.
- CLI, GUI, frontend and tools: clients, without state that the system depends on.
- Of version 1 of the API the listings, and `POST /datasets`, whose handler names no
  owner, so that `NewDataset` refuses every such request before it changes anything.
- Of version 2 the filters and the layout of lists, and views that only read.
- The fields that the handlers of the asynchronous path write. Its reads
  carry no actor and are refused by the core (`Admissible`), whereas
  `docs/async-architecture.md:7` demonstrates one.
- Memory growth: the processed maps of core and data service and the revocation map
  are never bounded in the code, and no property is about it.
- The nginx cache and mirror hosts, logging, metrics, configuration, wiring: see
  `components` for each.

## 6. Plan

What would come next, most important first:

1. `AsyncRpc` and `DatasetUpload` composed: repeated inserts of one version, which a
   failure between commit and ack makes possible.
2. The web interface as a third way into `Requests`, with its sessions.
3. `AccessRequests` on the tables of `Database`, so that approvals meet the deletion of
   users and the visibility of lists.

The definitions stand for about 7,400 of some 23,500 lines of Go and SQL; what is left is
mostly the web interface, generated API documentation, clients, tools and layout.
