# Verification of the Gradido Blockchain Connector

TLA+ modules, TLC configurations and TLAPS proofs for the connector: the HTTP/JSON server that keeps
users' encrypted keys, signs their transactions, sends them through iota (or directly to a Gradido
Node) and follows what becomes of them. Paths below are relative to the root of the repository.

## 1. The system

A Poco HTTP server runs one handler object per request on a pool of worker threads
(`src/GradidoBlockchainConnector.cpp`, `src/JSONInterface/JsonRequestHandlerFactory.cpp`). Handlers
share three process-wide singletons and one database. Two other servers take part: iota, which stores
messages, and the Gradido Node, which reads them, decides, answers questions about the chain and
calls the connector back.

| Component | State | Operations | Talks to |
|---|---|---|---|
| `PasswordEncryptionRateLimiter` | set of user names whose key is being derived | wait for a slot, derive, give the slot back, time out | called by login |
| `SessionManager`, `model::Session` | cache name -> session, expiring after the last access | login, loginOrCreate, getGroupId, createNewUser, getSession | limiter, database |
| tables `group`, `user`, `user_backup` | rows with unique keys | load, save | SessionManager, transaction handlers |
| `ConnectionManager` | bounded pool of connections | getConnection | every database user |
| `JsonTransaction` and its three handlers | per request only | read, look up recipient, ask the node, sign, send, list | sessions, node, iota, pending list |
| `PendingTransactions` | bounded list of sent transactions | push, update, list | handlers, `/notify`, `/listPending` |
| `gradidoNodeRPC` | none | five JSON-RPC calls | Gradido Node |
| `VersionsManager`, `Migration` | table `migration` | migrate | database, called by `main` |
| `ServerConfig`, `main` | configuration, private key | start, serve, stop, unload | all of the above |
| `JsonRequestHandlerFactory`, `JsonOpenConnection` | none | dispatch by path; token for another community | `ServerConfig` (private key) |
| `JsonListTransactions` | per request only | ask the node, look names up, decrypt memos | node, table `user`, sessions |
| `JsonPackTransaction`, `JsonSendTransactionIota` (v1) | buffers of the `MemoryManager` | pack unsigned transactions; check signed ones | only the client connects the two |

What is hard about it, and hard to test:

* Nothing spans several statements. Login, user creation and migration are sequences of single
  statements; another worker, another instance, a failure or a crash comes in between.
* The session cache is keyed by the user name alone and replaced by whoever comes last, while tokens
  stay in the clients' hands.
* The limiter polls. A waiter times out, and a derivation can throw with the slot taken.
* A login holds one connection while it takes a second one from the same bounded pool.
* iota and the node are concurrent with the handler: a verdict can overtake the handler's own
  bookkeeping, a call can fail after it had its effect, verdicts can repeat and contradict.
* A cross group request sends two transactions, and the second can fail.
* The pending list lives in memory: a restart empties it while verdicts are under way.
* What the connector tests before it sends (balance, sum of the month) is what the node has confirmed
  by then, and old transactions are not tested at all.
* `main` frees the keys after `stop()` without waiting for the handlers at work.
* Buffers of the `MemoryManager` are given back by hand, on some of the paths.

What makes each part correct:

* limiter: never more derivations than cores, never two for a name, no slot lost except by a throw,
  every call returns;
* sessions: a usable session holds what the database holds, a token opens the key pair it names, a backup is
  missing only when its creation was cut short, every login is answered;
* pending list: the reply is the newest transactions with the outcome of all their verdicts;
* sending: a success was really sent, whatever was accepted can be followed, an inbound half has its
  outbound half;
* sending: the node refuses a transaction the connector has tested only if another one overtook it;
* start-up: no instance serves on an incomplete schema, migrating can be repeated after a crash, and a
  handler finds the key it needs until `unload()`;
* list of transactions: the page that was asked for, every memo readable by both parties, every known
  party of a transfer named, nobody misnamed;
* v1: an answer is whole or empty, what was packed can be sent, buffers are lost in known cases only.

## 2. Modules and how they correspond to the code

`PROJECT.json` maps each definition to its lines. Names of the source are kept where TLA+ allows it.

**`PasswordEncryptionRateLimiter`** (`src/PasswordEncryptionRateLimiter.cpp`). `mRunningEncryptions` is
the `std::set`; `limPc`, `limUser` and `waited` are each thread's position, argument and timer. The
mutex is released around `createKey` and the sleep, so each critical section is one action: `Check`
(test and insert), `Release` (erase). `CreateKey` and `CreateKeyThrows` are the unlocked derivation.
`WakeUp` is a sleep of any length, followed by the timeout test *before* the next check, as in the
loop. `leaked` is history: names whose derivation threw.

**`PendingTransactions`** (`src/model/PendingTransactions.cpp`, `JsonTransactionListener.cpp`,
`JsonGetPendingTransactions.cpp`). Each method locks from start to end and is one action. The list is
a sequence, oldest first; `Found` is the reverse search, `Judged` the early return for confirmed
entries, `Pushed` the trim from the front. `NotifyRejected`, `NotifyConfirmed` and `NotifyIgnored` are
the paths of the listener: a rejection names its transaction by the `messageId` parameter, a
confirmation by the id in the block. `RestartList` is the end of the process: the next one starts with
an empty list. The history `sent` records every push with its verdicts and `earlier` is how many of
them belong to earlier processes; the properties compare the list with it.

**`TransactionTracker`** is what the list promises (the doc comments of `src/model/PendingTransactions.h`):
a log without a limit and without a search, in which a verdict settles the newest transaction of its id
and a confirmation is final, and a reply with the newest entries. `PendingTransactions` implements it:
the log is the outcome of each history record since the last restart, the reply is `listAsJson`
(`Tracker`, `ImplementsTracker`). A verdict for an evicted transaction changes the log and not the reply.

**`Sessions`** extends the limiter (`src/SessionManager.cpp`, `src/model/Session.cpp`,
`src/model/table/Group.cpp`, `User.cpp`, `UserBackup.cpp`, `src/JSONInterface/JsonLogin.cpp`). One
action per statement or call of a login: cache lookup, the limiter's steps, connection, second
connection in `Group::load`, group query, group insert, user select, user insert, backup, cache add,
token. Unique keys decide the races. `DbFails` fails any of the statements, `Restart` stops the
process anywhere, `Tick` lets sessions and tokens age, `getSession` is the access of a later request.
A key pair is a number; there are as many as pairs of a name and a group and workers together, which is
proved to be enough for a generated one to be always new. A password stands for its derived key and its
hash, a group for its alias and its id.

**`TransactionSend`** extends `PendingTransactions` (`src/JSONInterface/JsonTransaction.cpp`,
`JsonTransferTransaction.cpp`, `JsonCreationTransaction.cpp`, `JsonRegisterAddressTransaction.cpp`,
`src/GradidoNodeRPC.cpp`). A handler reads its request, looks the recipient up, asks about the address
and the amount, prepares (signs, validates), compares the decay if there is one to compare
(`ValidateApolloDecay`, which asks the node again), submits, pushes and goes on with the second half or
answers. Each can fail the way the code lets it fail: answers distinguish an error reply and an
exception that leaves `handle()`: `handleSignAndSendTransactionExceptions` throws on what it does not
list, so a creation or registration answers some failures with an error and any other leaves it, while
every failure of a transfer leaves it (`SendFails`). `SubmitFails` includes a call that had its effect. Archived
transactions skip the questions and get an id that depends on their content only. `Restart` ends the
process at any moment: the list is empty, and the requests at work are never answered (`crashed`).
`Decide` and `Notify` are the external node: it confirms only what the confirmed transactions allow, may
reject anything, and reports at any time, repeatedly or never. The history `seen` is what was confirmed
when the handler asked; each message carries it along. `ArchiveAge` is the code's threshold, 60 hours;
the properties speak of the 1 hour of its comment (`OneHour`, `IsYoung`). The chain counts a transaction once per id, even
if the same bytes were sent twice. `MessageIds` bounds how many transactions can be sent.

**`Startup`** (`src/GradidoBlockchainConnector.cpp`, `src/ServerConfig.cpp`,
`src/model/table/VersionsManager.cpp`, `Migration.cpp`). The order of `main`, with each statement of
`migrate` an action: load the rows, skip, `CREATE TABLE IF NOT EXISTS`, insert the row (duplicate key
throws), serve. `outcome` and `starts` are history: why an instance went down, and which starts there
were. Several instances of several releases share the database; `Fail` kills one anywhere.

**`Serving`** extends `Startup` by what follows (`src/JSONInterface/JsonRequestHandlerFactory.cpp`,
`JsonOpenConnection.cpp`, `JsonUnknown.cpp`, `JsonLogin.cpp`, `src/ServerConfig.cpp`): the private key
from `initServerCrypto` to `unload()`, the dispatch of a request to its handler, the two handlers that
read the key, and the three steps of the shutdown (`StopServer`, `unload`, `Exit`) with a handler still
at work. Every step of `Startup` is a step of `Serving`. Reading a key that is not there is undefined:
any answer, or the end of the process.

**`PackTransaction`** (`src/JSONInterface/JsonPackTransaction.cpp`, `JsonSendTransactionIota.cpp`). The two
requests of v1 and the client between them. A request to pack is a record of what the code looks at;
its aliases are any strings, well formed or not, since only the send looks at their format. Which of its
transactions the library accepts is part of the request, for each half of a pair on its own, and building
can throw. `held` counts the
buffers a client's requests have taken and not given back, released exactly where the code does it.
`Send` lets the client send what it got or something else, with any mix of signature pairs.

**`ListTransactions`** (`src/JSONInterface/JsonListTransactions.cpp`, `JsonTransaction.cpp` for the memos,
`User::loadUserNamesForPubkeys`). A memo is a text with the set of people whose keys open it.
`encryptMemo` and `decryptMemo` are modelled by what they do, the empty string for a failure included.
The request's page, page size, order and choice of creations are copied into the call (`jsonRpcParams`);
the node (external) answers with that page of the chain as it is at that moment, its entries in any
order. The call to the node, the query and the loop are separate steps; registrations and transactions
come between them. In the loop `base64ToBin` throws for a text that matches the regular expression and
is no base64 (`x===`), which ends the request (`FillThrows`). The decay entry of the node's answer has no
other party and possibly no type; `hexToBin` fails for its empty key and the loop goes on.

**`MC...`** modules only add symmetry sets and, for sending, the sets of requests.
**`...Proofs`** modules hold the theorems, one for each of the modules above; `SessionsProofs` extends
`RateLimiterProofs`, `ServingProofs` extends `StartupProofs` and `TransactionSendProofs` extends
`PendingTransactionsProofs`, as the modules they are about do.

Definitions called `XMutant_Y` are variants of `X` with a plausible bug. No specification uses them;
they are there to demonstrate that each property does notice such a bug.

## 3. Runs

Passing runs:

| Run | Instance | Shows |
|---|---|---|
| `pending_list` | 2 ids, 1 error, list of 2, 4 pushes, 2 verdicts each, restarts | `ReplyIsRecentOutcomes`, `ConfirmedIsFinal`, `ImplementsTracker` (refinement) |
| `sessions_race` | 2 workers, 1 name, 2 groups, 2 passwords, 2 addresses, 3 logins, pool of 3, 2 cores, one tick, one restart | `SessionMatchesRow`, `TokenKeyIsStored`, `TokenOpensItsKey`, `BackupMissingOnlyIfInterrupted`, and of the limiter in it `SlotsExact`, `OneEncryptionPerUser`, `LeakedSlotIsFinal` |
| `sessions_live` | 2 workers, 2 names, 3 logins, 1 core, patience 1, pool of 2, no support key | `EncryptionsBounded`, `EveryLoginIsAnswered`, `EveryCallReturns`, also when the only slot is leaked |
| `send_all` | 2 handlers, 10 kinds of request, 4 ids, list of 3, restarts | `SuccessMeansSent`, `AcceptedIsTracked`, `InboundFollowsOutbound`, `VerdictIsGenuine`, `NodeRefusesOnlyOvertaken` |
| `startup` | 2 instances, 2 releases, 6 starts, a handler each, 11 paths | `ServingIsMigrated`, `RecordedIsCreated`, `HalfwayHasWorker`, `MigrateIsRepeatable`, `HandlersFindTheKey` |
| `v1` | 1 client, 2 aliases and a malformed one, either half invalid, up to 6 buffers lost | `PackIsWhole`, `PackedCanBeSent`, `BuffersLostOnlySo` |
| `list` | 3 people, one of them asks for one of 2 pages, chain of 2, memos encrypted or plain of 4 texts (ordinary, base64, almost base64, empty) | `AskedPageIsShown`, `MemosReadable`, `OnlyOddMemosEndTheList`, `NamesShown` |

Each module's type invariant is checked in its first run.

Why the bounds are enough to be interesting:

* limiter: it is checked inside the logins, with one core and two names, where the second worker waits
  for the slot or times out (patience 1 separates the two), and with two cores and one name, where the
  name and not the number of cores keeps the second worker out; both with derivations that throw. The
  theorems cover every other size.
* list: four pushes of two ids overflow a list of two and repeat an id, listed or already evicted; two
  verdicts allow reject then confirm and confirm then reject; a restart in between makes the third and
  fourth push the first ones of a new process.
* sessions: two workers with one name is the smallest race for a row and for the cache; three logins
  let a third one see what the race left; a pool of 3 lets one worker but not always both have the
  second connection; duration 1 and one tick expire a session; one restart cuts a creation short at any
  step. In `sessions_live` a pool of 2 is exactly one connection each, where a waiting pool would
  deadlock.
* sending: four ids serve two cross group requests completely, and the fourth push evicts from the
  list of three; balances and limits are such that one request passes and two do not. Requests are 0, 1,
  60 and 61 hours old, with and without a transaction nr: on both sides of the code's threshold.
* start-up: with six starts both instances can crash at several statements and come back, together or
  one after the other, with the same or another release, and both can be serving or shutting down.
* v1: handlers of two clients share nothing but the counter of buffers, to which each only adds and
  subtracts its own, so one client is enough; it may go on until four or more buffers are lost, which
  two or more requests have to cause.
* list of transactions: a chain of two has one transaction before and one after the node was asked; the
  third person is the one who is, or is not yet, registered and takes no part in the other transaction.
  One request is for everything, the other for the second page of one creation in ascending order: on a
  chain of two a wrong page, size, order or choice of creations each can give another list.

Deadlock is not checked where the model really stops: all logins, requests or starts of the bound
are used up.

Fairness. `FairSpec` of `Sessions` assumes weak fairness of each worker thread's next step and
nothing else: the operating system schedules a runnable thread, `createKey` is a finite computation,
sleeps end, and calls to the database return or fail. No fairness is assumed of clients, of the clock
or of a successful outcome. A worker's failing step is always among the steps fairness may take, so
liveness never rests on things going well.

Runs that show a disagreement between the code and what the repository says of it:

| Run | Statement | What happens |
|---|---|---|
| `login_group` | `API.md:34` a login creates the user in the group it names | a cached session of the same name in another group is used |
| `token_timeout` | `API.md:120` a timed out token is refused | the expiration is written and never read |
| `backup_missing` | `config/blockchain_connector.properties:31` keys can be recovered with the passphrase | a missing support key is noticed after the user was saved; the next login succeeds without a backup |
| `notify_early` | `PendingTransactions.h:75` the state follows the node's verdict | a verdict between iota's answer and the push finds no entry |
| `empty_memo` | `API.md:457` memos are decrypted | an empty memo is encrypted like any other and listed as ciphertext: for `decryptMemo` it looks like a failure |

Disagreements met while modelling that no run states, because they are about one line each and the line
shows them. No property of a passing run says the opposite of the quoted statement: where the two differ,
the properties hold for either.

* `JsonTransaction.cpp:63` compares with 60 * 60 * 60 s while the comment on line 62 says "older than
  1 h". The model has the code's 60 hours; `NodeRefusesOnlyOvertaken` promises the checks only to
  requests that are young in the words of the comment.
* `API.md:119` says "invalid ip" means that the login which created the token came from another
  address; `SessionManager.cpp:67` compares with the session that was cached last for the name. When two
  logins from two addresses miss the cache together, the token of the first is refused from its own
  address. `TokenOpensItsKey` says which session a token opens.
* `TestJsonPackTransaction.cpp:420-438` (`CrossGroupTransferSameGroups`) expects one transaction for two
  equal aliases; `JsonPackTransaction.cpp:85` makes a pair as soon as both are given. `PackIsWhole` leaves
  open which it is for equal aliases.
* `TestJsonSendTransactionIota.cpp:92-95` expects an `iotaMessageId` of 64 characters in a success; the
  send and that member are commented out (`JsonSendTransactionIota.cpp:87,91`), so a success sends
  nothing. `PackedCanBeSent` speaks of the answer only.
* `API.md:456` says "replace all pubkey with name from db if found"; a creation keeps the name of the
  node's answer although its signer was found (`JsonListTransactions.cpp:71-75`). `NamesShown` allows
  either name in a creation.
* One plain memo made elsewhere that looks like base64 and is none (`x===`) takes the whole list with it:
  `base64ToBin` throws (`JsonTransaction.cpp:280`). `OnlyOddMemosEndTheList` says that nothing else does.
* `API.md:218` documents "unknown recipient user"; `User::load` throws (`User.cpp:48`), so the null tests
  after it (`JsonCreationTransaction.cpp:59`) are never true and the client gets the exception's answer.
* `/packTransaction` hands out transactions for group aliases that `/sendTransactionIota` then refuses;
  no document says otherwise, and `PackedCanBeSent` says so.
* After a crash between `CREATE TABLE` and the insert of its migration row, a newer release would keep
  the old table and record it as new (`VersionsManager.cpp:56`); every schema version is 1 at this
  commit, so this waits for the first schema change.

## 4. Proofs

Every invariant, action property and refinement of the passing runs is also a theorem. The theorems hold
for every value of the constants that satisfies the named `ASSUME`s: finite sets of threads, names and
groups, at least one core, a list limit of at least one, versions that are positive numbers, at least
one possible request, and requests of the shape the handlers read (a creation never crosses groups, a
registration is of the signer's own address; pages and page sizes are positive). The bounds of the runs (`MaxSent`, `MaxTime`,
`MaxRestarts` and so on) are arbitrary naturals in the proofs. Each theorem rests on an inductive
invariant, and each of these was model-checked as well.

* `RateLimiterProofs`. `EncryptionsBounded` and `OneEncryptionPerUser` are not inductive: that no other
  thread derives a key for the name about to be inserted follows only from the set being exact.
  `LimInv` adds `SlotsExact` and `LeakedSlotIsFinal`; the latter makes `Release` safe, since the name it
  erases must be neither leaked nor used by another thread. The bound on threads follows from an
  injection of the encrypting threads into the running names. Theorems `LimTypeCorrect`,
  `LimiterCorrect`, `NoDoubleEncryption`, `SlotsAreExact`, `LeakIsPermanent`.
* `SessionsProofs`. `SessInv` adds what a worker knows at each step (`WorkerInv`): it works on the
  session of the name it was asked for; before the user's row is found or inserted the session has no
  key pair; afterwards the row of exactly this session is stored, and rows are never changed or deleted.
  `EntryInv` says the same of each cache entry. With the uniqueness of rows, `StoredKeysBounded` and
  `FreshKeyIsNew` count the key pairs in use: one is always left. The limiter's invariant carries over,
  `Restart` being the one step that is not a step of the limiter. Theorems `TypeCorrect`,
  `SessionsMatchRows`, `TokenKeysAreStored`, `TokensOpenTheirKeys`, `BackupsAreAccounted`,
  `LimiterHoldsInSessions`.
* `PendingTransactionsProofs`. `PtInv` says the list is a window on the history: entry *j* shows the
  outcome of transaction *Dropped + j*, where what was sent before the last restart counts as dropped.
  The heart is that the reverse search finds, in the list, the transaction that is the newest with its
  id in the whole history, or nothing when that one has left the list, and that judging an entry is the
  same as recomputing the outcome with one more verdict (`JudgedIsOutcome`). Theorems `PtTypeCorrect`,
  `ReplyCorrect`, `ConfirmedStays`, an action property that uses the invariant before and after the
  step, and `TrackerImplemented`, the refinement of `TransactionTracker`: a push is its send
  (`PushIsSend`), an update its settling or nothing (`UpdateIsSettle`), a restart its restart.
* `TransactionSendProofs`. `SendInv` adds to the properties what each handler knows (`HandlerInv`): which
  half comes next, that the outbound half it refers to was accepted and listed, and that the node's
  answers hold on what it had seen (`CheckedOn`). These answers stay valid because equal ids have equal
  content and nothing that was confirmed is taken back (`ContentInv`, `LedgerStable`); they still decide
  the case when nothing with the same address was confirmed since (`CheckedIsAllowed`), as the sums the
  node computes are then sums over the same set. That verdicts are genuine is proved of the history and
  carried to the list by the window. Theorems `SendTypeCorrect`, `SuccessIsSent`,
  `AcceptedStaysTracked`, `HalvesAreOrdered`, `VerdictsAreGenuine`, `ChecksAreMeaningful`;
  `SendImplementsList` shows that the whole path is an implementation of `PendingTransactions`, hence
  `ReplyCorrectInSystem`.
* `StartupProofs`. `StInv` says what an instance may rely on: each table behind its position, or found
  on record, has a row new enough for it (`KnowsItsTables`). It survives the steps of other instances
  because tables and rows are only ever added (`DatabaseGrows`). `StHistoryInv` relates the rows to the
  starts there were: rows appear in the order of the tables, an instance that was alone knows every row
  there is, and one at the front of a halfway migration is at work on it. Theorems `StTypeCorrect`,
  `MigratedBeforeServing`, `RowsVouchForTables`, `HalfwayIsWorkedOn`, `MigrationRepeats`.
* `ServingProofs`. `ServingImplementsStartup` (`SvSpec => StSpec`) makes the theorems above hold of
  serving instances; `SvTypeCorrect`; `HandlersAreServed`, from the invariant that a handler implies an
  instance that serves or shuts down, and that serving before `unload()` implies an accepted key.
* `PackTransactionProofs`. The handlers share only the counter of buffers, so `PackInv` is one invariant
  per client: what is built is what the request asks for, an answer is that or nothing, what is held is
  what the known paths lost, and a send is answered by what was asked. Nothing is assumed of the aliases
  or of which transactions are valid. Theorems `PackTypeCorrect`, `AnswersAreWhole`,
  `PackedIsSendable`, `BuffersAreAccounted`.
* `ListTransactionsProofs`. `ListInv` says that the chain's memos are plain or encrypted for the two
  parties (`ChainIsSound`) and what a person's request knows at each step (`ListerInv`); both survive
  registrations and confirmations in between, since rows and transactions are only added: a page of the
  first *n* transactions stays that page when the chain grows, so the page the node has given remains
  among those the client may have meant. Theorems `ListTypeCorrect`, `AskedPagesAreShown`,
  `MemosAreReadable`, `OnlyOddMemosEnd`, `NamesAreShown`.

Only model-checked: the liveness properties `EveryLoginIsAnswered` and `EveryCallReturns`, which need
fairness and `ENABLED`. Left opaque in the proofs: the sums of amounts (`Total`) and of connections
(`PoolUsed`), of which the theorems need only that equal sets have equal sums. No module uses
`RECURSIVE` operators.

## 5. Not modelled

* Cryptography and conversions: hash collisions of derived keys, signatures, base64 and protobuf. Where
  they can fail the model lets them fail.
* The arithmetic of `validateApolloDecay`; when it is compared is modelled, the result is a choice.
* `LIKE` wildcards in table lookups, the SQLite variant of schemas and statements, and the case of its
  `hex()` in `loadUserNamesForPubkeys`.
* One pool of connections shared by logins and transaction handlers: `Sessions` has the pool, the other
  handlers' single connections are held within one step of theirs.
* The buffers of the v2 handlers and of `JsonOpenConnection`, some of which stay taken after an error,
  and the `GradidoTransaction` objects of v1 that `release()` leaves without an owner.
* Answers of the node with members missing, on which `JsonListTransactions` relies, and members of a
  request for a list that are not documented (the copy loop forwards them as well). What the node does
  with page and order is external, taken from `API.md`.
* Which equal aliases or malformed ones the library itself would refuse when it builds a transaction:
  it may refuse any.
* `Session::verifyPassword`, the second overload of `getSession` and with it the use of the token of
  `JsonOpenConnection`: nothing calls them.
* Logging, configuration parsing except for the private key, the command line, and
  `UnknownTableNameException` for rows no version of this program writes.

## 6. Plan

Done: limiter, pending list and its abstract tracker, login, sending with restart, start-up and serving,
the v1 requests, the list of transactions; proofs of every safety property and refinement the runs check.

Worth adding next:

1. The pool: `PoolUsed <= PoolMax` for any number of workers, which needs lemmas about the sum over a
   finite set that change one summand at a time.
2. Action properties of the tables: rows of `user` and `migration` are never changed or taken back, as
   theorems of their own; the invariants already use it step by step.
3. More of what a token is good for: an abstract specification of login and `getSession` that says which
   session a token opens, and `Sessions` as its implementation.
4. The buffers of the v2 handlers, in the style of `PackTransaction`.
