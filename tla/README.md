# A TLA+ model of the DIOX Python SDK

`src/dioxide_python_sdk` is the Python client of a sharded blockchain node. It
composes, signs and sends transactions, waits until the node has confirmed them
together with the relay transactions they cause on other shards, deploys
contracts, reads state, and receives state changes over WebSockets. This
directory holds TLA+ modules of the parts of the client that do something over
time or that transform data with care, the TLC configurations that check them
on small instances, and TLAPS proofs of the safety properties that matter most.

The node is not part of the repository. It is modelled by what the client can
observe of it and is given as much freedom as its documented states allow.

## 1. The system

### 1.1 Components

| Component | Source | State it keeps | Operations | Modules |
|---|---|---|---|---|
| HTTP transport | `utils/rpc.py`, `utils/request.py` | `HTTPProvide.request_params`, one dict of the class, shared by every thread and client | `make_request`: encode, POST with a 10 s timeout, decode | `RpcTransport` |
| Table of RPC operations | `client/dioxclient.py` | none | `get_*`, `compose_transaction`, `send_raw_transaction`, `send_transaction_with_sk` | `DioxMethods` |
| Confirmation wait | `client/dioxclient.py:903-966` | locals: the fetched object, the queue of the walk, the start time | `wait_for_transaction_confirmed`, `is_tx_confirmed_with_relays` | `RelayWalk`, `ConfirmWait`, abstractly `AwaitCall` |
| Relay collection, events | `client/dioxclient.py:681-689, 945-957` | locals: the caller's object, the queue, the result | `get_all_relay_transactions`, `get_events_by_transaction` | `RelayCollect`, `EventsCall` |
| DApp and token creation | `client/dioxclient.py:751-779, 847-899, 968-990` | locals | `send_transaction`, `create_dapp`, `create_token`, `wait_for_dapp_deployed`, `wait_for_token_deployed` | `CreateDapp` |
| Contract deployment | `client/dioxclient.py:528-620` | locals | `deploy_contract`, `deploy_contracts`, `wait_for_deploy` | `DeployContract` |
| Subscriptions | `client/dioxclient.py:692-747` | `ws_connections`: thread identity to socket; per coroutine a socket | `subscribe`, `unsubscribe`, `__subscribe`, `__unsubscribe` | `Subscription` |
| State filters and handlers | `client/filters.py`, `client/handlers.py` | the executor's queue and its workers | five state filters with their handlers, `external_relay_filter`, `height_filter` | `StateFilters`, `StateDelivery`, abstractly `HandlerPool` |
| Argument serializer | `utils/serializer.py`, `utils/gadget.py` | `current_offset` and the values read | `serialize_args`, `deserialized_args` | `GclSerde`, `ArgsCodec` |
| Local composition | `client/transaction.py`, `client/contract.py`, `dioxclient.py:334-451` | the ISN and the timestamp read before the transaction is sent; on the node the account's ISN | `compose_transaction_local`, `serialize`, the contract identifiers | `LocalSend`, `TxLayout`, `LocalTx` |
| Input decoding | `decode_transaction_input` | none | early returns, then `deserialized_args` | `LocalTx` |
| Accounts | `client/account.py` | key pair, address, type | `from_key`, `from_json`, `jsonify`, `is_valid`, whether it can sign; the names of delegatees | `Accounts`, `Addresses`, `LocalTx` (partly) |
| Proof of work | `utils/gadget.py:17-97` | the nonce tried, the nonces found | `PowDifficulty`, `calculate_txn_pow` | `PowSearch`, `LocalTx` |
| Logger, statistics, configuration | `client/clientlogger.py`, `client/stat.py`, `config/` | none that the protocol sees | | not modelled |

### 1.2 How they interact

* Every operation of `DioxClient` is one or more calls of `HTTPProvide.make_request`.
  Operations run in the thread of their caller. There is no lock anywhere.
* The long operations are loops over short ones: a confirmation wait walks the
  relay tree with one RPC per transaction, `create_dapp` makes two waits, a
  refetch and three more traversals, `deploy_contract` a wait and a poll of the
  chain's height. The node moves between any two of those RPCs.
* A local send reads the account's ISN in one RPC and uses it in another;
  signing and the proof of work take their time in between, and the timestamp
  of a locally composed transaction was read when the module was imported.
* `subscribe` and `unsubscribe` only schedule coroutines on the client's event
  loop, which has a thread of its own. The coroutines share `ws_connections`
  with each other and with the threads that call `unsubscribe`.
* A message a subscription receives is filtered on the event loop and handled
  on a worker of the subscription's own `ThreadPoolExecutor` (32 threads). The
  user's handler may call the client again, from that worker.

### 1.3 What is hard here

* **Answers of different moments.** A verdict about a tree of transactions is
  made of many reads. In between, the node executes, finalizes, forks blocks
  out and executes again, perhaps with other relays.
* **Objects fetched before a wait and used after it** (`dioxclient.py:682`, 971).
* **State shared by threads without a lock** (`rpc.py:19`, `dioxclient.py:736`).
* **Await points**: registration, closing and removal of a socket are separated
  by awaits, and other coroutines run there.
* **Loops without a timeout** (`dioxclient.py:617`) and loops that only the
  clock ends (962).
* **A number read and used later** (`dioxclient.py:439`): sends that overlap
  take the same ISN.
* **A process older than the transaction's lifetime** (`transaction.py:53`). The
  client persists nothing; a restart only brings a new import time.
* **Failures after an effect**: an RPC that fails once the transaction is sent
  loses the hash of a transaction that goes on to be executed.
* **A binary format whose offsets have three different origins**, read back
  from data that may have been cut short.

PROJECT.json lists each hazard at its line with the properties aimed at it.

### 1.4 What makes each component correct

| Component | Correct means |
|---|---|
| Transport | a send happens only if asked for, with its own parameters, and is reported only if it happened; an answer belongs to its question |
| Confirmation wait | True covers every relay to any depth; a negative walk has a witness; the call returns |
| Relay collection, events | no event is invented; none is lost |
| DApp creation | the verdict agrees with what happened on the chain; the call returns |
| Deployment | a returned call has seen its build through; the call returns on a chain that grows |
| Subscriptions | a subscription goes on until it is ended; it can be ended; when ended, it stops |
| Filters and handlers | the handler gets exactly the matching entries; every match is handled; order is kept as far as a pool can |
| Local composition | sends that wait for each other never abort each other; a number is never left out; the header can be read back |
| Accounts | an account that was written down comes back, whichever of its three type notes is there |
| Proof of work | the work done is the work asked of the bytes that are sent |
| Serializer | what is written is read back, whatever was lost behind it |

## 2. The modules

Names of operators are those of the source where TLA+ allows it. An operator
whose name begins with `Faulty` is a deliberately wrong variant of the
definition it stands before, kept to measure the properties: put in that
definition's place it must break the property PROJECT.json pairs it with. No
specification uses one.

    AwaitCall                 what waiting for a transaction promises (abstract)
    RelayChain                the node: one transaction and its relays
      RelayWalk               breadth-first walk, one RPC per step
        ConfirmWait           wait_for_transaction_confirmed; implements AwaitCall
        RelayCollect          get_all_relay_transactions
          EventsCall          get_events_by_transaction
          CreateDapp          create_dapp (composes ConfirmWait and RelayCollect);
                              its second wait implements AwaitCall
    RpcTransport, DioxMethods make_request under several threads; the table of operations
    Subscription              subscribe, unsubscribe and their coroutines
    StateFilters
      StateDelivery           from a message to the user's handler; implements HandlerPool
    HandlerPool               what the executor of a subscription promises (abstract)
    DeployContract            deploy_contract and wait_for_deploy
    LocalSend                 sends numbered by the account's ISN, and restarts
    GclSerde
      ArgsCodec               serialize_args, then deserialized_args
      Addresses               DioxAddress, as the delegatee of a transaction
      TxLayout                the bytes of a transaction and its contract identifier
    Accounts                  DioxAccount
    PowSearch                 PowDifficulty, calculate_txn_pow
    LocalTx                   composes ArgsCodec, TxLayout (with Addresses), Accounts, PowSearch

`MC*` modules give the constants values for TLC. `*_proofs` modules hold the
theorems, each of the module it is named after; `RelayCalls_proofs` those of
`EventsCall`, `ConfirmWait` and `CreateDapp`, which share their lemmas about walks
and collections. `LocalTx_proofs` builds on `ArgsCodec_proofs` as `LocalTx` does on
`ArgsCodec`.

### 2.1 RelayChain (external), RelayWalk, ConfirmWait

`RelayChain` is what the client reads of the node: for each transaction a
`ConfirmState` (the seven values of `client/types.py` and "UNKNOWN"), whether
its invocation succeeded, and the list of its relays. A transaction arrives, is
executed with one of the `Outcomes` its constant allows, becomes final,
archived, is given up, is forked out of the chain again or, being a relay nobody
emits any more, invalidated. `Answer(ref)` is what `dx.transaction` replies; a
hash with a group index that is not the transaction's shard finds nothing, which
is why the code normalizes relay hashes.

`RelayWalk` is the queue of `is_tx_confirmed_with_relays` and
`is_tx_success_with_relays`. `AcceptRead(P)` is one turn of the loop whose
transaction satisfies P and whose relays are queued, `RejectRead(P)` the turn
that returns False. `ConfirmWait` is the call around it: `FetchOnce`, the walk,
`GiveUpWaiting` when the time is over, `SleepAndRetry` otherwise. Any RPC may
raise (`RpcFails`), and time may pass in it (`TimePasses`).

Time is counted in sleeps of a second, up to one more than the limit; what lies
beyond cannot be told apart by `elapsed > timeout`.

History variables: `seen` (what the walk has read and accepted) and `calm` (no
block was forked out since it began). Neither occurs in a guard.

`AwaitCall` is the wait without its requests: a world that is whole (the
transaction and all its relays are confirmed) or not, and a call that looks on
until it gives one verdict. True means that the world is whole at the moment of
the answer unless a block was forked out since the call last looked; False
means that the caller's time is over. `ConfirmWait!ImplementsAwait` maps the
ends of the call to the verdict, `\A t \in Closure : confirmed` to `whole`,
`calm` to itself and `elapsed > limit` to `late`; all the reads of the walk are
stutters or steps of the world. `CreateDapp!SecondWaitAwaits` does the same with
the second wait of `create_dapp`, whose `late` is about the timeout the **caller**
gave. Its first wait, with the default timeout, belongs to the world.

### 2.2 RelayCollect and EventsCall

The second half of `get_all_relay_transactions`: a breadth-first traversal that
starts from the object `snap` the **caller** fetched, not from a fresh one, and
reads each relay twice, once for the result (`ReadForResult`) and once for the
queue (`ReadForQueue`). `EventsCall` is `get_events_by_transaction`: fetch,
check the confirmation once, collect, keep the relays with `TMF_EXTERNAL`. A
transaction that is not confirmed yields None and the loop over None raises
(`NotConfirmed`). `steady` is the history variable: no block was forked out
since the object was fetched.

### 2.3 CreateDapp

`create_dapp` and `create_token` are the same call but for the function they
send. `phase` is the stage: compose, sign, send, first wait (inside
`send_raw_transaction`), second wait (`wait_for_dapp_deployed`), refetch, walk
for success, walk for confirmation, collection, verdict. The waits are the
actions of `ConfirmWait`, the collection those of `RelayCollect`. Composition,
signing and sending may each fail as the code lets them, and a send may fail
after the node took the transaction. The limit of the first wait is the default
of `send_raw_transaction`, that of the second the caller's `timeout`.

### 2.4 RpcTransport and DioxMethods

A call is four steps: `Encode` writes the method into the shared dict, `Post`
reads it, the node runs or refuses, the answer is read (`Receive`) or raises.
Every interleaving of two threads over the client's table of operations is
explored. The table has every operation that posts a request; one with optional
parameters has a row without any of them and a row with all, since what a node
accepts grows with the parameters. The constants `Keys`, `Reads` and `Fields` say
which parameters an operation puts in its body, which fields of the answer it
needs and which fields the node's answer has, so that a mixed-up call fails
exactly when the node or the client could notice. The fields of an answer are
those the comments in the source give it and those the source reads; the node is
not in the repository, so an answer the source says nothing more of
(`dx.committed_head_height`) has no more. That no such answer has a `Hash` is what
`ReportedSendHappened` depends on. The assumption that the node runs a method
when it finds the parameters it takes is the most permissive reading.

### 2.5 Subscription

Each subscribe call has one name for its socket, its coroutine and itself. The
thread identity it was made under is chosen in `Init` and never changes. `task`
is the program counter of `__subscribe` (connecting, sending, waiting, ended),
`sock` the state of the socket, `closes` the number of `__unsubscribe`
coroutines under way for it. An action ends where the code awaits: `Receive` is
recv, filter, submit and the next test of the loop condition in one step,
because none of these awaits. `Connected` registers the socket;
`EndClose` removes the entry after the awaited close. Connections break, filters
raise and messages arrive at any moment.

### 2.6 StateFilters and StateDelivery

`StateFilters` translates the five state filters and the five handlers
separately, as the source does: the filter asks whether an entry matches, the
handler builds a copy of the message with the matching entries; `Kept` is its
loop, turn by turn. `StateDelivery` is the rest of the way: `ReceiveAndSubmit` or
`ReceiveAndDrop` for one turn of the coroutine, `Take` and `Handle` for the
workers of the pool. A handler that raises frees its worker like one that returns.

`HandlerPool` is that promise without a queue and without threads: sets of the
messages whose handler has not begun, runs, and has ended. `HandledOnceInOrder`
maps the queue to the first, what the workers hold to the second and `given` to the
third. It says more than `OnlyRunningIsOvertaken`, which is about what has been
handled: handlers begin in order, no message is handled twice, and the number of
threads is a limit.

### 2.7 DeployContract

The stages of the call from the checks of the arguments to the end of
`wait_for_deploy`. The node enters the deployment into the schedule of
`core.contracts` with a target height when it executes it, unless it fails, and
removes it when it is built; a block that executed it may be forked out
(`ForkOut`, with the history variable `forked`). The client reads the schedule, takes the target height or -1, and
polls the chain's height. `ShowProgress` is `progress_bar`, which divides by
the distance between target and base.

### 2.8 GclSerde and ArgsCodec

`GclSerde` is the serializer: fixed types, strings, bigints, tokens, arrays,
maps and structs with their offset tables, and their readers. An exception is
the value None. `ArgsCodec` runs `serialize_args` over a call, hands over the
data or a prefix of it, and runs `deserialized_args` with its fallback parser.
The widths are constants (`Base` values of a byte, `LenBytes`, `StrLenBytes`,
`LimbBytes`) so that the edges come within reach of small numbers.

The serializer calls itself for the elements of arrays, maps and structs. The
modules write that call as a parameter, `serialize`, `deserialize` and (for
`RestorableValue`, what a value must be like to come back) `Restorable`. In the
runs they are `MCSerialize`, `MCDeserialize` and `MCRestorable`, which are the
operators `serialize_value`, `deserialize_value` and `RestorableValue` themselves; the
theorems assume the same (section 4). `Types` are the types in use with all they
are made of, and `Depth` is a number that is smaller for a part than for the
whole (`TypesAreNested`): a signature is finite text, so its types nest finitely.

### 2.9 LocalSend

Any number of calls send for accounts, some composing locally (`GetIsn`), some
on the node (`NodeCompose`). The ISN and the timestamp are fixed in one step and
used in a later one (`Send`); between them other calls, blocks, forks, the clock
and `Restart` go on. `Timestamp` is `imported`, the moment the process imported
the module, because the default of `__init__`'s parameter is evaluated once
(`transaction.py:53`); a restart imports it anew. `Send` may lose its answer,
and then nobody waits for the transaction. The wait is one step, `WaitReturns`,
as `AwaitCall` allows.

The node's side (`Execute`, `Finalize`, `ForkOut`, `Abort`, `Expire`) is external:
the ISN is "like Ethereum nonce" (`dioxclient.py:179`), used once and in order, and
the reasons for TXN_ABORTED and TXN_EXPIRED are those `client/types.py:51-52` give. History: `before` (what had returned when a call began), `returned`, and
`dies` (until when a transaction composed at that moment must live).

### 2.10 Accounts, Addresses, TxLayout, PowSearch and LocalTx

`LocalTx` follows one contract call through the client: `Load` reads the account
from one of its written forms, `Accept` or `Refuse` are the checks of
`compose_transaction_local`, `Arguments` and `Serialize` lay the transaction out,
`Sign` and `Work` are `sign_diox_transaction`, `Show` hands the bytes to the node
and `DecodeInput` and `ReadBack` read the arguments again. Stage "args" is
`ArgsCodec` alone, with the prefixes of its data.

`TxLayout` writes the header at its widths (`BytesOf(n, k)` are n's k low bytes;
where Python's `to_bytes` raises, `Fits` fails). `PriceExponents` allows both
results of the floating-point logarithm of a large price. `ByteBits` and `CoreSpan`
are the bits of a byte and of a core contract's scope, tied to `Base` by
`ByteHasBits` and `BitFieldsFit`. The readers
(`ttl_in`, `InputAt`, `InputIn`, `DelegateeIn`) find the fields by the mode, the way the node
and the test `tests/transaction_test.py` do; they are the measure, not code of the
client. `PowSearch` is the difficulty arithmetic at a smaller word and hash, with
`Power(n)` for the shifts by n bits; a nonce's hash is any of a set that lies around
the bound. `WordsAreWide` and `DifficultiesFit` say that the word has room for the
arithmetic: the largest transaction with the longest ttl is asked for a
denominator that is a sixteenth of the word's upper bit at most. In the code that
is 1.2e8 against 2^59. `Accounts` keeps of keys
and addresses whose they are and how long. `Addresses` checks a delegatee's name,
fills it up with zeros and reads it back; a character is its UTF-8 bytes.

## 3. The runs

| Run | Properties | Bounds | Result |
|---|---|---|---|
| `confirm_wait` | WaitTypeOK, TrueIsConfirmed, NegativeIsWitnessed, ImplementsAwait, CallReturns | 4 transactions at 3 levels, timeouts 0 and 1 | hold |
| `events` | EventsTypeOK, EventsGenuine, EventsCompleteIfConfirmedFirst | 4 transactions at 3 levels, 2 of them events | hold |
| `events_lost` | EventsComplete | the same | **violated** |
| `create_dapp` | DappTypeOK, VerdictIsExact, NoneIsNotIterated, SecondWaitAwaits, DappReturns | 3 transactions at 3 levels, callers' timeouts 0 and 2, default 1 | hold |
| `rpc` | TypeOK, SendsAreIntended, ReportedSendHappened | 2 threads, every operation of the client | hold |
| `rpc_mixup` | AnswersMatchQuestions | the same | **violated** |
| `subscription` | TypeOK, Stoppable, GoesOnUnlessSuperseded, OneLateMessage, FoundMeansStopped | 2 subscriptions, 2 identities, 1 buffered message, 2 overlapping closes | hold |
| `deploy` | TypeOK, ReturnedMeansBuilt, DeployReturns | delays 1 to 3, heights 0 to 6 | hold |
| `delivery` | TypeOK, DeliveredAsFiltered, OnlyRunningIsOvertaken, HandledOnceInOrder, EveryMatchDelivered | 9 subscriptions, 5 kinds of message, 4 messages, 2 workers | hold |
| `local_send` | TypeOK, AbortedMeansOverlap, NotExpiredEarly, EveryIsnSettles | 3 calls for one account, 2 of them local, ttl 0, clock up to 1, one fork, one restart | hold |
| `args` | TypeOK, CompleteArgumentsSurvive, OffsetIsExact, AccountSurvives, ReadsBack, WorkIsAsked | every pair of 34 arguments, some triples, every prefix of the data; 5 kinds of contract, 7 names of delegatees, both key types, header fields at the ends of their widths, ttls from 1 to one past their bits, 4 nonces, 6 hashes | hold |
| `args_roundtrip` | RoundTrip | the same | **violated** |

### 3.1 Why the bounds are enough

* *Relay trees.* The walk treats all levels alike, so three levels and a node
  with two relays show everything a deeper tree does: a relay queued while its
  sibling is read, a relay emitted, forked out and emitted again with another
  outcome, a leaf two levels down. Each transaction has at most two or three
  outcomes, one without relays. The instances carry relay hashes with a group
  index that is the shard, one that is not, and none.
* *Timeouts.* 0 and 1 allow one and two further walks; the loop's state does
  not otherwise depend on the limit. In `create_dapp` callers give 0 or 2 around
  a default of 1, so that a wait with the wrong one of the two limits ends too
  early. The proofs hold for all limits.
* *Local sends.* Three calls show two that overlap and one that came before or
  after; one account, because accounts do not touch each other. With ttl 0 and a
  clock up to 1 a transaction expires if a tick falls between its timestamp and
  its execution, and a restart may fall before or after it. `MaxTime`, `MaxForks`
  and `MaxRestarts` bound TLC only, the proofs hold for any value.
* *Threads.* The shared dict holds one value, so two threads show every mixture
  a thread can see. The proofs cover any number.
* *Subscriptions.* Two under one identity or two show replacement, reuse and
  independence. One buffered message and one pending suffice for "at most one
  late message"; the cap on `late` is 2, one more than the property allows. Two
  overlapping `unsubscribe` calls show the double close. `MaxInbox` and
  `MaxCloses` bound TLC only, the proofs hold for any value.
* *Delivery.* Four messages and two workers let both workers be busy while two
  messages wait.
* *Deployment.* The base height may be below, at or above the target, and the
  entry present, removed, never there because the deployment failed, or forked out
  and entered again for a later height.
* *Arguments.* A byte of 16 values and limbs of one byte put the ends of every
  range, the sign bit and a second and third limb within numbers below 4096.
* *Transactions.* With the same byte the four bytes of ISN and gas limit end at
  65535, the input's two length bytes at 255, the ttl's bits at 8. The instance
  has each end and the value past it. The hash has 7 bytes and the word 4, so
  the target still spans two half words and a residue. The six hashes lie at zero,
  clearly below the bounds of the small transactions, around them, and above
  a whole byte more; a name has up to two characters of up to two bytes and
  four bytes of room, as eight characters of up to four have 32; four nonces leave one to spare and let the search run out.

### 3.2 Deadlock

`CHECK_DEADLOCK FALSE` is given where the modelled call ends (`confirm_wait`,
`events`, `create_dapp`, `deploy`, `args`) and where the messages or the calls
of the bounded model are used up (`delivery`, `local_send`). The transport and the subscriptions are
checked for deadlock.

### 3.3 Fairness

* `FairWaitSpec`, `FairDappSpec`: weak fairness of the calling thread's step.
  An RPC ends within the 10 s of `make_post_request`, in an answer or an
  exception, and sleeps end. Nothing is assumed of the node, which may fork
  blocks out for ever. That the call returns all the same rests on the clock
  and on the absence of cycles among relays.
* `Subscription!FairSpec`: the event loop runs a coroutine that is ready, and
  connecting and the closing handshake end within the timeouts of the
  `websockets` library. No message need arrive, no caller need call.
* `StateDelivery!FairSpec`: each worker of the pool keeps running.
* `LocalSend!FairSpec`: the node goes on making blocks (`Execute`, `Finalize`,
  `Abort`); nothing is assumed of the clock, the callers or the process, which
  may die. `EveryIsnSettles` is about what such a node makes of the numbers the
  client chose.
* `DeployContract!FairSpec`: the client's steps, and a chain that grows to the
  bound. The wait has no timeout, so without a growing chain it does not end;
  that is the code's design and the assumption names it.

### 3.4 What the violated properties show

* **`events_lost`**: `get_events_by_transaction` walks the object it fetched
  before it knew the transaction confirmed. If the transaction is executed
  between the fetch and the check, the check succeeds, the object has no
  relays, and the list of events is empty. `EventsCompleteIfConfirmedFirst` is
  the condition under which no event is lost.
* **`rpc_mixup`**: two threads calling at once can have their method names
  exchanged, and one gets the answer to the other's question. Only queries are
  affected: `SendsAreIntended` and `ReportedSendHappened` hold, because the
  body is the thread's own and the parameters of a send belong to no other
  method. Both are proved from those two facts about the table.
* **`args_roundtrip`**: a bigint of zero is written with a limb and read
  without one, so what follows it is read from the wrong place. Behind an
  offset table the readers find their way again, which is why
  `CompleteArgumentsSurvive` and `OffsetIsExact` exclude only a zero outside
  one, and a zero as the key of a map.

More divergences between the code and what is said of it are visible in the
models, or were met while writing them, and have no run:

* `ws_connections` is keyed by the identity of the calling thread, so a second
  `subscribe` from one thread takes the first one's entry and the first coroutine
  leaves its loop at the next test. An `__unsubscribe` that was under way for the
  first then pops the entry of the second (`dioxclient.py:745`). Both are modelled;
  `GoesOnUnlessSuperseded` says that nothing else ends a subscription.
* `unsubscribe` made before the coroutine has registered its socket finds nothing
  and is forgotten (`dioxclient.py:729`), and the subscription goes on.
* `create_dapp` does not pass its timeout to the first wait (`dioxclient.py:848`),
  which uses the default; doc/API_REFERENCE.md:454 names one timeout for the call.
  `SecondWaitAwaits` therefore speaks of the second wait.
* doc/API_REFERENCE.md:210 says a synchronous send returns None if the sync
  failed; the code raises a `DioxError`.
* When the base height is read at the target, `progress_bar` divides by zero
  (`dioxclient.py:618`, `gadget.py:103`) after the contract has been deployed. In
  `DeployContract` the call then ends in "zero division".
* `deploy_contract` asks whether its transaction is confirmed, not whether it
  succeeded (`dioxclient.py:552-554`): a deployment whose execution fails has no
  entry in the schedule, and the call returns its hash like one that was built.
  `ReturnedMeansBuilt` therefore speaks of deployments that were executed well.
* The delegatee's bytes are written whenever one is given (`transaction.py:143`),
  but the mode announces them only for a core contract on an address. For
  another contract a reader takes them for the input: stage "misread" of
  `LocalTx`, and the condition `Announced` in `ReadsBack`.
* A delegatee's name is limited and filled up by its characters (`account.py:83`),
  and `\d` accepts any Unicode digit: a name with one that has more bytes makes
  the address longer than the 36 bytes readers skip. Such a name is read back,
  the input behind it is not; `Legible` in `LocalTx` excludes it.
* A contract that is not a core one and has a scope other than zero does not fit
  its scope into the one byte of `core_contract`, and `to_bytes` raises
  (`Fits` in `TxLayout`). `compose_transaction_local` refuses the four-part names
  core contracts go by, too.
* Two of the three renamings in `CoreContractIDFromRvm` never apply
  (`contract.py:131-134`): one compares the shifted scope with a small number,
  the other compares a function.
* Arguments given for a function without a signature are dropped without a
  word; too few for a signature raise. Both are calls of the instance.
* `tests/transaction_test.py:71` reads the mode from bytes 12 to 14, where `ttl_sc_tsc`
  is written; the mode is at 14 to 16.
* The default timestamp is the import's (`transaction.py:53`). `NotExpiredEarly`
  measures the ttl of a local transaction from there, and holds for no later moment.
* `DioxAddress.type` is given its setter under `address`'s name
  (`account.py:128`), and the longest NAME is the shortest (`account.py:73`).

## 4. The proofs

Proved with TLAPS, for every value of the constants that satisfies the
assumptions of the modules:

| Module | Theorem | Property |
|---|---|---|
| `RelayCalls_proofs` | WaitTypeCorrect | WaitTypeOK |
| | TrueIsConfirmedAlways | TrueIsConfirmed |
| | NegativeIsWitnessedAlways | NegativeIsWitnessed (an action property) |
| | WaitImplementsAwait | ImplementsAwait (a refinement) |
| | DappTypeCorrect | DappTypeOK |
| | VerdictIsExactAlways | VerdictIsExact |
| | NoneIsNotIteratedAlways | NoneIsNotIterated |
| | SecondWaitImplementsAwait | SecondWaitAwaits (a refinement) |
| | EventsTypeCorrect | EventsTypeOK |
| | EventsGenuineAlways | EventsGenuine |
| | EventsCompleteAlways | EventsCompleteIfConfirmedFirst |
| `LocalSend_proofs` | LocalSendTypeCorrect | TypeOK |
| | AbortedMeansOverlapAlways | AbortedMeansOverlap |
| | NotExpiredEarlyAlways | NotExpiredEarly |
| `RpcTransport_proofs` | RpcTypeCorrect | TypeOK |
| | SendsAreIntendedAlways | SendsAreIntended |
| | ReportedSendHappenedAlways | ReportedSendHappened |
| `Subscription_proofs` | SubscriptionTypeCorrect | TypeOK |
| | OneLateMessageAlways | OneLateMessage |
| | StoppableAlways | Stoppable |
| | GoesOnAlways | GoesOnUnlessSuperseded |
| `StateDelivery_proofs` | DeliveryTypeCorrect | TypeOK |
| | OnlyRunningIsOvertakenAlways | OnlyRunningIsOvertaken |
| | DeliveredAsFilteredAlways | DeliveredAsFiltered |
| | HandledOnceInOrderAlways | HandledOnceInOrder (a refinement) |
| `DeployContract_proofs` | DeployTypeCorrect | TypeOK |
| | ReturnedMeansBuiltAlways | ReturnedMeansBuilt |
| `ArgsCodec_proofs` | SerializerIsSound | (every written value is read back by its type's reader) |
| | CodecTypeCorrect | TypeOK, of `ArgsCodec` alone |
| | CodecArgumentsSurvive | CompleteArgumentsSurvive, of `ArgsCodec` alone |
| | CodecOffsetIsExact | OffsetIsExact, of `ArgsCodec` alone |
| `LocalTx_proofs` | TxTypeCorrect | TypeOK |
| | CompleteArgumentsSurviveAlways | CompleteArgumentsSurvive |
| | OffsetIsExactAlways | OffsetIsExact |
| | AccountSurvivesAlways | AccountSurvives |
| | ReadsBackAlways | ReadsBack |
| | SearchIsHonest | (the nonces kept are those that passed, in order) |
| | WorkIsAskedAlways | WorkIsAsked |

With these every invariant and every safety action property of the passing runs
is a theorem.

`RelayCalls_proofs` begins with the lemmas the calls share: what queues hold
(`ItemsOfTail`, `ItemsOfConcat`, `ItemsOfNormalized`, and for queues of lists
`LoadedOfTail`, `LoadedOfAppend`), what the closure of the root is
(`ClosureIsClosed`, `ClosureIsLeast`, `ClosureGrows`), what the node's steps keep
(`NodeKeepsType`, `ProgressKeeps`, `ConfirmedClosureStays`), what one turn of a walk
does (`StartAccounts`, `AcceptAccounts`, `WalkedIsWhole`), and what each step of a
collection does to its two invariants `Inside` and `Covers` (`CollectKeeps`,
`ProgressKeepsCollection`), which at its end say that exactly the closure was
collected (`CollectedIsWhole`).

**ConfirmWait.** `TrueIsConfirmed` is not inductive: it says nothing while the
walk runs. The invariant adds that everything still to be vouched for is in the
queue (`WalkCovers`: the target is accepted or queued, every accepted
transaction is confirmed, and each of its relays is accepted or queued), that a
transaction that is not confirmed has no relays (`NoRelaysUnlessConfirmed`),
and that the queue never leaves the tree (`WalkStaysInside`). With an empty
queue the accepted set is closed under relays and contains the root, so it
covers the closure, which is the least such set (`ClosureIsLeast`). The node's
progress keeps all this: it takes no relay away, so the closure only grows
(`ClosureGrows`), and what grows is queued when its emitter is read. A walk
that rejects what it read has found its witness at the head of the queue, which
is in the closure. Assumptions used: `RootIsTx`, `BlankIsNoTx`, `OutcomesTyped`, `TimeoutsAreNat`.
`RelaysAcyclic` and `OneEmitter` are needed for neither; the first is what
makes the walk end, and so matters for `CallReturns`.

**The refinement.** `StepAwaits` takes the actions of `WaitNext` one by one: the
walk's own steps leave the verdict alone; the node's progress keeps a whole
tree whole (`WholeIsStable`, from `ConfirmedClosureStays`), so only a step that
makes `calm` false may take it apart, as `AwaitCall!World` demands; `WalkSucceeds`
is `AnswerTrue` because of the invariant above, `GiveUpWaiting` is `AnswerFalse`.

**EventsCall.** The properties speak of the end of two traversals, so the
invariant follows both, as long as no block is forked out (`steady`). What the
first read saw of the root's relays stays true of it (`SnapIsPast`). The check
accounts for every relay (`CheckCovers`), so when its queue is empty the whole
closure is confirmed, and by `ConfirmedClosureStays` it is frozen from then on.
That is why the two reads of one relay agree: the collection stays inside the
closure (`Inside`), and every relay of what was collected is collected or
waiting, but for the one relay between its two reads (`Covers`). At the
end nothing waits; with the root the collection is closed under relays, so it
is the closure. Assumptions used: those of `ConfirmWait` but for the timeouts, and
`ExternalAreRelays`: the sent transaction is not itself one of the events.

**CreateDapp.** The verdict is made of five traversals at five different times,
and each counts on what the ones before it saw. The invariant `DappIInv` says
stage by stage what the rest of the call rests on. Up to the end of the second
wait the call is a wait, so `WaitIInv` above holds of it whatever the first wait left
behind (`WaitsAsWait`). `steady` is set when a walk that may end the second wait
begins, so while it holds, `calm` does (`SteadyIsCalm`); at the end of that walk the
closure is confirmed and, by `ConfirmedClosureStays`, frozen as long as `steady`
holds. From then on (`Grounds`): the refetched object is the confirmed root itself
(`SnapIsWhole`); the walk for success accounts for every relay as the walk of the
wait did, so at its end all of the closure succeeded (`AllSucceeded`), and its
rejection has a witness of failure; the walk for confirmation never leaves the
closure, so it cannot find the missing transaction that would make the collection
None (`phase # "type_error"`); the collection is `EventsCall`'s. The
verdict read off the collected relays is therefore exact (`Exact`). One lemma
per action shows that the step keeps the invariant. Assumptions used: those of `ConfirmWait`,
`LimitsAreTimeouts`, and `RefundsAreRelays`: what is sent creates a DApp or a
token and is not itself a deposit that comes back.

**The second refinement.** `SecondWaitStepAwaits` takes over `StepAwaits`: a step of
the second wait is a step of a `ConfirmWait` whose limit is the caller's timeout.
All other steps are the world's (`WorldMoves`): the first wait, and the later
stages, which leave the walk's verdict where it is.

**LocalSend.** `AbortedMeansOverlap` relates an abort to a number read long before.
Without forks (`Unforked`) the ISN of what is executed lies below the account's head
(`UsedUp`), whatever returned is executed and stays so (`ReturnedExecuted`), so a
call that began after a return reads a higher number (`LaterIsHigher`), and an
aborted transaction has a finalized one with its number (`AbortedHasWinner`), which
therefore is none of those. `NotExpiredEarly` needs that no timestamp is older than
the moment `dies` is counted from, across restarts (`LifeSpan`). Assumptions used:
`CallsTyped`, `BoundsAreNat`.

**RpcTransport.** The invariant (`RanAccepted`): what the node ran accepted the
thread's own body, and a call that returned could read its answer. The rest
follows from `SendsAreDistinctive` and `SendAnswersAreDistinctive`, which TLC
checks of the client's real table.

**Subscription.** `Stoppable` is inductive with the type invariant.
`OneLateMessage` needs that a coroutine that handled a late message has ended.
`GoesOnUnlessSuperseded` needs a chain of reasons (`EndsHaveReasons`): an entry
belongs to its caller's identity; closing needs an unsubscribe; a closed socket
needs that or a failure; a coroutine that left its loop without either had lost
its entry. And an identity under which anyone registered stays accounted for
(`Accounted`, `AccountedStays`): it leads to a subscription, or one of its
subscriptions was unsubscribed. The one that accounts for it, when a coroutine
has ended unasked and without a failure, is another: it superseded it.

**StateDelivery.** The queue is in increasing order, everything in it is later
than everything taken, everything taken was received, and every received match
is queued or taken (`NoneForgotten`). From these an overtaken message must be
on a worker. `DeliveredAsFiltered` needs in addition that only messages the filter
passed are queued or taken, and that what the user's handler was given is the
handler's copy of the message received at that place, although more
messages came in between (`SubmittedPass`, `GivenIsHandled`). The rest is about data:
filter and handler, which the source writes as two separate loops for each
wrapper, agree on every message (`HandledAsFiltered`). What the loop of a handler
leaves is compared with `IsSelection`, which is stated without a loop: out is the list
of the entries at certain places, in their order, all of them. The loop is
unfolded turn by turn (`AfterTurns`), and `TurnsSelect` is an induction over its
turns, made from the least turn after which the claim fails (`LeastOf`).
The refinement of `HandlerPool` needs that what a worker holds is on no other worker
and was not handled before (`TakenOnce`), and that with an idle worker fewer handlers
run than there are workers (`IdleMeansRoom`).
Assumptions used: `MaxMessagesIsNat`, `WorkersAreFinite`, `MessagesTyped` (a scope
of a message has a list), `SubscriptionsTyped` (the wrappers there are; nobody
subscribes to the contract or key None).

**DeployContract.** The entry leaves the schedule only after the build
(`RemovedMeansBuilt`); past the read of the schedule the target is the entry's
height, or the build is over (`WaitIsInformed`); the height the loop compares
is one the chain has reached (`HeightWasRead`). When the loop ends with a
height above the target, the chain is above it too. Only `ForkOut` takes any
of this back. Assumptions used: `DelaysArePositive`, `MaxHeightIsNat`.

**ArgsCodec.** What is proved first is about single values: `Restores(t, v, w)` says
that wherever the bytes w stand in a buffer, the reader of type t gives back v, and
goes on right behind w unless v is a zero bigint or a token without amount.
`SerializerIsSound` is that for the bytes of every value of every type. Scalars rest on
the digits of a number: `BytesOf` and `NumberOf` are inverse because what is left of
a number after w divisions is zero (`SpeltBytes`), the signed reader goes on
with the last bit (`SignOfBytes`). Containers rest on their elements: fixed ones stand
in a row (`InARowReads`); variable ones are reached through the offset table, which
holds the sums of the lengths before (`OffsetsTyped`, `TableReads`) and whose entries
lead to the elements whatever the elements do to the offset (`BehindTableReads`,
`CutOutReads`); that is why a zero in an array disturbs nothing, and a zero as the
key of a map does. Then the induction: a type of the least `Depth` for which the
claim fails has parts for which it holds. That the least exists comes from the
well-foundedness of the numbers (`LeastOf`), so no induction rule is needed.
   The invariant `CodecInv` says where each argument stands (`InPlace`, as far as the
data goes), that writing goes on at the end (`WritesAtEnd`), that reading begins
at zero with everything written (`NothingRead`, `ReadsAllWritten`), and what has been read
so far (`ReadSoFar`, in which the two properties are contained). A step reads
argument i at `ends[i - 1]` only if nothing before has disturbed it; for all others it
must still be a step: every reader, on any bytes, ends in an exception or goes
on at an offset that is a number (`EveryoneGoesOn`), and so do the older parsers
(`FallbackGoesOn`). Assumptions used: `SizesAreNat`, `TypesAreNested`, `NoneIsNoBytes`, `CallsAreTyped`, and
two that stand in the theorems: `NestedSerializer`, the parameters for the elements are
the serializer itself, and `NoneIsNoReading`, an exception is no pair of a value and an
offset. They quantify over all values, so TLC cannot evaluate them; in the runs the first
holds by the definition of the three MC operators, the second because None is a
model value.

**LocalTx.** `TxInv` is `CodecInv` with the account (`OwnerInv`), the form and its checked name
(`FormInv`), and what the bytes are from `Serialize` on (`LaidOut`). A header is nine fields one
after the other, each found again at its place (`HeaderRead`); the mode leads past the
contract's identifier and the delegatee to the input (`TxRead`, `InputFound`). The mantissa of
the gas price keeps the upper bits for either result of the logarithm (`PriceKept`). That
the arguments survive the way through a transaction is `CodecInv` again: `DecodeInput`
hands over what stands behind the two length bytes, which is `data` as it was
written (`TxDecode`).
   `WorkIsAsked` joins two facts. The search keeps exactly the nonces whose hash passes,
of all it tried, in order (`SearchIsHonest`). And what passes is what is asked
(`DifficultyIsAsked`): `difficulty` divides in whole numbers, shifts the quotient to fill a
word and keeps its upper half. Nothing above the bound passes, because each of these
only loses. The quotient has five bits or more (`AskedFits`, from `DifficultiesFit` and
the longest transaction there can be), so the division loses less than a sixteenth, and cutting a
full word to its half loses less than a sixteenth; together less than the eighth the property
allows. Assumptions used, besides those of `ArgsCodec`: `ByteHasBits`, `BitFieldsFit`,
`AddressHasBytes`, `TripsAreTyped`, `WordsAreWide`, `HashesAreShort`,
`DenominatorsArePositive`, `DifficultiesFit`. `AccountSurvives` needs none, nor the two of
the serializer.

**Only model-checked**: everything under fairness (`CallReturns`, `DappReturns`,
`DeployReturns`, `FoundMeansStopped`, `EveryMatchDelivered`, `EveryIsnSettles`), which the
prover does not reach.

## 5. What is not modelled

* Key derivation, checksums, hashes and signatures: calls into cryptographic
  libraries. What the protocol sees of them is modelled: which account can sign,
  the lengths of its keys, signing that fails, a hash that is any of a set.
* The comparison of `DioxAddress`es and their text form; of the character sets of
  names only whether a character is in them and how many bytes it has.
* `add_fca` and `set_input` of a transaction, which nothing calls.
* In the serializer: floats, the splitting of a signature's text into types,
  the untyped "struct". Texts are of one-byte characters. Of the text the fallback
  parser makes of a hash or an address only the bytes it stands for.
* Logging, statistics, configuration, the demo and the tests.
* Query operations that read one answer and return it have no behaviour of
  their own beyond the transport; they are rows of `DioxMethods`.

## 6. Plan

The confirmation wait and its abstraction, the calls built on it, the transport,
the subscriptions, delivery, deployment, the sends by ISN, the argument
serializer and the life of a locally composed transaction are modelled. What
remains, in this order:

1. In the serializer: the splitting of a signature's text and the untyped
   "struct".
2. The liveness of the waits by hand-made variants (the number of reads a walk has
   left, the seconds a call has left): the decrease of a variant is a safety
   property and within the prover's reach.

Each run answers one question; new components join a run of their own, and the
runs of small components that share constants are merged, as `args` is.
