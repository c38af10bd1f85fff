---------------------------- MODULE StateDelivery ----------------------------
(***************************************************************************)
(* From a received message to the user's handler: the loop of __subscribe  *)
(* filters the message and submits the handler to the subscription's own   *)
(* ThreadPoolExecutor, whose workers run the handlers concurrently.        *)
(***************************************************************************)
EXTENDS StateFilters, FiniteSets

CONSTANTS
  Subscriptions,   \* the subscriptions that may be made
  Messages,        \* what the node may publish
  Workers,         \* Config.default_thread_nums threads
  MaxMessages      \* bound: messages received

ASSUME MaxMessagesIsNat == MaxMessages \in Nat
ASSUME WorkersAreFinite == IsFiniteSet(Workers)

(* Under each scope a message has a list.                                   *)
ASSUME MessagesTyped ==
  \A r \in Messages :
    /\ "states" \in DOMAIN r /\ DOMAIN r.states \subseteq AllScopes
    /\ \A scope \in DOMAIN r.states : r.states[scope] \in Seq(ToSet(r.states[scope]))

(* The wrappers of subscribe; what a caller asks for is never None.        *)
ASSUME SubscriptionsTyped ==
  \A s \in Subscriptions :
    /\ s.by \in {"dapp", "contract", "key", "contract_key", "contract_state", "external",
                 "height"}
    /\ s.by \in {"contract", "contract_key", "contract_state"} => s.contract # Missing
    /\ s.by \in {"key", "contract_key"} => s.key # Missing

VARIABLES
  sub,      \* the subscription
  received, \* the messages the coroutine has received
  queue,    \* the executor's queue: positions in received
  work,     \* what each worker has taken, 0 for nothing
  given     \* what the user's handler was called with: <<position, message>>

vars == <<sub, received, queue, work, given>>

Positions == 1 .. MaxMessages

Init ==
  /\ sub \in Subscriptions
  /\ received = <<>>
  /\ queue = <<>>
  /\ work = [w \in Workers |-> 0]
  /\ given = {}

-----------------------------------------------------------------------------

FaultySubmit(i) == queue' = <<i>> \o queue   \* a stack

FaultyMailbox(i) == queue' = <<i>>   \* room for one message

FaultyNumber(i) == queue' = Append(queue, i - 1)   \* counting from 0

(* executor.submit(handler, resp)                                           *)
Submit(i) == queue' = Append(queue, i)

(* One turn of the coroutine's loop with the message r.                    *)
ReceiveAndSubmit(r) ==
  /\ Len(received) < MaxMessages
  /\ received' = Append(received, r)
  /\ Passes(sub, r)
  /\ Submit(Len(received'))
  /\ UNCHANGED <<sub, work, given>>

ReceiveAndDrop(r) ==
  /\ Len(received) < MaxMessages
  /\ received' = Append(received, r)
  /\ ~ Passes(sub, r)
  /\ UNCHANGED <<sub, queue, work, given>>

FaultyTake(w) ==   \* the item is left in the queue
  /\ work[w] = 0
  /\ queue # <<>>
  /\ work' = [work EXCEPT ![w] = Head(queue)]
  /\ UNCHANGED <<sub, received, queue, given>>

(* An idle worker takes the oldest item of the queue.                       *)
Take(w) ==
  /\ work[w] = 0
  /\ queue # <<>>
  /\ work' = [work EXCEPT ![w] = Head(queue)]
  /\ queue' = Tail(queue)
  /\ UNCHANGED <<sub, received, given>>

(* Whether the handler returns or raises (into a future nobody reads), the *)
(* worker is free again.                                                    *)
Finish(w) == work' = [work EXCEPT ![w] = 0]

(* The worker runs the handler, which calls the user's.                     *)
Handle(w) ==
  /\ work[w] # 0
  /\ given' = given \cup {<<work[w], Handled(sub, received[work[w]])>>}
  /\ Finish(w)
  /\ UNCHANGED <<sub, received, queue>>

Next ==
  \/ \E r \in Messages : ReceiveAndSubmit(r)
  \/ \E r \in Messages : ReceiveAndDrop(r)
  \/ \E w \in Workers : Take(w)
  \/ \E w \in Workers : Handle(w)

Spec == Init /\ [][Next]_vars

(* The executor's threads are scheduled; nothing is assumed of the node.   *)
FairSpec ==
  /\ Spec
  /\ \A w \in Workers : WF_vars(Take(w)) /\ WF_vars(Handle(w))

-----------------------------------------------------------------------------
(* Properties.                                                              *)

GivenPositions == {g[1] : g \in given}

TypeOK ==
  /\ sub \in Subscriptions
  /\ received \in Seq(Messages)
  /\ Len(received) <= MaxMessages
  /\ queue \in Seq(Positions)
  /\ work \in [Workers -> Positions \cup {0}]
  /\ GivenPositions \subseteq Positions

(* What a subscription is about, told without looking at the code: the     *)
(* entry belongs to the dapp or contract asked for, and has the key or the *)
(* state asked for.                                                         *)
IsAbout(s, scope, e) ==
  /\ s.by = "dapp" => e.contract # Missing /\ e.contract[1] = s.dapp
  /\ s.by \in {"contract", "contract_key", "contract_state"} => e.contract = s.contract
  /\ s.by \in {"key", "contract_key"} => scope \in KeyedScopes /\ e.key = s.key
  /\ s.by = "contract_state" => e.state # Missing /\ s.name \in e.state

About(s, scope, list) == {i \in DOMAIN list : IsAbout(s, scope, list[i])}

(* out has what stands at the given places of list, in the order of list.  *)
IsSelection(out, list, places) ==
  \E at \in [DOMAIN out -> places] :
    /\ \A i, j \in DOMAIN out : i < j => at[i] < at[j]
    /\ \A i \in DOMAIN out : out[i] = list[at[i]]
    /\ \A p \in places : \E i \in DOMAIN out : at[i] = p

(* The filter and the handler of a wrapper agree: the user's handler is    *)
(* called with the matching entries of one received message, all of them,  *)
(* in their order, and never with a message emptied of every entry.        *)
DeliveredAsFiltered ==
  \A g \in given :
    LET r == received[g[1]] IN
    sub.by \notin {"height", "external"} =>
      /\ DOMAIN g[2].states = DOMAIN r.states
      /\ \A scope \in DOMAIN r.states :
           IsSelection(g[2].states[scope], r.states[scope], About(sub, scope, r.states[scope]))
      /\ \E scope \in DOMAIN r.states : g[2].states[scope] # <<>>

(* Handlers run concurrently and end in any order, but a message can be    *)
(* overtaken only while its handler runs: no later message reaches the     *)
(* user's handler while an earlier one waits for a worker.                  *)
OnlyRunningIsOvertaken ==
  \A i, j \in DOMAIN received :
    /\ i < j
    /\ j \in GivenPositions
    /\ Passes(sub, received[i])
    => i \in GivenPositions \/ \E w \in Workers : work[w] = i

(* Queue and workers together are a HandlerPool: whatever the filter lets  *)
(* through is handled at most once, the handlers begin in the order of     *)
(* reception, and no more of them run than the subscription has threads.   *)
Executor == INSTANCE HandlerPool WITH
  Threads <- Cardinality(Workers),
  waiting <- ToSet(queue),
  running <- {work[w] : w \in Workers} \ {0},
  done <- GivenPositions

HandledOnceInOrder == Executor!Spec

(* A message the filter lets through is handed to the user's handler in    *)
(* the end, although handlers may raise.                                    *)
EveryMatchDelivered ==
  \A i \in Positions :
    i \in DOMAIN received /\ Passes(sub, received[i]) ~> i \in GivenPositions

=============================================================================
