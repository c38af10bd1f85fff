------------------------------ MODULE LocalSend ------------------------------
(***************************************************************************)
(* Calls that send a transaction numbered by the account's ISN: get_isn    *)
(* and compose_transaction_local, or tx.compose on the node, then signing  *)
(* and send_raw_transaction (client/dioxclient.py, client/transaction.py). *)
(* Between the read of the ISN and the arrival of the transaction other    *)
(* calls for the account do the same, blocks are made and forked out, the  *)
(* clock runs and the process is restarted.  The wait for a confirmation   *)
(* is what AwaitCall says of it.                                           *)
(***************************************************************************)
EXTENDS Integers

CONSTANTS
  Calls,        \* one after the other or in different threads
  Local,        \* those that call compose_transaction_local
  Accounts,
  Account,      \* the account a call sends for
  Ttl,          \* DEFAULT_TRANSCTION_TTL
  MaxTime,      \* bound on the clock
  MaxForks,     \* bound on the blocks forked out
  MaxRestarts   \* bound on the process's restarts

ASSUME CallsTyped == Local \subseteq Calls /\ Account \in [Calls -> Accounts]
ASSUME BoundsAreNat == {Ttl, MaxTime, MaxForks, MaxRestarts} \subseteq Nat

VARIABLES
  pc,         \* where a call is
  imported,   \* when the process imported client/transaction.py
  restarts,
  isn,        \* the ISN of a call's transaction
  stamp,      \* its timestamp
  state,      \* its ConfirmState on the node
  head,       \* the ISN an account has next, in the head state
  now,        \* the clock of node and process
  forks,
  returned,   \* history: the calls that waited and returned their hash
  before,     \* history: what had returned when a call began
  dies        \* history: when a transaction that is composed now may expire

callVars == <<pc, imported, restarts, isn, stamp>>
nodeVars == <<state, head, now, forks>>
history == <<returned, before, dies>>
vars == <<callVars, nodeVars, history>>

Executed == {"TXN_CONFIRMED", "TXN_FINALIZED"}
States == Executed \cup {"unsent", "TXN_READY", "TXN_ABORTED", "TXN_EXPIRED"}

Init ==
  /\ pc = [x \in Calls |-> "new"]
  /\ imported = 0 /\ restarts = 0
  /\ isn = [x \in Calls |-> 0]
  /\ stamp = [x \in Calls |-> 0]
  /\ state = [x \in Calls |-> "unsent"]
  /\ head = [a \in Accounts |-> 0]
  /\ now = 0 /\ forks = 0
  /\ returned = {}
  /\ before = [x \in Calls |-> {}]
  /\ dies = [x \in Calls |-> 0]

-----------------------------------------------------------------------------
(* A call's steps.                                                          *)

Begin(x) ==
  /\ pc[x] = "new"
  /\ pc' = [pc EXCEPT ![x] = "compose"]
  /\ dies' = [dies EXCEPT ![x] = Ttl + IF x \in Local THEN imported ELSE now]
  /\ before' = [before EXCEPT ![x] = returned]
  /\ UNCHANGED <<nodeVars, imported, isn, stamp, restarts, returned>>

FaultyIsnOf(x) == 0                        \* set_isn left out
FaultyNextIsn(x) == head[Account[x]] + 1   \* the ISN taken for the last one used
FaultyLastIsn(x) == head[Account[x]] - 1   \* the last one used taken for the next

IsnOf(x) == head[Account[x]]

FaultyTimestamp == 0   \* of another import

(* The default of __init__'s parameter: evaluated when the module was      *)
(* imported, not when it is used.                                           *)
Timestamp == imported

Composed(x) ==
  /\ pc' = [pc EXCEPT ![x] = "send"]
  /\ UNCHANGED <<nodeVars, history, imported, restarts>>

GetIsn(x) ==
  /\ pc[x] = "compose"
  /\ x \in Local
  /\ isn' = [isn EXCEPT ![x] = IsnOf(x)]
  /\ stamp' = [stamp EXCEPT ![x] = Timestamp]
  /\ Composed(x)

(* tx.compose: the node reads the ISN and its own clock.                   *)
NodeCompose(x) ==
  /\ pc[x] = "compose"
  /\ x \notin Local
  /\ isn' = [isn EXCEPT ![x] = head[Account[x]]]
  /\ stamp' = [stamp EXCEPT ![x] = now]
  /\ Composed(x)

(* Signed, which takes its time, and taken by the node.  The call waits if *)
(* sync is true; without sync, or when the answer is lost, it is over.     *)
Send(x) ==
  /\ pc[x] = "send"
  /\ state' = [state EXCEPT ![x] = "TXN_READY"]
  /\ \E next \in {"wait", "over"} : pc' = [pc EXCEPT ![x] = next]
  /\ UNCHANGED <<history, imported, restarts, isn, stamp, head, now, forks>>

WaitReturns(x) ==
  /\ pc[x] = "wait"
  /\ state[x] \in Executed
  /\ pc' = [pc EXCEPT ![x] = "over"]
  /\ returned' = returned \cup {x}
  /\ UNCHANGED <<nodeVars, imported, restarts, isn, stamp, before, dies>>

(* A bad function name, an unknown function or contract, a failed request, *)
(* a signature of None, the time of the wait over, before or after sending.*)
CallFails(x) ==
  /\ pc[x] \notin {"new", "over"}
  /\ pc' = [pc EXCEPT ![x] = "over"]
  /\ UNCHANGED <<nodeVars, history, imported, restarts, isn, stamp>>

(* The process is killed, its calls with it, and started again.            *)
Restart ==
  /\ restarts < MaxRestarts
  /\ restarts' = restarts + 1
  /\ pc' = [x \in Calls |-> IF pc[x] = "new" THEN "new" ELSE "over"]
  /\ imported' = now
  /\ UNCHANGED <<nodeVars, history, isn, stamp>>

-----------------------------------------------------------------------------
(* The node's steps: an ISN is used once and in order, "like Ethereum      *)
(* nonce".                                                                  *)

Execute(x) ==
  /\ state[x] = "TXN_READY"
  /\ isn[x] = head[Account[x]]
  /\ now <= stamp[x] + Ttl
  /\ state' = [state EXCEPT ![x] = "TXN_CONFIRMED"]
  /\ head' = [head EXCEPT ![Account[x]] = @ + 1]
  /\ UNCHANGED <<callVars, history, now, forks>>

Finalize(x) ==
  /\ state[x] = "TXN_CONFIRMED"
  /\ \A y \in Calls : Account[y] = Account[x] /\ isn[y] < isn[x] =>
       state[y] # "TXN_CONFIRMED"
  /\ state' = [state EXCEPT ![x] = "TXN_FINALIZED"]
  /\ UNCHANGED <<callVars, history, head, now, forks>>

ForkOut(x) ==
  /\ forks < MaxForks
  /\ state[x] = "TXN_CONFIRMED"
  /\ head[Account[x]] = isn[x] + 1
  /\ state' = [state EXCEPT ![x] = "TXN_READY"]
  /\ head' = [head EXCEPT ![Account[x]] = isn[x]]
  /\ forks' = forks + 1
  /\ UNCHANGED <<callVars, history, now>>

(* "duplicated ISN that another one is confirmed and finalized"            *)
Abort(x) ==
  /\ state[x] = "TXN_READY"
  /\ \E y \in Calls : /\ Account[y] = Account[x] /\ isn[y] = isn[x]
                      /\ state[y] = "TXN_FINALIZED"
  /\ state' = [state EXCEPT ![x] = "TXN_ABORTED"]
  /\ UNCHANGED <<callVars, history, head, now, forks>>

Expire(x) ==
  /\ state[x] = "TXN_READY"
  /\ now > stamp[x] + Ttl
  /\ state' = [state EXCEPT ![x] = "TXN_EXPIRED"]
  /\ UNCHANGED <<callVars, history, head, now, forks>>

Tick ==
  /\ now < MaxTime
  /\ now' = now + 1
  /\ UNCHANGED <<callVars, history, state, head, forks>>

CallStep(x) ==
  \/ Begin(x) \/ GetIsn(x) \/ NodeCompose(x) \/ Send(x) \/ WaitReturns(x) \/ CallFails(x)

NodeStep(x) == Execute(x) \/ Finalize(x) \/ ForkOut(x) \/ Abort(x) \/ Expire(x)

Next ==
  \/ \E x \in Calls : CallStep(x) \/ NodeStep(x)
  \/ Restart
  \/ Tick

Spec == Init /\ [][Next]_vars

(* The node goes on making blocks; nothing is assumed of clock or callers. *)
FairSpec ==
  Spec /\ \A x \in Calls : WF_vars(Execute(x)) /\ WF_vars(Finalize(x)) /\ WF_vars(Abort(x))

-----------------------------------------------------------------------------
(* Properties.                                                              *)

(* Every variable keeps its type.                                           *)
TypeOK ==
  /\ pc \in [Calls -> {"new", "compose", "send", "wait", "over"}]
  /\ isn \in [Calls -> Nat] /\ stamp \in [Calls -> Nat]
  /\ state \in [Calls -> States]
  /\ head \in [Accounts -> Nat]
  /\ {now, imported, forks, restarts} \subseteq Nat
  /\ imported <= now
  /\ returned \subseteq Calls
  /\ before \in [Calls -> SUBSET Calls]
  /\ dies \in [Calls -> Nat]

(* Without a fork, a transaction is never aborted for one whose call had   *)
(* waited and returned before this one's call began, whoever made it.      *)
(* Sends of an account that wait for each other cannot abort each other;   *)
(* two at a time, or one after a send that did not wait or whose answer    *)
(* was lost in a restart, can.                                              *)
AbortedMeansOverlap ==
  forks = 0 =>
    \A y \in Calls : state[y] = "TXN_ABORTED" =>
      \E x \in Calls \ before[y] :
        /\ x # y /\ Account[x] = Account[y] /\ isn[x] = isn[y]
        /\ state[x] = "TXN_FINALIZED"

(* A transaction composed by the node lives for its whole ttl from when    *)
(* the call began.  One composed locally lives as long from the import of  *)
(* the library by the process: dead on arrival if the process is older.    *)
NotExpiredEarly ==
  \A x \in Calls : state[x] = "TXN_EXPIRED" => now > dies[x]

(* No ISN is left out: while none of the account's transactions expires,   *)
(* every one sent is in the end executed, or given up for another with its *)
(* number, although calls race, fail and are killed and blocks fork.       *)
EveryIsnSettles ==
  \A x \in Calls :
    state[x] = "TXN_READY" ~>
      \/ state[x] \in Executed \cup {"TXN_ABORTED"}
      \/ \E y \in Calls : /\ Account[y] = Account[x] /\ state[y] # "unsent"
                          /\ now > stamp[y] + Ttl

=============================================================================
