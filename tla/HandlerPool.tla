---------------------------- MODULE HandlerPool ------------------------------
(***************************************************************************)
(* What a subscription promises for the messages its filter lets through,  *)
(* told without a queue and without threads: the handler of each begins    *)
(* once and ends once, they begin in the order the messages came in, and   *)
(* no more of them run at a time than the pool has threads.  In which      *)
(* order they end is open.                                                  *)
(***************************************************************************)
EXTENDS Naturals, FiniteSets

CONSTANTS
  Positions,   \* of messages, in the order of reception
  Threads      \* of the pool

VARIABLES
  waiting,   \* messages let through whose handler has not begun
  running,   \* messages whose handler runs
  done       \* messages whose handler has ended

vars == <<waiting, running, done>>

Init == waiting = {} /\ running = {} /\ done = {}

LetThrough(i) ==
  /\ \A j \in waiting \cup running \cup done : j < i
  /\ waiting' = waiting \cup {i}
  /\ UNCHANGED <<running, done>>

Begin(i) ==
  /\ i \in waiting
  /\ \A j \in waiting : i <= j
  /\ Cardinality(running) < Threads
  /\ waiting' = waiting \ {i}
  /\ running' = running \cup {i}
  /\ UNCHANGED done

End(i) ==
  /\ i \in running
  /\ running' = running \ {i}
  /\ done' = done \cup {i}
  /\ UNCHANGED waiting

Next == \E i \in Positions : LetThrough(i) \/ Begin(i) \/ End(i)

Spec == Init /\ [][Next]_vars

=============================================================================
