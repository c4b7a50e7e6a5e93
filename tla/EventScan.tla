----------------------------- MODULE EventScan -----------------------------
(***************************************************************************)
(* What any way of reading a chain through promises, with no file, thread  *)
(* or buffer in it: each event that was asked for is visited once, and the *)
(* scan ends well only when all of them have been; it may end in an error  *)
(* only when something cannot be read.                                     *)
(***************************************************************************)
EXTENDS Naturals

CONSTANT Ordered   \* whether events are visited in the order of the chain

VARIABLES
  wanted,      \* the events asked for, by their numbers in the chain
  unreadable,  \* whether a record that may hold one cannot be read
  visited,     \* how many times each event of the chain has been visited
  outcome      \* "running", then "ok" or "err"

vars == <<wanted, unreadable, visited, outcome>>

Init == outcome = "running" /\ \A e \in DOMAIN visited : visited[e] = 0

Visit(e) ==
  /\ outcome = "running"
  /\ visited[e] = 0
  /\ Ordered => \A d \in wanted : d < e => visited[d] = 1
  /\ visited' = [visited EXCEPT ![e] = 1]
  /\ UNCHANGED <<wanted, unreadable, outcome>>

Finish ==
  /\ outcome = "running"
  /\ \A e \in wanted : visited[e] = 1
  /\ outcome' = "ok"
  /\ UNCHANGED <<wanted, unreadable, visited>>

Fail ==
  /\ outcome = "running"
  /\ unreadable
  /\ outcome' = "err"
  /\ UNCHANGED <<wanted, unreadable, visited>>

Next == (\E e \in wanted : Visit(e)) \/ Finish \/ Fail

Spec == Init /\ [][Next]_vars
=============================================================================
