--------------------------------- MODULE Topic ---------------------------------
(***************************************************************************)
(* What a topic of the bus promises a daemon that reads it with a cursor:  *)
(* it is given every row in the order of the rows, each once until it      *)
(* starts again, except rows that were wiped before it came to them.       *)
(***************************************************************************)
EXTENDS Naturals, Sequences

CONSTANTS Node, Msg

VARIABLES rows, wiped, reader, position

Init == /\ rows = <<>> /\ wiped = 0
        /\ reader \in SUBSET Node
        /\ position = [n \in Node |-> 0]

Write == /\ \E m \in Msg : rows' = Append(rows, m)
           /\ UNCHANGED <<wiped, reader, position>>

\* n goes on to row i, and only wiped rows lie between.
Take(n) == /\ n \in reader
           /\ \E i \in (position[n] + 1)..Len(rows) :
                /\ (position[n] + 1)..(i - 1) \subseteq 1..wiped
                /\ position' = [position EXCEPT ![n] = i]
           /\ UNCHANGED <<rows, wiped, reader>>

Restart(n) == /\ position' = [position EXCEPT ![n] = 0]
              /\ UNCHANGED <<rows, wiped, reader>>

Clear == wiped' = Len(rows) /\ UNCHANGED <<rows, reader, position>>

TopicSpec == /\ Init
             /\ [][Write \/ Clear \/ \E n \in Node : Take(n) \/ Restart(n)]_<<rows, wiped, reader, position>>
================================================================================
