--------------------------- MODULE PriorityQueue ---------------------------
(***************************************************************************)
(* What the request list of the advertising arbiter stands for: a sequence *)
(* of requests, the most urgent first and first come first served among    *)
(* equals.                                                                 *)
(***************************************************************************)
EXTENDS Naturals, Sequences, SequencesExt

CONSTANTS Requests, Priority

VARIABLE queue

Init == queue = <<>>

(* r goes behind those that are at least as urgent, before the others.     *)
Enqueue(r) ==
  /\ r \notin ToSet(queue)
  /\ \E i \in 1 .. Len(queue) + 1 :
       /\ \A j \in 1 .. i - 1 : Priority[queue[j]] <= Priority[r]
       /\ \A j \in i .. Len(queue) : Priority[queue[j]] > Priority[r]
       /\ queue' = InsertAt(queue, i, r)

Dequeue(r) ==
  \E i \in 1 .. Len(queue) : queue[i] = r /\ queue' = RemoveAt(queue, i)

Next == \E r \in Requests : Enqueue(r) \/ Dequeue(r)

Spec == Init /\ [][Next]_queue
=============================================================================
