---------------------------- MODULE BoundedFifo ----------------------------
(***************************************************************************)
(* What circular_buffer.h promises its callers: a first-in first-out       *)
(* queue that can hold Cap elements, where both operations return at once. *)
(* put_circ answers CIRC_BUF_ERROR when the queue is full and the element  *)
(* otherwise; get_circ answers CIRC_BUF_ERROR when the queue is empty and  *)
(* the oldest element otherwise.  Both take effect in a single instant.    *)
(*                                                                         *)
(* CircularBuffer.tla implements this specification with three shared      *)
(* words and an array.                                                     *)
(***************************************************************************)
EXTENDS Integers, Sequences

CONSTANTS Cap,      \* how many elements may be stored: open_circ's size, > 0
          Values    \* the elements callers store; never CIRC_BUF_ERROR

\* The answer of an operation that could not be carried out.
CIRC_BUF_ERROR == -1

VARIABLES queue,    \* the stored elements, oldest first
          lastPut,  \* what the latest put_circ answered
          lastGet   \* what the latest get_circ answered

vars == <<queue, lastPut, lastGet>>

Init == /\ queue = <<>>
        /\ lastPut = CIRC_BUF_ERROR
        /\ lastGet = CIRC_BUF_ERROR

Put(e) == /\ Len(queue) < Cap
          /\ queue' = Append(queue, e)
          /\ lastPut' = e
          /\ UNCHANGED lastGet

PutFull == /\ Len(queue) = Cap
           /\ lastPut' = CIRC_BUF_ERROR
           /\ UNCHANGED <<queue, lastGet>>

Get == /\ queue # <<>>
       /\ queue' = Tail(queue)
       /\ lastGet' = Head(queue)
       /\ UNCHANGED lastPut

GetEmpty == /\ queue = <<>>
            /\ lastGet' = CIRC_BUF_ERROR
            /\ UNCHANGED <<queue, lastPut>>

Next == \/ \E e \in Values : Put(e)
        \/ PutFull
        \/ Get
        \/ GetEmpty

Spec == Init /\ [][Next]_vars
=============================================================================
