------------------------------ MODULE WorkQueue ------------------------------
(***************************************************************************)
(* The client-go rate limiting work queue, as the controller uses it       *)
(* (k8s.io/client-go/util/workqueue), seen from one key: keys do not       *)
(* influence each other except through the order in which they are taken,  *)
(* which the controller does not rely on.                                  *)
(***************************************************************************)
EXTENDS Naturals

(* dirty and processing are the queue's two sets; queued counts the copies of
   the key in the list workers take from; delayed is a pending AddAfter;
   requeues is the rate limiter's count of failures. *)
Entry == [dirty : BOOLEAN, processing : BOOLEAN, queued : Nat, delayed : BOOLEAN,
          requeues : Nat]

NewEntry == [dirty |-> FALSE, processing |-> FALSE, queued |-> 0, delayed |-> FALSE,
             requeues |-> 0]

(* Faulty variant: a key that is being processed is handed out again. *)
AddAlways(e) == IF e.dirty THEN e ELSE [e EXCEPT !.dirty = TRUE, !.queued = @ + 1]

(* A key that is being processed is only marked; Done puts it back. *)
Add(e) ==
    IF e.dirty THEN e
    ELSE [e EXCEPT !.dirty = TRUE, !.queued = IF e.processing THEN @ ELSE @ + 1]

CanGet(e) == e.queued > 0
Get(e) == [e EXCEPT !.queued = @ - 1, !.processing = TRUE, !.dirty = FALSE]

(* Done does not ask who calls it, nor whether the key is being processed. *)
Done(e) == [e EXCEPT !.processing = FALSE, !.queued = IF e.dirty THEN @ + 1 ELSE @]

AddRateLimited(e) == [e EXCEPT !.requeues = @ + 1, !.delayed = TRUE]
DelayOver(e) == Add([e EXCEPT !.delayed = FALSE])
Forget(e) == [e EXCEPT !.requeues = 0]

=============================================================================
