----------------------------- MODULE BatchUpsert -----------------------------
(***************************************************************************)
(* What PostgresTicketRepository.save_many promises its caller: a call     *)
(* takes effect at one instant, on the whole batch, and returns how many   *)
(* ids were new to the table at that instant; a call that fails, or whose  *)
(* process dies, has taken effect completely or not at all.                *)
(*                                                                         *)
(* The effect of a batch is stated on the batch as a whole (first text,    *)
(* last attributes, last known date), not statement by statement.          *)
(***************************************************************************)
EXTENDS BatchEffect, FiniteSets

CONSTANTS Writers, Batches, MaxSaves

VARIABLES rows,     \* committed contents of clean_tickets
          pending,  \* the batch of each writer's call in progress, or NoBatch
          result,   \* outcome of each writer's last call
          calls     \* calls made so far by each writer

vars == <<rows, pending, result, calls>>

NoBatch == [batch |-> <<>>, active |-> FALSE]
Call(b) == [batch |-> b, active |-> TRUE]

NoResult == [kind |-> "none", count |-> 0]
Failed == [kind |-> "failed", count |-> 0]
Stored(n) == [kind |-> "stored", count |-> n]

-----------------------------------------------------------------------------
Init ==
  /\ rows = EmptyTable
  /\ pending = [w \in Writers |-> NoBatch]
  /\ result = [w \in Writers |-> NoResult]
  /\ calls = [w \in Writers |-> 0]

Begin(w) ==
  /\ ~pending[w].active
  /\ calls[w] < MaxSaves
  /\ \E b \in Batches : pending' = [pending EXCEPT ![w] = Call(b)]
  /\ result' = [result EXCEPT ![w] = NoResult]
  /\ calls' = [calls EXCEPT ![w] = @ + 1]
  /\ UNCHANGED rows

Succeed(w) ==
  /\ pending[w].active
  /\ rows' = TableAfter(rows, pending[w].batch)
  /\ result' = [result EXCEPT ![w] = Stored(Cardinality(NewIds(rows, pending[w].batch)))]
  /\ pending' = [pending EXCEPT ![w] = NoBatch]
  /\ UNCHANGED calls

(* The caller sees an exception, or nothing at all when its process died. *)
Break(w) ==
  /\ pending[w].active
  /\ rows' \in {rows, TableAfter(rows, pending[w].batch)}
  /\ result' \in {[result EXCEPT ![w] = Failed], [result EXCEPT ![w] = NoResult]}
  /\ pending' = [pending EXCEPT ![w] = NoBatch]
  /\ UNCHANGED calls

Next == \E w \in Writers : Begin(w) \/ Succeed(w) \/ Break(w)

Spec == Init /\ [][Next]_vars
=============================================================================
