------------------------------- MODULE Clocks -------------------------------
(***************************************************************************)
(* The logical clocks of pkg/clock: the scalar Lamport clock that stamps   *)
(* the requests of the distributed queue.  A clock is a natural number;    *)
(* the mutex of LamportClock makes each of these operations atomic.        *)
(***************************************************************************)
EXTENDS Naturals

(* LamportClock.Tick: a local event or a send. *)
Tick(c) == c + 1

(* LamportClock.Update: one more than the larger of the two clocks. *)
Update(c, stamp) == (IF stamp > c THEN stamp ELSE c) + 1
=============================================================================
