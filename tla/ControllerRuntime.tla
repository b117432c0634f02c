------------------------- MODULE ControllerRuntime -------------------------
(***************************************************************************)
(* The part of controller-runtime (v0.23) that the reconcilers rely on,    *)
(* modelled from how internal/controller uses it.  External code.          *)
(*                                                                         *)
(* A controller has one worker and one queue entry per object.  The        *)
(* priority queue keeps a single entry with the earliest time it was asked *)
(* for: an event makes a delayed entry ready at once, and RequeueAfter     *)
(* does not postpone an entry that is already there.                       *)
(***************************************************************************)
EXTENDS Integers

Never == -1       \* no queue entry; a metav1.Time that is nil

AddAt(entry, t) == IF entry = Never \/ t < entry THEN t ELSE entry

Ready(entry, now) == entry # Never /\ entry <= now

=============================================================================
