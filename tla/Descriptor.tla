----------------------------- MODULE Descriptor -----------------------------
(***************************************************************************)
(* One direction (read or write) of a Descriptor of io_manager.cpp: a      *)
(* record of can_read_ / can_write_ and waiting_read_ / waiting_write_.    *)
(* Each operator is what one call does inside m_; the callback that a      *)
(* ready direction runs is given to the worker pool after m_ is released.  *)
(***************************************************************************)

NotReady == [can |-> FALSE, waiting |-> FALSE]

(* readWhenReady, writeWhenReady: an event that came earlier is used up,   *)
(* and the callback runs now; otherwise the next event will run it.        *)
RunsNow(d) == d.can
(* Mutant: the callback runs now, and at the next event as well. *)
WhenReadyBoth(d) == [can |-> FALSE, waiting |-> TRUE]

WhenReady(d) == IF RunsNow(d) THEN [d EXCEPT !.can = FALSE] ELSE [d EXCEPT !.waiting = TRUE]

(* readIfWaiting, writeIfWaiting: what the poll loop does with an event.   *)
Schedules(d) == d.waiting
(* Mutant: an event that nobody waits for is dropped. *)
IfWaitingForgets(d) == [d EXCEPT !.waiting = FALSE]

IfWaiting(d) == IF Schedules(d) THEN [d EXCEPT !.waiting = FALSE] ELSE [d EXCEPT !.can = TRUE]
=============================================================================
