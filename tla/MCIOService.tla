----------------------------- MODULE MCIOService -----------------------------
(* IOService with two workers, under a load of clients and requests to     *)
(* quit, with a timer, and under timers that compete.                      *)
EXTENDS IOService

MCTimer == {"t1", "t2"}

MCLoad ==
    {[clients |-> 2, quits |-> 2, timers |-> 0, ticks |-> 0],
     [clients |-> 1, quits |-> 1, timers |-> 1, ticks |-> 0],
     [clients |-> 0, quits |-> 0, timers |-> 2, ticks |-> 1]}
=============================================================================
