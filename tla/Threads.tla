------------------------------ MODULE Threads ------------------------------
(***************************************************************************)
(* thread.cpp, thread_registry.cpp and signal_handler.cpp: threads that    *)
(* register themselves, and the report of all their stacks when one of     *)
(* them, or the main thread, gets a SIGSEGV.                               *)
(*                                                                         *)
(* Signals are external and modelled by what POSIX says of them.  A        *)
(* handler interrupts its thread; during it, the same signal is blocked in *)
(* that thread.  A SIGUSR1 is pending at most once.  sem_wait may return   *)
(* early when a handler interrupted it, and the code does not look.        *)
(***************************************************************************)
EXTENDS Integers, FiniteSets

CONSTANTS
    Thread,    \* the threads made by makeThread
    Main       \* the main thread, which is in no registry

ASSUME MainAssumption == Main \notin Thread

Anyone == Thread \cup {Main}

VARIABLES
    life,         \* of a thread: where it is in threadFunction
    thread_ids_,  \* the registry
    in_progress,
    sem,          \* the value of the semaphore, or Closed
    fatal,        \* where a thread is in fatalSignalHandler
    tids,         \* threads it has still to ask for their stack
    asked,        \* threads that were in the registry when it looked (history)
    usr1,         \* threads with a pending SIGUSR1
    dump,         \* where a thread is in dumpStackHandler
    traces,       \* stacks a thread has printed (history)
    dead          \* has the process been killed by the signal

registry == <<life, thread_ids_>>
handler == <<in_progress, sem, fatal, tids, asked, usr1, dump, traces, dead>>

Closed == -1

ThreadsInit ==
    /\ life = [t \in Anyone |-> IF t = Main THEN "body" ELSE "none"]
    /\ thread_ids_ = {}
    /\ in_progress = FALSE
    /\ sem = 0
    /\ fatal = [t \in Anyone |-> "no"]
    /\ tids = [t \in Anyone |-> {}]
    /\ asked = [t \in Anyone |-> {}]
    /\ usr1 = {}
    /\ dump = [t \in Anyone |-> "no"]
    /\ traces = [t \in Anyone |-> 0]
    /\ dead = FALSE

Live(l, t, there) == [l EXCEPT ![t] = there]

(* Its own code runs, and no handler does. *)
Runs(t, where) ==
    /\ ~dead
    /\ life[t] = where
    /\ fatal[t] = "no" /\ dump[t] = "no"

-----------------------------------------------------------------------------
(* makeThread and threadFunction.  What the body does is of other modules. *)

makeThread(t) ==
    /\ ~dead
    /\ life[t] = "none"
    /\ life' = Live(life, t, "register")
    /\ UNCHANGED <<thread_ids_, handler>>

registerThread(t) ==
    /\ Runs(t, "register")
    /\ thread_ids_' = thread_ids_ \cup {t}
    /\ life' = Live(life, t, "body")
    /\ UNCHANGED handler

(* The body returned. *)
unregisterThread(t) ==
    /\ t # Main
    /\ Runs(t, "body")
    /\ thread_ids_' = thread_ids_ \ {t}
    /\ life' = Live(life, t, "exit")
    /\ UNCHANGED handler

ThreadEnds(t) ==
    /\ Runs(t, "exit")
    /\ life' = Live(life, t, "ended")
    /\ UNCHANGED <<thread_ids_, handler>>

-----------------------------------------------------------------------------
(* fatalSignalHandler *)

At(t, where) == ~dead /\ fatal[t] = where /\ dump[t] = "no"
Goto(t, there) == fatal' = [fatal EXCEPT ![t] = there]

(* The body of a thread does something that makes a SIGSEGV. *)
Fault(t) ==
    /\ Runs(t, "body")
    /\ Goto(t, "enter")
    /\ UNCHANGED <<registry, in_progress, sem, tids, asked, usr1, dump, traces, dead>>

(* The raise() for a handler in progress is blocked, like every SIGSEGV    *)
(* in this thread until the handler returns: the handler goes on.          *)
EnterFatal(t) ==
    /\ At(t, "enter")
    /\ in_progress' = TRUE
    /\ Goto(t, "print")
    /\ UNCHANGED <<registry, sem, tids, asked, usr1, dump, traces, dead>>

PrintOwnStack(t) ==
    /\ At(t, "print")
    /\ traces' = [traces EXCEPT ![t] = @ + 1]
    /\ Goto(t, "list")
    /\ UNCHANGED <<registry, in_progress, sem, tids, asked, usr1, dump, dead>>

getAllThreadIDs(t) ==
    /\ At(t, "list")
    /\ tids' = [tids EXCEPT ![t] = thread_ids_ \ {t}]
    /\ asked' = [asked EXCEPT ![t] = thread_ids_ \ {t}]
    /\ Goto(t, "next")
    /\ UNCHANGED <<registry, in_progress, sem, usr1, dump, traces, dead>>

(* pthread_kill reaches a thread that has not ended. *)
AskNext(t, u) ==
    /\ At(t, "next")
    /\ u \in tids[t]
    /\ tids' = [tids EXCEPT ![t] = @ \ {u}]
    /\ usr1' = IF life[u] = "ended" THEN usr1 ELSE usr1 \cup {u}
    /\ Goto(t, "wait")
    /\ UNCHANGED <<registry, in_progress, sem, asked, dump, traces, dead>>

(* Mutant: the answer is not waited for. *)
AwaitNoAnswer(t) ==
    /\ At(t, "wait")
    /\ Goto(t, "next")
    /\ UNCHANGED <<registry, in_progress, sem, tids, asked, usr1, dump, traces, dead>>

(* A semaphore that another handler has closed is unmapped memory, and a   *)
(* SIGSEGV that is blocked kills.                                          *)
AwaitAnswer(t) ==
    /\ At(t, "wait")
    /\ sem # 0
    /\ IF sem = Closed
         THEN dead' = TRUE /\ UNCHANGED <<sem, fatal>>
         ELSE sem' = sem - 1 /\ Goto(t, "next") /\ UNCHANGED dead
    /\ UNCHANGED <<registry, in_progress, tids, asked, usr1, dump, traces>>

CloseSemaphore(t) ==
    /\ At(t, "next")
    /\ tids[t] = {}
    /\ sem' = Closed
    /\ Goto(t, "raise")
    /\ UNCHANGED <<registry, in_progress, tids, asked, usr1, dump, traces, dead>>

(* With the default action back, the raised signal is delivered when the   *)
(* handler returns.                                                        *)
RaiseAgain(t) ==
    /\ At(t, "raise")
    /\ dead' = TRUE
    /\ UNCHANGED <<registry, in_progress, sem, fatal, tids, asked, usr1, dump, traces>>

-----------------------------------------------------------------------------
(* dumpStackHandler *)

DeliverUsr1(t) ==
    /\ ~dead
    /\ t \in usr1 /\ dump[t] = "no"
    /\ life[t] \notin {"none", "ended"}
    /\ usr1' = usr1 \ {t}
    /\ dump' = [dump EXCEPT ![t] = "print"]
    /\ UNCHANGED <<registry, in_progress, sem, fatal, tids, asked, traces, dead>>

DumpStack(t) ==
    /\ ~dead
    /\ dump[t] = "print"
    /\ traces' = [traces EXCEPT ![t] = @ + 1]
    /\ dump' = [dump EXCEPT ![t] = "post"]
    /\ UNCHANGED <<registry, in_progress, sem, fatal, tids, asked, usr1, dead>>

(* Mutant: the stack is printed, and nobody told. *)
PostNoAnswer(t) ==
    /\ ~dead
    /\ dump[t] = "post"
    /\ dump' = [dump EXCEPT ![t] = "no"]
    /\ UNCHANGED <<registry, in_progress, sem, fatal, tids, asked, usr1, traces, dead>>

(* A thread that was waiting for an answer of its own may be sent on. *)
PostAnswer(t) ==
    /\ ~dead
    /\ dump[t] = "post"
    /\ IF sem = Closed THEN dead' = TRUE /\ UNCHANGED sem
                       ELSE sem' = sem + 1 /\ UNCHANGED dead
    /\ dump' = [dump EXCEPT ![t] = "no"]
    /\ \/ UNCHANGED fatal
       \/ fatal[t] = "wait" /\ Goto(t, "next")
    /\ UNCHANGED <<registry, in_progress, tids, asked, usr1, traces>>

-----------------------------------------------------------------------------
HandlerStep(t) ==
    \/ EnterFatal(t) \/ PrintOwnStack(t) \/ getAllThreadIDs(t)
    \/ \E u \in Thread : AskNext(t, u)
    \/ AwaitAnswer(t) \/ CloseSemaphore(t) \/ RaiseAgain(t)
    \/ DeliverUsr1(t) \/ DumpStack(t) \/ PostAnswer(t)

-----------------------------------------------------------------------------
(* Properties *)

Faulted == {t \in Anyone : fatal[t] # "no"}
Printing == {t \in Anyone : fatal[t] = "print" \/ dump[t] = "print"}

(* A SIGSEGV ends the process, although the handler waits for threads that *)
(* do what they like meanwhile; except that a thread which leaves between  *)
(* the look at the registry and its signal never answers.                  *)
CrashEnds ==
    (Faulted # {}) ~> (dead \/ \E t \in Anyone : \E u \in asked[t] :
                                 life[u] = "ended" /\ traces[u] = 0)
=============================================================================
