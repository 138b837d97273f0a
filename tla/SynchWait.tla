----------------------------- MODULE SynchWait -----------------------------
(***************************************************************************)
(* synch_wait.h: a mutex, a condition variable and a flag by which one     *)
(* thread of the TCP stack sleeps until another wakes it up.  One thread   *)
(* at most sleeps on a structure, as tcp_sock.c has it.  wait_exit has no  *)
(* caller, so dead is always 0 and left out.                               *)
(***************************************************************************)

(* The fields, and where the thread is that sleeps on the structure:       *)
(* elsewhere, in pthread_cond_wait, or there with a signal on its way.     *)
WaitStruct ==
    [notified : BOOLEAN, sleep : BOOLEAN, thread : {"out", "waiting", "signalled"}]

alloc_wait_struct == [notified |-> FALSE, sleep |-> FALSE, thread |-> "out"]

(* sleep_on, until it waits; it does not wait if it was notified before.   *)
EnterSleep_bug(w) ==  \* waits without looking at notified
    [w EXCEPT !.sleep = TRUE, !.thread = "waiting"]

EnterSleep(w) ==
    IF w.notified THEN [w EXCEPT !.notified = FALSE, !.sleep = FALSE]
    ELSE [w EXCEPT !.sleep = TRUE, !.thread = "waiting"]

(* The rest of sleep_on, after pthread_cond_wait has returned.             *)
LeaveSleep(w) == [w EXCEPT !.notified = FALSE, !.sleep = FALSE, !.thread = "out"]

(* pthread_cond_wait is not in a loop: it returns for a signal, or for     *)
(* none, as POSIX allows.                                                  *)
MayLeave(w) == w.thread # "out"

MustLeave(w) == w.thread = "signalled"

(* wake_up: nothing when a notification is pending; a signal only when the *)
(* other thread has said that it sleeps.                                   *)
wake_up_bug(w) ==  \* notifies only a thread that sleeps
    IF w.sleep /\ ~w.notified
    THEN [w EXCEPT !.notified = TRUE,
                   !.thread = IF @ = "waiting" THEN "signalled" ELSE @]
    ELSE w

wake_up(w) ==
    IF w.notified THEN w
    ELSE [w EXCEPT !.notified = TRUE,
                   !.thread = IF w.sleep /\ @ = "waiting" THEN "signalled" ELSE @]

=============================================================================
