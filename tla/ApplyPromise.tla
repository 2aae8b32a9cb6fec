---------------------------- MODULE ApplyPromise ----------------------------
(***************************************************************************)
(* What an Applyinator promises to the controllers that call it, as its    *)
(* interface comment (src/pkg/applier/applyinator.go, lines 29-42) states  *)
(* it: every requested key is applied after the request, a key is never    *)
(* applied twice at the same time, requests made before a key is picked up *)
(* are served by one application, a request made during an application is  *)
(* served by another one, and a failed application is tried again.         *)
(*                                                                         *)
(* There is no queue here and there are no workers: only what is owed,     *)
(* what runs, and what waits out a back-off.                               *)
(***************************************************************************)
CONSTANT Keys

VARIABLES owed,      \* keys requested and not picked up since
          running,   \* keys whose apply function runs
          retrying,  \* keys whose last application failed, waiting to be owed again
          stopped    \* no request is accepted any more

vars == <<owed, running, retrying, stopped>>

Init == /\ owed = {}
        /\ running = {}
        /\ retrying = {}
        /\ stopped = FALSE

Request(k) ==
    /\ ~stopped
    /\ owed' = owed \cup {k}
    /\ UNCHANGED <<running, retrying>> /\ stopped' = stopped

Start(k) ==
    /\ k \in owed \ running
    /\ owed' = owed \ {k}
    /\ running' = running \cup {k}
    /\ UNCHANGED <<retrying>> /\ stopped' = stopped

\* The application failed: it will be tried again, unless all is being stopped.
Fail(k) ==
    /\ k \in running
    /\ ~stopped
    /\ retrying' = retrying \cup {k}
    /\ UNCHANGED <<owed, running>> /\ stopped' = stopped

Finish(k) ==
    /\ k \in running
    /\ running' = running \ {k}
    /\ UNCHANGED <<owed, retrying>> /\ stopped' = stopped

Retry(k) ==
    /\ k \in retrying
    /\ ~stopped
    /\ retrying' = retrying \ {k}
    /\ owed' = owed \cup {k}
    /\ UNCHANGED <<running>> /\ stopped' = stopped

Stop ==
    /\ ~stopped
    /\ stopped' = TRUE
    /\ retrying' = {}
    /\ UNCHANGED <<owed, running>>

Next == \/ Stop
        \/ \E k \in Keys :
              Request(k) \/ Start(k) \/ Fail(k) \/ Finish(k) \/ Retry(k)

\* The safety part of the promise, and all of it.
Safe == Init /\ [][Next]_vars

Fair == \A k \in Keys :
           /\ WF_vars(Start(k))
           /\ WF_vars(Finish(k))
           /\ WF_vars(Retry(k))

Spec == Safe /\ Fair
=============================================================================
