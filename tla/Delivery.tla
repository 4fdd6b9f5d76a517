------------------------------- MODULE Delivery -------------------------------
(***************************************************************************)
(* What the outbox promises the rest of the platform: an event published    *)
(* with a state change is handed to its handler until the handler says the  *)
(* work is done, and only then is it closed.  How often the handler runs,   *)
(* which worker runs it and what fails on the way is left open.             *)
(***************************************************************************)
CONSTANTS
    Events,
    Works,     \* what there is to carry out
    WorkOf     \* the work an event asks for, a function of Events: several may ask for the same

VARIABLES
    published,   \* events committed together with the state change they announce
    done,        \* works that have been carried out
    closed       \* events that will not be delivered again

vars == <<published, done, closed>>

Init == published = {} /\ done = {} /\ closed = {}

\* One transaction may announce several pieces of work, and ask again for one that has been
\* carried out by now.
Publish(new) ==
    /\ new \cap published = {}
    /\ published' = published \cup new
    /\ UNCHANGED <<done, closed>>

\* Nothing is carried out that no event asked for.
Perform(works) ==
    /\ works \subseteq {WorkOf[event] : event \in published}
    /\ done' = done \cup works
    /\ UNCHANGED <<published, closed>>

Close(event) ==
    /\ event \in published \ closed
    /\ WorkOf[event] \in done
    /\ closed' = closed \cup {event}
    /\ UNCHANGED <<published, done>>

Next ==
    \/ \E events \in SUBSET Events : Publish(events)
    \/ \E works \in SUBSET Works : Perform(works)
    \/ \E event \in Events : Close(event)

Spec == Init /\ [][Next]_vars
===============================================================================
