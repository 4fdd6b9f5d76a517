-------------------------------- MODULE Outbox --------------------------------
(***************************************************************************)
(* The transactional outbox and the dispatchers that empty it.  A pass of a *)
(* dispatcher claims a batch of due rows, lets go of them at the commit of  *)
(* the claim, and then hands its copies one by one to their handlers; each  *)
(* outcome is written in a transaction of its own.                          *)
(***************************************************************************)
EXTENDS Naturals, Sequences, FiniteSets, SequencesExt

CONSTANTS
    Events,
    Workers,       \* processes running a dispatcher
    Poisoned,      \* events no attempt can deliver: no handler, or work that always fails
    BatchSize,     \* DispatcherConfig.BatchSize
    MaxAttempts,   \* DispatcherConfig.MaxAttempts
    MaxFailures,     \* bound: failed handler calls (the poisoned events' aside), failed writes,
                   \* processes that stop between two steps
    MaxRetries     \* bound: operator replays

ASSUME OutboxAssumption ==
    /\ Poisoned \subseteq Events
    /\ BatchSize \in Nat \ {0} /\ MaxAttempts \in Nat \ {0}
    /\ MaxFailures \in Nat /\ MaxRetries \in Nat

VARIABLES
    attempts,   \* attempts column, counted up to MaxAttempts: beyond it nothing differs
    due,        \* undelivered rows whose available_at has come, in the order it came
    backoff,    \* rows waiting for a further attempt
    parked,     \* rows waiting for ParkFor to pass or for an operator
    delivered,  \* rows with a delivered_at
    done,       \* events whose handler has returned nil
    doing,         \* what each dispatcher is about to do
    batch,      \* its claimed copies it has not finished with: id and attempts as read
    failures, retries

table == <<attempts, due, backoff, parked, delivered>>
memory == <<doing, batch>>
trouble == <<failures, retries>>
queueVars == <<table, done, memory, trouble>>

Copies == [id : Events, attempts : 0..MaxAttempts]

published == ToSet(due) \cup backoff \cup parked \cup delivered

QueueInit ==
    /\ attempts = [e \in Events |-> 0]
    /\ due = <<>> /\ backoff = {} /\ parked = {} /\ delivered = {} /\ done = {}
    /\ doing = [w \in Workers |-> "polling"] /\ batch = [w \in Workers |-> <<>>]
    /\ failures = 0 /\ retries = 0

-------------------------------------------------------------------------------
(* The table *)

\* A row is due once.
Without(queue, e) ==
    IF e \in ToSet(queue) THEN RemoveAt(queue, CHOOSE n \in DOMAIN queue : queue[n] = e) ELSE queue

\* Publish, at the commit of the transaction that calls it.
Publish(e) ==
    /\ e \notin published
    /\ due' = Append(due, e)
    /\ UNCHANGED <<attempts, backoff, parked, delivered, done, memory, trouble>>

\* available_at has come: for a failed row after its backoff, for a parked one after ParkFor.
Elapse(e) ==
    /\ e \in backoff \cup parked
    /\ due' = Append(due, e)
    /\ backoff' = backoff \ {e} /\ parked' = parked \ {e}
    /\ UNCHANGED <<attempts, delivered, done, memory, trouble>>

\* FOR UPDATE holds the rows of a claim until its transaction commits; other claims skip
\* them and writes wait for them.
\* Mutation: a claim keeps its locks while its events are delivered.
MutLocksKept(w) == {batch[w][n].id : n \in DOMAIN batch[w]}
LockedBy(w) == IF doing[w] = "claiming" THEN {batch[w][n].id : n \in DOMAIN batch[w]} ELSE {}
Locked == UNION {LockedBy(w) : w \in Workers}

Bumped(n) == IF n < MaxAttempts THEN n + 1 ELSE n

\* Retry: the operator's replay, for any row not delivered yet.
Retry(e) ==
    /\ e \in published \ delivered /\ e \notin Locked
    /\ retries < MaxRetries /\ retries' = retries + 1
    /\ attempts' = [attempts EXCEPT ![e] = 0]
    /\ due' = Append(Without(due, e), e)
    /\ backoff' = backoff \ {e} /\ parked' = parked \ {e}
    /\ UNCHANGED <<delivered, done, memory, failures>>

-------------------------------------------------------------------------------
(* One pass of a dispatcher *)

\* FetchDue: the earliest due rows nobody else is claiming.
Claim(w) ==
    LET free == {n \in DOMAIN due : due[n] \notin Locked}
        size == IF Cardinality(free) < BatchSize THEN Cardinality(free) ELSE BatchSize
    IN  /\ doing[w] = "polling"
        /\ size > 0
        /\ doing' = [doing EXCEPT ![w] = "claiming"]
        /\ \E row \in [1..size -> free] :
              /\ \A n \in 1..size, m \in free : m < row[n] <=> \E k \in 1..(n - 1) : row[k] = m
              /\ batch' = [batch EXCEPT ![w] =
                    [n \in 1..size |-> [id |-> due[row[n]], attempts |-> attempts[due[row[n]]]]]]
        /\ UNCHANGED <<table, done, trouble>>

\* RunOnce commits the claim before it delivers anything.
CommitClaim(w) ==
    /\ doing[w] = "claiming"
    /\ doing' = [doing EXCEPT ![w] = "delivering"]
    /\ UNCHANGED <<table, done, batch, trouble>>

Event(w) == Head(batch[w])

\* Mutation: the pass moves on to the outcome without asking the handler.
MutNotHandled(w) == UNCHANGED done
Handled(w) == done' = done \cup {Event(w).id}

HandlerSucceeds(w) ==
    /\ doing[w] = "delivering"
    /\ Event(w).id \notin Poisoned
    /\ Handled(w)
    /\ doing' = [doing EXCEPT ![w] = "handled"]
    /\ UNCHANGED <<table, batch, trouble>>

\* A handler that returns an error, or a topic without a handler.
HandlerFails(w) ==
    /\ doing[w] = "delivering"
    /\ IF Event(w).id \in Poisoned
       THEN UNCHANGED failures
       ELSE failures < MaxFailures /\ failures' = failures + 1
    /\ doing' = [doing EXCEPT ![w] = "failing"]
    /\ UNCHANGED <<table, done, batch, retries>>

EndPass(w) ==
    /\ doing' = [doing EXCEPT ![w] = "polling"]
    /\ batch' = [batch EXCEPT ![w] = <<>>]

\* On to the rest of the batch.
Proceed(w) ==
    /\ doing' = [doing EXCEPT ![w] = IF Len(batch[w]) = 1 THEN "polling" ELSE "delivering"]
    /\ batch' = [batch EXCEPT ![w] = Tail(@)]

\* MarkDelivered: a row another worker has marked is a conflict, which ends the pass.
MarkDelivered(w) ==
    LET e == Event(w).id
    IN  /\ doing[w] = "handled" /\ e \notin Locked
        /\ IF e \in delivered
           THEN EndPass(w) /\ UNCHANGED table
           ELSE /\ delivered' = delivered \cup {e}
                /\ attempts' = [attempts EXCEPT ![e] = Bumped(@)]
                /\ due' = Without(due, e)
                /\ backoff' = backoff \ {e} /\ parked' = parked \ {e}
                /\ Proceed(w)
        /\ UNCHANGED <<done, trouble>>

\* The transaction that marks the row fails: the pass ends and the row stays as it was.
MarkFails(w) ==
    /\ doing[w] = "handled"
    /\ failures < MaxFailures /\ failures' = failures + 1
    /\ EndPass(w)
    /\ UNCHANGED <<table, done, retries>>

\* recordFailure decides from the copy, not from the row, whether this was the last attempt.
LastAttempt(event) == event.attempts + 1 >= MaxAttempts

\* Where a failed row waits.
AfterFailure(queue, e) == Without(queue, e)

\* Reschedule leaves a row another worker has marked alone.
Reschedule(w) ==
    LET e == Event(w).id
    IN  /\ doing[w] = "failing" /\ e \notin Locked
        /\ IF e \in delivered
           THEN UNCHANGED table
           ELSE /\ attempts' = [attempts EXCEPT ![e] = Bumped(@)]
                /\ due' = AfterFailure(due, e)
                /\ IF LastAttempt(Event(w))
                   THEN parked' = parked \cup {e} /\ backoff' = backoff \ {e}
                   ELSE backoff' = backoff \cup {e} /\ parked' = parked \ {e}
                /\ UNCHANGED delivered
        /\ Proceed(w)
        /\ UNCHANGED <<done, trouble>>

\* The transaction that reschedules the row fails: nobody is told and the row stays due.
RescheduleFails(w) ==
    /\ doing[w] = "failing"
    /\ failures < MaxFailures /\ failures' = failures + 1
    /\ Proceed(w)
    /\ UNCHANGED <<table, done, retries>>

\* The process stops, or its context is cancelled between two events.
Stop(w) ==
    /\ doing[w] # "polling"
    /\ failures < MaxFailures /\ failures' = failures + 1
    /\ EndPass(w)
    /\ UNCHANGED <<table, done, retries>>

-------------------------------------------------------------------------------

Step(w) ==
    \/ Claim(w) \/ CommitClaim(w)
    \/ HandlerSucceeds(w) \/ HandlerFails(w)
    \/ MarkDelivered(w) \/ Reschedule(w)

QueueNext ==
    \/ \E e \in Events : Publish(e) \/ Elapse(e) \/ Retry(e)
    \/ \E w \in Workers : Step(w) \/ MarkFails(w) \/ RescheduleFails(w) \/ Stop(w)

QueueSpec == QueueInit /\ [][QueueNext]_queueVars

\* Run polls for ever and RunOnce walks its batch to the end; time passes.
Fairness ==
    /\ \A w \in Workers : WF_queueVars(Step(w))
    /\ \A e \in Events : WF_queueVars(Elapse(e))

FairQueueSpec == QueueSpec /\ Fairness

-------------------------------------------------------------------------------
(* Properties *)

\* Types, and the bookkeeping of the table: a row waits in one place at a time.
QueueTypeOK ==
    /\ attempts \in [Events -> 0..MaxAttempts]
    /\ due \in Seq(Events) /\ IsInjective(due)
    /\ backoff \subseteq Events /\ parked \subseteq Events /\ delivered \subseteq Events
    /\ ToSet(due) \cap (backoff \cup parked \cup delivered) = {}
    /\ backoff \cap parked = {} /\ (backoff \cup parked) \cap delivered = {}
    /\ done \subseteq Events
    /\ doing \in [Workers -> {"polling", "claiming", "delivering", "handled", "failing"}]
    /\ batch \in [Workers -> Seq(Copies)]
    /\ failures \in 0..MaxFailures /\ retries \in 0..MaxRetries

\* RunOnce, FetchDue, MarkDelivered and Reschedule together keep the promise of Delivery, with
\* several processes, failures, replays and restarts: nothing is closed before its handler said
\* the work was done, and nothing is dropped.
Promise == INSTANCE Delivery WITH
    Works <- Events,
    WorkOf <- [e \in Events |-> e],
    closed <- delivered
ImplementsDelivery == Promise!Spec

\* One broken event does not stall the queue (RunOnce), and no lost race, failed write or
\* restart loses one: whatever can be delivered is, also with a batch of a single row.
EveryEventIsDelivered ==
    \A e \in Events \ Poisoned : e \in published ~> e \in delivered
===============================================================================
