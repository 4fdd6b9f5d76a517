------------------------------ MODULE Idempotency ------------------------------
(***************************************************************************)
(* The idempotency middleware in front of every write route, for one key of *)
(* one organization and endpoint: every statement of the store names exactly *)
(* one such triple, so keys never meet.  Attempts are the requests a client, *)
(* or several, send under that key; they run concurrently, lose their        *)
(* connection and stop with their process.                                   *)
(***************************************************************************)
EXTENDS Naturals, FiniteSets

CONSTANTS
    Attempts,      \* requests sent under the key
    Bodies,        \* what they may contain
    BodyOf,        \* what each of them contains
    NoOne,
    MaxFaults,     \* bound: panics, stopped processes and failed writes of the outcome
    MaxUnknown     \* bound: transactions that commit although their caller is told otherwise

\* What an attempt can be told, beside the response of an attempt.
Refusals == {"not found", "key reused", "in progress", "refused", "nothing"}

ASSUME IdempotencyAssumption ==
    /\ BodyOf \in [Attempts -> Bodies]
    /\ NoOne \notin Attempts \cup Bodies /\ Attempts \cap Refusals = {}
    /\ MaxFaults \in Nat /\ MaxUnknown \in Nat

VARIABLES
    record,    \* the row of the key: whose content it is bound to, whose response it replays
    at,        \* where each attempt is
    answer,    \* what each attempt was told
    effects,   \* attempts whose handler committed its work
    faults, unknown

keyVars == <<record, at, answer, effects, faults, unknown>>

\* request_hash is a digest of the content: it is the content as far as the store can tell.
Records == [request_hash : Bodies, response : Attempts \cup {NoOne}]
NoRecord == [request_hash |-> NoOne, response |-> NoOne]

Exists == record # NoRecord
IsComplete == Exists /\ record.response # NoOne

KeyInit ==
    /\ record = NoRecord
    /\ at = [a \in Attempts |-> "new"]
    /\ answer = [a \in Attempts |-> NoOne]
    /\ effects = {}
    /\ faults = 0 /\ unknown = 0

-------------------------------------------------------------------------------
(* One request *)

Goto(a, label) == at' = [at EXCEPT ![a] = label]
Tell(a, what) == answer' = [answer EXCEPT ![a] = what]

Free == ~Exists

\* Reserve: INSERT ... ON CONFLICT DO NOTHING.
Reserve(a) ==
    /\ at[a] = "new"
    /\ IF Free
       THEN /\ record' = [request_hash |-> BodyOf[a], response |-> NoOne]
            /\ Goto(a, "running")
       ELSE Goto(a, "looking") /\ UNCHANGED record
    /\ UNCHANGED <<answer, effects, faults, unknown>>

\* Mutation: a retry is answered by its key alone.
MutAnyBody(a) == TRUE
SameRequest(a) == record.request_hash = BodyOf[a]

\* Get, in the same transaction but with a later snapshot, and replay.
Look(a) ==
    /\ at[a] = "looking"
    /\ Goto(a, "done")
    /\ \/ ~Exists /\ Tell(a, "not found")
       \/ Exists /\ ~SameRequest(a) /\ Tell(a, "key reused")
       \/ Exists /\ SameRequest(a) /\ ~IsComplete /\ Tell(a, "in progress")
       \/ IsComplete /\ SameRequest(a) /\ Tell(a, record.response)
    /\ UNCHANGED <<record, effects, faults, unknown>>

\* The handler commits its work and answers below 400; the client reads the response
\* before the middleware stores it.
Perform(a) ==
    /\ at[a] = "running"
    /\ effects' = effects \cup {a}
    /\ Goto(a, "performed") /\ Tell(a, a)
    /\ UNCHANGED <<record, faults, unknown>>

Refuse(a) ==
    /\ at[a] = "running"
    /\ Goto(a, "refused") /\ Tell(a, "refused")
    /\ UNCHANGED <<record, effects, faults, unknown>>

\* The commit succeeds and its confirmation is lost: the handler answers 500.
CommitUnknown(a) ==
    /\ at[a] = "running"
    /\ unknown < MaxUnknown /\ unknown' = unknown + 1
    /\ effects' = effects \cup {a}
    /\ Goto(a, "refused") /\ Tell(a, "refused")
    /\ UNCHANGED <<record, faults>>

\* finish, after a success.
Completed(a) == IF Exists /\ ~IsComplete THEN [record EXCEPT !.response = a] ELSE record

Complete(a) ==
    /\ at[a] = "performed"
    /\ record' = Completed(a)
    /\ Goto(a, "done")
    /\ UNCHANGED <<answer, effects, faults, unknown>>

\* finish, after a failure.
\* Mutation: a success is released like a failure.
MutReleaseAll(a) == at[a] \in {"refused", "performed"}
MayRelease(a) == at[a] = "refused"

Release(a) ==
    /\ MayRelease(a)
    /\ record' = IF IsComplete THEN record ELSE NoRecord
    /\ Goto(a, "done")
    /\ UNCHANGED <<answer, effects, faults, unknown>>

\* The write of the outcome fails, most simply because the client has gone and cancelled the
\* request's context with it; its error is dropped.
FinishFails(a) ==
    /\ at[a] \in {"performed", "refused"}
    /\ faults < MaxFaults /\ faults' = faults + 1
    /\ Goto(a, "done")
    /\ UNCHANGED <<record, answer, effects, unknown>>

\* The handler panics, which Recover turns into a 500 outside the middleware, or its process
\* stops: finish never runs.
Abort(a) ==
    /\ at[a] \in {"looking", "running", "performed", "refused"}
    /\ faults < MaxFaults /\ faults' = faults + 1
    /\ Goto(a, "done")
    /\ IF answer[a] = NoOne THEN Tell(a, "nothing") ELSE UNCHANGED answer
    /\ UNCHANGED <<record, effects, unknown>>

-------------------------------------------------------------------------------

KeyNext ==
    \E a \in Attempts :
        \/ Reserve(a) \/ Look(a)
        \/ Perform(a) \/ Refuse(a) \/ CommitUnknown(a)
        \/ Complete(a) \/ Release(a)
        \/ FinishFails(a) \/ Abort(a)

KeySpec == KeyInit /\ [][KeyNext]_keyVars

-------------------------------------------------------------------------------
(* Properties *)

Places == {"new", "looking", "running", "performed", "refused", "done"}
Answers == Attempts \cup {NoOne} \cup Refusals

\* Types of the row, the attempts and their answers.
KeyTypeOK ==
    /\ record \in Records \cup {NoRecord}
    /\ at \in [Attempts -> Places]
    /\ answer \in [Attempts -> Answers]
    /\ effects \subseteq Attempts
    /\ faults \in 0..MaxFaults /\ unknown \in 0..MaxUnknown

\* What the middleware exists for: however often, and from however many connections, the
\* request is sent, its work is done once, but for a commit whose confirmation was lost.
OneEffectPerKey == Cardinality(effects) <= 1 + unknown

Running == {a \in Attempts : at[a] \in {"running", "performed", "refused"}}

\* Two attempts never run in parallel (Reserve).
OneAttemptRuns == \A a, b \in Running : a = b

\* Whoever is told a response is told the one of work that was done, for the same content.
RepliesAreTrue ==
    \A a \in Attempts : answer[a] \in Attempts =>
        answer[a] \in effects /\ BodyOf[answer[a]] = BodyOf[a]

===============================================================================
