----------------------------- MODULE Assessments -----------------------------
(***************************************************************************)
(* The record of an early-pay assessment under one idempotency key         *)
(* (upfront-assessment.ts, upfront-reviews.ts): requests that come twice   *)
(* while the first is being assessed, failures that clean up, crashes that *)
(* do not, a review by operators, and the funding partner's assignment     *)
(* that is kept in the same record.                                        *)
(*                                                                         *)
(* Every access to the store is a transaction under the row's lock and one *)
(* step; assessing and signing happen between two of them.                 *)
(***************************************************************************)
EXTENDS Naturals

CONSTANTS
    Requests,       \* POST handlers at work on the key
    Operators,      \* review handlers
    Payloads,       \* what is asked for: the share of the agreement to advance
    NoOffer,        \* nothing was assigned
    MaxMishaps      \* bound: failures, crashes and cleanups that fail

ASSUME AssessmentsAssumption ==
    /\ Requests \cap Operators = {} /\ NoOffer \notin Requests \cup Operators
    /\ MaxMishaps \in Nat

VARIABLES
    record,     \* the record under the key
    request,    \* each handler's progress
    reviewer,   \* each operator's or provider's review call
    displaced,  \* history: requests at work whose pending record somebody else removed
    mishaps

assessmentVars == <<record, request, reviewer, displaced, mishaps>>

Verdicts == {"APPROVE", "ESCALATE"}
Absent == [status |-> "absent"]
Idle == [pc |-> "idle"]

\* An offer is known by whose call had it signed; the assignment names the offer
\* its funding terms were signed for.
Pending(r, p) == [status |-> "pending", by |-> r, payload |-> p]
Completed(r, p, verdict) ==
    [status |-> "completed", by |-> r, payload |-> p, verdict |-> verdict, offer |-> r,
     review |-> "none", assigned |-> NoOffer]

AtWork(r) == request[r].pc \in {"assessing", "assessed"}
\* Who else is at work on the pending record.
Holders(r) == {q \in Requests \ {r} : AtWork(q) /\ record.status = "pending" /\ record.by = q}

Mishap == mishaps < MaxMishaps /\ mishaps' = mishaps + 1

-----------------------------------------------------------------------------
(* A request for an assessment.                                            *)

\* Mutant: a pending record is taken over.
NotCompleted == record.status # "completed"

\* Nobody has used the key, or what they left is gone.
KeyFree == record.status = "absent"

Register(r, p) ==
    /\ request[r] = Idle
    /\ KeyFree
    /\ record' = Pending(r, p)
    /\ request' = [request EXCEPT ![r] = [pc |-> "assessing", payload |-> p]]
    /\ displaced' = displaced \ {r}
    /\ UNCHANGED <<reviewer, mishaps>>

\* The same request again, after it was answered, gets the same answer.
Replay(r, p) ==
    /\ request[r] = Idle
    /\ record.status = "completed" /\ record.payload = p
    /\ UNCHANGED assessmentVars

\* Any other use of a key that is taken is a 409, which is caught below.
Conflict(r, p) ==
    /\ request[r] = Idle
    /\ ~KeyFree
    /\ record.status = "pending" \/ record.payload # p
    /\ request' = [request EXCEPT ![r] = [pc |-> "refused"]]
    /\ UNCHANGED <<record, reviewer, displaced, mishaps>>

\* ZeroScout assesses and PolyDesk decides.
Assess(r, verdict) ==
    /\ request[r].pc = "assessing"
    /\ request' = [request EXCEPT ![r] = [pc |-> "assessed", payload |-> @.payload, verdict |-> verdict]]
    /\ UNCHANGED <<record, reviewer, displaced, mishaps>>

\* Writes the whole record, whatever is there.
Complete(r) ==
    /\ request[r].pc = "assessed"
    /\ record' = Completed(r, request[r].payload, request[r].verdict)
    /\ request' = [request EXCEPT ![r] = Idle]
    /\ displaced' = displaced \cup Holders(r)
    /\ UNCHANGED <<reviewer, mishaps>>

\* The assessment is refused, times out or is not what was asked, or the store fails.
Fail(r) ==
    /\ AtWork(r) /\ Mishap
    /\ request' = [request EXCEPT ![r] = [pc |-> "failing"]]
    /\ UNCHANGED <<record, reviewer, displaced>>

\* Mutant: a request that was refused leaves the record alone.
OwnPending(r) == record.status = "pending" /\ request[r].pc = "failing"

\* What a failing request deletes: a pending record, its own or another's.
Removes(r) == record.status = "pending"

CleanUp(r) ==
    /\ request[r].pc \in {"refused", "failing"}
    /\ request' = [request EXCEPT ![r] = Idle]
    /\ IF Removes(r)
       THEN /\ record' = Absent
            /\ displaced' = displaced \cup Holders(r)
       ELSE UNCHANGED <<record, displaced>>
    /\ UNCHANGED <<reviewer, mishaps>>

\* The process dies, or the store fails once more while it cleans up.
Crash(r) ==
    /\ request[r] # Idle /\ Mishap
    /\ request' = [request EXCEPT ![r] = Idle]
    /\ UNCHANGED <<record, reviewer, displaced>>

-----------------------------------------------------------------------------
(* Reviews.                                                                *)

\* The provider asks for a review of an escalated assessment.
ReadForSubmission(o) ==
    /\ reviewer[o] = Idle
    /\ record.status = "completed" /\ record.verdict = "ESCALATE"
    /\ reviewer' = [reviewer EXCEPT ![o] = [pc |-> "submitting"]]
    /\ UNCHANGED <<record, request, displaced, mishaps>>

\* Mutant: an approved review is asked for again as well.
Resubmitted(o) == [record EXCEPT !.review = "pending"]

Submitted(o) == [record EXCEPT !.review = IF @ = "approved" THEN @ ELSE "pending"]

Submit(o) ==
    /\ reviewer[o].pc = "submitting"
    /\ record.status = "completed"
    /\ record' = Submitted(o)
    /\ reviewer' = [reviewer EXCEPT ![o] = Idle]
    /\ UNCHANGED <<request, displaced, mishaps>>

Decline ==
    /\ record.status = "completed" /\ record.review = "pending"
    /\ record' = [record EXCEPT !.review = "declined"]
    /\ UNCHANGED <<request, reviewer, displaced, mishaps>>

\* An operator approves what it read: PolyDesk signs an offer for it.
ReadForApproval(o) ==
    /\ reviewer[o] = Idle
    /\ record.status = "completed" /\ record.review = "pending"
    /\ reviewer' = [reviewer EXCEPT ![o] = [pc |-> "approving"]]
    /\ UNCHANGED <<record, request, displaced, mishaps>>

\* Mutant: the review is not looked at again.
Known == record.status = "completed"

StillPending == record.status = "completed" /\ record.review = "pending"

Approve(o) ==
    /\ reviewer[o].pc = "approving"
    /\ StillPending
    /\ record' = [record EXCEPT !.verdict = "APPROVE", !.offer = o, !.review = "approved"]
    /\ reviewer' = [reviewer EXCEPT ![o] = Idle]
    /\ UNCHANGED <<request, displaced, mishaps>>

\* The review changed, or PolyDesk did not sign.
GiveUp(o) ==
    /\ reviewer[o] # Idle
    /\ reviewer' = [reviewer EXCEPT ![o] = Idle]
    /\ UNCHANGED <<record, request, displaced, mishaps>>

\* The provider signs funding terms for the offer and picks a partner; once that
\* request was declined or has expired, again, with terms for the same offer.
Select ==
    /\ record.status = "completed" /\ record.verdict = "APPROVE"
    /\ record' = [record EXCEPT !.assigned = record.offer]
    /\ UNCHANGED <<request, reviewer, displaced, mishaps>>

-----------------------------------------------------------------------------
AssessmentInit ==
    /\ record = Absent
    /\ request = [r \in Requests |-> Idle]
    /\ reviewer = [o \in Operators |-> Idle]
    /\ displaced = {}
    /\ mishaps = 0

Ask(r) == \E p \in Payloads : Register(r, p) \/ Replay(r, p) \/ Conflict(r, p)
Work(r) == (\E verdict \in Verdicts : Assess(r, verdict)) \/ Complete(r) \/ CleanUp(r)
Review(o) ==
    \/ ReadForSubmission(o) \/ Submit(o)
    \/ ReadForApproval(o) \/ Approve(o) \/ GiveUp(o)

AssessmentNext ==
    \/ \E r \in Requests : Ask(r) \/ Work(r) \/ Fail(r) \/ Crash(r)
    \/ \E o \in Operators : Review(o)
    \/ Decline
    \/ Select

AssessmentSpec == AssessmentInit /\ [][AssessmentNext]_assessmentVars

\* A handler that lives goes on, its calls to others having timeouts; a client
\* repeats its request under the key until the assessment is there.
FairAssessmentSpec ==
    /\ AssessmentSpec
    /\ \A r \in Requests : WF_assessmentVars(Work(r)) /\ WF_assessmentVars(Ask(r))

-----------------------------------------------------------------------------
(* Properties.                                                             *)

\* A request is assessed by one handler at a time: who is at work holds the
\* pending record, unless another request's failure removed that record, or the
\* answer of one it was removed from before.
OneAssessmentAtATime ==
    \A r \in Requests : AtWork(r) =>
        r \in displaced \/ (record.status = "pending" /\ record.by = r)

\* Once a provider has signed terms for an offer, the offer and the assignment
\* stay in the record: no late assessment, submission or review decision replaces
\* them, unless a request was displaced at work (its assessment then replaces all).
AssignmentsSurvive ==
    [][ record.status = "completed" /\ record.assigned # NoOffer /\ displaced = {} =>
            /\ record'.status = "completed"
            /\ record'.offer = record.offer /\ record'.assigned = record.assigned ]_assessmentVars

\* Whatever fails or dies half way, a client that goes on asking gets its assessment.
RetriesGetThrough == <>[](record.status = "completed")
=============================================================================
