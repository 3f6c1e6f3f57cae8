--------------------------- MODULE ReportDelivery ---------------------------
(***************************************************************************)
(* What delegation delivery promises about each report, without tables,     *)
(* claims, leases, requests or locks: where the report stands for whoever   *)
(* looks, and how many copies of it were put to the parent and may still    *)
(* reach it.  DeliveryStoreCalls and DelegationDelivery implement it.       *)
(***************************************************************************)
EXTENDS Naturals

CONSTANT Events

VARIABLES
    report,     \* where each report stands
    copies,     \* copies on their way to the parent or with it
    reviews     \* replays of it that a person asked for

vars == <<report, copies, reviews>>

\* none    nothing is recorded about it
\* open    the program goes on by itself
\* waits   it has an answer anybody can read: submitted, or parked
\* waived  a person resolved it before the receiver had accepted it
\* closed  resolved, by a person or by the parent's transcript
\* deleted with its event, conversation or project
Standings == {"none", "open", "waits", "waived", "closed", "deleted"}

Init ==
    /\ report \in [Events -> {"none", "open"}]
    /\ copies = [e \in Events |-> 0]
    /\ reviews = [e \in Events |-> 0]

Move(E, from, to) ==
    /\ \A e \in E : report[e] \in from
    /\ report' = [e \in Events |-> IF e \in E THEN to ELSE report[e]]

\* A completion is recorded, once.
Record(e) == Move({e}, {"none"}, "open") /\ UNCHANGED <<copies, reviews>>

\* Attempts come to an end; a pass may find several that did.
Answer(E) == Move(E, {"open"}, "waits") /\ UNCHANGED <<copies, reviews>>

\* A person has looked at the report and asks for another copy.
Review(e) ==
    /\ Move({e}, {"waits"}, "open")
    /\ reviews' = [reviews EXCEPT ![e] = @ + 1]
    /\ UNCHANGED copies

\* Another attempt without a person having looked: only while the copies that
\* were asked for are not all out.
Reopen(e) ==
    /\ Move({e}, {"waits"}, "open")
    /\ copies[e] <= reviews[e]
    /\ UNCHANGED <<copies, reviews>>

Close(e) == Move({e}, {"waits"}, "closed") /\ UNCHANGED <<copies, reviews>>
Waive(e) == Move({e}, {"waits"}, "waived") /\ UNCHANGED <<copies, reviews>>

\* What was waived is not beyond recall: a request that outlived its sender
\* may still be accepted.
Recall(e) == Move({e}, {"waived"}, "open") /\ UNCHANGED <<copies, reviews>>

\* Deletion is for ever.
Delete(E) == Move(E, Standings, "deleted") /\ UNCHANGED <<copies, reviews>>

\* The parent is given a copy: of a recorded report only, never of a deleted
\* or waived one, and one more than was asked for at most.  An attempt that
\* has begun is not called back, so the report may already have an answer.
Hand(e) ==
    /\ report[e] \in {"open", "waits", "closed"}
    /\ copies[e] < 1 + reviews[e]
    /\ copies' = [copies EXCEPT ![e] = @ + 1]
    /\ UNCHANGED <<report, reviews>>

\* Copies disappear with the process that had them.
Lose ==
    /\ \A e \in Events : copies'[e] <= copies[e]
    /\ UNCHANGED <<report, reviews>>

Next ==
    \/ Lose
    \/ \E e \in Events :
          \/ Record(e) \/ Review(e) \/ Reopen(e) \/ Hand(e)
          \/ Close(e) \/ Waive(e) \/ Recall(e)
    \/ \E E \in SUBSET Events : Answer(E) \/ Delete(E)

Spec == Init /\ [][Next]_vars

\* The program never rests on an open report.
LiveSpec == Spec /\ \A e \in Events : report[e] = "open" ~> report[e] # "open"
=============================================================================
