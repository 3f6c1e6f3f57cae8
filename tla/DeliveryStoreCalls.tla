------------------------- MODULE DeliveryStoreCalls -------------------------
(***************************************************************************)
(* What the delivery store promises whoever calls it: every operation of    *)
(* DeliveryStore, with any argument, in any order.  The loop, the HTTP      *)
(* routes, the settlement pass and the deletion routes are some callers;    *)
(* nothing here depends on their discipline.  A fence token is a fresh      *)
(* uuid4, so a claim takes a token that was never issued before.            *)
(***************************************************************************)
EXTENDS DeliveryStore

VARIABLE issued     \* fence tokens handed out so far

callVars == <<storeVars, issued>>

CallsInit == StoreInit /\ issued = {}

Claim(e, t) ==
    /\ t \notin issued
    /\ issued' = issued \cup {t}
    /\ ClaimOutbox(e, t) \/ ClaimInbox(e, t)

Call ==
    \/ \E e \in Events, g \in Generations : ChildCall(e, g)
    \/ \E e \in Events, t \in issued : AttemptCall(e, t)
    \/ \E e \in Events : RecoveryCall(e)
    \/ ProjectCall

CallsNext ==
    \/ \E e \in Events, t \in Tokens : Claim(e, t)
    \/ Call /\ UNCHANGED issued

CallsSpec == CallsInit /\ [][CallsNext]_callVars

CallsTypeOK == StoreTypeOK /\ issued \subseteq Tokens

(***************************************************************************)
(* Promises.                                                                *)
(***************************************************************************)
\* The receiver holds nothing the sender does not vouch for: every inbox row
\* has an outbox row of the same event and generation, deletions included.
ReceiptIsTrusted ==
    \A e \in Events : inbox[e].state # "absent" => Trusted(e, inbox[e].gen)

\* A verdict is final: a resolved inbox row keeps its verdict until a deletion
\* removes it, whatever retries, answers and lapsed leases still come.
VerdictIsFinal ==
    [][\A e \in Events : inbox[e].state \in Terminal =>
          inbox'[e].state \in {inbox[e].state, "absent"}]_callVars

\* Only a deletion removes what was stored, and it always leaves the event's
\* tombstone, which outlives a recreation of the project.
RemovalLeavesTombstone ==
    [][\A e \in Events : Stored(e) /\ ~Stored(e)' => e \in eventTombs']_callVars

\* The one automatic resend of a report is never granted twice: the allowance
\* comes back neither with a retry nor with a new attempt.
AllowanceIsSpentOnce ==
    [][\A e \in Events : inbox'[e].resends < inbox[e].resends => e \in eventTombs']_callVars

\* What a reader of the tables sees of a report moves only as ReportDelivery
\* allows, whoever calls: the tables hand nothing over and review nothing
\* themselves, so the copies and the reviews of the promise are none here.
Tables ==
    INSTANCE ReportDelivery WITH
        report <- [e \in Events |-> Standing(e)],
        copies <- [e \in Events |-> 0],
        reviews <- [e \in Events |-> 0]

TablesKeepPromise == Tables!Spec
=============================================================================
