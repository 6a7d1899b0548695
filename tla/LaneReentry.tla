---------------------------- MODULE LaneReentry ----------------------------
(***************************************************************************)
(* Controlled re-entry of a document research admission whose child did not  *)
(* complete: the one-shot claim, the one completion a systemic failure is    *)
(* allowed, and the owner's grants (lane_reentry_claim.py, the claim in      *)
(* lane_child_launcher.py, resume in mission_document_research_launcher.py). *)
(*                                                                           *)
(* One admission, one authorization, one ticket directory: every run of the  *)
(* admission rewrites the same ticket and, when it ends by itself, the same  *)
(* summary.  All of it happens on the writer's store thread, which may die   *)
(* between any two steps.                                                    *)
(*                                                                           *)
(* The names that LaneChildren has as well are others here, since LaneProofs *)
(* speaks of both.                                                           *)
(***************************************************************************)
EXTENDS Naturals, Sequences, FiniteSets

CONSTANTS
    MaxReentries,  \* bound: re-entries launched
    MaxGrants,     \* bound: grants the owner gives
    FaultSettings  \* the sets of faults a behaviour may run under

(* A child is killed before it writes its summary; the writer dies between   *)
(* Popen and the ticket.                                                     *)
ChildFaults == {"killed", "launch window"}

ASSUME ReentryAssumption ==
    /\ MaxReentries \in Nat /\ MaxGrants \in Nat
    /\ FaultSettings \subseteq SUBSET ChildFaults

VARIABLES
    runTicket,    \* started_at, running or settled, and the summary beside it
    claim,        \* when the one-shot claim was taken (0: never)
    completion,   \* when the systemic completion was spent (0: never)
    grant,        \* the owner's grant is pending
    used,         \* when the last grant was spent (0: never)
    refunded,     \* the refund marker exists
    step,         \* resume on the store thread, and what it spends
    now,
    runs,         \* history: the re-entries launched, and what became of them
    given, spent, \* history: grants given and spent
    faults        \* the faults of this behaviour

paper == <<claim, completion, grant, used, refunded, given, spent>>
reentryVars == <<runTicket, step, now, runs, paper>>

Killed == "killed" \in faults
LaunchWindow == "launch window" \in faults

Fates == {"complete", "failed", "systemic"} \cup IF Killed THEN {"killed"} ELSE {}
Automatic == {"claim", "unspent", "completion"}
NoStep == [pc |-> "idle", by |-> "none"]

(* The first run has ended without completing.                               *)
ReentryInit ==
    /\ runTicket \in [started : {1}, status : {"settled"},
                   summary : {"none", "failed", "systemic"}]
    /\ claim = 0 /\ completion = 0
    /\ grant = FALSE /\ used = 0 /\ refunded = FALSE
    /\ step = NoStep
    /\ now = 1
    /\ runs = <<>>
    /\ given = 0 /\ spent = 0
    /\ faults \in FaultSettings

-----------------------------------------------------------------------------
(* What the files say *)

(* _started_run: the ticket was started again at or after that moment.       *)
StartedSince(at) == runTicket.started >= at

(* systemic_failure: the summary in the run's directory.                     *)
Systemic == runTicket.summary = "systemic"

(* Mutant of Consumed: claimed means attempted.                              *)
ConsumedByClaim == claim # 0

(* Mutant of Consumed: a run counts only while its ticket is later than the  *)
(* completion.                                                               *)
ConsumedInPart == claim # 0 /\ StartedSince(claim) /\ ~StartedSince(completion)

(* claim_consumed: the claim bought a run, which did not die systemically    *)
(* or was completed already.                                                 *)
Consumed == claim # 0 /\ StartedSince(claim) /\ (Systemic => completion # 0)

(* Mutant of Refundable: any run of the grant that ended early.              *)
RefundableAny == used # 0 /\ ~refunded /\ StartedSince(used)

(* refund_systemic_grant: the last grant's run died systemically, no claim   *)
(* and no completion was bought in between, and it was not refunded before.  *)
Refundable ==
    /\ used # 0 /\ ~refunded
    /\ StartedSince(used) /\ Systemic
    /\ \A bought \in {claim, completion} : ~(used < bought /\ bought <= runTicket.started)

-----------------------------------------------------------------------------
(* resume *)

(* The lane re-enters a settled admission that is not complete.              *)
MayPlan ==
    /\ step = NoStep
    /\ runTicket.status = "settled" /\ runTicket.summary # "complete"

Go(by) == step' = [pc |-> "spawn", by |-> by]

PlanClaim ==
    /\ MayPlan /\ claim = 0
    /\ Go("claim")
    /\ UNCHANGED <<runTicket, now, runs, paper>>

(* The claim bought nothing.  If that is because its run died systemically,  *)
(* the one completion is written down first.                                 *)
PlanUnspent ==
    /\ MayPlan /\ claim # 0 /\ ~Consumed
    /\ IF StartedSince(claim) /\ Systemic
       THEN /\ completion' = IF completion = 0 THEN now + 1 ELSE completion
            /\ now' = now + 1
            /\ Go("completion")
       ELSE /\ Go("unspent")
            /\ UNCHANGED <<completion, now>>
    /\ UNCHANGED <<runTicket, runs, claim, grant, used, refunded, given, spent>>

PlanRefund ==
    /\ MayPlan /\ Consumed /\ Refundable
    /\ refunded' = TRUE
    /\ Go("refund")
    /\ UNCHANGED <<runTicket, now, runs, claim, completion, grant, used, given, spent>>

(* consume_grant: the pending grant is renamed to the used one.              *)
ConsumeGrant ==
    /\ grant
    /\ grant' = FALSE
    /\ used' = now + 1
    /\ spent' = spent + 1

PlanGrant ==
    /\ MayPlan /\ Consumed /\ ~Refundable
    /\ ConsumeGrant
    /\ now' = now + 1
    /\ Go("grant")
    /\ UNCHANGED <<runTicket, runs, claim, completion, refunded, given>>

(* spawn is refused (a child of another admission runs, the owner paused the *)
(* company, the command is not of this workspace), or the writer dies first. *)
RefuseSpawn ==
    /\ step.pc = "spawn"
    /\ step' = NoStep
    /\ UNCHANGED <<runTicket, now, runs, paper>>

(* spawn goes on: the claim is taken, exclusively, before the launch.        *)
Claim ==
    /\ step.pc = "spawn"
    /\ step' = [step EXCEPT !.pc = "launch"]
    /\ IF step.by = "claim" THEN claim' = now + 1 /\ now' = now + 1
                            ELSE UNCHANGED <<claim, now>>
    /\ UNCHANGED <<runTicket, runs, completion, grant, used, refunded, given, spent>>

(* The log cannot be opened, Popen fails, or the writer dies.                *)
LaunchFails ==
    /\ step.pc = "launch"
    /\ step' = NoStep
    /\ UNCHANGED <<runTicket, now, runs, paper>>

Started ==
    /\ step.pc = "launch" /\ Len(runs) < MaxReentries
    /\ runs' = Append(runs, [by |-> step.by, at |-> now + 1, fate |-> "running"])
    /\ now' = now + 1
    /\ step' = NoStep

Launch ==
    /\ Started
    /\ runTicket' = [runTicket EXCEPT !.started = now + 1, !.status = "running"]
    /\ UNCHANGED paper

(* The writer dies between Popen and the ticket: the child runs on.          *)
LaunchUntold ==
    /\ LaunchWindow
    /\ Started
    /\ UNCHANGED <<runTicket, paper>>

(* A child ends; only one that ends by itself replaces the summary.          *)
Finish(i, fate) ==
    /\ runs[i].fate = "running"
    /\ runs' = [runs EXCEPT ![i].fate = fate]
    /\ runTicket' = [runTicket EXCEPT
          !.summary = IF fate = "killed" THEN @ ELSE fate,
          !.status = IF runs[i].at = runTicket.started THEN "settled" ELSE @]
    /\ UNCHANGED <<step, now, paper>>

(* The owner's door: one grant at a time, a repeated call is replayed.       *)
WriteGrant ==
    /\ step = NoStep /\ ~grant /\ given < MaxGrants
    /\ grant' = TRUE
    /\ given' = given + 1
    /\ UNCHANGED <<runTicket, step, now, runs, claim, completion, used, refunded, spent>>

Plan == PlanClaim \/ PlanUnspent \/ PlanRefund \/ PlanGrant

ReentryNext ==
    /\ \/ Plan \/ RefuseSpawn \/ Claim \/ LaunchFails \/ Launch \/ LaunchUntold \/ WriteGrant
       \/ \E i \in 1 .. Len(runs), fate \in Fates : Finish(i, fate)
    /\ UNCHANGED faults

ReentrySpec == ReentryInit /\ [][ReentryNext]_<<reentryVars, faults>>

(* Ticks keep coming and are not refused for ever.                           *)
FairReentrySpec ==
    /\ ReentrySpec
    /\ WF_reentryVars(Plan) /\ SF_reentryVars(Claim) /\ SF_reentryVars(Launch)

-----------------------------------------------------------------------------
(* Properties *)

(* The shape of the re-entry.                                                *)
ReentryTypeOK ==
    /\ runTicket \in [started : Nat, status : {"settled", "running"},
                   summary : {"none", "complete", "failed", "systemic"}]
    /\ {claim, completion, used, now, given, spent} \subseteq Nat
    /\ {grant, refunded} \subseteq BOOLEAN
    /\ step.pc \in {"idle", "spawn", "launch"}
    /\ step.by \in Automatic \cup {"none", "refund", "grant"}
    /\ runs \in Seq([by : Automatic \cup {"refund", "grant"}, at : Nat,
                     fate : {"running", "killed", "complete", "failed", "systemic"}])
    /\ faults \in FaultSettings

(* "once an attempt *has* really happened, nothing automatic may buy         *)
(* another": of the runs that got past the system's own conditions one is    *)
(* automatic and every other one was granted by the owner, as long as every  *)
(* child leaves its summary and its ticket.                                  *)
AutomaticOnce ==
    faults = {} => Cardinality({i \in 1 .. Len(runs) : runs[i].fate # "systemic"}) <= 1 + spent

(* However often plans are refused and launches fail, every run was paid for *)
(* by a claim, a completion, a grant or a refund of its own, as long as its  *)
(* ticket is written.                                                        *)
RunsArePaid == ~LaunchWindow =>
    LET One(p) == IF p THEN 1 ELSE 0
    IN  Len(runs) <= One(claim # 0) + One(completion # 0) + spent + One(refunded)

(* A grant comes back only when the run it bought died of a systemic         *)
(* condition; a run that left no summary or no ticket may be mistaken.       *)
RefundIsEarned ==
    faults = {} /\ refunded => \E i \in 1 .. Len(runs) : runs[i].by = "grant" /\ runs[i].fate = "systemic"

(* The papers of the re-entry are well formed, and every run and every       *)
(* refund in them is earned.                                                 *)
RunsAreEarned == ReentryTypeOK /\ RunsArePaid /\ RefundIsEarned

(* A claim taken by an attempt that never started a child does not hold the  *)
(* admission for ever: the attempt is made in the end.                       *)
ClaimIsRedeemed == claim # 0 ~> Len(runs) > 0

=============================================================================
