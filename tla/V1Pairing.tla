------------------------------ MODULE V1Pairing ------------------------------
(***************************************************************************)
(* The custom pairing of src/central/winrt_pairing.py: PairAsync runs in    *)
(* Windows, which calls the handler of _Ceremony on a thread of its own,    *)
(* also twice or late; the decision of the operator is a task of the event  *)
(* loop; and _run_custom_pairing waits for the result with a time limit and  *)
(* then stops the ceremony.  Every method of _Ceremony holds its lock.      *)
(*                                                                         *)
(* bonds: which of Windows and the Peripheral keep the bond.  The           *)
(* Peripheral's half of the ceremony is module V1Security; its operator     *)
(* accepts or rejects, and an accepted comparison on both sides gives L4.   *)
(***************************************************************************)
EXTENDS Naturals

VARIABLES
    cer,               \* the _Ceremony object
    os,                \* the native operation: its state, status and events
    bonds              \* who holds the bond

pairing == <<cer, os, bonds>>

(* The four statuses _rejection_evidence takes for a security refusal are   *)
(* one value here.                                                          *)
Refusals == {"SECURITY", "FAILED", "PAIRING_CANCELED"}
Kinds == {"CONFIRM_PIN_MATCH", "CONFIRM_ONLY"}

NoCeremony == [kind |-> "none", active |-> FALSE, received |-> FALSE, ceremony |-> "none",
               decision |-> "none", accepted |-> FALSE, deferral |-> FALSE, task |-> "none",
               error |-> FALSE, late |-> FALSE]
NoOperation == [state |-> "off", status |-> "none", events |-> 0]

(* _run_custom_pairing up to pair_with_protection_level_async: the handler  *)
(* is registered first, and a device that is paired already is refused.     *)
PairAsync(kind) ==
    /\ ~bonds.pc
    /\ cer' = [NoCeremony EXCEPT !.kind = kind, !.active = TRUE]
    /\ os' = [NoOperation EXCEPT !.state = "running"]
    /\ UNCHANGED bonds

(* Completes the deferral, at most once. *)
\* Mutant: stop leaves a deferral to its decision task.
CompleteNever(x) == x
Complete(x) == [x EXCEPT !.deferral = FALSE]

(* handler: an event of an inactive ceremony is ignored, a second one or    *)
(* one of another kind is an error, CONFIRM_ONLY is accepted at once, and   *)
(* Numeric Comparison gets a deferral and, on the event loop, a decision.   *)
(* raises: accept, get_deferral or call_soon_threadsafe failed, or the PIN  *)
(* has not six digits.                                                      *)
Handled(kind, raises) ==
    IF ~cer.active THEN cer
    ELSE IF cer.received THEN Complete([cer EXCEPT !.error = TRUE])
    ELSE IF kind # cer.kind \/ raises
         THEN Complete([cer EXCEPT !.received = TRUE, !.ceremony = kind, !.error = TRUE])
    ELSE IF kind = "CONFIRM_ONLY"
         THEN [cer EXCEPT !.received = TRUE, !.ceremony = kind, !.accepted = TRUE]
    ELSE [cer EXCEPT !.received = TRUE, !.ceremony = kind, !.deferral = TRUE, !.task = "queued"]
PairingRequested(kind, raises) ==
    /\ os.state # "off" /\ os.events < 2
    /\ os.events = 0 => os.state = "running"
    /\ os' = [os EXCEPT !.events = @ + 1] /\ cer' = Handled(kind, raises)
    /\ UNCHANGED bonds

(* _start_decision, and the end of _decide.  The answer of the operator is  *)
(* "none" when confirm raised or was cancelled at the console; accept may   *)
(* raise after a yes, and the completion of the deferral at any time; stop  *)
(* completes one only where the run fails anyway.                           *)
StartDecision ==
    /\ cer.task = "queued"
    /\ cer' = [cer EXCEPT !.task = IF cer.active /\ ~cer.error THEN "asking" ELSE "none"]
    /\ UNCHANGED <<os, bonds>>
Decide(answer, accepts, raises) ==
    /\ cer.task = "asking" /\ (accepts => answer = "yes")
    /\ answer = "yes" => accepts \/ raises
    /\ LET heard == cer.active /\ ~cer.error
       IN  cer' = Complete([cer EXCEPT
               !.task = "none", !.late = @ \/ (heard /\ accepts /\ os.state = "over"),
               !.decision = IF heard /\ answer # "none" THEN answer ELSE @,
               !.accepted = @ \/ (heard /\ accepts), !.error = @ \/ raises])
    /\ UNCHANGED <<os, bonds>>

(* Windows and the Peripheral end the operation.  Both operators accepted:  *)
(* a bond on both sides.  Windows may also pair on another path.            *)
OsPairs ==
    /\ os.state = "running" /\ cer.accepted /\ ~cer.deferral /\ cer.kind = "CONFIRM_PIN_MATCH"
    /\ os' = [os EXCEPT !.state = "returned", !.status = "PAIRED"]
    /\ bonds' = [pc |-> TRUE, dk |-> TRUE] /\ UNCHANGED cer
OsPairsElsewhere(status) ==
    /\ os.state = "running"
    /\ os' = [os EXCEPT !.state = "returned", !.status = status]
    /\ bonds' = [pc |-> TRUE, dk |-> TRUE] /\ UNCHANGED cer
OsRefuses(status) ==
    /\ os.state = "running" /\ (cer.error \/ cer.received => ~cer.deferral)
    /\ os' = [os EXCEPT !.state = "returned", !.status = status]
    /\ UNCHANGED <<cer, bonds>>

(* stop: the ceremony ends, its deferral is completed and its decision task *)
(* cancelled, whether the operation returned or the time is up; in that     *)
(* case the native operation is cancelled too.                              *)
Stopped == [Complete(cer) EXCEPT !.active = FALSE,
                                 !.task = IF @ = "asking" THEN "none" ELSE @]
Stop(returned) ==
    /\ returned => os.state = "returned"
    /\ os.state # "off" /\ cer.active
    /\ cer' = Stopped
    /\ os' = [os EXCEPT !.state = "over"]
    /\ UNCHANGED bonds

(* What _run_custom_pairing makes of it: an exception, or the outcome.      *)
ReportedSuccess == os.status \in {"PAIRED", "ALREADY_PAIRED"}
\* Mutant: any success of Windows counts.
ExplicitAny == TRUE
Explicit ==
    cer.kind = "CONFIRM_PIN_MATCH" /\ ReportedSuccess =>
        os.status = "PAIRED" /\ cer.decision = "yes" /\ cer.accepted
PairingRaises == cer.error \/ (ReportedSuccess /\ ~bonds.pc) \/ ~Explicit
OutcomePaired == bonds.pc \/ ReportedSuccess
=============================================================================
