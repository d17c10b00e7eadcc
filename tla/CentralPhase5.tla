---------------------------- MODULE CentralPhase5 ----------------------------
(***************************************************************************)
(* The authenticated pure-PQ flow of v0.5 (src/central/phase5_auth.py) and  *)
(* the state machine of src/common/phase5.py that orders it, which the flow *)
(* of v0.6 uses too.                                                        *)
(***************************************************************************)
EXTENDS CentralClient

(* The transcript hash and the key schedule.  The negative test transcript  *)
(* puts another session id into the Central's own transcript: its keys, SAS *)
(* and FINISHED values are then its own alone.                              *)
LocalSecret == IF c.neg = "transcript" THEN 0 ELSE c.root
SasMatches == c.shown = LocalSecret
FinishedCValid == LocalSecret = s5.root
FinishedPValid(m) == m.root = LocalSecret

(* parse_phase5_frame: an answer of the wanted kind, or the flow ends. *)
Phase5Frame(m, type) == m.type = type

(* Phase5CentralStateMachine: each event is legal in one state only. *)
Require(state, next) == IF c.machine = state THEN next ELSE Ends("error")
MachineStart ==
    /\ c.machine = "EMPTY"
    /\ SendStart("start5", [To("ready") EXCEPT !.machine = "WAIT_READY_FOR_SAS"])
ReceiveReadyForSas(m) ==
    IF ~Phase5Frame(m, "READY_FOR_SAS") THEN Ends("error")
    ELSE Require("WAIT_READY_FOR_SAS",
                 [To("sas") EXCEPT !.machine = "WAIT_SAS_CONFIRM", !.shown = m.root])
RejectSas(verdict) ==
    Require("WAIT_SAS_CONFIRM", [Ends(verdict) EXCEPT !.machine = "ABORTED"])
ConfirmSas ==
    Require("WAIT_SAS_CONFIRM",
            [To("finished") EXCEPT !.machine = "WAIT_FINISHED_P", !.vouched = TRUE])
ReceiveFinishedP(m, intact) ==
    IF ~Phase5Frame(m, "FINISHED_P") THEN Ends("error")
    ELSE Require("WAIT_FINISHED_P",
                 IF intact /\ FinishedPValid(m)
                 THEN [To("secure") EXCEPT !.machine = "AUTHENTICATED"]
                 ELSE [Ends("error") EXCEPT !.machine = "ABORTED"])
(* FINISHED_C on the control characteristic. *)
SendFinishedC(valid) ==
    \/ Phase5FinishedC(valid) /\ Submitted(To("confirm"))
    \/ Refused(Phase5Expects("WAIT_FINISHED_C"))

-----------------------------------------------------------------------------
(* run_phase5_auth_pq *)
Phase5Prepare == At("phase5", "prepare") /\ UploadBegins
Phase5Start == At("phase5", "start") /\ MachineStart
Phase5Ready == At("phase5", "ready") /\ Receives(ReceiveReadyForSas(Received))
Phase5Sas ==
    /\ At("phase5", "sas")
    /\ \E yes \in BOOLEAN :
           /\ UserAnswers(SasMatches, yes)
           /\ c' = IF yes THEN ConfirmSas
                   ELSE RejectSas(IF c.neg = "transcript" THEN "passed" ELSE "error")
    /\ UNCHANGED <<vars, inbox, runs>>
Phase5Finish ==
    At("phase5", "finished") /\ SendFinishedC(c.neg # "finished-c" /\ FinishedCValid)
(* A FINISHED_C the Peripheral must refuse passes on status 0x06, and on no *)
(* answer at all.                                                           *)
Phase5Refusal ==
    /\ At("phase5", "confirm") /\ c.neg \in {"finished-c", "transcript"}
    /\ \/ Takes(Ends(IF RefusedWith(AUTHENTICATION_FAILURE) THEN "passed" ELSE "error"))
       \/ TimesOut(Ends("passed"))
Phase5Confirm ==
    /\ At("phase5", "confirm") /\ c.neg \notin {"finished-c", "transcript"}
    /\ LET next == ReceiveFinishedP(Received, c.neg # "finished-p")
       IN  Receives(IF c.neg # "finished-p" THEN next
                    ELSE Ends(IF next.machine = "ABORTED" THEN "passed" ELSE "error"))
(* DATA_REQUEST, then the one message under K_app. *)
Phase5Request ==
    /\ At("phase5", "secure") /\ c.machine = "AUTHENTICATED"
    /\ \/ Phase5Data /\ Submitted([To("data") EXCEPT !.machine = "WAIT_APPLICATION_DATA"])
       \/ Refused(Phase5Expects("AUTHENTICATED"))
Phase5Receive ==
    /\ At("phase5", "data")
    /\ Receives(IF Received.type = "DATA5" /\ Decrypt(Received, TRUE, c) = "ok"
                THEN Require("WAIT_APPLICATION_DATA",
                             [Opened(Received, Ends("ok")) EXCEPT !.machine = "COMPLETE"])
                ELSE Ends("error"))

Phase5Next ==
    \/ Phase5Prepare \/ Phase5Start \/ Phase5Ready \/ Phase5Sas \/ Phase5Finish
    \/ Phase5Refusal \/ Phase5Confirm \/ Phase5Request \/ Phase5Receive
=============================================================================
