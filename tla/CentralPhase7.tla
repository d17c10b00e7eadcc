---------------------------- MODULE CentralPhase7 ----------------------------
(***************************************************************************)
(* The authenticated hybrid flow of v0.7 and its CP4 negative tests         *)
(* (src/central/phase7_auth.py, with the key schedule of                    *)
(* src/common/phase7.py).  Unlike those of v0.6, most of these tests go on   *)
(* after the refused frame: the session must still carry every round.       *)
(***************************************************************************)
EXTENDS CentralClient

Seven(pc) == At("phase7", pc)

(* parse_phase7_frame: an answer of the wanted kind, or the flow ends. *)
Phase7Frame(m, type) == m.type = type
(* The hybrid key schedule binds SAS, FINISHED and traffic keys to the      *)
(* transcript: equal exactly when both ends took part in the same START.    *)
HybridKeys == c.root
HybridSasMatches == c.shown = HybridKeys
HybridFinishedC == c.neg # "finished-c" /\ HybridKeys = s7.root
HybridFinishedP(m) == Phase7Frame(m, "FINISHED_P") /\ m.root = HybridKeys

(* _require_quiet: no notification for a while, on a link that stays up. *)
QuietThen(pc) == [To("quiet") EXCEPT !.then = pc]
RequireQuiet ==
    /\ Seven("quiet")
    /\ \/ Takes(Ends("error"))
       \/ /\ inbox = <<>>
          /\ c' = IF cur = 0 THEN Ends("error")
                  ELSE [(IF c.then = "passed" THEN Ends("passed") ELSE To(c.then))
                            EXCEPT !.checked = TRUE]
          /\ UNCHANGED <<vars, inbox, runs, faults>>

(* _require_preauth_rejection: a valid frame with sequence number 0 must be *)
(* refused for the state of the protocol: a busy or unsubscribed Peripheral *)
(* is not a refusal the test accepts.                                       *)
RequirePreauthRejection(pc) ==
    /\ \/ /\ WriteSecureData(0, OpenRoot = c.root)
          /\ c' = IF jobConn' = 0 /\ SlotFree THEN QuietThen(pc) ELSE Ends("error")
       \/ /\ ~DataWritable /\ (cur = 0 \/ HostFree) /\ UNCHANGED vars
          /\ c' = IF cur # 0 /\ notify /\ ~DataOpen THEN QuietThen(pc) ELSE Ends("error")
    /\ UNCHANGED <<inbox, runs, faults>>

-----------------------------------------------------------------------------
(* run_phase7_authenticated_hybrid: public key, P-256 key, encapsulation,   *)
(* START7_AUTH, and the keys once READY7_AUTH brings the other P-256 key.   *)
Phase7Prepare == Seven("prepare") /\ UploadBegins
Phase7Start == Seven("start") /\ SendStart("start7", To("ready"))
Phase7Ready ==
    /\ Seven("ready")
    /\ Receives(IF ~Phase7Frame(Received, "READY7_AUTH") THEN Ends("error")
                ELSE [To(IF c.neg = "pre-auth" THEN "probe" ELSE "sas")
                          EXCEPT !.shown = Received.root])
Phase7Probe == Seven("probe") /\ RequirePreauthRejection("sas")

(* The test sas-reject answers no by itself; a user who says no ends any    *)
(* other run.                                                               *)
\* Mutant: a rejected SAS still leads to FINISHED_C.
Phase7SasIgnored ==
    /\ Seven("sas")
    /\ \E yes \in BOOLEAN :
           /\ IF c.neg = "sas-reject" THEN ~yes /\ UNCHANGED faults
              ELSE UserAnswers(HybridSasMatches, yes)
           /\ c' = [To("finished") EXCEPT !.vouched = yes]
    /\ UNCHANGED <<vars, inbox, runs>>
Phase7Sas ==
    /\ Seven("sas")
    /\ \E yes \in BOOLEAN :
           /\ IF c.neg = "sas-reject" THEN ~yes /\ UNCHANGED faults
              ELSE UserAnswers(HybridSasMatches, yes)
           /\ c' = IF yes THEN [To("finished") EXCEPT !.vouched = TRUE]
                   ELSE IF c.neg = "sas-reject" THEN To("rejected") ELSE Ends("error")
    /\ UNCHANGED <<vars, inbox, runs>>
Phase7Rejected == Seven("rejected") /\ RequirePreauthRejection("passed")

Phase7Finish ==
    /\ Seven("finished")
    /\ \/ Phase7FinishedC(HybridFinishedC) /\ Submitted(To("confirm"))
       \/ Refused(Phase7Expects)
Phase7Confirm ==
    /\ Seven("confirm")
    /\ Receives(IF c.neg = "finished-c"
                THEN IF RefusedWith(AUTHENTICATION_FAILURE) THEN To("blocked") ELSE Ends("error")
                ELSE IF HybridFinishedP(Received) THEN To("secure") ELSE Ends("error"))
Phase7Blocked == Seven("blocked") /\ RequirePreauthRejection("passed")

-----------------------------------------------------------------------------
(* The rounds, over two channels with the directional traffic keys.  In the *)
(* first one a negative test sends a changed frame first, changes or        *)
(* repeats the answer locally, or sends the accepted frame again.           *)
FirstRound(neg) == c.round = 0 /\ c.neg = neg
Phase7Send ==
    /\ Seven("secure")
    /\ IF c.tx # c.round THEN c' = Ends("error") /\ UNCHANGED <<vars, inbox, runs, faults>>
       ELSE IF FirstRound("c2p-tamper") THEN WriteFrame(c.tx, FALSE, Sealed(To("tampered")))
       ELSE WriteFrame(c.tx, TRUE, Sealed(To("pong")))
Phase7Tampered ==
    /\ Seven("tampered")
    /\ Receives(IF RefusedWith(AUTHENTICATION_FAILURE) THEN QuietThen("retry") ELSE Ends("error"))
\* Mutant: the repetition takes a new number.
Phase7RetryNext == Seven("retry") /\ WriteFrame(c.tx, TRUE, To("pong"))
Phase7Retry == Seven("retry") /\ WriteFrame(c.tx - 1, TRUE, To("pong"))

LocalTamper(m) == FirstRound("p2c-tamper") => Decrypt(m, FALSE, c) = "InvalidTag"
LocalReplay(m) == FirstRound("p2c-replay") => Decrypt(m, TRUE, Opened(m, c)) = "replay"
Phase7Receive ==
    /\ Seven("pong")
    /\ Receives(IF /\ Received.type = "PONG" /\ Received.seq = c.round
                   /\ LocalTamper(Received) /\ Decrypt(Received, TRUE, c) = "ok"
                   /\ Received.label = c.round /\ LocalReplay(Received)
                THEN [Opened(Received, To(IF FirstRound("c2p-replay") THEN "replay" ELSE "next"))
                          EXCEPT !.checked = @ \/ FirstRound("p2c-tamper")
                                                \/ FirstRound("p2c-replay")]
                ELSE Ends("error"))
Phase7Replay ==
    \/ Seven("replay") /\ WriteFrame(c.tx - 1, TRUE, To("replayed"))
    \/ /\ Seven("replayed")
       /\ Receives(IF RefusedWith(INVALID_PROTOCOL_STATE) THEN QuietThen("next")
                   ELSE Ends("error"))

(* The next round, or the end: a negative test that never met its refusal   *)
(* fails, and the others watch for a late notification.                     *)
\* Mutant: one round short.
Phase7RoundShort ==
    /\ Seven("next")
    /\ c' = IF c.round + 2 < Rounds THEN [To("secure") EXCEPT !.round = @ + 1]
            ELSE IF c.neg = "none" THEN Ends("ok")
            ELSE IF c.checked THEN QuietThen("passed") ELSE Ends("error")
    /\ UNCHANGED <<vars, inbox, runs, faults>>
Phase7Round ==
    /\ Seven("next")
    /\ c' = IF c.round + 1 < Rounds THEN [To("secure") EXCEPT !.round = @ + 1]
            ELSE IF c.neg = "none" THEN Ends("ok")
            ELSE IF c.checked THEN QuietThen("passed") ELSE Ends("error")
    /\ UNCHANGED <<vars, inbox, runs, faults>>

Phase7Next ==
    \/ RequireQuiet \/ Phase7Prepare \/ Phase7Start \/ Phase7Ready \/ Phase7Probe
    \/ Phase7Sas \/ Phase7Rejected \/ Phase7Finish \/ Phase7Confirm \/ Phase7Blocked
    \/ Phase7Send \/ Phase7Tampered \/ Phase7Retry \/ Phase7Receive \/ Phase7Replay
    \/ Phase7Round
=============================================================================
