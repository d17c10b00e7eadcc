---------------------------- MODULE CentralPhase6 ----------------------------
(***************************************************************************)
(* The bidirectional traffic of v0.6 (src/central/phase6_c2p.py): the       *)
(* handshake of v0.5, directional traffic keys, PING/PONG rounds, and the   *)
(* negative tests that stop at the first refused frame.  The flow c2p is    *)
(* the same with one round.                                                 *)
(***************************************************************************)
EXTENDS CentralPhase5

Six(pc) == c.flow \in {"phase6", "c2p"} /\ c.pc = pc
SixRounds == IF c.flow = "c2p" THEN 1 ELSE Rounds

(* Secure Data before any handshake: a refusal on a live link is a pass. *)
Phase6PreAuth ==
    /\ Six("prepare") /\ c.neg = "pre-auth"
    /\ \/ /\ WriteSecureData(0, FALSE)
          /\ c' = Ends(IF jobConn' = 0 THEN "passed" ELSE "error")
       \/ /\ ~DataWritable /\ (cur = 0 \/ HostFree) /\ UNCHANGED vars
          /\ c' = Ends(IF cur = 0 THEN "error" ELSE "passed")
    /\ UNCHANGED <<inbox, runs, faults>>

(* The handshake of v0.5, without its negative tests. *)
Phase6Prepare == Six("prepare") /\ c.neg # "pre-auth" /\ UploadBegins
Phase6Start == Six("start") /\ MachineStart
Phase6Ready == Six("ready") /\ Receives(ReceiveReadyForSas(Received))
Phase6Sas ==
    /\ Six("sas")
    /\ \E yes \in BOOLEAN :
           /\ UserAnswers(SasMatches, yes)
           /\ c' = IF yes THEN ConfirmSas ELSE RejectSas("error")
    /\ UNCHANGED <<vars, inbox, runs>>
Phase6Finish == Six("finished") /\ SendFinishedC(FinishedCValid)
Phase6Confirm == Six("confirm") /\ Receives(ReceiveFinishedP(Received, TRUE))

-----------------------------------------------------------------------------
(* The two channels start with the traffic keys: the first frame each way   *)
(* has sequence number 0.  FirstPong is the answer to it.                   *)
Testing(neg, pc) == Six(pc) /\ c.neg = neg
Phase6Frame(m) == m.type = "PONG"
FirstPong(m) == Phase6Frame(m) /\ Decrypt(m, TRUE, c) = "ok" /\ m.label = 0
Verdict(passed) == Ends(IF passed THEN "passed" ELSE "error")

Phase6C2pTamper ==
    \/ Testing("c2p-tamper", "secure") /\ WriteFrame(c.tx, FALSE, Sealed(To("tampered")))
    \/ /\ Testing("c2p-tamper", "tampered")
       /\ Receives(Verdict(RefusedWith(AUTHENTICATION_FAILURE)))

(* The frame is accepted once, then sent again bit for bit. *)
Phase6C2pReplay ==
    \/ Testing("c2p-replay", "secure") /\ WriteFrame(c.tx, TRUE, Sealed(To("first")))
    \/ /\ Testing("c2p-replay", "first")
       /\ Receives(IF FirstPong(Received) THEN Opened(Received, To("again")) ELSE Ends("error"))
    \/ Testing("c2p-replay", "again") /\ WriteFrame(c.tx - 1, TRUE, To("replayed"))
    \/ /\ Testing("c2p-replay", "replayed")
       /\ Receives(Verdict(RefusedWith(INVALID_PROTOCOL_STATE)))

(* A changed copy of a real answer is refused, the answer still accepted. *)
Phase6P2cTamper ==
    \/ Testing("p2c-tamper", "secure") /\ WriteFrame(c.tx, TRUE, Sealed(To("first")))
    \/ /\ Testing("p2c-tamper", "first")
       /\ Receives(Verdict(/\ Phase6Frame(Received)
                           /\ Decrypt(Received, FALSE, c) = "InvalidTag"
                           /\ FirstPong(Received)))
Phase6P2cReplay ==
    \/ Testing("p2c-replay", "secure") /\ WriteFrame(c.tx, TRUE, Sealed(To("first")))
    \/ /\ Testing("p2c-replay", "first")
       /\ Receives(Verdict(/\ FirstPong(Received)
                           /\ Decrypt(Received, TRUE, Opened(Received, c)) = "replay"))

(* The rounds, and the counts of both channels after the last. *)
Phase6Send ==
    /\ Testing("none", "secure")
    /\ IF c.tx # c.round THEN c' = Ends("error") /\ UNCHANGED <<vars, inbox, runs, faults>>
       ELSE WriteFrame(c.tx, TRUE, Sealed(To("pong")))
Phase6Counts(state) ==
    IF state.round < SixRounds THEN state
    ELSE [state EXCEPT !.pc = "cleanup",
              !.verdict = IF state.tx = SixRounds /\ state.rx = SixRounds THEN "ok" ELSE "error"]
Phase6Receive ==
    /\ Six("pong")
    /\ Receives(IF /\ Phase6Frame(Received) /\ Decrypt(Received, TRUE, c) = "ok"
                   /\ Received.seq = c.round /\ Received.label = c.round
                THEN Phase6Counts([Opened(Received, To("secure")) EXCEPT !.round = @ + 1])
                ELSE Ends("error"))

Phase6Next ==
    \/ Phase6PreAuth \/ Phase6Prepare \/ Phase6Start \/ Phase6Ready \/ Phase6Sas
    \/ Phase6Finish \/ Phase6Confirm
    \/ Phase6C2pTamper \/ Phase6C2pReplay \/ Phase6P2cTamper \/ Phase6P2cReplay
    \/ Phase6Send \/ Phase6Receive
=============================================================================
