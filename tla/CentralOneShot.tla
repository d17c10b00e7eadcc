--------------------------- MODULE CentralOneShot ---------------------------
(***************************************************************************)
(* The flows of the Central that exchange one START command for one         *)
(* notification: the diagnostic of Phase 2 (src/central/mlkem_e2e.py), the  *)
(* message of Phase 3 (src/central/phase3_secure.py) and the key agreement  *)
(* of v0.7 CP2 (src/central/phase7_hybrid.py).                              *)
(***************************************************************************)
EXTENDS CentralClient

(* run_phase2_e2e: the checksums of both ends must match. *)
Phase2Exchange ==
    \/ At("phase2", "prepare") /\ UploadBegins
    \/ At("phase2", "start") /\ SendStart("diag", To("ready"))
Phase2Result ==
    /\ At("phase2", "ready")
    /\ Receives(Ends(IF Received.type = "PQM2" /\ Received.root = c.root
                     THEN "ok" ELSE "error"))

(* run_phase3_secure: public key, encapsulation, session key, channels, and *)
(* the ciphertext.                                                          *)
Phase3Prepare == At("phase3", "prepare") /\ UploadBegins
Phase3Start == At("phase3", "start") /\ SendStart("secure", To("ready"))
(* The answer is awaited, then the negative test tries its own channel on   *)
(* it, whose counter is not the one of the real channel.                    *)
Phase3Receive ==
    /\ At("phase3", "ready")
    /\ Receives(IF Received.type # "DATA3" THEN Ends("error")
                ELSE [To("decrypt") EXCEPT !.shown = Received.root])
Phase3Message == [seq |-> 0, root |-> c.shown]
Phase3Negative ==
    c.neg \in {"tamper", "aad"} => Decrypt(Phase3Message, FALSE, [c EXCEPT !.rx = 0]) = "InvalidTag"
Phase3Replay(state) ==
    c.neg = "replay" => Decrypt(Phase3Message, TRUE, state) = "replay"
Phase3Decrypt ==
    /\ At("phase3", "decrypt")
    /\ c' = IF /\ Phase3Negative
               /\ Decrypt(Phase3Message, TRUE, c) = "ok"
               /\ Phase3Replay(Opened(Phase3Message, c))
            THEN Opened(Phase3Message, Ends("ok"))
            ELSE Ends("error")
    /\ UNCHANGED <<vars, inbox, runs, faults>>

(* run_phase7_hybrid_e2e: the diagnostic proves that both ends derived the  *)
(* same hybrid keys.                                                        *)
HybridExchange ==
    \/ At("hybrid", "prepare") /\ UploadBegins
    \/ At("hybrid", "start") /\ SendStart("cp2", To("ready"))
HybridResult ==
    /\ At("hybrid", "ready")
    /\ Receives(Ends(IF Received.type = "READY7_CP2" /\ Received.root = c.root
                     THEN "ok" ELSE "error"))

OneShotNext ==
    \/ Phase2Exchange \/ Phase2Result
    \/ Phase3Prepare \/ Phase3Start \/ Phase3Receive \/ Phase3Decrypt
    \/ HybridExchange \/ HybridResult
=============================================================================
