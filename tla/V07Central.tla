----------------------------- MODULE V07Central -----------------------------
(***************************************************************************)
(* The Central and the Peripheral of the v0.7 build together: one Central   *)
(* process after another (src/central/main.py) runs a flow of Phases 2 to 7 *)
(* against the handlers and the crypto worker of V07Session.                *)
(*                                                                         *)
(* Disturbances are counted and bounded by MaxFaults: a lost link, which    *)
(* takes the notifications still in flight with it, a failed computation or *)
(* notification on the Peripheral, an answer later than the timeout, a      *)
(* wrong answer of the user, a failed scan, unsubscription or               *)
(* disconnection.  The order of the steps of the two ends is free.          *)
(***************************************************************************)
EXTENDS CentralOneShot, CentralPhase6, CentralPhase7

CentralInit == Init /\ c = NoProcess /\ inbox = <<>> /\ runs = 0 /\ faults = 0

(* main: one process, one flow, with one of its negative tests or none. *)
NewProcess ==
    /\ c.pc = "exit" /\ runs < MaxRuns /\ runs' = runs + 1
    /\ \E flow \in Flows : \E neg \in NegativeModes[flow] \cup {"none"} :
           c' = [NoProcess EXCEPT !.pc = "connect", !.flow = flow, !.neg = neg]
    /\ UNCHANGED <<vars, inbox, faults>>

(* The exit status of each command: zero is success. *)
Phase2Exit == c.verdict = "ok"
Phase3Exit == c.verdict = "ok"
Phase5Exit == c.verdict = "passed" \/ (c.verdict = "ok" /\ c.neg = "none")
Phase6C2pExit == c.verdict = "ok"
Phase6Exit == c.verdict = "passed" \/ (c.verdict = "ok" /\ c.neg = "none")
HybridExit == c.verdict = "ok"
Phase7Exit == c.verdict = (IF c.neg = "none" THEN "ok" ELSE "passed")
ExitZero ==
    CASE c.flow = "phase2" -> Phase2Exit [] c.flow = "phase3" -> Phase3Exit
      [] c.flow = "phase5" -> Phase5Exit [] c.flow = "phase6" -> Phase6Exit
      [] c.flow = "c2p" -> Phase6C2pExit [] c.flow = "hybrid" -> HybridExit
      [] c.flow = "phase7" -> Phase7Exit [] OTHER -> FALSE

FlowNext == OneShotNext \/ Phase5Next \/ Phase6Next \/ Phase7Next
ProcessNext == ScanAndConnect \/ StartNotify \/ UploadEnds \/ StopNotify \/ Disconnect
CleanupDisturbed == ScanFails \/ CleanupFails \/ DisconnectFails

-----------------------------------------------------------------------------
Disturbs == faults < MaxFaults /\ faults' = faults + 1
(* The worker, and the delivery of its notification to the Central.         *)
WorkerMoves ==
    /\ \/ TakeJob \/ JobDone \/ Result \/ Wait7 \/ Commit7 \/ Auth7
       \/ Fail7 \/ Fail5 \/ WorkerResets
    /\ UNCHANGED central
WorkerComputes(crypto) ==
    /\ \/ Compute(crypto) \/ Start5(crypto) \/ Start7(crypto)
       \/ Finished5(crypto) \/ Finished7(crypto) \/ Data6(crypto) \/ Data7(crypto)
    /\ IF crypto THEN UNCHANGED faults ELSE Disturbs
    /\ UNCHANGED <<c, inbox, runs>>
Delivers ==
    /\ Notify(TRUE) /\ inbox' = Append(inbox, Answer) /\ UNCHANGED <<c, runs, faults>>
(* When READY7_CP2 cannot be queued an error frame is tried. *)
DeliveryFails ==
    /\ Notify(FALSE)
    /\ IF w.conn = cur /\ notify THEN Disturbs ELSE UNCHANGED faults
    /\ \/ inbox' = inbox
       \/ /\ w.mode = "cp2" /\ w.ok /\ w.conn = cur /\ notify
          /\ inbox' = Append(inbox, [type |-> "ERROR", root |-> w.root, seq |-> 0, label |-> 0,
                                     status |-> SECURE_CHANNEL_FAILURE])
    /\ UNCHANGED <<c, runs>>
HostFinishes == HostResets /\ UNCHANGED central

LinkLost ==
    /\ c.pc \notin {"connect", "exit"} /\ Disconnected /\ Disturbs
    /\ \E n \in 0 .. Len(inbox) : inbox' = SubSeq(inbox, 1, n)
    /\ UNCHANGED <<c, runs>>

(* The bound on processes is reached and the Peripheral has come to rest. *)
AllDone == c.pc = "exit" /\ runs = MaxRuns /\ AtRest /\ UNCHANGED system

PeripheralNext == WorkerMoves \/ WorkerComputes(TRUE) \/ Delivers \/ DeliveryFails \/ HostFinishes
CentralNext ==
    \/ NewProcess \/ ProcessNext \/ FlowNext \/ CleanupDisturbed
    \/ PeripheralNext \/ WorkerComputes(FALSE) \/ LinkLost \/ AllDone
CentralSpec == CentralInit /\ [][CentralNext]_system

(* The event loop runs on, its timeouts expire and both threads of the      *)
(* Peripheral go on.  Nothing makes the user answer.                        *)
CentralFairSpec ==
    /\ CentralSpec
    /\ WF_system(ProcessNext) /\ WF_system(c.pc # "sas" /\ FlowNext) /\ WF_system(PeripheralNext)

-----------------------------------------------------------------------------
(* Types of the Central's own variables. *)
CentralTypeOK ==
    /\ c.flow \in Flows \cup {"none"} /\ c.root \in 0 .. MaxStarts
    /\ c.round \in 0 .. Rounds /\ c.tx \in 0 .. Rounds /\ c.rx \in 0 .. Rounds
    /\ c.verdict \in {"none", "ok", "passed", "error"}
    /\ runs \in 0 .. MaxRuns /\ faults \in 0 .. MaxFaults /\ Len(inbox) <= 2

(* A process that connects to a Peripheral at rest and meets no disturbance *)
(* exits with zero: a positive run succeeds, a negative test sees its       *)
(* refusal and the traffic after it, and no earlier process, however it     *)
(* ended, leaves anything behind that could spoil this one.  The exception  *)
(* is the write that overtakes the Peripheral (early), see                  *)
(* TrafficFollowsFinished.                                                  *)
Undisturbed == c.pc = "exit" /\ c.flow # "none" /\ c.base = faults
UndisturbedRunPasses == Undisturbed /\ ~c.early => ExitZero

(* Exit status zero is earned, whatever was disturbed.  A positive run of   *)
(* Phases 6 and 7 carried every round; a negative test of the handshake     *)
(* left the Peripheral unauthenticated; and in a negative test of the data  *)
(* plane the refused frame moved no counter of the Peripheral.              *)
ZeroIsEarned ==
    c.pc = "cleanup" /\ ExitZero =>
        /\ c.flow \in {"phase6", "phase7"} /\ c.neg = "none" => c.tx = Rounds /\ c.rx = Rounds
        /\ c.neg \in {"sas-reject", "transcript", "finished-c"} =>
               c.root # s6.root /\ ~(s5.ready /\ s5.root = c.root)
               /\ ~(s7.auth /\ s7.root = c.root)
        /\ s7.auth /\ s7.root = c.root => s7.rx = Rounds /\ s7.tx = Rounds
        /\ s6.active /\ s6.root = c.root => s6.rx = c.tx /\ s6.tx = c.tx

(* The two data planes stay in step: the Peripheral never accepts a frame   *)
(* the Central did not number, the Central never accepts an answer the      *)
(* Peripheral did not count, and at most one round is open.                 *)
InStep(s) == s.rx <= c.tx /\ c.rx <= s.tx /\ s.rx = s.tx /\ c.tx <= c.rx + 1
PlanesInStep ==
    c.root # 0 => /\ s7.auth /\ s7.root = c.root => InStep(s7)
                  /\ s6.active /\ s6.root = c.root => InStep(s6)

(* The Peripheral activates application keys only for a handshake whose     *)
(* SAS the user of the Central has confirmed.                               *)
UserVouched ==
    c.root # 0 /\ ~c.vouched =>
        /\ ~((s7.pend \/ s7.auth) /\ s7.root = c.root)
        /\ ~(s5.ready /\ s5.root = c.root) /\ ~(s6.active /\ s6.root = c.root)

(* Types, data planes in step, and keys only for a confirmed SAS.           *)
CentralInv == CentralTypeOK /\ PlanesInStep /\ UserVouched

(* Every notification a process finds in its queue answers its own START,   *)
(* also when an earlier link was lost with a job still running.             *)
OwnAnswers == \A i \in 1 .. Len(inbox) : inbox[i].root = c.root

(* A process that is not waiting for its user comes to its end: no lost     *)
(* link or answer blocks it.                                                *)
RunEnds == c.pc \notin {"exit", "sas"} ~> c.pc \in {"exit", "sas"}

(* docs/research/milestones/v0.7-authenticated-hybrid-secure-channel.md,    *)
(* lines 582 to 585: after normal SAS/FINISHED authentication the original  *)
(* seq=0 wire remains valid and traffic then succeeds.  So a Central that   *)
(* has verified FINISHED_P finds the Peripheral ready for its frame.        *)
TrafficFollowsFinished ==
    Seven("secure") /\ c.base = faults /\ HostFree => DataWritable
=============================================================================
