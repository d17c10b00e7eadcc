------------------------------ MODULE V1Central ------------------------------
(***************************************************************************)
(* The Central of profile v1.0 against its Peripheral: one process after    *)
(* another runs a checkpoint CP1 to CP4 (src/central/v1_smp_mlkem.py,        *)
(* v1_cp2.py, v1_cp3.py, v1_cp4.py, with CentralHandshake and               *)
(* CentralApplication of src/common) or a negative test of the pairing.     *)
(* The pairing is module V1Pairing, the Peripheral module V1Handshake,      *)
(* whose security gate opens here when the pairing succeeds or when the     *)
(* first protected access restores the encryption of a bond.                *)
(*                                                                         *)
(* A link is named by its connection generation, and keys by the link that  *)
(* agreed on them.  Disturbances are counted and bounded by MaxFaults.      *)
(***************************************************************************)
EXTENDS V1Handshake, V1Pairing, Sequences

CONSTANTS
    Checkpoints,       \* the checkpoints to run
    MaxRuns,           \* bound: Central processes
    MaxFaults          \* bound: disturbances

ASSUME V1CentralAssumption ==
    /\ Checkpoints \subseteq {"cp1", "cp2", "cp3", "cp4"}
    /\ MaxRuns \in Nat /\ MaxFaults \in Nat
    /\ SEQ_MAX >= 2                     \* UINT64_MAX, for the two PINGs of CP4

VARIABLES
    c,                 \* the Central process
    inbox,             \* the notifications it has not taken yet
    runs, faults       \* processes started and disturbances so far

system == <<vars, pairing, c, inbox, runs, faults>>
Rounds == 2            \* range(2) in _cp4_exchange

(* pc, then: where the coroutine is, and where it goes next; cold: no bond  *)
(* on Windows at the start; link: the raw_client a checkpoint took; hs:     *)
(* CentralHandshake.state; tx, rx: the counters of CentralApplication;      *)
(* base: faults when the process began, -1 once it is not undisturbed;      *)
(* opened: the Peripheral's gate was open; early: a write overtook the      *)
(* Peripheral's delivery.                                                   *)
NoProcess == [pc |-> "exit", mode |-> "none", neg |-> "none", unpair |-> FALSE, then |-> "none",
              cold |-> FALSE, link |-> 0, hs |-> "NEW", tx |-> 0, rx |-> 0,
              verdict |-> "none", base |-> -1, opened |-> FALSE, early |-> FALSE]
V1Init ==
    /\ Init /\ cer = NoCeremony /\ os = NoOperation /\ bonds = [pc |-> FALSE, dk |-> FALSE]
    /\ c = NoProcess /\ inbox = <<>> /\ runs = 0 /\ faults = 0

At(pc) == c.pc = pc
To(pc) == [c EXCEPT !.pc = pc]
(* CentralHandshake.clear.  NEW also stands for a process that made no    *)
(* CentralHandshake; one that never began has nothing to clear.            *)
Closed(x) == [x EXCEPT !.hs = IF @ = "NEW" THEN @ ELSE "CLOSED"]
(* An exception clears the session and drops the locals of the coroutine. *)
Unwound == [Closed(c) EXCEPT !.link = 0, !.tx = 0, !.rx = 0, !.cold = FALSE, !.unpair = FALSE]
(* An exception or a result ends the run and enters the finally blocks. *)
Ends(verdict) == [(IF verdict = "ok" THEN c ELSE Unwound) EXCEPT
                      !.pc = "cleanup", !.verdict = verdict]
Step(next) == c' = next /\ UNCHANGED <<vars, pairing, inbox, runs, faults>>
Calls(action, next) == action /\ c' = next /\ UNCHANGED <<pairing, inbox, runs, faults>>
Disturbs == faults < MaxFaults /\ faults' = faults + 1

-----------------------------------------------------------------------------
(* _run_v1_smp_l4_mlkem_cli: connect, run, report, disconnect.  A process   *)
(* is undisturbed from a Peripheral at rest with the same bonds on both     *)
(* sides.                                                                   *)
AtRest == w.pc = "idle" /\ SlotFree
NewRun ==
    /\ At("exit") /\ runs < MaxRuns /\ runs' = runs + 1
    /\ \E mode \in Checkpoints, neg \in {"none", "pre-l4-only", "nc-reject", "just-works"},
          unpair \in BOOLEAN :
           /\ neg # "none" => mode = "cp1"
           /\ c' = [NoProcess EXCEPT !.pc = "connect", !.mode = mode, !.neg = neg,
                                     !.unpair = unpair]
    /\ UNCHANGED <<vars, pairing, inbox, faults>>
(* pq_v1_security's BUTTON 3, pressed while nobody is connected. *)
ClearDkBonds ==
    /\ At("exit") /\ cur = 0 /\ bonds.dk /\ bonds' = [bonds EXCEPT !.dk = FALSE]
    /\ UNCHANGED <<vars, cer, os, c, inbox, runs, faults>>
ScanAndConnect ==
    /\ At("connect") /\ Connected
    /\ c' = [To("inspect") EXCEPT !.base = IF AtRest THEN faults ELSE -1]
    /\ UNCHANGED <<pairing, inbox, runs, faults>>

(* inspect_pairing, and unpair with --v1-unpair-first, which may cost the   *)
(* link.  A negative test needs a device that is not paired.                *)
Inspect ==
    /\ At("inspect")
    /\ \/ cur = 0 /\ Step(Ends("error"))
       \/ /\ cur # 0 /\ c.unpair /\ bonds.pc /\ bonds' = [bonds EXCEPT !.pc = FALSE]
          /\ c' = [To("ensure") EXCEPT !.then = "inspect"]
          /\ UNCHANGED <<vars, cer, os, inbox, runs, faults>>
       \/ /\ cur # 0 /\ ~(c.unpair /\ bonds.pc)
          /\ Step(IF c.neg # "none" /\ bonds.pc THEN [Ends("error") EXCEPT !.base = -1]
                  ELSE [To(IF bonds.pc THEN "subscribe" ELSE "probe") EXCEPT
                            !.cold = ~bonds.pc, !.link = cur, !.unpair = FALSE,
                            !.base = IF bonds.pc = bonds.dk THEN @ ELSE -1])
(* _ensure_connected and reconnect_v1_peer: a new link to the same peer. *)
EnsureConnected ==
    /\ At("ensure")
    /\ \/ cur # 0 /\ Step([To(c.then) EXCEPT !.link = cur, !.then = "none"])
       \/ /\ cur = 0 /\ Calls(Connected, [To(c.then) EXCEPT !.link = gen + 1, !.then = "none",
                                              !.base = IF AtRest THEN @ ELSE -1])

(* _run_pre_l4_probes: read, ciphertext, control and subscription must all  *)
(* be denied for lack of security.                                          *)
Probes(next) == Step(IF cur # 0 /\ ~l4 THEN next ELSE Ends("error"))
PreL4Probes ==
    At("probe") /\ Probes(IF c.neg = "pre-l4-only" THEN Ends("passed") ELSE To("pair"))

-----------------------------------------------------------------------------
(* The pairing.  The operators answer what the run calls for: yes, or no in *)
(* the test nc-reject.  Any other answer, event or end is a disturbance.    *)
Kind == IF c.neg = "just-works" THEN "CONFIRM_ONLY" ELSE "CONFIRM_PIN_MATCH"
Wanted == IF c.neg = "nc-reject" THEN "no" ELSE "yes"
Expected1(holds) == IF holds THEN UNCHANGED faults ELSE Disturbs
Pair ==
    /\ At("pair")
    /\ \/ PairAsync(Kind) /\ c' = To("ceremony") /\ UNCHANGED <<vars, inbox, runs, faults>>
       \/ bonds.pc /\ Step(Ends("error"))
CeremonyStep ==
    /\ \/ \E kind \in Kinds, raises \in BOOLEAN :
              /\ PairingRequested(kind, raises)
              /\ Expected1(kind = cer.kind /\ os.events = 0 /\ ~raises)
       \/ StartDecision /\ UNCHANGED faults
       \/ \E answer \in {"yes", "no", "none"}, accepts, raises \in BOOLEAN :
              /\ Decide(answer, accepts, raises)
              /\ Expected1(answer = Wanted /\ ~raises)
    /\ UNCHANGED <<vars, c, inbox, runs>>
(* The link reaches L4 with the pairing, and may then be dropped. *)
Pairs ==
    /\ At("ceremony") /\ cur # 0 /\ OsPairs /\ SecurityUp
    /\ c' = [c EXCEPT !.opened = TRUE] /\ UNCHANGED <<inbox, runs, faults>>
PairsElsewhere ==
    /\ At("ceremony") /\ cur # 0 /\ SecurityUp /\ Disturbs
    /\ \E status \in {"PAIRED", "ALREADY_PAIRED"} : OsPairsElsewhere(status)
    /\ c' = [c EXCEPT !.opened = TRUE] /\ UNCHANGED <<inbox, runs>>
(* Nobody accepted: the event was answered with no, or not at all. *)
Unaccepted == cer.received /\ ~cer.deferral /\ ~cer.accepted
Refuses ==
    /\ At("ceremony")
    /\ \E status \in Refusals :
           /\ OsRefuses(status)
           /\ Expected1(\/ cur = 0 \/ cer.error \/ Unaccepted
                        \/ cer.kind = "CONFIRM_ONLY" /\ cer.accepted /\ status # "PAIRING_CANCELED")
    /\ UNCHANGED <<vars, c, inbox, runs>>

(* _rejection_evidence: what proves that the pairing was refused. *)
Evidence ==
    /\ ~OutcomePaired
    /\ IF c.neg = "nc-reject"
       THEN /\ cer.ceremony = "CONFIRM_PIN_MATCH" /\ cer.decision = "no" /\ ~cer.accepted
            /\ os.status \in Refusals
       ELSE \/ os.status = "SECURITY"
            \/ os.status = "FAILED" /\ cer.ceremony = "CONFIRM_ONLY" /\ cer.accepted
PairReturns ==
    /\ At("ceremony") /\ Stop(TRUE)
    /\ c' = IF PairingRaises THEN Ends("error")
            ELSE IF c.neg # "none" THEN (IF Evidence /\ inbox = <<>> THEN To("retire") ELSE Ends("error"))
            ELSE IF os.status = "PAIRED" THEN [To("ensure") EXCEPT !.then = "subscribe"]
            ELSE Ends("error")
    /\ UNCHANGED <<vars, inbox, runs, faults>>
PairTimesOut ==
    /\ At("ceremony") /\ Stop(FALSE)
    /\ c' = [Ends("error") EXCEPT !.base = -1] /\ UNCHANGED <<vars, inbox, runs, faults>>

(* _verify_negative_closed: no bond, a fresh link, and all still denied. *)
RetireLink ==
    /\ At("retire")
    /\ \/ bonds.pc /\ Step(Ends("error"))
       \/ ~bonds.pc /\ cur # 0 /\ Calls(Disconnected, [To("ensure") EXCEPT !.then = "verify"])
       \/ ~bonds.pc /\ cur = 0 /\ Step([To("ensure") EXCEPT !.then = "verify"])
VerifyClosed ==
    /\ At("verify")
    /\ IF bonds.pc \/ inbox # <<>> THEN Step(Ends("error")) ELSE Probes(Ends("passed"))

-----------------------------------------------------------------------------
(* The exchange of a checkpoint on the link it took.  Same is               *)
(* require_same_link and require_live; CP1 notices a lost link only by the  *)
(* call that fails on it.                                                   *)
Exchange == {"subscribe", "attest1", "info1", "upload", "last", "attest2", "info2", "start",
             "ready", "confirm", "finished", "quiet", "ping", "pong", "settle"}
Same == cur # 0 /\ cur = c.link /\ c.hs # "CLOSED"
Holds == c.mode = "cp1" \/ Same
Fails(refused) == (~Same \/ (HostFree /\ refused)) /\ Step(Ends("error"))
Writes(accepted, action, next) ==
    \/ Same /\ accepted /\ Calls(action, next)
    \/ Fails(~accepted)
(* A write that gives the worker a job, whose computation may fail. *)
Submits(accepted, Act(_), next) ==
    \/ /\ Same /\ accepted
       /\ \E good \in BOOLEAN : Act(good) /\ Expected1(good)
       /\ c' = (IF slot'.pending THEN next ELSE Ends("error"))
       /\ UNCHANGED <<pairing, inbox, runs>>
    \/ Fails(~accepted)

(* start_notify: the first protected access restores the encryption of a    *)
(* bond both sides hold; a bond that only Windows holds is stale.           *)
Restorable == bonds.pc /\ bonds.dk /\ notice = "no"
StartNotify ==
    /\ At("subscribe")
    /\ \/ ~l4 /\ Same /\ Restorable /\ Calls(SecurityUp, [c EXCEPT !.opened = TRUE])
       \/ l4 /\ Writes(HostFree, Subscribe, To(IF c.mode = "cp1" THEN "upload" ELSE "attest1"))
       \/ ~l4 /\ Fails(~Restorable)

(* attest: SEC_QUERY, which handle_v1_control answers in the same call. *)
Frame(type, root, seq) == [type |-> type, root |-> root, seq |-> seq]
SecInfo == Frame("SEC_INFO", 0, 0)
Attest(pc, next) ==
    /\ At(pc)
    /\ \/ /\ Same /\ HostFree /\ l4 /\ notify /\ inbox = <<>>
          /\ inbox' = <<SecInfo>> /\ c' = To(next)
          /\ UNCHANGED <<vars, pairing, runs, faults>>
       \/ Fails(~(l4 /\ notify) \/ inbox # <<>>)

(* receive: a time limit, the link, then the type of the frame. *)
\* Mutant: no time limit on a link that is gone.
SilentLinked == cur # 0 /\ w.pc = "idle" /\ ~slot.pending
Silent == cur = 0 \/ (w.pc = "idle" /\ ~slot.pending)
Receives(valid, next) ==
    \/ /\ inbox # <<>> /\ inbox' = Tail(inbox)
       /\ c' = IF Holds /\ valid THEN next ELSE Ends("error")
       /\ UNCHANGED <<vars, pairing, runs, faults>>
    \/ (~Holds \/ (inbox = <<>> /\ Silent)) /\ Step(Ends("error"))
Is(type) == inbox # <<>> /\ Head(inbox).type = type
Mine == inbox # <<>> /\ Head(inbox).root = c.link

Handshakes == c.mode \in {"cp3", "cp4"}
(* The second attestation goes into the transcript: CentralHandshake.begin. *)
Attested ==
    \/ At("info1") /\ Receives(Is("SEC_INFO"), To("upload"))
    \/ At("info2") /\ Receives(Is("SEC_INFO"),
           IF c.mode = "cp1" THEN To("quiet")
           ELSE [To("start") EXCEPT !.hs = IF Handshakes THEN "WAIT_READY_CP3" ELSE @])
(* write_fragmented_ciphertext: the first fragments, then the last one. *)
Upload ==
    \/ At("upload") /\ Writes(Writable, WriteCiphertext("RECEIVING"), To("last"))
    \/ At("last") /\ Writes(Writable /\ ct = "RECEIVING", WriteCiphertext("READY"),
                             To("attest2"))
SendStart ==
    /\ At("start")
    /\ IF inbox # <<>> THEN Step(Ends("error"))
       ELSE IF Handshakes THEN Submits(Starts3, Cp3Start, To("ready"))
       ELSE Submits(Starts2, Cp2Start, To("ready"))
(* READY_V1 must carry the diagnostic of this secret.  accept_ready and     *)
(* accept_finished_p check the state and the transcript.                    *)
ReadyV1 ==
    At("ready") /\ ~Handshakes /\ Receives(Is("READY") /\ Mine, To("quiet"))
AcceptReady ==
    /\ At("ready") /\ Handshakes
    /\ Receives(Is("READY_CP3") /\ Mine /\ c.hs = "WAIT_READY_CP3",
                [To("confirm") EXCEPT !.hs = "WAIT_FINISHED_P"])
SendFinishedC ==
    /\ At("confirm")
    /\ IF inbox # <<>> THEN Step(Ends("error"))
       ELSE Submits(Confirms, FinishedC, To("finished"))
AcceptFinishedP ==
    /\ At("finished")
    /\ Receives(Is("FINISHED_P") /\ Mine /\ c.hs = "WAIT_FINISHED_P",
                [To("quiet") EXCEPT !.hs = "APP_SECURE"])
(* The quiet window: a duplicate or unsolicited notification fails the run. *)
Quiet ==
    /\ At("quiet")
    /\ Step(IF inbox # <<>> \/ ~Holds THEN Ends("error")
            ELSE IF c.mode = "cp4" THEN To("ping") ELSE Ends("ok"))

(* rounds of _cp4_exchange.  encrypt_ping consumes the number before the    *)
(* write; a notification nobody waits for clears the session.               *)
Ping(good) == Cp4Ping(c.tx, good)
Takes4 == HostFree /\ l4 /\ Accepts4(c.tx)
SendPing ==
    /\ At("ping")
    /\ LET sent == [c EXCEPT !.tx = @ + 1]
       IN  \/ /\ Same /\ inbox = <<>> /\ Takes4 /\ \E good \in BOOLEAN : Ping(good) /\ Expected1(good)
              /\ c' = [sent EXCEPT !.pc = "pong"] /\ UNCHANGED <<pairing, inbox, runs>>
           \/ /\ Same /\ inbox = <<>> /\ HostFree /\ ~Takes4 /\ (l4 \/ cp3.state = "APP_SECURE")
              /\ Calls(Cp4Denied, [Ends("error") EXCEPT !.early = cp3.delivery])
           \/ Fails(inbox # <<>> \/ ~(l4 \/ cp3.state = "APP_SECURE"))
\* Mutant: the answer is not authenticated.
AcceptPongAny ==
    /\ At("pong")
    /\ Receives(TRUE, [To(IF c.rx + 1 = Rounds THEN "settle" ELSE "ping") EXCEPT !.rx = @ + 1])
AcceptPong ==
    /\ At("pong")
    /\ Receives(Is("PONG") /\ Mine /\ Head(inbox).seq = c.rx,
                [To(IF c.rx + 1 = Rounds THEN "settle" ELSE "ping") EXCEPT !.rx = @ + 1])
Settle ==
    At("settle") /\ Step(IF inbox # <<>> \/ ~Same THEN Ends("error") ELSE Ends("ok"))

(* The finally block of _run_v1: stop_notify, unless a completed CP3 or CP4 *)
(* keeps its subscription.  A failure is only logged.                       *)
StopNotify ==
    /\ At("cleanup")
    /\ LET stops == cur # 0 /\ notify /\ l4 /\ ~(c.verdict = "ok" /\ Handshakes)
       IN  \/ stops /\ Calls(Unsubscribe, To("report"))
           \/ (~stops \/ notice = "due") /\ Step(To("report"))
(* What _run_v1_smp_l4_mlkem_cli checks again before it prints PASS, and    *)
(* its own finally block: nothing is awaited before disconnect.             *)
Reports ==
    c.verdict = "ok" /\ Handshakes =>
        /\ c.hs = "APP_SECURE" /\ Same /\ inbox = <<>>
        /\ c.mode = "cp4" => c.tx = Rounds /\ c.rx = Rounds
Report ==
    /\ At("report") /\ (Disconnected \/ (cur = 0 /\ UNCHANGED vars))
    /\ c' = [Closed(c) EXCEPT !.pc = "exit", !.verdict = IF Reports THEN @ ELSE "error"]
    /\ inbox' = <<>> /\ cer' = NoCeremony /\ os' = NoOperation
    /\ UNCHANGED <<bonds, runs, faults>>
ExitZero == c.verdict = IF c.neg = "none" THEN "ok" ELSE "passed"

-----------------------------------------------------------------------------
(* The Peripheral's worker, and its notifications on their way. *)
WorkerMoves ==
    /\ \/ TakeJob \/ Cp2Compute \/ Cp3Compute \/ FinishedTake \/ FinishedStore
       \/ Cp4Check("run", "open") \/ Cp4Open \/ Cp4Check("opened", "seal") \/ Cp4Seal
       \/ JobDone \/ Cp2Result \/ Cp2Finish \/ Cp2Release
       \/ Cp3Result \/ Cp3Finish \/ Cp4Result \/ Cp4Finish
    /\ UNCHANGED <<pairing, c, inbox, runs, faults>>
Sends(frame) == inbox' = Append(inbox, frame) /\ UNCHANGED <<pairing, c, runs>>
OrError(type) == Frame(IF w.ok THEN type ELSE "ERROR", w.from, 0)
Delivers ==
    /\ \/ Cp2Notify(TRUE) /\ Sends(OrError("READY"))
       \/ Cp3Notify(TRUE) /\ Sends(OrError("READY_CP3"))
       \/ FinishedP(TRUE, FALSE) /\ Sends(Frame("FINISHED_P", keys.app, 0))
       \/ Cp4Notify(TRUE) /\ Sends(Frame("PONG", keys.app, keys.tx))
    /\ UNCHANGED faults
DeliveryFails ==
    /\ \/ Cp2Notify(FALSE) /\ Expected1(~(w.conn # 0 /\ Current2 /\ l4))
       \/ Cp3Notify(FALSE) /\ Expected1(~(w.conn # 0 /\ w.conn = cur /\ l4 /\ notify))
       \/ FinishedP(FALSE, FALSE) /\ Expected1(~Deliver3)
       \/ Cp4Notify(FALSE) /\ Expected1(~(w.conn # 0 /\ w.conn = cp3.conn /\ Live4))
    /\ UNCHANGED <<pairing, c, inbox, runs>>
(* FINISHED_P was queued, and the deadline passed before the commit. *)
FinishedLate ==
    FinishedP(TRUE, TRUE) /\ Sends(Frame("FINISHED_P", keys.app, 0)) /\ Disturbs
HostMoves == (SecurityChanged \/ TimerNext) /\ UNCHANGED <<pairing, c, inbox, runs, faults>>
(* The deadline of a handshake that goes on without trouble does not pass. *)
TimePasses ==
    Tick /\ Expected1(cp3.state \notin Handshaking) /\ UNCHANGED <<pairing, c, inbox, runs>>

(* Disturbances of the link and of the exchange.  The loss of a link takes  *)
(* what is still in flight with it and clears the session that owned it;    *)
(* after a pairing or an unpairing Windows may drop it of its own accord.   *)
LinkLost ==
    /\ c.pc \notin {"connect", "exit"} /\ Disconnected /\ Expected1(At("ensure"))
    /\ c' = (IF c.link = cur THEN Closed(c) ELSE c)
    /\ \E n \in 0 .. Len(inbox) : inbox' = SubSeq(inbox, 1, n)
    /\ UNCHANGED <<pairing, runs>>
Downgraded == SecurityLost /\ Disturbs /\ UNCHANGED <<pairing, c, inbox, runs>>
(* A failed write, an answer later than its limit, or CP3_TIMEOUT; and a    *)
(* Peripheral that is not found, or not found again.                        *)
Aborts ==
    /\ c.pc \in Exchange \/ (c.pc \in {"connect", "ensure"} /\ cur = 0)
    /\ Disturbs /\ c' = Ends("error") /\ UNCHANGED <<vars, pairing, inbox, runs>>
Unsolicited ==
    /\ notify /\ l4 /\ Len(inbox) < 2 /\ Disturbs
    /\ \E type \in {"SEC_INFO", "ERROR"} : inbox' = Append(inbox, Frame(type, 0, 0))
    /\ UNCHANGED <<vars, pairing, c, runs>>

AllDone == At("exit") /\ runs = MaxRuns /\ AtRest /\ UNCHANGED system
ProcessNext ==
    \/ ScanAndConnect \/ Inspect \/ EnsureConnected \/ PreL4Probes
    \/ Pair \/ PairReturns \/ PairTimesOut \/ RetireLink \/ VerifyClosed
    \/ StartNotify \/ Attest("attest1", "info1") \/ Attest("attest2", "info2") \/ Attested
    \/ Upload \/ SendStart \/ ReadyV1 \/ AcceptReady \/ SendFinishedC \/ AcceptFinishedP
    \/ Quiet \/ SendPing \/ AcceptPong \/ Settle \/ StopNotify \/ Report
PeripheralNext == WorkerMoves \/ Delivers \/ DeliveryFails \/ HostMoves
PairingNext == CeremonyStep \/ Pairs \/ PairsElsewhere \/ Refuses
DisturbedNext == TimePasses \/ FinishedLate \/ LinkLost \/ Downgraded \/ Aborts \/ Unsolicited
V1Next ==
    \/ NewRun \/ ClearDkBonds \/ ProcessNext \/ PairingNext \/ PeripheralNext
    \/ DisturbedNext \/ AllDone
V1Spec == V1Init /\ [][V1Next]_system
(* The event loop runs and its time limits expire, that of the pairing too; *)
(* the Peripheral's threads go on.  Nobody makes the operators answer.      *)
V1FairSpec == V1Spec /\ WF_system(ProcessNext) /\ WF_system(PeripheralNext)

-----------------------------------------------------------------------------
(* The types: the counters of a CP4 exchange stop at its rounds, and what    *)
(* waits in the queue, which has no limit of its own, are frames.            *)
FrameTypes == {"SEC_INFO", "READY", "READY_CP3", "ERROR", "FINISHED_P", "PONG"}
Frames == [type : FrameTypes, root : Conns, seq : 0 .. SEQ_MAX]
V1TypeOK ==
    /\ c.tx \in 0 .. Rounds /\ c.rx \in 0 .. Rounds /\ inbox \in Seq(Frames)
    /\ c.hs \in {"NEW", "WAIT_READY_CP3", "WAIT_FINISHED_P", "APP_SECURE", "CLOSED"}
    /\ c.verdict \in {"none", "ok", "passed", "error"}
    /\ runs \in 0 .. MaxRuns /\ faults \in 0 .. MaxFaults

(* The two ends agree.  While both are in APP_SECURE on the link, the keys  *)
(* are of this link's ciphertext, the Peripheral counts no PING that        *)
(* CentralApplication did not number, and the Central no PONG that          *)
(* v1_cp4_result_ready has not at least queued.                             *)
EndsAgree ==
    c.hs = "APP_SECURE" /\ keys.secure /\ cur = c.link =>
        /\ keys.app = c.link /\ keys.rx <= c.tx
        /\ c.rx <= keys.tx + (IF cp3.delivery THEN 1 ELSE 0)

(* Consent.  A link that began without a bond carries no exchange unless    *)
(* the operator of the Central accepted the number in this very ceremony of *)
(* _run_custom_pairing, and Windows paired in it.                           *)
Consented ==
    c.cold /\ c.pc \in Exchange => cer.decision = "yes" /\ cer.accepted /\ os.status = "PAIRED"

(* The types, the agreement of the two ends, and the consent.               *)
V1CentralInv == V1TypeOK /\ EndsAgree /\ Consented

(* A process that meets a Peripheral at rest, the same bonds on both sides  *)
(* and no disturbance exits with zero: no earlier process, however it       *)
(* ended, leaves anything that could spoil it.  The exception (early) is    *)
(* the second PING that arrives while v1_cp4_result_ready is still          *)
(* delivering the first PONG.                                               *)
V1UndisturbedPasses ==
    At("exit") /\ c.mode # "none" /\ c.base = faults /\ ~c.early => ExitZero

(* PASS is earned, whatever was disturbed: CP4 passed only if the           *)
(* Peripheral sealed both PONGs under the keys of this link, and a negative *)
(* test of the pairing only if the gate never opened in it.                 *)
PassIsEarned ==
    At("exit") /\ c.mode # "none" /\ ExitZero =>
        /\ c.mode = "cp4" => {<<c.link, 0>>, <<c.link, 1>>} \subseteq sealed
        /\ c.neg # "none" => ~c.opened

(* A ceremony that is over holds no deferral and asks nobody, and no late   *)
(* answer accepts on its behalf: whatever came first, the result, the time  *)
(* limit or a second event of Windows.                                      *)
CeremonyClean == ~cer.active => ~cer.deferral /\ cer.task # "asking" /\ ~cer.late

(* Every process comes to its end, though nobody has to answer.             *)
ProcessEnds == c.pc # "exit" ~> c.pc = "exit"
=============================================================================
