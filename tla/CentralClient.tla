---------------------------- MODULE CentralClient ----------------------------
(***************************************************************************)
(* What the Central's flows of Phases 2 to 7 share: the BLE client of       *)
(* src/central/ble_client.py, the queue its notification callback fills,    *)
(* and the AES-GCM channel of src/common/session.py.  The other end is the  *)
(* Peripheral of V07Session: every write of the Central is the handler of   *)
(* firmware/src/main.c that serves it, and every notification the worker    *)
(* queues ends up in inbox, in order.                                       *)
(*                                                                         *)
(* One Central process runs at a time: connect, run one flow, clean up,     *)
(* exit; then the next may start.  Keys are named by the START command that *)
(* agreed on them, as in V07Session; 0 names a key nobody else has.         *)
(***************************************************************************)
EXTENDS V07Session

CONSTANTS
    Flows,             \* the flows the command line may start
    Rounds,            \* PING/PONG rounds of Phases 6 and 7 (3 in the code)
    MaxRuns,           \* bound: Central processes
    MaxFaults          \* bound: disturbances, see V07Central

ASSUME CentralAssumption ==
    /\ Flows \subseteq {"phase2", "phase3", "phase5", "phase6", "c2p", "hybrid", "phase7"}
    /\ Rounds \in 1 .. LABELS + 1 /\ MaxRuns \in Nat /\ MaxFaults \in Nat

VARIABLES
    c,                 \* the Central process
    inbox,             \* its asyncio.Queue of notifications
    runs, faults       \* processes started and disturbances so far

central == <<c, inbox, runs, faults>>
system == <<vars, central>>

(* pc: where the coroutine is; then: where it goes after a quiet window;    *)
(* root, shown: its own secret and the one the Peripheral's SAS shows;      *)
(* tx, rx: counters of the two channels (rx: last accepted + 1); base: the  *)
(* value of faults when it connected to a Peripheral at rest, else -1;      *)
(* machine: the Phase5CentralStateMachine of Phases 5 and 6; vouched: the   *)
(* user said that the SAS values match;                                     *)
(* early: a write came before the Peripheral had finished its last step.    *)
NoProcess == [pc |-> "exit", flow |-> "none", neg |-> "none", then |-> "none",
              root |-> 0, shown |-> 0, round |-> 0, tx |-> 0, rx |-> 0, checked |-> FALSE,
              machine |-> "EMPTY", vouched |-> FALSE, verdict |-> "none", base |-> -1, early |-> FALSE]

(* The TEST-ONLY negative modes of each flow. *)
NegativeModes ==
    [phase2 |-> {}, hybrid |-> {}, c2p |-> {}, phase3 |-> {"tamper", "aad", "replay"},
     phase5 |-> {"finished-c", "finished-p", "transcript"},
     phase6 |-> {"pre-auth", "c2p-tamper", "c2p-replay", "p2c-tamper", "p2c-replay"},
     phase7 |-> {"sas-reject", "finished-c", "pre-auth", "c2p-tamper", "c2p-replay",
                 "p2c-tamper", "p2c-replay"}]

At(flow, pc) == c.flow = flow /\ c.pc = pc
To(pc) == [c EXCEPT !.pc = pc]
(* An exception, or the result, ends the flow and enters its finally block. *)
Ends(verdict) == [c EXCEPT !.pc = "cleanup", !.verdict = verdict]

-----------------------------------------------------------------------------
(* The connection.  AtRest: nothing of an earlier link is under way.        *)
AtRest == HostFree /\ w.pc = "idle" /\ SlotFree
ScanAndConnect ==
    /\ c.pc = "connect" /\ Connected
    /\ c' = [To("subscribe") EXCEPT !.base = IF AtRest THEN faults ELSE -1]
    /\ inbox' = <<>> /\ UNCHANGED <<runs, faults>>
ScanFails ==
    /\ c.pc = "connect" /\ faults < MaxFaults /\ faults' = faults + 1
    /\ c' = [To("exit") EXCEPT !.verdict = "error"]
    /\ UNCHANGED <<vars, inbox, runs>>

(* A client call on a lost link raises; one the Peripheral refuses raises   *)
(* too, and its ATT error ends the flow.                                    *)
StillDelivering == w.pc \in {"wait7", "commit7", "auth7"}
Raises ==
    /\ c' = [Ends("error") EXCEPT !.early = StillDelivering]
    /\ UNCHANGED <<vars, inbox, runs, faults>>
Refused(accepted) == ~accepted /\ (cur = 0 \/ HostFree) /\ Raises
(* A control or data write whose job reached the worker. *)
Submitted(next) ==
    /\ c' = (IF jobConn' = 0 THEN Ends("error") ELSE next)
    /\ UNCHANGED <<inbox, runs, faults>>

(* start_notify: every flow subscribes before it writes anything. *)
StartNotify ==
    /\ c.pc = "subscribe"
    /\ \/ Subscribe /\ c' = To("prepare") /\ UNCHANGED <<inbox, runs, faults>>
       \/ cur = 0 /\ Raises

(* write_fragmented_ciphertext: the first fragments, then the last one.     *)
UploadBegins ==
    \/ /\ WriteCiphertext("RECEIVING") /\ c' = To("upload")
       /\ UNCHANGED <<inbox, runs, faults>>
    \/ Refused(CiphertextWritable)
UploadEnds ==
    /\ c.pc = "upload"
    /\ \/ WriteCiphertext("READY") /\ c' = To("start") /\ UNCHANGED <<inbox, runs, faults>>
       \/ Refused(CiphertextWritable)

(* send_control with a START command, which names the encapsulated secret. *)
SendStart(mode, next) ==
    \/ /\ Start(mode) /\ c' = [next EXCEPT !.root = starts']
       /\ UNCHANGED <<inbox, runs, faults>>
    \/ Refused(StartAccepted)

(* write_secure_data.  AES-GCM opens the frame when both ends hold the same *)
(* keys and nobody changed a bit.                                           *)
OpenRoot == IF p7 = "AUTHENTICATED" THEN s7.root
            ELSE IF s6.active THEN s6.root ELSE s5.root
WriteFrame(seq, intact, next) ==
    \/ WriteSecureData(seq, intact /\ OpenRoot = c.root) /\ Submitted(next)
    \/ Refused(DataWritable)

-----------------------------------------------------------------------------
(* The notification the worker queues: what it is, the key it was made      *)
(* with, its sequence number and label, and the status of an error frame.   *)
Reply == [diag |-> "PQM2", secure |-> "DATA3", start5 |-> "READY_FOR_SAS",
          finished5 |-> "FINISHED_P", data5 |-> "DATA5", data6 |-> "PONG",
          cp2 |-> "READY7_CP2", start7 |-> "READY7_AUTH", finished7 |-> "FINISHED_P",
          data7 |-> "PONG"]
AUTHENTICATION_FAILURE == 6
INVALID_PROTOCOL_STATE == 4
SECURE_CHANNEL_FAILURE == 5
(* A replay is found before the tag is checked.  Of the other failures only *)
(* a frame that does not authenticate matters: a flow that sent a good      *)
(* frame treats every error alike.                                          *)
Status == IF w.mode \in {"data6", "data7"} /\ w.seq < w.rx THEN INVALID_PROTOCOL_STATE
          ELSE IF ~w.good THEN AUTHENTICATION_FAILURE ELSE SECURE_CHANNEL_FAILURE
Answer == IF w.ok
          THEN [type |-> Reply[w.mode], root |-> w.root, seq |-> w.tx, label |-> w.seq,
                status |-> 0]
          ELSE [type |-> "ERROR", root |-> w.root, seq |-> 0, label |-> 0, status |-> Status]

(* asyncio.wait_for(notifications.get()).  It takes the oldest entry, also  *)
(* when the link is gone.  It times out for good when no answer can come,   *)
(* and otherwise only if the answer is late: a disturbance.                 *)
Silent == cur = 0 \/ (w.pc = "idle" /\ ~slot.pending)
\* Mutant: no time limit on a link that is gone.
TimesOutLinked(next) ==
    /\ inbox = <<>> /\ cur # 0 /\ c' = next
    /\ \/ Silent /\ UNCHANGED faults
       \/ ~Silent /\ faults < MaxFaults /\ faults' = faults + 1
    /\ UNCHANGED <<vars, inbox, runs>>
TimesOut(next) ==
    /\ inbox = <<>> /\ c' = next
    /\ \/ Silent /\ UNCHANGED faults
       \/ ~Silent /\ faults < MaxFaults /\ faults' = faults + 1
    /\ UNCHANGED <<vars, inbox, runs>>
Takes(next) ==
    /\ inbox # <<>> /\ inbox' = Tail(inbox) /\ c' = next
    /\ UNCHANGED <<vars, runs, faults>>
Received == Head(inbox)
Receives(next) == Takes(next) \/ TimesOut(Ends("error"))
RefusedWith(status) == Received.type = "ERROR" /\ Received.status = status

(* SecureChannel.encrypt numbers a frame with the send counter and moves    *)
(* the counter.  SecureChannel.decrypt refuses an old sequence number       *)
(* before it looks at the tag, and moves the counter only for a valid tag.  *)
Sealed(state) == [state EXCEPT !.tx = @ + 1]
Decrypt(m, intact, state) ==
    IF m.seq < state.rx THEN "replay"
    ELSE IF ~intact \/ m.root # state.root THEN "InvalidTag" ELSE "ok"
Opened(m, state) == [state EXCEPT !.rx = m.seq + 1]

-----------------------------------------------------------------------------
(* The user compares the SAS on the Central with the one the Peripheral     *)
(* shows; a wrong answer is a disturbance.                                  *)
UserAnswers(matches, yes) ==
    IF yes = matches THEN UNCHANGED faults
    ELSE faults < MaxFaults /\ faults' = faults + 1

(* The finally block of a flow: stop_notify, which on a live link may also  *)
(* fail.  Only a negative test of Phase 7 makes that its verdict.           *)
StopNotify ==
    /\ c.pc = "cleanup"
    /\ \/ Unsubscribe /\ c' = To("close") /\ UNCHANGED <<inbox, runs, faults>>
       \/ ~(cur # 0 /\ notify) /\ c' = To("close") /\ UNCHANGED <<vars, inbox, runs, faults>>
CleanupFails ==
    /\ c.pc = "cleanup" /\ cur # 0 /\ faults < MaxFaults /\ faults' = faults + 1
    /\ c' = [To("close") EXCEPT !.verdict =
                 IF c.flow = "phase7" /\ c.neg # "none" THEN "error" ELSE @]
    /\ UNCHANGED <<vars, inbox, runs>>

(* disconnect, and the end of the process, which drops the link even when   *)
(* disconnect fails; a negative test of Phase 7 reports that failure.       *)
Disconnect ==
    /\ c.pc = "close"
    /\ \/ Disconnected
       \/ cur = 0 /\ UNCHANGED vars
    /\ c' = To("exit") /\ inbox' = <<>> /\ UNCHANGED <<runs, faults>>
DisconnectFails ==
    /\ c.pc = "close" /\ Disconnected /\ faults < MaxFaults /\ faults' = faults + 1
    /\ c' = [To("exit") EXCEPT !.verdict =
                 IF c.flow = "phase7" /\ c.neg # "none" THEN "error" ELSE @]
    /\ inbox' = <<>> /\ UNCHANGED runs
=============================================================================
