----------------------------- MODULE V1Handshake -----------------------------
(***************************************************************************)
(* The ML-KEM handshake of profile v1.0 on the Peripheral: the GATT        *)
(* handlers and result callbacks of firmware/src/main.c (CP2 diagnostic,   *)
(* CP3 handshake, CP4 application data) and the one-slot crypto worker of  *)
(* firmware/src/mlkem_session.c.                                           *)
(*                                                                         *)
(* Three threads meet here.  The Bluetooth host calls the GATT and         *)
(* connection handlers, one at a time, each inside one protocol_lock       *)
(* section.  The crypto worker takes a job, computes, stores its result    *)
(* under session_lock and then delivers it in several protocol_lock        *)
(* sections.  The system work queue runs the CP3 timeout.                   *)
(*                                                                         *)
(* The epochs v1_cp2_epoch and v1_cp3_epoch only ever grow and are only     *)
(* compared for equality, so a job carries fresh: its epoch is current.    *)
(* A connection is named by connection_generation at its start; secrets and *)
(* ciphertexts are named by the connection they came from.                  *)
(* pq_v1_security.c is module V1Security; here it is the variable l4.       *)
(***************************************************************************)
EXTENDS Integers, FiniteSets

CONSTANTS
    TIMEOUT,           \* CONFIG_PQ_V1_CP3_TIMEOUT_MS, in ticks
    SEQ_MAX,           \* UINT64_MAX of the CP4 counters
    MAX_GEN            \* bound on connection_generation

ASSUME HandshakeAssumption ==
    TIMEOUT \in Nat \ {0} /\ SEQ_MAX \in Nat \ {0} /\ MAX_GEN \in Nat

VARIABLES
    cur, gen,          \* current_conn (0 for NULL), connection_generation
    notify,            \* notify_enabled
    l4,                \* pq_v1_security_conn_is_l4(current_conn)
    notice,            \* the security_changed callback for its loss: "no", "due", "seen"
    ct, ctFrom,        \* ciphertext_state, and whose ciphertext is stored
    cp2,               \* v1_cp2_active, v1_cp2_valid, crypto_job_conn and its generation
    cp3,               \* v1_cp3_state, _conn, _generation, _worker_active, _delivery_active,
                       \* and v1_cp3_deadline - k_uptime_get()
    timer,             \* v1_cp3_timeout_work
    keys,              \* the session's secrets and CP4 counters
    slot,              \* the job slot: job_pending, job_active and the job in it
    w,                 \* the crypto worker
    sealed             \* history: <<key, sequence number>> a PONG was sealed under

link == <<cur, gen, notify, l4, notice>>
transfer == <<ct, ctFrom>>
vars == <<link, transfer, cp2, cp3, timer, keys, slot, w, sealed>>

Never == -1
Cp3Modes == {"cp3", "finished", "cp4"}
Cp3States == {"IDLE", "CRYPTO_BUSY", "WAIT_FINISHED_C", "FINISHED_P_BUSY", "APP_SECURE", "FAILED"}
Handshaking == {"CRYPTO_BUSY", "WAIT_FINISHED_C", "FINISHED_P_BUSY"}
NoCp2 == [active |-> FALSE, valid |-> FALSE, conn |-> 0, gen |-> 0]
NoCp3 == [state |-> "IDLE", conn |-> 0, gen |-> 0, worker |-> FALSE, delivery |-> FALSE, left |-> 0]
NoKeys == [hs |-> 0, app |-> 0, secure |-> FALSE, pend |-> FALSE, ready |-> FALSE,
           rx |-> 0, tx |-> 0]
NoJob == [pending |-> FALSE, active |-> FALSE, mode |-> "none", from |-> 0, good |-> FALSE,
          fresh |-> FALSE]
Sleeping == [pc |-> "idle", mode |-> "none", from |-> 0, good |-> FALSE, fresh |-> FALSE,
             ok |-> FALSE, hs |-> 0, app |-> 0, tx |-> 0, conn |-> 0, sent |-> FALSE]

Init ==
    /\ cur = 0 /\ gen = 0 /\ notify = FALSE /\ l4 = FALSE /\ notice = "no"
    /\ ct = "EMPTY" /\ ctFrom = 0
    /\ cp2 = NoCp2 /\ cp3 = NoCp3 /\ timer = [due |-> Never, queued |-> FALSE, running |-> FALSE]
    /\ keys = NoKeys /\ slot = NoJob /\ w = Sleeping /\ sealed = {}

-----------------------------------------------------------------------------
(* v1_cp3_live_locked and v1_cp4_live_locked *)
Linked == cp3.conn # 0 /\ cp3.conn = cur /\ cp3.gen = gen /\ notify /\ l4
Live3 == Linked /\ cp3.state # "FAILED" /\ cp3.left > 0
Live4 == Linked /\ cp3.state = "APP_SECURE"

(* A new epoch: no job submitted before it is fresh any more. *)
Retired(j, modes) == [j EXCEPT !.fresh = @ /\ j.mode \notin modes]

(* invalidate_v1_cp3_locked and pq_mlkem_session_reset_v1_cp3, on top of    *)
(* the control fields c and the worker x an action leaves.                 *)
Failed(c) == [c EXCEPT !.state = IF @ = "IDLE" THEN @ ELSE "FAILED", !.conn = 0]
CancelTimer == timer' = [timer EXCEPT !.due = Never, !.queued = FALSE]
InvalidateCp3(c, x) ==
    /\ cp3' = Failed(c) /\ keys' = NoKeys /\ CancelTimer
    /\ slot' = Retired(slot, Cp3Modes) /\ w' = Retired(x, Cp3Modes)
(* The same with v1_cp3_state = V1_CP3_IDLE and invalidate_v1_cp2_locked:   *)
(* what a connection's begin and end do.                                   *)
ForgetLink ==
    /\ cp3' = [Failed(cp3) EXCEPT !.state = "IDLE"] /\ keys' = NoKeys /\ CancelTimer
    /\ cp2' = [cp2 EXCEPT !.valid = FALSE]
    /\ slot' = [slot EXCEPT !.fresh = FALSE] /\ w' = [w EXCEPT !.fresh = FALSE]

-----------------------------------------------------------------------------
(* The connection callbacks *)
Draining == cp2.active \/ cp3.worker \/ cp3.delivery
Connected ==
    /\ cur = 0 /\ gen + 2 <= MAX_GEN
    /\ cur' = gen + 1 /\ gen' = gen + 1 /\ notify' = FALSE /\ l4' = FALSE /\ notice' = "no"
    /\ ForgetLink
    /\ IF Draining /\ ct = "BUSY" THEN UNCHANGED transfer ELSE ct' = "EMPTY" /\ ctFrom' = 0
    /\ UNCHANGED sealed
Disconnected ==
    /\ cur # 0
    /\ cur' = 0 /\ gen' = gen + 1 /\ notify' = FALSE /\ l4' = FALSE /\ notice' = "no"
    /\ cp3' = [Failed(cp3) EXCEPT !.state = "IDLE"] /\ keys' = NoKeys /\ CancelTimer
    /\ cp2' = [cp2 EXCEPT !.valid = FALSE, !.conn = 0]
    /\ slot' = [slot EXCEPT !.fresh = FALSE] /\ w' = [w EXCEPT !.fresh = FALSE]
    /\ ct' = (IF ct = "BUSY" THEN ct ELSE "EMPTY") /\ ctFrom' = 0
    /\ UNCHANGED sealed

HostFree == cur # 0 /\ notice # "due"
(* The link reaches L4 once; what takes it away also reports it. *)
SecurityUp ==
    /\ cur # 0 /\ ~l4 /\ notice = "no" /\ l4' = TRUE
    /\ UNCHANGED <<cur, gen, notify, notice, transfer, cp2, cp3, timer, keys, slot, w, sealed>>
SecurityLost ==
    /\ HostFree /\ l4 /\ l4' = FALSE /\ notice' = "due"
    /\ UNCHANGED <<cur, gen, notify, transfer, cp2, cp3, timer, keys, slot, w, sealed>>
(* v1_cp2_security_changed *)
SecurityChanged ==
    /\ notice = "due" /\ notice' = "seen"
    /\ cp2' = [cp2 EXCEPT !.valid = FALSE]
    /\ cp3' = Failed(cp3) /\ keys' = NoKeys /\ CancelTimer
    /\ slot' = [slot EXCEPT !.fresh = FALSE] /\ w' = [w EXCEPT !.fresh = FALSE]
    /\ ct' = (IF cp2.active THEN ct ELSE "EMPTY") /\ ctFrom' = 0
    /\ UNCHANGED <<cur, gen, notify, l4, sealed>>

(* ccc_config_changed *)
Subscribe ==
    /\ HostFree /\ l4 /\ ~notify /\ notify' = TRUE
    /\ UNCHANGED <<cur, gen, l4, notice, transfer, cp2, cp3, timer, keys, slot, w, sealed>>
Unsubscribe ==
    /\ HostFree /\ l4 /\ notify /\ notify' = FALSE
    /\ cp2' = [cp2 EXCEPT !.valid = FALSE]
    /\ cp3' = Failed(cp3) /\ keys' = NoKeys /\ CancelTimer
    /\ slot' = [slot EXCEPT !.fresh = FALSE] /\ w' = [w EXCEPT !.fresh = FALSE]
    /\ UNCHANGED <<cur, gen, l4, notice, transfer, sealed>>

-----------------------------------------------------------------------------
(* The GATT writes.  write_ciphertext: fragments of a transfer arrive, and  *)
(* the last one completes it.  A refused or repeated fragment starts over,  *)
(* empties the transfer or leaves it alone.                                 *)
\* Mutant: a job that is being delivered does not keep transfers out.
WritableEarly == HostFree /\ l4 /\ cp3.state = "IDLE" /\ ~cp3.worker /\ ct # "BUSY"
Writable ==
    /\ HostFree /\ l4 /\ cp3.state = "IDLE" /\ ~cp3.worker /\ ~cp3.delivery /\ ct # "BUSY"
WriteCiphertext(next) ==
    /\ Writable
    /\ next = "READY" => ct = "RECEIVING"
    /\ ct' = next /\ ctFrom' = (IF next = "EMPTY" THEN 0 ELSE cur)
    /\ UNCHANGED <<link, cp2, cp3, timer, keys, slot, w, sealed>>

SlotFree == ~slot.pending /\ ~slot.active
Job(mode, from, good) ==
    [pending |-> TRUE, active |-> FALSE, mode |-> mode, from |-> from, good |-> good,
     fresh |-> TRUE]

(* handle_v1_cp2_start.  A busy slot leaves everything as it was. *)
Starts2 == /\ HostFree /\ l4 /\ notify
           /\ cp3.state = "IDLE" /\ ~Draining /\ ct = "READY" /\ cp2.conn = 0 /\ SlotFree
Cp2Start(good) ==
    /\ Starts2
    /\ cp2' = [active |-> TRUE, valid |-> TRUE, conn |-> cur, gen |-> gen]
    /\ slot' = Job("cp2", ctFrom, good)
    /\ ct' = "BUSY" /\ ctFrom' = 0
    /\ UNCHANGED <<link, cp3, timer, keys, w, sealed>>

(* handle_v1_cp3_start *)
Starts3 == /\ HostFree /\ l4 /\ notify
           /\ cp3.state = "IDLE" /\ ~Draining /\ cp2.conn = 0 /\ ct = "READY"
           /\ SlotFree /\ keys.hs = 0 /\ keys.app = 0 /\ ~keys.secure
Cp3Start(good) ==
    /\ Starts3
    /\ cp3' = [state |-> "CRYPTO_BUSY", conn |-> cur, gen |-> gen, worker |-> TRUE,
               delivery |-> FALSE, left |-> TIMEOUT]
    /\ slot' = Job("cp3", ctFrom, good)
    /\ timer' = [timer EXCEPT !.due = TIMEOUT]
    /\ ct' = "BUSY" /\ ctFrom' = 0
    /\ UNCHANGED <<link, cp2, keys, w, sealed>>

(* handle_v1_cp3_finished_c.  It may arrive while READY_CP3 is delivered. *)
Confirms == HostFree /\ l4 /\ cp3.state = "WAIT_FINISHED_C" /\ ~cp3.worker
FinishedC(good) ==
    /\ Confirms
    /\ IF Live3 /\ SlotFree /\ keys.hs # 0
       THEN /\ cp3' = [cp3 EXCEPT !.state = "FINISHED_P_BUSY", !.worker = TRUE]
            /\ slot' = Job("finished", cur, good)
            /\ UNCHANGED <<timer, keys, w>>
       ELSE InvalidateCp3(cp3, w)
    /\ UNCHANGED <<link, transfer, cp2, sealed>>

(* handle_v1_cp4.  Whatever is not the next PING in APP_SECURE ends the    *)
(* session, and so does any other write in APP_SECURE.                     *)
Accepts4(seq) ==
    /\ Live4 /\ ~Draining /\ cp2.conn = 0 /\ SlotFree
    /\ keys.secure /\ ~keys.pend /\ seq = keys.rx /\ keys.rx < SEQ_MAX /\ keys.tx < SEQ_MAX
Cp4Ping(seq, good) ==
    /\ HostFree /\ l4 /\ Accepts4(seq)
    /\ keys' = [keys EXCEPT !.pend = TRUE, !.ready = FALSE]
    /\ slot' = Job("cp4", cur, good)
    /\ cp3' = [cp3 EXCEPT !.worker = TRUE]
    /\ UNCHANGED <<link, transfer, cp2, timer, w, sealed>>
Cp4Denied ==
    /\ HostFree /\ (l4 \/ cp3.state = "APP_SECURE")
    /\ InvalidateCp3(cp3, w)
    /\ UNCHANGED <<link, transfer, cp2, sealed>>

-----------------------------------------------------------------------------
(* The crypto worker takes the job.  A stale one goes straight to job_done. *)
TakeJob ==
    /\ w.pc = "idle" /\ slot.pending
    /\ slot' = [slot EXCEPT !.pending = FALSE, !.active = TRUE]
    /\ w' = [Sleeping EXCEPT !.pc = IF slot.fresh THEN "run" ELSE "done", !.mode = slot.mode,
                             !.from = slot.from, !.good = slot.good, !.fresh = slot.fresh]
    /\ UNCHANGED <<link, transfer, cp2, cp3, timer, keys, sealed>>

(* v1_cp2_result keeps nothing. *)
Cp2Compute ==
    /\ w.pc = "run" /\ w.mode = "cp2"
    /\ w' = [w EXCEPT !.pc = "done", !.ok = w.good]
    /\ UNCHANGED <<link, transfer, cp2, cp3, timer, keys, slot, sealed>>

(* v1_cp3_start_result stores the handshake secrets unless the epoch moved. *)
Cp3Compute ==
    /\ w.pc = "run" /\ w.mode = "cp3"
    /\ keys' = IF w.good /\ w.fresh THEN [keys EXCEPT !.hs = w.from] ELSE keys
    /\ w' = [w EXCEPT !.pc = "done", !.ok = w.good /\ w.fresh]
    /\ UNCHANGED <<link, transfer, cp2, cp3, timer, slot, sealed>>

(* v1_cp3_finished_result: the secrets are taken out, FINISHED_C is         *)
(* verified without the lock, the application keys are stored.              *)
FinishedTake ==
    /\ w.pc = "run" /\ w.mode = "finished"
    /\ IF w.fresh /\ keys.hs # 0
       THEN w' = [w EXCEPT !.pc = "store", !.hs = keys.hs] /\ keys' = [keys EXCEPT !.hs = 0]
       ELSE w' = [w EXCEPT !.pc = "done"] /\ keys' = keys
    /\ UNCHANGED <<link, transfer, cp2, cp3, timer, slot, sealed>>
\* Mutant: stores them whatever the epoch.
FinishedStoreAny ==
    /\ w.pc = "store"
    /\ keys' = IF w.good THEN [keys EXCEPT !.app = w.hs] ELSE keys
    /\ w' = [w EXCEPT !.pc = "done", !.ok = w.good, !.hs = 0]
    /\ UNCHANGED <<link, transfer, cp2, cp3, timer, slot, sealed>>
FinishedStore ==
    /\ w.pc = "store"
    /\ keys' = IF w.good /\ w.fresh THEN [keys EXCEPT !.app = w.hs] ELSE keys
    /\ w' = [w EXCEPT !.pc = "done", !.ok = w.good /\ w.fresh, !.hs = 0]
    /\ UNCHANGED <<link, transfer, cp2, cp3, timer, slot, sealed>>

(* v1_cp4_result.  pq_v1_cp4_job_live ends the session when it fails.      *)
Cp4Check(from, to) ==
    /\ w.pc = from /\ w.mode = "cp4"
    /\ IF cp3.worker /\ Live4
       THEN w' = [w EXCEPT !.pc = to] /\ UNCHANGED <<cp3, timer, keys, slot>>
       ELSE InvalidateCp3(cp3, [w EXCEPT !.pc = "done", !.app = 0])
    /\ UNCHANGED <<link, transfer, cp2, sealed>>
Cp4Open ==
    /\ w.pc = "open"
    /\ w' = IF w.fresh /\ keys.secure /\ keys.pend /\ ~keys.ready /\ w.good
            THEN [w EXCEPT !.pc = "opened", !.app = keys.app, !.tx = keys.tx]
            ELSE [w EXCEPT !.pc = "done"]
    /\ UNCHANGED <<link, transfer, cp2, cp3, timer, keys, slot, sealed>>
Cp4Seal ==
    /\ w.pc = "seal"
    /\ sealed' = sealed \cup {<<w.app, w.tx>>}
    /\ LET kept == w.fresh /\ keys.secure /\ keys.pend
       IN  /\ keys' = IF kept THEN [keys EXCEPT !.ready = TRUE] ELSE keys
           /\ w' = [w EXCEPT !.pc = "done", !.ok = kept, !.app = 0, !.tx = 0]
    /\ UNCHANGED <<link, transfer, cp2, cp3, timer, slot>>

(* job_done: a job whose epoch went by meanwhile has failed.  The slot is   *)
(* released before the callback, except for CP2.                            *)
JobDone ==
    /\ w.pc = "done"
    /\ w' = [w EXCEPT !.pc = "result", !.ok = w.ok /\ w.fresh]
    /\ slot' = [slot EXCEPT !.active = (w.mode = "cp2")]
    /\ UNCHANGED <<link, transfer, cp2, cp3, timer, keys, sealed>>

-----------------------------------------------------------------------------
(* v1_cp2_result_ready: three sections, the notification between them. *)
Current2 == cp2.valid /\ w.conn = cur /\ cp2.gen = gen /\ notify
Cp2Result ==
    /\ w.pc = "result" /\ w.mode = "cp2"
    /\ cp2' = [cp2 EXCEPT !.conn = 0]
    /\ w' = [w EXCEPT !.pc = "notify",
                      !.conn = IF /\ cp2.active /\ cp2.valid /\ cp2.conn # 0 /\ cp2.conn = cur
                                  /\ cp2.gen = gen /\ notify
                               THEN cp2.conn ELSE 0]
    /\ UNCHANGED <<link, transfer, cp3, timer, keys, slot, sealed>>
Cp2Notify(sent) ==
    /\ w.pc = "notify" /\ w.mode = "cp2"
    /\ sent => w.conn # 0 /\ Current2 /\ l4
    /\ w' = [w EXCEPT !.pc = "finish", !.sent = sent]
    /\ UNCHANGED <<link, transfer, cp2, cp3, timer, keys, slot, sealed>>
Cp2Finish ==
    /\ w.pc = "finish" /\ w.mode = "cp2"
    /\ cp2' = [cp2 EXCEPT !.active = FALSE, !.valid = FALSE]
    /\ ct' = "EMPTY" /\ ctFrom' = 0
    /\ w' = [w EXCEPT !.pc = "release"]
    /\ UNCHANGED <<link, cp3, timer, keys, slot, sealed>>
Cp2Release ==
    /\ w.pc = "release"
    /\ slot' = [slot EXCEPT !.active = FALSE]
    /\ w' = Sleeping
    /\ UNCHANGED <<link, transfer, cp2, cp3, timer, keys, sealed>>

(* The end of a CP3 or CP4 delivery: a retired connection's job has drained *)
(* and gives up the transfer slot.                                         *)
\* Mutant: the slot stays busy.
DrainNever(c) == UNCHANGED transfer
Drain(c) == IF c.state = "IDLE" /\ ~cp2.active THEN ct' = "EMPTY" /\ ctFrom' = 0
            ELSE UNCHANGED transfer
Delivered(c) == [c EXCEPT !.worker = FALSE, !.delivery = FALSE]

(* v1_cp3_result_ready for START_CP3, or for a failed job: WAIT_FINISHED_C  *)
(* is armed before READY_CP3 is queued without the lock.                    *)
Expected == IF w.mode = "cp3" THEN "CRYPTO_BUSY" ELSE "FINISHED_P_BUSY"
Deliver3 == Live3 /\ cp3.state = Expected
Cp3Result ==
    /\ w.pc = "result" /\ w.mode \in {"cp3", "finished"} /\ (w.mode = "cp3" \/ ~w.ok)
    /\ cp3' = [cp3 EXCEPT !.worker = FALSE, !.delivery = TRUE,
                          !.state = IF Deliver3 /\ w.ok THEN "WAIT_FINISHED_C" ELSE @]
    /\ w' = [w EXCEPT !.pc = "notify", !.conn = IF Deliver3 THEN cp3.conn ELSE 0]
    /\ UNCHANGED <<link, transfer, cp2, timer, keys, slot, sealed>>
Cp3Notify(sent) ==
    /\ w.pc = "notify" /\ w.mode \in {"cp3", "finished"}
    /\ sent => w.conn # 0 /\ w.conn = cur /\ l4 /\ notify
    /\ w' = [w EXCEPT !.pc = "finish", !.sent = sent]
    /\ UNCHANGED <<link, transfer, cp2, cp3, timer, keys, slot, sealed>>
Current3 == w.conn # 0 /\ w.conn = cp3.conn /\ cp3.gen = gen
Cp3Finish ==
    /\ w.pc = "finish" /\ w.mode \in {"cp3", "finished"}
    /\ LET done == [cp3 EXCEPT !.delivery = FALSE]
       IN  IF Current3 /\ w.sent /\ w.ok /\ Live3
           THEN cp3' = done /\ w' = Sleeping /\ UNCHANGED <<timer, keys, slot>>
           ELSE InvalidateCp3(done, Sleeping)
    /\ Drain(cp3')
    /\ UNCHANGED <<link, cp2, sealed>>

(* v1_cp3_result_ready for a verified FINISHED_C keeps protocol_lock from   *)
(* the check to pq_mlkem_session_commit_v1_cp3.  Clock and link are read    *)
(* again after the notification: late tells that they no longer hold.       *)
FinishedP(sent, late) ==
    /\ w.pc = "result" /\ w.mode = "finished" /\ w.ok
    /\ sent => Deliver3
    /\ IF sent /\ ~late /\ keys.app # 0 /\ ~keys.secure
       THEN /\ keys' = [keys EXCEPT !.secure = TRUE, !.rx = 0, !.tx = 0]
            /\ cp3' = [Delivered(cp3) EXCEPT !.state = "APP_SECURE"]
            /\ CancelTimer /\ w' = Sleeping /\ slot' = slot
       ELSE InvalidateCp3(Delivered(cp3), Sleeping)
    /\ Drain(cp3')
    /\ UNCHANGED <<link, cp2, sealed>>

(* v1_cp4_result_ready: the counters move only after the PONG was queued.  *)
Cp4Result ==
    /\ w.pc = "result" /\ w.mode = "cp4"
    /\ LET c == [cp3 EXCEPT !.worker = FALSE, !.delivery = TRUE]
           x == [w EXCEPT !.pc = "notify"]
       IN  IF cp3.worker /\ w.ok /\ Live4
           THEN cp3' = c /\ w' = [x EXCEPT !.conn = cp3.conn] /\ UNCHANGED <<timer, keys, slot>>
           ELSE InvalidateCp3(c, x)
    /\ UNCHANGED <<link, transfer, cp2, sealed>>
Cp4Notify(sent) ==
    /\ w.pc = "notify" /\ w.mode = "cp4"
    /\ sent => w.conn # 0 /\ w.conn = cp3.conn /\ Live4
    /\ w' = [w EXCEPT !.pc = "finish", !.sent = sent]
    /\ UNCHANGED <<link, transfer, cp2, cp3, timer, keys, slot, sealed>>
Commits4 ==
    /\ w.sent /\ w.conn = cp3.conn /\ Live4 /\ slot.fresh
    /\ keys.secure /\ keys.pend /\ keys.ready /\ keys.rx < SEQ_MAX /\ keys.tx < SEQ_MAX
\* Mutant: forgets to move the send counter.
CountedRx(k) == [k EXCEPT !.rx = @ + 1, !.pend = FALSE, !.ready = FALSE]
Counted(k) == [k EXCEPT !.rx = @ + 1, !.tx = @ + 1, !.pend = FALSE, !.ready = FALSE]
Cp4Finish ==
    /\ w.pc = "finish" /\ w.mode = "cp4"
    /\ IF Commits4
       THEN /\ keys' = Counted(keys) /\ cp3' = [cp3 EXCEPT !.delivery = FALSE]
            /\ w' = Sleeping /\ UNCHANGED <<timer, slot>>
       ELSE InvalidateCp3([cp3 EXCEPT !.delivery = FALSE], Sleeping)
    /\ Drain(cp3')
    /\ UNCHANGED <<link, cp2, sealed>>

-----------------------------------------------------------------------------
(* v1_cp3_timeout on the system work queue.  A handler that is running      *)
(* already cannot be cancelled, and looks at the deadline of the day.       *)
TimeoutRuns ==
    /\ timer.queued /\ ~timer.running
    /\ timer' = [timer EXCEPT !.queued = FALSE, !.running = TRUE]
    /\ UNCHANGED <<link, transfer, cp2, cp3, keys, slot, w, sealed>>
\* Mutant: the wait for FINISHED_C does not time out.
TimesOutBusy == cp3.state \in {"CRYPTO_BUSY", "FINISHED_P_BUSY"}
TimesOut == cp3.state \in Handshaking
Timeout ==
    /\ timer.running
    /\ IF TimesOut /\ cp3.left = 0
       THEN /\ cp3' = Failed(cp3) /\ keys' = NoKeys
            /\ timer' = [due |-> Never, queued |-> FALSE, running |-> FALSE]
            /\ slot' = Retired(slot, Cp3Modes) /\ w' = Retired(w, Cp3Modes)
       ELSE /\ timer' = [timer EXCEPT !.due = IF TimesOut THEN cp3.left ELSE @,
                                      !.running = FALSE]
            /\ UNCHANGED <<cp3, keys, slot, w>>
    /\ UNCHANGED <<link, transfer, cp2, sealed>>
Tick ==
    /\ cp3.left > 0 \/ timer.due # Never
    /\ cp3' = [cp3 EXCEPT !.left = IF @ > 0 THEN @ - 1 ELSE 0]
    /\ timer' = [timer EXCEPT !.due = IF @ > 1 THEN @ - 1 ELSE Never,
                              !.queued = @ \/ timer.due = 1]
    /\ UNCHANGED <<link, transfer, cp2, keys, slot, w, sealed>>

HostNext ==
    \/ Connected \/ Disconnected \/ SecurityUp \/ SecurityLost \/ SecurityChanged
    \/ Subscribe \/ Unsubscribe
    \/ \E next \in {"EMPTY", "RECEIVING", "READY"} : WriteCiphertext(next)
    \/ \E good \in BOOLEAN : Cp2Start(good) \/ Cp3Start(good) \/ FinishedC(good)
    \/ \E seq \in 0 .. SEQ_MAX, good \in BOOLEAN : Cp4Ping(seq, good)
    \/ Cp4Denied
WorkerNext ==
    \/ TakeJob \/ Cp2Compute \/ Cp3Compute \/ FinishedTake \/ FinishedStore
    \/ Cp4Check("run", "open") \/ Cp4Open \/ Cp4Check("opened", "seal") \/ Cp4Seal
    \/ JobDone
    \/ Cp2Result \/ Cp2Finish \/ Cp2Release
    \/ Cp3Result \/ Cp3Finish \/ Cp4Result \/ Cp4Finish
    \/ \E sent \in BOOLEAN : Cp2Notify(sent) \/ Cp3Notify(sent) \/ Cp4Notify(sent)
    \/ \E sent, late \in BOOLEAN : FinishedP(sent, late)
TimerNext == TimeoutRuns \/ Timeout
Next == HostNext \/ WorkerNext \/ TimerNext \/ Tick

Spec == Init /\ [][Next]_vars
(* Each thread runs on, and time passes; the Central promises nothing. *)
FairSpec ==
    Spec /\ WF_vars(WorkerNext) /\ WF_vars(TimerNext) /\ WF_vars(Tick) /\ WF_vars(SecurityChanged)

-----------------------------------------------------------------------------
Conns == 0 .. MAX_GEN
Jobs == [pending : BOOLEAN, active : BOOLEAN, mode : Cp3Modes \cup {"none", "cp2"},
         from : Conns, good : BOOLEAN, fresh : BOOLEAN]
(* Types of the variables. *)
HandshakeTypeOK ==
    /\ cur \in Conns /\ gen \in Conns /\ notify \in BOOLEAN /\ l4 \in BOOLEAN
    /\ notice \in {"no", "due", "seen"}
    /\ ct \in {"EMPTY", "RECEIVING", "READY", "BUSY"} /\ ctFrom \in Conns
    /\ cp2 \in [active : BOOLEAN, valid : BOOLEAN, conn : Conns, gen : Conns]
    /\ cp3 \in [state : Cp3States, conn : Conns, gen : Conns, worker : BOOLEAN,
                 delivery : BOOLEAN, left : 0 .. TIMEOUT]
    /\ timer \in [due : {Never} \cup (1 .. TIMEOUT), queued : BOOLEAN, running : BOOLEAN]
    /\ keys \in [hs : Conns, app : Conns, secure : BOOLEAN, pend : BOOLEAN, ready : BOOLEAN,
                  rx : 0 .. SEQ_MAX, tx : 0 .. SEQ_MAX]
    /\ slot \in Jobs

(* A failed or absent handshake leaves no secret in the session: what the  *)
(* worker derived for a connection that is gone, timed out or lost L4 is   *)
(* never stored after invalidate_v1_cp3_locked erased the session.          *)
NoOrphanKeys == cp3.state \in {"IDLE", "FAILED"} => keys = NoKeys

(* Secrets in the session come from the ciphertext of the connection that  *)
(* is current, and application keys are used in APP_SECURE only.            *)
KeysOfThisLink ==
    /\ {keys.hs, keys.app} \subseteq {0, cur}
    /\ keys.secure <=> cp3.state = "APP_SECURE"

(* While a job runs or is delivered no transfer is under way, so what the   *)
(* job's end wipes is never the ciphertext of a replacement connection.     *)
DrainWipesNothing == Draining => ct \in {"BUSY", "EMPTY"}

(* A handshake that waits for the worker has a job of the current epoch in *)
(* the slot or in the worker: no reset leaves it waiting for nothing.       *)
BusyHasJob ==
    cp3.state \in {"CRYPTO_BUSY", "FINISHED_P_BUSY"} =>
        \/ slot.pending /\ slot.fresh /\ slot.mode \in Cp3Modes
        \/ w.pc # "idle" /\ w.fresh /\ w.mode \in Cp3Modes

(* The number the next PONG is sealed under was never used with this key,  *)
(* whatever became of earlier notifications.                                *)
NextPongFresh == keys.secure /\ ~keys.pend => <<keys.app, keys.tx>> \notin sealed

(* One CP3 attempt per link: FAILED is terminal until the disconnection.    *)
FailedIsTerminal ==
    [][cp3.state = "FAILED" /\ cur' = cur => cp3'.state = "FAILED"]_vars

(* Types, no orphaned secret, only keys of this link, no wait without job. *)
HandshakeInv == HandshakeTypeOK /\ NoOrphanKeys /\ KeysOfThisLink /\ BusyHasJob

(* Every handshake ends: in APP_SECURE, in failure or with its link.        *)
HandshakeEnds == cp3.state \in Handshaking ~> cp3.state \notin Handshaking

(* A link's one handshake settles: it ends, and a failure is final.         *)
HandshakeSettles == FailedIsTerminal /\ HandshakeEnds

(* The transfer slot an old connection's job left busy is given back to     *)
(* the connection that replaced it.                                         *)
SlotGivenBack ==
    cur # 0 /\ cp3.state = "IDLE" /\ ct = "BUSY" ~> ct # "BUSY" \/ cur = 0
=============================================================================
