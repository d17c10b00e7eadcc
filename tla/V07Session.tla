----------------------------- MODULE V07Session -----------------------------
(***************************************************************************)
(* The application protocols of the v0.7 build on the Peripheral: the      *)
(* Phase 2 diagnostic, the one-shot message of v0.4, the authenticated     *)
(* handshakes of v0.5 and v0.7 and their bidirectional data planes (v0.6,   *)
(* v0.7).  They share the ciphertext transfer and the handlers of           *)
(* firmware/src/main.c and the one-slot crypto worker of                    *)
(* firmware/src/mlkem_session.c.                                            *)
(*                                                                         *)
(* Two threads meet here.  The Bluetooth host calls the connection, CCC     *)
(* and write handlers one at a time: each is one protocol_lock section,     *)
(* and some then reset the session in sections of session_lock.  The        *)
(* worker takes a job and stores its result under session_lock, and         *)
(* delivers it in protocol_lock sections with an unlocked notification in   *)
(* between.                                                                 *)
(*                                                                         *)
(* A job carries fresh instead of its epoch: phase5_epoch and phase7_epoch  *)
(* only grow and are only compared for equality.  A connection is named by  *)
(* connection_generation at its start.  Secrets are named by the START      *)
(* command they come from: the Central encapsulates anew for each.          *)
(***************************************************************************)
EXTENDS Integers, Sequences

CONSTANTS
    LABELS,            \* the largest PING label the responder answers (9 in the code)
    MAX_GEN,           \* bound on connection_generation
    MaxStarts          \* bound: START commands that reach the worker

ASSUME SessionAssumption ==
    LABELS \in Nat /\ MAX_GEN \in Nat /\ MaxStarts \in Nat

VARIABLES
    cur, gen, notify,  \* current_conn (0 for NULL), connection_generation, notify_enabled
    ct,                \* ciphertext_state
    p5, p7,            \* phase5_state, phase7_state
    jobConn,           \* crypto_job_conn; its crypto_job_generation is its name
    resets,            \* the session resets the host's callback still owes
    s5, s6, s7,        \* retained material of v0.5, v0.6 and v0.7
    slot, w,           \* the job slot, and the crypto worker
    starts,            \* history: START commands so far
    born,              \* history: the value of starts when this connection began
    sent               \* history: <<secret, kind, sequence number>> notified

control == <<cur, gen, notify, ct, p5, p7, jobConn, resets>>
session == <<s5, s6, s7>>
history == <<starts, born, sent>>
vars == <<control, session, slot, w, history>>

Starts == {"diag", "secure", "start5", "cp2", "start7"}
Jobs5 == {"start5", "cp2", "finished5", "data5", "data6"}
Jobs7 == {"start7", "finished7", "data7"}
Modes == Starts \cup Jobs5 \cup Jobs7
Phase5Of == [start5 |-> "CRYPTO_BUSY", finished5 |-> "FINISHED_BUSY",
             data5 |-> "DATA_BUSY", data6 |-> "PHASE6_RX_BUSY"]
Phase7Of == [start7 |-> "CRYPTO_BUSY", finished7 |-> "FINISHED_BUSY", data7 |-> "DATA_BUSY"]

No5 == [wait |-> FALSE, ready |-> FALSE, root |-> 0]
No6 == [active |-> FALSE, root |-> 0, rx |-> 0, tx |-> 0]     \* rx: last accepted + 1
No7 == [wait |-> FALSE, pend |-> FALSE, auth |-> FALSE, root |-> 0, rx |-> 0, tx |-> 0]
NoJob == [pending |-> FALSE, active |-> FALSE, mode |-> "none", root |-> 0,
          seq |-> 0, good |-> FALSE, fresh |-> FALSE]
Sleeping == [pc |-> "idle", mode |-> "none", root |-> 0, seq |-> 0, good |-> FALSE,
             fresh |-> FALSE, rx |-> 0, tx |-> 0, ok |-> FALSE, conn |-> 0]

Init ==
    /\ cur = 0 /\ gen = 0 /\ notify = FALSE /\ ct = "EMPTY"
    /\ p5 = "IDLE" /\ p7 = "IDLE" /\ jobConn = 0 /\ resets = <<>>
    /\ s5 = No5 /\ s6 = No6 /\ s7 = No7 /\ slot = NoJob /\ w = Sleeping
    /\ starts = 0 /\ born = 0 /\ sent = {}

(* phase5_epoch++ and phase7_epoch++ make the jobs of that phase stale. *)
Retired(j, jobs) == [j EXCEPT !.fresh = @ /\ j.mode \notin jobs]

-----------------------------------------------------------------------------
(* pq_mlkem_session_reset_phase5, pq_mlkem_session_reset_phase7 *)
Reset5 == s5' = No5 /\ s6' = No6 /\ slot' = Retired(slot, Jobs5)
Reset7 == s7' = No7 /\ slot' = Retired(slot, Jobs7)

(* The host's callback goes on after it released protocol_lock. *)
HostResets ==
    /\ resets # <<>> /\ resets' = Tail(resets)
    /\ \/ Head(resets) = 5 /\ Reset5 /\ w' = Retired(w, Jobs5) /\ UNCHANGED s7
       \/ Head(resets) = 7 /\ Reset7 /\ w' = Retired(w, Jobs7) /\ UNCHANGED <<s5, s6>>
    /\ UNCHANGED <<cur, gen, notify, ct, p5, p7, jobConn, history>>
HostFree == resets = <<>>

(* The connection callbacks.  CRYPTO_BUSY outlives the link: the worker     *)
(* gives the transfer back.                                                 *)
\* Mutant: a new connection gets an empty transfer at once.
ConnectedTakes ==
    /\ HostFree /\ cur = 0 /\ gen < MAX_GEN
    /\ cur' = gen + 1 /\ gen' = gen + 1 /\ notify' = FALSE
    /\ p5' = "IDLE" /\ p7' = "IDLE" /\ resets' = <<5, 7>>
    /\ ct' = "EMPTY" /\ born' = starts
    /\ UNCHANGED <<jobConn, session, slot, w, starts, sent>>
Connected ==
    /\ HostFree /\ cur = 0 /\ gen < MAX_GEN
    /\ cur' = gen + 1 /\ gen' = gen + 1 /\ notify' = FALSE
    /\ p5' = "IDLE" /\ p7' = "IDLE" /\ resets' = <<5, 7>>
    /\ ct' = (IF ct = "BUSY" THEN ct ELSE "EMPTY") /\ born' = starts
    /\ UNCHANGED <<jobConn, session, slot, w, starts, sent>>
Disconnected ==
    /\ HostFree /\ cur # 0 /\ gen < MAX_GEN
    /\ cur' = 0 /\ gen' = gen + 1 /\ notify' = FALSE
    /\ p5' = "IDLE" /\ p7' = "IDLE" /\ resets' = <<5, 7>>
    /\ ct' = (IF ct = "BUSY" THEN ct ELSE "EMPTY")
    /\ jobConn' = (IF jobConn = cur THEN 0 ELSE jobConn)
    /\ UNCHANGED <<session, slot, w, history>>

(* ccc_config_changed *)
Subscribe ==
    /\ HostFree /\ cur # 0 /\ ~notify /\ notify' = TRUE
    /\ UNCHANGED <<cur, gen, ct, p5, p7, jobConn, resets, session, slot, w, history>>
Unsubscribe ==
    /\ HostFree /\ cur # 0 /\ notify /\ notify' = FALSE
    /\ p5' = "IDLE" /\ p7' = "IDLE"
    /\ resets' = (IF p5 = "IDLE" THEN <<>> ELSE <<5>>) \o (IF p7 = "IDLE" THEN <<>> ELSE <<7>>)
    /\ UNCHANGED <<cur, gen, ct, jobConn, session, slot, w, history>>

-----------------------------------------------------------------------------
(* The GATT writes.  write_ciphertext: fragments of a transfer arrive, and *)
(* the last one completes it; a refused one may empty the transfer.         *)
CiphertextWritable == cur # 0 /\ p5 = "IDLE" /\ p7 = "IDLE" /\ ct # "BUSY"
WriteCiphertext(next) ==
    /\ HostFree /\ CiphertextWritable
    /\ next = "READY" => ct = "RECEIVING"
    /\ ct' = next
    /\ UNCHANGED <<cur, gen, notify, p5, p7, jobConn, resets, session, slot, w, history>>

SlotFree == ~slot.pending /\ ~slot.active
Job(mode, root, seq, good) ==
    [pending |-> TRUE, active |-> FALSE, mode |-> mode, root |-> root, seq |-> seq,
     good |-> good, fresh |-> TRUE]

(* handle_start with submit_job or pq_mlkem_session_submit_phase7_auth.     *)
(* START5 and START7 forget v0.5 and v0.6, START7_AUTH also forgets v0.7.   *)
(* A refused START changes nothing.                                         *)
Forgets(mode) == CASE mode = "start7" -> Jobs5 \cup Jobs7
                   [] mode \in {"start5", "cp2"} -> Jobs5
                   [] OTHER -> {}
StartAccepted ==
    /\ cur # 0 /\ notify /\ p5 = "IDLE" /\ p7 = "IDLE"
    /\ ct = "READY" /\ jobConn = 0 /\ SlotFree
Start(mode) ==
    /\ HostFree /\ StartAccepted /\ starts < MaxStarts
    /\ starts' = starts + 1 /\ slot' = Job(mode, starts + 1, 0, TRUE)
    /\ s5' = (IF mode \in Jobs5 \cup Jobs7 THEN No5 ELSE s5)
    /\ s6' = (IF mode \in Jobs5 \cup Jobs7 THEN No6 ELSE s6)
    /\ s7' = (IF mode \in Jobs7 THEN No7 ELSE s7)
    /\ w' = Retired(w, Forgets(mode))
    /\ ct' = "BUSY" /\ jobConn' = cur
    /\ p5' = (IF mode = "start5" THEN "CRYPTO_BUSY" ELSE p5)
    /\ p7' = (IF mode = "start7" THEN "CRYPTO_BUSY" ELSE p7)
    /\ UNCHANGED <<cur, gen, notify, resets, born, sent>>

(* The other commands hand the session's own material to the worker.  When *)
(* the session no longer has it, or the slot is taken, the handler puts the *)
(* phase back and leaves an empty transfer.                                 *)
Command(mode, has, seq, good) ==
    /\ IF has /\ SlotFree
       THEN /\ slot' = Job(mode, 0, seq, good)
            /\ ct' = "BUSY" /\ jobConn' = cur
            /\ p5' = (IF mode \in Jobs5 THEN Phase5Of[mode] ELSE p5)
            /\ p7' = (IF mode \in Jobs7 THEN Phase7Of[mode] ELSE p7)
       ELSE ct' = "EMPTY" /\ UNCHANGED <<slot, jobConn, p5, p7>>
    /\ UNCHANGED <<cur, gen, notify, resets, session, w, history>>

(* handle_phase5_worker_command: FINISHED_C and DATA_REQUEST of v0.5 *)
Phase5Expects(phase) == cur # 0 /\ notify /\ p5 = phase /\ jobConn = 0
Phase5FinishedC(good) ==
    /\ HostFree /\ Phase5Expects("WAIT_FINISHED_C")
    /\ Command("finished5", s5.wait, 0, good)
Phase5Data ==
    /\ HostFree /\ Phase5Expects("AUTHENTICATED")
    /\ Command("data5", s5.ready, 0, TRUE)

(* handle_phase7_finished_c *)
Phase7Expects == cur # 0 /\ notify /\ p7 = "WAIT_FINISHED_C" /\ jobConn = 0
Phase7FinishedC(good) ==
    /\ HostFree /\ Phase7Expects
    /\ Command("finished7", s7.wait, 0, good)

(* write_secure_data prefers v0.7, and never falls back from a v0.7 session *)
(* that is not AUTHENTICATED.  good: AES-GCM authenticates the frame.       *)
DataOpen == p7 = "AUTHENTICATED" \/ (p7 = "IDLE" /\ p5 = "AUTHENTICATED")
DataWritable == cur # 0 /\ notify /\ DataOpen /\ jobConn = 0 /\ ct # "BUSY"
WriteSecureData(seq, good) ==
    /\ HostFree /\ DataWritable
    /\ \/ p7 = "AUTHENTICATED" /\ Command("data7", s7.auth /\ ~s7.pend, seq, good)
       \/ p7 = "IDLE" /\ Command("data6", s5.ready \/ s6.active, seq, good)

-----------------------------------------------------------------------------
(* The worker takes the job and copies what it needs.  A job that is stale, *)
(* or whose material is gone, goes straight to job_done.  DATA_REQUEST      *)
(* consumes K_app here.                                                     *)
Usable(j) ==
    CASE j.mode \in {"diag", "secure", "start5"} -> TRUE
      [] j.mode \in {"cp2", "start7"} -> j.fresh
      [] j.mode = "finished5" -> j.fresh /\ s5.wait
      [] j.mode = "data5" -> j.fresh /\ s5.ready
      [] j.mode = "data6" -> j.fresh /\ (s6.active \/ s5.ready)
      [] j.mode = "finished7" -> j.fresh /\ s7.wait
      [] j.mode = "data7" -> j.fresh /\ s7.auth
Copied(j) ==
    CASE j.mode \in Starts -> [root |-> j.root, rx |-> 0, tx |-> 0]
      [] j.mode = "data6" /\ s6.active -> [root |-> s6.root, rx |-> s6.rx, tx |-> s6.tx]
      [] j.mode \in {"finished5", "data5"} \/ (j.mode = "data6" /\ ~s6.active) ->
             [root |-> s5.root, rx |-> 0, tx |-> 0]
      [] OTHER -> [root |-> s7.root, rx |-> s7.rx, tx |-> s7.tx]
TakeJob ==
    /\ w.pc = "idle" /\ slot.pending
    /\ slot' = [slot EXCEPT !.pending = FALSE, !.active = TRUE]
    /\ w' = [Sleeping EXCEPT !.pc = IF Usable(slot) THEN slot.mode ELSE "done",
                 !.mode = slot.mode, !.seq = slot.seq, !.good = slot.good, !.fresh = slot.fresh,
                 !.root = Copied(slot).root, !.rx = Copied(slot).rx, !.tx = Copied(slot).tx]
    /\ s5' = (IF slot.mode = "data5" /\ Usable(slot) THEN No5 ELSE s5)
    /\ UNCHANGED <<control, s6, s7, history>>

Done(ok) == w' = [w EXCEPT !.pc = "done", !.ok = ok]

(* Decapsulation and what needs no retained material: the diagnostic, the  *)
(* message of v0.4, the CP2 diagnostic of v0.7, and DATA of v0.5.           *)
Compute(crypto) ==
    /\ w.pc \in {"diag", "secure", "cp2", "data5"} /\ Done(crypto)
    /\ UNCHANGED <<control, session, slot, history>>

(* START5 retains the keys FINISHED needs, unless the epoch moved. *)
Start5(crypto) ==
    /\ w.pc = "start5" /\ Done(crypto /\ w.fresh)
    /\ s5' = (IF crypto /\ w.fresh THEN [wait |-> TRUE, ready |-> FALSE, root |-> w.root] ELSE s5)
    /\ UNCHANGED <<control, s6, s7, slot, history>>

(* phase7_auth_start_result *)
\* Mutant: retains the keys whatever the epoch.
Start7Any(crypto) ==
    /\ w.pc = "start7" /\ Done(crypto)
    /\ s7' = (IF crypto THEN [No7 EXCEPT !.wait = TRUE, !.root = w.root] ELSE No7)
    /\ UNCHANGED <<control, s5, s6, slot, history>>
Start7(crypto) ==
    /\ w.pc = "start7" /\ Done(crypto /\ w.fresh)
    /\ s7' = (CASE ~w.fresh -> s7
                [] w.fresh /\ crypto -> [No7 EXCEPT !.wait = TRUE, !.root = w.root]
                [] w.fresh /\ ~crypto -> No7)
    /\ UNCHANGED <<control, s5, s6, slot, history>>

(* FINISHED_C of v0.5: K_app is ready before FINISHED_P is queued; a wrong  *)
(* MAC ends the session.                                                    *)
Finished5(crypto) ==
    /\ w.pc = "finished5"
    /\ IF w.fresh /\ s5.wait
       THEN IF w.good /\ crypto
            THEN /\ Done(TRUE)
                 /\ s5' = [s5 EXCEPT !.wait = FALSE, !.ready = TRUE]
            ELSE /\ w' = [w EXCEPT !.pc = "done", !.fresh = FALSE]
                 /\ s5' = No5
       ELSE Done(FALSE) /\ UNCHANGED s5
    /\ UNCHANGED <<control, s6, s7, slot, history>>

(* FINISHED_C of v0.7: the traffic keys stay pending until FINISHED_P is    *)
(* queued; a wrong MAC is left to the delivery, which resets the session.   *)
Finished7(crypto) ==
    /\ w.pc = "finished7"
    /\ IF w.good /\ crypto /\ w.fresh /\ s7.wait
       THEN Done(TRUE) /\ s7' = [s7 EXCEPT !.wait = FALSE, !.pend = TRUE]
       ELSE Done(FALSE) /\ UNCHANGED s7
    /\ UNCHANGED <<control, s5, s6, slot, history>>

(* pq_secure_decrypt_with_key accepts a fresh sequence number, and the      *)
(* responder answers a PING whose label has one digit.                      *)
Answers == w.good /\ w.seq >= w.rx /\ w.seq <= LABELS

(* A data job stores both counters once the answer is encrypted.  The first *)
(* frame of v0.6 replaces K_app by the traffic keys.                        *)
\* Mutant: the send counter stays where it was.
AdvanceRx(s) == [s EXCEPT !.rx = w.seq + 1]
Advance(s) == [s EXCEPT !.rx = w.seq + 1, !.tx = w.tx + 1]
Data6(crypto) ==
    /\ w.pc = "data6"
    /\ IF Answers /\ crypto /\ w.fresh /\ (s6.active \/ s5.ready)
       THEN /\ Done(TRUE) /\ s5' = No5
            /\ s6' = Advance([s6 EXCEPT !.active = TRUE, !.root = w.root])
       ELSE Done(FALSE) /\ UNCHANGED <<s5, s6>>
    /\ UNCHANGED <<control, s7, slot, history>>
Data7(crypto) ==
    /\ w.pc = "data7"
    /\ IF Answers /\ crypto /\ w.fresh /\ s7.auth
       THEN Done(TRUE) /\ s7' = Advance(s7)
       ELSE Done(FALSE) /\ UNCHANGED s7
    /\ UNCHANGED <<control, s5, s6, slot, history>>

(* job_done: the slot is free, and a stale result of v0.7 is cancelled. *)
JobDone ==
    /\ w.pc = "done" /\ slot' = [slot EXCEPT !.active = FALSE]
    /\ w' = [w EXCEPT !.pc = "result",
                      !.ok = @ /\ (w.mode \in Jobs7 \cup {"cp2"} => w.fresh)]
    /\ UNCHANGED <<control, session, history>>

-----------------------------------------------------------------------------
(* mlkem_result_ready.  Its first section takes crypto_job_conn, frees the  *)
(* transfer and moves the phases of v0.5, v0.6 and the v0.7 data plane.     *)
Phase5After(current) ==
    CASE w.mode = "data6" -> IF current THEN "AUTHENTICATED" ELSE "IDLE"
      [] w.mode = "start5" -> IF current /\ w.ok THEN "WAIT_FINISHED_C" ELSE "IDLE"
      [] w.mode = "finished5" -> IF current /\ w.ok THEN "AUTHENTICATED" ELSE "IDLE"
      [] w.mode = "data5" -> "IDLE"
      [] OTHER -> p5
\* Mutant: a frame that was not accepted leaves the phase where it was.
Phase7AfterAccepted(current) ==
    IF w.mode = "data7" /\ current /\ w.ok THEN "AUTHENTICATED" ELSE p7
Phase7After(current) ==
    IF w.mode = "data7" THEN IF current THEN "AUTHENTICATED" ELSE "IDLE" ELSE p7
\* Mutant: the connection of the job is not compared.
ResultAnyLink ==
    /\ w.pc = "result"
    /\ ct' = (IF ct = "BUSY" THEN "EMPTY" ELSE ct)
    /\ p5' = Phase5After(notify) /\ p7' = Phase7After(notify)
    /\ w' = IF notify THEN [w EXCEPT !.pc = "notify", !.conn = cur] ELSE Sleeping
    /\ jobConn' = 0
    /\ UNCHANGED <<cur, gen, notify, resets, session, slot, history>>
Result ==
    /\ w.pc = "result"
    /\ ct' = (IF ct = "BUSY" THEN "EMPTY" ELSE ct)
    /\ LET current == jobConn # 0 /\ jobConn = cur /\ notify
       IN  /\ p5' = Phase5After(current) /\ p7' = Phase7After(current)
           /\ w' = IF current THEN [w EXCEPT !.pc = "notify", !.conn = jobConn] ELSE Sleeping
    /\ jobConn' = 0
    /\ UNCHANGED <<cur, gen, notify, resets, session, slot, history>>

(* The notification, of the result or of an error frame, outside any lock,  *)
(* and what its outcome leads to.  The host refuses it once the connection  *)
(* is gone or no longer subscribed.                                         *)
Told == CASE w.mode = "data5" -> {<<w.root, "K_app", 0>>}
          [] w.mode = "data6" -> {<<w.root, "data6", w.tx>>}
          [] w.mode = "data7" -> {<<w.root, "data7", w.tx>>}
          [] w.mode = "finished7" -> {<<w.root, "FINISHED_P", 0>>}
          [] OTHER -> {}
\* Mutant: keys are promoted although FINISHED_P could not be queued.
AfterNotifyBlind(delivered) ==
    CASE w.mode \in {"start7", "finished7"} ->
             IF ~w.ok THEN "fail7" ELSE IF w.mode = "start7" THEN "wait7" ELSE "commit7"
      [] w.mode = "data7" -> IF delivered THEN "idle" ELSE "fail7"
      [] w.mode \in Jobs5 \ {"cp2"} /\ ~delivered -> "fail5"
      [] w.mode \in {"start5", "finished5", "data5"} /\ delivered /\ ~w.ok -> "reset5"
      [] OTHER -> "idle"
AfterNotify(delivered) ==
    CASE w.mode \in {"start7", "finished7"} ->
             IF ~w.ok \/ ~delivered THEN "fail7"
             ELSE IF w.mode = "start7" THEN "wait7" ELSE "commit7"
      [] w.mode = "data7" -> IF delivered THEN "idle" ELSE "fail7"
      [] w.mode \in Jobs5 \ {"cp2"} /\ ~delivered -> "fail5"
      [] w.mode \in {"start5", "finished5", "data5"} /\ delivered /\ ~w.ok -> "reset5"
      [] OTHER -> "idle"
Goto(pc) == w' = IF pc = "idle" THEN Sleeping ELSE [w EXCEPT !.pc = pc]
Notify(delivered) ==
    /\ w.pc = "notify" /\ (delivered => w.conn = cur /\ notify)
    /\ sent' = IF delivered /\ w.ok THEN sent \cup Told ELSE sent
    /\ Goto(AfterNotify(delivered))
    /\ UNCHANGED <<control, session, slot, starts, born>>

(* READY7_AUTH was queued. *)
Wait7 ==
    /\ w.pc = "wait7" /\ p7' = (IF w.conn = cur THEN "WAIT_FINISHED_C" ELSE p7) /\ Goto("idle")
    /\ UNCHANGED <<cur, gen, notify, ct, p5, jobConn, resets, session, slot, history>>
(* pq_mlkem_session_commit_phase7_authenticated, then the phase. *)
Commit7 ==
    /\ w.pc = "commit7"
    /\ IF s7.pend /\ ~s7.wait /\ ~s7.auth /\ SlotFree
       THEN s7' = [s7 EXCEPT !.pend = FALSE, !.auth = TRUE, !.rx = 0, !.tx = 0] /\ Goto("auth7")
       ELSE UNCHANGED s7 /\ Goto("fail7")
    /\ UNCHANGED <<control, s5, s6, slot, history>>
Auth7 ==
    /\ w.pc = "auth7" /\ p7' = (IF w.conn = cur THEN "AUTHENTICATED" ELSE p7) /\ Goto("idle")
    /\ UNCHANGED <<cur, gen, notify, ct, p5, jobConn, resets, session, slot, history>>
(* A delivery that failed: the phase ends, then its material is erased. *)
Fail7 ==
    /\ w.pc = "fail7" /\ p7' = (IF w.conn = cur THEN "IDLE" ELSE p7) /\ Goto("reset7")
    /\ UNCHANGED <<cur, gen, notify, ct, p5, jobConn, resets, session, slot, history>>
Fail5 ==
    /\ w.pc = "fail5" /\ p5' = (IF w.conn = cur THEN "IDLE" ELSE p5) /\ Goto("reset5")
    /\ UNCHANGED <<cur, gen, notify, ct, p7, jobConn, resets, session, slot, history>>
WorkerResets ==
    /\ \/ w.pc = "reset5" /\ Reset5 /\ UNCHANGED s7
       \/ w.pc = "reset7" /\ Reset7 /\ UNCHANGED <<s5, s6>>
    /\ Goto("idle") /\ UNCHANGED <<control, history>>

-----------------------------------------------------------------------------
Seqs == 0 .. LABELS + 1
HostNext ==
    \/ Connected \/ Disconnected \/ Subscribe \/ Unsubscribe
    \/ \E next \in {"EMPTY", "RECEIVING", "READY"} : WriteCiphertext(next)
    \/ \E mode \in Starts : Start(mode)
    \/ \E good \in BOOLEAN : Phase5FinishedC(good) \/ Phase7FinishedC(good)
    \/ Phase5Data
    \/ \E seq \in Seqs, good \in BOOLEAN : WriteSecureData(seq, good)
WorkerNext ==
    \/ TakeJob \/ JobDone \/ Result
    \/ \E crypto \in BOOLEAN :
           \/ Compute(crypto) \/ Start5(crypto) \/ Start7(crypto)
           \/ Finished5(crypto) \/ Finished7(crypto) \/ Data6(crypto) \/ Data7(crypto)
    \/ \E delivered \in BOOLEAN : Notify(delivered)
    \/ Wait7 \/ Commit7 \/ Auth7 \/ Fail7 \/ Fail5 \/ WorkerResets
Next == HostNext \/ HostResets \/ WorkerNext

Spec == Init /\ [][Next]_vars
(* Both threads run on; the Central promises nothing. *)
FairSpec == Spec /\ WF_vars(WorkerNext) /\ WF_vars(HostResets)

-----------------------------------------------------------------------------
Counted == 0 .. LABELS + 1
(* Types of the variables.  A session accepts at most LABELS + 1 frames, so *)
(* the code's UINT64_MAX test on the send counter never fires.              *)
V07TypeOK ==
    /\ cur \in 0 .. MAX_GEN /\ gen \in 0 .. MAX_GEN /\ notify \in BOOLEAN
    /\ ct \in {"EMPTY", "RECEIVING", "READY", "BUSY"} /\ jobConn \in {0, cur}
    /\ p5 \in {"IDLE", "CRYPTO_BUSY", "WAIT_FINISHED_C", "FINISHED_BUSY", "AUTHENTICATED",
               "DATA_BUSY", "PHASE6_RX_BUSY"}
    /\ p7 \in {"IDLE", "CRYPTO_BUSY", "WAIT_FINISHED_C", "FINISHED_BUSY", "AUTHENTICATED",
               "DATA_BUSY"}
    /\ s5 \in [wait : BOOLEAN, ready : BOOLEAN, root : 0 .. MaxStarts]
    /\ s6 \in [active : BOOLEAN, root : 0 .. MaxStarts, rx : Counted, tx : Counted]
    /\ s7 \in [wait : BOOLEAN, pend : BOOLEAN, auth : BOOLEAN, root : 0 .. MaxStarts,
               rx : Counted, tx : Counted]
    /\ slot.mode \in Modes \cup {"none"} /\ w.mode \in Modes \cup {"none"}

(* Whatever the worker stores late, the material the session retains comes *)
(* from a START of the connection that is up: disconnection and connection *)
(* erase the rest before the host does anything else.                       *)
MaterialOfThisLink ==
    HostFree => \A root \in {s5.root, s6.root, s7.root} \ {0} : cur # 0 /\ root > born

(* The transfer is CRYPTO_BUSY exactly while a job is on its way, so the    *)
(* transfer that mlkem_result_ready wipes is never one a new connection     *)
(* has begun, and none stays busy without a job.                            *)
TransferOwned ==
    ct = "BUSY" <=> slot.pending \/ slot.active \/ w.pc = "result"

(* Once both threads are at rest a phase that is IDLE retains no key, also  *)
(* after failed notifications, refused FINISHED and lost subscriptions.     *)
IdleHoldsNothing ==
    HostFree /\ w.pc = "idle" /\ ~slot.pending =>
        /\ p5 = "IDLE" => s5 = No5 /\ s6 = No6
        /\ p7 = "IDLE" => s7 = No7

(* Types, material of this link only, and none of it in an idle phase.      *)
SessionInv == V07TypeOK /\ MaterialOfThisLink /\ IdleHoldsNothing

(* K_app encrypts one message or becomes the root of v0.6, never both; and  *)
(* no answer of a data plane repeats a sequence number under its key.       *)
SentOnce ==
    \A e \in sent :
        /\ s5.ready => e[1] # s5.root
        /\ s6.active /\ e[1] = s6.root => e[2] = "data6" /\ e[3] < s6.tx
        /\ s7.auth /\ e[1] = s7.root /\ e[2] = "data7" => e[3] < s7.tx

(* Traffic keys of v0.7 are active only after FINISHED_P of the same        *)
(* handshake has been queued, whatever the worker is delivering meanwhile.  *)
ConfirmedFirst == s7.auth => <<s7.root, "FINISHED_P", 0>> \in sent

(* No phase stays busy for ever: whatever becomes of its job, the phase is  *)
(* left, also when the subscription or the connection goes meanwhile.       *)
Busy(p) == p \in {"CRYPTO_BUSY", "FINISHED_BUSY", "DATA_BUSY", "PHASE6_RX_BUSY"}
PhaseEnds == /\ Busy(p5) ~> ~Busy(p5)
             /\ Busy(p7) ~> ~Busy(p7)

(* The state machine of docs/research/milestones/                           *)
(* v0.7-authenticated-hybrid-secure-channel.md, lines 405 to 411: a phase   *)
(* other than IDLE is entered from its predecessor only.                    *)
Edges7 == {<<"IDLE", "CRYPTO_BUSY">>, <<"CRYPTO_BUSY", "WAIT_FINISHED_C">>,
           <<"WAIT_FINISHED_C", "FINISHED_BUSY">>, <<"FINISHED_BUSY", "AUTHENTICATED">>,
           <<"AUTHENTICATED", "DATA_BUSY">>, <<"DATA_BUSY", "AUTHENTICATED">>}
DocumentedPhases == [][p7' # p7 => p7' = "IDLE" \/ <<p7, p7'>> \in Edges7]_p7
=============================================================================
