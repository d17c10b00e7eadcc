----------------------------- MODULE V1Security -----------------------------
(***************************************************************************)
(* The security gate of profiles v1.0 and v1.1                             *)
(* (firmware/src/pq_v1_security.c): which connection is tracked, whether   *)
(* an operator confirmed the Numeric Comparison, and whether the PQ GATT   *)
(* service may be used on the link.                                        *)
(*                                                                         *)
(* Two threads share the fields under state_lock.  The callbacks of the     *)
(* Bluetooth host run on the host's thread, one at a time.  The button      *)
(* scan, the arming of the buttons and the Numeric Comparison timeout run  *)
(* on the system work queue, also one at a time; each takes state_lock      *)
(* several times, and the host's callbacks run in between.                  *)
(*                                                                         *)
(* A connection is named by the value connection_generation had when it was *)
(* accepted: a struct bt_conn is not reused while a reference is held, so   *)
(* pointers compare equal exactly when these names do.  A second            *)
(* connection is refused without a change of state, and leaves no trace.    *)
(* SMP itself belongs to the host and is external.                          *)
(***************************************************************************)
EXTENDS Integers, Sequences, FiniteSets

CONSTANTS
    TIMEOUT,           \* CONFIG_PQ_V1_NUMERIC_COMPARISON_TIMEOUT_MS, in ticks
    MAX_GEN            \* bound on connection_generation

ASSUME SecurityAssumption == TIMEOUT \in Nat \ {0} /\ MAX_GEN \in Nat

VARIABLES
    tracked,           \* tracked_conn, 0 for NULL
    auth,              \* auth_conn, 0 for NULL
    state,             \* sec_state
    gen,               \* connection_generation
    authGen,           \* auth_generation
    securedGen,        \* secured_generation
    left,              \* nc_deadline - k_uptime_get(), stopped at 0
    attempted,         \* pairing_attempted
    accepted,          \* nc_accepted
    armed,             \* buttons_armed
    due,               \* nc_timeout_work: remaining delay
    queue,             \* the items the system work queue holds
    worker,            \* what the system work queue is in the middle of
    scanned,           \* the pins at the last button scan
    link, level, smp,  \* the host: the connection, its level, SMP's progress
    bond,              \* the host: a bond with the peer is stored
    held,              \* the buttons the operator holds down
    shown,             \* history: the challenge on display at the last press of ACCEPT
    decided            \* history: the press of ACCEPT that was taken, by its challenge

fields == <<tracked, auth, state, gen, authGen, securedGen, left, attempted,
            accepted, armed>>
host == <<link, level, smp, bond>>
hands == <<held, shown>>
vars == <<fields, due, queue, worker, scanned, host, hands, decided>>

Never == -1
States == {"DISCONNECTED", "CONNECTED_UNSECURED", "SMP_PAIRING",
           "NUMERIC_COMPARISON", "L4_SECURED", "FAILED"}
Buttons == {"accept", "reject", "clear"}
Decisive == {"accept", "reject"}
Idle == [op |-> "idle", pins |-> {}, conn |-> 0, gen |-> 0, press |-> 0, wipe |-> FALSE]

(* live_link_is_l4 and pq_v1_security_conn_is_l4 *)
LiveL4 == link = "up" /\ level = 4
Gate == tracked # 0 /\ state = "L4_SECURED" /\ securedGen = gen /\ LiveL4

(* k_work_submit leaves an item that is queued already where it is. *)
Submit(q, item) == IF \E i \in DOMAIN q : q[i] = item THEN q ELSE Append(q, item)
(* Cancelling takes a queued timeout out. *)
Cancelled(q) ==
    IF \E i \in DOMAIN q : q[i] = "timeout"
    THEN LET i == CHOOSE i \in DOMAIN q : q[i] = "timeout"
         IN  [j \in 1 .. Len(q) - 1 |-> IF j < i THEN q[j] ELSE q[j + 1]]
    ELSE q

(* clear_pending_locked for the tracked connection *)
ClearPending ==
    IF auth = tracked
    THEN auth' = 0 /\ armed' = FALSE /\ due' = Never /\ queue' = Cancelled(queue)
    ELSE UNCHANGED <<auth, armed, due, queue>>

Init ==
    /\ tracked = 0 /\ auth = 0 /\ state = "DISCONNECTED"
    /\ gen = 0 /\ authGen = 0 /\ securedGen = 0 /\ left = 0
    /\ attempted = FALSE /\ accepted = FALSE /\ armed = FALSE
    /\ due = Never /\ queue = <<>> /\ worker = Idle /\ scanned = {}
    /\ link = "none" /\ level = 1 /\ smp = "idle" /\ bond \in BOOLEAN
    /\ held = {} /\ shown = 0 /\ decided = 0

-----------------------------------------------------------------------------
(* The lifecycle calls of main.c.  A cold link waits for the Central to    *)
(* pair; a bonded one asks the host for L4 at once.                         *)
OnConnected(err) ==
    /\ link = "none" /\ tracked = 0 /\ gen + 2 <= MAX_GEN
    /\ tracked' = gen + 1 /\ gen' = gen + 1 /\ securedGen' = 0
    /\ attempted' = FALSE /\ accepted' = FALSE /\ armed' = FALSE
    /\ state' = CASE ~bond -> "CONNECTED_UNSECURED"
                  [] bond /\ err -> "FAILED"
                  [] OTHER -> "SMP_PAIRING"
    /\ link' = "up" /\ level' = 1 /\ smp' = "idle"
    /\ UNCHANGED <<auth, authGen, left, due, queue, worker, scanned, bond, hands, decided>>

OnDisconnected ==
    /\ link = "closing"
    /\ ClearPending
    /\ tracked' = 0 /\ gen' = gen + 1 /\ securedGen' = 0
    /\ accepted' = FALSE /\ state' = "DISCONNECTED"
    /\ link' = "none" /\ level' = 1 /\ smp' = "idle"
    /\ UNCHANGED <<authGen, left, attempted, worker, scanned, bond, hands, decided>>

-----------------------------------------------------------------------------
(* The SMP callbacks *)
\* Mutant: a pairing may start on a link that failed.
PairingAcceptAny ==
    /\ link = "up" /\ smp = "idle"
    /\ attempted' = TRUE /\ state' = "SMP_PAIRING" /\ smp' = "pairing"
    /\ UNCHANGED <<tracked, auth, gen, authGen, securedGen, left, accepted, armed, due,
                   queue, worker, scanned, link, level, bond, hands, decided>>
PairingAccept ==
    /\ link = "up" /\ smp = "idle"
    /\ IF ~attempted /\ state \in {"CONNECTED_UNSECURED", "SMP_PAIRING"}
       THEN attempted' = TRUE /\ state' = "SMP_PAIRING" /\ smp' = "pairing"
       ELSE smp' = "failing" /\ UNCHANGED <<attempted, state>>
    /\ UNCHANGED <<tracked, auth, gen, authGen, securedGen, left, accepted, armed, due,
                   queue, worker, scanned, link, level, bond, hands, decided>>

(* A KeyboardOnly peer makes the host display a passkey: refused. *)
PasskeyDisplay ==
    /\ link = "up" /\ smp = "pairing"
    /\ state' = "FAILED" /\ link' = "closing"
    /\ UNCHANGED <<tracked, auth, gen, authGen, securedGen, left, attempted, accepted, armed,
                   due, queue, worker, scanned, level, smp, bond, hands, decided>>

(* The challenge is displayed.  A duplicate is cancelled. *)
Refuses == state \in {"FAILED", "L4_SECURED"} \/ auth # 0 \/ accepted
\* Mutant: the timeout is not scheduled.
PasskeyConfirmUntimed ==
    /\ link = "up" /\ smp = "pairing"
    /\ IF Refuses
       THEN /\ smp' = "failing"
            /\ UNCHANGED <<auth, authGen, left, armed, state, due, queue>>
       ELSE /\ auth' = tracked /\ authGen' = gen /\ left' = TIMEOUT /\ armed' = FALSE
            /\ state' = "NUMERIC_COMPARISON" /\ smp' = "compare"
            /\ due' = due /\ queue' = Submit(queue, "arm")
    /\ UNCHANGED <<tracked, gen, securedGen, attempted, accepted, worker, scanned,
                   link, level, bond, hands, decided>>
PasskeyConfirm ==
    /\ link = "up" /\ smp = "pairing"
    /\ IF Refuses
       THEN /\ smp' = "failing"
            /\ UNCHANGED <<auth, authGen, left, armed, state, due, queue>>
       ELSE /\ auth' = tracked /\ authGen' = gen /\ left' = TIMEOUT /\ armed' = FALSE
            /\ state' = "NUMERIC_COMPARISON" /\ smp' = "compare"
            /\ due' = TIMEOUT /\ queue' = Submit(queue, "arm")
    /\ UNCHANGED <<tracked, gen, securedGen, attempted, accepted, worker, scanned,
                   link, level, bond, hands, decided>>

(* The stack or the peer abandons the ceremony. *)
AuthCancel ==
    /\ link = "up" /\ smp \in {"pairing", "compare", "confirmed"}
    /\ ClearPending
    /\ state' = IF state = "L4_SECURED" THEN state ELSE "FAILED"
    /\ smp' = "failing"
    /\ UNCHANGED <<tracked, gen, authGen, securedGen, left, attempted, accepted, worker,
                   scanned, link, level, bond, hands, decided>>

PairingFailed ==
    /\ link # "none" /\ smp # "idle"
    /\ ClearPending
    /\ state' = "FAILED" /\ smp' = "idle"
    /\ UNCHANGED <<tracked, gen, authGen, securedGen, left, attempted, accepted, worker,
                   scanned, link, level, bond, hands, decided>>

PairingComplete ==
    /\ link = "up" /\ smp = "encrypted"
    /\ ClearPending
    /\ smp' = "idle" /\ bond' = TRUE
    /\ UNCHANGED <<tracked, state, gen, authGen, securedGen, left, attempted, accepted,
                   worker, scanned, link, level, hands, decided>>

(* security_changed.  L4 comes from the ceremony both sides confirmed or   *)
(* from the stored bond, whatever SMP is doing at that moment.             *)
Reports == [err : {TRUE}, level : {level}] \cup [err : {FALSE}, level : {2}]
           \cup IF smp = "confirmed" \/ bond THEN {[err |-> FALSE, level |-> 4]} ELSE {}
\* Mutant: the operator's decision is not asked for.
SecuresAlways(r) == ~r.err /\ r.level = 4
Secures(r) == ~r.err /\ r.level = 4 /\ (attempted => accepted)
(* A comparison still pending on a link short of L4 is cancelled. *)
Encrypted(r) ==
    /\ level' = r.level
    /\ smp' = CASE smp = "confirmed" /\ ~r.err /\ r.level = 4 -> "encrypted"
                [] smp = "compare" /\ auth # 0 /\ ~r.err /\ ~Secures(r) -> "failing"
                [] OTHER -> smp
SecurityChanged(r) ==
    /\ link = "up" /\ r \in Reports
    /\ Encrypted(r)
    /\ IF state # "FAILED" /\ Secures(r)
       THEN /\ state' = "L4_SECURED" /\ securedGen' = gen
            /\ UNCHANGED <<auth, armed, due, queue>>
       ELSE /\ state' = "FAILED" /\ securedGen' = securedGen
            /\ IF r.err \/ state # "FAILED" THEN ClearPending
               ELSE UNCHANGED <<auth, armed, due, queue>>
    /\ UNCHANGED <<tracked, gen, authGen, left, attempted, accepted, worker, scanned,
                   link, bond, hands, decided>>

-----------------------------------------------------------------------------
(* The system work queue.  take_auth_conn's condition: *)
\* Mutant: the generation the button belongs to is not compared.
TakesAnyGeneration(g, accept) ==
    /\ auth # 0 /\ auth = tracked /\ authGen = gen
    /\ state = "NUMERIC_COMPARISON" /\ (accept => left > 0)
Takes(g, accept) ==
    /\ auth # 0 /\ auth = tracked /\ g = gen /\ authGen = g
    /\ state = "NUMERIC_COMPARISON" /\ (accept => left > 0)
Take(accept) ==
    /\ auth' = 0 /\ armed' = FALSE /\ accepted' = accept
    /\ state' = IF accept THEN state ELSE "FAILED"
    /\ due' = Never /\ queue' = Cancelled(queue)

(* The next item leaves the queue.  A scan reads the pins, a timeout is     *)
(* running from here on: cancelling it has no effect any more.              *)
Dequeue ==
    /\ worker = Idle /\ queue # <<>> /\ Head(queue) # "arm"
    /\ queue' = Tail(queue)
    /\ worker' = IF Head(queue) = "scan"
                 THEN [Idle EXCEPT !.op = "scan", !.pins = held, !.press = shown]
                 ELSE [Idle EXCEPT !.op = "timeout"]
    /\ UNCHANGED <<fields, due, scanned, host, hands, decided>>

(* nc_arm_handler *)
NcArm ==
    /\ worker = Idle /\ queue # <<>> /\ Head(queue) = "arm"
    /\ queue' = Tail(queue)
    /\ armed' = IF auth # 0 THEN held \cap Decisive = {} ELSE armed
    /\ UNCHANGED <<tracked, auth, state, gen, authGen, securedGen, left, attempted, accepted,
                   due, worker, scanned, host, hands, decided>>

(* button_changed, up to its unlock.  The scan that finds the pins changed  *)
(* meanwhile runs again.                                                    *)
Pressed == worker.pins \ scanned
Rescan(q) == IF held # worker.pins THEN Submit(q, "scan") ELSE q
ButtonChanged ==
    /\ worker.op = "scan"
    /\ scanned' = worker.pins
    /\ armed' = (armed \/ (worker.pins \cap Decisive = {} /\ auth # 0))
    /\ worker' = LET w == [worker EXCEPT !.gen = authGen, !.wipe = "clear" \in Pressed]
                 IN  IF ~armed \/ Pressed \cap Decisive = {}
                     THEN [w EXCEPT !.op = "after"]
                     ELSE [w EXCEPT !.op = IF "reject" \in Pressed THEN "reject" ELSE "accept"]
    /\ queue' = Rescan(queue)
    /\ UNCHANGED <<tracked, auth, state, gen, authGen, securedGen, left, attempted, accepted,
                   due, host, hands, decided>>

(* numeric_comparison_reply: the take, the call to the host, the unlock.   *)
Reply(accept) ==
    /\ worker.op = (IF accept THEN "accept" ELSE "reject")
    /\ IF Takes(worker.gen, accept)
       THEN /\ Take(accept)
            /\ worker' = [worker EXCEPT !.op = IF accept THEN "confirm" ELSE "cancel",
                                        !.conn = auth]
            /\ decided' = IF accept THEN worker.press ELSE decided
       ELSE /\ worker' = [worker EXCEPT !.op = "after"]
            /\ UNCHANGED <<auth, armed, accepted, state, due, queue, decided>>
    /\ UNCHANGED <<tracked, gen, authGen, securedGen, left, attempted, scanned, host, hands>>

(* bt_conn_auth_passkey_confirm and bt_conn_auth_cancel fail when the      *)
(* ceremony they answer is over.                                           *)
Answerable == worker.conn = tracked /\ link = "up" /\ smp = "compare"
HostConfirm ==
    /\ worker.op = "confirm"
    /\ IF Answerable THEN smp' = "confirmed" /\ worker' = [worker EXCEPT !.op = "after"]
                     ELSE smp' = smp /\ worker' = [worker EXCEPT !.op = "drop"]
    /\ UNCHANGED <<fields, due, queue, scanned, link, level, bond, hands, decided>>
HostCancel ==
    /\ worker.op = "cancel"
    /\ IF Answerable THEN smp' = "failing" /\ worker' = [worker EXCEPT !.op = "fail"]
                     ELSE smp' = smp /\ worker' = [worker EXCEPT !.op = "drop"]
    /\ UNCHANGED <<fields, due, queue, scanned, link, level, bond, hands, decided>>
(* The state is set again, and a call that failed drops the link. *)
Hangup == link' = IF worker.conn = tracked /\ link = "up" THEN "closing" ELSE link
ReplyDone ==
    /\ worker.op \in {"fail", "drop"}
    /\ state' = IF worker.conn = tracked THEN "FAILED" ELSE state
    /\ IF worker.op = "drop" THEN Hangup ELSE link' = link
    /\ worker' = [worker EXCEPT !.op = "after"]
    /\ UNCHANGED <<tracked, auth, gen, authGen, securedGen, left, attempted, accepted, armed,
                   due, queue, scanned, level, smp, bond, hands, decided>>

(* The end of button_changed: BUTTON 3 clears the bonds when no connection *)
(* is tracked.  bt_unpair runs after the unlock, and drops a link that     *)
(* came up meanwhile.                                                      *)
ButtonDone ==
    /\ worker.op = "after"
    /\ worker' = IF worker.wipe /\ tracked = 0 THEN [Idle EXCEPT !.op = "unpair"] ELSE Idle
    /\ UNCHANGED <<fields, due, queue, scanned, host, hands, decided>>
ClearBonds ==
    /\ worker.op = "unpair"
    /\ worker' = Idle /\ bond' = FALSE
    /\ link' = IF link = "up" THEN "closing" ELSE link
    /\ UNCHANGED <<fields, due, queue, scanned, level, smp, hands, decided>>

(* nc_timeout_handler: a timeout that was queued for an earlier challenge  *)
(* puts itself off.                                                        *)
NcTimeout ==
    /\ worker.op = "timeout"
    /\ IF auth = 0 \/ left > 0
       THEN /\ due' = IF auth # 0 THEN left ELSE due
            /\ worker' = Idle
            /\ UNCHANGED <<auth, armed, accepted, state, queue>>
       ELSE IF Takes(authGen, FALSE)
       THEN /\ Take(FALSE)
            /\ worker' = [worker EXCEPT !.op = "expired", !.conn = auth]
       ELSE /\ worker' = Idle
            /\ UNCHANGED <<auth, armed, accepted, state, due, queue>>
    /\ UNCHANGED <<tracked, gen, authGen, securedGen, left, attempted, scanned, host, hands,
                   decided>>
NcTimeoutDone ==
    /\ worker.op = "expired"
    /\ state' = IF worker.conn = tracked THEN "FAILED" ELSE state
    /\ smp' = IF Answerable THEN "failing" ELSE smp
    /\ Hangup
    /\ worker' = Idle
    /\ UNCHANGED <<tracked, auth, gen, authGen, securedGen, left, attempted, accepted, armed,
                   due, queue, scanned, level, bond, hands, decided>>

-----------------------------------------------------------------------------
(* The environment: the clock, the radio and the operator's hands.  The    *)
(* pins' interrupt queues a scan unless one is reading them.                *)
Tick ==
    /\ left > 0 \/ due # Never
    /\ left' = IF left > 0 THEN left - 1 ELSE 0
    /\ due' = IF due > 1 THEN due - 1 ELSE Never
    /\ queue' = IF due = 1 THEN Submit(queue, "timeout") ELSE queue
    /\ UNCHANGED <<tracked, auth, state, gen, authGen, securedGen, attempted, accepted, armed,
                   worker, scanned, host, hands, decided>>
LinkLost ==
    /\ link = "up" /\ link' = "closing"
    /\ UNCHANGED <<fields, due, queue, worker, scanned, level, smp, bond, hands, decided>>
Touch(b) ==
    /\ held' = IF b \in held THEN held \ {b} ELSE held \cup {b}
    /\ shown' = IF b = "accept" /\ b \notin held THEN auth ELSE shown
    /\ queue' = IF worker.op = "scan" THEN queue ELSE Submit(queue, "scan")
    /\ UNCHANGED <<fields, due, worker, scanned, host, decided>>

HostNext ==
    \/ \E err \in BOOLEAN : OnConnected(err)
    \/ OnDisconnected
    \/ PairingAccept \/ PasskeyDisplay \/ PasskeyConfirm
    \/ AuthCancel \/ PairingFailed \/ PairingComplete
    \/ \E r \in Reports : SecurityChanged(r)
WorkerNext ==
    \/ Dequeue \/ NcArm \/ ButtonChanged
    \/ \E accept \in BOOLEAN : Reply(accept)
    \/ HostConfirm \/ HostCancel \/ ReplyDone \/ ButtonDone \/ ClearBonds
    \/ NcTimeout \/ NcTimeoutDone
Next == HostNext \/ WorkerNext \/ Tick \/ LinkLost \/ \E b \in Buttons : Touch(b)

Spec == Init /\ [][Next]_vars
(* The work queue runs, and time passes. *)
FairSpec == Spec /\ WF_vars(WorkerNext) /\ WF_vars(Tick)

-----------------------------------------------------------------------------
(* Types of the fields; the work queue holds each item at most once. *)
SecTypeOK ==
    /\ state \in States /\ gen \in 0 .. MAX_GEN
    /\ {tracked, auth, authGen, securedGen, shown, decided} \subseteq 0 .. MAX_GEN
    /\ left \in 0 .. TIMEOUT /\ due \in {Never} \cup (1 .. TIMEOUT)
    /\ {attempted, accepted, armed, bond} \subseteq BOOLEAN
    /\ link \in {"none", "up", "closing"} /\ level \in {1, 2, 4}
    /\ smp \in {"idle", "pairing", "compare", "confirmed", "encrypted", "failing"}
    /\ held \subseteq Buttons /\ scanned \subseteq Buttons
    /\ \A i, j \in DOMAIN queue : queue[i] = queue[j] => i = j

(* The gate is open only on the live L4 link of the tracked connection,    *)
(* and when that link was paired rather than restored, only after the      *)
(* operator pressed ACCEPT while this link's challenge was on display:      *)
(* no press made before it, or for another connection's, opens the gate.    *)
GateVouched == Gate /\ attempted => decided = tracked

(* The same of nc_accepted, which security_changed relies on.              *)
AcceptedWasShown == accepted => decided = tracked

(* A pending comparison can be taken: it is the tracked connection's, of    *)
(* this generation, and the state still is NUMERIC_COMPARISON.  Otherwise   *)
(* nc_timeout_handler gives up and the comparison pends for ever.           *)
PendingTakeable ==
    auth # 0 => auth = tracked /\ authGen = gen /\ state = "NUMERIC_COMPARISON"

(* A connection that failed stays failed: only its disconnection leads out. *)
FailedSticks == [][state = "FAILED" => state' \in {"FAILED", "DISCONNECTED"}]_state

(* The gate's state is consistent: types, a vouched gate, and a pending    *)
(* comparison that button and timeout can still take.                       *)
SecurityInv == SecTypeOK /\ GateVouched /\ PendingTakeable

(* Every pending comparison ends, by the operator, the peer or the timeout. *)
PendingEnds == auth # 0 ~> auth = 0
=============================================================================
