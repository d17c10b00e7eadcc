-------------------------- MODULE ResumePeripheral --------------------------
(***************************************************************************)
(* The Peripheral's resumption service: the ticket and session core        *)
(* (firmware/src/pq_resume.c) and the service around it that owns the      *)
(* mutex, the expiry work item and the application counters                *)
(* (firmware/src/pq_resume_service.c).  One module serves both builds:     *)
(* V11 = TRUE is profile v1.1 (SMP L4, bonds, AES-GCM application data),    *)
(* V11 = FALSE is profile v0.8 (no SMP, keys handed to the v0.7 data plane).*)
(*                                                                         *)
(* Cryptography is symbolic.  The n-th full handshake yields root n, whose *)
(* ticket id is n too; a traffic key is the tuple its KDF reads; a MAC is   *)
(* the key it was computed under.  The environment is open: any peer may    *)
(* write any frame, so nothing here relies on a well-behaved Central.       *)
(*                                                                         *)
(* Time is kept as the differences the code computes: a ticket's age is    *)
(* now - created_ms (saturated at TTL), a session's left is                 *)
(* deadline_ms - now (stopped at 0) and due is what remains of the work     *)
(* item's delay.  k_uptime_get is monotonic within a boot and the ticket    *)
(* does not survive one, so now < created_ms never holds.                   *)
(***************************************************************************)
EXTENDS Integers, Sequences

CONSTANTS
    V11,               \* the build: profile v1.1, or else profile v0.8
    Peers,             \* resolved LE identities
    Sids, Nonces,      \* session ids and nonces a Central may send
    PNonces,           \* nonces the Peripheral's RNG may return
    TTL,               \* PQ_RESUME_TTL_MS, in ticks
    PENDING,           \* the 30000 ms confirmation deadline, in ticks
    MAX_USES,          \* PQ_RESUME_MAX_USES
    REPLAY_CAPACITY,   \* PQ_RESUME_REPLAY_CAPACITY
    SEQ_MAX,           \* UINT64_MAX of the application counters
    MaxFull            \* bound: full handshakes per behaviour

ASSUME BuildAssumption == V11 \in BOOLEAN
ASSUME ZeroAssumption ==
    0 \notin Peers /\ 0 \notin Sids /\ 0 \notin Nonces /\ 0 \notin PNonces
ASSUME LimitAssumption ==
    /\ TTL \in Nat \ {0} /\ PENDING \in 1 .. TTL
    /\ MAX_USES \in Nat \ {0} /\ REPLAY_CAPACITY \in Nat
    /\ SEQ_MAX \in Nat /\ MaxFull \in Nat

VARIABLES
    ticket,            \* struct pq_resume_ticket
    session,           \* struct pq_resume_session
    owner,             \* the connection's peer, or 0 for NULL
    l4,                \* pq_v1_security_conn_is_l4(owner)
    bonds,             \* the bonds of the Bluetooth host (flash)
    bondNotice,        \* a bond callback of the host is on its way
    bondAtConnect,     \* bond_at_connect
    rx, tx,            \* rx_c2p, tx_p2c
    hybridPending,     \* hybrid_pending
    due, queued,       \* expiry_work: remaining delay, handed to the queue
    pc,                \* "commit" while FINISH_P is queued and not committed
    issued,            \* history: roots issued so far are 1 .. issued
    derived,           \* history: every key the service derived
    sealed,            \* history: <<key, sequence number>> encrypted under
    revoked            \* history: the value of issued at the last bond change

coreVars == <<ticket, session, owner, l4, bonds, bondNotice, bondAtConnect,
              rx, tx, hybridPending, due, queued, pc>>
vars == <<coreVars, issued, derived, sealed, revoked>>

Never == -1

(* pq_v1_cp3_clear leaves an all-zero structure. *)
NoKeys    == [root |-> 0, sid |-> 0, nc |-> 0, np |-> 0]
NoSession == [state |-> "IDLE", left |-> 0, keys |-> NoKeys]
NoTicket  == [valid |-> FALSE, root |-> 0, peer |-> 0, age |-> 0,
              successes |-> 0, replay |-> <<>>]

(* The v1.1 traffic keys of a full handshake, named by its root alone. *)
FullKeys(r) == [root |-> r, sid |-> 0, nc |-> 0, np |-> 0]

ReplayEntry == [nc : Nonces, sid : Sids]
TicketSet == [valid : BOOLEAN, root : 0 .. MaxFull, peer : Peers \cup {0},
              age : 0 .. TTL, successes : Nat, replay : Seq(ReplayEntry)]
KeySet == [root : 0 .. MaxFull, sid : Sids \cup {0},
           nc : Nonces \cup {0}, np : PNonces \cup {0}]
States == {"IDLE", "WAIT_C", "PENDING_P", "SECURE"}
SessionSet == [state : States, left : 0 .. PENDING, keys : KeySet]
Pending(s) == s.state \in {"WAIT_C", "PENDING_P"}

-----------------------------------------------------------------------------
(* The guards of the service. *)
ProtectedLink == owner # 0 /\ (V11 => l4)
HasBond == owner \in bonds
\* Mutant: forgets bond_at_connect.
ResumeBondNow == V11 => HasBond
ResumeBond == V11 => bondAtConnect /\ HasBond
PeerIdentity == IF V11 THEN owner ELSE 0
Unlocked == pc = "free"              \* resume_lock can be taken

(* pq_resume_eligible: the verdict, and the ticket it leaves behind. *)
Spent(t) == t.age >= TTL \/ t.successes >= MAX_USES
Pruned(t) == IF t.valid /\ Spent(t) THEN NoTicket ELSE t
Eligible(t, peer) == t.valid /\ ~Spent(t) /\ t.peer = peer

(* schedule_expiry, applied to the ticket and session an action leaves.    *)
(* k_work_reschedule leaves work that is already queued in the queue;      *)
(* k_work_cancel_delayable takes it out.                                   *)
TicketDelay(t) == IF t.valid THEN TTL - t.age ELSE TTL
\* Mutant: the confirmation deadline does not shorten the delay.
DelayTicketOnly(t, s) == TicketDelay(t)
Delay(t, s) == IF Pending(s) /\ s.left < TicketDelay(t) THEN s.left ELSE TicketDelay(t)
Expiring(t, s) == t.valid \/ Pending(s)
ScheduleExpiry(t, s, q) ==
    /\ due' = IF ~Expiring(t, s) THEN Never
              ELSE IF Delay(t, s) > 0 THEN Delay(t, s) ELSE 1
    /\ queued' = (q /\ Expiring(t, s))

(* clear_session *)
ClearSession ==
    session' = NoSession /\ rx' = 0 /\ tx' = 0 /\ hybridPending' = FALSE
KeepSession == UNCHANGED <<session, rx, tx, hybridPending>>

linkVars == <<owner, l4, bonds, bondNotice, bondAtConnect>>
historyVars == <<issued, derived, sealed, revoked>>

-----------------------------------------------------------------------------
Init ==
    /\ ticket = NoTicket /\ session = NoSession
    /\ owner = 0 /\ l4 = FALSE
    /\ bonds \in {B \in SUBSET Peers : V11 \/ B = {}}
    /\ bondNotice = FALSE /\ bondAtConnect = FALSE
    /\ rx = 0 /\ tx = 0 /\ hybridPending = FALSE
    /\ due = Never /\ queued = FALSE /\ pc = "free"
    /\ issued = 0 /\ derived = {} /\ sealed = {} /\ revoked = 0

(* pq_resume_accept inside pq_resume_service_control.  np is the RNG's     *)
(* output; fault is the step that fails, if one does ("rng", the MAC check *)
(* "mac", or the key schedule after the replay entry is taken, "derive");  *)
(* sent tells whether notify_current delivered the answer.                 *)
\* Mutant: compares nonces and forgets session ids.
UnseenNonce(t, m) == \A i \in DOMAIN t.replay : t.replay[i].nc # m.nc
Unseen(t, m) == \A i \in DOMAIN t.replay :
                    t.replay[i].nc # m.nc /\ t.replay[i].sid # m.sid
Consults(fault) == session.state = "IDLE" /\ ResumeBond /\ fault # "rng"
Genuine(m, fault) ==
    /\ Consults(fault) /\ fault # "mac"
    /\ Eligible(ticket, PeerIdentity)
    /\ m.rid = ticket.root /\ m.mac = ticket.root
    /\ Unseen(ticket, m) /\ Len(ticket.replay) < REPLAY_CAPACITY
ResumeKeys(m, np) == [root |-> ticket.root, sid |-> m.sid, nc |-> m.nc, np |-> np]

InitTaken(m, np, fault, sent) ==
    /\ Unlocked /\ ProtectedLink /\ Genuine(m, fault)
    /\ ticket' = [ticket EXCEPT !.replay = Append(@, [nc |-> m.nc, sid |-> m.sid])]
    /\ derived' = derived \cup {ResumeKeys(m, np)}
    /\ IF fault = "none" /\ sent
       THEN /\ session' = [state |-> "WAIT_C", left |-> PENDING, keys |-> ResumeKeys(m, np)]
            /\ UNCHANGED <<rx, tx, hybridPending>>
       ELSE ClearSession
    /\ ScheduleExpiry(ticket', session', queued)
    /\ UNCHANGED <<linkVars, pc, issued, sealed, revoked>>

InitRejected(m, fault) ==
    /\ Unlocked /\ ProtectedLink /\ ~Genuine(m, fault)
    /\ ticket' = IF Consults(fault) THEN Pruned(ticket) ELSE ticket
    /\ ClearSession
    /\ ScheduleExpiry(ticket', session', queued)
    /\ UNCHANGED <<linkVars, pc, historyVars>>

(* pq_resume_finish.  key is what FINISH_C was computed under. *)
Confirmable == ResumeBond /\ session.left > 0
FinishGenuine(key, fault) ==
    /\ Confirmable /\ session.state = "WAIT_C" /\ ~fault
    /\ Eligible(ticket, PeerIdentity) /\ key = session.keys

(* FINISH_P reaches the host's queue; resume_lock stays held up to Commit. *)
FinishAnswered(key) ==
    /\ Unlocked /\ ProtectedLink /\ FinishGenuine(key, FALSE)
    /\ session' = [session EXCEPT !.state = "PENDING_P"]
    /\ pc' = "commit"
    /\ UNCHANGED <<ticket, linkVars, rx, tx, hybridPending, due, queued, historyVars>>

FinishRejected(key, fault, sent) ==
    /\ Unlocked /\ ProtectedLink
    /\ ~(FinishGenuine(key, fault) /\ sent)
    /\ ticket' = IF Confirmable /\ session.state = "WAIT_C" THEN Pruned(ticket) ELSE ticket
    /\ ClearSession
    /\ ScheduleExpiry(ticket', session', queued)
    /\ UNCHANGED <<linkVars, pc, historyVars>>

(* pq_resume_commit, with the clock, link and bond read again after the    *)
(* notification.  The use that reaches the limit also erases the ticket.   *)
CommitAllowed == ProtectedLink /\ Confirmable /\ Eligible(ticket, PeerIdentity)
\* Mutant: the limit is off by one.
CountedPast(t) == IF t.successes + 1 > MAX_USES THEN NoTicket
                  ELSE [t EXCEPT !.successes = @ + 1]
Counted(t) == IF t.successes + 1 >= MAX_USES THEN NoTicket
              ELSE [t EXCEPT !.successes = @ + 1]
Commit ==
    /\ pc = "commit" /\ pc' = "free"
    /\ IF CommitAllowed
       THEN /\ ticket' = Counted(ticket)
            /\ session' = [session EXCEPT !.state = "SECURE"]
            /\ rx' = 0 /\ tx' = 0 /\ hybridPending' = ~V11
       ELSE /\ ticket' = IF ProtectedLink /\ Confirmable THEN Pruned(ticket) ELSE ticket
            /\ ClearSession
    /\ ScheduleExpiry(ticket', session', queued)
    /\ UNCHANGED <<linkVars, historyVars>>

(* The application branch: v1.1 answers PING seq with a PONG sealed under  *)
(* tx_p2c.  The counters move only when the PONG was queued.               *)
\* Mutant: the counters may leave their width.
AppGenuineUnbounded(key, seq) ==
    V11 /\ session.state = "SECURE" /\ key = session.keys /\ seq = rx
AppGenuine(key, seq) ==
    /\ V11 /\ session.state = "SECURE" /\ rx < SEQ_MAX /\ tx < SEQ_MAX
    /\ key = session.keys /\ seq = rx
\* Mutant: a PONG that could not be queued leaves the session open.
AppAnsweredRetry(key, seq, sent) ==
    /\ Unlocked /\ ProtectedLink /\ AppGenuine(key, seq)
    /\ sealed' = sealed \cup {<<session.keys, tx>>}
    /\ IF sent THEN rx' = rx + 1 /\ tx' = tx + 1 ELSE UNCHANGED <<rx, tx>>
    /\ UNCHANGED <<session, hybridPending>>
    /\ ScheduleExpiry(ticket, session', queued)
    /\ UNCHANGED <<ticket, linkVars, pc, issued, derived, revoked>>
AppAnswered(key, seq, sent) ==
    /\ Unlocked /\ ProtectedLink /\ AppGenuine(key, seq)
    /\ sealed' = sealed \cup {<<session.keys, tx>>}
    /\ IF sent THEN rx' = rx + 1 /\ tx' = tx + 1 /\ UNCHANGED <<session, hybridPending>>
               ELSE ClearSession
    /\ ScheduleExpiry(ticket, session', queued)
    /\ UNCHANGED <<ticket, linkVars, pc, issued, derived, revoked>>

(* Every other control write (foreign or unprotected link, small MTU,      *)
(* malformed PQRS frame, application frame that does not verify) clears    *)
(* the session and leaves the ticket alone.                                *)
ControlDenied ==
    /\ Unlocked
    /\ ClearSession
    /\ ScheduleExpiry(ticket, session', queued)
    /\ UNCHANGED <<ticket, linkVars, pc, historyVars>>

(* pq_resume_service_full and pq_resume_issue *)
FullTicket(r) == [valid |-> TRUE, root |-> r, peer |-> PeerIdentity, age |-> 0,
                  successes |-> 0, replay |-> <<>>]
FullSession(r) == [state |-> "SECURE", left |-> 0,
                   keys |-> IF V11 THEN FullKeys(r) ELSE NoKeys]
FullAllowed(fault) == ProtectedLink /\ (V11 => HasBond) /\ ~fault
FullIssued ==
    /\ Unlocked /\ FullAllowed(FALSE) /\ issued < MaxFull
    /\ issued' = issued + 1
    /\ ticket' = FullTicket(issued + 1)
    /\ session' = FullSession(issued + 1)
    /\ rx' = 0 /\ tx' = 0 /\ hybridPending' = FALSE
    /\ derived' = derived \cup {FullKeys(issued + 1)}
    /\ ScheduleExpiry(ticket', session', queued)
    /\ UNCHANGED <<linkVars, pc, sealed, revoked>>
FullRefused(fault) ==
    /\ Unlocked /\ ~FullAllowed(fault)
    /\ ClearSession
    /\ ScheduleExpiry(ticket, session', queued)
    /\ UNCHANGED <<ticket, linkVars, pc, historyVars>>

(* pq_resume_service_take_hybrid: the keys leave for the v0.7 data plane. *)
TakeHybrid ==
    /\ ~V11 /\ Unlocked /\ ProtectedLink /\ session.state = "SECURE" /\ hybridPending
    /\ session' = [session EXCEPT !.keys = NoKeys]
    /\ hybridPending' = FALSE
    /\ UNCHANGED <<ticket, linkVars, rx, tx, due, queued, pc, historyVars>>

(* The connection callbacks of main.c.  One connection exists at a time    *)
(* (CONFIG_BT_MAX_CONN is 1), so conn is the owner whenever there is one.  *)
Connected(p) ==
    /\ Unlocked /\ owner = 0
    /\ owner' = p /\ l4' = FALSE /\ bondAtConnect' = (V11 /\ p \in bonds)
    /\ ticket' = Pruned(ticket)
    /\ ClearSession
    /\ ScheduleExpiry(ticket', session', queued)
    /\ UNCHANGED <<bonds, bondNotice, pc, historyVars>>
\* Mutant: a disconnection cancels the expiry work.
DisconnectedCancels ==
    /\ Unlocked /\ owner # 0
    /\ owner' = 0 /\ l4' = FALSE
    /\ ClearSession
    /\ due' = Never /\ queued' = FALSE
    /\ UNCHANGED <<ticket, bonds, bondNotice, bondAtConnect, pc, historyVars>>
Disconnected ==
    /\ Unlocked /\ owner # 0
    /\ owner' = 0 /\ l4' = FALSE
    /\ ClearSession
    /\ ScheduleExpiry(ticket, session', queued)
    /\ UNCHANGED <<ticket, bonds, bondNotice, bondAtConnect, pc, historyVars>>
Abort ==
    /\ Unlocked /\ owner # 0
    /\ ClearSession
    /\ ScheduleExpiry(ticket, session', queued)
    /\ UNCHANGED <<ticket, linkVars, pc, historyVars>>

(* pq_resume_service_bond_changed, called by the pairing_complete and      *)
(* bond_deleted callbacks of pq_v1_security.c.                             *)
\* Mutant: the ticket goes, the session keyed from it stays.
BondChangedTicket ==
    /\ Unlocked /\ bondNotice
    /\ bondNotice' = FALSE /\ bondAtConnect' = FALSE
    /\ ticket' = NoTicket
    /\ KeepSession
    /\ ScheduleExpiry(ticket', session', queued)
    /\ revoked' = issued
    /\ UNCHANGED <<owner, l4, bonds, pc, issued, derived, sealed>>
BondChanged ==
    /\ Unlocked /\ bondNotice
    /\ bondNotice' = FALSE /\ bondAtConnect' = FALSE
    /\ ticket' = NoTicket
    /\ ClearSession
    /\ ScheduleExpiry(ticket', session', queued)
    /\ revoked' = issued
    /\ UNCHANGED <<owner, l4, bonds, pc, issued, derived, sealed>>

(* expire, run by the system work queue *)
\* Mutants: the work item forgets a pending session whose ticket went, or
\* never ends a pending session.
ExpireDeadline ==
    /\ Unlocked /\ queued
    /\ ticket' = Pruned(ticket)
    /\ IF Pending(session) /\ session.left = 0 THEN ClearSession ELSE KeepSession
    /\ ScheduleExpiry(ticket', session', FALSE)
    /\ UNCHANGED <<linkVars, pc, historyVars>>
ExpireTicket ==
    /\ Unlocked /\ queued
    /\ ticket' = Pruned(ticket)
    /\ KeepSession
    /\ ScheduleExpiry(ticket', session', FALSE)
    /\ UNCHANGED <<linkVars, pc, historyVars>>
Expire ==
    /\ Unlocked /\ queued
    /\ ticket' = Pruned(ticket)
    /\ IF Pending(session) /\ (session.left = 0 \/ ~ticket'.valid)
       THEN ClearSession ELSE KeepSession
    /\ ScheduleExpiry(ticket', session', FALSE)
    /\ UNCHANGED <<linkVars, pc, historyVars>>

-----------------------------------------------------------------------------
(* The environment: the clock, the link, the bond store and power. *)
Tick ==
    /\ ticket' = [ticket EXCEPT !.age = IF ticket.valid /\ @ < TTL THEN @ + 1 ELSE @]
    /\ session' = [session EXCEPT !.left = IF @ > 0 THEN @ - 1 ELSE @]
    /\ due' = IF due > 1 THEN due - 1 ELSE Never
    /\ queued' = (queued \/ due = 1)
    /\ UNCHANGED <<linkVars, rx, tx, hybridPending, pc, historyVars>>
SecurityChanged ==
    /\ V11 /\ owner # 0 /\ l4' = ~l4
    /\ UNCHANGED <<ticket, session, owner, bonds, bondNotice, bondAtConnect, rx, tx,
                   hybridPending, due, queued, pc, historyVars>>
BondStored ==
    /\ V11 /\ owner # 0
    /\ bonds' = bonds \cup {owner} /\ bondNotice' = TRUE
    /\ UNCHANGED <<ticket, session, owner, l4, bondAtConnect, rx, tx,
                   hybridPending, due, queued, pc, historyVars>>
BondErased(p) ==
    /\ V11 /\ p \in bonds
    /\ bonds' = bonds \ {p} /\ bondNotice' = TRUE
    /\ UNCHANGED <<ticket, session, owner, l4, bondAtConnect, rx, tx,
                   hybridPending, due, queued, pc, historyVars>>
Reboot ==
    /\ ticket' = NoTicket /\ session' = NoSession
    /\ owner' = 0 /\ l4' = FALSE /\ bondNotice' = FALSE /\ bondAtConnect' = FALSE
    /\ rx' = 0 /\ tx' = 0 /\ hybridPending' = FALSE
    /\ due' = Never /\ queued' = FALSE /\ pc' = "free"
    /\ UNCHANGED <<bonds, historyVars>>

-----------------------------------------------------------------------------
(* A ticket id or MAC key other than the current root counts as 0. *)
InitFrames == [rid : {0, ticket.root}, mac : {0, ticket.root}, sid : Sids, nc : Nonces]

Control ==
    \/ \E m \in InitFrames, np \in PNonces, fault \in {"none", "derive"}, sent \in BOOLEAN :
           InitTaken(m, np, fault, sent)
    \/ \E m \in InitFrames, fault \in {"none", "rng", "mac"} : InitRejected(m, fault)
    \/ \E key \in {session.keys, NoKeys} : FinishAnswered(key)
    \/ \E key \in {session.keys, NoKeys}, fault, sent \in BOOLEAN :
           FinishRejected(key, fault, sent)
    \/ \E seq \in 0 .. SEQ_MAX, sent \in BOOLEAN : AppAnswered(session.keys, seq, sent)
    \/ ControlDenied

Calls ==
    \/ FullIssued
    \/ \E fault \in BOOLEAN : FullRefused(fault)
    \/ TakeHybrid
    \/ \E p \in Peers : Connected(p)
    \/ Disconnected
    \/ Abort
    \/ BondChanged
    \/ Expire

Environment ==
    \/ Tick
    \/ SecurityChanged
    \/ BondStored
    \/ \E p \in Peers : BondErased(p)
    \/ Reboot

Next == Control \/ Commit \/ Calls \/ Environment

(* Time passes, the work queue runs what it was handed, the host delivers  *)
(* its bond callbacks and a handler that holds the mutex goes on.          *)
Fairness == WF_vars(Tick) /\ WF_vars(Expire) /\ WF_vars(Commit) /\ WF_vars(BondChanged)

Spec == Init /\ [][Next]_vars
FairSpec == Spec /\ Fairness

-----------------------------------------------------------------------------
(* Types of all variables. *)
TypeOK ==
    /\ ticket \in TicketSet /\ session \in SessionSet
    /\ owner \in Peers \cup {0} /\ l4 \in BOOLEAN
    /\ bonds \subseteq Peers /\ bondNotice \in BOOLEAN /\ bondAtConnect \in BOOLEAN
    /\ rx \in 0 .. SEQ_MAX /\ tx \in 0 .. SEQ_MAX /\ hybridPending \in BOOLEAN
    /\ due \in {Never} \cup (1 .. TTL) /\ queued \in BOOLEAN
    /\ pc \in {"free", "commit"}
    /\ issued \in 0 .. MaxFull /\ revoked \in 0 .. MaxFull
    /\ derived \subseteq KeySet
    /\ sealed \subseteq (KeySet \X (0 .. SEQ_MAX))

(* A session that waits for its confirmation was keyed from the ticket     *)
(* that is still valid, so pq_resume_commit counts the use on the right    *)
(* ticket: no issue, expiry or revocation slips in under a pending session. *)
PendingHasTicket ==
    Pending(session) => ticket.valid /\ session.keys.root = ticket.root

(* A valid ticket has uses left and each use it counts took a replay-cache *)
(* entry (pq_resume_commit, pq_resume_accept).                             *)
UsesBounded ==
    ticket.valid => ticket.successes < MAX_USES /\ ticket.successes <= Len(ticket.replay)

(* Profile v1.1 resumes only on a link whose peer was bonded when it       *)
(* connected; a bond made or replaced on this link forces a full handshake *)
(* (bond_at_connect).                                                      *)
ResumedOnBondedLink ==
    V11 /\ (Pending(session) \/ (session.state = "SECURE" /\ session.keys.sid # 0))
        => bondAtConnect

(* Once the bond callback has run, no ticket issued before it and no       *)
(* session keyed from such a ticket survives.                              *)
RevokedGone ==
    /\ ticket.valid => ticket.root > revoked
    /\ V11 /\ session.state # "IDLE" => session.keys.root > revoked

(* Whatever has to expire has the expiry work queued or scheduled no later *)
(* than it is due (one tick later when it is overdue), so a ticket also    *)
(* expires while the Peripheral is disconnected.                           *)
Armed(d) == queued \/ (due # Never /\ (due <= d \/ due = 1))
ExpiryArmed ==
    Unlocked => /\ ticket.valid => Armed(TTL - ticket.age)
                /\ Pending(session) => Armed(session.left)

(* The AES-GCM nonce of the next PONG was never used under this key, over  *)
(* all connections, resumptions and failed notifications.                  *)
NextNonceUnused ==
    V11 /\ session.state = "SECURE" => <<session.keys, tx>> \notin sealed

(* pq_resume_accept never enters WAIT_C with a session id or a nonce that  *)
(* an earlier derivation from the same root used, whatever the RNG of the  *)
(* Peripheral returns and whatever failed in between.                      *)
FreshlyKeyed ==
    session.state # "WAIT_C" /\ session'.state = "WAIT_C" =>
        \A k \in derived : k.root = session'.keys.root =>
            k.sid # session'.keys.sid /\ k.nc # session'.keys.nc
KeysNeverRederived == [][FreshlyKeyed]_vars

(* The invariant behind the two properties above, as named parts: an       *)
(* erased ticket is all zero and a valid one has an issued root; only the   *)
(* holder of resume_lock sees PENDING_P; every key derived from the valid   *)
(* ticket's root has its replay-cache entry; the session's keys were        *)
(* derived by this service; and a key has sealed exactly the sequence       *)
(* numbers below tx.                                                        *)
TicketShape == IF ticket.valid THEN ticket.root \in 1 .. issued ELSE ticket = NoTicket
CommitOwned == pc = "commit" <=> session.state = "PENDING_P"
DerivedKnown == \A k \in derived : k.root \in 1 .. issued /\ (k.sid = 0 => k.nc = 0)
Cached(k) == \E i \in DOMAIN ticket.replay :
                 ticket.replay[i].sid = k.sid /\ ticket.replay[i].nc = k.nc
DerivedCached ==
    ticket.valid => \A k \in derived : k.root = ticket.root /\ k.sid # 0 => Cached(k)
SessionDerived ==
    Pending(session) \/ (V11 /\ session.state = "SECURE") => session.keys \in derived
SealedKnown == \A e \in sealed : e[1] \in derived
PendingUnsealed == Pending(session) => \A e \in sealed : e[1] # session.keys
SealedBelow ==
    V11 /\ session.state = "SECURE" => \A e \in sealed : e[1] = session.keys => e[2] < tx
KeyInv ==
    /\ TicketShape /\ CommitOwned /\ PendingHasTicket
    /\ DerivedKnown /\ DerivedCached /\ SessionDerived
    /\ SealedKnown /\ PendingUnsealed /\ SealedBelow

(* Every ticket is erased in the end, with or without a connection.        *)
TicketExpires == \A r \in 1 .. MaxFull : ticket.root = r ~> ticket.root # r

(* No session waits for its confirmation for ever.                         *)
PendingResolves == Pending(session) ~> ~Pending(session)

-----------------------------------------------------------------------------
(* The service implements the abstract policy. *)
OfferOf(k) == [root |-> k.root, sid |-> k.sid, nc |-> k.nc]
AbstractPhase == CASE session.state = "IDLE" -> "idle"
                   [] Pending(session) -> "offered"
                   [] OTHER -> "secure"
Policy == INSTANCE ResumePolicy WITH
    count <- issued, live <- ticket.root, uses <- ticket.successes,
    phase <- AbstractPhase,
    offer <- IF Pending(session) THEN OfferOf(session.keys) ELSE OfferOf(NoKeys),
    spent <- {OfferOf(k) : k \in {d \in derived : d.sid # 0}}

(* Every step of the resumption service is a step of ResumePolicy, or      *)
(* leaves it unchanged: a use is counted exactly when an offer made under   *)
(* the live ticket is confirmed, and no failure path re-opens an offer.     *)
ImplementsPolicy == Policy!Spec

=============================================================================
