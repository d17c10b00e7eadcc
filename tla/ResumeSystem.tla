---------------------------- MODULE ResumeSystem ----------------------------
(***************************************************************************)
(* Profile v1.1 end to end: the Central's run_session and _exchange        *)
(* (src/central/resumption.py) with its in-memory ticket and its ticket     *)
(* file (src/common/resumption.py, resume_store.py), the BLE link, the      *)
(* control handler of firmware/src/main.c, and the resumption service of    *)
(* ResumePeripheral, whose actions are the Peripheral's steps here.         *)
(*                                                                         *)
(* A GATT write awaits its ATT response; notifications travel in order and *)
(* may overtake that response.  The full handshake is abstracted to a      *)
(* request that the crypto worker takes and a FINISHED_P that carries the   *)
(* root both ends derive.  A failing run ends the link, as the CLI does.    *)
(* The Central's random session id and nonce are the number of its run.     *)
(***************************************************************************)
EXTENDS ResumePeripheral

CONSTANTS
    MaxRuns,       \* bound: runs of the Central program
    MaxFaults,     \* bound: link losses, crashes, reboots, unpairings, slow peers
    Rounds,        \* application round trips of one run
    RunTicks       \* the time limits of one run add up to less than TTL

ASSUME SystemAssumption ==
    /\ V11 = TRUE /\ Peers # {} /\ Sids = 1 .. MaxRuns /\ Nonces = Sids
    /\ Rounds \in 1 .. SEQ_MAX /\ MaxFull >= 2 * MaxRuns
    /\ MaxRuns \in Nat /\ MaxFaults \in Nat /\ RunTicks \in 0 .. TTL - 1

VARIABLES
    store,         \* the Central's ticket file
    paired,        \* Windows holds a bond for the Peripheral
    central,       \* the run in progress
    runs, faults,  \* counters behind the bounds
    link,          \* the connection is up
    write,         \* the GATT write the Peripheral has not handled yet
    att,           \* its ATT response: "none", "ok" or "err"
    nq,            \* notifications on their way, and in the Central's queue
    cp3            \* v1_cp3_state of main.c

sysVars == <<vars, store, paired, central, runs, faults, link, write, att, nq, cp3>>
bleVars == <<link, write, att, nq>>

Self == CHOOSE p \in Peers : TRUE    \* the Central's identity
NoStore == [root |-> 0, uses |-> 0, age |-> 0]
Orphan == MaxFull + 1                 \* a root only the Central knows
NoWrite == [type |-> "NONE"]
NoRun == [pc |-> "off", step |-> "NONE", cold |-> FALSE, force |-> FALSE,
          fell |-> FALSE, tk |-> NoStore, keys |-> NoKeys, seq |-> 0,
          result |-> "none", clean |-> FALSE, elapsed |-> 0]

SysInit ==
    /\ Init
    /\ store = NoStore /\ paired = (Self \in bonds) /\ central = NoRun
    /\ runs = 0 /\ faults = 0
    /\ link = FALSE /\ write = NoWrite /\ att = "none" /\ nq = <<>> /\ cp3 = "IDLE"

-----------------------------------------------------------------------------
(* The Central. *)
Goto(p) == [central EXCEPT !.pc = p]

(* The run ends; its finally blocks wipe what it held and the link goes.   *)
HangUp == link' = FALSE /\ write' = NoWrite /\ att' = "none" /\ nq' = <<>>
FinishAs(res, clean) ==
    /\ central' = [NoRun EXCEPT !.result = res, !.clean = clean]
    /\ HangUp
Finish(res) == FinishAs(res, central.clean)

(* run_session: a ResumeError or TimeoutError of the first attempt         *)
(* reconnects the same peer for one full handshake; a second one is final. *)
FallbackAs(clean) ==
    IF central.fell THEN FinishAs("failed", clean)
    ELSE /\ central' = [NoRun EXCEPT !.pc = "connect", !.force = TRUE, !.fell = TRUE,
                                     !.clean = clean, !.elapsed = central.elapsed]
         /\ HangUp
Fallback == FallbackAs(central.clean)

Send(c, m) == /\ central' = [c EXCEPT !.pc = "write", !.step = m.type]
              /\ write' = m /\ att' = "none" /\ UNCHANGED <<link, nq>>

(* A run counts as clean until something disturbs it.  Windows holding a   *)
(* bond the Peripheral lost, or a bond callback still in flight, is no     *)
(* clean start.                                                            *)
CStart ==
    /\ central.pc = "off" /\ runs < MaxRuns
    /\ runs' = runs + 1
    /\ central' = [NoRun EXCEPT !.pc = "connect",
                               !.clean = (paired => Self \in bonds) /\ ~bondNotice]
    /\ UNCHANGED <<vars, store, paired, faults, bleVars, cp3>>

CConnect ==
    /\ central.pc = "connect" /\ ~link
    /\ Connected(Self)
    /\ link' = TRUE /\ central' = Goto("secure")
    /\ UNCHANGED <<store, paired, runs, faults, write, att, nq, cp3>>

(* _run_v1: restore encryption from the bond, or pair; a bond only Windows *)
(* still has denies access and fails the run.                              *)
CEncrypt ==
    /\ central.pc = "secure" /\ link /\ ~l4
    /\ (paired /\ HasBond) \/ ~paired
    /\ SecurityChanged
    /\ central' = [central EXCEPT !.cold = ~paired, !.pc = IF paired THEN "load" ELSE "pair"]
    /\ UNCHANGED <<store, paired, runs, faults, bleVars, cp3>>
CPaired ==
    /\ central.pc = "pair" /\ link
    /\ BondStored
    /\ paired' = TRUE /\ central' = Goto("load")
    /\ UNCHANGED <<store, runs, faults, bleVars, cp3>>
CStaleBond ==
    /\ central.pc = "secure" /\ link /\ paired /\ ~HasBond
    /\ Finish("failed")
    /\ UNCHANGED <<vars, store, paired, runs, faults, cp3>>

(* TicketStore.load and Ticket.check *)
Expired(t) == t.age >= TTL
Loaded == IF central.cold \/ Expired(store) THEN NoStore ELSE store

(* _exchange up to its first write: a cold pairing and an expired ticket   *)
(* delete the file; a ticket that may be used sends RESUME_INIT.           *)
CBegin ==
    /\ central.pc = "load"
    /\ store' = Loaded
    /\ IF Loaded.root # 0 /\ ~central.force
       THEN Send([central EXCEPT !.tk = Loaded],
                 [type |-> "INIT", rid |-> Loaded.root, mac |-> Loaded.root,
                  sid |-> runs, nc |-> runs])
       ELSE Send([central EXCEPT !.tk = Loaded], [type |-> "FULL"])
    /\ UNCHANGED <<vars, paired, runs, faults, cp3>>

(* write_gatt_char returns, or raises on an ATT error or a lost link,      *)
(* which run_session does not catch.                                       *)
CWritten ==
    /\ central.pc = "write" /\ (att # "none" \/ ~link)
    /\ IF att = "ok" THEN /\ central' = Goto("read") /\ att' = "none"
                          /\ UNCHANGED <<link, write, nq>>
                     ELSE Finish("failed")
    /\ UNCHANGED <<vars, store, paired, runs, faults, cp3>>

(* CentralResume.accept: the MAC covers the root, the own ids and np. *)
OwnAccept(m) == /\ m.type = "ACCEPT" /\ m.keys.root = central.tk.root
                /\ m.keys.sid = runs /\ m.keys.nc = runs

Received(step) ==
    /\ central.pc = "read" /\ central.step = step /\ nq # <<>> /\ link

CAccepted ==
    /\ Received("INIT") /\ OwnAccept(Head(nq))
    /\ central' = [central EXCEPT !.pc = "write", !.step = "FINISH_C", !.keys = Head(nq).keys]
    /\ write' = [type |-> "FINISH_C", key |-> Head(nq).keys]
    /\ att' = "none" /\ nq' = Tail(nq)
    /\ UNCHANGED <<vars, store, paired, runs, faults, link, cp3>>

(* A REJECT in answer to INIT goes on with a full handshake on this link. *)
\* Mutant: a REJECT ends the run.
CRejectedEnds ==
    /\ Received("INIT") /\ Head(nq).type = "REJECT"
    /\ Finish("failed")
    /\ UNCHANGED <<vars, store, paired, runs, faults, cp3>>
CRejected ==
    /\ Received("INIT") /\ Head(nq).type = "REJECT"
    /\ central' = [central EXCEPT !.pc = "write", !.step = "FULL"]
    /\ write' = [type |-> "FULL"] /\ att' = "none" /\ nq' = Tail(nq)
    /\ UNCHANGED <<vars, store, paired, runs, faults, link, cp3>>

(* CentralResume.finish and Ticket.used, in memory. *)
Used(t) == IF t.uses + 1 >= MAX_USES THEN NoStore ELSE [t EXCEPT !.uses = @ + 1]
CFinished ==
    /\ Received("FINISH_C")
    /\ Head(nq).type = "FINISH_P" /\ Head(nq).key = central.keys
    /\ central' = [central EXCEPT !.pc = "save", !.tk = Used(@)]
    /\ nq' = Tail(nq)
    /\ UNCHANGED <<vars, store, paired, runs, faults, link, write, att, cp3>>

(* FullHandshake.finish_p issues the Central's ticket, in memory. *)
\* Mutant: the keys of the rejected ticket's root stay in place.
CFullFinishedStale ==
    /\ Received("FULL") /\ Head(nq).type = "FINISHED_P"
    /\ central' = [central EXCEPT !.pc = "save", !.keys = FullKeys(central.tk.root),
                                  !.tk = [NoStore EXCEPT !.root = Head(nq).root]]
    /\ nq' = Tail(nq)
    /\ UNCHANGED <<vars, store, paired, runs, faults, link, write, att, cp3>>
CFullFinished ==
    /\ Received("FULL") /\ Head(nq).type = "FINISHED_P"
    /\ central' = [central EXCEPT !.pc = "save", !.keys = FullKeys(Head(nq).root),
                                  !.tk = [NoStore EXCEPT !.root = Head(nq).root]]
    /\ nq' = Tail(nq)
    /\ UNCHANGED <<vars, store, paired, runs, faults, link, write, att, cp3>>

(* Any other notification raises ResumeError. *)
CUnexpected ==
    /\ \/ Received("INIT") /\ ~OwnAccept(Head(nq)) /\ Head(nq).type # "REJECT"
       \/ /\ Received("FINISH_C")
          /\ ~(Head(nq).type = "FINISH_P" /\ Head(nq).key = central.keys)
    /\ Fallback
    /\ UNCHANGED <<vars, store, paired, runs, faults, cp3>>

(* TicketStore.save: an exhausted ticket deletes the file; one that has    *)
(* just expired raises ResumeError; else the file is replaced at once.     *)
CSave ==
    /\ central.pc = "save"
    /\ IF Expired(central.tk)
       THEN UNCHANGED store /\ Fallback
       ELSE /\ store' = central.tk
            /\ Send([central EXCEPT !.seq = 0],
                    [type |-> "APP", key |-> central.keys, seq |-> 0])
    /\ UNCHANGED <<vars, paired, runs, faults, cp3>>

CPong ==
    /\ Received("APP")
    /\ nq' = Tail(nq)
    /\ IF Head(nq).type = "PONG" /\ Head(nq).key = central.keys /\ Head(nq).seq = central.seq
       THEN IF central.seq + 1 < Rounds
            THEN /\ central' = [central EXCEPT !.seq = @ + 1, !.pc = "write"]
                 /\ write' = [type |-> "APP", key |-> central.keys, seq |-> central.seq + 1]
                 /\ att' = "none" /\ UNCHANGED link
            ELSE Finish("ok")
       ELSE Finish("failed")
    /\ UNCHANGED <<vars, store, paired, runs, faults, cp3>>

(* receive() on a lost link: a queued notification fails require_link.     *)
CLinkGone ==
    /\ central.pc = "read" /\ nq # <<>> /\ ~link
    /\ Finish("failed")
    /\ UNCHANGED <<vars, store, paired, runs, faults, cp3>>
CLinkGoneEarly ==
    /\ central.pc \in {"secure", "pair"} /\ ~link
    /\ Finish("failed")
    /\ UNCHANGED <<vars, store, paired, runs, faults, cp3>>

(* asyncio.wait_for times out: nothing is on its way, or the peer is slow. *)
Silent == ~link \/ (pc = "free" /\ cp3 # "BUSY")
\* Mutant: no time limit once the link is gone.
CTimeoutLinked ==
    /\ central.pc = "read" /\ nq = <<>> /\ link /\ Silent
    /\ Fallback
    /\ UNCHANGED <<vars, store, paired, runs, faults, cp3>>
CTimeout ==
    /\ central.pc = "read" /\ nq = <<>> /\ Silent
    /\ Fallback
    /\ UNCHANGED <<vars, store, paired, runs, faults, cp3>>

-----------------------------------------------------------------------------
(* The Peripheral: write_control of main.c around the resumption service.  *)
(* The BT RX thread delivers a pairing's bond callback before any later    *)
(* write of the same link; an erasure's callback comes on another thread.  *)
Arrived(t) == write.type = t /\ link /\ owner # 0 /\ ~(bondNotice /\ central.cold)
Ready == cp3 \in {"IDLE", "APP_SECURE"}
Notify(m) == nq' = Append(nq, m)
Respond(r) == att' = r /\ write' = NoWrite

PInitTaken ==
    /\ Arrived("INIT") /\ Ready
    /\ \E np \in PNonces :
           /\ InitTaken(write, np, "none", TRUE)
           /\ Notify([type |-> "ACCEPT", keys |-> ResumeKeys(write, np)])
    /\ Respond("ok")
    /\ UNCHANGED <<store, paired, central, runs, faults, link, cp3>>
PInitRejected ==
    /\ Arrived("INIT") /\ Ready
    /\ InitRejected(write, "none")
    /\ Notify([type |-> "REJECT"]) /\ Respond("ok")
    /\ UNCHANGED <<store, paired, central, runs, faults, link, cp3>>
PFinishAnswered ==
    /\ Arrived("FINISH_C") /\ Ready
    /\ FinishAnswered(write.key)
    /\ Notify([type |-> "FINISH_P", key |-> write.key])
    /\ write' = NoWrite
    /\ UNCHANGED <<store, paired, central, runs, faults, link, att, cp3>>
PFinishRejected ==
    /\ Arrived("FINISH_C") /\ Ready
    /\ FinishRejected(write.key, FALSE, TRUE)
    /\ Notify([type |-> "REJECT"]) /\ Respond("ok")
    /\ UNCHANGED <<store, paired, central, runs, faults, link, cp3>>

(* The write's response follows the commit.  A deadline, expiry or bond    *)
(* change between the notification and the commit disturbs the run.        *)
\* Mutant: a failed commit is answered like a successful one.
PCommitSilent ==
    /\ Commit
    /\ att' = "ok"
    /\ central' = [central EXCEPT !.clean = @ /\ CommitAllowed]
    /\ UNCHANGED <<store, paired, runs, faults, link, write, nq, cp3>>
PCommit ==
    /\ Commit
    /\ att' = IF CommitAllowed THEN "ok" ELSE "err"
    /\ central' = [central EXCEPT !.clean = @ /\ CommitAllowed]
    /\ UNCHANGED <<store, paired, runs, faults, link, write, nq, cp3>>

PApp ==
    /\ Arrived("APP") /\ Ready
    /\ AppAnswered(write.key, write.seq, TRUE)
    /\ Notify([type |-> "PONG", key |-> session.keys, seq |-> tx]) /\ Respond("ok")
    /\ UNCHANGED <<store, paired, central, runs, faults, link, cp3>>
PAppDenied ==
    /\ Arrived("APP") /\ Ready /\ ~AppGenuine(write.key, write.seq)
    /\ ControlDenied
    /\ Respond("err")
    /\ UNCHANGED <<store, paired, central, runs, faults, link, nq, cp3>>
PNotReady ==
    /\ \E t \in {"INIT", "FINISH_C", "APP"} : Arrived(t)
    /\ ~Ready /\ Respond("err")
    /\ UNCHANGED <<vars, store, paired, central, runs, faults, link, nq, cp3>>

(* Any other control write while a resumed session exists aborts it; CP3   *)
(* runs once per link.                                                     *)
PFullStart ==
    /\ Arrived("FULL") /\ Unlocked
    /\ IF session.state # "IDLE"
       THEN Abort /\ Respond("err") /\ UNCHANGED cp3
       ELSE /\ UNCHANGED vars
            /\ IF cp3 = "IDLE" THEN cp3' = "BUSY" /\ Respond("ok")
                               ELSE UNCHANGED cp3 /\ Respond("err")
    /\ UNCHANGED <<store, paired, central, runs, faults, link, nq>>

(* v1_cp3_result_ready: FINISHED_P is queued, then the keys and the ticket *)
(* are committed under protocol_lock.                                      *)
PFullIssued ==
    /\ cp3 = "BUSY" /\ link
    /\ FullIssued
    /\ cp3' = "APP_SECURE" /\ Notify([type |-> "FINISHED_P", root |-> issued + 1])
    /\ UNCHANGED <<store, paired, central, runs, faults, link, write, att>>

PDisconnected ==
    /\ ~link /\ Disconnected
    /\ cp3' = "IDLE"
    /\ UNCHANGED <<store, paired, central, runs, faults, bleVars>>
PTerminate ==
    /\ link /\ owner # 0 /\ paired /\ ~HasBond
    /\ link' = FALSE /\ write' = NoWrite /\ att' = "none" /\ UNCHANGED nq
    /\ UNCHANGED <<vars, store, paired, central, runs, faults, cp3>>
PBondChanged ==
    /\ BondChanged
    /\ UNCHANGED <<store, paired, central, runs, faults, bleVars, cp3>>
PExpire ==
    /\ Expire
    /\ UNCHANGED <<store, paired, central, runs, faults, bleVars, cp3>>

-----------------------------------------------------------------------------
(* Time, and everything that may disturb a run. *)
Older(t) == [t EXCEPT !.age = IF t.root # 0 /\ @ < TTL THEN @ + 1 ELSE @]
SysTick ==
    /\ Tick
    /\ store' = Older(store)
    /\ \/ central.pc = "off" /\ UNCHANGED central
       \/ /\ central.pc # "off" /\ central.elapsed < RunTicks
          /\ central' = [central EXCEPT !.tk = Older(@), !.elapsed = @ + 1]
    /\ UNCHANGED <<paired, runs, faults, bleVars, cp3>>

Disturb == faults < MaxFaults /\ faults' = faults + 1
(* pq_resume_service_full fails after FINISHED_P was queued: the Central   *)
(* keeps a ticket for a root the Peripheral never installed.               *)
PFullRefused ==
    /\ Disturb /\ cp3 = "BUSY" /\ link
    /\ FullRefused(TRUE)
    /\ cp3' = "FAILED" /\ Notify([type |-> "FINISHED_P", root |-> Orphan])
    /\ central' = [central EXCEPT !.clean = FALSE]
    /\ UNCHANGED <<store, paired, runs, link, write, att>>
LinkLost ==
    /\ Disturb /\ link
    /\ link' = FALSE /\ write' = NoWrite /\ att' = "none" /\ nq' \in {nq, <<>>}
    /\ central' = [central EXCEPT !.clean = FALSE]
    /\ UNCHANGED <<vars, store, paired, runs, cp3>>
SlowPeer ==
    /\ Disturb /\ central.pc = "read" /\ nq = <<>> /\ ~Silent
    /\ FallbackAs(FALSE)
    /\ UNCHANGED <<vars, store, paired, runs, cp3>>
CentralCrash ==
    /\ Disturb /\ central.pc # "off"
    /\ central' = NoRun /\ HangUp
    /\ UNCHANGED <<vars, store, paired, runs, cp3>>
PeripheralReboot ==
    /\ Disturb /\ Reboot
    /\ link' = FALSE /\ write' = NoWrite /\ att' = "none" /\ UNCHANGED nq
    /\ central' = [central EXCEPT !.clean = FALSE] /\ cp3' = "IDLE"
    /\ UNCHANGED <<store, paired, runs>>
(* Button 4.  The firmware checks that no connection is tracked and then   *)
(* unpairs, so a connection may have come up in between; the host then     *)
(* terminates it, after writes that are already in.                        *)
OperatorClearsBonds ==
    /\ Disturb
    /\ BondErased(Self)
    /\ central' = [central EXCEPT !.clean = FALSE]
    /\ UNCHANGED <<store, paired, runs, bleVars, cp3>>
OperatorUnpairs ==
    /\ Disturb /\ paired /\ central.pc = "off"
    /\ paired' = FALSE
    /\ UNCHANGED <<vars, store, central, runs, bleVars, cp3>>

CentralStep ==
    \/ CConnect \/ CEncrypt \/ CPaired \/ CStaleBond \/ CBegin \/ CWritten
    \/ CAccepted \/ CRejected \/ CFinished \/ CFullFinished \/ CUnexpected
    \/ CSave \/ CPong \/ CLinkGone \/ CLinkGoneEarly \/ CTimeout
PeripheralStep ==
    \/ PInitTaken \/ PInitRejected \/ PFinishAnswered \/ PFinishRejected
    \/ PCommit \/ PApp \/ PAppDenied \/ PNotReady \/ PFullStart
    \/ PFullIssued \/ PDisconnected \/ PTerminate \/ PBondChanged \/ PExpire
Disturbance ==
    \/ LinkLost \/ SlowPeer \/ CentralCrash \/ PeripheralReboot
    \/ PFullRefused \/ OperatorClearsBonds \/ OperatorUnpairs

SysNext == CStart \/ CentralStep \/ PeripheralStep \/ SysTick \/ Disturbance

SysFairness == WF_sysVars(CentralStep) /\ WF_sysVars(PeripheralStep)
SysSpec == SysInit /\ [][SysNext]_sysVars
SysFairSpec == SysSpec /\ SysFairness

-----------------------------------------------------------------------------
(* Types of the variables this module adds; at most one notification is on *)
(* its way.                                                                *)
StoreSet == [root : 0 .. Orphan, uses : 0 .. MAX_USES - 1, age : 0 .. TTL]
CentralKeys == [root : 0 .. Orphan, sid : Sids \cup {0}, nc : Nonces \cup {0},
                np : PNonces \cup {0}]
RunSet == [pc : {"off", "connect", "secure", "pair", "load", "write", "read", "save"},
           step : {"NONE", "INIT", "FINISH_C", "FULL", "APP"},
           cold : BOOLEAN, force : BOOLEAN, fell : BOOLEAN, clean : BOOLEAN,
           tk : StoreSet, keys : CentralKeys, seq : 0 .. Rounds - 1,
           result : {"none", "ok", "failed"}, elapsed : 0 .. RunTicks]
Writes == {NoWrite, [type |-> "FULL"]}
          \cup [type : {"INIT"}, rid : 1 .. Orphan, mac : 1 .. Orphan, sid : Sids, nc : Nonces]
          \cup [type : {"FINISH_C"}, key : CentralKeys]
          \cup [type : {"APP"}, key : CentralKeys, seq : 0 .. Rounds - 1]
Notifications ==
    {[type |-> "REJECT"]} \cup [type : {"ACCEPT"}, keys : CentralKeys]
    \cup [type : {"FINISH_P"}, key : CentralKeys] \cup [type : {"FINISHED_P"}, root : 1 .. Orphan]
    \cup [type : {"PONG"}, key : CentralKeys, seq : 0 .. SEQ_MAX]
SysTypeOK ==
    /\ store \in StoreSet /\ paired \in BOOLEAN /\ central \in RunSet
    /\ runs \in 0 .. MaxRuns /\ faults \in 0 .. MaxFaults
    /\ link \in BOOLEAN /\ write \in Writes /\ att \in {"none", "ok", "err"}
    /\ nq = <<>> \/ \E m \in Notifications : nq = <<m>>
    /\ cp3 \in {"IDLE", "BUSY", "APP_SECURE", "FAILED"}

(* When both ends of a live link are APP_SECURE they hold the same keys,   *)
(* resumed or full, and their counters are at most one PING apart.         *)
BothSecureAgree ==
    link /\ central.step = "APP" /\ session.state = "SECURE" =>
        /\ central.keys = session.keys
        /\ rx = tx /\ rx \in {central.seq, central.seq + 1}

(* However counters drift apart after lost confirmations and crashes, the  *)
(* Central never counts a use of a ticket that the Peripheral did not: the *)
(* ATT response to FINISH_C is sent only after pq_resume_commit.           *)
CountNeverAhead ==
    store.root # 0 /\ store.root = ticket.root => store.uses <= ticket.successes

(* Types, and a count of uses that is never ahead of the Peripheral's.     *)
SystemInv == SysTypeOK /\ CountNeverAhead

(* Full fallback recovers from any mix of tickets on the two sides: a run  *)
(* that nothing disturbs ends APP_SECURE with all its round trips, whatever *)
(* expired, was lost or was forgotten before it started.                   *)
CleanRunSucceeds ==
    central.pc = "off" /\ central.clean => central.result = "ok"

(* Every run of the Central ends. *)
RunEnds == central.pc # "off" ~> central.pc = "off"

=============================================================================
